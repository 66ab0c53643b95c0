---------------------------- MODULE MCConnections ----------------------------
(***************************************************************************)
(* The life of a connection in parts: what the server is told when it is   *)
(* started (Settings) and the password it asks for (Passwords), whether a  *)
(* host may connect (Blacklist), how the two ends get to know each other   *)
(* (Handshake), what they say then (Session), the streams that all of it   *)
(* goes through (Streams), and the other kind of server (HTTPServer).      *)
(* part says which one a behaviour is about; the others stay as they are   *)
(* at first.                                                               *)
(***************************************************************************)
EXTENDS Blacklist, Sequences, TLC

CONSTANTS
  h1, h2,
  Offers, Supports, QueryResults,                                    \* Handshake
  OutSize, InSize, PipeSize, MinBulk, ItemSizes, Lengths, MaxBytes,      \* Streams
  MaxRow, Room, clientWaitTimeMillis, idleTimeout, MaxEvents,        \* Session
  PasswordLines, Challenges, Pieces, MaxRuns, LongBits,              \* Passwords
  Arguments, MaxArgs, Kind, Default, Numerals, OtherCase, Writers, Loggers,  \* Settings
  Sock, Requests, Portions, Files, LineSize, MethodRoom, PathRoom, Filters, Addresses,
  AddressBits,                                                       \* HTTPServer
  Parts                                                              \* those to look at

VARIABLES
  part,
  setup, sState, sMinor, sType, sEnd, cState, cMinor, cType, cEnd, toServer, toClient,
  written, obuf, sentUpTo, writing, pipe, shut, ibuf, reading, got,
  pb, s, sOut, serverQueue, clientQueue, c, cOut, events,
  file, owner, pc, password, runs, state, challenge, response, coming, typed, against,
  argv, position, value, log, status, priority,
  filter, fd, host, toArrive, unread, gone, session, beingRead, idle, due, wake, heard, answers

handshakeVars == <<setup, sState, sMinor, sType, sEnd, cState, cMinor, cType, cEnd, toServer, toClient>>
streamVars == <<written, obuf, sentUpTo, writing, pipe, shut, ibuf, reading, got>>
sessionVars == <<pb, s, sOut, serverQueue, clientQueue, c, cOut, events>>
passwordVars == <<file, owner, pc, password, runs, state, challenge, response, coming, typed, against>>
settingsVars == <<argv, position, value, log, status, priority>>
httpVars == <<filter, fd, host, toArrive, unread, gone, session, beingRead, idle, due, wake, heard, answers>>
programVars == <<passwordVars, settingsVars, httpVars>>

H == INSTANCE HandshakeProofs
B == INSTANCE StreamsProofs
M == INSTANCE SessionProofs WITH toServer <- serverQueue, toClient <- clientQueue
P == INSTANCE Passwords WITH Client <- Sock, Lines <- PasswordLines
S == INSTANCE Settings WITH i <- position
W == INSTANCE HTTPServer WITH Hosts <- Addresses, coming <- toArrive, reading <- beingRead

(* What the theorems about the parts assume of their constants. *)
ASSUME StreamSizes == B!SizesAssumption
ASSUME HandshakeLists == H!ListsAssumption
ASSUME SessionSizes == M!SizeAssumption
ASSUME HttpSizes == W!SizesAssumption
ASSUME PasswordLinesOfBytes == P!LinesAssumption
ASSUME CipherTellsApart == P!CipherAssumption
ASSUME CommandLineOfWords == S!WordsAssumption

(* A ciphertext that TLC checks the cipher against; no proof uses it. *)
ASSUME CipherIsDES == P!CipherIsDES

(* While another part is looked at the handshake is not begun, there is no *)
(* password and no filter.                                                 *)
Untried ==
  /\ setup.server = 8 /\ ~setup.protocol3_3 /\ ~setup.clientOrder /\ ~setup.password
  /\ setup.offered = <<>> /\ setup.supported = <<>> /\ sEnd = "OPEN"

PartsInit ==
  /\ part \in Parts
  /\ Init /\ B!Init /\ M!Init
  /\ P!Init /\ (part = "passwords" \/ file = <<>>)
  /\ S!Init
  /\ W!Init /\ (part = "http" \/ filter = <<>>)
  /\ H!Init /\ (part = "handshake" \/ Untried)

PartsNext ==
  /\ UNCHANGED part
  /\ \/ /\ UNCHANGED programVars
        /\ \/ part = "blacklist" /\ Next /\ UNCHANGED <<handshakeVars, streamVars, sessionVars>>
           \/ part = "handshake" /\ H!Next /\ UNCHANGED <<vars, streamVars, sessionVars>>
           \/ part = "streams" /\ B!Next /\ UNCHANGED <<vars, handshakeVars, sessionVars>>
           \/ part = "session" /\ M!Next /\ UNCHANGED <<vars, handshakeVars, streamVars>>
     \/ /\ UNCHANGED <<vars, handshakeVars, streamVars, sessionVars>>
        /\ \/ part = "passwords" /\ P!Next /\ UNCHANGED <<settingsVars, httpVars>>
           \/ part = "settings" /\ S!Next /\ UNCHANGED <<passwordVars, httpVars>>
           \/ part = "http" /\ W!Next /\ UNCHANGED <<passwordVars, settingsVars>>

(* The fairness of the parts: each says why the code justifies it. *)
PartsSpec ==
  /\ PartsInit /\ [][PartsNext]_<<part, vars, handshakeVars, streamVars, sessionVars, programVars>>
  /\ WF_handshakeVars(part = "handshake" /\ H!Server)
  /\ WF_handshakeVars(part = "handshake" /\ H!Client)
  /\ WF_streamVars(part = "streams" /\ (B!Write \/ B!WriteFails))
  /\ WF_streamVars(part = "streams" /\ B!Read)
  /\ WF_streamVars(part = "streams" /\ B!ReadItem)
  /\ WF_sessionVars(part = "session" /\ M!ServerStep)
  /\ WF_sessionVars(part = "session" /\ M!ClientStep)
  /\ WF_sessionVars(part = "session" /\ M!Request)
  /\ WF_httpVars(part = "http" /\ W!Reading)
  /\ WF_httpVars(part = "http" /\ W!CheckTimeouts)
  /\ WF_httpVars(part = "http" /\ W!Tick)

-----------------------------------------------------------------------------
(* Handshake: what arrives next is what the end is waiting for.            *)
NeverMisread == part = "handshake" => H!TypeOK /\ H!NeverMisread

(* Both ends that are in mean the same version and security type, the one  *)
(* that the preferences say, and nobody is in without the password; a      *)
(* client that is refused is told so, and one that is queried waits.       *)
AgreeOnSecurity ==
  part = "handshake" =>
    H!AgreeOnSecurity /\ H!ChoiceIsPreferred /\ H!RefusedClientKnows /\ H!QueriedClientWaits

(* A handshake ends with both ends in normal operation or both closed, and *)
(* a session of the HTTP server ends.                                      *)
ConversationsEnd ==
  /\ part = "handshake" => H!HandshakeEnds
  /\ part = "http" => W!SessionsEnd

(* Streams: no byte is lost, doubled or out of order.                      *)
InOrder == part = "streams" => B!TypeOK /\ B!InOrder

(* Session: the client never meets an item that it does not wait for.      *)
ClientUnderstands == part = "session" => M!TypeOK /\ M!ClientUnderstands

(* Streams and session: what has been flushed arrives, and in the end the  *)
(* client knows the size and the cursor of the desktop.                    *)
CatchesUp ==
  /\ part = "streams" => B!FlushedArrives
  /\ part = "session" => M!CatchesUp

(* Session: a server that waits for one client does not wait for ever.     *)
NotStuckForEver == part = "session" => M!NotStuckForEver

(* Passwords: who knows the password in the file gets in, and nobody else. *)
PasswordsAreKept == part = "passwords" => P!PasswordsAreKept

(* Settings: each parameter has what the command line says.                *)
SettingsAreTaken == part = "settings" => S!SettingsAreTaken

(* HTTPServer: the answer to a request is sent once, when it is complete,  *)
(* to hosts that the filter lets in.                                       *)
RequestsAreAnswered == part = "http" => W!RequestsAreAnswered

-----------------------------------------------------------------------------
Hosts == {h1, h2}

(* Every list without repetitions of up to two types. *)
Lists(T) == {<<>>} \cup {<<t>> : t \in T} \cup {l \in T \X T : l[1] # l[2]}

AllOffers == Lists({"None", "VncAuth", "RA2"})
AllSupports == Lists({"None", "VncAuth"})

(* Lines of 0, 5, 6 and 9 bytes, and one of 8 with a byte beyond ASCII.    *)
Bits(n) == {b \in 0 .. 7 : (n \div 2 ^ b) % 2 = 1}
Letters(n) == [k \in 1 .. n |-> Bits(96 + k)]
SomeLines == {<<>>, Letters(5), Letters(6), Letters(9), [Letters(8) EXCEPT ![2] = @ \cup {7}]}
SomeChallenges == {[k \in 1 .. 16 |-> Bits(k * 13)]}

SomeKinds == ("AlwaysShared" :> "bool") @@ ("ThreadPriority" :> "int") @@ ("SecurityTypes" :> "string") @@ ("Log" :> "log")
Defaults == ("AlwaysShared" :> FALSE) @@ ("ThreadPriority" :> 10) @@ ("SecurityTypes" :> <<"VncAuth">>) @@ ("Log" :> <<>>)
SomeNumerals == ("0" :> 0) @@ ("1" :> 1) @@ ("30" :> 30)
SomeWords == ("alwaysshared" :> "AlwaysShared") @@ ("log" :> "Log") @@ ("none" :> "None") @@ ("ON" :> "on")
SomeArguments ==
  {<<"-", "alwaysshared">>, <<"-", "-", "AlwaysShared">>, <<"AlwaysShared", "=", "0">>, <<"-", "AlwaysShared", "=", "maybe">>,
   <<"-", "ThreadPriority">>, <<"30">>, <<"-", "-", "ThreadPriority", "=", "-", "1">>,
   <<"-", "SecurityTypes">>, <<"none", ",", "RA3", ",", "VncAuth">>,
   <<"-", "log">>, <<"*", ":", "stderr", ":", "30">>, <<"-", "Log", "=", "Main", ":", "stdout">>,
   <<"Log", "=", "Main", ":", "file", ":", "1", ",", "*", ":", "STDOUT", ":", "0">>,
   <<"Log", "=", ",", "Main", ":", "stdout", ":", "1">>}

Get(path) == <<"GET", " ", path, " ", "HTTP/1.1">>
EmptyLine == <<"CR", "LF">>
SomeRequests ==
  {<<"LF">> \o Get("/a") \o EmptyLine \o EmptyLine,
   <<"HEAD", " ", "/a", " ", "HTTP/1.1", "LF", "Host:", " ", "x">> \o EmptyLine \o <<"LF">>,
   Get("/b") \o EmptyLine \o <<"a", "b", "c", "d", "e", "f">> \o EmptyLine \o EmptyLine,
   <<"GET", " ">> \o EmptyLine \o EmptyLine, <<"PUT", " ", "/a", " ", "HTTP/1.1">> \o EmptyLine,
   Get("/a") \o <<"x", "y">> \o EmptyLine \o EmptyLine,
   <<"CR", " ", "GET", "/a", "x", "y", "LF", "LF">>, <<"GET", "CR", "/a", " ", "y", "LF", "LF">>,
   <<"GET", " ", "/a", "x", "y", "LF">> \o EmptyLine, <<"PUT", "PUT", "x", " ", "y", "LF">>}
SomeFiles == {<<"/a">>, <<"/a", "x">>}

Pattern(sign, address, mask) == [sign |-> sign, address |-> Bits(address), mask |-> mask]
No == [form |-> "none", bits |-> 0 .. 3]
First(n) == [form |-> "bits", bits |-> 4 - n .. 3]
SomeFilters ==
  {<<>>, <<Pattern("+", 15, No)>>, <<Pattern("x", 15, First(2))>>,
   <<Pattern("-", 9, First(4)), Pattern("?", 8, First(1)), Pattern("+", 4, [form |-> "dots", bits |-> {2, 3}])>>,
   <<Pattern("-", 1, First(2)), Pattern("+", 15, No)>>}
SomeAddresses == {Bits(n) : n \in {1, 5, 9, 12, 15}}
=============================================================================
