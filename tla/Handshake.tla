----------------------------- MODULE Handshake -----------------------------
(***************************************************************************)
(* The beginning of a connection, seen from both ends: SConnection and     *)
(* VNCSConnectionST in the server, CConnection in the viewer, and the      *)
(* security objects of either, joined by a TCP connection.                 *)
(*                                                                         *)
(* Each message keeps its meaning, and each end knows what it expects:     *)
(* one that reads a message as something else is lost.  A step is one call *)
(* of processMsg(); a client that waits inside a call for the rest of a    *)
(* message is in a state of its own.                                       *)
(***************************************************************************)
EXTENDS Integers, Sequences, SequencesExt

CONSTANTS
  Offers,        \* lists of Type the parameter SecurityTypes of the server may have
  Supports,      \* lists of Legacy, the types a viewer added by addSecType()
  QueryResults   \* what queryConnection() may answer: "ACCEPT", "REJECT", "PENDING"

Type   == {"None", "VncAuth", "RA2"}
Minor  == {3, 8}                    \* defaultMinorVersion: see protocol3_3
Legacy == {"None", "VncAuth"}       \* what a version 3.3 message can name

(* What the comments at the constants say. *)
ListsAssumption ==
  /\ Offers \subseteq Seq(Type)
  /\ Supports \subseteq Seq(Legacy)
  /\ QueryResults \subseteq {"ACCEPT", "REJECT", "PENDING"}

Setup ==
  [server : Minor,              \* the version the server begins with
   protocol3_3 : BOOLEAN,       \* CConnection::useProtocol3_3
   offered : Offers,            \* SConnection::secTypes
   supported : Supports,        \* CConnection::secTypes
   clientOrder : BOOLEAN,       \* CConnection::clientSecTypeOrder
   password : BOOLEAN]          \* both ends have the same password

VARIABLES
  setup,     \* how the two ends are configured
  sState,    \* SConnection::state_
  sMinor,    \* SConnection::cp.minorVersion
  sType,     \* SConnection::security->getType()
  sEnd,      \* why the server closed the connection
  cState,    \* CConnection::state_
  cMinor,    \* CConnection::cp.minorVersion
  cType,     \* CConnection::security->getType()
  cEnd,      \* why the client closed the connection
  toServer,  \* what the client has sent and the server has not read
  toClient

serverVars == <<sState, sMinor, sType, sEnd>>
clientVars == <<cState, cMinor, cType, cEnd>>
vars == <<setup, serverVars, clientVars, toServer, toClient>>

Message ==
  [kind : {"version"}, minor : Minor]
    \cup [kind : {"type33", "type"}, type : Type \cup {"Invalid"}]
    \cup [kind : {"types"}, types : Offers \cup {<<>>}]
    \cup [kind : {"response", "result"}, ok : BOOLEAN]
    \cup [kind : {"challenge", "reason", "clientInit", "serverInit"}]

TypeOK ==
  /\ setup \in Setup
  /\ sState \in {"PROTOCOL_VERSION", "SECURITY_TYPE", "SECURITY", "QUERYING",
                 "INITIALISATION", "NORMAL", "CLOSING"}
  /\ sMinor \in Minor
  /\ sType \in Type \cup {"Invalid"}
  /\ sEnd \in {"OPEN", "REFUSED", "BOGUS", "OTHER"}
  /\ cState \in {"PROTOCOL_VERSION", "SECURITY_TYPES", "SECURITY", "SECURITY_RESULT",
                 "REASON", "INITIALISATION", "NORMAL", "INVALID"}
  /\ cMinor \in Minor
  /\ cType \in Type \cup {"Invalid"}
  /\ cEnd \in {"OPEN", "TOLD", "NO_MATCH", "EOF", "OTHER"}
  /\ toServer \in Seq(Message)
  /\ toClient \in Seq(Message)
  /\ sState = "CLOSING" <=> sEnd # "OPEN"
  /\ cState = "INVALID" <=> cEnd # "OPEN"

Version(n)    == [kind |-> "version", minor |-> n]
Type33(t)     == [kind |-> "type33", type |-> t]
Types(ts)     == [kind |-> "types", types |-> ts]
Chosen(t)     == [kind |-> "type", type |-> t]
Response(ok)  == [kind |-> "response", ok |-> ok]
Result(ok)    == [kind |-> "result", ok |-> ok]
Signal(kind)  == [kind |-> kind]

-----------------------------------------------------------------------------
(* The server                                                              *)

(* The next message, which is of the given kind, is read, and ms are sent. *)
ServerTakes(kind, ms) ==
  /\ toServer # <<>>
  /\ Head(toServer).kind = kind
  /\ toServer' = Tail(toServer)
  /\ toClient' = toClient \o ms

ServerCloses(why) == sState' = "CLOSING" /\ sEnd' = why

(* throwConnFailedException() before the security types were sent. *)
ConnFailed(m) == <<IF m = 3 THEN Type33("Invalid") ELSE Types(<<>>), Signal("reason")>>

(* Mutant: the result is sent whatever the type.                           *)
ResultAlways(m, t, ok) ==
  IF ok \/ m < 8 THEN <<Result(ok)>> ELSE <<Result(ok), Signal("reason")>>

(* What approveConnection() tells a client with this version and type.     *)
ResultSent(m, t, ok) ==
  IF m < 8 /\ t = "None" THEN <<>>
  ELSE IF ok \/ m < 8 THEN <<Result(ok)>>
  ELSE <<Result(ok), Signal("reason")>>

(* The rest of a call when the security object is done and has let the     *)
(* client in, or not: queryConnection() and approveConnection().  The call *)
(* reads a message of the given kind and has sent ms before.               *)
Decided(kind, ok, m, t, ms) ==
  \/ /\ ok /\ "ACCEPT" \in QueryResults
     /\ ServerTakes(kind, ms \o ResultSent(m, t, TRUE))
     /\ \/ sState' = "INITIALISATION" /\ UNCHANGED sEnd
        \/ ServerCloses("OTHER")       \* authSuccess(): no desktop
  \/ /\ ~ok \/ "REJECT" \in QueryResults
     /\ ServerTakes(kind, ms \o ResultSent(m, t, FALSE))
     /\ ServerCloses("REFUSED")
  \/ /\ ok /\ "PENDING" \in QueryResults
     /\ ServerTakes(kind, ms)
     /\ sState' = "QUERYING"
     /\ UNCHANGED sEnd

(* getSSecurity() and the first processMsg() of the object. *)
SecurityBegins(kind, m, t, ms) ==
  /\ sType' = t
  /\ \/ t = "None" /\ Decided(kind, TRUE, m, t, ms)
     \/ /\ t = "VncAuth"
        /\ ServerTakes(kind, Append(ms, Signal("challenge")))
        /\ sState' = "SECURITY"
        /\ UNCHANGED sEnd

(* The version the server works with when a client asks for 3.n. *)
Cooked(n) == IF n >= 8 THEN 8 ELSE IF n = 7 THEN 7 ELSE 3

(* processVersionMsg().  The host may be blacklisted. *)
ServerVersion ==
  /\ sState = "PROTOCOL_VERSION"
  /\ toServer # <<>>
  /\ LET m == Cooked(Head(toServer).minor)
         i == SelectInSeq(setup.offered, LAMBDA t : t \in Legacy)
         failed == ServerTakes("version", ConnFailed(m)) /\ ServerCloses("REFUSED")
     IN
     /\ sMinor' = m
     /\ \/ failed /\ UNCHANGED sType
        \/ /\ m = 3 /\ i > 0
           /\ SecurityBegins("version", m, setup.offered[i], <<Type33(setup.offered[i])>>)
        \/ /\ m > 3 /\ setup.offered # <<>>
           /\ ServerTakes("version", <<Types(setup.offered)>>)
           /\ sState' = "SECURITY_TYPE"
           /\ UNCHANGED <<sType, sEnd>>
  /\ UNCHANGED <<setup, clientVars>>

(* processSecurityTypeMsg() *)
ServerSecurityType ==
  /\ sState = "SECURITY_TYPE"
  /\ toServer # <<>>
  /\ LET t == Head(toServer).type IN
     IF t \in Legacy /\ Contains(setup.offered, t)
     THEN SecurityBegins("type", sMinor, t, <<>>)
     ELSE /\ ServerTakes("type", <<>>)
          /\ ServerCloses("REFUSED")
          /\ UNCHANGED sType
  /\ UNCHANGED <<setup, sMinor, clientVars>>

(* Mutant: any response will do. *)
ServerResponseUnchecked ==
  /\ sState = "SECURITY"
  /\ toServer # <<>>
  /\ Decided("response", TRUE, sMinor, sType, <<>>)
  /\ UNCHANGED <<setup, sMinor, sType, clientVars>>

(* processSecurityMsg(): the response to the challenge is complete. *)
ServerResponse ==
  /\ sState = "SECURITY"
  /\ toServer # <<>>
  /\ Decided("response", Head(toServer).ok, sMinor, sType, <<>>)
  /\ UNCHANGED <<setup, sMinor, sType, clientVars>>

(* The answer to a query that was PENDING. *)
ApproveConnection ==
  /\ sState = "QUERYING"
  /\ \E ok \in BOOLEAN :
       /\ toClient' = toClient \o ResultSent(sMinor, sType, ok)
       /\ \/ ok /\ sState' = "INITIALISATION" /\ UNCHANGED sEnd
          \/ ok /\ ServerCloses("OTHER")
          \/ ~ok /\ ServerCloses("REFUSED")
  /\ UNCHANGED <<setup, sMinor, sType, clientVars, toServer>>

(* "bogus data from client while querying" *)
ServerBogus ==
  /\ sState = "QUERYING"
  /\ toServer # <<>>
  /\ ServerCloses("BOGUS")
  /\ UNCHANGED <<setup, sMinor, sType, clientVars, toServer, toClient>>

(* clientInit(); the server may be in use already. *)
ServerClientInit ==
  /\ sState = "INITIALISATION"
  /\ \/ /\ ServerTakes("clientInit", <<Signal("serverInit")>>)
        /\ sState' = "NORMAL"
        /\ UNCHANGED sEnd
     \/ ServerTakes("clientInit", <<>>) /\ ServerCloses("OTHER")
  /\ UNCHANGED <<setup, sMinor, sType, clientVars>>

(* The client is gone; or the server closes for reasons of its own. *)
ServerHangsUp ==
  /\ sState # "CLOSING"
  /\ ServerCloses("OTHER")
  /\ UNCHANGED <<setup, sMinor, sType, clientVars, toServer, toClient>>

ServerEndOfStream == cState = "INVALID" /\ toServer = <<>> /\ ServerHangsUp

-----------------------------------------------------------------------------
(* The client                                                              *)

ClientTakes(kind, ms) ==
  /\ toClient # <<>>
  /\ Head(toClient).kind = kind
  /\ toClient' = Tail(toClient)
  /\ toServer' = toServer \o ms

ClientEnds(why) == cState' = "INVALID" /\ cEnd' = why

ClientGoesTo(s) == cState' = s /\ UNCHANGED cEnd

(* processVersionMsg() *)
ClientVersion ==
  /\ cState = "PROTOCOL_VERSION"
  /\ toClient # <<>>
  /\ LET n == Head(toClient).minor
         m == IF setup.protocol3_3 \/ n < 7 THEN 3 ELSE IF n > 8 THEN 8 ELSE n
     IN cMinor' = m /\ ClientTakes("version", <<Version(m)>>)
  /\ ClientGoesTo("SECURITY_TYPES")
  /\ UNCHANGED <<setup, cType, serverVars>>

(* One round of the loop over the types ts the server offers, with the     *)
(* choice so far and its place in the client's own list.                   *)
Better(best, t) ==
  LET i == SelectInSeq(setup.supported, LAMBDA s : s = t)
  IN IF (best.type = "Invalid" \/ setup.clientOrder) /\ i > 0 /\ i < best.pos
     THEN [type |-> t, pos |-> i]
     ELSE best

Choice(ts) ==
  LET best[n \in 0 .. Len(ts)] ==
        IF n = 0 THEN [type |-> "Invalid", pos |-> Len(setup.supported) + 1]
        ELSE Better(best[n - 1], ts[n])
  IN best[Len(ts)].type

(* Mutant: after "None" a result is always waited for.                     *)
AwaitResultAlways(kind, m, t, ms) ==
  /\ cType' = t
  /\ ClientTakes(kind, ms)
  /\ ClientGoesTo(IF t = "VncAuth" THEN "SECURITY" ELSE "SECURITY_RESULT")

(* getCSecurity() and what follows in the same call: with "None" there is  *)
(* nothing to do, and before version 3.8 no result to wait for, so that    *)
(* securityCompleted() sends the ClientInit message at once.               *)
ClientSecurity(kind, m, t, ms) ==
  /\ cType' = t
  /\ IF t = "None" /\ m < 8
     THEN /\ ClientTakes(kind, Append(ms, Signal("clientInit")))
          /\ ClientGoesTo("INITIALISATION")
     ELSE /\ ClientTakes(kind, ms)
          /\ ClientGoesTo(IF t = "None" THEN "SECURITY_RESULT" ELSE "SECURITY")

(* throwConnFailedException() reads the reason; nobody offers a match.     *)
ClientFails(kind, refused) ==
  /\ ClientTakes(kind, <<>>)
  /\ IF refused THEN ClientGoesTo("REASON") ELSE ClientEnds("NO_MATCH")
  /\ UNCHANGED cType

(* processSecurityTypesMsg(), version 3.3 and later. *)
ClientSecurityType33 ==
  /\ cState = "SECURITY_TYPES"
  /\ cMinor = 3
  /\ toClient # <<>>
  /\ LET t == Head(toClient).type IN
     IF Contains(setup.supported, t)
     THEN ClientSecurity("type33", cMinor, t, <<>>)
     ELSE ClientFails("type33", t = "Invalid")
  /\ UNCHANGED <<setup, cMinor, serverVars>>

ClientSecurityTypes ==
  /\ cState = "SECURITY_TYPES"
  /\ cMinor > 3
  /\ toClient # <<>>
  /\ LET ts == Head(toClient).types IN
     IF Choice(ts) # "Invalid"
     THEN ClientSecurity("types", cMinor, Choice(ts), <<Chosen(Choice(ts))>>)
     ELSE ClientFails("types", ts = <<>>)
  /\ UNCHANGED <<setup, cMinor, serverVars>>

(* CSecurityVncAuth::processMsg(); the user may give no password. *)
ClientChallenge ==
  /\ cState = "SECURITY"
  /\ \/ /\ ClientTakes("challenge", <<Response(setup.password)>>)
        /\ ClientGoesTo("SECURITY_RESULT")
     \/ ClientTakes("challenge", <<>>) /\ ClientEnds("OTHER")
  /\ UNCHANGED <<setup, cMinor, cType, serverVars>>

(* processSecurityResultMsg(); a failure has a reason since version 3.8. *)
ClientResult ==
  /\ cState = "SECURITY_RESULT"
  /\ toClient # <<>>
  /\ \/ /\ Head(toClient).ok
        /\ ClientTakes("result", <<Signal("clientInit")>>)
        /\ ClientGoesTo("INITIALISATION")
     \/ /\ ~Head(toClient).ok
        /\ ClientTakes("result", <<>>)
        /\ IF cMinor >= 8 THEN ClientGoesTo("REASON") ELSE ClientEnds("TOLD")
  /\ UNCHANGED <<setup, cMinor, cType, serverVars>>

ClientReason ==
  /\ cState = "REASON"
  /\ ClientTakes("reason", <<>>)
  /\ ClientEnds("TOLD")
  /\ UNCHANGED <<setup, cMinor, cType, serverVars>>

(* readServerInit() and serverInit() *)
ClientServerInit ==
  /\ cState = "INITIALISATION"
  /\ ClientTakes("serverInit", <<>>)
  /\ ClientGoesTo("NORMAL")
  /\ UNCHANGED <<setup, cMinor, cType, serverVars>>

ClientEndOfStream ==
  /\ cState # "INVALID"
  /\ sState = "CLOSING"
  /\ toClient = <<>>
  /\ ClientEnds("EOF")
  /\ UNCHANGED <<setup, cMinor, cType, serverVars, toServer, toClient>>

(* The user closes the viewer. *)
ClientHangsUp ==
  /\ cState # "INVALID"
  /\ ClientEnds("OTHER")
  /\ UNCHANGED <<setup, cMinor, cType, serverVars, toServer, toClient>>

-----------------------------------------------------------------------------
(* initialiseProtocol() on both sides, or writeConnFailedFromScratch() for *)
(* a blacklisted host.                                                     *)
Init ==
  /\ setup \in Setup
  /\ \/ /\ sState = "PROTOCOL_VERSION"
        /\ sEnd = "OPEN"
        /\ toClient = <<Version(setup.server)>>
     \/ /\ sState = "CLOSING"
        /\ sEnd = "REFUSED"
        /\ toClient = <<Version(3)>> \o ConnFailed(3)
  /\ sMinor = setup.server
  /\ sType = "Invalid"
  /\ cState = "PROTOCOL_VERSION"
  /\ cMinor = 3
  /\ cType = "Invalid"
  /\ cEnd = "OPEN"
  /\ toServer = <<>>

Server ==
  \/ ServerVersion
  \/ ServerSecurityType
  \/ ServerResponse
  \/ ApproveConnection
  \/ ServerBogus
  \/ ServerClientInit
  \/ ServerEndOfStream

Client ==
  \/ ClientVersion
  \/ ClientSecurityType33
  \/ ClientSecurityTypes
  \/ ClientChallenge
  \/ ClientResult
  \/ ClientReason
  \/ ClientServerInit
  \/ ClientEndOfStream

(* After the handshake there is the session, which ends some time. *)
Ended == sState = "CLOSING" /\ cState = "INVALID" /\ UNCHANGED vars

Next == Server \/ Client \/ ServerHangsUp \/ ClientHangsUp \/ Ended

Spec == Init /\ [][Next]_vars

(* Each end reads what has arrived, and a pending query is answered.       *)
FairSpec == Spec /\ WF_vars(Server) /\ WF_vars(Client)

-----------------------------------------------------------------------------
(* Properties                                                              *)

ServerExpects ==
  CASE sState = "PROTOCOL_VERSION" -> "version"
    [] sState = "SECURITY_TYPE" -> "type"
    [] sState = "SECURITY" -> "response"
    [] sState = "INITIALISATION" -> "clientInit"
    [] OTHER -> "nothing"

ClientExpects ==
  CASE cState = "PROTOCOL_VERSION" -> "version"
    [] cState = "SECURITY_TYPES" -> IF cMinor = 3 THEN "type33" ELSE "types"
    [] cState = "SECURITY" -> "challenge"
    [] cState = "SECURITY_RESULT" -> "result"
    [] cState = "REASON" -> "reason"
    [] cState = "INITIALISATION" -> "serverInit"
    [] OTHER -> "nothing"

(* Nobody takes a message for another one: whatever the two ends are       *)
(* configured for, whichever version they settle on and whoever is refused *)
(* at whatever point, what arrives next is what the end is waiting for.    *)
NeverMisread ==
  /\ toServer # <<>> /\ ServerExpects # "nothing" => Head(toServer).kind = ServerExpects
  /\ toClient # <<>> /\ ClientExpects # "nothing" => Head(toClient).kind = ClientExpects

In == {"INITIALISATION", "NORMAL"}

(* Once both ends are in they mean the same version and the same security  *)
(* type, which both have; and nobody is in without the password when the   *)
(* type asks for one.                                                      *)
AgreeOnSecurity ==
  /\ sState \in In /\ sType = "VncAuth" => setup.password
  /\ sState \in In /\ cState \in In =>
       /\ sMinor = cMinor
       /\ sType = cType
       /\ Contains(setup.offered, sType) /\ Contains(setup.supported, sType)

(* The type a list of preferences names first among those of another list. *)
FirstOf(ts, us) == LET i == SelectInSeq(ts, LAMBDA t : Contains(us, t))
                   IN IF i = 0 THEN "Invalid" ELSE ts[i]

(* setClientSecTypeOrder(): the client obeys "the server's security type   *)
(* preference", or picks the first of its own list that the server has.    *)
ChoiceIsPreferred ==
  cMinor > 3 /\ cType # "Invalid" =>
    cType = IF setup.clientOrder THEN FirstOf(setup.supported, setup.offered)
            ELSE FirstOf(setup.offered, setup.supported)

(* Before version 3.8 there is no word about the security type "None".     *)
Silent == sMinor < 8 /\ sType = "None"

(* A client that is refused is told so, and never believes it is in.       *)
RefusedClientKnows ==
  sEnd = "REFUSED" /\ ~Silent => cState \notin In /\ cEnd # "EOF"

(* A query may take its time: a client says nothing while it waits for the *)
(* answer, except where there is no answer to wait for.                    *)
QueriedClientWaits == sEnd = "BOGUS" => Silent

(* Nobody waits for the other for ever: a handshake ends with both ends in *)
(* normal operation, or with both having closed.                           *)
HandshakeEnds ==
  <>( \/ sState = "NORMAL" /\ cState = "NORMAL"
      \/ sState = "CLOSING" /\ cState = "INVALID" )
=============================================================================
