----------------------------- MODULE HTTPServer -----------------------------
(***************************************************************************)
(* Sockets and the HTTP server that listens on one: network/TcpSocket.cxx  *)
(* and rfb/HTTPServer.cxx.  What a client sends is a sequence of pieces of *)
(* words, blanks (" ") and the ends of lines (CR and LF), each of which    *)
(* counts as one character; pieces with nothing between them are one word. *)
(* The program that has the server is not part of the source: its loop     *)
(* accepts connections, calls processSocketEvent() for what can be read,   *)
(* and calls checkTimeouts() after an event and when the time that it      *)
(* returned has passed, as network/Socket.h asks.                          *)
(***************************************************************************)
EXTENDS Integers, Sequences, FiniteSets

CONSTANTS
  Sock,         \* descriptors of connections
  Requests,     \* what clients send
  Portions,     \* how much of it arrives at a time, if not all
  Files,        \* the paths that getFile() knows
  LineSize,     \* the size of LineReader's buffer: 256
  MethodRoom,   \* how much of a method is read at most: 15
  PathRoom,     \* how much of a path: 127
  idleTimeout,  \* of rfb/ServerCore.cxx
  Filters,      \* the filters to try, as texts
  Hosts,        \* the hosts that connect
  AddressBits   \* of an address: 32

VARIABLES
  filter,    \* as it was given
  fd,        \* of each descriptor: "free", "open", "shut" or "closed"
  host,      \* at the other end
  coming,    \* what the client has still to send
  unread,    \* what has arrived
  gone,      \* whether the client has closed its end
  session,   \* of the server, NoSession when there is none
  reading,   \* the socket that processSocketEvent() reads, or NoSocket
  idle,      \* seconds since its last event
  due,       \* whether it is time for checkTimeouts()
  wake,      \* seconds until it is, 0 when only an event will make it so
  heard,     \* all that has been read (history)
  answers    \* what the client has been sent: codes and files (history)

vars == <<filter, fd, host, coming, unread, gone, session, reading, idle, due, wake, heard, answers>>

NoSession == [code |-> -1]
NoSocket == -1
CR == "CR"
LF == "LF"

(* buf holds pos characters. *)
NewSession == [buf |-> <<>>, state |-> "ReadRequestLine", request |-> <<>>, uri |-> <<>>, code |-> 0]

Characters == UNION {{text[i] : i \in DOMAIN text} : text \in Requests}

(* What the proofs assume: the buffer is longer than the blank lines CR and *)
(* LF make, no socket is the one that stands for none, and texts and       *)
(* filters are sequences.                                                  *)
SizesAssumption ==
  /\ Requests \subseteq Seq(Characters)
  /\ \A texts \in Filters : Len(texts) \in Nat /\ DOMAIN texts = 1 .. Len(texts)
  /\ LineSize \in Nat /\ LineSize > 2
  /\ MethodRoom \in Nat \ {0} /\ PathRoom \in Nat \ {0}
  /\ idleTimeout \in Nat
  /\ NoSocket \notin Sock

-----------------------------------------------------------------------------
(* Which hosts may connect: the TcpFilter of network/TcpSocket.cxx.  An    *)
(* address or a mask is the set of its bits that are 1.  A pattern of the  *)
(* filter is written as a sign, an address and a mask; inet_addr() returns *)
(* all ones for what is no address.                                        *)

INADDR_NONE == 0 .. AddressBits - 1

(* A mask is given as a number of bits, in dots, or not at all. *)
Prefix(n) == [form |-> "bits", bits |-> (IF n > AddressBits THEN 0 ELSE AddressBits - n) .. AddressBits - 1]
Dotted(bits) == [form |-> "dots", bits |-> bits]
NoMask == [form |-> "none", bits |-> INADDR_NONE]

Actions == {"Accept", "Query", "Reject"}

(* Without a sign the action is left uninitialised: any of them. *)
ActionsOf(sign) ==
  CASE sign = "+" -> {"Accept"} [] sign = "-" -> {"Reject"} [] sign = "?" -> {"Query"} [] OTHER -> Actions

(* Mutant: an address that ends up as 0 is compared like the others. *)
TakesZero(text) ==
  LET address == text.address \cap text.mask.bits
  IN  [sign |-> text.sign, address |-> address, mask |-> IF address = INADDR_NONE THEN {} ELSE text.mask.bits]

(* What is no address, 0 and all ones stand for every host. *)
parsePattern(text) ==
  LET address == text.address \cap text.mask.bits
  IN  [sign |-> text.sign, address |-> address,
       mask |-> IF address \in {INADDR_NONE, {}} THEN {} ELSE text.mask.bits]

patternToStr(pattern) ==
  [sign |-> pattern.sign, address |-> pattern.address, mask |-> Dotted(pattern.mask)]

patternMatchIP(pattern, from) ==
  from # INADDR_NONE /\ pattern.address \cap pattern.mask = from \cap pattern.mask

(* verifyConnection(): the answers that a filter, a list of patterns, can  *)
(* give for a host.  queryUserAcceptConnection() says no unless a derived  *)
(* class has it ask.                                                       *)
verifyConnection(patterns, from, user) ==
  LET first == {i \in DOMAIN patterns : /\ patternMatchIP(patterns[i], from)
                                      /\ \A j \in 1 .. i - 1 : ~patternMatchIP(patterns[j], from)}
  IN  IF first = {} THEN {FALSE}
      ELSE {action = "Accept" \/ (action = "Query" /\ user) : action \in UNION {ActionsOf(patterns[i].sign) : i \in first}}

-----------------------------------------------------------------------------
(* LineReader and processHTTP(), character by character                    *)

(* sscanf() with three strings.  White space before a string is skipped,   *)
(* CR included; the string goes on to the next white space, or as far as   *)
(* there is room for it, and the next one is read from there.              *)
White == {" ", CR}

(* Of each place of a line: where white space that begins there ends, and  *)
(* where a word does.                                                      *)
SkipWhite(line) ==
  [at \in 1 .. Len(line) + 1 |->
     CHOOSE b \in at .. Len(line) + 1 :
       /\ \A i \in at .. b - 1 : line[i] \in White
       /\ b <= Len(line) => line[b] \notin White]

(* Mutant: only a blank ends a word. *)
EndAtBlank(line, room) ==
  [b \in 1 .. Len(line) + 1 |->
     CHOOSE e \in b .. Len(line) + 1 :
       /\ \A i \in b .. e - 1 : line[i] # " "
       /\ e - b <= room
       /\ e - b < room => (e <= Len(line) => line[e] = " ")]

EndOfWord(line, room) ==
  [b \in 1 .. Len(line) + 1 |->
     CHOOSE e \in b .. Len(line) + 1 :
       /\ \A i \in b .. e - 1 : line[i] \notin White
       /\ e - b <= room
       /\ e - b < room => (e <= Len(line) => line[e] \in White)]

(* Method and path, <<>> unless there is a version too *)
Words(line) ==
  LET method == SkipWhite(line)[1]
      afterMethod == EndOfWord(line, MethodRoom)[method]
      path == SkipWhite(line)[afterMethod]
      afterPath == EndOfWord(line, PathRoom)[path]
      version == SkipWhite(line)[afterPath]
  IN  IF version = Len(line) + 1 THEN <<>>
      ELSE <<SubSeq(line, method, afterMethod - 1), SubSeq(line, path, afterPath - 1)>>

Answered(s, code) == [s EXCEPT !.code = code]

RequestLine(s, line) ==
  LET words == Words(line)
  IN  IF line = <<>> THEN s
      ELSE IF words = <<>> THEN Answered(s, 400)
      ELSE IF words[1] \notin {<<"GET">>, <<"HEAD">>} THEN Answered(s, 501)
      ELSE [s EXCEPT !.request = words[1], !.uri = words[2], !.state = "ReadHeaders"]

Header(s, line) ==
  IF line # <<>> THEN s
  ELSE Answered(s, IF s.uri \in Files THEN 200 ELSE 404)

Line(s, line) == IF s.state = "ReadRequestLine" THEN RequestLine(s, line) ELSE Header(s, line)

WithoutCR(line) == IF line # <<>> /\ line[Len(line)] = CR THEN SubSeq(line, 1, Len(line) - 1) ELSE line

(* Mutant: a full buffer is begun again. *)
ForgetsFull(s, c) ==
  IF s.code # 0 THEN s
  ELSE IF c = LF THEN Line([s EXCEPT !.buf = <<>>], WithoutCR(s.buf))
  ELSE IF Len(s.buf) = LineSize - 1 THEN Line([s EXCEPT !.buf = <<>>], s.buf)
  ELSE [s EXCEPT !.buf = Append(@, c)]

(* In a full buffer a character is lost and the line is given out as it    *)
(* is, again and again until its end has come.  Nothing is read once the   *)
(* request is answered.                                                    *)
Character(s, c) ==
  IF s.code # 0 THEN s
  ELSE IF c = LF THEN Line([s EXCEPT !.buf = <<>>], WithoutCR(s.buf))
  ELSE IF Len(s.buf) = LineSize - 1 THEN Line(s, s.buf)
  ELSE [s EXCEPT !.buf = Append(@, c)]

(* copyStream() is only for what GET asks. *)
Response(s) == <<s.code>> \o (IF s.code = 200 /\ s.request = <<"GET">> THEN <<s.uri>> ELSE <<>>)

-----------------------------------------------------------------------------
Init ==
  /\ filter \in Filters
  /\ fd = [k \in Sock |-> "free"]
  /\ host = [k \in Sock |-> {}]
  /\ coming = [k \in Sock |-> <<>>]
  /\ unread = [k \in Sock |-> <<>>]
  /\ gone = [k \in Sock |-> FALSE]
  /\ session = [k \in Sock |-> NoSession]
  /\ reading = NoSocket
  /\ idle = [k \in Sock |-> 0]
  /\ due = FALSE /\ wake = 0
  /\ heard = [k \in Sock |-> <<>>]
  /\ answers = [k \in Sock |-> <<>>]

Live(k) == fd[k] \in {"open", "shut"}

(* The loop waits for something to happen. *)
Waits == reading = NoSocket

(* The socket is deleted, and closes its descriptor. *)
Delete(k) == fd' = [fd EXCEPT ![k] = "closed"]

addClient(k) ==
  /\ fd' = [fd EXCEPT ![k] = "open"]
  /\ session' = [session EXCEPT ![k] = NewSession]

(* TcpListener::accept() of a connection, and addClient() of its socket if *)
(* the filter lets the host in.  setsockopt() may fail: that does not      *)
(* matter on BeOS.                                                         *)
Accept(k, h, text) ==
  /\ Waits /\ fd[k] = "free"
  /\ host' = [host EXCEPT ![k] = h]
  /\ coming' = [coming EXCEPT ![k] = text]
  /\ \E verdict \in verifyConnection([i \in DOMAIN filter |-> parsePattern(filter[i])], h, FALSE) :
       IF verdict THEN addClient(k) ELSE Delete(k) /\ UNCHANGED session
  /\ due' = TRUE
  /\ UNCHANGED <<filter, unread, gone, reading, idle, wake, heard, answers>>

(* The client's side: some of what it has to say arrives, or it closes. *)
Arrive(k, n) ==
  /\ Live(k) /\ n \in 1 .. Len(coming[k])
  /\ unread' = [unread EXCEPT ![k] = @ \o SubSeq(coming[k], 1, n)]
  /\ coming' = [coming EXCEPT ![k] = SubSeq(@, n + 1, Len(@))]
  /\ UNCHANGED <<filter, fd, host, gone, session, reading, idle, due, wake, heard, answers>>

HangUp(k) ==
  /\ Live(k) /\ ~gone[k]
  /\ gone' = [gone EXCEPT ![k] = TRUE]
  /\ coming' = [coming EXCEPT ![k] = <<>>]
  /\ UNCHANGED <<filter, fd, host, unread, session, reading, idle, due, wake, heard, answers>>

(* processSocketEvent() for a socket that can be read *)
ProcessSocketEvent(k) ==
  /\ Waits /\ Live(k) /\ (unread[k] # <<>> \/ gone[k] \/ fd[k] = "shut")
  /\ reading' = k
  /\ idle' = [idle EXCEPT ![k] = 0]
  /\ UNCHANGED <<filter, fd, host, coming, unread, gone, session, due, wake, heard, answers>>

(* The session and its socket go. *)
Finish(k) ==
  /\ session' = [session EXCEPT ![k] = NoSession]
  /\ Delete(k)
  /\ reading' = NoSocket /\ due' = TRUE

(* The loop of processHTTP() reads a character; the request that it makes  *)
(* complete is answered and done with, whether the answer could be written *)
(* or not.                                                                 *)
ReadCharacter(k) ==
  /\ reading = k /\ unread[k] # <<>>
  /\ unread' = [unread EXCEPT ![k] = Tail(@)]
  /\ heard' = [heard EXCEPT ![k] = Append(@, Head(unread[k]))]
  /\ \E s \in {Character(session[k], Head(unread[k]))} :
       IF s.code = 0
       THEN session' = [session EXCEPT ![k] = s] /\ UNCHANGED <<fd, reading, due, answers>>
       ELSE /\ Finish(k)
            /\ \E written \in {fd[k] = "open", FALSE} :
                 answers' = [answers EXCEPT ![k] = IF written THEN Response(s) ELSE @]
  /\ UNCHANGED <<filter, host, coming, gone, idle, wake>>

(* There is nothing more to read: for now, or EndOfStream. *)
ReadAll(k) ==
  /\ reading = k /\ unread[k] = <<>>
  /\ IF gone[k] \/ fd[k] = "shut" THEN Finish(k)
     ELSE reading' = NoSocket /\ due' = TRUE /\ UNCHANGED <<fd, session>>
  /\ UNCHANGED <<filter, host, coming, unread, gone, idle, wake, heard, answers>>

Soonest(times) == IF times = {} THEN 0 ELSE CHOOSE t \in times : \A u \in times : t <= u

(* checkIdleTimeout() of every session; the time returned is the soonest   *)
(* of those that have some left.                                           *)
CheckTimeouts ==
  /\ Waits /\ due
  /\ due' = FALSE
  /\ LET sessions == {k \in Sock : session[k] # NoSession}
         over == {k \in sessions : idle[k] >= idleTimeout}
         left == {idleTimeout - idle[k] : k \in sessions \ over}
     IN  /\ fd' = [k \in Sock |-> IF k \in over THEN "shut" ELSE fd[k]]
         /\ wake' = Soonest(left)
  /\ UNCHANGED <<filter, host, coming, unread, gone, session, reading, idle, heard, answers>>

(* A second passes while the loop waits. *)
Tick ==
  /\ Waits /\ ~due
  /\ idle' = [k \in Sock |-> IF session[k] # NoSession /\ idle[k] <= idleTimeout THEN idle[k] + 1 ELSE idle[k]]
  /\ wake' = IF wake > 0 THEN wake - 1 ELSE 0
  /\ due' = (wake = 1)
  /\ UNCHANGED <<filter, fd, host, coming, unread, gone, session, reading, heard, answers>>

(* The destructor *)
Stop ==
  /\ Waits /\ \E k \in Sock : Live(k)
  /\ fd' = [k \in Sock |-> "closed"]
  /\ session' = [k \in Sock |-> NoSession]
  /\ UNCHANGED <<filter, host, coming, unread, gone, reading, idle, due, wake, heard, answers>>

Reading == \E k \in Sock : ProcessSocketEvent(k) \/ ReadCharacter(k) \/ ReadAll(k)

Next ==
  \/ \E k \in Sock :
       \/ \E h \in Hosts, text \in Requests : Accept(k, h, text)
       \/ \E n \in Portions \cup {Len(coming[k])} : Arrive(k, n)
       \/ HangUp(k)
  \/ Reading
  \/ CheckTimeouts \/ Tick \/ Stop

(* The loop goes on and time passes; clients need not do anything. *)
Spec ==
  /\ Init /\ [][Next]_vars
  /\ WF_vars(Reading)
  /\ WF_vars(CheckTimeouts) /\ WF_vars(Tick)

-----------------------------------------------------------------------------
(* What a pattern is meant for: the hosts whose first bits are those of    *)
(* its address, or all when there is no address or it is 0.                *)
Covers(text, from) ==
  \/ text.address \cap text.mask.bits \in {INADDR_NONE, {}}
  \/ \A b \in text.mask.bits : b \in text.address <=> b \in from

(* A host gets what the first pattern for it says, also when the filter    *)
(* has been written out and read again, and is refused when there is none. *)
FirstCounts(texts, from, user) ==
  LET patterns == [i \in DOMAIN texts |-> parsePattern(texts[i])]
      again == [i \in DOMAIN texts |-> parsePattern(patternToStr(patterns[i]))]
      for == {i \in DOMAIN texts : Covers(texts[i], from)}
      first == CHOOSE i \in for : \A j \in for : i <= j
  IN  /\ verifyConnection(again, from, user) = verifyConnection(patterns, from, user)
      /\ verifyConnection(patterns, from, user) =
           IF from = INADDR_NONE \/ for = {} THEN {FALSE}
           ELSE {action = "Accept" \/ (action = "Query" /\ user) : action \in ActionsOf(texts[first].sign)}

(* The line of a text that ends before the place e *)
LineBefore(text, e) ==
  LET start == CHOOSE d \in 0 .. e - 1 : /\ d = 0 \/ text[d] = LF
                                         /\ \A x \in d + 1 .. e - 1 : text[x] # LF
  IN  SubSeq(text, start + 1, e - 1)

Blank(line) == line \in {<<>>, <<CR>>}

(* A request of more than the buffer holds counts as far as it fits. *)
Fitting(line) == IF Len(line) < LineSize THEN WithoutCR(line) ELSE SubSeq(line, 1, LineSize - 1)

(* The places of the first word, of those of a line that are not white: up *)
(* to the first gap, or as many as there is room for.                      *)
Word(solid, room) ==
  {i \in solid : \E a \in solid : {j \in solid : j <= i} = a .. i /\ i - a < room}

Solid(line) == {i \in DOMAIN line : line[i] \notin {" ", CR}}

(* The text at places that follow each other *)
TextAt(line, places) ==
  LET first == CHOOSE i \in places : \A j \in places : i <= j
      last == CHOOSE i \in places : \A j \in places : j <= i
  IN  SubSeq(line, first, last)

(* The request is the first line that is not blank: a method, a path and   *)
(* something more.  It is refused at once, or answered at the first blank  *)
(* line after it.                                                          *)
AnswerTo(line, ended) ==
  LET solid == Solid(line)
      method == Word(solid, MethodRoom)
      path == Word(solid \ method, PathRoom)
  IN  IF solid = method \cup path THEN <<400>>
      ELSE IF TextAt(line, method) \notin {<<"GET">>, <<"HEAD">>} THEN <<501>>
      ELSE IF ~ended THEN <<>>
      ELSE IF TextAt(line, path) \notin Files THEN <<404>>
      ELSE IF TextAt(line, method) = <<"HEAD">> THEN <<200>> ELSE <<200, TextAt(line, path)>>

(* What the text of a client is to be answered, {} or {<<>>} while it is   *)
(* not complete                                                            *)
Expected(text) ==
  LET ends == {e \in DOMAIN text : text[e] = LF}
      filled == {e \in ends : ~Blank(LineBefore(text, e))}
      last == Len(text) + 1
      asks == IF filled # {} THEN {CHOOSE e \in filled : \A d \in filled : e <= d}
              ELSE IF Len(LineBefore(text, last)) >= LineSize THEN {last} ELSE {}
  IN  UNION {{AnswerTo(line, \E d \in ends : d > e /\ Blank(LineBefore(text, d))) :
                line \in {Fitting(LineBefore(text, e))}} : e \in asks}

(* However a client's text is cut into pieces, and with lines longer than  *)
(* the buffer, words longer than their room and any white space in it: the *)
(* client is sent the answer to its request, once, when the request is     *)
(* complete and not before.  Only hosts that the filter lets in get a      *)
(* session, and the descriptors that are open are those of the sessions.   *)
(* No session is idle for longer than it may if the loop waits as long as  *)
(* checkTimeouts() says.                                                   *)
RequestsAreAnswered ==
  \A k \in Sock :
    /\ answers[k] \in {<<>>} \cup Expected(heard[k])
    /\ session[k] # NoSession => Expected(heard[k]) \subseteq {<<>>}
    /\ Live(k) <=> session[k] # NoSession
    /\ fd[k] # "free" => FirstCounts(filter, host[k], FALSE)
    /\ fd[k] = "open" => idle[k] <= idleTimeout

(* A session ends, whatever the client does or leaves undone. *)
SessionsEnd == \A k \in Sock : Live(k) ~> fd[k] = "closed"

=============================================================================
