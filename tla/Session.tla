------------------------------- MODULE Session -------------------------------
(***************************************************************************)
(* Normal operation: what rfb::SMsgWriterV3 and rfb::SMsgReaderV3 of the   *)
(* server (VNCSConnectionST, one thread for everything) and                *)
(* rfb::CMsgReaderV3 and rfb::CMsgWriterV3 of a client say to each other   *)
(* over a socket that holds little.  Either side writes a message item by  *)
(* item and does nothing else while the socket is full.  The screen is a   *)
(* column of rows.  The client is a user of the client library: it waits   *)
(* for an update before it asks for another one or changes its format.     *)
(***************************************************************************)
EXTENDS Integers, SequencesExt, FiniteSetsExt

CONSTANTS
  MaxRow,                \* of the sizes that the screen can have
  Room,                  \* items that the socket holds in each direction
  clientWaitTimeMillis,  \* the parameters of these names, in any unit
  idleTimeout,
  MaxEvents              \* bound on what the desktop and the user of the client do

(* A screen has a row. *)
SizeAssumption == MaxRow \in Nat \ {0}

Row == 1 .. MaxRow

VARIABLES
  pb,        \* rows of the frame buffer
  s,         \* VNCSConnectionST: its cp, its writer, its update tracker, the server's cursor
  sOut,      \* what it has still to write of the messages at work
  toClient, toServer,
  c,         \* the client: its cp and its reader
  cOut,
  events

vars == <<pb, s, sOut, toClient, toServer, c, cOut, events>>

Formats == {"colourMap", "trueColour"}
EncodingsOf == {"raw", "hextile", "ZRLE"}

Encodings == EncodingsOf \cup {"cursor", "desktopSize"}

Kinds == {"SetPixelFormat", "SetEncodings", "FramebufferUpdateRequest", "KeyEvent"}

(* What a message to the client is made of, and one to the server. *)
ToClient ==
  [kind : {"update"}, nRects : Nat]
    \cup [kind : {"rect"}, row : Row, pf : Formats, encoding : EncodingsOf]
    \cup [kind : {"cursor"}, cursor : Nat, pf : Formats]
    \cup [kind : {"size"}, height : Row]
    \cup [kind : {"setColourMapEntries", "bell"}]

ToServer ==
  [kind : Kinds \cup {"rest"}]
    \cup [kind : {"rest"}, rows : Row, incremental : BOOLEAN]
    \cup [kind : {"rest"}, pf : Formats]
    \cup [kind : {"rest"}, list : Seq(Encodings)]

TypeOK ==
  /\ pb \in Row
  /\ s \in [state : {"NORMAL", "CLOSING"}, height : Row, pf : Formats,
           local : BOOLEAN, resize : BOOLEAN, encoding : EncodingsOf,
           requested : {0} \cup Row, changed : SUBSET Row, wsccb : BOOLEAN,
           needSetDesktopSize : BOOLEAN, cursor : Nat, reading : {"none"} \cup Kinds]
  /\ c \in [state : {"NORMAL", "INVALID"}, height : Row, pf : Formats, nUpdateRectsLeft : Nat,
           waiting : BOOLEAN, cursor : Nat, told : SUBSET Encodings,
           preferred : EncodingsOf, stalled : BOOLEAN]
  /\ sOut \in Seq(ToClient) /\ toClient \in Seq(ToClient)
  /\ cOut \in Seq(ToServer) /\ toServer \in Seq(ToServer)

-----------------------------------------------------------------------------
(* Lists of encodings *)

Supported(e) == e \in EncodingsOf

(* CMsgWriter::writeSetEncodings(): the best first. *)
EncodingList(asked) ==
  LET Other(e) == IF e = asked.preferred THEN <<>> ELSE <<e>> IN
  (IF asked.local THEN <<"cursor">> ELSE <<>>)
    \o (IF asked.resize THEN <<"desktopSize">> ELSE <<>>)
    \o (IF Supported(asked.preferred) THEN <<asked.preferred>> ELSE <<>>)
    \o Other("ZRLE") \o Other("hextile") \o Other("raw")

(* Mutant: the last one that is supported. *)
LastSupported(list) ==
  LET known == {k \in DOMAIN list : Supported(list[k])} IN IF known = {} THEN "raw" ELSE list[Max(known)]

FirstSupported(list) ==
  LET known == {k \in DOMAIN list : Supported(list[k])} IN IF known = {} THEN "raw" ELSE list[Min(known)]

(* ConnParams::setEncodings().  That a client could be told a new size is  *)
(* never forgotten.                                                        *)
WithEncodings(conn, list) ==
  [conn EXCEPT !.local = Contains(list, "cursor"),
               !.resize = @ \/ Contains(list, "desktopSize"),
               !.encoding = FirstSupported(list)]

-----------------------------------------------------------------------------
Asked == [preferred : {"hextile", "none"}, local : BOOLEAN, resize : BOOLEAN]

Init ==
  /\ pb = MaxRow
  /\ s = [state |-> "NORMAL", height |-> MaxRow, pf |-> "trueColour",
          local |-> FALSE, resize |-> FALSE, encoding |-> "raw",
          requested |-> 0, changed |-> Row, wsccb |-> FALSE, needSetDesktopSize |-> FALSE,
          cursor |-> 0, reading |-> "none"]
  /\ sOut = <<>> /\ toClient = <<>> /\ toServer = <<>> /\ cOut = <<>>
  /\ c = [state |-> "NORMAL", height |-> MaxRow, pf |-> "trueColour", nUpdateRectsLeft |-> 0,
          waiting |-> FALSE, cursor |-> 0, told |-> {}, preferred |-> "raw", stalled |-> FALSE]
  /\ events = 0

Item(kind) == [kind |-> kind]

-----------------------------------------------------------------------------
(* SMsgWriter and SMsgWriterV3: what goes into a message                   *)

needFakeUpdate(conn) == conn.wsccb \/ conn.needSetDesktopSize

(* The k-th row from above. *)
Nth(rows, k) == CHOOSE row \in rows : Cardinality({r \in rows : r < row}) = k - 1

Rects(conn, rows) ==
  [k \in 1 .. Cardinality(rows) |->
     [kind |-> "rect", row |-> Nth(rows, k), pf |-> conn.pf, encoding |-> conn.encoding]]

(* Mutant: the number of rectangles leaves the new size out. *)
CountWithoutSize(conn, rows) == Cardinality(rows) + (IF conn.wsccb THEN 1 ELSE 0)

nRects(conn, rows) ==
  Cardinality(rows) + (IF conn.wsccb THEN 1 ELSE 0) + (IF conn.needSetDesktopSize THEN 1 ELSE 0)

(* From writeFramebufferUpdateStart() to writeFramebufferUpdateEnd(): the  *)
(* cursor first, which is the one set now, and the new size last.          *)
Update(conn, rows) ==
  <<[kind |-> "update", nRects |-> nRects(conn, rows)]>>
    \o (IF conn.wsccb THEN <<[kind |-> "cursor", cursor |-> conn.cursor, pf |-> conn.pf]>> ELSE <<>>)
    \o Rects(conn, rows)
    \o (IF conn.needSetDesktopSize THEN <<[kind |-> "size", height |-> conn.height]>> ELSE <<>>)

(* VNCSConnectionST::writeFramebufferUpdate() in state conn, after items.  *)
writeFramebufferUpdate(conn, items) ==
  LET rows == conn.changed \cap 1 .. conn.requested
  IN  IF conn.requested = 0 \/ (rows = {} /\ ~needFakeUpdate(conn))
      THEN s' = conn /\ sOut' = items
      ELSE /\ s' = [conn EXCEPT !.changed = @ \ rows, !.requested = 0,
                                !.wsccb = FALSE, !.needSetDesktopSize = FALSE]
           /\ sOut' = items \o Update(conn, rows)

(* What TransImageGetter::init() tells the client at once. *)
ColourMap(pf) == IF pf = "colourMap" THEN <<Item("setColourMapEntries")>> ELSE <<>>

(* setCursor() *)
CursorSet(conn, items) ==
  IF conn.local THEN writeFramebufferUpdate([conn EXCEPT !.wsccb = TRUE], items)
  ELSE s' = conn /\ sOut' = items

(* close(): the socket is shut down, what the client has not read stays in *)
(* it, and the rest of the message is lost.                                *)
Close ==
  /\ s' = [s EXCEPT !.state = "CLOSING"]
  /\ sOut' = <<>>

-----------------------------------------------------------------------------
(* The server's thread                                                     *)

ServerFree == s.state = "NORMAL" /\ sOut = <<>> /\ s.reading = "none"

ServerWrites ==
  /\ s.state = "NORMAL" /\ sOut # <<>> /\ Len(toClient) < Room
  /\ toClient' = Append(toClient, Head(sOut))
  /\ sOut' = Tail(sOut)
  /\ UNCHANGED <<pb, s, toServer, c, cOut, events>>

(* SMsgReaderV3::readMsg(): the type is there, and now the server waits    *)
(* for the rest of the message.                                            *)
ReadType ==
  /\ ServerFree /\ toServer # <<>>
  /\ s' = [s EXCEPT !.reading = Head(toServer).kind]
  /\ toServer' = Tail(toServer)
  /\ UNCHANGED <<pb, sOut, toClient, c, cOut, events>>

(* The rest, and what the handler does. *)
Handle(m) ==
  LET conn == [s EXCEPT !.reading = "none"]
  IN  CASE s.reading = "SetPixelFormat" -> CursorSet([conn EXCEPT !.pf = m.pf], ColourMap(m.pf))
        [] s.reading = "SetEncodings" -> CursorSet(WithEncodings(conn, m.list), <<>>)
        [] s.reading = "FramebufferUpdateRequest" ->
             writeFramebufferUpdate(
               [conn EXCEPT !.requested = Max({@, m.rows}),
                            !.changed = IF m.incremental THEN @ ELSE @ \cup 1 .. m.rows], <<>>)
        [] OTHER -> s' = conn /\ sOut' = <<>>

ReadRest ==
  /\ s.state = "NORMAL" /\ s.reading # "none" /\ toServer # <<>>
  /\ Handle(Head(toServer))
  /\ toServer' = Tail(toServer)
  /\ UNCHANGED <<pb, toClient, c, cOut, events>>

(* Mutant: only the idle timeout counts, the wrong way round. *)
NoTimeout ==
  IF clientWaitTimeMillis = 0 \/ clientWaitTimeMillis < idleTimeout
  THEN -1 ELSE clientWaitTimeMillis

(* setSocketTimeouts(); -1 stands for no timeout. *)
Timeout ==
  IF clientWaitTimeMillis = 0 \/ clientWaitTimeMillis > idleTimeout
  THEN IF idleTimeout = 0 THEN -1 ELSE idleTimeout
  ELSE clientWaitTimeMillis

Stuck ==
  /\ s.state = "NORMAL"
  /\ \/ sOut # <<>> /\ Len(toClient) = Room
     \/ sOut = <<>> /\ s.reading # "none" /\ toServer = <<>>

TimedOut ==
  /\ Stuck /\ Timeout # -1
  /\ Close
  /\ UNCHANGED <<pb, toClient, toServer, c, cOut, events>>

(* The desktop draws, and tells of it; an update follows when there is     *)
(* time (tryUpdate()).                                                     *)
Draw ==
  /\ ServerFree
  /\ \E row \in 1 .. pb : s' = [s EXCEPT !.changed = @ \cup {row}]
  /\ UNCHANGED <<pb, sOut, toClient, toServer, c, cOut>>

tryUpdate ==
  /\ ServerFree
  /\ writeFramebufferUpdate(s, <<>>)
  /\ <<s, sOut>>' # <<s, sOut>>
  /\ UNCHANGED <<pb, toClient, toServer, c, cOut, events>>

(* pixelBufferChange() *)
PixelBufferChange ==
  /\ ServerFree
  /\ pb' \in Row \ {pb}
  /\ IF ~s.resize
     THEN Close
     ELSE LET conn == [s EXCEPT !.height = pb', !.needSetDesktopSize = TRUE, !.changed = 1 .. pb']
          IN  writeFramebufferUpdate(conn, ColourMap(s.pf))
  /\ UNCHANGED <<toClient, toServer, c, cOut>>

(* VNCServerST::setCursor() and setCursorOrClose() *)
SetCursor ==
  /\ ServerFree
  /\ CursorSet([s EXCEPT !.cursor = @ + 1], <<>>)
  /\ UNCHANGED <<pb, toClient, toServer, c, cOut>>

(* bell(), serverCutText(): a message of its own. *)
Tell ==
  /\ ServerFree
  /\ sOut' = <<Item("bell")>>
  /\ UNCHANGED <<pb, s, toClient, toServer, c, cOut>>

-----------------------------------------------------------------------------
(* The client                                                              *)

ClientFree == c.state = "NORMAL" /\ ~c.stalled /\ cOut = <<>>

ClientWrites ==
  /\ c.state = "NORMAL" /\ ~c.stalled /\ cOut # <<>>
  /\ \/ /\ s.state = "NORMAL" /\ Len(toServer) < Room
        /\ toServer' = Append(toServer, Head(cOut)) /\ cOut' = Tail(cOut)
        /\ UNCHANGED c
     \/ /\ s.state = "CLOSING"
        /\ c' = [c EXCEPT !.state = "INVALID"] /\ cOut' = <<>>
        /\ UNCHANGED toServer
  /\ UNCHANGED <<pb, s, sOut, toClient, events>>

(* CMsgReaderV3::readMsg() expects a message, or a rectangle when some are *)
(* left of an update; "Rect too big" and "unknown message type" are what   *)
(* it throws otherwise.                                                    *)
Expected(m) ==
  IF c.nUpdateRectsLeft = 0 THEN m.kind \in {"update", "setColourMapEntries", "bell"}
  ELSE CASE m.kind = "rect" -> m.row <= c.height /\ Supported(m.encoding)
         [] OTHER -> m.kind \in {"cursor", "size"}

(* framebufferUpdateEnd() with the last rectangle *)
RectRead(client) ==
  [client EXCEPT !.nUpdateRectsLeft = @ - 1, !.waiting = @ /\ client.nUpdateRectsLeft > 1]

ClientReads ==
  /\ ClientFree /\ toClient # <<>>
  /\ LET m == Head(toClient)
     IN  c' = IF ~Expected(m) THEN [c EXCEPT !.state = "INVALID"]
              ELSE CASE m.kind = "update" -> [c EXCEPT !.nUpdateRectsLeft = m.nRects]
                     [] m.kind = "rect" -> RectRead(c)
                     [] m.kind = "cursor" -> RectRead([c EXCEPT !.cursor = m.cursor])
                     [] m.kind = "size" -> RectRead([c EXCEPT !.height = m.height])
                     [] OTHER -> c
  /\ toClient' = Tail(toClient)
  /\ UNCHANGED <<pb, s, sOut, toServer, cOut, events>>

(* EndOfStream *)
ClientEnds ==
  /\ ClientFree /\ toClient = <<>> /\ s.state = "CLOSING"
  /\ c' = [c EXCEPT !.state = "INVALID"]
  /\ UNCHANGED <<pb, s, sOut, toClient, toServer, cOut, events>>

(* A message is its type and the rest. *)
Says(kind, rest) == cOut' = <<Item(kind), rest>>

Request ==
  /\ ClientFree /\ ~c.waiting /\ c.nUpdateRectsLeft = 0
  /\ \E incremental \in BOOLEAN :
       Says("FramebufferUpdateRequest", [kind |-> "rest", rows |-> c.height, incremental |-> incremental])
  /\ c' = [c EXCEPT !.waiting = TRUE]
  /\ UNCHANGED <<pb, s, sOut, toClient, toServer, events>>

(* Between an update and the next request nothing is under way in the old  *)
(* format.                                                                 *)
ChangeFormat ==
  /\ ClientFree /\ ~c.waiting
  /\ \E pf \in Formats \ {c.pf} :
       /\ c' = [c EXCEPT !.pf = pf]
       /\ Says("SetPixelFormat", [kind |-> "rest", pf |-> pf])
  /\ UNCHANGED <<pb, s, sOut, toClient, toServer>>

ChangeEncodings ==
  /\ ClientFree
  /\ \E asked \in Asked :
       LET list == EncodingList(asked)
       IN  /\ Says("SetEncodings", [kind |-> "rest", list |-> list])
           /\ c' = [c EXCEPT !.told = @ \cup ToSet(list), !.preferred = IF Supported(asked.preferred) THEN asked.preferred ELSE "ZRLE"]
  /\ UNCHANGED <<pb, s, sOut, toClient, toServer>>

Type ==
  /\ ClientFree
  /\ Says("KeyEvent", Item("rest"))
  /\ UNCHANGED <<pb, s, sOut, toClient, toServer, c>>

(* The client hangs, for all anybody can tell for ever. *)
Stall ==
  /\ c.state = "NORMAL" /\ ~c.stalled
  /\ c' = [c EXCEPT !.stalled = TRUE]
  /\ UNCHANGED <<pb, s, sOut, toClient, toServer, cOut>>

-----------------------------------------------------------------------------
ServerStep == ServerWrites \/ ReadType \/ ReadRest \/ TimedOut \/ tryUpdate
ClientStep == ClientWrites \/ ClientReads \/ ClientEnds

Event ==
  /\ events < MaxEvents /\ events' = events + 1
  /\ \/ Draw \/ PixelBufferChange \/ SetCursor \/ Tell
     \/ ChangeFormat \/ ChangeEncodings \/ Type \/ Stall

Next == ServerStep \/ ClientStep \/ Request \/ Event

Spec == Init /\ [][Next]_vars

(* The server's thread runs and its timeouts expire; a client that has not *)
(* hung reads, writes and asks again.                                      *)
Fairness == WF_vars(ServerStep) /\ WF_vars(ClientStep) /\ WF_vars(Request)

-----------------------------------------------------------------------------
(* Whatever the desktop and the client's user do while messages are under  *)
(* way in both directions, the client never meets anything else than it    *)
(* waits for: the rectangles of an update are as many as its header says,  *)
(* they are within the size that the client knows of at that point and in  *)
(* the format it has, and pseudo rectangles come only to a client that     *)
(* said that it knows them.  The encoding is one the client put first,     *)
(* unless a new list is still under way.                                   *)
ClientUnderstands ==
  LET m == Head(toClient)
  IN  c.state = "NORMAL" /\ toClient # <<>> =>
        /\ Expected(m)
        /\ m.kind \in {"rect", "cursor"} => m.pf = c.pf
        /\ m.kind = "cursor" => "cursor" \in c.told
        /\ m.kind = "size" => "desktopSize" \in c.told

(* A client that goes on reading and asking learns the size and the cursor *)
(* that the desktop has in the end, and the encoding it prefers is used.   *)
CatchesUp ==
  <>[]( \/ c.stalled \/ s.state = "CLOSING"
        \/ /\ c.height = pb
           /\ s.local => c.cursor = s.cursor
           /\ s.encoding = c.preferred )

(* "The number of milliseconds to wait for a client which is no longer     *)
(* responding" (ServerCore.cxx): a server that waits for one client, and   *)
(* with it everybody else, does not wait for ever.                         *)
NotStuckForEver == Stuck ~> ~Stuck

=============================================================================
