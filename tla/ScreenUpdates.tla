--------------------------- MODULE ScreenUpdates ---------------------------
(***************************************************************************)
(* How a change of the screen reaches the clients:                         *)
(*   SDesktopBeOS::BackgroundScreenUpdateCheck() looks at a slice of it,   *)
(*   ComparingUpdateTracker::compare() finds out what is new since the     *)
(*   last look, VNCServerST::checkUpdate() tells every client's tracker,   *)
(*   and VNCSConnectionST::writeFramebufferUpdate() sends what the client  *)
(*   asked for.                                                            *)
(* Regions are sets of rows; a row stands for a band of blocks as wide as  *)
(* the screen.  Nobody calls add_copied(), so there are no copied regions. *)
(* The server's thread is one, but applications draw while it works: what  *)
(* it does between two looks at the pixels is one step.                    *)
(***************************************************************************)
EXTENDS Naturals

CONSTANTS
  Client,      \* the connections
  NoClient,
  Resizable,   \* the clients that support the desktop size encoding
  MaxRow,      \* the rows of the tallest screen
  Heights,     \* the heights the screen can have
  Lines,       \* values of m_BackgroundNumberOfScanLinesPerUpdate
  Pixel,       \* what a row can show
  White,       \* what a new bitmap shows
  Live         \* pixels are read from video memory, not from a copy

ASSUME ClientAssumption == Resizable \subseteq Client /\ NoClient \notin Client
ASSUME ScreenAssumption ==
  /\ MaxRow \in Nat \ {0}
  /\ Heights \subseteq 1..MaxRow
  /\ Heights # {}
  /\ Lines \subseteq Nat \ {0}
  /\ Lines # {}
  /\ White \in Pixel
ASSUME LiveAssumption == Live \in BOOLEAN

Row == 1..MaxRow

VARIABLES
  screen,     \* what the screen shows
  height,     \* the height of the screen
  settled,    \* history: nobody draws or asks for a full refresh any more
  slipped,    \* history: a row was sent that had changed since it was compared
  beyond,     \* history: a full refresh was asked for of rows that have gone
  fb,         \* the copy of the screen (FrameBufferBScreen)
  fbHeight,   \* the height of the pixel buffer
  firstCompare, \* comparer->firstCompare
  oldFb,      \* comparer->oldFb
  changed,    \* comparer->changed
  nextLine,   \* m_BackgroundNextScanLineY, or MaxRow for -1
  lines,      \* m_BackgroundNumberOfScanLinesPerUpdate
  loop,       \* the loop over the clients the server is in
  todo,       \* the clients it has not come to
  writer,     \* the client an update is being written to
  sending,    \* the rows of that update
  state,      \* the state of a connection
  cpHeight,   \* cp.height of a connection
  sizeDue,    \* needSetDesktopSize of a connection's writer
  updates,    \* updates.changed of a connection
  requested,  \* requested of a connection
  view,       \* what the client shows
  viewHeight  \* the height the client knows of

screenVars   == <<screen, height, settled>>
historyVars  == <<slipped, beyond>>
comparerVars == <<firstCompare, oldFb, changed>>
scanVars     == <<fb, fbHeight, nextLine, lines>>
loopVars     == <<loop, todo>>
writeVars    == <<writer, sending>>
clientVars   == <<state, cpHeight, sizeDue, updates, requested>>
viewVars     == <<view, viewHeight>>
updateVars == <<screenVars, historyVars, comparerVars, scanVars, loopVars, writeVars, clientVars, viewVars>>

Connected == {c \in Client : state[c] # "OUT"}

FbRows == 1..fbHeight

(* What a look at the frame buffer shows. *)
Pixels == IF Live THEN screen ELSE fb

(* A new copy of the screen, for the frame buffer that keeps one. *)
GrabScreen == fb' = IF Live THEN fb ELSE screen

UpdatesTypeOK ==
  /\ screen \in [Row -> Pixel]
  /\ height \in Heights
  /\ {settled, slipped, beyond} \subseteq BOOLEAN
  /\ fb \in [Row -> Pixel]
  /\ fbHeight \in Heights
  /\ firstCompare \in BOOLEAN
  /\ oldFb \in [Row -> Pixel]
  /\ changed \subseteq Row
  /\ nextLine \in Nat
  /\ lines \in Lines
  /\ loop \in {"NONE", "UPDATE", "RESIZE"}
  /\ todo \subseteq Client
  /\ writer \in Client \cup {NoClient}
  /\ sending \subseteq Row
  /\ state \in [Client -> {"OUT", "INIT", "NORMAL"}]
  /\ cpHeight \in [Client -> Heights]
  /\ sizeDue \in [Client -> BOOLEAN]
  /\ updates \in [Client -> SUBSET Row]
  /\ requested \in [Client -> SUBSET Row]
  /\ view \in [Client -> [Row -> Pixel]]
  /\ viewHeight \in [Client -> Heights]

Blank == [r \in Row |-> White]

(* The desktop has not been started yet; the first client that gets in has *)
(* the frame buffer and the comparer made.                                 *)
UpdatesInit ==
  /\ height \in Heights
  /\ screen = Blank
  /\ settled = FALSE
  /\ slipped = FALSE
  /\ beyond = FALSE
  /\ fb = screen
  /\ fbHeight = height
  /\ firstCompare = TRUE
  /\ oldFb = Blank
  /\ changed = FbRows
  /\ nextLine = MaxRow
  /\ lines \in Lines
  /\ loop = "NONE"
  /\ todo = {}
  /\ writer = NoClient
  /\ sending = {}
  /\ state = [c \in Client |-> "OUT"]
  /\ cpHeight = [c \in Client |-> height]
  /\ sizeDue = [c \in Client |-> FALSE]
  /\ updates = [c \in Client |-> {}]
  /\ requested = [c \in Client |-> {}]
  /\ view = [c \in Client |-> Blank]
  /\ viewHeight = [c \in Client |-> height]

Waiting == loop = "NONE" /\ writer = NoClient

-----------------------------------------------------------------------------
(* The applications and the user                                           *)

Draw(r, p) ==
  /\ ~settled
  /\ r <= height
  /\ p # screen[r]
  /\ screen' = [screen EXCEPT ![r] = p]
  /\ UNCHANGED <<height, settled, historyVars, comparerVars, scanVars, loopVars, writeVars,
                 clientVars, viewVars>>

Resize(h) ==
  /\ ~settled
  /\ h # height
  /\ height' = h
  /\ screen' = [r \in Row |-> IF r <= h THEN screen[r] ELSE White]
  /\ UNCHANGED <<settled, historyVars, comparerVars, scanVars, loopVars, writeVars,
                 clientVars, viewVars>>

Settle ==
  /\ ~settled
  /\ settled' = TRUE
  /\ UNCHANGED <<screen, height, historyVars, comparerVars, scanVars, loopVars, writeVars,
                 clientVars, viewVars>>

-----------------------------------------------------------------------------
(* ComparingUpdateTracker                                                  *)

(* compareRect() skips a rectangle that is not inside the frame buffer: a  *)
(* run of rows that goes on below it.                                      *)
Inside(rows) == {r \in rows : \A s \in rows : s <= fbHeight \/ ~(r..s \subseteq rows)}

Different(rows) == {r \in Inside(rows) : Pixels[r] # oldFb[r]}

(* compare(): what of the rows is new.  The first time everything is.      *)
NewIn(rows) == IF firstCompare THEN rows ELSE Different(rows)

OldFbAfter(rows) ==
  IF firstCompare
  THEN [r \in Row |-> IF r \in FbRows THEN Pixels[r] ELSE White]
  ELSE [r \in Row |-> IF r \in Different(rows) THEN Pixels[r] ELSE oldFb[r]]

-----------------------------------------------------------------------------
(* writeFramebufferUpdate(), with the connections' updates, requested and  *)
(* sizeDue as u, q and d, and the comparer's changed rows as rows.         *)

(* Mutant: only clients that are waiting are told. *)
ToldWaiting(u, rows) ==
  [c \in Client |-> IF requested[c] # {} THEN u[c] \cup NewIn(rows) ELSE u[c]]

(* checkUpdate(): every client is told what is new. *)
Told(u, rows) == [c \in Client |-> IF c \in Connected THEN u[c] \cup NewIn(rows) ELSE u[c]]

NothingAsked(c, u, q, rows) ==
  /\ state[c] # "NORMAL" \/ q[c] = {}
  /\ updates' = u
  /\ changed' = rows
  /\ UNCHANGED <<firstCompare, oldFb, writeVars>>

Check(u, rows) ==
  IF rows = {}
  THEN updates' = u /\ UNCHANGED comparerVars
  ELSE /\ updates' = Told(u, rows)
       /\ oldFb' = OldFbAfter(rows)
       /\ firstCompare' = FALSE
       /\ changed' = {}

StartWriting(c, u, q, d, rows) ==
  /\ state[c] = "NORMAL"
  /\ q[c] # {}
  /\ Check(u, rows)
  /\ LET found == updates'[c] \cap q[c]
     IN IF found # {} \/ d[c]
        THEN writer' = c /\ sending' = found
        ELSE UNCHANGED writeVars

WriteUpdate(c, u, q, d, rows) ==
  /\ NothingAsked(c, u, q, rows) \/ StartWriting(c, u, q, d, rows)
  /\ requested' = q
  /\ sizeDue' = d

(* Mutant: everything that was to be sent counts as sent. *)
UnsentAfterAll(c, rows) == updates[c] \ sending

(* Mutant: the request is not cleared. *)
RequestStays(c) == requested[c]

(* requested.clear() *)
RequestAfter(c) == {}

(* updates.subtract() *)
UnsentAfter(c, rows) == updates[c] \ rows

(* The rows are read and sent.  An encoder may leave out the end of a      *)
(* rectangle (ZRLE).  The new size comes last.                             *)
Encode(rows) ==
  /\ writer # NoClient
  /\ rows \subseteq sending
  /\ rows = {} => sending = {}
  /\ LET c == writer
         h == IF sizeDue[c] THEN cpHeight[c] ELSE viewHeight[c]
     IN /\ view' = [view EXCEPT ![c] =
             [r \in Row |-> CASE r > h -> White
                              [] r <= h /\ r \in rows -> Pixels[r]
                              [] r <= h /\ r \notin rows -> view[c][r]]]
        /\ viewHeight' = [viewHeight EXCEPT ![c] = h]
        /\ updates' = [updates EXCEPT ![c] = UnsentAfter(c, rows)]
        /\ requested' = [requested EXCEPT ![c] = RequestAfter(c)]
        /\ sizeDue' = [sizeDue EXCEPT ![c] = FALSE]
  /\ writer' = NoClient
  /\ sending' = {}
  /\ slipped' = (slipped \/ \E r \in rows \cap FbRows : Pixels[r] # oldFb[r])
  /\ UNCHANGED <<screenVars, beyond, comparerVars, scanVars, loopVars, state, cpHeight>>

-----------------------------------------------------------------------------
(* BackgroundScreenUpdateCheck()                                           *)

ReadyForUpdate == \E c \in Connected : requested[c] # {}

(* setPixelBuffer(): a new comparer. *)
ScanResize ==
  /\ Waiting
  /\ ReadyForUpdate
  /\ height # fbHeight
  /\ fbHeight' = height
  /\ fb' = IF Live THEN fb ELSE Blank
  /\ firstCompare' = TRUE
  /\ oldFb' = Blank
  /\ changed' = 1..height
  /\ loop' = "RESIZE"
  /\ todo' = Connected
  /\ UNCHANGED <<screenVars, historyVars, nextLine, lines, writeVars, clientVars, viewVars>>

FrameIsOver == nextLine >= fbHeight

Slice(first, n) == {r \in FbRows : first < r /\ r <= first + n}

(* A frame starts with a new copy of the screen. *)
ScanNewFrame(n) ==
  /\ Waiting
  /\ ReadyForUpdate
  /\ height = fbHeight
  /\ FrameIsOver
  /\ lines' = n
  /\ GrabScreen
  /\ changed' = changed \cup Slice(0, n)
  /\ nextLine' = n
  /\ loop' = "UPDATE"
  /\ todo' = Connected
  /\ UNCHANGED <<screenVars, historyVars, fbHeight, firstCompare, oldFb, writeVars,
                 clientVars, viewVars>>

ScanSlice(regrab) ==
  /\ Waiting
  /\ ReadyForUpdate
  /\ height = fbHeight
  /\ ~FrameIsOver
  /\ IF regrab THEN GrabScreen ELSE UNCHANGED fb
  /\ changed' = changed \cup Slice(nextLine, lines)
  /\ nextLine' = nextLine + lines
  /\ loop' = "UPDATE"
  /\ todo' = Connected
  /\ UNCHANGED <<screenVars, historyVars, fbHeight, lines, firstCompare, oldFb, writeVars,
                 clientVars, viewVars>>

-----------------------------------------------------------------------------
(* The loops over the clients                                              *)

Next1(c) ==
  /\ writer = NoClient
  /\ c \in todo
  /\ todo' = todo \ {c}
  /\ loop' = IF todo' = {} THEN "NONE" ELSE loop

(* tryUpdate() *)
TryUpdate(c) ==
  /\ loop = "UPDATE"
  /\ Next1(c)
  /\ WriteUpdate(c, updates, requested, sizeDue, changed)
  /\ UNCHANGED <<screenVars, historyVars, scanVars, state, cpHeight, viewVars>>

(* updates.add_changed (pb->getRect ()) *)
EverythingIn(h) == 1..h

(* Mutant: what was to be sent of the old frame buffer stays. *)
PendingStays(c) == updates[c] \cup EverythingIn(fbHeight)

(* updates.clear() and updates.add_changed() *)
PendingAfterResize(c) == EverythingIn(fbHeight)

(* pixelBufferChange(): everything is new.  A client that must be told the *)
(* size is told at once if it has asked for anything.                      *)
PixelBufferChange(c) ==
  /\ loop = "RESIZE"
  /\ Next1(c)
  /\ LET resize == cpHeight[c] # fbHeight
         u == [updates EXCEPT ![c] = PendingAfterResize(c)]
         d == [sizeDue EXCEPT ![c] = sizeDue[c] \/ resize]
     IN /\ resize => state[c] = "NORMAL" /\ c \in Resizable
        /\ cpHeight' = [cpHeight EXCEPT ![c] = fbHeight]
        /\ IF d[c]
           THEN WriteUpdate(c, u, requested, d, changed)
           ELSE /\ updates' = u
                /\ sizeDue' = d
                /\ UNCHANGED <<comparerVars, writeVars, requested>>
  /\ UNCHANGED <<screenVars, historyVars, scanVars, state, viewVars>>

Left(c) ==
  /\ sizeDue' = [sizeDue EXCEPT ![c] = FALSE]
  /\ updates' = [updates EXCEPT ![c] = {}]
  /\ requested' = [requested EXCEPT ![c] = {}]
  /\ cpHeight' = [cpHeight EXCEPT ![c] = fbHeight]
  /\ view' = [view EXCEPT ![c] = Blank]
  /\ viewHeight' = [viewHeight EXCEPT ![c] = fbHeight]

(* "Client does not support desktop resize" *)
CloseUnresizable(c) ==
  /\ loop = "RESIZE"
  /\ Next1(c)
  /\ cpHeight[c] # fbHeight
  /\ ~(state[c] = "NORMAL" /\ c \in Resizable)
  /\ state' = [state EXCEPT ![c] = "OUT"]
  /\ Left(c)
  /\ UNCHANGED <<screenVars, historyVars, comparerVars, scanVars, writeVars>>

-----------------------------------------------------------------------------
(* The clients                                                             *)

(* SDesktopBeOS::start() grabs the screen and makes a new comparer; the    *)
(* place of the scan stays.  stop(), which comes when nobody is connected, *)
(* throws both away.                                                       *)
StartDesktop ==
  /\ Connected = {}
  /\ fbHeight' = height
  /\ GrabScreen
  /\ firstCompare' = TRUE
  /\ oldFb' = Blank
  /\ changed' = 1..height

ReuseDesktop == Connected # {} /\ UNCHANGED <<fb, fbHeight, comparerVars>>

(* authSuccess(): everything is new. *)
AuthSuccess(c) ==
  /\ Waiting
  /\ state[c] = "OUT"
  /\ StartDesktop \/ ReuseDesktop
  /\ state' = [state EXCEPT ![c] = "INIT"]
  /\ cpHeight' = [cpHeight EXCEPT ![c] = fbHeight']
  /\ updates' = [updates EXCEPT ![c] = EverythingIn(fbHeight')]
  /\ UNCHANGED <<screenVars, historyVars, nextLine, lines, loopVars, writeVars, sizeDue,
                 requested, viewVars>>

(* clientInit(): the client is told the size of the desktop. *)
ClientInit(c) ==
  /\ Waiting
  /\ state[c] = "INIT"
  /\ state' = [state EXCEPT ![c] = "NORMAL"]
  /\ viewHeight' = [viewHeight EXCEPT ![c] = cpHeight[c]]
  /\ UNCHANGED <<screenVars, historyVars, comparerVars, scanVars, loopVars, writeVars,
                 cpHeight, sizeDue, updates, requested, view>>

Leave(c) ==
  /\ Waiting \/ writer = c
  /\ state[c] # "OUT"
  /\ state' = [state EXCEPT ![c] = "OUT"]
  /\ Left(c)
  /\ writer' = NoClient
  /\ sending' = {}
  /\ UNCHANGED <<screenVars, historyVars, comparerVars, scanVars, loopVars>>

(* framebufferUpdateRequest() *)
Request(c, rows, incremental) ==
  /\ Waiting
  /\ state[c] = "NORMAL"
  /\ LET u == IF incremental THEN updates
              ELSE [updates EXCEPT ![c] = updates[c] \cup rows]
         q == [requested EXCEPT ![c] = requested[c] \cup rows]
         new == IF incremental THEN changed ELSE changed \cup rows
     IN WriteUpdate(c, u, q, sizeDue, new)
  /\ beyond' = (beyond \/ (~incremental /\ ~(rows \subseteq FbRows)))
  /\ UNCHANGED <<screenVars, slipped, scanVars, loopVars, state, cpHeight, viewVars>>

(* A client asks for all of the desktop it knows of or for a row of it,    *)
(* again in full only while things change.                                 *)
Asks(c, incremental) ==
  \E rows \in {1..viewHeight[c]} \cup {{r} : r \in 1..viewHeight[c]} :
    /\ incremental \/ ~settled
    /\ Request(c, rows, incremental)

AskForAll(c) ==
  /\ ~(1..viewHeight[c] \subseteq requested[c])
  /\ Request(c, 1..viewHeight[c], TRUE)

-----------------------------------------------------------------------------
Scan ==
  \/ ScanResize
  \/ \E n \in Lines : ScanNewFrame(n)
  \/ \E regrab \in BOOLEAN : ScanSlice(regrab)

Loops ==
  \/ \E c \in Client : TryUpdate(c) \/ PixelBufferChange(c) \/ CloseUnresizable(c)
  \/ \E rows \in SUBSET sending : Encode(rows)

UpdatesNext ==
  \/ \E r \in Row, p \in Pixel : Draw(r, p)
  \/ \E h \in Heights : Resize(h)
  \/ Settle
  \/ Scan
  \/ Loops
  \/ \E c \in Client :
       \/ AuthSuccess(c)
       \/ ClientInit(c)
       \/ Leave(c)
       \/ \E incremental \in BOOLEAN : Asks(c, incremental)

UpdatesSpec == UpdatesInit /\ [][UpdatesNext]_updateVars

(* The polling step comes again and again, and clients keep asking.        *)
UpdatesFairness ==
  /\ WF_updateVars(Scan)
  /\ WF_updateVars(Loops)
  /\ \A c \in Client : SF_updateVars(AskForAll(c))

UpdatesFairSpec == UpdatesSpec /\ UpdatesFairness

-----------------------------------------------------------------------------
(* Properties                                                              *)

(* Nothing is read from outside the frame buffer ("we assume that the      *)
(* specified rectangle is pre-clipped to the buffer"), until a client asks *)
(* for a full refresh of rows that have gone, because it does not know yet *)
(* that the screen has shrunk.                                             *)
RowsExist == ~beyond => sending \subseteq FbRows

(* A client is never sent anything outside the desktop it knows of.        *)
ClientHasRows == writer # NoClient => sending \subseteq 1..viewHeight[writer]

(* The clients the loop of setPixelBuffer() has not come to. *)
Untold == IF loop = "RESIZE" THEN todo ELSE {}

(* oldFb is what the server believes every client to show: a row of a      *)
(* client that shows something else is in the client's tracker, whoever    *)
(* caused the comparison, unless a row was sent that had changed since it  *)
(* was compared.                                                           *)
StaleIsTracked ==
  ~slipped =>
    \A c \in Connected \ Untold : \A r \in FbRows \ updates[c] : view[c][r] = oldFb[r]

(* When nobody draws any more, a client that keeps asking is shown what is *)
(* on the screen, or leaves, again unless a row has slipped through.       *)
Shows(c) == viewHeight[c] = height /\ \A r \in 1..height : view[c][r] = screen[r]

SettledScreenIsShown ==
  \A c \in Client :
    settled /\ state[c] = "NORMAL" ~> state[c] = "OUT" \/ Shows(c) \/ slipped

(* The server reads "the screen memory in the areas marked as changed,     *)
(* compare it with the previous version, and send out any changes".        *)
ChangesAreSent ==
  \A c \in Client : settled /\ state[c] = "NORMAL" ~> state[c] = "OUT" \/ Shows(c)
=============================================================================
