--------------------------- MODULE MCVNCServerST ---------------------------
(***************************************************************************)
(* Instances for TLC of the server object, in parts that share no state:   *)
(* its clients (VNCServerST), the copy of the screen that it reads         *)
(* (ScreenCopy), what it tells one client of the screen (UpdateTracker),   *)
(* and the cursor that it draws there (Cursors).                           *)
(***************************************************************************)
EXTENDS VNCServerST, TLC

CONSTANTS
  c1, c2, c3,
  Size, Pixel, Arrow, CompareFB, Wanted, Encodings, MaxEvents,  \* UpdateTracker
  ByteBits, nativeBigEndian, CubeSide,                          \* PixelFormats
  ColourSpaces, ScreenSizes, RowAlign, MaxSwitches,             \* ScreenCopy
  MaskBits, Shapes, Outline, ScreenPixel, ScreenSide,           \* Cursors
  Parts                                                         \* the parts of a run

VARIABLES
  part,
  screen, comparer, oldFb, updates, asked, view, cursor, cp, drawn, spoilt, events,
  mode, server, space, bitmap, buffer, dataAlive, told, switches,
  cursorImage, cursorAsked

trackerVars == <<screen, comparer, oldFb, updates, asked, view, cursor, cp, drawn, spoilt, events>>
copyVars == <<mode, server, space, bitmap, buffer, dataAlive, told, switches>>
imageVars == <<cursorImage, cursorAsked>>

ASSUME TrackersAssumption ==
  /\ Size \in Nat \ {0}
  /\ CompareFB \in BOOLEAN
  /\ Wanted \subseteq SUBSET (0 .. Size - 1)
  /\ Encodings \subseteq [supportsLocalCursor : BOOLEAN, useCopyRect : BOOLEAN]
  /\ MaxEvents \in Nat

(* The system gives the rows of a bitmap whole words of four bytes. *)
ASSUME CopyAssumption ==
  /\ nativeBigEndian \in BOOLEAN
  /\ ScreenSizes \subseteq Nat \X Nat
  /\ RowAlign \in Nat \ {0} /\ RowAlign % 4 = 0

T == INSTANCE UpdateTracker WITH requested <- asked
W == INSTANCE ScreenCopy
K == INSTANCE Cursors WITH cursor <- cursorImage, asked <- cursorAsked

ASSUME ShapesAssumption ==
  /\ \A c \in Shapes : K!IsShape(c)
  /\ MaskBits \in Nat \ {0}
  /\ ScreenSide \in Nat

Idle == "idle"

IdleTrackers ==
  /\ screen = Idle /\ comparer = Idle /\ oldFb = Idle /\ updates = Idle /\ asked = Idle
  /\ view = Idle /\ cursor = Idle /\ cp = Idle /\ drawn = Idle /\ spoilt = Idle /\ events = Idle
IdleCopies ==
  /\ mode = Idle /\ server = Idle /\ space = Idle /\ bitmap = Idle /\ buffer = Idle
  /\ dataAlive = Idle /\ told = Idle /\ switches = Idle
IdleImages == cursorImage = Idle /\ cursorAsked = Idle

ServerInit ==
  /\ part \in Parts
  /\ Init
  /\ IF part = "trackers" THEN T!Init ELSE IdleTrackers
  /\ IF part = "copies" THEN W!Init ELSE IdleCopies
  /\ IF part = "cursors" THEN K!Init ELSE IdleImages

serverVars == <<part, vars, trackerVars, copyVars, imageVars>>

ServerNext ==
  /\ UNCHANGED part
  /\ \/ part = "clients" /\ Next /\ UNCHANGED <<trackerVars, copyVars, imageVars>>
     \/ part = "trackers" /\ T!Next /\ UNCHANGED <<vars, copyVars, imageVars>>
     \/ part = "copies" /\ W!Next /\ UNCHANGED <<vars, trackerVars, imageVars>>
     \/ part = "cursors" /\ K!Next /\ UNCHANGED <<vars, trackerVars, copyVars>>

ServerSpec == ServerInit /\ [][ServerNext]_serverVars

-----------------------------------------------------------------------------
(* Where the trackers have nothing to send, the client shows the screen,   *)
(* or the cursor where the server remembers having drawn it: what is not   *)
(* sent again is on the client's screen.  And however the mode of the      *)
(* screen changes, its copy is read with the format and the size that the  *)
(* copy has.                                                               *)
ClientsSeeTheScreen ==
  /\ part = "trackers" => T!TypeOK /\ T!ClientsSeeTheScreen
  /\ part = "copies" => W!CopyIsReadAsItIs

(* The cursor: cropped, outlined and cut off at the edges of the screen,   *)
(* the cursor that was set is the one that is shown.                       *)
CursorShownAsAsked == part = "cursors" => K!CursorShownAsAsked

-----------------------------------------------------------------------------
Symmetry == Permutations(Conn) \cup Permutations(Pixel)

TwoConns == {c1, c2}
ThreeConns == {c1, c2, c3}

AllOrMost == {0 .. Size - 1, 0 .. Size - 2}

(* At first; the client may say otherwise later. *)
CopyRectOnly == [supportsLocalCursor : {FALSE}, useCopyRect : {TRUE}]

SomeColourSpaces ==
  {"B_RGB32", "B_RGBA32", "B_RGB24", "B_RGB16", "B_RGB15", "B_CMAP8", "B_GRAY8", "B_RGB15_BIG", "B_YUV422"}

ThreeSizes == {<<2, 2>>, <<3, 2>>, <<2, 3>>}

SmallShapes ==
  LET Shape(w, h, x, y, mask) ==
        [w |-> w, h |-> h, hotspot |-> <<x, y>>, mask |-> mask,
         pixels |-> [p \in K!Plane(w, h) |-> (p[1] + 2 * p[2]) % 3]]
  IN  UNION {{Shape(w, h, x, y, mask) : mask \in SUBSET K!Plane(w, h), x \in {0, w - 1}, y \in {0, h - 1}} :
               w \in 1 .. 3, h \in 1 .. 2}
=============================================================================
