------------------------------ MODULE ScreenProofs -----------------------------
(***************************************************************************)
(* Theorems about how the server gets at the screen: what the locking of   *)
(* the frame buffer guarantees, for any set of modes (DirectWindow), and   *)
(* what the tracking of changes guarantees, for any set of clients, any    *)
(* sizes of the screen and both kinds of frame buffer (ScreenUpdates).     *)
(***************************************************************************)
EXTENDS DirectWindow, ScreenUpdates, TLAPS

-----------------------------------------------------------------------------
(* The inductive invariant.                                                *)

(* The server thread holds the lock exactly from LockFrameBuffer() to      *)
(* UnlockFrameBuffer(); a callback may run without it, but nobody else     *)
(* holds it in its name.                                                   *)
LockInv ==
  /\ lock = "SERVER" <=> server \in Holding
  /\ lock = "DIRECT" => callback \in {"CHANGING", "LATE", "RETURNING"}
  /\ ~barged /\ callback \in {"CHANGING", "LATE", "RETURNING"} => lock = "DIRECT"

(* The window has a pointer from the moment a callback saves it to the     *)
(* moment one clears it, and it is the one to the screen's memory.         *)
SavedInv ==
  /\ callback = "NONE" <=> display \in {"UP", "DOWN"}
  /\ display = "DOWN" => saved = NoMode
  /\ display = "STARTING" => saved = IF callback = "RETURNING" THEN mode ELSE NoMode
  /\ display = "UP" => saved = mode
  /\ display = "STOPPING" =>
       saved = IF callback \in {"LOCKING", "CHANGING"} THEN mode ELSE NoMode

(* A callback that has cleared the pointer and has not bumped the version. *)
Unannounced == display = "STOPPING" /\ callback = "LATE"

(* The server thread has copied the settings of the version it noted, and  *)
(* that version is the window's.                                           *)
UpToDate == server # "CACHING" /\ cachedVersion = version /\ version > 0 /\ ~Unannounced

VersionInv ==
  /\ cachedVersion <= version
  /\ cachedVersion = 0 => data = NoMode /\ server # "CACHING"
  /\ UpToDate /\ saved = NoMode => data = "PICTURE"

(* What the lock adds while no callback has gone ahead without it. *)
LockedInv ==
  ~barged =>
    /\ server \in {"CACHING", "READING"} => cachedVersion = version
    /\ display = "STARTING" /\ callback = "LATE" => cachedVersion < version
    /\ UpToDate /\ saved # NoMode => data = saved

(* The size the window knows is the screen's once ScreenChanged() has been *)
(* called, and the frame buffer's is the window's while the version is     *)
(* unchanged.                                                              *)
WindowSizeInv ==
  /\ news = NoMode => screenSize = mode
  /\ news # NoMode => news = mode
  /\ server # "CACHING" /\ cachedVersion = version /\ data \in Mode => size = screenSize

WindowInv ==
  /\ TypeOK
  /\ LockInv
  /\ SavedInv
  /\ VersionInv
  /\ LockedInv
  /\ WindowSizeInv

-----------------------------------------------------------------------------
LEMMA InitWindowInv == Init => WindowInv
<1> SUFFICES ASSUME Init PROVE WindowInv
  OBVIOUS
<1>1. TypeOK
  BY ModeAssumption DEF Init, TypeOK
<1>2. LockInv /\ SavedInv
  BY DEF Init, LockInv, SavedInv, Holding
<1>3. VersionInv /\ LockedInv /\ WindowSizeInv
  BY ModeAssumption DEF Init, VersionInv, LockedInv, WindowSizeInv, UpToDate
<1> QED
  BY <1>1, <1>2, <1>3 DEF WindowInv

LEMMA NextWindowInv == WindowInv /\ [Next]_vars => WindowInv'
<1> SUFFICES ASSUME WindowInv, [Next]_vars PROVE WindowInv'
  OBVIOUS
<1> USE ModeAssumption, BoundAssumption
    DEF WindowInv, TypeOK, LockInv, SavedInv, VersionInv, LockedInv, WindowSizeInv,
        UpToDate, Unannounced, Holding, osVars, windowVars, cacheVars
<1>1. CASE StopScreen
  BY <1>1 DEF StopScreen
<1>2. ASSUME NEW m \in Mode, StartScreen(m) PROVE WindowInv'
  BY <1>2 DEF StartScreen
<1>3. CASE CallbackLocks
  BY <1>3 DEF CallbackLocks
<1>4. CASE CallbackGivesUp
  BY <1>4 DEF CallbackGivesUp
<1>5. CASE ConnectBumps
  BY <1>5 DEF ConnectBumps
<1>6. CASE ConnectSaves
  BY <1>6 DEF ConnectSaves
<1>7. CASE DisconnectClears
  BY <1>7 DEF DisconnectClears
<1>8. CASE DisconnectBumps
  BY <1>8 DEF DisconnectBumps
<1>9. CASE CallbackReturns
  <2>1. TypeOK'
    BY <1>9 DEF CallbackReturns
  <2>2. LockInv'
    BY <1>9 DEF CallbackReturns
  <2>3. SavedInv'
    BY <1>9 DEF CallbackReturns
  <2>4. VersionInv' /\ LockedInv' /\ WindowSizeInv'
    BY <1>9 DEF CallbackReturns
  <2> QED
    BY <2>1, <2>2, <2>3, <2>4
<1>10. CASE ScreenChanged
  BY <1>10 DEF ScreenChanged
<1>11. CASE LockFrameBuffer
  BY <1>11 DEF LockFrameBuffer
<1>12. CASE NothingNew
  BY <1>12 DEF NothingNew, AfterUpdate
<1>13. CASE NoteVersion
  BY <1>13 DEF NoteVersion
<1>14. CASE CopySettings
  BY <1>14 DEF CopySettings, AfterUpdate
<1>15. CASE UnlockFrameBuffer
  BY <1>15 DEF UnlockFrameBuffer
<1>16. CASE AnswerRequest
  BY <1>16 DEF AnswerRequest
<1>17. CASE RequestAnswered
  BY <1>17 DEF RequestAnswered
<1>18. CASE ScanNothing
  BY <1>18 DEF ScanNothing, vars
<1>19. CASE UNCHANGED vars
  BY <1>19 DEF vars
<1> QED
  BY <1>1, <1>2, <1>3, <1>4, <1>5, <1>6, <1>7, <1>8, <1>9, <1>10, <1>11, <1>12,
     <1>13, <1>14, <1>15, <1>16, <1>17, <1>18, <1>19 DEF Next, Callback, Server

LEMMA WindowInvariance == Spec => []WindowInv
BY InitWindowInv, NextWindowInv, PTL DEF Spec

-----------------------------------------------------------------------------
(* Every reachable state is well typed; in particular the frame buffer has *)
(* a size exactly when it has a pointer (UpdatePixelFormatEtc()).          *)
THEOREM WindowTypeCorrect == Spec => []TypeOK
<1>1. WindowInv => TypeOK
  BY DEF WindowInv
<1> QED
  BY <1>1, WindowInvariance, PTL

(* However late DirectConnected() is, and also when it goes ahead without  *)
(* the lock, the scan after it knows that video memory has gone.           *)
THEOREM GoneMemoryIsNoticed == Spec => []GoneIsNoticed
<1>1. WindowInv => GoneIsNoticed
  BY DEF WindowInv, SavedInv, VersionInv, UpToDate, Unannounced, GoneIsNoticed
<1> QED
  BY <1>1, WindowInvariance, PTL

(* While no callback has gone ahead without the lock, an unchanged version *)
(* means an unchanged pointer.                                             *)
THEOREM LockedCacheIsCurrent == Spec => []CacheIsCurrent
<1>1. WindowInv => CacheIsCurrent
  BY DEF WindowInv, SavedInv, VersionInv, LockedInv, UpToDate, Unannounced, CacheIsCurrent
<1> QED
  BY <1>1, WindowInvariance, PTL

LEMMA ScanIsMapped ==
  ASSUME WindowInv, ~barged, server = "READING", data \in Mode
  PROVE  display # "DOWN" /\ data = mode /\ cachedVersion = version
<1>1. callback \in {"NONE", "LOCKING"} /\ ~Unannounced
  BY DEF WindowInv, TypeOK, LockInv, Holding, Unannounced
<1>2. cachedVersion = version /\ version > 0
  BY ModeAssumption DEF WindowInv, TypeOK, VersionInv, LockedInv
<1>3. data = saved
  BY <1>1, <1>2, ModeAssumption DEF WindowInv, TypeOK, VersionInv, LockedInv, UpToDate
<1> QED
  BY <1>1, <1>2, <1>3, ModeAssumption DEF WindowInv, TypeOK, SavedInv

(* While no callback has gone ahead without the lock, a scan of            *)
(* BackgroundScreenUpdateCheck() only reads memory that is there.          *)
THEOREM LockedScanReadsMapped == Spec => []ScanReadsMapped
<1>1. WindowInv => ScanReadsMapped
  BY ScanIsMapped DEF ScanReadsMapped, Mapped
<1> QED
  BY <1>1, WindowInvariance, PTL

(* And it reads that memory with its own size, once ScreenChanged() has    *)
(* told the size of the last mode.                                         *)
THEOREM LockedScanHasItsSize == Spec => []ScanHasItsSize
<1>1. ASSUME WindowInv, ~barged, server = "READING", data \in Mode, news = NoMode
      PROVE size = data
  BY <1>1, ScanIsMapped DEF WindowInv, WindowSizeInv
<1>2. WindowInv => ScanHasItsSize
  BY <1>1 DEF ScanHasItsSize
<1> QED
  BY <1>2, WindowInvariance, PTL

-----------------------------------------------------------------------------
(* ScreenUpdates                                                           *)

-----------------------------------------------------------------------------
(* The inductive invariant.                                                *)

(* A client that is not being served has asked for nothing, and one that   *)
(* has gone has nothing to come.                                           *)
OutInv ==
  \A c \in Client :
    /\ state[c] # "NORMAL" => requested[c] = {}
    /\ state[c] = "OUT" => updates[c] = {}

(* The clients a loop has still to come to are connected. *)
LoopInv ==
  /\ todo \subseteq Connected
  /\ loop = "NONE" => todo = {}

(* Requests lie within the desktop the client knows of. *)
AskedInv == \A c \in Client : requested[c] \subseteq 1..viewHeight[c]

(* A connection knows the size of the frame buffer, once setPixelBuffer()  *)
(* has come to it, and its client does, unless it is still to be told.     *)
SizeInv ==
  /\ \A c \in Connected \ Untold : cpHeight[c] = fbHeight
  /\ \A c \in Client : state[c] = "NORMAL" /\ ~sizeDue[c] => viewHeight[c] = cpHeight[c]

(* An update is written to a client that is up to date with the size, and  *)
(* holds what is pending for it and what it asked for.                     *)
WriterInv ==
  IF writer = NoClient
  THEN sending = {}
  ELSE /\ writer \notin todo
       /\ state[writer] = "NORMAL"
       /\ sending \subseteq updates[writer] \cap requested[writer]

(* What is pending lies within the frame buffer. *)
PendingInv ==
  ~beyond =>
    /\ changed \subseteq FbRows
    /\ \A c \in Client \ Untold : updates[c] \subseteq FbRows

(* A comparer that has never compared has everything before it. *)
CompareInv == firstCompare => FbRows \subseteq changed

UpdatesInv ==
  /\ UpdatesTypeOK
  /\ OutInv
  /\ LoopInv
  /\ AskedInv
  /\ SizeInv
  /\ WriterInv
  /\ PendingInv
  /\ CompareInv
  /\ StaleIsTracked

-----------------------------------------------------------------------------
LEMMA HeightRows == \A h \in Heights : h \in Nat /\ 1..h \subseteq Row
BY ScreenAssumption DEF Row

(* What writeFramebufferUpdate() does to trackers u, q and d and to the    *)
(* comparer's rows: nothing that was pending is lost, nobody misses a row  *)
(* in which oldFb is brought up to date, and only what is pending and was  *)
(* asked for is sent.                                                      *)
Written(c, u, q, d, rows) ==
  /\ requested' = q /\ sizeDue' = d
  /\ updates' \in [Client -> SUBSET Row]
  /\ firstCompare' \in BOOLEAN
  /\ oldFb' \in [Row -> Pixel]
  /\ changed' = rows \/ changed' = {}
  /\ firstCompare' => firstCompare /\ changed' = rows
  /\ \A b \in Client : u[b] \subseteq updates'[b]
  /\ \A b \in Client : updates'[b] \subseteq u[b] \cup rows
  /\ \A b \in Client : b \notin Connected => updates'[b] = u[b]
  /\ IF writer' = NoClient
     THEN sending' = {}
     ELSE /\ writer' = c
          /\ state[c] = "NORMAL"
          /\ sending' \subseteq updates'[c] \cap q[c]
  /\ (firstCompare => FbRows \subseteq rows) =>
       \A b \in Connected : \A r \in FbRows \ updates'[b] : oldFb'[r] = oldFb[r]
  /\ sending' \subseteq Row
  /\ writer' \in Client \cup {NoClient}

LEMMA Writing ==
  ASSUME UpdatesTypeOK, writer = NoClient, sending = {},
         NEW c \in Client,
         NEW u \in [Client -> SUBSET Row],
         NEW q \in [Client -> SUBSET Row],
         NEW d \in [Client -> BOOLEAN],
         NEW rows \in SUBSET Row, changed \subseteq rows,
         WriteUpdate(c, u, q, d, rows)
  PROVE  Written(c, u, q, d, rows)
<1> USE DEF Written
<1> FbRows \subseteq Row /\ fbHeight \in Nat
  BY HeightRows DEF UpdatesTypeOK, FbRows
<1>1. requested' = q /\ sizeDue' = d
  BY DEF WriteUpdate
<1>2. CASE NothingAsked(c, u, q, rows)
  BY <1>1, <1>2 DEF NothingAsked, writeVars, UpdatesTypeOK
<1>3. CASE StartWriting(c, u, q, d, rows)
  <2>1. Pixels \in [Row -> Pixel]
    BY DEF UpdatesTypeOK, Pixels
  <2>2. Different(rows) \subseteq rows /\ NewIn(rows) \subseteq rows
    BY DEF Different, Inside, NewIn
  <2>3. OldFbAfter(rows) \in [Row -> Pixel]
    BY <2>1, ScreenAssumption DEF OldFbAfter, UpdatesTypeOK
  <2>4. Told(u, rows) \in [Client -> SUBSET Row]
    BY <2>2 DEF Told
  <2>5. LET found == updates'[c] \cap q[c]
        IN IF found # {} \/ d[c]
           THEN writer' = c /\ sending' = found
           ELSE writer' = NoClient /\ sending' = {}
    BY <1>3 DEF StartWriting, writeVars
  <2>6. state[c] = "NORMAL"
    BY <1>3 DEF StartWriting
  <2>7. CASE rows = {}
    <3>1. updates' = u /\ firstCompare' = firstCompare /\ oldFb' = oldFb /\ changed' = changed
      BY <1>3, <2>7 DEF StartWriting, Check, comparerVars
    <3> QED
      BY <1>1, <2>5, <2>6, <2>7, <3>1, ClientAssumption DEF UpdatesTypeOK
  <2>8. CASE rows # {}
    <3>1. /\ updates' = Told(u, rows)
          /\ oldFb' = OldFbAfter(rows)
          /\ firstCompare' = FALSE
          /\ changed' = {}
      BY <1>3, <2>8 DEF StartWriting, Check
    <3>2. ASSUME NEW b \in Client
          PROVE  /\ u[b] \subseteq updates'[b]
                 /\ updates'[b] \subseteq u[b] \cup rows
                 /\ b \notin Connected => updates'[b] = u[b]
      BY <2>2, <3>1 DEF Told
    <3>3. ASSUME firstCompare => FbRows \subseteq rows,
                 NEW b \in Connected, NEW r \in FbRows \ updates'[b]
          PROVE  oldFb'[r] = oldFb[r]
      <4>1. b \in Client /\ r \in Row /\ r \notin NewIn(rows)
        BY <3>1, <3>3 DEF Told, Connected
      <4>2. ~firstCompare /\ r \notin Different(rows)
        BY <3>3, <4>1 DEF NewIn
      <4> QED
        BY <3>1, <4>1, <4>2 DEF OldFbAfter
    <3>4. updates' \in [Client -> SUBSET Row] /\ oldFb' \in [Row -> Pixel]
      BY <2>3, <2>4, <3>1
    <3>5. sending' \subseteq Row /\ writer' \in Client \cup {NoClient}
      BY <2>5, <3>4
    <3>6. IF writer' = NoClient
          THEN sending' = {}
          ELSE writer' = c /\ state[c] = "NORMAL" /\ sending' \subseteq updates'[c] \cap q[c]
      BY <2>5, <2>6, ClientAssumption
    <3> QED
      BY <1>1, <3>1, <3>2, <3>3, <3>4, <3>5, <3>6
  <2> QED
    BY <2>7, <2>8
<1> QED
  BY <1>2, <1>3 DEF WriteUpdate

-----------------------------------------------------------------------------
LEMMA InitUpdatesInv == UpdatesInit => UpdatesInv
<1> SUFFICES ASSUME UpdatesInit PROVE UpdatesInv
  OBVIOUS
<1> USE DEF UpdatesInit
<1>1. UpdatesTypeOK
  BY HeightRows, ScreenAssumption DEF UpdatesTypeOK, Blank, FbRows
<1>2. OutInv /\ LoopInv /\ AskedInv /\ WriterInv /\ CompareInv
  BY DEF OutInv, LoopInv, AskedInv, WriterInv, CompareInv
<1>3. SizeInv /\ PendingInv /\ StaleIsTracked
  BY DEF SizeInv, PendingInv, StaleIsTracked, Connected
<1> QED
  BY <1>1, <1>2, <1>3 DEF UpdatesInv

(* The applications and the user change only the screen. *)
LEMMA ScreenIInv ==
  ASSUME UpdatesInv,
         \/ \E r \in Row, p \in Pixel : Draw(r, p)
         \/ \E h \in Heights : Resize(h)
         \/ Settle
  PROVE  UpdatesInv'
<1>1. /\ screen' \in [Row -> Pixel] /\ height' \in Heights /\ settled' \in BOOLEAN
      /\ UNCHANGED <<historyVars, comparerVars, scanVars, loopVars, writeVars, clientVars, viewVars>>
  BY ScreenAssumption DEF UpdatesInv, UpdatesTypeOK, Draw, Resize, Settle
<1> USE <1>1 DEF historyVars, comparerVars, scanVars, loopVars, writeVars, clientVars, viewVars
<1>2. UpdatesTypeOK'
  BY DEF UpdatesInv, UpdatesTypeOK
<1>3. FbRows' = FbRows /\ Connected' = Connected /\ Untold' = Untold
  BY DEF FbRows, Connected, Untold
<1>4. OutInv' /\ LoopInv' /\ AskedInv' /\ WriterInv' /\ CompareInv'
  BY <1>3 DEF UpdatesInv, OutInv, LoopInv, AskedInv, WriterInv, CompareInv
<1>5. SizeInv' /\ PendingInv' /\ StaleIsTracked'
  BY <1>3 DEF UpdatesInv, SizeInv, PendingInv, StaleIsTracked
<1> QED
  BY <1>2, <1>4, <1>5 DEF UpdatesInv

(* A scan adds rows for the comparer and starts a loop over the clients. *)
LEMMA ScanIInv == ASSUME UpdatesInv, Scan PROVE UpdatesInv'
<1> USE DEF UpdatesInv, screenVars, historyVars, comparerVars, scanVars, loopVars, writeVars,
            clientVars, viewVars
<1>1. CASE ScanResize
  <2>1. UpdatesTypeOK'
    BY <1>1, HeightRows, ScreenAssumption DEF ScanResize, UpdatesTypeOK, Blank, Connected, Waiting
  <2>2. FbRows' = changed' /\ Connected' = Connected /\ Untold' = Connected
    BY <1>1 DEF ScanResize, FbRows, Connected, Untold
  <2>3. OutInv' /\ LoopInv' /\ AskedInv' /\ WriterInv' /\ CompareInv'
    BY <1>1, <2>2 DEF ScanResize, Waiting, OutInv, LoopInv, AskedInv, WriterInv, CompareInv
  <2>4. SizeInv' /\ StaleIsTracked'
    BY <1>1, <2>2 DEF ScanResize, SizeInv, StaleIsTracked
  <2>5. PendingInv'
    BY <1>1, <2>2 DEF ScanResize, PendingInv, OutInv, Connected
  <2> QED
    BY <2>1, <2>3, <2>4, <2>5
<1>2. ASSUME \/ \E n \in Lines : ScanNewFrame(n)
             \/ \E regrab \in BOOLEAN : ScanSlice(regrab)
      PROVE  UpdatesInv'
  <2>1. /\ fb' \in [Row -> Pixel] /\ nextLine' \in Nat /\ lines' \in Lines
        /\ loop' = "UPDATE" /\ todo' = Connected
        /\ changed \subseteq changed' /\ changed' \subseteq changed \cup FbRows
        /\ UNCHANGED <<screenVars, historyVars, fbHeight, firstCompare, oldFb, writeVars,
                       clientVars, viewVars>>
        /\ loop = "NONE" /\ writer = NoClient
    BY <1>2, ScreenAssumption DEF ScanNewFrame, ScanSlice, GrabScreen, Slice, UpdatesTypeOK, Waiting
  <2>2. UpdatesTypeOK'
    BY <2>1, HeightRows DEF UpdatesTypeOK, Connected, FbRows
  <2>3. FbRows' = FbRows /\ Connected' = Connected /\ Untold' = {} /\ Untold = {}
    BY <2>1 DEF FbRows, Connected, Untold
  <2>4. OutInv' /\ LoopInv' /\ AskedInv' /\ WriterInv' /\ CompareInv'
    BY <2>1, <2>3 DEF OutInv, LoopInv, AskedInv, WriterInv, CompareInv
  <2>5. SizeInv' /\ PendingInv' /\ StaleIsTracked'
    BY <2>1, <2>3 DEF SizeInv, PendingInv, StaleIsTracked
  <2> QED
    BY <2>2, <2>4, <2>5
<1> QED
  BY <1>1, <1>2 DEF Scan

(* An update is sent: what is sent is no longer pending, and the client    *)
(* shows it as the comparer saw it, or a row has slipped through.          *)
LEMMA EncodeIInv ==
  ASSUME UpdatesInv, NEW rows \in SUBSET sending, Encode(rows)
  PROVE  UpdatesInv'
<1> USE DEF UpdatesInv, screenVars, comparerVars, scanVars, loopVars
<1> DEFINE h == IF sizeDue[writer] THEN cpHeight[writer] ELSE viewHeight[writer]
<1>1. writer \in Client /\ writer \in Connected \ Untold /\ state[writer] = "NORMAL"
  BY DEF Encode, WriterInv, UpdatesTypeOK, Connected, Untold
<1>2. h = fbHeight
  BY <1>1 DEF SizeInv
<1>3. /\ view' = [view EXCEPT ![writer] =
               [r \in Row |-> CASE r > h -> White
                                [] r <= h /\ r \in rows -> Pixels[r]
                                [] r <= h /\ r \notin rows -> view[writer][r]]]
      /\ viewHeight' = [viewHeight EXCEPT ![writer] = fbHeight]
      /\ updates' = [updates EXCEPT ![writer] = updates[writer] \ rows]
      /\ requested' = [requested EXCEPT ![writer] = {}]
      /\ sizeDue' = [sizeDue EXCEPT ![writer] = FALSE]
      /\ writer' = NoClient /\ sending' = {}
      /\ slipped' = (slipped \/ \E r \in rows \cap FbRows : Pixels[r] # oldFb[r])
      /\ UNCHANGED <<screenVars, beyond, comparerVars, scanVars, loopVars, state, cpHeight>>
  BY <1>2 DEF Encode, UnsentAfter, RequestAfter
<1>4. FbRows' = FbRows /\ Connected' = Connected /\ Untold' = Untold
  BY <1>3 DEF FbRows, Connected, Untold
<1>5. \A r \in FbRows : r \in Row /\ r <= h /\ ~(r > h)
  BY <1>2, HeightRows DEF UpdatesTypeOK, FbRows
<1>6. \A r \in Row : view'[writer][r] \in Pixel
  <2>1. Pixels \in [Row -> Pixel]
    BY DEF UpdatesTypeOK, Pixels
  <2>2. h \in Nat /\ Row \subseteq Nat
    BY <1>2, HeightRows, ScreenAssumption DEF UpdatesTypeOK, Row
  <2> QED
    BY <1>1, <1>3, <2>1, <2>2, ScreenAssumption DEF UpdatesTypeOK
<1>7. view' \in [Client -> [Row -> Pixel]]
  BY <1>1, <1>3, <1>6 DEF UpdatesTypeOK
<1>8. UpdatesTypeOK'
  BY <1>1, <1>3, <1>7 DEF UpdatesTypeOK
<1>9. OutInv' /\ LoopInv' /\ AskedInv' /\ WriterInv' /\ CompareInv'
  BY <1>1, <1>3, <1>4 DEF UpdatesTypeOK, OutInv, LoopInv, AskedInv, WriterInv, CompareInv
<1>10. SizeInv' /\ PendingInv'
  BY <1>1, <1>3, <1>4 DEF UpdatesTypeOK, SizeInv, PendingInv
<1>11. ASSUME ~slipped', NEW c \in Connected \ Untold, NEW r \in FbRows \ updates'[c]
       PROVE  view'[c][r] = oldFb[r]
  <2>1. CASE c # writer
    BY <1>3, <1>11, <2>1 DEF UpdatesTypeOK, Connected, StaleIsTracked
  <2>2. CASE c = writer /\ r \in rows
    <3>1. view'[c][r] = Pixels[r]
      BY <1>1, <1>3, <1>5, <2>2 DEF UpdatesTypeOK
    <3> QED
      BY <1>3, <1>11, <2>2, <3>1
  <2>3. CASE c = writer /\ r \notin rows
    <3>1. view'[c][r] = view[c][r]
      BY <1>1, <1>3, <1>5, <2>3 DEF UpdatesTypeOK
    <3>2. r \notin updates[c] /\ ~slipped
      BY <1>1, <1>3, <1>11, <2>3 DEF UpdatesTypeOK
    <3> QED
      BY <1>11, <3>1, <3>2 DEF StaleIsTracked
  <2> QED
    BY <2>1, <2>2, <2>3
<1>12. oldFb' = oldFb
  BY <1>3
<1>13. StaleIsTracked'
  BY <1>4, <1>11, <1>12 DEF StaleIsTracked
<1> QED
  BY <1>8, <1>9, <1>10, <1>13

(* tryUpdate() comes to a client. *)
LEMMA TryUpdateIInv ==
  ASSUME UpdatesInv, NEW c \in Client, TryUpdate(c)
  PROVE  UpdatesInv'
<1> USE DEF UpdatesInv, screenVars, historyVars, scanVars, viewVars
<1>1. /\ WriteUpdate(c, updates, requested, sizeDue, changed)
      /\ writer = NoClient /\ sending = {}
      /\ loop = "UPDATE" /\ todo' = todo \ {c}
      /\ loop' = IF todo' = {} THEN "NONE" ELSE loop
      /\ UNCHANGED <<screenVars, historyVars, scanVars, state, cpHeight, viewVars>>
  BY DEF TryUpdate, Next1, WriterInv
<1>2. FbRows' = FbRows /\ Connected' = Connected /\ Untold' = {} /\ Untold = {}
  BY <1>1 DEF FbRows, Connected, Untold
<1>3. Written(c, updates, requested, sizeDue, changed)
  BY <1>1, Writing DEF UpdatesTypeOK
<1>4. UpdatesTypeOK'
  BY <1>1, <1>3 DEF Written, UpdatesTypeOK
<1>5. OutInv' /\ LoopInv' /\ AskedInv' /\ CompareInv'
  BY <1>1, <1>2, <1>3 DEF Written, OutInv, LoopInv, AskedInv, CompareInv, Connected
<1>6. WriterInv'
  BY <1>1, <1>2, <1>3 DEF Written, WriterInv
<1>7. SizeInv'
  BY <1>1, <1>2, <1>3 DEF Written, SizeInv
<1>8. PendingInv'
  BY <1>1, <1>2, <1>3 DEF Written, PendingInv
<1>9. StaleIsTracked'
  BY <1>1, <1>2, <1>3 DEF Written, StaleIsTracked, CompareInv, Connected
<1> QED
  BY <1>4, <1>5, <1>6, <1>7, <1>8, <1>9

(* setPixelBuffer() comes to a client: everything is pending for it. *)
LEMMA PixelBufferChangeIInv ==
  ASSUME UpdatesInv, NEW c \in Client, PixelBufferChange(c)
  PROVE  UpdatesInv'
<1> USE DEF UpdatesInv, screenVars, historyVars, scanVars, viewVars
<1> DEFINE u == [updates EXCEPT ![c] = FbRows]
           d == [sizeDue EXCEPT ![c] = sizeDue[c] \/ cpHeight[c] # fbHeight]
<1>1. /\ writer = NoClient /\ sending = {}
      /\ loop = "RESIZE" /\ todo' = todo \ {c}
      /\ loop' = IF todo' = {} THEN "NONE" ELSE loop
      /\ cpHeight' = [cpHeight EXCEPT ![c] = fbHeight]
      /\ cpHeight[c] # fbHeight => state[c] = "NORMAL"
      /\ UNCHANGED <<screenVars, historyVars, scanVars, state, viewVars>>
  BY DEF PixelBufferChange, Next1, WriterInv
<1>2. /\ u \in [Client -> SUBSET Row] /\ d \in [Client -> BOOLEAN]
      /\ requested \in [Client -> SUBSET Row]
      /\ changed \in SUBSET Row
      /\ FbRows \subseteq Row
  BY HeightRows DEF UpdatesTypeOK, FbRows
<1>3. Written(c, u, requested, d, changed)
  <2>1. u = [updates EXCEPT ![c] = PendingAfterResize(c)]
    BY DEF PendingAfterResize, EverythingIn, FbRows
  <2>2. CASE d[c]
    <3>1. WriteUpdate(c, u, requested, d, changed)
      BY <2>1, <2>2 DEF PixelBufferChange
    <3> QED
      BY <1>1, <1>2, <3>1, Writing
  <2>3. CASE ~d[c]
    <3>1. /\ updates' = u /\ sizeDue' = d
          /\ UNCHANGED <<comparerVars, writeVars, requested>>
      BY <2>1, <2>3 DEF PixelBufferChange
    <3> QED
      BY <1>1, <1>2, <3>1 DEF Written, UpdatesTypeOK, comparerVars, writeVars
  <2> QED
    BY <2>2, <2>3
<1>4. /\ FbRows' = FbRows /\ Connected' = Connected
      /\ Untold = todo /\ Untold' = todo \ {c}
  BY <1>1 DEF FbRows, Connected, Untold
<1>5. UpdatesTypeOK'
  BY <1>1, <1>2, <1>3 DEF Written, UpdatesTypeOK
<1>6. FbRows \subseteq updates'[c] /\ updates'[c] \subseteq FbRows \cup changed
  BY <1>2, <1>3 DEF Written, UpdatesTypeOK
<1>7. \A b \in Client \ {c} : /\ updates[b] \subseteq updates'[b]
                              /\ updates'[b] \subseteq updates[b] \cup changed
                              /\ b \notin Connected => updates'[b] = updates[b]
  BY <1>3 DEF Written, UpdatesTypeOK
<1>8. state[c] # "OUT" /\ c \notin todo'
  BY <1>1 DEF PixelBufferChange, Next1, LoopInv, Connected
<1>9. OutInv' /\ LoopInv' /\ AskedInv' /\ CompareInv'
  BY <1>1, <1>3, <1>4, <1>7, <1>8 DEF Written, OutInv, LoopInv, AskedInv, CompareInv, Connected
<1>10. WriterInv'
  BY <1>1, <1>3, <1>4 DEF Written, WriterInv
<1>11. SizeInv'
  <2>1. sizeDue' = d
    BY <1>3 DEF Written
  <2>2. \A b \in Client : cpHeight'[b] = IF b = c THEN fbHeight ELSE cpHeight[b]
    BY <1>1 DEF UpdatesTypeOK
  <2>3. \A b \in Client : d[b] = IF b = c THEN sizeDue[b] \/ cpHeight[b] # fbHeight ELSE sizeDue[b]
    BY DEF UpdatesTypeOK
  <2> HIDE DEF d
  <2>4. \A b \in Connected' \ Untold' : cpHeight'[b] = fbHeight'
    BY <1>1, <1>4, <2>2 DEF SizeInv, Connected
  <2>5. \A b \in Client : state'[b] = "NORMAL" /\ ~sizeDue'[b] => viewHeight'[b] = cpHeight'[b]
    BY <1>1, <2>1, <2>2, <2>3 DEF SizeInv
  <2> QED
    BY <2>4, <2>5 DEF SizeInv
<1>12. PendingInv'
  BY <1>1, <1>3, <1>4, <1>6, <1>7 DEF Written, PendingInv
<1>13. StaleIsTracked'
  BY <1>1, <1>3, <1>4, <1>6 DEF Written, StaleIsTracked, CompareInv, Connected
<1> QED
  BY <1>5, <1>9, <1>10, <1>11, <1>12, <1>13

(* A client asks for rows of the desktop it knows of. *)
LEMMA RequestIInv ==
  ASSUME UpdatesInv, NEW c \in Client, NEW rows \in SUBSET (1..viewHeight[c]),
         NEW incremental \in BOOLEAN, Request(c, rows, incremental)
  PROVE  UpdatesInv'
<1> USE DEF UpdatesInv, screenVars, scanVars, loopVars, viewVars
<1> DEFINE u == IF incremental THEN updates
                ELSE [updates EXCEPT ![c] = updates[c] \cup rows]
           q == [requested EXCEPT ![c] = requested[c] \cup rows]
           new == IF incremental THEN changed ELSE changed \cup rows
<1>1. /\ WriteUpdate(c, u, q, sizeDue, new)
      /\ Waiting /\ state[c] = "NORMAL" /\ writer = NoClient /\ sending = {}
      /\ beyond' = (beyond \/ (~incremental /\ ~(rows \subseteq FbRows)))
      /\ UNCHANGED <<screenVars, slipped, scanVars, loopVars, state, cpHeight, viewVars>>
  BY DEF Request, Waiting, WriterInv
<1>2. rows \subseteq Row
  BY HeightRows DEF UpdatesTypeOK
<1>3. /\ u \in [Client -> SUBSET Row] /\ q \in [Client -> SUBSET Row]
      /\ new \in SUBSET Row /\ changed \subseteq new
      /\ \A b \in Client : updates[b] \subseteq u[b]
      /\ \A b \in Client \ {c} : u[b] = updates[b] /\ q[b] = requested[b]
      /\ u[c] \subseteq updates[c] \cup new
      /\ q[c] = requested[c] \cup rows
  BY <1>2 DEF UpdatesTypeOK
<1>4. ~beyond' => ~beyond /\ new \subseteq changed \cup FbRows
  BY <1>1
<1>5. sizeDue \in [Client -> BOOLEAN]
  BY DEF UpdatesTypeOK
<1> HIDE DEF u, q, new
<1>6. Written(c, u, q, sizeDue, new)
  BY <1>1, <1>3, <1>5, Writing
<1>7. /\ FbRows' = FbRows /\ Connected' = Connected /\ c \in Connected
      /\ Untold = {} /\ Untold' = {} /\ todo' = {}
  BY <1>1 DEF FbRows, Connected, Untold, Waiting, LoopInv
<1>8. UpdatesTypeOK'
  <2>1. beyond' \in BOOLEAN
    BY <1>1 DEF UpdatesTypeOK
  <2> QED
    BY <1>1, <1>3, <1>5, <1>6, <2>1 DEF Written, UpdatesTypeOK
<1>9. OutInv'
  BY <1>1, <1>3, <1>6, <1>7 DEF Written, OutInv, Connected
<1>10. LoopInv' /\ CompareInv'
  BY <1>1, <1>3, <1>6, <1>7 DEF Written, LoopInv, CompareInv
<1>11. AskedInv'
  BY <1>1, <1>3, <1>6 DEF Written, AskedInv
<1>12. WriterInv'
  BY <1>1, <1>6, <1>7 DEF Written, WriterInv
<1>13. SizeInv'
  BY <1>1, <1>6, <1>7 DEF Written, SizeInv
<1>14. PendingInv'
  BY <1>1, <1>3, <1>4, <1>6, <1>7 DEF Written, PendingInv
<1>15. StaleIsTracked'
  BY <1>1, <1>3, <1>6, <1>7 DEF Written, StaleIsTracked, CompareInv, Connected
<1> QED
  BY <1>8, <1>9, <1>10, <1>11, <1>12, <1>13, <1>14, <1>15

(* A client goes. *)
LEMMA LeftKeeps ==
  ASSUME UpdatesInv, NEW c \in Client, state' = [state EXCEPT ![c] = "OUT"], Left(c),
         writer' = NoClient, sending' = {},
         loop' \in {"NONE", loop}, todo' = todo \ {c}, loop' = "NONE" => todo' = {},
         UNCHANGED <<screenVars, historyVars, comparerVars, scanVars>>
  PROVE  UpdatesInv'
<1> USE DEF UpdatesInv, screenVars, historyVars, comparerVars, scanVars
<1>1. /\ FbRows' = FbRows /\ Connected' = Connected \ {c}
      /\ Untold' = Untold \ {c} \/ Untold' = todo' \/ todo' = {}
  BY DEF FbRows, Connected, Untold, Left, UpdatesTypeOK
<1>2. UpdatesTypeOK'
  BY ScreenAssumption DEF Left, UpdatesTypeOK, Blank
<1>3. OutInv' /\ LoopInv'
  BY <1>1 DEF Left, OutInv, LoopInv, UpdatesTypeOK
<1>4. AskedInv' /\ WriterInv' /\ CompareInv'
  BY <1>1 DEF Left, AskedInv, WriterInv, CompareInv, UpdatesTypeOK
<1>5. \A b \in Client : b \notin Untold' => b = c \/ b \notin Untold
  BY DEF Untold
<1>6. SizeInv'
  BY <1>1, <1>5 DEF Left, SizeInv, UpdatesTypeOK, Connected
<1>7. PendingInv'
  BY <1>1, <1>5 DEF Left, PendingInv, UpdatesTypeOK
<1>8. StaleIsTracked'
  BY <1>1, <1>5 DEF Left, StaleIsTracked, UpdatesTypeOK, Connected
<1> QED
  BY <1>2, <1>3, <1>4, <1>6, <1>7, <1>8

LEMMA LeaveIInv ==
  ASSUME UpdatesInv, NEW c \in Client, Leave(c) \/ CloseUnresizable(c)
  PROVE  UpdatesInv'
<1>1. CASE Leave(c)
  <2>1. todo' = todo \ {c}
    BY <1>1, ClientAssumption DEF Leave, Waiting, loopVars, UpdatesInv, LoopInv, WriterInv
  <2> QED
    BY <1>1, <2>1, LeftKeeps DEF Leave, loopVars, UpdatesInv, LoopInv
<1>2. CASE CloseUnresizable(c)
  BY <1>2, LeftKeeps DEF CloseUnresizable, Next1, writeVars, UpdatesInv, WriterInv
<1> QED
  BY <1>1, <1>2

(* A client gets in; the first one has the desktop started. *)
LEMMA AuthSuccessIInv ==
  ASSUME UpdatesInv, NEW c \in Client, AuthSuccess(c)
  PROVE  UpdatesInv'
<1> USE DEF UpdatesInv, screenVars, historyVars, comparerVars, loopVars, writeVars, viewVars
<1>1. /\ loop = "NONE" /\ writer = NoClient /\ state[c] = "OUT"
      /\ state' = [state EXCEPT ![c] = "INIT"]
      /\ cpHeight' = [cpHeight EXCEPT ![c] = fbHeight']
      /\ updates' = [updates EXCEPT ![c] = FbRows']
      /\ UNCHANGED <<screenVars, historyVars, nextLine, lines, loopVars, writeVars, sizeDue,
                     requested, viewVars>>
  BY DEF AuthSuccess, Waiting, EverythingIn, FbRows
<1>2. /\ fbHeight' \in Heights /\ fb' \in [Row -> Pixel] /\ firstCompare' \in BOOLEAN
      /\ oldFb' \in [Row -> Pixel] /\ changed' \subseteq Row
      /\ CompareInv'
      /\ \/ Connected = {} /\ changed' = FbRows'
         \/ UNCHANGED <<fbHeight, firstCompare, oldFb, changed>>
  <2>1. CASE StartDesktop
    BY <2>1, HeightRows, ScreenAssumption
       DEF StartDesktop, GrabScreen, UpdatesTypeOK, Blank, FbRows, CompareInv
  <2>2. CASE ReuseDesktop
    BY <2>2 DEF ReuseDesktop, UpdatesTypeOK, CompareInv, FbRows
  <2> QED
    BY <2>1, <2>2 DEF AuthSuccess
<1>3. FbRows' \subseteq Row
  BY <1>2, HeightRows DEF FbRows
<1>4. UpdatesTypeOK'
  BY <1>1, <1>2, <1>3 DEF UpdatesTypeOK
<1>5. /\ Connected' = Connected \cup {c} /\ Untold = {} /\ Untold' = {}
      /\ Connected # {} => FbRows' = FbRows
  BY <1>1, <1>2 DEF Connected, Untold, FbRows, UpdatesTypeOK
<1>6. OutInv' /\ LoopInv' /\ AskedInv' /\ WriterInv'
  BY <1>1, <1>5 DEF OutInv, LoopInv, AskedInv, WriterInv, UpdatesTypeOK
<1>7. SizeInv'
  BY <1>1, <1>2, <1>5 DEF SizeInv, UpdatesTypeOK, Connected
<1>8. PendingInv'
  BY <1>1, <1>2, <1>5 DEF PendingInv, OutInv, UpdatesTypeOK, Connected, FbRows
<1>9. StaleIsTracked'
  BY <1>1, <1>2, <1>5 DEF StaleIsTracked, UpdatesTypeOK, Connected
<1> QED
  BY <1>2, <1>4, <1>6, <1>7, <1>8, <1>9

(* A client is told the size of the desktop. *)
LEMMA ClientInitIInv ==
  ASSUME UpdatesInv, NEW c \in Client, ClientInit(c)
  PROVE  UpdatesInv'
<1> USE DEF UpdatesInv, screenVars, historyVars, comparerVars, scanVars, loopVars, writeVars
<1>1. /\ loop = "NONE" /\ writer = NoClient /\ state[c] = "INIT"
      /\ state' = [state EXCEPT ![c] = "NORMAL"]
      /\ viewHeight' = [viewHeight EXCEPT ![c] = cpHeight[c]]
      /\ UNCHANGED <<screenVars, historyVars, comparerVars, scanVars, loopVars, writeVars,
                     cpHeight, sizeDue, updates, requested, view>>
  BY DEF ClientInit, Waiting
<1>2. UpdatesTypeOK'
  BY <1>1 DEF UpdatesTypeOK
<1>3. FbRows' = FbRows /\ Connected' = Connected /\ Untold' = Untold
  BY <1>1 DEF FbRows, Connected, Untold, UpdatesTypeOK
<1>4. OutInv' /\ LoopInv' /\ AskedInv' /\ WriterInv' /\ CompareInv'
  BY <1>1, <1>3 DEF OutInv, LoopInv, AskedInv, WriterInv, CompareInv, UpdatesTypeOK
<1>5. SizeInv' /\ PendingInv' /\ StaleIsTracked'
  BY <1>1, <1>3 DEF SizeInv, PendingInv, StaleIsTracked, UpdatesTypeOK
<1> QED
  BY <1>2, <1>4, <1>5

LEMMA NextUpdatesInv == UpdatesInv /\ [UpdatesNext]_updateVars => UpdatesInv'
<1> SUFFICES ASSUME UpdatesInv, [UpdatesNext]_updateVars PROVE UpdatesInv'
  OBVIOUS
<1>1. CASE \/ \E r \in Row, p \in Pixel : Draw(r, p)
           \/ \E h \in Heights : Resize(h)
           \/ Settle
  BY <1>1, ScreenIInv
<1>2. CASE Scan
  BY <1>2, ScanIInv
<1>3. CASE Loops
  BY <1>3, TryUpdateIInv, PixelBufferChangeIInv, LeaveIInv, EncodeIInv DEF Loops
<1>4. ASSUME NEW c \in Client,
             AuthSuccess(c) \/ ClientInit(c) \/ Leave(c)
      PROVE  UpdatesInv'
  BY <1>4, AuthSuccessIInv, ClientInitIInv, LeaveIInv
<1>5. ASSUME NEW c \in Client, NEW incremental \in BOOLEAN, Asks(c, incremental)
      PROVE  UpdatesInv'
  <2>1. PICK rows \in {1..viewHeight[c]} \cup {{r} : r \in 1..viewHeight[c]} :
          Request(c, rows, incremental)
    BY <1>5 DEF Asks
  <2>2. rows \in SUBSET (1..viewHeight[c])
    OBVIOUS
  <2> QED
    BY <2>1, <2>2, RequestIInv
<1>6. CASE UNCHANGED updateVars
  <2> USE <1>6 DEF updateVars, screenVars, historyVars, comparerVars, scanVars, loopVars, writeVars,
                   clientVars, viewVars
  <2>1. UpdatesTypeOK' /\ OutInv' /\ LoopInv' /\ AskedInv' /\ WriterInv'
    BY DEF UpdatesInv, UpdatesTypeOK, OutInv, LoopInv, AskedInv, WriterInv, Connected, Untold
  <2>2. SizeInv' /\ PendingInv' /\ CompareInv' /\ StaleIsTracked'
    BY DEF UpdatesInv, SizeInv, PendingInv, CompareInv, StaleIsTracked, Connected, Untold, FbRows
  <2> QED
    BY <2>1, <2>2 DEF UpdatesInv
<1> QED
  BY <1>1, <1>2, <1>3, <1>4, <1>5, <1>6 DEF UpdatesNext

LEMMA UpdatesInvariance == UpdatesSpec => []UpdatesInv
BY InitUpdatesInv, NextUpdatesInv, PTL DEF UpdatesSpec

-----------------------------------------------------------------------------
(* Every reachable state is well typed. *)
THEOREM UpdatesTypeCorrect == UpdatesSpec => []UpdatesTypeOK
<1>1. UpdatesInv => UpdatesTypeOK
  BY DEF UpdatesInv
<1> QED
  BY <1>1, UpdatesInvariance, PTL

(* writeRects() reads nothing from outside the frame buffer, however the   *)
(* screen changes its size under pending updates, until a client asks for  *)
(* a full refresh of rows that have gone.                                  *)
THEOREM NothingReadOutside == UpdatesSpec => []RowsExist
<1>1. ASSUME UpdatesInv, ~beyond PROVE sending \subseteq FbRows
  <2>1. CASE writer = NoClient
    BY <1>1, <2>1 DEF UpdatesInv, WriterInv
  <2>2. CASE writer # NoClient
    <3>1. writer \in Client \ Untold /\ sending \subseteq updates[writer]
      BY <1>1, <2>2 DEF UpdatesInv, WriterInv, UpdatesTypeOK, Untold
    <3> QED
      BY <1>1, <3>1 DEF UpdatesInv, PendingInv
  <2> QED
    BY <2>1, <2>2
<1>2. UpdatesInv => RowsExist
  BY <1>1 DEF RowsExist
<1> QED
  BY <1>2, UpdatesInvariance, PTL

(* No client is sent rows outside the desktop it knows of, whatever        *)
(* changes of size it has not been told of yet.                            *)
THEOREM ClientNeverOverrun == UpdatesSpec => []ClientHasRows
<1>1. ASSUME UpdatesInv, writer # NoClient PROVE sending \subseteq 1..viewHeight[writer]
  <2>1. writer \in Client /\ sending \subseteq requested[writer]
    BY <1>1 DEF UpdatesInv, WriterInv, UpdatesTypeOK
  <2> QED
    BY <1>1, <2>1 DEF UpdatesInv, AskedInv
<1>2. UpdatesInv => ClientHasRows
  BY <1>1 DEF ClientHasRows
<1> QED
  BY <1>2, UpdatesInvariance, PTL

(* Until a row slips through between compare() and the encoder, a client's *)
(* row that differs from oldFb is pending for that client: no comparison   *)
(* caused by one client is lost to another.                                *)
THEOREM NothingMissed == UpdatesSpec => []StaleIsTracked
<1>1. UpdatesInv => StaleIsTracked
  BY DEF UpdatesInv
<1> QED
  BY <1>1, UpdatesInvariance, PTL
=============================================================================
