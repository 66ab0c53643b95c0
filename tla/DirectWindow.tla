---------------------------- MODULE DirectWindow ----------------------------
(***************************************************************************)
(* Reading the screen through a BDirectWindow, beosserver/FrameBufferBeOS. *)
(* Three threads meet at BDirectWindowReader::m_ConnectionLock:            *)
(*   - the server thread scans the screen (BackgroundScreenUpdateCheck())  *)
(*     or answers a client that asks for an update;                        *)
(*   - a thread of the OS calls DirectConnected() when video memory comes  *)
(*     and goes, and gives up waiting for the lock after 0.4 seconds;      *)
(*   - the window's own thread is told the new size by ScreenChanged().    *)
(* Video memory is known by the video mode it belongs to.  It may be       *)
(* touched from the call with B_DIRECT_START to the return from the one    *)
(* with B_DIRECT_STOP.                                                     *)
(***************************************************************************)
EXTENDS Naturals

CONSTANTS
  Mode,       \* video modes: a size and the memory that shows it
  FirstMode,  \* the mode the screen has when the window is made
  NoMode,     \* a NULL pointer
  MaxVersion  \* bound: no mode changes once the version is this high

ASSUME ModeAssumption ==
  /\ FirstMode \in Mode
  /\ NoMode \notin Mode
  /\ {"PICTURE", "ZERO"} \cap Mode = {}
  /\ NoMode \notin {"PICTURE", "ZERO"}
ASSUME BoundAssumption == MaxVersion \in Nat

VARIABLES
  display,       \* the OS: what it is doing with the window
  mode,          \* the OS: the mode of the screen
  news,          \* the OS: the mode a ScreenChanged() still to come will tell
  callback,      \* the thread in DirectConnected()
  lock,          \* m_ConnectionLock: who holds it
  barged,        \* history: a callback has gone ahead without the lock
  saved,         \* m_SavedFrameBufferInfo: the memory it points to
  version,       \* m_ConnectionVersion
  screenSize,    \* m_ScreenSize: the mode that has this size
  server,        \* the server thread
  built,         \* the constructor of FrameBufferBDirect has returned
  cachedVersion, \* m_CachedPixelFormatVersion
  data,          \* what FullFramePixelBuffer::data points to
  size           \* width_ and height_: a mode's, the picture's, or zero

osVars     == <<display, mode, news>>
windowVars == <<saved, version, screenSize>>
cacheVars  == <<cachedVersion, data, size>>
vars == <<osVars, callback, lock, barged, windowVars, server, built, cacheVars>>

Holding == {"LOCKED", "CACHING", "READING", "DONE"}

TypeOK ==
  /\ display \in {"DOWN", "STARTING", "UP", "STOPPING"}
  /\ mode \in Mode
  /\ news \in Mode \cup {NoMode}
  /\ callback \in {"NONE", "LOCKING", "CHANGING", "LATE", "RETURNING"}
  /\ lock \in {"FREE", "SERVER", "DIRECT"}
  /\ barged \in BOOLEAN
  /\ saved \in Mode \cup {NoMode}
  /\ version \in Nat
  /\ screenSize \in Mode
  /\ server \in {"IDLE", "ASKED"} \cup Holding
  /\ built \in BOOLEAN
  /\ cachedVersion \in Nat
  /\ data \in Mode \cup {NoMode, "PICTURE"}
  /\ size \in Mode \cup {"ZERO", "PICTURE"}
  /\ data = NoMode <=> size = "ZERO"

Init ==
  /\ display = "DOWN"
  /\ mode = FirstMode
  /\ news = NoMode
  /\ callback = "NONE"
  /\ lock = "FREE"
  /\ barged = FALSE
  /\ saved = NoMode
  /\ version = 0
  /\ screenSize = FirstMode
  /\ server = "IDLE"
  /\ built = FALSE
  /\ cachedVersion = 0
  /\ data = NoMode
  /\ size = "ZERO"

-----------------------------------------------------------------------------
(* The operating system                                                    *)

(* The screen is about to change: B_DIRECT_STOP. *)
StopScreen ==
  /\ display = "UP"
  /\ callback = "NONE"
  /\ version < MaxVersion
  /\ display' = "STOPPING"
  /\ callback' = "LOCKING"
  /\ UNCHANGED <<mode, news, lock, windowVars, barged, server, built, cacheVars>>

(* The screen is there again, in mode m: B_DIRECT_START, and a message to  *)
(* the window if the size is not what it was.                              *)
StartScreen(m) ==
  /\ display = "DOWN"
  /\ news = NoMode
  /\ m = mode \/ version > 0
  /\ display' = "STARTING"
  /\ mode' = m
  /\ news' = IF m = mode THEN NoMode ELSE m
  /\ callback' = "LOCKING"
  /\ UNCHANGED <<lock, windowVars, barged, server, built, cacheVars>>

-----------------------------------------------------------------------------
(* BDirectWindowReader::DirectConnected(), in a thread of the OS           *)

CallbackLocks ==
  /\ callback = "LOCKING"
  /\ lock = "FREE"
  /\ lock' = "DIRECT"
  /\ callback' = "CHANGING"
  /\ UNCHANGED <<osVars, windowVars, barged, server, built, cacheVars>>

(* LockWithTimeout() fails: "barge on ahead". *)
CallbackGivesUp ==
  /\ callback = "LOCKING"
  /\ lock = "SERVER"
  /\ callback' = "CHANGING"
  /\ barged' = TRUE
  /\ UNCHANGED <<osVars, lock, windowVars, server, built, cacheVars>>

(* B_DIRECT_START: the version is bumped twice, and then the settings are  *)
(* saved.                                                                  *)
ConnectBumps ==
  /\ display = "STARTING"
  /\ callback = "CHANGING"
  /\ version' = version + 2
  /\ callback' = "LATE"
  /\ UNCHANGED <<osVars, lock, saved, screenSize, barged, server, built, cacheVars>>

ConnectSaves ==
  /\ display = "STARTING"
  /\ callback = "LATE"
  /\ saved' = mode
  /\ callback' = "RETURNING"
  /\ UNCHANGED <<osVars, lock, version, screenSize, barged, server, built, cacheVars>>

(* Mutant: a lost connection leaves its pointer behind. *)
DisconnectKeepsPointer ==
  /\ display = "STOPPING"
  /\ callback = "CHANGING"
  /\ callback' = "LATE"
  /\ UNCHANGED <<osVars, lock, windowVars, barged, server, built, cacheVars>>

(* B_DIRECT_STOP: the pointer is cleared, and then the version bumped. *)
DisconnectClears ==
  /\ display = "STOPPING"
  /\ callback = "CHANGING"
  /\ saved' = NoMode
  /\ callback' = "LATE"
  /\ UNCHANGED <<osVars, lock, version, screenSize, barged, server, built, cacheVars>>

(* Mutant: a lost connection is not announced. *)
DisconnectQuietly ==
  /\ display = "STOPPING"
  /\ callback = "LATE"
  /\ callback' = "RETURNING"
  /\ UNCHANGED <<osVars, lock, windowVars, barged, server, built, cacheVars>>

DisconnectBumps ==
  /\ display = "STOPPING"
  /\ callback = "LATE"
  /\ version' = version + 1
  /\ callback' = "RETURNING"
  /\ UNCHANGED <<osVars, lock, saved, screenSize, barged, server, built, cacheVars>>

(* Unlock, if it was locked; the OS goes on. *)
CallbackReturns ==
  /\ callback = "RETURNING"
  /\ callback' = "NONE"
  /\ lock' = IF lock = "DIRECT" THEN "FREE" ELSE lock
  /\ display' = IF display = "STARTING" THEN "UP" ELSE "DOWN"
  /\ UNCHANGED <<mode, news, windowVars, barged, server, built, cacheVars>>

-----------------------------------------------------------------------------
(* BDirectWindowReader::ScreenChanged(), in the window's thread            *)

(* Mutant: the new size is not announced. *)
ScreenChangedQuietly ==
  /\ news # NoMode
  /\ lock = "FREE"
  /\ screenSize' = news
  /\ news' = NoMode
  /\ UNCHANGED <<display, mode, callback, lock, saved, version, barged, server, built, cacheVars>>

ScreenChanged ==
  /\ news # NoMode
  /\ lock = "FREE"
  /\ screenSize' = news
  /\ version' = version + 1
  /\ news' = NoMode
  /\ UNCHANGED <<display, mode, callback, lock, saved, barged, server, built, cacheVars>>

-----------------------------------------------------------------------------
(* FrameBufferBDirect, in the server thread                                *)

(* Mutant: a scan that does not take the lock. *)
StartScan ==
  /\ server = "IDLE"
  /\ built => size # "ZERO"
  /\ server' = "LOCKED"
  /\ UNCHANGED <<osVars, callback, lock, windowVars, barged, built, cacheVars>>

(* BackgroundScreenUpdateCheck() does nothing while the frame buffer has   *)
(* no size, and so it never gets one.                                      *)
ScanNothing ==
  /\ server = "IDLE"
  /\ built
  /\ size = "ZERO"
  /\ UNCHANGED vars

(* LockFrameBuffer(), by the constructor and then by every scan. *)
LockFrameBuffer ==
  /\ server = "IDLE"
  /\ lock = "FREE"
  /\ built => size # "ZERO"
  /\ lock' = "SERVER"
  /\ server' = "LOCKED"
  /\ UNCHANGED <<osVars, callback, windowVars, barged, built, cacheVars>>

(* What follows UpdatePixelFormatEtc(): a scan reads the pixels. *)
AfterUpdate == IF built THEN "READING" ELSE "DONE"

(* UpdatePixelFormatEtc() finds the version it knows. *)
NothingNew ==
  /\ server = "LOCKED"
  /\ cachedVersion = version
  /\ server' = AfterUpdate
  /\ UNCHANGED <<osVars, callback, lock, windowVars, barged, built, cacheVars>>

(* Otherwise it notes the version and then copies the settings.  With no   *)
(* video memory it shows the technical problems picture.                   *)
NoteVersion ==
  /\ server = "LOCKED"
  /\ cachedVersion # version
  /\ cachedVersion' = version
  /\ server' = "CACHING"
  /\ UNCHANGED <<osVars, callback, lock, windowVars, barged, built, data, size>>

CopySettings ==
  /\ server = "CACHING"
  /\ IF saved = NoMode
     THEN data' = "PICTURE" /\ size' = "PICTURE"
     ELSE data' = saved /\ size' = screenSize
  /\ server' = AfterUpdate
  /\ UNCHANGED <<osVars, callback, lock, windowVars, barged, built, cachedVersion>>

UnlockFrameBuffer ==
  /\ server \in {"READING", "DONE"}
  /\ lock' = IF lock = "SERVER" THEN "FREE" ELSE lock
  /\ server' = "IDLE"
  /\ built' = TRUE
  /\ UNCHANGED <<osVars, callback, barged, windowVars, cacheVars>>

(* A client's request is answered at once, from processMessages(): the     *)
(* pixels are read without the lock.                                       *)
AnswerRequest ==
  /\ server = "IDLE"
  /\ built
  /\ size # "ZERO"
  /\ server' = "ASKED"
  /\ UNCHANGED <<osVars, callback, lock, windowVars, barged, built, cacheVars>>

RequestAnswered ==
  /\ server = "ASKED"
  /\ server' = "IDLE"
  /\ UNCHANGED <<osVars, callback, lock, windowVars, barged, built, cacheVars>>

-----------------------------------------------------------------------------
Callback ==
  \/ CallbackLocks
  \/ CallbackGivesUp
  \/ ConnectBumps
  \/ ConnectSaves
  \/ DisconnectClears
  \/ DisconnectBumps
  \/ CallbackReturns

Server ==
  \/ NothingNew
  \/ NoteVersion
  \/ CopySettings
  \/ UnlockFrameBuffer
  \/ RequestAnswered

Next ==
  \/ StopScreen
  \/ \E m \in Mode : StartScreen(m)
  \/ Callback
  \/ ScreenChanged
  \/ ScanNothing
  \/ LockFrameBuffer
  \/ Server
  \/ AnswerRequest

Spec == Init /\ [][Next]_vars

(* Every thread keeps running; scans are made again and again, and a       *)
(* thread that waits for a lock which is free again and again gets it.     *)
Fairness ==
  /\ WF_vars(\E m \in Mode : StartScreen(m))
  /\ SF_vars(CallbackLocks)
  /\ WF_vars(Callback)
  /\ SF_vars(ScreenChanged)
  /\ SF_vars(LockFrameBuffer)
  /\ WF_vars(Server)

FairSpec == Spec /\ Fairness

-----------------------------------------------------------------------------
(* Properties                                                              *)

(* The pointer p leads to memory that may be touched. *)
Mapped(p) == p \in Mode => display # "DOWN" /\ p = mode

(* A scan, which holds the lock, never reads video memory after the OS has *)
(* taken it away, as long as no callback has gone ahead without the lock.  *)
ScanReadsMapped == ~barged /\ server = "READING" => Mapped(data)

(* "If the serial number is unchanged then the settings are unchanged      *)
(* too": with no change under way and the version known, the cached        *)
(* pointer is the one the window has, as long as no callback has gone      *)
(* ahead without the lock.                                                 *)
CacheIsCurrent ==
  ~barged /\ callback = "NONE" /\ server # "CACHING"
  /\ cachedVersion = version /\ version > 0
    => data = IF saved = NoMode THEN "PICTURE" ELSE saved

(* However late a callback is, once the OS has taken video memory away the *)
(* cached pointer is either cleared or known to be out of date: the        *)
(* pointer is cleared before the version is bumped.                        *)
GoneIsNoticed ==
  display = "DOWN" /\ server # "CACHING" /\ cachedVersion = version /\ version > 0
    => data = "PICTURE"

(* A scan reads the memory of a mode with the size of that mode, so that   *)
(* it does not go past the end of it, unless ScreenChanged(), which is     *)
(* another thread and may be later, has still to tell the new size.        *)
ScanHasItsSize ==
  ~barged /\ server = "READING" /\ data \in Mode /\ news = NoMode => size = data

(* After the last change the frame buffer gets the pointer and the size of *)
(* the mode the screen is in, unless the screen changes again, a callback  *)
(* has gone ahead without the lock, or the frame buffer had no size from   *)
(* the start: BackgroundScreenUpdateCheck() never looks at it again then.  *)
CacheCatchesUp ==
  display = "UP" /\ news = NoMode
    ~> \/ display # "UP"
       \/ data = mode /\ size = mode
       \/ barged
       \/ built /\ size = "ZERO"

(* Nobody reads video memory the OS has taken away: the lock makes changes *)
(* "mutually exclusive from other window operations (like reading the      *)
(* frame buffer or destroying the window)".                                *)
ReadsAreMapped == server \in {"READING", "ASKED"} => Mapped(data)
=============================================================================
