----------------------------- MODULE ServerMain -----------------------------
(***************************************************************************)
(* The BeOS application of beosserver/ServerMain.cxx: one thread that      *)
(* takes messages from its queue.  A polling message runs PollNetwork(),   *)
(* which posts the next one when it ends well; the periodic Pulse()        *)
(* restarts the chain when it was broken.  Each step of a pass over the    *)
(* network is a call of module VNCServerST, and in between the kernel and  *)
(* the clients may do as they like.                                        *)
(***************************************************************************)
EXTENDS VNCServerST

CONSTANT MaxPolls   \* bound: polling messages in the queue

ASSUME MaxPollsAssumption == MaxPolls \in Nat \ {0}

VARIABLES
  netState, \* ServerApp::m_BeOSNetworkState
  listener, \* ServerApp::m_TcpListenerPntr: NULL, or what it points to
  phase,    \* where the thread is
  ready,    \* sockets the current pass has still to process
  polls,    \* MSG_DO_POLLING_STEP messages in the queue
  overdue,  \* more than 1.5 pulses since m_TimeOfLastBackgroundUpdate
  quitting  \* QuitRequested() is what shuts the network down

mainVars == <<netState, listener, phase, ready, polls, overdue, quitting>>
allVars  == <<vars, mainVars>>

Phases == {"IDLE",      \* in the message loop
           "SOCKETS",   \* PollNetwork(): processing the sockets that are ready
           "ACCEPT",    \* PollNetwork(): the listening socket
           "TIMEOUTS",  \* PollNetwork(): idle clients
           "UPDATE",    \* PollNetwork(): the screen
           "SHUTDOWN",  \* ShutDownNetwork(): processing all sockets
           "GONE"}      \* the program has quit

MainTypeOK ==
  /\ netState \in {"NET_RESTARTING", "NET_UP", "NET_WENT_DOWN"}
  /\ listener \in {"NULL", "OPEN", "DELETED"}
  /\ phase \in Phases
  /\ ready \subseteq Conn
  /\ polls \in 0..MaxPolls
  /\ overdue \in BOOLEAN
  /\ quitting \in BOOLEAN

MainInit ==
  /\ Init
  /\ netState = "NET_RESTARTING"
  /\ listener = "NULL"
  /\ phase = "IDLE"
  /\ ready = {}
  /\ polls = 0
  /\ overdue = TRUE
  /\ quitting = FALSE

-----------------------------------------------------------------------------
(* The deadman timer                                                       *)

TimePasses ==
  /\ phase = "IDLE"
  /\ ~overdue
  /\ overdue' = TRUE
  /\ UNCHANGED <<vars, netState, listener, phase, ready, polls, quitting>>

(* Mutant: the deadman timer ignores a network that went down. *)
PulseUnlessDown ==
  /\ phase = "IDLE"
  /\ overdue
  /\ netState # "NET_WENT_DOWN"
  /\ polls < MaxPolls
  /\ overdue' = FALSE
  /\ polls' = polls + 1
  /\ UNCHANGED <<vars, netState, listener, phase, ready, quitting>>

Pulse ==
  /\ phase = "IDLE"
  /\ overdue
  /\ polls < MaxPolls
  /\ overdue' = FALSE
  /\ polls' = polls + 1
  /\ UNCHANGED <<vars, netState, listener, phase, ready, quitting>>

-----------------------------------------------------------------------------
(* PollNetwork()                                                           *)

(* The next polling message is taken from the queue. *)
TakePoll ==
  /\ phase = "IDLE"
  /\ polls > 0
  /\ polls' = polls - 1
  /\ UNCHANGED <<overdue, quitting>>

(* NET_RESTARTING: listen again.  No next message is posted. *)
RestartSucceeds ==
  /\ netState = "NET_RESTARTING"
  /\ TakePoll
  /\ listener' = "OPEN"
  /\ netState' = "NET_UP"
  /\ UNCHANGED <<vars, phase, ready>>

(* The TcpListener constructor throws, outside any try of PollNetwork():   *)
(* the state stays what it was, and an old listener was deleted already.   *)
RestartFails ==
  /\ netState = "NET_RESTARTING"
  /\ TakePoll
  /\ listener' = IF listener = "NULL" THEN "NULL" ELSE "DELETED"
  /\ UNCHANGED <<vars, netState, phase, ready>>

(* ShutDownNetwork() closes all clients, then processes every socket. *)
StartShutDown ==
  /\ CloseClients
  /\ ready' = sockets
  /\ phase' = "SHUTDOWN"
  /\ UNCHANGED <<netState, listener>>

PollWentDown ==
  /\ netState = "NET_WENT_DOWN"
  /\ TakePoll
  /\ StartShutDown

(* NET_UP: select() over the listener and all sockets.  A socket that was  *)
(* shut down is always reported; any other may be.                         *)
PollSelect ==
  /\ netState = "NET_UP"
  /\ TakePoll
  /\ \E R \in SUBSET sockets :
       /\ shut \cap sockets \subseteq R
       /\ ready' = R
  /\ phase' = "SOCKETS"
  /\ UNCHANGED <<vars, netState, listener>>

(* An exception anywhere in the NET_UP part of PollNetwork(). *)
NetworkFails ==
  /\ netState' = "NET_WENT_DOWN"
  /\ phase' = "IDLE"
  /\ ready' = {}
  /\ UNCHANGED <<listener, overdue, quitting>>

PollSelectFails ==
  /\ netState = "NET_UP"
  /\ phase = "IDLE"
  /\ polls > 0
  /\ polls' = polls - 1
  /\ NetworkFails
  /\ UNCHANGED vars

(* One ready socket; a client with no whole message to read is left alone. *)
PollSocket(c) ==
  /\ phase = "SOCKETS"
  /\ c \in ready
  /\ ready' = ready \ {c}
  /\ \/ ProcessSocketEvent(c)
     \/ conn[c] \notin {"UNUSED", "CLOSING"} /\ UNCHANGED vars
  /\ UNCHANGED <<netState, listener, phase, polls, overdue, quitting>>

Advance(from, to) ==
  /\ phase = from
  /\ phase' = to
  /\ UNCHANGED <<netState, listener, ready, polls, overdue, quitting>>

PollSocketsDone ==
  /\ ready = {}
  /\ Advance("SOCKETS", "ACCEPT")
  /\ UNCHANGED vars

(* accept() may find nobody, or a connection its filter refuses. *)
PollAccept ==
  /\ Advance("ACCEPT", "TIMEOUTS")
  /\ \/ \E c \in Conn : AddClient(c) \/ AddBlacklisted(c)
     \/ UNCHANGED vars

PollTimeouts ==
  /\ Advance("TIMEOUTS", "UPDATE")
  /\ CheckTimeouts

(* The end of a pass: a look at the screen, but only when a client waits   *)
(* for an update, the time stamp and the message for the next pass.        *)
PollUpdate ==
  /\ phase = "UPDATE"
  /\ phase' = "IDLE"
  /\ \/ clientsReadyForUpdate /\ (ScreenChanged \/ TryUpdate)
     \/ ~(clientsReadyForUpdate /\ fb) /\ UNCHANGED vars
  /\ overdue' = FALSE
  /\ polls' = polls + 1
  /\ UNCHANGED <<netState, listener, ready, quitting>>

(* accept() or the reading of the screen throws. *)
PollFails ==
  /\ \/ phase = "ACCEPT"
     \/ phase = "UPDATE" /\ clientsReadyForUpdate /\ fb
  /\ NetworkFails
  /\ UNCHANGED <<vars, polls>>

-----------------------------------------------------------------------------
(* ShutDownNetwork() and quitting                                          *)

ShutDownSocket(c) ==
  /\ phase = "SHUTDOWN"
  /\ c \in ready
  /\ ready' = ready \ {c}
  /\ ProcessSocketEvent(c)
  /\ UNCHANGED <<netState, listener, phase, polls, overdue, quitting>>

(* All sockets are gone, the listener too.  PollNetwork() goes on to       *)
(* restart; after QuitRequested() the program ends.                        *)
ShutDownDone ==
  /\ phase = "SHUTDOWN"
  /\ ready = {}
  /\ listener' = "NULL"
  /\ netState' = IF quitting THEN "NET_WENT_DOWN" ELSE "NET_RESTARTING"
  /\ phase' = IF quitting THEN "GONE" ELSE "IDLE"
  /\ UNCHANGED <<vars, ready, polls, overdue, quitting>>

QuitRequested ==
  /\ phase = "IDLE"
  /\ quitting' = TRUE
  /\ StartShutDown
  /\ UNCHANGED <<polls, overdue>>

(* The clipboard changed: B_CLIPBOARD_CHANGED. *)
ClipboardChanged ==
  /\ phase = "IDLE"
  /\ Broadcast
  /\ UNCHANGED mainVars

Gone ==
  /\ phase = "GONE"
  /\ UNCHANGED allVars

-----------------------------------------------------------------------------
(* One pass over the network: everything but the start of it is certain to *)
(* happen once it can.                                                     *)
PollSteps ==
  \/ PollSelect
  \/ PollWentDown
  \/ PollSocketsDone
  \/ PollAccept
  \/ PollTimeouts
  \/ PollUpdate
  \/ ShutDownDone
  \/ \E c \in Conn : PollSocket(c)
  \/ \E c \in Conn : ShutDownSocket(c)

MainNext ==
  \/ TimePasses
  \/ Pulse
  \/ PollSteps
  \/ RestartSucceeds
  \/ RestartFails
  \/ PollSelectFails
  \/ PollFails
  \/ QuitRequested
  \/ ClipboardChanged
  \/ Gone

MainSpec == MainInit /\ [][MainNext]_allVars

(* The thread keeps running; time passes; and a network that can be        *)
(* restarted again and again is restarted in the end.                      *)
MainFairness ==
  /\ WF_allVars(PollSteps)
  /\ WF_allVars(TimePasses)
  /\ WF_allVars(Pulse)
  /\ SF_allVars(RestartSucceeds)

FairMainSpec == MainSpec /\ MainFairness

-----------------------------------------------------------------------------
(* Properties                                                              *)

(* Every socket PollNetwork() or ShutDownNetwork() has still to process is *)
(* one the server has not deleted: the list was made before the first of   *)
(* them was processed, and closing a client deletes nothing.               *)
ReadyNotDeleted == ready \subseteq sockets

(* Once the network has been shut down no client, no socket, no listener   *)
(* and no started desktop is left from before.                             *)
ShutDownIsComplete ==
  netState = "NET_RESTARTING" \/ phase = "GONE"
    => sockets = {} /\ ~desktopStarted /\ listener = "NULL"

(* No pass touches a socket that has gone, and none is forgotten when the  *)
(* network goes.                                                           *)
SocketsAreAccountedFor == ReadyNotDeleted /\ ShutDownIsComplete

(* The note on how sockets get closed: shutdown() makes the caller process *)
(* the socket, so every closed client is deleted in the end.               *)
ClosedSocketsGo ==
  \A c \in Conn : conn[c] = "CLOSING" \/ c \in closingSockets ~> c \notin sockets

(* A desktop that nobody uses any more is stopped, or used again.          *)
UnusedDesktopStops ==
  desktopStarted /\ Authenticated(conn) = {}
    ~> ~desktopStarted \/ Authenticated(conn) # {}

(* When the network went down it comes back, unless the program quits: the *)
(* chain of polling messages is broken on the way and restarted.           *)
NetworkComesBack ==
  netState = "NET_WENT_DOWN" ~> netState = "NET_UP" \/ phase = "GONE"
=============================================================================
