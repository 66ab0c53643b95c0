----------------------------- MODULE VNCServerST -----------------------------
(***************************************************************************)
(* The single threaded VNC server: the connections of rfb/SConnection.cxx  *)
(* and rfb/VNCSConnectionST.cxx, the server object of rfb/VNCServerST.cxx  *)
(* that owns them, and the part of beosserver/SDesktopBeOS.cxx the server  *)
(* starts, stops and sends input to.                                       *)
(*                                                                         *)
(* One action is one call of the SocketServer or VNCServer interface.  A   *)
(* call that reads several messages in a row is several calls that read    *)
(* one each: nothing else runs between two messages of the same call.      *)
(* What is displayed is not here (see ScreenUpdates); of the update        *)
(* machinery only "this client has asked for an update" is kept, because   *)
(* clientsReadyForUpdate() reads it.  Which host is black-marked is a      *)
(* choice here and computed in module Blacklist.                           *)
(***************************************************************************)
EXTENDS Naturals, FiniteSets

CONSTANTS
  Conn,              \* identities of network::Socket / VNCSConnectionST pairs
  NoConn,            \* the null VNCSConnectionST*
  Key,               \* keysyms clients send
  ShiftL,            \* XK_Shift_L
  ShiftR,            \* XK_Shift_R
  Tab,               \* XK_Tab
  AlwaysShared,      \* rfb::Server::alwaysShared
  NeverShared,       \* rfb::Server::neverShared
  DisconnectClients, \* rfb::Server::disconnectClients
  BlacklistLevel,    \* rfb::Server::blacklistLevel
  QueryResults,      \* what the QueryConnectionHandler may answer
  MaxOpens           \* bound: start() calls counted since the last stop()

ASSUME ConnAssumption == NoConn \notin Conn
ASSUME KeyAssumption == Tab \in Key /\ Tab \notin {ShiftL, ShiftR}
ASSUME ParameterAssumption ==
  /\ AlwaysShared \in BOOLEAN
  /\ NeverShared \in BOOLEAN
  /\ DisconnectClients \in BOOLEAN
  /\ BlacklistLevel \in 0..2
  /\ QueryResults \subseteq {"ACCEPT", "REJECT", "PENDING"}
  /\ MaxOpens \in Nat \ {0}

VARIABLES
  conn,           \* SConnection::state_ of each connection, "UNUSED": no object
  shut,           \* sockets on which shutdown() has been called
  closingSockets, \* sockets of blacklisted hosts, which get no connection
  requested,      \* connections whose `requested' region is not empty
  pressedKeys,    \* VNCSConnectionST::pressedKeys
  pointerClient,  \* VNCServerST::pointerClient
  desktopStarted, \* VNCServerST::desktopStarted
  pb,             \* VNCServerST::pb (and comparer) are not null
  fb,             \* SDesktopBeOS::m_FrameBufferBeOSPntr is not NULL
  keymap,         \* SDesktopBeOS::m_KeyMapPntr is not NULL
  injector,       \* SDesktopBeOS::m_EventInjectorPntr is not NULL
  keysDown,       \* SDesktopBeOS::m_LastKeyState: keys down in BeOS
  buttonsDown,    \* SDesktopBeOS::m_LastMouseButtonState # 0
  opens           \* history: start() calls since the last stop()

connVars    == <<conn, shut, closingSockets, requested>>
inputVars   == <<pressedKeys, pointerClient, keysDown, buttonsDown>>
desktopVars == <<desktopStarted, pb, fb, keymap, injector, opens>>
vars        == <<connVars, inputVars, desktopVars>>

Handshaking == {"PROTOCOL_VERSION", "SECURITY_TYPE", "SECURITY", "QUERYING"}
(* Mutant: authClientCount() counts only the clients in normal operation.  *)
AuthStatesNormalOnly == {"NORMAL"}
AuthStates  == {"INITIALISATION", "NORMAL"}
ConnState   == Handshaking \cup AuthStates \cup {"UNUSED", "CLOSING"}

TypeOK ==
  /\ conn \in [Conn -> ConnState]
  /\ shut \subseteq Conn
  /\ closingSockets \subseteq Conn
  /\ requested \subseteq Conn
  /\ pressedKeys \in [Conn -> SUBSET Key]
  /\ pointerClient \in Conn \cup {NoConn}
  /\ keysDown \subseteq Key
  /\ buttonsDown \in BOOLEAN
  /\ desktopStarted \in BOOLEAN
  /\ pb \in BOOLEAN
  /\ fb \in BOOLEAN
  /\ keymap \in BOOLEAN
  /\ injector \in BOOLEAN
  /\ opens \in 0..MaxOpens

(* VNCServerST::clients, the VNCSConnectionST objects that exist.  The     *)
(* list's order only decides who is visited first; here anyone may be.     *)
clients == {c \in Conn : conn[c] # "UNUSED"}

(* The clients whose state is the given one. *)
InState(s) == {c \in Conn : conn[c] = s}

(* What getSockets() returns. *)
sockets == clients \cup closingSockets

(* VNCSConnectionST::authenticated() and authClientCount() # 0, of the     *)
(* connections f.                                                          *)
Authenticated(f) == {c \in Conn : f[c] \in AuthStates}

(* clientsReadyForUpdate() does not look at the state of a client. *)
clientsReadyForUpdate == requested \cap clients # {}

-----------------------------------------------------------------------------
(* The desktop, SDesktopBeOS                                               *)

(* keyEvent() and pointerEvent() drop the event unless this holds; the     *)
(* pointer does not need the key map.                                      *)
PointerEnabled == injector /\ fb
KeyEnabled == PointerEnabled /\ keymap

(* keyEvent(k, TRUE), and keyEvent(k, FALSE), for every k of ks. *)
Pressed(ks) == IF KeyEnabled THEN keysDown \cup ks ELSE keysDown
Released(ks) == IF KeyEnabled THEN keysDown \ ks ELSE keysDown

(* One more start() call; the history counter saturates at MaxOpens. *)
OneMoreOpen == IF opens < MaxOpens THEN opens + 1 ELSE opens

(* start() up to its first throw after the frame buffer: the server gets   *)
(* the pixel buffer and the input device is looked for, which may fail.    *)
(* No other client is authenticated then, so pixelBufferChange() has       *)
(* nothing to do.                                                          *)
AttachScreen ==
  /\ fb' = TRUE
  /\ pb' = TRUE
  /\ \E found \in BOOLEAN : injector' = (injector \/ found)

(* start() returns. *)
StartSucceeds ==
  /\ ~desktopStarted
  /\ ~keymap
  /\ AttachScreen
  /\ keymap' = TRUE
  /\ desktopStarted' = TRUE
  /\ opens' = OneMoreOpen

(* start() throws: no way to read the screen; or the key map pointers are  *)
(* still set, or get_key_map() fails, both after the screen was attached.  *)
StartThrows ==
  /\ ~desktopStarted
  /\ \/ /\ ~fb
        /\ UNCHANGED <<fb, pb, injector>>
     \/ AttachScreen
  /\ opens' = OneMoreOpen
  /\ UNCHANGED <<keymap, desktopStarted>>

(* The server stops a started desktop: stop() releases everything start()  *)
(* made and takes the pixel buffer away.                                   *)
StopDesktop ==
  /\ desktopStarted' = FALSE
  /\ keymap' = FALSE
  /\ fb' = FALSE
  /\ pb' = FALSE
  /\ injector' = FALSE
  /\ opens' = 0

(* Mutant: the desktop runs on until the last connection is gone. *)
StopIfEmpty(f) ==
  IF {c \in Conn : f[c] # "UNUSED"} = {} /\ desktopStarted
  THEN StopDesktop
  ELSE UNCHANGED desktopVars

(* The check at the end of processSocketEvent(), with connections f left. *)
StopIfUnused(f) ==
  IF Authenticated(f) = {} /\ desktopStarted
  THEN StopDesktop
  ELSE UNCHANGED desktopVars

-----------------------------------------------------------------------------
(* Closing and deleting connections                                        *)

(* Mutant: close() deletes the object. *)
ClosedAndDeleted(S) == [c \in Conn |-> IF c \in S THEN "UNUSED" ELSE conn[c]]

(* The connections once close() was called for each of S: the objects stay *)
(* until their own socket event.                                           *)
Closed(S) == [c \in Conn |-> IF c \in S THEN "CLOSING" ELSE conn[c]]

(* Mutant: close() does not shut the socket down. *)
CloseAllNoShutdown(S) ==
  /\ conn' = Closed(S)
  /\ shut' = shut

(* close() of each of S, and nothing else. *)
CloseAll(S) ==
  /\ conn' = Closed(S)
  /\ shut' = shut \cup S

(* Mutant: a destructor that releases neither keys nor pointer. *)
DeleteClientKeepsInput(c, S) ==
  LET left == [Closed(S) EXCEPT ![c] = "UNUSED"] IN
  /\ conn' = left
  /\ shut' = (shut \cup S) \ {c}
  /\ requested' = requested \ {c}
  /\ pressedKeys' = [pressedKeys EXCEPT ![c] = {}]
  /\ StopIfUnused(left)
  /\ UNCHANGED <<closingSockets, buttonsDown, keysDown, pointerClient>>

(* processMessages() of c returned false, after the handler closed the     *)
(* clients S: the destructor releases c's keys and its hold on the         *)
(* pointer, the socket is deleted, and the desktop may be stopped.         *)
DeleteClient(c, S) ==
  LET left == [Closed(S) EXCEPT ![c] = "UNUSED"] IN
  /\ conn' = left
  /\ shut' = (shut \cup S) \ {c}
  /\ requested' = requested \ {c}
  /\ keysDown' = Released(pressedKeys[c])
  /\ pressedKeys' = [pressedKeys EXCEPT ![c] = {}]
  /\ pointerClient' = IF pointerClient = c THEN NoConn ELSE pointerClient
  /\ StopIfUnused(left)
  /\ UNCHANGED <<closingSockets, buttonsDown>>

-----------------------------------------------------------------------------
(* addClient()                                                             *)

AddBlacklisted(c) ==
  /\ BlacklistLevel = 2
  /\ c \notin sockets
  /\ shut' = shut \cup {c}
  /\ closingSockets' = closingSockets \cup {c}
  /\ UNCHANGED <<conn, requested, inputVars, desktopVars>>

(* The new connection's init() sends the server's version; when that fails *)
(* the connection is closed at once.                                       *)
AddClient(c) ==
  /\ c \notin sockets
  /\ \/ /\ conn' = [conn EXCEPT ![c] = "PROTOCOL_VERSION"]
        /\ UNCHANGED shut
     \/ CloseAll({c})
  /\ UNCHANGED <<closingSockets, requested, inputVars, desktopVars>>

-----------------------------------------------------------------------------
(* processSocketEvent(): one message of one client                         *)

(* The socket of a blacklisted host. *)
ClosedSocketEvent(c) ==
  /\ c \in closingSockets
  /\ closingSockets' = closingSockets \ {c}
  /\ shut' = shut \ {c}
  /\ StopIfUnused(conn)
  /\ UNCHANGED <<conn, requested, inputVars>>

(* The client was closed earlier: processMessages() returns false. *)
ClosedClientEvent(c) ==
  /\ conn[c] = "CLOSING"
  /\ DeleteClient(c, {})

(* End of stream, a message the state does not allow, a refused or failed  *)
(* authentication, a write that fails: an exception closes and deletes.    *)
FailedEvent(c) ==
  /\ conn[c] \in Handshaking \cup AuthStates
  /\ DeleteClient(c, {})

Enter(c, s) ==
  /\ conn' = [conn EXCEPT ![c] = s]
  /\ UNCHANGED <<shut, closingSockets, requested, inputVars>>

(* authSuccess() of a connection whose authentication was accepted. *)
AuthSuccess(c) ==
  /\ Enter(c, "INITIALISATION")
  /\ IF desktopStarted THEN UNCHANGED desktopVars ELSE StartSucceeds

(* The same with a start() that throws, inside c's own socket event: c is  *)
(* deleted, and has pressed no key yet.                                    *)
AuthSuccessThrows(c) ==
  /\ StartThrows
  /\ conn' = [conn EXCEPT ![c] = "UNUSED"]
  /\ UNCHANGED <<shut, closingSockets, requested, inputVars>>

(* Security is done and ok: queryConnection(). *)
QueryConnection(c) ==
  \/ /\ "ACCEPT" \in QueryResults
     /\ AuthSuccess(c) \/ AuthSuccessThrows(c)
  \/ /\ "PENDING" \in QueryResults
     /\ Enter(c, "QUERYING")
     /\ UNCHANGED desktopVars
  \/ /\ "REJECT" \in QueryResults
     /\ DeleteClient(c, {})

(* A 3.3 client goes straight to the security type the server picks, and   *)
(* with type None at once through it; later ones are sent the list.        *)
VersionMsg(c) ==
  /\ conn[c] = "PROTOCOL_VERSION"
  /\ \/ /\ \E s \in {"SECURITY_TYPE", "SECURITY"} : Enter(c, s)
        /\ UNCHANGED desktopVars
     \/ QueryConnection(c)

SecurityTypeMsg(c) ==
  /\ conn[c] = "SECURITY_TYPE"
  /\ \/ /\ Enter(c, "SECURITY")
        /\ UNCHANGED desktopVars
     \/ QueryConnection(c)

SecurityMsg(c) ==
  /\ conn[c] = "SECURITY"
  /\ QueryConnection(c)

(* Mutant: off by one, one other client is tolerated. *)
InUseByTwo(c) == Cardinality(Authenticated(conn) \ {c}) > 1

(* authClientCount() > 1, asked by an authenticated client. *)
InUse(c) == Authenticated(conn) \ {c} # {}

(* ClientInit.  A non-shared client closes all others, or is refused while *)
(* another one is authenticated; a refused client is deleted in the same   *)
(* call if it has sent more.                                               *)
ClientInitMsg(c, flag) ==
  LET shared == ~NeverShared /\ (AlwaysShared \/ flag)
      others == clients \ {c}
      closed == IF ~shared /\ DisconnectClients THEN others ELSE {}
      inUse  == ~shared /\ ~DisconnectClients /\ InUse(c)
  IN
  /\ conn[c] = "INITIALISATION"
  /\ \/ /\ inUse
        /\ \/ /\ CloseAll({c})
              /\ UNCHANGED <<closingSockets, requested, inputVars, desktopVars>>
           \/ DeleteClient(c, {})
     \/ /\ ~inUse
        /\ \/ /\ conn' = [Closed(closed) EXCEPT ![c] = "NORMAL"]
              /\ shut' = shut \cup closed
              /\ UNCHANGED <<closingSockets, requested, inputVars, desktopVars>>
           \/ DeleteClient(c, closed)

(* FramebufferUpdateRequest: the update is sent at once if there is        *)
(* something to send, otherwise the request is kept.  SetEncodings and     *)
(* SetPixelFormat may answer a kept request with the cursor's shape.       *)
UpdateMsg(c) ==
  /\ conn[c] = "NORMAL"
  /\ \/ requested' = requested \cup {c}
     \/ requested' = requested \ {c}
  /\ UNCHANGED <<conn, shut, closingSockets, inputVars, desktopVars>>

(* KeyEvent: repeated presses pass, a release passes only once. *)
KeyMsg(c, k, down) ==
  /\ conn[c] = "NORMAL"
  /\ down \/ k \in pressedKeys[c]
  /\ pressedKeys' = [pressedKeys EXCEPT
                       ![c] = IF down THEN @ \cup {k} ELSE @ \ {k}]
  /\ keysDown' = IF down THEN Pressed({k}) ELSE Released({k})
  /\ UNCHANGED <<pointerClient, buttonsDown, connVars, desktopVars>>

(* ISO_Left_Tab is Tab with a shift around it, unless this client holds    *)
(* one already.  A release without a press leaves only the shift.          *)
BackTabMsg(c, down) ==
  LET holdsShift == pressedKeys[c] \cap {ShiftL, ShiftR} # {}
      lifted == IF holdsShift \/ ~KeyEnabled THEN {} ELSE {ShiftL}
  IN
  /\ conn[c] = "NORMAL"
  /\ pressedKeys' = [pressedKeys EXCEPT
                       ![c] = IF down THEN @ \cup {Tab} ELSE @ \ {Tab}]
  /\ keysDown' = (IF down THEN Pressed({Tab})
                  ELSE Released({Tab} \cap pressedKeys[c])) \ lifted
  /\ UNCHANGED <<pointerClient, buttonsDown, connVars, desktopVars>>

(* PointerEvent: the client that holds a button is the only one heard. *)
PointerMsg(c, pressed) ==
  /\ conn[c] = "NORMAL"
  /\ pointerClient \in {NoConn, c}
  /\ pointerClient' = IF pressed THEN c ELSE NoConn
  /\ buttonsDown' = IF PointerEnabled THEN pressed ELSE buttonsDown
  /\ UNCHANGED <<pressedKeys, keysDown, connVars, desktopVars>>

(* A message of c that was read without an exception. *)
ProcessMsg(c) ==
  \/ VersionMsg(c)
  \/ SecurityTypeMsg(c)
  \/ SecurityMsg(c)
  \/ \E flag \in BOOLEAN : ClientInitMsg(c, flag)
  \/ UpdateMsg(c)
  \/ \E k \in Key, down \in BOOLEAN : KeyMsg(c, k, down)
  \/ \E down \in BOOLEAN : BackTabMsg(c, down)
  \/ \E pressed \in BOOLEAN : PointerMsg(c, pressed)

ProcessSocketEvent(c) ==
  \/ ClosedSocketEvent(c)
  \/ ClosedClientEvent(c)
  \/ FailedEvent(c)
  \/ ProcessMsg(c)

-----------------------------------------------------------------------------
(* The other entry points                                                  *)

(* checkTimeouts(): any clients may have been idle for too long. *)
CheckTimeouts ==
  /\ \E S \in SUBSET clients : CloseAll(S)
  /\ UNCHANGED <<closingSockets, requested, inputVars, desktopVars>>

(* closeClients(reason) *)
CloseClients ==
  /\ CloseAll(clients)
  /\ UNCHANGED <<closingSockets, requested, inputVars, desktopVars>>

(* approveConnection(), the late answer to a query that was PENDING.  It   *)
(* is not the client's own socket event, so a failure only closes.         *)
ApproveConnection(c) ==
  /\ "PENDING" \in QueryResults
  /\ \/ /\ conn[c] = "QUERYING"
        /\ \/ AuthSuccess(c)
           \/ /\ ~desktopStarted /\ StartThrows
              /\ CloseAll({c})
              /\ UNCHANGED <<closingSockets, requested, inputVars>>
     \/ /\ conn[c] \in {"QUERYING", "CLOSING"}
        /\ CloseAll({c})
        /\ UNCHANGED <<closingSockets, requested, inputVars, desktopVars>>

(* Clients of S get an update written, clients of F fail to take it. *)
WriteUpdates(S, F) ==
  /\ CloseAll(F)
  /\ requested' = requested \ S
  /\ UNCHANGED <<closingSockets, inputVars>>

(* setPixelBuffer() when the screen's size or format changed: clients that *)
(* cannot resize are closed, the others may be told with a fake update.    *)
ScreenChanged ==
  /\ fb
  /\ pb' = TRUE
  /\ \E F \in SUBSET Authenticated(conn) :
       \E S \in SUBSET (requested \cap InState("NORMAL")) :
         WriteUpdates(S, F)
  /\ UNCHANGED <<desktopStarted, fb, keymap, injector, opens>>

(* tryUpdate() *)
TryUpdate ==
  /\ fb
  /\ \E F \in SUBSET (requested \cap InState("NORMAL")) :
       \E S \in SUBSET ((requested \cap InState("NORMAL")) \ F) :
         WriteUpdates(S, F)
  /\ UNCHANGED desktopVars

(* serverCutText(), bell(), setCursor(): a client that cannot be written   *)
(* to is closed.                                                           *)
Broadcast ==
  /\ \E F \in SUBSET InState("NORMAL") : CloseAll(F)
  /\ UNCHANGED <<closingSockets, requested, inputVars, desktopVars>>

-----------------------------------------------------------------------------
Init ==
  /\ conn = [c \in Conn |-> "UNUSED"]
  /\ shut = {}
  /\ closingSockets = {}
  /\ requested = {}
  /\ pressedKeys = [c \in Conn |-> {}]
  /\ pointerClient = NoConn
  /\ keysDown = {}
  /\ buttonsDown = FALSE
  /\ desktopStarted = FALSE
  /\ pb = FALSE
  /\ fb = FALSE
  /\ keymap = FALSE
  /\ injector = FALSE
  /\ opens = 0

Next ==
  \/ \E c \in Conn : AddBlacklisted(c)
  \/ \E c \in Conn : AddClient(c)
  \/ \E c \in Conn : ProcessSocketEvent(c)
  \/ \E c \in Conn : ApproveConnection(c)
  \/ CheckTimeouts
  \/ CloseClients
  \/ ScreenChanged
  \/ TryUpdate
  \/ Broadcast

Spec == Init /\ [][Next]_vars

-----------------------------------------------------------------------------
(* Properties                                                              *)

(* Every client that has authenticated finds a started desktop with a      *)
(* pixel buffer and an update tracker, a frame buffer and a key map: the   *)
(* message handlers use server->pb and server->comparer unchecked, and     *)
(* they would crash if the desktop were stopped under a client.            *)
DesktopForAuthenticated ==
  Authenticated(conn) # {} => desktopStarted /\ pb /\ fb /\ keymap

(* start() never finds the key map of an earlier start(): the exception    *)
(* "key map pointers not NULL, bug!" is never thrown, however starts fail, *)
(* succeed and are followed by stops.                                      *)
StartFindsNoKeyMap == ~desktopStarted => ~keymap

(* The client that holds the pointer exists and has been let in.  A stale  *)
(* pointer would lock every other client out for good.                     *)
PointerClientLives ==
  pointerClient # NoConn => conn[pointerClient] \in {"NORMAL", "CLOSING"}

(* With NeverShared there is never a second client in use, whether the     *)
(* earlier one is disconnected or the later one refused.                   *)
NeverTwoInUse ==
  NeverShared => \A c, d \in InState("NORMAL") : c = d

(* The destructor's "release any keys the client still had pressed": a key *)
(* that is down in BeOS is held by a client that still exists.             *)
KeysDownAreHeld == \A k \in keysDown : \E c \in clients : k \in pressedKeys[c]

(* While the desktop takes keys, the last holder of a key cannot go, by    *)
(* releasing it or by being deleted, and leave it down.                    *)
LastHolderReleases ==
  [][ \A k \in keysDown :
        /\ \E c \in Conn : k \in pressedKeys[c]
        /\ \A c \in Conn : k \notin pressedKeys'[c]
        /\ KeyEnabled
        => k \notin keysDown' ]_vars

(* SDesktop.h: "there should never be two calls to start() without an      *)
(* intervening stop()".                                                    *)
StartStopAlternate == opens <= 1

(* The server keeps the contract of the SDesktop interface: it starts the  *)
(* desktop when the first client gets in, has it running whenever one is,  *)
(* and stops it only when none is left.                                    *)
Contract == INSTANCE SDesktopContract
              WITH Client <- Conn,
                   users <- Authenticated(conn),
                   running <- desktopStarted
KeepsContract == Contract!SafeSpec
=============================================================================
