------------------------------ MODULE ServerProofs -----------------------------
(***************************************************************************)
(* Theorems about VNCServerST, ServerMain, UpdateTracker, ScreenCopy and   *)
(* Cursors, for any set of connections, any keys, parameters and bound of  *)
(* the message queue, and any screen, pixels, requests and cursors.        *)
(*                                                                         *)
(* What makes the invariants of VNCServerST inductive is DesktopInv: the   *)
(* key map is there exactly while the desktop is started, a started        *)
(* desktop has its buffers, and an authenticated client means it is        *)
(* started.  Every action either leaves the authenticated clients and the  *)
(* desktop alone, removes authenticated clients, adds one to a started     *)
(* desktop, or starts or stops the desktop with nobody authenticated.      *)
(*                                                                         *)
(* The calls of ServerMain's thread are steps of VNCServerST, so that what *)
(* is shown of the server holds there as well.  What the thread adds is    *)
(* the list of sockets it still has to process: it is kept over many       *)
(* calls, each of which may delete sockets.                                *)
(*                                                                         *)
(* What a client is told of the screen is in UpdateTracker, part of the    *)
(* instance MCVNCServerST.  PictureInv is what makes its property          *)
(* inductive: apply what the client's tracker holds to what the client     *)
(* shows, and then what the server's tracker holds; every cell of the      *)
(* screen is among what that can give.  A comparer's copy of the screen    *)
(* stands between the two.                                                 *)
(*                                                                         *)
(* CopyInv says when the bitmap, the format that was cached of it and what *)
(* the clients were told agree; the pixels are then where they are looked  *)
(* for because a row has a whole number of them.  CursorShapeInv relates   *)
(* the cursor, which loses edges and gains outlines, to what was asked     *)
(* for, which does not: the edges that are left cannot be moved, and the   *)
(* mask beyond the picture has nothing that the picture's edge does not.   *)
(***************************************************************************)
EXTENDS MCVNCServerST, ServerMain, Recursion, Integers, TLAPS

DesktopInv ==
  /\ desktopStarted <=> keymap
  /\ desktopStarted => pb /\ fb
  /\ Authenticated(conn) # {} => desktopStarted

-----------------------------------------------------------------------------
(* Type correctness                                                        *)

LEMMA ClosedType ==
  ASSUME TypeOK, NEW S \in SUBSET Conn
  PROVE  Closed(S) \in [Conn -> ConnState]
BY DEF Closed, TypeOK, ConnState

LEMMA DesktopType ==
  ASSUME TypeOK, StartSucceeds \/ StartThrows \/ StopDesktop
                 \/ UNCHANGED desktopVars
  PROVE  /\ desktopStarted' \in BOOLEAN
         /\ pb' \in BOOLEAN
         /\ fb' \in BOOLEAN
         /\ keymap' \in BOOLEAN
         /\ injector' \in BOOLEAN
         /\ opens' \in 0..MaxOpens
<1>1. OneMoreOpen \in 0..MaxOpens
  BY ParameterAssumption DEF TypeOK, OneMoreOpen
<1>2. CASE StartSucceeds
  BY <1>1, <1>2 DEF TypeOK, StartSucceeds, AttachScreen
<1>3. CASE StartThrows
  BY <1>1, <1>3 DEF TypeOK, StartThrows, AttachScreen
<1>4. CASE StopDesktop
  <2>1. 0 \in 0..MaxOpens
    BY ParameterAssumption
  <2>2. QED
    BY <1>4, <2>1 DEF TypeOK, StopDesktop
<1>5. CASE UNCHANGED desktopVars
  BY <1>5 DEF TypeOK, desktopVars
<1>6. QED
  BY <1>2, <1>3, <1>4, <1>5

LEMMA DeleteClientType ==
  ASSUME TypeOK, NEW c \in Conn, NEW S \in SUBSET Conn, DeleteClient(c, S)
  PROVE  TypeOK'
<1>1. conn' \in [Conn -> ConnState]
  BY ClosedType DEF DeleteClient, ConnState
<1>2. /\ shut' \subseteq Conn
      /\ closingSockets' \subseteq Conn
      /\ requested' \subseteq Conn
      /\ buttonsDown' \in BOOLEAN
      /\ keysDown' \subseteq Key
  BY DEF DeleteClient, TypeOK, Released
<1>3. /\ pressedKeys' \in [Conn -> SUBSET Key]
      /\ pointerClient' \in Conn \cup {NoConn}
  BY DEF DeleteClient, TypeOK
<1>4. StopDesktop \/ UNCHANGED desktopVars
  BY DEF DeleteClient, StopIfUnused
<1>5. QED
  BY <1>1, <1>2, <1>3, <1>4, DesktopType DEF TypeOK

(* The actions that only move connections between states. *)
LEMMA CloseAllType ==
  ASSUME TypeOK, NEW S \in SUBSET Conn, CloseAll(S)
  PROVE  conn' \in [Conn -> ConnState] /\ shut' \subseteq Conn
BY ClosedType DEF CloseAll, TypeOK

LEMMA EnterType ==
  ASSUME TypeOK, NEW c \in Conn, NEW s \in ConnState, Enter(c, s),
         StartSucceeds \/ UNCHANGED desktopVars
  PROVE  TypeOK'
<1>1. conn' \in [Conn -> ConnState]
  BY DEF Enter, TypeOK
<1>2. QED
  BY <1>1, DesktopType DEF Enter, TypeOK, inputVars

LEMMA QueryConnectionType ==
  ASSUME TypeOK, NEW c \in Conn, QueryConnection(c)
  PROVE  TypeOK'
<1>1. CASE AuthSuccess(c)
  <2>1. Enter(c, "INITIALISATION") /\ (StartSucceeds \/ UNCHANGED desktopVars)
    BY <1>1 DEF AuthSuccess
  <2>2. QED
    BY <2>1, EnterType DEF ConnState, AuthStates
<1>2. CASE AuthSuccessThrows(c)
  <2>1. StartThrows
    BY <1>2 DEF AuthSuccessThrows
  <2>2. conn' \in [Conn -> ConnState]
    BY <1>2 DEF AuthSuccessThrows, TypeOK, ConnState
  <2>3. QED
    BY <1>2, <2>1, <2>2, DesktopType DEF AuthSuccessThrows, TypeOK, inputVars
<1>3. CASE Enter(c, "QUERYING") /\ UNCHANGED desktopVars
  BY <1>3, EnterType DEF ConnState, Handshaking
<1>4. CASE DeleteClient(c, {})
  BY <1>4, DeleteClientType
<1>5. QED
  BY <1>1, <1>2, <1>3, <1>4 DEF QueryConnection

LEMMA InputType ==
  ASSUME TypeOK, NEW c \in Conn,
         \/ \E k \in Key, down \in BOOLEAN : KeyMsg(c, k, down)
         \/ \E down \in BOOLEAN : BackTabMsg(c, down)
         \/ \E pressed \in BOOLEAN : PointerMsg(c, pressed)
  PROVE  TypeOK'
<1>1. CASE \E k \in Key, down \in BOOLEAN : KeyMsg(c, k, down)
  <2>1. PICK k \in Key, down \in BOOLEAN : KeyMsg(c, k, down)
    BY <1>1
  <2>2. pressedKeys' \in [Conn -> SUBSET Key]
    BY <2>1 DEF KeyMsg, TypeOK
  <2>3. keysDown' \subseteq Key
    BY <2>1 DEF KeyMsg, TypeOK, Pressed, Released
  <2>4. QED
    BY <2>1, <2>2, <2>3 DEF KeyMsg, TypeOK, connVars, desktopVars
<1>2. CASE \E down \in BOOLEAN : BackTabMsg(c, down)
  <2>1. PICK down \in BOOLEAN : BackTabMsg(c, down)
    BY <1>2
  <2>2. pressedKeys' \in [Conn -> SUBSET Key]
    BY <2>1, KeyAssumption DEF BackTabMsg, TypeOK
  <2>3. keysDown' \subseteq Key
    BY <2>1, KeyAssumption DEF BackTabMsg, TypeOK, Pressed, Released
  <2>4. QED
    BY <2>1, <2>2, <2>3 DEF BackTabMsg, TypeOK, connVars, desktopVars
<1>3. CASE \E pressed \in BOOLEAN : PointerMsg(c, pressed)
  BY <1>3 DEF PointerMsg, TypeOK, connVars, desktopVars
<1>4. QED
  BY <1>1, <1>2, <1>3

LEMMA ClientInitType ==
  ASSUME TypeOK, NEW c \in Conn, NEW flag \in BOOLEAN, ClientInitMsg(c, flag)
  PROVE  TypeOK'
<1> DEFINE S == IF ~(~NeverShared /\ (AlwaysShared \/ flag)) /\ DisconnectClients
                THEN clients \ {c} ELSE {}
<1>1. S \in SUBSET Conn
  BY DEF clients
<1>2. CASE DeleteClient(c, {}) \/ DeleteClient(c, S)
  BY <1>1, <1>2, DeleteClientType
<1>3. CASE /\ CloseAll({c})
           /\ UNCHANGED <<closingSockets, requested, inputVars, desktopVars>>
  BY <1>3, CloseAllType DEF TypeOK, inputVars, desktopVars
<1>4. CASE /\ conn' = [Closed(S) EXCEPT ![c] = "NORMAL"]
           /\ shut' = shut \cup S
           /\ UNCHANGED <<closingSockets, requested, inputVars, desktopVars>>
  <2>1. conn' \in [Conn -> ConnState]
    BY <1>1, <1>4, ClosedType DEF ConnState, AuthStates
  <2>2. QED
    BY <1>1, <1>4, <2>1 DEF TypeOK, inputVars, desktopVars
<1>5. QED
  BY <1>2, <1>3, <1>4 DEF ClientInitMsg

LEMMA SocketEventType ==
  ASSUME TypeOK, NEW c \in Conn, ProcessSocketEvent(c)
  PROVE  TypeOK'
<1>1. CASE ClosedSocketEvent(c)
  <2>1. StopDesktop \/ UNCHANGED desktopVars
    BY <1>1 DEF ClosedSocketEvent, StopIfUnused
  <2>2. QED
    BY <1>1, <2>1, DesktopType DEF ClosedSocketEvent, TypeOK, inputVars
<1>2. CASE ClosedClientEvent(c) \/ FailedEvent(c)
  BY <1>2, DeleteClientType DEF ClosedClientEvent, FailedEvent
<1>3. CASE VersionMsg(c)
  BY <1>3, EnterType, QueryConnectionType DEF VersionMsg, ConnState, Handshaking
<1>4. CASE SecurityTypeMsg(c)
  BY <1>4, EnterType, QueryConnectionType
     DEF SecurityTypeMsg, ConnState, Handshaking
<1>5. CASE SecurityMsg(c)
  BY <1>5, QueryConnectionType DEF SecurityMsg
<1>6. CASE \E flag \in BOOLEAN : ClientInitMsg(c, flag)
  BY <1>6, ClientInitType
<1>7. CASE UpdateMsg(c)
  BY <1>7 DEF UpdateMsg, TypeOK, inputVars, desktopVars
<1>8. QED
  BY <1>1, <1>2, <1>3, <1>4, <1>5, <1>6, <1>7, InputType
     DEF ProcessSocketEvent, ProcessMsg

LEMMA TypeStep == TypeOK /\ [Next]_vars => TypeOK'
<1> SUFFICES ASSUME TypeOK, [Next]_vars PROVE TypeOK'
  OBVIOUS
<1>1. CASE \E c \in Conn : AddBlacklisted(c)
  BY <1>1 DEF AddBlacklisted, TypeOK, inputVars, desktopVars
<1>2. CASE \E c \in Conn : AddClient(c)
  <2>1. PICK c \in Conn : AddClient(c)
    BY <1>2
  <2>2. conn' \in [Conn -> ConnState] /\ shut' \subseteq Conn
    BY <2>1, CloseAllType DEF AddClient, TypeOK, ConnState, Handshaking
  <2>3. QED
    BY <2>1, <2>2 DEF AddClient, TypeOK, inputVars, desktopVars
<1>3. CASE \E c \in Conn : ProcessSocketEvent(c)
  BY <1>3, SocketEventType
<1>4. CASE \E c \in Conn : ApproveConnection(c)
  <2>1. PICK c \in Conn : ApproveConnection(c)
    BY <1>4
  <2>2. CASE AuthSuccess(c)
    <3>1. Enter(c, "INITIALISATION") /\ (StartSucceeds \/ UNCHANGED desktopVars)
      BY <2>2 DEF AuthSuccess
    <3>2. QED
      BY <3>1, EnterType DEF ConnState, AuthStates
  <2>3. CASE /\ CloseAll({c})
             /\ UNCHANGED <<closingSockets, requested, inputVars>>
             /\ StartThrows \/ UNCHANGED desktopVars
    BY <2>3, CloseAllType, DesktopType DEF TypeOK, inputVars
  <2>4. QED
    BY <2>1, <2>2, <2>3 DEF ApproveConnection
<1>5. CASE CheckTimeouts \/ CloseClients \/ Broadcast
  <2>1. PICK S \in SUBSET Conn : CloseAll(S)
    BY <1>5 DEF CheckTimeouts, CloseClients, Broadcast, clients, InState
  <2>2. UNCHANGED <<closingSockets, requested, inputVars, desktopVars>>
    BY <1>5 DEF CheckTimeouts, CloseClients, Broadcast
  <2>3. QED
    BY <2>1, <2>2, CloseAllType DEF TypeOK, inputVars, desktopVars
<1>6. CASE ScreenChanged \/ TryUpdate
  <2>1. PICK F \in SUBSET Conn, S \in SUBSET Conn : WriteUpdates(S, F)
    BY <1>6 DEF ScreenChanged, TryUpdate, Authenticated, InState
  <2>2. /\ pb' \in BOOLEAN
        /\ UNCHANGED <<desktopStarted, fb, keymap, injector, opens>>
    BY <1>6 DEF ScreenChanged, TryUpdate, TypeOK, desktopVars
  <2>3. QED
    BY <2>1, <2>2, CloseAllType DEF WriteUpdates, TypeOK, inputVars
<1>7. CASE UNCHANGED vars
  BY <1>7 DEF TypeOK, vars, connVars, inputVars, desktopVars
<1>8. QED
  BY <1>1, <1>2, <1>3, <1>4, <1>5, <1>6, <1>7 DEF Next

LEMMA TypeInit == Init => TypeOK
<1>1. 0 \in 0..MaxOpens
  BY ParameterAssumption
<1>2. QED
  BY <1>1 DEF Init, TypeOK, ConnState

(* Every variable keeps its type, whatever the clients send. *)
THEOREM TypeCorrect == Spec => []TypeOK
BY TypeInit, TypeStep, PTL DEF Spec

-----------------------------------------------------------------------------
(* The desktop and the clients                                             *)

(* What a step may do to the authenticated clients and the desktop. *)
Shrinks ==
  /\ Authenticated(conn') \subseteq Authenticated(conn)
  /\ UNCHANGED <<desktopStarted, keymap>>
  /\ pb => pb'
  /\ fb => fb'

Joins(c) ==
  /\ c \notin Authenticated(conn)
  /\ Authenticated(conn') = Authenticated(conn) \cup {c}
  /\ IF desktopStarted THEN UNCHANGED desktopVars ELSE StartSucceeds

Stops ==
  /\ Authenticated(conn') = {}
  /\ desktopStarted
  /\ StopDesktop

Allowed == Shrinks \/ (\E c \in Conn : Joins(c)) \/ Stops

LEMMA ClosedShrinks ==
  ASSUME TypeOK, NEW S \in SUBSET Conn, conn' = Closed(S),
         UNCHANGED <<desktopStarted, keymap>>, pb => pb', fb => fb'
  PROVE  Shrinks
BY DEF Shrinks, Authenticated, Closed, AuthStates, TypeOK

LEMMA DeleteAllowed ==
  ASSUME TypeOK, NEW c \in Conn, NEW S \in SUBSET Conn, DeleteClient(c, S)
  PROVE  Allowed
<1>1. Authenticated(conn') \subseteq Authenticated(conn)
  BY DEF DeleteClient, Authenticated, Closed, AuthStates, TypeOK
<1>2. CASE UNCHANGED desktopVars
  BY <1>1, <1>2 DEF Allowed, Shrinks, desktopVars
<1>3. CASE ~ UNCHANGED desktopVars
  BY <1>3 DEF Allowed, Stops, DeleteClient, StopIfUnused
<1>4. QED
  BY <1>2, <1>3

LEMMA EnterShrinks ==
  ASSUME TypeOK, NEW c \in Conn, NEW s \in Handshaking, Enter(c, s),
         UNCHANGED desktopVars
  PROVE  Shrinks
BY DEF Shrinks, Enter, Authenticated, Handshaking, AuthStates, TypeOK, desktopVars

LEMMA QueryConnectionAllowed ==
  ASSUME TypeOK, NEW c \in Conn, conn[c] \in Handshaking, QueryConnection(c)
  PROVE  Allowed
<1>1. CASE AuthSuccess(c)
  <2>1. c \notin Authenticated(conn)
    BY DEF Authenticated, Handshaking, AuthStates
  <2>2. Authenticated(conn') = Authenticated(conn) \cup {c}
    BY <1>1 DEF AuthSuccess, Enter, Authenticated, AuthStates, TypeOK
  <2>3. QED
    BY <1>1, <2>1, <2>2 DEF AuthSuccess, Allowed, Joins
<1>2. CASE AuthSuccessThrows(c)
  <2>1. Authenticated(conn') \subseteq Authenticated(conn)
    BY <1>2 DEF AuthSuccessThrows, Authenticated, AuthStates, TypeOK
  <2>2. QED
    BY <1>2, <2>1
       DEF AuthSuccessThrows, StartThrows, AttachScreen, Allowed, Shrinks
<1>3. CASE Enter(c, "QUERYING") /\ UNCHANGED desktopVars
  BY <1>3, EnterShrinks DEF Allowed, Handshaking
<1>4. CASE DeleteClient(c, {})
  BY <1>4, DeleteAllowed
<1>5. QED
  BY <1>1, <1>2, <1>3, <1>4 DEF QueryConnection

LEMMA ClientInitAllowed ==
  ASSUME TypeOK, NEW c \in Conn, NEW flag \in BOOLEAN, ClientInitMsg(c, flag)
  PROVE  Allowed
<1> DEFINE S == IF ~(~NeverShared /\ (AlwaysShared \/ flag)) /\ DisconnectClients
                THEN clients \ {c} ELSE {}
<1>1. S \in SUBSET Conn
  BY DEF clients
<1>2. CASE DeleteClient(c, {}) \/ DeleteClient(c, S)
  BY <1>1, <1>2, DeleteAllowed
<1>3. CASE CloseAll({c}) /\ UNCHANGED desktopVars
  BY <1>3, ClosedShrinks DEF CloseAll, Allowed, desktopVars
<1>4. CASE /\ conn' = [Closed(S) EXCEPT ![c] = "NORMAL"]
           /\ UNCHANGED desktopVars
  <2>1. conn[c] = "INITIALISATION"
    BY DEF ClientInitMsg
  <2>2. Authenticated(conn') \subseteq Authenticated(conn)
    BY <1>1, <1>4, <2>1 DEF Authenticated, Closed, AuthStates, TypeOK
  <2>3. QED
    BY <1>4, <2>2 DEF Allowed, Shrinks, desktopVars
<1>5. QED
  BY <1>2, <1>3, <1>4 DEF ClientInitMsg

LEMMA SocketEventAllowed ==
  ASSUME TypeOK, NEW c \in Conn, ProcessSocketEvent(c)
  PROVE  Allowed
<1>1. CASE ClosedSocketEvent(c)
  <2>1. UNCHANGED conn
    BY <1>1 DEF ClosedSocketEvent
  <2>2. CASE UNCHANGED desktopVars
    BY <2>1, <2>2 DEF Allowed, Shrinks, desktopVars
  <2>3. CASE ~ UNCHANGED desktopVars
    BY <1>1, <2>1, <2>3 DEF Allowed, Stops, ClosedSocketEvent, StopIfUnused
  <2>4. QED
    BY <2>2, <2>3
<1>2. CASE ClosedClientEvent(c) \/ FailedEvent(c)
  BY <1>2, DeleteAllowed DEF ClosedClientEvent, FailedEvent
<1>3. CASE VersionMsg(c) \/ SecurityTypeMsg(c) \/ SecurityMsg(c)
  <2>1. conn[c] \in Handshaking
    BY <1>3 DEF VersionMsg, SecurityTypeMsg, SecurityMsg, Handshaking
  <2>2. CASE QueryConnection(c)
    BY <2>1, <2>2, QueryConnectionAllowed
  <2>3. CASE \E s \in Handshaking : Enter(c, s) /\ UNCHANGED desktopVars
    BY <2>3, EnterShrinks DEF Allowed
  <2>4. QED
    BY <1>3, <2>2, <2>3
       DEF VersionMsg, SecurityTypeMsg, SecurityMsg, Handshaking
<1>4. CASE \E flag \in BOOLEAN : ClientInitMsg(c, flag)
  BY <1>4, ClientInitAllowed
<1>5. CASE UNCHANGED <<conn, desktopVars>>
  BY <1>5 DEF Allowed, Shrinks, desktopVars
<1>6. CASE \/ UpdateMsg(c)
           \/ \E k \in Key, down \in BOOLEAN : KeyMsg(c, k, down)
           \/ \E down \in BOOLEAN : BackTabMsg(c, down)
           \/ \E pressed \in BOOLEAN : PointerMsg(c, pressed)
  BY <1>5, <1>6 DEF UpdateMsg, KeyMsg, BackTabMsg, PointerMsg, connVars
<1>7. QED
  BY <1>1, <1>2, <1>3, <1>4, <1>6 DEF ProcessSocketEvent, ProcessMsg

(* Every step is one of the allowed ones. *)
LEMMA StepAllowed == TypeOK /\ [Next]_vars => Allowed
<1> SUFFICES ASSUME TypeOK, [Next]_vars PROVE Allowed
  OBVIOUS
<1>1. CASE UNCHANGED <<conn, desktopVars>>
  BY <1>1 DEF Allowed, Shrinks, desktopVars
<1>2. CASE \E S \in SUBSET Conn :
             /\ CloseAll(S)
             /\ UNCHANGED <<desktopStarted, keymap>>
             /\ pb => pb'
             /\ fb => fb'
  BY <1>2, ClosedShrinks DEF CloseAll, Allowed
<1>3. CASE \E c \in Conn : AddClient(c)
  <2>1. PICK c \in Conn : AddClient(c)
    BY <1>3
  <2>2. CASE CloseAll({c})
    BY <1>2, <2>1, <2>2 DEF AddClient, desktopVars
  <2>3. CASE conn' = [conn EXCEPT ![c] = "PROTOCOL_VERSION"]
    <3>1. Authenticated(conn') \subseteq Authenticated(conn)
      BY <2>3 DEF Authenticated, AuthStates, TypeOK
    <3>2. QED
      BY <2>1, <3>1 DEF AddClient, Allowed, Shrinks, desktopVars
  <2>4. QED
    BY <2>1, <2>2, <2>3 DEF AddClient
<1>4. CASE \E c \in Conn : ProcessSocketEvent(c)
  BY <1>4, SocketEventAllowed
<1>5. CASE \E c \in Conn : ApproveConnection(c)
  <2>1. PICK c \in Conn : ApproveConnection(c)
    BY <1>5
  <2>2. CASE conn[c] = "QUERYING" /\ AuthSuccess(c)
    <3>1. c \notin Authenticated(conn)
      BY <2>2 DEF Authenticated, AuthStates
    <3>2. Authenticated(conn') = Authenticated(conn) \cup {c}
      BY <2>2 DEF AuthSuccess, Enter, Authenticated, AuthStates, TypeOK
    <3>3. QED
      BY <2>2, <3>1, <3>2 DEF AuthSuccess, Allowed, Joins
  <2>3. CASE CloseAll({c}) /\ StartThrows
    BY <1>2, <2>3 DEF StartThrows, AttachScreen
  <2>4. CASE CloseAll({c}) /\ UNCHANGED desktopVars
    BY <1>2, <2>4 DEF desktopVars
  <2>5. QED
    BY <2>1, <2>2, <2>3, <2>4 DEF ApproveConnection
<1>6. CASE CheckTimeouts \/ CloseClients \/ Broadcast
  <2>1. PICK S \in SUBSET Conn : CloseAll(S)
    BY <1>6 DEF CheckTimeouts, CloseClients, Broadcast, clients, InState
  <2>2. QED
    BY <1>2, <1>6, <2>1
       DEF CheckTimeouts, CloseClients, Broadcast, desktopVars
<1>7. CASE ScreenChanged \/ TryUpdate
  <2>1. PICK F \in SUBSET Conn, S \in SUBSET Conn : WriteUpdates(S, F)
    BY <1>7 DEF ScreenChanged, TryUpdate, Authenticated, InState
  <2>2. QED
    BY <1>2, <1>7, <2>1 DEF WriteUpdates, ScreenChanged, TryUpdate, desktopVars
<1>8. CASE UNCHANGED vars \/ \E c \in Conn : AddBlacklisted(c)
  BY <1>1, <1>8 DEF vars, connVars, AddBlacklisted
<1>9. QED
  BY <1>3, <1>4, <1>5, <1>6, <1>7, <1>8 DEF Next

LEMMA DesktopStep == DesktopInv /\ Allowed => DesktopInv'
<1>1. DesktopInv /\ Shrinks => DesktopInv'
  BY DEF DesktopInv, Shrinks
<1>2. ASSUME NEW c \in Conn PROVE DesktopInv /\ Joins(c) => DesktopInv'
  BY DEF DesktopInv, Joins, StartSucceeds, AttachScreen, desktopVars
<1>3. DesktopInv /\ Stops => DesktopInv'
  BY DEF DesktopInv, Stops, StopDesktop
<1>4. QED
  BY <1>1, <1>2, <1>3 DEF Allowed

LEMMA DesktopInitially == Init => DesktopInv
BY DEF Init, DesktopInv, Authenticated, AuthStates

LEMMA DesktopInvariant == Spec => [](TypeOK /\ DesktopInv)
<1>1. Init => TypeOK /\ DesktopInv
  BY TypeInit, DesktopInitially
<1>2. TypeOK /\ DesktopInv /\ [Next]_vars => (TypeOK /\ DesktopInv)'
  BY TypeStep, StepAllowed, DesktopStep
<1>3. QED
  BY <1>1, <1>2, PTL DEF Spec

(* However clients come and go and starts fail, no authenticated client is *)
(* ever served without a started desktop, its buffers and its key map.     *)
THEOREM DesktopAlwaysThere == Spec => []DesktopForAuthenticated
<1>1. DesktopInv => DesktopForAuthenticated
  BY DEF DesktopInv, DesktopForAuthenticated
<1>2. QED
  BY <1>1, DesktopInvariant, PTL

(* start() never throws its "bug!" exception. *)
THEOREM NoKeyMapAtStart == Spec => []StartFindsNoKeyMap
<1>1. DesktopInv => StartFindsNoKeyMap
  BY DEF DesktopInv, StartFindsNoKeyMap
<1>2. QED
  BY <1>1, DesktopInvariant, PTL

(* The server implements the contract of SDesktop.h: the authenticated     *)
(* clients are the contract's users, a started desktop its running one.    *)
THEOREM ServerKeepsContract == Spec => KeepsContract
<1>1. Init => Contract!Init
  BY DEF Init, Contract!Init, Authenticated, AuthStates
<1>2. DesktopInv /\ Allowed => [Contract!Next]_(Contract!vars)
  <2>1. ASSUME Shrinks PROVE [Contract!Next]_(Contract!vars)
    <3> DEFINE S == Authenticated(conn) \ Authenticated(conn')
    <3>1. CASE S = {}
      BY <2>1, <3>1 DEF Shrinks, Contract!vars
    <3>2. CASE S # {}
      <4>1. Contract!Leave(S)
        BY <2>1, <3>2 DEF Shrinks, Contract!Leave
      <4>2. QED
        BY <4>1 DEF Contract!Next
    <3>3. QED
      BY <3>1, <3>2
  <2>2. ASSUME DesktopInv, NEW c \in Conn, Joins(c) PROVE Contract!Next
    BY <2>2 DEF DesktopInv, Joins, StartSucceeds, Contract!Join, Contract!Next,
                desktopVars
  <2>3. ASSUME Stops PROVE Contract!Next
    <3>1. CASE Authenticated(conn) = {}
      BY <2>3, <3>1 DEF Stops, StopDesktop, Contract!Stop, Contract!Next
    <3>2. CASE Authenticated(conn) # {}
      <4>1. Contract!Leave(Authenticated(conn))
        BY <2>3, <3>2 DEF Stops, StopDesktop, Contract!Leave
      <4>2. QED
        BY <4>1 DEF Contract!Next
    <3>3. QED
      BY <3>1, <3>2
  <2>4. QED
    BY <2>1, <2>2, <2>3 DEF Allowed
<1>3. TypeOK /\ DesktopInv /\ [Next]_vars => [Contract!Next]_(Contract!vars)
  BY <1>2, StepAllowed
<1>4. QED
  BY <1>1, <1>3, DesktopInvariant, PTL
     DEF Spec, KeepsContract, Contract!SafeSpec

-----------------------------------------------------------------------------
(* The clients in use and the holder of the pointer                        *)

Holding == {"NORMAL", "CLOSING"}

(* A step in which no client comes into use, the pointer is at most let go *)
(* of, and whoever still holds it is still there.                          *)
Keeps ==
  /\ \A d \in Conn : conn'[d] = "NORMAL" => conn[d] = "NORMAL"
  /\ pointerClient' \in {NoConn, pointerClient}
  /\ \A d \in Conn : conn[d] \in Holding /\ pointerClient' = d
                      => conn'[d] \in Holding

UseInv == TypeOK /\ PointerClientLives /\ NeverTwoInUse

LEMMA KeepsPreserves ==
  ASSUME TypeOK, TypeOK', PointerClientLives, NeverTwoInUse, Keeps
  PROVE  PointerClientLives' /\ NeverTwoInUse'
BY DEF Keeps, PointerClientLives, NeverTwoInUse, InState, Holding, TypeOK

LEMMA CloseAllKeeps ==
  ASSUME TypeOK, NEW S \in SUBSET Conn, conn' = Closed(S),
         UNCHANGED pointerClient
  PROVE  Keeps
BY DEF Closed, Keeps, Holding, TypeOK

LEMMA DeleteKeeps ==
  ASSUME TypeOK, NEW c \in Conn, NEW S \in SUBSET Conn, DeleteClient(c, S)
  PROVE  Keeps
<1>1. \A d \in Conn \ {c} : conn'[d] = IF d \in S THEN "CLOSING" ELSE conn[d]
  BY DEF DeleteClient, Closed, TypeOK
<1>2. conn'[c] = "UNUSED" /\ pointerClient' # c
  BY ConnAssumption DEF DeleteClient, Closed, TypeOK
<1>3. pointerClient' \in {NoConn, pointerClient}
  BY DEF DeleteClient
<1>4. QED
  BY <1>1, <1>2, <1>3 DEF Keeps, Holding

LEMMA EnterKeeps ==
  ASSUME TypeOK, NEW c \in Conn, conn[c] \in Handshaking,
         NEW s \in Handshaking \cup {"INITIALISATION", "UNUSED"},
         conn' = [conn EXCEPT ![c] = s], UNCHANGED pointerClient
  PROVE  Keeps
BY DEF Keeps, Handshaking, Holding, TypeOK

LEMMA QueryConnectionKeeps ==
  ASSUME TypeOK, NEW c \in Conn, conn[c] \in Handshaking, QueryConnection(c)
  PROVE  Keeps
<1>1. CASE AuthSuccess(c) \/ AuthSuccessThrows(c) \/ Enter(c, "QUERYING")
  BY <1>1, EnterKeeps
     DEF AuthSuccess, AuthSuccessThrows, Enter, Handshaking, inputVars
<1>2. CASE DeleteClient(c, {})
  BY <1>2, DeleteKeeps
<1>3. QED
  BY <1>1, <1>2 DEF QueryConnection

LEMMA ClientInitUse ==
  ASSUME UseInv, TypeOK', NEW c \in Conn, NEW flag \in BOOLEAN,
         ClientInitMsg(c, flag)
  PROVE  PointerClientLives' /\ NeverTwoInUse'
<1> USE DEF UseInv
<1> DEFINE shared == ~NeverShared /\ (AlwaysShared \/ flag)
           S == IF ~shared /\ DisconnectClients THEN clients \ {c} ELSE {}
           inUse == ~shared /\ ~DisconnectClients /\ InUse(c)
<1>1. S \in SUBSET Conn /\ c \notin S /\ conn[c] = "INITIALISATION"
  BY DEF clients, ClientInitMsg
<1>2. CASE DeleteClient(c, {}) \/ DeleteClient(c, S)
  BY <1>1, <1>2, DeleteKeeps, KeepsPreserves
<1>3. CASE CloseAll({c}) /\ UNCHANGED pointerClient
  BY <1>3, CloseAllKeeps, KeepsPreserves DEF CloseAll
<1>4. CASE /\ ~inUse
           /\ conn' = [Closed(S) EXCEPT ![c] = "NORMAL"]
           /\ UNCHANGED pointerClient
  <2>1. /\ \A d \in Conn \ {c} : conn'[d] = IF d \in S THEN "CLOSING" ELSE conn[d]
        /\ conn'[c] = "NORMAL"
    BY <1>1, <1>4 DEF Closed, TypeOK
  <2>2. PointerClientLives'
    BY <1>4, <2>1 DEF PointerClientLives, TypeOK
  <2>3. ASSUME NeverShared, NEW d \in Conn, d # c PROVE conn'[d] # "NORMAL"
    <3>1. CASE DisconnectClients
      BY <2>1, <2>3, <3>1, ParameterAssumption DEF clients
    <3>2. CASE ~DisconnectClients
      <4>1. Authenticated(conn) \subseteq {c}
        BY <1>4, <2>3, <3>2, ParameterAssumption DEF InUse
      <4>2. conn[d] # "NORMAL"
        BY <2>3, <4>1 DEF Authenticated, AuthStates
      <4>3. QED
        BY <2>1, <2>3, <4>2
    <3>3. QED
      BY <3>1, <3>2
  <2>4. QED
    BY <2>2, <2>3 DEF NeverTwoInUse, InState
<1>5. QED
  BY <1>2, <1>3, <1>4 DEF ClientInitMsg, inputVars

LEMMA SocketEventUse ==
  ASSUME UseInv, TypeOK', NEW c \in Conn, ProcessSocketEvent(c)
  PROVE  PointerClientLives' /\ NeverTwoInUse'
<1> USE DEF UseInv
<1>1. CASE Keeps
  BY <1>1, KeepsPreserves
<1>2. CASE ClosedClientEvent(c) \/ FailedEvent(c)
  BY <1>1, <1>2, DeleteKeeps DEF ClosedClientEvent, FailedEvent
<1>3. CASE VersionMsg(c) \/ SecurityTypeMsg(c) \/ SecurityMsg(c)
  <2>1. conn[c] \in Handshaking
    BY <1>3 DEF VersionMsg, SecurityTypeMsg, SecurityMsg, Handshaking
  <2>2. CASE QueryConnection(c)
    BY <1>1, <2>1, <2>2, QueryConnectionKeeps
  <2>3. CASE \E s \in Handshaking : Enter(c, s)
    BY <1>1, <2>1, <2>3, EnterKeeps DEF Enter, inputVars
  <2>4. QED
    BY <1>3, <2>2, <2>3
       DEF VersionMsg, SecurityTypeMsg, SecurityMsg, Handshaking
<1>4. CASE \E flag \in BOOLEAN : ClientInitMsg(c, flag)
  BY <1>4, ClientInitUse
<1>5. CASE UNCHANGED <<conn, pointerClient>>
  BY <1>1, <1>5 DEF Keeps
<1>6. CASE \/ ClosedSocketEvent(c)
           \/ UpdateMsg(c)
           \/ \E k \in Key, down \in BOOLEAN : KeyMsg(c, k, down)
           \/ \E down \in BOOLEAN : BackTabMsg(c, down)
  BY <1>5, <1>6
     DEF ClosedSocketEvent, UpdateMsg, KeyMsg, BackTabMsg, connVars, inputVars
<1>7. CASE \E pressed \in BOOLEAN : PointerMsg(c, pressed)
  BY <1>7 DEF PointerMsg, connVars, PointerClientLives, NeverTwoInUse, InState
<1>8. QED
  BY <1>2, <1>3, <1>4, <1>6, <1>7 DEF ProcessSocketEvent, ProcessMsg

LEMMA UseStep == UseInv /\ [Next]_vars => UseInv'
<1> SUFFICES ASSUME UseInv, [Next]_vars
             PROVE  PointerClientLives' /\ NeverTwoInUse'
  BY TypeStep DEF UseInv
<1> USE DEF UseInv
<1>1. TypeOK'
  BY TypeStep
<1>2. CASE Keeps
  BY <1>1, <1>2, KeepsPreserves
<1>3. CASE \E S \in SUBSET Conn : CloseAll(S) /\ UNCHANGED pointerClient
  BY <1>2, <1>3, CloseAllKeeps DEF CloseAll
<1>4. CASE \E c \in Conn : AddClient(c)
  <2>1. PICK c \in Conn : AddClient(c)
    BY <1>4
  <2>2. CASE conn' = [conn EXCEPT ![c] = "PROTOCOL_VERSION"]
    <3>1. conn[c] = "UNUSED" /\ UNCHANGED pointerClient
      BY <2>1 DEF AddClient, sockets, clients, inputVars
    <3>2. Keeps
      BY <2>2, <3>1 DEF Keeps, Holding, TypeOK
    <3>3. QED
      BY <1>2, <3>2
  <2>3. QED
    BY <1>3, <2>1, <2>2 DEF AddClient, inputVars
<1>5. CASE \E c \in Conn : ProcessSocketEvent(c)
  BY <1>1, <1>5, SocketEventUse
<1>6. CASE \E c \in Conn : ApproveConnection(c)
  <2>1. PICK c \in Conn : ApproveConnection(c)
    BY <1>6
  <2>2. CASE conn[c] = "QUERYING" /\ AuthSuccess(c)
    BY <1>2, <2>2, EnterKeeps DEF AuthSuccess, Enter, Handshaking, inputVars
  <2>3. CASE CloseAll({c}) /\ UNCHANGED inputVars
    BY <1>3, <2>3 DEF inputVars
  <2>4. QED
    BY <2>1, <2>2, <2>3 DEF ApproveConnection
<1>7. CASE CheckTimeouts \/ CloseClients \/ Broadcast
  <2>1. PICK S \in SUBSET Conn : CloseAll(S)
    BY <1>7 DEF CheckTimeouts, CloseClients, Broadcast, clients, InState
  <2>2. QED
    BY <1>3, <1>7, <2>1 DEF CheckTimeouts, CloseClients, Broadcast, inputVars
<1>8. CASE ScreenChanged \/ TryUpdate
  <2>1. PICK F \in SUBSET Conn, S \in SUBSET Conn : WriteUpdates(S, F)
    BY <1>8 DEF ScreenChanged, TryUpdate, Authenticated, InState
  <2>2. QED
    BY <1>3, <2>1 DEF WriteUpdates, inputVars
<1>9. CASE UNCHANGED <<conn, pointerClient>>
  BY <1>2, <1>9 DEF Keeps
<1>10. CASE UNCHANGED vars \/ \E c \in Conn : AddBlacklisted(c)
  BY <1>9, <1>10 DEF vars, connVars, inputVars, AddBlacklisted
<1>11. QED
  BY <1>4, <1>5, <1>6, <1>7, <1>8, <1>10 DEF Next

LEMMA UseInvariant == Spec => []UseInv
<1>1. Init => UseInv
  BY TypeInit DEF Init, UseInv, PointerClientLives, NeverTwoInUse, InState
<1>2. QED
  BY <1>1, UseStep, PTL DEF Spec

(* The server's pointerClient is never a deleted connection.               *)
THEOREM PointerNeverStale == Spec => []PointerClientLives
BY UseInvariant, PTL DEF UseInv

(* With NeverShared, for either setting of DisconnectClients and any       *)
(* number of connections, no two clients are in use at the same time.      *)
THEOREM ExclusiveUse == Spec => []NeverTwoInUse
BY UseInvariant, PTL DEF UseInv

-----------------------------------------------------------------------------
(* ServerMain                                                              *)

(* A pass over a network that is up: nothing of it begins otherwise, and   *)
(* the message it was started by has left the queue.                       *)
Passing == {"SOCKETS", "ACCEPT", "TIMEOUTS", "UPDATE"}

(* A socket is a client's or a blacklisted host's, and the desktop is only *)
(* started while there is a client, let in or closed, whose socket event   *)
(* will stop it.                                                           *)
SocketsInv ==
  /\ closingSockets \cap clients = {}
  /\ desktopStarted => clients # {}

ReadyInv ==
  /\ phase \notin {"SOCKETS", "SHUTDOWN"} => ready = {}
  /\ phase = "SOCKETS" => ready \subseteq sockets
  /\ phase = "SHUTDOWN" => ready = sockets /\ clients \subseteq InState("CLOSING")

PassInv == phase \in Passing => netState = "NET_UP" /\ polls < MaxPolls

IInv == MainTypeOK /\ SocketsInv /\ ReadyInv /\ PassInv /\ ShutDownIsComplete

-----------------------------------------------------------------------------
(* The thread's steps are calls of the server                              *)

LEMMA EventIsStep ==
  ASSUME NEW c \in Conn, ProcessSocketEvent(c) PROVE Next
BY DEF Next

LEMMA MainStepIsStep == [MainNext]_allVars => [Next]_vars
<1> SUFFICES ASSUME [MainNext]_allVars PROVE Next \/ UNCHANGED vars
  OBVIOUS
<1>1. CASE PollSteps
  <2>1. CASE PollSelect \/ PollSocketsDone \/ ShutDownDone
    BY <2>1 DEF PollSelect, PollSocketsDone, ShutDownDone
  <2>2. CASE PollWentDown
    BY <2>2 DEF PollWentDown, StartShutDown, Next
  <2>3. CASE PollAccept
    BY <2>3 DEF PollAccept, Next
  <2>4. CASE PollTimeouts
    BY <2>4 DEF PollTimeouts, Next
  <2>5. CASE PollUpdate
    BY <2>5 DEF PollUpdate, Next
  <2>6. CASE \E c \in Conn : PollSocket(c) \/ ShutDownSocket(c)
    BY <2>6, EventIsStep DEF PollSocket, ShutDownSocket
  <2>7. QED
    BY <1>1, <2>1, <2>2, <2>3, <2>4, <2>5, <2>6 DEF PollSteps
<1>2. CASE TimePasses \/ Pulse \/ RestartSucceeds \/ RestartFails \/ PollSelectFails
  BY <1>2 DEF TimePasses, Pulse, RestartSucceeds, RestartFails, PollSelectFails
<1>3. CASE PollFails \/ Gone \/ UNCHANGED allVars
  BY <1>3 DEF PollFails, Gone, allVars
<1>4. CASE QuitRequested \/ ClipboardChanged
  BY <1>4 DEF QuitRequested, StartShutDown, ClipboardChanged, Next
<1>5. QED
  BY <1>1, <1>2, <1>3, <1>4 DEF MainNext

(* What the application's thread does to the server is what the interfaces *)
(* SocketServer and VNCServer allow: each of its steps is one call of the  *)
(* server, or none.                                                        *)
THEOREM ThreadCallsServer == MainSpec => Spec
<1>1. MainInit => Init
  BY DEF MainInit
<1>2. QED
  BY <1>1, MainStepIsStep, PTL DEF MainSpec, Spec

(* So the holder of the pointer is never a deleted connection, whatever    *)
(* the passes over the network, failures and restarts.                     *)
THEOREM PointerNeverStaleInPasses == MainSpec => []PointerClientLives
BY ThreadCallsServer, PointerNeverStale, PTL

-----------------------------------------------------------------------------
(* What a call does to the sockets                                         *)

(* The event of c's socket deletes at most that one. *)
AtMostDeletes(c) ==
  /\ sockets' \in {sockets, sockets \ {c}}
  /\ SocketsInv'

LEMMA ClosedClients ==
  ASSUME TypeOK, NEW S \in SUBSET clients, conn' = Closed(S)
  PROVE  clients' = clients
BY DEF clients, Closed, TypeOK

LEMMA DeleteSockets ==
  ASSUME TypeOK, SocketsInv, NEW c \in clients, NEW S \in SUBSET clients,
         DeleteClient(c, S)
  PROVE  clients' = clients \ {c} /\ UNCHANGED closingSockets /\ SocketsInv'
<1>1. c \in Conn /\ UNCHANGED closingSockets
  BY DEF clients, DeleteClient
<1>2. clients' = clients \ {c}
  BY <1>1 DEF DeleteClient, clients, Closed, TypeOK
<1>3. Authenticated(conn') \subseteq clients'
  BY DEF Authenticated, AuthStates, clients
<1>4. desktopStarted' => Authenticated(conn') # {}
  <2>1. CASE Authenticated(conn') = {}
    BY <2>1 DEF DeleteClient, StopIfUnused, StopDesktop, desktopVars, TypeOK
  <2>2. QED
    BY <2>1
<1>5. QED
  BY <1>1, <1>2, <1>3, <1>4 DEF SocketsInv

LEMMA DeleteAtMostDeletes ==
  ASSUME TypeOK, SocketsInv, NEW c \in clients, NEW S \in SUBSET clients,
         DeleteClient(c, S)
  PROVE  AtMostDeletes(c)
BY DeleteSockets DEF AtMostDeletes, sockets, SocketsInv

(* A client that stays, in whatever state. *)
LEMMA StaysAtMostDeletes ==
  ASSUME TypeOK, SocketsInv, NEW c \in clients, clients' = clients,
         UNCHANGED closingSockets
  PROVE  AtMostDeletes(c)
BY DEF AtMostDeletes, SocketsInv, sockets

LEMMA EnterAtMostDeletes ==
  ASSUME TypeOK, SocketsInv, NEW c \in clients, NEW s \in ConnState \ {"UNUSED"},
         Enter(c, s)
  PROVE  AtMostDeletes(c)
<1>1. clients' = clients /\ UNCHANGED closingSockets
  BY DEF Enter, clients, TypeOK
<1>2. QED
  BY <1>1, StaysAtMostDeletes

LEMMA QueryAtMostDeletes ==
  ASSUME TypeOK, SocketsInv, NEW c \in clients, QueryConnection(c)
  PROVE  AtMostDeletes(c)
<1>1. CASE AuthSuccess(c) \/ Enter(c, "QUERYING")
  BY <1>1, EnterAtMostDeletes DEF AuthSuccess, ConnState, AuthStates, Handshaking
<1>2. CASE AuthSuccessThrows(c)
  <2>1. clients' = clients \ {c} /\ UNCHANGED closingSockets
    BY <1>2 DEF AuthSuccessThrows, clients, TypeOK
  <2>2. ~desktopStarted'
    BY <1>2 DEF AuthSuccessThrows, StartThrows
  <2>3. QED
    BY <2>1, <2>2 DEF AtMostDeletes, SocketsInv, sockets
<1>3. CASE DeleteClient(c, {})
  BY <1>3, DeleteAtMostDeletes
<1>4. QED
  BY <1>1, <1>2, <1>3 DEF QueryConnection

LEMMA ClientInitAtMostDeletes ==
  ASSUME TypeOK, SocketsInv, NEW c \in clients, NEW flag \in BOOLEAN,
         ClientInitMsg(c, flag)
  PROVE  AtMostDeletes(c)
<1> DEFINE S == IF ~(~NeverShared /\ (AlwaysShared \/ flag)) /\ DisconnectClients
                THEN clients \ {c} ELSE {}
<1>1. S \in SUBSET clients
  OBVIOUS
<1>2. CASE DeleteClient(c, {}) \/ DeleteClient(c, S)
  BY <1>1, <1>2, DeleteAtMostDeletes
<1>3. CASE CloseAll({c}) /\ UNCHANGED closingSockets
  BY <1>3, ClosedClients, StaysAtMostDeletes DEF CloseAll
<1>4. CASE conn' = [Closed(S) EXCEPT ![c] = "NORMAL"] /\ UNCHANGED closingSockets
  <2>1. clients' = clients
    BY <1>1, <1>4 DEF clients, Closed, TypeOK
  <2>2. QED
    BY <1>4, <2>1, StaysAtMostDeletes
<1>5. QED
  BY <1>2, <1>3, <1>4 DEF ClientInitMsg

LEMMA EventAtMostDeletes ==
  ASSUME TypeOK, SocketsInv, NEW c \in Conn, ProcessSocketEvent(c)
  PROVE  AtMostDeletes(c)
<1>1. CASE ClosedSocketEvent(c)
  <2>1. /\ clients' = clients
        /\ closingSockets' = closingSockets \ {c}
        /\ desktopStarted' => desktopStarted
    BY <1>1 DEF ClosedSocketEvent, clients, StopIfUnused, StopDesktop, desktopVars
  <2>2. c \notin clients
    BY <1>1 DEF ClosedSocketEvent, SocketsInv
  <2>3. QED
    BY <2>1, <2>2 DEF AtMostDeletes, SocketsInv, sockets
<1>2. ASSUME ~ClosedSocketEvent(c) PROVE c \in clients
  BY <1>2 DEF ProcessSocketEvent, ClosedClientEvent, FailedEvent, ProcessMsg,
       VersionMsg, SecurityTypeMsg, SecurityMsg, ClientInitMsg, UpdateMsg, KeyMsg,
       BackTabMsg, PointerMsg, Handshaking, AuthStates, clients
<1>3. CASE c \in clients /\ (ClosedClientEvent(c) \/ FailedEvent(c))
  BY <1>3, DeleteAtMostDeletes DEF ClosedClientEvent, FailedEvent
<1>4. CASE c \in clients /\ (VersionMsg(c) \/ SecurityTypeMsg(c) \/ SecurityMsg(c))
  BY <1>4, QueryAtMostDeletes, EnterAtMostDeletes
     DEF VersionMsg, SecurityTypeMsg, SecurityMsg, ConnState, Handshaking
<1>5. CASE c \in clients /\ \E flag \in BOOLEAN : ClientInitMsg(c, flag)
  BY <1>5, ClientInitAtMostDeletes
<1>6. CASE /\ c \in clients
           /\ \/ UpdateMsg(c)
              \/ \E k \in Key, down \in BOOLEAN : KeyMsg(c, k, down)
              \/ \E down \in BOOLEAN : BackTabMsg(c, down)
              \/ \E pressed \in BOOLEAN : PointerMsg(c, pressed)
  <2>1. clients' = clients /\ UNCHANGED closingSockets
    BY <1>6 DEF UpdateMsg, KeyMsg, BackTabMsg, PointerMsg, connVars, clients
  <2>2. QED
    BY <1>6, <2>1, StaysAtMostDeletes
<1>7. QED
  BY <1>1, <1>2, <1>3, <1>4, <1>5, <1>6 DEF ProcessSocketEvent, ProcessMsg

(* Between two socket events nothing is deleted. *)
LEMMA OtherCallsKeepSockets ==
  ASSUME TypeOK, SocketsInv,
         CheckTimeouts \/ CloseClients \/ Broadcast \/ ScreenChanged \/ TryUpdate
  PROVE  UNCHANGED <<sockets, clients, desktopStarted>> /\ SocketsInv'
<1>1. PICK S \in SUBSET clients : CloseAll(S)
  BY DEF CheckTimeouts, CloseClients, Broadcast, ScreenChanged, TryUpdate,
         WriteUpdates, clients, InState, Authenticated, AuthStates
<1>2. clients' = clients
  BY <1>1, ClosedClients DEF CloseAll
<1>3. UNCHANGED <<closingSockets, desktopStarted>>
  BY DEF CheckTimeouts, CloseClients, Broadcast, ScreenChanged, TryUpdate,
         WriteUpdates, desktopVars
<1>4. QED
  BY <1>2, <1>3 DEF SocketsInv, sockets

LEMMA AddKeepsSocketsInv ==
  ASSUME TypeOK, SocketsInv, NEW c \in Conn, AddClient(c) \/ AddBlacklisted(c)
  PROVE  SocketsInv'
<1>1. c \notin sockets /\ UNCHANGED desktopStarted
  BY DEF AddClient, AddBlacklisted, desktopVars
<1>2. CASE AddClient(c)
  <2>1. clients' = clients \cup {c}
    BY <1>2 DEF AddClient, CloseAll, Closed, clients, TypeOK
  <2>2. QED
    BY <1>1, <1>2, <2>1 DEF AddClient, SocketsInv, sockets
<1>3. CASE AddBlacklisted(c)
  <2>1. clients' = clients /\ closingSockets' = closingSockets \cup {c}
    BY <1>3 DEF AddBlacklisted, clients
  <2>2. QED
    BY <1>1, <2>1 DEF SocketsInv, sockets
<1>4. QED
  BY <1>2, <1>3

(* Once every client is closed a socket event can only delete.             *)
LEMMA ClosedEventDeletes ==
  ASSUME TypeOK, SocketsInv, clients \subseteq InState("CLOSING"),
         NEW c \in Conn, ProcessSocketEvent(c)
  PROVE  sockets' = sockets \ {c} /\ clients' \subseteq InState("CLOSING")'
<1>1. ClosedSocketEvent(c) \/ ClosedClientEvent(c)
  BY DEF ProcessSocketEvent, FailedEvent, ProcessMsg, VersionMsg, SecurityTypeMsg,
         SecurityMsg, ClientInitMsg, UpdateMsg, KeyMsg, BackTabMsg, PointerMsg,
         Handshaking, AuthStates, clients, InState
<1>2. CASE ClosedSocketEvent(c)
  BY <1>2 DEF ClosedSocketEvent, SocketsInv, sockets, clients, InState
<1>3. CASE ClosedClientEvent(c)
  <2>1. c \in clients /\ DeleteClient(c, {})
    BY <1>3 DEF ClosedClientEvent, clients
  <2>2. sockets' = sockets \ {c} /\ clients' = clients \ {c}
    BY <2>1, DeleteSockets DEF sockets, SocketsInv
  <2>3. \A d \in clients' : conn'[d] = conn[d]
    BY <2>1, <2>2 DEF DeleteClient, Closed, TypeOK, clients
  <2>4. QED
    BY <2>2, <2>3 DEF InState, clients
<1>4. QED
  BY <1>1, <1>2, <1>3


-----------------------------------------------------------------------------
(* The passes                                                              *)

(* Messages that wait or are taken while nothing of a pass is under way.   *)
LEMMA QueueStep ==
  ASSUME IInv, TypeOK,
         TimePasses \/ Pulse \/ RestartSucceeds \/ RestartFails \/ PollSelectFails
  PROVE  IInv'
<1> USE DEF IInv
<1>1. UNCHANGED <<sockets, SocketsInv, desktopStarted>> /\ phase' = phase /\ phase = "IDLE"
  BY DEF TimePasses, Pulse, RestartSucceeds, RestartFails, PollSelectFails, TakePoll,
         NetworkFails, vars, connVars, desktopVars, sockets, clients, SocketsInv
<1>2. MainTypeOK'
  <2>1. polls' \in 0..MaxPolls
    BY MaxPollsAssumption
       DEF MainTypeOK, TimePasses, Pulse, RestartSucceeds, RestartFails,
           PollSelectFails, TakePoll
  <2>2. QED
    BY <2>1 DEF MainTypeOK, Phases, TimePasses, Pulse, RestartSucceeds, RestartFails,
                PollSelectFails, TakePoll, NetworkFails
<1>3. ready' = {}
  BY <1>1 DEF TimePasses, Pulse, RestartSucceeds, RestartFails, PollSelectFails,
              NetworkFails, ReadyInv
<1>4. netState' = "NET_RESTARTING" => netState = "NET_RESTARTING" /\ listener' = listener
  BY DEF TimePasses, Pulse, RestartSucceeds, RestartFails, PollSelectFails,
         NetworkFails, ShutDownIsComplete
<1>5. QED
  BY <1>1, <1>2, <1>3, <1>4 DEF ReadyInv, PassInv, Passing, ShutDownIsComplete

LEMMA ShutDownStep ==
  ASSUME IInv, TypeOK, QuitRequested \/ PollWentDown PROVE IInv'
<1> USE DEF IInv
<1>1. phase' = "SHUTDOWN" /\ CloseClients /\ ready' = sockets
      /\ UNCHANGED <<netState, listener>>
  BY DEF QuitRequested, PollWentDown, StartShutDown
<1>2. UNCHANGED <<sockets, clients, desktopStarted>> /\ SocketsInv'
  BY <1>1, OtherCallsKeepSockets
<1>3. clients' \subseteq InState("CLOSING")'
  BY <1>1, <1>2 DEF CloseClients, CloseAll, Closed, clients, InState
<1>4. MainTypeOK'
  <2>1. polls' \in 0..MaxPolls
    BY MaxPollsAssumption DEF QuitRequested, PollWentDown, TakePoll, MainTypeOK
  <2>2. sockets \subseteq Conn
    BY DEF sockets, clients, TypeOK
  <2>3. QED
    BY <1>1, <2>1, <2>2
       DEF QuitRequested, PollWentDown, TakePoll, MainTypeOK, Phases
<1>5. QED
  BY <1>1, <1>2, <1>3, <1>4 DEF ReadyInv, PassInv, Passing, ShutDownIsComplete

LEMMA SocketStep ==
  ASSUME IInv, TypeOK, NEW c \in Conn, PollSocket(c) PROVE IInv'
<1> USE DEF IInv
<1>1. AtMostDeletes(c)
  <2>1. CASE ProcessSocketEvent(c)
    BY <2>1, EventAtMostDeletes
  <2>2. CASE UNCHANGED vars
    BY <2>2 DEF AtMostDeletes, vars, connVars, desktopVars, sockets, clients, SocketsInv
  <2>3. QED
    BY <2>1, <2>2 DEF PollSocket
<1>2. MainTypeOK'
  BY DEF PollSocket, MainTypeOK
<1>3. phase = "SOCKETS" /\ ready' = ready \ {c}
      /\ UNCHANGED <<netState, listener, phase, polls>>
  BY DEF PollSocket
<1>4. QED
  BY <1>1, <1>2, <1>3 DEF AtMostDeletes, ReadyInv, PassInv, Passing, ShutDownIsComplete

LEMMA ShutDownSocketStep ==
  ASSUME IInv, TypeOK, NEW c \in Conn, ShutDownSocket(c) PROVE IInv'
<1> USE DEF IInv
<1>1. phase = "SHUTDOWN" /\ ready' = ready \ {c} /\ ProcessSocketEvent(c) /\ c \in ready
      /\ UNCHANGED <<netState, listener, phase, polls>>
  BY DEF ShutDownSocket
<1>2. SocketsInv' /\ sockets' = sockets \ {c} /\ clients' \subseteq InState("CLOSING")'
  BY <1>1, EventAtMostDeletes, ClosedEventDeletes DEF AtMostDeletes, ReadyInv
<1>3. MainTypeOK'
  BY DEF ShutDownSocket, MainTypeOK
<1>4. netState # "NET_RESTARTING"
  BY <1>1 DEF ReadyInv, ShutDownIsComplete
<1>5. QED
  BY <1>1, <1>2, <1>3, <1>4 DEF ReadyInv, PassInv, Passing, ShutDownIsComplete

(* All sockets were processed, and the last one stopped the desktop.       *)
LEMMA ShutDownDoneStep ==
  ASSUME IInv, TypeOK, ShutDownDone PROVE IInv'
<1> USE DEF IInv
<1>1. sockets = {} /\ clients = {} /\ ~desktopStarted
  BY DEF ShutDownDone, ReadyInv, SocketsInv, sockets
<1>2. UNCHANGED <<sockets, clients, SocketsInv, desktopStarted>>
  BY DEF ShutDownDone, vars, connVars, desktopVars, sockets, clients, SocketsInv
<1>3. MainTypeOK'
  BY DEF ShutDownDone, MainTypeOK, Phases
<1>4. QED
  BY <1>1, <1>2, <1>3
     DEF ShutDownDone, ReadyInv, PassInv, Passing, ShutDownIsComplete

(* A pass goes on, while the network is up.                                *)
LEMMA PassStep ==
  ASSUME IInv, TypeOK,
         \/ PollSelect \/ PollSocketsDone \/ PollAccept \/ PollTimeouts
         \/ PollUpdate \/ PollFails
  PROVE  IInv'
<1> USE DEF IInv
<1>1. netState = "NET_UP" /\ phase # "GONE" /\ phase # "SHUTDOWN"
  BY DEF PollSelect, PollSocketsDone, PollAccept, PollTimeouts, PollUpdate, PollFails,
         Advance, TakePoll, PassInv, Passing
<1>2. SocketsInv'
  <2>1. CASE UNCHANGED vars
    BY <2>1 DEF vars, connVars, desktopVars, sockets, clients, SocketsInv
  <2>2. CASE \E c \in Conn : AddClient(c) \/ AddBlacklisted(c)
    BY <2>2, AddKeepsSocketsInv
  <2>3. CASE CheckTimeouts \/ ScreenChanged \/ TryUpdate
    BY <2>3, OtherCallsKeepSockets
  <2>4. QED
    BY <2>1, <2>2, <2>3
       DEF PollSelect, PollSocketsDone, PollAccept, PollTimeouts, PollUpdate, PollFails
<1>3. MainTypeOK' /\ PassInv'
  <2>1. /\ polls' \in 0..MaxPolls
        /\ phase' \in Passing => polls' < MaxPolls
    BY MaxPollsAssumption
       DEF PollSelect, PollSocketsDone, PollAccept, PollTimeouts, PollUpdate, PollFails,
           NetworkFails, Advance, TakePoll, MainTypeOK, PassInv, Passing
  <2>2. ready' \subseteq Conn
    <3>1. sockets \subseteq Conn
      BY DEF sockets, clients, TypeOK
    <3>2. QED
      BY <3>1 DEF PollSelect, PollSocketsDone, PollAccept, PollTimeouts, PollUpdate,
                  PollFails, NetworkFails, Advance, MainTypeOK
  <2>3. phase' \in Passing => netState' = "NET_UP"
    BY <1>1 DEF PollSelect, PollSocketsDone, PollAccept, PollTimeouts, PollUpdate,
                PollFails, NetworkFails, Advance, Passing
  <2>4. QED
    BY <2>1, <2>2, <2>3
       DEF PollSelect, PollSocketsDone, PollAccept, PollTimeouts, PollUpdate, PollFails,
           NetworkFails, Advance, TakePoll, MainTypeOK, Phases, PassInv
<1>4. netState' # "NET_RESTARTING" /\ phase' \notin {"GONE", "SHUTDOWN"}
  BY <1>1 DEF PollSelect, PollSocketsDone, PollAccept, PollTimeouts, PollUpdate,
              PollFails, NetworkFails, Advance
<1>5. ReadyInv'
  <2>1. CASE PollSelect
    BY <2>1 DEF PollSelect, ReadyInv, vars, connVars, sockets, clients
  <2>2. CASE ~PollSelect
    BY <2>2 DEF PollSocketsDone, PollAccept, PollTimeouts, PollUpdate, PollFails,
                NetworkFails, Advance, ReadyInv
  <2>3. QED
    BY <2>1, <2>2
<1>6. QED
  BY <1>2, <1>3, <1>4, <1>5 DEF ShutDownIsComplete

LEMMA IInvStep == IInv /\ TypeOK /\ [MainNext]_allVars => IInv'
<1> SUFFICES ASSUME IInv, TypeOK, [MainNext]_allVars PROVE IInv'
  OBVIOUS
<1>1. CASE PollSteps
  BY <1>1, PassStep, ShutDownStep, SocketStep, ShutDownSocketStep, ShutDownDoneStep
     DEF PollSteps
<1>2. CASE TimePasses \/ Pulse \/ RestartSucceeds \/ RestartFails \/ PollSelectFails
  BY <1>2, QueueStep
<1>3. CASE PollFails \/ QuitRequested
  BY <1>3, PassStep, ShutDownStep
<1>4. CASE ClipboardChanged
  <2>1. UNCHANGED <<sockets, clients, desktopStarted, mainVars>> /\ SocketsInv'
    BY <1>4, OtherCallsKeepSockets DEF ClipboardChanged, IInv
  <2>2. phase = "IDLE"
    BY <1>4 DEF ClipboardChanged
  <2>3. QED
    BY <2>1, <2>2
       DEF IInv, mainVars, MainTypeOK, ReadyInv, PassInv, Passing, ShutDownIsComplete
<1>5. CASE UNCHANGED allVars
  BY <1>5 DEF allVars, mainVars, vars, connVars, desktopVars, sockets, clients, InState,
              IInv, MainTypeOK, SocketsInv, ReadyInv, PassInv, ShutDownIsComplete
<1>6. QED
  BY <1>1, <1>2, <1>3, <1>4, <1>5 DEF MainNext, Gone

LEMMA IInvInit == MainInit => IInv
<1> SUFFICES ASSUME MainInit PROVE IInv
  OBVIOUS
<1>1. sockets = {} /\ clients = {} /\ desktopStarted = FALSE
  BY DEF MainInit, Init, sockets, clients
<1>2. MainTypeOK
  <2>1. 0 \in 0..MaxPolls
    BY MaxPollsAssumption
  <2>2. QED
    BY <2>1 DEF MainInit, MainTypeOK, Phases
<1>3. SocketsInv /\ ReadyInv /\ PassInv /\ ShutDownIsComplete
  BY <1>1 DEF MainInit, SocketsInv, ReadyInv, PassInv, Passing, ShutDownIsComplete
<1>4. QED
  BY <1>2, <1>3 DEF IInv

LEMMA IInvariant == MainSpec => []IInv
<1>1. MainSpec => []TypeOK
  BY ThreadCallsServer, TypeCorrect, PTL
<1>2. QED
  BY <1>1, IInvInit, IInvStep, PTL DEF MainSpec

(* The thread's variables keep their types: in particular a pass finds     *)
(* room in the queue for the message that starts the next one.             *)
THEOREM MainTypeCorrect == MainSpec => []MainTypeOK
BY IInvariant, PTL DEF IInv

(* PollNetwork() never processes a socket that is deleted, though each of  *)
(* those before it may have closed any number of clients; and when the     *)
(* network is to be restarted, or the program ends, every socket is gone   *)
(* and the desktop is stopped.                                             *)
THEOREM NoSocketForgotten == MainSpec => []SocketsAreAccountedFor
<1>1. IInv => SocketsAreAccountedFor
  BY DEF IInv, ReadyInv, SocketsAreAccountedFor, ReadyNotDeleted
<1>2. QED
  BY <1>1, IInvariant, PTL

-----------------------------------------------------------------------------
(* The trackers and the client's picture (UpdateTracker in MCVNCServerST). *)

(* A tracker only copies what is on the screen. *)
Sound(t) == t \in T!Tracker /\ \A x \in t.copied : x - t.delta \in T!Cell

(* The contents of a cell could be what t makes of v. *)
Covers(image, t, v) == \A x \in T!Cell : image[x] \in T!Applied(t, v)[x]

With(t, ch, co, d) == [t EXCEPT !.changed = ch, !.copied = co, !.delta = d]

LEMMA NewTracker ==
  ASSUME NEW t \in T!Tracker, NEW ch \in SUBSET T!Cell, NEW co \in SUBSET T!Cell,
         NEW d \in (1 - Size) .. (Size - 1)
  PROVE  LET n == With(t, ch, co, d)
         IN  n \in T!Tracker /\ n.changed = ch /\ n.copied = co /\ n.delta = d
BY DEF T!Tracker, With

LEMMA AddChanged ==
  ASSUME NEW t, Sound(t), NEW r \in SUBSET T!Cell
  PROVE  LET n == T!add_changed(t, r)
         IN  Sound(n) /\ n.changed = t.changed \cup r /\ n.copied = t.copied /\ n.delta = t.delta
<1> DEFINE n == T!add_changed(t, r)
<1>1. t \in T!Tracker /\ t.changed \cup r \in SUBSET T!Cell
  BY DEF Sound, T!Tracker
<1>2. n \in T!Tracker /\ n.changed = t.changed \cup r /\ n.copied = t.copied /\ n.delta = t.delta
  BY <1>1 DEF T!Tracker, T!add_changed
<1> HIDE DEF n
<1>3. QED BY <1>2 DEF Sound, n

(* What is added to the changes takes nothing away. *)
LEMMA AddChangedCovers ==
  ASSUME NEW t, Sound(t), NEW r \in SUBSET T!Cell, NEW v, NEW x \in T!Cell, NEW p \in Pixel,
         x \in r \/ p \in T!Applied(t, v)[x]
  PROVE  p \in T!Applied(T!add_changed(t, r), v)[x]
BY AddChanged DEF T!Applied

LEMMA ShiftedBack ==
  ASSUME NEW r \in SUBSET Int, NEW d \in Int, NEW x \in Int
  PROVE  /\ x \in T!Shift(r, d) <=> x - d \in r
         /\ x \in T!Shift(r, -d) <=> x + d \in r
<1>1. ASSUME NEW e \in Int PROVE x \in T!Shift(r, e) <=> x - e \in r
  <2>1. ASSUME NEW y \in r PROVE x = y + e <=> y = x - e
    BY <1>1
  <2>2. QED BY <2>1 DEF T!Shift
<1>2. -d \in Int /\ x - (-d) = x + d
  OBVIOUS
<1>3. QED BY <1>1, <1>2

(* A copy of cells that are on the screen moves what the tracker says      *)
(* along with them.                                                        *)
LEMMA NewCopyCovers ==
  ASSUME NEW t, Sound(t), NEW dest \in SUBSET T!Cell, dest # {}, NEW d \in Int,
         \A x \in dest : x - d \in T!Cell, T!Shift(dest, -d) \cap t.copied = {}
  PROVE  /\ Sound(T!NewCopy(t, dest, d))
         /\ \A v : \A x \in T!Cell, p \in Pixel :
              p \in (IF x \in dest THEN T!Applied(t, v)[x - d] ELSE T!Applied(t, v)[x])
                => p \in T!Applied(T!NewCopy(t, dest, d), v)[x]
<1> DEFINE stale == T!Shift(T!Shift(dest, -d) \cap t.changed, d)
<1>0. T!Cell \subseteq Int /\ t.changed \subseteq T!Cell /\ t.copied \subseteq T!Cell /\ Size \in Nat
  BY TrackersAssumption DEF T!Cell, Sound, T!Tracker
<1>1. ASSUME NEW x \in Int PROVE x \in stale <=> x \in dest /\ x - d \in t.changed
  <2>1. T!Shift(dest, -d) \subseteq Int
    BY <1>0 DEF T!Shift
  <2>2. x \in stale <=> x - d \in T!Shift(dest, -d) \cap t.changed
    BY <2>1, <1>1, ShiftedBack
  <2>3. x - d \in T!Shift(dest, -d) <=> x - d + d \in dest
    <3>1. x - d \in Int
      BY <1>1
    <3>2. QED BY <3>1, <1>0, ShiftedBack
  <2>4. x - d + d = x
    BY <1>1
  <2>5. QED BY <2>2, <2>3, <2>4
<1>2. stale \subseteq dest
  <2>1. stale \subseteq Int
    BY <1>0 DEF T!Shift
  <2>2. QED BY <2>1, <1>1
<1>3. d \in (1 - Size) .. (Size - 1)
  <2>1. PICK x \in dest : TRUE
    OBVIOUS
  <2>2. x \in 0 .. Size - 1 /\ x - d \in 0 .. Size - 1
    BY <2>1 DEF T!Cell
  <2>3. QED BY <2>2, <1>0
<1>4. CASE T!Extent(t.copied) > T!Extent(dest)
  <2>1. T!NewCopy(t, dest, d) = T!add_changed(t, dest)
    BY <1>4 DEF T!NewCopy
  <2>2. QED BY <2>1, AddChanged, AddChangedCovers
<1>5. CASE ~(T!Extent(t.copied) > T!Extent(dest))
  <2> DEFINE new == T!NewCopy(t, dest, d)
  <2> HIDE DEF stale
  <2>1. new \in T!Tracker /\ new.changed = t.changed \cup stale \cup t.copied /\ new.copied = dest
        /\ new.delta = d
    <3>1. new = [t EXCEPT !.changed = t.changed \cup stale \cup t.copied, !.copied = dest, !.delta = d]
      BY <1>5 DEF T!NewCopy, stale
    <3>2. t.changed \cup stale \cup t.copied \in SUBSET T!Cell /\ t \in T!Tracker
      BY <1>0, <1>2 DEF Sound
    <3> DEFINE ch == t.changed \cup stale \cup t.copied
    <3> HIDE DEF new, ch
    <3>3. QED
      <4>1. new = With(t, ch, dest, d) /\ ch \in SUBSET T!Cell
        BY <3>1, <3>2 DEF ch, With
      <4>2. new \in T!Tracker /\ new.changed = ch /\ new.copied = dest /\ new.delta = d
        BY <4>1, <3>2, <1>3, NewTracker
      <4>3. QED BY <4>2 DEF ch
  <2> HIDE DEF new
  <2>2. Sound(new)
    BY <2>1 DEF Sound
  <2>3. ASSUME NEW v, NEW x \in T!Cell, NEW p \in Pixel,
               p \in (IF x \in dest THEN T!Applied(t, v)[x - d] ELSE T!Applied(t, v)[x])
        PROVE  p \in T!Applied(new, v)[x]
    <3>1. T!Applied(new, v)[x] = IF x \in t.changed \cup stale \cup t.copied THEN Pixel
                               ELSE IF x \in dest THEN v[x - d] ELSE v[x]
      BY <2>1 DEF T!Applied
    <3>2. CASE x \notin dest
      BY <2>3, <3>1, <3>2 DEF T!Applied
    <3>3. CASE x \in dest
      <4>1. x - d \in T!Cell /\ x - d \notin t.copied
        <5>1. x - d \in T!Shift(dest, -d)
          <6>1. x - d \in Int /\ x - d + d = x
            BY <1>0
          <6>2. QED BY <6>1, <1>0, <3>3, ShiftedBack
        <5>2. QED BY <5>1, <3>3
      <4>2. p \in T!Applied(t, v)[x - d]
        BY <2>3, <3>3
      <4>3. x \in stale \/ p \in v[x - d]
        BY <4>1, <4>2, <1>0, <1>1, <3>3 DEF T!Applied
      <4>4. QED BY <4>3, <3>1, <3>3
    <3>4. QED BY <3>2, <3>3
  <2>4. QED BY <2>2, <2>3 DEF new
<1>6. QED BY <1>4, <1>5

LEMMA ContinuedCopyCovers ==
  ASSUME NEW t, Sound(t), NEW dest \in SUBSET T!Cell, NEW d \in Int, \A x \in dest : x - d \in T!Cell,
         NEW overlap, overlap = T!Shift(dest, -d) \cap t.copied, overlap # {}
  PROVE  /\ Sound(T!ContinuedCopy(t, dest, d, overlap))
         /\ \A v : \A x \in T!Cell, p \in Pixel :
              p \in (IF x \in dest THEN T!Applied(t, v)[x - d] ELSE T!Applied(t, v)[x])
                => p \in T!Applied(T!ContinuedCopy(t, dest, d, overlap), v)[x]
<1> DEFINE all == T!Shift(overlap, d)
           stale == T!Shift(overlap \cap t.changed, d)
           rest == (dest \cup t.copied) \ all
           ch == t.changed \cup stale \cup rest
           far == t.delta + d
           new == T!ContinuedCopy(t, dest, d, overlap)
<1>0. /\ T!Cell \subseteq Int /\ t.changed \subseteq T!Cell /\ t.copied \subseteq T!Cell /\ Size \in Nat
      /\ t.delta \in Int /\ overlap \subseteq T!Cell /\ t \in T!Tracker
  BY TrackersAssumption DEF T!Cell, Sound, T!Tracker
<1>1. ASSUME NEW x \in Int
      PROVE  /\ x \in all <=> x \in dest /\ x - d \in t.copied
             /\ x \in stale <=> x \in dest /\ x - d \in t.copied /\ x - d \in t.changed
  <2>1. x - d \in Int /\ x - d + d = x
    BY <1>1
  <2>2. x - d \in T!Shift(dest, -d) <=> x \in dest
    BY <2>1, <1>0, ShiftedBack
  <2>3. overlap \in SUBSET Int /\ overlap \cap t.changed \in SUBSET Int
    BY <1>0
  <2>4. (x \in all <=> x - d \in overlap) /\ (x \in stale <=> x - d \in overlap \cap t.changed)
    BY <2>3, <1>1, ShiftedBack
  <2>5. QED BY <2>2, <2>4
<1>2. all \subseteq dest /\ stale \subseteq dest
  <2>1. all \subseteq Int /\ stale \subseteq Int
    BY <1>0 DEF T!Shift
  <2>2. QED BY <2>1, <1>1
<1>3. \A x \in all : x - far = (x - d) - t.delta /\ x - far \in T!Cell
  <2> SUFFICES ASSUME NEW x \in all PROVE x - far = (x - d) - t.delta /\ x - far \in T!Cell
    OBVIOUS
  <2>1. x \in Int /\ x - d \in t.copied
    BY <1>0, <1>1, <1>2
  <2>2. x - far = (x - d) - t.delta
    BY <2>1, <1>0
  <2>3. QED BY <2>1, <2>2 DEF Sound
<1>4. far \in (1 - Size) .. (Size - 1)
  <2>1. PICK x \in overlap : TRUE
    OBVIOUS
  <2>2. x \in Int /\ x \in T!Shift(dest, -d) /\ x \in t.copied
    BY <1>0
  <2>3. x + d \in dest
    BY <2>2, <1>0, ShiftedBack
  <2>4. x + d \in T!Cell /\ x + d \in all
    <3>1. x + d \in Int /\ (x + d) - d = x
      BY <2>2
    <3>2. QED BY <3>1, <2>2, <2>3, <1>1
  <2>5. (x + d) - far \in T!Cell
    BY <2>4, <1>3
  <2>6. ASSUME NEW y \in 0 .. Size - 1, y - far \in 0 .. Size - 1 PROVE far \in (1 - Size) .. (Size - 1)
    <3>1. far \in Int
      BY <1>0
    <3> HIDE DEF far
    <3>2. QED BY <3>1, <2>6, <1>0
  <2>7. QED BY <2>4, <2>5, <2>6 DEF T!Cell
<1>5. new \in T!Tracker /\ new.changed = ch /\ new.copied = all /\ new.delta = far
  <2>1. new = With(t, ch, all, far)
    BY DEF T!ContinuedCopy, With
  <2>2. ch \in SUBSET T!Cell /\ all \in SUBSET T!Cell
    BY <1>0, <1>2
  <2> HIDE DEF new, ch, all, far
  <2>3. QED BY <2>1, <2>2, <1>0, <1>4, NewTracker
<1> HIDE DEF all, stale, far, new
<1>6. Sound(new)
  BY <1>3, <1>5 DEF Sound
<1>7. ASSUME NEW v, NEW x \in T!Cell, NEW p \in Pixel,
             p \in (IF x \in dest THEN T!Applied(t, v)[x - d] ELSE T!Applied(t, v)[x])
      PROVE  p \in T!Applied(new, v)[x]
  <2>1. T!Applied(new, v)[x] = IF x \in ch THEN Pixel ELSE IF x \in all THEN v[x - far] ELSE v[x]
    BY <1>5 DEF T!Applied
  <2>2. CASE x \in ch
    BY <2>1, <2>2
  <2>3. CASE x \notin ch /\ x \in all
    <3>1. x \in dest /\ x - d \in t.copied /\ x - d \notin t.changed
      BY <2>3, <1>0, <1>1
    <3>2. T!Applied(t, v)[x - d] = v[(x - d) - t.delta]
      BY <3>1, <1>0 DEF T!Applied
    <3>3. QED BY <3>1, <3>2, <2>1, <2>3, <1>7, <1>3
  <2>4. CASE x \notin ch /\ x \notin all
    <3>1. x \notin dest /\ x \notin t.copied /\ x \notin t.changed
      BY <2>4
    <3>2. QED BY <3>1, <2>1, <2>4, <1>7 DEF T!Applied
  <2>5. QED BY <2>2, <2>3, <2>4
<1>8. QED BY <1>6, <1>7 DEF new

LEMMA AddCopied ==
  ASSUME NEW t, Sound(t), NEW dest \in SUBSET T!Cell, NEW d \in Int, \A x \in dest : x - d \in T!Cell
  PROVE  /\ Sound(T!add_copied(t, dest, d))
         /\ \A v : \A x \in T!Cell, p \in Pixel :
              p \in (IF x \in dest THEN T!Applied(t, v)[x - d] ELSE T!Applied(t, v)[x])
                => p \in T!Applied(T!add_copied(t, dest, d), v)[x]
<1> DEFINE overlap == T!Shift(dest, -d) \cap t.copied
<1>1. CASE ~t.copyEnabled
  <2>1. T!add_copied(t, dest, d) = T!add_changed(t, dest)
    BY <1>1 DEF T!add_copied
  <2>2. QED BY <2>1, AddChanged, AddChangedCovers
<1>2. CASE t.copyEnabled /\ dest = {}
  BY <1>2 DEF T!add_copied
<1>3. CASE t.copyEnabled /\ dest # {} /\ overlap = {}
  <2>1. T!add_copied(t, dest, d) = T!NewCopy(t, dest, d)
    BY <1>3 DEF T!add_copied
  <2>2. QED BY <2>1, <1>3, NewCopyCovers
<1>4. CASE t.copyEnabled /\ dest # {} /\ overlap # {}
  <2>1. T!add_copied(t, dest, d) = T!ContinuedCopy(t, dest, d, overlap)
    BY <1>4 DEF T!add_copied
  <2>2. overlap = T!Shift(dest, -d) \cap t.copied
    OBVIOUS
  <2> HIDE DEF overlap
  <2>3. /\ Sound(T!ContinuedCopy(t, dest, d, overlap))
        /\ \A v : \A x \in T!Cell, p \in Pixel :
              p \in (IF x \in dest THEN T!Applied(t, v)[x - d] ELSE T!Applied(t, v)[x])
                => p \in T!Applied(T!ContinuedCopy(t, dest, d, overlap), v)[x]
    BY <2>2, <1>4, ContinuedCopyCovers
  <2>4. QED BY <2>1, <2>3
<1>5. QED BY <1>1, <1>2, <1>3, <1>4

(* From outside the screen nothing comes: that has changed. *)
LEMMA AddCopiedClipped ==
  ASSUME NEW t, Sound(t), NEW dest \in SUBSET T!Cell, NEW d \in Int
  PROVE  /\ Sound(T!add_copied_clipped(t, dest, d))
         /\ \A v : \A x \in T!Cell, p \in Pixel :
              \/ x \in dest /\ x - d \notin T!Cell
              \/ p \in (IF x \in dest THEN T!Applied(t, v)[x - d] ELSE T!Applied(t, v)[x])
              => p \in T!Applied(T!add_copied_clipped(t, dest, d), v)[x]
<1> DEFINE clipdest == dest \cap T!Cell
           inside == T!Shift(T!Shift(clipdest, -d) \cap T!Cell, d)
           copying == IF inside = {} THEN t ELSE T!add_copied(t, inside, d)
<1>0. T!Cell \subseteq Int /\ clipdest = dest /\ -d \in Int
  <2>1. T!Cell \subseteq Int
    BY TrackersAssumption DEF T!Cell
  <2>2. clipdest = dest
    OBVIOUS
  <2>3. -d \in Int
    OBVIOUS
  <2>4. QED BY <2>1, <2>2, <2>3
<1>1. inside \subseteq dest /\ \A x \in dest : x \in inside <=> x - d \in T!Cell
  <2>1. inside \subseteq Int /\ T!Shift(clipdest, -d) \subseteq Int
    <3>1. ASSUME NEW r \in SUBSET Int, NEW e \in Int PROVE T!Shift(r, e) \subseteq Int
      BY DEF T!Shift
    <3>2. clipdest \in SUBSET Int /\ T!Shift(clipdest, -d) \cap T!Cell \in SUBSET Int
      BY <1>0
    <3>3. T!Shift(clipdest, -d) \subseteq Int /\ inside \subseteq Int
      <4> DEFINE from == T!Shift(clipdest, -d)
                 source == from \cap T!Cell
                 back == -d
      <4> HIDE DEF clipdest, from, source, back
      <4>1. back \in Int /\ clipdest \in SUBSET Int /\ source \in SUBSET Int
        BY <3>2, <1>0 DEF back, source, from
      <4>2. T!Shift(clipdest, back) \subseteq Int /\ T!Shift(source, d) \subseteq Int
        BY <4>1, <3>1
      <4>3. QED BY <4>2 DEF source, from, back
    <3>4. QED BY <3>3
  <2>2. ASSUME NEW x \in Int PROVE x \in inside <=> x \in dest /\ x - d \in T!Cell
    <3>1. x \in inside <=> x - d \in T!Shift(clipdest, -d) \cap T!Cell
      BY <2>1, ShiftedBack
    <3>2. x - d \in Int /\ x - d + d = x
      OBVIOUS
    <3>3. x - d \in T!Shift(clipdest, -d) <=> x - d + d \in clipdest
      BY <3>2, <1>0, ShiftedBack
    <3>4. QED BY <3>1, <3>2, <3>3, <1>0
  <2> HIDE DEF inside
  <2>3. QED BY <2>1, <2>2, <1>0
<1>2. T!add_copied_clipped(t, dest, d) = T!add_changed(copying, clipdest \ inside)
  BY DEF T!add_copied_clipped
<1> HIDE DEF inside, clipdest
<1>3. /\ Sound(copying)
      /\ \A v : \A x \in T!Cell, p \in Pixel :
           p \in (IF x \in inside THEN T!Applied(t, v)[x - d] ELSE T!Applied(t, v)[x])
             => p \in T!Applied(copying, v)[x]
  <2>1. CASE inside = {}
    BY <2>1
  <2>2. CASE inside # {}
    <3>1. inside \in SUBSET T!Cell /\ \A x \in inside : x - d \in T!Cell
      BY <1>1
    <3>2. QED BY <3>1, <2>2, AddCopied
  <2>3. QED BY <2>1, <2>2
<1> HIDE DEF copying
<1>4. clipdest \ inside \in SUBSET T!Cell
  BY <1>0
<1>5. Sound(T!add_changed(copying, clipdest \ inside))
  BY <1>3, <1>4, AddChanged
<1>6. ASSUME NEW v, NEW x \in T!Cell, NEW p \in Pixel,
             \/ x \in dest /\ x - d \notin T!Cell
             \/ p \in (IF x \in dest THEN T!Applied(t, v)[x - d] ELSE T!Applied(t, v)[x])
      PROVE  p \in T!Applied(T!add_changed(copying, clipdest \ inside), v)[x]
  <2>1. x \in clipdest \ inside \/ p \in T!Applied(copying, v)[x]
    BY <1>0, <1>1, <1>3, <1>6
  <2>2. QED BY <2>1, <1>3, <1>4, AddChangedCovers
<1>7. QED BY <1>2, <1>5, <1>6

(* What is no longer copied has changed. *)
Narrows(n, t) ==
  /\ n \in T!Tracker /\ n.delta = t.delta
  /\ t.changed \subseteq n.changed
  /\ n.copied \subseteq t.copied
  /\ t.copied \ n.copied \subseteq n.changed

LEMMA NarrowsCovers ==
  ASSUME NEW t, Sound(t), NEW n, Narrows(n, t)
  PROVE  /\ Sound(n)
         /\ \A v : \A x \in T!Cell, p \in Pixel :
                   p \in T!Applied(t, v)[x] => p \in T!Applied(n, v)[x]
<1>1. Sound(n)
  BY DEF Narrows, Sound
<1>2. ASSUME NEW v, NEW x \in T!Cell, NEW p \in Pixel, p \in T!Applied(t, v)[x] PROVE p \in T!Applied(n, v)[x]
  BY <1>2 DEF Narrows, T!Applied
<1>3. QED BY <1>1, <1>2

LEMMA Enabled ==
  ASSUME NEW t, Sound(t), NEW enable \in BOOLEAN
  PROVE  Narrows(T!get_update(T!enable_copyrect(t, enable)), t)
         /\ LET n == T!get_update(T!enable_copyrect(t, enable)) IN n.copied \cap n.changed = {}
<1> DEFINE e == T!enable_copyrect(t, enable)
<1>1. t \in T!Tracker
  BY DEF Sound
<1>2. Narrows(e, t)
  <2>1. CASE ~enable /\ t.copyEnabled
    <3>1. e = [t EXCEPT !.changed = t.changed \cup t.copied, !.copied = {}, !.copyEnabled = FALSE]
      BY <2>1 DEF T!enable_copyrect
    <3>2. t.changed \cup t.copied \in SUBSET T!Cell
      BY <1>1 DEF T!Tracker
    <3> HIDE DEF e
    <3>3. QED BY <3>1, <3>2, <1>1 DEF T!Tracker, Narrows
  <2>2. CASE ~(~enable /\ t.copyEnabled)
    <3>1. e = [t EXCEPT !.copyEnabled = enable]
      BY <2>2 DEF T!enable_copyrect
    <3> HIDE DEF e
    <3>2. QED BY <3>1, <1>1 DEF T!Tracker, Narrows
  <2>3. QED BY <2>1, <2>2
<1> DEFINE n == T!get_update(e)
<1> HIDE DEF e
<1>3. n = [e EXCEPT !.copied = e.copied \ e.changed] /\ e \in T!Tracker
  BY <1>2 DEF T!get_update, Narrows
<1> HIDE DEF n
<1>4. n \in T!Tracker /\ n.changed = e.changed /\ n.copied = e.copied \ e.changed /\ n.delta = e.delta
  BY <1>3 DEF T!Tracker
<1>5. Narrows(n, t)
  BY <1>2, <1>4 DEF Narrows
<1>6. QED BY <1>4, <1>5 DEF n, e

LEMMA Subtracted ==
  ASSUME NEW t, Sound(t), NEW r
  PROVE  LET n == T!subtract(t, r)
         IN  Sound(n) /\ n.changed = t.changed \ r /\ n.copied = t.copied \ r /\ n.delta = t.delta
<1> DEFINE n == T!subtract(t, r)
           ch == t.changed \ r
           co == t.copied \ r
<1>1. n = [t EXCEPT !.changed = ch, !.copied = co] /\ t \in T!Tracker
  BY DEF Sound, T!subtract
<1>2. ch \in SUBSET T!Cell /\ co \in SUBSET T!Cell /\ co \subseteq t.copied
  BY <1>1 DEF T!Tracker
<1> HIDE DEF n, ch, co
<1>3. n \in T!Tracker /\ n.changed = ch /\ n.copied = co /\ n.delta = t.delta
  BY <1>1, <1>2 DEF T!Tracker
<1>4. Sound(n)
  BY <1>2, <1>3 DEF Sound
<1>5. QED BY <1>3, <1>4 DEF n, ch, co

LEMMA Cleared ==
  ASSUME NEW t, Sound(t)
  PROVE  Sound(T!clear(t)) /\ T!is_empty(T!clear(t))
<1> DEFINE n == T!clear(t)
<1>1. n = [t EXCEPT !.changed = {}, !.copied = {}] /\ t \in T!Tracker
  BY DEF Sound, T!clear
<1> HIDE DEF n
<1>2. n \in T!Tracker /\ n.changed = {} /\ n.copied = {}
  BY <1>1 DEF T!Tracker
<1>3. QED BY <1>2 DEF Sound, T!is_empty, n

-----------------------------------------------------------------------------
(* What the picture of a cursor, cut off at the edges, can be. *)
Images == UNION {[S -> Pixel \cup {Arrow}] : S \in SUBSET T!Cell}

(* What a client may show where nothing has to be sent: what it does show, *)
(* and anything behind a cursor that the server remembers.                 *)
Behind == [x \in T!Cell |-> IF x \in drawn.rect /\ view[x] = Arrow THEN Pixel ELSE {view[x]}]

Only(image) == [x \in T!Cell |-> {image[x]}]

(* With t for the client's tracker and c for the server's: a comparer that *)
(* has a copy of the screen stands between the client and the screen.      *)
Kept(t, c) ==
  IF oldFb = <<>> THEN Covers(screen, c, T!Applied(t, Behind))
  ELSE Covers(oldFb, t, Behind) /\ Covers(screen, c, Only(oldFb))

(* A picture that is still good covers the cursor where it is now. *)
CursorInv ==
  /\ cursor \in [pos : T!Cell, invalid : BOOLEAN, image : Images]
  /\ ~cursor.invalid => DOMAIN cursor.image = T!CursorCells /\ cursor.image[cursor.pos] = Arrow

Drawn == [rect : SUBSET T!Cell, draw : BOOLEAN, remove : BOOLEAN, own : BOOLEAN]

(* What an update draws, a later one removes. *)
DrawnInv ==
  /\ drawn \in Drawn
  /\ drawn.draw => drawn.remove

TrackersInv ==
  /\ T!TypeOK
  /\ Sound(comparer) /\ Sound(updates)
  /\ oldFb # <<>> => CompareFB
  /\ CursorInv
  /\ DrawnInv

(* Nothing was spoilt, or the client's tracker and the server's know all   *)
(* there is to tell the client.                                            *)
PictureInv == spoilt \/ Kept(updates, comparer)

(* compare(): what is left is what the client has to be told, and the copy *)
(* is the screen.                                                          *)
LEMMA Compared ==
  ASSUME NEW c, Sound(c), CompareFB, screen \in [T!Cell -> Pixel],
         oldFb \in [T!Cell -> Pixel], oldFb # <<>>,
         Covers(screen, c, Only(oldFb))
  PROVE  LET n == T!compared(c)
         IN  /\ Sound(n)
             /\ \A x \in T!Cell : \/ x \in n.changed
                                  \/ x \in n.copied /\ screen[x] = oldFb[x - n.delta]
                                  \/ x \notin n.copied /\ screen[x] = oldFb[x]
             /\ T!oldFbAfter(c) = screen
<1> DEFINE n == T!compared(c)
           differing == T!Differs(c)
           old == T!Moved(c)
<1>0. c \in T!Tracker /\ c.changed \subseteq T!Cell /\ c.copied \subseteq T!Cell
      /\ \A x \in c.copied : x - c.delta \in T!Cell
  BY DEF Sound, T!Tracker
<1>1. n = [c EXCEPT !.changed = differing, !.copied = c.copied \ differing]
  BY DEF T!compared
<1>2. differing = {x \in c.changed \cup c.copied : screen[x] # old[x]}
  BY DEF T!Differs
<1>3. differing \in SUBSET T!Cell
  BY <1>0, <1>2
<1>4. \A x \in T!Cell : old[x] = IF x \in c.copied THEN oldFb[x - c.delta] ELSE oldFb[x]
  BY DEF T!Moved, T!Copied
<1>5. T!oldFbAfter(c) = [x \in T!Cell |-> IF x \in differing THEN screen[x] ELSE old[x]]
  BY DEF T!oldFbAfter
<1> HIDE DEF n, differing, old
<1>6. n \in T!Tracker /\ n.changed = differing /\ n.copied = c.copied \ differing /\ n.delta = c.delta
  BY <1>0, <1>1, <1>3 DEF T!Tracker
<1>7. Sound(n)
  BY <1>0, <1>6 DEF Sound
<1>8. ASSUME NEW x \in T!Cell, x \notin c.changed \cup c.copied PROVE screen[x] = oldFb[x]
  BY <1>8 DEF Covers, T!Applied, Only
<1>9. ASSUME NEW x \in T!Cell, x \notin differing PROVE screen[x] = old[x]
  <2>1. CASE x \in c.changed \cup c.copied
    BY <1>2, <1>9, <2>1
  <2>2. CASE x \notin c.changed \cup c.copied
    BY <1>4, <1>8, <2>2
  <2>3. QED BY <2>1, <2>2
<1>10. ASSUME NEW x \in T!Cell
       PROVE  \/ x \in n.changed
              \/ x \in n.copied /\ screen[x] = oldFb[x - n.delta]
              \/ x \notin n.copied /\ screen[x] = oldFb[x]
  BY <1>4, <1>6, <1>9
<1>11. T!oldFbAfter(c) = screen
  BY <1>5, <1>9
<1>12. QED BY <1>7, <1>10, <1>11 DEF n

LEMMA Checked ==
  ASSUME TrackersInv, NEW t, Sound(t), NEW c, Sound(c), Kept(t, c), T!checkUpdate(c)
  PROVE  /\ Sound(T!told(t, c)) /\ Covers(screen, T!told(t, c), Behind)
         /\ Sound(comparer') /\ T!is_empty(comparer')
         /\ oldFb' \in {<<>>, screen}
         /\ oldFb' # <<>> => CompareFB
<1>0. screen \in [T!Cell -> Pixel] /\ oldFb \in [T!Cell -> Pixel] \cup {<<>>} /\ CompareFB \in BOOLEAN
      /\ c \in T!Tracker /\ (oldFb # <<>> => CompareFB)
  BY TrackersAssumption DEF TrackersInv, T!TypeOK, Sound
<1>1. CASE ~T!CheckIsDue(c)
  <2>1. T!told(t, c) = t /\ comparer' = c /\ oldFb' = oldFb /\ T!is_empty(c)
    BY <1>1 DEF T!told, T!checkUpdate, T!CheckIsDue
  <2>2. \A v : \A x \in T!Cell : T!Applied(c, v)[x] = v[x]
    BY <2>1 DEF T!is_empty, T!Applied
  <2>3. CASE oldFb = <<>>
    <3>1. Covers(screen, c, T!Applied(t, Behind))
      BY <2>3 DEF Kept
    <3>2. Covers(screen, t, Behind)
      BY <3>1, <2>2 DEF Covers
    <3>3. QED BY <2>1, <2>3, <3>2
  <2>4. CASE oldFb # <<>>
    <3>1. Covers(oldFb, t, Behind) /\ Covers(screen, c, Only(oldFb))
      BY <2>4 DEF Kept
    <3>2. ASSUME NEW x \in T!Cell PROVE screen[x] = oldFb[x]
      <4>1. screen[x] \in T!Applied(c, Only(oldFb))[x]
        BY <3>1 DEF Covers
      <4>2. T!Applied(c, Only(oldFb))[x] = Only(oldFb)[x]
        BY <2>2
      <4>3. QED BY <4>1, <4>2 DEF Only
    <3>3. oldFb = screen
      BY <3>2, <2>4, <1>0
    <3>4. QED BY <2>1, <3>1, <3>3, <1>0
  <2>5. QED BY <2>3, <2>4
<1>2. CASE T!CheckIsDue(c)
  <2> DEFINE n == T!compared(c)
             copying == T!add_copied(t, n.copied, n.delta)
  <2>1. T!told(t, c) = T!add_changed(copying, n.changed) /\ comparer' = T!clear(n) /\ oldFb' = T!oldFbAfter(c)
    BY <1>2 DEF T!told, T!checkUpdate
  <2> HIDE DEF n
  <2>2. ASSUME Sound(n),
               \A x \in T!Cell : \/ x \in n.changed
                                 \/ x \in n.copied /\ screen[x] \in T!Applied(t, Behind)[x - n.delta]
                                 \/ x \notin n.copied /\ screen[x] \in T!Applied(t, Behind)[x]
        PROVE  Sound(T!told(t, c)) /\ Covers(screen, T!told(t, c), Behind) /\ Sound(comparer') /\ T!is_empty(comparer')
    <3>1. n.copied \in SUBSET T!Cell /\ n.changed \in SUBSET T!Cell /\ n.delta \in Int
          /\ \A x \in n.copied : x - n.delta \in T!Cell
      BY <2>2, TrackersAssumption DEF Sound, T!Tracker
    <3>2. /\ Sound(copying)
          /\ \A v : \A x \in T!Cell, p \in Pixel :
               p \in (IF x \in n.copied THEN T!Applied(t, v)[x - n.delta] ELSE T!Applied(t, v)[x])
                 => p \in T!Applied(copying, v)[x]
      BY <3>1, AddCopied
    <3> HIDE DEF copying
    <3>3. Sound(T!add_changed(copying, n.changed))
      BY <3>1, <3>2, AddChanged
    <3>4. ASSUME NEW x \in T!Cell PROVE screen[x] \in T!Applied(T!add_changed(copying, n.changed), Behind)[x]
      <4>1. screen[x] \in Pixel
        BY <1>0
      <4>2. x \in n.changed \/ screen[x] \in T!Applied(copying, Behind)[x]
        BY <2>2, <3>2, <4>1
      <4>3. QED BY <3>1, <3>2, <4>1, <4>2, AddChangedCovers
    <3>5. QED BY <2>1, <2>2, <3>3, <3>4, Cleared DEF Covers
  <2>3. CASE oldFb = <<>>
    <3>1. n = c
      BY <2>3 DEF T!compared, n
    <3>2. Covers(screen, c, T!Applied(t, Behind))
      BY <2>3 DEF Kept
    <3>3. \A x \in T!Cell : \/ x \in n.changed
                            \/ x \in n.copied /\ screen[x] \in T!Applied(t, Behind)[x - n.delta]
                            \/ x \notin n.copied /\ screen[x] \in T!Applied(t, Behind)[x]
      BY <3>1, <3>2 DEF Covers, T!Applied
    <3>4. oldFb' \in {<<>>, screen} /\ (oldFb' # <<>> => CompareFB)
      BY <2>1, <2>3, <1>0 DEF T!oldFbAfter
    <3>5. QED BY <2>2, <3>1, <3>3, <3>4
  <2>4. CASE oldFb # <<>>
    <3>1. Covers(oldFb, t, Behind) /\ Covers(screen, c, Only(oldFb)) /\ CompareFB
          /\ oldFb \in [T!Cell -> Pixel]
      BY <2>4, <1>0 DEF Kept
    <3>2. /\ Sound(n)
          /\ \A x \in T!Cell : \/ x \in n.changed
                               \/ x \in n.copied /\ screen[x] = oldFb[x - n.delta]
                               \/ x \notin n.copied /\ screen[x] = oldFb[x]
          /\ T!oldFbAfter(c) = screen
      BY <3>1, <2>4, <1>0, Compared DEF n
    <3>3. \A x \in n.copied : x - n.delta \in T!Cell
      BY <3>2 DEF Sound
    <3>4. \A x \in T!Cell : \/ x \in n.changed
                            \/ x \in n.copied /\ screen[x] \in T!Applied(t, Behind)[x - n.delta]
                            \/ x \notin n.copied /\ screen[x] \in T!Applied(t, Behind)[x]
      BY <3>1, <3>2, <3>3 DEF Covers
    <3>5. QED BY <2>1, <2>2, <3>1, <3>2, <3>4
  <2>5. QED BY <2>3, <2>4
<1>3. QED BY <1>1, <1>2

(* A cursor that is needed has been drawn. *)
LEMMA CursorChecked ==
  ASSUME TrackersInv, NEW c, T!checkUpdate(c)
  PROVE  /\ cursor' \in [pos : T!Cell, invalid : BOOLEAN, image : Images] /\ cursor'.pos = cursor.pos
         /\ ~cursor'.invalid => DOMAIN cursor'.image = T!CursorCells /\ cursor'.image[cursor.pos] = Arrow
         /\ T!needRenderedCursor(drawn) => ~cursor'.invalid
<1>0. /\ cursor \in [pos : T!Cell, invalid : BOOLEAN, image : Images]
      /\ ~cursor.invalid => DOMAIN cursor.image = T!CursorCells /\ cursor.image[cursor.pos] = Arrow
      /\ screen \in [T!Cell -> Pixel]
  BY DEF TrackersInv, CursorInv, T!TypeOK
<1>1. cursor.pos \in T!CursorCells /\ T!CursorCells \subseteq T!Cell
  BY <1>0 DEF T!CursorCells
<1>2. T!Picture \in Images /\ DOMAIN T!Picture = T!CursorCells /\ T!Picture[cursor.pos] = Arrow
  <2>1. T!Picture \in [T!CursorCells -> Pixel \cup {Arrow}]
    BY <1>0, <1>1 DEF T!Picture
  <2>2. QED BY <2>1, <1>1 DEF T!Picture, Images
<1>3. CASE T!CheckIsDue(c) /\ T!Renders(c)
  <2>1. cursor' = [cursor EXCEPT !.image = T!Picture, !.invalid = FALSE]
    BY <1>3 DEF T!checkUpdate
  <2> DEFINE image == T!Picture
  <2> HIDE DEF image
  <2>2. image \in Images /\ cursor' = [cursor EXCEPT !.image = image, !.invalid = FALSE]
    BY <1>2, <2>1 DEF image
  <2>3. cursor' \in [pos : T!Cell, invalid : BOOLEAN, image : Images] /\ cursor'.pos = cursor.pos
        /\ cursor'.image = image /\ ~cursor'.invalid
    BY <2>2, <1>0
  <2>4. QED BY <2>3, <1>2 DEF image
<1>4. CASE ~(T!CheckIsDue(c) /\ T!Renders(c))
  <2>1. cursor' = cursor
    BY <1>4 DEF T!checkUpdate
  <2>2. T!needRenderedCursor(drawn) => ~cursor.invalid
    BY <1>4 DEF T!CheckIsDue, T!Renders
  <2>3. QED BY <2>1, <2>2, <1>0
<1>5. QED BY <1>3, <1>4

-----------------------------------------------------------------------------
(* What is left of a tracker s, the cursor's rectangles added to it, that  *)
(* an update is made of.                                                   *)
Known(s) == T!WithoutOldCursor(T!WithoutCopiedCursor(s))
Due(s) == T!get_update(T!enable_copyrect(Known(s), cp.useCopyRect))

LEMMA RemovedDrawn ==
  ASSUME TrackersInv
  PROVE  /\ T!Removed \in Drawn /\ T!Removed.draw = drawn.draw
         /\ T!Removed.rect = IF drawn.remove THEN {} ELSE drawn.rect
<1>1. drawn \in Drawn
  BY DEF TrackersInv, DrawnInv, Drawn
<1>2. CASE drawn.remove
  <2>1. T!Removed = [drawn EXCEPT !.rect = {}, !.remove = FALSE]
    BY <1>2 DEF T!Removed
  <2>2. QED BY <1>1, <1>2, <2>1 DEF Drawn
<1>3. CASE ~drawn.remove
  BY <1>1, <1>3 DEF T!Removed
<1>4. QED BY <1>2, <1>3

LEMMA KnownCovers ==
  ASSUME TrackersInv, NEW s, Sound(s), Covers(screen, s, Behind)
  PROVE  /\ Sound(Known(s)) /\ Covers(screen, Known(s), Behind)
         /\ drawn.remove => drawn.rect \subseteq Known(s).changed
         /\ \A x \in Known(s).copied \ Known(s).changed : x - Known(s).delta \notin drawn.rect
<1> DEFINE bogus == T!Shift(drawn.rect, s.delta) \cap T!Cell
           w == T!WithoutCopiedCursor(s)
           k == T!WithoutOldCursor(w)
<1>0. /\ drawn.rect \in SUBSET T!Cell /\ T!Cell \subseteq Int /\ s.delta \in Int /\ s.copied \subseteq T!Cell
      /\ screen \in [T!Cell -> Pixel]
  BY TrackersAssumption DEF TrackersInv, DrawnInv, Drawn, T!TypeOK, T!Cell, Sound, T!Tracker
<1>1. ASSUME NEW t, Sound(t), Covers(screen, t, Behind), NEW r \in SUBSET T!Cell
      PROVE  /\ Sound(T!add_changed(t, r)) /\ Covers(screen, T!add_changed(t, r), Behind)
             /\ T!add_changed(t, r).changed = t.changed \cup r
             /\ T!add_changed(t, r).copied = t.copied /\ T!add_changed(t, r).delta = t.delta
  <2>1. \A x \in T!Cell : screen[x] \in Pixel
    BY <1>0
  <2>2. QED BY <1>1, <2>1, AddChanged, AddChangedCovers DEF Covers
<1>2. \A x \in s.copied : x - s.delta \in drawn.rect => x \in bogus
  <2>1. ASSUME NEW x \in s.copied, x - s.delta \in drawn.rect PROVE x \in bogus
    <3>1. x \in Int /\ drawn.rect \in SUBSET Int
      BY <1>0
    <3>2. x \in T!Shift(drawn.rect, s.delta)
      BY <3>1, <2>1, <1>0, ShiftedBack
    <3>3. QED BY <3>2, <1>0
  <2>2. QED BY <2>1
<1>3. bogus \in SUBSET T!Cell
  OBVIOUS
<1>4. w = IF s.copied \cap bogus # {} THEN T!add_changed(s, bogus) ELSE s
  BY DEF T!WithoutCopiedCursor
<1>5. k = IF drawn.remove THEN T!add_changed(w, drawn.rect) ELSE w
  BY DEF T!WithoutOldCursor
<1> HIDE DEF bogus, w, k
<1>6. /\ Sound(w) /\ Covers(screen, w, Behind) /\ w.copied = s.copied /\ w.delta = s.delta
      /\ \A x \in w.copied : x - w.delta \in drawn.rect => x \in w.changed
  <2>1. CASE s.copied \cap bogus # {}
    BY <2>1, <1>1, <1>2, <1>3, <1>4
  <2>2. CASE s.copied \cap bogus = {}
    BY <2>2, <1>2, <1>4
  <2>3. QED BY <2>1, <2>2
<1>7. /\ Sound(k) /\ Covers(screen, k, Behind) /\ k.copied = w.copied /\ k.delta = w.delta
      /\ w.changed \subseteq k.changed /\ (drawn.remove => drawn.rect \subseteq k.changed)
  <2>1. CASE drawn.remove
    BY <2>1, <1>0, <1>1, <1>5, <1>6
  <2>2. CASE ~drawn.remove
    BY <2>2, <1>5, <1>6
  <2>3. QED BY <2>1, <2>2
<1>8. \A x \in k.copied \ k.changed : x - k.delta \notin drawn.rect
  BY <1>6, <1>7
<1>9. Known(s) = k
  BY DEF Known, k, w
<1>10. QED BY <1>7, <1>8, <1>9

(* Where the client shows the screen or where it will, before an update:   *)
(* on its screen are only the remains of a cursor that stays.              *)
LEMMA DueShown ==
  ASSUME TrackersInv, NEW s, Sound(s), Covers(screen, s, Behind)
  PROVE  LET due == Due(s)
         IN  /\ Sound(due) /\ due.copied \cap due.changed = {}
             /\ \A x \in due.copied : x - due.delta \in T!Cell /\ view[x - due.delta] = screen[x]
             /\ \A x \in T!Cell \ (due.changed \cup due.copied) :
                  view[x] = screen[x] \/ (x \in T!Removed.rect /\ view[x] = Arrow)
<1> DEFINE k == Known(s)
           due == Due(s)
<1>1. /\ Sound(k) /\ Covers(screen, k, Behind)
      /\ drawn.remove => drawn.rect \subseteq k.changed
      /\ \A x \in k.copied \ k.changed : x - k.delta \notin drawn.rect
  BY KnownCovers
<1>2. cp.useCopyRect \in BOOLEAN /\ screen \in [T!Cell -> Pixel]
  BY DEF TrackersInv, T!TypeOK
<1>3. due = T!get_update(T!enable_copyrect(k, cp.useCopyRect))
  BY DEF Due
<1> HIDE DEF k, due
<1>4. Narrows(due, k) /\ due.copied \cap due.changed = {}
  BY <1>1, <1>2, <1>3, Enabled
<1>5. /\ Sound(due)
      /\ \A v : \A x \in T!Cell, p \in Pixel : p \in T!Applied(k, v)[x] => p \in T!Applied(due, v)[x]
  BY <1>1, <1>4, NarrowsCovers
<1>6. ASSUME NEW x \in T!Cell PROVE screen[x] \in T!Applied(due, Behind)[x]
  <2>1. screen[x] \in Pixel /\ screen[x] \in T!Applied(k, Behind)[x]
    BY <1>1, <1>2 DEF Covers
  <2>2. QED BY <2>1, <1>5
<1>7. ASSUME NEW x \in due.copied
      PROVE  x - due.delta \in T!Cell /\ view[x - due.delta] = screen[x]
  <2>1. x \in T!Cell /\ x - due.delta \in T!Cell /\ x \notin due.changed
    BY <1>4, <1>5 DEF Sound, T!Tracker
  <2>2. x - due.delta \notin drawn.rect
    BY <1>1, <1>4, <2>1 DEF Narrows
  <2>3. T!Applied(due, Behind)[x] = Behind[x - due.delta]
    BY <2>1 DEF T!Applied
  <2>4. Behind[x - due.delta] = {view[x - due.delta]}
    BY <2>1, <2>2 DEF Behind
  <2>5. QED BY <2>1, <2>3, <2>4, <1>6
<1>8. ASSUME NEW x \in T!Cell \ (due.changed \cup due.copied)
      PROVE  view[x] = screen[x] \/ (x \in T!Removed.rect /\ view[x] = Arrow)
  <2>1. screen[x] \in Behind[x]
    BY <1>6 DEF T!Applied
  <2>2. Behind[x] = IF x \in drawn.rect /\ view[x] = Arrow THEN Pixel ELSE {view[x]}
    BY DEF Behind
  <2>3. drawn.remove => x \notin drawn.rect
    BY <1>1, <1>4 DEF Narrows
  <2>4. QED BY <2>1, <2>2, <2>3, RemovedDrawn
<1>9. QED BY <1>4, <1>5, <1>7, <1>8 DEF due

LEMMA NextDrawn ==
  ASSUME TrackersInv, NEW k, NEW r
  PROVE  LET now == T!NextCursor(k, r)
         IN  /\ now \in Drawn
             /\ now.draw /\ now.rect # {} => T!needRenderedCursor(drawn) /\ now.rect \subseteq T!CursorCells
<1> DEFINE now == T!NextCursor(k, r)
           rect == T!CursorCells \cap T!BoundingRect(r)
           draw == rect # {} /\ (T!Removed.draw \/ (k.changed \cup k.copied) \cap rect # {})
<1>1. /\ T!Removed \in Drawn /\ T!Removed.draw = drawn.draw
      /\ T!Removed.rect = IF drawn.remove THEN {} ELSE drawn.rect
  BY RemovedDrawn
<1>2. drawn.draw => drawn.remove
  BY DEF TrackersInv, DrawnInv, Drawn
<1>3. CASE ~T!needRenderedCursor(drawn)
  BY <1>1, <1>2, <1>3 DEF T!NextCursor
<1>4. CASE T!needRenderedCursor(drawn)
  <2>1. now = [T!Removed EXCEPT !.rect = rect, !.draw = draw]
    BY <1>4 DEF T!NextCursor
  <2>2. rect \in SUBSET T!Cell /\ rect \subseteq T!CursorCells /\ draw \in BOOLEAN
    BY DEF T!CursorCells
  <2> HIDE DEF rect, draw, now
  <2>3. now \in Drawn /\ now.rect = rect
    BY <2>1, <2>2, <1>1 DEF Drawn
  <2>4. QED BY <2>2, <2>3, <1>4 DEF now
<1>5. QED BY <1>3, <1>4

(* After checkUpdate() the client's tracker alone has to account for what  *)
(* the client does not show.                                               *)
LEMMA KeptAfter ==
  ASSUME screen' = screen, T!is_empty(comparer'), oldFb' \in {<<>>, screen},
         Covers(screen, updates', Behind')
  PROVE  PictureInv'
<1>1. ASSUME NEW v PROVE \A x \in T!Cell : T!Applied(comparer', v)[x] = v[x]
  BY DEF T!is_empty, T!Applied
<1>2. CASE oldFb' = <<>>
  <2>1. Covers(screen, comparer', T!Applied(updates', Behind'))
    BY <1>1 DEF Covers
  <2>2. QED BY <2>1, <1>2 DEF PictureInv, Kept
<1>3. CASE oldFb' # <<>>
  <2>1. oldFb' = screen
    BY <1>3
  <2>2. ASSUME NEW x \in T!Cell PROVE screen[x] \in T!Applied(comparer', Only(oldFb'))[x]
    <3>1. T!Applied(comparer', Only(oldFb'))[x] = Only(oldFb')[x]
      BY <1>1
    <3>2. QED BY <3>1, <2>1 DEF Only
  <2>3. Covers(screen, comparer', Only(oldFb')) /\ Covers(oldFb', updates', Behind')
    BY <2>1, <2>2 DEF Covers
  <2>4. QED BY <2>3, <1>3 DEF PictureInv, Kept
<1>4. QED BY <1>2, <1>3

(* The first branch of writeFramebufferUpdate(): nothing to send. *)
LEMMA NothingWritten ==
  ASSUME TrackersInv, NEW s, Sound(s), Covers(screen, s, Behind),
         T!is_empty(Known(s)), ~drawn.draw, updates' = Known(s), drawn' = T!Removed, view' = view
  PROVE  Sound(updates') /\ DrawnInv' /\ Covers(screen, updates', Behind')
<1>1. /\ T!Removed \in Drawn /\ T!Removed.draw = drawn.draw
      /\ T!Removed.rect = IF drawn.remove THEN {} ELSE drawn.rect
  BY RemovedDrawn
<1>2. /\ Sound(Known(s)) /\ Covers(screen, Known(s), Behind)
      /\ drawn.remove => drawn.rect \subseteq Known(s).changed
  BY KnownCovers
<1>3. drawn'.rect = drawn.rect
  BY <1>1, <1>2 DEF T!is_empty
<1>4. Behind' = Behind
  BY <1>3 DEF Behind
<1>5. DrawnInv'
  BY <1>1 DEF DrawnInv, Drawn
<1>6. QED BY <1>2, <1>4, <1>5

(* The second one: nothing in the region asked for. *)
LEMMA NotWritten ==
  ASSUME TrackersInv, NEW s, Sound(s), Covers(screen, s, Behind), NEW now \in Drawn, ~now.draw,
         T!Removed.rect \subseteq now.rect, updates' = Due(s), drawn' = now, view' = view
  PROVE  Sound(updates') /\ DrawnInv' /\ Covers(screen, updates', Behind')
<1> DEFINE due == Due(s)
<1>1. /\ Sound(due) /\ due.copied \cap due.changed = {}
      /\ \A x \in due.copied : x - due.delta \in T!Cell /\ view[x - due.delta] = screen[x]
      /\ \A x \in T!Cell \ (due.changed \cup due.copied) :
           view[x] = screen[x] \/ (x \in T!Removed.rect /\ view[x] = Arrow)
  BY DueShown
<1>2. \A x \in T!Cell : screen[x] \in Pixel
  BY DEF TrackersInv, T!TypeOK
<1>3. \A x \in T!Cell : Behind'[x] = IF x \in now.rect /\ view[x] = Arrow THEN Pixel ELSE {view[x]}
  BY DEF Behind
<1> HIDE DEF due
<1>4. ASSUME NEW x \in T!Cell PROVE screen[x] \in T!Applied(due, Behind')[x]
  <2>1. CASE x \in due.changed
    BY <2>1, <1>2 DEF T!Applied
  <2>2. CASE x \in due.copied
    <3>1. x \notin due.changed /\ x - due.delta \in T!Cell /\ view[x - due.delta] = screen[x]
      BY <2>2, <1>1
    <3>2. screen[x] \in Behind'[x - due.delta]
      BY <3>1, <1>2, <1>3
    <3>3. QED BY <3>1, <3>2, <2>2 DEF T!Applied
  <2>3. CASE x \notin due.changed \cup due.copied
    <3>1. screen[x] \in Behind'[x]
      BY <2>3, <1>1, <1>2, <1>3
    <3>2. QED BY <3>1, <2>3 DEF T!Applied
  <2>4. QED BY <2>1, <2>2, <2>3
<1>5. DrawnInv'
  BY DEF DrawnInv, Drawn
<1>6. updates' = due
  BY DEF due
<1>7. QED BY <1>1, <1>4, <1>5, <1>6 DEF Covers

(* The third one: an update is sent, with all that is copied, and with the *)
(* cursor over what is behind it now.                                      *)
LEMMA UpdateWritten ==
  ASSUME TrackersInv, NEW s, Sound(s), Covers(screen, s, Behind), NEW now \in Drawn,
         now.draw => now.rect \subseteq T!CursorCells /\ \A x \in now.rect : cursor'.image[x] = T!Picture[x],
         T!Removed.rect \subseteq now.rect,
         NEW sent \in SUBSET Due(s).changed,
         updates' = T!subtract(Due(s), Due(s).copied \cup sent),
         drawn' = [now EXCEPT !.draw = FALSE],
         view' = T!Sent(Due(s), Due(s).copied, sent, now)
  PROVE  Covers(screen, updates', Behind')
<1> DEFINE due == Due(s)
           new == T!subtract(due, due.copied \cup sent)
<1>1. /\ Sound(due) /\ due.copied \cap due.changed = {}
      /\ \A x \in due.copied : x - due.delta \in T!Cell /\ view[x - due.delta] = screen[x]
      /\ \A x \in T!Cell \ (due.changed \cup due.copied) :
           view[x] = screen[x] \/ (x \in T!Removed.rect /\ view[x] = Arrow)
  BY DueShown
<1>2. \A x \in T!Cell : screen[x] \in Pixel
  BY DEF TrackersInv, T!TypeOK
<1>3. ASSUME NEW x \in T!Cell
      PROVE view'[x] = IF now.draw /\ x \in now.rect THEN cursor'.image[x]
                       ELSE IF x \in sent THEN screen[x]
                       ELSE IF x \in due.copied THEN view[x - due.delta] ELSE view[x]
  BY DEF T!Sent, T!Copied
<1>4. drawn'.rect = now.rect
  BY DEF Drawn
<1>5. \A x \in T!Cell : Behind'[x] = IF x \in now.rect /\ view'[x] = Arrow THEN Pixel ELSE {view'[x]}
  BY <1>4 DEF Behind
<1>6. updates' = new /\ sent \subseteq due.changed
  OBVIOUS
<1> HIDE DEF due
<1>7. /\ Sound(new) /\ new.changed = due.changed \ (due.copied \cup sent)
      /\ new.copied = due.copied \ (due.copied \cup sent)
  BY <1>1, Subtracted
<1> HIDE DEF new
<1>8. ASSUME NEW x \in T!Cell PROVE screen[x] \in T!Applied(new, Behind')[x]
  <2>1. CASE x \in new.changed
    BY <2>1, <1>2 DEF T!Applied
  <2>2. CASE x \notin new.changed
    <3>1. T!Applied(new, Behind')[x] = Behind'[x]
      BY <2>2, <1>7 DEF T!Applied
    <3>2. view'[x] = screen[x] \/ (x \in now.rect /\ view'[x] = Arrow)
      <4>1. CASE now.draw /\ x \in now.rect
        <5>1. x \in T!CursorCells /\ view'[x] = T!Picture[x]
          BY <4>1, <1>3
        <5>2. T!Picture[x] = IF x = cursor.pos THEN Arrow ELSE screen[x]
          BY <5>1 DEF T!Picture
        <5>3. QED BY <4>1, <5>1, <5>2
      <4>2. CASE ~(now.draw /\ x \in now.rect) /\ x \in sent
        BY <4>2, <1>3
      <4>3. CASE ~(now.draw /\ x \in now.rect) /\ x \notin sent /\ x \in due.copied
        BY <4>3, <1>1, <1>3
      <4>4. CASE ~(now.draw /\ x \in now.rect) /\ x \notin sent /\ x \notin due.copied
        <5>1. x \notin due.changed
          BY <4>4, <2>2, <1>7
        <5>2. view'[x] = view[x]
          BY <4>4, <1>3
        <5>3. QED BY <5>1, <5>2, <4>4, <1>1
      <4>5. QED BY <4>1, <4>2, <4>3, <4>4
    <3>3. QED BY <3>1, <3>2, <1>2, <1>5
  <2>3. QED BY <2>1, <2>2
<1>9. QED BY <1>6, <1>8 DEF Covers

LEMMA ImageCells ==
  ASSUME NEW image \in Images
  PROVE  DOMAIN image \subseteq T!Cell /\ \A x \in DOMAIN image : image[x] \in Pixel \cup {Arrow}
BY DEF Images

LEMMA TypesAfter ==
  ASSUME TrackersInv, screen' = screen, cp' = cp, events' = events, Sound(comparer'), Sound(updates'),
         oldFb' \in {<<>>, screen}, oldFb' # <<>> => CompareFB, asked' \subseteq T!Cell,
         view' \in [T!Cell -> Pixel \cup {Arrow}], CursorInv', DrawnInv', spoilt' \in BOOLEAN
  PROVE  TrackersInv'
<1>1. T!TypeOK
  BY DEF TrackersInv
<1>2. cursor'.pos \in T!Cell /\ cursor'.invalid \in BOOLEAN /\ DOMAIN cursor'.image \subseteq T!Cell
  BY ImageCells DEF CursorInv
<1>3. drawn'.rect \subseteq T!Cell /\ {drawn'.draw, drawn'.remove, drawn'.own} \subseteq BOOLEAN
  BY DEF DrawnInv, Drawn
<1>4. T!TypeOK'
  BY <1>1, <1>2, <1>3 DEF T!TypeOK, Sound
<1>5. QED BY <1>4 DEF TrackersInv

(* writeFramebufferUpdate(), whatever t and c have been told before. *)
LEMMA UpdateSent ==
  ASSUME TrackersInv, ~spoilt, NEW r \in SUBSET T!Cell, NEW t, Sound(t), NEW c, Sound(c), Kept(t, c),
         T!writeFramebufferUpdate(r, t, c), events' = events
  PROVE  TrackersInv' /\ PictureInv'
<1> DEFINE s == T!told(t, c)
           known == Known(s)
           now == T!NextCursor(known, r)
           due == Due(s)
           copies == due.copied \cap r
           changes == due.changed \cap r
           nothing == T!is_empty(known) /\ ~drawn.draw
<1>1. /\ T!checkUpdate(c)
      /\ IF nothing \/ (copies \cup changes = {} /\ ~now.draw)
         THEN /\ updates' = IF nothing THEN known ELSE due
              /\ drawn' = IF nothing THEN T!Removed ELSE now
              /\ asked' = r
              /\ spoilt' = (spoilt \/ ~(nothing \/ T!Removed.rect \subseteq now.rect))
              /\ UNCHANGED view
         ELSE \E sent \in SUBSET changes :
              /\ updates' = T!subtract(due, copies \cup sent)
              /\ asked' = {}
              /\ drawn' = [now EXCEPT !.draw = FALSE]
              /\ spoilt' = (spoilt \/ ~(due.copied \subseteq r) \/ ~(T!Removed.rect \subseteq now.rect)
                                   \/ T!Stale(now))
              /\ view' = T!Sent(due, copies, sent, now)
      /\ screen' = screen /\ cp' = cp
  BY DEF T!writeFramebufferUpdate, Known, Due
<1>2. /\ Sound(s) /\ Covers(screen, s, Behind)
      /\ Sound(comparer') /\ T!is_empty(comparer')
      /\ oldFb' \in {<<>>, screen}
      /\ oldFb' # <<>> => CompareFB
  BY <1>1, Checked
<1>3. /\ cursor' \in [pos : T!Cell, invalid : BOOLEAN, image : Images] /\ cursor'.pos = cursor.pos
      /\ ~cursor'.invalid => DOMAIN cursor'.image = T!CursorCells /\ cursor'.image[cursor.pos] = Arrow
      /\ T!needRenderedCursor(drawn) => ~cursor'.invalid
  BY <1>1, CursorChecked
<1>4. CursorInv'
  BY <1>3 DEF CursorInv, T!CursorCells
<1>5. /\ now \in Drawn
      /\ now.draw /\ now.rect # {} => T!needRenderedCursor(drawn) /\ now.rect \subseteq T!CursorCells
  BY NextDrawn
<1>6. view \in [T!Cell -> Pixel \cup {Arrow}] /\ screen \in [T!Cell -> Pixel]
  BY DEF TrackersInv, T!TypeOK
<1> HIDE DEF s, now, due
<1>7. CASE nothing
  <2>1. /\ updates' = known /\ drawn' = T!Removed /\ asked' = r /\ view' = view
        /\ spoilt' = (spoilt \/ ~(nothing \/ T!Removed.rect \subseteq now.rect))
    BY <1>1, <1>7
  <2>2. spoilt' \in BOOLEAN
    BY <2>1
  <2>3. Sound(updates') /\ DrawnInv' /\ Covers(screen, updates', Behind')
    BY <1>2, <1>7, <2>1, NothingWritten
  <2>4. TrackersInv'
    BY <1>1, <1>2, <1>4, <1>6, <2>1, <2>2, <2>3, TypesAfter
  <2>5. QED BY <1>1, <1>2, <2>3, <2>4, KeptAfter
<1>8. CASE ~nothing /\ copies \cup changes = {} /\ ~now.draw
  <2>1. /\ updates' = due /\ drawn' = now /\ asked' = r /\ view' = view
        /\ spoilt' = (spoilt \/ ~(nothing \/ T!Removed.rect \subseteq now.rect))
    BY <1>1, <1>8
  <2>2. spoilt' \in BOOLEAN
    BY <2>1
  <2>3. Sound(due)
    BY <1>2, DueShown DEF due
  <2>4. DrawnInv'
    BY <1>5, <1>8, <2>1 DEF DrawnInv, Drawn
  <2>5. TrackersInv'
    BY <1>1, <1>2, <1>4, <1>6, <2>1, <2>2, <2>3, <2>4, TypesAfter
  <2>6. ASSUME ~spoilt' PROVE PictureInv'
    <3>1. T!Removed.rect \subseteq now.rect
      BY <1>8, <2>1, <2>6
    <3>2. Covers(screen, updates', Behind')
      BY <1>2, <1>5, <1>8, <2>1, <3>1, NotWritten DEF due
    <3>3. QED BY <1>1, <1>2, <3>2, KeptAfter
  <2>7. QED BY <2>5, <2>6 DEF PictureInv
<1>9. CASE ~nothing /\ ~(copies \cup changes = {} /\ ~now.draw)
  <2>1. PICK sent \in SUBSET changes :
          /\ updates' = T!subtract(due, copies \cup sent)
          /\ asked' = {}
          /\ drawn' = [now EXCEPT !.draw = FALSE]
          /\ spoilt' = (spoilt \/ ~(due.copied \subseteq r) \/ ~(T!Removed.rect \subseteq now.rect)
                               \/ T!Stale(now))
          /\ view' = T!Sent(due, copies, sent, now)
    BY <1>1, <1>9
  <2>2. spoilt' \in BOOLEAN
    BY <2>1
  <2>3. Sound(due) /\ \A x \in due.copied : x - due.delta \in T!Cell
    BY <1>2, DueShown DEF due
  <2>4. Sound(updates')
    BY <2>1, <2>3, Subtracted
  <2>5. DrawnInv'
    BY <1>5, <2>1 DEF DrawnInv, Drawn
  <2>6. view' \in [T!Cell -> Pixel \cup {Arrow}]
    <3>1. \A x \in now.rect : now.draw => cursor'.image[x] \in Pixel \cup {Arrow}
      BY <1>3, <1>5, ImageCells
    <3>2. view' = [x \in T!Cell |-> IF now.draw /\ x \in now.rect THEN cursor'.image[x]
                                 ELSE IF x \in sent THEN screen[x]
                                 ELSE IF x \in copies THEN view[x - due.delta] ELSE view[x]]
      BY <2>1 DEF T!Sent, T!Copied
    <3>3. QED BY <1>6, <2>3, <3>1, <3>2
  <2>7. TrackersInv'
    BY <1>1, <1>2, <1>4, <2>1, <2>2, <2>4, <2>5, <2>6, TypesAfter
  <2>8. ASSUME ~spoilt' PROVE PictureInv'
    <3>1. due.copied \subseteq r /\ T!Removed.rect \subseteq now.rect /\ ~T!Stale(now)
      BY <2>1, <2>8
    <3>2. copies = due.copied
      BY <3>1
    <3>3. now.draw => now.rect \subseteq T!CursorCells /\ \A x \in now.rect : cursor'.image[x] = T!Picture[x]
      BY <1>5, <3>1 DEF T!Stale
    <3>4. sent \in SUBSET due.changed
      OBVIOUS
    <3>5. Covers(screen, updates', Behind')
      BY <1>2, <1>5, <2>1, <3>1, <3>2, <3>3, <3>4, UpdateWritten DEF due
    <3>6. QED BY <1>1, <1>2, <3>5, KeptAfter
  <2>9. QED BY <2>7, <2>8 DEF PictureInv
<1>10. QED BY <1>7, <1>8, <1>9

-----------------------------------------------------------------------------
LEMMA InitTrackers == T!Init => TrackersInv /\ PictureInv
<1> SUFFICES ASSUME T!Init PROVE TrackersInv /\ PictureInv
  OBVIOUS
<1>1. Size \in Nat \ {0} /\ 0 \in T!Cell /\ T!Cell \subseteq Int
  BY TrackersAssumption DEF T!Cell
<1>2. PICK p \in Pixel : screen = [x \in T!Cell |-> p]
  BY DEF T!Init
<1>3. PICK q \in Pixel : view = [x \in T!Cell |-> q]
  BY DEF T!Init
<1>4. Sound(comparer) /\ comparer.changed = T!Cell
  <2>1. 0 \in (1 - Size) .. (Size - 1)
    BY <1>1
  <2>2. QED BY <2>1 DEF T!Init, Sound, T!Tracker
<1>5. Sound(updates)
  <2>1. 0 \in (1 - Size) .. (Size - 1)
    BY <1>1
  <2>2. QED BY <2>1 DEF T!Init, Sound, T!Tracker
<1>6. CursorInv
  <2>1. T!NoImage \in [{} -> Pixel \cup {Arrow}]
    BY DEF T!NoImage
  <2>2. T!NoImage \in Images
    BY <2>1 DEF Images
  <2>3. cursor = [pos |-> 0, invalid |-> TRUE, image |-> T!NoImage]
    BY DEF T!Init
  <2>4. QED BY <1>1, <2>2, <2>3 DEF CursorInv
<1>7. DrawnInv
  BY DEF T!Init, DrawnInv, Drawn
<1>8. T!TypeOK
  <2>1. cursor.pos \in T!Cell /\ cursor.invalid \in BOOLEAN /\ DOMAIN cursor.image \subseteq T!Cell
    BY <1>6, ImageCells DEF CursorInv
  <2>2. drawn.rect \subseteq T!Cell /\ {drawn.draw, drawn.remove, drawn.own, spoilt} \subseteq BOOLEAN
    BY DEF T!Init
  <2>3. screen \in [T!Cell -> Pixel] /\ view \in [T!Cell -> Pixel \cup {Arrow}]
    BY <1>2, <1>3
  <2>4. comparer \in T!Tracker /\ updates \in T!Tracker
    BY <1>4, <1>5 DEF Sound
  <2>5. cp \in [supportsLocalCursor : BOOLEAN, useCopyRect : BOOLEAN] /\ events \in 0 .. MaxEvents
        /\ oldFb = <<>> /\ asked = {}
    BY TrackersAssumption DEF T!Init
  <2>6. QED BY <2>1, <2>2, <2>3, <2>4, <2>5 DEF T!TypeOK
<1>9. TrackersInv
  BY <1>4, <1>5, <1>6, <1>7, <1>8 DEF TrackersInv, T!Init
<1>10. Kept(updates, comparer)
  <2>1. oldFb = <<>>
    BY DEF T!Init
  <2>2. \A x \in T!Cell : screen[x] \in T!Applied(comparer, T!Applied(updates, Behind))[x]
    BY <1>2, <1>4 DEF T!Applied
  <2>3. QED BY <2>1, <2>2 DEF Kept, Covers
<1>11. QED BY <1>9, <1>10 DEF PictureInv

(* What happens on the screen, the comparer is told. *)
LEMMA ScreenChanges ==
  ASSUME TrackersInv, Kept(updates, comparer), screen' \in [T!Cell -> Pixel], Sound(comparer'),
         \A v : Covers(screen, comparer, v) => Covers(screen', comparer', v),
         events' \in 0 .. MaxEvents, spoilt' = spoilt,
         UNCHANGED <<oldFb, updates, asked, view, cursor, cp, drawn>>
  PROVE  TrackersInv' /\ PictureInv'
<1>1. T!TypeOK'
  BY DEF TrackersInv, T!TypeOK, Sound
<1>2. CursorInv' /\ DrawnInv'
  BY DEF TrackersInv, CursorInv, T!CursorCells, DrawnInv, Drawn
<1>3. TrackersInv'
  BY <1>1, <1>2 DEF TrackersInv
<1>4. Behind' = Behind
  BY DEF Behind
<1>5. PictureInv'
  BY <1>4 DEF Kept, PictureInv
<1>6. QED BY <1>3, <1>5

LEMMA DrawKeeps ==
  ASSUME TrackersInv, Kept(updates, comparer), NEW x \in T!Cell, NEW p \in Pixel, T!Draw(x, p),
         events' \in 0 .. MaxEvents, spoilt' = spoilt
  PROVE  TrackersInv' /\ PictureInv'
<1>1. /\ screen' = [screen EXCEPT ![x] = p] /\ comparer' = T!add_changed(comparer, {x})
      /\ UNCHANGED <<oldFb, updates, asked, view, cursor, cp, drawn>>
  BY DEF T!Draw
<1>2. screen \in [T!Cell -> Pixel] /\ Sound(comparer) /\ {x} \in SUBSET T!Cell
  BY DEF TrackersInv, T!TypeOK
<1>3. screen' \in [T!Cell -> Pixel] /\ Sound(comparer')
  BY <1>1, <1>2, AddChanged
<1>4. ASSUME NEW v, Covers(screen, comparer, v), NEW y \in T!Cell
      PROVE  screen'[y] \in T!Applied(comparer', v)[y]
  <2>1. y \in {x} \/ screen'[y] \in T!Applied(comparer, v)[y]
    BY <1>1, <1>2, <1>4 DEF Covers
  <2>2. screen'[y] \in Pixel
    BY <1>3
  <2>3. QED BY <1>1, <1>2, <2>1, <2>2, AddChangedCovers
<1>5. \A v : Covers(screen, comparer, v) => Covers(screen', comparer', v)
  BY <1>4 DEF Covers
<1>6. QED BY <1>1, <1>3, <1>5, ScreenChanges

LEMMA ScrollKeeps ==
  ASSUME TrackersInv, Kept(updates, comparer), NEW a \in T!Cell, NEW b \in T!Cell, NEW d \in Int,
         NEW p \in Pixel, T!Scroll(a, b, d, p), events' \in 0 .. MaxEvents, spoilt' = spoilt
  PROVE  TrackersInv' /\ PictureInv'
<1> DEFINE dest == a .. b
<1>1. /\ screen' = [x \in T!Cell |-> IF x \notin dest THEN screen[x]
                                  ELSE IF x - d \in T!Cell THEN screen[x - d] ELSE p]
      /\ comparer' = T!add_copied_clipped(comparer, dest, d)
      /\ UNCHANGED <<oldFb, updates, asked, view, cursor, cp, drawn>>
  BY DEF T!Scroll
<1>2. screen \in [T!Cell -> Pixel] /\ Sound(comparer)
  BY DEF TrackersInv, T!TypeOK
<1>3. dest \in SUBSET T!Cell
  BY TrackersAssumption DEF T!Cell
<1> HIDE DEF dest
<1>4. screen' \in [T!Cell -> Pixel]
  BY <1>1, <1>2
<1>5. /\ Sound(comparer')
      /\ \A v : \A x \in T!Cell, q \in Pixel :
           \/ x \in dest /\ x - d \notin T!Cell
           \/ q \in (IF x \in dest THEN T!Applied(comparer, v)[x - d] ELSE T!Applied(comparer, v)[x])
           => q \in T!Applied(comparer', v)[x]
  BY <1>1, <1>2, <1>3, AddCopiedClipped
<1>6. ASSUME NEW v, Covers(screen, comparer, v), NEW x \in T!Cell
      PROVE  screen'[x] \in T!Applied(comparer', v)[x]
  <2>1. screen'[x] \in Pixel
    BY <1>4
  <2>2. \/ x \in dest /\ x - d \notin T!Cell
        \/ screen'[x] \in (IF x \in dest THEN T!Applied(comparer, v)[x - d] ELSE T!Applied(comparer, v)[x])
    BY <1>1, <1>6 DEF Covers
  <2>3. QED BY <2>1, <2>2, <1>5
<1>7. \A v : Covers(screen, comparer, v) => Covers(screen', comparer', v)
  BY <1>6 DEF Covers
<1>8. QED BY <1>1, <1>4, <1>5, <1>7, ScreenChanges

(* What only changes the cursor, the encodings or who has the pointer. *)
LEMMA CursorChanges ==
  ASSUME TrackersInv, Kept(updates, comparer), CursorInv', DrawnInv', drawn'.rect = drawn.rect,
         cp' \in [supportsLocalCursor : BOOLEAN, useCopyRect : BOOLEAN],
         events' \in 0 .. MaxEvents, spoilt' = spoilt,
         UNCHANGED <<screen, comparer, oldFb, updates, asked, view>>
  PROVE  TrackersInv' /\ PictureInv'
<1>1. cursor'.pos \in T!Cell /\ cursor'.invalid \in BOOLEAN /\ DOMAIN cursor'.image \subseteq T!Cell
  BY ImageCells DEF CursorInv
<1>2. drawn'.rect \subseteq T!Cell /\ {drawn'.draw, drawn'.remove, drawn'.own} \subseteq BOOLEAN
  BY DEF DrawnInv, Drawn
<1>3. T!TypeOK'
  BY <1>1, <1>2 DEF TrackersInv, T!TypeOK
<1>4. TrackersInv'
  BY <1>3 DEF TrackersInv
<1>5. Behind' = Behind
  BY DEF Behind
<1>6. PictureInv'
  BY <1>5 DEF Kept, PictureInv
<1>7. QED BY <1>4, <1>6

LEMMA MoveCursorKeeps ==
  ASSUME TrackersInv, Kept(updates, comparer), NEW pos \in T!Cell, NEW own \in BOOLEAN,
         T!MoveCursor(pos, own), events' \in 0 .. MaxEvents, spoilt' = spoilt
  PROVE  TrackersInv' /\ PictureInv'
<1>1. /\ cursor' = [cursor EXCEPT !.pos = pos, !.invalid = TRUE]
      /\ drawn' = T!Changed([drawn EXCEPT !.own = own])
      /\ UNCHANGED <<screen, comparer, oldFb, updates, asked, view, cp>>
  BY DEF T!MoveCursor
<1>2. CursorInv /\ DrawnInv /\ cp \in [supportsLocalCursor : BOOLEAN, useCopyRect : BOOLEAN]
  BY DEF TrackersInv, T!TypeOK
<1>3. CursorInv'
  BY <1>1, <1>2 DEF CursorInv
<1> DEFINE d == [drawn EXCEPT !.own = own]
           draw == d.draw \/ T!needRenderedCursor(d)
<1>4. d \in Drawn /\ d.rect = drawn.rect
  BY <1>2 DEF DrawnInv, Drawn
<1>5. drawn' = [d EXCEPT !.remove = TRUE, !.draw = draw]
  BY <1>1 DEF T!Changed
<1>6. draw \in BOOLEAN
  BY <1>4 DEF Drawn
<1> HIDE DEF d, draw
<1>7. drawn' \in Drawn /\ drawn'.rect = drawn.rect /\ drawn'.remove
  BY <1>4, <1>5, <1>6 DEF Drawn
<1>8. DrawnInv'
  BY <1>7 DEF DrawnInv, Drawn
<1>9. QED BY <1>1, <1>2, <1>3, <1>7, <1>8, CursorChanges

LEMMA SecondPassesKeeps ==
  ASSUME TrackersInv, Kept(updates, comparer), T!SecondPasses, events' \in 0 .. MaxEvents, spoilt' = spoilt
  PROVE  TrackersInv' /\ PictureInv'
<1>1. /\ drawn' = [drawn EXCEPT !.own = FALSE]
      /\ UNCHANGED <<screen, comparer, oldFb, updates, asked, view, cursor, cp>>
  BY DEF T!SecondPasses
<1>2. CursorInv /\ DrawnInv /\ cp \in [supportsLocalCursor : BOOLEAN, useCopyRect : BOOLEAN]
  BY DEF TrackersInv, T!TypeOK
<1>3. CursorInv'
  BY <1>1, <1>2 DEF CursorInv, T!CursorCells
<1>4. DrawnInv' /\ drawn'.rect = drawn.rect
  BY <1>1, <1>2 DEF DrawnInv, Drawn
<1>5. QED BY <1>1, <1>2, <1>3, <1>4, CursorChanges

LEMMA SetEncodingsKeeps ==
  ASSUME TrackersInv, Kept(updates, comparer),
         NEW encodings \in [supportsLocalCursor : BOOLEAN, useCopyRect : BOOLEAN],
         T!SetEncodings(encodings), events' \in 0 .. MaxEvents, spoilt' = spoilt
  PROVE  TrackersInv' /\ PictureInv'
<1>1. /\ cp' = encodings
      /\ drawn' = IF encodings.supportsLocalCursor /\ ~cp.supportsLocalCursor
                  THEN [drawn EXCEPT !.remove = TRUE, !.draw = FALSE] ELSE drawn
      /\ UNCHANGED <<screen, comparer, oldFb, updates, asked, view, cursor>>
  BY DEF T!SetEncodings
<1>2. CursorInv /\ DrawnInv
  BY DEF TrackersInv
<1>3. CursorInv'
  BY <1>1, <1>2 DEF CursorInv, T!CursorCells
<1>4. DrawnInv' /\ drawn'.rect = drawn.rect
  <2>1. drawn' = drawn \/ drawn' = [drawn EXCEPT !.remove = TRUE, !.draw = FALSE]
    BY <1>1
  <2>2. QED BY <2>1, <1>2 DEF DrawnInv, Drawn
<1>5. QED BY <1>1, <1>3, <1>4, CursorChanges

(* The requests, and the updates of the other clients. *)
LEMMA RequestKeeps ==
  ASSUME TrackersInv, Kept(updates, comparer), ~spoilt, NEW r \in SUBSET T!Cell, NEW incremental \in BOOLEAN,
         T!Request(r, incremental), events' = events
  PROVE  TrackersInv' /\ PictureInv'
<1> DEFINE Asked(t) == IF incremental THEN t ELSE T!add_changed(t, r)
<1>1. T!writeFramebufferUpdate(asked \cup r, Asked(updates), Asked(comparer))
  BY DEF T!Request
<1>2. /\ Sound(updates) /\ Sound(comparer) /\ asked \cup r \in SUBSET T!Cell
      /\ screen \in [T!Cell -> Pixel] /\ oldFb \in [T!Cell -> Pixel] \cup {<<>>}
  BY DEF TrackersInv, T!TypeOK
<1>3. ASSUME NEW t, Sound(t)
      PROVE  /\ Sound(Asked(t))
             /\ \A v : \A x \in T!Cell, p \in Pixel :
                   p \in T!Applied(t, v)[x] => p \in T!Applied(Asked(t), v)[x]
  BY <1>3, AddChanged, AddChangedCovers
<1> HIDE DEF Asked
<1>4. Kept(Asked(updates), Asked(comparer))
  <2>1. \A x \in T!Cell : screen[x] \in Pixel
    BY <1>2
  <2>2. CASE oldFb = <<>>
    <3>1. \A x \in T!Cell : screen[x] \in T!Applied(comparer, T!Applied(updates, Behind))[x]
      BY <2>2 DEF Kept, Covers
    <3>2. \A x \in T!Cell : screen[x] \in T!Applied(Asked(comparer), T!Applied(updates, Behind))[x]
      BY <3>1, <2>1, <1>2, <1>3
    <3> DEFINE c == Asked(comparer)
    <3>3. Sound(c)
      BY <1>2, <1>3
    <3> HIDE DEF c
    <3>4. ASSUME NEW x \in T!Cell PROVE screen[x] \in T!Applied(c, T!Applied(Asked(updates), Behind))[x]
      <4>1. \A y \in T!Cell : screen[x] \in T!Applied(updates, Behind)[y]
                             => screen[x] \in T!Applied(Asked(updates), Behind)[y]
        BY <2>1, <1>2, <1>3
      <4>2. screen[x] \in T!Applied(c, T!Applied(updates, Behind))[x]
        BY <3>2 DEF c
      <4>3. x \in c.copied => x - c.delta \in T!Cell
        BY <3>3 DEF Sound
      <4>4. QED
        <5> DEFINE v == T!Applied(updates, Behind)
                   w == T!Applied(Asked(updates), Behind)
        <5>1. \A y \in T!Cell : screen[x] \in v[y] => screen[x] \in w[y]
          BY <4>1
        <5>2. screen[x] \in T!Applied(c, v)[x]
          BY <4>2
        <5> HIDE DEF v, w
        <5>3. screen[x] \in T!Applied(c, w)[x]
          BY <5>1, <5>2, <4>3 DEF T!Applied
        <5>4. QED BY <5>3 DEF w
    <3>5. QED BY <2>2, <3>4 DEF Kept, Covers, c
  <2>3. CASE oldFb # <<>>
    <3>1. \A x \in T!Cell : oldFb[x] \in Pixel /\ oldFb[x] \in T!Applied(updates, Behind)[x]
                          /\ screen[x] \in T!Applied(comparer, Only(oldFb))[x]
      BY <2>3, <1>2 DEF Kept, Covers
    <3>2. \A x \in T!Cell : oldFb[x] \in T!Applied(Asked(updates), Behind)[x]
                          /\ screen[x] \in T!Applied(Asked(comparer), Only(oldFb))[x]
      BY <3>1, <2>1, <1>2, <1>3
    <3>3. QED BY <2>3, <3>2 DEF Kept, Covers
  <2>4. QED BY <2>2, <2>3
<1>5. Sound(Asked(updates)) /\ Sound(Asked(comparer))
  BY <1>2, <1>3
<1>6. QED BY <1>1, <1>2, <1>4, <1>5, UpdateSent

LEMMA TryUpdateKeeps ==
  ASSUME TrackersInv, Kept(updates, comparer), ~spoilt, T!TryUpdate, events' = events
  PROVE  TrackersInv' /\ PictureInv'
<1>1. T!writeFramebufferUpdate(asked, updates, comparer)
  BY DEF T!TryUpdate
<1>2. Sound(updates) /\ Sound(comparer) /\ asked \in SUBSET T!Cell
  BY DEF TrackersInv, T!TypeOK
<1>3. QED BY <1>1, <1>2, UpdateSent

LEMMA OtherClientsUpdateKeeps ==
  ASSUME TrackersInv, Kept(updates, comparer), T!OtherClientsUpdate, events' = events
  PROVE  TrackersInv' /\ PictureInv'
<1>1. /\ T!checkUpdate(comparer) /\ updates' = T!told(updates, comparer)
      /\ UNCHANGED <<screen, asked, view, cp, drawn, spoilt>>
  BY DEF T!OtherClientsUpdate
<1>2. /\ Sound(updates) /\ Sound(comparer) /\ asked \subseteq T!Cell
      /\ view \in [T!Cell -> Pixel \cup {Arrow}] /\ spoilt \in BOOLEAN /\ DrawnInv
  BY DEF TrackersInv, T!TypeOK
<1>3. /\ Sound(updates') /\ Covers(screen, updates', Behind)
      /\ Sound(comparer') /\ T!is_empty(comparer')
      /\ oldFb' \in {<<>>, screen}
      /\ oldFb' # <<>> => CompareFB
  BY <1>1, <1>2, Checked
<1>4. CursorInv'
  BY <1>1, CursorChecked DEF CursorInv, T!CursorCells
<1>5. DrawnInv' /\ Behind' = Behind
  BY <1>1, <1>2 DEF DrawnInv, Drawn, Behind
<1>6. TrackersInv'
  BY <1>1, <1>2, <1>3, <1>4, <1>5, TypesAfter
<1>7. PictureInv'
  BY <1>1, <1>3, <1>5, KeptAfter
<1>8. QED BY <1>6, <1>7

LEMMA NextKeeps == TrackersInv /\ PictureInv /\ [T!Next]_(T!vars) => TrackersInv' /\ PictureInv'
<1> SUFFICES ASSUME TrackersInv, PictureInv, [T!Next]_(T!vars) PROVE TrackersInv' /\ PictureInv'
  OBVIOUS
<1>1. CASE UNCHANGED T!vars
  BY <1>1 DEF T!vars, TrackersInv, T!TypeOK, CursorInv, T!CursorCells, DrawnInv, Drawn, PictureInv, Kept, Behind
<1>2. CASE ~spoilt /\ T!Event /\ events < MaxEvents /\ events' = events + 1 /\ UNCHANGED spoilt
  <2>1. /\ ~spoilt /\ spoilt' = spoilt
    BY <1>2
  <2>2. events' \in 0 .. MaxEvents
    BY <1>2, TrackersAssumption DEF TrackersInv, T!TypeOK
  <2>3. Kept(updates, comparer)
    BY <2>1 DEF PictureInv
  <2>4. CASE \E x \in T!Cell, p \in Pixel : T!Draw(x, p)
    BY <2>1, <2>2, <2>3, <2>4, DrawKeeps
  <2>5. CASE \E a, b \in T!Cell, d \in {-1, 1}, p \in Pixel : a <= b /\ T!Scroll(a, b, d, p)
    BY <2>1, <2>2, <2>3, <2>5, ScrollKeeps
  <2>6. CASE \E pos \in T!Cell, own \in BOOLEAN : T!MoveCursor(pos, own)
    BY <2>1, <2>2, <2>3, <2>6, MoveCursorKeeps
  <2>7. CASE T!SecondPasses
    BY <2>1, <2>2, <2>3, <2>7, SecondPassesKeeps
  <2>8. CASE \E l, r \in BOOLEAN : T!SetEncodings([supportsLocalCursor |-> l, useCopyRect |-> r])
    <3>1. PICK l \in BOOLEAN, r \in BOOLEAN : T!SetEncodings([supportsLocalCursor |-> l, useCopyRect |-> r])
      BY <2>8
    <3>2. [supportsLocalCursor |-> l, useCopyRect |-> r]
            \in [supportsLocalCursor : BOOLEAN, useCopyRect : BOOLEAN]
      OBVIOUS
    <3>3. QED BY <2>1, <2>2, <2>3, <3>1, <3>2, SetEncodingsKeeps
  <2>9. QED BY <1>2, <2>4, <2>5, <2>6, <2>7, <2>8 DEF T!Event
<1>3. CASE ~spoilt /\ T!Update /\ UNCHANGED events
  <2>1. ~spoilt /\ Kept(updates, comparer) /\ events' = events
    BY <1>3 DEF PictureInv
  <2>2. CASE T!TryUpdate
    BY <2>1, <2>2, TryUpdateKeeps
  <2>3. CASE T!OtherClientsUpdate
    BY <2>1, <2>3, OtherClientsUpdateKeeps
  <2>4. CASE \E r \in Wanted, incremental \in BOOLEAN : T!Request(r, incremental)
    <3>1. PICK r \in Wanted, incremental \in BOOLEAN : T!Request(r, incremental)
      BY <2>4
    <3>2. r \in SUBSET T!Cell
      BY TrackersAssumption DEF T!Cell
    <3>3. QED BY <2>1, <3>1, <3>2, RequestKeeps
  <2>5. QED BY <1>3, <2>2, <2>3, <2>4 DEF T!Update
<1>4. QED BY <1>1, <1>2, <1>3 DEF T!Next, T!Ended

(* What is behind the comparer's copy of the screen comes through it. *)
LEMMA KeptIsSeen ==
  ASSUME TrackersInv, PictureInv
  PROVE  T!ClientsSeeTheScreen
<1> SUFFICES ASSUME ~spoilt, NEW x \in T!Cell
             PROVE  screen[x] \in T!Applied(comparer, T!Applied(updates, Behind))[x]
  BY DEF T!ClientsSeeTheScreen, Behind
<1>1. Kept(updates, comparer) /\ Sound(comparer) /\ screen[x] \in Pixel
  BY DEF PictureInv, TrackersInv, T!TypeOK
<1>2. CASE oldFb = <<>>
  BY <1>1, <1>2 DEF Kept, Covers
<1>3. CASE oldFb # <<>>
  <2> DEFINE v == T!Applied(updates, Behind)
  <2>1. \A y \in T!Cell : oldFb[y] \in v[y]
    BY <1>1, <1>3 DEF Kept, Covers
  <2>2. screen[x] \in T!Applied(comparer, Only(oldFb))[x]
    BY <1>1, <1>3 DEF Kept, Covers
  <2>3. x \in comparer.copied => x - comparer.delta \in T!Cell
    BY <1>1 DEF Sound
  <2> HIDE DEF v
  <2>4. screen[x] \in T!Applied(comparer, v)[x]
    BY <2>1, <2>2, <2>3, <1>1 DEF T!Applied, Only
  <2>5. QED BY <2>4 DEF v
<1>4. QED BY <1>2, <1>3

-----------------------------------------------------------------------------
(* The copy of the screen                                                  *)

(* What the bitmap, the buffer and the clients have in common. *)
CopyInUse ==
  /\ bitmap \in W!Modes /\ dataAlive
  /\ buffer = W!BufferFor(bitmap)
  /\ W!Equal(told.pf, buffer.pf) /\ told.size = buffer.size
  /\ ~W!Refused(buffer.pf)

CopyInv ==
  /\ mode \in W!Modes
  /\ server \in {"STOPPED", "STARTING", "SCANNING", "READY", "GIVEN UP"}
  /\ server \in {"STARTING", "SCANNING"} => space \in ColourSpaces
  /\ server \in {"SCANNING", "READY"} => CopyInUse

LEMMA EqualFormats ==
  ASSUME NEW a, NEW b, NEW c, W!Equal(a, b), W!Equal(b, c)
  PROVE  W!Equal(a, c)
BY DEF W!Equal

LEMMA Alike == \A pf : W!Equal(pf, pf)
BY DEF W!Equal

LEMMA CopyInit == W!Init => CopyInv
BY DEF W!Init, CopyInv

LEMMA NewBitmapKeeps ==
  ASSUME CopyInv, W!NewBitmap
  PROVE  CopyInv'
<1> DEFINE made == [space |-> space, size |-> mode.size]
           next == W!BufferFor(made)
<1>1. /\ server \in {"STARTING", "SCANNING"} /\ bitmap' = made /\ buffer' = next /\ dataAlive'
      /\ told' = IF W!Tells(next) THEN [pf |-> next.pf, size |-> next.size] ELSE told
      /\ server' = IF W!Tells(next) /\ W!Refused(next.pf) THEN "GIVEN UP" ELSE "READY"
      /\ UNCHANGED <<mode, space>>
  BY DEF W!NewBitmap
<1>2. made \in W!Modes
  BY <1>1 DEF CopyInv, W!Modes
<1> HIDE DEF made, next
<1>3. ASSUME server' = "READY" PROVE CopyInUse'
  <2>1. CASE W!Tells(next)
    <3>1. ~W!Refused(next.pf) /\ told' = [pf |-> next.pf, size |-> next.size]
      BY <1>1, <1>3, <2>1
    <3>2. QED BY <3>1, <1>1, <1>2, Alike DEF CopyInUse, next
  <2>2. CASE ~W!Tells(next)
    <3>1. /\ server = "SCANNING" /\ W!Equal(buffer.pf, next.pf) /\ buffer.size = next.size /\ told' = told
      BY <1>1, <2>2 DEF W!Tells
    <3>2. CopyInUse
      BY <3>1 DEF CopyInv
    <3>3. W!Equal(told.pf, next.pf) /\ told.size = next.size
      BY <3>1, <3>2, EqualFormats DEF CopyInUse
    <3>4. ~W!Refused(next.pf)
      BY <3>1, <3>2 DEF CopyInUse, W!Refused, W!Equal
    <3>5. QED BY <3>1, <3>3, <3>4, <1>1, <1>2 DEF CopyInUse, next
  <2>3. QED BY <2>1, <2>2
<1>4. QED BY <1>1, <1>3 DEF CopyInv

LEMMA CopyNext == CopyInv /\ [W!Next]_(W!vars) => CopyInv'
<1> SUFFICES ASSUME CopyInv, [W!Next]_(W!vars) PROVE CopyInv'
  OBVIOUS
<1>1. CASE UNCHANGED W!vars
  BY <1>1 DEF W!vars, W!frameBufferVars, CopyInv, CopyInUse
<1>2. ASSUME NEW m \in W!Modes, W!SwitchMode(m) PROVE CopyInv'
  BY <1>2 DEF W!SwitchMode, W!frameBufferVars, CopyInv, CopyInUse
<1>3. CASE W!AskColourSpace
  BY <1>3 DEF W!AskColourSpace, CopyInv, CopyInUse, W!Modes
<1>4. CASE W!KeepBitmap
  BY <1>4 DEF W!KeepBitmap, W!frameBufferVars, CopyInv, CopyInUse
<1>5. CASE W!NewBitmap
  BY <1>5, NewBitmapKeeps
<1>6. CASE W!AllocationFails
  BY <1>6 DEF W!AllocationFails, CopyInv, CopyInUse
<1>7. CASE W!StopDesktop
  BY <1>7 DEF W!StopDesktop, CopyInv, CopyInUse
<1>8. QED BY <1>1, <1>2, <1>3, <1>4, <1>5, <1>6, <1>7 DEF W!Next

(* The rows of a bitmap are a whole number of pixels long. *)
LEMMA WholePixels ==
  ASSUME NEW m \in W!Modes, ~W!Refused(W!FormatOf(m.space))
  PROVE  LET buf == W!BufferFor(m)
         IN  /\ W!BytesPerRow(m) \in Nat /\ buf.stride \in Nat
             /\ buf.stride * buf.pf.bytes = W!BytesPerRow(m)
             /\ buf.pf.bytes = W!Stored(m.space).bytes /\ buf.pf.bytes \in {1, 2, 4}
<1> DEFINE bytes == W!Stored(m.space).bytes
           n == (bytes * m.size[1] + RowAlign - 1) \div RowAlign
           row == RowAlign * n
           quad == RowAlign \div 4
<1>1. W!FormatOf(m.space).bytes = bytes
  BY DEF W!FormatOf, W!Stored, W!Refused
<1>2. bytes \in {1, 2, 4}
  BY <1>1 DEF W!Refused
<1>3. m.size[1] \in Nat
  BY CopyAssumption DEF W!Modes
<1>4. n \in Nat
  <2>1. bytes * m.size[1] + RowAlign - 1 \in Nat
    BY <1>2, <1>3, CopyAssumption
  <2>2. QED BY <2>1, CopyAssumption
<1>5. quad \in Nat /\ RowAlign = 4 * quad
  BY CopyAssumption
<1> HIDE DEF n, quad, bytes
<1>6. row = 4 * (quad * n) /\ quad * n \in Nat
  BY <1>4, <1>5
<1>7. row \in Nat /\ row \div bytes \in Nat /\ (row \div bytes) * bytes = row
  <2> DEFINE k == quad * n
  <2> HIDE DEF k
  <2>1. row = 4 * k /\ k \in Nat
    BY <1>6 DEF k
  <2> HIDE DEF row
  <2>2. QED BY <2>1, <1>2
<1>8. W!BytesPerRow(m) = row
  BY DEF W!BytesPerRow, n, bytes
<1>9. W!BufferFor(m).pf.bytes = bytes /\ W!BufferFor(m).stride = row \div bytes
  BY <1>1, <1>8 DEF W!BufferFor
<1>10. QED BY <1>2, <1>7, <1>8, <1>9 DEF bytes

LEMMA FormatIsStored ==
  ASSUME NEW cs, ~W!Refused(W!FormatOf(cs))
  PROVE  LET pf == W!FormatOf(cs)
         IN  /\ pf.bigEndian = nativeBigEndian
             /\ pf.trueColour =>
                  /\ \A c \in W!Channels : pf.max[c] = 2 ^ W!Stored(cs).bits[c] - 1
                  /\ LET bits == W!Stored(cs).bits
                     IN  pf.shift = W!RGB(bits["b"] + bits["g"], bits["b"], 0)
BY DEF W!FormatOf, W!Stored, W!RGB, W!Channels, W!Refused

LEMMA InUseIsRead ==
  ASSUME CopyInUse
  PROVE  W!CopyIsReadAsItIs
<1> DEFINE stored == W!Stored(bitmap.space)
           pf == buffer.pf
<1>1. pf = W!FormatOf(bitmap.space) /\ ~W!Refused(W!FormatOf(bitmap.space)) /\ buffer.size = bitmap.size
  BY DEF CopyInUse, W!BufferFor
<1>2. /\ W!BytesPerRow(bitmap) \in Nat /\ buffer.stride \in Nat
      /\ buffer.stride * pf.bytes = W!BytesPerRow(bitmap)
      /\ pf.bytes = stored.bytes /\ pf.bytes \in {1, 2, 4}
  BY <1>1, WholePixels DEF CopyInUse
<1>3. ASSUME NEW x \in 0 .. bitmap.size[1] - 1, NEW y \in 0 .. bitmap.size[2] - 1
      PROVE  W!Looked(x, y) = W!Kept(x, y)
  <2>1. x \in Nat /\ y \in Nat
    BY CopyAssumption DEF CopyInUse, W!Modes
  <2>2. (y * buffer.stride + x) * pf.bytes = y * (buffer.stride * pf.bytes) + x * pf.bytes
    <3> DEFINE s == buffer.stride
               b == pf.bytes
    <3>1. s \in Nat /\ b \in {1, 2, 4}
      BY <1>2
    <3> HIDE DEF s, b
    <3>2. (y * s + x) * b = y * (s * b) + x * b
      BY <2>1, <3>1
    <3>3. QED BY <3>2 DEF s, b
  <2>3. QED BY <2>2, <1>2 DEF W!Looked, W!Kept
<1>4. QED BY <1>1, <1>2, <1>3, FormatIsStored DEF CopyInUse, W!CopyIsReadAsItIs

-----------------------------------------------------------------------------
(* The cursor                                                              *)

Point == Int \X Int

(* The rows of the mask may be longer than those of the picture; what is   *)
(* beyond the edge came from an outline of what is at the edge.            *)
ImageShape(c) ==
  /\ c = [w |-> c.w, h |-> c.h, hotspot |-> c.hotspot, pixels |-> c.pixels, mask |-> c.mask]
  /\ c.w \in Nat /\ c.h \in Nat /\ c.hotspot \in Point
  /\ DOMAIN c.pixels = K!Plane(c.w, c.h)
  /\ c.mask \subseteq K!Plane(K!maskWidth(c.w), c.h)
  /\ \A p \in c.mask : p[1] >= c.w => <<c.w - 1, p[2]>> \in c.mask

(* What is visible is what was asked for, seen from the hotspot. *)
AsAsked(c, a) ==
  /\ DOMAIN a \subseteq Point
  /\ \A d \in Point : /\ d \in DOMAIN a <=> K!Plus(d, c.hotspot) \in K!Visible(c)
                      /\ d \in DOMAIN a => a[d] = c.pixels[K!Plus(d, c.hotspot)]

(* No edge of the picture can be moved without losing something. *)
Tight(c) ==
  LET all == K!Visible(c) \cup {c.hotspot}
  IN  /\ c.hotspot \in K!Plane(c.w, c.h)
      /\ \E e, f \in all : e[1] = 0 /\ f[1] = c.w - 1
      /\ \E e, f \in all : e[2] = 0 /\ f[2] = c.h - 1

CursorShapeInv ==
  /\ ImageShape(cursorImage)
  /\ AsAsked(cursorImage, cursorAsked)
  /\ cursorImage.w = 0 \/ Tight(cursorImage)

LEMMA PlusMinus ==
  ASSUME NEW p \in Point, NEW q \in Point
  PROVE  /\ K!Minus(p, q) \in Point /\ K!Plus(p, q) \in Point
         /\ K!Plus(K!Minus(p, q), q) = p /\ K!Minus(K!Plus(p, q), q) = p
BY DEF Point, K!Plus, K!Minus

LEMMA PlanePoints ==
  ASSUME NEW w \in Int, NEW h \in Int
  PROVE  /\ K!Plane(w, h) \subseteq Point
         /\ \A p \in Point : p \in K!Plane(w, h) <=> 0 <= p[1] /\ p[1] < w /\ 0 <= p[2] /\ p[2] < h
BY DEF K!Plane, Point

(* The part of the cursor that is on the screen. *)
LEMMA Clipped ==
  ASSUME NEW w \in Nat, NEW h \in Nat, NEW TL \in Point, NEW s \in Nat, NEW p \in K!Plane(s, s)
  PROVE  LET r == K!intersect(K!translate(K!Rect(0, 0, w, h), TL[1], TL[2]), K!Rect(0, 0, s, s))
         IN  /\ r.x1 \in Int /\ r.y1 \in Int /\ r.x2 \in Int /\ r.y2 \in Int
             /\ p \in K!Points(r) <=> K!Minus(p, TL) \in K!Plane(w, h)
<1>1. p \in Point /\ 0 <= p[1] /\ p[1] < s /\ 0 <= p[2] /\ p[2] < s /\ K!Minus(p, TL) \in Point
  BY PlanePoints, PlusMinus
<1>2. K!Minus(p, TL) \in K!Plane(w, h) <=>
        0 <= p[1] - TL[1] /\ p[1] - TL[1] < w /\ 0 <= p[2] - TL[2] /\ p[2] - TL[2] < h
  BY <1>1, PlanePoints DEF K!Minus, Point
<1> DEFINE r == K!intersect(K!translate(K!Rect(0, 0, w, h), TL[1], TL[2]), K!Rect(0, 0, s, s))
<1>3. /\ TL[1] \in Int /\ TL[2] \in Int /\ p[1] \in Int /\ p[2] \in Int /\ p = <<p[1], p[2]>>
  BY <1>1 DEF Point
<1>4. /\ r.x1 = K!max_vnc(TL[1], 0) /\ r.x2 = K!max_vnc(K!min_vnc(w + TL[1], s), r.x1)
      /\ r.y1 = K!max_vnc(TL[2], 0) /\ r.y2 = K!max_vnc(K!min_vnc(h + TL[2], s), r.y1)
  BY <1>3 DEF K!intersect, K!translate, K!Rect
<1> HIDE DEF r
<1>5. r.x1 \in Int /\ r.y1 \in Int /\ r.x2 \in Int /\ r.y2 \in Int
  BY <1>3, <1>4 DEF K!max_vnc, K!min_vnc
<1>6. p \in K!Points(r) <=> r.x1 <= p[1] /\ p[1] < r.x2 /\ r.y1 <= p[2] /\ p[2] < r.y2
  BY <1>3, <1>5 DEF K!Points
<1>7. r.x1 <= p[1] /\ p[1] < r.x2 <=> 0 <= p[1] - TL[1] /\ p[1] - TL[1] < w
  BY <1>1, <1>3, <1>4 DEF K!max_vnc, K!min_vnc
<1>8. r.y1 <= p[2] /\ p[2] < r.y2 <=> 0 <= p[2] - TL[2] /\ p[2] - TL[2] < h
  BY <1>1, <1>3, <1>4 DEF K!max_vnc, K!min_vnc
<1>9. p \in K!Points(r) <=> K!Minus(p, TL) \in K!Plane(w, h)
  BY <1>2, <1>6, <1>7, <1>8
<1>10. QED BY <1>5, <1>9 DEF r

LEMMA ScreenShowsAsked ==
  ASSUME CursorShapeInv, NEW pos \in DOMAIN K!Screen
  PROVE  K!Shown(pos) =
           [p \in DOMAIN K!Screen |->
              LET d == K!Minus(p, pos) IN IF d \in DOMAIN cursorAsked THEN cursorAsked[d] ELSE ScreenPixel]
<1> DEFINE S == K!Plane(ScreenSide, ScreenSide)
           TL == K!Minus(pos, cursorImage.hotspot)
           r == K!intersect(K!translate(K!Rect(0, 0, cursorImage.w, cursorImage.h), TL[1], TL[2]),
                            K!Rect(0, 0, ScreenSide, ScreenSide))
           tl == <<r.x1, r.y1>>
           behind == [p \in K!Plane(K!width(r), K!height(r)) |-> K!Screen[K!Plus(p, tl)]]
           at == K!Minus(TL, tl)
           masked == K!maskRect(behind, at[1], at[2], cursorImage.pixels, cursorImage.mask)
<1>1. DOMAIN K!Screen = S /\ S \subseteq Point /\ ScreenSide \in Nat
  BY ShapesAssumption, PlanePoints DEF K!Screen
<1>2. /\ cursorImage.w \in Nat /\ cursorImage.h \in Nat /\ cursorImage.hotspot \in Point /\ TL \in Point
      /\ DOMAIN cursorImage.pixels = K!Plane(cursorImage.w, cursorImage.h)
  BY <1>1, PlusMinus DEF CursorShapeInv, ImageShape
<1>3. K!renderedCursor(pos) = [rect |-> r, pixels |-> masked]
  BY DEF K!renderedCursor, K!getRect
<1> DEFINE onScreen == [p \in DOMAIN K!Screen |->
                          IF p \in K!Points(r) THEN masked[K!Minus(p, tl)] ELSE K!Screen[p]]
<1>10. K!Shown(pos) = onScreen
  <2> HIDE DEF r, behind, at, masked
  <2>1. QED BY <1>3 DEF K!Shown
<1> SUFFICES ASSUME NEW p \in S
             PROVE  (IF p \in K!Points(r) THEN masked[K!Minus(p, tl)] ELSE K!Screen[p])
                    = IF K!Minus(p, pos) \in DOMAIN cursorAsked THEN cursorAsked[K!Minus(p, pos)]
                      ELSE ScreenPixel
  <2> HIDE DEF r, masked
  <2>1. QED BY <1>1, <1>10
<1>4. /\ r.x1 \in Int /\ r.y1 \in Int /\ r.x2 \in Int /\ r.y2 \in Int
      /\ p \in K!Points(r) <=> K!Minus(p, TL) \in K!Plane(cursorImage.w, cursorImage.h)
  BY <1>1, <1>2, Clipped
<1> HIDE DEF r
<1>5. /\ K!Plus(K!Minus(p, pos), cursorImage.hotspot) = K!Minus(p, TL)
      /\ K!Minus(p, TL) \in Point /\ K!Minus(p, pos) \in Point
  BY <1>1, <1>2 DEF K!Minus, K!Plus, Point
<1>6. /\ K!Minus(p, pos) \in DOMAIN cursorAsked <=> K!Minus(p, TL) \in K!Visible(cursorImage)
      /\ K!Minus(p, pos) \in DOMAIN cursorAsked
           => cursorAsked[K!Minus(p, pos)] = cursorImage.pixels[K!Minus(p, TL)]
  BY <1>5 DEF CursorShapeInv, AsAsked
<1>7. CASE p \notin K!Points(r)
  BY <1>1, <1>4, <1>6, <1>7 DEF K!Screen, K!Visible
<1>8. CASE p \in K!Points(r)
  <2> DEFINE q == K!Minus(p, tl)
  <2>1. q \in K!Plane(K!width(r), K!height(r)) /\ K!Plus(q, tl) = p
    BY <1>1, <1>4, <1>8 DEF K!Points, K!Plane, K!Minus, K!Plus, K!width, K!height, Point
  <2>2. <<q[1] - at[1], q[2] - at[2]>> = K!Minus(p, TL)
    BY <1>1, <1>2, <1>4 DEF K!Minus, Point
  <2>3. behind[q] = ScreenPixel
    BY <2>1, <1>1 DEF K!Screen
  <2>4. masked[q] = IF K!Minus(p, TL) \in cursorImage.mask \cap DOMAIN cursorImage.pixels
                   THEN cursorImage.pixels[K!Minus(p, TL)] ELSE ScreenPixel
    BY <2>1, <2>2, <2>3 DEF K!maskRect
  <2>5. QED BY <2>4, <1>2, <1>6, <1>8 DEF K!Visible
<1>9. QED BY <1>7, <1>8

LEMMA LeastAndGreatest ==
  ASSUME NEW n \in Nat, NEW S \in SUBSET (0 .. n - 1), S # {}
  PROVE  /\ K!Min(S) \in S /\ \A x \in S : K!Min(S) <= x
         /\ K!Max(S) \in S /\ \A x \in S : x <= K!Max(S)
<1>1. \E x \in S : \A y \in S : x <= y
  <2>1. S \in SUBSET Nat
    OBVIOUS
  <2>2. QED BY <2>1, LeastNatural
<1>2. \E x \in S : \A y \in S : x >= y
  <2> DEFINE Down == {n - x : x \in S}
  <2>1. Down \in SUBSET Nat /\ Down # {}
    OBVIOUS
  <2>2. PICK t \in Down : \A y \in Down : t <= y
    BY <2>1, LeastNatural
  <2>3. PICK x \in S : t = n - x
    OBVIOUS
  <2>4. ASSUME NEW y \in S PROVE x >= y
    <3>1. n - y \in Down
      OBVIOUS
    <3>2. QED BY <2>2, <2>3, <3>1
  <2>5. QED BY <2>4
<1>3. QED BY <1>1, <1>2 DEF K!Min, K!Max

(* The busy rectangle has all that is visible and the hotspot, and no less. *)
LEMMA BusyIsTight ==
  ASSUME NEW c, K!IsShape(c)
  PROVE  LET b == K!Busy(c)
             all == K!Visible(c) \cup {c.hotspot}
         IN  /\ b = K!Rect(b.x1, b.y1, b.x2, b.y2)
             /\ b.x1 \in Nat /\ b.y1 \in Nat /\ b.x2 \in Nat /\ b.y2 \in Nat
             /\ b.x2 <= c.w /\ b.y2 <= c.h
             /\ \A p \in all : b.x1 <= p[1] /\ p[1] < b.x2 /\ b.y1 <= p[2] /\ p[2] < b.y2
             /\ \E e, f \in all : e[1] = b.x1 /\ f[1] = b.x2 - 1
             /\ \E e, f \in all : e[2] = b.y1 /\ f[2] = b.y2 - 1
<1> DEFINE all == K!Visible(c) \cup {c.hotspot}
           xs == {p[1] : p \in all}
           ys == {p[2] : p \in all}
<1>1. /\ c.w \in Nat /\ c.h \in Nat /\ all \subseteq K!Plane(c.w, c.h) /\ c.hotspot \in K!Plane(c.w, c.h)
  BY DEF K!IsShape, K!Visible
<1>2. K!Busy(c) = K!Rect(K!Min(xs), K!Min(ys), K!Max(xs) + 1, K!Max(ys) + 1)
  BY <1>1 DEF K!Busy
<1>3. xs \in SUBSET (0 .. c.w - 1) /\ ys \in SUBSET (0 .. c.h - 1) /\ xs # {} /\ ys # {}
  BY <1>1 DEF K!Plane
<1>4. /\ \A p \in all : p[1] \in xs /\ p[2] \in ys
      /\ \A x \in xs : \E p \in all : p[1] = x
      /\ \A y \in ys : \E p \in all : p[2] = y
  OBVIOUS
<1> HIDE DEF xs, ys, all
<1>5. /\ K!Min(xs) \in xs /\ K!Max(xs) \in xs /\ \A x \in xs : K!Min(xs) <= x /\ x <= K!Max(xs)
      /\ K!Min(ys) \in ys /\ K!Max(ys) \in ys /\ \A y \in ys : K!Min(ys) <= y /\ y <= K!Max(ys)
  BY <1>1, <1>3, LeastAndGreatest
<1> DEFINE left == K!Min(xs)
           top == K!Min(ys)
           right == K!Max(xs)
           bottom == K!Max(ys)
<1>6. /\ left \in 0 .. c.w - 1 /\ right \in 0 .. c.w - 1
      /\ top \in 0 .. c.h - 1 /\ bottom \in 0 .. c.h - 1
  BY <1>3, <1>5
<1>7. K!Busy(c) = K!Rect(left, top, right + 1, bottom + 1)
  BY <1>2
<1>8. ASSUME NEW p \in all PROVE left <= p[1] /\ p[1] <= right /\ top <= p[2] /\ p[2] <= bottom
  BY <1>4, <1>5
<1>9. \E e, f \in all : e[1] = left /\ f[1] = right
  BY <1>4, <1>5
<1>10. \E e, f \in all : e[2] = top /\ f[2] = bottom
  BY <1>4, <1>5
<1> HIDE DEF left, top, right, bottom
<1> DEFINE b == K!Busy(c)
<1>12. /\ b.x1 = left /\ b.y1 = top /\ b.x2 = right + 1 /\ b.y2 = bottom + 1
       /\ b = K!Rect(b.x1, b.y1, b.x2, b.y2)
  BY <1>7 DEF K!Rect
<1> HIDE DEF b
<1>13. /\ b.x1 \in Nat /\ b.y1 \in Nat /\ b.x2 \in Nat /\ b.y2 \in Nat
       /\ b.x2 <= c.w /\ b.y2 <= c.h /\ b.x2 - 1 = right /\ b.y2 - 1 = bottom
  BY <1>1, <1>6, <1>12
<1>14. ASSUME NEW p \in all PROVE b.x1 <= p[1] /\ p[1] < b.x2 /\ b.y1 <= p[2] /\ p[2] < b.y2
  <2>1. p[1] \in Int /\ p[2] \in Int
    BY <1>1 DEF K!Plane
  <2>2. QED BY <2>1, <1>6, <1>8, <1>12
<1>15. QED BY <1>9, <1>10, <1>12, <1>13, <1>14 DEF b, all

LEMMA WiderMask ==
  ASSUME NEW w \in Nat
  PROVE  /\ K!maskWidth(w) \in Nat /\ w <= K!maskWidth(w)
         /\ \A h \in Nat : \A p \in K!Plane(w, h) : p \in K!Plane(K!maskWidth(w), h)
<1> DEFINE q == (w + MaskBits - 1) \div MaskBits
           r == (w + MaskBits - 1) % MaskBits
           M == MaskBits
<1>1. M \in Nat \ {0} /\ w + M - 1 \in Nat
  BY ShapesAssumption
<1>2. q \in Nat /\ r \in 0 .. M - 1 /\ w + M - 1 = M * q + r
  BY <1>1
<1>3. K!maskWidth(w) = M * q
  BY DEF K!maskWidth
<1> HIDE DEF q, r, M
<1>4. M * q \in Nat /\ w <= M * q
  BY <1>1, <1>2
<1>5. QED BY <1>3, <1>4 DEF K!Plane

LEMMA SetShown ==
  ASSUME NEW c, K!IsShape(c), K!SetCursor(c)
  PROVE  CursorShapeInv'
<1> DEFINE b == K!Busy(c)
           tl == <<b.x1, b.y1>>
           inside == K!Plane(K!width(b), K!height(b))
           n == [w |-> K!width(b), h |-> K!height(b), hotspot |-> K!Minus(c.hotspot, tl),
                 pixels |-> [p \in inside |-> c.pixels[K!Plus(p, tl)]],
                 mask |-> {p \in inside : K!Plus(p, tl) \in c.mask}]
           a == [d \in {K!Minus(p, c.hotspot) : p \in c.mask} |-> c.pixels[K!Plus(d, c.hotspot)]]
<1>1. /\ c.w \in Nat /\ c.h \in Nat /\ c.hotspot \in K!Plane(c.w, c.h) /\ c.hotspot \in Point
      /\ c.mask \subseteq K!Plane(c.w, c.h) /\ c.mask \subseteq Point /\ DOMAIN c.pixels = K!Plane(c.w, c.h)
      /\ K!Visible(c) = c.mask
  BY PlanePoints DEF K!IsShape, K!Visible
<1>2. cursorAsked' = a /\ cursorImage' = K!crop(c)
  BY DEF K!SetCursor
<1>3. AsAsked(c, cursorAsked')
  <2>1. DOMAIN a = {K!Minus(p, c.hotspot) : p \in c.mask}
    OBVIOUS
  <2>2. ASSUME NEW d \in Point
        PROVE  /\ d \in DOMAIN a <=> K!Plus(d, c.hotspot) \in c.mask
               /\ d \in DOMAIN a => a[d] = c.pixels[K!Plus(d, c.hotspot)]
    <3>1. /\ K!Minus(K!Plus(d, c.hotspot), c.hotspot) = d
          /\ \A p \in c.mask : K!Plus(K!Minus(p, c.hotspot), c.hotspot) = p
      BY <1>1, PlusMinus
    <3>2. QED BY <2>1, <3>1
  <2>3. DOMAIN a \subseteq Point
    BY <1>1, <2>1, PlusMinus
  <2> HIDE DEF a
  <2>4. QED BY <1>1, <1>2, <2>2, <2>3 DEF AsAsked
<1> HIDE DEF a
<1>4. /\ b.x1 \in Nat /\ b.y1 \in Nat /\ b.x2 \in Nat /\ b.y2 \in Nat
      /\ b.x2 <= c.w /\ b.y2 <= c.h
      /\ \A p \in c.mask \cup {c.hotspot} : b.x1 <= p[1] /\ p[1] < b.x2 /\ b.y1 <= p[2] /\ p[2] < b.y2
      /\ \E e, f \in c.mask \cup {c.hotspot} : e[1] = b.x1 /\ f[1] = b.x2 - 1
      /\ \E e, f \in c.mask \cup {c.hotspot} : e[2] = b.y1 /\ f[2] = b.y2 - 1
  BY <1>1, BusyIsTight
<1>5. K!crop(c) = IF K!width(b) = c.w /\ K!height(b) = c.h THEN c ELSE n
  BY DEF K!crop
<1> HIDE DEF b
<1>6. CASE K!width(b) = c.w /\ K!height(b) = c.h
  <2>1. cursorImage' = c
    BY <1>2, <1>5, <1>6
  <2>2. b.x1 = 0 /\ b.y1 = 0 /\ b.x2 = c.w /\ b.y2 = c.h
    BY <1>1, <1>4, <1>6 DEF K!width, K!height
  <2>3. Tight(c)
    BY <1>1, <1>4, <2>2 DEF Tight
  <2>4. ImageShape(c)
    BY <1>1, WiderMask DEF ImageShape, K!IsShape, K!Plane
  <2>5. QED BY <1>3, <2>1, <2>3, <2>4 DEF CursorShapeInv
<1>7. CASE ~(K!width(b) = c.w /\ K!height(b) = c.h)
  <2>1. cursorImage' = n
    BY <1>2, <1>5, <1>7
  <2>2. K!width(b) \in Nat /\ K!height(b) \in Nat /\ tl \in Point
    BY <1>1, <1>4 DEF K!width, K!height, Point
  <2>3. /\ n.w = K!width(b) /\ n.h = K!height(b) /\ n.hotspot = K!Minus(c.hotspot, tl)
        /\ n.hotspot \in Point
        /\ DOMAIN n.pixels = inside /\ n.mask \subseteq inside /\ K!Visible(n) = n.mask
        /\ n = [w |-> n.w, h |-> n.h, hotspot |-> n.hotspot, pixels |-> n.pixels, mask |-> n.mask]
    BY <1>1, <2>2, PlusMinus DEF K!Visible
  <2>4. \A p \in Point : p \in inside <=> b.x1 <= K!Plus(p, tl)[1] /\ K!Plus(p, tl)[1] < b.x2
                                        /\ b.y1 <= K!Plus(p, tl)[2] /\ K!Plus(p, tl)[2] < b.y2
    <3>1. ASSUME NEW p \in Point
          PROVE  p \in inside <=> b.x1 <= K!Plus(p, tl)[1] /\ K!Plus(p, tl)[1] < b.x2
                                 /\ b.y1 <= K!Plus(p, tl)[2] /\ K!Plus(p, tl)[2] < b.y2
      <4>1. p \in inside <=> 0 <= p[1] /\ p[1] < K!width(b) /\ 0 <= p[2] /\ p[2] < K!height(b)
        BY <2>2, PlanePoints
      <4>2. p[1] \in Int /\ p[2] \in Int
        BY DEF Point
      <4>3. QED BY <1>4, <4>1, <4>2 DEF K!Plus, K!width, K!height
    <3>2. QED BY <3>1
  <2>5. ASSUME NEW p \in Point
        PROVE  /\ p \in n.mask <=> K!Plus(p, tl) \in c.mask
               /\ p \in n.mask => n.pixels[p] = c.pixels[K!Plus(p, tl)]
    <3>1. K!Plus(p, tl) \in c.mask => p \in inside
      BY <1>4, <2>4
    <3>2. QED BY <3>1
  <2> HIDE DEF n, inside
  <2>6. AsAsked(n, cursorAsked')
    <3>1. ASSUME NEW d \in Point
          PROVE  K!Plus(K!Plus(d, n.hotspot), tl) = K!Plus(d, c.hotspot) /\ K!Plus(d, n.hotspot) \in Point
      BY <1>1, <2>2, <2>3, PlusMinus DEF K!Plus, K!Minus, Point
    <3>2. ASSUME NEW d \in Point
          PROVE  /\ d \in DOMAIN cursorAsked' <=> K!Plus(d, n.hotspot) \in n.mask
                 /\ d \in DOMAIN cursorAsked' => cursorAsked'[d] = n.pixels[K!Plus(d, n.hotspot)]
      BY <1>1, <1>3, <2>5, <3>1 DEF AsAsked
    <3>3. QED BY <1>3, <2>3, <3>2 DEF AsAsked
  <2>7. ImageShape(n)
    <3>1. ASSUME NEW p \in n.mask PROVE p \in K!Plane(K!maskWidth(n.w), n.h) /\ ~(p[1] >= n.w)
      <4>1. p \in K!Plane(n.w, n.h) /\ n.w \in Nat /\ n.h \in Nat
        BY <2>2, <2>3 DEF inside
      <4>2. p \in Point /\ p[1] < n.w /\ p[1] \in Int
        BY <4>1, PlanePoints DEF Point
      <4>3. QED BY <4>1, <4>2, WiderMask
    <3>2. QED BY <2>2, <2>3, <3>1 DEF ImageShape, inside
  <2>8. Tight(n)
    <3>1. ASSUME NEW e \in c.mask \cup {c.hotspot}
          PROVE  /\ K!Minus(e, tl) \in n.mask \cup {n.hotspot}
                 /\ K!Minus(e, tl)[1] = e[1] - b.x1 /\ K!Minus(e, tl)[2] = e[2] - b.y1
                 /\ e[1] \in Int /\ e[2] \in Int
      <4>1. e \in Point
        BY <1>1
      <4>2. K!Minus(e, tl) \in Point /\ K!Plus(K!Minus(e, tl), tl) = e
        BY <2>2, <4>1, PlusMinus
      <4>3. K!Minus(e, tl) \in n.mask \cup {n.hotspot}
        BY <2>3, <2>5, <4>2
      <4>4. QED BY <4>1, <4>3 DEF K!Minus, Point
    <3>2. n.hotspot \in K!Plane(n.w, n.h)
      <4>1. K!Plus(n.hotspot, tl) = c.hotspot
        BY <1>1, <2>2, <2>3, PlusMinus
      <4>2. n.hotspot \in inside
        BY <1>4, <2>3, <2>4, <4>1
      <4>3. QED BY <2>3, <4>2 DEF inside
    <3>3. \E e, f \in n.mask \cup {n.hotspot} : e[1] = 0 /\ f[1] = n.w - 1
      <4>1. PICK e \in c.mask \cup {c.hotspot}, f \in c.mask \cup {c.hotspot} :
                 e[1] = b.x1 /\ f[1] = b.x2 - 1
        BY <1>4
      <4>2. K!Minus(e, tl)[1] = 0 /\ K!Minus(f, tl)[1] = n.w - 1
        BY <1>4, <2>3, <3>1, <4>1 DEF K!width
      <4>3. QED BY <3>1, <4>2
    <3>4. \E e, f \in n.mask \cup {n.hotspot} : e[2] = 0 /\ f[2] = n.h - 1
      <4>1. PICK e \in c.mask \cup {c.hotspot}, f \in c.mask \cup {c.hotspot} :
                 e[2] = b.y1 /\ f[2] = b.y2 - 1
        BY <1>4
      <4>2. K!Minus(e, tl)[2] = 0 /\ K!Minus(f, tl)[2] = n.h - 1
        BY <1>4, <2>3, <3>1, <4>1 DEF K!height
      <4>3. QED BY <3>1, <4>2
    <3>5. QED BY <2>3, <3>2, <3>3, <3>4 DEF Tight
  <2>9. QED BY <2>1, <2>6, <2>7, <2>8 DEF CursorShapeInv
<1>8. QED BY <1>6, <1>7

LEMMA BesideEachOther ==
  ASSUME NEW d \in Point, NEW e
  PROVE  /\ e \in K!Beside(d) => e \in Point /\ d \in K!Beside(e)
         /\ \A h \in Point : e \in K!Beside(d) => K!Plus(e, h) \in K!Beside(K!Plus(d, h))
BY DEF K!Beside, K!Plus, Point

(* What an outline adds to the mask, and that nothing of it comes from     *)
(* beyond the edge.                                                        *)
LEMMA OutlineMask ==
  ASSUME NEW c, ImageShape(c)
  PROVE  LET n == K!drawOutline(c, Outline)
         IN  /\ ImageShape(n) /\ n.w = c.w /\ n.h = c.h /\ n.hotspot = c.hotspot
             /\ \A p \in K!Plane(c.w, c.h) :
                  /\ p \in K!Visible(n) <=> p \in K!Visible(c) \/ \E q \in K!Visible(c) : p \in K!Beside(q)
                  /\ n.pixels[p] = IF p \in K!Visible(c) THEN c.pixels[p] ELSE Outline
             /\ K!Visible(n) \subseteq K!Plane(c.w, c.h) /\ K!Visible(c) \subseteq K!Visible(n)
<1> DEFINE n == K!drawOutline(c, Outline)
           wide == K!Plane(K!maskWidth(c.w), c.h)
           narrow == K!Plane(c.w, c.h)
           plain == [p \in narrow |-> Outline]
           pixels == K!maskRect(plain, 0, 0, c.pixels, c.mask)
           mask == {p \in wide : ({p} \cup K!Beside(p)) \cap c.mask # {}}
<1>1. /\ c = [w |-> c.w, h |-> c.h, hotspot |-> c.hotspot, pixels |-> c.pixels, mask |-> c.mask]
      /\ c.w \in Nat /\ c.h \in Nat /\ c.hotspot \in Point
      /\ DOMAIN c.pixels = narrow /\ c.mask \subseteq wide
      /\ \A p \in c.mask : p[1] >= c.w => <<c.w - 1, p[2]>> \in c.mask
  BY DEF ImageShape
<1>2. /\ narrow \subseteq wide /\ narrow \subseteq Point /\ wide \subseteq Point
      /\ \A p \in Point : p \in narrow <=> 0 <= p[1] /\ p[1] < c.w /\ 0 <= p[2] /\ p[2] < c.h
      /\ \A p \in Point : p \in wide <=> 0 <= p[1] /\ p[1] < K!maskWidth(c.w) /\ 0 <= p[2] /\ p[2] < c.h
  BY <1>1, WiderMask, PlanePoints
<1>3. /\ n = [w |-> c.w, h |-> c.h, hotspot |-> c.hotspot, pixels |-> pixels, mask |-> mask]
      /\ n.w = c.w /\ n.h = c.h /\ n.hotspot = c.hotspot /\ n.pixels = pixels /\ n.mask = mask
  <2> HIDE DEF mask, pixels
  <2>1. n = [c EXCEPT !.pixels = pixels, !.mask = mask]
    BY DEF K!drawOutline, mask, pixels
  <2>2. QED BY <1>1, <2>1
<1>4. DOMAIN pixels = narrow /\ \A p \in narrow : pixels[p] = IF p \in c.mask THEN c.pixels[p] ELSE Outline
  <2>1. \A p \in narrow : <<p[1] - 0, p[2] - 0>> = p
    BY <1>2 DEF Point
  <2>2. QED BY <1>1, <2>1 DEF K!maskRect
<1>5. \A p \in wide : p \in mask <=> p \in c.mask \/ \E q \in c.mask : p \in K!Beside(q)
  BY <1>1, <1>2, BesideEachOther
<1> HIDE DEF n, mask, pixels, narrow, wide
<1>6. mask \subseteq wide /\ c.mask \subseteq mask
  BY <1>1, <1>5 DEF mask
<1>7. ASSUME NEW p \in mask, p[1] >= c.w PROVE <<c.w - 1, p[2]>> \in mask
  <2> DEFINE e == <<c.w - 1, p[2]>>
  <2>1. p \in Point /\ p[1] \in Int /\ p[2] \in Int /\ 0 <= p[2] /\ p[2] < c.h
    BY <1>2, <1>6 DEF Point
  <2>2. CASE p \in c.mask
    BY <1>1, <1>6, <1>7, <2>2
  <2>3. ASSUME NEW q \in c.mask, p \in K!Beside(q) PROVE e \in mask
    <3>1. q \in Point /\ q[1] \in Int /\ q[2] \in Int /\ q = <<q[1], q[2]>> /\ 0 <= q[1]
      BY <1>1, <1>2 DEF Point
    <3>2. CASE q[1] >= c.w
      <4>1. <<c.w - 1, q[2]>> \in c.mask
        BY <1>1, <3>2
      <4>2. p[2] = q[2] \/ p[2] = q[2] + 1 \/ p[2] = q[2] - 1
        BY <2>3, <3>1 DEF K!Beside
      <4>3. e = <<c.w - 1, q[2]>> \/ e \in K!Beside(<<c.w - 1, q[2]>>)
        BY <4>2, <3>1, <2>1, <1>1 DEF K!Beside
      <4>4. c.w - 1 >= 0
        BY <4>1, <1>1, <1>2 DEF Point
      <4>5. e \in wide
        <5>1. e \in Point /\ c.w <= K!maskWidth(c.w) /\ K!maskWidth(c.w) \in Nat
          BY <1>1, <2>1, WiderMask DEF Point
        <5>2. QED BY <1>1, <1>2, <2>1, <4>4, <5>1
      <4>6. QED BY <1>5, <4>1, <4>3, <4>5
    <3>3. CASE q[1] < c.w
      <4>1. q[1] = c.w - 1 /\ q[2] = p[2]
        BY <1>1, <1>7, <2>1, <2>3, <3>1, <3>3 DEF K!Beside
      <4>2. e = q
        BY <3>1, <4>1
      <4>3. QED BY <1>6, <4>2
    <3>4. QED BY <1>1, <3>1, <3>2, <3>3
  <2>4. QED BY <1>5, <1>6, <2>2, <2>3
<1>8. ImageShape(n)
  BY <1>1, <1>3, <1>4, <1>6, <1>7 DEF ImageShape, narrow, wide
<1>9. ASSUME NEW p \in narrow
      PROVE  p \in mask <=> p \in K!Visible(c) \/ \E q \in K!Visible(c) : p \in K!Beside(q)
  <2>1. p \in Point /\ p[1] \in Int /\ p[2] \in Int /\ p[1] < c.w /\ p \in wide /\ p = <<p[1], p[2]>>
    BY <1>2 DEF Point
  <2>2. K!Visible(c) = c.mask \cap narrow
    BY DEF K!Visible, narrow
  <2>3. ASSUME NEW q \in c.mask, p \in K!Beside(q), q \notin narrow PROVE p \in c.mask
    <3>1. q \in Point /\ q[1] \in Int /\ q[2] \in Int /\ q \in wide
      BY <1>1, <1>2 DEF Point
    <3>2. q[1] >= c.w
      BY <1>1, <1>2, <2>3, <3>1
    <3>3. p[1] = c.w - 1 /\ p[2] = q[2]
      BY <1>1, <2>1, <2>3, <3>1, <3>2 DEF K!Beside
    <3>4. <<c.w - 1, q[2]>> \in c.mask
      BY <1>1, <3>2
    <3>5. QED BY <2>1, <3>3, <3>4
  <2>4. QED BY <1>5, <2>1, <2>2, <2>3
<1>10. /\ K!Visible(n) = mask \cap narrow /\ K!Visible(c) = c.mask \cap narrow
  BY <1>3 DEF K!Visible, narrow
<1>11. \A p \in narrow : n.pixels[p] = IF p \in K!Visible(c) THEN c.pixels[p] ELSE Outline
  BY <1>3, <1>4, <1>10
<1>12. QED BY <1>3, <1>6, <1>8, <1>9, <1>10, <1>11 DEF n, narrow

(* Within the rectangle around all that was asked for is, seen from the    *)
(* hotspot, on the picture.                                                *)
LEMMA BetweenIsInside ==
  ASSUME NEW c, NEW a, ImageShape(c), AsAsked(c, a), Tight(c), NEW d \in Point
  PROVE  LET all == DOMAIN a \cup {<<0, 0>>}
         IN  K!Between(all, d, 1) /\ K!Between(all, d, 2) <=> K!Plus(d, c.hotspot) \in K!Plane(c.w, c.h)
<1> DEFINE all == DOMAIN a \cup {<<0, 0>>}
           seen == K!Visible(c) \cup {c.hotspot}
           h == c.hotspot
<1>1. /\ c.w \in Nat /\ c.h \in Nat /\ h \in Point /\ seen \subseteq K!Plane(c.w, c.h)
      /\ K!Plane(c.w, c.h) \subseteq Point
      /\ \A p \in Point : p \in K!Plane(c.w, c.h) <=> 0 <= p[1] /\ p[1] < c.w /\ 0 <= p[2] /\ p[2] < c.h
  BY PlanePoints DEF ImageShape, Tight, K!Visible
<1>2. all \subseteq Point
  BY DEF AsAsked, Point
<1>3. \A e \in Point : e \in all => K!Plus(e, h) \in seen
  BY <1>1 DEF AsAsked, K!Plus, Point
<1>4. \A p \in seen : K!Minus(p, h) \in all
  <2>1. ASSUME NEW p \in K!Visible(c) PROVE K!Minus(p, h) \in all
    BY <1>1, PlusMinus DEF AsAsked
  <2>2. K!Minus(h, h) = <<0, 0>>
    BY <1>1 DEF K!Minus, Point
  <2>3. QED BY <2>1, <2>2
<1>5. /\ \E e, f \in seen : e[1] = 0 /\ f[1] = c.w - 1
      /\ \E e, f \in seen : e[2] = 0 /\ f[2] = c.h - 1
  BY DEF Tight
<1>6. /\ h[1] \in Int /\ h[2] \in Int /\ d[1] \in Int /\ d[2] \in Int
      /\ \A p \in Point : p[1] \in Int /\ p[2] \in Int
      /\ \A p \in Point : /\ K!Plus(p, h)[1] = p[1] + h[1] /\ K!Plus(p, h)[2] = p[2] + h[2]
                         /\ K!Minus(p, h)[1] = p[1] - h[1] /\ K!Minus(p, h)[2] = p[2] - h[2]
                         /\ K!Plus(p, h) \in Point
  BY <1>1 DEF K!Plus, K!Minus, Point
<1> HIDE DEF all, seen, h
<1>7. ASSUME K!Between(all, d, 1), K!Between(all, d, 2) PROVE K!Plus(d, h) \in K!Plane(c.w, c.h)
  <2>1. PICK e \in all, f \in all : e[1] <= d[1] /\ d[1] <= f[1]
    BY <1>7 DEF K!Between
  <2>2. PICK k \in all, l \in all : k[2] <= d[2] /\ d[2] <= l[2]
    BY <1>7 DEF K!Between
  <2>3. {e, f, k, l} \subseteq Point
    BY <1>2
  <2>4. {K!Plus(e, h), K!Plus(f, h), K!Plus(k, h), K!Plus(l, h)} \subseteq K!Plane(c.w, c.h)
    BY <1>1, <1>3, <2>3
  <2>5. 0 <= e[1] + h[1] /\ f[1] + h[1] < c.w /\ 0 <= k[2] + h[2] /\ l[2] + h[2] < c.h
    BY <1>1, <1>6, <2>3, <2>4
  <2>6. 0 <= d[1] + h[1] /\ d[1] + h[1] < c.w /\ 0 <= d[2] + h[2] /\ d[2] + h[2] < c.h
    BY <1>1, <1>6, <2>1, <2>2, <2>3, <2>5
  <2>7. QED BY <1>1, <1>6, <2>6
<1>8. ASSUME K!Plus(d, h) \in K!Plane(c.w, c.h) PROVE K!Between(all, d, 1) /\ K!Between(all, d, 2)
  <2>1. 0 <= d[1] + h[1] /\ d[1] + h[1] < c.w /\ 0 <= d[2] + h[2] /\ d[2] + h[2] < c.h
    BY <1>1, <1>6, <1>8
  <2>2. PICK e \in seen, f \in seen : e[1] = 0 /\ f[1] = c.w - 1
    BY <1>5
  <2>3. PICK k \in seen, l \in seen : k[2] = 0 /\ l[2] = c.h - 1
    BY <1>5
  <2>4. {e, f, k, l} \subseteq Point
    BY <1>1
  <2>5. /\ K!Minus(e, h)[1] = 0 - h[1] /\ K!Minus(f, h)[1] = c.w - 1 - h[1]
        /\ K!Minus(k, h)[2] = 0 - h[2] /\ K!Minus(l, h)[2] = c.h - 1 - h[2]
    BY <1>6, <2>2, <2>3, <2>4
  <2>6. /\ K!Minus(e, h)[1] <= d[1] /\ d[1] <= K!Minus(f, h)[1]
        /\ K!Minus(k, h)[2] <= d[2] /\ d[2] <= K!Minus(l, h)[2]
    BY <1>1, <1>6, <2>1, <2>5
  <2>7. QED BY <1>4, <2>2, <2>3, <2>6 DEF K!Between
<1>9. K!Between(all, d, 1) /\ K!Between(all, d, 2) <=> K!Plus(d, h) \in K!Plane(c.w, c.h)
  BY <1>7, <1>8
<1>10. QED BY <1>9 DEF all, h

LEMMA OutlineShown ==
  ASSUME CursorShapeInv, K!DrawOutline
  PROVE  CursorShapeInv'
<1> DEFINE c == cursorImage
           n == K!drawOutline(cursorImage, Outline)
           all == DOMAIN cursorAsked \cup {<<0, 0>>}
           near == UNION {K!Beside(e) : e \in DOMAIN cursorAsked}
           new == {d \in near \ DOMAIN cursorAsked : K!Between(all, d, 1) /\ K!Between(all, d, 2)}
           a == [d \in DOMAIN cursorAsked \cup new |-> IF d \in new THEN Outline ELSE cursorAsked[d]]
<1>1. c.w > 0 /\ cursorImage' = n /\ cursorAsked' = a
  BY DEF K!DrawOutline
<1>2. /\ ImageShape(c) /\ AsAsked(c, cursorAsked) /\ Tight(c)
      /\ c.w \in Nat /\ c.h \in Nat /\ c.hotspot \in Point /\ DOMAIN cursorAsked \subseteq Point
  BY <1>1 DEF CursorShapeInv, ImageShape, AsAsked
<1>3. /\ ImageShape(n) /\ n.w = c.w /\ n.h = c.h /\ n.hotspot = c.hotspot
      /\ \A p \in K!Plane(c.w, c.h) :
           /\ p \in K!Visible(n) <=> p \in K!Visible(c) \/ \E q \in K!Visible(c) : p \in K!Beside(q)
           /\ n.pixels[p] = IF p \in K!Visible(c) THEN c.pixels[p] ELSE Outline
      /\ K!Visible(n) \subseteq K!Plane(c.w, c.h) /\ K!Visible(c) \subseteq K!Visible(n)
  BY <1>2, OutlineMask
<1>4. K!Visible(c) \subseteq K!Plane(c.w, c.h) /\ K!Plane(c.w, c.h) \subseteq Point
  BY <1>2, PlanePoints DEF K!Visible
<1> HIDE DEF n, c
<1>5. ASSUME NEW d \in Point
      PROVE  d \in new <=> /\ d \notin DOMAIN cursorAsked /\ K!Plus(d, c.hotspot) \in K!Plane(c.w, c.h)
                          /\ \E q \in K!Visible(c) : K!Plus(d, c.hotspot) \in K!Beside(q)
  <2> DEFINE p == K!Plus(d, c.hotspot)
  <2>1. K!Between(all, d, 1) /\ K!Between(all, d, 2) <=> p \in K!Plane(c.w, c.h)
    BY <1>2, BetweenIsInside
  <2>2. ASSUME NEW e \in DOMAIN cursorAsked, d \in K!Beside(e)
        PROVE  \E q \in K!Visible(c) : p \in K!Beside(q)
    <3>1. e \in Point /\ K!Plus(e, c.hotspot) \in K!Visible(c)
      BY <1>2 DEF AsAsked
    <3>2. p \in K!Beside(K!Plus(e, c.hotspot))
      BY <1>2, <2>2, <3>1, BesideEachOther
    <3>3. QED BY <3>1, <3>2
  <2>3. ASSUME NEW q \in K!Visible(c), p \in K!Beside(q)
        PROVE  \E e \in DOMAIN cursorAsked : d \in K!Beside(e)
    <3>1. q \in Point /\ K!Minus(q, c.hotspot) \in Point /\ K!Plus(K!Minus(q, c.hotspot), c.hotspot) = q
      BY <1>2, <1>4, PlusMinus
    <3>2. K!Minus(q, c.hotspot) \in DOMAIN cursorAsked
      BY <1>2, <3>1 DEF AsAsked
    <3>3. d \in K!Beside(K!Minus(q, c.hotspot))
      BY <1>2, <2>3, <3>1 DEF K!Beside, K!Plus, K!Minus, Point
    <3>4. QED BY <3>2, <3>3
  <2> HIDE DEF p
  <2>4. d \in new <=> /\ d \notin DOMAIN cursorAsked /\ p \in K!Plane(c.w, c.h)
                     /\ \E e \in DOMAIN cursorAsked : d \in K!Beside(e)
    <3>1. d \in near <=> \E e \in DOMAIN cursorAsked : d \in K!Beside(e)
      OBVIOUS
    <3> HIDE DEF near, all
    <3>2. d \in new <=> /\ d \in near /\ d \notin DOMAIN cursorAsked
                       /\ K!Between(all, d, 1) /\ K!Between(all, d, 2)
      OBVIOUS
    <3> HIDE DEF new
    <3>3. QED BY <2>1, <3>1, <3>2
  <2>5. QED BY <2>2, <2>3, <2>4 DEF p
<1>6. new \subseteq Point
  BY <1>2, BesideEachOther
<1>7. /\ DOMAIN a = DOMAIN cursorAsked \cup new
      /\ \A d \in DOMAIN a : a[d] = IF d \in new THEN Outline ELSE cursorAsked[d]
  OBVIOUS
<1> HIDE DEF new, a
<1>8. AsAsked(n, a)
  <2>1. ASSUME NEW d \in Point
        PROVE  /\ d \in DOMAIN a <=> K!Plus(d, c.hotspot) \in K!Visible(n)
               /\ d \in DOMAIN a => a[d] = n.pixels[K!Plus(d, c.hotspot)]
    <3> DEFINE p == K!Plus(d, c.hotspot)
    <3>1. d \in DOMAIN cursorAsked <=> p \in K!Visible(c)
      BY <1>2 DEF AsAsked
    <3>2. d \in DOMAIN cursorAsked => cursorAsked[d] = c.pixels[p]
      BY <1>2 DEF AsAsked
    <3> HIDE DEF p
    <3>3. d \in new <=> /\ p \notin K!Visible(c) /\ p \in K!Plane(c.w, c.h)
                       /\ \E q \in K!Visible(c) : p \in K!Beside(q)
      BY <1>5, <3>1 DEF p
    <3>4. d \in DOMAIN a <=> p \in K!Visible(n)
      BY <1>3, <1>4, <1>7, <3>1, <3>3
    <3>5. d \in DOMAIN a => a[d] = n.pixels[p]
      BY <1>3, <1>4, <1>7, <3>1, <3>2, <3>3
    <3>6. QED BY <3>4, <3>5 DEF p
  <2>2. QED BY <1>2, <1>3, <1>6, <1>7, <2>1 DEF AsAsked
<1>9. Tight(n)
  BY <1>2, <1>3 DEF Tight
<1>10. QED BY <1>1, <1>3, <1>8, <1>9 DEF CursorShapeInv

LEMMA FirstExists ==
  ASSUME NEW S, S # {}, S \subseteq Nat \X Nat PROVE K!First(S) \in S
<1> DEFINE ys == {p[2] : p \in S}
<1>1. PICK y \in ys : \A z \in ys : y <= z
  <2>1. ys \in SUBSET Nat /\ ys # {}
    OBVIOUS
  <2>2. QED BY <2>1, LeastNatural
<1> DEFINE row == {p \in S : p[2] = y}
           xs == {p[1] : p \in row}
<1>2. PICK x \in xs : \A z \in xs : x <= z
  <2>1. xs \in SUBSET Nat /\ xs # {}
    BY <1>1
  <2>2. QED BY <2>1, LeastNatural
<1>3. PICK p \in S : p[2] = y /\ p[1] = x
  BY <1>2
<1>4. ASSUME NEW q \in S PROVE p[2] < q[2] \/ (p[2] = q[2] /\ p[1] <= q[1])
  <2>1. q[2] \in ys /\ q[2] \in Nat /\ y \in Nat
    BY <1>1
  <2>2. q[2] = y => q[1] \in xs
    OBVIOUS
  <2> HIDE DEF xs, ys
  <2>3. QED BY <1>1, <1>2, <1>3, <2>1, <2>2
<1>5. QED BY <1>4 DEF K!First

LEMMA BitmapShowsAsked ==
  ASSUME CursorShapeInv
  PROVE  LET two == K!getBitmap(cursorImage)
         IN  /\ two.none <=> \E x, y, z \in K!Range(cursorAsked) : x # y /\ x # z /\ y # z
             /\ \A d \in DOMAIN cursorAsked : two.none \/
                  cursorAsked[d] = IF K!Plus(d, cursorImage.hotspot) \in two.source
                                   THEN two.pix1 ELSE two.pix0
<1> DEFINE seen == K!Visible(cursorImage)
           pix == cursorImage.pixels
           pix0 == K!FirstPixel(cursorImage, seen)
           source == {p \in seen : pix[p] # pix0}
           pix1 == K!FirstPixel(cursorImage, source)
           none == \E p \in source : pix[p] # pix1
<1>1. K!getBitmap(cursorImage) = [none |-> none, pix0 |-> pix0, pix1 |-> pix1, source |-> source]
  BY DEF K!getBitmap
<1>2. seen \subseteq Nat \X Nat /\ seen \subseteq Point /\ cursorImage.hotspot \in Point
  BY DEF CursorShapeInv, ImageShape, K!Visible, K!Plane, Point
<1>3. seen # {} => \E p \in seen : pix[p] = pix0
  BY <1>2, FirstExists DEF K!FirstPixel
<1>4. source # {} => \E p \in source : pix[p] = pix1
  <2> HIDE DEF source
  <2>1. source \subseteq Nat \X Nat
    BY <1>2 DEF source
  <2>2. QED BY <2>1, FirstExists DEF K!FirstPixel
<1>5. \A d \in DOMAIN cursorAsked : /\ K!Plus(d, cursorImage.hotspot) \in seen
                                   /\ cursorAsked[d] = pix[K!Plus(d, cursorImage.hotspot)]
  BY DEF CursorShapeInv, AsAsked
<1>6. \A p \in seen : \E d \in DOMAIN cursorAsked : cursorAsked[d] = pix[p]
  <2>1. ASSUME NEW p \in seen PROVE \E d \in DOMAIN cursorAsked : cursorAsked[d] = pix[p]
    <3>1. /\ K!Minus(p, cursorImage.hotspot) \in Point
          /\ K!Plus(K!Minus(p, cursorImage.hotspot), cursorImage.hotspot) = p
      BY <1>2, PlusMinus
    <3>2. QED BY <3>1 DEF CursorShapeInv, AsAsked
  <2>2. QED BY <2>1
<1>7. K!Range(cursorAsked) = {pix[p] : p \in seen}
  BY <1>5, <1>6 DEF K!Range
<1>8. \A p \in source : p \in seen /\ pix[p] # pix0
  OBVIOUS
<1>9. \A p \in seen : p \in source \/ pix[p] = pix0
  OBVIOUS
<1> HIDE DEF seen, pix, pix0, source, pix1
<1>10. ASSUME none PROVE \E x, y, z \in K!Range(cursorAsked) : x # y /\ x # z /\ y # z
  <2>1. PICK p \in source : pix[p] # pix1
    BY <1>10
  <2>2. PICK q \in source : pix[q] = pix1
    BY <1>4
  <2>3. PICK r \in seen : pix[r] = pix0
    BY <1>3, <1>8, <2>1
  <2>4. /\ pix[p] \in K!Range(cursorAsked) /\ pix[q] \in K!Range(cursorAsked)
        /\ pix[r] \in K!Range(cursorAsked)
    BY <1>7, <1>8, <2>1, <2>2, <2>3
  <2>5. QED BY <1>8, <2>1, <2>2, <2>3, <2>4
<1>11. ASSUME ~none PROVE ~\E x, y, z \in K!Range(cursorAsked) : x # y /\ x # z /\ y # z
  <2>1. \A p \in seen : pix[p] = pix0 \/ pix[p] = pix1
    BY <1>9, <1>11
  <2>2. QED BY <1>7, <2>1
<1>12. ASSUME NEW d \in DOMAIN cursorAsked, ~none
       PROVE  cursorAsked[d] = IF K!Plus(d, cursorImage.hotspot) \in source THEN pix1 ELSE pix0
  BY <1>5, <1>9, <1>12
<1> HIDE DEF none
<1>13. QED BY <1>1, <1>10, <1>11, <1>12

LEMMA ImageInit == K!Init => CursorShapeInv
<1> SUFFICES ASSUME K!Init PROVE CursorShapeInv
  OBVIOUS
<1>1. ImageShape(cursorImage) /\ cursorImage.w = 0 /\ K!Visible(cursorImage) = {}
  BY DEF K!Init, ImageShape, K!Visible, K!Plane, Point
<1>2. AsAsked(cursorImage, cursorAsked)
  BY <1>1 DEF K!Init, AsAsked
<1>3. QED BY <1>1, <1>2 DEF CursorShapeInv

-----------------------------------------------------------------------------
(* The parts of the server                                                 *)

(* However changes, copies, the cursor and requests mix, on a screen of    *)
(* any width and with any pixels: where the trackers have nothing to send, *)
(* the client shows the screen, or the cursor where the server remembers   *)
(* having drawn it, until a partial request or an old picture of the       *)
(* cursor spoils that.  And whatever modes a screen has, and however they  *)
(* follow each other, its copy is read as it was made.                     *)
THEOREM PictureIsKept == ServerSpec => []ClientsSeeTheScreen
<1> DEFINE PInv == /\ part = "trackers" => TrackersInv /\ PictureInv
                   /\ part = "copies" => CopyInv
<1>1. ServerInit => PInv
  BY InitTrackers, CopyInit DEF ServerInit
<1>2. PInv /\ [ServerNext]_serverVars => PInv'
  <2> SUFFICES ASSUME PInv, [ServerNext]_serverVars PROVE PInv'
    OBVIOUS
  <2>1. ASSUME part' = "trackers" PROVE TrackersInv' /\ PictureInv'
    <3>1. part = "trackers" /\ TrackersInv /\ PictureInv /\ [T!Next]_(T!vars)
      BY <2>1 DEF ServerNext, serverVars, trackerVars, T!vars
    <3>2. QED BY <3>1, NextKeeps
  <2>2. ASSUME part' = "copies" PROVE CopyInv'
    <3>1. part = "copies" /\ CopyInv /\ [W!Next]_(W!vars)
      BY <2>2 DEF ServerNext, serverVars, copyVars, W!vars, W!frameBufferVars
    <3>2. QED BY <3>1, CopyNext
  <2>3. QED BY <2>1, <2>2
<1>3. PInv => ClientsSeeTheScreen
  <2>1. CopyInv => W!CopyIsReadAsItIs
    BY InUseIsRead DEF CopyInv, W!CopyIsReadAsItIs
  <2>2. QED BY <2>1, KeptIsSeen DEF TrackersInv, ClientsSeeTheScreen
<1> HIDE DEF PInv
<1>4. QED BY <1>1, <1>2, <1>3, PTL DEF ServerSpec

(* Wherever the pointer is on a screen of any size, and whatever cursors   *)
(* are set and outlined there, in whichever order: what is drawn is the    *)
(* cursor that was asked for, with its hotspot at the pointer, and its     *)
(* bitmap of two colours shows the same.                                   *)
THEOREM CursorIsShown == ServerSpec => []CursorShownAsAsked
<1> DEFINE KInv == part = "cursors" => CursorShapeInv
<1>1. ServerInit => KInv
  BY ImageInit DEF ServerInit
<1>2. CursorShapeInv /\ [K!Next]_imageVars => CursorShapeInv'
  <2> SUFFICES ASSUME CursorShapeInv, [K!Next]_imageVars PROVE CursorShapeInv'
    OBVIOUS
  <2>1. ASSUME NEW c \in Shapes, K!SetCursor(c) PROVE CursorShapeInv'
    BY <2>1, SetShown, ShapesAssumption
  <2>2. CASE K!DrawOutline
    BY <2>2, OutlineShown
  <2>3. CASE UNCHANGED imageVars
    BY <2>3 DEF CursorShapeInv, imageVars
  <2>4. QED BY <2>1, <2>2, <2>3 DEF K!Next
<1>3. KInv /\ [ServerNext]_serverVars => KInv'
  <2> SUFFICES ASSUME KInv, [ServerNext]_serverVars, part' = "cursors" PROVE CursorShapeInv'
    OBVIOUS
  <2>1. part = "cursors" /\ CursorShapeInv /\ [K!Next]_imageVars
    BY DEF ServerNext, serverVars, imageVars
  <2>2. QED BY <2>1, <1>2
<1>4. KInv => CursorShownAsAsked
  BY ScreenShowsAsked, BitmapShowsAsked DEF CursorShownAsAsked, K!CursorShownAsAsked
<1> HIDE DEF KInv
<1>5. QED BY <1>1, <1>3, <1>4, PTL DEF ServerSpec

(* The other parts do nothing to the clients: what Spec promises holds of  *)
(* the instance with all of them.                                          *)
LEMMA PartsAreServers == ServerSpec => Spec
<1>1. ServerInit => Init
  BY DEF ServerInit
<1>2. [ServerNext]_serverVars => [Next]_vars
  BY DEF ServerNext, serverVars
<1>3. QED BY <1>1, <1>2, PTL DEF ServerSpec, Spec
=============================================================================
