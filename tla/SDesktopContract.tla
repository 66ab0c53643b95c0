-------------------------- MODULE SDesktopContract --------------------------
(***************************************************************************)
(* What rfb/SDesktop.h promises the author of a desktop: start() is called *)
(* when the first client authenticates, stop() when no authenticated       *)
(* client is left, and nobody uses a desktop that is not running.          *)
(***************************************************************************)
EXTENDS FiniteSets

CONSTANT Client

VARIABLES
  users,   \* the authenticated clients
  running  \* start() has returned and stop() has not been called

vars == <<users, running>>

Init == users = {} /\ running = FALSE

(* A client authenticates; the first one starts the desktop. *)
Join(c) ==
  /\ c \notin users
  /\ users' = users \cup {c}
  /\ running' = TRUE

(* Clients are closed.  When none is left the desktop may be stopped in    *)
(* the same step.                                                          *)
Leave(S) ==
  /\ S # {}
  /\ users' = users \ S
  /\ \/ running' = running
     \/ users' = {} /\ running' = FALSE

(* The desktop is stopped some time after the last client was closed. *)
Stop ==
  /\ users = {}
  /\ running
  /\ running' = FALSE
  /\ UNCHANGED users

Next ==
  \/ \E c \in Client : Join(c)
  \/ \E S \in SUBSET users : Leave(S)
  \/ Stop

SafeSpec == Init /\ [][Next]_vars

(* A desktop nobody uses is stopped in the end. *)
Spec == SafeSpec /\ WF_vars(Stop)
=============================================================================
