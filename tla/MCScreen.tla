------------------------------ MODULE MCScreen ------------------------------
(***************************************************************************)
(* How the server gets at the screen, in two parts: its memory, which the  *)
(* OS gives and takes away (DirectWindow), and the updates that are made of*)
(* what is read there (ScreenUpdates).  part says which one a behaviour is *)
(* about; the other one stays where it began.                              *)
(***************************************************************************)
EXTENDS DirectWindow, ScreenUpdates

CONSTANTS
  big, small,             \* DirectWindow
  c1, c2, white, black,   \* ScreenUpdates
  Parts                   \* those to look at

VARIABLE part

ScreenInit ==
  /\ part \in Parts
  /\ Init
  /\ UpdatesInit
  /\ part = "direct" => height = MaxRow

ScreenNext ==
  /\ UNCHANGED part
  /\ \/ part = "direct" /\ Next /\ UNCHANGED updateVars
     \/ part = "updates" /\ UpdatesNext /\ UNCHANGED vars

(* The fairness of DirectWindow. *)
ScreenFairness ==
  /\ WF_vars(part = "direct" /\ \E m \in Mode : StartScreen(m))
  /\ SF_vars(part = "direct" /\ CallbackLocks)
  /\ WF_vars(part = "direct" /\ Callback)
  /\ SF_vars(part = "direct" /\ ScreenChanged)
  /\ SF_vars(part = "direct" /\ LockFrameBuffer)
  /\ WF_vars(part = "direct" /\ Server)

ScreenSpec == ScreenInit /\ [][ScreenNext]_<<part, vars, updateVars>> /\ ScreenFairness

(* Only the updates, with the fairness of ScreenUpdates. *)
FairUpdatesSpec == ScreenInit /\ [][ScreenNext]_<<part, vars, updateVars>> /\ UpdatesFairness

-----------------------------------------------------------------------------
Modes == {big, small}
TwoClients == {c1, c2}
OneClient == {c1}
TwoHeights == {1, 2}
OneHeight == {2}
OneLine == {1}
AnyLines == {1, 2}
Colours == {white, black}

(* What happens after the screen has settled could have happened before;   *)
(* once a row has slipped through, or rows that have gone were asked for,  *)
(* little is promised.                                                     *)
StillPromised == part = "updates" => ~settled /\ ~slipped /\ ~beyond
=============================================================================
