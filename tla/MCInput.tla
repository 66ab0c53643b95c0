------------------------------- MODULE MCInput -------------------------------
(***************************************************************************)
(* What the viewers put into BeOS, in two parts: their keyboards, with a   *)
(* few keys of one like the US keyboard, and their mice.                   *)
(***************************************************************************)
EXTENDS Keyboard, TLC

CONSTANTS
  v1, v2,
  NoClient, MayPoint, Masks, Widths, MaxX, Scale, Margin, ClickTime, MaxClicks,   \* Pointer
  MaxLeft

VARIABLES part, viewers, gone, pointerClient, mouse, enabled, os, said

pointerVars == <<viewers, gone, pointerClient, mouse, enabled, os, said>>

P == INSTANCE Pointer WITH clients <- viewers, closed <- gone, desk <- mouse

(* What the theorems about the mice assume of the constants. *)
ASSUME PointerSizes == P!SizeAssumption

InputInit == part \in {"keyboard", "pointer"} /\ Init /\ P!Init

(* The actions of Keyboard one by one, which TLC evaluates faster than Next. *)
Typing(A) == part = "keyboard" /\ A /\ UNCHANGED <<part, pointerVars>>

InputNext ==
  \/ \E c \in Client : Typing(Connect(c) \/ Close(c))
  \/ \E c \in Client : \E nulEnds \in ByteBehind(pressed[c]) : Typing(Delete(c, nulEnds))
  \/ \E c \in Client, key \in Key, down \in BOOLEAN :
       \E nulEnds \in ByteBehind({key}) : Typing(KeyMsg(c, key, down, nulEnds))
  \/ part = "pointer" /\ P!Next /\ UNCHANGED <<part, vars>>

InputSpec == InputInit /\ [][InputNext]_<<part, vars, pointerVars>>

(* What BeOS has been told adds up to what the desktop remembers, of the   *)
(* keys and of the mouse, and buttons that are down are held by a viewer.  *)
InputIsKnown ==
  /\ part = "keyboard" => TypeOK /\ BeOSKnowsKeyboard
  /\ part = "pointer" => P!TypeOK /\ P!ButtonsAreHeld

(* Pointer: what one viewer drags no other one disturbs.                   *)
DragsAreWhole == P!DragsAreWhole

-----------------------------------------------------------------------------
TwoViewers == {v1, v2}

(* At, mu, KP_1, KP_Begin, shift, control, left option, scroll lock, Tab   *)
(* and the shifted Tab.                                                    *)
Keys == {64, 181, 65457, 65437, 65505, 65507, 65511, 65300, 65289, 65056}

(* Bounds what is followed after something was left down: how many keys    *)
(* there are of it and of those that the next viewer, alone, holds.        *)
FewLeft ==
  /\ Reliable
  /\ lost # [modifiers |-> {}, keys |-> {}] =>
       Cardinality(clients) <= 1 /\ Cardinality(lost.keys) + Cardinality(Held) <= MaxLeft

Symmetry == Permutations(Client)

SuggestedCodes ==
  64 :> 19 @@ 181 :> 82 @@ 65457 :> 88 @@ 65437 :> 73 @@ 65289 :> 38

MapCharacters == [
  normal |-> 60 :> 97 @@ 19 :> 50 @@ 18 :> 49 @@ 38 :> 9,
  shift |-> 60 :> 65 @@ 19 :> 64 @@ 88 :> 49 @@ 38 :> 9,
  caps |-> 60 :> 65 @@ 19 :> 50 @@ 18 :> 49 @@ 38 :> 9,
  caps_shift |-> 60 :> 97 @@ 19 :> 64 @@ 88 :> 49 @@ 38 :> 9,
  option |-> 82 :> 181,
  option_shift |-> <<>>, option_caps |-> <<>>, option_caps_shift |-> <<>>,
  control |-> 60 :> 1 @@ 19 :> 0 @@ 18 :> 49 @@ 38 :> 9]

Codes(leftControl, leftCommand, leftOption) == [
  caps |-> 59, scroll |-> 15, num |-> 34, shiftL |-> 75, shiftR |-> 86,
  commandL |-> leftCommand, commandR |-> 95, controlL |-> leftControl, controlR |-> 0,
  optionL |-> leftOption, optionR |-> 103]

(* The second one has left Alt and Control swapped and no left option key. *)
TwoKeyMaps == {[chars |-> MapCharacters, code |-> Codes(92, 93, 102)],
               [chars |-> MapCharacters, code |-> Codes(93, 92, 0)]}
=============================================================================
