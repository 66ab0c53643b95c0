----------------------------- MODULE InputProofs -----------------------------
(* What Keyboard and Pointer promise for any viewers, keys, key maps,       *)
(* screens and buttons: BeOS knows what the desktop remembers, and what one *)
(* viewer drags no other one disturbs.                                      *)
EXTENDS MCInput, Recursion, FiniteSetTheorems, TLAPS

(***************************************************************************)
(* The mice.                                                               *)
(***************************************************************************)
MouseTypes ==
  /\ gone \subseteq viewers /\ viewers \subseteq Client
  /\ pointerClient \in viewers \cup {NoClient}
  /\ enabled \in BOOLEAN
  /\ mouse = [buttons |-> mouse.buttons, at |-> mouse.at, clicks |-> mouse.clicks,
              sinceDown |-> mouse.sinceDown, width |-> mouse.width, injector |-> mouse.injector]
  /\ mouse.buttons \subseteq P!Regular \cup P!Wheel
  /\ mouse.clicks \in 1 .. MaxClicks /\ mouse.sinceDown \in 0 .. ClickTime + 1
  /\ mouse.injector \in BOOLEAN
  /\ os = [buttons |-> os.buttons, at |-> os.at, down |-> os.down, by |-> os.by,
           missed |-> os.missed, torn |-> os.torn]
  /\ os.buttons \subseteq P!Regular
  /\ os.down \in BOOLEAN /\ os.missed \in BOOLEAN /\ os.torn \in BOOLEAN

(* The viewer whose buttons are down has not gone, and may only be one that *)
(* is closed already while the desktop cannot reach BeOS's mouse.           *)
MouseHolder ==
  /\ os.by \in viewers \cup {NoClient}
  /\ os.buttons = {} => os.by = NoClient
  /\ mouse.width = 0 \/ ~mouse.injector => os.by \in gone \cup {NoClient}
  /\ mouse.width = 0 => ~mouse.injector

(* The presses that were not torn agree with the buttons of the desktop,    *)
(* though messages in between may have been dropped.                        *)
MouseInv ==
  /\ MouseTypes
  /\ MouseHolder
  /\ P!ButtonsAreHeld
  /\ ~os.torn => (os.buttons # {} <=> mouse.buttons \cap P!Regular # {})

LEMMA MouseInit == P!Init => MouseInv
BY PointerSizes DEF P!Init, MouseInv, MouseTypes, MouseHolder, P!ButtonsAreHeld, P!SizeAssumption

LEMMA ButtonTypes ==
  ASSUME NEW mask
  PROVE  /\ P!BeOSButtons(mask) \subseteq P!Regular \cup P!Wheel
         /\ P!BeOSButtons(mask) # {} => mask # {}
BY DEF P!BeOSButtons

LEMMA WhatKinds ==
  ASSUME NEW old, NEW new
  PROVE  /\ P!What(old, new) = "B_MOUSE_UP" <=> new = {} /\ old # {}
         /\ P!What(old, new) = "B_MOUSE_DOWN" <=> new # {} /\ old = {}
<1>1. CASE new = {} /\ old # {}
  BY <1>1 DEF P!What
<1>2. CASE new # {} /\ old = {}
  BY <1>2 DEF P!What
<1>3. CASE (new = {} <=> old = {})
  BY <1>3 DEF P!What
<1> QED
  BY <1>1, <1>2, <1>3

(* What one message tells BeOS, given what the desktop remembers after it.  *)
LEMMA Injected ==
  ASSUME MouseTypes, NEW c, NEW what, NEW buttons, buttons \subseteq P!Regular, NEW at,
         P!Inject(c, what, buttons, at)
  PROVE  /\ os' = [buttons |-> os'.buttons, at |-> os'.at, down |-> os'.down, by |-> os'.by,
                   missed |-> os'.missed, torn |-> os'.torn]
         /\ ~enabled =>
              /\ os'.buttons = os.buttons /\ os'.by = os.by /\ os'.down = os.down
              /\ os'.missed = TRUE
              /\ os'.torn = (os.torn \/ what \in {"B_MOUSE_UP", "B_MOUSE_DOWN"})
         /\ enabled =>
              /\ os'.buttons = buttons /\ os'.at = at /\ os'.missed = FALSE
              /\ buttons = {} => os'.by = NoClient
              /\ buttons # {} /\ (\/ what \in {"B_MOUSE_UP", "B_MOUSE_DOWN"}
                                  \/ os.missed \/ buttons # os.buttons) => os'.by = c
              /\ buttons # {} => os'.by \in {c, os.by}
              /\ os'.torn = (os.torn /\ what \notin {"B_MOUSE_UP", "B_MOUSE_DOWN"})
              /\ what = "B_MOUSE_UP" => os'.down = FALSE
              /\ what = "B_MOUSE_DOWN" => os'.down = TRUE
              /\ what \notin {"B_MOUSE_UP", "B_MOUSE_DOWN"} => os'.down = os.down
<1>1. CASE ~enabled
  BY <1>1 DEF P!Inject, MouseTypes
<1>2. CASE enabled
  <2> DEFINE pair == what \in {"B_MOUSE_UP", "B_MOUSE_DOWN"}
             by == IF buttons = {} THEN NoClient
                   ELSE IF pair \/ os.missed \/ buttons # os.buttons THEN c ELSE os.by
             down == IF pair THEN what = "B_MOUSE_DOWN" ELSE os.down
             torn == os.torn /\ ~pair
  <2>1. os' = [os EXCEPT !.buttons = buttons, !.at = at, !.by = by, !.down = down,
                         !.missed = FALSE, !.torn = torn]
    BY <1>2 DEF P!Inject
  <2>2. /\ buttons = {} => by = NoClient
        /\ buttons # {} /\ (pair \/ os.missed \/ buttons # os.buttons) => by = c
        /\ buttons # {} => by \in {c, os.by}
    OBVIOUS
  <2>3. /\ what = "B_MOUSE_UP" => down = FALSE
        /\ what = "B_MOUSE_DOWN" => down = TRUE
        /\ ~pair => down = os.down
    OBVIOUS
  <2> HIDE DEF by, down, torn
  <2>4. /\ os'.buttons = buttons /\ os'.at = at /\ os'.missed = FALSE
        /\ os'.by = by /\ os'.down = down /\ os'.torn = torn
        /\ os' = [buttons |-> os'.buttons, at |-> os'.at, down |-> os'.down, by |-> os'.by,
                   missed |-> os'.missed, torn |-> os'.torn]
    BY <2>1 DEF MouseTypes
  <2> QED
    BY <1>2, <2>2, <2>3, <2>4 DEF torn
<1> QED
  BY <1>1, <1>2 DEF MouseTypes

(* A viewer's event keeps the mouse known, and moves or presses nothing     *)
(* while another viewer's buttons are down.                                 *)
LEMMA PointerKeeps ==
  ASSUME MouseInv, NEW v \in Client, NEW x, NEW mask, P!pointerEvent(v, x, mask)
  PROVE  /\ MouseInv'
         /\ ~os.missed /\ os.by # NoClient /\ <<os.at, os.buttons>>' # <<os.at, os.buttons>> => v = os.by
<1> USE DEF MouseInv
<1> DEFINE buttons == P!BeOSButtons(mask)
           old == mouse.buttons \cap P!Regular
           new == buttons \cap P!Regular
           what == P!What(old, new)
           at == P!Absolute(x, mouse.width)
           moves == what # "B_MOUSE_MOVED" \/ at # mouse.at \/ new # old
<1>0. /\ v \in viewers \ gone
      /\ UNCHANGED <<viewers, gone, enabled>>
      /\ v # NoClient
  BY PointerSizes DEF P!pointerEvent, P!Open, P!SizeAssumption, MouseTypes
<1>1. CASE UNCHANGED <<mouse, os>> /\ pointerClient' = pointerClient
  BY <1>0, <1>1 DEF MouseTypes, MouseHolder, P!ButtonsAreHeld
<1>2. CASE /\ ~(mouse.injector /\ mouse.width # 0) /\ UNCHANGED <<mouse, os>>
           /\ pointerClient \in {NoClient, v} /\ pointerClient' \in {NoClient, v}
  <2>1. os.by \in gone \cup {NoClient}
    BY <1>2 DEF MouseHolder
  <2>2. ~os.missed /\ os.buttons # {} => os.by = NoClient
    BY <1>0, <1>2, <2>1 DEF P!ButtonsAreHeld
  <2>3. P!ButtonsAreHeld'
    BY <1>2, <2>2 DEF P!ButtonsAreHeld
  <2>4. MouseTypes' /\ MouseHolder'
    BY <1>0, <1>2 DEF MouseTypes, MouseHolder
  <2> QED
    BY <1>2, <2>3, <2>4
<1>3. CASE /\ mouse.injector /\ mouse.width # 0
           /\ pointerClient \in {NoClient, v}
           /\ pointerClient' = IF mask = {} THEN NoClient ELSE v
           /\ P!DesktopPointerEvent(v, x, mask)
  <2>1. /\ buttons \subseteq P!Regular \cup P!Wheel /\ old \subseteq P!Regular /\ new \subseteq P!Regular
        /\ new # {} => mask # {}
    BY ButtonTypes
  <2>2. /\ what = "B_MOUSE_UP" <=> new = {} /\ old # {}
        /\ what = "B_MOUSE_DOWN" <=> new # {} /\ old = {}
    BY WhatKinds
  <2>3. IF moves THEN P!Inject(v, what, new, at) ELSE UNCHANGED os
    BY <1>3 DEF P!DesktopPointerEvent
  <2>4. /\ mouse' = [mouse'  EXCEPT !.width = mouse.width]
        /\ mouse' = [buttons |-> mouse'.buttons, at |-> mouse'.at, clicks |-> mouse'.clicks,
                     sinceDown |-> mouse'.sinceDown, width |-> mouse'.width, injector |-> mouse'.injector]
        /\ mouse'.buttons = buttons /\ mouse'.at = at
        /\ mouse'.width = mouse.width /\ mouse'.injector = mouse.injector
        /\ mouse'.clicks \in 1 .. MaxClicks /\ mouse'.sinceDown \in 0 .. ClickTime + 1
    <3> DEFINE number == IF mouse.sinceDown <= ClickTime THEN mouse.clicks + 1 ELSE 1
               clicks == IF what = "B_MOUSE_DOWN" THEN number ELSE mouse.clicks
               since == IF what = "B_MOUSE_DOWN" THEN 0 ELSE mouse.sinceDown
    <3>1. /\ mouse' = [mouse EXCEPT !.buttons = buttons, !.at = at, !.clicks = clicks, !.sinceDown = since]
          /\ what = "B_MOUSE_DOWN" => number <= MaxClicks
      BY <1>3 DEF P!DesktopPointerEvent
    <3>2. clicks \in 1 .. MaxClicks /\ since \in 0 .. ClickTime + 1
      <4>1. number \in Nat \ {0}
        BY DEF MouseTypes
      <4> HIDE DEF number, what
      <4> QED
        BY <3>1, <4>1, PointerSizes DEF MouseTypes, P!SizeAssumption
    <3> HIDE DEF clicks, since, buttons, at
    <3> QED
      BY <3>1, <3>2 DEF MouseTypes
  <2> HIDE DEF buttons, what, at
  <2>5. CASE ~moves
    <3>1. UNCHANGED os /\ new = old
      BY <2>3, <2>5
    <3>2. ~os.missed /\ os.buttons # {} => os.by \in {v, NoClient} /\ pointerClient' = v
      BY <1>3, <2>1, <3>1 DEF P!ButtonsAreHeld
    <3>3. P!ButtonsAreHeld'
      BY <2>4, <2>5, <3>1, <3>2 DEF P!ButtonsAreHeld
    <3>4. MouseTypes' /\ MouseHolder'
      BY <1>0, <1>3, <2>1, <2>4, <3>1 DEF MouseTypes, MouseHolder
    <3> QED
      BY <2>4, <3>1, <3>3, <3>4
  <2>6. CASE moves
    <3> DEFINE pair == what \in {"B_MOUSE_UP", "B_MOUSE_DOWN"}
    <3>1. P!Inject(v, what, new, at)
      BY <2>3, <2>6
    <3>2. pair <=> ~(new = {} <=> old = {})
      BY <2>2
    <3>3. os' = [buttons |-> os'.buttons, at |-> os'.at, down |-> os'.down, by |-> os'.by,
                 missed |-> os'.missed, torn |-> os'.torn]
      BY <2>1, <3>1, Injected
    <3>4. CASE ~enabled
      <4>1. /\ os'.buttons = os.buttons /\ os'.by = os.by /\ os'.down = os.down
            /\ os'.missed = TRUE /\ os'.torn = (os.torn \/ pair)
        BY <2>1, <3>1, <3>4, Injected
      <4> HIDE DEF pair, new, old
      <4>2. os'.torn = FALSE => (new = {} <=> old = {}) /\ ~os.torn
        BY <3>2, <4>1
      <4>3. os'.torn \in BOOLEAN
        BY <4>1 DEF MouseTypes
      <4>4. new = mouse'.buttons \cap P!Regular /\ old = mouse.buttons \cap P!Regular
        BY <2>4 DEF new, old
      <4>5. P!ButtonsAreHeld' /\ (~os'.torn => (os'.buttons # {} <=> mouse'.buttons \cap P!Regular # {}))
        BY <4>1, <4>2, <4>3, <4>4 DEF P!ButtonsAreHeld
      <4>6. MouseTypes' /\ MouseHolder'
        BY <1>0, <1>3, <2>1, <2>4, <3>3, <4>1, <4>3 DEF MouseTypes, MouseHolder
      <4>7. ~os.missed /\ os.by # NoClient => os.by = v
        BY <1>3 DEF P!ButtonsAreHeld, MouseHolder
      <4> QED
        BY <4>5, <4>6, <4>7
    <3>5. CASE enabled
      <4>1. /\ os'.buttons = new /\ os'.at = at /\ os'.missed = FALSE
            /\ new = {} => os'.by = NoClient
            /\ new # {} /\ (pair \/ os.missed \/ new # os.buttons) => os'.by = v
            /\ new # {} => os'.by \in {v, os.by}
            /\ os'.torn = (os.torn /\ ~pair)
            /\ what = "B_MOUSE_UP" => os'.down = FALSE
            /\ what = "B_MOUSE_DOWN" => os'.down = TRUE
            /\ ~pair => os'.down = os.down
        <5>1. os'.torn = (os.torn /\ ~pair)
          <6>1. os'.torn = (os.torn /\ what \notin {"B_MOUSE_UP", "B_MOUSE_DOWN"})
            BY <2>1, <3>1, <3>5, Injected
          <6> QED
            BY <6>1, Zenon
        <5> HIDE DEF new
        <5> QED
          BY <2>1, <3>1, <3>5, <5>1, Injected
      <4>2. os'.torn \in BOOLEAN /\ os'.down \in BOOLEAN
        BY <4>1 DEF MouseTypes
      <4>3. pair => (os'.down <=> new # {})
        BY <2>2, <4>1
      <4>4. ~pair /\ ~os.torn => (os'.down <=> new # {})
        BY <3>2, <4>1 DEF P!ButtonsAreHeld
      <4>5. new = mouse'.buttons \cap P!Regular /\ old = mouse.buttons \cap P!Regular
        BY <2>4
      <4>6. new # {} => pointerClient' = v
        BY <1>3, <2>1
      <4>7. new # {} => os'.by = v \/ (~os.missed /\ os.buttons = new /\ os'.by = os.by)
        BY <4>1
      <4>8. ~os.missed /\ os.buttons # {} => os.by \in {v, NoClient}
        BY <1>3 DEF P!ButtonsAreHeld
      <4> HIDE DEF pair, new, old
      <4>9. new # {} => os'.by \in {v, NoClient}
        BY <4>7, <4>8
      <4>10. ~os'.torn => (os'.down <=> new # {})
        BY <4>1, <4>2, <4>3, <4>4
      <4>11. P!ButtonsAreHeld' /\ (~os'.torn => (os'.buttons # {} <=> mouse'.buttons \cap P!Regular # {}))
        BY <2>4, <4>1, <4>5, <4>6, <4>9, <4>10 DEF P!ButtonsAreHeld
      <4>12. os'.by \in {v, NoClient}
        BY <4>1, <4>9
      <4>13. MouseTypes' /\ MouseHolder'
        BY <1>0, <1>3, <2>1, <2>4, <3>3, <4>1, <4>2, <4>12 DEF MouseTypes, MouseHolder, new
      <4>14. ~os.missed /\ os.by # NoClient => os.by = v
        BY <4>8 DEF MouseHolder
      <4> QED
        BY <4>11, <4>13, <4>14
    <3> QED
      BY <3>4, <3>5 DEF MouseTypes
  <2> QED
    BY <2>5, <2>6
<1> QED
  BY <1>1, <1>2, <1>3 DEF P!pointerEvent, P!Passes

LEMMA DeleteKeeps ==
  ASSUME MouseInv, NEW v \in Client, P!Delete(v)
  PROVE  MouseInv' /\ os'.at = os.at /\ os'.buttons = os.buttons
<1> USE DEF MouseInv
<1>1. /\ os' = [buttons |-> os'.buttons, at |-> os'.at, down |-> os'.down, by |-> os'.by,
                missed |-> os'.missed, torn |-> os'.torn]
      /\ os'.at = os.at /\ os'.buttons = os.buttons /\ os'.down = os.down
      /\ os'.missed = os.missed /\ os'.torn = os.torn
      /\ os'.by = IF os.by = v THEN NoClient ELSE os.by
  BY DEF P!Delete, MouseTypes
<1>2. /\ mouse' = [buttons |-> mouse'.buttons, at |-> mouse'.at, clicks |-> mouse'.clicks,
                   sinceDown |-> mouse'.sinceDown, width |-> mouse'.width, injector |-> mouse'.injector]
      /\ mouse'.buttons = mouse.buttons /\ mouse'.at = mouse.at /\ mouse'.clicks = mouse.clicks
      /\ mouse'.sinceDown = mouse.sinceDown
      /\ \/ mouse'.width = mouse.width /\ mouse'.injector = mouse.injector
         \/ mouse'.width = 0 /\ mouse'.injector = FALSE /\ viewers \ gone = {}
  BY DEF P!Delete, P!Open, MouseTypes
<1>3. MouseTypes'
  BY <1>1, <1>2 DEF P!Delete, MouseTypes
<1>4. MouseHolder'
  BY <1>1, <1>2 DEF P!Delete, MouseHolder, MouseTypes
<1>5. P!ButtonsAreHeld' /\ (~os'.torn => (os'.buttons # {} <=> mouse'.buttons \cap P!Regular # {}))
  BY <1>1, <1>2 DEF P!Delete, P!ButtonsAreHeld
<1> QED
  BY <1>1, <1>3, <1>4, <1>5

LEMMA MouseStep ==
  ASSUME MouseInv, [P!Next]_P!vars
  PROVE  /\ MouseInv'
         /\ [ ~os.missed /\ os.by # NoClient /\ <<os.at, os.buttons>>' # <<os.at, os.buttons>>
                => \E x \in 0 .. MaxX, mask \in Masks : P!pointerEvent(os.by, x, mask) ]_P!vars
<1> USE DEF MouseInv
<1> DEFINE Whole == ~os.missed /\ os.by # NoClient /\ <<os.at, os.buttons>>' # <<os.at, os.buttons>>
                      => \E x \in 0 .. MaxX, mask \in Masks : P!pointerEvent(os.by, x, mask)
<1> SUFFICES MouseInv' /\ (Whole \/ UNCHANGED P!vars)
  OBVIOUS
<1>1. ASSUME NEW v \in Client, P!Connect(v) PROVE MouseInv' /\ Whole
  <2>1. /\ UNCHANGED <<gone, pointerClient, enabled, os>> /\ viewers' = viewers \cup {v}
        /\ mouse' = [buttons |-> mouse'.buttons, at |-> mouse'.at, clicks |-> mouse'.clicks,
                     sinceDown |-> mouse'.sinceDown, width |-> mouse'.width, injector |-> mouse'.injector]
        /\ mouse'.buttons = mouse.buttons /\ mouse'.at = mouse.at /\ mouse'.clicks = mouse.clicks
        /\ mouse'.sinceDown = mouse.sinceDown /\ mouse'.injector \in BOOLEAN
        /\ \/ mouse' = mouse
           \/ mouse.width = 0 /\ mouse'.width # 0
    BY <1>1, PointerSizes DEF P!Connect, MouseTypes, P!SizeAssumption
  <2>2. MouseTypes' /\ MouseHolder'
    BY <2>1 DEF MouseTypes, MouseHolder
  <2> QED
    BY <2>1, <2>2 DEF P!ButtonsAreHeld
<1>2. ASSUME NEW v \in Client, P!Close(v) PROVE MouseInv' /\ Whole
  BY <1>2 DEF P!Close, P!Open, MouseTypes, MouseHolder, P!ButtonsAreHeld
<1>3. ASSUME NEW v \in Client, P!Delete(v) PROVE MouseInv' /\ Whole
  BY <1>3, DeleteKeeps
<1>4. ASSUME NEW v \in Client, NEW x \in 0 .. MaxX, NEW mask \in Masks, P!pointerEvent(v, x, mask)
      PROVE  MouseInv' /\ Whole
  <2>1. MouseInv'
    BY <1>4, PointerKeeps
  <2>2. ~os.missed /\ os.by # NoClient /\ <<os.at, os.buttons>>' # <<os.at, os.buttons>> => v = os.by
    BY <1>4, PointerKeeps
  <2> QED
    BY <1>4, <2>1, <2>2
<1>5. ASSUME P!ScreenChanges \/ P!TimePasses PROVE MouseInv' /\ Whole
  <2>1. /\ UNCHANGED <<viewers, gone, pointerClient, enabled, os>>
        /\ mouse' = [buttons |-> mouse'.buttons, at |-> mouse'.at, clicks |-> mouse'.clicks,
                     sinceDown |-> mouse'.sinceDown, width |-> mouse'.width, injector |-> mouse'.injector]
        /\ mouse'.buttons = mouse.buttons /\ mouse'.at = mouse.at /\ mouse'.clicks = mouse.clicks
        /\ mouse'.injector = mouse.injector
        /\ mouse'.sinceDown \in 0 .. ClickTime + 1
        /\ mouse'.width = mouse.width \/ (mouse.width # 0 /\ mouse'.width # 0)
    <3>1. CASE P!ScreenChanges
      BY <3>1, PointerSizes DEF P!ScreenChanges, MouseTypes, P!SizeAssumption
    <3>2. CASE P!TimePasses
      <4>1. mouse.sinceDown + 1 \in 0 .. ClickTime + 1
        BY <3>2, PointerSizes DEF P!TimePasses, MouseTypes, P!SizeAssumption
      <4> DEFINE since == mouse.sinceDown + 1
      <4>2. mouse' = [mouse EXCEPT !.sinceDown = since]
        BY <3>2 DEF P!TimePasses
      <4> HIDE DEF since
      <4> QED
        BY <3>2, <4>1, <4>2 DEF P!TimePasses, MouseTypes, since
    <3> QED
      BY <1>5, <3>1, <3>2
  <2>2. MouseTypes' /\ MouseHolder'
    BY <2>1 DEF MouseTypes, MouseHolder
  <2> QED
    BY <2>1, <2>2 DEF P!ButtonsAreHeld
<1>6. ASSUME P!StartOrStop PROVE MouseInv' /\ Whole
  BY <1>6 DEF P!StartOrStop, MouseTypes, MouseHolder, P!ButtonsAreHeld
<1>7. ASSUME UNCHANGED P!vars PROVE MouseInv'
  BY <1>7 DEF P!vars, MouseTypes, MouseHolder, P!ButtonsAreHeld
<1> HIDE DEF Whole, MouseInv
<1> QED
  BY <1>1, <1>2, <1>3, <1>4, <1>5, <1>6, <1>7 DEF P!Next

LEMMA MouseSteps ==
  ASSUME MouseInv, [InputNext]_<<part, vars, pointerVars>>
  PROVE  /\ MouseInv'
         /\ [ ~os.missed /\ os.by # NoClient /\ <<os.at, os.buttons>>' # <<os.at, os.buttons>>
                => \E x \in 0 .. MaxX, mask \in Masks : P!pointerEvent(os.by, x, mask) ]_P!vars
<1>1. [P!Next]_P!vars
  BY DEF InputNext, Typing, pointerVars, P!vars
<1> QED
  BY <1>1, MouseStep

(* Pointer: what one viewer drags, from the press to the release, no other  *)
(* viewer moves, drops or presses another button over (pointerEvent() lets  *)
(* the events of one client pass while it holds a button).                  *)
THEOREM NobodyDisturbsADrag == InputSpec => DragsAreWhole
<1>1. InputInit => MouseInv
  BY MouseInit DEF InputInit
<1> DEFINE Whole == ~os.missed /\ os.by # NoClient /\ <<os.at, os.buttons>>' # <<os.at, os.buttons>>
                      => \E x \in 0 .. MaxX, mask \in Masks : P!pointerEvent(os.by, x, mask)
<1>2. MouseInv /\ [InputNext]_<<part, vars, pointerVars>> => MouseInv' /\ [Whole]_P!vars
  BY MouseSteps
<1> HIDE DEF Whole
<1>3. InputSpec => [][Whole]_P!vars
  BY <1>1, <1>2, PTL DEF InputSpec
<1> QED
  BY <1>3 DEF DragsAreWhole, P!DragsAreWhole, Whole

-----------------------------------------------------------------------------
(***************************************************************************)
(* The keyboards.                                                          *)
(***************************************************************************)
KeyCode == 1 .. 127

(* What the desktop may remember of the keyboard while BeOS has been told  *)
(* of all of it.                                                           *)
Known ==
  {d \in [modifiers : SUBSET Range(Modifier), keys : SUBSET KeyCode, user : SUBSET Range(Modifier),
          osModifiers : SUBSET Range(Modifier), osKeys : SUBSET KeyCode, undefined : BOOLEAN] :
     d.osKeys = d.keys /\ d.osModifiers = d.modifiers}

KeyboardInv ==
  /\ pressed \in [Client -> SUBSET Key]
  /\ closed \subseteq clients /\ clients \subseteq Client
  /\ keyMap \in KeyMaps \cup {NoKeyMap}
  /\ desk \in Known
  /\ lost \in [modifiers : SUBSET Range(Modifier), keys : SUBSET KeyCode]

LEMMA ModifierNames ==
  /\ DOMAIN Modifier = 1 .. 11
  /\ Range(Modifier) = {"caps", "scroll", "num", "shiftL", "shiftR", "commandL",
                        "commandR", "controlL", "controlR", "optionL", "optionR"}
<1>1. /\ DOMAIN Modifier = 1 .. 11
      /\ Modifier[1] = "caps" /\ Modifier[2] = "scroll" /\ Modifier[3] = "num"
      /\ Modifier[4] = "shiftL" /\ Modifier[5] = "shiftR" /\ Modifier[6] = "commandL"
      /\ Modifier[7] = "commandR" /\ Modifier[8] = "controlL" /\ Modifier[9] = "controlR"
      /\ Modifier[10] = "optionL" /\ Modifier[11] = "optionR"
  BY DEF Modifier
<1>2. 1 .. 11 = {1, 2, 3, 4, 5, 6, 7, 8, 9, 10, 11}
  OBVIOUS
<1> QED
  BY <1>1, <1>2 DEF Range

LEMMA ChangedNames ==
  ASSUME NEW map, NEW key PROVE ChangedModifiers(map, key) \subseteq Range(Modifier)
<1> DEFINE R == Range(Modifier)
           control == IF Swapped(map) THEN <<"commandL", "commandR">> ELSE <<"controlL", "controlR">>
           alt == IF Swapped(map) THEN <<"controlL", "controlR">> ELSE <<"commandL", "commandR">>
<1>1. control[1] \in R /\ control[2] \in R /\ alt[1] \in R /\ alt[2] \in R
  BY ModifierNames
<1>2. "caps" \in R /\ "scroll" \in R /\ "num" \in R /\ "shiftL" \in R /\ "shiftR" \in R
      /\ "optionL" \in R /\ "optionR" \in R
  BY ModifierNames
<1> DEFINE means == << <<65509, "caps">>, <<XK_Scroll_Lock, "scroll">>, <<65407, "num">>,
                       <<XK_Shift_L, "shiftL">>, <<XK_Shift_R, "shiftR">>,
                       <<65507, control[1]>>, <<65508, control[2]>>,
                       <<65513, alt[1]>>, <<65514, alt[2]>>,
                       <<65511, "optionL">>, <<65515, "optionL">>,
                       <<65512, "optionR">>, <<65516, "optionR">> >>
<1>3. ChangedModifiers(map, key) = {pair[2] : pair \in {q \in Range(means) : q[1] = key}}
  BY DEF ChangedModifiers
<1> HIDE DEF R, control, alt
<1>4. \A p \in Range(means) : p[2] \in R
  <2>1. \A k \in DOMAIN means : means[k][2] \in R
    BY <1>1, <1>2
  <2> QED
    BY <2>1 DEF Range
<1> HIDE DEF means
<1> SUFFICES ASSUME NEW n \in ChangedModifiers(map, key) PROVE n \in R
  BY DEF R
<1>5. PICK p \in {q \in Range(means) : q[1] = key} : n = p[2]
  BY <1>3
<1> QED
  BY <1>4, <1>5

LEMMA WrittenKeys ==
  ASSUME NEW map, IsKeyMap(map), NEW keys \in SUBSET KeyCode, NEW modifiers
  PROVE  WriteModifiersToKeyState(map, keys, modifiers) \in SUBSET KeyCode
<1>1. \A m \in DOMAIN Modifier : map.code[Modifier[m]] \in 0 .. 127
  BY DEF IsKeyMap, Range
<1> DEFINE CodesOf(S) == {map.code[Modifier[m]] : m \in S} \ {0}
           decided == {m \in DOMAIN Modifier :
                         /\ \A n \in (m + 1)..Len(Modifier) : map.code[Modifier[n]] # map.code[Modifier[m]]
                         /\ Modifier[m] \in modifiers}
<1>2. WriteModifiersToKeyState(map, keys, modifiers) = (keys \ CodesOf(DOMAIN Modifier)) \cup CodesOf(decided)
  BY DEF WriteModifiersToKeyState
<1>3. decided \subseteq DOMAIN Modifier
  OBVIOUS
<1> HIDE DEF decided
<1>4. CodesOf(decided) \subseteq KeyCode
  BY <1>1, <1>3 DEF KeyCode
<1> QED
  BY <1>2, <1>4

LEMMA Switched ==
  ASSUME NEW map, IsKeyMap(map), NEW d \in Known, NEW modifiers \in SUBSET Range(Modifier)
  PROVE  SwitchModifiers(d, map, modifiers) \in Known
<1> DEFINE keys == WriteModifiersToKeyState(map, d.keys, modifiers)
           osKeys == (d.osKeys \ (d.keys \ keys)) \cup (keys \ d.keys)
           osModifiers == IF modifiers = d.modifiers THEN d.osModifiers ELSE modifiers
<1>1. keys \in SUBSET KeyCode
  BY WrittenKeys DEF Known
<1>2. osKeys = keys /\ osModifiers = modifiers
  BY DEF Known
<1>3. SwitchModifiers(d, map, modifiers) =
        [[d EXCEPT !.osKeys = osKeys] EXCEPT !.modifiers = modifiers, !.keys = keys,
                                             !.osModifiers = osModifiers]
  BY DEF SwitchModifiers, SendUnmappedKeys, Known
<1> HIDE DEF keys, osKeys, osModifiers
<1> QED
  BY <1>1, <1>2, <1>3 DEF Known

LEMMA Reverted ==
  ASSUME NEW map, IsKeyMap(map), NEW d \in Known
  PROVE  RevertToUsersModifierKeys(d, map) \in Known
BY Switched DEF RevertToUsersModifierKeys, Known

LEMMA Sent ==
  ASSUME NEW d \in Known, NEW code \in KeyCode, NEW down
  PROVE  SendKey(d, code, down) \in Known
<1> DEFINE keys == SetKeyState(d.keys, code, down)
           osKeys == IF down THEN d.osKeys \cup {code} ELSE d.osKeys \ {code}
<1>1. keys \in SUBSET KeyCode /\ osKeys = keys
  BY DEF Known, SetKeyState, KeyCode
<1>2. SendKey(d, code, down) = [d EXCEPT !.keys = keys, !.osKeys = osKeys]
  BY DEF SendKey
<1> HIDE DEF keys, osKeys
<1> QED
  BY <1>1, <1>2 DEF Known

LEMMA KeyPressed ==
  ASSUME NEW map, IsKeyMap(map), NEW d \in Known, NEW code \in KeyCode, NEW down
  PROVE  PressKey(d, map, code, down) \in Known
BY Sent, Reverted DEF PressKey

LEMMA ModifierSwitched ==
  ASSUME NEW map, IsKeyMap(map), NEW d \in Known, NEW changed \in SUBSET Range(Modifier), NEW down
  PROVE  ModifierKey(d, map, changed, down) \in Known
<1> DEFINE user == IF down THEN d.user \cup changed ELSE d.user \ changed
           modifiers == IF down THEN d.modifiers \cup changed ELSE d.modifiers \ changed
<1>1. user \in SUBSET Range(Modifier) /\ modifiers \in SUBSET Range(Modifier)
  BY DEF Known
<1>2. ModifierKey(d, map, changed, down) = SwitchModifiers([d EXCEPT !.user = user], map, modifiers)
  BY DEF ModifierKey
<1> HIDE DEF user, modifiers
<1>3. [d EXCEPT !.user = user] \in Known
  BY <1>1 DEF Known
<1> QED
  BY <1>1, <1>2, <1>3, Switched

LEMMA CodeFound ==
  ASSUME NEW chars, DOMAIN chars \subseteq KeyCode, NEW char, NEW suggested, NEW nulEnds
  PROVE  FindKeyCodeFromMap(chars, char, suggested, nulEnds) \in KeyCode \cup {0}
<1> DEFINE found == {code \in DOMAIN chars : chars[code] = char /\ (char = 0 => nulEnds)}
<1>1. FindKeyCodeFromMap(chars, char, suggested, nulEnds) =
        IF found = {} THEN 0 ELSE IF suggested \in found THEN suggested ELSE Min(found)
  BY DEF FindKeyCodeFromMap
<1>2. found \subseteq KeyCode
  OBVIOUS
<1> HIDE DEF found
<1>3. found # {} => Min(found) \in found
  <2>1. found \in SUBSET Nat
    BY <1>2 DEF KeyCode
  <2>2. found # {} => \E n \in found : \A k \in found : n <= k
    BY <2>1, LeastNatural
  <2> QED
    BY <2>2 DEF Min
<1> QED
  BY <1>1, <1>2, <1>3

(* A search ends with a key that exists, under the entry of its list.       *)
LEMMA Searched ==
  ASSUME NEW map, IsKeyMap(map), NEW list, NEW tried \in SUBSET Nat,
         \A i \in tried : list[i][1] \in MapName,
         NEW char, NEW suggested, NEW nulEnds
  PROVE  LET found == Search(list, tried, map, char, suggested, nulEnds)
         IN  /\ found[1] \in KeyCode \cup {0}
             /\ found[1] # 0 => \E i \in tried : found[2] = list[i][2]
<1> DEFINE Code(i) == FindKeyCodeFromMap(map.chars[list[i][1]], char, suggested, nulEnds)
           hits == {i \in tried : Code(i) # 0}
<1>1. \A i \in tried : Code(i) \in KeyCode \cup {0}
  BY CodeFound DEF IsKeyMap, KeyCode
<1>2. Search(list, tried, map, char, suggested, nulEnds) =
        IF hits = {} THEN <<0, {}>> ELSE <<Code(Min(hits)), list[Min(hits)][2]>>
  BY DEF Search
<1>3. hits \subseteq tried
  OBVIOUS
<1> HIDE DEF Code, hits
<1>4. hits # {} => Min(hits) \in hits
  <2>1. hits # {} => \E n \in hits : \A k \in hits : n <= k
    BY <1>3, LeastNatural
  <2> QED
    BY <2>1 DEF Min
<1> DEFINE r == Search(list, tried, map, char, suggested, nulEnds)
<1> SUFFICES r[1] \in KeyCode \cup {0} /\ (r[1] # 0 => \E i \in tried : r[2] = list[i][2])
  OBVIOUS
<1> HIDE DEF r
<1>5. CASE hits = {}
  BY <1>2, <1>5 DEF r
<1>6. CASE hits # {}
  <2>1. r = <<Code(Min(hits)), list[Min(hits)][2]>>
    BY <1>2, <1>6 DEF r
  <2> QED
    BY <1>1, <1>3, <1>4, <1>6, <2>1
<1> QED
  BY <1>5, <1>6

LEMMA CurrentNames == DOMAIN Current \subseteq Nat /\ \A i \in DOMAIN Current : Current[i][1] \in MapName
BY DEF Current, MapName

LEMMA OthersNames ==
  /\ DOMAIN Others \subseteq Nat
  /\ \A i \in DOMAIN Others : Others[i][1] \in MapName /\ Others[i][2] \subseteq Range(Modifier)
BY ModifierNames DEF Others, MapName

LEMMA CharacterTyped ==
  ASSUME NEW map, IsKeyMap(map), NEW d \in Known, NEW key, NEW down, NEW nulEnds
  PROVE  TypeCharacter(d, map, key, down, nulEnds) \in Known
<1> DEFINE suggested == IF key \in Listed THEN Suggested[key] ELSE 0
           active == {i \in DOMAIN Current : Current[i][2] \subseteq On(d.modifiers)}
           now == Search(Current, active, map, Character(d, key), suggested, nulEnds)
           other == Search(Others, DOMAIN Others, map, Character(d, key), suggested, nulEnds)
           kept == d.modifiers \cap {"scroll", "num", "commandL", "commandR"}
           keys == SetKeyState(d.keys, suggested, down)
           r == TypeCharacter(d, map, key, down, nulEnds)
<1>1. /\ now[1] # 0 => r = PressKey(d, map, now[1], down)
      /\ now[1] = 0 /\ other[1] # 0 =>
           r = PressKey(SwitchModifiers(d, map, other[2] \cup kept), map, other[1], down)
      /\ now[1] = 0 /\ other[1] = 0 => r = [SendUnmappedKeys(d, d.keys, keys) EXCEPT !.keys = keys]
  <2> HIDE DEF suggested, active, now, other, kept, keys
  <2>1. r = CASE now[1] # 0 -> PressKey(d, map, now[1], down)
              [] now[1] = 0 /\ other[1] # 0 ->
                   PressKey(SwitchModifiers(d, map, other[2] \cup kept), map, other[1], down)
              [] now[1] = 0 /\ other[1] = 0 ->
                   [SendUnmappedKeys(d, d.keys, keys) EXCEPT !.keys = keys]
    BY DEF TypeCharacter, suggested, active, now, other, kept, keys
  <2> HIDE DEF r
  <2> QED
    BY <2>1
<1>2. now[1] \in KeyCode \cup {0}
  <2>1. active \in SUBSET Nat /\ \A i \in active : Current[i][1] \in MapName
    BY CurrentNames
  <2> HIDE DEF active
  <2> QED
    BY <2>1, Searched
<1>3. other[1] \in KeyCode \cup {0} /\ (other[1] # 0 => other[2] \subseteq Range(Modifier))
  BY OthersNames, Searched
<1>4. kept \subseteq Range(Modifier)
  BY DEF Known
<1>5. keys \in SUBSET KeyCode
  BY DEF SetKeyState, KeyCode, Known
<1> SUFFICES r \in Known
  OBVIOUS
<1> HIDE DEF now, other, kept, keys, r
<1>6. CASE now[1] # 0
  BY <1>1, <1>2, <1>6, KeyPressed
<1>7. CASE now[1] = 0 /\ other[1] # 0
  <2> DEFINE switched == SwitchModifiers(d, map, other[2] \cup kept)
  <2>1. switched \in Known
    BY <1>3, <1>4, <1>7, Switched
  <2> HIDE DEF switched
  <2>2. PressKey(switched, map, other[1], down) \in Known
    BY <1>3, <1>7, <2>1, KeyPressed
  <2> QED
    BY <1>1, <1>7, <2>2 DEF switched
<1>8. CASE now[1] = 0 /\ other[1] = 0
  <2> DEFINE osKeys == (d.osKeys \ (d.keys \ keys)) \cup (keys \ d.keys)
  <2>1. osKeys = keys
    BY DEF Known
  <2>2. r = [[d EXCEPT !.osKeys = osKeys] EXCEPT !.keys = keys]
    BY <1>1, <1>8 DEF SendUnmappedKeys
  <2> HIDE DEF osKeys
  <2> QED
    BY <1>5, <2>1, <2>2 DEF Known
<1> QED
  BY <1>6, <1>7, <1>8

LEMMA KeyTyped ==
  ASSUME NEW map, IsKeyMap(map), NEW d \in Known, NEW key, NEW down, NEW nulEnds
  PROVE  TypeKey(d, map, key, down, nulEnds) \in Known
<1> DEFINE code == FunctionKey(map, key)
           r == TypeKey(d, map, key, down, nulEnds)
<1>1. code \in KeyCode \cup {0}
  <2>0. map.code["scroll"] \in 0 .. 127
    BY ModifierNames DEF IsKeyMap
  <2> HIDE DEF code
  <2>1. code = CASE key \in 65470 .. 65481 -> key - 65470 + 2
                 [] key = 65300 -> map.code["scroll"]
                 [] key = 65377 -> 14
                 [] key = 65299 -> 16
                 [] OTHER -> 0
    BY DEF code, FunctionKey, XK_F1, XK_F12, XK_Scroll_Lock, XK_Print, XK_Pause
  <2> QED
    BY <2>0, <2>1 DEF KeyCode
<1>2. r = CASE code # 0 -> SendKey(d, code, down)
            [] code = 0 /\ (key \in Listed \/ IsControl(d, key)) ->
                 TypeCharacter(d, map, key, down, nulEnds)
            [] OTHER -> d
  BY DEF TypeKey
<1> SUFFICES r \in Known
  OBVIOUS
<1> HIDE DEF code, r
<1>3. CASE code # 0
  BY <1>1, <1>2, <1>3, Sent
<1>4. CASE code = 0 /\ (key \in Listed \/ IsControl(d, key))
  <2>1. r = TypeCharacter(d, map, key, down, nulEnds)
    BY <1>2, <1>4
  <2> QED
    BY <2>1, CharacterTyped
<1>5. CASE code = 0 /\ ~(key \in Listed \/ IsControl(d, key))
  BY <1>2, <1>5
<1> QED
  BY <1>3, <1>4, <1>5

(* Every path of keyEvent() tells BeOS of what it changes.                  *)
LEMMA KeyEventKnown ==
  ASSUME NEW map, map = NoKeyMap \/ IsKeyMap(map), NEW d \in Known, NEW key, NEW down, NEW nulEnds
  PROVE  KeyEvent(d, map, key, down, nulEnds) \in Known
<1> DEFINE changed == ChangedModifiers(map, key)
           after == IF changed = {} THEN d ELSE ModifierKey(d, map, changed, down)
           read == after.undefined \/ (~nulEnds /\ ReadsBehind(after, key))
           typing == [after EXCEPT !.undefined = read]
           r == KeyEvent(d, map, key, down, nulEnds)
<1>1. changed \in SUBSET Range(Modifier)
  BY ChangedNames
<1>2. r = CASE map = NoKeyMap -> d
            [] map # NoKeyMap /\ changed \subseteq {"scroll"} -> TypeKey(typing, map, key, down, nulEnds)
            [] OTHER -> after
  BY DEF KeyEvent
<1> SUFFICES r \in Known
  OBVIOUS
<1> HIDE DEF r
<1>3. CASE map = NoKeyMap
  <2> HIDE DEF changed, typing, after
  <2> QED
    BY <1>2, <1>3
<1>4. CASE map # NoKeyMap
  <2> HIDE DEF changed
  <2>1. after \in Known
    BY <1>1, <1>4, ModifierSwitched
  <2>2. read \in BOOLEAN
    OBVIOUS
  <2> HIDE DEF after, read
  <2>3. typing \in Known
    BY <2>1, <2>2 DEF Known
  <2> HIDE DEF typing
  <2>4. TypeKey(typing, map, key, down, nulEnds) \in Known
    BY <1>4, <2>3, KeyTyped
  <2> QED
    BY <1>2, <1>4, <2>1, <2>4
<1> QED
  BY <1>3, <1>4

(* The keys of a deleted client are released one after the other.           *)
Releases(f, d, keys, nulEnds) ==
  /\ f[0] = d
  /\ \A n \in Nat : /\ f[n] \in Known
                    /\ f[n + 1] = KeyEvent(f[n], keyMap, Nth(keys, n + 1), FALSE, nulEnds)

LEMMA ReleasedInTurn ==
  ASSUME keyMap = NoKeyMap \/ IsKeyMap(keyMap), NEW d \in Known, NEW keys, IsFiniteSet(keys), NEW nulEnds
  PROVE  \E f : Releases(f, d, keys, nulEnds) /\ ReleaseAll(d, keys, nulEnds) = f[Cardinality(keys)]
<1> DEFINE Release(e, key) == KeyEvent(e, keyMap, key, FALSE, nulEnds)
           Eq(f) == f = [n \in Nat |-> IF n = 0 THEN d ELSE Release(f[n - 1], Nth(keys, n))]
           step == [p \in Nat \X Known |-> Release(p[2], Nth(keys, p[1] + 1))]
<1>1. ReleaseAll(d, keys, nulEnds) = (CHOOSE f : Eq(f))[Cardinality(keys)]
  BY DEF ReleaseAll
<1>2. step \in Step(Known)
  <2>1. \A p \in Nat \X Known : Release(p[2], Nth(keys, p[1] + 1)) \in Known
    BY KeyEventKnown
  <2> HIDE DEF Release
  <2> QED
    BY <2>1 DEF Step
<1>3. \A n \in Nat, e \in Known : step[<<n, e>>] = Release(e, Nth(keys, n + 1))
  OBVIOUS
<1> HIDE DEF step, Release
<1>4. PICK f : Follows(f, Known, d, step)
  BY <1>2, RecursiveFunction
<1>5. Eq(f) /\ \A n \in Nat : f[n] \in Known
  <2>1. \A n \in Nat : n # 0 => n - 1 \in Nat /\ n = (n - 1) + 1
    OBVIOUS
  <2>2. ASSUME NEW n \in Nat PROVE f[n] = IF n = 0 THEN d ELSE Release(f[n - 1], Nth(keys, n))
    <3>1. CASE n = 0
      BY <1>4, <3>1 DEF Follows
    <3>2. CASE n # 0
      <4>1. n - 1 \in Nat /\ n = (n - 1) + 1
        BY <2>1, <3>2
      <4>2. f[n] = step[<<n - 1, f[n - 1]>>] /\ f[n - 1] \in Known
        BY <1>4, <4>1 DEF Follows
      <4>3. step[<<n - 1, f[n - 1]>>] = Release(f[n - 1], Nth(keys, n))
        BY <1>3, <4>1, <4>2
      <4> QED
        BY <3>2, <4>2, <4>3
    <3> QED
      BY <3>1, <3>2
  <2> QED
    BY <1>4, <2>2 DEF Follows
<1>6. \A g : Eq(g) => \A n \in Nat : g[n] = f[n]
  <2> TAKE g
  <2> HAVE Eq(g)
  <2> DEFINE T == {n \in Nat : g[n] = f[n]}
  <2>1. 0 \in T
    BY <1>5
  <2>2. ASSUME NEW n \in Nat, n \in T PROVE n + 1 \in T
    <3>1. n + 1 \in Nat /\ n + 1 # 0 /\ (n + 1) - 1 = n
      OBVIOUS
    <3>2. g[n + 1] = Release(g[n], Nth(keys, n + 1)) /\ f[n + 1] = Release(f[n], Nth(keys, n + 1))
      BY <1>5, <3>1
    <3> QED
      BY <2>2, <3>1, <3>2
  <2> HIDE DEF T
  <2>3. Nat \subseteq T
    BY <2>1, <2>2, Induction
  <2> QED
    BY <2>3 DEF T
<1> HIDE DEF Eq
<1>7. Eq(CHOOSE g : Eq(g))
  BY <1>5
<1>8. Cardinality(keys) \in Nat
  BY FS_CardinalityType
<1>9. Releases(f, d, keys, nulEnds)
  <2>1. \A n \in Nat : n + 1 \in Nat /\ n + 1 # 0 /\ (n + 1) - 1 = n
    OBVIOUS
  <2> QED
    BY <1>5, <2>1 DEF Releases, Eq, Release
<1> QED
  BY <1>1, <1>6, <1>7, <1>8, <1>9

LEMMA ReleasedKnown ==
  ASSUME keyMap = NoKeyMap \/ IsKeyMap(keyMap), NEW d \in Known, NEW keys, IsFiniteSet(keys), NEW nulEnds
  PROVE  ReleaseAll(d, keys, nulEnds) \in Known
<1>1. PICK f : Releases(f, d, keys, nulEnds) /\ ReleaseAll(d, keys, nulEnds) = f[Cardinality(keys)]
  BY ReleasedInTurn
<1>2. Cardinality(keys) \in Nat
  BY FS_CardinalityType
<1> QED
  BY <1>1, <1>2 DEF Releases

LEMMA MapKnown == ASSUME KeyboardInv PROVE keyMap = NoKeyMap \/ IsKeyMap(keyMap)
BY KeyAssumption DEF KeyboardInv

LEMMA KeyMsgKnown ==
  ASSUME KeyboardInv, NEW v \in Client, NEW sent \in Key, NEW down \in BOOLEAN, NEW nulEnds,
         KeyMsg(v, sent, down, nulEnds)
  PROVE  KeyboardInv'
<1> DEFINE shifts == sent = XK_ISO_Left_Tab /\ pressed[v] \cap {XK_Shift_L, XK_Shift_R} = {}
           key == IF sent = XK_ISO_Left_Tab THEN XK_Tab ELSE sent
           shifted == IF shifts THEN KeyEvent(desk, keyMap, XK_Shift_L, TRUE, TRUE) ELSE desk
           typed == IF down \/ key \in pressed[v] THEN KeyEvent(shifted, keyMap, key, down, nulEnds) ELSE shifted
           after == IF shifts THEN KeyEvent(typed, keyMap, XK_Shift_L, FALSE, TRUE) ELSE typed
<1>1. /\ desk' = after
      /\ pressed' = [pressed EXCEPT ![v] = IF down THEN @ \cup {key} ELSE @ \ {key}]
      /\ UNCHANGED <<clients, closed, keyMap, lost>>
  BY DEF KeyMsg
<1>2. key \in Key
  BY KeyAssumption
<1>3. desk \in Known
  BY DEF KeyboardInv
<1> HIDE DEF key, shifts
<1>4. shifted \in Known
  BY <1>3, MapKnown, KeyEventKnown
<1> HIDE DEF shifted
<1>5. typed \in Known
  BY <1>4, MapKnown, KeyEventKnown
<1> HIDE DEF typed
<1>6. after \in Known
  BY <1>5, MapKnown, KeyEventKnown
<1> HIDE DEF after
<1>7. pressed' \in [Client -> SUBSET Key]
  BY <1>1, <1>2 DEF KeyboardInv
<1> QED
  BY <1>1, <1>6, <1>7 DEF KeyboardInv

LEMMA DeleteKnown ==
  ASSUME KeyboardInv, NEW v \in Client, NEW nulEnds, Delete(v, nulEnds) PROVE KeyboardInv'
<1>1. IsFiniteSet(pressed[v])
  BY KeyAssumption, FS_Subset DEF KeyboardInv
<1>2. desk' \in Known
  BY <1>1, MapKnown, ReleasedKnown DEF Delete, KeyboardInv
<1>3. pressed' \in [Client -> SUBSET Key]
  BY DEF Delete, KeyboardInv
<1>4. lost' \in [modifiers : SUBSET Range(Modifier), keys : SUBSET KeyCode]
  <2>1. \/ lost' = lost
        \/ lost' = [modifiers |-> lost.modifiers \cup desk'.modifiers \cup desk'.user,
                    keys |-> lost.keys \cup desk'.keys]
    BY DEF Delete
  <2>2. desk'.modifiers \cup desk'.user \subseteq Range(Modifier) /\ desk'.keys \subseteq KeyCode
    BY <1>2 DEF Known
  <2> QED
    BY <2>1, <2>2 DEF KeyboardInv
<1> QED
  BY <1>2, <1>3, <1>4 DEF Delete, KeyboardInv

LEMMA KeyboardStep ==
  ASSUME KeyboardInv, [InputNext]_<<part, vars, pointerVars>> PROVE KeyboardInv'
<1>1. ASSUME NEW v \in Client, Connect(v) PROVE KeyboardInv'
  BY <1>1 DEF Connect, KeyboardInv
<1>2. ASSUME NEW v \in Client, Close(v) PROVE KeyboardInv'
  BY <1>2 DEF Close, Open, KeyboardInv
<1>3. ASSUME UNCHANGED vars PROVE KeyboardInv'
  BY <1>3 DEF vars, KeyboardInv
<1> QED
  BY <1>1, <1>2, <1>3, DeleteKnown, KeyMsgKnown DEF InputNext, Typing

LEMMA KeyboardInit == Init => KeyboardInv
<1> SUFFICES ASSUME Init PROVE KeyboardInv
  OBVIOUS
<1> DEFINE unread == FALSE
<1>1. desk = [modifiers |-> {}, keys |-> {}, user |-> {}, osModifiers |-> {}, osKeys |-> {},
              undefined |-> unread]
  BY DEF Init
<1>2. unread \in BOOLEAN
  OBVIOUS
<1> HIDE DEF unread
<1>3. desk \in Known
  BY <1>1, <1>2 DEF Known
<1> QED
  BY <1>3 DEF Init, KeyboardInv

(* What BeOS has been told adds up to what the desktop remembers: each key  *)
(* and modifier that a path of SDesktopBeOS::keyEvent() changes, whatever   *)
(* the key map, and the buttons and the place of the mouse, which is held   *)
(* by the viewer that pressed them.                                         *)
THEOREM BeOSIsTold == InputSpec => []InputIsKnown
<1>1. InputInit => KeyboardInv /\ MouseInv
  BY KeyboardInit, MouseInit DEF InputInit
<1>2. KeyboardInv /\ MouseInv /\ [InputNext]_<<part, vars, pointerVars>> => KeyboardInv' /\ MouseInv'
  BY KeyboardStep, MouseSteps
<1>3. KeyboardInv => TypeOK /\ BeOSKnowsKeyboard
  BY DEF KeyboardInv, Known, KeyCode, TypeOK, BeOSKnowsKeyboard
<1>4. MouseInv => P!TypeOK /\ P!ButtonsAreHeld
  BY DEF MouseInv, MouseTypes, P!TypeOK
<1>5. KeyboardInv /\ MouseInv => InputIsKnown
  BY <1>3, <1>4 DEF InputIsKnown
<1> QED
  BY <1>1, <1>2, <1>5, PTL DEF InputSpec

-----------------------------------------------------------------------------
(***************************************************************************)
(* The modifiers that are changed to type a character.                     *)
(***************************************************************************)
LEMMA SwitchedTo ==
  ASSUME NEW map, NEW d \in Known, NEW modifiers
  PROVE  LET e == SwitchModifiers(d, map, modifiers)
         IN  e.modifiers = modifiers /\ e.user = d.user /\ e.undefined = d.undefined
<1> DEFINE keys == WriteModifiersToKeyState(map, d.keys, modifiers)
           osKeys == (d.osKeys \ (d.keys \ keys)) \cup (keys \ d.keys)
           osModifiers == IF modifiers = d.modifiers THEN d.osModifiers ELSE modifiers
<1>1. SwitchModifiers(d, map, modifiers) =
        [[d EXCEPT !.osKeys = osKeys] EXCEPT !.modifiers = modifiers, !.keys = keys,
                                             !.osModifiers = osModifiers]
  BY DEF SwitchModifiers, SendUnmappedKeys, Known
<1> HIDE DEF keys, osKeys, osModifiers
<1> QED
  BY <1>1 DEF Known

LEMMA RevertedTo ==
  ASSUME NEW map, NEW d \in Known
  PROVE  LET e == RevertToUsersModifierKeys(d, map)
         IN  e.modifiers = d.user /\ e.user = d.user /\ e.undefined = d.undefined
BY SwitchedTo DEF RevertToUsersModifierKeys

LEMMA PressedTo ==
  ASSUME NEW map, NEW d \in Known, NEW code \in KeyCode, NEW down
  PROVE  LET e == PressKey(d, map, code, down)
         IN  /\ e.user = d.user /\ e.undefined = d.undefined
             /\ e.modifiers = IF down THEN d.modifiers ELSE d.user
<1> DEFINE sent == SendKey(d, code, down)
<1>1. sent \in Known
  BY Sent
<1>2. sent.modifiers = d.modifiers /\ sent.user = d.user /\ sent.undefined = d.undefined
  BY DEF SendKey, Known
<1>3. PressKey(d, map, code, down) = IF down THEN sent ELSE RevertToUsersModifierKeys(sent, map)
  BY DEF PressKey
<1> HIDE DEF sent
<1> QED
  BY <1>1, <1>2, <1>3, RevertedTo

(* A character is found when a map that is searched has it, NUL only when  *)
(* the byte behind it ends the string.                                      *)
Has(chars, char, nulEnds) == \E code \in DOMAIN chars : chars[code] = char /\ (char = 0 => nulEnds)

LEMMA Finds ==
  ASSUME NEW chars, DOMAIN chars \subseteq KeyCode, NEW char, NEW suggested, NEW nulEnds
  PROVE  FindKeyCodeFromMap(chars, char, suggested, nulEnds) # 0 <=> Has(chars, char, nulEnds)
<1> DEFINE found == {code \in DOMAIN chars : chars[code] = char /\ (char = 0 => nulEnds)}
<1>1. FindKeyCodeFromMap(chars, char, suggested, nulEnds) =
        IF found = {} THEN 0 ELSE IF suggested \in found THEN suggested ELSE Min(found)
  BY DEF FindKeyCodeFromMap
<1>2. found \subseteq KeyCode
  OBVIOUS
<1>3. found # {} <=> Has(chars, char, nulEnds)
  BY DEF Has
<1> HIDE DEF found
<1>4. found # {} => Min(found) \in found
  <2>1. found \in SUBSET Nat
    BY <1>2 DEF KeyCode
  <2>2. found # {} => \E n \in found : \A k \in found : n <= k
    BY <2>1, LeastNatural
  <2> QED
    BY <2>2 DEF Min
<1>5. 0 \notin KeyCode
  BY DEF KeyCode
<1> QED
  BY <1>1, <1>2, <1>3, <1>4, <1>5

LEMMA SearchFinds ==
  ASSUME NEW map, IsKeyMap(map), NEW list, NEW tried \in SUBSET Nat,
         \A i \in tried : list[i][1] \in MapName,
         NEW char, NEW suggested, NEW nulEnds
  PROVE  Search(list, tried, map, char, suggested, nulEnds)[1] # 0
           <=> \E i \in tried : Has(map.chars[list[i][1]], char, nulEnds)
<1> DEFINE Code(i) == FindKeyCodeFromMap(map.chars[list[i][1]], char, suggested, nulEnds)
           hits == {i \in tried : Code(i) # 0}
<1>1. \A i \in tried : Code(i) # 0 <=> Has(map.chars[list[i][1]], char, nulEnds)
  BY Finds DEF IsKeyMap, KeyCode
<1>2. Search(list, tried, map, char, suggested, nulEnds) =
        IF hits = {} THEN <<0, {}>> ELSE <<Code(Min(hits)), list[Min(hits)][2]>>
  BY DEF Search
<1>3. hits \subseteq tried /\ \A i \in hits : Code(i) # 0
  OBVIOUS
<1>4. hits # {} <=> \E i \in tried : Has(map.chars[list[i][1]], char, nulEnds)
  BY <1>1
<1> HIDE DEF Code, hits
<1>5. hits # {} => Min(hits) \in hits
  <2>1. hits # {} => \E n \in hits : \A k \in hits : n <= k
    BY <1>3, LeastNatural
  <2> QED
    BY <2>1 DEF Min
<1> DEFINE r == Search(list, tried, map, char, suggested, nulEnds)
<1>6. CASE hits = {}
  <2>1. r = <<0, {}>>
    BY <1>2, <1>6
  <2> HIDE DEF r
  <2>2. r[1] = 0
    BY <2>1
  <2> QED
    BY <1>4, <1>6, <2>2 DEF r
<1>7. CASE hits # {}
  <2>1. r = <<Code(Min(hits)), list[Min(hits)][2]>>
    BY <1>2, <1>7
  <2>2. Code(Min(hits)) # 0
    BY <1>3, <1>5, <1>7
  <2> HIDE DEF r
  <2>3. r[1] # 0
    BY <2>1, <2>2
  <2> QED
    BY <1>4, <1>7, <2>3 DEF r
<1> QED
  BY <1>6, <1>7

LEMMA AllMaps == \A m \in MapName : \E i \in DOMAIN Others : Others[i][1] = m
<1>1. /\ DOMAIN Others = 1 .. 9
      /\ Others[1][1] = "normal" /\ Others[2][1] = "shift" /\ Others[3][1] = "caps"
      /\ Others[4][1] = "caps_shift" /\ Others[5][1] = "option" /\ Others[6][1] = "option_shift"
      /\ Others[7][1] = "option_caps" /\ Others[8][1] = "option_caps_shift" /\ Others[9][1] = "control"
  BY DEF Others
<1> QED
  BY <1>1 DEF MapName

(* A key with a character reverts the modifiers when it is released and the *)
(* character is in some map.                                                *)
LEMMA CharacterTo ==
  ASSUME NEW map, IsKeyMap(map), NEW d \in Known, NEW key, NEW down, NEW nulEnds
  PROVE  LET e == TypeCharacter(d, map, key, down, nulEnds)
             char == Character(d, key)
             typed == TypedBy(map, char) # {} /\ (char = 0 => nulEnds)
         IN  /\ e.user = d.user /\ e.undefined = d.undefined
             /\ ~typed => e.modifiers = d.modifiers
             /\ typed /\ ~down => e.modifiers = d.user
<1> DEFINE suggested == IF key \in Listed THEN Suggested[key] ELSE 0
           active == {i \in DOMAIN Current : Current[i][2] \subseteq On(d.modifiers)}
           now == Search(Current, active, map, Character(d, key), suggested, nulEnds)
           other == Search(Others, DOMAIN Others, map, Character(d, key), suggested, nulEnds)
           kept == d.modifiers \cap {"scroll", "num", "commandL", "commandR"}
           keys == SetKeyState(d.keys, suggested, down)
           e == TypeCharacter(d, map, key, down, nulEnds)
           char == Character(d, key)
           typed == TypedBy(map, char) # {} /\ (char = 0 => nulEnds)
<1>1. /\ now[1] # 0 => e = PressKey(d, map, now[1], down)
      /\ now[1] = 0 /\ other[1] # 0 =>
           e = PressKey(SwitchModifiers(d, map, other[2] \cup kept), map, other[1], down)
      /\ now[1] = 0 /\ other[1] = 0 => e = [SendUnmappedKeys(d, d.keys, keys) EXCEPT !.keys = keys]
  <2> HIDE DEF suggested, active, now, other, kept, keys
  <2>1. e = CASE now[1] # 0 -> PressKey(d, map, now[1], down)
              [] now[1] = 0 /\ other[1] # 0 ->
                   PressKey(SwitchModifiers(d, map, other[2] \cup kept), map, other[1], down)
              [] now[1] = 0 /\ other[1] = 0 ->
                   [SendUnmappedKeys(d, d.keys, keys) EXCEPT !.keys = keys]
    BY DEF TypeCharacter, suggested, active, now, other, kept, keys
  <2> HIDE DEF e
  <2> QED
    BY <2>1
<1>2. \A m \in MapName : Has(map.chars[m], char, nulEnds) => typed
  BY DEF IsKeyMap, Has, TypedBy
<1>3. typed => \E m \in MapName : Has(map.chars[m], char, nulEnds)
  BY DEF Has, TypedBy
<1>4. now[1] \in KeyCode \cup {0} /\ (now[1] # 0 => typed)
  <2>1. active \in SUBSET Nat /\ \A i \in active : Current[i][1] \in MapName
    BY CurrentNames
  <2> HIDE DEF active, typed, char
  <2>2. Search(Current, active, map, char, suggested, nulEnds)[1] # 0
          <=> \E i \in active : Has(map.chars[Current[i][1]], char, nulEnds)
    BY <2>1, SearchFinds
  <2>3. now[1] \in KeyCode \cup {0}
    BY <2>1, Searched
  <2> QED
    BY <1>2, <2>1, <2>2, <2>3 DEF char
<1>5. other[1] \in KeyCode \cup {0} /\ (other[1] # 0 <=> typed)
  <2>1. DOMAIN Others \in SUBSET Nat /\ \A i \in DOMAIN Others : Others[i][1] \in MapName
    BY OthersNames
  <2> HIDE DEF typed, char
  <2>2. Search(Others, DOMAIN Others, map, char, suggested, nulEnds)[1] # 0
          <=> \E i \in DOMAIN Others : Has(map.chars[Others[i][1]], char, nulEnds)
    BY <2>1, SearchFinds
  <2>3. other[1] \in KeyCode \cup {0}
    BY <2>1, Searched
  <2> QED
    BY <1>2, <1>3, <2>1, <2>2, <2>3, AllMaps DEF char
<1>6. other[1] # 0 => other[2] \subseteq Range(Modifier)
  BY OthersNames, Searched
<1>7. kept \subseteq Range(Modifier)
  BY DEF Known
<1> SUFFICES /\ e.user = d.user /\ e.undefined = d.undefined
             /\ ~typed => e.modifiers = d.modifiers
             /\ typed /\ ~down => e.modifiers = d.user
  OBVIOUS
<1> HIDE DEF now, other, kept, keys, e, typed
<1>8. CASE now[1] # 0
  BY <1>1, <1>4, <1>8, PressedTo
<1>9. CASE now[1] = 0 /\ other[1] # 0
  <2> DEFINE switched == SwitchModifiers(d, map, other[2] \cup kept)
  <2>1. switched \in Known /\ switched.user = d.user /\ switched.undefined = d.undefined
    BY <1>6, <1>7, <1>9, Switched, SwitchedTo
  <2> HIDE DEF switched
  <2>2. e = PressKey(switched, map, other[1], down)
    BY <1>1, <1>9 DEF switched
  <2> QED
    BY <1>5, <1>9, <2>1, <2>2, PressedTo
<1>10. CASE now[1] = 0 /\ other[1] = 0
  <2> DEFINE osKeys == (d.osKeys \ (d.keys \ keys)) \cup (keys \ d.keys)
  <2>1. e = [[d EXCEPT !.osKeys = osKeys] EXCEPT !.keys = keys]
    BY <1>1, <1>10 DEF SendUnmappedKeys
  <2> HIDE DEF osKeys
  <2>2. e.user = d.user /\ e.undefined = d.undefined /\ e.modifiers = d.modifiers
    BY <2>1 DEF Known
  <2> QED
    BY <1>5, <1>10, <2>2
<1> QED
  BY <1>8, <1>9, <1>10

LEMMA TypedTo ==
  ASSUME NEW map, IsKeyMap(map), NEW d \in Known, NEW key, NEW down, NEW nulEnds
  PROVE  LET e == TypeKey(d, map, key, down, nulEnds)
             char == Character(d, key)
             typed == /\ FunctionKey(map, key) = 0 /\ (key \in Listed \/ IsControl(d, key))
                      /\ TypedBy(map, char) # {} /\ (char = 0 => nulEnds)
         IN  /\ e.user = d.user /\ e.undefined = d.undefined
             /\ ~typed => e.modifiers = d.modifiers
             /\ typed /\ ~down => e.modifiers = d.user
<1> DEFINE code == FunctionKey(map, key)
           lettered == key \in Listed \/ IsControl(d, key)
           e == TypeKey(d, map, key, down, nulEnds)
           char == Character(d, key)
           found == TypedBy(map, char) # {} /\ (char = 0 => nulEnds)
<1>1. e = CASE code # 0 -> SendKey(d, code, down)
            [] code = 0 /\ lettered -> TypeCharacter(d, map, key, down, nulEnds)
            [] OTHER -> d
  BY DEF TypeKey
<1> SUFFICES /\ e.user = d.user /\ e.undefined = d.undefined
             /\ ~(code = 0 /\ lettered /\ found) => e.modifiers = d.modifiers
             /\ code = 0 /\ lettered /\ found /\ ~down => e.modifiers = d.user
  BY Zenon
<1>2. CASE code # 0
  <2> HIDE DEF code, e, lettered, found
  <2>1. e = SendKey(d, code, down)
    BY <1>1, <1>2
  <2>2. e.user = d.user /\ e.undefined = d.undefined /\ e.modifiers = d.modifiers
    BY <2>1 DEF SendKey, Known
  <2> QED
    BY <1>2, <2>2
<1>3. CASE code = 0 /\ lettered
  <2>1. /\ LET t == TypeCharacter(d, map, key, down, nulEnds)
           IN  /\ t.user = d.user /\ t.undefined = d.undefined
               /\ ~found => t.modifiers = d.modifiers
               /\ found /\ ~down => t.modifiers = d.user
    BY CharacterTo
  <2> HIDE DEF code, e, lettered, found
  <2>2. e = TypeCharacter(d, map, key, down, nulEnds)
    BY <1>1, <1>3
  <2> QED
    BY <1>3, <2>1, <2>2
<1>4. CASE code = 0 /\ ~lettered
  <2> HIDE DEF code, e, lettered, found
  <2> QED
    BY <1>1, <1>4
<1> QED
  BY <1>2, <1>3, <1>4

LEMMA CharacterIn == ASSUME NEW d, NEW key PROVE Character(d, key) \in Characters(key)
BY DEF Character, Characters, IsControl

LEMMA NulIsNoKey == ASSUME NEW key \in Listed PROVE utf8String(key) # 0
<1>1. key \in Nat /\ key # 0
  BY KeyAssumption, TableAssumption DEF Listed
<1>2. CASE key <= 255
  BY <1>1, <1>2 DEF utf8String
<1>3. CASE key > 255
  BY <1>1, <1>3 DEF utf8String
<1> QED
  BY <1>1, <1>2, <1>3

(* Only Scroll Lock changes scroll, and the left shift key changes shift.   *)
LEMMA ScrollAndShift ==
  ASSUME NEW map
  PROVE  /\ \A key : "scroll" \in ChangedModifiers(map, key) => key = XK_Scroll_Lock
         /\ "shiftL" \in ChangedModifiers(map, XK_Shift_L)
<1> DEFINE control == IF Swapped(map) THEN <<"commandL", "commandR">> ELSE <<"controlL", "controlR">>
           alt == IF Swapped(map) THEN <<"controlL", "controlR">> ELSE <<"commandL", "commandR">>
<1>1. control[1] # "scroll" /\ control[2] # "scroll" /\ alt[1] # "scroll" /\ alt[2] # "scroll"
  OBVIOUS
<1> DEFINE means == << <<65509, "caps">>, <<XK_Scroll_Lock, "scroll">>, <<65407, "num">>,
                       <<XK_Shift_L, "shiftL">>, <<XK_Shift_R, "shiftR">>,
                       <<65507, control[1]>>, <<65508, control[2]>>,
                       <<65513, alt[1]>>, <<65514, alt[2]>>,
                       <<65511, "optionL">>, <<65515, "optionL">>,
                       <<65512, "optionR">>, <<65516, "optionR">> >>
<1>2. \A key : ChangedModifiers(map, key) = {pair[2] : pair \in {q \in Range(means) : q[1] = key}}
  BY DEF ChangedModifiers
<1> HIDE DEF control, alt
<1>3. \A p \in Range(means) : p[2] = "scroll" => p[1] = XK_Scroll_Lock
  <2>1. \A k \in DOMAIN means : means[k][2] = "scroll" => means[k][1] = XK_Scroll_Lock
    BY <1>1
  <2> QED
    BY <2>1 DEF Range
<1>4. means[4] \in Range(means) /\ means[4][1] = XK_Shift_L /\ means[4][2] = "shiftL"
  BY DEF Range
<1> HIDE DEF means
<1>5. ASSUME NEW key, "scroll" \in ChangedModifiers(map, key) PROVE key = XK_Scroll_Lock
  <2>1. PICK p \in {q \in Range(means) : q[1] = key} : p[2] = "scroll"
    BY <1>2, <1>5
  <2> QED
    BY <1>3, <2>1
<1>6. "shiftL" \in ChangedModifiers(map, XK_Shift_L)
  BY <1>2, <1>4
<1> QED
  BY <1>5, <1>6

(* A held key that has changed the modifiers restores them when it is       *)
(* released.                                                                *)
Restores(map, key) ==
  /\ ChangedModifiers(map, key) = {} /\ FunctionKey(map, key) = 0
  /\ key \in Listed
  /\ \E char \in Characters(key) : TypedBy(map, char) # {}

(* What a key event does to the modifiers: those the user holds follow the  *)
(* key, and the ones in effect come to differ from them only for a key that *)
(* will restore them.                                                       *)
Effect(map, d, e, key, down) ==
  /\ ~e.undefined => ~d.undefined
  /\ e.user = IF down THEN d.user \cup ChangedModifiers(map, key) ELSE d.user \ ChangedModifiers(map, key)
  /\ ~down => Temporary(e) \subseteq Temporary(d)
  /\ ~down /\ ~e.undefined /\ Restores(map, key) => Temporary(e) = {}
  /\ down /\ key \in Key => Temporary(e) \subseteq Temporary(d) \/ Restores(map, key)
  /\ ~(ChangedModifiers(map, key) \subseteq {"scroll"}) => Temporary(e) \subseteq Temporary(d)

LEMMA KeyEffect ==
  ASSUME NEW map \in KeyMaps, NEW d \in Known, NEW key, NEW down, NEW nulEnds
  PROVE  Effect(map, d, KeyEvent(d, map, key, down, nulEnds), key, down)
<1> DEFINE changed == ChangedModifiers(map, key)
           after == IF changed = {} THEN d ELSE ModifierKey(d, map, changed, down)
           reads == ~nulEnds /\ ReadsBehind(after, key)
           read == after.undefined \/ reads
           typing == [after EXCEPT !.undefined = read]
           e == KeyEvent(d, map, key, down, nulEnds)
<1>0. map # NoKeyMap /\ IsKeyMap(map)
  BY KeyAssumption
<1>1. changed \in SUBSET Range(Modifier)
  BY ChangedNames
<1>2. e = CASE map = NoKeyMap -> d
            [] map # NoKeyMap /\ changed \subseteq {"scroll"} -> TypeKey(typing, map, key, down, nulEnds)
            [] OTHER -> after
  BY DEF KeyEvent
<1>3. (reads /\ changed = {}) <=> (~nulEnds /\ ReadsBehind(d, key) /\ changed = {})
  OBVIOUS
<1>4. changed # {} /\ changed \subseteq {"scroll"} => key = XK_Scroll_Lock
  BY ScrollAndShift
<1> SUFFICES Effect(map, d, e, key, down)
  OBVIOUS
<1> HIDE DEF e, reads
<1>5. /\ after \in Known /\ after.undefined = d.undefined
      /\ after.user = IF down THEN d.user \cup changed ELSE d.user \ changed
      /\ changed = {} => after = d
      /\ Temporary(after) \subseteq Temporary(d)
  <2>1. CASE changed = {}
    BY <2>1
  <2>2. CASE changed # {}
    <3>1. after = ModifierKey(d, map, changed, down)
      BY <2>2
    <3> HIDE DEF after, changed
    <3>2. after \in Known
      BY <1>0, <1>1, <3>1, ModifierSwitched
    <3> DEFINE user == IF down THEN d.user \cup changed ELSE d.user \ changed
               modifiers == IF down THEN d.modifiers \cup changed ELSE d.modifiers \ changed
               asked == [d EXCEPT !.user = user]
    <3>3. /\ user \in SUBSET Range(Modifier)
          /\ (modifiers \ user) \cup (user \ modifiers)
               \subseteq (d.modifiers \ d.user) \cup (d.user \ d.modifiers)
      BY <1>1 DEF Known
    <3>4. after = SwitchModifiers(asked, map, modifiers)
      BY <3>1 DEF ModifierKey
    <3> HIDE DEF user, modifiers
    <3>5. asked \in Known /\ asked.user = user /\ asked.undefined = d.undefined
      BY <3>3 DEF Known
    <3> HIDE DEF asked
    <3>6. after.user = user /\ after.modifiers = modifiers /\ after.undefined = d.undefined
      BY <3>4, <3>5, SwitchedTo
    <3>7. Temporary(after) \subseteq Temporary(d)
      BY <3>3, <3>6 DEF Temporary, SymDiff
    <3> QED
      BY <2>2, <3>2, <3>6, <3>7 DEF user
  <2> QED
    BY <2>1, <2>2
<1> HIDE DEF changed, after, read
<1>6. CASE ~(changed \subseteq {"scroll"})
  <2>1. e = after
    BY <1>0, <1>2, <1>6
  <2>2. ~Restores(map, key)
    BY <1>6 DEF Restores, changed
  <2> QED
    BY <1>5, <2>1, <2>2 DEF Effect, changed
<1>7. CASE changed \subseteq {"scroll"}
  <2> DEFINE char == Character(typing, key)
             lettered == key \in Listed \/ IsControl(typing, key)
             typed == /\ FunctionKey(map, key) = 0 /\ lettered
                      /\ TypedBy(map, char) # {} /\ (char = 0 => nulEnds)
  <2>1. e = TypeKey(typing, map, key, down, nulEnds)
    BY <1>0, <1>2, <1>7
  <2>2. read \in BOOLEAN
    BY DEF read
  <2>3. /\ typing \in Known /\ typing.user = after.user /\ typing.modifiers = after.modifiers
        /\ typing.undefined = read
    BY <1>5, <2>2 DEF Known
  <2> HIDE DEF typing
  <2>4. /\ e.user = after.user /\ e.undefined = read
        /\ ~typed => e.modifiers = after.modifiers
        /\ typed /\ ~down => e.modifiers = after.user
    BY <1>0, <2>1, <2>3, TypedTo
  <2>5. IsControl(typing, key) = IsControl(after, key) /\ Character(typing, key) = Character(after, key)
    BY <2>3 DEF IsControl, Character
  <2>6. ~e.undefined => ~d.undefined /\ ~reads
    BY <1>5, <2>4 DEF read
  <2>0. /\ e.modifiers = after.modifiers => Temporary(e) \subseteq Temporary(d)
        /\ e.modifiers = after.user => Temporary(e) = {}
    BY <1>5, <2>4 DEF Temporary, SymDiff
  <2>7. ~down => Temporary(e) \subseteq Temporary(d)
    BY <2>0, <2>4
  <2>8. ASSUME ~down, ~e.undefined, Restores(map, key) PROVE Temporary(e) = {}
    <3>1. changed = {} /\ FunctionKey(map, key) = 0 /\ key \in Listed
      BY <2>8 DEF Restores, changed
    <3>2. TypedBy(map, char) # {}
      BY <2>8, <3>1, CharacterIn, KeyMapAssumption DEF Restores
    <3>3. ASSUME char = 0, ~nulEnds PROVE FALSE
      <4>1. IsControl(after, key)
        BY <2>5, <3>1, <3>3, NulIsNoKey DEF Character
      <4>2. ReadsBehind(after, key)
        BY <2>5, <3>3, <4>1 DEF ReadsBehind
      <4> QED
        BY <2>6, <2>8, <3>3, <4>2 DEF reads
    <3>4. typed
      BY <3>1, <3>2, <3>3
    <3> QED
      BY <2>0, <2>4, <2>8, <3>4
  <2>9. ASSUME down, key \in Key, ~(Temporary(e) \subseteq Temporary(d)) PROVE Restores(map, key)
    <3>1. typed
      BY <2>0, <2>4, <2>9
    <3>2. ControlCode(key) # {} \/ key \in Listed
      BY <3>1 DEF IsControl
    <3>3. key \in Listed
      BY <2>9, <3>2, TableAssumption
    <3>4. changed = {}
      BY <1>4, <1>7, <3>3, TableAssumption
    <3> QED
      BY <3>1, <3>3, <3>4, CharacterIn DEF Restores, changed
  <2>10. e.user = IF down THEN d.user \cup changed ELSE d.user \ changed
    BY <1>5, <2>4
  <2> QED
    BY <1>7, <2>6, <2>7, <2>8, <2>9, <2>10 DEF Effect, changed
<1> QED
  BY <1>6, <1>7

-----------------------------------------------------------------------------
LEMMA NthKey ==
  ASSUME NEW keys \in SUBSET Nat, IsFiniteSet(keys), NEW key \in keys
  PROVE  \E n \in 1 .. Cardinality(keys) : Nth(keys, n) = key
<1> DEFINE Below(k) == {j \in keys : j < k}
           n == Cardinality(Below(key)) + 1
<1>1. \A k \in keys : /\ Below(k) \subseteq keys /\ k \notin Below(k) /\ IsFiniteSet(Below(k))
                      /\ Cardinality(Below(k)) \in Nat
  BY FS_Subset, FS_CardinalityType
<1>2. Cardinality(Below(key)) < Cardinality(keys)
  <2>1. Cardinality(Below(key)) <= Cardinality(keys) /\ Cardinality(keys) # Cardinality(Below(key))
    BY <1>1, FS_Subset
  <2> QED
    BY <1>1, <2>1, FS_CardinalityType
<1>3. ASSUME NEW i \in keys, NEW k \in keys, i < k PROVE Cardinality(Below(i)) # Cardinality(Below(k))
  <2>0. /\ i \in Nat /\ k \in Nat /\ ~(i < i)
        /\ \A j \in Nat : j < i => j < k
    BY <1>3
  <2>1. Below(i) \subseteq Below(k) /\ i \in Below(k) /\ i \notin Below(i)
    BY <1>3, <2>0
  <2> HIDE DEF Below
  <2> QED
    BY <1>1, <1>3, <2>1, FS_Subset
<1>4. \A k \in keys : Cardinality(Below(k)) = Cardinality(Below(key)) => k = key
  <2>1. \A k \in keys : k < key \/ k = key \/ key < k
    OBVIOUS
  <2> HIDE DEF Below
  <2> QED
    BY <1>3, <2>1
<1>5. n \in 1 .. Cardinality(keys) /\ n - 1 = Cardinality(Below(key))
  <2>1. Cardinality(Below(key)) \in Nat /\ Cardinality(keys) \in Nat
    BY <1>1, FS_CardinalityType
  <2> HIDE DEF Below
  <2> QED
    BY <1>2, <2>1
<1>6. Nth(keys, n) = CHOOSE k \in keys : Cardinality(Below(k)) = n - 1
  BY DEF Nth
<1> HIDE DEF Below, n
<1>7. Nth(keys, n) = key
  BY <1>4, <1>5, <1>6
<1> QED
  BY <1>5, <1>7

(* A client that is deleted takes back every modifier it holds, and every   *)
(* change that one of its keys has to restore.                              *)
LEMMA AllReleased ==
  ASSUME keyMap \in KeyMaps, NEW d \in Known, NEW keys \in SUBSET Key, NEW nulEnds,
         ~ReleaseAll(d, keys, nulEnds).undefined
  PROVE  LET e == ReleaseAll(d, keys, nulEnds)
         IN  /\ ~d.undefined /\ e.user \subseteq d.user
             /\ \A key \in keys : e.user \cap ChangedModifiers(keyMap, key) = {}
             /\ Temporary(e) \subseteq Temporary(d)
             /\ Temporary(e) # {} => \A key \in keys : ~Restores(keyMap, key)
<1>1. IsFiniteSet(keys) /\ keys \in SUBSET Nat
  BY KeyAssumption, FS_Subset
<1>2. Cardinality(keys) \in Nat
  BY <1>1, FS_CardinalityType
<1>3. PICK f : Releases(f, d, keys, nulEnds) /\ ReleaseAll(d, keys, nulEnds) = f[Cardinality(keys)]
  BY <1>1, ReleasedInTurn, KeyAssumption
<1> DEFINE Kth(i) == Nth(keys, i)
           Done(n) == ~f[n].undefined =>
             /\ ~d.undefined /\ f[n].user \subseteq d.user
             /\ \A i \in 1 .. n : f[n].user \cap ChangedModifiers(keyMap, Kth(i)) = {}
             /\ Temporary(f[n]) \subseteq Temporary(d)
             /\ Temporary(f[n]) # {} => \A i \in 1 .. n : ~Restores(keyMap, Kth(i))
           T == {n \in Nat : Done(n)}
<1>4. 0 \in T
  BY <1>3 DEF Releases
<1>5. ASSUME NEW n \in Nat, n \in T PROVE n + 1 \in T
  <2>1. /\ f[n] \in Known /\ f[n + 1] = KeyEvent(f[n], keyMap, Kth(n + 1), FALSE, nulEnds)
    BY <1>3 DEF Releases
  <2>2. Effect(keyMap, f[n], f[n + 1], Kth(n + 1), FALSE)
    BY <2>1, KeyEffect
  <2>3. n + 1 \in Nat /\ \A i \in 1 .. n + 1 : i = n + 1 \/ i \in 1 .. n
    OBVIOUS
  <2> HIDE DEF Kth
  <2>4. Done(n + 1)
    <3>1. SUFFICES ASSUME ~f[n + 1].undefined
                   PROVE  /\ ~d.undefined /\ f[n + 1].user \subseteq d.user
                          /\ \A i \in 1 .. n + 1 : f[n + 1].user \cap ChangedModifiers(keyMap, Kth(i)) = {}
                          /\ Temporary(f[n + 1]) \subseteq Temporary(d)
                          /\ Temporary(f[n + 1]) # {} => \A i \in 1 .. n + 1 : ~Restores(keyMap, Kth(i))
      OBVIOUS
    <3>2. /\ ~f[n].undefined
          /\ f[n + 1].user = f[n].user \ ChangedModifiers(keyMap, Kth(n + 1))
          /\ Temporary(f[n + 1]) \subseteq Temporary(f[n])
          /\ Restores(keyMap, Kth(n + 1)) => Temporary(f[n + 1]) = {}
      BY <2>2, <3>1 DEF Effect
    <3>3. /\ ~d.undefined /\ f[n].user \subseteq d.user
          /\ \A i \in 1 .. n : f[n].user \cap ChangedModifiers(keyMap, Kth(i)) = {}
          /\ Temporary(f[n]) \subseteq Temporary(d)
          /\ Temporary(f[n]) # {} => \A i \in 1 .. n : ~Restores(keyMap, Kth(i))
      BY <1>5, <3>2
    <3>4. \A i \in 1 .. n + 1 : f[n + 1].user \cap ChangedModifiers(keyMap, Kth(i)) = {}
      BY <2>3, <3>2, <3>3
    <3>5. Temporary(f[n + 1]) # {} => \A i \in 1 .. n + 1 : ~Restores(keyMap, Kth(i))
      BY <2>3, <3>2, <3>3
    <3> QED
      BY <3>2, <3>3, <3>4, <3>5
  <2> QED
    BY <2>3, <2>4
<1> HIDE DEF T
<1>6. Nat \subseteq T
  BY <1>4, <1>5, Induction
<1>7. \A key \in keys : \E i \in 1 .. Cardinality(keys) : Kth(i) = key
  BY <1>1, NthKey
<1>8. Done(Cardinality(keys))
  BY <1>2, <1>6 DEF T
<1> HIDE DEF Kth
<1> QED
  BY <1>3, <1>7, <1>8

(* The modifiers are accounted for: somebody holds a key for each that is   *)
(* asked for, and a key that restores them if others are in effect, unless  *)
(* it is of those that were left on when the desktop was stopped.           *)
Accounted(map, held, d, left) ==
  /\ d.user \subseteq left \cup UNION {ChangedModifiers(map, key) : key \in held}
  /\ Temporary(d) \subseteq left \/ \E key \in held : Restores(map, key)

ModifierInv ==
  /\ \A v \in Client \ clients : pressed[v] = {}
  /\ Open # {} => keyMap # NoKeyMap
  /\ Reliable =>
       /\ keyMap = NoKeyMap => desk.modifiers \cup desk.user \subseteq lost.modifiers
       /\ keyMap # NoKeyMap => Accounted(keyMap, Held, desk, lost.modifiers)

(* A shifted Tab holds the left shift key while it is handled: from d it    *)
(* comes to on, and from e, when the Tab has been handled, to off.          *)
Around(d, on, e, off) ==
  \E shift \in SUBSET Range(Modifier) :
    /\ ~on.undefined => ~d.undefined
    /\ ~off.undefined => ~e.undefined
    /\ on.user = d.user \cup shift /\ off.user = e.user \ shift
    /\ Temporary(on) \subseteq Temporary(d)
    /\ Temporary(off) \subseteq Temporary(e)

LEMMA ShiftAround ==
  ASSUME NEW map \in KeyMaps, NEW d \in Known, NEW e \in Known, NEW on, NEW off,
         \/ on = d /\ off = e
         \/ /\ on = KeyEvent(d, map, XK_Shift_L, TRUE, TRUE)
            /\ off = KeyEvent(e, map, XK_Shift_L, FALSE, TRUE)
  PROVE  Around(d, on, e, off)
<1>1. CASE on = d /\ off = e
  <2>1. on.user = d.user \cup {} /\ off.user = e.user \ {} /\ {} \in SUBSET Range(Modifier)
    BY <1>1
  <2> QED
    BY <1>1, <2>1 DEF Around
<1>2. CASE /\ on = KeyEvent(d, map, XK_Shift_L, TRUE, TRUE)
           /\ off = KeyEvent(e, map, XK_Shift_L, FALSE, TRUE)
  <2>1. Effect(map, d, on, XK_Shift_L, TRUE) /\ Effect(map, e, off, XK_Shift_L, FALSE)
    BY <1>2, KeyEffect
  <2>2. ~(ChangedModifiers(map, XK_Shift_L) \subseteq {"scroll"})
    BY ScrollAndShift
  <2>3. ChangedModifiers(map, XK_Shift_L) \in SUBSET Range(Modifier)
    BY ChangedNames
  <2> QED
    BY <2>1, <2>2, <2>3 DEF Effect, Around
<1> QED
  BY <1>1, <1>2

LEMMA KeyMsgAccounted ==
  ASSUME KeyboardInv, ModifierInv, NEW v \in Client, NEW sent \in Key, NEW down \in BOOLEAN, NEW nulEnds,
         KeyMsg(v, sent, down, nulEnds)
  PROVE  ModifierInv'
<1> DEFINE shifts == sent = XK_ISO_Left_Tab /\ pressed[v] \cap {XK_Shift_L, XK_Shift_R} = {}
           key == IF sent = XK_ISO_Left_Tab THEN XK_Tab ELSE sent
           on == IF shifts THEN KeyEvent(desk, keyMap, XK_Shift_L, TRUE, TRUE) ELSE desk
           e == IF down \/ key \in pressed[v] THEN KeyEvent(on, keyMap, key, down, nulEnds) ELSE on
           off == IF shifts THEN KeyEvent(e, keyMap, XK_Shift_L, FALSE, TRUE) ELSE e
<1>1. /\ v \in Open /\ desk' = off
      /\ pressed' = [pressed EXCEPT ![v] = IF down THEN @ \cup {key} ELSE @ \ {key}]
      /\ UNCHANGED <<clients, closed, keyMap, lost>>
  BY DEF KeyMsg
<1>2. keyMap \in KeyMaps /\ keyMap # NoKeyMap /\ IsKeyMap(keyMap) /\ v \in clients
  BY <1>1, KeyAssumption DEF KeyboardInv, ModifierInv, Open
<1>3. key \in Key
  BY KeyAssumption
<1>4. desk \in Known /\ pressed \in [Client -> SUBSET Key]
  BY DEF KeyboardInv
<1> HIDE DEF key, shifts
<1>5. on \in Known
  BY <1>2, <1>4, KeyEventKnown
<1> HIDE DEF on
<1>6. e \in Known
  BY <1>2, <1>5, KeyEventKnown
<1>7. /\ down => e = KeyEvent(on, keyMap, key, TRUE, nulEnds)
      /\ ~down /\ key \in pressed[v] => e = KeyEvent(on, keyMap, key, FALSE, nulEnds)
      /\ ~down /\ key \notin pressed[v] => e = on
  OBVIOUS
<1> HIDE DEF e
<1>0. \/ on = desk /\ off = e
      \/ /\ on = KeyEvent(desk, keyMap, XK_Shift_L, TRUE, TRUE)
         /\ off = KeyEvent(e, keyMap, XK_Shift_L, FALSE, TRUE)
  BY DEF on
<1> HIDE DEF off
<1>8. PICK shift \in SUBSET Range(Modifier) :
        /\ ~on.undefined => ~desk.undefined
        /\ ~off.undefined => ~e.undefined
        /\ on.user = desk.user \cup shift /\ off.user = e.user \ shift
        /\ Temporary(on) \subseteq Temporary(desk)
        /\ Temporary(off) \subseteq Temporary(e)
  <2>1. Around(desk, on, e, off)
    BY <1>0, <1>2, <1>4, <1>6, ShiftAround
  <2> QED
    BY <2>1 DEF Around
<1>9. /\ down => Effect(keyMap, on, e, key, TRUE)
      /\ ~down /\ key \in pressed[v] => Effect(keyMap, on, e, key, FALSE)
  BY <1>2, <1>5, <1>7, KeyEffect
<1>10. /\ down => Held' = Held \cup {key}
       /\ ~down => Held \ {key} \subseteq Held'
       /\ ~down /\ key \notin pressed[v] => Held \subseteq Held'
  <2>1. \A c \in clients \ {v} : pressed'[c] = pressed[c]
    BY <1>1, <1>4 DEF KeyboardInv
  <2>2. pressed'[v] = IF down THEN pressed[v] \cup {key} ELSE pressed[v] \ {key}
    BY <1>1, <1>4
  <2>3. clients' = clients
    BY <1>1
  <2>4. CASE down
    BY <1>2, <2>1, <2>2, <2>3, <2>4 DEF Held
  <2>5. CASE ~down
    BY <1>2, <2>1, <2>2, <2>3, <2>5 DEF Held
  <2> QED
    BY <2>4, <2>5
<1>11. ASSUME Reliable' PROVE Accounted(keyMap, Held', off, lost.modifiers)
  <2>1. ~off.undefined
    BY <1>1, <1>11 DEF Reliable
  <2>2. ~e.undefined /\ ~on.undefined /\ ~desk.undefined
    BY <1>7, <1>8, <1>9, <2>1 DEF Effect
  <2>3. Accounted(keyMap, Held, desk, lost.modifiers)
    BY <1>2, <2>2 DEF ModifierInv, Reliable
  <2>4. CASE down
    <3>1. /\ e.user = on.user \cup ChangedModifiers(keyMap, key)
          /\ Temporary(e) \subseteq Temporary(on) \/ Restores(keyMap, key)
      BY <1>3, <1>9, <2>4 DEF Effect
    <3>2. off.user \subseteq desk.user \cup ChangedModifiers(keyMap, key)
      BY <1>8, <3>1
    <3>3. Temporary(off) \subseteq Temporary(desk) \/ Restores(keyMap, key)
      BY <1>8, <3>1
    <3> QED
      BY <1>10, <2>3, <2>4, <3>2, <3>3 DEF Accounted
  <2>5. CASE ~down /\ key \in pressed[v]
    <3>1. /\ e.user = on.user \ ChangedModifiers(keyMap, key)
          /\ Temporary(e) \subseteq Temporary(on)
          /\ Restores(keyMap, key) => Temporary(e) = {}
      BY <1>9, <2>2, <2>5 DEF Effect
    <3>2. off.user \subseteq desk.user \ ChangedModifiers(keyMap, key)
      BY <1>8, <3>1
    <3>3. /\ Temporary(off) \subseteq Temporary(desk)
          /\ Restores(keyMap, key) => Temporary(off) = {}
      BY <1>8, <3>1
    <3> QED
      BY <1>10, <2>3, <2>5, <3>2, <3>3 DEF Accounted
  <2>6. CASE ~down /\ key \notin pressed[v]
    <3>1. off.user \subseteq desk.user /\ Temporary(off) \subseteq Temporary(desk)
      BY <1>7, <1>8, <2>6
    <3> QED
      BY <1>10, <2>3, <2>6, <3>1 DEF Accounted
  <2> QED
    BY <2>4, <2>5, <2>6
<1>12. \A c \in Client \ clients' : pressed'[c] = {}
  BY <1>1, <1>2, <1>4 DEF ModifierInv
<1> QED
  BY <1>1, <1>2, <1>11, <1>12 DEF ModifierInv, Open

LEMMA NothingTyped ==
  ASSUME NEW d, NEW key, NEW nulEnds PROVE KeyEvent(d, NoKeyMap, key, FALSE, nulEnds) = d
<1> DEFINE changed == ChangedModifiers(NoKeyMap, key)
           after == IF changed = {} THEN d ELSE ModifierKey(d, NoKeyMap, changed, FALSE)
           typing == [after EXCEPT !.undefined = @ \/ (~nulEnds /\ ReadsBehind(after, key))]
<1>1. KeyEvent(d, NoKeyMap, key, FALSE, nulEnds) =
        CASE NoKeyMap = NoKeyMap -> d
          [] NoKeyMap # NoKeyMap /\ changed \subseteq {"scroll"} ->
               TypeKey(typing, NoKeyMap, key, FALSE, nulEnds)
          [] OTHER -> after
  BY DEF KeyEvent
<1> HIDE DEF changed, after, typing
<1> QED
  BY <1>1

LEMMA NothingReleased ==
  ASSUME keyMap = NoKeyMap, NEW d \in Known, NEW keys \in SUBSET Key, NEW nulEnds
  PROVE  ReleaseAll(d, keys, nulEnds) = d
<1>1. PICK f : Releases(f, d, keys, nulEnds) /\ ReleaseAll(d, keys, nulEnds) = f[Cardinality(keys)]
  BY KeyAssumption, FS_Subset, ReleasedInTurn
<1> DEFINE T == {n \in Nat : f[n] = d}
<1>2. 0 \in T
  BY <1>1 DEF Releases
<1>3. ASSUME NEW n \in Nat, n \in T PROVE n + 1 \in T
  <2>1. f[n + 1] = KeyEvent(f[n], keyMap, Nth(keys, n + 1), FALSE, nulEnds)
    BY <1>1 DEF Releases
  <2>2. f[n + 1] = KeyEvent(f[n], NoKeyMap, Nth(keys, n + 1), FALSE, nulEnds)
    BY <2>1, Zenon
  <2>3. f[n + 1] = f[n]
    BY <2>2, NothingTyped, Zenon
  <2> QED
    BY <1>3, <2>3
<1> HIDE DEF T
<1>4. Nat \subseteq T
  BY <1>2, <1>3, Induction
<1>5. Cardinality(keys) \in Nat
  BY KeyAssumption, FS_Subset, FS_CardinalityType
<1> QED
  BY <1>1, <1>4, <1>5 DEF T

LEMMA DeleteAccounted ==
  ASSUME KeyboardInv, ModifierInv, NEW v \in Client, NEW nulEnds, Delete(v, nulEnds)
  PROVE  ModifierInv'
<1> DEFINE e == ReleaseAll(desk, pressed[v], nulEnds)
<1>1. /\ v \in closed /\ v \in clients
      /\ desk' = e
      /\ pressed' = [pressed EXCEPT ![v] = {}]
      /\ clients' = clients \ {v} /\ closed' = closed \ {v}
      /\ keyMap' = IF Open = {} THEN NoKeyMap ELSE keyMap
      /\ StopsUnderAKey(v) => lost'.modifiers = lost.modifiers \cup e.modifiers \cup e.user
      /\ ~StopsUnderAKey(v) => lost' = lost
  BY DEF Delete, KeyboardInv
<1>2. desk \in Known /\ pressed \in [Client -> SUBSET Key] /\ clients \subseteq Client
  BY DEF KeyboardInv
<1>3. Open' = Open
  BY <1>1 DEF Open
<1>4. \A c \in Client : pressed'[c] = IF c = v THEN {} ELSE pressed[c]
  BY <1>1, <1>2
<1>5. Held \ pressed[v] \subseteq Held' /\ (Open = {} /\ ~StopsUnderAKey(v) => Held' = {})
  <2>1. Held \ pressed[v] \subseteq Held'
    BY <1>1, <1>2, <1>4 DEF Held
  <2>2. ASSUME Open = {}, ~StopsUnderAKey(v) PROVE Held' = {}
    BY <1>1, <1>2, <1>4, <2>2 DEF Held, Open, StopsUnderAKey
  <2> QED
    BY <2>1, <2>2
<1> HIDE DEF e
<1>6. ASSUME Reliable', keyMap # NoKeyMap PROVE Accounted(keyMap, Held', e, lost.modifiers)
  <2>1. keyMap \in KeyMaps /\ ~e.undefined
    BY <1>1, <1>6 DEF KeyboardInv, Reliable
  <2>2. /\ ~desk.undefined /\ e.user \subseteq desk.user
        /\ \A key \in pressed[v] : e.user \cap ChangedModifiers(keyMap, key) = {}
        /\ Temporary(e) \subseteq Temporary(desk)
        /\ Temporary(e) # {} => \A key \in pressed[v] : ~Restores(keyMap, key)
    BY <1>2, <2>1, AllReleased DEF e
  <2>3. Accounted(keyMap, Held, desk, lost.modifiers)
    BY <1>6, <2>2 DEF ModifierInv, Reliable
  <2> QED
    BY <1>5, <2>2, <2>3 DEF Accounted
<1>7. \A c \in Client \ clients' : pressed'[c] = {}
  BY <1>1, <1>4 DEF ModifierInv
<1>8. ASSUME Reliable', Open = {} PROVE e.modifiers \cup e.user \subseteq lost'.modifiers
  <2>1. CASE StopsUnderAKey(v)
    BY <1>1, <2>1
  <2>2. CASE ~StopsUnderAKey(v) /\ keyMap = NoKeyMap
    <3>1. e = desk
      BY <1>2, <2>2, NothingReleased DEF e
    <3>2. Reliable
      BY <1>1, <1>8, <3>1 DEF Reliable
    <3> QED
      BY <1>1, <2>2, <3>1, <3>2 DEF ModifierInv
  <2>3. CASE ~StopsUnderAKey(v) /\ keyMap # NoKeyMap
    <3>1. Accounted(keyMap, Held', e, lost.modifiers) /\ Held' = {} /\ lost' = lost
      BY <1>1, <1>5, <1>6, <1>8, <2>3
    <3>2. e.user \subseteq lost.modifiers /\ Temporary(e) \subseteq lost.modifiers
      BY <3>1 DEF Accounted
    <3> QED
      BY <3>1, <3>2 DEF Temporary, SymDiff
  <2> QED
    BY <2>1, <2>2, <2>3
<1>9. Open # {} => keyMap' = keyMap /\ keyMap # NoKeyMap /\ lost' = lost
  BY <1>1 DEF ModifierInv, StopsUnderAKey
<1> QED
  BY <1>1, <1>3, <1>6, <1>7, <1>8, <1>9 DEF ModifierInv

LEMMA ModifierStep ==
  ASSUME KeyboardInv, ModifierInv, [InputNext]_<<part, vars, pointerVars>> PROVE ModifierInv'
<1>1. ASSUME NEW v \in Client, Connect(v) PROVE ModifierInv'
  <2>1. /\ UNCHANGED <<pressed, closed, desk, lost>> /\ clients' = clients \cup {v}
        /\ pressed[v] = {} /\ v \notin clients
        /\ keyMap' # NoKeyMap
        /\ keyMap # NoKeyMap => keyMap' = keyMap
    BY <1>1, KeyAssumption DEF Connect, ModifierInv
  <2>2. Held' = Held
    BY <2>1 DEF Held
  <2>3. (Reliable' <=> Reliable) /\ desk' = desk
    BY <2>1 DEF Reliable
  <2>4. Reliable => Accounted(keyMap', Held, desk, lost.modifiers)
    <3>1. CASE keyMap = NoKeyMap
      BY <3>1 DEF ModifierInv, Accounted, Temporary, SymDiff
    <3>2. CASE keyMap # NoKeyMap
      BY <2>1, <3>2 DEF ModifierInv
    <3> QED
      BY <3>1, <3>2
  <2> QED
    BY <2>1, <2>2, <2>3, <2>4 DEF ModifierInv
<1>2. ASSUME NEW v \in Client, Close(v) PROVE ModifierInv'
  BY <1>2 DEF Close, Open, Held, Reliable, ModifierInv, Accounted
<1>3. ASSUME UNCHANGED vars PROVE ModifierInv'
  BY <1>3 DEF vars, Open, Held, Reliable, ModifierInv
<1> QED
  BY <1>1, <1>2, <1>3, DeleteAccounted, KeyMsgAccounted DEF InputNext, Typing

LEMMA ModifierInit == Init => ModifierInv
BY DEF Init, ModifierInv, Open

(* Keyboard: modifiers that were changed to type a character are changed   *)
(* back, whatever keys the viewers hold, press, release or take with them.  *)
(* It needs the assumption on the key maps, which the code does not check,  *)
(* and that the byte behind a NUL has been written when it is read.  What   *)
(* was left on whenever the desktop was stopped while another closed viewer *)
(* held a key may stay on.                                                  *)
THEOREM ModifiersComeBack == InputSpec => []ModifiersAreRestored
<1>1. InputInit => KeyboardInv /\ ModifierInv
  BY KeyboardInit, ModifierInit DEF InputInit
<1>2. KeyboardInv /\ ModifierInv /\ [InputNext]_<<part, vars, pointerVars>> => KeyboardInv' /\ ModifierInv'
  BY KeyboardStep, ModifierStep
<1>3. ModifierInv => ModifiersAreRestored
  BY DEF ModifierInv, Accounted, Restores, ModifiersAreRestored
<1> QED
  BY <1>1, <1>2, <1>3, PTL DEF InputSpec

-----------------------------------------------------------------------------
(***************************************************************************)
(* The keys that are down.                                                 *)
(***************************************************************************)
ByModifier(map, d, code) == \E m \in d.modifiers : map.code[m] = code

(* From d to e the key has been left alone, or is that of a modifier now.   *)
Kept(map, d, e, code) == ByModifier(map, e, code) \/ (code \in d.keys /\ ~ByModifier(map, d, code))

LEMMA KeptTwice ==
  ASSUME NEW map, NEW a, NEW b, NEW c,
         \A code \in b.keys : Kept(map, a, b, code), \A code \in c.keys : Kept(map, b, c, code)
  PROVE  \A code \in c.keys : Kept(map, a, c, code)
BY DEF Kept

LEMMA SwitchKeeps ==
  ASSUME NEW map, IsKeyMap(map), NEW d \in Known, NEW modifiers
  PROVE  LET e == SwitchModifiers(d, map, modifiers)
         IN  \A code \in e.keys : Kept(map, d, e, code)
<1> DEFINE keys == WriteModifiersToKeyState(map, d.keys, modifiers)
           osKeys == (d.osKeys \ (d.keys \ keys)) \cup (keys \ d.keys)
           osModifiers == IF modifiers = d.modifiers THEN d.osModifiers ELSE modifiers
           CodesOf(S) == {map.code[Modifier[m]] : m \in S} \ {0}
           decided == {m \in DOMAIN Modifier :
                         /\ \A n \in (m + 1)..Len(Modifier) : map.code[Modifier[n]] # map.code[Modifier[m]]
                         /\ Modifier[m] \in modifiers}
           e == SwitchModifiers(d, map, modifiers)
<1>1. e = [[d EXCEPT !.osKeys = osKeys] EXCEPT !.modifiers = modifiers, !.keys = keys,
                                               !.osModifiers = osModifiers]
  BY DEF SwitchModifiers, SendUnmappedKeys, Known
<1>2. keys = (d.keys \ CodesOf(DOMAIN Modifier)) \cup CodesOf(decided)
  BY DEF WriteModifiersToKeyState
<1>3. \A m \in decided : Modifier[m] \in modifiers
  OBVIOUS
<1>4. d.modifiers \subseteq Range(Modifier) /\ 0 \notin d.keys
  BY DEF Known, KeyCode
<1>5. \A m \in Range(Modifier) : \E i \in DOMAIN Modifier : m = Modifier[i]
  BY DEF Range
<1> SUFFICES \A code \in e.keys : Kept(map, d, e, code)
  OBVIOUS
<1> HIDE DEF keys, osKeys, osModifiers, decided, e
<1>6. e.keys = keys /\ e.modifiers = modifiers
  BY <1>1 DEF Known
<1>7. \A code \in CodesOf(decided) : ByModifier(map, e, code)
  BY <1>3, <1>6 DEF ByModifier
<1>8. \A code \in d.keys \ CodesOf(DOMAIN Modifier) : ~ByModifier(map, d, code)
  BY <1>4, <1>5 DEF ByModifier
<1> HIDE DEF CodesOf
<1> QED
  BY <1>2, <1>6, <1>7, <1>8 DEF Kept

LEMMA RevertKeeps ==
  ASSUME NEW map, IsKeyMap(map), NEW d \in Known
  PROVE  LET e == RevertToUsersModifierKeys(d, map)
         IN  \A code \in e.keys : Kept(map, d, e, code)
<1> DEFINE e == RevertToUsersModifierKeys(d, map)
<1> SUFFICES \A code \in e.keys : Kept(map, d, e, code)
  OBVIOUS
<1>1. CASE d.modifiers = d.user
  <2>1. e = d
    BY <1>1 DEF RevertToUsersModifierKeys
  <2> HIDE DEF e
  <2> QED
    BY <2>1 DEF Kept
<1>2. CASE d.modifiers # d.user
  <2>1. e = SwitchModifiers(d, map, d.user)
    BY <1>2 DEF RevertToUsersModifierKeys
  <2> HIDE DEF e
  <2> QED
    BY <2>1, SwitchKeeps
<1> QED
  BY <1>1, <1>2

LEMMA SendKeeps ==
  ASSUME NEW d \in Known, NEW code \in KeyCode, NEW down
  PROVE  LET e == SendKey(d, code, down)
         IN  /\ e.modifiers = d.modifiers
             /\ e.keys = IF down THEN d.keys \cup {code} ELSE d.keys \ {code}
BY DEF SendKey, SetKeyState, Known, KeyCode

LEMMA PressKeeps ==
  ASSUME NEW map, IsKeyMap(map), NEW d \in Known, NEW code \in KeyCode, NEW down
  PROVE  LET e == PressKey(d, map, code, down)
         IN  /\ \A c \in e.keys : Kept(map, d, e, c) \/ (down /\ c = code)
             /\ ~down /\ code \in e.keys => ByModifier(map, e, code)
<1> DEFINE sent == SendKey(d, code, down)
           e == PressKey(d, map, code, down)
<1>1. sent \in Known
  BY Sent
<1>2. sent.modifiers = d.modifiers /\ sent.keys = IF down THEN d.keys \cup {code} ELSE d.keys \ {code}
  BY SendKeeps
<1>3. e = IF down THEN sent ELSE RevertToUsersModifierKeys(sent, map)
  BY DEF PressKey
<1> SUFFICES /\ \A c \in e.keys : Kept(map, d, e, c) \/ (down /\ c = code)
             /\ ~down /\ code \in e.keys => ByModifier(map, e, code)
  OBVIOUS
<1> HIDE DEF sent, e
<1>4. CASE down
  BY <1>2, <1>3, <1>4 DEF Kept, ByModifier
<1>5. CASE ~down
  <2>1. \A c \in e.keys : Kept(map, sent, e, c)
    BY <1>1, <1>3, <1>5, RevertKeeps
  <2> QED
    BY <1>2, <1>5, <2>1 DEF Kept, ByModifier
<1> QED
  BY <1>4, <1>5

LEMMA SearchIsTyped ==
  ASSUME NEW map, IsKeyMap(map), NEW list, NEW tried \in SUBSET Nat,
         \A i \in tried : list[i][1] \in MapName,
         NEW char, NEW suggested, NEW nulEnds
  PROVE  LET found == Search(list, tried, map, char, suggested, nulEnds)
         IN  found[1] # 0 => found[1] \in TypedBy(map, char)
<1> DEFINE Code(i) == FindKeyCodeFromMap(map.chars[list[i][1]], char, suggested, nulEnds)
           hits == {i \in tried : Code(i) # 0}
           r == Search(list, tried, map, char, suggested, nulEnds)
<1>1. ASSUME NEW i \in tried, Code(i) # 0 PROVE Code(i) \in TypedBy(map, char)
  <2> DEFINE chars == map.chars[list[i][1]]
             found == {code \in DOMAIN chars : chars[code] = char /\ (char = 0 => nulEnds)}
  <2>1. Code(i) = IF found = {} THEN 0 ELSE IF suggested \in found THEN suggested ELSE Min(found)
    BY DEF FindKeyCodeFromMap
  <2>2. found \subseteq TypedBy(map, char) /\ found \subseteq 1 .. 127
    BY DEF IsKeyMap, TypedBy
  <2> HIDE DEF found, Code
  <2>3. found # {} => Min(found) \in found
    <3>1. found \in SUBSET Nat
      BY <2>2
    <3>2. found # {} => \E n \in found : \A k \in found : n <= k
      BY <3>1, LeastNatural
    <3> QED
      BY <3>2 DEF Min
  <2> QED
    BY <1>1, <2>1, <2>2, <2>3
<1>2. r = IF hits = {} THEN <<0, {}>> ELSE <<Code(Min(hits)), list[Min(hits)][2]>>
  BY DEF Search
<1>3. hits \subseteq tried /\ \A i \in hits : Code(i) # 0
  OBVIOUS
<1> SUFFICES r[1] # 0 => r[1] \in TypedBy(map, char)
  OBVIOUS
<1> HIDE DEF Code, hits, r
<1>4. hits # {} => Min(hits) \in hits
  <2>1. hits # {} => \E n \in hits : \A k \in hits : n <= k
    BY <1>3, LeastNatural
  <2> QED
    BY <2>1 DEF Min
<1>5. CASE hits = {}
  BY <1>2, <1>5
<1>6. CASE hits # {}
  <2>1. r = <<Code(Min(hits)), list[Min(hits)][2]>>
    BY <1>2, <1>6
  <2> QED
    BY <1>1, <1>3, <1>4, <1>6, <2>1
<1> QED
  BY <1>5, <1>6

(* From d to e the codes of own may go down, all of them the key's; a sole  *)
(* one goes up.  It is sure of that unless the key or its character is      *)
(* unknown.                                                                 *)
TypesKeys(map, d, e, down, own, sure) ==
  /\ \A c \in e.keys : Kept(map, d, e, c) \/ (down /\ (sure => c \in own))
  /\ ~down /\ sure => \A c \in e.keys : own = {c} => ByModifier(map, e, c)

(* What a key with a character does to the keys that are down.             *)
LEMMA CharacterKeeps ==
  ASSUME NEW map, IsKeyMap(map), NEW d \in Known, NEW key, NEW down, NEW nulEnds
  PROVE  LET e == TypeCharacter(d, map, key, down, nulEnds)
             codes == TypedBy(map, Character(d, key))
             own == IF codes = {} THEN {Suggested[key]} ELSE codes
             sure == key \in Listed /\ (Character(d, key) = 0 => nulEnds)
         IN  TypesKeys(map, d, e, down, own, sure)
<1> DEFINE suggested == IF key \in Listed THEN Suggested[key] ELSE 0
           active == {i \in DOMAIN Current : Current[i][2] \subseteq On(d.modifiers)}
           now == Search(Current, active, map, Character(d, key), suggested, nulEnds)
           other == Search(Others, DOMAIN Others, map, Character(d, key), suggested, nulEnds)
           kept == d.modifiers \cap {"scroll", "num", "commandL", "commandR"}
           keys == SetKeyState(d.keys, suggested, down)
           e == TypeCharacter(d, map, key, down, nulEnds)
           char == Character(d, key)
           codes == TypedBy(map, char)
           own == IF codes = {} THEN {Suggested[key]} ELSE codes
           sure == key \in Listed /\ (char = 0 => nulEnds)
<1>1. /\ now[1] # 0 => e = PressKey(d, map, now[1], down)
      /\ now[1] = 0 /\ other[1] # 0 =>
           e = PressKey(SwitchModifiers(d, map, other[2] \cup kept), map, other[1], down)
      /\ now[1] = 0 /\ other[1] = 0 => e = [SendUnmappedKeys(d, d.keys, keys) EXCEPT !.keys = keys]
  <2> HIDE DEF suggested, active, now, other, kept, keys
  <2>1. e = CASE now[1] # 0 -> PressKey(d, map, now[1], down)
              [] now[1] = 0 /\ other[1] # 0 ->
                   PressKey(SwitchModifiers(d, map, other[2] \cup kept), map, other[1], down)
              [] now[1] = 0 /\ other[1] = 0 ->
                   [SendUnmappedKeys(d, d.keys, keys) EXCEPT !.keys = keys]
    BY DEF TypeCharacter, suggested, active, now, other, kept, keys
  <2> HIDE DEF e
  <2> QED
    BY <2>1
<1>2. codes \subseteq KeyCode
  BY DEF TypedBy, KeyCode
<1>3. sure /\ codes # {} => \E m \in MapName : Has(map.chars[m], char, nulEnds)
  BY DEF Has, TypedBy
<1>4. now[1] # 0 => now[1] \in codes
  <2>1. active \in SUBSET Nat /\ \A i \in active : Current[i][1] \in MapName
    BY CurrentNames
  <2> HIDE DEF active
  <2> QED
    BY <2>1, SearchIsTyped
<1>5. (other[1] # 0 => other[1] \in codes) /\ (sure /\ other[1] = 0 => codes = {})
  <2>1. DOMAIN Others \in SUBSET Nat /\ \A i \in DOMAIN Others : Others[i][1] \in MapName
    BY OthersNames
  <2> HIDE DEF codes, char, sure
  <2>2. Search(Others, DOMAIN Others, map, char, suggested, nulEnds)[1] # 0
          <=> \E i \in DOMAIN Others : Has(map.chars[Others[i][1]], char, nulEnds)
    BY <2>1, SearchFinds
  <2>3. other[1] # 0 => other[1] \in codes
    BY <2>1, SearchIsTyped DEF codes, char
  <2> QED
    BY <1>3, <2>2, <2>3, AllMaps DEF char
<1>6. other[1] # 0 => other[2] \subseteq Range(Modifier)
  BY OthersNames, Searched
<1>7. kept \subseteq Range(Modifier)
  BY DEF Known
<1>8. sure => suggested = Suggested[key]
  OBVIOUS
<1> SUFFICES /\ \A c \in e.keys : Kept(map, d, e, c) \/ (down /\ (sure => c \in own))
             /\ ~down /\ sure => \A c \in e.keys : own = {c} => ByModifier(map, e, c)
  BY Zenon DEF TypesKeys
<1> HIDE DEF now, other, kept, e, suggested, codes, own, sure
<1>9. CASE now[1] # 0
  <2>1. own = codes /\ now[1] \in codes /\ now[1] \in KeyCode
    BY <1>2, <1>4, <1>9 DEF own
  <2>2. /\ \A c \in e.keys : Kept(map, d, e, c) \/ (down /\ c = now[1])
        /\ ~down /\ now[1] \in e.keys => ByModifier(map, e, now[1])
    BY <1>1, <1>9, <2>1, PressKeeps
  <2> QED
    BY <2>1, <2>2
<1>10. CASE now[1] = 0 /\ other[1] # 0
  <2> DEFINE switched == SwitchModifiers(d, map, other[2] \cup kept)
  <2>1. switched \in Known /\ \A c \in switched.keys : Kept(map, d, switched, c)
    BY <1>6, <1>7, <1>10, Switched, SwitchKeeps
  <2> HIDE DEF switched
  <2>2. own = codes /\ other[1] \in codes /\ other[1] \in KeyCode
    BY <1>2, <1>5, <1>10 DEF own
  <2>3. e = PressKey(switched, map, other[1], down)
    BY <1>1, <1>10 DEF switched
  <2>4. /\ \A c \in e.keys : Kept(map, switched, e, c) \/ (down /\ c = other[1])
        /\ ~down /\ other[1] \in e.keys => ByModifier(map, e, other[1])
    BY <2>1, <2>2, <2>3, PressKeeps
  <2>5. \A c \in e.keys : Kept(map, d, e, c) \/ (down /\ c = other[1])
    BY <2>1, <2>4 DEF Kept
  <2> QED
    BY <2>2, <2>4, <2>5
<1>11. CASE now[1] = 0 /\ other[1] = 0
  <2> DEFINE osKeys == (d.osKeys \ (d.keys \ keys)) \cup (keys \ d.keys)
  <2>1. sure => own = {suggested}
    BY <1>5, <1>8, <1>11 DEF own
  <2>2. /\ \A c \in keys : c \in d.keys \/ (down /\ c = suggested)
        /\ ~down => \A c \in keys : c # suggested
    BY DEF SetKeyState, Known, KeyCode
  <2>3. e = [[d EXCEPT !.osKeys = osKeys] EXCEPT !.keys = keys]
    BY <1>1, <1>11 DEF SendUnmappedKeys
  <2> HIDE DEF osKeys, keys
  <2>4. e.keys = keys /\ e.modifiers = d.modifiers
    BY <2>3 DEF Known
  <2> QED
    BY <2>1, <2>2, <2>4 DEF Kept, ByModifier
<1> QED
  BY <1>9, <1>10, <1>11

(* The codes that go down for a key, in one of the ways it may be typed.    *)
OwnCodes(map, key) ==
  IF ~(ChangedModifiers(map, key) \subseteq {"scroll"}) THEN {}
  ELSE IF FunctionKey(map, key) # 0 THEN {FunctionKey(map, key)}
  ELSE IF key \in Listed THEN KeyCodes(map, key) ELSE {}

(* What a key event does to the keys that are down: a key that has only one *)
(* code goes up when it is released.                                        *)
KeysEffect(map, d, e, key, down) ==
  /\ ~down => \A c \in e.keys : Kept(map, d, e, c)
  /\ ~e.undefined /\ (key \in Key \/ ~(ChangedModifiers(map, key) \subseteq {"scroll"})) =>
       \A c \in e.keys : Kept(map, d, e, c) \/ (down /\ c \in OwnCodes(map, key))
  /\ ~down /\ ~e.undefined /\ key \in Key =>
       \A c \in e.keys : OwnCodes(map, key) = {c} => ByModifier(map, e, c)

LEMMA OwnTyped ==
  ASSUME NEW map, NEW key \in Listed, NEW char \in Characters(key)
  PROVE  /\ TypedBy(map, char) \subseteq KeyCodes(map, key)
         /\ TypedBy(map, char) = {} => Suggested[key] \in KeyCodes(map, key)
<1>1. ASSUME NEW c \in TypedBy(map, char)
      PROVE  c \in KeyCodes(map, key)
  <2>1. TypedBy(map, char) \in {TypedBy(map, a) : a \in Characters(key)}
    OBVIOUS
  <2>2. c \in UNION {TypedBy(map, a) : a \in Characters(key)}
    BY <2>1
  <2> QED
    BY <2>2, Zenon DEF KeyCodes
<1>2. ASSUME TypedBy(map, char) = {}
      PROVE  Suggested[key] \in KeyCodes(map, key)
  <2>1. key \in {key} \cap {k \in Listed : \E a \in Characters(key) : TypedBy(map, a) = {}}
    BY <1>2
  <2>2. Suggested[key] \in {Suggested[k] : k \in {key} \cap
            {k \in Listed : \E a \in Characters(key) : TypedBy(map, a) = {}}}
    BY <2>1, Zenon
  <2> QED
    BY <2>2, Zenon DEF KeyCodes
<1> QED
  BY <1>1, <1>2

LEMMA ModifierKeeps ==
  ASSUME NEW map, IsKeyMap(map), NEW d \in Known, NEW changed \in SUBSET Range(Modifier), NEW down
  PROVE  LET e == ModifierKey(d, map, changed, down)
         IN  \A code \in e.keys : Kept(map, d, e, code)
<1> DEFINE user == IF down THEN d.user \cup changed ELSE d.user \ changed
           modifiers == IF down THEN d.modifiers \cup changed ELSE d.modifiers \ changed
           asked == [d EXCEPT !.user = user]
           e == ModifierKey(d, map, changed, down)
<1>1. user \in SUBSET Range(Modifier)
  BY DEF Known
<1>2. e = SwitchModifiers(asked, map, modifiers)
  BY DEF ModifierKey
<1> SUFFICES \A code \in e.keys : Kept(map, d, e, code)
  OBVIOUS
<1> HIDE DEF user, modifiers, e
<1>3. asked \in Known /\ asked.keys = d.keys /\ asked.modifiers = d.modifiers
  BY <1>1 DEF Known
<1> HIDE DEF asked
<1>4. \A code \in e.keys : Kept(map, asked, e, code)
  BY <1>2, <1>3, SwitchKeeps
<1> QED
  BY <1>3, <1>4 DEF Kept, ByModifier

LEMMA TypedKeeps ==
  ASSUME NEW map, IsKeyMap(map), NEW d \in Known, NEW key, NEW down, NEW nulEnds
  PROVE  LET e == TypeKey(d, map, key, down, nulEnds)
             own == IF FunctionKey(map, key) # 0 THEN {FunctionKey(map, key)}
                    ELSE IF key \in Listed THEN KeyCodes(map, key) ELSE {}
             sure == /\ key \in Listed \/ ~IsControl(d, key)
                     /\ Character(d, key) = 0 /\ key \in Listed => nulEnds
         IN  TypesKeys(map, d, e, down, own, sure)
<1> DEFINE code == FunctionKey(map, key)
           lettered == key \in Listed \/ IsControl(d, key)
           e == TypeKey(d, map, key, down, nulEnds)
           own == IF code # 0 THEN {code} ELSE IF key \in Listed THEN KeyCodes(map, key) ELSE {}
           sure == /\ key \in Listed \/ ~IsControl(d, key)
                   /\ Character(d, key) = 0 /\ key \in Listed => nulEnds
<1>1. e = CASE code # 0 -> SendKey(d, code, down)
            [] code = 0 /\ lettered -> TypeCharacter(d, map, key, down, nulEnds)
            [] OTHER -> d
  BY DEF TypeKey
<1>2. code \in KeyCode \cup {0}
  <2>0. map.code["scroll"] \in 0 .. 127
    BY ModifierNames DEF IsKeyMap
  <2> HIDE DEF code
  <2>1. code = CASE key \in 65470 .. 65481 -> key - 65470 + 2
                 [] key = 65300 -> map.code["scroll"]
                 [] key = 65377 -> 14
                 [] key = 65299 -> 16
                 [] OTHER -> 0
    BY DEF code, FunctionKey, XK_F1, XK_F12, XK_Scroll_Lock, XK_Print, XK_Pause
  <2> QED
    BY <2>0, <2>1 DEF KeyCode
<1> SUFFICES /\ \A c \in e.keys : Kept(map, d, e, c) \/ (down /\ (sure => c \in own))
             /\ ~down /\ sure => \A c \in e.keys : own = {c} => ByModifier(map, e, c)
  BY Zenon DEF TypesKeys
<1>3. CASE code # 0
  <2>1. own = {code}
    BY <1>3
  <2> HIDE DEF code, e, lettered, own, sure
  <2>2. e = SendKey(d, code, down)
    BY <1>1, <1>3
  <2>3. e.modifiers = d.modifiers /\ e.keys = IF down THEN d.keys \cup {code} ELSE d.keys \ {code}
    BY <1>2, <1>3, <2>2, SendKeeps
  <2> QED
    BY <2>1, <2>3 DEF Kept, ByModifier
<1>4. CASE code = 0 /\ lettered
  <2> DEFINE codes == TypedBy(map, Character(d, key))
             typed == IF codes = {} THEN {Suggested[key]} ELSE codes
             found == key \in Listed /\ (Character(d, key) = 0 => nulEnds)
             t == TypeCharacter(d, map, key, down, nulEnds)
  <2>1. TypesKeys(map, d, t, down, typed, found)
    BY CharacterKeeps
  <2>2. key \in Listed => typed \subseteq KeyCodes(map, key) /\ typed # {}
    BY CharacterIn, OwnTyped
  <2>3. sure => found
    BY <1>4
  <2>4. key \in Listed => own = KeyCodes(map, key)
    BY <1>4
  <2>5. found => key \in Listed
    OBVIOUS
  <2> HIDE DEF code, e, lettered, own, sure, typed, found, t
  <2>6. e = t
    BY <1>1, <1>4 DEF t
  <2> QED
    BY <2>1, <2>2, <2>3, <2>4, <2>5, <2>6 DEF TypesKeys
<1>5. CASE code = 0 /\ ~lettered
  <2>1. own = {}
    BY <1>5
  <2> HIDE DEF code, e, lettered, own, sure
  <2>2. e = d
    BY <1>1, <1>5
  <2> QED
    BY <2>1, <2>2 DEF Kept
<1> QED
  BY <1>3, <1>4, <1>5

LEMMA KeysMove ==
  ASSUME NEW map \in KeyMaps, NEW d \in Known, NEW key, NEW down, NEW nulEnds
  PROVE  KeysEffect(map, d, KeyEvent(d, map, key, down, nulEnds), key, down)
<1> DEFINE changed == ChangedModifiers(map, key)
           after == IF changed = {} THEN d ELSE ModifierKey(d, map, changed, down)
           reads == ~nulEnds /\ ReadsBehind(after, key)
           read == after.undefined \/ reads
           typing == [after EXCEPT !.undefined = read]
           e == KeyEvent(d, map, key, down, nulEnds)
<1>0. map # NoKeyMap /\ IsKeyMap(map)
  BY KeyAssumption
<1>1. changed \in SUBSET Range(Modifier)
  BY ChangedNames
<1>2. e = CASE map = NoKeyMap -> d
            [] map # NoKeyMap /\ changed \subseteq {"scroll"} -> TypeKey(typing, map, key, down, nulEnds)
            [] OTHER -> after
  BY DEF KeyEvent
<1> SUFFICES KeysEffect(map, d, e, key, down)
  OBVIOUS
<1> HIDE DEF e, reads
<1>3. after \in Known /\ \A c \in after.keys : Kept(map, d, after, c)
  <2>1. CASE changed = {}
    <3>1. after = d
      BY <2>1
    <3> HIDE DEF after
    <3> QED
      BY <3>1 DEF Kept
  <2>2. CASE changed # {}
    <3>1. after = ModifierKey(d, map, changed, down)
      BY <2>2
    <3> HIDE DEF after, changed
    <3>2. after \in Known
      BY <1>0, <1>1, <3>1, ModifierSwitched
    <3> QED
      BY <1>0, <1>1, <3>1, <3>2, ModifierKeeps
  <2> QED
    BY <2>1, <2>2
<1> HIDE DEF changed, after, read
<1>4. CASE ~(changed \subseteq {"scroll"})
  <2>1. e = after
    BY <1>0, <1>2, <1>4
  <2>2. OwnCodes(map, key) = {}
    BY <1>4 DEF OwnCodes, changed
  <2> QED
    BY <1>3, <2>1, <2>2 DEF KeysEffect
<1>5. CASE changed \subseteq {"scroll"}
  <2> DEFINE own == IF FunctionKey(map, key) # 0 THEN {FunctionKey(map, key)}
                    ELSE IF key \in Listed THEN KeyCodes(map, key) ELSE {}
             sure == /\ key \in Listed \/ ~IsControl(typing, key)
                     /\ Character(typing, key) = 0 /\ key \in Listed => nulEnds
  <2>1. e = TypeKey(typing, map, key, down, nulEnds)
    BY <1>0, <1>2, <1>5
  <2>2. read \in BOOLEAN
    BY <1>3 DEF read, Known
  <2>3. /\ typing \in Known /\ typing.keys = after.keys /\ typing.modifiers = after.modifiers
        /\ typing.undefined = read
    BY <1>3, <2>2 DEF Known
  <2> HIDE DEF typing
  <2>4. e.undefined = read
    BY <1>0, <2>1, <2>3, TypedTo
  <2>5. IsControl(typing, key) = IsControl(after, key) /\ Character(typing, key) = Character(after, key)
    BY <2>3 DEF IsControl, Character
  <2>6. ASSUME ~e.undefined, Character(typing, key) = 0, key \in Listed PROVE nulEnds
    <3>1. IsControl(after, key)
      BY <2>5, <2>6, NulIsNoKey DEF Character
    <3>2. ReadsBehind(after, key)
      BY <2>5, <2>6, <3>1 DEF ReadsBehind
    <3> QED
      BY <2>4, <2>6, <3>2 DEF read, reads
  <2>7. ~e.undefined => (Character(typing, key) = 0 /\ key \in Listed => nulEnds)
    BY <2>6
  <2>8. key \in Key => key \in Listed \/ ~IsControl(typing, key)
    BY TableAssumption DEF IsControl
  <2>9. own = OwnCodes(map, key)
    BY <1>5 DEF OwnCodes, changed
  <2>10. /\ \A c \in e.keys : Kept(map, typing, e, c) \/ (down /\ (sure => c \in own))
         /\ ~down /\ sure => \A c \in e.keys : own = {c} => ByModifier(map, e, c)
    <3>1. TypesKeys(map, typing, TypeKey(typing, map, key, down, nulEnds), down, own, sure)
      BY <1>0, <2>3, TypedKeeps
    <3> HIDE DEF own, sure
    <3> QED
      BY <2>1, <3>1 DEF TypesKeys
  <2>11. \A c \in e.keys : Kept(map, typing, e, c) => Kept(map, d, e, c)
    BY <1>3, <2>3 DEF Kept, ByModifier
  <2>12. key \notin Listed /\ own # {} => FunctionKey(map, key) # 0
    OBVIOUS
  <2> HIDE DEF own
  <2>13. ~e.undefined /\ key \in Key => sure
    BY <2>7, <2>8
  <2>14. ~down => \A c \in e.keys : Kept(map, d, e, c)
    BY <2>10, <2>11
  <2>15. ~e.undefined /\ key \in Key => \A c \in e.keys : Kept(map, d, e, c) \/ (down /\ c \in own)
    BY <2>10, <2>11, <2>13
  <2>16. ~down /\ ~e.undefined /\ key \in Key => \A c \in e.keys : own = {c} => ByModifier(map, e, c)
    BY <2>10, <2>13
  <2> QED
    BY <1>5, <2>9, <2>14, <2>15, <2>16 DEF KeysEffect, changed
<1> QED
  BY <1>4, <1>5

(* A key that shares a character with another one may be left down.         *)
Ambiguous(code) ==
  \E map \in KeyMaps, key \in Listed :
    code \in KeyCodes(map, key) /\ Cardinality(KeyCodes(map, key)) > 1

(* Or it was when the desktop was stopped under a held key, or is that of a *)
(* modifier that was.                                                       *)
Left(code, left) ==
  code \in left.keys \/ \E map \in KeyMaps : \E m \in left.modifiers : code = map.code[m]

LEMMA OneOfSeveral ==
  ASSUME NEW map \in KeyMaps, NEW key, NEW code \in OwnCodes(map, key), OwnCodes(map, key) # {code}
  PROVE  Ambiguous(code)
<1>1. key \in Listed /\ OwnCodes(map, key) = KeyCodes(map, key)
  BY DEF OwnCodes
<1>2. PICK other \in KeyCodes(map, key) : other # code
  BY <1>1
<1>3. IsFiniteSet(KeyCodes(map, key))
  <2>1. KeyCodes(map, key) \subseteq (1 .. 127) \cup {Suggested[key]}
    BY DEF KeyCodes, TypedBy
  <2>2. IsFiniteSet((1 .. 127) \cup {Suggested[key]})
    <3> DEFINE own == {Suggested[key]}
               all == 1 .. 127
    <3>1. IsFiniteSet(all)
      <4>1. \A a, b \in Int : IsFiniteSet(a .. b)
        BY FS_Interval
      <4>2. 1 \in Int /\ 127 \in Int
        OBVIOUS
      <4> QED
        BY <4>1, <4>2, Zenon
    <3>2. IsFiniteSet(own)
      BY FS_Singleton
    <3> HIDE DEF own, all
    <3>3. IsFiniteSet(all \cup own)
      BY <3>1, <3>2, FS_Union
    <3> QED
      BY <3>3 DEF all, own
  <2> QED
    BY <2>1, <2>2, FS_Subset
<1>4. Cardinality(KeyCodes(map, key)) > 1
  <2>1. {code} \in SUBSET KeyCodes(map, key) /\ {code} # KeyCodes(map, key)
    BY <1>1, <1>2
  <2>2. Cardinality({code}) = 1 /\ Cardinality(KeyCodes(map, key)) \in Nat
    BY <1>3, FS_Singleton, FS_CardinalityType
  <2>3. /\ Cardinality({code}) <= Cardinality(KeyCodes(map, key))
        /\ Cardinality({code}) # Cardinality(KeyCodes(map, key))
    BY <1>3, <2>1, FS_Subset
  <2> QED
    BY <2>2, <2>3
<1> QED
  BY <1>1, <1>4 DEF Ambiguous

(* Every key that is down is held by somebody, is that of a modifier, is    *)
(* shared, or was left down.                                                *)
Explained(map, held, d, left) ==
  \A code \in d.keys : \/ Ambiguous(code) \/ Left(code, left)
                       \/ ByModifier(map, d, code)
                       \/ \E key \in held : OwnCodes(map, key) = {code}

KeysInv ==
  Reliable =>
    /\ keyMap # NoKeyMap => Explained(keyMap, Held, desk, lost)
    /\ keyMap = NoKeyMap => \A code \in desk.keys : Ambiguous(code) \/ Left(code, lost)

(* A client that is deleted lets go of the keys it holds.                   *)
LEMMA AllReleasedKeys ==
  ASSUME keyMap \in KeyMaps, NEW d \in Known, NEW keys \in SUBSET Key, NEW nulEnds,
         ~ReleaseAll(d, keys, nulEnds).undefined
  PROVE  LET e == ReleaseAll(d, keys, nulEnds)
         IN  \A c \in e.keys :
               /\ Kept(keyMap, d, e, c)
               /\ \A key \in keys : OwnCodes(keyMap, key) = {c} => ByModifier(keyMap, e, c)
<1>1. IsFiniteSet(keys) /\ keys \in SUBSET Nat
  BY KeyAssumption, FS_Subset
<1>2. Cardinality(keys) \in Nat
  BY <1>1, FS_CardinalityType
<1>3. PICK f : Releases(f, d, keys, nulEnds) /\ ReleaseAll(d, keys, nulEnds) = f[Cardinality(keys)]
  BY <1>1, ReleasedInTurn, KeyAssumption
<1> DEFINE Kth(i) == Nth(keys, i)
           Gone(n, c) == /\ Kept(keyMap, d, f[n], c)
                         /\ \A i \in 1 .. n : Kth(i) \in Key /\ OwnCodes(keyMap, Kth(i)) = {c} =>
                                                ByModifier(keyMap, f[n], c)
           Done(n) == ~f[n].undefined => \A c \in f[n].keys : Gone(n, c)
           T == {n \in Nat : Done(n)}
<1>4. 0 \in T
  BY <1>3 DEF Releases, Kept
<1>5. ASSUME NEW n \in Nat, n \in T PROVE n + 1 \in T
  <2>1. /\ f[n] \in Known /\ f[n + 1] = KeyEvent(f[n], keyMap, Kth(n + 1), FALSE, nulEnds)
    BY <1>3 DEF Releases
  <2>2. /\ Effect(keyMap, f[n], f[n + 1], Kth(n + 1), FALSE)
        /\ KeysEffect(keyMap, f[n], f[n + 1], Kth(n + 1), FALSE)
    BY <2>1, KeyEffect, KeysMove
  <2>3. n + 1 \in Nat /\ \A i \in 1 .. n + 1 : i = n + 1 \/ i \in 1 .. n
    OBVIOUS
  <2> HIDE DEF Kth
  <2>4. Done(n + 1)
    <3>1. SUFFICES ASSUME ~f[n + 1].undefined, NEW c \in f[n + 1].keys
                   PROVE  Gone(n + 1, c)
      OBVIOUS
    <3>2. ~f[n].undefined
      BY <2>2, <3>1 DEF Effect
    <3>3. /\ Kept(keyMap, f[n], f[n + 1], c)
          /\ Kth(n + 1) \in Key /\ OwnCodes(keyMap, Kth(n + 1)) = {c} => ByModifier(keyMap, f[n + 1], c)
      BY <2>2, <3>1 DEF KeysEffect
    <3>4. CASE ByModifier(keyMap, f[n + 1], c)
      BY <3>4 DEF Kept
    <3>5. CASE ~ByModifier(keyMap, f[n + 1], c)
      <4>1. c \in f[n].keys /\ ~ByModifier(keyMap, f[n], c)
        BY <3>3, <3>5 DEF Kept
      <4>2. Gone(n, c)
        BY <1>5, <3>2, <4>1
      <4>3. Kept(keyMap, d, f[n + 1], c)
        BY <4>1, <4>2 DEF Kept
      <4> QED
        BY <2>3, <3>3, <3>5, <4>1, <4>2, <4>3
    <3> QED
      BY <3>4, <3>5
  <2> QED
    BY <2>3, <2>4
<1> HIDE DEF T
<1>6. Nat \subseteq T
  BY <1>4, <1>5, Induction
<1>7. \A key \in keys : \E i \in 1 .. Cardinality(keys) : Kth(i) = key
  BY <1>1, NthKey
<1>8. Done(Cardinality(keys))
  BY <1>2, <1>6 DEF T
<1> HIDE DEF Kth
<1> QED
  BY <1>3, <1>7, <1>8

LEMMA ShiftKeeps ==
  ASSUME NEW map \in KeyMaps, NEW d \in Known, NEW e \in Known, NEW on, NEW off,
         \/ on = d /\ off = e
         \/ /\ on = KeyEvent(d, map, XK_Shift_L, TRUE, TRUE)
            /\ off = KeyEvent(e, map, XK_Shift_L, FALSE, TRUE)
  PROVE  /\ ~on.undefined => \A c \in on.keys : Kept(map, d, on, c)
         /\ \A c \in off.keys : Kept(map, e, off, c)
<1>1. CASE on = d /\ off = e
  BY <1>1 DEF Kept
<1>2. CASE /\ on = KeyEvent(d, map, XK_Shift_L, TRUE, TRUE)
           /\ off = KeyEvent(e, map, XK_Shift_L, FALSE, TRUE)
  <2>1. KeysEffect(map, d, on, XK_Shift_L, TRUE) /\ KeysEffect(map, e, off, XK_Shift_L, FALSE)
    BY <1>2, KeysMove
  <2>2. ~(ChangedModifiers(map, XK_Shift_L) \subseteq {"scroll"})
    BY ScrollAndShift
  <2>3. OwnCodes(map, XK_Shift_L) = {}
    BY <2>2 DEF OwnCodes
  <2> QED
    BY <2>1, <2>2, <2>3 DEF KeysEffect
<1> QED
  BY <1>1, <1>2

LEMMA KeyMsgExplained ==
  ASSUME KeyboardInv, ModifierInv, KeysInv, NEW v \in Client, NEW sent \in Key, NEW down \in BOOLEAN,
         NEW nulEnds, KeyMsg(v, sent, down, nulEnds)
  PROVE  KeysInv'
<1> DEFINE shifts == sent = XK_ISO_Left_Tab /\ pressed[v] \cap {XK_Shift_L, XK_Shift_R} = {}
           key == IF sent = XK_ISO_Left_Tab THEN XK_Tab ELSE sent
           on == IF shifts THEN KeyEvent(desk, keyMap, XK_Shift_L, TRUE, TRUE) ELSE desk
           e == IF down \/ key \in pressed[v] THEN KeyEvent(on, keyMap, key, down, nulEnds) ELSE on
           off == IF shifts THEN KeyEvent(e, keyMap, XK_Shift_L, FALSE, TRUE) ELSE e
<1>1. /\ v \in Open /\ desk' = off
      /\ pressed' = [pressed EXCEPT ![v] = IF down THEN @ \cup {key} ELSE @ \ {key}]
      /\ UNCHANGED <<clients, closed, keyMap, lost>>
  BY DEF KeyMsg
<1>2. keyMap \in KeyMaps /\ keyMap # NoKeyMap /\ IsKeyMap(keyMap) /\ v \in clients
  BY <1>1, KeyAssumption DEF KeyboardInv, ModifierInv, Open
<1>3. key \in Key
  BY KeyAssumption
<1>4. desk \in Known /\ pressed \in [Client -> SUBSET Key]
  BY DEF KeyboardInv
<1> HIDE DEF key, shifts
<1>5. on \in Known
  BY <1>2, <1>4, KeyEventKnown
<1> HIDE DEF on
<1>6. e \in Known
  BY <1>2, <1>5, KeyEventKnown
<1>7. /\ down => e = KeyEvent(on, keyMap, key, TRUE, nulEnds)
      /\ ~down /\ key \in pressed[v] => e = KeyEvent(on, keyMap, key, FALSE, nulEnds)
      /\ ~down /\ key \notin pressed[v] => e = on
  OBVIOUS
<1> HIDE DEF e
<1>0. \/ on = desk /\ off = e
      \/ /\ on = KeyEvent(desk, keyMap, XK_Shift_L, TRUE, TRUE)
         /\ off = KeyEvent(e, keyMap, XK_Shift_L, FALSE, TRUE)
  BY DEF on
<1> HIDE DEF off
<1>8. /\ ~on.undefined => ~desk.undefined
      /\ ~off.undefined => ~e.undefined
  <2>1. Around(desk, on, e, off)
    BY <1>0, <1>2, <1>4, <1>6, ShiftAround
  <2> QED
    BY <2>1 DEF Around
<1>9. /\ ~on.undefined => \A c \in on.keys : Kept(keyMap, desk, on, c)
      /\ \A c \in off.keys : Kept(keyMap, e, off, c)
  BY <1>0, <1>2, <1>4, <1>6, ShiftKeeps
<1>10. /\ down => Effect(keyMap, on, e, key, TRUE) /\ KeysEffect(keyMap, on, e, key, TRUE)
       /\ ~down /\ key \in pressed[v] =>
            Effect(keyMap, on, e, key, FALSE) /\ KeysEffect(keyMap, on, e, key, FALSE)
  BY <1>2, <1>5, <1>7, KeyEffect, KeysMove
<1>11. /\ down => Held' = Held \cup {key}
       /\ ~down => Held \ {key} \subseteq Held'
       /\ ~down /\ key \notin pressed[v] => Held \subseteq Held'
  <2>1. \A c \in clients \ {v} : pressed'[c] = pressed[c]
    BY <1>1, <1>4 DEF KeyboardInv
  <2>2. pressed'[v] = IF down THEN pressed[v] \cup {key} ELSE pressed[v] \ {key}
    BY <1>1, <1>4
  <2>3. clients' = clients
    BY <1>1
  <2>4. CASE down
    BY <1>2, <2>1, <2>2, <2>3, <2>4 DEF Held
  <2>5. CASE ~down
    BY <1>2, <2>1, <2>2, <2>3, <2>5 DEF Held
  <2> QED
    BY <2>4, <2>5
<1>12. ASSUME Reliable' PROVE Explained(keyMap, Held', off, lost)
  <2>1. ~off.undefined
    BY <1>1, <1>12 DEF Reliable
  <2>2. ~e.undefined /\ ~on.undefined /\ ~desk.undefined
    BY <1>7, <1>8, <1>10, <2>1 DEF Effect
  <2>3. Explained(keyMap, Held, desk, lost)
    BY <1>2, <2>2 DEF KeysInv, Reliable
  <2>4. SUFFICES ASSUME NEW c \in off.keys, ~ByModifier(keyMap, off, c)
                 PROVE  Ambiguous(c) \/ Left(c, lost) \/ \E k \in Held' : OwnCodes(keyMap, k) = {c}
    BY DEF Explained
  <2>5. c \in e.keys /\ ~ByModifier(keyMap, e, c)
    BY <1>9, <2>4 DEF Kept
  <2>6. \/ c \in on.keys /\ ~ByModifier(keyMap, on, c)
        \/ down /\ c \in OwnCodes(keyMap, key)
    BY <1>3, <1>7, <1>10, <2>2, <2>5 DEF KeysEffect, Kept
  <2>7. CASE down /\ c \in OwnCodes(keyMap, key)
    BY <1>2, <1>11, <2>7, OneOfSeveral
  <2>8. CASE c \in on.keys /\ ~ByModifier(keyMap, on, c)
    <3>1. c \in desk.keys /\ ~ByModifier(keyMap, desk, c)
      BY <1>9, <2>2, <2>8 DEF Kept
    <3>2. Ambiguous(c) \/ Left(c, lost) \/ \E k \in Held : OwnCodes(keyMap, k) = {c}
      BY <2>3, <3>1 DEF Explained
    <3>3. ~down /\ key \in pressed[v] => OwnCodes(keyMap, key) # {c}
      BY <1>3, <1>10, <2>2, <2>5 DEF KeysEffect
    <3> QED
      BY <1>11, <3>2, <3>3
  <2> QED
    BY <2>6, <2>7, <2>8
<1> QED
  BY <1>1, <1>2, <1>12 DEF KeysInv

LEMMA DeleteExplained ==
  ASSUME KeyboardInv, ModifierInv, ModifierInv', KeysInv, NEW v \in Client, NEW nulEnds, Delete(v, nulEnds)
  PROVE  KeysInv'
<1> DEFINE e == ReleaseAll(desk, pressed[v], nulEnds)
<1>1. /\ v \in clients /\ desk' = e
      /\ pressed' = [pressed EXCEPT ![v] = {}] /\ clients' = clients \ {v}
      /\ keyMap' = IF Open = {} THEN NoKeyMap ELSE keyMap
      /\ lost' = IF StopsUnderAKey(v)
                 THEN [modifiers |-> lost.modifiers \cup e.modifiers \cup e.user,
                       keys |-> lost.keys \cup e.keys]
                 ELSE lost
  BY DEF Delete, KeyboardInv
<1>2. desk \in Known /\ pressed \in [Client -> SUBSET Key] /\ clients \subseteq Client
  BY DEF KeyboardInv
<1>3. Held \ pressed[v] \subseteq Held'
  <2>1. \A c \in clients \ {v} : pressed'[c] = pressed[c]
    BY <1>1, <1>2
  <2> QED
    BY <1>1, <2>1 DEF Held
<1> HIDE DEF e
<1>4. ASSUME Reliable', keyMap # NoKeyMap PROVE Explained(keyMap, Held', e, lost)
  <2>1. keyMap \in KeyMaps /\ ~e.undefined
    BY <1>1, <1>4 DEF KeyboardInv, Reliable
  <2>2. ~desk.undefined
    BY <1>2, <2>1, AllReleased DEF e
  <2>3. \A c \in e.keys :
          /\ Kept(keyMap, desk, e, c)
          /\ \A key \in pressed[v] : OwnCodes(keyMap, key) = {c} => ByModifier(keyMap, e, c)
    BY <1>2, <2>1, AllReleasedKeys DEF e
  <2>4. Explained(keyMap, Held, desk, lost)
    BY <1>4, <2>2 DEF KeysInv, Reliable
  <2>5. SUFFICES ASSUME NEW c \in e.keys, ~ByModifier(keyMap, e, c)
                 PROVE  Ambiguous(c) \/ Left(c, lost) \/ \E key \in Held' : OwnCodes(keyMap, key) = {c}
    BY DEF Explained
  <2>6. c \in desk.keys /\ ~ByModifier(keyMap, desk, c)
    BY <2>3, <2>5 DEF Kept
  <2>7. Ambiguous(c) \/ Left(c, lost) \/ \E key \in Held : OwnCodes(keyMap, key) = {c}
    BY <2>4, <2>6 DEF Explained
  <2> QED
    BY <1>3, <2>3, <2>5, <2>7
<1>5. StopsUnderAKey(v) => Open = {} /\ \A c \in e.keys : Left(c, lost')
  BY <1>1 DEF StopsUnderAKey, Left
<1>6. CASE StopsUnderAKey(v)
  BY <1>1, <1>5, <1>6 DEF KeysInv
<1>7. CASE ~StopsUnderAKey(v) /\ keyMap = NoKeyMap
  <2>1. e = desk
    BY <1>2, <1>7, NothingReleased DEF e
  <2> QED
    BY <1>1, <1>7, <2>1 DEF KeysInv, Reliable
<1>8. CASE ~StopsUnderAKey(v) /\ keyMap # NoKeyMap /\ Open # {}
  BY <1>1, <1>4, <1>8 DEF KeysInv
<1>9. CASE ~StopsUnderAKey(v) /\ keyMap # NoKeyMap /\ Open = {}
  <2>1. keyMap' = NoKeyMap /\ keyMap \in KeyMaps /\ lost' = lost
    BY <1>1, <1>9 DEF KeyboardInv
  <2>2. Held' = {}
    BY <1>1, <1>2, <1>9 DEF Held, Open, StopsUnderAKey
  <2>3. Reliable' => e.modifiers \subseteq lost.modifiers
    BY <1>1, <2>1 DEF ModifierInv
  <2>4. ASSUME Reliable', NEW c \in e.keys PROVE Ambiguous(c) \/ Left(c, lost)
    <3>1. Ambiguous(c) \/ Left(c, lost) \/ ByModifier(keyMap, e, c)
      BY <1>4, <1>9, <2>2, <2>4 DEF Explained
    <3> QED
      BY <2>1, <2>3, <2>4, <3>1 DEF ByModifier, Left
  <2> QED
    BY <1>1, <2>1, <2>4 DEF KeysInv
<1> QED
  BY <1>6, <1>7, <1>8, <1>9

LEMMA KeysStep ==
  ASSUME KeyboardInv, ModifierInv, ModifierInv', KeysInv, [InputNext]_<<part, vars, pointerVars>>
  PROVE  KeysInv'
<1>1. ASSUME NEW v \in Client, Connect(v) PROVE KeysInv'
  <2>1. /\ UNCHANGED <<pressed, closed, desk, lost>> /\ clients' = clients \cup {v}
        /\ pressed[v] = {} /\ keyMap' # NoKeyMap
        /\ keyMap # NoKeyMap => keyMap' = keyMap
    BY <1>1, KeyAssumption DEF Connect, ModifierInv
  <2>2. Held' = Held
    BY <2>1 DEF Held
  <2>3. (Reliable' <=> Reliable) /\ desk' = desk
    BY <2>1 DEF Reliable
  <2> QED
    BY <2>1, <2>2, <2>3 DEF KeysInv, Explained
<1>2. ASSUME NEW v \in Client, Close(v) PROVE KeysInv'
  BY <1>2 DEF Close, Held, Reliable, KeysInv, Explained
<1>3. ASSUME UNCHANGED vars PROVE KeysInv'
  BY <1>3 DEF vars, Held, Reliable, KeysInv
<1> QED
  BY <1>1, <1>2, <1>3, DeleteExplained, KeyMsgExplained DEF InputNext, Typing

LEMMA KeysInit == Init => KeysInv
BY DEF Init, KeysInv

(* Keyboard: when the viewers have gone, the destructor of                  *)
(* VNCSConnectionST has released whatever they held, through the searches   *)
(* of SDesktopBeOS::keyEvent().  It needs the assumption on the key maps,   *)
(* which the code does not check, and that the byte behind a NUL has been   *)
(* written when it is read.  What was left down whenever the desktop was    *)
(* stopped while another closed viewer held a key is told by lost and may   *)
(* stay down, and so may a key that shares its character with another one.  *)
THEOREM EverythingGoesUp == InputSpec => []NothingStaysDown
<1>1. InputInit => KeyboardInv /\ ModifierInv /\ KeysInv
  BY KeyboardInit, ModifierInit, KeysInit DEF InputInit
<1>2. KeyboardInv /\ ModifierInv /\ KeysInv /\ [InputNext]_<<part, vars, pointerVars>> =>
        KeyboardInv' /\ ModifierInv' /\ KeysInv'
  BY KeyboardStep, ModifierStep, KeysStep
<1>3. KeyboardInv /\ ModifierInv /\ KeysInv => NothingStaysDown
  <2> SUFFICES ASSUME KeyboardInv, ModifierInv, KeysInv, Reliable, clients = {}
               PROVE  /\ desk.modifiers \cup desk.user \subseteq lost.modifiers
                      /\ \A code \in desk.keys \ lost.keys : Ambiguous(code) \/ Left(code, lost)
    <3> HIDE DEF KeyboardInv, ModifierInv, KeysInv
    <3> QED
      BY DEF NothingStaysDown, Ambiguous, Left
  <2>1. Held = {}
    BY DEF Held
  <2>2. desk.modifiers \cup desk.user \subseteq lost.modifiers
    <3>1. CASE keyMap = NoKeyMap
      BY <3>1 DEF ModifierInv
    <3>2. CASE keyMap # NoKeyMap
      BY <2>1, <3>2 DEF ModifierInv, Accounted, Temporary, SymDiff
    <3> QED
      BY <3>1, <3>2
  <2>3. ASSUME NEW code \in desk.keys PROVE Ambiguous(code) \/ Left(code, lost)
    <3>1. CASE keyMap = NoKeyMap
      BY <3>1 DEF KeysInv
    <3>2. CASE keyMap # NoKeyMap
      <4>1. keyMap \in KeyMaps
        BY <3>2 DEF KeyboardInv
      <4>2. Ambiguous(code) \/ Left(code, lost) \/ ByModifier(keyMap, desk, code)
        BY <2>1, <3>2 DEF KeysInv, Explained
      <4> QED
        BY <2>2, <4>1, <4>2 DEF ByModifier, Left
    <3> QED
      BY <3>1, <3>2
  <2> QED
    BY <2>2, <2>3
<1> QED
  BY <1>1, <1>2, <1>3, PTL DEF InputSpec

==============================================================================
