------------------------------- MODULE Pointer -------------------------------
(***************************************************************************)
(* How the mice of the viewers reach BeOS: VNCSConnectionST::pointerEvent()*)
(* and its destructor, SDesktopBeOS::pointerEvent(), and the add-on        *)
(* InputEventInjector inside BeOS's input server.  The screen is a row of  *)
(* pixels.  Of BeOS the model keeps what somebody knows who reads all      *)
(* messages of the mouse.                                                  *)
(***************************************************************************)
EXTENDS Integers, FiniteSets, FiniteSetsExt

CONSTANTS
  Client,      \* the viewers
  NoClient,
  MayPoint,    \* those that have AccessPtrEvents, while AcceptPointerEvents is on
  Masks,       \* the sets of buttons that they hold
  Widths,      \* the sizes that the screen can have
  MaxX,        \* the positions that viewers send
  Scale,       \* positions between 0 and 1 in BeOS's messages are numbers of Scale-ths
  Margin,      \* 32, the pixels around the mouse that are drawn again
  ClickTime,   \* m_DoubleClickTimeLimit
  MaxClicks    \* bound on the number of clicks in a row

(* A screen has pixels, and nobody is not a viewer. *)
SizeAssumption ==
  /\ Widths \subseteq Nat \ {0} /\ NoClient \notin Client
  /\ ClickTime \in Nat /\ MaxClicks \in Nat \ {0}

VARIABLES
  clients,       \* the clients that have not been deleted
  closed,        \* those of them that are closed already
  pointerClient,
  desk,          \* SDesktopBeOS: the mouse as it was last, and the clicks; frame buffer
  enabled,       \* m_KeyboardEnabled: the input server has started the device
  os,            \* what BeOS has been told, and which client holds the buttons (by)
                 \* (missed: the last message was dropped, torn: an up or down was)
  said           \* what the last step has told besides: pixels to draw, notches of the wheel

vars == <<clients, closed, pointerClient, desk, enabled, os, said>>

Regular == {"primary", "secondary", "tertiary"}
Wheel == {"up", "down"}

TypeOK ==
  /\ closed \subseteq clients /\ clients \subseteq Client
  /\ pointerClient \in clients \cup {NoClient}
  /\ desk.buttons \cup os.buttons \subseteq Regular \cup Wheel
  /\ desk.clicks \in 1 .. MaxClicks /\ desk.sinceDown \in 0 .. ClickTime + 1
  /\ enabled \in BOOLEAN

Nothing == [area |-> {}, notch |-> 0]

(* m_LastMouseX is -1 at first.  The last click is long ago. *)
Init ==
  /\ clients = {} /\ closed = {} /\ pointerClient = NoClient
  /\ desk = [buttons |-> {}, at |-> -1, clicks |-> 1, sinceDown |-> ClickTime + 1, width |-> 0,
             injector |-> FALSE]
  /\ enabled = TRUE
  /\ os = [buttons |-> {}, at |-> -1, down |-> FALSE, by |-> NoClient, missed |-> FALSE, torn |-> FALSE]
  /\ said = Nothing

Open == clients \ closed

-----------------------------------------------------------------------------
(* Buttons 2 and 3 change places: BeOS has left, right, middle. *)
BeOSButtons(mask) ==
  {b \in Regular \cup Wheel :
     \/ b \in mask
     \/ b = "primary" /\ "left" \in mask
     \/ b = "secondary" /\ "right" \in mask
     \/ b = "tertiary" /\ "middle" \in mask}

(* Scaled to the size of the screen, and kept within it. *)
Absolute(x, width) == Min({(x * Scale) \div width, Scale})

Around(x, width) == {p \in 0 .. width - 1 : x - Margin <= p /\ p < x + Margin}

What(old, new) ==
  CASE new = {} /\ old # {} -> "B_MOUSE_UP"
    [] new # {} /\ old = {} -> "B_MOUSE_DOWN"
    [] OTHER -> "B_MOUSE_MOVED"

(* Both wheel buttons are released at once: the wheel goes up only. *)
WheelChange(old, new) ==
  CASE "up" \in old \ new -> -1
    [] "up" \notin old \ new /\ "down" \in old \ new -> 1
    [] OTHER -> 0

(* InputEventInjector::Control(): a message for a device that the input    *)
(* server has stopped is dropped, and nobody is told.                      *)
Inject(c, what, buttons, at) ==
  LET pair == what \in {"B_MOUSE_UP", "B_MOUSE_DOWN"}
  IN  os' = IF ~enabled THEN [os EXCEPT !.missed = TRUE, !.torn = @ \/ pair]
            ELSE [os EXCEPT !.buttons = buttons, !.at = at,
                            !.by = IF buttons = {} THEN NoClient
                                   ELSE IF pair \/ os.missed \/ buttons # os.buttons THEN c ELSE @,
                            !.down = IF pair THEN what = "B_MOUSE_DOWN" ELSE @,
                            !.missed = FALSE, !.torn = @ /\ ~pair]

(* SDesktopBeOS::pointerEvent().  Messages that would do nothing are not   *)
(* sent, which happens when only the wheel is turned.                      *)
DesktopPointerEvent(c, x, mask) ==
  LET buttons == BeOSButtons(mask)
      old == desk.buttons \cap Regular
      new == buttons \cap Regular
      what == What(old, new)
      at == Absolute(x, desk.width)
      notch == WheelChange(desk.buttons, buttons)
      moves == what # "B_MOUSE_MOVED" \/ at # desk.at \/ new # old
      clicks == IF desk.sinceDown <= ClickTime THEN desk.clicks + 1 ELSE 1
  IN  /\ what = "B_MOUSE_DOWN" => clicks <= MaxClicks
      /\ IF moves THEN Inject(c, what, new, at) ELSE UNCHANGED os
      /\ said' = [area |-> IF moves THEN Around(x, desk.width) ELSE {},
                  notch |-> IF enabled THEN notch ELSE 0]
      /\ desk' = [desk EXCEPT !.buttons = buttons, !.at = at,
                              !.clicks = IF what = "B_MOUSE_DOWN" THEN clicks ELSE @,
                              !.sinceDown = IF what = "B_MOUSE_DOWN" THEN 0 ELSE @]

(* Mutant: anybody's events pass. *)
PassesAlways(c) == c \in MayPoint

(* The mouse belongs to the client that holds a button. *)
Passes(c) == c \in MayPoint /\ pointerClient \in {NoClient, c}

pointerEvent(c, x, mask) ==
  /\ c \in Open
  /\ IF Passes(c)
     THEN /\ pointerClient' = IF mask = {} THEN NoClient ELSE c
          /\ IF desk.injector /\ desk.width # 0 THEN DesktopPointerEvent(c, x, mask)
             ELSE said' = Nothing /\ UNCHANGED <<desk, os>>
     ELSE said' = Nothing /\ UNCHANGED <<pointerClient, desk, os>>
  /\ UNCHANGED <<clients, closed, enabled>>

-----------------------------------------------------------------------------
(* The first client starts the desktop: it makes a frame buffer and looks  *)
(* for the device, which need not be installed.                            *)
Connect(c) ==
  /\ c \notin clients
  /\ clients' = clients \cup {c}
  /\ IF desk.width = 0
     THEN \E w \in Widths, found \in BOOLEAN : desk' = [desk EXCEPT !.width = w, !.injector = found]
     ELSE UNCHANGED desk
  /\ said' = Nothing /\ UNCHANGED <<closed, pointerClient, enabled, os>>

Close(c) ==
  /\ c \in Open
  /\ closed' = closed \cup {c}
  /\ said' = Nothing /\ UNCHANGED <<clients, pointerClient, desk, enabled, os>>

(* ~VNCSConnectionST() gives the mouse back, and when no client is left    *)
(* the desktop is stopped.  The buttons stay as they are.                  *)
Delete(c) ==
  /\ c \in closed
  /\ clients' = clients \ {c} /\ closed' = closed \ {c}
  /\ pointerClient' = IF pointerClient = c THEN NoClient ELSE pointerClient
  /\ desk' = IF Open = {} THEN [desk EXCEPT !.width = 0, !.injector = FALSE] ELSE desk
  /\ os' = IF os.by = c THEN [os EXCEPT !.by = NoClient] ELSE os
  /\ said' = Nothing /\ UNCHANGED enabled

ScreenChanges ==
  /\ desk.width # 0
  /\ \E w \in Widths : desk' = [desk EXCEPT !.width = w]
  /\ said' = Nothing /\ UNCHANGED <<clients, closed, pointerClient, enabled, os>>

(* InputEventInjector::Start() and Stop(): the user turns the device on or *)
(* off.                                                                    *)
StartOrStop ==
  /\ enabled' = ~enabled
  /\ said' = Nothing /\ UNCHANGED <<clients, closed, pointerClient, desk, os>>

TimePasses ==
  /\ desk.sinceDown <= ClickTime
  /\ desk' = [desk EXCEPT !.sinceDown = @ + 1]
  /\ said' = Nothing /\ UNCHANGED <<clients, closed, pointerClient, enabled, os>>

Next ==
  \/ \E c \in Client : Connect(c) \/ Close(c) \/ Delete(c)
  \/ \E c \in Client, x \in 0 .. MaxX, mask \in Masks : pointerEvent(c, x, mask)
  \/ ScreenChanges \/ StartOrStop \/ TimePasses

Spec == Init /\ [][Next]_vars

-----------------------------------------------------------------------------
(* Every message tells BeOS the whole mouse, so that a lost one is made up *)
(* for by the next; BeOS sees presses and releases in pairs; and a button  *)
(* that is down is held by the viewer that pressed it, unless that one has *)
(* gone (pointerClient, m_LastMouseButtonState).                           *)
ButtonsAreHeld ==
  /\ ~os.missed => os.buttons = desk.buttons \cap Regular /\ os.at = desk.at
  /\ ~os.torn => (os.down <=> os.buttons # {})
  /\ ~os.missed /\ os.buttons # {} => os.by \in {pointerClient, NoClient}

(* What one viewer drags, from the press to the release, no other viewer   *)
(* moves, drops or presses another button over.                            *)
DragsAreWhole ==
  [][ ~os.missed /\ os.by # NoClient /\ <<os.at, os.buttons>>' # <<os.at, os.buttons>>
        => \E x \in 0 .. MaxX, mask \in Masks : pointerEvent(os.by, x, mask) ]_vars

=============================================================================
