------------------------------ MODULE Keyboard ------------------------------
(***************************************************************************)
(* How the keys of the viewers reach BeOS: VNCSConnectionST::keyEvent(),   *)
(* its destructor, SDesktopBeOS::keyEvent() and the methods it calls.      *)
(*                                                                         *)
(* A VNC key is the number of its keysym.  A character is a number too:    *)
(* its code point, or a control code.  The messages injected into BeOS are *)
(* abstracted to what somebody who reads them all believes: the keys that  *)
(* are down and the modifiers that are on.  A modifier with a left and a   *)
(* right key is represented by its two keys; UpdateDerivedModifiers()      *)
(* computes nothing else from them.                                        *)
(***************************************************************************)
EXTENDS Integers, FiniteSets, SequencesExt, FiniteSetsExt

CONSTANTS
  Client,     \* the viewers
  Key,        \* the keysyms they send
  Suggested,  \* suggestedBeOSKeyCode of the keys that are in the table
  KeyMaps,    \* the key maps BeOS can have when the desktop is started
  NoKeyMap,   \* m_KeyMapPntr is NULL
  MaxHeld     \* the viewers hold at most this many keys down

XK_Pause == 65299
XK_Scroll_Lock == 65300
XK_Print == 65377
XK_F1 == 65470
XK_F12 == 65481
XK_Shift_L == 65505
XK_Shift_R == 65506
XK_Tab == 65289
XK_ISO_Left_Tab == 65056

Modifier == <<"caps", "scroll", "num", "shiftL", "shiftR", "commandL",
              "commandR", "controlL", "controlR", "optionL", "optionR">>

MapName == {"normal", "shift", "caps", "caps_shift", "option", "option_shift",
            "option_caps", "option_caps_shift", "control"}

(* A key map has nine partial functions from key codes to characters and   *)
(* the key codes of the modifiers, 0 for a modifier that has no key.       *)
IsKeyMap(map) ==
  /\ \A m \in MapName : DOMAIN map.chars[m] \subseteq 1..127
  /\ map.code \in [Range(Modifier) -> 0..127]

ASSUME KeyAssumption ==
  /\ Key \subseteq Nat /\ IsFiniteSet(Key)
  /\ MaxHeld \in Nat /\ (XK_ISO_Left_Tab \in Key => XK_Tab \in Key)
  /\ NoKeyMap \notin KeyMaps /\ \A map \in KeyMaps : IsKeyMap(map)

VARIABLES
  pressed,    \* pressedKeys of each client
  clients,    \* the clients that have not been deleted
  closed,     \* those of them that are closed already
  keyMap,     \* m_KeyMapPntr
  desk,       \* the desktop's idea of the keyboard, and BeOS's
  lost        \* the keys and modifiers that were left down when the desktop was
              \* stopped while a closed client still held a key (history)

vars == <<pressed, clients, closed, keyMap, desk, lost>>

(* desk is m_LastKeyState (modifiers and keys), m_UserModifierState (user), *)
(* what BeOS has been told (osModifiers and osKeys), and whether a search   *)
(* has depended on a byte that nobody had written.  stop() and start() keep *)
(* all of it.                                                               *)

TypeOK ==
  /\ pressed \in [Client -> SUBSET Key]
  /\ closed \subseteq clients /\ clients \subseteq Client
  /\ keyMap \in KeyMaps \cup {NoKeyMap}
  /\ desk.modifiers \cup desk.user \cup desk.osModifiers \subseteq Range(Modifier)
  /\ desk.keys \cup desk.osKeys \subseteq 1..127
  /\ lost.modifiers \subseteq Range(Modifier) /\ lost.keys \subseteq 1..127
  /\ desk.undefined \in BOOLEAN
-----------------------------------------------------------------------------
(* The table of the keys that have a character, as ranges of keysyms in the *)
(* order of the source.  The one for XK_KP_Equal (65469) is out of order.   *)
TableRanges ==
  << <<32, 126>>, <<160, 255>>, <<8364, 8364>>, <<65288, 65289>>,
     <<65293, 65293>>, <<65307, 65307>>, <<65360, 65367>>, <<65379, 65379>>,
     <<65383, 65383>>, <<65408, 65408>>, <<65417, 65417>>, <<65421, 65421>>,
     <<65429, 65439>>, <<65469, 65469>>, <<65450, 65465>>, <<65535, 65535>> >>

VNCKeyToUTF8Array ==
  FlattenSeq([r \in DOMAIN TableRanges |->
    [i \in 1..(TableRanges[r][2] - TableRanges[r][1] + 1) |->
       TableRanges[r][1] + i - 1]])

(* bsearch(): the keys that can be found below index hi, at or above lo. *)
Bsearch(key) ==
  LET found[lo, hi \in 0..Len(VNCKeyToUTF8Array)] ==
        LET mid == (lo + hi) \div 2 IN
        /\ lo < hi
        /\ LET at == VNCKeyToUTF8Array[mid + 1] IN
           \/ key = at
           \/ key < at /\ found[lo, mid]
           \/ key > at /\ found[mid + 1, hi]
  IN found[0, Len(VNCKeyToUTF8Array)]

Listed == {key \in Key : Bsearch(key)}

(* The characters of the table: keysyms up to 255 are Latin-1, those of the *)
(* cursor and editing keys are the control codes of BeOS, and those of the  *)
(* keypad are ASCII + 0xFF80.  Names of several letters have codes of their *)
(* own.                                                                     *)
utf8String(key) ==
  CASE key <= 255 -> key
    [] key \in 65450..65465 \cup {65469} -> key - 65408
    [] key = 65288 -> 8
    [] key \in {65289, 65417} -> 9
    [] key \in {65293, 65421} -> 10
    [] key = 65307 -> 27
    [] key \in {65360, 65429} -> 1
    [] key \in {65361, 65430} -> 28
    [] key \in {65362, 65431} -> 30
    [] key \in {65363, 65432} -> 29
    [] key \in {65364, 65433} -> 31
    [] key \in {65365, 65434} -> 11
    [] key \in {65366, 65435} -> 12
    [] key \in {65367, 65436} -> 4
    [] key \in {65379, 65438} -> 5
    [] key \in {65439, 65535} -> 127
    [] key = 65408 -> 32
    [] OTHER -> key

(* The control character a key types with control down; none for the rest. *)
ControlCode(key) ==
  {n \in 0..31 :
     \/ n \in 1..29 /\ key \in {n + 64, n + 96}
     \/ n = 0 /\ key \in {50, 64, 32}
     \/ n = 30 /\ key \in {54, 94}
     \/ n = 31 /\ key \in {45, 95}}
  \cup {n \in {127} : key \in {65288, 65535, 65439}}

Characters(key) == {utf8String(key)} \cup ControlCode(key)

(* What the table has and has not.                                          *)
ASSUME TableAssumption ==
  /\ 0 \notin Listed /\ XK_Scroll_Lock \notin Listed
  /\ \A key \in Key : ControlCode(key) # {} => key \in Listed

TypedBy(map, char) == {code \in 1..127 : \E m \in MapName :
                         code \in DOMAIN map.chars[m] /\ map.chars[m][code] = char}

(* A key map that has a key's character has its control characters too, and *)
(* the other way round: the code relies on it and does not check it.  With another one a key pressed before control and  *)
(* released after it is not found again, and the modifiers stay changed.    *)
ASSUME KeyMapAssumption ==
  \A map \in KeyMaps, key \in Listed : \A a, b \in Characters(key) :
    TypedBy(map, a) # {} => TypedBy(map, b) # {}

-----------------------------------------------------------------------------
(* Left Alt and left Control can be swapped by the user's preferences; code *)
(* 93 is the key left of the space bar.                                     *)
Swapped(map) == map.code["controlL"] = 93

ChangedModifiers(map, key) ==
  LET control == IF Swapped(map) THEN <<"commandL", "commandR">>
                                 ELSE <<"controlL", "controlR">>
      alt == IF Swapped(map) THEN <<"controlL", "controlR">>
                             ELSE <<"commandL", "commandR">>
      means == << <<65509, "caps">>, <<XK_Scroll_Lock, "scroll">>, <<65407, "num">>,
                  <<XK_Shift_L, "shiftL">>, <<XK_Shift_R, "shiftR">>,
                  <<65507, control[1]>>, <<65508, control[2]>>,
                  <<65513, alt[1]>>, <<65514, alt[2]>>,
                  <<65511, "optionL">>, <<65515, "optionL">>,
                  <<65512, "optionR">>, <<65516, "optionR">> >>
  IN {pair[2] : pair \in {q \in Range(means) : q[1] = key}}

(* Two modifiers may have the same key; the one written last decides. *)
WriteModifiersToKeyState(map, keys, modifiers) ==
  LET Decides(m) == \A n \in (m + 1)..Len(Modifier) :
                      map.code[Modifier[n]] # map.code[Modifier[m]]
      Codes(S) == {map.code[Modifier[m]] : m \in S} \ {0}
  IN (keys \ Codes(DOMAIN Modifier))
       \cup Codes({m \in DOMAIN Modifier : Decides(m) /\ Modifier[m] \in modifiers})

SetKeyState(keys, code, down) ==
  IF code \notin 1..127 THEN keys
  ELSE IF down THEN keys \cup {code} ELSE keys \ {code}

(* B_UNMAPPED_KEY_DOWN and _UP for every key that differs. *)
SendUnmappedKeys(d, old, new) ==
  [d EXCEPT !.osKeys = (@ \ (old \ new)) \cup (new \ old)]

(* B_MODIFIERS_CHANGED if the modifiers differ, then their keys. *)
SwitchModifiers(d, map, modifiers) ==
  LET keys == WriteModifiersToKeyState(map, d.keys, modifiers) IN
  [SendUnmappedKeys(d, d.keys, keys) EXCEPT
     !.modifiers = modifiers, !.keys = keys,
     !.osModifiers = IF modifiers = d.modifiers THEN @ ELSE modifiers]

(* Mutant: BeOS is told of the modifiers only, not of their keys. *)
RevertQuietly(d, map) ==
  [d EXCEPT !.modifiers = d.user, !.osModifiers = d.user,
            !.keys = WriteModifiersToKeyState(map, @, d.user)]

RevertToUsersModifierKeys(d, map) ==
  IF d.modifiers = d.user THEN d ELSE SwitchModifiers(d, map, d.user)

(* B_KEY_DOWN or B_KEY_UP of one key. *)
SendKey(d, code, down) ==
  [d EXCEPT !.keys = SetKeyState(@, code, down),
            !.osKeys = IF down THEN @ \cup {code} ELSE @ \ {code}]

(* Mutant: m_UserModifierState is not told of the release. *)
ModifierKeyStays(d, map, changed, down) ==
  SwitchModifiers([d EXCEPT !.user = @ \cup changed], map,
                  IF down THEN d.modifiers \cup changed ELSE d.modifiers \ changed)

(* A modifier key goes down or up, for the user and for BeOS. *)
ModifierKey(d, map, changed, down) ==
  LET Set(modifiers) == IF down THEN modifiers \cup changed ELSE modifiers \ changed
  IN SwitchModifiers([d EXCEPT !.user = Set(@)], map, Set(d.modifiers))
-----------------------------------------------------------------------------
On(modifiers) ==
  {kind \in {"caps"} : "caps" \in modifiers}
  \cup {kind \in {"shift"} : modifiers \cap {"shiftL", "shiftR"} # {}}
  \cup {kind \in {"command"} : modifiers \cap {"commandL", "commandR"} # {}}
  \cup {kind \in {"control"} : modifiers \cap {"controlL", "controlR"} # {}}
  \cup {kind \in {"option"} : modifiers \cap {"optionL", "optionR"} # {}}

(* The maps searched while the modifiers are as they are, and what has to   *)
(* be on for each.                                                          *)
Current ==
  << <<"option_caps_shift", {"option", "caps", "shift"}>>,
     <<"option_caps", {"option", "caps"}>>, <<"option_shift", {"option", "shift"}>>,
     <<"option", {"option"}>>, <<"caps_shift", {"caps", "shift"}>>,
     <<"caps", {"caps"}>>, <<"shift", {"shift"}>>, <<"control", {"control"}>>,
     <<"normal", {}>> >>

(* The maps searched after that, and the modifiers each of them takes. *)
Others ==
  << <<"normal", {}>>, <<"shift", {"shiftL"}>>, <<"caps", {"caps"}>>,
     <<"caps_shift", {"caps", "shiftL"}>>, <<"option", {"optionL"}>>,
     <<"option_shift", {"optionL", "shiftL"}>>,
     <<"option_caps", {"optionL", "caps"}>>,
     <<"option_caps_shift", {"optionL", "caps", "shiftL"}>>,
     <<"control", {"controlL"}>> >>

(* A character may be on several keys; the suggested one is preferred.     *)
(* 0 when there is none.  The string of NUL is empty, and the byte behind   *)
(* its terminator is compared too, which may not have been written: nulEnds *)
(* says whether it happens to be 0.                                         *)
FindKeyCodeFromMap(chars, char, suggested, nulEnds) ==
  LET found == {code \in DOMAIN chars :
                  chars[code] = char /\ (char = 0 => nulEnds)} IN
  IF found = {} THEN 0 ELSE IF suggested \in found THEN suggested ELSE Min(found)

(* What the first map of a list gives that has the character, of those that *)
(* are tried: the key code, and the modifiers of that entry.                *)
Search(list, tried, map, char, suggested, nulEnds) ==
  LET Code(i) == FindKeyCodeFromMap(map.chars[list[i][1]], char, suggested, nulEnds)
      hits == {i \in tried : Code(i) # 0}
  IN IF hits = {} THEN <<0, {}>> ELSE <<Code(Min(hits)), list[Min(hits)][2]>>

IsControl(d, key) ==
  /\ "control" \in On(d.modifiers) /\ "command" \notin On(d.modifiers)
  /\ ControlCode(key) # {}

(* The character a key stands for: with control on, and command off, many *)
(* keys stand for a control character.                                    *)
Character(d, key) ==
  IF IsControl(d, key) THEN CHOOSE n \in ControlCode(key) : TRUE ELSE utf8String(key)

FunctionKey(map, key) ==
  CASE key \in XK_F1..XK_F12 -> key - XK_F1 + 2
    [] key = XK_Scroll_Lock -> map.code["scroll"]
    [] key = XK_Print -> 14
    [] key = XK_Pause -> 16
    [] OTHER -> 0

(* Mutant: the modifiers are restored when a key is pressed. *)
PressKeyReverts(d, map, code, down) ==
  LET sent == SendKey(d, code, down) IN
  IF down THEN RevertToUsersModifierKeys(sent, map) ELSE sent

PressKey(d, map, code, down) ==
  LET sent == SendKey(d, code, down) IN
  IF down THEN sent ELSE RevertToUsersModifierKeys(sent, map)

(* A key with a character: with the modifiers as they are, else with other *)
(* ones, else the suggested key without a character.                       *)
TypeCharacter(d, map, key, down, nulEnds) ==
  LET suggested == IF key \in Listed THEN Suggested[key] ELSE 0
      active == {i \in DOMAIN Current : Current[i][2] \subseteq On(d.modifiers)}
      now == Search(Current, active, map, Character(d, key), suggested, nulEnds)
      other == Search(Others, DOMAIN Others, map, Character(d, key), suggested, nulEnds)
      kept == d.modifiers \cap {"scroll", "num", "commandL", "commandR"}
      keys == SetKeyState(d.keys, suggested, down)
  IN CASE now[1] # 0 -> PressKey(d, map, now[1], down)
       [] now[1] = 0 /\ other[1] # 0 ->
            PressKey(SwitchModifiers(d, map, other[2] \cup kept), map, other[1], down)
       [] now[1] = 0 /\ other[1] = 0 ->
            [SendUnmappedKeys(d, d.keys, keys) EXCEPT !.keys = keys]

TypeKey(d, map, key, down, nulEnds) ==
  CASE FunctionKey(map, key) # 0 -> SendKey(d, FunctionKey(map, key), down)
    [] FunctionKey(map, key) = 0 /\ (key \in Listed \/ IsControl(d, key)) ->
         TypeCharacter(d, map, key, down, nulEnds)
    [] OTHER -> d

(* A control key whose character is NUL: the searches read the byte behind. *)
ReadsBehind(d, key) == IsControl(d, key) /\ Character(d, key) = 0

(* SDesktopBeOS::keyEvent(). *)
KeyEvent(d, map, key, down, nulEnds) ==
  LET changed == ChangedModifiers(map, key)
      after == IF changed = {} THEN d ELSE ModifierKey(d, map, changed, down)
  IN CASE map = NoKeyMap -> d
       [] map # NoKeyMap /\ changed \subseteq {"scroll"} ->
            TypeKey([after EXCEPT !.undefined = @ \/ (~nulEnds /\ ReadsBehind(after, key))],
                    map, key, down, nulEnds)
       [] OTHER -> after
-----------------------------------------------------------------------------
Open == clients \ closed

Init ==
  /\ pressed = [c \in Client |-> {}]
  /\ clients = {} /\ closed = {}
  /\ keyMap = NoKeyMap
  /\ desk = [modifiers |-> {}, keys |-> {}, user |-> {}, osModifiers |-> {}, osKeys |-> {},
             undefined |-> FALSE]
  /\ lost = [modifiers |-> {}, keys |-> {}]

(* The first client that authenticates starts the desktop. *)
Connect(c) ==
  /\ c \notin clients
  /\ clients' = clients \cup {c}
  /\ IF keyMap = NoKeyMap THEN keyMap' \in KeyMaps ELSE UNCHANGED keyMap
  /\ UNCHANGED <<pressed, closed, desk, lost>>

(* VNCSConnectionST::keyEvent().  A shifted Tab holds shift while it is     *)
(* handled, unless its viewer does.  A release of a key that is not pressed *)
(* is ignored.                                                              *)
KeyMsg(c, sent, down, nulEnds) ==
  LET shifts == sent = XK_ISO_Left_Tab
                  /\ pressed[c] \cap {XK_Shift_L, XK_Shift_R} = {}
      key == IF sent = XK_ISO_Left_Tab THEN XK_Tab ELSE sent
      Shift(d, on) == IF shifts THEN KeyEvent(d, keyMap, XK_Shift_L, on, TRUE) ELSE d
      shifted == Shift(desk, TRUE)
  IN
  /\ c \in Open
  /\ down => key \in pressed[c]
               \/ FoldFunction(LAMBDA keys, n : n + Cardinality(keys), 0, pressed) < MaxHeld
  /\ pressed' = [pressed EXCEPT ![c] = IF down THEN @ \cup {key} ELSE @ \ {key}]
  /\ desk' = Shift(IF down \/ key \in pressed[c]
                   THEN KeyEvent(shifted, keyMap, key, down, nulEnds) ELSE shifted, FALSE)
  /\ UNCHANGED <<clients, closed, keyMap, lost>>

Close(c) ==
  /\ c \in Open
  /\ closed' = closed \cup {c}
  /\ UNCHANGED <<pressed, clients, keyMap, desk, lost>>

(* The keys of a client that is deleted are released in the order of their *)
(* numbers, the modifiers last.                                            *)
Nth(keys, n) == CHOOSE key \in keys : Cardinality({k \in keys : k < key}) = n - 1

ReleaseAll(d, keys, nulEnds) ==
  LET after[n \in Nat] ==
        IF n = 0 THEN d ELSE KeyEvent(after[n - 1], keyMap, Nth(keys, n), FALSE, nulEnds)
  IN  after[Cardinality(keys)]

(* The event of its socket deletes a closed client, and stops the desktop *)
(* when no client is left that has not been closed.  What another closed   *)
(* client holds then will not be released: keyEvent() ignores it when the  *)
(* desktop has no key map.                                                 *)
StopsUnderAKey(c) == Open = {} /\ \E b \in closed \ {c} : pressed[b] # {}

Delete(c, nulEnds) ==
  /\ c \in closed
  /\ desk' = ReleaseAll(desk, pressed[c], nulEnds)
  /\ pressed' = [pressed EXCEPT ![c] = {}]
  /\ clients' = clients \ {c} /\ closed' = closed \ {c}
  /\ keyMap' = IF Open = {} THEN NoKeyMap ELSE keyMap
  /\ lost' = IF StopsUnderAKey(c)
             THEN [modifiers |-> lost.modifiers \cup desk'.modifiers \cup desk'.user,
                   keys |-> lost.keys \cup desk'.keys]
             ELSE lost

(* The byte behind NUL only matters for keys that can stand for it. *)
ByteBehind(keys) == {TRUE} \cup {FALSE : key \in {k \in keys : ControlCode(k) = {0}}}

Next ==
  \/ \E c \in Client : Connect(c) \/ Close(c)
  \/ \E c \in Client : \E nulEnds \in ByteBehind(pressed[c]) : Delete(c, nulEnds)
  \/ \E c \in Client, key \in Key, down \in BOOLEAN :
       \E nulEnds \in ByteBehind({key}) : KeyMsg(c, key, down, nulEnds)

Spec == Init /\ [][Next]_vars
-----------------------------------------------------------------------------
Held == UNION {pressed[c] : c \in clients}

(* No search has depended on the byte that nobody had written. *)
Reliable == ~desk.undefined

(* The modifiers in which BeOS's keyboard differs from the viewers' *)
Temporary(d) == SymDiff(d.modifiers, d.user)

(* What BeOS has been told adds up to what the desktop remembers: every    *)
(* path of keyEvent() tells BeOS of each key and modifier it changes.      *)
BeOSKnowsKeyboard == desk.osKeys = desk.keys /\ desk.osModifiers = desk.modifiers

(* The modifiers keyEvent() changes to type a character are temporary.     *)
(* When no viewer holds a key that types something, exactly the modifiers  *)
(* the viewers asked for are on, and for each of them a viewer holds a key *)
(* (RevertToUsersModifierKeys()).  Only a modifier that was left on when   *)
(* the desktop was stopped under a held key may remain.                    *)
ModifiersAreRestored ==
  Reliable /\ keyMap # NoKeyMap
    /\ (\A key \in Held : ChangedModifiers(keyMap, key) # {}) =>
  /\ Temporary(desk) \subseteq lost.modifiers
  /\ desk.user \subseteq lost.modifiers \cup UNION {ChangedModifiers(keyMap, key) : key \in Held}

(* The key codes a key can come to: those that have one of its characters  *)
(* in some map, and the suggested one if its characters are not in all.    *)
KeyCodes(map, key) ==
  (UNION {TypedBy(map, char) : char \in Characters(key)})
    \cup {Suggested[k] : k \in {key} \cap
            {k \in Listed : \E char \in Characters(key) : TypedBy(map, char) = {}}}

(* When the viewers have gone, no key and no modifier is down (the         *)
(* destructor of VNCSConnectionST and the searches of keyEvent()), with    *)
(* two exceptions: what was left down whenever the desktop was stopped     *)
(* while another closed viewer held a key, and a key that shares its       *)
(* character with another one, as the modifiers of the moment decide which *)
(* of the two is released.                                                 *)
NothingStaysDown ==
  Reliable /\ clients = {} =>
  /\ desk.modifiers \cup desk.user \subseteq lost.modifiers
  /\ \A code \in desk.keys \ lost.keys : \E map \in KeyMaps :
       \/ \E m \in lost.modifiers : code = map.code[m]
       \/ \E key \in Listed : code \in KeyCodes(map, key) /\ Cardinality(KeyCodes(map, key)) > 1
=============================================================================
