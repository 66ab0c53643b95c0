------------------------- MODULE ColourTranslation -------------------------
(***************************************************************************)
(* The life of a client's TransImageGetter: the tables and the client's    *)
(* colour map follow the formats of the screen and of the client, and the  *)
(* colour map of the screen (rfb/TransImageGetter.cxx with the calls that  *)
(* SConnection and VNCSConnectionST make).                                 *)
(***************************************************************************)
EXTENDS PixelFormats

CONSTANTS
  ScreenFormats,  \* the formats of the screen, all in the server's byte order
  ClientFormats,  \* the formats clients ask for
  Maps,           \* the colour maps of the screen
  Economic,       \* whether large tables are avoided (useEconomicTranslate)
  MaxChanges      \* bound on how often a format or a colour map changes

VARIABLES
  inPF,       \* the format of the screen
  map,        \* its colour map, when it has one
  outPF,      \* the client's format
  table,      \* the tables, and how they are used
  clientMap,  \* the client's colour map
  readyForSetColourMapEntries,
  missed,     \* whether the tables are older than the colour map (history)
  changes     \* how often something changed

vars == <<inPF, map, outPF, table, clientMap, readyForSetColourMapEntries, missed, changes>>

NoTable == [kind |-> "none", entries |-> <<>>]
Simple(entries) == [kind |-> "simple", entries |-> entries]
RGB(entries) == [kind |-> "rgb", entries |-> entries]

(* setColourMapEntries(0, 256, writer) when both have colour maps. *)
AllEntries(client, screen) ==
  [i \in DOMAIN client |-> IF i \in DOMAIN screen THEN screen[i] ELSE client[i]]

TablesFor(in, out, screenMap) ==
  LET byColour == in.bytes > 2 \/ (Economic /\ in.bytes = 2)
  IN  CASE ~out.trueColour /\ ~in.trueColour -> NoTable
        [] ~out.trueColour /\ in.trueColour ->
             IF byColour THEN RGB(initRGBTCtoCube(in)) ELSE Simple(initSimpleTCtoCube(in))
        [] out.trueColour /\ Equal(in, out) -> NoTable
        [] out.trueColour /\ ~in.trueColour -> Simple(initSimpleCMtoTC(screenMap, out))
        [] OTHER -> IF byColour THEN RGB(initRGBTCtoTC(in, out)) ELSE Simple(initSimpleTCtoTC(in, out))

(* What init() sends a client that has a colour map. *)
ClientMapAfter(in, out, screenMap) ==
  IF out.trueColour THEN clientMap
  ELSE IF in.trueColour THEN AllEntries(clientMap, CubeMap)
  ELSE AllEntries(clientMap, screenMap)

Init ==
  /\ inPF \in ScreenFormats
  /\ map \in Maps
  /\ outPF = inPF
  /\ table = TablesFor(inPF, inPF, map)
  /\ clientMap = [i \in 0 .. 2 ^ ByteBits - 1 |-> [c \in Channels |-> 0]]
  /\ readyForSetColourMapEntries = FALSE
  /\ missed = FALSE
  /\ changes = 0

Change == changes < MaxChanges /\ changes' = changes + 1

(* The client asks for a format.  One with a colour map has to have pixels *)
(* of a byte, or the client is closed.                                     *)
SetPixelFormat(pf) ==
  /\ Change
  /\ pf.trueColour \/ pf.bytes = 1
  /\ outPF' = pf
  /\ readyForSetColourMapEntries' = TRUE
  /\ table' = TablesFor(inPF, pf, map)
  /\ clientMap' = ClientMapAfter(inPF, pf, map)
  /\ missed' = FALSE
  /\ UNCHANGED <<inPF, map>>

(* The first request, of a client that keeps the format of the server. *)
FramebufferUpdateRequest ==
  /\ ~readyForSetColourMapEntries
  /\ readyForSetColourMapEntries' = TRUE
  /\ clientMap' = IF ~outPF.trueColour /\ ~inPF.trueColour THEN AllEntries(clientMap, map) ELSE clientMap
  /\ UNCHANGED <<inPF, map, outPF, table, missed, changes>>

(* pixelBufferChange(): the screen has another format or colour map. *)
PixelBufferChange(pf, m) ==
  /\ Change
  /\ inPF' = pf
  /\ map' = m
  /\ table' = TablesFor(pf, outPF, m)
  /\ clientMap' = ClientMapAfter(pf, outPF, m)
  /\ missed' = FALSE
  /\ UNCHANGED <<outPF, readyForSetColourMapEntries>>

(* The desktop changes its colour map and says so.  A client that has not  *)
(* asked for anything yet is passed over: it gets its first colour map     *)
(* with its first request, but tables that were made for it stay as they   *)
(* are until the next change of a format.                                  *)
SetColourMapEntries(m) ==
  /\ Change
  /\ m # map
  /\ map' = m
  /\ missed' = IF inPF.trueColour \/ ~outPF.trueColour THEN missed ELSE ~readyForSetColourMapEntries
  /\ IF ~readyForSetColourMapEntries \/ inPF.trueColour THEN UNCHANGED <<table, clientMap>>
     ELSE IF outPF.trueColour
     THEN table' = Simple(initSimpleCMtoTC(m, outPF)) /\ UNCHANGED clientMap
     ELSE clientMap' = AllEntries(clientMap, m) /\ UNCHANGED table
  /\ UNCHANGED <<inPF, outPF, readyForSetColourMapEntries>>

Next ==
  \/ \E pf \in ClientFormats : SetPixelFormat(pf)
  \/ FramebufferUpdateRequest
  \/ \E pf \in ScreenFormats, m \in Maps : PixelBufferChange(pf, m)
  \/ \E m \in Maps : SetColourMapEntries(m)

Spec == Init /\ [][Next]_vars

-----------------------------------------------------------------------------
(* getImage() of one pixel *)
Translated(pixel) ==
  CASE table.kind = "none" -> pixel
    [] table.kind = "simple" -> transSimple(table.entries, pixel)
    [] table.kind = "rgb" -> transRGB(table.entries, inPF, pixel)

(* No level out of `outMax` is closer than out to in. *)
Nearest(in, inMax, out, outMax) ==
  2 * (IF out * inMax > in * outMax THEN out * inMax - in * outMax ELSE in * outMax - out * inMax) <= inMax

(* The pixels that can be on the screen. *)
Pixels == IF inPF.trueColour THEN PixelsOf(inPF) ELSE DOMAIN map

(* Whatever the formats are and were, and whoever changed a colour map     *)
(* when: once a client may ask for pixels it shows them in the colours of  *)
(* the screen, or the nearest that its format or the cube has.  The byte   *)
(* order, the way the tables are made and the order of the calls differ,   *)
(* and the client knows nothing but its own format and colour map.  Tables *)
(* that missed a change of the colour map are excepted.  The colour of a   *)
(* pixel leads back to a pixel of that colour.                             *)
ColoursAreNearest ==
  readyForSetColourMapEntries /\ ~missed =>
    \A p \in Pixels :
      LET seen == InOrder(outPF, Translated(p))
          colour == rgbFromPixel(inPF, map, p)
          Level(c) == IF inPF.trueColour THEN Bits(inPF, p, c) ELSE map[p][c]
          Max1(c) == IF inPF.trueColour THEN inPF.max[c] ELSE Full
      IN  /\ rgbFromPixel(inPF, map, pixelFromRGB(inPF, map, colour)) = colour
          /\ IF outPF.trueColour
             THEN \A c \in Channels : Nearest(Level(c), Max1(c), Bits(outPF, seen, c), outPF.max[c])
             ELSE IF ~inPF.trueColour THEN clientMap[seen] = colour
             ELSE \E levels \in [Channels -> 0 .. CubeSide - 1] :
                    /\ clientMap[seen] = [c \in Channels |-> Scale(levels[c], CubeSide - 1, Full)]
                    /\ \A c \in Channels : Nearest(Level(c), Max1(c), levels[c], CubeSide - 1)

=============================================================================
