---------------------------- MODULE PixelFormats ----------------------------
(***************************************************************************)
(* Pixel formats, colour maps and the tables that translate pixels from    *)
(* the format of the screen to that of a client: rfb/PixelFormat.cxx,      *)
(* rfb/ColourCube.h, rfb/transInitTempl.h and rfb/transTempl.h.  A pixel   *)
(* is a number; the maxima of the colours are one less than a power of 2.  *)
(* The depth is left out: equal() compares it, but the tables between two  *)
(* formats that differ in nothing else are identities; and pixelFromRGB()  *)
(* looks at as many entries of a map as it says, which is all of them.     *)
(***************************************************************************)
EXTENDS Integers, FiniteSets, FiniteSetsExt

CONSTANTS
  ByteBits,         \* bits of a byte: 8
  nativeBigEndian,  \* whether the server's machine is
  CubeSide          \* shades of a colour in the cube a client's map is set to: 6

Full == 65535
Channels == {"r", "g", "b"}

PixelsOf(pf) == 0 .. 2 ^ (ByteBits * pf.bytes) - 1

Equal(a, b) ==
  /\ a.bytes = b.bytes
  /\ a.bigEndian = b.bigEndian \/ a.bytes = 1
  /\ a.trueColour = b.trueColour
  /\ a.trueColour => a.max = b.max /\ a.shift = b.shift

(* The bits of one colour. *)
Bits(pf, pixel, c) == (pixel \div 2 ^ pf.shift[c]) % (pf.max[c] + 1)

Compose(pf, levels) ==
  levels["r"] * 2 ^ pf.shift["r"] + levels["g"] * 2 ^ pf.shift["g"] + levels["b"] * 2 ^ pf.shift["b"]

(* Mutant: without the rounding. *)
ScaleDown(level, inMax, outMax) == (level * outMax) \div inMax

(* A level out of inMax as one out of outMax, rounded. *)
Scale(level, inMax, outMax) == (level * outMax + inMax \div 2) \div inMax

-----------------------------------------------------------------------------
(* Colours are levels out of Full. *)
rgbFromPixel(pf, map, pixel) ==
  IF pf.trueColour THEN [c \in Channels |-> Scale(Bits(pf, pixel, c), pf.max[c], Full)]
  ELSE map[pixel]

(* The squares are taken of the upper half of the differences. *)
Distance(a, b) ==
  LET Square(c) == ((a[c] - b[c]) \div 256) * ((a[c] - b[c]) \div 256)
  IN  Square("r") + Square("g") + Square("b")

pixelFromRGB(pf, map, rgb) ==
  IF pf.trueColour THEN Compose(pf, [c \in Channels |-> Scale(rgb[c], Full, pf.max[c])])
  ELSE Min({i \in DOMAIN map : \A j \in DOMAIN map : Distance(map[i], rgb) <= Distance(map[j], rgb)})

-----------------------------------------------------------------------------
(* The colour cube with its null mapping *)
CubeIndex(levels) == (levels["r"] * CubeSide + levels["g"]) * CubeSide + levels["b"]

CubeLookup(i) ==
  LET levels == [c \in Channels |-> CASE c = "b" -> i % CubeSide
                                       [] c = "g" -> (i \div CubeSide) % CubeSide
                                       [] c = "r" -> i \div (CubeSide * CubeSide)]
  IN  [c \in Channels |-> Scale(levels[c], CubeSide - 1, Full)]

CubeMap == [i \in 0 .. CubeSide * CubeSide * CubeSide - 1 |-> CubeLookup(i)]

-----------------------------------------------------------------------------
(* SWAP16 and SWAP32 *)
Digit(pixel, k) == (pixel \div 2 ^ (ByteBits * k)) % 2 ^ ByteBits

Swap(pixel, bytes) ==
  LET at(k, to) == Digit(pixel, k) * 2 ^ (ByteBits * to)
  IN  IF bytes = 2 THEN at(0, 1) + at(1, 0) ELSE at(0, 3) + at(1, 2) + at(2, 1) + at(3, 0)

(* What a pixel is in the memory of a machine with the other byte order. *)
InOrder(pf, pixel) ==
  IF pf.bytes > 1 /\ pf.bigEndian # nativeBigEndian THEN Swap(pixel, pf.bytes) ELSE pixel

(* One table with an entry for every pixel. *)
initSimpleTCtoTC(in, out) ==
  [p \in PixelsOf(in) |->
     InOrder(out, Compose(out, [c \in Channels |-> Scale(Bits(in, p, c), in.max[c], out.max[c])]))]

initSimpleCMtoTC(map, out) ==
  [p \in DOMAIN map |->
     InOrder(out, Compose(out, [c \in Channels |-> Scale(map[p][c], Full, out.max[c])]))]

initSimpleTCtoCube(in) ==
  [p \in PixelsOf(in) |->
     CubeIndex([c \in Channels |-> Scale(Bits(in, p, c), in.max[c], CubeSide - 1)])]

(* A table for each colour, whose entries are added up. *)
initRGBTCtoTC(in, out) ==
  [c \in Channels |->
     [i \in 0 .. in.max[c] |-> InOrder(out, Scale(i, in.max[c], out.max[c]) * 2 ^ out.shift[c])]]

initRGBTCtoCube(in) ==
  LET mult == [c \in Channels |-> CASE c = "r" -> CubeSide * CubeSide [] c = "g" -> CubeSide [] c = "b" -> 1]
  IN  [c \in Channels |-> [i \in 0 .. in.max[c] |-> Scale(i, in.max[c], CubeSide - 1) * mult[c]]]

transSimple(table, pixel) == table[pixel]

transRGB(table, in, pixel) ==
  table["r"][Bits(in, pixel, "r")] + table["g"][Bits(in, pixel, "g")] + table["b"][Bits(in, pixel, "b")]

=============================================================================
