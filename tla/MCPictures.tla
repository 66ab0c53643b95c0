----------------------------- MODULE MCPictures -----------------------------
(***************************************************************************)
(* The parts that a picture goes through on its way to a client, checked   *)
(* one beside the other: part says which one a behaviour is about, and the *)
(* variables of the others are Idle.                                       *)
(***************************************************************************)
EXTENDS ZlibSizes, FiniteSets, TLC

CONSTANTS
  Side, Operands, MaxArea,                                        \* RegionObject
  Bytes, HexSide, ZrleSide, MAX_SIZE, LongRun,                    \* Codecs
  Pictures, Colours, Areas, MaxDrawn,                             \* Encoding
  ByteBits, nativeBigEndian, CubeSide,                            \* PixelFormats
  ScreenFormats, ClientFormats, Maps, Economic, MaxChanges,       \* ColourTranslation
  ZlibBits, MAX_BITS, MAX_BL_BITS, LITERALS, extra_lbits, extra_dbits, bl_order, static_lengths,
  static_dbits, MANY,                                             \* HuffmanTrees
  Frequencies, TableWidth,                                        \* BlockCodes
  w_size, hash_bits, lit_bufsize, max_lazy_match, good_match, nice_match, max_chain_length, TOO_FAR,
  wsize, lbits, dbits, FastInput,                                 \* Deflate, Inflate
  Contents, OutBufSize, InBufSize, ItemSize, Rooms, Portions      \* ZlibStreams

VARIABLES
  part,
  region,
  picture, drawnPixels,
  inPF, map, outPF, table, clientMap, readyForSetColourMapEntries, missed, changes,
  frequency,
  z, inf, zos, zis

pictureVars == <<picture, drawnPixels>>
colourVars == <<inPF, map, outPF, table, clientMap, readyForSetColourMapEntries, missed, changes>>
zlibVars == <<z, inf, zos, zis>>

R == INSTANCE RegionObject
E == INSTANCE Codecs
T == INSTANCE ColourTranslation
K == INSTANCE BlockCodes WITH ByteBits <- ZlibBits
Z == INSTANCE ZlibStreams WITH ByteBits <- ZlibBits

Idle == <<>>

IdleRegions == region = Idle
IdleEncodings == picture = Idle /\ drawnPixels = Idle
IdleColours ==
  /\ inPF = Idle /\ map = Idle /\ outPF = Idle /\ table = Idle /\ clientMap = Idle
  /\ readyForSetColourMapEntries = Idle /\ missed = Idle /\ changes = Idle
IdleZlib == z = Idle /\ inf = Idle /\ zos = Idle /\ zis = Idle

Init ==
  /\ part \in {"regions", "encodings", "colours", "codes", "zlib"}
  /\ IF part = "regions" THEN R!Init ELSE IdleRegions
  /\ IF part = "encodings" THEN E!Init ELSE IdleEncodings
  /\ IF part = "colours" THEN T!Init ELSE IdleColours
  /\ IF part = "codes" THEN K!Init ELSE frequency = Idle
  /\ IF part = "zlib" THEN Z!Init ELSE IdleZlib

pictureParts == <<region, pictureVars, colourVars>>

PictureNext ==
  \/ part = "regions" /\ R!Next /\ UNCHANGED <<pictureVars, colourVars>>
  \/ part = "encodings" /\ E!Next /\ UNCHANGED <<region, colourVars>>
  \/ part = "colours" /\ T!Next /\ UNCHANGED <<region, pictureVars>>

Next ==
  /\ UNCHANGED part
  /\ \/ PictureNext /\ UNCHANGED <<frequency, zlibVars>>
     \/ part = "codes" /\ K!Next /\ UNCHANGED <<pictureParts, zlibVars>>
     \/ part = "zlib" /\ Z!Next /\ UNCHANGED <<pictureParts, frequency>>

Spec == Init /\ [][Next]_<<part, pictureParts, frequency, zlibVars>>

-----------------------------------------------------------------------------
(* Regions: whatever a region and the other one are, the operations and    *)
(* the queries of region.c are those on sets of points, and the rectangles *)
(* of a region, cut to a size, cover it once; the region is in the form    *)
(* that all of them rely on, and copied rectangle by rectangle it moves as *)
(* if at once.                                                             *)
RegionsAreSets ==
  part = "regions" =>
    R!OpsAreSetOps /\ R!QueriesAgree /\ R!RectsTile /\ R!StaysBanded /\ R!CopiesAreSimultaneous

(* Encodings: every decoder undoes its encoder, to the last item.          *)
DecodersUndoEncoders == part = "encodings" => E!DecodersUndoEncoders

(* Colours: whoever changes formats and colour maps when, a client shows   *)
(* the colours of the screen as well as it can.                            *)
ColoursAreNearest == part = "colours" => T!ColoursAreNearest

(* Compression: the codes that deflate makes are the best, and inflate     *)
(* makes the same ones; and a rectangle can be read from what a flush has  *)
(* sent of it, whatever room and pieces there are on the way.              *)
InflateUndoesDeflate ==
  /\ part = "codes" => K!TypeOK /\ K!CodesAgree
  /\ part = "zlib" => Z!FlushedIsReadable

-----------------------------------------------------------------------------
(* Crosses and hooks, and pairs of points. *)
MCOperands ==
  LET columns == {r \in R!Rects : R!width(r) = 1 /\ R!height(r) > 1}
      rows == {r \in R!Rects : R!width(r) > 1 /\ R!height(r) = 1}
      points == {r \in R!Rects : R!area(r) = 1}
  IN  {R!XUnionRegion(R!Reset(p[1]), R!Reset(p[2])) : p \in (columns \X rows) \cup (points \X points)}

(* Pictures of stripes, slopes and repeated colours, and ones with few     *)
(* pixels that differ.                                                     *)
MCPictures ==
  LET points == (0 .. 5) \X (0 .. 3)
      Stripes(a, b, m, n) == [p \in points |-> ((a * p[1] + b * p[2]) \div m) % n]
      Few(k) == [p \in points |-> IF p[1] + 4 * p[2] < k THEN p[1] + 4 * p[2] ELSE 0]
  IN  {Stripes(a, b, m, n) : a, b \in 0 .. 2, m \in {1, 3}, n \in {2, 3, 7}} \cup {Few(k) : k \in 3 .. 6}

MCAreas == {R!Rect(0, 0, 6, 4), R!Rect(1, 1, 4, 3)}

Three(r, g, b) == [c \in {"r", "g", "b"} |-> CASE c = "r" -> r [] c = "g" -> g [] c = "b" -> b]

(* bytes is bpp / 8. *)
Format(bytes, bigEndian, trueColour, max, shift) ==
  [bytes |-> bytes, bigEndian |-> bigEndian, trueColour |-> trueColour, max |-> max, shift |-> shift]

MCScreenFormats ==
  {Format(4, FALSE, TRUE, Three(3, 3, 3), Three(4, 2, 0)),
   Format(2, FALSE, TRUE, Three(1, 3, 1), Three(3, 1, 0)),
   Format(1, FALSE, FALSE, Three(7, 7, 7), Three(0, 0, 0))}

MCClientFormats ==
  MCScreenFormats \cup
  {Format(1, FALSE, TRUE, Three(1, 1, 1), Three(0, 1, 2)),
   Format(2, TRUE, TRUE, Three(1, 3, 3), Three(5, 3, 1)),
   Format(4, TRUE, TRUE, Three(7, 3, 7), Three(9, 6, 0))}

MCMaps == {[i \in 0 .. 7 |-> Three(9362 * i, 9000 * ((i + k) % 8), 65535 - 8000 * i)] : k \in {0, 3}}

=============================================================================
