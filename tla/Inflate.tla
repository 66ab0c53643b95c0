------------------------------ MODULE Inflate ------------------------------
(***************************************************************************)
(* inflate() of zlib: it may be stopped anywhere, for want of input or of  *)
(* room, and goes on from there at the next call.  One action for each     *)
(* state of inflate_blocks() and inflate_codes(), and one for each time    *)
(* round the fast loop.  The checksum at the end of a stream is left out,  *)
(* as the streams of the program never end.                                *)
(***************************************************************************)
EXTENDS HuffmanTrees

CONSTANTS
  wsize,        \* bytes of the window: 32768
  lbits, dbits, \* bits looked up at first, of literals and distances: 9, 6
  FastInput     \* bytes of input that the fast loop asks for: 10

VARIABLE inf    \* the z_stream and its states

(* inflateInit(): next_in is the input left, next_out the output and       *)
(* avail_out the room behind it; mode is that of inflate_blocks(), or of   *)
(* inflate() before the first block; code that of inflate_codes(); hufts   *)
(* are the tables, read and write the places in the window.                *)
Inflater ==
  [next_in |-> <<>>, next_out |-> <<>>, avail_out |-> 0, at |-> "returned", rc |-> "Z_OK",
   mode |-> "METHOD", method |-> 0, bitb |-> 0, bitk |-> 0, left |-> 0, table |-> <<0, 0, 0>>, blens |-> <<>>,
   bl |-> 0, ltree |-> 0, lbits |-> 0, dtree |-> 0, dbits |-> 0, hufts |-> <<>>,
   code |-> "START", len |-> 0, need |-> 0, tree |-> 0, get |-> 0, dist |-> 0, lit |-> 0, grabbed |-> 0,
   window |-> [k \in 0 .. wsize - 1 |-> 0], read |-> 0, write |-> 0]

(* inflate() is called with input and room. *)
inflate(input, avail_out) ==
  inf' = [inf EXCEPT !.next_in = input, !.avail_out = avail_out, !.at = "running", !.rc = "Z_BUF_ERROR"]

-----------------------------------------------------------------------------
(* Input and output                                                        *)

(* NEEDBITS: bytes are taken until there are n bits, or no bytes. *)
RECURSIVE Needed(_, _)
Needed(s, n) ==
  IF s.bitk >= n \/ s.next_in = <<>> THEN s
  ELSE Needed([s EXCEPT !.bitb = @ + s.next_in[1] * 2 ^ s.bitk, !.bitk = @ + ByteBits,
                        !.next_in = Tail(@), !.rc = "Z_OK"], n)

DUMPBITS(s, n) == [s EXCEPT !.bitb = @ \div 2 ^ n, !.bitk = @ - n]
Low(s, n) == s.bitb % 2 ^ n

(* What lies in the window, up to its end, goes out as far as there is room.*)
Copied(s, to) ==
  LET n == Smaller(to - s.read, s.avail_out)
  IN  [s EXCEPT !.next_out = @ \o [k \in 1 .. n |-> s.window[s.read + k - 1]],
                !.avail_out = @ - n, !.read = @ + n, !.rc = IF n > 0 /\ @ = "Z_BUF_ERROR" THEN "Z_OK" ELSE @]

Wrapped(s) ==
  IF s.read # wsize THEN s
  ELSE LET t == [s EXCEPT !.read = 0, !.write = IF @ = wsize THEN 0 ELSE @] IN Copied(t, t.write)

inflate_flush(s) == Wrapped(Copied(s, IF s.read <= s.write THEN s.write ELSE wsize))

(* LEAVE *)
Leave(s) == [inflate_flush(s) EXCEPT !.at = "returned"]

WAVAIL(s) == IF s.write < s.read THEN s.read - s.write - 1 ELSE wsize - s.write
WRAP(s) == IF s.write = wsize /\ s.read # 0 THEN [s EXCEPT !.write = 0] ELSE s

(* NEEDOUT: there is room in the window, or room is made. *)
RoomMade(s) == IF WAVAIL(s) > 0 THEN s ELSE WRAP(inflate_flush(s))
RoomFound(s) == IF WAVAIL(s) > 0 THEN s ELSE RoomMade(WRAP(s))

OUTBYTE(s, byte) == [s EXCEPT !.window[s.write] = byte, !.write = @ + 1, !.rc = "Z_OK"]

(* With n bits the next state follows, without them the call ends. *)
NEEDBITS(n, Then(_)) ==
  \E s \in {Needed(inf, n)} : inf' = IF s.bitk < n THEN Leave(s) ELSE Then(s)

Bad(s) == Leave([s EXCEPT !.mode = "BAD", !.rc = "Z_DATA_ERROR"])
Running(mode) == inf.at = "running" /\ inf.mode = mode

-----------------------------------------------------------------------------
(* The beginning of the stream                                             *)

NEEDBYTE(Then(_)) ==
  inf' = IF inf.next_in = <<>> THEN [inf EXCEPT !.at = "returned"]
         ELSE Then([inf EXCEPT !.next_in = Tail(@), !.rc = "Z_OK"])

METHOD ==
  /\ Running("METHOD")
  /\ NEEDBYTE(LAMBDA s :
       IF inf.next_in[1] % 16 = 8 /\ inf.next_in[1] \div 16 + 8 <= 15
       THEN [s EXCEPT !.mode = "FLAG", !.method = inf.next_in[1]] ELSE Bad(s))

FLAG ==
  /\ Running("FLAG")
  /\ NEEDBYTE(LAMBDA s :
       IF (inf.method * 256 + inf.next_in[1]) % 31 = 0 /\ Bit(inf.next_in[1], 5) = 0
       THEN [s EXCEPT !.mode = "TYPE"] ELSE Bad(s))

-----------------------------------------------------------------------------
(* Blocks                                                                  *)

StartCodes(s, ltree, dtree) ==
  [s EXCEPT !.mode = "CODES", !.code = "START", !.hufts = dtree.hp,
            !.ltree = ltree.tree, !.lbits = ltree.bits, !.dtree = dtree.tree, !.dbits = dtree.bits]

WithLiterals(s, ltree) ==
  StartCodes(s, ltree, huft_build(static_dtree.Len, "distances", static_dbits, ltree.hp))
inflate_trees_fixed(s) == WithLiterals(s, huft_build(static_ltree.Len, "literals", lbits, <<>>))

OfType(s, type) ==
  CASE type = 0 -> DUMPBITS([s EXCEPT !.mode = "LENS"], s.bitk % ByteBits)
    [] type = 1 -> inflate_trees_fixed(s)
    [] type = 2 -> [s EXCEPT !.mode = "TABLE"]
    [] type = 3 -> Bad(s)

(* None of the program's blocks is the last one. *)
TYPE == Running("TYPE") /\ NEEDBITS(3, LAMBDA s : OfType(DUMPBITS(s, 3), Low(s, 3) \div 2))

Lens(s, len, complement) ==
  IF len + complement # 2 ^ (2 * ByteBits) - 1 THEN Bad(s)
  ELSE [s EXCEPT !.bitb = 0, !.bitk = 0, !.left = len, !.mode = IF len = 0 THEN "TYPE" ELSE "STORED"]
LENS ==
  /\ Running("LENS")
  /\ NEEDBITS(4 * ByteBits, LAMBDA s :
       Lens(s, Low(s, 2 * ByteBits), Low(DUMPBITS(s, 2 * ByteBits), 2 * ByteBits)))

Store(s, n) ==
  [s EXCEPT !.window = [k \in DOMAIN @ |->
              IF k \in s.write .. s.write + n - 1 THEN s.next_in[k - s.write + 1] ELSE @[k]],
            !.write = @ + n, !.next_in = SubSeq(@, n + 1, Len(@)), !.left = @ - n, !.rc = "Z_OK",
            !.mode = IF s.left = n THEN "TYPE" ELSE @]
STORED ==
  /\ Running("STORED")
  /\ IF inf.next_in = <<>> THEN inf' = Leave(inf)
     ELSE \E s \in {RoomFound(inf)} :
            inf' = IF WAVAIL(s) = 0 THEN Leave(s)
                   ELSE Store(s, Min({s.left, Len(s.next_in), WAVAIL(s)}))

(* How many lengths of words follow: of literals, distances, and lengths. *)
TABLE ==
  /\ Running("TABLE")
  /\ NEEDBITS(14, LAMBDA s :
       IF Low(s, 5) > L_CODES - LITERALS - 1 \/ Low(DUMPBITS(s, 5), 5) > D_CODES - 1 THEN Bad(s)
       ELSE [DUMPBITS(s, 14) EXCEPT !.mode = "BTREE", !.blens = <<>>,
               !.table = <<LITERALS + 1 + Low(s, 5), 1 + Low(DUMPBITS(s, 5), 5), 4 + Low(DUMPBITS(s, 10), 4)>>])

BitsTree(s, built) ==
  IF built.result # "Z_OK" \/ built.bits = 0 THEN Bad(s)
  ELSE [s EXCEPT !.mode = "DTREE", !.blens = <<>>, !.bl = built.bits, !.tree = built.tree, !.hufts = built.hp]
inflate_trees_bits(s) ==
  BitsTree(s, huft_build([n \in 0 .. BL_CODES - 1 |->
    IF \E k \in DOMAIN s.blens : bl_order[k] = n THEN s.blens[CHOOSE k \in DOMAIN s.blens : bl_order[k] = n]
    ELSE 0], "lengths", 7, <<>>))
BTREE ==
  /\ Running("BTREE")
  /\ IF Len(inf.blens) < inf.table[3]
     THEN NEEDBITS(3, LAMBDA s : [DUMPBITS(s, 3) EXCEPT !.blens = Append(@, Low(s, 3))])
     ELSE inf' = inflate_trees_bits(inf)

(* A length, or a repeat with its count. *)
Repeat(s, c, j) ==
  IF Len(s.blens) + j > s.table[1] + s.table[2] \/ (c = REP_3_6 /\ s.blens = <<>>) THEN Bad(s)
  ELSE [s EXCEPT !.blens = @ \o [k \in 1 .. j |-> IF c = REP_3_6 THEN Last(@) ELSE 0]]
RepeatOf(t, c, i, j) ==
  IF t.bitk < i THEN Leave(t) ELSE Repeat(DUMPBITS(t, i), c, j + Low(t, i))
Length(s, e) ==
  IF e.base <= MAX_BITS THEN [DUMPBITS(s, e.bits) EXCEPT !.blens = Append(@, e.base)]
  ELSE LET i == IF e.base = REPZ_11_138 THEN 7 ELSE e.base - REP_3_6 + 2
           t == Needed(s, e.bits + i)
       IN  IF t.bitk < e.bits + i THEN Leave(t)
           ELSE RepeatOf(DUMPBITS(t, e.bits), e.base, i, IF e.base = REPZ_11_138 THEN 11 ELSE 3)

DynamicTrees(s, ltree, dtree) ==
  IF ltree.result # "Z_OK" \/ ltree.bits = 0 \/ dtree.result # "Z_OK"
     \/ (dtree.bits = 0 /\ s.table[1] > LITERALS + 1)
  THEN Bad(s) ELSE StartCodes(s, ltree, dtree)
DynamicLiterals(s, ltree) ==
  DynamicTrees(s, ltree,
    huft_build([n \in 0 .. s.table[2] - 1 |-> s.blens[s.table[1] + n + 1]], "distances", dbits, ltree.hp))
inflate_trees_dynamic(s) ==
  DynamicLiterals(s, huft_build([n \in 0 .. s.table[1] - 1 |-> s.blens[n + 1]], "literals", lbits, <<>>))
DTREE ==
  /\ Running("DTREE")
  /\ IF Len(inf.blens) < inf.table[1] + inf.table[2]
     THEN NEEDBITS(inf.bl, LAMBDA s : Length(s, s.hufts[(s.tree + Low(s, inf.bl)) + 1]))
     ELSE inf' = inflate_trees_dynamic([inf EXCEPT !.tree = 0])

-----------------------------------------------------------------------------
(* Literals and matches                                                    *)

InCode(code) == Running("CODES") /\ inf.code = code

LookFor(s, code, tree, bits) == [s EXCEPT !.code = code, !.tree = tree, !.need = bits]

(* There is a lot of input and of room. *)
START ==
  /\ InCode("START")
  /\ inf' = IF WAVAIL(inf) >= MAX_MATCH /\ Len(inf.next_in) >= FastInput
            THEN [inf EXCEPT !.code = "FAST", !.grabbed = Len(inf.next_in)]
            ELSE LookFor(inf, "LEN", inf.ltree, inf.lbits)

(* A word leads to its entry, or to the table of the rest of it. *)
Deeper(s, e, place) == [s EXCEPT !.tree = place + e.base, !.need = e.extra]

LenEntry(s, e, place) ==
  CASE e.op = "value" -> [s EXCEPT !.code = "LIT", !.lit = e.base]
    [] e.op = "extra" -> [s EXCEPT !.code = "LENEXT", !.get = e.extra, !.len = e.base]
    [] e.op = "table" -> Deeper(s, e, place)
    [] e.op = "end" -> [s EXCEPT !.code = "WASH"]
    [] OTHER -> Bad(s)
DistEntry(s, e, place) ==
  CASE e.op = "extra" -> [s EXCEPT !.code = "DISTEXT", !.get = e.extra, !.dist = e.base]
    [] e.op = "table" -> Deeper(s, e, place)
    [] OTHER -> Bad(s)
At(s, Entered(_, _, _), place) ==
  Entered(DUMPBITS(s, s.hufts[place + 1].bits), s.hufts[place + 1], place)

LEN == InCode("LEN") /\ NEEDBITS(inf.need, LAMBDA s : At(s, LenEntry, s.tree + Low(s, s.need)))
LENEXT ==
  /\ InCode("LENEXT")
  /\ NEEDBITS(inf.get, LAMBDA s :
       LookFor([DUMPBITS(s, s.get) EXCEPT !.len = @ + Low(s, s.get)], "DIST", s.dtree, s.dbits))
DIST == InCode("DIST") /\ NEEDBITS(inf.need, LAMBDA s : At(s, DistEntry, s.tree + Low(s, s.need)))
DISTEXT ==
  /\ InCode("DISTEXT")
  /\ NEEDBITS(inf.get, LAMBDA s :
       [DUMPBITS(s, s.get) EXCEPT !.code = "COPY", !.dist = @ + Low(s, s.get)])

(* One byte of a match, from where the window has it. *)
CopyByte(s) == [OUTBYTE(s, s.window[(s.write + wsize - s.dist) % wsize]) EXCEPT !.len = @ - 1]
COPY ==
  /\ InCode("COPY")
  /\ \E s \in {RoomFound(inf)} :
       inf' = IF WAVAIL(s) = 0 THEN Leave(s)
              ELSE [CopyByte(s) EXCEPT !.code = IF s.len = 1 THEN "START" ELSE @]

LIT ==
  /\ InCode("LIT")
  /\ \E s \in {RoomFound(inf)} :
       inf' = IF WAVAIL(s) = 0 THEN Leave(s) ELSE [OUTBYTE(s, s.lit) EXCEPT !.code = "START"]

(* The end of a block.  A byte too many may have been taken, which goes    *)
(* back, and everything has to go out before the next block.               *)
GiveBack(s) ==
  IF s.bitk < ByteBits THEN s
  ELSE [s EXCEPT !.bitk = @ - ByteBits, !.bitb = Low(s, s.bitk - ByteBits),
                 !.next_in = <<(s.bitb \div 2 ^ (s.bitk - ByteBits)) % 2 ^ ByteBits>> \o @]
WASH ==
  /\ InCode("WASH")
  /\ \E s \in {inflate_flush(GiveBack(inf))} :
       inf' = IF s.read # s.write THEN Leave(s) ELSE [s EXCEPT !.mode = "TYPE", !.rc = "Z_OK"]

-----------------------------------------------------------------------------
(* inflate_fast(): no looking at what is left until a word is through.     *)

RECURSIVE CopyAll(_)
CopyAll(s) == IF s.len = 0 THEN s ELSE CopyAll(CopyByte(s))

RECURSIVE FastDistance(_, _)
FastDistance(s, place) ==
  LET e == s.hufts[place + 1]
      t == DUMPBITS(s, e.bits)
  IN  CASE e.op = "extra" ->
             LET u == Needed(t, e.extra)
             IN  CopyAll([DUMPBITS(u, e.extra) EXCEPT !.dist = e.base + Low(u, e.extra)])
        [] e.op = "table" -> FastDistance(t, place + e.base + Low(t, e.extra))
        [] OTHER -> Bad(t)

RECURSIVE FastLength(_, _)
FastExtra(s, e) ==
  LET t == Needed([DUMPBITS(s, e.extra) EXCEPT !.len = e.base + Low(s, e.extra)], MAX_BITS)
  IN  FastDistance(t, t.dtree + Low(t, t.dbits))
FastLength(s, place) ==
  LET e == s.hufts[place + 1]
      t == DUMPBITS(s, e.bits)
  IN  CASE e.op = "value" -> OUTBYTE(t, e.base)
        [] e.op = "extra" -> FastExtra(t, e)
        [] e.op = "table" -> FastLength(t, place + e.base + Low(t, e.extra))
        [] e.op = "end" -> [t EXCEPT !.code = "WASH"]
        [] OTHER -> Bad(t)

(* The whole bytes that this loop has taken too many go back. *)
RECURSIVE UNGRAB(_)
UNGRAB(s) ==
  IF s.bitk < ByteBits \/ s.grabbed = Len(s.next_in) THEN s ELSE UNGRAB(GiveBack(s))

MostExtra == Max({extra_lbits[k] : k \in DOMAIN extra_lbits})

FAST ==
  /\ InCode("FAST")
  /\ \E s \in {Needed(inf, MAX_BITS + MostExtra)} :
     \E t \in {FastLength(s, s.ltree + Low(s, s.lbits))} :
       inf' = IF t.code = "FAST" /\ WAVAIL(t) >= MAX_MATCH /\ Len(t.next_in) >= FastInput THEN t
              ELSE IF t.code = "FAST" THEN LookFor(UNGRAB(t), "LEN", t.ltree, t.lbits)
              ELSE UNGRAB(t)

Inflating ==
  \/ METHOD \/ FLAG \/ TYPE \/ LENS \/ STORED \/ TABLE \/ BTREE \/ DTREE
  \/ START \/ LEN \/ LENEXT \/ DIST \/ DISTEXT \/ COPY \/ LIT \/ WASH \/ FAST

=============================================================================
