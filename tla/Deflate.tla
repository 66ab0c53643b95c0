------------------------------ MODULE Deflate ------------------------------
(***************************************************************************)
(* deflate() of zlib with the settings the program uses: level 6, which is *)
(* lazy matching, and flushes that leave the stream at the end of a byte.  *)
(* A call runs through the loop of deflate_slow(), one action for each     *)
(* time round.  Sizes are constants; the checksum, which nothing reads as  *)
(* the stream never ends, is left out.                                     *)
(***************************************************************************)
EXTENDS HuffmanTrees

CONSTANTS
  w_size,           \* bytes of the window that a match may lie in: 32768
  hash_bits,        \* bits of a hash: 15
  lit_bufsize,      \* literals and matches of a block: 16384
  max_lazy_match,   \* no better match is looked for after one this long: 16
  good_match,       \* and not so long after one like this: 8
  nice_match,       \* a match that is good enough: 128
  max_chain_length, \* matches looked at: 128
  TOO_FAR           \* short matches from further away are not worth it: 4096

VARIABLE z  \* the z_stream and its deflate_state

Z_NO_FLUSH == 0
Z_SYNC_FLUSH == 2

NIL == 0
hash_shift == (hash_bits + MIN_MATCH - 1) \div MIN_MATCH
MIN_LOOKAHEAD == MAX_MATCH + MIN_MATCH + 1
MAX_DIST == w_size - MIN_LOOKAHEAD
window_size == 2 * w_size

(* deflateInit(): next_in is the input left, next_out the output so far and*)
(* avail_out the room behind it; lits are the literals, <<0, byte>>, and   *)
(* matches, <<distance, length - MIN_MATCH>>, of the block.  at says where *)
(* in a call the stream is.                                                *)
Deflater ==
  [next_in |-> <<>>, next_out |-> <<>>, avail_out |-> 0, at |-> "returned", rc |-> "Z_OK",
   flush |-> Z_NO_FLUSH, header |-> FALSE, last_flush |-> Z_NO_FLUSH,
   pending |-> <<>>, bi_buf |-> 0, bi_valid |-> 0, lits |-> <<>>,
   window |-> [k \in 0 .. window_size - 1 |-> 0],
   head |-> [h \in 0 .. 2 ^ hash_bits - 1 |-> NIL], prev |-> [k \in 0 .. w_size - 1 |-> NIL], ins_h |-> 0, hash_head |-> NIL,
   strstart |-> 0, block_start |-> 0, lookahead |-> 0,
   match_start |-> 0, prev_match |-> 0, match_length |-> MIN_MATCH - 1, match_available |-> FALSE]

-----------------------------------------------------------------------------
(* Output                                                                  *)

flush_pending(s) ==
  LET len == Smaller(Len(s.pending), s.avail_out)
  IN  [s EXCEPT !.next_out = @ \o SubSeq(s.pending, 1, len), !.avail_out = @ - len,
                !.pending = SubSeq(@, len + 1, Len(@))]

(* bi_buf has room for two bytes. *)
Pushed(s, value, length) ==
  IF s.bi_valid > 2 * ByteBits - length
  THEN [s EXCEPT !.pending = @ \o <<value % 2 ^ ByteBits, (value \div 2 ^ ByteBits) % 2 ^ ByteBits>>,
                 !.bi_buf = value \div 2 ^ (2 * ByteBits), !.bi_valid = @ + length - 2 * ByteBits]
  ELSE [s EXCEPT !.bi_buf = value, !.bi_valid = @ + length]

send_bits(s, value, length) == Pushed(s, s.bi_buf + value * 2 ^ s.bi_valid, length)

SendAll(s, sends) == FoldLeft(LAMBDA t, send : send_bits(t, send[1], send[2]), s, sends)

LowByte(s) == s.bi_buf % 2 ^ ByteBits
bi_windup(s) ==
  [s EXCEPT !.pending = @ \o (IF s.bi_valid > ByteBits THEN <<LowByte(s), s.bi_buf \div 2 ^ ByteBits>>
                              ELSE IF s.bi_valid > 0 THEN <<LowByte(s)>> ELSE <<>>),
            !.bi_buf = 0, !.bi_valid = 0]

Short(n) == <<n % 2 ^ ByteBits, n \div 2 ^ ByteBits>>
copy_block(s, bytes) ==
  [s EXCEPT !.pending = @ \o Short(Len(bytes)) \o Short(2 ^ (2 * ByteBits) - 1 - Len(bytes)) \o bytes]

STORED_BLOCK == 0
STATIC_TREES == 1
DYN_TREES == 2

_tr_stored_block(s, bytes) == copy_block(bi_windup(send_bits(s, 2 * STORED_BLOCK, 3)), bytes)

(* The literals and matches of a block in the words of two codes. *)
Extra(code, extra, value) == IF extra[code + 1] = 0 THEN <<>> ELSE <<<<value, extra[code + 1]>>>>
Lit(lc, ltree) == <<send_code(lc, ltree)>>
Match(code, lc, ltree) ==
  <<send_code(code + LITERALS + 1, ltree)>> \o Extra(code, extra_lbits, lc - base_length(code))
Distance(code, dist, dtree) ==
  <<send_code(code, dtree)>> \o Extra(code, extra_dbits, dist - base_dist(code))
compress_block(lits, ltree, dtree) ==
  FoldLeft(LAMBDA sent, l :
    sent \o (IF l[1] = 0 THEN Lit(l[2], ltree)
             ELSE Match(length_code(l[2]), l[2], ltree) \o Distance(d_code(l[1] - 1), l[1] - 1, dtree)),
    <<>>, lits) \o <<send_code(END_BLOCK, ltree)>>

(* How often each code is needed: what _tr_tally() counts. *)
Symbol(l) == IF l[1] = 0 THEN l[2] ELSE LITERALS + 1 + length_code(l[2])
dyn_ltree(lits) ==
  [n \in 0 .. L_CODES - 1 |->
     (IF n = END_BLOCK THEN 1 ELSE 0) + Cardinality({k \in DOMAIN lits : Symbol(lits[k]) = n})]
dyn_dtree(lits) ==
  [n \in 0 .. D_CODES - 1 |->
     Cardinality({k \in DOMAIN lits : lits[k][1] # 0 /\ d_code(lits[k][1] - 1) = n})]

WholeBytes(bits) == (bits + 3 + ByteBits - 1) \div ByteBits

(* Whichever is the shortest: the bytes themselves, which may have left the*)
(* window, the fixed codes, or the block's own codes.                      *)
Shortest(s, bytes, stored_len, opt_lenb, static_lenb, fixed, dynamic) ==
  IF stored_len + 4 <= Smaller(opt_lenb, static_lenb) /\ s.block_start >= 0
  THEN _tr_stored_block(s, bytes)
  ELSE IF static_lenb <= opt_lenb THEN SendAll(s, <<<<2 * STATIC_TREES, 3>>>> \o fixed)
  ELSE SendAll(s, <<<<2 * DYN_TREES, 3>>>> \o dynamic)

DynamicBits(lfreq, dfreq, ltree, dtree, bl_tree) ==
  Bits(lfreq, l_desc, ltree) + Bits(dfreq, d_desc, dtree)
  + Bits(scan_tree(Scan(ltree) \o Scan(dtree)), bl_desc, bl_tree)
  + 3 * (max_blindex(bl_tree) + 1) + 14

WithTrees(s, bytes, stored_len, lfreq, dfreq, ltree, dtree, bl_tree) ==
  Shortest(s, bytes, stored_len,
    WholeBytes(DynamicBits(lfreq, dfreq, ltree, dtree, bl_tree)),
    WholeBytes(Bits(lfreq, l_desc, static_ltree) + Bits(dfreq, d_desc, static_dtree)),
    compress_block(s.lits, static_ltree, static_dtree),
    send_all_trees(ltree, dtree, bl_tree) \o compress_block(s.lits, ltree, dtree))

WithTwoTrees(s, bytes, lfreq, dfreq, ltree, dtree) ==
  WithTrees(s, bytes, s.strstart - s.block_start, lfreq, dfreq, ltree, dtree, build_bl_tree(ltree, dtree))

WithCounts(s, bytes, lfreq, dfreq) ==
  WithTwoTrees(s, bytes, lfreq, dfreq, build_tree(lfreq, l_desc), build_tree(dfreq, d_desc))

_tr_flush_block(s) ==
  WithCounts(s, [k \in 1 .. s.strstart - s.block_start |-> s.window[s.block_start + k - 1]],
             dyn_ltree(s.lits), dyn_dtree(s.lits))

FLUSH_BLOCK_ONLY(s) ==
  flush_pending([_tr_flush_block(s) EXCEPT !.lits = <<>>, !.block_start = s.strstart])

_tr_tally(s, dist, lc) == [s EXCEPT !.lits = Append(@, <<dist, lc>>)]
BlockFull(s) == Len(s.lits) = lit_bufsize - 1

-----------------------------------------------------------------------------
(* The window                                                              *)

(* The low bits of an exclusive or. *)
LowXor(a, b) ==
  MapThenSumSet(LAMBDA k : IF Bit(a, k) = Bit(b, k) THEN 0 ELSE 2 ^ k, 0 .. hash_bits - 1)
UPDATE_HASH(h, c) == LowXor(h * 2 ^ hash_shift, c)

Insert(s, str, h) ==
  [s EXCEPT !.ins_h = h, !.prev[str % w_size] = s.head[h], !.hash_head = s.head[h], !.head[h] = str]
INSERT_STRING(s, str) == Insert(s, str, UPDATE_HASH(s.ins_h, s.window[str + MIN_MATCH - 1]))

read_buf(s, size) ==
  LET n == Smaller(Len(s.next_in), size)
      to == s.strstart + s.lookahead
  IN  [s EXCEPT !.window = [k \in DOMAIN @ |-> IF k \in to .. to + n - 1 THEN s.next_in[k - to + 1] ELSE @[k]],
                !.next_in = SubSeq(@, n + 1, Len(@)), !.lookahead = @ + n]

(* The upper half of the window becomes the lower one. *)
Down(m) == IF m >= w_size THEN m - w_size ELSE NIL
Slide(s) ==
  [s EXCEPT !.window = [k \in DOMAIN @ |-> @[IF k < w_size THEN k + w_size ELSE k]],
            !.match_start = @ - w_size, !.strstart = @ - w_size, !.block_start = @ - w_size,
            !.head = [h \in DOMAIN @ |-> Down(@[h])], !.prev = [k \in DOMAIN @ |-> Down(@[k])]]
Slid(s) == IF s.strstart >= w_size + MAX_DIST THEN Slide(s) ELSE s

Rehashed(s) ==
  IF s.lookahead < MIN_MATCH THEN s
  ELSE [s EXCEPT !.ins_h = UPDATE_HASH(s.window[s.strstart], s.window[s.strstart + 1])]

RECURSIVE fill_window(_)
ReadIn(s) ==
  IF s.next_in = <<>> THEN s
  ELSE fill_window(Rehashed(read_buf(s, window_size - s.lookahead - s.strstart)))
fill_window(s) ==
  IF s.lookahead >= MIN_LOOKAHEAD THEN s ELSE ReadIn(Slid(s))

(* The match that starts at cur is as long as this; that the third byte is *)
(* the same goes without looking, as the hashes are.                       *)
MatchLength(s, cur) ==
  LET Same(k) == s.window[cur + k] = s.window[s.strstart + k]
  IN  CHOOSE len \in MIN_MATCH .. MAX_MATCH :
        /\ \A k \in MIN_MATCH .. len - 1 : Same(k)
        /\ len = MAX_MATCH \/ ~Same(len)

Promising(s, cur, best_len) ==
  \A k \in {best_len, best_len - 1, 0, 1} : s.window[cur + k] = s.window[s.strstart + k]

Limit(s) == IF s.strstart > MAX_DIST THEN s.strstart - MAX_DIST ELSE NIL

(* best: <<length, start>> of the longest so far. *)
RECURSIVE Longest(_, _, _, _)
Onward(s, next, best, chain) ==
  IF next > Limit(s) /\ chain > 1 THEN Longest(s, next, best, chain - 1) ELSE best
WithMatch(s, cur, len, best, chain) ==
  IF len <= best[1] THEN Onward(s, s.prev[cur % w_size], best, chain)
  ELSE IF len >= Smaller(nice_match, s.lookahead) THEN <<len, cur>>
  ELSE Onward(s, s.prev[cur % w_size], <<len, cur>>, chain)
Longest(s, cur, best, chain) ==
  WithMatch(s, cur, IF Promising(s, cur, best[1]) THEN MatchLength(s, cur) ELSE 0, best, chain)

Matched(s, best) == [s EXCEPT !.match_length = Smaller(best[1], s.lookahead), !.match_start = best[2]]
longest_match(s, cur, prev_length) ==
  Matched(s, Longest(s, cur, <<prev_length, s.match_start>>,
                     IF prev_length >= good_match THEN max_chain_length \div 4 ELSE max_chain_length))

-----------------------------------------------------------------------------
(* A call                                                                  *)

(* How a call ends. *)
Return(s) == [s EXCEPT !.at = "returned", !.last_flush = IF s.avail_out = 0 THEN -1 ELSE @]

(* The stream starts with two bytes of eight bits about itself, of method 8*)
(* with a window of 15 bits and level 6, which are a multiple of 31.       *)
WithCheck(header) == header + 31 - (header % 31)
Header == WithCheck((8 + (15 - 8) * 16) * 256 + ((6 - 1) \div 2) * 64)
Headed(s) ==
  IF s.header THEN s
  ELSE [s EXCEPT !.header = TRUE, !.pending = @ \o <<Header \div 256, Header % 256>>]

Work(s) ==
  IF s.next_in # <<>> \/ s.lookahead # 0 \/ s.flush # Z_NO_FLUSH
  THEN [s EXCEPT !.at = "slow", !.hash_head = NIL] ELSE Return(s)

Begun(s, old_flush) ==
  IF s.pending # <<>>
  THEN LET t == flush_pending(s) IN IF t.avail_out = 0 THEN Return(t) ELSE Work(t)
  ELSE IF s.next_in = <<>> /\ s.flush <= old_flush
  THEN [s EXCEPT !.at = "returned", !.rc = "Z_BUF_ERROR"]
  ELSE Work(s)

(* deflate() is called with room for some bytes. *)
deflate(next_in, flush, avail_out) ==
  z' = Begun(Headed([z EXCEPT !.next_in = next_in, !.flush = flush, !.avail_out = avail_out, !.last_flush = flush]),
             z.last_flush)

(* Once round the loop: enough is ahead, the next string is in the hash    *)
(* table, and the longest match for it is known.                           *)
InsertNext(s) == IF s.lookahead >= MIN_MATCH THEN INSERT_STRING(s, s.strstart) ELSE s

NotTooFar(s) ==
  IF s.match_length = MIN_MATCH /\ s.strstart - s.match_start > TOO_FAR
  THEN [s EXCEPT !.match_length = MIN_MATCH - 1] ELSE s

Looked(s) ==
  IF s.hash_head # NIL /\ s.match_length < max_lazy_match /\ s.strstart - s.hash_head <= MAX_DIST
  THEN NotTooFar(longest_match(s, s.hash_head, s.match_length))
  ELSE [s EXCEPT !.match_length = MIN_MATCH - 1]

Enough(s) == s.lookahead >= MIN_LOOKAHEAD \/ (s.flush # Z_NO_FLUSH /\ s.lookahead > 0)

(* After a block is full it is sent, which may fill the room there was. *)
RoundDone(s) == IF s.avail_out = 0 THEN Return(s) ELSE s
Flushed(s) == IF BlockFull(s) THEN FLUSH_BLOCK_ONLY(s) ELSE s

(* The strings in a match go into the hash table, as far as bytes are known.*)
Advance(s, count, max_insert) ==
  FoldLeft(LAMBDA t, k :
    LET u == [t EXCEPT !.strstart = @ + 1]
    IN  IF u.strstart <= max_insert THEN INSERT_STRING(u, u.strstart) ELSE u,
    s, [k \in 1 .. count |-> k])

TakeMatch(s, prev_length, prev_match) ==
  [Advance(_tr_tally(s, s.strstart - 1 - prev_match, prev_length - MIN_MATCH),
           prev_length - 2, s.strstart + s.lookahead - MIN_MATCH)
     EXCEPT !.strstart = @ + 1, !.lookahead = @ - (prev_length - 1),
            !.match_available = FALSE, !.match_length = MIN_MATCH - 1]

(* The match before is at least as good as the one here. *)
PreviousMatch(s) ==
  /\ z.match_length >= MIN_MATCH /\ s.match_length <= z.match_length
  /\ z' = RoundDone(Flushed(TakeMatch(s, z.match_length, s.prev_match)))

NextByte(s) == [s EXCEPT !.strstart = @ + 1, !.lookahead = @ - 1]

(* It is not, and the byte before stands for itself. *)
PreviousByte(s) ==
  /\ ~(z.match_length >= MIN_MATCH /\ s.match_length <= z.match_length)
  /\ z.match_available
  /\ z' = RoundDone(NextByte(Flushed(_tr_tally(s, 0, s.window[s.strstart - 1]))))

(* Nothing is before. *)
NothingBefore(s) ==
  /\ ~(z.match_length >= MIN_MATCH /\ s.match_length <= z.match_length)
  /\ ~z.match_available
  /\ z' = NextByte([s EXCEPT !.match_available = TRUE])

(* Without a flush, the last bytes wait for what may come after them.      *)
NeedMore ==
  /\ z.at = "slow"
  /\ \E s \in {fill_window(z)} :
       /\ ~Enough(s) /\ s.flush = Z_NO_FLUSH
       /\ z' = Return(s)

Round ==
  /\ z.at = "slow"
  /\ \E f \in {fill_window(z)} : Enough(f) /\ \E s \in {Looked(InsertNext([f EXCEPT !.prev_match = f.match_start]))} :
       PreviousMatch(s) \/ PreviousByte(s) \/ NothingBefore(s)

(* Mutant: the byte that is left over stays where it is.                   *)
LastByteKept(s) == s

(* The byte that is left over, the block, and with room left an empty block*)
(* of bytes, which ends at the end of a byte.                              *)
LastByte(s) ==
  IF s.match_available
  THEN [_tr_tally(s, 0, s.window[s.strstart - 1]) EXCEPT !.match_available = FALSE] ELSE s
Aligned(s) == IF s.avail_out = 0 THEN s ELSE flush_pending(_tr_stored_block(s, <<>>))

EndOfInput ==
  /\ z.at = "slow"
  /\ \E s \in {fill_window(z)} :
       /\ s.lookahead = 0 /\ s.flush # Z_NO_FLUSH
       /\ z' = Return(Aligned(FLUSH_BLOCK_ONLY(LastByte(s))))

Deflating == NeedMore \/ Round \/ EndOfInput

=============================================================================
