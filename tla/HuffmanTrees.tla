---------------------------- MODULE HuffmanTrees ----------------------------
(***************************************************************************)
(* The codes of zlib (trees.c, inftrees.c): deflate makes a code from the  *)
(* frequencies of a block and sends the lengths of its words, and inflate  *)
(* makes tables from the lengths.  The sizes of zlib are constants, so that*)
(* small alphabets show what only large blocks would.                      *)
(***************************************************************************)
EXTENDS Integers, Sequences, FiniteSetsExt, SequencesExt

CONSTANTS
  ByteBits,      \* bits of a byte: 8
  MAX_BITS,      \* bits of the longest word of a literal or a distance: 15
  MAX_BL_BITS,   \* and of a length: 7
  LITERALS,      \* 256
  extra_lbits,   \* further bits of the length codes, a sequence
  extra_dbits,   \* and of the distance codes
  bl_order,      \* the order the lengths of the words for lengths are sent in
  static_lengths,\* lengths of the words of the fixed code for literals
  static_dbits,  \* bits of a word of the fixed code for distances: 5
  MANY           \* entries that the tables of inflate may have: 1440

LENGTH_CODES == Len(extra_lbits)
L_CODES == LITERALS + 1 + LENGTH_CODES
D_CODES == Len(extra_dbits)
BL_CODES == MAX_BITS + 4
END_BLOCK == LITERALS
REP_3_6 == MAX_BITS + 1
REPZ_3_10 == MAX_BITS + 2
REPZ_11_138 == MAX_BITS + 3
MIN_MATCH == 3

Smaller(a, b) == IF a < b THEN a ELSE b

(* Those of the first codes that pass the test, in order. *)
Codes(elems, Test(_)) == SelectSeq([k \in 1 .. elems |-> k - 1], Test)

(* The descriptions of the three codes. *)
l_desc == [elems |-> L_CODES, base |-> LITERALS + 1, extra |-> extra_lbits, max_length |-> MAX_BITS]
d_desc == [elems |-> D_CODES, base |-> 0, extra |-> extra_dbits, max_length |-> MAX_BITS]
bl_desc == [elems |-> BL_CODES, base |-> REP_3_6, extra |-> <<2, 3, 7>>, max_length |-> MAX_BL_BITS]

xbits(desc, n) == IF n >= desc.base THEN desc.extra[n - desc.base + 1] ELSE 0

-----------------------------------------------------------------------------
(* The codes of lengths and distances, as tr_static_init() lays them out.  *)

Before(extra, code) == MapThenSumSet(LAMBDA c : 2 ^ extra[c], 1 .. code)
base_length(code) == Before(extra_lbits, code)
base_dist(code) == Before(extra_dbits, code)

(* The code whose range holds x, and the last length of all has a code of  *)
(* its own.                                                                *)
MAX_MATCH == MIN_MATCH + base_length(LENGTH_CODES - 1) - 1
length_code(x) ==
  IF x = MAX_MATCH - MIN_MATCH THEN LENGTH_CODES - 1
  ELSE CHOOSE code \in 0 .. LENGTH_CODES - 2 :
         x \in base_length(code) .. base_length(code + 1) - 1
d_code(x) ==
  CHOOSE code \in 0 .. D_CODES - 1 : x \in base_dist(code) .. base_dist(code + 1) - 1

-----------------------------------------------------------------------------
(* The heap of the nodes that have no father yet.                          *)

smaller(h, n, m) ==
  \/ h.Freq[n] < h.Freq[m]
  \/ h.Freq[n] = h.Freq[m] /\ h.depth[n] <= h.depth[m]

RECURSIVE SiftDown(_, _, _)
SiftDown(h, v, k) ==
  LET j == 2 * k
      son == IF j < Len(h.heap) /\ smaller(h, h.heap[j + 1], h.heap[j]) THEN j + 1 ELSE j
  IN  IF j > Len(h.heap) \/ smaller(h, v, h.heap[son])
      THEN [h EXCEPT !.heap[k] = v]
      ELSE SiftDown([h EXCEPT !.heap[k] = h.heap[son]], v, son)

pqdownheap(h, k) == SiftDown(h, h.heap[k], k)

pqremove(h) ==
  LET last == Len(h.heap)
  IN  pqdownheap([h EXCEPT !.heap = SubSeq([h.heap EXCEPT ![1] = h.heap[last]], 1, last - 1)], 1)

(* The codes that are used, and two at least. *)
TwoAtLeast(used) ==
  IF Cardinality(used) >= 2 THEN used
  ELSE IF used = {} THEN {0, 1}
  ELSE used \cup {IF Max(used) < 2 THEN Max(used) + 1 ELSE 0}

Used(freq) == TwoAtLeast({n \in DOMAIN freq : freq[n] # 0})

Heap(freq, used, heap, nodes) ==
  FoldLeft(pqdownheap,
    [heap |-> heap, sorted |-> <<>>, depth |-> [n \in nodes |-> 0], Dad |-> [n \in nodes |-> 0],
     Freq |-> [n \in nodes |-> IF n \notin used THEN 0 ELSE IF freq[n] = 0 THEN 1 ELSE freq[n]]],
    Reverse([k \in 1 .. Len(heap) \div 2 |-> k]))

Prepared(freq, desc) ==
  Heap(freq, Used(freq), Codes(desc.elems, LAMBDA n : n \in Used(freq)), 0 .. 2 * desc.elems - 2)

(* The two least frequent nodes get a father. *)
Join(h, n, node) ==
  LET m == h.heap[1]
  IN  pqdownheap([h EXCEPT !.sorted = <<m, n>> \o @, !.heap[1] = node,
                           !.Freq[node] = h.Freq[n] + h.Freq[m],
                           !.depth[node] = 1 + Max({h.depth[n], h.depth[m]}),
                           !.Dad[n] = node, !.Dad[m] = node], 1)

RECURSIVE Combined(_, _)
Combined(h, node) ==
  IF Len(h.heap) < 2 THEN [h EXCEPT !.sorted = h.heap \o @]
  ELSE Combined(Join(pqremove(h), h.heap[1], node), node + 1)

-----------------------------------------------------------------------------
(* The lengths of the words: gen_bitlen().                                 *)

(* Down the tree, no deeper than max_length. *)
Depth(h, max_length) ==
  LET Down(len, n) == [len EXCEPT ![n] = Smaller(len[h.Dad[n]] + 1, max_length)]
  IN  FoldLeft(Down, [n \in DOMAIN h.Dad |-> 0], Tail(h.sorted))

(* Nodes, leaves or not, that lie deeper. *)
Overflow(h, len, max_length) ==
  Cardinality({n \in ToSet(Tail(h.sorted)) : len[h.Dad[n]] = max_length})

(* Mutant: the overflow is left as it is.                                  *)
NeverBalanced(counts, overflow, max_length) == counts

(* A leaf moves down, two that were too deep come up beside it. *)
RECURSIVE Balanced(_, _, _)
Balanced(counts, overflow, max_length) ==
  LET bits == Max({b \in 1 .. max_length - 1 : counts[b] # 0})
      moved == [counts EXCEPT ![bits] = @ - 1]
      paired == [moved EXCEPT ![bits + 1] = @ + 2]
  IN  IF overflow <= 0 THEN counts
      ELSE Balanced([paired EXCEPT ![max_length] = @ - 1], overflow - 2, max_length)

bl_count(len, leaves) ==
  [b \in 0 .. MAX_BITS |-> Cardinality({n \in leaves : len[n] = b})]

(* The longest words for the rarest codes, when lengths were moved. *)
Assigned(len, leaves, counts, max_length) ==
  LET AsLong(b) == MapThenSumSet(LAMBDA c : counts[c], b .. max_length)
      place == [n \in ToSet(leaves) |-> CHOOSE k \in DOMAIN leaves : leaves[k] = n]
  IN  [n \in DOMAIN len |->
         IF n \in DOMAIN place THEN Max({b \in 1 .. max_length : place[n] <= AsLong(b)}) ELSE 0]

Fitted(len, leaves, overflow, max_length) ==
  IF overflow = 0 THEN len
  ELSE Assigned(len, leaves, Balanced(bl_count(len, ToSet(leaves)), overflow, max_length), max_length)

(* From the rarest leaf to the most frequent one. *)
Leaves(h, desc) == SelectSeq(Reverse(h.sorted), LAMBDA n : n < desc.elems)

LengthsOf(h, desc, len) ==
  Restrict(Fitted(len, Leaves(h, desc), Overflow(h, len, desc.max_length), desc.max_length),
           0 .. desc.elems - 1)

gen_bitlen(h, desc) == LengthsOf(h, desc, Depth(h, desc.max_length))

-----------------------------------------------------------------------------
(* The words themselves: the number of a word, its first bit lowest.       *)

Bit(v, k) == (v \div 2 ^ k) % 2
bi_reverse(code, len) == MapThenSumSet(LAMBDA k : Bit(code, k) * 2 ^ (len - 1 - k), 0 .. len - 1)

(* The first word of each length. *)
FirstWords(counts) ==
  LET next_code[b \in 0 .. MAX_BITS] ==
        IF b = 0 THEN 0 ELSE 2 * (next_code[b - 1] + counts[b - 1])
  IN  next_code

WordsOf(len, next_code) ==
  [n \in DOMAIN len |->
     IF len[n] = 0 THEN 0
     ELSE bi_reverse(next_code[len[n]] + Cardinality({m \in 0 .. n - 1 : len[m] = len[n]}), len[n])]

gen_codes(len) == WordsOf(len, FirstWords(bl_count(len, {n \in DOMAIN len : len[n] # 0})))

Coded(len) == [Len |-> len, Code |-> gen_codes(len)]

build_tree(freq, desc) == Coded(gen_bitlen(Combined(Prepared(freq, desc), desc.elems), desc))

max_code(tree) == Max({n \in DOMAIN tree.Len : tree.Len[n] # 0})

static_ltree == Coded([n \in 0 .. L_CODES + 1 |-> static_lengths[n + 1]])
static_dtree ==
  [Len |-> [n \in 0 .. D_CODES - 1 |-> static_dbits],
   Code |-> [n \in 0 .. D_CODES - 1 |-> bi_reverse(n, static_dbits)]]

(* Bits that a block with these frequencies takes: opt_len, static_len. *)
Bits(freq, desc, tree) ==
  MapThenSumSet(LAMBDA n : freq[n] * (tree.Len[n] + xbits(desc, n)), DOMAIN freq)

-----------------------------------------------------------------------------
(* The lengths of a code are sent as runs: lengths, and repeats with their *)
(* counts, <<code, count, bits of the count>>.                             *)

Limits(cur, next) ==
  IF next = 0 THEN <<138, 3>> ELSE IF cur = next THEN <<6, 3>> ELSE <<7, 4>>

Run(cur, prev, count, min_count) ==
  IF count < min_count THEN [k \in 1 .. count |-> <<cur, 0, 0>>]
  ELSE IF cur # 0 THEN IF cur = prev THEN <<<<REP_3_6, count - 3, 2>>>>
                       ELSE <<<<cur, 0, 0>>, <<REP_3_6, count - 4, 2>>>>
  ELSE IF count <= 10 THEN <<<<REPZ_3_10, count - 3, 3>>>>
  ELSE <<<<REPZ_11_138, count - 11, 7>>>>

(* s goes through the lengths; after the last one comes none that is equal.*)
Scanned(s, cur, next) ==
  IF s.count + 1 < s.limits[1] /\ cur = next THEN [s EXCEPT !.count = @ + 1]
  ELSE [runs |-> s.runs \o Run(cur, s.prev, s.count + 1, s.limits[2]),
        count |-> 0, prev |-> cur, limits |-> Limits(cur, next)]

ScanLengths(lengths) ==
  FoldLeft(LAMBDA s, k : Scanned(s, lengths[k], IF k = Len(lengths) THEN -1 ELSE lengths[k + 1]),
           [runs |-> <<>>, count |-> 0, prev |-> -1, limits |-> Limits(-1, lengths[1])],
           [k \in 1 .. Len(lengths) |-> k]).runs

(* The lengths up to the last code that has a word. *)
Sent(tree) == [k \in 1 .. max_code(tree) + 1 |-> tree.Len[k - 1]]
Scan(tree) == ScanLengths(Sent(tree))

scan_tree(runs) ==
  [n \in 0 .. BL_CODES - 1 |-> Cardinality({k \in DOMAIN runs : runs[k][1] = n})]

build_bl_tree(ltree, dtree) == build_tree(scan_tree(Scan(ltree) \o Scan(dtree)), bl_desc)

max_blindex(bl_tree) ==
  Max({3} \cup {k \in 0 .. BL_CODES - 1 : bl_tree.Len[bl_order[k + 1]] # 0})

(* What is sent is a sequence of numbers with their numbers of bits. *)
send_code(n, tree) == <<tree.Code[n], tree.Len[n]>>

send_tree(runs, bl_tree) ==
  FoldLeft(LAMBDA sent, run :
    Append(sent, send_code(run[1], bl_tree)) \o (IF run[3] = 0 THEN <<>> ELSE <<<<run[2], run[3]>>>>),
    <<>>, runs)

SendTrees(ltree, dtree, bl_tree, blcodes) ==
  <<<<max_code(ltree) - END_BLOCK, 5>>, <<max_code(dtree), 5>>, <<blcodes - 4, 4>>>>
  \o [k \in 1 .. blcodes |-> <<bl_tree.Len[bl_order[k]], 3>>]
  \o send_tree(Scan(ltree), bl_tree) \o send_tree(Scan(dtree), bl_tree)

send_all_trees(ltree, dtree, bl_tree) ==
  SendTrees(ltree, dtree, bl_tree, max_blindex(bl_tree) + 1)

-----------------------------------------------------------------------------
(* inflate: tables that are looked up with several bits at a time.  An     *)
(* entry says what its word stands for and how many bits the word takes in *)
(* this table; base is a value, a first value with extra further bits, or  *)
(* the place of another table, counted from the entry itself.              *)

Entry(op, bits, base, extra) == [op |-> op, bits |-> bits, base |-> base, extra |-> extra]

cplens(code) ==
  IF code = LENGTH_CODES - 1 THEN MAX_MATCH ELSE base_length(code) + MIN_MATCH
cpdist(code) == base_dist(code) + 1

(* What a code stands for: kinds of codes are literals and lengths,        *)
(* distances, and lengths of words.                                        *)
Meaning(kind, n, bits) ==
  CASE n = -1 -> Entry("bad", bits, 0, 0)
    [] kind = "lengths" -> Entry("value", bits, n, 0)
    [] kind = "distances" /\ n < D_CODES -> Entry("extra", bits, cpdist(n), extra_dbits[n + 1])
    [] kind = "literals" /\ n < LITERALS -> Entry("value", bits, n, 0)
    [] kind = "literals" /\ n = END_BLOCK -> Entry("end", bits, n, 0)
    [] kind = "literals" /\ n \in LITERALS + 1 .. L_CODES - 1 ->
         Entry("extra", bits, cplens(n - LITERALS - 1), extra_lbits[n - LITERALS])
    [] OTHER -> Entry("bad", bits, 0, 0)

(* Bits of a new table: enough for the words that are left, not more than z.*)
RECURSIVE TableBits(_, _, _, _, _)
TableBits(c, k, j, f, z) ==
  IF j >= z THEN z
  ELSE IF 2 * f <= c[k] THEN j
  ELSE TableBits(c, k + 1, j + 1, 2 * f - c[k], z)

NewTableBits(c, k, left, w, l, g) ==
  IF 2 ^ (k - w) <= left + 1 \/ k - w >= Smaller(g - w, l) THEN k - w
  ELSE TableBits(c, k + 1, k - w + 1, 2 ^ (k - w) - (left + 1), Smaller(g - w, l))

(* t: the tables so far, where i is the word of k bits that comes next, u  *)
(* and x are where the tables on the way to it are and the bits before     *)
(* them, and w is the number of the bits before the last one.  place: the  *)
(* entry that leads to the new one.                                        *)
Joined(hp, place, l, j) == [hp EXCEPT ![place + 1] = Entry("table", l, Len(hp) - place, j)]

NewTable(t, l, j) ==
  [t EXCEPT !.hp = (IF t.u = <<>> THEN @ ELSE Joined(@, Last(t.u) + t.i \div 2 ^ t.w, l, j))
                   \o [e \in 1 .. 2 ^ j |-> Entry("none", 0, 0, 0)],
            !.u = Append(@, Len(t.hp)), !.x = Append(@, t.i), !.w = @ + l, !.size = 2 ^ j]

RECURSIVE Deepened(_, _, _, _, _, _)
Deepened(t, c, k, left, l, g) ==
  IF k <= t.w + l THEN t
  ELSE Deepened(NewTable(t, l, NewTableBits(c, k, left, t.w + l, l, g)), c, k, left, l, g)

(* Every entry that begins with the word. *)
Filled(t, k, entry) ==
  LET at == Last(t.u) + t.i \div 2 ^ t.w
      filled == {e \in at + 1 .. Last(t.u) + t.size : (e - 1 - at) % 2 ^ (k - t.w) = 0}
  IN  [t EXCEPT !.hp = [e \in DOMAIN t.hp |-> IF e \in filled THEN entry ELSE t.hp[e]]]

(* The next word, backwards, and back to the tables on the way to it. *)
RECURSIVE BackedUp(_, _)
BackedUp(t, l) ==
  IF t.i % 2 ^ t.w = Last(t.x) THEN t
  ELSE BackedUp([t EXCEPT !.u = Front(@), !.x = Front(@), !.w = @ - l], l)

Stepped(t, k) ==
  [t EXCEPT !.i = bi_reverse((bi_reverse(t.i, k) + 1) % 2 ^ k, k)]

(* The words in order, <<length, code>>: those of the codes, and -1 for    *)
(* words that stand for none.                                              *)
huft_words(b, surplus, g) ==
  LET OfLength(k) == Codes(Cardinality(DOMAIN b), LAMBDA n : b[n] = k)
      Words(k) == [p \in 1 .. Len(OfLength(k)) |-> <<k, OfLength(k)[p]>>]
  IN  FlattenSeq([k \in 1 .. g |-> Words(k)]) \o [p \in 1 .. surplus |-> <<g, -1>>]

(* How many words of each length are left over. *)
Surplus(c) ==
  LET y[k \in 0 .. MAX_BITS] == IF k = 0 THEN 1 ELSE 2 * y[k - 1] - c[k] IN y

Placed(t, k, entry, l) == BackedUp(Stepped(Filled(t, k, entry), k), l)

BuiltTables(words, c, kind, l, g, hp) ==
  LET Left(p) == Cardinality({o \in p + 1 .. Len(words) : words[o][1] = words[p][1]})
      PlaceWord(t, k, n) == Placed(t, k, Meaning(kind, n, k - t.w), l)
      Word(t, p) == PlaceWord(Deepened(t, c, words[p][1], Left(p), l, g), words[p][1], words[p][2])
  IN  FoldLeft(Word, [hp |-> hp, u |-> <<>>, x |-> <<>>, w |-> -l, i |-> 0, size |-> 0],
               [p \in DOMAIN words |-> p])

(* Words left over are bad ones, so that every bits lead to an entry. *)
Tables(b, c, y, kind, l, g, hp) ==
  [result |-> IF y # 0 /\ g # 1 THEN "Z_BUF_ERROR" ELSE "Z_OK", tree |-> Len(hp), bits |-> l,
   hp |-> BuiltTables(huft_words(b, y, g), [c EXCEPT ![g] = @ + y], kind, l, g, hp).hp]

WithinMany(built) == IF Len(built.hp) > MANY THEN [built EXCEPT !.result = "Z_DATA_ERROR"] ELSE built

Checked(b, c, y, kind, l, g, hp) ==
  IF \E k \in 1 .. g : y[k] < 0
  THEN [result |-> "Z_DATA_ERROR", tree |-> Len(hp), bits |-> l, hp |-> hp]
  ELSE WithinMany(Tables(b, c, y[g], kind, l, g, hp))

CheckedLengths(b, c, used, kind, m, hp) ==
  IF used = {} THEN [result |-> "Z_OK", tree |-> Len(hp), bits |-> 0, hp |-> hp]
  ELSE Checked(b, c, Surplus(c), kind, Smaller(Max({m, Min(used)}), Max(used)), Max(used), hp)

(* b: lengths of words; m: the bits that are wanted of the first table;    *)
(* hp: the tables made before.                                             *)
huft_build(b, kind, m, hp) ==
  CheckedLengths(b, bl_count(b, DOMAIN b), {b[n] : n \in DOMAIN b} \ {0}, kind, m, hp)

=============================================================================
