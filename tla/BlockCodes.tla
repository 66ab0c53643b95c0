----------------------------- MODULE BlockCodes -----------------------------
(***************************************************************************)
(* Whatever the frequencies in a block are, the codes deflate makes for it *)
(* are as good as they can be, and inflate makes the same codes of what it *)
(* is told of them.                                                        *)
(***************************************************************************)
EXTENDS HuffmanTrees

CONSTANTS
  Frequencies,  \* how often each code that occurs may occur in a block
  TableWidth    \* bits that inflate looks up at a time

VARIABLE frequency  \* of each of the counted codes

Counted == DOMAIN Frequencies

TypeOK == DOMAIN frequency = Counted /\ \A n \in Counted : frequency[n] \in Frequencies[n]

Init == frequency = [n \in Counted |-> Min(Frequencies[n])]

(* One code occurs another number of times. *)
Tally(n, f) ==
  /\ f > frequency[n]
  /\ frequency' = [frequency EXCEPT ![n] = f]

Next == \E n \in Counted : \E f \in Frequencies[n] : Tally(n, f)

-----------------------------------------------------------------------------
literals == [n \in 0 .. L_CODES - 1 |->
  IF n \in Counted THEN frequency[n] ELSE IF n = END_BLOCK THEN 1 ELSE 0]
distances == [n \in 0 .. D_CODES - 1 |-> IF n \in Counted THEN frequency[n] ELSE 0]

(* The words of a code fill the room there is, none is too long, and none  *)
(* begins with another.                                                    *)
Complete(tree, max_length) ==
  LET words == {n \in DOMAIN tree.Len : tree.Len[n] # 0}
  IN  /\ \A n \in words : tree.Len[n] <= max_length
      /\ MapThenSumSet(LAMBDA n : 2 ^ (max_length - tree.Len[n]), words) = 2 ^ max_length
      /\ \A n, m \in words :
           n # m /\ tree.Len[n] <= tree.Len[m] => tree.Code[m] % 2 ^ tree.Len[n] # tree.Code[n]

(* What the best code costs: the two smallest are put together until one   *)
(* is left.  weights is in order.                                          *)
RECURSIVE BestCost(_)
BestCost(weights) ==
  IF Len(weights) < 2 THEN 0
  ELSE LET sum == weights[1] + weights[2]
       IN  sum + BestCost(SortSeq(Append(SubSeq(weights, 3, Len(weights)), sum), <))

Weights(freq) ==
  LET used == Codes(Cardinality(DOMAIN freq), LAMBDA n : freq[n] # 0)
  IN  SortSeq([k \in DOMAIN used |-> freq[used[k]]], <)

(* Bits of the words alone. *)
Cost(freq, tree) == MapThenSumSet(LAMBDA n : freq[n] * tree.Len[n], DOMAIN freq)

(* A code is the best there is unless the best would have too long words.  *)
BestOf(tree, h, freq, desc) ==
  /\ Complete(tree, desc.max_length)
  /\ Cardinality({n \in DOMAIN freq : freq[n] # 0}) > 1 =>
       IF Overflow(h, Depth(h, desc.max_length), desc.max_length) = 0
       THEN Cost(freq, tree) = BestCost(Weights(freq))
       ELSE Cost(freq, tree) > BestCost(Weights(freq))

Best(tree, freq, desc) == BestOf(tree, Combined(Prepared(freq, desc), desc.elems), freq, desc)

(* What inflate finds when the word w of b bits comes next: the entry, and *)
(* the bits it has used.                                                   *)
RECURSIVE LookUp(_, _, _, _, _)
LookUp(hp, tree, need, word, used) ==
  LET e == hp[tree + (word % 2 ^ need) + 1]
  IN  IF e.op = "table"
      THEN LookUp(hp, tree + (word % 2 ^ need) + e.base, e.extra, word \div 2 ^ e.bits, used + e.bits)
      ELSE [e EXCEPT !.bits = used + @]

(* Every word leads inflate to what it stands for, whatever bits follow.   *)
DecodesBy(built, tree, kind) ==
  /\ built.result = "Z_OK"
  /\ \A n \in {m \in DOMAIN tree.Len : tree.Len[m] # 0} : \A rest \in {0, 1, 5} :
       LookUp(built.hp, built.tree, built.bits, tree.Code[n] + rest * 2 ^ tree.Len[n], 0)
         = Meaning(kind, n, tree.Len[n])

Decodes(tree, kind) == DecodesBy(huft_build(tree.Len, kind, TableWidth, <<>>), tree, kind)

(* The lengths that inflate reads out of the runs. *)
Expanded(runs) ==
  FoldLeft(LAMBDA lens, run :
    LET n == run[1]
        Again(len, times) == lens \o [k \in 1 .. times |-> len]
    IN  IF n = REP_3_6 THEN Again(Last(lens), run[2] + 3)
        ELSE IF n = REPZ_3_10 THEN Again(0, run[2] + 3)
        ELSE IF n = REPZ_11_138 THEN Again(0, run[2] + 11)
        ELSE Append(lens, n), <<>>, runs)

CodeAgrees(tree, freq, desc, kind) == Best(tree, freq, desc) /\ Decodes(tree, kind)
LengthsAgree(tree) == Expanded(Scan(tree)) = Sent(tree)

TreesAgree(ltree, dtree) ==
  /\ CodeAgrees(ltree, literals, l_desc, "literals")
  /\ CodeAgrees(dtree, distances, d_desc, "distances")
  /\ LengthsAgree(ltree) /\ LengthsAgree(dtree)
  /\ CodeAgrees(build_bl_tree(ltree, dtree), scan_tree(Scan(ltree) \o Scan(dtree)), bl_desc, "lengths")

(* The codes of a block are complete, as short as can be, can be sent and  *)
(* read again, and the tables made from them are right.                    *)
CodesAgree == TreesAgree(build_tree(literals, l_desc), build_tree(distances, d_desc))

=============================================================================
