----------------------------- MODULE ZlibSizes -----------------------------
(***************************************************************************)
(* A small zlib for TLC: bytes of four bits, words of at most five, two    *)
(* sizes of lengths and windows of 64 bytes, which are to one another about*)
(* what they are in zlib; and rectangles that take it through everything.  *)
(***************************************************************************)
EXTENDS Integers, Sequences

SmallLBits == <<0, 1, 0>>
SmallDBits == <<0, 0, 0, 0, 1, 1, 2, 2, 3, 3, 4, 4>>
SmallOrder == <<6, 7, 8, 0, 3, 4, 2, 5, 1>>
SmallLengths == <<4, 4, 4, 4, 4, 4, 5, 5, 5, 5, 5, 5, 5, 5, 5, 5, 4, 4, 4, 4, 5, 5>>

(* Codes that are rare and codes that are frequent, some of them so much   *)
(* that the words of the others would be too long.                         *)
SmallFrequencies ==
  [n \in {0, 1, 2, 3, 4, 7, 18} |->
     CASE n \in {0, 2} -> {0, 1}
       [] n = 1 -> {0, 1, 2}
       [] n = 3 -> {0, 3}
       [] n = 4 -> {1, 5}
       [] n = 7 -> {0, 8}
       [] n = 18 -> {0, 1, 13}]

(* ThreeBytes bytes in no order, which have words of their own, others that are *)
(* best left as they are, bytes again and again, and bytes that are almost *)
(* those of before.                                                        *)
ThreeBytes == <<2, 1, 0, 1, 1, 0, 0, 2, 2, 1, 1, 2, 2, 2, 0, 2, 0, 1, 0, 1, 2, 2, 0, 0, 0, 2, 1, 2, 0, 2, 2, 0>>
Noise == <<9, 11, 14, 8, 15, 15, 11, 9, 11, 8, 6, 7, 12, 7, 8, 10, 7, 10, 15, 11, 14, 10, 9, 14>>
Again(b, n) == [k \in 1 .. n |-> b]
Almost ==
  [k \in 1 .. 60 |-> IF k % 5 = 3 THEN 10 + ((k \div 14) % 2) ELSE IF k % 3 = 1 THEN 4 ELSE 9]

SmallContents ==
  {<<<<1, 2, 3, 4, 1, 2, 3, 5>>, Again(3, 30) \o ThreeBytes \o Again(4, 60) \o ThreeBytes, <<5, 4, 9, 1, 6>>>>,
   <<ThreeBytes \o Noise, Noise>>,
   <<Again(7, 40) \o Noise \o Again(2, 7) \o <<4>> \o Again(2, 9), ThreeBytes>>,
   <<Almost, <<9, 9, 9, 11, 9>>>>}

SmallRooms == {<<1, 100>>, <<100>>, <<5, 2, 9>>}
SmallPortions == {<<100>>, <<1>>, <<7, 14>>}
=============================================================================
