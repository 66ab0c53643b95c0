-------------------------------- MODULE DES --------------------------------
(***************************************************************************)
(* The cipher that passwords are kept and proved with: rfb/d3des.c.  An    *)
(* unsigned long is the set of its bits that are 1, so that ^ is the       *)
(* symmetric difference, & an intersection and a shift a map.  It has 32   *)
(* bits, or 64 on Haiku, where what is shifted out of the lower half stays *)
(* in the upper one.  A byte is a set of bits too.                         *)
(***************************************************************************)
EXTENDS Integers, Sequences

CONSTANT LongBits  \* of an unsigned long: 32 or 64

Xor(a, b) == (a \ b) \cup (b \ a)
Left(w, n) == {b + n : b \in w} \cap (0 .. LongBits - 1)
Right(w, n) == {b - n : b \in w} \cap (0 .. LongBits - 1)

Lower == 0 .. 31

-----------------------------------------------------------------------------
pc1 ==
  <<56, 48, 40, 32, 24, 16, 8, 0, 57, 49, 41, 33, 25, 17, 9, 1, 58, 50, 42, 34, 26, 18, 10, 2, 59, 51, 43, 35,
    62, 54, 46, 38, 30, 22, 14, 6, 61, 53, 45, 37, 29, 21, 13, 5, 60, 52, 44, 36, 28, 20, 12, 4, 27, 19, 11, 3>>

totrot == <<1, 2, 4, 6, 8, 10, 12, 14, 15, 17, 19, 21, 23, 25, 27, 28>>

pc2 ==
  <<13, 16, 10, 23, 0, 4, 2, 27, 14, 5, 20, 9, 22, 18, 11, 3, 25, 7, 15, 6, 26, 19, 12, 1,
    40, 51, 30, 36, 46, 54, 29, 39, 50, 44, 32, 47, 43, 48, 38, 55, 33, 52, 45, 41, 49, 35, 28, 31>>

(* The places j of pcr[] in round i whose bit of the key is 1, the halves  *)
(* of 28 bits each rotated.  Bit 7 of a byte is in none of them.           *)
Rotated(key, i) ==
  {j \in 0 .. 55 : LET half == 28 * (j \div 28)
                       l == pc1[half + ((j - half + totrot[i + 1]) % 28) + 1]
                   IN  l % 8 \in key[l \div 8 + 1]}

(* cookey(): the 48 bits of a round as the words that desfunc() wants,     *)
(* with 6 bits for each of the boxes 1, 3, 5, 7 and 2, 4, 6, 8.            *)
cookey(raw0, raw1) ==
  <<Left(raw0 \cap (18 .. 23), 6) \cup Left(raw0 \cap (6 .. 11), 10)
      \cup Right(raw1 \cap (18 .. 23), 10) \cup Right(raw1 \cap (6 .. 11), 6),
    Left(raw0 \cap (12 .. 17), 12) \cup Left(raw0 \cap (0 .. 5), 16)
      \cup Right(raw1 \cap (12 .. 17), 4) \cup (raw1 \cap (0 .. 5))>>

(* Mutant: the keys for decryption in the order of those for encryption. *)
SameOrder(key, edf) ==
  [m \in 0 .. 15 |->
     LET pcr == Rotated(key, m)
     IN  cookey({23 - j : j \in {k \in 0 .. 23 : pc2[k + 1] \in pcr}},
                {23 - j : j \in {k \in 0 .. 23 : pc2[k + 25] \in pcr}})]

(* What deskey() leaves in KnL: a pair of words for each round, in the     *)
(* opposite order for DE1.  A key is a sequence of 8 bytes.                *)
deskey(key, edf) ==
  [m \in 0 .. 15 |->
     LET pcr == Rotated(key, IF edf = "DE1" THEN 15 - m ELSE m)
     IN  cookey({23 - j : j \in {k \in 0 .. 23 : pc2[k + 1] \in pcr}},
                {23 - j : j \in {k \in 0 .. 23 : pc2[k + 25] \in pcr}})]

-----------------------------------------------------------------------------
(* SP1 to SP8 have four bits in every entry, at the places that wire says: *)
(* the entries of box are those bits read as a number.                     *)
box ==
  <<<<14, 0, 4, 15, 13, 7, 1, 4, 2, 14, 15, 2, 11, 13, 8, 1, 3, 10, 10, 6, 6, 12, 12, 11, 5, 9, 9, 5, 0, 3, 7, 8,
      4, 15, 1, 12, 14, 8, 8, 2, 13, 4, 6, 9, 2, 1, 11, 7, 15, 5, 12, 11, 9, 3, 7, 14, 3, 10, 10, 0, 5, 6, 0, 13>>,
    <<15, 10, 2, 7, 4, 1, 13, 11, 9, 15, 14, 8, 10, 4, 1, 13, 6, 5, 11, 0, 8, 2, 7, 12, 5, 9, 0, 6, 3, 14, 12, 3,
      0, 7, 13, 4, 11, 12, 14, 2, 12, 10, 1, 15, 7, 1, 2, 8, 3, 14, 4, 9, 5, 11, 9, 5, 6, 0, 10, 3, 8, 13, 15, 6>>,
    <<3, 14, 0, 13, 10, 0, 7, 10, 5, 9, 9, 4, 15, 5, 12, 3, 8, 1, 14, 2, 6, 12, 13, 7, 11, 6, 4, 11, 1, 15, 2, 8,
      14, 8, 5, 3, 4, 14, 10, 0, 2, 5, 15, 10, 9, 2, 0, 13, 11, 4, 8, 15, 1, 7, 6, 9, 12, 11, 3, 12, 7, 1, 13, 6>>,
    <<13, 7, 7, 2, 14, 11, 9, 5, 0, 12, 12, 15, 3, 0, 10, 9, 1, 4, 8, 13, 2, 8, 5, 6, 11, 1, 6, 10, 4, 14, 15, 3,
      10, 9, 12, 15, 3, 0, 0, 12, 6, 10, 11, 1, 13, 7, 7, 2, 15, 3, 1, 4, 9, 5, 14, 11, 5, 6, 8, 13, 2, 8, 4, 14>>,
    <<1, 7, 6, 13, 2, 1, 8, 6, 11, 2, 5, 11, 13, 14, 3, 8, 4, 10, 10, 0, 9, 15, 15, 5, 14, 9, 0, 12, 7, 4, 12, 3,
      2, 13, 1, 4, 8, 6, 13, 11, 5, 8, 14, 7, 11, 1, 4, 14, 15, 3, 12, 15, 6, 0, 10, 12, 3, 5, 9, 2, 0, 10, 7, 9>>,
    <<9, 12, 2, 15, 12, 1, 15, 4, 10, 7, 4, 9, 5, 10, 8, 3, 0, 5, 11, 2, 6, 11, 1, 13, 13, 0, 7, 14, 3, 6, 14, 8,
      10, 1, 13, 6, 15, 4, 3, 9, 4, 10, 8, 3, 9, 15, 6, 12, 7, 14, 0, 13, 1, 2, 12, 7, 2, 5, 11, 0, 14, 8, 5, 11>>,
    <<4, 13, 11, 0, 2, 11, 7, 14, 15, 4, 0, 9, 1, 8, 13, 3, 10, 7, 5, 10, 9, 12, 14, 5, 12, 2, 3, 15, 6, 1, 8, 6,
      8, 6, 4, 11, 11, 13, 13, 1, 5, 8, 10, 4, 14, 3, 7, 14, 3, 9, 15, 12, 6, 0, 1, 15, 0, 7, 12, 2, 9, 10, 2, 5>>,
    <<11, 2, 4, 15, 8, 11, 1, 8, 5, 12, 15, 6, 14, 7, 2, 1, 12, 9, 10, 3, 6, 5, 13, 14, 3, 0, 0, 13, 9, 10, 7, 4,
      7, 4, 14, 2, 1, 13, 2, 7, 10, 1, 9, 12, 13, 8, 4, 11, 0, 15, 5, 9, 12, 10, 11, 0, 15, 6, 6, 3, 3, 5, 8, 14>>>>

wire ==
  <<<<24, 16, 10, 2>>, <<31, 20, 15, 5>>, <<27, 17, 9, 3>>, <<23, 13, 7, 0>>,
    <<30, 25, 19, 8>>, <<29, 22, 14, 4>>, <<26, 21, 11, 1>>, <<28, 18, 12, 6>>>>

(* The entry of SPk[] that the six bits of w from bit `at` on say. *)
SP(k, w, at) ==
  LET bit(b) == IF at + b \in w THEN 2 ^ b ELSE 0
      entry == box[k][bit(0) + bit(1) + bit(2) + bit(3) + bit(4) + bit(5) + 1]
  IN  {wire[k][i] : i \in {j \in 1 .. 4 : (entry \div 2 ^ (4 - j)) % 2 = 1}}

(* fval of one half and the keys of a round *)
fval(half, keys) ==
  LET odd == Xor(Left(half, 28) \cup Right(half, 4), keys[1])
      even == Xor(half, keys[2])
  IN  SP(7, odd, 0) \cup SP(5, odd, 8) \cup SP(3, odd, 16) \cup SP(1, odd, 24)
        \cup SP(8, even, 0) \cup SP(6, even, 8) \cup SP(4, even, 16) \cup SP(2, even, 24)

(* work = ((p[1] >> n) ^ p[2]) & mask; p[2] ^= work; p[1] ^= work << n *)
Exchange(p, n, mask) ==
  LET work == Xor(Right(p[1], n), p[2]) \cap mask
  IN  <<Xor(p[1], Left(work, n)), Xor(p[2], work)>>

(* The first m of every n bits. *)
Every(n, m) == {b \in Lower : b % n < m}
OddBits == {b \in Lower : b % 2 = 1}

(* The other one first *)
Turn(p) == <<p[2], p[1]>>

(* The first one rotated by a bit, to the left or to the right. *)
Up(p) == <<(Left(p[1], 1) \cup (Right(p[1], 31) \cap {0})) \cap Lower, p[2]>>
Down(p) == <<Left(p[1], 31) \cup Right(p[1], 1), p[2]>>

(* Before the rounds and after them: the permutations of the standard, by  *)
(* exchanges of bits between the words.                                    *)
Initial(p) ==
  Up(Turn(Exchange(Up(Exchange(Exchange(Turn(Exchange(Exchange(p,
    4, Every(8, 4)), 16, 0 .. 15)), 2, Every(4, 2)), 8, Every(16, 8))), 0, OddBits)))

Final(p) ==
  Exchange(Exchange(Turn(Exchange(Exchange(Down(Turn(Exchange(Down(Turn(p)),
    0, OddBits))), 8, Every(16, 8)), 2, Every(4, 2))), 16, 0 .. 15), 4, Every(8, 4))

Round(p, keys) == <<p[2], Xor(p[1], fval(p[2], keys))>>

(* block is leftt and right. *)
desfunc(block, KnL) ==
  LET half[n \in 0 .. 16] == IF n = 0 THEN Initial(block) ELSE Round(half[n - 1], KnL[n - 1])
  IN  Final(half[16])

(* Four bytes as a word, the first one on top, and back. *)
scrunch(outof, from) == UNION {{b + 8 * (3 - i) : b \in outof[from + i]} : i \in 0 .. 3}

unscrun(w) == [i \in 1 .. 4 |-> Right(w, 8 * (4 - i)) \cap (0 .. 7)]

Bytes(words) == unscrun(words[1]) \o unscrun(words[2])

(* Eight bytes under the keys of KnL. *)
des(inblock, KnL) == Bytes(desfunc(<<scrunch(inblock, 1), scrunch(inblock, 5)>>, KnL))

=============================================================================
