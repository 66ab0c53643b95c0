----------------------------- MODULE StreamsProofs -----------------------------
(***************************************************************************)
(* That no byte is lost, doubled or out of order in Streams, for buffers   *)
(* and a socket of any size and calls of any length.                       *)
(*                                                                         *)
(* Bytes are numbered as they are written, so that a part of the stream is *)
(* a run of consecutive numbers.  IInv says of each place a byte can be in *)
(* where in the stream its run begins: what the reader's calls returned at *)
(* the start, then the reader's buffer, the socket, the writer's buffer    *)
(* from sentUpTo on, and the bytes of the call under way that have not     *)
(* been put into it.  Each action moves a run from one place to the next.  *)
(***************************************************************************)
EXTENDS Streams, SequenceTheorems, TLAPS

Byte == Nat

(* A run of bytes that begins after the first a of the stream. *)
Numbered(q, a) == \A k \in 1 .. Len(q) : q[k] = a + k

Unsent == Rest(obuf, sentUpTo)
Todo == writing.todo

(* How many bytes have been read, or wait for the reader.                  *)
Arrived == Len(got) + Len(ibuf)
Sent == Arrived + Len(pipe)

TypeInv ==
  /\ written \in Nat /\ sentUpTo \in 0 .. Len(obuf) /\ shut \in BOOLEAN
  /\ obuf \in Seq(Byte) /\ pipe \in Seq(Byte) /\ ibuf \in Seq(Byte) /\ got \in Seq(Byte)
  /\ writing \in [call : {"none", "item", "bytes", "bulk", "flush", "delete", "failed", "gone"},
                  todo : Seq(Byte)]
  /\ reading \in [call : {"none", "item", "bytes", "bulk", "failed"}, left : Nat]

(* Only a call that writes has bytes of its own, and only a call has sent  *)
(* a part of the buffer; after a failure the socket is shut; and a long    *)
(* string is read past an empty buffer only.                               *)
CallInv ==
  /\ writing.call \in {"none", "flush", "delete", "failed", "gone"} => Todo = <<>>
  /\ writing.call = "none" => sentUpTo = 0
  /\ writing.call = "failed" => shut
  /\ reading.call = "bulk" => ibuf = <<>>

(* The reader's end, which a failure leaves as it is.                      *)
ArrivedInv ==
  /\ Numbered(got, 0) /\ Numbered(ibuf, Len(got)) /\ Numbered(pipe, Arrived)
  /\ Sent <= written

(* The writer's end, as long as anything can still be sent.                *)
UnsentInv ==
  ~shut =>
    /\ Numbered(Unsent, Sent) /\ Numbered(Todo, Sent + Len(Unsent))
    /\ Sent + Len(Unsent) + Len(Todo) = written

IInv == TypeOK /\ TypeInv /\ CallInv /\ ArrivedInv /\ UnsentInv

-----------------------------------------------------------------------------
(* Parts of sequences                                                      *)

LEMMA StartProperties ==
  ASSUME NEW q \in Seq(Byte), NEW n \in 0 .. Len(q)
  PROVE  /\ Start(q, n) \in Seq(Byte)
         /\ Len(Start(q, n)) = n
         /\ \A k \in 1 .. n : Start(q, n)[k] = q[k]
<1>1. \A k \in 1 .. n : q[k] \in Byte
  OBVIOUS
<1>2. QED
  BY <1>1, SubSeqProperties DEF Start

LEMMA RestProperties ==
  ASSUME NEW q \in Seq(Byte), NEW n \in 0 .. Len(q)
  PROVE  /\ Rest(q, n) \in Seq(Byte)
         /\ Len(Rest(q, n)) = Len(q) - n
         /\ \A k \in 1 .. Len(q) - n : Rest(q, n)[k] = q[n + k]
<1>1. \A k \in n + 1 .. Len(q) : q[k] \in Byte
  OBVIOUS
<1>2. /\ SubSeq(q, n + 1, Len(q)) \in Seq(Byte)
      /\ Len(SubSeq(q, n + 1, Len(q))) = IF n + 1 <= Len(q) THEN Len(q) - (n + 1) + 1 ELSE 0
      /\ \A k \in 1 .. Len(q) - (n + 1) + 1 :
           SubSeq(q, n + 1, Len(q))[k] = q[n + 1 + k - 1]
  BY <1>1, SubSeqProperties, n + 1 \in Int, Len(q) \in Int
<1>3. QED
  BY <1>2 DEF Rest

LEMMA RestOfNothing == ASSUME NEW q \in Seq(Byte) PROVE Rest(q, 0) = q
BY SubSeqFull DEF Rest

LEMMA RestOfRest ==
  ASSUME NEW q \in Seq(Byte), NEW m \in 0 .. Len(q), NEW n \in 0 .. Len(q) - m
  PROVE  Rest(Rest(q, m), n) = Rest(q, m + n)
<1>1. /\ Rest(q, m) \in Seq(Byte) /\ Len(Rest(q, m)) = Len(q) - m
      /\ \A k \in 1 .. Len(q) - m : Rest(q, m)[k] = q[m + k]
  BY RestProperties
<1>2. /\ Rest(Rest(q, m), n) \in Seq(Byte) /\ Len(Rest(Rest(q, m), n)) = Len(q) - m - n
      /\ \A k \in 1 .. Len(q) - m - n : Rest(Rest(q, m), n)[k] = Rest(q, m)[n + k]
  BY <1>1, RestProperties
<1>3. m + n \in 0 .. Len(q)
  OBVIOUS
<1>4. /\ Rest(q, m + n) \in Seq(Byte) /\ Len(Rest(q, m + n)) = Len(q) - (m + n)
      /\ \A k \in 1 .. Len(q) - (m + n) : Rest(q, m + n)[k] = q[m + n + k]
  BY <1>3, RestProperties
<1>5. \A k \in 1 .. Len(q) - m - n : Rest(Rest(q, m), n)[k] = Rest(q, m + n)[k]
  <2>1. TAKE k \in 1 .. Len(q) - m - n
  <2>2. n + k \in 1 .. Len(q) - m /\ k \in 1 .. Len(q) - (m + n)
    OBVIOUS
  <2>3. Rest(Rest(q, m), n)[k] = q[m + (n + k)]
    BY <1>1, <1>2, <2>2
  <2>4. QED
    BY <1>4, <2>2, <2>3
<1>6. QED
  BY <1>2, <1>4, <1>5, SeqEqual

-----------------------------------------------------------------------------
(* Parts of runs                                                           *)

LEMMA NumberedStart ==
  ASSUME NEW q \in Seq(Byte), NEW n \in 0 .. Len(q), NEW a \in Nat, Numbered(q, a)
  PROVE  Numbered(Start(q, n), a)
BY StartProperties DEF Numbered

LEMMA NumberedRest ==
  ASSUME NEW q \in Seq(Byte), NEW n \in 0 .. Len(q), NEW a \in Nat, Numbered(q, a)
  PROVE  Numbered(Rest(q, n), a + n)
<1> SUFFICES ASSUME NEW k \in 1 .. Len(Rest(q, n))
             PROVE  Rest(q, n)[k] = a + n + k
  BY DEF Numbered
<1>1. k \in 1 .. Len(q) - n /\ Rest(q, n)[k] = q[n + k]
  BY RestProperties
<1>2. n + k \in 1 .. Len(q)
  BY <1>1
<1>3. q[n + k] = a + (n + k)
  BY <1>2 DEF Numbered
<1>4. QED
  BY <1>1, <1>3

LEMMA NumberedConcat ==
  ASSUME NEW q \in Seq(Byte), NEW r \in Seq(Byte), NEW a \in Nat,
         Numbered(q, a), Numbered(r, a + Len(q))
  PROVE  Numbered(q \o r, a)
<1> SUFFICES ASSUME NEW k \in 1 .. Len(q \o r)
             PROVE  (q \o r)[k] = a + k
  BY DEF Numbered
<1>1. Len(q \o r) = Len(q) + Len(r)
  OBVIOUS
<1>2. CASE k <= Len(q)
  BY <1>2 DEF Numbered
<1>3. CASE k > Len(q)
  <2>1. k - Len(q) \in 1 .. Len(r) /\ (q \o r)[k] = r[k - Len(q)]
    BY <1>1, <1>3
  <2>2. r[k - Len(q)] = a + Len(q) + (k - Len(q))
    BY <2>1 DEF Numbered
  <2>3. QED
    BY <2>1, <2>2
<1>4. QED
  BY <1>2, <1>3

LEMMA NumberedEmpty == ASSUME NEW a PROVE Numbered(<<>>, a)
BY DEF Numbered

(* A run from the start of the stream is the stream up to there.           *)
LEMMA NumberedIsUpTo ==
  ASSUME NEW q \in Seq(Byte), Numbered(q, 0)
  PROVE  q = [k \in 1 .. Len(q) |-> k]
<1> DEFINE u == [k \in 1 .. Len(q) |-> k]
<1>1. u \in Seq(Byte) /\ Len(u) = Len(q)
  <2>1. u \in [1 .. Len(q) -> Byte] /\ Len(q) \in Nat
    BY DEF Byte
  <2>2. u \in Seq(Byte)
    BY <2>1, SeqDef
  <2>3. QED
    BY <2>1, <2>2, LenProperties
<1>2. \A k \in 1 .. Len(q) : q[k] = u[k]
  BY DEF Numbered
<1>3. QED
  BY <1>1, <1>2, SeqEqual


-----------------------------------------------------------------------------
(* The writer                                                              *)

WriteCalls == {"item", "bytes", "bulk", "flush"}

(* What a call leaves in the buffer and to be written are the bytes that   *)
(* were there and its own, in this order.                                  *)
LEMMA BufferedKeeps ==
  ASSUME SizesAssumption, NEW call \in WriteCalls, NEW bytes \in Seq(Byte),
         NEW buf \in Seq(Byte), Len(buf) <= OutSize,
         call = "flush" => bytes = <<>>, Buffered(call, bytes, buf),
         NEW a \in Nat
  PROVE  /\ obuf' \in Seq(Byte) /\ Len(obuf') <= OutSize /\ sentUpTo' = 0
         /\ Todo' \in Seq(Byte)
         /\ writing' = Nothing \/ writing' = [call |-> call, todo |-> Todo']
         /\ call = "flush" => writing' = Nothing
         /\ Len(obuf') + Len(Todo') = Len(buf) + Len(bytes)
         /\ Numbered(buf, a) /\ Numbered(bytes, a + Len(buf)) =>
              Numbered(obuf', a) /\ Numbered(Todo', a + Len(obuf'))
<1> DEFINE room == OutSize - Len(buf)
           n == CASE call = "item" -> IF Len(bytes) <= room THEN Len(bytes) ELSE 0
                  [] call = "bytes" -> Least(Len(bytes), room)
                  [] OTHER -> 0
<1>1. n \in 0 .. Len(bytes) /\ n <= room
  BY DEF SizesAssumption, Least
<1>2. /\ obuf' = buf \o Start(bytes, n) /\ sentUpTo' = 0
      /\ writing' = IF Rest(bytes, n) = <<>> THEN Nothing
                    ELSE [call |-> call, todo |-> Rest(bytes, n)]
  BY DEF Buffered
<1> HIDE DEF n
<1>3. /\ Start(bytes, n) \in Seq(Byte) /\ Len(Start(bytes, n)) = n
      /\ Rest(bytes, n) \in Seq(Byte) /\ Len(Rest(bytes, n)) = Len(bytes) - n
  BY <1>1, StartProperties, RestProperties
<1>4. Todo' = Rest(bytes, n)
  BY <1>2 DEF Nothing, Todo
<1>5. obuf' \in Seq(Byte) /\ Len(obuf') = Len(buf) + n
  BY <1>2, <1>3, ConcatProperties
<1>6. call = "flush" => writing' = Nothing
  BY <1>2, <1>3, EmptySeq
<1>7. Numbered(buf, a) /\ Numbered(bytes, a + Len(buf)) =>
        Numbered(obuf', a) /\ Numbered(Todo', a + Len(obuf'))
  <2>1. HAVE Numbered(buf, a) /\ Numbered(bytes, a + Len(buf))
  <2>2. a + Len(buf) \in Nat
    OBVIOUS
  <2>3. Numbered(Start(bytes, n), a + Len(buf)) /\ Numbered(Rest(bytes, n), a + Len(buf) + n)
    BY <1>1, <2>1, <2>2, NumberedStart, NumberedRest
  <2>4. Numbered(obuf', a)
    BY <1>2, <1>3, <2>1, <2>3, NumberedConcat
  <2>5. a + Len(obuf') = a + Len(buf) + n
    BY <1>1, <1>5
  <2>6. QED
    BY <1>4, <2>3, <2>4, <2>5
<1>8. Len(obuf') <= OutSize
  BY <1>1, <1>5 DEF SizesAssumption
<1>9. Len(obuf') + Len(Todo') = Len(buf) + Len(bytes)
  <2>1. Len(Todo') = Len(bytes) - n
    BY <1>3, <1>4
  <2>2. Len(buf) \in Nat /\ Len(bytes) \in Nat
    OBVIOUS
  <2>3. QED
    BY <1>1, <1>5, <2>1, <2>2
<1>10. QED
  BY <1>2, <1>3, <1>4, <1>5, <1>6, <1>7, <1>8, <1>9

LEMMA NewBytesNumbered ==
  ASSUME NEW n \in Nat, written \in Nat
  PROVE  NewBytes(n) \in Seq(Byte) /\ Len(NewBytes(n)) = n /\ Numbered(NewBytes(n), written)
<1>1. NewBytes(n) \in [1 .. n -> Byte]
  BY DEF NewBytes, Byte
<1>2. NewBytes(n) \in Seq(Byte)
  BY <1>1, SeqDef
<1>3. Len(NewBytes(n)) = n
  BY <1>1, <1>2, LenProperties
<1>4. QED
  BY <1>2, <1>3 DEF NewBytes, Numbered

(* The reader's side of the invariant is not touched.                      *)
LEMMA ReaderUnchanged ==
  ASSUME IInv, UNCHANGED <<pipe, readerVars>>, written' \in Nat, written' >= written
  PROVE  ArrivedInv' /\ Sent' = Sent
BY DEF IInv, TypeInv, ArrivedInv, Sent, Arrived, Numbered, readerVars

LEMMA CallStep ==
  ASSUME SizesAssumption, IInv, NEW n \in Nat, NEW call \in {"item", "bytes", "bulk"},
         Call(call, n)
  PROVE  IInv'
<1> USE DEF IInv, TypeInv
<1>1. /\ NewBytes(n) \in Seq(Byte) /\ Len(NewBytes(n)) = n
      /\ Numbered(NewBytes(n), written)
  BY NewBytesNumbered
<1>2. /\ writing = Nothing /\ sentUpTo = 0 /\ Unsent = obuf
      /\ Todo = <<>> /\ Sent \in Nat
  BY RestOfNothing DEF Call, CallInv, Nothing, Unsent, Sent, Arrived
<1>3. /\ obuf' \in Seq(Byte) /\ Len(obuf') <= OutSize /\ sentUpTo' = 0
      /\ Todo' \in Seq(Byte)
      /\ writing' = Nothing \/ writing' = [call |-> call, todo |-> Todo']
      /\ Len(obuf') + Len(Todo') = Len(obuf) + n
      /\ Numbered(obuf, Sent) /\ Numbered(NewBytes(n), Sent + Len(obuf)) =>
           Numbered(obuf', Sent) /\ Numbered(Todo', Sent + Len(obuf'))
  BY <1>1, <1>2, BufferedKeeps DEF Call, TypeOK, WriteCalls, Todo
<1>4. /\ written' = written + n /\ written' <= MaxBytes
      /\ UNCHANGED <<pipe, shut, readerVars>>
  BY DEF Call
<1>5. ArrivedInv' /\ Sent' = Sent
  BY <1>4, ReaderUnchanged
<1>6. Unsent' = obuf'
  BY <1>3, RestOfNothing DEF Unsent
<1>7. UnsentInv'
  <2>1. SUFFICES ASSUME ~shut
                 PROVE  /\ Numbered(obuf', Sent) /\ Numbered(Todo', Sent + Len(obuf'))
                        /\ Sent + Len(obuf') + Len(Todo') = written + n
    BY <1>4, <1>5, <1>6 DEF UnsentInv
  <2>2. Numbered(obuf, Sent) /\ Sent + Len(obuf) = written
    BY <1>2, <2>1, EmptySeq DEF UnsentInv
  <2>3. Numbered(NewBytes(n), Sent + Len(obuf))
    BY <1>1, <2>2
  <2>4. Numbered(obuf', Sent) /\ Numbered(Todo', Sent + Len(obuf'))
    BY <1>3, <2>2, <2>3
  <2>5. Len(obuf) \in Nat /\ Len(obuf') \in Nat /\ Len(Todo') \in Nat
    BY <1>3, LenProperties
  <2>6. Sent + Len(obuf') + Len(Todo') = written + n
    <3>1. Len(obuf') + Len(Todo') = Len(obuf) + n
      BY <1>3
    <3>2. Sent \in Nat /\ Sent + Len(obuf) = written
      BY <1>2, <2>2
    <3>3. written \in Nat
      OBVIOUS
    <3> HIDE DEF IInv, TypeInv
    <3>4. QED
      BY <2>5, <3>1, <3>2, <3>3
  <2>7. QED
    BY <2>4, <2>6
<1>8. TypeInv' /\ CallInv'
  <2>1. written' \in Nat /\ sentUpTo' \in 0 .. Len(obuf')
    BY <1>3, <1>4, LenProperties
  <2>2. /\ writing' \in [call : {"none", "item", "bytes", "bulk"}, todo : Seq(Byte)]
        /\ writing'.call = "none" => Todo' = <<>>
    <3>1. CASE writing' = Nothing
      BY <3>1, EmptySeq DEF Nothing, Todo
    <3>2. CASE writing' = [call |-> call, todo |-> Todo']
      <4>1. writing'.call = call
        BY <3>2
      <4>2. QED
        BY <1>3, <3>2, <4>1
    <3>3. QED
      BY <1>3, <3>1, <3>2
  <2>3. TypeInv'
    BY <1>3, <1>4, <2>1, <2>2 DEF readerVars
  <2>4. QED
    BY <1>3, <1>4, <2>2, <2>3 DEF CallInv, readerVars
<1>9. TypeOK'
  BY <1>3, <1>4, <1>8 DEF TypeOK, readerVars, SizesAssumption
<1>10. QED
  BY <1>5, <1>7, <1>8, <1>9

(* Flush and Delete only begin a call.                                     *)
LEMMA BeginStep ==
  ASSUME SizesAssumption, IInv, Flush("flush") \/ Delete PROVE IInv'
<1> USE DEF IInv, TypeInv
<1>1. /\ UNCHANGED <<written, obuf, sentUpTo, pipe, shut, readerVars>>
      /\ Todo = <<>> /\ Todo' = <<>>
      /\ writing' \in [call : {"none", "flush", "delete", "gone"}, todo : Seq(Byte)]
  BY EmptySeq DEF Flush, Delete, CallInv, Nothing, Todo
<1>2. ArrivedInv' /\ Sent' = Sent
  BY <1>1, ReaderUnchanged
<1>3. UnsentInv'
  BY <1>1, <1>2 DEF UnsentInv, Unsent
<1>4. TypeInv' /\ TypeOK'
  BY <1>1 DEF TypeOK, readerVars
<1>5. writing'.call = "none" => sentUpTo' = 0
  BY <1>1 DEF Flush, Delete, CallInv, Nothing
<1>6. CallInv'
  BY <1>1, <1>5 DEF CallInv, readerVars
<1>7. QED
  BY <1>2, <1>3, <1>4, <1>6

LEMMA WriteFailsStep ==
  ASSUME SizesAssumption, IInv, WriteFails PROVE IInv'
<1> USE DEF IInv, TypeInv
<1>1. /\ UNCHANGED <<written, obuf, pipe, readerVars>> /\ shut' = TRUE /\ sentUpTo' = 0
      /\ Todo' = <<>>
      /\ \/ writing' = [call |-> "gone", todo |-> <<>>]
         \/ writing' = [call |-> "failed", todo |-> <<>>]
  BY DEF WriteFails, Failure, Nothing, Todo
<1>2. ArrivedInv' /\ Sent' = Sent
  BY <1>1, ReaderUnchanged
<1>3. UnsentInv'
  BY <1>1 DEF UnsentInv
<1>4. TypeInv' /\ TypeOK'
  <2>1. <<>> \in Seq(Byte)
    BY EmptySeq
  <2>2. writing' \in [call : {"gone", "failed"}, todo : Seq(Byte)]
    <3>1. CASE writing' = [call |-> "gone", todo |-> <<>>]
      BY <2>1, <3>1
    <3>2. CASE writing' = [call |-> "failed", todo |-> <<>>]
      BY <2>1, <3>2
    <3>3. QED
      BY <1>1, <3>1, <3>2
  <2>3. sentUpTo' \in 0 .. Len(obuf')
    BY <1>1, LenProperties
  <2>4. QED
    BY <1>1, <2>2, <2>3 DEF TypeOK, readerVars
<1>5. CallInv'
  BY <1>1 DEF CallInv, readerVars
<1>6. QED
  BY <1>2, <1>3, <1>4, <1>5


(* What is due begins where the socket's bytes end.                        *)
LEMMA DueNumbered ==
  ASSUME IInv, ~shut
  PROVE  /\ Due \in Seq(Byte) /\ Sent \in Nat /\ Numbered(Due, Sent)
         /\ Unsent \in Seq(Byte) /\ Len(Unsent) = Len(obuf) - sentUpTo
         /\ Sent + Len(Due) <= written
         /\ obuf = <<>> => Unsent = <<>> /\ Due = Todo
         /\ obuf # <<>> => Due = Unsent
<1> USE DEF IInv, TypeInv
<1>1. /\ Sent \in Nat
      /\ Unsent \in Seq(Byte) /\ Len(Unsent) = Len(obuf) - sentUpTo
      /\ Todo \in Seq(Byte)
  BY RestProperties DEF Sent, Arrived, Unsent, Todo
<1>2. /\ Numbered(Unsent, Sent) /\ Numbered(Todo, Sent + Len(Unsent))
      /\ Sent + Len(Unsent) + Len(Todo) = written
  BY DEF UnsentInv
<1>3. CASE obuf = <<>>
  <2>1. sentUpTo = 0 /\ Unsent = <<>> /\ Due = Todo
    <3>1. Len(obuf) = 0
      BY <1>3, EmptySeq
    <3>2. sentUpTo = 0
      BY <3>1
    <3>3. QED
      BY <1>3, <3>2, RestOfNothing, EmptySeq DEF Unsent, Due, Todo
  <2>2. Sent + Len(Unsent) = Sent /\ Len(Unsent) = 0
    BY <1>1, <2>1, EmptySeq
  <2>3. Sent + Len(Due) <= written
    BY <1>1, <1>2, <2>1, <2>2
  <2>4. QED
    BY <1>1, <1>2, <1>3, <2>1, <2>2, <2>3
<1>4. CASE obuf # <<>>
  <2>1. Due = Unsent
    BY <1>4 DEF Due, Unsent
  <2>2. Len(Todo) \in Nat /\ Len(Unsent) \in Nat
    BY <1>1, LenProperties
  <2>3. Sent + Len(Due) <= written
    BY <1>1, <1>2, <2>1, <2>2
  <2>4. QED
    BY <1>1, <1>2, <1>4, <2>1, <2>3
<1>5. QED
  BY <1>3, <1>4

(* The n bytes that go to the socket are the first of those that are due.  *)
LEMMA WriteArrived ==
  ASSUME SizesAssumption, IInv, ~shut, NEW n \in 1 .. Least(Len(Due), PipeSize - Len(pipe)),
         pipe' = pipe \o Start(Due, n), UNCHANGED <<written, readerVars>>
  PROVE  /\ ArrivedInv' /\ Sent' = Sent + n /\ pipe' \in Seq(Byte)
         /\ Len(pipe') <= PipeSize
         /\ n \in 1 .. Len(Due)
<1> USE DEF IInv, TypeInv
<1>1. n \in 1 .. Len(Due) /\ Len(pipe) + n <= PipeSize
  BY DueNumbered, LenProperties DEF SizesAssumption, Least
<1>2. /\ Start(Due, n) \in Seq(Byte) /\ Len(Start(Due, n)) = n
      /\ Numbered(Start(Due, n), Sent)
  BY <1>1, DueNumbered, StartProperties, NumberedStart
<1>3. pipe' \in Seq(Byte) /\ Len(pipe') = Len(pipe) + n
  BY <1>2, ConcatProperties
<1>4. Arrived \in Nat /\ Arrived' = Arrived /\ Sent = Arrived + Len(pipe)
  BY DEF Arrived, Sent, readerVars
<1>5. Numbered(pipe', Arrived)
  BY <1>2, <1>4, NumberedConcat DEF ArrivedInv
<1>6. Sent' = Sent + n
  BY <1>3, <1>4 DEF Sent
<1>7. Sent + n <= written
  BY <1>1, DueNumbered, LenProperties
<1>8. ArrivedInv'
  BY <1>4, <1>5, <1>6, <1>7 DEF ArrivedInv, Numbered, readerVars
<1>9. QED
  BY <1>1, <1>3, <1>6, <1>8

(* What is left to be written afterwards.                                  *)
LEMMA GoesOnKeeps ==
  ASSUME SizesAssumption, IInv, Busy, ~shut, NEW n \in 1 .. Len(Due), GoesOn(n)
  PROVE  /\ obuf' \in Seq(Byte) /\ Len(obuf') <= OutSize /\ sentUpTo' \in 0 .. Len(obuf')
         /\ writing' \in [call : {"none", "item", "bytes", "bulk", "flush", "delete", "gone"},
                          todo : Seq(Byte)]
         /\ writing'.call \in {"none", "flush", "delete", "gone"} => Todo' = <<>>
         /\ writing'.call = "none" => sentUpTo' = 0
         /\ Numbered(Unsent', Sent + n) /\ Numbered(Todo', Sent + n + Len(Unsent'))
         /\ Sent + n + Len(Unsent') + Len(Todo') = written
<1> USE DEF IInv, TypeInv
<1>1. /\ Due \in Seq(Byte) /\ Sent \in Nat /\ Numbered(Due, Sent)
      /\ Unsent \in Seq(Byte) /\ Len(Unsent) = Len(obuf) - sentUpTo
      /\ obuf = <<>> => Unsent = <<>> /\ Due = Todo
      /\ obuf # <<>> => Due = Unsent
  BY DueNumbered
<1>2. /\ Numbered(Unsent, Sent) /\ Numbered(Todo, Sent + Len(Unsent))
      /\ Sent + Len(Unsent) + Len(Todo) = written /\ Todo \in Seq(Byte)
  BY DEF UnsentInv, Todo
<1>3. writing = [call |-> writing.call, todo |-> Todo]
      /\ writing.call \in {"item", "bytes", "bulk", "flush", "delete"}
  BY DEF Todo, Busy
<1>4. <<>> \in Seq(Byte) /\ Len(<<>>) = 0 /\ Rest(<<>>, 0) = <<>>
  BY EmptySeq, RestOfNothing
<1>5. /\ written \in Nat /\ Sent \in Nat /\ Len(Unsent) \in Nat /\ Len(Todo) \in Nat
      /\ Sent + Len(Unsent) + Len(Todo) = written
  BY <1>1, <1>2, LenProperties
<1>6. CASE obuf = <<>>
  <2>1. n \in 0 .. Len(Todo) /\ Numbered(Todo, Sent)
    BY <1>1, <1>6
  <2>2. /\ Rest(Todo, n) \in Seq(Byte) /\ Len(Rest(Todo, n)) = Len(Todo) - n
        /\ Numbered(Rest(Todo, n), Sent + n)
    BY <1>1, <1>2, <2>1, RestProperties, NumberedRest
  <2>3. obuf' = obuf /\ sentUpTo' = sentUpTo /\ sentUpTo = 0 /\ Unsent' = <<>>
    BY <1>4, <1>6 DEF GoesOn, Unsent
  <2>4. /\ Todo' = Rest(Todo, n)
        /\ writing' = Nothing \/ writing' = [call |-> writing.call, todo |-> Rest(Todo, n)]
    <3>1. CASE n = Len(Todo)
      <4>1. Rest(Todo, n) = <<>>
        BY <2>2, <3>1, EmptySeq
      <4>2. writing' = Nothing
        BY <1>6, <3>1 DEF GoesOn, Todo
      <4>3. QED
        BY <4>1, <4>2 DEF Nothing, Todo
    <3>2. CASE n # Len(Todo)
      <4>1. writing' = [writing EXCEPT !.todo = Rest(Todo, n)]
        BY <1>6, <3>2 DEF GoesOn, Todo
      <4>2. QED
        BY <1>3, <4>1 DEF Todo
    <3>3. QED
      BY <3>1, <3>2
  <2>5. writing.call \notin {"flush", "delete"}
    BY <1>1, <1>3, <1>4, <1>6, <2>1 DEF CallInv
  <2>6. /\ writing' \in [call : {"none", "item", "bytes", "bulk"}, todo : Seq(Byte)]
        /\ writing'.call = "none" => Todo' = <<>>
    <3>1. CASE writing' = Nothing
      BY <1>4, <3>1 DEF Nothing, Todo
    <3>2. CASE writing' = [call |-> writing.call, todo |-> Rest(Todo, n)]
      <4>1. writing'.call = writing.call /\ writing.call \in {"item", "bytes", "bulk"}
        BY <1>3, <2>5, <3>2
      <4>2. QED
        BY <2>2, <3>2, <4>1
    <3>3. QED
      BY <2>4, <3>1, <3>2
  <2>7. /\ Numbered(Unsent', Sent + n) /\ Numbered(Todo', Sent + n + Len(Unsent'))
        /\ Sent + n + Len(Unsent') + Len(Todo') = written
    <3>1. Sent + n + Len(Unsent') = Sent + n /\ Len(Unsent) = 0 /\ Len(Unsent') = 0
      BY <1>1, <1>4, <1>6, <2>3
    <3>2. Numbered(Unsent', Sent + n) /\ Numbered(Todo', Sent + n + Len(Unsent'))
      BY <2>2, <2>3, <2>4, <3>1, NumberedEmpty
    <3>3. Len(Todo') = Len(Todo) - n
      BY <2>2, <2>4
    <3>4. Sent + n + Len(Unsent') + Len(Todo') = written
      <4> HIDE DEF IInv, TypeInv
      <4>1. QED
        BY <1>5, <3>1, <3>3
    <3>5. QED
      BY <3>2, <3>4
  <2>8. QED
    BY <1>6, <2>3, <2>6, <2>7 DEF TypeOK
<1>7. CASE obuf # <<>> /\ n < Len(Due)
  <2>1. obuf' = obuf /\ writing' = writing /\ Todo' = Todo /\ sentUpTo' = sentUpTo + n
    BY <1>7 DEF GoesOn, Todo
  <2>2. sentUpTo' \in 0 .. Len(obuf')
    BY <1>1, <1>7, <2>1
  <2>3. Unsent' = Rest(Unsent, n)
    BY <1>1, <1>7, <2>1, RestOfRest DEF Unsent
  <2>4. Numbered(Unsent', Sent + n) /\ Len(Unsent') = Len(Unsent) - n
    <3>1. n \in 0 .. Len(Unsent)
      BY <1>1, <1>7
    <3>2. QED
      BY <1>1, <1>2, <2>3, <3>1, RestProperties, NumberedRest
  <2>5. /\ Sent + n + Len(Unsent') = Sent + Len(Unsent)
        /\ Sent + n + Len(Unsent') + Len(Todo') = written
    <3> HIDE DEF IInv, TypeInv
    <3>1. Sent + n + Len(Unsent') = Sent + Len(Unsent)
      BY <1>5, <2>4
    <3>2. QED
      BY <1>5, <2>1, <3>1
  <2>6. writing' = writing /\ writing.call # "none"
    BY <1>3, <2>1
  <2>7. QED
    BY <1>2, <1>3, <2>1, <2>2, <2>4, <2>5, <2>6 DEF TypeOK, CallInv
<1>8. CASE obuf # <<>> /\ n = Len(Due) /\ writing.call \in {"delete", "bulk"}
  <2>1. /\ obuf' = <<>> /\ sentUpTo' = 0
        /\ IF writing.call = "delete" THEN writing' = [call |-> "gone", todo |-> <<>>]
           ELSE writing' = writing
    BY <1>8 DEF GoesOn, Nothing
  <2>2. Unsent' = <<>>
    BY <1>4, <2>1 DEF Unsent
  <2>3. Todo' = Todo
    BY <1>8, <2>1 DEF Todo, CallInv
  <2>4. /\ writing' \in [call : {"bulk", "gone"}, todo : Seq(Byte)]
        /\ writing'.call = "gone" => Todo' = <<>>
    <3>1. CASE writing.call = "delete"
      <4>1. writing' = [call |-> "gone", todo |-> <<>>]
        BY <2>1, <3>1
      <4>2. QED
        BY <1>4, <4>1 DEF Todo
    <3>2. CASE writing.call = "bulk"
      BY <1>2, <1>3, <2>1, <3>2
    <3>3. QED
      BY <1>8, <3>1, <3>2
  <2>5. /\ Sent + n + Len(Unsent') = Sent + Len(Unsent)
        /\ Sent + n + Len(Unsent') + Len(Todo') = written
    <3>1. n = Len(Unsent) /\ Len(Unsent') = 0
      BY <1>1, <1>4, <1>8, <2>2
    <3> HIDE DEF IInv, TypeInv
    <3>2. Sent + n + Len(Unsent') = Sent + Len(Unsent)
      BY <1>5, <3>1
    <3>3. QED
      BY <1>5, <2>3, <3>2
  <2>6. QED
    BY <1>2, <1>4, <2>1, <2>2, <2>3, <2>4, <2>5, NumberedEmpty DEF SizesAssumption
<1>9. CASE obuf # <<>> /\ n = Len(Due) /\ writing.call \in {"item", "bytes", "flush"}
  <2>1. Buffered(writing.call, Todo, <<>>)
    BY <1>9 DEF GoesOn, Todo
  <2>2. Sent + Len(Unsent) \in Nat /\ n = Len(Unsent)
    BY <1>1, <1>9, LenProperties
  <2>3. /\ obuf' \in Seq(Byte) /\ Len(obuf') <= OutSize /\ sentUpTo' = 0
        /\ Todo' \in Seq(Byte)
        /\ writing' = Nothing \/ writing' = [call |-> writing.call, todo |-> Todo']
        /\ writing.call = "flush" => writing' = Nothing
        /\ Len(obuf') + Len(Todo') = 0 + Len(Todo)
        /\ Numbered(<<>>, Sent + Len(Unsent)) /\ Numbered(Todo, Sent + Len(Unsent) + 0) =>
             /\ Numbered(obuf', Sent + Len(Unsent))
             /\ Numbered(Todo', Sent + Len(Unsent) + Len(obuf'))
    <3>1. Len(<<>>) <= OutSize
      BY <1>4 DEF SizesAssumption
    <3>2. writing.call \in WriteCalls /\ (writing.call = "flush" => Todo = <<>>)
      BY <1>9 DEF WriteCalls, CallInv
    <3>3. QED
      BY <1>2, <1>4, <2>1, <2>2, <3>1, <3>2, BufferedKeeps
  <2>4. Numbered(obuf', Sent + n) /\ Numbered(Todo', Sent + n + Len(obuf'))
    <3>1. Sent + Len(Unsent) + 0 = Sent + Len(Unsent)
      BY <2>2
    <3>2. QED
      BY <1>2, <2>2, <2>3, <3>1, NumberedEmpty
  <2>5. Unsent' = obuf' /\ sentUpTo' \in 0 .. Len(obuf')
    BY <2>3, RestOfNothing, LenProperties DEF Unsent
  <2>6. Sent + n + Len(Unsent') + Len(Todo') = written
    <3>1. Len(obuf') + Len(Todo') = 0 + Len(Todo) /\ Len(Unsent') = Len(obuf')
      BY <2>3, <2>5
    <3>2. Len(obuf') \in Nat /\ Len(Todo') \in Nat
      BY <2>3, LenProperties
    <3> HIDE DEF IInv, TypeInv
    <3>3. QED
      BY <1>5, <2>2, <3>1, <3>2
  <2>7. /\ writing' \in [call : {"none", "item", "bytes"}, todo : Seq(Byte)]
        /\ writing'.call = "none" => Todo' = <<>>
    <3>1. CASE writing' = Nothing
      BY <1>4, <3>1 DEF Nothing, Todo
    <3>2. CASE /\ writing' = [call |-> writing.call, todo |-> Todo']
               /\ writing.call \in {"item", "bytes"}
      <4>1. writing'.call = writing.call
        BY <3>2
      <4>2. QED
        BY <2>3, <3>2, <4>1
    <3>3. QED
      BY <1>9, <2>3, <3>1, <3>2
  <2>8. QED
    BY <2>3, <2>4, <2>5, <2>6, <2>7
<1>10. QED
  BY <1>1, <1>3, <1>6, <1>7, <1>8, <1>9


LEMMA WriteStep == ASSUME SizesAssumption, IInv, Write PROVE IInv'
<1> USE DEF IInv, TypeInv
<1>1. PICK n \in 1 .. Least(Len(Due), PipeSize - Len(pipe)) :
        pipe' = pipe \o Start(Due, n) /\ GoesOn(n)
  BY DEF Write
<1>2. Busy /\ ~shut /\ UNCHANGED <<written, shut, readerVars>>
  BY DEF Write
<1>3. /\ ArrivedInv' /\ Sent' = Sent + n /\ pipe' \in Seq(Byte)
      /\ Len(pipe') <= PipeSize
      /\ n \in 1 .. Len(Due)
  BY <1>1, <1>2, WriteArrived
<1>4. /\ obuf' \in Seq(Byte) /\ Len(obuf') <= OutSize /\ sentUpTo' \in 0 .. Len(obuf')
      /\ writing' \in [call : {"none", "item", "bytes", "bulk", "flush", "delete", "gone"},
                       todo : Seq(Byte)]
      /\ writing'.call \in {"none", "flush", "delete", "gone"} => Todo' = <<>>
      /\ writing'.call = "none" => sentUpTo' = 0
      /\ Numbered(Unsent', Sent + n) /\ Numbered(Todo', Sent + n + Len(Unsent'))
      /\ Sent + n + Len(Unsent') + Len(Todo') = written
  BY <1>1, <1>2, <1>3, GoesOnKeeps
<1>5. UnsentInv'
  BY <1>2, <1>3, <1>4 DEF UnsentInv
<1>6. TypeInv'
  BY <1>2, <1>3, <1>4 DEF readerVars
<1>7. CallInv'
  BY <1>2, <1>4 DEF CallInv, readerVars
<1>8. TypeOK'
  BY <1>2, <1>3, <1>4, <1>6 DEF TypeOK, readerVars
<1>9. QED
  BY <1>3, <1>5, <1>6, <1>7, <1>8

-----------------------------------------------------------------------------
(* The reader                                                              *)

(* Bytes that are taken from the buffer are the first of those in it.      *)
LEMMA TakenKeeps ==
  ASSUME TypeInv, NEW call \in {"none", "item", "bytes", "bulk"}, NEW left \in Nat,
         NEW buf \in Seq(Byte), Taken(call, left, buf),
         Numbered(got, 0), Numbered(buf, Len(got))
  PROVE  /\ got' \in Seq(Byte) /\ ibuf' \in Seq(Byte) /\ Len(ibuf') <= Len(buf)
         /\ Numbered(got', 0) /\ Numbered(ibuf', Len(got'))
         /\ Len(got') + Len(ibuf') = Len(got) + Len(buf)
         /\ reading' \in [call : {"none", "item", "bytes", "bulk"}, left : Nat]
         /\ reading'.call = "bulk" => ibuf' = <<>>
<1> DEFINE n == IF call = "item" /\ Len(buf) < left THEN 0 ELSE Least(left, Len(buf))
<1>1. n \in 0 .. Len(buf) /\ left - n \in Nat
  BY DEF Least
<1>2. n # left => call = "item" \/ n = Len(buf)
  BY DEF Least
<1>3. /\ got' = got \o Start(buf, n) /\ ibuf' = Rest(buf, n)
      /\ reading' = IF n = left THEN Idle ELSE [call |-> call, left |-> left - n]
  BY DEF Taken
<1> HIDE DEF n
<1>4. /\ Start(buf, n) \in Seq(Byte) /\ Len(Start(buf, n)) = n
      /\ Numbered(Start(buf, n), Len(got))
  BY <1>1, StartProperties, NumberedStart DEF TypeInv
<1>5. /\ ibuf' \in Seq(Byte) /\ Len(ibuf') = Len(buf) - n
      /\ Numbered(ibuf', Len(got) + n)
  <2>1. Len(got) \in Nat
    BY DEF TypeInv
  <2>2. QED
    BY <1>1, <1>3, <2>1, RestProperties, NumberedRest
<1>6. got' \in Seq(Byte) /\ Len(got') = Len(got) + n
  <2>1. got \in Seq(Byte)
    BY DEF TypeInv
  <2>2. QED
    BY <1>1, <1>3, <1>4, <2>1, ConcatProperties
<1>7. Numbered(got', 0)
  <2>1. Numbered(Start(buf, n), 0 + Len(got))
    BY <1>4 DEF TypeInv
  <2>2. QED
    BY <1>3, <1>4, <2>1, NumberedConcat DEF TypeInv
<1>8. reading' \in [call : {"none", "item", "bytes", "bulk"}, left : Nat]
  BY <1>1, <1>3 DEF Idle
<1>9. reading'.call = "bulk" => ibuf' = <<>>
  <2>1. SUFFICES ASSUME reading'.call = "bulk" PROVE ibuf' = <<>>
    OBVIOUS
  <2>2. n # left /\ call = "bulk"
    BY <1>3, <2>1 DEF Idle
  <2>3. Len(ibuf') = 0
    BY <1>1, <1>2, <1>5, <2>2
  <2>4. QED
    BY <1>5, <2>3, EmptySeq
<1>10. Len(got) \in Nat /\ Len(buf) \in Nat
  BY LenProperties DEF TypeInv
<1>11. QED
  BY <1>1, <1>5, <1>6, <1>7, <1>8, <1>9, <1>10

(* The writer's side of the invariant depends only on how much was sent.   *)
LEMMA WriterUnchanged ==
  ASSUME UnsentInv, UNCHANGED <<writerVars, shut>>, Sent' = Sent
  PROVE  UnsentInv'
BY DEF UnsentInv, Unsent, Todo, writerVars

LEMMA ReadCallStep ==
  ASSUME SizesAssumption, IInv, NEW n \in Nat, NEW call \in {"item", "bytes", "bulk"},
         ReadCall(call, n)
  PROVE  IInv'
<1> USE DEF IInv, TypeInv
<1>1. Taken(call, n, ibuf) /\ UNCHANGED <<writerVars, pipe, shut>>
  BY DEF ReadCall
<1>2. /\ got' \in Seq(Byte) /\ ibuf' \in Seq(Byte) /\ Len(ibuf') <= Len(ibuf)
      /\ Numbered(got', 0) /\ Numbered(ibuf', Len(got'))
      /\ Arrived' = Arrived
      /\ reading' \in [call : {"none", "item", "bytes", "bulk"}, left : Nat]
      /\ reading'.call = "bulk" => ibuf' = <<>>
  BY <1>1, TakenKeeps DEF ArrivedInv, Arrived
<1>3. Sent' = Sent /\ ArrivedInv'
  BY <1>1, <1>2 DEF ArrivedInv, Sent, writerVars, Numbered
<1>4. UnsentInv'
  BY <1>1, <1>3, WriterUnchanged
<1>5. TypeInv' /\ CallInv'
  BY <1>1, <1>2 DEF CallInv, Todo, writerVars
<1>6. TypeOK'
  BY <1>1, <1>2, LenProperties DEF TypeOK, writerVars, SizesAssumption
<1>7. QED
  BY <1>3, <1>4, <1>5, <1>6

LEMMA ReadFailsStep == ASSUME SizesAssumption, IInv, ReadFails PROVE IInv'
<1> USE DEF IInv, TypeInv
<1>1. /\ reading' = [call |-> "failed", left |-> 0] /\ shut' = TRUE
      /\ UNCHANGED <<writerVars, pipe, ibuf, got>>
  BY DEF ReadFails
<1>2. ArrivedInv' /\ UnsentInv'
  BY <1>1 DEF ArrivedInv, UnsentInv, Sent, Arrived, Numbered, writerVars
<1>3. TypeInv' /\ CallInv' /\ TypeOK'
  BY <1>1 DEF CallInv, TypeOK, Todo, writerVars
<1>4. QED
  BY <1>2, <1>3

LEMMA ReadStep == ASSUME SizesAssumption, IInv, Read PROVE IInv'
<1> USE DEF IInv, TypeInv
<1> DEFINE most == IF reading.call = "bulk" THEN reading.left ELSE InSize - Len(ibuf)
<1>1. PICK n \in 1 .. Least(Len(pipe), most) :
        /\ pipe' = Rest(pipe, n)
        /\ IF reading.call = "bulk"
           THEN /\ got' = got \o Start(pipe, n)
                /\ reading' = IF n = reading.left THEN Idle
                              ELSE [reading EXCEPT !.left = @ - n]
                /\ UNCHANGED ibuf
           ELSE IF reading = Idle THEN ibuf' = Start(pipe, n) /\ UNCHANGED <<reading, got>>
           ELSE Taken(reading.call, reading.left, ibuf \o Start(pipe, n))
  BY DEF Read
<1>2. /\ UNCHANGED <<writerVars, shut>> /\ (reading # Idle \/ ibuf = <<>>)
      /\ reading.call # "failed"
  BY DEF Read
<1>3. /\ n \in Nat /\ n \in 0 .. Len(pipe)
      /\ IF reading.call = "bulk" THEN n <= reading.left ELSE n <= InSize - Len(ibuf)
  BY DEF Least, SizesAssumption
<1> HIDE DEF most
<1>4. /\ Start(pipe, n) \in Seq(Byte) /\ Len(Start(pipe, n)) = n
      /\ pipe' \in Seq(Byte) /\ Len(pipe') = Len(pipe) - n
  BY <1>1, <1>3, StartProperties, RestProperties
<1>5. /\ Arrived \in Nat /\ Arrived = Len(got) + Len(ibuf) /\ Sent = Arrived + Len(pipe)
      /\ Len(got) \in Nat /\ Len(ibuf) \in Nat /\ Len(pipe) \in Nat
  BY LenProperties DEF Arrived, Sent
<1>6. Numbered(Start(pipe, n), Arrived) /\ Numbered(pipe', Arrived + n)
  BY <1>1, <1>3, <1>5, NumberedStart, NumberedRest DEF ArrivedInv
(* Whichever way they are read, the n bytes follow those that arrived.     *)
<1>7. /\ got' \in Seq(Byte) /\ ibuf' \in Seq(Byte) /\ Len(ibuf') <= InSize
      /\ Numbered(got', 0) /\ Numbered(ibuf', Len(got'))
      /\ Len(got') + Len(ibuf') = Arrived + n
      /\ reading' \in [call : {"none", "item", "bytes", "bulk"}, left : Nat]
      /\ reading'.call = "bulk" => ibuf' = <<>>
  <2>1. CASE reading.call = "bulk"
    <3>1. /\ got' = got \o Start(pipe, n) /\ ibuf' = <<>> /\ Arrived = Len(got)
          /\ ibuf' = ibuf
      BY <1>1, <1>5, <2>1, EmptySeq DEF CallInv
    <3>2. got' \in Seq(Byte) /\ Len(got') = Len(got) + n
      <4>1. got \in Seq(Byte)
        OBVIOUS
      <4>2. n \in Nat
        BY <1>3
      <4> HIDE DEF IInv, TypeInv
      <4>3. QED
        BY <1>4, <3>1, <4>1, <4>2, ConcatProperties
    <3>3. Numbered(got', 0)
      <4>1. Numbered(Start(pipe, n), 0 + Len(got))
        BY <1>5, <1>6, <3>1
      <4>2. QED
        BY <1>4, <3>1, <4>1, NumberedConcat DEF ArrivedInv
    <3>4. reading' \in [call : {"none", "bulk"}, left : Nat]
      BY <1>1, <1>3, <2>1 DEF Idle
    <3>5. <<>> \in Seq(Byte) /\ Len(<<>>) = 0 /\ Len(<<>>) <= InSize
      BY EmptySeq DEF SizesAssumption
    <3>6. Len(got') + Len(ibuf') = Arrived + n
      <4>1. n \in Nat /\ Len(ibuf') = 0 /\ Len(got') = Len(got) + n
        BY <1>3, <3>1, <3>2, <3>5
      <4> HIDE DEF IInv, TypeInv
      <4>2. QED
        BY <1>5, <3>1, <4>1
    <3>7. QED
      BY <3>1, <3>2, <3>3, <3>4, <3>5, <3>6, NumberedEmpty
  <2>2. CASE reading.call # "bulk" /\ reading = Idle
    <3>1. /\ ibuf' = Start(pipe, n) /\ UNCHANGED <<reading, got>> /\ ibuf = <<>>
          /\ Len(ibuf) = 0
      BY <1>1, <1>2, <2>2, EmptySeq
    <3>2. Numbered(got', 0) /\ Numbered(ibuf', Len(got'))
      BY <1>5, <1>6, <3>1 DEF ArrivedInv, Numbered
    <3>3. Len(ibuf') <= InSize
      BY <1>3, <1>4, <2>2, <3>1 DEF SizesAssumption
    <3>4. Len(got') + Len(ibuf') = Arrived + n
      <4> HIDE DEF IInv, TypeInv
      <4>1. QED
        BY <1>3, <1>4, <1>5, <3>1
    <3>5. reading' \in [call : {"none"}, left : Nat] /\ reading'.call # "bulk"
      BY <2>2, <3>1 DEF Idle
    <3>6. QED
      BY <1>4, <3>1, <3>2, <3>3, <3>4, <3>5
  <2>3. CASE reading.call # "bulk" /\ reading # Idle
    <3> DEFINE buf == ibuf \o Start(pipe, n)
    <3>1. buf \in Seq(Byte) /\ Len(buf) = Len(ibuf) + n
      <4>1. ibuf \in Seq(Byte) /\ n \in Nat
        BY <1>3
      <4> HIDE DEF IInv, TypeInv
      <4>2. QED
        BY <1>4, <4>1, ConcatProperties
    <3>2. Numbered(buf, Len(got))
      <4>1. Numbered(Start(pipe, n), Len(got) + Len(ibuf))
        BY <1>5, <1>6
      <4>2. QED
        BY <1>4, <1>5, <4>1, NumberedConcat DEF ArrivedInv
    <3>3. Taken(reading.call, reading.left, buf)
      BY <1>1, <2>3
    <3> HIDE DEF buf
    <3>4. /\ got' \in Seq(Byte) /\ ibuf' \in Seq(Byte) /\ Len(ibuf') <= Len(buf)
          /\ Numbered(got', 0) /\ Numbered(ibuf', Len(got'))
          /\ Len(got') + Len(ibuf') = Len(got) + Len(buf)
          /\ reading' \in [call : {"none", "item", "bytes", "bulk"}, left : Nat]
          /\ reading'.call = "bulk" => ibuf' = <<>>
      BY <1>2, <3>1, <3>2, <3>3, TakenKeeps DEF ArrivedInv
    <3>5. Len(buf) <= InSize
      BY <1>3, <1>5, <2>3, <3>1 DEF SizesAssumption
    <3>6. Len(ibuf') <= InSize /\ Len(got') + Len(ibuf') = Arrived + n
      BY <1>3, <1>5, <3>1, <3>4, <3>5, LenProperties DEF SizesAssumption
    <3>7. QED
      BY <3>4, <3>6
  <2>4. QED
    BY <2>1, <2>2, <2>3
<1>8. Arrived' = Arrived + n
  BY <1>7 DEF Arrived
<1>9. Sent' = Sent
  BY <1>3, <1>4, <1>5, <1>8 DEF Sent
<1>10. ArrivedInv'
  BY <1>2, <1>6, <1>7, <1>8, <1>9 DEF ArrivedInv, writerVars
<1>11. UnsentInv'
  BY <1>2, <1>9, WriterUnchanged
<1>12. TypeInv' /\ CallInv'
  BY <1>2, <1>4, <1>7 DEF CallInv, Todo, writerVars
<1>13. TypeOK'
  <2>1. Len(pipe') <= PipeSize
    BY <1>3, <1>4, <1>5 DEF TypeOK, SizesAssumption
  <2>2. reading'.call \in {"none", "item", "bytes", "bulk", "failed"} /\ reading'.left \in Nat
    BY <1>7
  <2>3. QED
    BY <1>2, <1>7, <2>1, <2>2 DEF TypeOK, writerVars
<1>14. QED
  BY <1>10, <1>11, <1>12, <1>13


-----------------------------------------------------------------------------
(* The theorems                                                            *)

LEMMA IInvInit == SizesAssumption /\ Init => IInv
<1> SUFFICES ASSUME SizesAssumption, Init PROVE IInv
  OBVIOUS
<1>1. <<>> \in Seq(Byte) /\ Len(<<>>) = 0 /\ Rest(<<>>, 0) = <<>>
  BY EmptySeq, RestOfNothing
<1>2. /\ Unsent = <<>> /\ Todo = <<>> /\ Sent = 0 /\ Arrived = 0 /\ Len(got) = 0
      /\ Len(Unsent) = 0 /\ Len(Todo) = 0
  BY <1>1 DEF Init, Unsent, Todo, Nothing, Sent, Arrived
<1>3. ArrivedInv /\ UnsentInv
  BY <1>1, <1>2, NumberedEmpty DEF ArrivedInv, UnsentInv, Init
<1>4. TypeInv /\ CallInv
  <2>1. Nothing \in [call : {"none"}, todo : Seq(Byte)] /\ Idle \in [call : {"none"}, left : Nat]
    BY <1>1 DEF Nothing, Idle
  <2>2. sentUpTo \in 0 .. Len(obuf) /\ written \in Nat
    BY <1>1 DEF Init
  <2>3. TypeInv
    BY <1>1, <2>1, <2>2 DEF TypeInv, Init
  <2>4. CallInv
    BY <1>2, <2>1 DEF CallInv, Init
  <2>5. QED
    BY <2>3, <2>4
<1>5. TypeOK
  <2>1. Len(<<>>) <= OutSize /\ Len(<<>>) <= PipeSize /\ Len(<<>>) <= InSize
    BY <1>1 DEF SizesAssumption
  <2>2. 0 \in 0 .. MaxBytes /\ 0 \in 0 .. Len(<<>>) /\ 0 \in Nat
    BY <1>1 DEF SizesAssumption
  <2>3. QED
    BY <2>1, <2>2 DEF TypeOK, Init, Nothing, Idle
<1>6. QED
  BY <1>3, <1>4, <1>5 DEF IInv

LEMMA IInvStep == SizesAssumption /\ IInv /\ [Next]_vars => IInv'
<1> SUFFICES ASSUME SizesAssumption, IInv, [Next]_vars PROVE IInv'
  OBVIOUS
<1>1. CASE WriteItem \/ writeBytes
  <2>1. PICK n \in Nat, call \in {"item", "bytes", "bulk"} : Call(call, n)
    BY <1>1 DEF WriteItem, writeBytes, SizesAssumption
  <2>2. QED
    BY <2>1, CallStep
<1>2. CASE Flush("flush") \/ Delete
  BY <1>2, BeginStep
<1>3. CASE Write \/ WriteFails
  BY <1>3, WriteStep, WriteFailsStep
<1>4. CASE ReadItem \/ readBytes
  <2>1. PICK n \in Nat, call \in {"item", "bytes", "bulk"} : ReadCall(call, n)
    BY <1>4 DEF ReadItem, readBytes, SizesAssumption
  <2>2. QED
    BY <2>1, ReadCallStep
<1>5. CASE Read \/ ReadFails
  BY <1>5, ReadStep, ReadFailsStep
<1>6. CASE UNCHANGED vars
  BY <1>6 DEF vars, writerVars, readerVars, IInv, TypeOK, TypeInv, CallInv, ArrivedInv,
              UnsentInv, Unsent, Todo, Sent, Arrived, Numbered
<1>7. QED
  BY <1>1, <1>2, <1>3, <1>4, <1>5, <1>6 DEF Next

LEMMA IInvariant == ASSUME SizesAssumption PROVE Spec => []IInv
BY IInvInit, IInvStep, PTL DEF Spec

LEMMA UpToPrefix ==
  ASSUME NEW n \in Nat, NEW m \in 0 .. n
  PROVE  IsPrefix([k \in 1 .. m |-> k], [k \in 1 .. n |-> k])
<1> DEFINE u == [k \in 1 .. n |-> k]
           v == [k \in 1 .. m |-> k]
<1>1. /\ u \in Seq(Byte) /\ Len(u) = n
      /\ v \in Seq(Byte) /\ Len(v) = m
  <2>1. u \in [1 .. n -> Byte] /\ v \in [1 .. m -> Byte] /\ m \in Nat
    BY DEF Byte
  <2>2. u \in Seq(Byte) /\ v \in Seq(Byte)
    BY <2>1, SeqDef
  <2>3. QED
    BY <2>1, <2>2, LenProperties
<1>2. \A k \in 1 .. m : u[k] = k /\ v[k] = k
  OBVIOUS
<1> HIDE DEF u, v
<1>3. /\ SubSeq(u, 1, m) \in Seq(Byte) /\ Len(SubSeq(u, 1, m)) = m
      /\ \A k \in 1 .. m : SubSeq(u, 1, m)[k] = u[k]
  BY <1>1, StartProperties DEF Start
<1>4. SubSeq(u, 1, m) = v
  BY <1>1, <1>2, <1>3, SeqEqual
<1>5. SubSeq(v, 1, m) = v
  BY <1>1, SubSeqFull
<1>6. QED
  BY <1>1, <1>4, <1>5 DEF IsPrefix, u, v

LEMMA IInvInOrder == IInv => InOrder
<1> SUFFICES ASSUME IInv PROVE InOrder
  OBVIOUS
<1> DEFINE upTo(n) == [k \in 1 .. n |-> k]
<1>1. IsPrefix(got, upTo(written))
  <2>1. got = upTo(Len(got))
    BY NumberedIsUpTo DEF IInv, TypeInv, ArrivedInv
  <2>2. Len(got) \in 0 .. written /\ written \in Nat
    BY LenProperties DEF IInv, TypeInv, ArrivedInv, Sent, Arrived
  <2>3. IsPrefix(upTo(Len(got)), upTo(written))
    BY <2>2, UpToPrefix
  <2>4. QED
    BY <2>1, <2>3
<1>2. ASSUME ~shut
      PROVE  got \o ibuf \o pipe \o (Unsent \o Todo) = upTo(written)
  <2>1. /\ got \in Seq(Byte) /\ ibuf \in Seq(Byte) /\ pipe \in Seq(Byte)
        /\ Unsent \in Seq(Byte) /\ Todo \in Seq(Byte)
    BY RestProperties DEF IInv, TypeInv, Unsent, Todo
  <2>2. /\ Numbered(got, 0) /\ Numbered(ibuf, 0 + Len(got)) /\ Numbered(pipe, Arrived)
        /\ Numbered(Unsent, Sent) /\ Numbered(Todo, Sent + Len(Unsent))
        /\ Sent + Len(Unsent) + Len(Todo) = written
    BY <1>2, <2>1 DEF IInv, ArrivedInv, UnsentInv
  <2> DEFINE a == got \o ibuf
             b == a \o pipe
             c == Unsent \o Todo
  <2>3. a \in Seq(Byte) /\ Len(a) = Arrived /\ Numbered(a, 0)
    BY <2>1, <2>2, ConcatProperties, NumberedConcat DEF Arrived
  <2> HIDE DEF a
  <2>4. b \in Seq(Byte) /\ Len(b) = Sent /\ Numbered(b, 0)
    <3>1. Numbered(pipe, 0 + Len(a)) /\ Arrived + Len(pipe) = Sent
      BY <2>2, <2>3 DEF Sent
    <3>2. QED
      BY <2>1, <2>3, <3>1, ConcatProperties, NumberedConcat
  <2> HIDE DEF b
  <2>5. c \in Seq(Byte) /\ Len(c) = Len(Unsent) + Len(Todo) /\ Numbered(c, Sent)
    <3>1. Sent \in Nat
      BY <2>4, LenProperties
    <3>2. QED
      BY <2>1, <2>2, <3>1, ConcatProperties, NumberedConcat
  <2> HIDE DEF c
  <2>6. b \o c \in Seq(Byte) /\ Len(b \o c) = written /\ Numbered(b \o c, 0)
    <3>1. Numbered(c, 0 + Len(b)) /\ Len(b) + Len(c) = written
      BY <2>1, <2>2, <2>4, <2>5, LenProperties
    <3>2. QED
      BY <2>4, <2>5, <3>1, ConcatProperties, NumberedConcat
  <2>7. b \o c = upTo(Len(b \o c))
    BY <2>6, NumberedIsUpTo
  <2>8. QED
    BY <2>6, <2>7 DEF a, b, c
<1>3. ~shut => writing.call # "failed"
  BY DEF IInv, CallInv
<1>4. QED
  BY <1>1, <1>2, <1>3 DEF InOrder, Unsent, Todo

(* The buffers of both ends and the socket never hold more than their      *)
(* size, and no more bytes are counted than the bound.                     *)
THEOREM TypeCorrect == ASSUME SizesAssumption PROVE Spec => []TypeOK
<1>1. IInv => TypeOK
  BY DEF IInv
<1>2. QED
  BY <1>1, IInvariant, PTL

(* FdOutStream, the socket and FdInStream hand on every byte once and in   *)
(* order, for buffers of any size, calls of any length and however little  *)
(* the socket takes or gives at a time; after a failure the reader has a   *)
(* part from the start.                                                    *)
THEOREM BytesInOrder == ASSUME SizesAssumption PROVE Spec => []InOrder
BY IInvInOrder, IInvariant, PTL

================================================================================
