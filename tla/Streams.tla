------------------------------- MODULE Streams -------------------------------
(***************************************************************************)
(* One direction of a connection: rdr::FdOutStream at one end of a socket, *)
(* rdr::FdInStream at the other.  Both have a buffer, both go round it for *)
(* long strings of bytes, and the socket takes and gives as many bytes as  *)
(* it likes.  The bytes are numbered in the order in which they are        *)
(* written.  A call that has to wait is a call under way, so that the two  *)
(* ends run side by side.                                                  *)
(***************************************************************************)
EXTENDS Integers, SequencesExt

CONSTANTS
  OutSize,   \* bufSize of the writer
  InSize,    \* bufSize of the reader
  PipeSize,  \* bytes that the socket holds
  MinBulk,   \* MIN_BULK_SIZE
  ItemSizes,     \* sizes of items, none above OutSize or InSize
  Lengths,   \* lengths of strings of bytes
  MaxBytes   \* bound on the bytes written

(* What is assumed of the sizes; ItemSizes and Lengths are those of the    *)
(* calls that are made.                                                    *)
SizesAssumption ==
  /\ OutSize \in Nat /\ InSize \in Nat /\ PipeSize \in Nat
  /\ MinBulk \in Nat /\ MaxBytes \in Nat
  /\ ItemSizes \subseteq Nat /\ Lengths \subseteq Nat

VARIABLES
  written,   \* how many bytes the writer's calls have been given
  obuf,      \* from start to ptr
  sentUpTo,  \* how much of obuf the flush under way has written
  writing,   \* the writer's call under way, and its bytes that are not in obuf yet
  pipe,      \* the socket
  shut,      \* the socket has been shut down
  ibuf,      \* from ptr to end
  reading,   \* the reader's call under way and how much it still needs
  got        \* what the reader's calls have returned

writerVars == <<written, obuf, sentUpTo, writing>>
readerVars == <<ibuf, reading, got>>
vars == <<writerVars, pipe, shut, readerVars>>

Nothing == [call |-> "none", todo |-> <<>>]
Idle == [call |-> "none", left |-> 0]

TypeOK ==
  /\ written \in 0 .. MaxBytes
  /\ Len(obuf) <= OutSize /\ sentUpTo \in 0 .. Len(obuf)
  /\ writing.call \in {"none", "item", "bytes", "bulk", "flush", "delete", "failed", "gone"}
  /\ Len(pipe) <= PipeSize
  /\ shut \in BOOLEAN
  /\ Len(ibuf) <= InSize
  /\ reading.call \in {"none", "item", "bytes", "bulk", "failed"} /\ reading.left \in Nat

Init ==
  /\ written = 0 /\ obuf = <<>> /\ sentUpTo = 0 /\ writing = Nothing
  /\ pipe = <<>> /\ shut = FALSE
  /\ ibuf = <<>> /\ reading = Idle /\ got = <<>>

Least(a, b) == IF a < b THEN a ELSE b
Start(s, n) == SubSeq(s, 1, n)
Rest(s, n) == SubSeq(s, n + 1, Len(s))

-----------------------------------------------------------------------------
(* The writer *)

NewBytes(n) == [k \in 1 .. n |-> written + k]

(* A call puts its bytes into the empty or partly filled buffer as far as  *)
(* they fit: an item whole or not at all, and a long string only as far as *)
(* the buffer has room.  What is left waits for the flush.                 *)
Buffered(call, bytes, buf) ==
  LET room == OutSize - Len(buf)
      n == CASE call = "item" -> IF Len(bytes) <= room THEN Len(bytes) ELSE 0
             [] call = "bytes" -> Least(Len(bytes), room)
             [] OTHER -> 0
      left == Rest(bytes, n)
  IN  /\ obuf' = buf \o Start(bytes, n)
      /\ sentUpTo' = 0
      /\ writing' = IF left = <<>> THEN Nothing ELSE [call |-> call, todo |-> left]

Call(call, n) ==
  /\ writing = Nothing
  /\ written + n <= MaxBytes
  /\ written' = written + n
  /\ Buffered(call, NewBytes(n), obuf)
  /\ UNCHANGED <<pipe, shut, readerVars>>

(* writeU8(), writeU16(), writeU32() *)
WriteItem == \E n \in ItemSizes : Call("item", n)

writeBytes == \E n \in Lengths : Call(IF n < MinBulk THEN "bytes" ELSE "bulk", n)

(* flush(), and what the destructor does; of an empty buffer it is nothing. *)
Flush(call) ==
  /\ writing = Nothing
  /\ writing' = [writing EXCEPT !.call = IF obuf = <<>> /\ call = "flush" THEN "none" ELSE call]
  /\ UNCHANGED <<written, obuf, sentUpTo, pipe, shut, readerVars>>

Busy == writing.call \notin {"none", "failed", "gone"}

(* What the call under way writes next: the buffer, as far as it has not   *)
(* been written, then its own bytes.                                       *)
Due == IF obuf # <<>> THEN Rest(obuf, sentUpTo) ELSE writing.todo

(* After the n bytes the call goes on: it writes more, or it has the       *)
(* buffer to itself again.                                                 *)
GoesOn(n) ==
  IF obuf = <<>>
  THEN /\ writing' = IF n = Len(writing.todo) THEN Nothing
                     ELSE [writing EXCEPT !.todo = Rest(@, n)]
       /\ UNCHANGED <<obuf, sentUpTo>>
  ELSE IF n < Len(Due) THEN sentUpTo' = sentUpTo + n /\ UNCHANGED <<obuf, writing>>
  ELSE IF writing.call = "delete"
       THEN obuf' = <<>> /\ sentUpTo' = 0 /\ writing' = [Nothing EXCEPT !.call = "gone"]
  ELSE IF writing.call = "bulk" THEN obuf' = <<>> /\ sentUpTo' = 0 /\ UNCHANGED writing
  ELSE Buffered(writing.call, writing.todo, <<>>)

(* writeWithTimeout(): select() says that the socket takes something, and  *)
(* write() says how much it took.                                          *)
Write ==
  /\ Busy /\ ~shut
  /\ \E n \in 1 .. Least(Len(Due), PipeSize - Len(pipe)) :
       /\ pipe' = pipe \o Start(Due, n)
       /\ GoesOn(n)
  /\ UNCHANGED <<written, shut, readerVars>>

(* Mutant: after a failure the socket stays open. *)
FailureOnlyTold == UNCHANGED shut

(* The exception reaches VNCSConnectionST, which shuts the socket down;    *)
(* one in the destructor goes no further, but there the socket is closed   *)
(* next.  What flush() had written by then is still in the buffer.         *)
Failure == shut' = TRUE

WriteFails ==
  /\ Busy /\ Due # <<>>
  /\ shut \/ Len(pipe) = PipeSize
  /\ writing' = [Nothing EXCEPT !.call = IF writing.call = "delete" THEN "gone" ELSE "failed"]
  /\ sentUpTo' = 0
  /\ IF writing.call = "delete" THEN shut' = TRUE ELSE Failure
  /\ UNCHANGED <<written, obuf, pipe, readerVars>>

(* The destructor flushes once more and swallows exceptions, after a       *)
(* failure as well.                                                        *)
Delete ==
  /\ writing.call \in {"none", "failed"}
  /\ writing' = [Nothing EXCEPT !.call = IF obuf = <<>> THEN "gone" ELSE "delete"]
  /\ UNCHANGED <<written, obuf, sentUpTo, pipe, shut, readerVars>>

-----------------------------------------------------------------------------
(* The reader *)

(* A call takes what it can from the bytes in the buffer: an item when all *)
(* of it is there, a string of bytes as far as they go.                    *)
Taken(call, left, buf) ==
  LET n == IF call = "item" /\ Len(buf) < left THEN 0 ELSE Least(left, Len(buf))
  IN  /\ got' = got \o Start(buf, n)
      /\ ibuf' = Rest(buf, n)
      /\ reading' = IF n = left THEN Idle ELSE [call |-> call, left |-> left - n]

ReadCall(call, n) ==
  /\ reading = Idle
  /\ Taken(call, n, ibuf)
  /\ UNCHANGED <<writerVars, pipe, shut>>

(* readU8(), readU16(), readU32() *)
ReadItem == \E n \in ItemSizes : ReadCall("item", n)

(* readBytes() and skip() *)
readBytes == \E n \in Lengths : ReadCall(IF n < MinBulk THEN "bytes" ELSE "bulk", n)

(* readWithTimeoutOrCallback() for the call under way, past the buffer for *)
(* a long string, or for checkNoWait (1), which never waits.               *)
Read ==
  /\ reading # Idle \/ ibuf = <<>>
  /\ reading.call # "failed"
  /\ pipe # <<>>
  /\ LET most == IF reading.call = "bulk" THEN reading.left ELSE InSize - Len(ibuf)
     IN  \E n \in 1 .. Least(Len(pipe), most) :
           /\ pipe' = Rest(pipe, n)
           /\ IF reading.call = "bulk"
              THEN /\ got' = got \o Start(pipe, n)
                   /\ reading' = IF n = reading.left THEN Idle
                                 ELSE [reading EXCEPT !.left = @ - n]
                   /\ UNCHANGED ibuf
              ELSE IF reading = Idle THEN ibuf' = Start(pipe, n) /\ UNCHANGED <<reading, got>>
              ELSE Taken(reading.call, reading.left, ibuf \o Start(pipe, n))
  /\ UNCHANGED <<writerVars, shut>>

(* TimedOut, or EndOfStream when the socket is shut and read to its end.   *)
ReadFails ==
  /\ reading.call \in {"item", "bytes", "bulk"}
  /\ pipe = <<>>
  /\ reading' = [call |-> "failed", left |-> 0]
  /\ shut' = TRUE
  /\ UNCHANGED <<writerVars, pipe, ibuf, got>>

-----------------------------------------------------------------------------
Next ==
  \/ WriteItem \/ writeBytes \/ Flush("flush") \/ Write \/ WriteFails \/ Delete
  \/ ReadItem \/ readBytes \/ Read \/ ReadFails

Spec == Init /\ [][Next]_vars

(* The writer's thread goes on with its call, and the reader's looks for   *)
(* bytes whenever it has used up what it has.                              *)
Fairness == WF_vars(Write \/ WriteFails) /\ WF_vars(Read) /\ WF_vars(ReadItem)

-----------------------------------------------------------------------------
(* Nothing is lost, doubled or out of order between the calls of the       *)
(* writer and those of the reader: wherever buffers end, however little    *)
(* the socket takes at a time and whichever call goes round the buffer.    *)
(* After a failure the reader has a part from the start.                   *)
InOrder ==
  LET unsent == IF writing.call = "failed" THEN <<>> ELSE Rest(obuf, sentUpTo) \o writing.todo
      upTo(n) == [k \in 1 .. n |-> k]
  IN  /\ IsPrefix(got, upTo(written))
      /\ ~shut => got \o ibuf \o pipe \o unsent = upTo(written)

(* What has been flushed arrives: an answer is not left in a buffer while  *)
(* its reader waits for it.                                                *)
FlushedArrives ==
  \A n \in 1 .. MaxBytes :
    (written >= n /\ obuf = <<>> /\ writing = Nothing) ~> (Len(got) + Len(ibuf) >= n \/ shut)

=============================================================================
