----------------------------- MODULE ZlibStreams -----------------------------
(***************************************************************************)
(* The compressed bytes of rectangles, from the ZlibOutStream of the server*)
(* to the ZlibInStream of the client: both keep their state from rectangle *)
(* to rectangle.  A rectangle is one row of tiles, after which the encoder *)
(* flushes.  The server writes the next one when the client has read this  *)
(* one or waits for more; how far it is ahead makes no difference to the   *)
(* client, which takes no more than the bytes of a rectangle.              *)
(***************************************************************************)
EXTENDS Deflate, Inflate

CONSTANTS
  Contents,   \* what may be written: sequences of rectangles of bytes
  OutBufSize, \* bytes of the buffer of ZlibOutStream: 16384
  InBufSize,  \* and of that of ZlibInStream: 16384
  ItemSize,   \* bytes that are read at a time
  Rooms,      \* room that the underlying stream may have, call after call
  Portions    \* bytes that it may have received, call after call

VARIABLES
  zos,        \* ZlibOutStream: rectangles left to write, buffer, call under way
  zis         \* ZlibInStream, and what the client has got of the rectangle

zvars == <<z, inf, zos, zis>>

(* sent: rectangles on their way; written: the one the client reads, which *)
(* is empty when it reads none, and bytesIn are the bytes left of it.      *)
Init ==
  /\ z = Deflater /\ inf = Inflater
  /\ \E c \in Contents, rooms \in Rooms :
       zos = [left |-> c, plain |-> <<>>, buf |-> <<>>, calling |-> "", sent |-> <<>>, rooms |-> rooms]
  /\ \E portions \in Portions :
       zis = [bytesIn |-> <<>>, data |-> <<>>, written |-> <<>>, got |-> <<>>, calling |-> "",
              waits |-> FALSE, portions |-> portions]

(* What comes next time, and then everything again. *)
Turned(s) == Append(Tail(s), s[1])

-----------------------------------------------------------------------------
(* ZlibOutStream                                                           *)

Writing ==
  /\ zos.left # <<>> /\ zos.calling = ""
  /\ zos.sent = <<>> /\ (zis.written = <<>> \/ zis.waits)

(* A byte goes into the buffer if there is room. *)
WriteByte ==
  /\ Writing /\ zos.left[1] # <<>> /\ Len(zos.buf) < OutBufSize
  /\ zos' = [zos EXCEPT !.buf = Append(@, zos.left[1][1]), !.left[1] = Tail(@),
                        !.plain = Append(@, zos.left[1][1])]
  /\ UNCHANGED <<z, inf, zis>>

Call(flush, calling) ==
  /\ deflate(zos.buf, flush, zos.rooms[1])
  /\ zos' = [zos EXCEPT !.calling = calling, !.rooms = Turned(@)]
  /\ UNCHANGED <<inf, zis>>
overrun == Writing /\ zos.left[1] # <<>> /\ Len(zos.buf) = OutBufSize /\ Call(Z_NO_FLUSH, "overrun")
flush == Writing /\ zos.left[1] = <<>> /\ zos.buf # <<>> /\ Call(Z_SYNC_FLUSH, "flush")

Compress == Deflating /\ UNCHANGED <<inf, zos, zis>>

Returned == zos.calling # "" /\ z.at = "returned" /\ z.rc = "Z_OK"

(* As long as the room has been too small, or flush() has something left. *)
CallAgain ==
  /\ Returned
  /\ z.avail_out = 0 \/ (zos.calling = "flush" /\ z.next_in # <<>>)
  /\ deflate(z.next_in, z.flush, zos.rooms[1])
  /\ zos' = [zos EXCEPT !.rooms = Turned(@)]
  /\ UNCHANGED <<inf, zis>>

(* What deflate() has not taken stays in the buffer. *)
OverrunDone ==
  /\ Returned /\ zos.calling = "overrun" /\ z.avail_out # 0
  /\ zos' = [zos EXCEPT !.calling = "", !.buf = z.next_in]
  /\ UNCHANGED <<z, inf, zis>>

(* The rectangle is sent, with its length. *)
FlushDone ==
  /\ Returned /\ zos.calling = "flush" /\ z.avail_out # 0 /\ z.next_in = <<>>
  /\ zos' = [zos EXCEPT !.calling = "", !.buf = <<>>, !.left = Tail(@), !.plain = <<>>,
                        !.sent = Append(@, [bytes |-> z.next_out, plain |-> zos.plain])]
  /\ z' = [z EXCEPT !.next_out = <<>>]
  /\ UNCHANGED <<inf, zis>>

-----------------------------------------------------------------------------
(* ZlibInStream                                                            *)

Between == zis.calling = ""
Item == Smaller(ItemSize, Len(zis.written) - Len(zis.got))

setUnderlying ==
  /\ Between /\ zis.written = <<>> /\ zos.sent # <<>>
  /\ zis' = [zis EXCEPT !.written = zos.sent[1].plain, !.bytesIn = zos.sent[1].bytes,
                        !.data = <<>>, !.got = <<>>]
  /\ zos' = [zos EXCEPT !.sent = Tail(@)]
  /\ UNCHANGED <<z, inf>>

ReadItem ==
  /\ Between /\ Item > 0 /\ Len(zis.data) >= Item
  /\ zis' = [zis EXCEPT !.got = @ \o SubSeq(zis.data, 1, Item),
                        !.data = SubSeq(@, Item + 1, Len(@))]
  /\ UNCHANGED <<z, inf, zos>>

(* decompress() waits for a byte, whether it is one of the rectangle or not*)
(* but takes none that is not.                                             *)
decompress(data, calling) ==
  /\ zis.bytesIn # <<>> \/ zos.sent # <<>>
  /\ \E n \in {Smaller(zis.portions[1], Len(zis.bytesIn))} :
       /\ inflate(SubSeq(zis.bytesIn, 1, n), InBufSize - Len(data))
       /\ zis' = [zis EXCEPT !.bytesIn = SubSeq(@, n + 1, Len(@)), !.data = data,
                             !.calling = calling, !.waits = FALSE, !.portions = Turned(@)]
  /\ UNCHANGED <<z, zos>>

Overrun == Between /\ Len(zis.data) < Item /\ decompress(zis.data, "overrun")

Wait ==
  /\ Between /\ Len(zis.data) < Item /\ zis.bytesIn = <<>> /\ zos.sent = <<>> /\ ~zis.waits
  /\ zis' = [zis EXCEPT !.waits = TRUE]
  /\ UNCHANGED <<z, inf, zos>>

(* The rest of a rectangle that has been read is taken and thrown away. *)
reset == Between /\ Item = 0 /\ zis.bytesIn # <<>> /\ decompress(<<>>, "reset")

Decompress == Inflating /\ UNCHANGED <<z, zos, zis>>

(* What is not taken stays underlying; what comes out is there to be read. *)
Decompressed ==
  /\ zis.calling # "" /\ inf.at = "returned" /\ inf.rc = "Z_OK"
  /\ zis' = [zis EXCEPT !.bytesIn = inf.next_in \o @, !.calling = "",
                        !.data = IF zis.calling = "reset" THEN <<>> ELSE @ \o inf.next_out]
  /\ inf' = [inf EXCEPT !.next_out = <<>>, !.next_in = <<>>]
  /\ UNCHANGED <<z, zos>>

RectangleRead ==
  /\ Between /\ zis.written # <<>> /\ Item = 0 /\ zis.bytesIn = <<>>
  /\ zis' = [zis EXCEPT !.written = <<>>, !.got = <<>>, !.data = <<>>]
  /\ UNCHANGED <<z, inf, zos>>

Next ==
  \/ WriteByte \/ overrun \/ flush \/ Compress \/ CallAgain \/ OverrunDone \/ FlushDone
  \/ setUnderlying \/ ReadItem \/ Overrun \/ Wait \/ reset \/ Decompress \/ Decompressed \/ RectangleRead

Spec == Init /\ [][Next]_zvars

-----------------------------------------------------------------------------
(* What inflate() has still in its window. *)
InWindow == [k \in 1 .. (inf.write + wsize - inf.read) % wsize |-> inf.window[(inf.read + k - 1) % wsize]]

(* zlib never refuses to go on, what is read is what was written, and the  *)
(* bytes of a rectangle that was flushed hold all of it: whatever the room *)
(* and the pieces are, nothing is left in deflate(), and when the bytes are*)
(* used up, what has not been read is at the client.                       *)
FlushedIsReadable ==
  /\ z.rc = "Z_OK"
  /\ inf.at = "returned" => inf.rc = "Z_OK"
  /\ IsPrefix(zis.got \o zis.data \o inf.next_out, zis.written)
  /\ zis.written # <<>> /\ Between /\ zis.bytesIn = <<>> =>
       zis.got \o zis.data \o InWindow = zis.written

(* The client never waits for more bytes than those of the rectangle.      *)
NeverWaitsBeyond == ~zis.waits

=============================================================================
