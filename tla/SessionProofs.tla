---------------------------- MODULE SessionProofs ----------------------------
(***************************************************************************)
(* Theorems about Session, for screens of any number of rows, sockets of   *)
(* any size and any timeouts.                                              *)
(*                                                                         *)
(* What the client meets next depends on what it said long before: the     *)
(* invariant follows a request from the client through the socket and the  *)
(* server, and the update that answers it back, and says what else may be  *)
(* under way in the meantime.                                              *)
(***************************************************************************)
EXTENDS Session, Recursion, SequenceTheorems, FiniteSetTheorems, TLAPS

-----------------------------------------------------------------------------
(* The inductive invariant.  sv and cl are the two ends, down is what is   *)
(* under way to the client, up what is under way to the server.            *)

Down == toClient \o sOut

(* The server may have taken the type of the first message already. *)
Up == (IF s.reading = "none" THEN <<>> ELSE <<Item(s.reading)>>) \o toServer \o cOut

Open == s.state = "NORMAL"

Plain(m) == m.kind \in {"setColourMapEntries", "bell"}

(* A part of an update as the client can take it: a new size comes last. *)
PartFor(cl, m) ==
  /\ m.kind \in {"rect", "cursor", "size"}
  /\ m.kind \in {"rect", "cursor"} => m.pf = cl.pf
  /\ m.kind = "rect" => m.row <= cl.height
  /\ m.kind = "cursor" => "cursor" \in cl.told
  /\ m.kind = "size" => "desktopSize" \in cl.told

Early(cl, m) == PartFor(cl, m) /\ m.kind # "size"

(* The k-th message, when the update ends with the e-th. *)
PartAt(cl, m, k, e) == PartFor(cl, m) /\ (m.kind = "size" => k = e)

(* There is nothing else in down than n parts of an update after place b,  *)
(* which may be its header's, and messages of their own.  All parts are    *)
(* there while the connection is open.                                     *)
UpdateParts(cl, open, down, b, n) ==
  /\ \A k \in DOMAIN down :
       IF k \in b + 1 .. b + n THEN PartAt(cl, down[k], k, b + n) ELSE k = b \/ Plain(down[k])
  /\ open => b + n <= Len(down)

(* No update is coming. *)
Quiet(cl, down) == cl.nUpdateRectsLeft = 0 /\ \A k \in DOMAIN down : Plain(down[k])

(* One is. *)
HeaderAt(cl, open, down, b) ==
  /\ b \in DOMAIN down /\ down[b].kind = "update" /\ down[b].nRects > 0
  /\ UpdateParts(cl, open, down, b, down[b].nRects)

Showing(cl, open, down) ==
  \/ cl.nUpdateRectsLeft > 0 /\ UpdateParts(cl, open, down, 0, cl.nUpdateRectsLeft)
  \/ cl.nUpdateRectsLeft = 0 /\ \E b \in DOMAIN down : HeaderAt(cl, open, down, b)

(* Messages to the server are whole: a type, and a rest that fits. *)
Fits(cl, kind, rest) ==
  /\ kind = "FramebufferUpdateRequest" =>
       rest \in [kind : {"rest"}, rows : Row, incremental : BOOLEAN]
  /\ kind = "SetPixelFormat" => rest \in [kind : {"rest"}, pf : Formats]
  /\ kind = "SetEncodings" =>
       rest \in [kind : {"rest"}, list : Seq(Encodings)] /\ ToSet(rest.list) \subseteq cl.told

Whole(cl, up) ==
  /\ Len(up) % 2 = 0
  /\ \A j \in DOMAIN up :
       IF j % 2 = 0 THEN up[j].kind = "rest" ELSE up[j].kind \in Kinds /\ Fits(cl, up[j].kind, up[j + 1])

NoRequest(up) == \A j \in DOMAIN up : up[j].kind # "FramebufferUpdateRequest"
NoFormat(up) == \A j \in DOMAIN up : up[j].kind # "SetPixelFormat"

(* There is one request, for the rows that the client knows of, and no     *)
(* other format will be asked for after it.                                *)
RequestAt(cl, up, r) ==
  /\ r \in DOMAIN up /\ up[r].kind = "FramebufferUpdateRequest"
  /\ up[r + 1].rows = cl.height
  /\ \A j \in DOMAIN up : /\ up[j].kind = "FramebufferUpdateRequest" => j = r
                          /\ up[j].kind = "SetPixelFormat" => j < r

(* A client that waits has a request under way, or the server has it, or   *)
(* it has been answered.                                                   *)
Asking(sv, cl, up, down) ==
  \/ ~cl.waiting /\ Quiet(cl, down) /\ sv.requested = 0 /\ NoRequest(up)
  \/ cl.waiting /\ Quiet(cl, down) /\ sv.requested = 0 /\ \E r \in DOMAIN up : RequestAt(cl, up, r)
  \/ cl.waiting /\ Quiet(cl, down) /\ sv.requested \in 1 .. cl.height /\ NoRequest(up) /\ NoFormat(up)
  \/ cl.waiting /\ Showing(cl, TRUE, down) /\ sv.requested = 0 /\ NoRequest(up) /\ NoFormat(up)

(* The server has the client's format, or will be told. *)
SameFormat(sv, cl, up) ==
  /\ NoFormat(up) => sv.pf = cl.pf
  /\ \A j \in DOMAIN up :
       up[j].kind = "SetPixelFormat" =>
         up[j + 1].pf = cl.pf \/ \E k \in DOMAIN up : k > j /\ up[k].kind = "SetPixelFormat"

(* What the server believes that the client supports. *)
Told(sv, cl) ==
  /\ sv.local \/ sv.wsccb => "cursor" \in cl.told
  /\ sv.resize \/ sv.needSetDesktopSize => "desktopSize" \in cl.told

OpenInv(sv, cl, up, down) ==
  Whole(cl, up) /\ Asking(sv, cl, up, down) /\ SameFormat(sv, cl, up) /\ Told(sv, cl)

(* What is left of an update when the connection is closed under it can be *)
(* read all the same.                                                      *)
Readable(cl, open, down) == Quiet(cl, down) \/ (cl.waiting /\ Showing(cl, open, down))

IInv ==
  /\ TypeOK
  /\ s.reading # "none" => sOut = <<>>
  /\ c.state = "INVALID" => ~Open
  /\ Open => OpenInv(s, c, Up, Down)
  /\ ~Open => Readable(c, FALSE, Down)

-----------------------------------------------------------------------------
(* Sequences: an element of the sequence s \o t.                           *)
LEMMA Joined ==
  ASSUME NEW S, NEW p \in Seq(S), NEW q \in Seq(S)
  PROVE  /\ p \o q \in Seq(S)
         /\ Len(p \o q) = Len(p) + Len(q)
         /\ \A k \in 1 .. Len(p) : (p \o q)[k] = p[k]
         /\ \A k \in Len(p) + 1 .. Len(p) + Len(q) : (p \o q)[k] = q[k - Len(p)]
         /\ \A k \in 1 .. Len(q) : (p \o q)[Len(p) + k] = q[k]
         /\ DOMAIN (p \o q) = 1 .. Len(p) + Len(q)
BY ConcatProperties, LenProperties

(* A message of its own, or several, are put behind what is under way. *)
LEMMA QuietAppends ==
  ASSUME NEW cl, NEW down \in Seq(ToClient), NEW items \in Seq(ToClient),
         Quiet(cl, down), \A k \in DOMAIN items : Plain(items[k])
  PROVE  Quiet(cl, down \o items)
<1>1. \A k \in 1 .. Len(down) : Plain(down[k])
  BY LenProperties DEF Quiet
<1>2. \A k \in 1 .. Len(items) : Plain(items[k])
  BY LenProperties
<1>3. ASSUME NEW k \in DOMAIN (down \o items) PROVE Plain((down \o items)[k])
  <2>1. k \in 1 .. Len(down) + Len(items) /\ Len(down) \in Nat /\ Len(items) \in Nat
    BY Joined, LenProperties
  <2>2. CASE k <= Len(down)
    BY <2>1, <2>2, <1>1, Joined
  <2>3. CASE k > Len(down)
    <3>1. k - Len(down) \in 1 .. Len(items) /\ k \in Len(down) + 1 .. Len(down) + Len(items)
      BY <2>1, <2>3
    <3>2. (down \o items)[k] = items[k - Len(down)]
      BY <3>1, Joined
    <3>3. QED
      BY <3>1, <3>2, <1>2
  <2>4. QED
    BY <2>1, <2>2, <2>3
<1>4. QED
  BY <1>3 DEF Quiet

LEMMA PartsAppend ==
  ASSUME NEW cl, NEW down \in Seq(ToClient), NEW items \in Seq(ToClient),
         NEW b \in Nat, NEW n \in Nat,
         UpdateParts(cl, TRUE, down, b, n), \A k \in DOMAIN items : Plain(items[k])
  PROVE  UpdateParts(cl, TRUE, down \o items, b, n)
<1>1. \A k \in 1 .. Len(items) : Plain(items[k])
  BY LenProperties
<1>2. Len(down) \in Nat /\ Len(items) \in Nat /\ b + n <= Len(down)
  BY LenProperties DEF UpdateParts
<1>3. ASSUME NEW k \in DOMAIN (down \o items)
      PROVE  IF k \in b + 1 .. b + n THEN PartAt(cl, (down \o items)[k], k, b + n)
             ELSE k = b \/ Plain((down \o items)[k])
  <2>1. k \in 1 .. Len(down) + Len(items)
    BY Joined
  <2>2. CASE k <= Len(down)
    <3>1. k \in DOMAIN down /\ (down \o items)[k] = down[k]
      BY <2>1, <2>2, <1>2, Joined, LenProperties
    <3>2. QED
      BY <3>1 DEF UpdateParts
  <2>3. CASE k > Len(down)
    <3>1. k - Len(down) \in 1 .. Len(items) /\ k \in Len(down) + 1 .. Len(down) + Len(items)
      BY <2>1, <2>3, <1>2
    <3>2. (down \o items)[k] = items[k - Len(down)]
      BY <3>1, Joined
    <3>3. k \notin b + 1 .. b + n
      BY <2>1, <2>3, <1>2
    <3>4. QED
      BY <3>1, <3>2, <3>3, <1>1
  <2>4. QED
    BY <2>1, <2>2, <2>3, <1>2
<1>4. b + n <= Len(down \o items)
  BY <1>2, Joined
<1>5. QED
  BY <1>3, <1>4 DEF UpdateParts

LEMMA ShowingAppends ==
  ASSUME NEW cl, cl.nUpdateRectsLeft \in Nat, NEW down \in Seq(ToClient), NEW items \in Seq(ToClient),
         Showing(cl, TRUE, down), \A k \in DOMAIN items : Plain(items[k])
  PROVE  Showing(cl, TRUE, down \o items)
<1>1. CASE cl.nUpdateRectsLeft > 0 /\ UpdateParts(cl, TRUE, down, 0, cl.nUpdateRectsLeft)
  BY <1>1, PartsAppend DEF Showing
<1>2. CASE cl.nUpdateRectsLeft = 0 /\ \E b \in DOMAIN down : HeaderAt(cl, TRUE, down, b)
  <2>1. PICK b \in DOMAIN down : HeaderAt(cl, TRUE, down, b)
    BY <1>2
  <2>2. b \in 1 .. Len(down) /\ down[b] \in ToClient /\ down[b].kind = "update"
    BY <2>1, LenProperties, ElementOfSeq DEF HeaderAt
  <2>3. down[b].nRects \in Nat /\ b \in Nat
    BY <2>2, LenProperties DEF ToClient
  <2>4. (down \o items)[b] = down[b] /\ b \in DOMAIN (down \o items)
    BY <2>2, Joined, LenProperties
  <2>5. UpdateParts(cl, TRUE, down \o items, b, down[b].nRects)
    BY <2>1, <2>2, <2>3, PartsAppend DEF HeaderAt
  <2>6. HeaderAt(cl, TRUE, down \o items, b)
    BY <2>1, <2>4, <2>5 DEF HeaderAt
  <2>7. QED
    BY <1>2, <2>4, <2>6 DEF Showing
<1>3. QED
  BY <1>1, <1>2 DEF Showing

(* An update that a client can take. *)
Fitting(cl, upd) ==
  /\ upd # <<>> /\ upd[1].kind = "update"
  /\ upd[1].nRects \in Nat \ {0}
  /\ Len(upd) = 1 + upd[1].nRects
  /\ \A k \in 2 .. Len(upd) : PartAt(cl, upd[k], k, Len(upd))

(* An update begins when the client waits for nothing else. *)
LEMMA ShowingBegins ==
  ASSUME NEW cl, NEW down \in Seq(ToClient), NEW upd \in Seq(ToClient),
         Quiet(cl, down), Fitting(cl, upd)
  PROVE  Showing(cl, TRUE, down \o upd)
<1> DEFINE b == Len(down) + 1
           n == upd[1].nRects
           all == down \o upd
<1>1. Len(down) \in Nat /\ n \in Nat /\ n > 0 /\ Len(upd) = n + 1
  BY LenProperties DEF Fitting
<1>2. all \in Seq(ToClient) /\ Len(all) = b + n /\ DOMAIN all = 1 .. b + n
  <2>1. all \in Seq(ToClient) /\ Len(all) = Len(down) + Len(upd) /\ DOMAIN all = 1 .. Len(down) + Len(upd)
    BY Joined
  <2>2. Len(down) + Len(upd) = b + n
    <3> HIDE DEF n, all
    <3>1. QED
      BY <1>1
  <2>3. QED
    BY <2>1, <2>2
<1>3. \A k \in 1 .. n + 1 : all[Len(down) + k] = upd[k]
  BY <1>1, Joined
<1>4. all[b] = upd[1] /\ b \in DOMAIN all
  BY <1>1, <1>2, <1>3
<1>5. ASSUME NEW k \in DOMAIN all
      PROVE  IF k \in b + 1 .. b + n THEN PartAt(cl, all[k], k, b + n) ELSE k = b \/ Plain(all[k])
  <2>1. CASE k \in b + 1 .. b + n
    <3>1. k - Len(down) \in 2 .. n + 1 /\ Len(down) + (k - Len(down)) = k
      BY <1>1, <2>1
    <3>2. all[k] = upd[k - Len(down)]
      <4>1. all[Len(down) + (k - Len(down))] = upd[k - Len(down)]
        BY <3>1, <1>1, <1>3
      <4>2. QED
        BY <3>1, <4>1
    <3>3. PartAt(cl, upd[k - Len(down)], k - Len(down), n + 1)
      BY <3>1, <1>1 DEF Fitting
    <3>4. (k - Len(down) = n + 1) <=> (k = b + n)
      BY <3>1, <1>1
    <3>5. QED
      BY <2>1, <3>2, <3>3, <3>4 DEF PartAt
  <2>2. CASE k \notin b + 1 .. b + n /\ k # b
    <3>1. k \in 1 .. Len(down)
      BY <1>1, <1>2, <2>2
    <3>2. all[k] = down[k] /\ Plain(down[k])
      BY <3>1, Joined, LenProperties DEF Quiet
    <3>3. QED
      BY <2>2, <3>2
  <2>3. QED
    BY <2>1, <2>2
<1>6. UpdateParts(cl, TRUE, all, b, n)
  <2> HIDE DEF all, b, n
  <2>1. QED
    BY <1>2, <1>5, <1>1 DEF UpdateParts
<1>7. HeaderAt(cl, TRUE, all, b)
  BY <1>1, <1>4, <1>6 DEF HeaderAt, Fitting
<1>8. QED
  BY <1>4, <1>7 DEF Showing, Quiet

(* When the connection is closed under it, a part of what is under way is  *)
(* left at the front.                                                      *)
LEMMA PartsCut ==
  ASSUME NEW cl, NEW open, NEW front \in Seq(ToClient), NEW back \in Seq(ToClient),
         NEW b \in Nat, NEW n \in Nat, UpdateParts(cl, open, front \o back, b, n)
  PROVE  UpdateParts(cl, FALSE, front, b, n)
<1>1. ASSUME NEW k \in DOMAIN front PROVE k \in DOMAIN (front \o back) /\ (front \o back)[k] = front[k]
  BY Joined, LenProperties
<1>2. QED
  BY <1>1 DEF UpdateParts

LEMMA ReadableCut ==
  ASSUME NEW cl, cl.nUpdateRectsLeft \in Nat, NEW open,
         NEW front \in Seq(ToClient), NEW back \in Seq(ToClient),
         Readable(cl, open, front \o back)
  PROVE  Readable(cl, FALSE, front)
<1> DEFINE all == front \o back
<1>0. all \in Seq(ToClient)
  BY Joined
<1>1. ASSUME NEW k \in DOMAIN front PROVE k \in DOMAIN all /\ all[k] = front[k]
  BY Joined, LenProperties
<1>2. CASE Quiet(cl, all)
  BY <1>1, <1>2 DEF Quiet, Readable
<1>3. CASE cl.waiting /\ cl.nUpdateRectsLeft > 0 /\ UpdateParts(cl, open, all, 0, cl.nUpdateRectsLeft)
  BY <1>3, PartsCut DEF Showing, Readable
<1>4. CASE cl.waiting /\ cl.nUpdateRectsLeft = 0 /\ \E b \in DOMAIN all : HeaderAt(cl, open, all, b)
  <2>1. PICK b \in DOMAIN all : HeaderAt(cl, open, all, b)
    BY <1>4
  <2>2. b \in Nat /\ all[b] \in ToClient /\ all[b].kind = "update"
    BY <1>0, <2>1, LenProperties, ElementOfSeq DEF HeaderAt
  <2>3. all[b].nRects \in Nat
    BY <2>2 DEF ToClient
  <2>4. UpdateParts(cl, FALSE, front, b, all[b].nRects)
    BY <2>1, <2>2, <2>3, PartsCut DEF HeaderAt
  <2>5. CASE b \in DOMAIN front
    BY <1>1, <1>4, <2>1, <2>4, <2>5 DEF HeaderAt, Showing, Readable
  <2>6. CASE b \notin DOMAIN front
    <3>1. ASSUME NEW k \in DOMAIN front PROVE Plain(front[k])
      <4>1. k \in 1 .. Len(front) /\ b > Len(front) /\ Len(front) \in Nat
        BY <2>2, <2>6, <2>1, <1>0, LenProperties, Joined DEF HeaderAt
      <4>2. k \notin b + 1 .. b + all[b].nRects /\ k # b
        BY <4>1, <2>2, <2>3
      <4>3. QED
        BY <2>4, <4>2 DEF UpdateParts
    <3>2. QED
      BY <1>4, <3>1 DEF Quiet, Readable
  <2>7. QED
    BY <2>5, <2>6
<1>5. QED
  BY <1>2, <1>3, <1>4 DEF Readable, Showing

-----------------------------------------------------------------------------
(* Any k up to the number of the rows counts one of them from above: by    *)
(* induction over the highest row there may be.                            *)
LEMMA NthExists ==
  ASSUME NEW b \in Nat, NEW rows \in SUBSET (1 .. b), NEW k \in 1 .. Cardinality(rows)
  PROVE  \E row \in rows : Cardinality({r \in rows : r < row}) = k - 1
<1> DEFINE Below(S, x) == {r \in S : r < x}
           Counted(S) == \A m \in 1 .. Cardinality(S) : \E x \in S : Cardinality(Below(S, x)) = m - 1
           T == {n \in Nat : \A S \in SUBSET (1 .. n) : Counted(S)}
<1>1. 0 \in T
  <2>1. ASSUME NEW S \in SUBSET (1 .. 0) PROVE Counted(S)
    <3>1. S = {}
      OBVIOUS
    <3>2. Cardinality(S) = 0
      BY <3>1, FS_EmptySet
    <3>3. QED
      BY <3>2
  <2>2. QED
    BY <2>1
<1>2. ASSUME NEW n \in Nat, n \in T PROVE n + 1 \in T
  <2>1. ASSUME NEW S \in SUBSET (1 .. n + 1) PROVE Counted(S)
    <3>1. CASE n + 1 \notin S
      <4>1. S \in SUBSET (1 .. n)
        BY <3>1
      <4>2. QED
        BY <1>2, <4>1
    <3>2. CASE n + 1 \in S
      <4> DEFINE R == S \ {n + 1}
      <4>1. R \in SUBSET (1 .. n) /\ S \in SUBSET (1 .. n + 1)
        OBVIOUS
      <4>2. IsFiniteSet(S)
        <5>1. 1 \in Int /\ n + 1 \in Int
          OBVIOUS
        <5>2. IsFiniteSet(1 .. n + 1)
          BY <5>1, FS_Interval
        <5>3. QED
          BY <5>2, <4>1, FS_Subset
      <4>3. IsFiniteSet(R) /\ Cardinality(R) = Cardinality(S) - 1 /\ Cardinality(S) \in Nat /\ Cardinality(R) \in Nat
        BY <4>2, <3>2, FS_RemoveElement, FS_CardinalityType
      <4>4. Counted(R)
        BY <1>2, <4>1
      <4>5. ASSUME NEW m \in 1 .. Cardinality(S) PROVE \E x \in S : Cardinality(Below(S, x)) = m - 1
        <5>1. CASE m = Cardinality(S)
          <6>1. \A r \in S : r < n + 1 <=> r # n + 1
            BY <4>1
          <6>2. Below(S, n + 1) = R
            BY <6>1
          <6>3. Cardinality(Below(S, n + 1)) = m - 1
            BY <6>2, <5>1, <4>3
          <6>4. QED
            BY <6>3, <3>2
        <5>2. CASE m # Cardinality(S)
          <6>1. m \in 1 .. Cardinality(R)
            BY <5>2, <4>3
          <6>2. PICK x \in R : Cardinality(Below(R, x)) = m - 1
            BY <6>1, <4>4
          <6>3. ~(n + 1 < x)
            BY <4>1, <6>2
          <6>4. Below(S, x) = Below(R, x)
            BY <6>3
          <6>5. QED
            BY <6>2, <6>4
        <5>3. QED
          BY <5>1, <5>2
      <4>6. QED
        BY <4>5
    <3>3. QED
      BY <3>1, <3>2
  <2>2. QED
    BY <2>1
<1>3. Nat \subseteq T
  <2> HIDE DEF T
  <2>1. QED
    BY <1>1, <1>2, Induction
<1>4. Counted(rows)
  BY <1>3
<1>5. QED
  BY <1>4

LEMMA NthIsRow ==
  ASSUME NEW b \in Nat, NEW rows \in SUBSET (1 .. b), NEW k \in 1 .. Cardinality(rows)
  PROVE  Nth(rows, k) \in rows
BY NthExists DEF Nth

(* Parts of an update, none of them the last, one after the other. *)
LEMMA PartsJoined ==
  ASSUME NEW cl, NEW p \in Seq(ToClient), NEW q \in Seq(ToClient),
         \A k \in 1 .. Len(p) : Early(cl, p[k]),
         \A k \in 1 .. Len(q) : Early(cl, q[k])
  PROVE  \A k \in 1 .. Len(p) + Len(q) : Early(cl, (p \o q)[k])
<1>0. Len(p) \in Nat /\ Len(q) \in Nat
  BY LenProperties
<1>1. ASSUME NEW k \in 1 .. Len(p) + Len(q) PROVE Early(cl, (p \o q)[k])
  <2>1. CASE k <= Len(p)
    <3>1. k \in 1 .. Len(p)
      BY <1>0, <2>1
    <3>2. QED
      BY <3>1, Joined
  <2>2. CASE k > Len(p)
    <3>1. k - Len(p) \in 1 .. Len(q) /\ k \in Len(p) + 1 .. Len(p) + Len(q)
      BY <1>0, <2>2
    <3>2. (p \o q)[k] = q[k - Len(p)]
      BY <3>1, Joined
    <3>3. QED
      BY <3>1, <3>2
  <2>3. QED
    BY <1>0, <2>1, <2>2
<1>2. QED
  BY <1>1

(* What SMsgWriter makes of an update is what a client can take whose      *)
(* format and encodings the server knows, when the rows are some that the  *)
(* client has.                                                             *)
LEMMA UpdateFits ==
  ASSUME SizeAssumption,
         NEW conn, conn.pf \in Formats, conn.encoding \in EncodingsOf, conn.height \in Row,
         conn.cursor \in Nat, conn.wsccb \in BOOLEAN, conn.needSetDesktopSize \in BOOLEAN,
         NEW rows \in SUBSET Row,
         NEW cl, cl.pf = conn.pf, \A row \in rows : row <= cl.height,
         conn.wsccb => "cursor" \in cl.told,
         conn.needSetDesktopSize => "desktopSize" \in cl.told,
         rows # {} \/ needFakeUpdate(conn)
  PROVE  Update(conn, rows) \in Seq(ToClient) /\ Fitting(cl, Update(conn, rows))
<1> DEFINE head == <<[kind |-> "update", nRects |-> nRects(conn, rows)]>>
           first == IF conn.wsccb THEN <<[kind |-> "cursor", cursor |-> conn.cursor, pf |-> conn.pf]>> ELSE <<>>
           middle == Rects(conn, rows)
           last == IF conn.needSetDesktopSize THEN <<[kind |-> "size", height |-> conn.height]>> ELSE <<>>
           n == Cardinality(rows)
           f == IF conn.wsccb THEN 1 ELSE 0
           l == IF conn.needSetDesktopSize THEN 1 ELSE 0
           upd == head \o first \o middle \o last
<1>1. n \in Nat /\ (rows # {} => n > 0)
  <2>1. 1 \in Int /\ MaxRow \in Int
    BY DEF SizeAssumption
  <2>2. IsFiniteSet(Row)
    BY <2>1, FS_Interval DEF Row
  <2>3. IsFiniteSet(rows)
    BY <2>2, FS_Subset
  <2>4. n \in Nat /\ (n = 0 <=> rows = {})
    BY <2>3, FS_CardinalityType, FS_EmptySet
  <2>5. QED
    BY <2>4
<1>2. nRects(conn, rows) = n + f + l /\ f \in 0 .. 1 /\ l \in 0 .. 1 /\ n + f + l > 0
  BY <1>1 DEF nRects, needFakeUpdate
<1>3. head \in Seq(ToClient) /\ Len(head) = 1 /\ head[1].kind = "update" /\ head[1].nRects = n + f + l
  <2>1. [kind |-> "update", nRects |-> nRects(conn, rows)] \in ToClient
    BY <1>1, <1>2 DEF ToClient
  <2>2. QED
    BY <2>1, <1>2
<1>4. /\ first \in Seq(ToClient) /\ Len(first) = f
      /\ \A k \in 1 .. f : Early(cl, first[k])
  <2>1. [kind |-> "cursor", cursor |-> conn.cursor, pf |-> conn.pf] \in ToClient
    BY DEF ToClient
  <2>2. CASE conn.wsccb
    <3>1. first = <<[kind |-> "cursor", cursor |-> conn.cursor, pf |-> conn.pf]>> /\ f = 1
      BY <2>2
    <3>2. Early(cl, first[1])
      BY <3>1, <2>2 DEF PartFor, Early
    <3>3. QED
      BY <3>1, <3>2, <2>1
  <2>3. CASE ~conn.wsccb
    BY <2>3
  <2>4. QED
    BY <2>2, <2>3
<1>5. /\ middle \in Seq(ToClient) /\ Len(middle) = n
      /\ \A k \in 1 .. n : Early(cl, middle[k])
  <2>1. ASSUME NEW k \in 1 .. n
        PROVE  middle[k] \in ToClient /\ Early(cl, middle[k])
    <3>1. Nth(rows, k) \in rows
      BY NthIsRow DEF Row, SizeAssumption
    <3>2. middle[k] = [kind |-> "rect", row |-> Nth(rows, k), pf |-> conn.pf, encoding |-> conn.encoding]
      BY DEF Rects
    <3>3. middle[k] \in ToClient
      BY <3>1, <3>2 DEF ToClient
    <3>4. Early(cl, middle[k])
      BY <3>1, <3>2 DEF PartFor, Early
    <3>5. QED
      BY <3>3, <3>4
  <2>2. middle \in [1 .. n -> ToClient]
    <3>1. \A k \in 1 .. n : middle[k] \in ToClient
      BY <2>1
    <3>2. QED
      BY <3>1 DEF Rects
  <2>3. middle \in Seq(ToClient) /\ Len(middle) = n
    <3> HIDE DEF middle, n
    <3>1. QED
      BY <1>1, <2>2, SeqDef, LenProperties
  <2>4. QED
    BY <2>1, <2>3
<1>6. /\ last \in Seq(ToClient) /\ Len(last) = l
      /\ \A k \in 1 .. l : PartFor(cl, last[k])
  <2>1. [kind |-> "size", height |-> conn.height] \in ToClient
    BY DEF ToClient
  <2>2. CASE conn.needSetDesktopSize
    <3>1. last = <<[kind |-> "size", height |-> conn.height]>> /\ l = 1
      BY <2>2
    <3>2. PartFor(cl, last[1])
      BY <3>1, <2>2 DEF PartFor
    <3>3. QED
      BY <3>1, <3>2, <2>1
  <2>3. CASE ~conn.needSetDesktopSize
    BY <2>3
  <2>4. QED
    BY <2>2, <2>3
<1>7. upd = Update(conn, rows)
  BY DEF Update
<1> DEFINE body == (first \o middle) \o last
<1>9. upd = head \o body /\ body \in Seq(ToClient)
  <2> HIDE DEF head, first, middle, last
  <2>1. first \o middle \in Seq(ToClient) /\ head \o first \in Seq(ToClient)
    BY <1>3, <1>4, <1>5, ConcatProperties
  <2>2. (head \o first) \o middle = head \o (first \o middle)
    BY <1>3, <1>4, <1>5, ConcatAssociative
  <2> DEFINE mid == first \o middle
  <2>3. (head \o mid) \o last = head \o (mid \o last)
    <3>1. head \in Seq(ToClient) /\ mid \in Seq(ToClient) /\ last \in Seq(ToClient)
      BY <1>3, <1>6, <2>1
    <3> HIDE DEF mid
    <3>2. QED
      BY <3>1, ConcatAssociative
  <2>4. body \in Seq(ToClient)
    BY <2>1, <1>6, ConcatProperties
  <2>5. QED
    BY <2>2, <2>3, <2>4
<1>10. /\ Len(body) = n + f + l
       /\ \A k \in 1 .. n + f + l : PartAt(cl, body[k], k, n + f + l)
  <2> HIDE DEF head, first, middle, last, n, f, l
  <2>1. first \o middle \in Seq(ToClient) /\ Len(first \o middle) = f + n
    BY <1>4, <1>5, Joined
  <2>2. \A k \in 1 .. f + n : Early(cl, (first \o middle)[k])
    <3>1. \A k \in 1 .. Len(first) + Len(middle) : Early(cl, (first \o middle)[k])
      BY <1>4, <1>5, PartsJoined
    <3>2. QED
      BY <3>1, <1>4, <1>5
  <2> DEFINE front == first \o middle
             z == f + n
  <2>3. Len(body) = z + l /\ z + l = n + f + l /\ z \in Nat
    <3>1. Len(body) = Len(front) + Len(last)
      BY <2>1, <1>6, Joined
    <3>2. QED
      BY <3>1, <2>1, <1>1, <1>2, <1>6
  <2>4. /\ \A k \in 1 .. Len(front) : body[k] = front[k]
        /\ \A k \in 1 .. Len(last) : body[Len(front) + k] = last[k]
    BY <2>1, <1>6, Joined
  <2>5. ASSUME NEW k \in 1 .. n + f + l PROVE PartAt(cl, body[k], k, n + f + l)
    <3>1. CASE k <= z
      <4>1. k \in 1 .. z
        BY <3>1, <2>3, <1>1, <1>2
      <4>2. body[k] = front[k]
        BY <4>1, <2>1, <2>4
      <4>3. Early(cl, front[k])
        BY <2>2, <4>1
      <4>4. QED
        BY <4>2, <4>3 DEF Early, PartAt
    <3>2. CASE k > z
      <4>1. k = n + f + l /\ k = z + 1 /\ l = 1
        <5> HIDE DEF z
        <5>1. QED
          BY <3>2, <1>1, <1>2, <2>3
      <4>2. body[k] = last[1]
        <5>1. 1 \in 1 .. Len(last) /\ Len(front) = z
          BY <4>1, <1>6, <2>1
        <5>2. body[Len(front) + 1] = last[1]
          BY <5>1, <2>4
        <5>3. QED
          BY <4>1, <5>1, <5>2
      <4>3. PartFor(cl, last[1])
        <5>1. 1 \in 1 .. l
          BY <4>1
        <5>2. QED
          BY <5>1, <1>6
      <4>4. QED
        <5> HIDE DEF body
        <5>1. QED
          BY <4>1, <4>2, <4>3 DEF PartAt
    <3>3. QED
      <4> HIDE DEF z
      <4>1. QED
        BY <3>1, <3>2, <1>1, <1>2, <2>3
  <2>6. QED
    BY <2>3, <2>5
<1>11. Len(upd) = 1 + (n + f + l) /\ upd[1] = head[1] /\ upd \in Seq(ToClient)
       /\ \A k \in 1 .. n + f + l : upd[1 + k] = body[k]
  <2> HIDE DEF head, body, upd, n, f, l
  <2>1. upd \in Seq(ToClient) /\ Len(upd) = Len(head) + Len(body)
    BY <1>3, <1>9, Joined
  <2>2. \A k \in 1 .. Len(head) : upd[k] = head[k]
    BY <1>3, <1>9, Joined
  <2>3. \A k \in 1 .. Len(body) : upd[Len(head) + k] = body[k]
    <3>1. head \in Seq(ToClient) /\ body \in Seq(ToClient)
      BY <1>3, <1>9
    <3>2. \A k \in 1 .. Len(body) : (head \o body)[Len(head) + k] = body[k]
      BY <3>1, Joined
    <3>3. QED
      BY <3>2, <1>9
  <2>4. Len(head) = 1 /\ Len(body) = n + f + l
    BY <1>3, <1>10
  <2>5. 1 \in 1 .. 1
    OBVIOUS
  <2>6. QED
    BY <2>1, <2>2, <2>3, <2>4, <2>5
<1>12. Fitting(cl, upd)
  <2> HIDE DEF head, body, upd, n, f, l
  <2> DEFINE t == n + f + l
  <2>0. t \in Nat /\ t > 0
    BY <1>1, <1>2
  <2>1. upd # <<>> /\ upd[1].kind = "update" /\ upd[1].nRects = t
    BY <1>3, <1>11, <2>0
  <2>2. ASSUME NEW k \in 2 .. Len(upd) PROVE PartAt(cl, upd[k], k, Len(upd))
    <3>1. k - 1 \in 1 .. t /\ 1 + (k - 1) = k /\ (k - 1 = t <=> k = Len(upd))
      <4>1. Len(upd) = 1 + t
        BY <1>11
      <4> HIDE DEF t
      <4>2. QED
        BY <4>1, <2>0
    <3>2. upd[k] = body[k - 1]
      BY <3>1, <1>11
    <3>3. PartAt(cl, body[k - 1], k - 1, t)
      BY <3>1, <1>10
    <3>4. QED
      BY <3>1, <3>2, <3>3 DEF PartAt
  <2>3. Len(upd) = 1 + upd[1].nRects
    BY <2>1, <1>11
  <2>4. QED
    <3> HIDE DEF t
    <3>1. QED
      BY <2>0, <2>1, <2>2, <2>3 DEF Fitting
<1>13. QED
  BY <1>7, <1>11, <1>12

-----------------------------------------------------------------------------
(* Messages to the server                                                  *)

LEMMA TailOf ==
  ASSUME NEW S, NEW q \in Seq(S), q # <<>>
  PROVE  /\ Head(q) = q[1] /\ Head(q) \in S /\ Tail(q) \in Seq(S)
         /\ Len(q) \in Nat /\ Len(q) > 0 /\ 1 \in DOMAIN q
         /\ Len(Tail(q)) = Len(q) - 1
         /\ DOMAIN Tail(q) = 1 .. Len(q) - 1
         /\ \A i \in DOMAIN Tail(q) : i + 1 \in DOMAIN q /\ Tail(q)[i] = q[i + 1]
<1>1. Len(q) \in Nat /\ Len(q) > 0 /\ DOMAIN q = 1 .. Len(q)
  BY LenProperties, EmptySeq
<1>2. Head(q) \in S /\ Tail(q) \in Seq(S) /\ Len(Tail(q)) = Len(q) - 1
      /\ \A i \in 1 .. Len(Tail(q)) : Tail(q)[i] = q[i + 1]
  BY HeadTailProperties
<1>3. DOMAIN Tail(q) = 1 .. Len(q) - 1
  BY <1>2, LenProperties
<1>4. Head(q) = q[1]
  BY <1>1, LenProperties
<1>5. \A i \in 1 .. Len(q) - 1 : i + 1 \in 1 .. Len(q)
  BY <1>1
<1>6. QED
  BY <1>1, <1>2, <1>3, <1>4, <1>5

(* What is left when the first message has been taken, type and rest. *)
LEMMA Taken ==
  ASSUME NEW up \in Seq(ToServer), Len(up) >= 2
  PROVE  LET left == Tail(Tail(up))
         IN  /\ left \in Seq(ToServer) /\ Len(left) = Len(up) - 2
             /\ DOMAIN left = 1 .. Len(up) - 2
             /\ \A j \in 1 .. Len(up) - 2 : left[j] = up[j + 2]
<1> DEFINE n == Len(up)
<1>1. n \in Nat /\ up # <<>>
  BY LenProperties, EmptySeq
<1>2. /\ Tail(up) \in Seq(ToServer) /\ Len(Tail(up)) = n - 1
      /\ \A i \in 1 .. n - 1 : Tail(up)[i] = up[i + 1]
  BY <1>1, TailOf
<1>3. Tail(up) # <<>>
  <2> DEFINE t == Tail(up)
  <2>1. t \in Seq(ToServer) /\ Len(t) \in Nat /\ Len(t) # 0
    BY <1>1, <1>2, LenProperties
  <2> HIDE DEF t
  <2>2. t # <<>>
    BY <2>1
  <2>3. QED
    BY <2>2 DEF t
<1>4. /\ Tail(Tail(up)) \in Seq(ToServer) /\ Len(Tail(Tail(up))) = n - 2
      /\ \A i \in 1 .. n - 2 : Tail(Tail(up))[i] = Tail(up)[i + 1]
  <2>1. /\ Tail(Tail(up)) \in Seq(ToServer) /\ Len(Tail(Tail(up))) = Len(Tail(up)) - 1
        /\ DOMAIN Tail(Tail(up)) = 1 .. Len(Tail(up)) - 1
        /\ \A i \in DOMAIN Tail(Tail(up)) : Tail(Tail(up))[i] = Tail(up)[i + 1]
    BY <1>2, <1>3, TailOf
  <2>2. Len(Tail(up)) - 1 = n - 2
    BY <1>1, <1>2
  <2>3. QED
    BY <2>1, <2>2
<1>5. \A j \in 1 .. n - 2 : j + 1 \in 1 .. n - 1 /\ (j + 1) + 1 = j + 2
  BY <1>1
<1>6. \A j \in 1 .. n - 2 : Tail(Tail(up))[j] = up[j + 2]
  <2>1. TAKE j \in 1 .. n - 2
  <2>2. Tail(Tail(up))[j] = up[(j + 1) + 1]
    BY <1>2, <1>4, <1>5
  <2>3. QED
    BY <1>5, <2>2
<1>7. DOMAIN Tail(Tail(up)) = 1 .. n - 2
  BY <1>4, LenProperties
<1>8. QED
  BY <1>4, <1>6, <1>7

LEMMA WholeFront ==
  ASSUME NEW cl, NEW up \in Seq(ToServer), up # <<>>, Whole(cl, up)
  PROVE  /\ Len(up) >= 2 /\ 1 \in DOMAIN up /\ 2 \in DOMAIN up
         /\ up[1].kind \in Kinds /\ up[2].kind = "rest" /\ Fits(cl, up[1].kind, up[2])
<1>1. Len(up) \in Nat /\ Len(up) > 0 /\ Len(up) % 2 = 0 /\ DOMAIN up = 1 .. Len(up)
  BY LenProperties, EmptySeq DEF Whole
<1>2. Len(up) >= 2
  BY <1>1
<1>3. 1 \in DOMAIN up /\ 2 \in DOMAIN up /\ 1 % 2 = 1 /\ 2 % 2 = 0 /\ 1 + 1 = 2
  BY <1>1, <1>2
<1>4. up[1].kind \in Kinds /\ Fits(cl, up[1].kind, up[1 + 1])
  BY <1>3 DEF Whole
<1>5. up[2].kind = "rest"
  BY <1>3 DEF Whole
<1>6. QED
  BY <1>2, <1>3, <1>4, <1>5

LEMMA WholeLeft ==
  ASSUME NEW cl, NEW up \in Seq(ToServer), up # <<>>, Whole(cl, up),
         NEW left, left = Tail(Tail(up))
  PROVE  /\ left \in Seq(ToServer) /\ Whole(cl, left)
         /\ DOMAIN left = 1 .. Len(up) - 2
         /\ \A j \in DOMAIN left : j + 2 \in DOMAIN up /\ left[j] = up[j + 2]
         /\ \A j \in DOMAIN up : j > 2 => j - 2 \in DOMAIN left /\ left[j - 2] = up[j]
<1> DEFINE n == Len(up)
<1>1. n \in Nat /\ n >= 2 /\ n % 2 = 0 /\ DOMAIN up = 1 .. n
  BY LenProperties, WholeFront DEF Whole
<1>2. /\ left \in Seq(ToServer) /\ Len(left) = n - 2 /\ DOMAIN left = 1 .. n - 2
      /\ \A j \in 1 .. n - 2 : left[j] = up[j + 2]
  BY <1>1, Taken
<1> HIDE DEF n
<1>3. \A j \in 1 .. n - 2 : j + 2 \in 1 .. n
  BY <1>1
<1>4. ASSUME NEW j \in 1 .. n, j > 2 PROVE j - 2 \in 1 .. n - 2 /\ left[j - 2] = up[j]
  <2>1. j - 2 \in 1 .. n - 2 /\ (j - 2) + 2 = j
    BY <1>1, <1>4
  <2>2. left[j - 2] = up[(j - 2) + 2]
    BY <1>2, <2>1
  <2>3. QED
    BY <2>1, <2>2
<1>5. (n - 2) % 2 = 0
  BY <1>1
<1>6. ASSUME NEW j \in 1 .. n - 2
      PROVE  IF j % 2 = 0 THEN left[j].kind = "rest"
             ELSE left[j].kind \in Kinds /\ Fits(cl, left[j].kind, left[j + 1])
  <2>1. j + 2 \in 1 .. n /\ j \in Nat /\ (j + 2) % 2 = j % 2
    BY <1>1
  <2>2. left[j] = up[j + 2]
    BY <1>2
  <2>3. CASE j % 2 = 0
    <3>1. up[j + 2].kind = "rest"
      BY <1>1, <2>1, <2>3 DEF Whole
    <3>2. QED
      BY <2>2, <2>3, <3>1
  <2>4. CASE j % 2 # 0
    <3>1. up[j + 2].kind \in Kinds /\ Fits(cl, up[j + 2].kind, up[(j + 2) + 1])
      BY <1>1, <2>1, <2>4 DEF Whole
    <3>2. j + 1 \in 1 .. n - 2 /\ (j + 1) + 2 = (j + 2) + 1
      BY <1>1, <2>4
    <3>3. left[j + 1] = up[(j + 1) + 2]
      BY <1>2, <3>2
    <3>4. left[j + 1] = up[(j + 2) + 1]
      BY <3>2, <3>3
    <3>5. QED
      BY <2>2, <2>4, <3>1, <3>4
  <2>5. QED
    BY <2>3, <2>4
<1>7. Whole(cl, left)
  BY <1>2, <1>5, <1>6 DEF Whole
<1>8. QED
  BY <1>1, <1>2, <1>3, <1>4, <1>7 DEF n

LEMMA RequestLeft ==
  ASSUME NEW cl, NEW up \in Seq(ToServer), up # <<>>, Whole(cl, up),
         NEW left, left = Tail(Tail(up))
  PROVE  /\ NoRequest(up) => NoRequest(left)
         /\ NoFormat(up) => NoFormat(left)
         /\ \A r \in DOMAIN up :
              RequestAt(cl, up, r) =>
                IF up[1].kind = "FramebufferUpdateRequest"
                THEN up[2].rows = cl.height /\ NoRequest(left) /\ NoFormat(left)
                ELSE \E q \in DOMAIN left : RequestAt(cl, left, q)
<1> DEFINE n == Len(up)
<1>1. n \in Nat /\ DOMAIN up = 1 .. n /\ 1 \in DOMAIN up /\ up[2].kind = "rest"
  BY LenProperties, WholeFront
<1>2. /\ DOMAIN left = 1 .. n - 2
      /\ \A j \in DOMAIN left : j + 2 \in DOMAIN up /\ left[j] = up[j + 2]
      /\ \A j \in DOMAIN up : j > 2 => j - 2 \in DOMAIN left /\ left[j - 2] = up[j]
  BY WholeLeft
<1> HIDE DEF n
<1>3. (NoRequest(up) => NoRequest(left)) /\ (NoFormat(up) => NoFormat(left))
  BY <1>2 DEF NoRequest, NoFormat
<1>4. ASSUME NEW r \in DOMAIN up, RequestAt(cl, up, r)
      PROVE  IF up[1].kind = "FramebufferUpdateRequest"
             THEN up[2].rows = cl.height /\ NoRequest(left) /\ NoFormat(left)
             ELSE \E q \in DOMAIN left : RequestAt(cl, left, q)
  <2>1. CASE up[1].kind = "FramebufferUpdateRequest"
    <3>1. r = 1 /\ 1 + 1 = 2
      BY <1>1, <1>4, <2>1 DEF RequestAt
    <3>2. up[2].rows = cl.height
      BY <1>4, <3>1 DEF RequestAt
    <3>3. ASSUME NEW j \in DOMAIN left
          PROVE  left[j].kind # "FramebufferUpdateRequest" /\ left[j].kind # "SetPixelFormat"
      <4>1. j + 2 \in DOMAIN up /\ left[j] = up[j + 2] /\ j + 2 # r /\ ~(j + 2 < r)
        BY <1>2, <3>1
      <4>2. QED
        BY <1>4, <4>1 DEF RequestAt
    <3>4. QED
      BY <2>1, <3>2, <3>3 DEF NoRequest, NoFormat
  <2>2. CASE up[1].kind # "FramebufferUpdateRequest"
    <3>1. up[r].kind = "FramebufferUpdateRequest" /\ up[r + 1].rows = cl.height
      BY <1>4 DEF RequestAt
    <3>2. r # 1 /\ r # 2
      BY <2>2, <3>1, <1>1
    <3>3. r > 2 /\ r \in Nat
      BY <3>2, <1>1
    <3>4. r - 2 \in DOMAIN left /\ left[r - 2] = up[r] /\ (r - 2) + 2 = r
      BY <1>2, <3>3
    <3>5. left[(r - 2) + 1].rows = cl.height
      <4>1. up[r].kind \in Kinds /\ r + 1 \in DOMAIN up
        <5>1. r % 2 # 0
          BY <3>1 DEF Whole
        <5>2. n % 2 = 0
          BY DEF Whole, n
        <5>3. QED
          BY <5>1, <5>2, <1>1, <3>1, <3>3 DEF Kinds
      <4>2. r + 1 > 2 /\ (r + 1) - 2 = (r - 2) + 1
        BY <3>3
      <4>3. left[(r + 1) - 2] = up[r + 1]
        BY <1>2, <4>1, <4>2
      <4>4. QED
        BY <3>1, <4>2, <4>3
    <3>6. ASSUME NEW j \in DOMAIN left
          PROVE  /\ left[j].kind = "FramebufferUpdateRequest" => j = r - 2
                 /\ left[j].kind = "SetPixelFormat" => j < r - 2
      <4>1. j + 2 \in DOMAIN up /\ left[j] = up[j + 2] /\ j \in Nat
        BY <1>2
      <4>2. /\ up[j + 2].kind = "FramebufferUpdateRequest" => j + 2 = r
            /\ up[j + 2].kind = "SetPixelFormat" => j + 2 < r
        BY <1>4, <4>1 DEF RequestAt
      <4>3. QED
        BY <4>1, <4>2, <3>3
    <3>7. RequestAt(cl, left, r - 2)
      BY <3>1, <3>4, <3>5, <3>6 DEF RequestAt
    <3>8. QED
      BY <2>2, <3>4, <3>7
  <2>3. QED
    BY <2>1, <2>2
<1>5. QED
  BY <1>3, <1>4

LEMMA FormatLeft ==
  ASSUME NEW cl, NEW up \in Seq(ToServer), up # <<>>, Whole(cl, up),
         NEW left, left = Tail(Tail(up)),
         NEW sv, SameFormat(sv, cl, up),
         NEW sv2, sv2.pf = IF up[1].kind = "SetPixelFormat" THEN up[2].pf ELSE sv.pf
  PROVE  SameFormat(sv2, cl, left)
<1> DEFINE n == Len(up)
<1>1. n \in Nat /\ DOMAIN up = 1 .. n /\ 1 \in DOMAIN up /\ up[2].kind = "rest"
  BY LenProperties, WholeFront
<1>2. /\ DOMAIN left = 1 .. n - 2
      /\ \A j \in DOMAIN left : j + 2 \in DOMAIN up /\ left[j] = up[j + 2]
      /\ \A j \in DOMAIN up : j > 2 => j - 2 \in DOMAIN left /\ left[j - 2] = up[j]
  BY WholeLeft
<1> HIDE DEF n
<1>3. ASSUME NoFormat(left) PROVE sv2.pf = cl.pf
  <2>1. ASSUME NEW j \in DOMAIN up, up[j].kind = "SetPixelFormat" PROVE j = 1
    <3>1. ~(j > 2)
      BY <1>2, <1>3, <2>1 DEF NoFormat
    <3>2. j # 2
      BY <1>1, <2>1
    <3>3. QED
      BY <3>1, <3>2, <1>1
  <2>2. CASE up[1].kind = "SetPixelFormat"
    <3>1. up[1 + 1].pf = cl.pf \/ \E k \in DOMAIN up : k > 1 /\ up[k].kind = "SetPixelFormat"
      BY <1>1, <2>2 DEF SameFormat
    <3>2. up[1 + 1].pf = cl.pf /\ 1 + 1 = 2
      BY <2>1, <3>1
    <3>3. QED
      BY <3>2, <2>2
  <2>3. CASE up[1].kind # "SetPixelFormat"
    <3>1. NoFormat(up)
      BY <2>1, <2>3 DEF NoFormat
    <3>2. QED
      BY <3>1, <2>3 DEF SameFormat
  <2>4. QED
    BY <2>2, <2>3
<1>4. ASSUME NEW j \in DOMAIN left, left[j].kind = "SetPixelFormat"
      PROVE  left[j + 1].pf = cl.pf \/ \E k \in DOMAIN left : k > j /\ left[k].kind = "SetPixelFormat"
  <2>1. j + 2 \in DOMAIN up /\ left[j] = up[j + 2] /\ j \in Nat
    BY <1>2
  <2>2. CASE up[(j + 2) + 1].pf = cl.pf
    <3>1. (j + 2) % 2 # 0
      BY <1>4, <2>1 DEF Whole
    <3>2. n % 2 = 0
      BY DEF Whole, n
    <3>3. (j + 2) + 1 \in DOMAIN up /\ (j + 2) + 1 > 2 /\ ((j + 2) + 1) - 2 = j + 1
      BY <1>1, <2>1, <3>1, <3>2
    <3>4. left[((j + 2) + 1) - 2] = up[(j + 2) + 1]
      BY <1>2, <3>3
    <3>5. QED
      BY <2>2, <3>3, <3>4
  <2>3. CASE \E k \in DOMAIN up : k > j + 2 /\ up[k].kind = "SetPixelFormat"
    <3>1. PICK k \in DOMAIN up : k > j + 2 /\ up[k].kind = "SetPixelFormat"
      BY <2>3
    <3>2. k > 2 /\ k - 2 > j /\ k \in Nat
      BY <3>1, <1>1, <2>1
    <3>3. k - 2 \in DOMAIN left /\ left[k - 2] = up[k]
      BY <1>2, <3>2
    <3>4. QED
      BY <3>1, <3>2, <3>3
  <2>4. QED
    BY <2>1, <2>2, <2>3, <1>4 DEF SameFormat
<1>5. QED
  BY <1>3, <1>4 DEF SameFormat

(* A message behind others. *)
More(p, x, y) == p \o <<x, y>>

LEMMA TwoMore ==
  ASSUME NEW S, NEW p \in Seq(S), NEW x \in S, NEW y \in S
  PROVE  /\ More(p, x, y) \in Seq(S)
         /\ Len(p) \in Nat /\ DOMAIN p = 1 .. Len(p) /\ DOMAIN More(p, x, y) = 1 .. Len(p) + 2
         /\ Len(More(p, x, y)) = Len(p) + 2
         /\ More(p, x, y)[Len(p) + 1] = x /\ More(p, x, y)[Len(p) + 2] = y
         /\ \A j \in DOMAIN p : More(p, x, y)[j] = p[j]
<1> DEFINE more == <<x, y>>
           q == p \o more
<1>1. more \in Seq(S) /\ Len(more) = 2 /\ more[1] = x /\ more[2] = y
  OBVIOUS
<1>2. Len(p) \in Nat /\ DOMAIN p = 1 .. Len(p)
  BY LenProperties
<1>0. More(p, x, y) = q
  BY DEF More
<1> HIDE DEF more
<1>3. /\ q \in Seq(S) /\ Len(q) = Len(p) + Len(more) /\ DOMAIN q = 1 .. Len(p) + Len(more)
      /\ \A k \in 1 .. Len(p) : q[k] = p[k]
      /\ \A k \in 1 .. Len(more) : q[Len(p) + k] = more[k]
  <2>1. more \in Seq(S)
    BY <1>1
  <2>2. QED
    BY <2>1, Joined
<1> HIDE DEF q
<1>5. 1 \in 1 .. Len(more) /\ 2 \in 1 .. Len(more)
  BY <1>1
<1>6. q[Len(p) + 1] = x /\ q[Len(p) + 2] = y
  BY <1>1, <1>3, <1>5
<1>7. q \in Seq(S) /\ Len(q) = Len(p) + 2 /\ DOMAIN q = 1 .. Len(p) + 2
  BY <1>1, <1>3
<1>8. QED
  BY <1>0, <1>2, <1>3, <1>6, <1>7

(* The client says something more. *)
LEMMA SaysMore ==
  ASSUME NEW cl, NEW cl2, cl.told \subseteq cl2.told,
         NEW up \in Seq(ToServer), Whole(cl, up),
         NEW kind \in Kinds, NEW rest \in ToServer, rest.kind = "rest", Fits(cl2, kind, rest),
         NEW up2, up2 = More(up, Item(kind), rest)
  PROVE  /\ up2 \in Seq(ToServer) /\ Whole(cl2, up2)
         /\ Len(up) \in Nat /\ DOMAIN up = 1 .. Len(up) /\ DOMAIN up2 = 1 .. Len(up) + 2
         /\ up2[Len(up) + 1].kind = kind /\ up2[Len(up) + 2] = rest
         /\ \A j \in DOMAIN up : up2[j] = up[j]
<1> DEFINE n == Len(up)
<1>1. n \in Nat /\ DOMAIN up = 1 .. n /\ n % 2 = 0
  BY LenProperties DEF Whole
<1>2. Item(kind) \in ToServer
  BY DEF Item, ToServer
<1>3. /\ up2 \in Seq(ToServer) /\ Len(up2) = n + 2 /\ DOMAIN up2 = 1 .. n + 2
      /\ \A j \in DOMAIN up : up2[j] = up[j]
      /\ up2[n + 1] = Item(kind) /\ up2[n + 2] = rest
  <2> DEFINE first == Item(kind)
             all == More(up, first, rest)
  <2>1. first \in ToServer
    BY <1>2
  <2>2. up2 = all
    OBVIOUS
  <2> HIDE DEF first
  <2>3. /\ all \in Seq(ToServer) /\ Len(all) = n + 2 /\ DOMAIN all = 1 .. n + 2
        /\ \A j \in DOMAIN up : all[j] = up[j]
        /\ all[n + 1] = first /\ all[n + 2] = rest
    BY <2>1, TwoMore
  <2> HIDE DEF all, n
  <2>4. QED
    BY <2>2, <2>3 DEF first
<1>4. \A k \in 1 .. n : up2[k] = up[k]
  BY <1>1, <1>3
<1> HIDE DEF n
<1>6. up2[n + 1] = Item(kind) /\ up2[n + 2] = rest
  BY <1>3
<1>7. up2[n + 1].kind = kind /\ up2[n + 2].kind = "rest"
  BY <1>6 DEF Item
<1>8. \A k, r : Fits(cl, k, r) => Fits(cl2, k, r)
  BY DEF Fits
<1>9. ASSUME NEW j \in 1 .. n + 2
      PROVE  IF j % 2 = 0 THEN up2[j].kind = "rest"
             ELSE up2[j].kind \in Kinds /\ Fits(cl2, up2[j].kind, up2[j + 1])
  <2>1. CASE j \in 1 .. n /\ j % 2 = 0
    BY <2>1, <1>1, <1>4 DEF Whole
  <2>2. CASE j \in 1 .. n /\ j % 2 # 0
    <3>1. j + 1 \in 1 .. n
      BY <2>2, <1>1
    <3>2. up2[j] = up[j] /\ up2[j + 1] = up[j + 1]
      BY <2>2, <3>1, <1>4
    <3>3. up[j].kind \in Kinds /\ Fits(cl, up[j].kind, up[j + 1])
      BY <2>2, <1>1 DEF Whole
    <3>4. QED
      BY <2>2, <3>2, <3>3, <1>8
  <2>3. CASE j = n + 1
    <3>1. (n + 1) % 2 # 0 /\ (n + 1) + 1 = n + 2
      BY <1>1
    <3>2. QED
      BY <2>3, <3>1, <1>6, <1>7
  <2>4. CASE j = n + 2
    <3>1. j % 2 = 0
      BY <2>4, <1>1
    <3>2. QED
      BY <2>4, <3>1, <1>7
  <2>5. j \in 1 .. n \/ j = n + 1 \/ j = n + 2
    BY <1>1
  <2>6. QED
    BY <2>1, <2>2, <2>3, <2>4, <2>5
<1>10. (n + 2) % 2 = 0
  BY <1>1
<1>11. Whole(cl2, up2)
  BY <1>3, <1>9, <1>10 DEF Whole
<1>12. QED
  BY <1>1, <1>3, <1>7, <1>11 DEF n

LEMMA AsksMore ==
  ASSUME NEW cl, NEW cl2, cl.told \subseteq cl2.told, cl2.height = cl.height,
         NEW up \in Seq(ToServer), Whole(cl, up),
         NEW kind \in Kinds, NEW rest \in ToServer, rest.kind = "rest", Fits(cl2, kind, rest),
         NEW up2, up2 = More(up, Item(kind), rest)
  PROVE  /\ kind # "FramebufferUpdateRequest" /\ NoRequest(up) => NoRequest(up2)
         /\ kind # "SetPixelFormat" /\ NoFormat(up) => NoFormat(up2)
         /\ kind \notin {"FramebufferUpdateRequest", "SetPixelFormat"} =>
              \A r \in DOMAIN up : RequestAt(cl, up, r) => r \in DOMAIN up2 /\ RequestAt(cl2, up2, r)
         /\ kind = "FramebufferUpdateRequest" /\ rest.rows = cl2.height /\ NoRequest(up) =>
              \E r \in DOMAIN up2 : RequestAt(cl2, up2, r)
<1> DEFINE n == Len(up)
<1>1. /\ n \in Nat /\ DOMAIN up = 1 .. n /\ DOMAIN up2 = 1 .. n + 2
      /\ up2[n + 1].kind = kind /\ up2[n + 2] = rest
      /\ \A j \in DOMAIN up : up2[j] = up[j]
  BY SaysMore
<1> HIDE DEF n
<1>2. \A j \in DOMAIN up2 : j \in DOMAIN up \/ j = n + 1 \/ (j = n + 2 /\ up2[j].kind = "rest")
  BY <1>1
<1>3. kind # "FramebufferUpdateRequest" /\ NoRequest(up) => NoRequest(up2)
  BY <1>1, <1>2 DEF NoRequest
<1>4. kind # "SetPixelFormat" /\ NoFormat(up) => NoFormat(up2)
  BY <1>1, <1>2 DEF NoFormat
<1>5. ASSUME kind \notin {"FramebufferUpdateRequest", "SetPixelFormat"},
             NEW r \in DOMAIN up, RequestAt(cl, up, r)
      PROVE  r \in DOMAIN up2 /\ RequestAt(cl2, up2, r)
  <2>1. r \in DOMAIN up2 /\ up2[r] = up[r] /\ up[r].kind = "FramebufferUpdateRequest"
    BY <1>1, <1>5 DEF RequestAt
  <2>2. r + 1 \in DOMAIN up
    <3>1. r % 2 # 0
      BY <2>1 DEF Whole
    <3>2. n % 2 = 0
      BY DEF Whole, n
    <3>3. QED
      BY <3>1, <3>2, <1>1
  <2>3. up2[r + 1].rows = cl2.height
    BY <2>2, <1>1, <1>5 DEF RequestAt
  <2>4. ASSUME NEW j \in DOMAIN up2
        PROVE  /\ up2[j].kind = "FramebufferUpdateRequest" => j = r
               /\ up2[j].kind = "SetPixelFormat" => j < r
    <3>1. CASE j \in DOMAIN up
      BY <3>1, <1>1, <1>5 DEF RequestAt
    <3>2. CASE j = n + 1
      BY <3>2, <1>1, <1>5
    <3>3. CASE up2[j].kind = "rest"
      BY <3>3
    <3>4. QED
      BY <3>1, <3>2, <3>3, <1>2
  <2>5. QED
    BY <2>1, <2>3, <2>4 DEF RequestAt
<1>6. ASSUME kind = "FramebufferUpdateRequest", rest.rows = cl2.height, NoRequest(up)
      PROVE  \E r \in DOMAIN up2 : RequestAt(cl2, up2, r)
  <2>1. n + 1 \in DOMAIN up2 /\ (n + 1) + 1 = n + 2
    BY <1>1
  <2>2. up2[n + 1].kind = "FramebufferUpdateRequest" /\ up2[(n + 1) + 1].rows = cl2.height
    BY <1>1, <1>6, <2>1
  <2>3. ASSUME NEW j \in DOMAIN up2
        PROVE  /\ up2[j].kind = "FramebufferUpdateRequest" => j = n + 1
               /\ up2[j].kind = "SetPixelFormat" => j < n + 1
    <3>1. CASE j \in DOMAIN up
      <4>1. j < n + 1 /\ up2[j] = up[j]
        BY <3>1, <1>1
      <4>2. QED
        BY <4>1, <3>1, <1>6 DEF NoRequest
    <3>2. CASE j = n + 1
      BY <3>2, <2>2
    <3>3. CASE up2[j].kind = "rest"
      BY <3>3
    <3>4. QED
      BY <3>1, <3>2, <3>3, <1>2
  <2>4. RequestAt(cl2, up2, n + 1)
    BY <2>1, <2>2, <2>3 DEF RequestAt
  <2>5. QED
    BY <2>1, <2>4
<1>7. QED
  BY <1>3, <1>4, <1>5, <1>6

LEMMA FormatMore ==
  ASSUME NEW cl, NEW cl2, cl.told \subseteq cl2.told,
         NEW up \in Seq(ToServer), Whole(cl, up),
         NEW kind \in Kinds, NEW rest \in ToServer, rest.kind = "rest", Fits(cl2, kind, rest),
         NEW up2, up2 = More(up, Item(kind), rest),
         NEW sv, SameFormat(sv, cl, up),
         IF kind = "SetPixelFormat" THEN rest.pf = cl2.pf ELSE cl2.pf = cl.pf
  PROVE  SameFormat(sv, cl2, up2)
<1> DEFINE n == Len(up)
<1>1. /\ n \in Nat /\ DOMAIN up = 1 .. n /\ DOMAIN up2 = 1 .. n + 2
      /\ up2[n + 1].kind = kind /\ up2[n + 2] = rest
      /\ \A j \in DOMAIN up : up2[j] = up[j]
  BY SaysMore
<1> HIDE DEF n
<1>2. n + 1 \in DOMAIN up2 /\ (n + 1) + 1 = n + 2 /\ \A j \in DOMAIN up : j \in DOMAIN up2 /\ j < n + 1
  BY <1>1
<1>3. \A j \in DOMAIN up2 : j \in DOMAIN up \/ j = n + 1 \/ up2[j].kind = "rest"
  BY <1>1
<1>4. CASE kind = "SetPixelFormat"
  <2>1. ~NoFormat(up2)
    BY <1>1, <1>2, <1>4 DEF NoFormat
  <2>2. ASSUME NEW j \in DOMAIN up2, up2[j].kind = "SetPixelFormat"
        PROVE  up2[j + 1].pf = cl2.pf \/ \E k \in DOMAIN up2 : k > j /\ up2[k].kind = "SetPixelFormat"
    <3>1. CASE j \in DOMAIN up
      <4>1. n + 1 > j /\ up2[n + 1].kind = "SetPixelFormat"
        BY <3>1, <1>1, <1>4
      <4>2. QED
        BY <4>1, <1>2
    <3>2. CASE j = n + 1
      BY <3>2, <1>1, <1>2, <1>4
    <3>3. QED
      BY <3>1, <3>2, <2>2, <1>3
  <2>3. QED
    BY <2>1, <2>2 DEF SameFormat
<1>5. CASE kind # "SetPixelFormat"
  <2>1. NoFormat(up2) => NoFormat(up)
    BY <1>1, <1>2 DEF NoFormat
  <2>2. ASSUME NEW j \in DOMAIN up2, up2[j].kind = "SetPixelFormat"
        PROVE  up2[j + 1].pf = cl2.pf \/ \E k \in DOMAIN up2 : k > j /\ up2[k].kind = "SetPixelFormat"
    <3>1. j \in DOMAIN up /\ up[j].kind = "SetPixelFormat" /\ up2[j] = up[j]
      BY <2>2, <1>1, <1>3, <1>5
    <3>2. CASE up[j + 1].pf = cl.pf
      <4>1. j % 2 # 0
        BY <3>1 DEF Whole
      <4>2. n % 2 = 0
        BY DEF Whole, n
      <4>3. j + 1 \in DOMAIN up
        BY <4>1, <4>2, <3>1, <1>1
      <4>4. QED
        BY <3>2, <4>3, <1>1, <1>5
    <3>3. CASE \E k \in DOMAIN up : k > j /\ up[k].kind = "SetPixelFormat"
      BY <3>3, <1>1, <1>2
    <3>4. QED
      BY <3>1, <3>2, <3>3 DEF SameFormat
  <2>3. QED
    BY <2>1, <2>2, <1>5 DEF SameFormat
<1>6. QED
  BY <1>4, <1>5

-----------------------------------------------------------------------------
(* What the client reads                                                   *)

LEMMA Understood ==
  ASSUME TypeOK, NEW open, NEW q \in Seq(ToClient), q # <<>>, Readable(c, open, q)
  PROVE  /\ Expected(q[1])
         /\ q[1].kind \in {"rect", "cursor"} => q[1].pf = c.pf
         /\ q[1].kind = "cursor" => "cursor" \in c.told
         /\ q[1].kind = "size" => "desktopSize" \in c.told
<1> DEFINE m == q[1]
           n == c.nUpdateRectsLeft
<1>1. /\ 1 \in DOMAIN q /\ DOMAIN q = 1 .. Len(q) /\ Len(q) \in Nat
      /\ m \in ToClient /\ n \in Nat
  BY TailOf, LenProperties, ElementOfSeq DEF TypeOK
<1>2. CASE n = 0 /\ Plain(m)
  BY <1>2 DEF Plain, Expected
<1>3. CASE n = 0 /\ m.kind = "update"
  BY <1>3 DEF Expected
<1>4. CASE n > 0 /\ PartFor(c, m)
  <2>1. m.kind = "rect" => m.encoding \in EncodingsOf
    BY <1>1 DEF ToClient
  <2>2. Expected(m)
    BY <1>4, <2>1 DEF PartFor, Expected, Supported
  <2>3. QED
    BY <1>4, <2>2 DEF PartFor
<1>5. CASE Quiet(c, q)
  BY <1>1, <1>2, <1>5 DEF Quiet
<1>6. CASE n > 0 /\ UpdateParts(c, open, q, 0, n)
  <2>1. 1 \in 0 + 1 .. 0 + n
    BY <1>1, <1>6
  <2>2. PartAt(c, m, 1, 0 + n)
    BY <1>1, <1>6, <2>1 DEF UpdateParts
  <2>3. QED
    BY <1>4, <1>6, <2>2 DEF PartAt
<1>7. CASE n = 0 /\ \E b \in DOMAIN q : HeaderAt(c, open, q, b)
  <2>1. PICK b \in DOMAIN q : HeaderAt(c, open, q, b)
    BY <1>7
  <2>2. CASE b = 1
    BY <1>3, <1>7, <2>1, <2>2 DEF HeaderAt
  <2>3. CASE b # 1
    <3>1. q[b] \in ToClient /\ q[b].kind = "update" /\ b \in Nat /\ b > 1
      BY <1>1, <2>1, <2>3, ElementOfSeq DEF HeaderAt
    <3>2. q[b].nRects \in Nat
      BY <3>1 DEF ToClient
    <3>3. 1 \notin b + 1 .. b + q[b].nRects
      BY <3>1
    <3>4. Plain(m)
      BY <1>1, <2>1, <2>3, <3>3 DEF HeaderAt, UpdateParts
    <3>5. QED
      BY <1>2, <1>7, <3>4
  <2>4. QED
    BY <2>2, <2>3
<1>8. QED
  BY <1>5, <1>6, <1>7 DEF Readable, Showing

(* The client once it has read m. *)
AfterReading(m) ==
  CASE m.kind = "update" -> [c EXCEPT !.nUpdateRectsLeft = m.nRects]
    [] m.kind = "rect" -> RectRead(c)
    [] m.kind = "cursor" -> RectRead([c EXCEPT !.cursor = m.cursor])
    [] m.kind = "size" -> RectRead([c EXCEPT !.height = m.height])
    [] OTHER -> c

LEMMA AfterPlain ==
  ASSUME NEW m, Plain(m) PROVE AfterReading(m) = c
BY DEF Plain, AfterReading

LEMMA AfterPart ==
  ASSUME TypeOK, NEW m \in ToClient, PartFor(c, m)
  PROVE  LET a == AfterReading(m)
         IN  /\ a.nUpdateRectsLeft = c.nUpdateRectsLeft - 1
             /\ a.waiting <=> c.waiting /\ c.nUpdateRectsLeft > 1
             /\ a.pf = c.pf /\ a.told = c.told /\ a.state = c.state
             /\ m.kind # "size" => a.height = c.height
<1>1. c \in [state : {"NORMAL", "INVALID"}, height : Row, pf : Formats, nUpdateRectsLeft : Nat,
             waiting : BOOLEAN, cursor : Nat, told : SUBSET Encodings,
             preferred : EncodingsOf, stalled : BOOLEAN]
  BY DEF TypeOK
<1>2. CASE m.kind = "rect"
  BY <1>1, <1>2 DEF AfterReading, RectRead
<1>3. CASE m.kind = "cursor"
  BY <1>1, <1>3 DEF AfterReading, RectRead
<1>4. CASE m.kind = "size"
  BY <1>1, <1>4 DEF AfterReading, RectRead
<1>5. QED
  BY <1>2, <1>3, <1>4 DEF PartFor

(* A client, whatever number of rectangles it counts. *)
Client(numbers) ==
  [state : {"NORMAL", "INVALID"}, height : Row, pf : Formats, nUpdateRectsLeft : numbers,
   waiting : BOOLEAN, cursor : Nat, told : SUBSET Encodings,
   preferred : EncodingsOf, stalled : BOOLEAN]

LEMMA RectReadTyped ==
  ASSUME NEW client \in Client(Nat) PROVE RectRead(client) \in Client(Int)
<1> DEFINE n == client.nUpdateRectsLeft - 1
           w == client.waiting /\ client.nUpdateRectsLeft > 1
<1>1. n \in Int /\ w \in BOOLEAN
  BY DEF Client
<1>2. RectRead(client) = [client EXCEPT !.nUpdateRectsLeft = n, !.waiting = w]
  BY DEF RectRead
<1> HIDE DEF n, w
<1>3. QED
  BY <1>1, <1>2 DEF Client

LEMMA AfterTyped ==
  ASSUME TypeOK, NEW m \in ToClient
  PROVE  AfterReading(m) \in Client(Int)
<1>1. c \in Client(Nat) /\ c \in Client(Int)
  BY DEF TypeOK, Client
<1>2. CASE m.kind = "rect"
  BY <1>1, <1>2, RectReadTyped DEF AfterReading
<1>3. CASE m.kind = "cursor"
  <2>1. m.cursor \in Nat
    BY <1>3 DEF ToClient
  <2>2. [c EXCEPT !.cursor = m.cursor] \in Client(Nat)
    BY <1>1, <2>1 DEF Client
  <2>3. AfterReading(m) = RectRead([c EXCEPT !.cursor = m.cursor])
    BY <1>3 DEF AfterReading
  <2>4. QED
    BY <2>2, <2>3, RectReadTyped
<1>4. CASE m.kind = "size"
  <2>1. m.height \in Row
    BY <1>4 DEF ToClient
  <2>2. [c EXCEPT !.height = m.height] \in Client(Nat)
    BY <1>1, <2>1 DEF Client
  <2>3. AfterReading(m) = RectRead([c EXCEPT !.height = m.height])
    BY <1>4 DEF AfterReading
  <2>4. QED
    BY <2>2, <2>3, RectReadTyped
<1>5. CASE m.kind = "update"
  <2>1. m.nRects \in Int
    BY <1>5 DEF ToClient
  <2>2. AfterReading(m) = [c EXCEPT !.nUpdateRectsLeft = m.nRects]
    BY <1>5 DEF AfterReading
  <2>3. QED
    BY <1>1, <2>1, <2>2 DEF Client
<1>6. CASE m.kind \notin {"update", "rect", "cursor", "size"}
  BY <1>1, <1>6 DEF AfterReading
<1>7. QED
  BY <1>2, <1>3, <1>4, <1>5, <1>6

LEMMA PartsTail ==
  ASSUME NEW cl, NEW cl2, cl2.pf = cl.pf, cl2.told = cl.told, cl2.height = cl.height,
         NEW open, NEW q \in Seq(ToClient), q # <<>>,
         NEW b \in Nat, NEW n \in Nat, NEW b2 \in Nat, NEW n2 \in Nat,
         UpdateParts(cl, open, q, b, n),
         \/ b > 0 /\ b2 = b - 1 /\ n2 = n
         \/ b = 0 /\ n > 0 /\ b2 = 0 /\ n2 = n - 1
  PROVE  UpdateParts(cl2, open, Tail(q), b2, n2)
<1>1. /\ Len(q) \in Nat /\ Len(Tail(q)) = Len(q) - 1
      /\ DOMAIN Tail(q) = 1 .. Len(q) - 1
      /\ \A i \in DOMAIN Tail(q) : i + 1 \in DOMAIN q /\ Tail(q)[i] = q[i + 1]
  BY TailOf
<1>2. \A m : PartFor(cl, m) => PartFor(cl2, m)
  BY DEF PartFor
<1>3. ASSUME NEW k \in DOMAIN Tail(q)
      PROVE  IF k \in b2 + 1 .. b2 + n2 THEN PartAt(cl2, Tail(q)[k], k, b2 + n2)
             ELSE k = b2 \/ Plain(Tail(q)[k])
  <2>1. k \in Nat /\ k > 0 /\ k + 1 \in DOMAIN q /\ Tail(q)[k] = q[k + 1]
    BY <1>1
  <2>2. CASE k \in b2 + 1 .. b2 + n2
    <3>1. k + 1 \in b + 1 .. b + n /\ (k + 1 = b + n <=> k = b2 + n2)
      BY <2>1, <2>2
    <3>2. PartAt(cl, q[k + 1], k + 1, b + n)
      BY <2>1, <3>1 DEF UpdateParts
    <3>3. QED
      BY <2>1, <2>2, <3>1, <3>2, <1>2 DEF PartAt
  <2>3. CASE k \notin b2 + 1 .. b2 + n2
    <3>1. k + 1 \notin b + 1 .. b + n /\ (k + 1 = b => k = b2)
      BY <2>1, <2>3
    <3>2. k + 1 = b \/ Plain(q[k + 1])
      BY <2>1, <3>1 DEF UpdateParts
    <3>3. QED
      BY <2>1, <2>3, <3>1, <3>2
  <2>4. QED
    BY <2>2, <2>3
<1>4. open => b2 + n2 <= Len(Tail(q))
  <2>1. open => b + n <= Len(q)
    BY DEF UpdateParts
  <2>2. QED
    BY <1>1, <2>1
<1>5. QED
  BY <1>3, <1>4 DEF UpdateParts

(* A client that waits for nothing still waits for nothing after it has    *)
(* read, and one that waits for an update comes to its end.                *)
LEMMA ReadsOn ==
  ASSUME TypeOK, NEW open, NEW q \in Seq(ToClient), q # <<>>, Readable(c, open, q)
  PROVE  LET a == AfterReading(q[1])
         IN  /\ a.pf = c.pf /\ a.told = c.told /\ a.state = c.state /\ a.nUpdateRectsLeft \in Nat
             /\ Quiet(c, q) => a = c /\ Quiet(a, Tail(q))
             /\ c.waiting /\ Showing(c, open, q) =>
                  \/ a.waiting /\ Showing(a, open, Tail(q))
                  \/ ~a.waiting /\ Quiet(a, Tail(q))
<1> DEFINE m == q[1]
           n == c.nUpdateRectsLeft
           a == AfterReading(m)
           left == Tail(q)
<1>1. /\ 1 \in DOMAIN q /\ DOMAIN q = 1 .. Len(q) /\ Len(q) \in Nat /\ m \in ToClient /\ n \in Nat
      /\ left \in Seq(ToClient) /\ DOMAIN left = 1 .. Len(q) - 1
      /\ \A i \in DOMAIN left : i + 1 \in DOMAIN q /\ left[i] = q[i + 1]
  BY TailOf, LenProperties, ElementOfSeq DEF TypeOK
<1>2. ASSUME Quiet(c, q)
      PROVE  a = c /\ Quiet(a, left)
  <2>1. a = c
    BY <1>1, <1>2, AfterPlain DEF Quiet
  <2>2. Quiet(c, left)
    BY <1>1, <1>2 DEF Quiet
  <2>3. QED
    BY <2>1, <2>2
<1>3. ASSUME c.waiting, n > 0, UpdateParts(c, open, q, 0, n)
      PROVE  /\ a.pf = c.pf /\ a.told = c.told /\ a.state = c.state /\ a.nUpdateRectsLeft \in Nat
             /\ \/ a.waiting /\ Showing(a, open, left)
                \/ ~a.waiting /\ Quiet(a, left)
  <2>1. 1 \in 0 + 1 .. 0 + n
    BY <1>1, <1>3
  <2>2. PartAt(c, m, 1, 0 + n)
    BY <1>1, <1>3, <2>1 DEF UpdateParts
  <2>3. PartFor(c, m) /\ (m.kind = "size" => n = 1)
    BY <1>1, <2>2 DEF PartAt
  <2>4. /\ a.nUpdateRectsLeft = n - 1 /\ (a.waiting <=> n > 1)
        /\ a.pf = c.pf /\ a.told = c.told /\ a.state = c.state
        /\ m.kind # "size" => a.height = c.height
    BY <1>1, <1>3, <2>3, AfterPart
  <2>5. CASE n = 1
    <3>1. ~a.waiting /\ a.nUpdateRectsLeft = 0
      BY <2>4, <2>5
    <3>2. ASSUME NEW k \in DOMAIN left PROVE Plain(left[k])
      <4>1. k + 1 \in DOMAIN q /\ left[k] = q[k + 1] /\ k + 1 \notin 0 + 1 .. 0 + n /\ k + 1 # 0
        BY <1>1, <2>5
      <4>2. QED
        BY <1>3, <4>1 DEF UpdateParts
    <3> HIDE DEF a, left
    <3>3. Quiet(a, left)
      BY <3>1, <3>2 DEF Quiet
    <3>4. a.nUpdateRectsLeft \in Nat
      BY <3>1
    <3>5. QED
      BY <2>4, <3>1, <3>3, <3>4
  <2>6. CASE n > 1
    <3>1. a.waiting /\ a.nUpdateRectsLeft = n - 1 /\ a.height = c.height /\ n - 1 \in Nat /\ n - 1 > 0
      BY <1>1, <2>3, <2>4, <2>6
    <3>2. UpdateParts(a, open, left, 0, n - 1)
      BY <1>1, <1>3, <2>4, <3>1, PartsTail
    <3>3. QED
      BY <2>4, <3>1, <3>2 DEF Showing
  <2>7. QED
    BY <2>5, <2>6, <1>1, <1>3
<1>4. ASSUME c.waiting, n = 0, NEW b \in DOMAIN q, HeaderAt(c, open, q, b)
      PROVE  /\ a.pf = c.pf /\ a.told = c.told /\ a.state = c.state /\ a.nUpdateRectsLeft \in Nat
             /\ a.waiting /\ Showing(a, open, left)
  <2>1. b \in Nat /\ b > 0 /\ q[b] \in ToClient /\ q[b].kind = "update" /\ q[b].nRects > 0
        /\ UpdateParts(c, open, q, b, q[b].nRects)
    BY <1>1, <1>4, ElementOfSeq DEF HeaderAt
  <2>2. q[b].nRects \in Nat
    BY <2>1 DEF ToClient
  <2>3. c \in Client(Nat)
    BY DEF TypeOK, Client
  <2>4. CASE b = 1
    <3>1. a = [c EXCEPT !.nUpdateRectsLeft = m.nRects]
      BY <2>1, <2>4 DEF AfterReading
    <3>2. /\ a.pf = c.pf /\ a.told = c.told /\ a.state = c.state /\ a.height = c.height
          /\ a.waiting = c.waiting /\ a.nUpdateRectsLeft = m.nRects
      BY <2>3, <3>1 DEF Client
    <3>3. UpdateParts(a, open, left, 0, m.nRects)
      BY <2>1, <2>2, <2>4, <3>2, PartsTail
    <3>4. QED
      BY <1>4, <2>1, <2>2, <2>4, <3>2, <3>3 DEF Showing
  <2>5. CASE b # 1
    <3>1. 1 \notin b + 1 .. b + q[b].nRects
      BY <2>1, <2>2, <2>5
    <3>2. Plain(m)
      BY <1>1, <2>1, <2>5, <3>1 DEF UpdateParts
    <3>3. a = c
      BY <3>2, AfterPlain
    <3>4. b - 1 \in DOMAIN left /\ b - 1 \in Nat /\ left[b - 1] = q[b]
      <4>1. b - 1 \in DOMAIN left /\ b - 1 \in Nat /\ (b - 1) + 1 = b
        BY <1>1, <1>4, <2>1, <2>5
      <4>2. left[b - 1] = q[(b - 1) + 1]
        BY <1>1, <4>1
      <4>3. QED
        BY <4>1, <4>2
    <3>5. UpdateParts(c, open, left, b - 1, q[b].nRects)
      BY <2>1, <2>2, <3>4, PartsTail
    <3>6. HeaderAt(c, open, left, b - 1)
      BY <2>1, <3>4, <3>5 DEF HeaderAt
    <3>7. Showing(c, open, left)
      BY <1>4, <3>4, <3>6 DEF Showing
    <3>8. QED
      BY <1>1, <1>4, <3>3, <3>7
  <2>6. QED
    BY <2>4, <2>5
<1>5. QED
  BY <1>1, <1>2, <1>3, <1>4 DEF Readable, Showing

-----------------------------------------------------------------------------
(* What the server writes                                                  *)

Server ==
  [state : {"NORMAL", "CLOSING"}, height : Row, pf : Formats,
   local : BOOLEAN, resize : BOOLEAN, encoding : EncodingsOf,
   requested : {0} \cup Row, changed : SUBSET Row, wsccb : BOOLEAN,
   needSetDesktopSize : BOOLEAN, cursor : Nat, reading : {"none"} \cup Kinds]

LEMMA UpdateFollows ==
  ASSUME SizeAssumption, c \in Client(Nat), NEW conn \in Server,
         NEW down \in Seq(ToClient), NEW items \in Seq(ToClient), NEW rows \in SUBSET Row,
         \A k \in DOMAIN items : Plain(items[k]), Quiet(c, down), Told(conn, c),
         conn.pf = c.pf, \A row \in rows : row <= c.height, rows # {} \/ needFakeUpdate(conn)
  PROVE  /\ items \o Update(conn, rows) \in Seq(ToClient)
         /\ Showing(c, TRUE, down \o (items \o Update(conn, rows)))
<1> DEFINE upd == Update(conn, rows)
<1>1. upd \in Seq(ToClient) /\ Fitting(c, upd)
  BY UpdateFits DEF Server, Told
<1> HIDE DEF upd
<1>2. Quiet(c, down \o items) /\ down \o items \in Seq(ToClient)
  BY QuietAppends, Joined
<1>3. Showing(c, TRUE, (down \o items) \o upd)
  BY <1>1, <1>2, ShowingBegins
<1>4. (down \o items) \o upd = down \o (items \o upd) /\ items \o upd \in Seq(ToClient)
  BY <1>1, ConcatAssociative, Joined
<1>5. QED
  BY <1>3, <1>4 DEF upd

LEMMA Writes ==
  ASSUME SizeAssumption, c \in Client(Nat), NEW conn \in Server,
         NEW down \in Seq(ToClient), NEW items \in Seq(ToClient), NEW up,
         \A k \in DOMAIN items : Plain(items[k]),
         OpenInv(conn, c, up, down), writeFramebufferUpdate(conn, items)
  PROVE  /\ s' \in Server /\ sOut' \in Seq(ToClient)
         /\ s'.state = conn.state /\ s'.reading = conn.reading
         /\ OpenInv(s', c, up, down \o sOut')
<1> DEFINE rows == conn.changed \cap 1 .. conn.requested
           idle == conn.requested = 0 \/ (rows = {} /\ ~needFakeUpdate(conn))
<1>1. CASE idle
  <2>1. s' = conn /\ sOut' = items
    BY <1>1 DEF writeFramebufferUpdate
  <2>2. Quiet(c, down) => Quiet(c, down \o items)
    BY QuietAppends
  <2>3. Showing(c, TRUE, down) => Showing(c, TRUE, down \o items)
    BY ShowingAppends DEF Client
  <2>4. Asking(conn, c, up, down \o items)
    BY <2>2, <2>3 DEF OpenInv, Asking
  <2>5. QED
    BY <2>1, <2>4 DEF OpenInv
<1>2. CASE ~idle
  <2> DEFINE after == [conn EXCEPT !.changed = @ \ rows, !.requested = 0,
                                   !.wsccb = FALSE, !.needSetDesktopSize = FALSE]
  <2>1. s' = after /\ sOut' = items \o Update(conn, rows)
    BY <1>2 DEF writeFramebufferUpdate
  <2>2. /\ after \in Server /\ after.state = conn.state /\ after.reading = conn.reading
        /\ after.requested = 0 /\ after.pf = conn.pf
        /\ after.local = conn.local /\ after.resize = conn.resize
        /\ ~after.wsccb /\ ~after.needSetDesktopSize
    <3> HIDE DEF rows, idle
    <3>1. QED
      BY DEF Server
  <2>3. /\ c.waiting /\ Quiet(c, down) /\ conn.requested \in 1 .. c.height
        /\ NoRequest(up) /\ NoFormat(up)
    BY <1>2 DEF OpenInv, Asking
  <2>4. conn.pf = c.pf /\ Told(conn, c)
    BY <2>3 DEF OpenInv, SameFormat
  <2>5. rows \in SUBSET Row /\ \A row \in rows : row <= c.height
    <3>1. c.height \in Row /\ conn.changed \in SUBSET Row
      BY DEF Client, Server
    <3>2. \A row \in rows : row <= c.height
      BY <2>3, <3>1 DEF Row, SizeAssumption
    <3>3. QED
      BY <3>1, <3>2
  <2> HIDE DEF after
  <2>6. sOut' \in Seq(ToClient) /\ Showing(c, TRUE, down \o sOut')
    <3>1. rows # {} \/ needFakeUpdate(conn)
      BY <1>2
    <3> HIDE DEF rows, idle
    <3>2. QED
      BY <2>1, <2>3, <2>4, <2>5, <3>1, UpdateFollows
  <2>7. Asking(after, c, up, down \o sOut')
    BY <2>2, <2>3, <2>6 DEF Asking
  <2>8. SameFormat(after, c, up) /\ Told(after, c) /\ Whole(c, up)
    BY <2>2, <2>4 DEF OpenInv, SameFormat, Told
  <2>9. QED
    BY <2>1, <2>2, <2>6, <2>7, <2>8 DEF OpenInv
<1>3. QED
  BY <1>1, <1>2

(* The server's state may change in what the client does not depend on.    *)
LEMMA SameServer ==
  ASSUME NEW sv, NEW sv2, NEW cl, NEW up, NEW down,
         OpenInv(sv, cl, up, down), sv2.requested = sv.requested, sv2.pf = sv.pf,
         Told(sv2, cl)
  PROVE  OpenInv(sv2, cl, up, down)
BY DEF OpenInv, Asking, SameFormat

LEMMA CursorWrites ==
  ASSUME SizeAssumption, c \in Client(Nat), NEW conn \in Server,
         NEW down \in Seq(ToClient), NEW items \in Seq(ToClient), NEW up,
         \A k \in DOMAIN items : Plain(items[k]),
         OpenInv(conn, c, up, down), CursorSet(conn, items)
  PROVE  /\ s' \in Server /\ sOut' \in Seq(ToClient)
         /\ s'.state = conn.state /\ s'.reading = conn.reading
         /\ OpenInv(s', c, up, down \o sOut')
<1>1. CASE conn.local
  <2> DEFINE next == [conn EXCEPT !.wsccb = TRUE]
  <2>1. /\ next \in Server /\ next.state = conn.state /\ next.reading = conn.reading
        /\ next.requested = conn.requested /\ next.pf = conn.pf
        /\ next.local = conn.local /\ next.resize = conn.resize
        /\ next.needSetDesktopSize = conn.needSetDesktopSize
    BY DEF Server
  <2>2. writeFramebufferUpdate(next, items)
    BY <1>1 DEF CursorSet
  <2> HIDE DEF next
  <2>3. Told(next, c)
    BY <1>1, <2>1 DEF OpenInv, Told
  <2>4. OpenInv(next, c, up, down)
    BY <2>1, <2>3, SameServer
  <2>5. QED
    BY <2>1, <2>2, <2>4, Writes
<1>2. CASE ~conn.local
  <2>1. s' = conn /\ sOut' = items
    BY <1>2 DEF CursorSet
  <2>2. Quiet(c, down) => Quiet(c, down \o items)
    BY QuietAppends
  <2>3. Showing(c, TRUE, down) => Showing(c, TRUE, down \o items)
    BY ShowingAppends DEF Client
  <2>4. Asking(conn, c, up, down \o items)
    BY <2>2, <2>3 DEF OpenInv, Asking
  <2>5. QED
    BY <2>1, <2>4 DEF OpenInv
<1>3. QED
  BY <1>1, <1>2

-----------------------------------------------------------------------------
(* What is under way                                                       *)

LEMMA HeadAndTail ==
  ASSUME NEW S, NEW q \in Seq(S), q # <<>>
  PROVE  q = <<Head(q)>> \o Tail(q)
<1> DEFINE one == <<Head(q)>>
           both == one \o Tail(q)
<1>1. /\ Head(q) = q[1] /\ Head(q) \in S /\ Tail(q) \in Seq(S) /\ Len(q) \in Nat /\ Len(q) > 0
      /\ Len(Tail(q)) = Len(q) - 1
      /\ \A i \in 1 .. Len(q) - 1 : Tail(q)[i] = q[i + 1]
  BY TailOf
<1>2. one \in Seq(S) /\ Len(one) = 1 /\ one[1] = q[1]
  BY <1>1
<1> HIDE DEF one
<1>3. both \in Seq(S) /\ Len(both) = Len(one) + Len(Tail(q))
      /\ (\A k \in 1 .. Len(one) : both[k] = one[k])
      /\ (\A k \in Len(one) + 1 .. Len(one) + Len(Tail(q)) : both[k] = Tail(q)[k - Len(one)])
  <2>1. one \in Seq(S) /\ Tail(q) \in Seq(S)
    BY <1>1, <1>2
  <2>2. QED
    BY <2>1, Joined
<1> HIDE DEF both
<1>4. Len(both) = Len(q)
  BY <1>1, <1>2, <1>3
<1>5. ASSUME NEW k \in 1 .. Len(q) PROVE both[k] = q[k]
  <2>1. CASE k = 1
    <3>1. 1 \in 1 .. Len(one)
      BY <1>2
    <3>2. QED
      BY <2>1, <3>1, <1>2, <1>3
  <2>2. CASE k # 1
    <3>1. k - 1 \in 1 .. Len(q) - 1 /\ (k - 1) + 1 = k /\ k \in 1 + 1 .. 1 + (Len(q) - 1)
      BY <2>2, <1>1
    <3>2. both[k] = Tail(q)[k - 1]
      BY <3>1, <1>1, <1>2, <1>3
    <3>3. Tail(q)[k - 1] = q[(k - 1) + 1]
      BY <3>1, <1>1
    <3>4. QED
      BY <3>1, <3>2, <3>3
  <2>3. QED
    BY <2>1, <2>2
<1>6. both = q
  BY <1>3, <1>4, <1>5, SeqEqual
<1>7. QED
  BY <1>6 DEF both, one

LEMMA FirstOf ==
  ASSUME NEW S, NEW x \in S, NEW q \in Seq(S)
  PROVE  /\ <<x>> \o q \in Seq(S) /\ <<x>> \o q # <<>>
         /\ (<<x>> \o q)[1] = x /\ Tail(<<x>> \o q) = q
<1> DEFINE one == <<x>>
           all == one \o q
<1>1. one \in Seq(S) /\ Len(one) = 1 /\ one[1] = x
  OBVIOUS
<1> HIDE DEF one
<1>2. /\ all \in Seq(S) /\ Len(all) = Len(one) + Len(q)
      /\ \A k \in 1 .. Len(one) : all[k] = one[k]
      /\ \A k \in 1 .. Len(q) : all[Len(one) + k] = q[k]
  <2>1. one \in Seq(S)
    BY <1>1
  <2>2. QED
    BY <2>1, Joined
<1>3. Len(q) \in Nat
  BY LenProperties
<1> HIDE DEF all
<1>4. Len(all) = 1 + Len(q) /\ Len(all) # 0
  BY <1>1, <1>2, <1>3
<1>5. all # <<>>
  BY <1>4
<1>6. all[1] = x
  <2>1. 1 \in 1 .. Len(one)
    BY <1>1
  <2>2. QED
    BY <2>1, <1>1, <1>2
<1>7. /\ Tail(all) \in Seq(S) /\ Len(Tail(all)) = Len(all) - 1
      /\ \A i \in 1 .. Len(all) - 1 : Tail(all)[i] = all[i + 1]
  BY <1>2, <1>5, TailOf
<1>8. \A k \in 1 .. Len(q) : Tail(all)[k] = q[k]
  <2>1. TAKE k \in 1 .. Len(q)
  <2>2. k \in 1 .. Len(all) - 1 /\ k + 1 = 1 + k
    BY <1>3, <1>4
  <2>3. Tail(all)[k] = all[1 + k]
    BY <2>2, <1>7
  <2>4. QED
    BY <2>3, <1>1, <1>2
<1>9. Len(Tail(all)) = Len(q)
  BY <1>3, <1>4, <1>7
<1>10. Tail(all) = q
  BY <1>7, <1>8, <1>9, SeqEqual
<1>11. QED
  BY <1>2, <1>5, <1>6, <1>10 DEF all, one

(* An item goes from the end of one queue to the front of the next.        *)
LEMMA MovesOn ==
  ASSUME NEW S, NEW p \in Seq(S), NEW q \in Seq(S), q # <<>>
  PROVE  Append(p, Head(q)) \o Tail(q) = p \o q
<1> DEFINE one == <<Head(q)>>
           rest == Tail(q)
<1>1. Head(q) \in S /\ rest \in Seq(S)
  BY TailOf
<1>2. one \in Seq(S) /\ Append(p, Head(q)) = p \o one
  BY <1>1, AppendIsConcat
<1>3. q = one \o rest
  BY HeadAndTail
<1> HIDE DEF one, rest
<1>4. (p \o one) \o rest = p \o (one \o rest)
  <2>1. one \in Seq(S)
    BY <1>2
  <2>2. QED
    BY <1>1, <2>1, ConcatAssociative
<1>5. QED
  BY <1>2, <1>3, <1>4 DEF rest

LEMMA Typed ==
  TypeOK <=>
    /\ pb \in Row /\ s \in Server /\ c \in Client(Nat)
    /\ sOut \in Seq(ToClient) /\ toClient \in Seq(ToClient)
    /\ cOut \in Seq(ToServer) /\ toServer \in Seq(ToServer)
BY DEF TypeOK, Server, Client

LEMMA Ways ==
  ASSUME TypeOK
  PROVE  /\ Down \in Seq(ToClient) /\ Up \in Seq(ToServer)
         /\ sOut = <<>> => Down = toClient
         /\ s.reading = "none" => Up = toServer \o cOut
<1>1. /\ sOut \in Seq(ToClient) /\ toClient \in Seq(ToClient) /\ s \in Server
      /\ cOut \in Seq(ToServer) /\ toServer \in Seq(ToServer)
  BY Typed
<1>2. Down \in Seq(ToClient) /\ (sOut = <<>> => Down = toClient)
  BY <1>1, Joined, ConcatEmptySeq DEF Down
<1>3. CASE s.reading = "none"
  <2>1. Up = (<<>> \o toServer) \o cOut
    BY <1>3 DEF Up
  <2>2. <<>> \o toServer = toServer
    BY <1>1, ConcatEmptySeq
  <2>3. Up = toServer \o cOut /\ toServer \o cOut \in Seq(ToServer)
    BY <1>1, <2>1, <2>2, Joined
  <2>4. QED
    BY <1>2, <2>3
<1>4. CASE s.reading # "none"
  <2>1. Up = (<<Item(s.reading)>> \o toServer) \o cOut
    BY <1>4 DEF Up
  <2>2. Item(s.reading) \in ToServer
    BY <1>1, <1>4 DEF Server, Item, ToServer
  <2>3. <<Item(s.reading)>> \o toServer \in Seq(ToServer)
    BY <1>1, <2>2, FirstOf
  <2>4. Up \in Seq(ToServer)
    BY <1>1, <2>1, <2>3, ConcatProperties
  <2>5. QED
    BY <1>2, <1>4, <2>4
<1>5. QED
  BY <1>3, <1>4

(* What the server has begun to read. *)
LEMMA Begun ==
  ASSUME TypeOK, s.reading # "none", toServer # <<>>
  PROVE  /\ Up # <<>> /\ Up[1] = Item(s.reading) /\ Up[2] = Head(toServer)
         /\ Tail(Tail(Up)) = Tail(toServer) \o cOut
<1> DEFINE x == Item(s.reading)
           y == Head(toServer)
           left == Tail(toServer)
           rest == left \o cOut
           sent == <<y>> \o rest
<1>1. s \in Server /\ cOut \in Seq(ToServer) /\ toServer \in Seq(ToServer)
  BY Typed
<1>2. x \in ToServer
  BY <1>1 DEF Server, Item, ToServer
<1>3. y \in ToServer /\ left \in Seq(ToServer)
  BY <1>1, TailOf
<1>4. rest \in Seq(ToServer)
  BY <1>1, <1>3, ConcatProperties
<1>5. toServer = <<y>> \o left
  BY <1>1, HeadAndTail
<1>6. Up = (<<x>> \o toServer) \o cOut
  BY DEF Up
<1> HIDE DEF x, y, left
<1>7. <<x>> \in Seq(ToServer) /\ <<y>> \in Seq(ToServer)
  BY <1>2, <1>3
<1> DEFINE xs == <<x>>
           ys == <<y>>
<1>8. xs \in Seq(ToServer) /\ ys \in Seq(ToServer)
  BY <1>7
<1>9. (xs \o toServer) \o cOut = xs \o (toServer \o cOut) /\ (ys \o left) \o cOut = ys \o (left \o cOut)
  <2> HIDE DEF xs, ys
  <2>1. (xs \o toServer) \o cOut = xs \o (toServer \o cOut)
    BY <1>1, <1>8, ConcatAssociative
  <2>2. (ys \o left) \o cOut = ys \o (left \o cOut)
    BY <1>1, <1>3, <1>8, ConcatAssociative
  <2>3. QED
    BY <2>1, <2>2
<1>10. Up = <<x>> \o sent
  BY <1>5, <1>6, <1>9
<1> HIDE DEF rest
<1>11. sent \in Seq(ToServer) /\ sent # <<>> /\ sent[1] = y /\ Tail(sent) = rest
  BY <1>3, <1>4, FirstOf
<1> HIDE DEF sent
<1>12. /\ <<x>> \o sent \in Seq(ToServer) /\ <<x>> \o sent # <<>>
       /\ (<<x>> \o sent)[1] = x /\ Tail(<<x>> \o sent) = sent
  BY <1>2, <1>11, FirstOf
<1>13. Up \in Seq(ToServer) /\ Up # <<>> /\ Up[1] = x /\ Tail(Up) = sent
  BY <1>10, <1>12
<1>14. Up[2] = y
  <2>1. /\ DOMAIN Tail(Up) = 1 .. Len(Up) - 1
        /\ \A i \in DOMAIN Tail(Up) : Tail(Up)[i] = Up[i + 1]
    BY <1>13, TailOf
  <2>2. 1 \in DOMAIN Tail(Up) /\ 1 + 1 = 2
    BY <1>11, <1>13, TailOf
  <2>3. Tail(Up)[1] = Up[1 + 1]
    BY <2>1, <2>2
  <2>4. QED
    BY <2>2, <2>3, <1>11, <1>13
<1>15. QED
  BY <1>11, <1>13, <1>14 DEF x, y, rest, left

-----------------------------------------------------------------------------
(* The steps of the server                                                 *)

LEMMA ServerWritesKeeps ==
  ASSUME SizeAssumption, IInv, ServerWrites PROVE IInv'
<1>1. /\ TypeOK /\ Open /\ sOut # <<>> /\ s.reading = "none" /\ OpenInv(s, c, Up, Down)
  BY DEF IInv, ServerWrites, Open
<1>2. sOut \in Seq(ToClient) /\ toClient \in Seq(ToClient)
  BY <1>1, Typed
<1>3. Head(sOut) \in ToClient /\ Tail(sOut) \in Seq(ToClient)
  BY <1>1, <1>2, TailOf
<1>4. sOut' \in Seq(ToClient) /\ toClient' \in Seq(ToClient)
  BY <1>2, <1>3, AppendProperties DEF ServerWrites
<1>5. Down' = Down
  BY <1>1, <1>2, MovesOn DEF ServerWrites, Down
<1>6. Up' = Up /\ UNCHANGED <<pb, s, c, cOut, toServer>>
  BY DEF ServerWrites, Up
<1>7. TypeOK'
  BY <1>1, <1>4, <1>6 DEF TypeOK
<1>8. QED
  BY <1>1, <1>5, <1>6, <1>7 DEF IInv, Open

LEMMA ReadTypeKeeps ==
  ASSUME SizeAssumption, IInv, ReadType PROVE IInv'
<1>1. /\ TypeOK /\ Open /\ sOut = <<>> /\ s.reading = "none" /\ OpenInv(s, c, Up, Down)
      /\ toServer # <<>>
  BY DEF IInv, ReadType, ServerFree, Open
<1>2. s \in Server /\ toServer \in Seq(ToServer) /\ cOut \in Seq(ToServer)
  BY <1>1, Typed
<1> DEFINE m == Head(toServer)
<1>3. /\ m \in ToServer /\ Tail(toServer) \in Seq(ToServer) /\ m = toServer[1]
      /\ Len(toServer) \in Nat /\ Len(toServer) > 0
  BY <1>1, <1>2, TailOf
<1>4. Up = toServer \o cOut /\ Up \in Seq(ToServer)
  BY <1>1, Ways
<1>5. Up[1] = m /\ Up # <<>>
  <2>1. 1 \in 1 .. Len(toServer)
    BY <1>3
  <2>2. (toServer \o cOut)[1] = toServer[1] /\ Len(toServer \o cOut) = Len(toServer) + Len(cOut)
    BY <1>2, <2>1, Joined
  <2>3. Len(Up) # 0
    BY <1>2, <1>3, <1>4, <2>2, LenProperties
  <2>4. QED
    BY <1>3, <1>4, <2>2, <2>3
<1>6. m.kind \in Kinds
  BY <1>1, <1>4, <1>5, WholeFront DEF OpenInv
<1>7. m = Item(m.kind)
  BY <1>3, <1>6 DEF ToServer, Kinds, Item
<1> HIDE DEF m
<1>8. /\ s' = [s EXCEPT !.reading = m.kind] /\ toServer' = Tail(toServer)
      /\ UNCHANGED <<pb, sOut, toClient, c, cOut>>
  BY DEF ReadType, m
<1>9. /\ s' \in Server /\ s'.reading = m.kind /\ s'.state = s.state
      /\ s'.requested = s.requested /\ s'.pf = s.pf
      /\ s'.local = s.local /\ s'.resize = s.resize /\ s'.wsccb = s.wsccb
      /\ s'.needSetDesktopSize = s.needSetDesktopSize
  BY <1>2, <1>6, <1>8 DEF Server
<1>10. TypeOK'
  <2>1. toServer' \in Seq(ToServer)
    BY <1>3, <1>8
  <2>2. QED
    BY <1>1, <1>8, <1>9, <2>1 DEF TypeOK, Server
<1>11. Up' = Up
  <2>1. toServer = <<m>> \o Tail(toServer)
    BY <1>1, <1>2, HeadAndTail DEF m
  <2>2. s'.reading # "none"
    BY <1>6, <1>9 DEF Kinds
  <2>3. Up' = (<<Item(m.kind)>> \o Tail(toServer)) \o cOut
    BY <1>8, <1>9, <2>2 DEF Up
  <2>4. QED
    BY <1>4, <1>7, <2>1, <2>3
<1>12. Down' = Down
  BY <1>8 DEF Down
<1>13. OpenInv(s', c, Up, Down)
  <2>1. Told(s', c)
    BY <1>1, <1>9 DEF OpenInv, Told
  <2>2. QED
    BY <1>1, <1>9, <2>1, SameServer
<1>14. QED
  BY <1>1, <1>8, <1>9, <1>10, <1>11, <1>12, <1>13 DEF IInv, Open

LEMMA OpenReadable ==
  ASSUME NEW sv, NEW cl, NEW up, NEW down, Asking(sv, cl, up, down)
  PROVE  Readable(cl, TRUE, down)
BY DEF Asking, Readable

LEMMA CloseKeeps ==
  ASSUME IInv, Open, Close, UNCHANGED <<c, toClient, toServer, cOut>>, pb' \in Row
  PROVE  IInv'
<1>1. TypeOK /\ OpenInv(s, c, Up, Down)
  BY DEF IInv
<1>2. /\ s \in Server /\ c \in Client(Nat) /\ toClient \in Seq(ToClient) /\ sOut \in Seq(ToClient)
  BY <1>1, Typed
<1>3. s' = [s EXCEPT !.state = "CLOSING"] /\ sOut' = <<>>
  BY DEF Close
<1>4. s' \in Server /\ s'.state = "CLOSING"
  BY <1>2, <1>3 DEF Server
<1>5. Readable(c, TRUE, toClient \o sOut)
  BY <1>1, OpenReadable DEF OpenInv, Down
<1>6. Readable(c, FALSE, toClient)
  BY <1>2, <1>5, ReadableCut DEF Client
<1>7. Down' = toClient
  <2>1. Down' = toClient \o <<>>
    BY <1>3 DEF Down
  <2>2. QED
    BY <1>2, <2>1, ConcatEmptySeq
<1>8. TypeOK'
  <2>1. sOut' \in Seq(ToClient)
    BY <1>3
  <2>2. QED
    BY <1>1, <1>4, <2>1 DEF TypeOK, Server
<1>9. ~Open'
  BY <1>4 DEF Open
<1>10. (s.reading # "none" => sOut = <<>>)'
  BY <1>3
<1>11. QED
  BY <1>6, <1>7, <1>8, <1>9, <1>10 DEF IInv

LEMMA TimedOutKeeps ==
  ASSUME SizeAssumption, IInv, TimedOut PROVE IInv'
<1>1. TypeOK /\ Open
  BY DEF IInv, TimedOut, Stuck, Open
<1>2. Close /\ UNCHANGED <<c, toClient, toServer, cOut>> /\ pb' \in Row
  BY <1>1 DEF TimedOut, TypeOK
<1>3. QED
  BY <1>1, <1>2, CloseKeeps

(* The server has done something while nothing else was being written. *)
LEMMA DoneKeeps ==
  ASSUME IInv, Open, UNCHANGED <<c, cOut, toClient>>, pb' \in Row, toServer' \in Seq(ToServer),
         s' \in Server, sOut' \in Seq(ToClient), s'.state = s.state, s'.reading = "none",
         OpenInv(s', c, toServer' \o cOut, toClient \o sOut')
  PROVE  IInv'
<1>1. TypeOK /\ c.state # "INVALID"
  BY DEF IInv
<1>2. TypeOK'
  BY <1>1 DEF TypeOK, Server
<1>3. Open'
  BY DEF Open
<1>4. Down' = toClient \o sOut'
  BY DEF Down
<1>5. Up' = toServer' \o cOut
  <2>1. Up' = (<<>> \o toServer') \o cOut
    BY DEF Up
  <2>2. <<>> \o toServer' = toServer'
    BY ConcatEmptySeq
  <2>3. QED
    BY <2>1, <2>2
<1>6. QED
  BY <1>1, <1>2, <1>3, <1>4, <1>5 DEF IInv

LEMMA FreeServer ==
  ASSUME IInv, ServerFree
  PROVE  /\ TypeOK /\ Open /\ s \in Server /\ c \in Client(Nat)
         /\ toClient \in Seq(ToClient) /\ toServer \in Seq(ToServer) /\ cOut \in Seq(ToServer)
         /\ s.reading = "none" /\ sOut = <<>>
         /\ OpenInv(s, c, toServer \o cOut, toClient)
<1>1. TypeOK /\ Open /\ sOut = <<>> /\ s.reading = "none" /\ OpenInv(s, c, Up, Down)
  BY DEF IInv, ServerFree, Open
<1>2. QED
  BY <1>1, Typed, Ways

LEMMA DrawKeeps ==
  ASSUME SizeAssumption, IInv, Draw PROVE IInv'
<1>1. /\ TypeOK /\ Open /\ s \in Server /\ toClient \in Seq(ToClient)
      /\ s.reading = "none" /\ sOut = <<>> /\ OpenInv(s, c, toServer \o cOut, toClient)
  BY FreeServer DEF Draw
<1>2. PICK row \in 1 .. pb : s' = [s EXCEPT !.changed = @ \cup {row}]
  BY DEF Draw
<1>3. row \in Row
  BY <1>1, <1>2 DEF TypeOK, Row, SizeAssumption
<1>4. /\ s' \in Server /\ s'.state = s.state /\ s'.reading = "none"
      /\ s'.requested = s.requested /\ s'.pf = s.pf
      /\ s'.local = s.local /\ s'.resize = s.resize /\ s'.wsccb = s.wsccb
      /\ s'.needSetDesktopSize = s.needSetDesktopSize
  BY <1>1, <1>2, <1>3 DEF Server
<1>5. UNCHANGED <<pb, sOut, toClient, toServer, c, cOut>>
  BY DEF Draw
<1>6. OpenInv(s', c, toServer \o cOut, toClient)
  <2>1. Told(s', c)
    BY <1>1, <1>4 DEF OpenInv, Told
  <2>2. QED
    BY <1>1, <1>4, <2>1, SameServer
<1>7. toClient \o sOut' = toClient /\ sOut' \in Seq(ToClient)
  <2>1. sOut' = <<>>
    BY <1>1, <1>5
  <2>2. QED
    BY <1>1, <2>1, ConcatEmptySeq
<1>8. pb' \in Row /\ toServer' \in Seq(ToServer) /\ toServer' = toServer
  BY <1>1, <1>5 DEF TypeOK
<1>9. OpenInv(s', c, toServer' \o cOut, toClient \o sOut')
  BY <1>6, <1>7, <1>8
<1>10. QED
  BY <1>1, <1>4, <1>5, <1>7, <1>8, <1>9, DoneKeeps

LEMMA PlainItems ==
  /\ <<>> \in Seq(ToClient) /\ \A k \in DOMAIN <<>> : Plain(<<>>[k])
  /\ \A pf : /\ ColourMap(pf) \in Seq(ToClient)
             /\ \A k \in DOMAIN ColourMap(pf) : Plain(ColourMap(pf)[k])
  /\ <<Item("bell")>> \in Seq(ToClient)
  /\ \A k \in DOMAIN <<Item("bell")>> : Plain(<<Item("bell")>>[k])
<1>1. Item("setColourMapEntries") \in ToClient /\ Item("bell") \in ToClient
  BY DEF Item, ToClient
<1>2. Plain(Item("setColourMapEntries")) /\ Plain(Item("bell"))
  BY DEF Plain, Item
<1>3. QED
  BY <1>1, <1>2 DEF ColourMap

LEMMA tryUpdateKeeps ==
  ASSUME SizeAssumption, IInv, tryUpdate PROVE IInv'
<1>1. /\ TypeOK /\ Open /\ s \in Server /\ c \in Client(Nat) /\ toClient \in Seq(ToClient)
      /\ s.reading = "none" /\ OpenInv(s, c, toServer \o cOut, toClient)
  BY FreeServer DEF tryUpdate
<1>2. writeFramebufferUpdate(s, <<>>) /\ UNCHANGED <<pb, toClient, toServer, c, cOut>>
  BY DEF tryUpdate
<1>3. /\ s' \in Server /\ sOut' \in Seq(ToClient) /\ s'.state = s.state /\ s'.reading = s.reading
      /\ OpenInv(s', c, toServer \o cOut, toClient \o sOut')
  BY <1>1, <1>2, PlainItems, Writes
<1>4. pb' \in Row /\ toServer' \in Seq(ToServer) /\ toServer' = toServer
  BY <1>1, <1>2 DEF TypeOK
<1>5. QED
  BY <1>1, <1>2, <1>3, <1>4, DoneKeeps

LEMMA TellKeeps ==
  ASSUME SizeAssumption, IInv, Tell PROVE IInv'
<1>1. /\ TypeOK /\ Open /\ s \in Server /\ c \in Client(Nat) /\ toClient \in Seq(ToClient)
      /\ s.reading = "none" /\ OpenInv(s, c, toServer \o cOut, toClient)
  BY FreeServer DEF Tell
<1> DEFINE items == <<Item("bell")>>
<1>2. sOut' = items /\ UNCHANGED <<pb, s, toClient, toServer, c, cOut>>
  BY DEF Tell
<1>3. items \in Seq(ToClient) /\ \A k \in DOMAIN items : Plain(items[k])
  BY PlainItems
<1> HIDE DEF items
<1>4. OpenInv(s, c, toServer \o cOut, toClient \o items)
  <2>1. Quiet(c, toClient) => Quiet(c, toClient \o items)
    BY <1>1, <1>3, QuietAppends
  <2>2. Showing(c, TRUE, toClient) => Showing(c, TRUE, toClient \o items)
    BY <1>1, <1>3, ShowingAppends DEF Client
  <2>3. Asking(s, c, toServer \o cOut, toClient \o items)
    BY <1>1, <2>1, <2>2 DEF OpenInv, Asking
  <2>4. QED
    BY <1>1, <2>3 DEF OpenInv
<1>5. /\ pb' \in Row /\ toServer' \in Seq(ToServer) /\ toServer' = toServer /\ s' = s
      /\ sOut' \in Seq(ToClient)
  BY <1>1, <1>2, <1>3 DEF TypeOK
<1>6. QED
  BY <1>1, <1>2, <1>4, <1>5, DoneKeeps

LEMMA SetCursorKeeps ==
  ASSUME SizeAssumption, IInv, SetCursor PROVE IInv'
<1>1. /\ TypeOK /\ Open /\ s \in Server /\ c \in Client(Nat) /\ toClient \in Seq(ToClient)
      /\ s.reading = "none" /\ OpenInv(s, c, toServer \o cOut, toClient)
  BY FreeServer DEF SetCursor
<1> DEFINE conn == [s EXCEPT !.cursor = @ + 1]
<1>2. CursorSet(conn, <<>>) /\ UNCHANGED <<pb, toClient, toServer, c, cOut>>
  BY DEF SetCursor
<1>3. /\ conn \in Server /\ conn.state = s.state /\ conn.reading = s.reading
      /\ conn.requested = s.requested /\ conn.pf = s.pf
      /\ conn.local = s.local /\ conn.resize = s.resize /\ conn.wsccb = s.wsccb
      /\ conn.needSetDesktopSize = s.needSetDesktopSize
  BY <1>1 DEF Server
<1> HIDE DEF conn
<1>4. OpenInv(conn, c, toServer \o cOut, toClient)
  <2>1. Told(conn, c)
    BY <1>1, <1>3 DEF OpenInv, Told
  <2>2. QED
    BY <1>1, <1>3, <2>1, SameServer
<1>5. /\ s' \in Server /\ sOut' \in Seq(ToClient) /\ s'.state = conn.state /\ s'.reading = conn.reading
      /\ OpenInv(s', c, toServer \o cOut, toClient \o sOut')
  BY <1>1, <1>2, <1>3, <1>4, PlainItems, CursorWrites
<1>6. pb' \in Row /\ toServer' \in Seq(ToServer) /\ toServer' = toServer
  BY <1>1, <1>2 DEF TypeOK
<1>7. QED
  BY <1>1, <1>2, <1>3, <1>5, <1>6, DoneKeeps

LEMMA PixelBufferChangeKeeps ==
  ASSUME SizeAssumption, IInv, PixelBufferChange PROVE IInv'
<1>1. /\ TypeOK /\ Open /\ s \in Server /\ c \in Client(Nat) /\ toClient \in Seq(ToClient)
      /\ s.reading = "none" /\ OpenInv(s, c, toServer \o cOut, toClient)
  BY FreeServer DEF PixelBufferChange
<1>2. pb' \in Row /\ UNCHANGED <<toClient, toServer, c, cOut>>
  BY DEF PixelBufferChange
<1>3. CASE ~s.resize
  <2>1. Close
    BY <1>3 DEF PixelBufferChange
  <2>2. QED
    BY <1>1, <1>2, <2>1, CloseKeeps
<1>4. CASE s.resize
  <2> DEFINE rows == 1 .. pb'
             conn == [s EXCEPT !.height = pb', !.needSetDesktopSize = TRUE, !.changed = rows]
  <2>1. writeFramebufferUpdate(conn, ColourMap(s.pf))
    BY <1>4 DEF PixelBufferChange
  <2>2. rows \in SUBSET Row
    BY <1>2 DEF Row, SizeAssumption
  <2> HIDE DEF rows
  <2>3. /\ conn \in Server /\ conn.state = s.state /\ conn.reading = s.reading
        /\ conn.requested = s.requested /\ conn.pf = s.pf
        /\ conn.local = s.local /\ conn.resize = s.resize /\ conn.wsccb = s.wsccb
    BY <1>1, <1>2, <2>2 DEF Server
  <2> HIDE DEF conn
  <2>4. OpenInv(conn, c, toServer \o cOut, toClient)
    <3>1. Told(conn, c)
      BY <1>1, <1>4, <2>3 DEF OpenInv, Told
    <3>2. QED
      BY <1>1, <2>3, <3>1, SameServer
  <2>5. /\ s' \in Server /\ sOut' \in Seq(ToClient)
        /\ s'.state = conn.state /\ s'.reading = conn.reading
        /\ OpenInv(s', c, toServer \o cOut, toClient \o sOut')
    <3>1. /\ ColourMap(s.pf) \in Seq(ToClient)
          /\ \A k \in DOMAIN ColourMap(s.pf) : Plain(ColourMap(s.pf)[k])
      BY PlainItems
    <3>2. QED
      BY <1>1, <2>1, <2>3, <2>4, <3>1, Writes
  <2>6. toServer' \in Seq(ToServer) /\ toServer' = toServer
    BY <1>1, <1>2 DEF TypeOK
  <2>7. QED
    BY <1>1, <1>2, <2>3, <2>5, <2>6, DoneKeeps
<1>5. QED
  BY <1>3, <1>4

LEMMA FirstSupportedTyped ==
  ASSUME NEW list \in Seq(Encodings) PROVE FirstSupported(list) \in EncodingsOf
<1> DEFINE known == {k \in DOMAIN list : Supported(list[k])}
<1>1. CASE known = {}
  BY <1>1 DEF FirstSupported, EncodingsOf
<1>2. CASE known # {}
  <2>1. known \in SUBSET Nat
    BY LenProperties
  <2>2. Min(known) \in known
    <3>1. PICK k \in known : \A j \in known : k <= j
      <4> HIDE DEF known
      <4>1. QED
        BY <1>2, <2>1, LeastNatural
    <3>2. \E x \in known : \A y \in known : x <= y
      BY <3>1
    <3> HIDE DEF known
    <3>3. QED
      BY <3>2 DEF Min
  <2>3. Supported(list[Min(known)])
    <3>1. \A k \in known : Supported(list[k])
      OBVIOUS
    <3>2. QED
      BY <2>2, <3>1
  <2>4. QED
    BY <1>2, <2>3 DEF FirstSupported, Supported
<1>3. QED
  BY <1>1, <1>2

LEMMA AskingLeft ==
  ASSUME NEW cl, NEW up \in Seq(ToServer), up # <<>>, Whole(cl, up),
         NEW left, left = Tail(Tail(up)), NEW down,
         NEW sv, NEW sv2, sv2.requested = sv.requested,
         up[1].kind # "FramebufferUpdateRequest", Asking(sv, cl, up, down)
  PROVE  Asking(sv2, cl, left, down)
<1>1. /\ NoRequest(up) => NoRequest(left)
      /\ NoFormat(up) => NoFormat(left)
      /\ \A r \in DOMAIN up : RequestAt(cl, up, r) => \E q \in DOMAIN left : RequestAt(cl, left, q)
  BY RequestLeft
<1>2. QED
  BY <1>1 DEF Asking

LEMMA ReadRestKeeps ==
  ASSUME SizeAssumption, IInv, ReadRest PROVE IInv'
<1> DEFINE m == Head(toServer)
           left == Tail(toServer) \o cOut
           conn == [s EXCEPT !.reading = "none"]
<1>1. /\ TypeOK /\ Open /\ s.reading # "none" /\ sOut = <<>> /\ OpenInv(s, c, Up, Down)
      /\ toServer # <<>>
  BY DEF IInv, ReadRest, Open
<1>2. /\ s \in Server /\ c \in Client(Nat) /\ toClient \in Seq(ToClient)
      /\ toServer \in Seq(ToServer) /\ cOut \in Seq(ToServer)
  BY <1>1, Typed
<1>3. Tail(toServer) \in Seq(ToServer) /\ left \in Seq(ToServer)
  BY <1>1, <1>2, TailOf, ConcatProperties
<1>4. /\ Up \in Seq(ToServer) /\ Up # <<>> /\ Up[1].kind = s.reading /\ Up[2] = m
      /\ left = Tail(Tail(Up)) /\ Down = toClient
  <2>1. Up \in Seq(ToServer) /\ Down = toClient
    BY <1>1, Ways
  <2>2. Up # <<>> /\ Up[1] = Item(s.reading) /\ Up[2] = m /\ left = Tail(Tail(Up))
    BY <1>1, Begun
  <2>3. Item(s.reading).kind = s.reading
    BY DEF Item
  <2>4. QED
    BY <2>1, <2>2, <2>3
<1>5. Whole(c, Up) /\ Fits(c, s.reading, m) /\ s.reading \in Kinds
  BY <1>1, <1>4, WholeFront DEF OpenInv
<1>6. Whole(c, left)
  BY <1>4, <1>5, WholeLeft
<1>7. /\ conn \in Server /\ conn.state = s.state /\ conn.reading = "none"
      /\ conn.requested = s.requested /\ conn.pf = s.pf
      /\ conn.local = s.local /\ conn.resize = s.resize /\ conn.wsccb = s.wsccb
      /\ conn.needSetDesktopSize = s.needSetDesktopSize
  BY <1>2 DEF Server
<1>8. /\ Handle(m) /\ toServer' = Tail(toServer) /\ UNCHANGED <<pb, toClient, c, cOut>>
  BY DEF ReadRest
<1>9. Asking(s, c, Up, toClient) /\ SameFormat(s, c, Up) /\ Told(s, c)
  BY <1>1, <1>4 DEF OpenInv
<1> HIDE DEF m, left
<1>10. CASE s.reading = "SetPixelFormat"
  <2> DEFINE next == [conn EXCEPT !.pf = m.pf]
  <2>1. CursorSet(next, ColourMap(m.pf))
    BY <1>8, <1>10 DEF Handle
  <2>2. m.pf \in Formats
    BY <1>5, <1>10 DEF Fits
  <2> HIDE DEF conn
  <2>3. /\ next \in Server /\ next.state = s.state /\ next.reading = "none"
        /\ next.requested = s.requested /\ next.pf = m.pf
        /\ next.local = s.local /\ next.resize = s.resize /\ next.wsccb = s.wsccb
        /\ next.needSetDesktopSize = s.needSetDesktopSize
    BY <1>7, <2>2 DEF Server
  <2> HIDE DEF next
  <2>4. Asking(next, c, left, toClient)
    BY <1>4, <1>5, <1>9, <1>10, <2>3, AskingLeft
  <2>5. SameFormat(next, c, left)
    BY <1>4, <1>5, <1>9, <1>10, <2>3, FormatLeft
  <2>6. OpenInv(next, c, left, toClient)
    BY <1>6, <1>9, <2>3, <2>4, <2>5 DEF OpenInv, Told
  <2>7. /\ ColourMap(m.pf) \in Seq(ToClient)
        /\ \A k \in DOMAIN ColourMap(m.pf) : Plain(ColourMap(m.pf)[k])
    BY PlainItems
  <2>8. /\ s' \in Server /\ sOut' \in Seq(ToClient)
        /\ s'.state = next.state /\ s'.reading = next.reading
        /\ OpenInv(s', c, left, toClient \o sOut')
    BY <1>2, <2>1, <2>3, <2>6, <2>7, CursorWrites
  <2>9. QED
    BY <1>1, <1>3, <1>8, <2>3, <2>8, DoneKeeps DEF TypeOK, left
<1>11. CASE s.reading = "SetEncodings"
  <2> DEFINE next == WithEncodings(conn, m.list)
  <2>1. CursorSet(next, <<>>)
    BY <1>8, <1>11 DEF Handle
  <2>2. m.list \in Seq(Encodings) /\ ToSet(m.list) \subseteq c.told
    BY <1>5, <1>11 DEF Fits
  <2> HIDE DEF conn
  <2>3. /\ next \in Server /\ next.state = s.state /\ next.reading = "none"
        /\ next.requested = s.requested /\ next.pf = s.pf
        /\ next.local = Contains(m.list, "cursor")
        /\ next.resize = (s.resize \/ Contains(m.list, "desktopSize"))
        /\ next.wsccb = s.wsccb /\ next.needSetDesktopSize = s.needSetDesktopSize
    <3> DEFINE l == Contains(m.list, "cursor")
               r == conn.resize \/ Contains(m.list, "desktopSize")
               e == FirstSupported(m.list)
    <3>1. l \in BOOLEAN /\ r \in BOOLEAN /\ e \in EncodingsOf
      BY <2>2, FirstSupportedTyped DEF Contains
    <3>2. next = [conn EXCEPT !.local = l, !.resize = r, !.encoding = e]
      BY DEF WithEncodings
    <3>3. r = (s.resize \/ Contains(m.list, "desktopSize"))
      BY <1>7
    <3> HIDE DEF l, r, e, next
    <3>4. /\ next \in Server /\ next.state = s.state /\ next.reading = "none"
          /\ next.requested = s.requested /\ next.pf = s.pf
          /\ next.local = l /\ next.resize = r
          /\ next.wsccb = s.wsccb /\ next.needSetDesktopSize = s.needSetDesktopSize
      BY <1>7, <3>1, <3>2 DEF Server
    <3>5. QED
      BY <3>3, <3>4 DEF l
  <2> HIDE DEF next
  <2>4. Asking(next, c, left, toClient)
    BY <1>4, <1>5, <1>9, <1>11, <2>3, AskingLeft
  <2>5. SameFormat(next, c, left)
    BY <1>4, <1>5, <1>9, <1>11, <2>3, FormatLeft
  <2>6. /\ Contains(m.list, "cursor") => "cursor" \in c.told
        /\ Contains(m.list, "desktopSize") => "desktopSize" \in c.told
    BY <2>2, LenProperties DEF Contains, ToSet
  <2>7. Told(next, c)
    BY <1>9, <2>3, <2>6 DEF Told
  <2>8. OpenInv(next, c, left, toClient)
    BY <1>6, <2>4, <2>5, <2>7 DEF OpenInv
  <2>9. /\ s' \in Server /\ sOut' \in Seq(ToClient)
        /\ s'.state = next.state /\ s'.reading = next.reading
        /\ OpenInv(s', c, left, toClient \o sOut')
    BY <1>2, <2>1, <2>3, <2>8, PlainItems, CursorWrites
  <2>10. QED
    BY <1>1, <1>3, <1>8, <2>3, <2>9, DoneKeeps DEF TypeOK, left
<1>12. CASE s.reading = "FramebufferUpdateRequest"
  <2> DEFINE rows == IF m.incremental THEN conn.changed ELSE conn.changed \cup 1 .. m.rows
             asked == Max({conn.requested, m.rows})
             next == [conn EXCEPT !.requested = asked, !.changed = rows]
  <2>1. writeFramebufferUpdate(next, <<>>)
    BY <1>8, <1>12 DEF Handle
  <2>2. m.rows \in Row
    BY <1>5, <1>12 DEF Fits
  <2>3. /\ s.requested = 0 /\ c.waiting /\ Quiet(c, toClient)
        /\ m.rows = c.height /\ NoRequest(left) /\ NoFormat(left)
    <3>1. ~NoRequest(Up)
      <4>1. 1 \in DOMAIN Up
        BY <1>4, <1>5, WholeFront
      <4>2. QED
        BY <4>1, <1>4, <1>12 DEF NoRequest
    <3>2. /\ c.waiting /\ Quiet(c, toClient) /\ s.requested = 0
          /\ \E r \in DOMAIN Up : RequestAt(c, Up, r)
      BY <3>1, <1>9 DEF Asking
    <3>3. m.rows = c.height /\ NoRequest(left) /\ NoFormat(left)
      BY <3>2, <1>4, <1>5, <1>12, RequestLeft
    <3>4. QED
      BY <3>2, <3>3
  <2>4. asked = m.rows
    <3>1. conn.requested = 0 /\ m.rows \in Nat
      BY <1>7, <2>2, <2>3 DEF Row
    <3>2. m.rows \in {0, m.rows} /\ \A y \in {0, m.rows} : m.rows >= y
      BY <3>1
    <3>3. \A x \in {0, m.rows} : (\A y \in {0, m.rows} : x >= y) => x = m.rows
      BY <3>1
    <3>4. QED
      BY <3>1, <3>2, <3>3 DEF Max
  <2>5. rows \in SUBSET Row
    <3>1. 1 .. m.rows \in SUBSET Row
      BY <2>2 DEF Row, SizeAssumption
    <3>2. conn.changed \in SUBSET Row
      BY <1>7 DEF Server
    <3>3. QED
      BY <3>1, <3>2
  <2> HIDE DEF conn, rows, asked
  <2>6. /\ next \in Server /\ next.state = s.state /\ next.reading = "none"
        /\ next.requested = m.rows /\ next.pf = s.pf
        /\ next.local = s.local /\ next.resize = s.resize /\ next.wsccb = s.wsccb
        /\ next.needSetDesktopSize = s.needSetDesktopSize
    BY <1>7, <2>2, <2>4, <2>5 DEF Server
  <2> HIDE DEF next
  <2>7. next.requested \in 1 .. c.height
    BY <2>2, <2>3, <2>6 DEF Row
  <2>8. Asking(next, c, left, toClient)
    BY <2>3, <2>7 DEF Asking
  <2>9. SameFormat(next, c, left)
    BY <1>4, <1>5, <1>9, <1>12, <2>6, FormatLeft
  <2>10. OpenInv(next, c, left, toClient)
    BY <1>6, <1>9, <2>6, <2>8, <2>9 DEF OpenInv, Told
  <2>11. /\ s' \in Server /\ sOut' \in Seq(ToClient)
         /\ s'.state = next.state /\ s'.reading = next.reading
         /\ OpenInv(s', c, left, toClient \o sOut')
    BY <1>2, <2>1, <2>6, <2>10, PlainItems, Writes
  <2>12. QED
    BY <1>1, <1>3, <1>8, <2>6, <2>11, DoneKeeps DEF TypeOK, left
<1>13. CASE s.reading = "KeyEvent"
  <2>1. s' = conn /\ sOut' = <<>>
    BY <1>8, <1>13 DEF Handle
  <2> HIDE DEF conn
  <2>2. Asking(conn, c, left, toClient)
    BY <1>4, <1>5, <1>7, <1>9, <1>13, AskingLeft
  <2>3. SameFormat(conn, c, left)
    BY <1>4, <1>5, <1>7, <1>9, <1>13, FormatLeft
  <2>4. OpenInv(conn, c, left, toClient)
    BY <1>6, <1>7, <1>9, <2>2, <2>3 DEF OpenInv, Told
  <2>5. toClient \o sOut' = toClient /\ sOut' \in Seq(ToClient)
    BY <1>2, <2>1, ConcatEmptySeq
  <2>6. OpenInv(s', c, left, toClient \o sOut')
    BY <2>1, <2>4, <2>5
  <2>7. QED
    BY <1>1, <1>3, <1>7, <1>8, <2>1, <2>5, <2>6, DoneKeeps DEF TypeOK, left
<1>14. QED
  BY <1>5, <1>10, <1>11, <1>12, <1>13 DEF Kinds

-----------------------------------------------------------------------------
(* The steps of the client                                                 *)

(* To know more encodings does no harm to a client. *)
LEMMA KnowsMore ==
  ASSUME NEW cl, NEW cl2, cl2.pf = cl.pf, cl2.height = cl.height, cl.told \subseteq cl2.told,
         cl2.nUpdateRectsLeft = cl.nUpdateRectsLeft, NEW open, NEW down
  PROVE  /\ Quiet(cl, down) => Quiet(cl2, down)
         /\ Showing(cl, open, down) => Showing(cl2, open, down)
<1>1. \A m : PartFor(cl, m) => PartFor(cl2, m)
  BY DEF PartFor
<1>2. \A b, n : UpdateParts(cl, open, down, b, n) => UpdateParts(cl2, open, down, b, n)
  BY <1>1 DEF UpdateParts, PartAt
<1>3. \A b : HeaderAt(cl, open, down, b) => HeaderAt(cl2, open, down, b)
  BY <1>2 DEF HeaderAt
<1>4. QED
  BY <1>2, <1>3 DEF Quiet, Showing

LEMMA SaysUp ==
  ASSUME TypeOK, NEW x, NEW y, cOut = <<>>, cOut' = <<x, y>>, UNCHANGED <<s, toServer>>
  PROVE  Up' = More(Up, x, y)
<1> DEFINE front == (IF s.reading = "none" THEN <<>> ELSE <<Item(s.reading)>>) \o toServer
<1>1. toServer \in Seq(ToServer) /\ s \in Server
  BY Typed
<1>2. front \in Seq(ToServer)
  <2>1. CASE s.reading = "none"
    BY <1>1, <2>1, ConcatEmptySeq
  <2>2. CASE s.reading # "none"
    <3>1. Item(s.reading) \in ToServer
      BY <1>1, <2>2 DEF Server, Item, ToServer
    <3>2. QED
      BY <1>1, <2>2, <3>1, FirstOf
  <2>3. QED
    BY <2>1, <2>2
<1>3. Up = front \o <<>> /\ Up' = front \o <<x, y>>
  BY DEF Up
<1> HIDE DEF front
<1>4. Up = front
  BY <1>2, <1>3, ConcatEmptySeq
<1>5. QED
  BY <1>3, <1>4 DEF More

LEMMA SaysKeeps ==
  ASSUME IInv, cOut = <<>>, c.state = "NORMAL", c'.state = "NORMAL",
         NEW kind \in Kinds, NEW rest \in ToServer, rest.kind = "rest", Says(kind, rest),
         UNCHANGED <<pb, s, sOut, toClient, toServer>>,
         c' \in Client(Nat), c.told \subseteq c'.told, Fits(c', kind, rest),
         IF kind = "SetPixelFormat" THEN rest.pf = c'.pf ELSE c'.pf = c.pf,
         Open => Asking(s, c', More(Up, Item(kind), rest), Down),
         ~Open => Readable(c', FALSE, Down)
  PROVE  IInv'
<1> DEFINE x == Item(kind)
<1>1. TypeOK /\ Up \in Seq(ToServer)
  BY Ways DEF IInv
<1>2. cOut' = <<x, rest>> /\ x \in ToServer
  BY DEF Says, Item, ToServer
<1>3. cOut' \in Seq(ToServer)
  <2> HIDE DEF x
  <2>1. QED
    BY <1>2
<1>4. TypeOK'
  BY <1>1, <1>3 DEF TypeOK, Client
<1> HIDE DEF x
<1>5. Up' = More(Up, x, rest)
  BY <1>1, <1>2, SaysUp
<1>6. Down' = Down /\ Open' = Open /\ s' = s /\ sOut' = sOut
  BY DEF Down, Open
<1>7. ASSUME Open PROVE OpenInv(s, c', Up', Down)
  <2>1. Whole(c, Up) /\ SameFormat(s, c, Up) /\ Told(s, c)
    BY <1>7 DEF IInv, OpenInv
  <2>2. Up' = More(Up, Item(kind), rest)
    BY <1>5 DEF x
  <2>3. Whole(c', Up')
    BY <1>1, <2>1, <2>2, SaysMore
  <2>4. SameFormat(s, c', Up')
    BY <1>1, <2>1, <2>2, FormatMore
  <2>5. Told(s, c')
    BY <2>1 DEF Told
  <2>6. Asking(s, c', Up', Down)
    BY <1>7, <2>2
  <2>7. QED
    BY <2>3, <2>4, <2>5, <2>6 DEF OpenInv
<1>8. QED
  BY <1>4, <1>6, <1>7 DEF IInv

LEMMA FreeClient ==
  ASSUME IInv, ClientFree
  PROVE  /\ TypeOK /\ c \in Client(Nat) /\ c.state = "NORMAL" /\ cOut = <<>>
         /\ Up \in Seq(ToServer) /\ Down \in Seq(ToClient)
         /\ Open => Whole(c, Up) /\ Asking(s, c, Up, Down) /\ SameFormat(s, c, Up) /\ Told(s, c)
         /\ ~Open => Readable(c, FALSE, Down)
BY Typed, Ways DEF IInv, ClientFree, OpenInv

LEMMA RequestKeeps ==
  ASSUME SizeAssumption, IInv, Request PROVE IInv'
<1>1. /\ TypeOK /\ c \in Client(Nat) /\ c.state = "NORMAL" /\ cOut = <<>> /\ Up \in Seq(ToServer)
      /\ Open => Whole(c, Up) /\ Asking(s, c, Up, Down)
      /\ ~Open => Readable(c, FALSE, Down)
      /\ ~c.waiting
  BY FreeClient DEF Request
<1>2. PICK incremental \in BOOLEAN :
        Says("FramebufferUpdateRequest", [kind |-> "rest", rows |-> c.height, incremental |-> incremental])
  BY DEF Request
<1> DEFINE kind == "FramebufferUpdateRequest"
           rest == [kind |-> "rest", rows |-> c.height, incremental |-> incremental]
<1>3. c' = [c EXCEPT !.waiting = TRUE] /\ UNCHANGED <<pb, s, sOut, toClient, toServer>>
  BY DEF Request
<1>4. /\ c' \in Client(Nat) /\ c'.waiting /\ c'.state = "NORMAL" /\ c'.told = c.told /\ c'.pf = c.pf
      /\ c'.height = c.height /\ c'.nUpdateRectsLeft = c.nUpdateRectsLeft
  BY <1>1, <1>3 DEF Client
<1>5. /\ rest \in ToServer /\ rest.kind = "rest" /\ rest.rows = c'.height
      /\ Fits(c', kind, rest) /\ kind \in Kinds
  BY <1>1, <1>4 DEF Client, ToServer, Fits, Kinds
<1> HIDE DEF rest
<1>6. ~Open => Readable(c', FALSE, Down)
  BY <1>1, <1>4, KnowsMore DEF Readable
<1>7. ASSUME Open PROVE Asking(s, c', More(Up, Item(kind), rest), Down)
  <2>1. Quiet(c, Down) /\ s.requested = 0 /\ NoRequest(Up) /\ Whole(c, Up)
    BY <1>1, <1>7 DEF Asking
  <2>2. Quiet(c', Down)
    BY <1>4, <2>1, KnowsMore
  <2>3. \E r \in DOMAIN More(Up, Item(kind), rest) : RequestAt(c', More(Up, Item(kind), rest), r)
    BY <1>1, <1>4, <1>5, <2>1, AsksMore
  <2>4. QED
    BY <1>4, <2>1, <2>2, <2>3 DEF Asking
<1>8. Says(kind, rest)
  BY <1>2 DEF rest
<1>9. IF kind = "SetPixelFormat" THEN rest.pf = c'.pf ELSE c'.pf = c.pf
  BY <1>4
<1>10. QED
  BY <1>1, <1>3, <1>4, <1>5, <1>6, <1>7, <1>8, <1>9, SaysKeeps

LEMMA ChangeFormatKeeps ==
  ASSUME SizeAssumption, IInv, ChangeFormat PROVE IInv'
<1>1. /\ TypeOK /\ c \in Client(Nat) /\ c.state = "NORMAL" /\ cOut = <<>> /\ Up \in Seq(ToServer)
      /\ Open => Whole(c, Up) /\ Asking(s, c, Up, Down)
      /\ ~Open => Readable(c, FALSE, Down)
      /\ ~c.waiting
  BY FreeClient DEF ChangeFormat
<1>2. PICK pf \in Formats \ {c.pf} :
        /\ c' = [c EXCEPT !.pf = pf]
        /\ Says("SetPixelFormat", [kind |-> "rest", pf |-> pf])
  BY DEF ChangeFormat
<1> DEFINE kind == "SetPixelFormat"
           rest == [kind |-> "rest", pf |-> pf]
<1>3. UNCHANGED <<pb, s, sOut, toClient, toServer>>
  BY DEF ChangeFormat
<1>4. /\ c' \in Client(Nat) /\ ~c'.waiting /\ c'.state = "NORMAL" /\ c'.told = c.told /\ c'.pf = pf
      /\ c'.height = c.height /\ c'.nUpdateRectsLeft = c.nUpdateRectsLeft
  BY <1>1, <1>2 DEF Client
<1>5. /\ rest \in ToServer /\ rest.kind = "rest" /\ rest.pf = c'.pf
      /\ Fits(c', kind, rest) /\ kind \in Kinds
  BY <1>1, <1>2, <1>4 DEF ToServer, Fits, Kinds
<1>6. Says(kind, rest)
  BY <1>2
<1> HIDE DEF rest
<1>7. Quiet(c, Down) => Quiet(c', Down)
  BY <1>4 DEF Quiet
<1>8. ~Open => Readable(c', FALSE, Down)
  BY <1>1, <1>7 DEF Readable
<1>9. ASSUME Open PROVE Asking(s, c', More(Up, Item(kind), rest), Down)
  <2>1. Quiet(c, Down) /\ s.requested = 0 /\ NoRequest(Up) /\ Whole(c, Up)
    BY <1>1, <1>9 DEF Asking
  <2>2. NoRequest(More(Up, Item(kind), rest))
    BY <1>1, <1>4, <1>5, <2>1, AsksMore
  <2>3. QED
    BY <1>4, <1>7, <2>1, <2>2 DEF Asking
<1>10. IF kind = "SetPixelFormat" THEN rest.pf = c'.pf ELSE c'.pf = c.pf
  BY <1>5
<1>11. QED
  BY <1>1, <1>3, <1>4, <1>5, <1>6, <1>8, <1>9, <1>10, SaysKeeps

(* A message that is neither a request nor a format. *)
LEMMA OtherKeeps ==
  ASSUME IInv, ClientFree,
         NEW kind \in Kinds, kind \notin {"FramebufferUpdateRequest", "SetPixelFormat"},
         NEW rest \in ToServer, rest.kind = "rest", Says(kind, rest), Fits(c', kind, rest),
         UNCHANGED <<pb, s, sOut, toClient, toServer>>,
         c' \in Client(Nat), c'.state = "NORMAL", c'.waiting = c.waiting, c.told \subseteq c'.told,
         c'.pf = c.pf, c'.height = c.height, c'.nUpdateRectsLeft = c.nUpdateRectsLeft
  PROVE  IInv'
<1>1. /\ TypeOK /\ c \in Client(Nat) /\ c.state = "NORMAL" /\ cOut = <<>> /\ Up \in Seq(ToServer)
      /\ Open => Whole(c, Up) /\ Asking(s, c, Up, Down)
      /\ ~Open => Readable(c, FALSE, Down)
  BY FreeClient
<1>2. /\ Quiet(c, Down) => Quiet(c', Down)
      /\ Showing(c, TRUE, Down) => Showing(c', TRUE, Down)
      /\ Showing(c, FALSE, Down) => Showing(c', FALSE, Down)
  BY KnowsMore
<1>3. ~Open => Readable(c', FALSE, Down)
  BY <1>1, <1>2 DEF Readable
<1>4. ASSUME Open PROVE Asking(s, c', More(Up, Item(kind), rest), Down)
  <2> DEFINE up2 == More(Up, Item(kind), rest)
  <2>1. Whole(c, Up)
    BY <1>1, <1>4
  <2>2. /\ NoRequest(Up) => NoRequest(up2)
        /\ NoFormat(Up) => NoFormat(up2)
        /\ \A r \in DOMAIN Up : RequestAt(c, Up, r) => r \in DOMAIN up2 /\ RequestAt(c', up2, r)
    BY <1>1, <2>1, AsksMore
  <2> HIDE DEF up2
  <2>3. Asking(s, c, Up, Down)
    BY <1>1, <1>4
  <2>4. Asking(s, c', up2, Down)
    BY <1>2, <2>2, <2>3 DEF Asking
  <2>5. QED
    BY <2>4 DEF up2
<1>5. IF kind = "SetPixelFormat" THEN rest.pf = c'.pf ELSE c'.pf = c.pf
  OBVIOUS
<1>6. QED
  BY <1>1, <1>3, <1>4, <1>5, SaysKeeps

LEMMA EncodingListTyped ==
  ASSUME NEW asked \in Asked PROVE EncodingList(asked) \in Seq(Encodings)
<1> DEFINE Other(e) == IF e = asked.preferred THEN <<>> ELSE <<e>>
           a == IF asked.local THEN <<"cursor">> ELSE <<>>
           b == IF asked.resize THEN <<"desktopSize">> ELSE <<>>
           d == IF Supported(asked.preferred) THEN <<asked.preferred>> ELSE <<>>
           x == Other("ZRLE")
           y == Other("hextile")
           z == Other("raw")
<1>1. EncodingList(asked) = a \o b \o d \o x \o y \o z
  BY DEF EncodingList
<1>2. <<>> \in Seq(Encodings) /\ \A e \in Encodings : <<e>> \in Seq(Encodings)
  OBVIOUS
<1>3. /\ {"cursor", "desktopSize", "ZRLE", "hextile", "raw"} \subseteq Encodings
      /\ Supported(asked.preferred) => asked.preferred \in Encodings
  BY DEF Encodings, EncodingsOf, Supported
<1>4. /\ a \in Seq(Encodings) /\ b \in Seq(Encodings) /\ d \in Seq(Encodings)
      /\ x \in Seq(Encodings) /\ y \in Seq(Encodings) /\ z \in Seq(Encodings)
  <2>1. a = <<>> \/ a = <<"cursor">>
    OBVIOUS
  <2>2. b = <<>> \/ b = <<"desktopSize">>
    OBVIOUS
  <2>3. d = <<>> \/ (Supported(asked.preferred) /\ d = <<asked.preferred>>)
    OBVIOUS
  <2>4. (x = <<>> \/ x = <<"ZRLE">>) /\ (y = <<>> \/ y = <<"hextile">>) /\ (z = <<>> \/ z = <<"raw">>)
    OBVIOUS
  <2> HIDE DEF a, b, d, x, y, z
  <2>5. QED
    BY <1>2, <1>3, <2>1, <2>2, <2>3, <2>4
<1> HIDE DEF a, b, d, x, y, z
<1> DEFINE ab == a \o b
           abd == ab \o d
           abdx == abd \o x
           abdxy == abdx \o y
<1>5. ab \in Seq(Encodings)
  BY <1>4, ConcatProperties
<1> HIDE DEF ab
<1>6. abd \in Seq(Encodings)
  BY <1>4, <1>5, ConcatProperties
<1> HIDE DEF abd
<1>7. abdx \in Seq(Encodings)
  BY <1>4, <1>6, ConcatProperties
<1> HIDE DEF abdx
<1>8. abdxy \in Seq(Encodings)
  BY <1>4, <1>7, ConcatProperties
<1> HIDE DEF abdxy
<1>9. abdxy \o z \in Seq(Encodings)
  BY <1>4, <1>8, ConcatProperties
<1>10. QED
  BY <1>1, <1>9 DEF ab, abd, abdx, abdxy

LEMMA ChangeEncodingsKeeps ==
  ASSUME SizeAssumption, IInv, ChangeEncodings PROVE IInv'
<1>1. c \in Client(Nat) /\ c.state = "NORMAL" /\ ClientFree
  BY FreeClient DEF ChangeEncodings
<1>2. PICK asked \in Asked :
        /\ Says("SetEncodings", [kind |-> "rest", list |-> EncodingList(asked)])
        /\ c' = [c EXCEPT !.told = @ \cup ToSet(EncodingList(asked)),
                          !.preferred = IF Supported(asked.preferred) THEN asked.preferred ELSE "ZRLE"]
  BY DEF ChangeEncodings
<1> DEFINE list == EncodingList(asked)
           kind == "SetEncodings"
           rest == [kind |-> "rest", list |-> list]
           told == ToSet(list)
           preferred == IF Supported(asked.preferred) THEN asked.preferred ELSE "ZRLE"
<1>3. list \in Seq(Encodings)
  BY EncodingListTyped
<1>4. c' = [c EXCEPT !.told = @ \cup told, !.preferred = preferred] /\ Says(kind, rest)
  BY <1>2
<1>5. preferred \in EncodingsOf
  BY DEF Supported, EncodingsOf
<1> HIDE DEF list, preferred
<1>6. told \in SUBSET Encodings
  BY <1>3, LenProperties, ElementOfSeq DEF ToSet
<1> HIDE DEF told
<1>7. /\ c' \in Client(Nat) /\ c'.state = "NORMAL" /\ c'.waiting = c.waiting /\ c'.told = c.told \cup told
      /\ c'.pf = c.pf /\ c'.height = c.height /\ c'.nUpdateRectsLeft = c.nUpdateRectsLeft
  BY <1>1, <1>4, <1>5, <1>6 DEF Client
<1>8. rest \in ToServer /\ rest.kind = "rest" /\ kind \in Kinds /\ Fits(c', kind, rest)
  <2>1. ToSet(rest.list) \subseteq c'.told
    BY <1>7 DEF told
  <2>2. QED
    BY <1>3, <2>1 DEF ToServer, Kinds, Fits
<1>9. UNCHANGED <<pb, s, sOut, toClient, toServer>>
  BY DEF ChangeEncodings
<1> HIDE DEF rest
<1>10. QED
  BY <1>1, <1>4, <1>7, <1>8, <1>9, OtherKeeps

LEMMA TypeKeeps ==
  ASSUME SizeAssumption, IInv, Type PROVE IInv'
<1> DEFINE rest == Item("rest")
<1>1. c \in Client(Nat) /\ c.state = "NORMAL" /\ ClientFree
  BY FreeClient DEF Type
<1>2. Says("KeyEvent", rest) /\ UNCHANGED <<pb, s, sOut, toClient, toServer, c>>
  BY DEF Type
<1>3. /\ rest \in ToServer /\ rest.kind = "rest" /\ "KeyEvent" \in Kinds
      /\ Fits(c', "KeyEvent", rest)
  BY DEF Item, ToServer, Kinds, Fits
<1> HIDE DEF rest
<1>4. QED
  BY <1>1, <1>2, <1>3, OtherKeeps

LEMMA StallKeeps ==
  ASSUME SizeAssumption, IInv, Stall PROVE IInv'
<1>1. TypeOK /\ c \in Client(Nat)
  BY Typed DEF IInv
<1>2. c' = [c EXCEPT !.stalled = TRUE] /\ UNCHANGED <<pb, s, sOut, toClient, toServer, cOut>>
  BY DEF Stall
<1>3. /\ c' \in Client(Nat) /\ c'.state = c.state /\ c'.waiting = c.waiting /\ c'.told = c.told
      /\ c'.pf = c.pf /\ c'.height = c.height /\ c'.nUpdateRectsLeft = c.nUpdateRectsLeft
  BY <1>1, <1>2 DEF Client
<1>4. TypeOK'
  BY <1>1, <1>2, <1>3 DEF TypeOK, Client
<1>5. Down' = Down /\ Up' = Up /\ Open' = Open
  BY <1>2 DEF Down, Up, Open
<1>6. /\ Quiet(c, Down) => Quiet(c', Down)
      /\ Showing(c, TRUE, Down) => Showing(c', TRUE, Down)
      /\ Showing(c, FALSE, Down) => Showing(c', FALSE, Down)
  BY <1>3, KnowsMore
<1>7. ~Open => Readable(c', FALSE, Down)
  BY <1>3, <1>6 DEF IInv, Readable
<1>8. ASSUME Open PROVE OpenInv(s, c', Up, Down)
  <2>1. Whole(c, Up) /\ Asking(s, c, Up, Down) /\ SameFormat(s, c, Up) /\ Told(s, c)
    BY <1>8 DEF IInv, OpenInv
  <2>2. Whole(c', Up) /\ SameFormat(s, c', Up) /\ Told(s, c')
    BY <1>3, <2>1 DEF Whole, Fits, SameFormat, Told
  <2>3. \A r : RequestAt(c, Up, r) => RequestAt(c', Up, r)
    BY <1>3 DEF RequestAt
  <2>4. Asking(s, c', Up, Down)
    BY <1>3, <1>6, <2>1, <2>3 DEF Asking
  <2>5. QED
    BY <2>2, <2>4 DEF OpenInv
<1>9. QED
  BY <1>2, <1>3, <1>4, <1>5, <1>7, <1>8 DEF IInv

LEMMA ClientWritesKeeps ==
  ASSUME SizeAssumption, IInv, ClientWrites PROVE IInv'
<1>1. TypeOK /\ cOut # <<>> /\ UNCHANGED <<pb, s, sOut, toClient>>
  BY DEF IInv, ClientWrites
<1>2. /\ s \in Server /\ c \in Client(Nat) /\ toServer \in Seq(ToServer) /\ cOut \in Seq(ToServer)
  BY <1>1, Typed
<1>3. Down' = Down /\ Open' = Open
  BY <1>1 DEF Down, Open
<1>4. CASE /\ s.state = "NORMAL" /\ toServer' = Append(toServer, Head(cOut)) /\ cOut' = Tail(cOut)
           /\ UNCHANGED c
  <2>1. Head(cOut) \in ToServer /\ Tail(cOut) \in Seq(ToServer)
    BY <1>1, <1>2, TailOf
  <2>2. toServer' \in Seq(ToServer) /\ cOut' \in Seq(ToServer)
    BY <1>2, <1>4, <2>1, AppendProperties
  <2>3. TypeOK'
    BY <1>1, <1>4, <2>2 DEF TypeOK
  <2> DEFINE front == IF s.reading = "none" THEN <<>> ELSE <<Item(s.reading)>>
  <2>4. front \in Seq(ToServer)
    <3>1. s.reading # "none" => Item(s.reading) \in ToServer
      BY <1>2 DEF Server, Item, ToServer
    <3>2. QED
      BY <3>1
  <2>5. Up = (front \o toServer) \o cOut /\ Up' = (front \o toServer') \o cOut'
    BY <1>1 DEF Up
  <2> HIDE DEF front
  <2>6. toServer' \o cOut' = toServer \o cOut
    BY <1>1, <1>2, <1>4, MovesOn
  <2>7. (front \o toServer) \o cOut = front \o (toServer \o cOut)
    BY <1>2, <2>4, ConcatAssociative
  <2>8. (front \o toServer') \o cOut' = front \o (toServer' \o cOut')
    BY <2>2, <2>4, ConcatAssociative
  <2>9. Up' = Up
    BY <2>5, <2>6, <2>7, <2>8
  <2>10. QED
    BY <1>1, <1>3, <1>4, <2>3, <2>9 DEF IInv
<1>5. CASE s.state = "CLOSING" /\ c' = [c EXCEPT !.state = "INVALID"] /\ cOut' = <<>> /\ UNCHANGED toServer
  <2>1. /\ c' \in Client(Nat) /\ c'.waiting = c.waiting /\ c'.told = c.told
        /\ c'.pf = c.pf /\ c'.height = c.height /\ c'.nUpdateRectsLeft = c.nUpdateRectsLeft
    BY <1>2, <1>5 DEF Client
  <2>2. ~Open /\ Readable(c, FALSE, Down)
    BY <1>5 DEF IInv, Open
  <2>3. Readable(c', FALSE, Down)
    BY <2>1, <2>2, KnowsMore DEF Readable
  <2>4. cOut' \in Seq(ToServer)
    BY <1>5
  <2>5. TypeOK'
    BY <1>1, <1>5, <2>1, <2>4 DEF TypeOK, Client
  <2>6. QED
    BY <1>1, <1>3, <2>2, <2>3, <2>5 DEF IInv
<1>6. QED
  BY <1>4, <1>5 DEF ClientWrites

LEMMA ClientEndsKeeps ==
  ASSUME SizeAssumption, IInv, ClientEnds PROVE IInv'
<1>1. /\ TypeOK /\ c \in Client(Nat) /\ s.state = "CLOSING" /\ c' = [c EXCEPT !.state = "INVALID"]
      /\ UNCHANGED <<pb, s, sOut, toClient, toServer, cOut>>
  BY Typed DEF IInv, ClientEnds
<1>2. /\ c' \in Client(Nat) /\ c'.waiting = c.waiting /\ c'.told = c.told
      /\ c'.pf = c.pf /\ c'.height = c.height /\ c'.nUpdateRectsLeft = c.nUpdateRectsLeft
  BY <1>1 DEF Client
<1>3. ~Open /\ Readable(c, FALSE, Down)
  BY <1>1 DEF IInv, Open
<1>4. Readable(c', FALSE, Down)
  BY <1>2, <1>3, KnowsMore DEF Readable
<1>5. TypeOK'
  BY <1>1, <1>2 DEF TypeOK, Client
<1>6. Down' = Down /\ Open' = Open
  BY <1>1 DEF Down, Open
<1>7. QED
  BY <1>1, <1>3, <1>4, <1>5, <1>6 DEF IInv

LEMMA TailJoined ==
  ASSUME NEW S, NEW p \in Seq(S), NEW q \in Seq(S), p # <<>>
  PROVE  /\ p \o q \in Seq(S) /\ p \o q # <<>> /\ (p \o q)[1] = Head(p)
         /\ Tail(p \o q) = Tail(p) \o q
<1> DEFINE x == Head(p)
           t == Tail(p)
           one == <<x>>
           tq == t \o q
<1>1. x \in S /\ t \in Seq(S) /\ p = one \o t
  BY TailOf, HeadAndTail
<1> HIDE DEF x, t
<1>2. one \in Seq(S)
  BY <1>1
<1>3. tq \in Seq(S)
  BY <1>1, ConcatProperties
<1>4. p \o q = one \o tq
  <2> HIDE DEF one
  <2>1. (one \o t) \o q = one \o (t \o q)
    BY <1>1, <1>2, ConcatAssociative
  <2>2. QED
    BY <1>1, <2>1
<1> HIDE DEF tq
<1>5. /\ <<x>> \o tq \in Seq(S) /\ <<x>> \o tq # <<>>
      /\ (<<x>> \o tq)[1] = x /\ Tail(<<x>> \o tq) = tq
  BY <1>1, <1>3, FirstOf
<1>6. QED
  BY <1>4, <1>5 DEF x, t, tq

LEMMA AfterReadingIs ==
  ASSUME ClientReads, Expected(Head(toClient)) PROVE c' = AfterReading(Head(toClient))
BY DEF ClientReads, AfterReading

LEMMA ClientReadsKeeps ==
  ASSUME SizeAssumption, IInv, ClientReads PROVE IInv'
<1> DEFINE m == Head(toClient)
           q == Down
<1>1. /\ TypeOK /\ toClient # <<>> /\ toClient' = Tail(toClient)
      /\ UNCHANGED <<pb, s, sOut, toServer, cOut>>
  BY DEF IInv, ClientReads
<1>2. /\ c \in Client(Nat) /\ c.state = "NORMAL"
      /\ toClient \in Seq(ToClient) /\ sOut \in Seq(ToClient) /\ m \in ToClient
      /\ toClient' \in Seq(ToClient)
  BY <1>1, Typed, TailOf DEF ClientReads, ClientFree
<1>3. q \in Seq(ToClient) /\ q # <<>> /\ q[1] = m /\ Tail(q) = Down'
  BY <1>1, <1>2, TailJoined DEF Down
<1>4. /\ Open => Asking(s, c, Up, q) /\ Readable(c, TRUE, q)
      /\ ~Open => Readable(c, FALSE, q)
  BY OpenReadable DEF IInv, OpenInv
<1> HIDE DEF q
<1>5. Expected(m)
  BY <1>1, <1>3, <1>4, Understood
<1>6. c' = AfterReading(m)
  BY <1>5, AfterReadingIs
<1>7. c' \in Client(Int)
  BY <1>1, <1>2, <1>6, AfterTyped
<1>8. ASSUME NEW open, Readable(c, open, q)
      PROVE  /\ c'.pf = c.pf /\ c'.told = c.told /\ c'.state = c.state /\ c'.nUpdateRectsLeft \in Nat
             /\ Quiet(c, q) => c' = c /\ Quiet(c', Down')
             /\ c.waiting /\ Showing(c, open, q) =>
                  \/ c'.waiting /\ Showing(c', open, Down')
                  \/ ~c'.waiting /\ Quiet(c', Down')
  BY <1>1, <1>3, <1>6, <1>8, ReadsOn
<1>9. c'.pf = c.pf /\ c'.told = c.told /\ c'.state = c.state /\ c'.nUpdateRectsLeft \in Nat
  BY <1>4, <1>8
<1>10. c' \in Client(Nat)
  BY <1>7, <1>9 DEF Client
<1>11. TypeOK'
  BY <1>1, <1>2, <1>10 DEF TypeOK, Client
<1>12. Up' = Up /\ Open' = Open
  BY <1>1 DEF Up, Open
<1>13. ASSUME Open PROVE OpenInv(s, c', Up, Down')
  <2>1. Whole(c, Up) /\ Asking(s, c, Up, q) /\ SameFormat(s, c, Up) /\ Told(s, c)
    BY <1>4, <1>13 DEF IInv, OpenInv
  <2>2. Whole(c', Up) /\ SameFormat(s, c', Up) /\ Told(s, c')
    BY <1>9, <2>1 DEF Whole, Fits, SameFormat, Told
  <2>3. /\ Quiet(c, q) => c' = c /\ Quiet(c', Down')
        /\ c.waiting /\ Showing(c, TRUE, q) =>
             \/ c'.waiting /\ Showing(c', TRUE, Down')
             \/ ~c'.waiting /\ Quiet(c', Down')
    BY <1>4, <1>8, <1>13
  <2>4. CASE /\ c.waiting /\ Showing(c, TRUE, q) /\ s.requested = 0
             /\ NoRequest(Up) /\ NoFormat(Up)
    <3>1. Asking(s, c', Up, Down')
      BY <2>3, <2>4 DEF Asking
    <3>2. QED
      BY <2>2, <3>1 DEF OpenInv
  <2>5. CASE ~(/\ c.waiting /\ Showing(c, TRUE, q) /\ s.requested = 0
               /\ NoRequest(Up) /\ NoFormat(Up))
    <3>1. Quiet(c, q)
      BY <2>1, <2>5 DEF Asking
    <3>2. c' = c /\ Quiet(c, Down')
      BY <2>3, <3>1
    <3>3. Asking(s, c, Up, Down')
      BY <2>1, <2>5, <3>2 DEF Asking
    <3>4. QED
      BY <2>2, <3>2, <3>3 DEF OpenInv
  <2>6. QED
    BY <2>4, <2>5
<1>14. ASSUME ~Open PROVE Readable(c', FALSE, Down')
  <2>1. Readable(c, FALSE, q)
    BY <1>4, <1>14
  <2>2. /\ Quiet(c, q) => c' = c /\ Quiet(c', Down')
        /\ c.waiting /\ Showing(c, FALSE, q) =>
             \/ c'.waiting /\ Showing(c', FALSE, Down')
             \/ ~c'.waiting /\ Quiet(c', Down')
    BY <2>1, <1>8
  <2>3. QED
    BY <2>1, <2>2 DEF Readable
<1>15. (s.reading # "none" => sOut = <<>>)' /\ (c.state = "INVALID" => ~Open)'
  BY <1>1, <1>2, <1>9 DEF IInv
<1>16. QED
  BY <1>1, <1>11, <1>12, <1>13, <1>14, <1>15 DEF IInv

-----------------------------------------------------------------------------
LEMMA InitIInv == ASSUME SizeAssumption, Init PROVE IInv
<1>1. MaxRow \in Row /\ Row \subseteq Nat
  BY DEF SizeAssumption, Row
<1>2. s \in Server /\ s.state = "NORMAL" /\ s.reading = "none" /\ s.requested = 0
      /\ s.pf = "trueColour" /\ ~s.local /\ ~s.wsccb /\ ~s.resize /\ ~s.needSetDesktopSize
  BY <1>1 DEF Init, Server, Formats, EncodingsOf
<1>3. c \in Client(Nat) /\ c.state = "NORMAL" /\ c.pf = "trueColour" /\ ~c.waiting
      /\ c.nUpdateRectsLeft = 0
  BY <1>1 DEF Init, Client, Formats, EncodingsOf
<1>4. sOut = <<>> /\ toClient = <<>> /\ toServer = <<>> /\ cOut = <<>> /\ pb \in Row
  BY <1>1 DEF Init
<1>5. TypeOK
  BY <1>2, <1>3, <1>4, Typed
<1>6. Down = <<>> /\ Up = <<>>
  <2>1. Down = <<>>
    BY <1>4, <1>5, Ways
  <2>2. Up = <<>> \o <<>>
    BY <1>2, <1>4, <1>5, Ways
  <2>3. <<>> \in Seq(ToServer)
    OBVIOUS
  <2>4. QED
    BY <2>1, <2>2, <2>3, ConcatEmptySeq
<1>7. DOMAIN <<>> = {} /\ Len(<<>>) = 0
  OBVIOUS
<1>8. Quiet(c, <<>>) /\ NoRequest(<<>>) /\ NoFormat(<<>>) /\ Whole(c, <<>>)
  BY <1>3, <1>7 DEF Quiet, NoRequest, NoFormat, Whole
<1>9. OpenInv(s, c, <<>>, <<>>)
  BY <1>2, <1>3, <1>7, <1>8 DEF OpenInv, Asking, SameFormat, Told
<1>10. QED
  BY <1>2, <1>3, <1>5, <1>6, <1>9 DEF IInv, Open

LEMMA NextIInv == ASSUME SizeAssumption, IInv, [Next]_vars PROVE IInv'
<1>1. CASE ServerStep
  BY <1>1, ServerWritesKeeps, ReadTypeKeeps, ReadRestKeeps, TimedOutKeeps, tryUpdateKeeps
     DEF ServerStep
<1>2. CASE ClientStep
  BY <1>2, ClientWritesKeeps, ClientReadsKeeps, ClientEndsKeeps DEF ClientStep
<1>3. CASE Request
  BY <1>3, RequestKeeps
<1>4. CASE Event
  BY <1>4, DrawKeeps, PixelBufferChangeKeeps, SetCursorKeeps, TellKeeps, ChangeFormatKeeps,
     ChangeEncodingsKeeps, TypeKeeps, StallKeeps DEF Event
<1>5. CASE UNCHANGED vars
  <2>1. UNCHANGED <<pb, s, sOut, toClient, toServer, c, cOut>>
    BY <1>5 DEF vars
  <2>2. Up' = Up /\ Down' = Down /\ Open' = Open
    BY <2>1 DEF Up, Down, Open
  <2>3. TypeOK' = TypeOK
    BY <2>1 DEF TypeOK
  <2>4. QED
    BY <2>1, <2>2, <2>3 DEF IInv
<1>6. QED
  BY <1>1, <1>2, <1>3, <1>4, <1>5 DEF Next

LEMMA Invariance == ASSUME SizeAssumption PROVE Spec => []IInv
<1>1. Init => IInv
  BY InitIInv
<1>2. IInv /\ [Next]_vars => IInv'
  BY NextIInv
<1>3. QED
  BY <1>1, <1>2, PTL DEF Spec

(* Both ends, and every message between them, stay within the bounds of    *)
(* their types: screens of any height, clients that read as fast or as     *)
(* slowly as they like.                                                    *)
THEOREM TypeCorrect == ASSUME SizeAssumption PROVE Spec => []TypeOK
<1>1. IInv => TypeOK
  BY DEF IInv
<1>2. QED
  BY <1>1, Invariance, PTL

(* Whatever the desktop draws and the user of the client changes while     *)
(* messages are under way in both directions, the client meets nothing     *)
(* else than it waits for: as many rectangles as the header of the update  *)
(* said, inside the screen the client knows, in its pixel format, and      *)
(* pseudo rectangles only where it has asked for them.                     *)
THEOREM UpdatesAreUnderstood == ASSUME SizeAssumption PROVE Spec => []ClientUnderstands
<1>1. ASSUME IInv PROVE ClientUnderstands
  <2> SUFFICES ASSUME c.state = "NORMAL", toClient # <<>>
               PROVE  LET m == Head(toClient)
                      IN  /\ Expected(m)
                          /\ m.kind \in {"rect", "cursor"} => m.pf = c.pf
                          /\ m.kind = "cursor" => "cursor" \in c.told
                          /\ m.kind = "size" => "desktopSize" \in c.told
    BY DEF ClientUnderstands
  <2>1. TypeOK /\ toClient \in Seq(ToClient) /\ sOut \in Seq(ToClient)
    BY <1>1, Typed DEF IInv
  <2>2. Down \in Seq(ToClient) /\ Down # <<>> /\ Down[1] = Head(toClient)
    BY <2>1, TailJoined DEF Down
  <2>3. Readable(c, TRUE, Down) \/ Readable(c, FALSE, Down)
    BY <1>1, OpenReadable DEF IInv, OpenInv
  <2>4. QED
    BY <2>1, <2>2, <2>3, Understood
<1>2. QED
  BY <1>1, Invariance, PTL

=============================================================================
