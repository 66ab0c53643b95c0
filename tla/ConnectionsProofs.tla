-------------------------- MODULE ConnectionsProofs --------------------------
(* What the parts of a connection promise for any constants: the blacklist, *)
(* the HTTP server, the passwords and the command line here, and what       *)
(* HandshakeProofs, StreamsProofs and SessionProofs prove of the other      *)
(* parts, taken over for the run that looks at all of them.                 *)
EXTENDS MCConnections, Recursion, SequenceTheorems, FiniteSetTheorems, TLAPS

(* What the marks of an entry say of the calls that were let through: an   *)
(* entry is one mark ahead until it reaches the threshold, and from then   *)
(* on it always has a block.                                               *)
EntryInv(h) ==
  blm[h] # NoEntry =>
    /\ blm[h].blockUntil = 0 =>
         /\ blm[h].marks <= Threshold
         /\ blm[h].marks = allowed[h] + 1
         /\ blm[h].blockTimeout = InitialTimeout
    /\ blm[h].blockUntil > 0 =>
         /\ blm[h].marks >= Threshold
         /\ allowed[h] >= Threshold
         /\ blm[h].blockUntil - since[h] >= blm[h].blockTimeout - InitialTimeout
         /\ Threshold > 0 => blm[h].blockTimeout = Doubled[allowed[h] - Threshold + 1]

IInv ==
  /\ TypeOK
  /\ now > 0
  /\ \A h \in Host : EntryInv(h)

(* Doubled is what its equation says: the function exists. *)
LEMMA DoubledDef ==
  /\ Doubled[0] = InitialTimeout
  /\ \A n \in Nat : Doubled[n] \in Nat /\ Doubled[n + 1] = 2 * Doubled[n]
<1> DEFINE step == [p \in Nat \X Nat |-> 2 * p[2]]
           Eq(f) == f = [n \in Nat |-> IF n = 0 THEN InitialTimeout ELSE 2 * f[n - 1]]
<1>0. step \in Step(Nat)
  <2>1. \A p \in Nat \X Nat : 2 * p[2] \in Nat
    OBVIOUS
  <2> QED
    BY <2>1 DEF Step
<1>1. InitialTimeout \in Nat /\ \A n, m \in Nat : step[<<n, m>>] = 2 * m
  BY TimeAssumption
<1> HIDE DEF step
<1>2. PICK f : Follows(f, Nat, InitialTimeout, step)
  BY <1>0, <1>1, RecursiveFunction
<1>3. \A n \in Nat : f[n] = IF n = 0 THEN InitialTimeout ELSE 2 * f[n - 1]
  <2>1. \A n \in Nat : n # 0 => n - 1 \in Nat /\ n = (n - 1) + 1
    OBVIOUS
  <2> QED
    BY <1>1, <1>2, <2>1 DEF Follows
<1>4. Eq(f)
  BY <1>2, <1>3 DEF Follows
<1>5. Eq(Doubled)
  <2> HIDE DEF Eq
  <2>1. Doubled = CHOOSE g : Eq(g)
    BY DEF Doubled, Eq
  <2> QED
    BY <1>4, <2>1
<1>6. Doubled[0] = InitialTimeout /\ \A n \in Nat : Doubled[n + 1] = 2 * Doubled[n]
  BY <1>5
<1>7. \A n \in Nat : Doubled[n] \in Nat
  <2> DEFINE T == {n \in Nat : Doubled[n] \in Nat}
  <2>1. 0 \in T
    BY <1>6, TimeAssumption
  <2>2. ASSUME NEW n \in Nat, n \in T PROVE n + 1 \in T
    BY <1>6, <2>2
  <2> HIDE DEF T
  <2>3. Nat \subseteq T
    BY <2>1, <2>2, Induction
  <2> QED
    BY <2>3 DEF T
<1> QED
  BY <1>6, <1>7

LEMMA InitIInv == Init => IInv
BY TimeAssumption DEF Init, IInv, TypeOK, EntryInv

LEMMA EntryOfType ==
  ASSUME TypeOK, NEW h \in Host PROVE EntryOf(h) \in Entry
BY TimeAssumption DEF TypeOK, EntryOf, NewEntry, Entry

(* A call only touches the entry of its host. *)
LEMMA MarkIInv == ASSUME IInv, NEW h \in Host, Mark(h) PROVE IInv'
<1> DEFINE e == EntryOf(h)
<1>1. e \in Entry /\ [e EXCEPT !.marks = e.marks + 1] \in Entry
  BY EntryOfType DEF IInv, Entry
<1>2. TypeOK'
  BY <1>1, NoEntryAssumption DEF IInv, TypeOK, Mark, Let
<1>3. e.blockUntil = 0 /\ e.marks = allowed[h] + 1 /\ e.blockTimeout = InitialTimeout
  BY <1>1, ThresholdAssumption
     DEF IInv, TypeOK, EntryInv, Mark, Reached, EntryOf, NewEntry, Entry
<1>4. EntryInv(h)'
  BY <1>1, <1>3, ThresholdAssumption
     DEF IInv, TypeOK, EntryInv, Mark, Let, Reached, Entry
<1>5. \A g \in Host \ {h} : EntryInv(g)'
  BY DEF IInv, TypeOK, EntryInv, Mark, Let
<1> QED
  BY <1>2, <1>4, <1>5 DEF IInv, Mark

LEMMA RetryIInv == ASSUME IInv, NEW h \in Host, Retry(h) PROVE IInv'
<1> DEFINE e == EntryOf(h)
<1>1. e \in Entry /\ Retried(e) \in Entry
  <2>1. e \in Entry
    BY EntryOfType DEF IInv
  <2>2. now + e.blockTimeout \in Nat /\ 2 * e.blockTimeout \in Nat
    BY <2>1 DEF IInv, TypeOK, Entry
  <2> QED
    BY <2>1, <2>2 DEF Entry, Retried
<1>2. TypeOK'
  BY <1>1, NoEntryAssumption DEF IInv, TypeOK, Retry, Let
<1>3. /\ Retried(e).marks = e.marks
      /\ Retried(e).blockUntil = now + e.blockTimeout
      /\ Retried(e).blockTimeout = 2 * e.blockTimeout
  BY <1>1 DEF Retried, Entry
<1>4. now + e.blockTimeout > 0
  BY <1>1 DEF IInv, TypeOK, Entry
<1>5. allowed[h] + 1 >= Threshold
  BY <1>1, ThresholdAssumption
     DEF IInv, TypeOK, EntryInv, Retry, Reached, EntryOf, NewEntry, Entry
<1>6. now - since'[h] >= e.blockTimeout - InitialTimeout
  <2>1. CASE e.blockUntil = 0
    BY <1>1, <2>1, TimeAssumption
       DEF IInv, TypeOK, EntryInv, Retry, EntryOf, NewEntry, Entry
  <2>2. CASE e.blockUntil > 0
    BY <1>1, <2>2, TimeAssumption
       DEF IInv, TypeOK, EntryInv, Retry, EntryOf, NewEntry, Entry
  <2> QED
    BY <1>1, <2>1, <2>2 DEF Entry
<1>9. Threshold > 0 => 2 * e.blockTimeout = Doubled[allowed[h] + 1 - Threshold + 1]
  <2> SUFFICES ASSUME Threshold > 0
               PROVE 2 * e.blockTimeout = Doubled[allowed[h] + 1 - Threshold + 1]
    OBVIOUS
  <2>1. CASE e.blockUntil = 0
    <3>1. e.blockTimeout = InitialTimeout /\ allowed[h] + 1 = Threshold
      BY <1>1, <2>1, ThresholdAssumption
         DEF IInv, TypeOK, EntryInv, Retry, Reached, EntryOf, NewEntry, Entry
    <3>2. Doubled[0 + 1] = 2 * Doubled[0]
      BY DoubledDef
    <3>3. allowed[h] + 1 - Threshold + 1 = 0 + 1
      <4>1. allowed[h] \in Nat
        BY DEF IInv, TypeOK
      <4> QED
        BY <3>1, <4>1, ThresholdAssumption
    <3> QED
      BY <3>1, <3>2, <3>3, DoubledDef
  <2>2. CASE e.blockUntil > 0
    <3> DEFINE n == allowed[h] - Threshold + 1
    <3>1. allowed[h] \in Nat /\ allowed[h] >= Threshold /\ e.blockTimeout = Doubled[n]
      BY <1>1, <2>2
         DEF IInv, TypeOK, EntryInv, Retry, EntryOf, NewEntry, Entry
    <3>2. n \in Nat /\ allowed[h] + 1 - Threshold + 1 = n + 1
      BY <3>1, ThresholdAssumption
    <3> QED
      BY <3>1, <3>2, DoubledDef
  <2> QED
    BY <1>1, <2>1, <2>2 DEF Entry
<1>7. EntryInv(h)'
  <2>1. blm'[h] = Retried(e) /\ allowed'[h] = allowed[h] + 1
    BY DEF IInv, TypeOK, Retry, Let
  <2>2. e.marks >= Threshold
    BY DEF Retry, Reached
  <2>3. since'[h] \in Nat
    BY <1>2 DEF TypeOK
  <2> QED
    <3>1. blm'[h] # NoEntry /\ blm'[h].blockUntil > 0
      BY <1>1, <1>3, <1>4, <2>1, NoEntryAssumption
    <3>3. Threshold > 0 => blm'[h].blockTimeout = Doubled[allowed'[h] - Threshold + 1]
      <4>1. blm'[h].blockTimeout = 2 * e.blockTimeout
        BY <1>3, <2>1
      <4>2. allowed'[h] - Threshold + 1 = allowed[h] + 1 - Threshold + 1
        <5>1. allowed[h] \in Nat
          BY DEF IInv, TypeOK
        <5> QED
          BY <2>1, <5>1, ThresholdAssumption
      <4> QED
        BY <1>9, <4>1, <4>2
    <3>2. /\ blm'[h].marks >= Threshold /\ allowed'[h] >= Threshold
          /\ blm'[h].blockUntil - since'[h] >= blm'[h].blockTimeout - InitialTimeout
      BY <1>1, <1>3, <1>5, <1>6, <2>1, <2>2, <2>3, TimeAssumption DEF Entry, IInv, TypeOK
    <3> QED
      BY <3>1, <3>2, <3>3 DEF EntryInv
<1>8. \A g \in Host \ {h} : EntryInv(g)'
  BY DEF IInv, TypeOK, EntryInv, Retry, Let
<1> QED
  BY <1>2, <1>7, <1>8 DEF IInv, Retry

LEMMA ClearIInv == ASSUME IInv, NEW h \in Host, ClearBlackmark(h) PROVE IInv'
BY NoEntryAssumption DEF IInv, TypeOK, EntryInv, ClearBlackmark

LEMMA NextIInv == IInv /\ [Next]_vars => IInv'
<1> SUFFICES ASSUME IInv, [Next]_vars PROVE IInv'
  OBVIOUS
<1>1. ASSUME NEW h \in Host, IsBlackmarked(h) PROVE IInv'
  <2>1. CASE Reject(h)
    BY <2>1 DEF Reject, vars, IInv, TypeOK, EntryInv
  <2> QED
    BY <1>1, <2>1, MarkIInv, RetryIInv DEF IsBlackmarked
<1>2. CASE TimePasses
  BY <1>2 DEF TimePasses, IInv, TypeOK, EntryInv
<1>3. CASE UNCHANGED vars
  BY <1>3 DEF vars, IInv, TypeOK, EntryInv
<1> QED
  BY <1>1, <1>2, <1>3, ClearIInv DEF Next

LEMMA Invariance == Spec => []IInv
BY InitIInv, NextIInv, PTL DEF Spec

-----------------------------------------------------------------------------
(* Every reachable state is well typed. *)
THEOREM TypeCorrect == Spec => []TypeOK
<1>1. IInv => TypeOK
  BY DEF IInv
<1> QED
  BY <1>1, Invariance, PTL

(* isBlackmarked() never turns a host away before its Threshold calls. *)
THEOREM ThresholdCalls == Spec => []NotBeforeThreshold
<1>1. ASSUME IInv, NEW h \in Host, Blackmarked(h) PROVE allowed[h] >= Threshold
  <2>1. blm[h] # NoEntry
    BY <1>1 DEF IInv, TypeOK, Blackmarked, EntryOf, NewEntry
  <2>2. blm[h].blockUntil > 0
    BY <1>1, <2>1 DEF IInv, TypeOK, Blackmarked, EntryOf, Entry
  <2> QED
    BY <1>1, <2>1, <2>2 DEF IInv, EntryInv
<1>2. IInv => NotBeforeThreshold
  BY <1>1 DEF NotBeforeThreshold
<1> QED
  BY <1>2, Invariance, PTL

(* With a positive threshold, a host that has had its calls is turned away *)
(* until its timeout has expired.                                          *)
THEOREM NoMoreCalls == ASSUME Threshold > 0 PROVE Spec => []NotAfterThreshold
<1>1. ASSUME IInv, NEW h \in Host, allowed[h] >= Threshold, ~Blackmarked(h)
      PROVE EntryOf(h).blockUntil > 0 /\ now >= EntryOf(h).blockUntil
  <2>1. blm[h] # NoEntry
    BY <1>1, ThresholdAssumption DEF IInv, TypeOK
  <2>2. blm[h] \in Entry /\ EntryInv(h) /\ EntryOf(h) = blm[h]
    BY <1>1, <2>1 DEF IInv, TypeOK, EntryOf
  <2>3. blm[h].blockUntil > 0
    BY <1>1, <2>1, <2>2, ThresholdAssumption DEF IInv, TypeOK, EntryInv, Entry
  <2> QED
    BY <1>1, <2>1, <2>2, <2>3, ThresholdAssumption
       DEF IInv, TypeOK, EntryInv, Blackmarked, Reached, Entry
<1>2. IInv => NotAfterThreshold
  BY <1>1 DEF NotAfterThreshold
<1> QED
  BY <1>2, Invariance, PTL

(* The time a host has to wait grows with every timeout it has been given. *)
THEOREM TimeoutsAlwaysAddUp == Spec => []TimeoutsAddUp
<1>1. IInv => TimeoutsAddUp
  BY DEF IInv, EntryInv, TimeoutsAddUp, Blocked
<1> QED
  BY <1>1, Invariance, PTL

(* And each timeout is twice the one before: a host that is let in n times *)
(* after the threshold has waited for (2^n - 1) initial timeouts.  With a  *)
(* threshold of zero the first call is let in all the same, but the host   *)
(* waits no longer for it.                                                 *)
THEOREM DoublingIsKept == ASSUME Threshold > 0 PROVE Spec => []NoFasterThanDoubling
<1>1. ASSUME IInv, NEW h \in Host, Blocked(h)
      PROVE blm[h].blockUntil - since[h] >= Doubled[allowed[h] - Threshold + 1] - InitialTimeout
  BY <1>1 DEF IInv, EntryInv, Blocked
<1>2. IInv => NoFasterThanDoubling
  BY <1>1 DEF NoFasterThanDoubling
<1> QED
  BY <1>2, Invariance, PTL
-----------------------------------------------------------------------------
(* A behaviour of the parts is one of each part, which stays as it is while *)
(* another part is looked at.                                               *)
LEMMA PartsImplement == PartsSpec => H!Spec /\ B!Spec /\ M!Spec
<1>1. PartsInit => H!Init /\ B!Init /\ M!Init
  BY DEF PartsInit
<1>2. [PartsNext]_<<part, vars, handshakeVars, streamVars, sessionVars, programVars>> => [H!Next]_H!vars
  BY DEF PartsNext, handshakeVars, H!vars, H!serverVars, H!clientVars
<1>3. [PartsNext]_<<part, vars, handshakeVars, streamVars, sessionVars, programVars>> => [B!Next]_B!vars
  BY DEF PartsNext, streamVars, B!vars, B!writerVars, B!readerVars
<1>4. [PartsNext]_<<part, vars, handshakeVars, streamVars, sessionVars, programVars>> => [M!Next]_M!vars
  BY DEF PartsNext, sessionVars, M!vars
<1> QED
  BY <1>1, <1>2, <1>3, <1>4, PTL DEF PartsSpec, H!Spec, B!Spec, M!Spec

(* Handshake: each end finds at its turn the message that its state says,   *)
(* whatever the versions, the security types and the user's answer are.     *)
THEOREM MessagesAreUnderstood == PartsSpec => []NeverMisread
<1>1. H!Spec => []H!TypeOK
  BY HandshakeLists, H!TypeCorrect
<1>2. H!Spec => []H!NeverMisread
  BY HandshakeLists, H!MessagesAreUnderstood
<1>3. H!TypeOK /\ H!NeverMisread => NeverMisread
  BY DEF NeverMisread
<1> QED
  BY PartsImplement, <1>1, <1>2, <1>3, PTL

(* Handshake: the two ends that are in agree on the version and the type of *)
(* security, which is the one the preferences ask for, no client is in      *)
(* without the password, a refused one knows it and a queried one waits.    *)
THEOREM SecurityIsAgreed == PartsSpec => []AgreeOnSecurity
<1>1. H!Spec => []H!AgreeOnSecurity
  BY HandshakeLists, H!EndsAgree
<1>2. H!Spec => []H!ChoiceIsPreferred
  BY HandshakeLists, H!PreferenceIsObeyed
<1>3. H!Spec => []H!RefusedClientKnows
  BY HandshakeLists, H!RefusalIsTold
<1>4. H!Spec => []H!QueriedClientWaits
  BY HandshakeLists, H!QueriesAreAwaited
<1>5. H!AgreeOnSecurity /\ H!ChoiceIsPreferred /\ H!RefusedClientKnows /\ H!QueriedClientWaits => AgreeOnSecurity
  BY DEF AgreeOnSecurity
<1> QED
  BY PartsImplement, <1>1, <1>2, <1>3, <1>4, <1>5, PTL

(* Streams: what the reader takes is what the writer wrote, in its order,   *)
(* whatever the sizes of the buffers, of the items and of the pieces the    *)
(* socket moves at a time.                                                  *)
THEOREM BytesArriveInOrder == PartsSpec => []InOrder
<1>1. B!Spec => []B!TypeOK
  BY StreamSizes, B!TypeCorrect
<1>2. B!Spec => []B!InOrder
  BY StreamSizes, B!BytesInOrder
<1>3. B!TypeOK /\ B!InOrder => InOrder
  BY DEF InOrder
<1> QED
  BY PartsImplement, <1>1, <1>2, <1>3, PTL

(* Session: a client in normal operation meets no update, message or        *)
(* encoding that it does not wait for, however far its requests and the     *)
(* changes of the desktop run ahead of each other.                          *)
THEOREM UpdatesAreUnderstood == PartsSpec => []ClientUnderstands
<1>1. M!Spec => []M!TypeOK
  BY SessionSizes, M!TypeCorrect
<1>2. M!Spec => []M!ClientUnderstands
  BY SessionSizes, M!UpdatesAreUnderstood
<1>3. M!TypeOK /\ M!ClientUnderstands => ClientUnderstands
  BY DEF ClientUnderstands
<1> QED
  BY PartsImplement, <1>1, <1>2, <1>3, PTL

-----------------------------------------------------------------------------
(* HTTPServer.  The lines of a text as the property sees them: the line of *)
(* which e is the end begins after d.                                      *)
Starts(d, text, e) ==
  /\ d = 0 \/ text[d] = W!LF
  /\ \A x \in d + 1 .. e - 1 : text[x] # W!LF

(* A line begins somewhere, and at one place only. *)
LEMMA LineStarts ==
  ASSUME NEW text \in Seq(W!Characters), NEW e \in 1 .. Len(text) + 1
  PROVE  \E d \in 0 .. e - 1 : Starts(d, text, e)
<1> DEFINE T == {n \in Nat : n <= e - 1 /\ (e - 1 - n = 0 \/ text[e - 1 - n] = W!LF)}
<1>1. e - 1 \in T
  OBVIOUS
<1>2. PICK n \in T : \A m \in T : n <= m
  BY <1>1, LeastNatural
<1>3. e - 1 - n \in 0 .. e - 1 /\ (e - 1 - n = 0 \/ text[e - 1 - n] = W!LF)
  OBVIOUS
<1>4. ASSUME NEW x \in e - 1 - n + 1 .. e - 1, text[x] = W!LF PROVE FALSE
  <2>1. e - 1 - x \in Nat /\ e - 1 - x <= e - 1 /\ e - 1 - (e - 1 - x) = x /\ e - 1 - x < n /\ n \in Nat
    <3>1. n \in Nat /\ n <= e - 1 /\ e \in Nat
      BY <1>2
    <3> HIDE DEF T
    <3> QED
      BY <1>4, <3>1
  <2>2. e - 1 - x \in T
    BY <1>4, <2>1
  <2> HIDE DEF T
  <2> QED
    BY <1>2, <2>1, <2>2
<1> QED
  BY <1>3, <1>4 DEF Starts

LEMMA OneStart ==
  ASSUME NEW text, NEW e \in Nat, NEW d1 \in 0 .. e - 1, NEW d2 \in 0 .. e - 1,
         Starts(d1, text, e), Starts(d2, text, e)
  PROVE  d1 = d2
BY DEF Starts

(* What a line is made of. *)
LEMMA LineMade ==
  ASSUME NEW text \in Seq(W!Characters), NEW e \in 1 .. Len(text) + 1,
         NEW d \in 0 .. e - 1, Starts(d, text, e)
  PROVE  /\ W!LineBefore(text, e) \in Seq(W!Characters)
         /\ Len(W!LineBefore(text, e)) = e - 1 - d
         /\ \A j \in 1 .. e - 1 - d : W!LineBefore(text, e)[j] = text[d + j]
<1>1. W!LineBefore(text, e) = SubSeq(text, d + 1, e - 1)
  <2> DEFINE start == CHOOSE x \in 0 .. e - 1 : Starts(x, text, e)
  <2>1. start \in 0 .. e - 1 /\ Starts(start, text, e)
    OBVIOUS
  <2>2. start = d
    BY <2>1, OneStart
  <2>3. W!LineBefore(text, e) = SubSeq(text, start + 1, e - 1)
    BY DEF W!LineBefore, Starts
  <2> QED
    BY <2>2, <2>3
<1>2. \A j \in d + 1 .. e - 1 : text[j] \in W!Characters
  BY ElementOfSeq
<1>3. /\ SubSeq(text, d + 1, e - 1) \in Seq(W!Characters)
      /\ Len(SubSeq(text, d + 1, e - 1)) = IF d + 1 <= e - 1 THEN e - 1 - (d + 1) + 1 ELSE 0
      /\ \A j \in 1 .. e - 1 - (d + 1) + 1 : SubSeq(text, d + 1, e - 1)[j] = text[d + 1 + j - 1]
  BY <1>2, SubSeqProperties, d + 1 \in Int, e - 1 \in Int
<1> QED
  BY <1>1, <1>3

(* The line that has not ended *)
Current(text) == W!LineBefore(text, Len(text) + 1)

LEMMA LineIsALine ==
  ASSUME NEW text \in Seq(W!Characters), NEW e \in 1 .. Len(text) + 1
  PROVE  W!LineBefore(text, e) \in Seq(W!Characters)
BY LineStarts, LineMade

(* A character that is read changes no line that has ended, and is added   *)
(* to the one that has not.                                                *)
LEMMA LinesStay ==
  ASSUME NEW text \in Seq(W!Characters), NEW ch \in W!Characters, NEW e \in 1 .. Len(text) + 1
  PROVE  W!LineBefore(Append(text, ch), e) = W!LineBefore(text, e)
<1> DEFINE more == Append(text, ch)
<1>1. more \in Seq(W!Characters) /\ Len(more) = Len(text) + 1 /\ \A i \in 1 .. Len(text) : more[i] = text[i]
  BY AppendProperties
<1> HIDE DEF more
<1>2. PICK d \in 0 .. e - 1 : Starts(d, text, e)
  BY LineStarts
<1>3. Starts(d, more, e)
  BY <1>1, <1>2 DEF Starts
<1>4. e \in 1 .. Len(more) + 1
  BY <1>1
<1>5. W!LineBefore(text, e) \in Seq(W!Characters) /\ Len(W!LineBefore(text, e)) = e - 1 - d
  BY <1>2, LineMade
<1>6. W!LineBefore(more, e) \in Seq(W!Characters) /\ Len(W!LineBefore(more, e)) = e - 1 - d
  BY <1>1, <1>3, <1>4, LineMade
<1>7. ASSUME NEW j \in 1 .. e - 1 - d PROVE W!LineBefore(more, e)[j] = W!LineBefore(text, e)[j]
  <2>1. W!LineBefore(more, e)[j] = more[d + j]
    BY <1>1, <1>3, <1>4, LineMade
  <2>2. W!LineBefore(text, e)[j] = text[d + j]
    BY <1>2, LineMade
  <2>3. d + j \in 1 .. Len(text)
    OBVIOUS
  <2> QED
    BY <1>1, <2>1, <2>2, <2>3
<1>8. W!LineBefore(more, e) = W!LineBefore(text, e)
  BY <1>5, <1>6, <1>7, SeqEqual
<1> QED
  BY <1>8 DEF more

LEMMA LineGrows ==
  ASSUME NEW text \in Seq(W!Characters), NEW ch \in W!Characters
  PROVE  Current(Append(text, ch)) = IF ch = W!LF THEN <<>> ELSE Append(Current(text), ch)
<1> DEFINE more == Append(text, ch)
           n == Len(text)
<1>1. n \in Nat /\ more \in Seq(W!Characters) /\ Len(more) = n + 1
      /\ (\A i \in 1 .. n : more[i] = text[i]) /\ more[n + 1] = ch
  BY AppendProperties
<1> HIDE DEF more
<1>2. n + 2 \in 1 .. Len(more) + 1 /\ n + 1 \in 1 .. Len(text) + 1
  BY <1>1
<1>3. CASE ch = W!LF
  <2>1. Starts(n + 1, more, n + 2)
    BY <1>1, <1>3 DEF Starts
  <2>2. W!LineBefore(more, n + 2) \in Seq(W!Characters) /\ Len(W!LineBefore(more, n + 2)) = n + 2 - 1 - (n + 1)
    BY <1>1, <1>2, <2>1, LineMade
  <2>3. W!LineBefore(more, n + 2) = <<>>
    BY <1>1, <2>2, EmptySeq
  <2> QED
    BY <1>1, <1>3, <2>3 DEF Current, more
<1>4. CASE ch # W!LF
  <2>1. PICK d \in 0 .. n : Starts(d, text, n + 1)
    BY <1>2, LineStarts, n + 1 - 1 = n
  <2> DEFINE line == W!LineBefore(text, n + 1)
  <2>2. line \in Seq(W!Characters) /\ Len(line) = n - d /\ \A j \in 1 .. n - d : line[j] = text[d + j]
    <3> DEFINE e == n + 1
    <3>1. e \in 1 .. Len(text) + 1 /\ d \in 0 .. e - 1 /\ Starts(d, text, e) /\ e - 1 - d = n - d
      BY <1>1, <1>2, <2>1
    <3>2. line = W!LineBefore(text, e)
      OBVIOUS
    <3> HIDE DEF e, line
    <3> QED
      BY <3>1, <3>2, LineMade
  <2>3. Starts(d, more, n + 2)
    BY <1>1, <1>4, <2>1 DEF Starts
  <2> DEFINE longer == W!LineBefore(more, n + 2)
  <2>4. longer \in Seq(W!Characters) /\ Len(longer) = n + 1 - d /\ \A j \in 1 .. n + 1 - d : longer[j] = more[d + j]
    <3>1. d \in 0 .. n + 2 - 1 /\ n + 2 - 1 = n + 1
      BY <1>1
    <3> QED
      BY <1>1, <1>2, <2>3, <3>1, LineMade
  <2> HIDE DEF line, longer
  <2>5. /\ Append(line, ch) \in Seq(W!Characters) /\ Len(Append(line, ch)) = n - d + 1
        /\ \A j \in 1 .. n - d : Append(line, ch)[j] = line[j]
        /\ Append(line, ch)[n - d + 1] = ch
    BY <2>2, AppendProperties
  <2>6. ASSUME NEW j \in 1 .. n + 1 - d PROVE longer[j] = Append(line, ch)[j]
    <3>1. CASE j = n + 1 - d
      BY <1>1, <2>4, <2>5, <3>1
    <3>2. CASE j # n + 1 - d
      <4>1. j \in 1 .. n - d /\ d + j \in 1 .. n
        BY <1>1, <3>2
      <4> QED
        BY <1>1, <2>2, <2>4, <2>5, <4>1
    <3> QED
      BY <3>1, <3>2
  <2>7. longer = Append(line, ch)
    <3> DEFINE joined == Append(line, ch)
    <3>1. Len(longer) = n + 1 - d /\ Len(joined) = n + 1 - d
      BY <1>1, <2>4, <2>5
    <3>2. joined \in Seq(W!Characters) /\ \A j \in 1 .. n + 1 - d : longer[j] = joined[j]
      BY <2>5, <2>6
    <3> HIDE DEF joined
    <3>3. longer = joined
      BY <2>4, <3>1, <3>2, SeqEqual
    <3> QED
      BY <3>3 DEF joined
  <2>8. Current(more) = longer
    <3>1. Len(more) + 1 = n + 2
      BY <1>1
    <3> HIDE DEF n
    <3> QED
      BY <3>1, Zenon DEF Current, longer
  <2>9. Current(text) = line
    BY DEF Current, line
  <2> QED
    BY <1>4, <2>7, <2>8, <2>9 DEF more
<1> QED
  BY <1>3, <1>4

(* Where the lines end that are not blank *)
Filled(text) == {e \in DOMAIN text : text[e] = W!LF /\ ~W!Blank(W!LineBefore(text, e))}

(* The line that is the request ends at e, or is the one that has not      *)
(* ended and does not fit.                                                 *)
IsAsked(text, e) ==
  /\ e \in 1 .. Len(text) + 1
  /\ IF e = Len(text) + 1 THEN Len(Current(text)) >= LineSize /\ Filled(text) = {}
     ELSE e \in Filled(text) /\ \A d \in Filled(text) : e <= d

NotAsked(text) == Filled(text) = {} /\ Len(Current(text)) < LineSize

(* The words of a line, as processHTTP() reads them.  White space ends,    *)
(* and a word does.                                                        *)
LEMMA WhiteSkipped ==
  ASSUME NEW line, Len(line) \in Nat, NEW at \in 1 .. Len(line) + 1
  PROVE  LET b == W!SkipWhite(line)[at]
         IN  /\ b \in at .. Len(line) + 1
             /\ \A i \in at .. b - 1 : line[i] \in W!White
             /\ b <= Len(line) => line[b] \notin W!White
<1> DEFINE n == Len(line)
           T == {x \in Nat : x \in at .. n + 1 /\ (x = n + 1 \/ line[x] \notin W!White)}
           Ends(b) == /\ \A i \in at .. b - 1 : line[i] \in W!White
                      /\ b <= n => line[b] \notin W!White
<1>1. n + 1 \in T
  OBVIOUS
<1>2. PICK x \in T : \A y \in T : x <= y
  BY <1>1, LeastNatural
<1>3. x \in at .. n + 1 /\ (x <= n => line[x] \notin W!White)
  BY <1>2
<1>4. ASSUME NEW i \in at .. x - 1 PROVE line[i] \in W!White
  BY <1>2, <1>3
<1>5. \E b \in at .. n + 1 : Ends(b)
  BY <1>3, <1>4
<1>6. W!SkipWhite(line)[at] = CHOOSE b \in at .. n + 1 : Ends(b)
  BY DEF W!SkipWhite
<1> HIDE DEF Ends
<1>7. W!SkipWhite(line)[at] \in at .. n + 1 /\ Ends(W!SkipWhite(line)[at])
  BY <1>5, <1>6
<1> QED
  BY <1>7 DEF Ends

LEMMA WordEnded ==
  ASSUME NEW line, Len(line) \in Nat, NEW b \in 1 .. Len(line) + 1, NEW room \in Nat
  PROVE  LET e == W!EndOfWord(line, room)[b]
         IN  /\ e \in b .. Len(line) + 1
             /\ \A i \in b .. e - 1 : line[i] \notin W!White
             /\ e - b <= room
             /\ e - b < room => (e <= Len(line) => line[e] \in W!White)
<1> DEFINE n == Len(line)
           T == {x \in Nat : x \in b .. n + 1 /\ (x = n + 1 \/ x - b = room \/ line[x] \in W!White)}
           Ends(e) == /\ \A i \in b .. e - 1 : line[i] \notin W!White
                      /\ e - b <= room
                      /\ e - b < room => (e <= n => line[e] \in W!White)
<1>1. n + 1 \in T
  OBVIOUS
<1>2. PICK x \in T : \A y \in T : x <= y
  BY <1>1, LeastNatural
<1>3. x \in b .. n + 1 /\ (x = n + 1 \/ x - b = room \/ line[x] \in W!White)
  BY <1>2
<1>4. ASSUME NEW i \in b .. x - 1 PROVE line[i] \notin W!White
  BY <1>2, <1>3
<1>5. x - b <= room
  <2>1. ASSUME x - b > room PROVE b + room \in T /\ b + room < x
    BY <1>3, <2>1
  <2> QED
    BY <1>2, <1>3, <2>1
<1>6. \E e \in b .. n + 1 : Ends(e)
  BY <1>3, <1>4, <1>5
<1>7. W!EndOfWord(line, room)[b] = CHOOSE e \in b .. n + 1 : Ends(e)
  BY DEF W!EndOfWord
<1> HIDE DEF Ends
<1>8. W!EndOfWord(line, room)[b] \in b .. n + 1 /\ Ends(W!EndOfWord(line, room)[b])
  BY <1>6, <1>7
<1> QED
  BY <1>8 DEF Ends

(* The word that is read from a place on is the first one of what is left  *)
(* there.                                                                  *)
Left(line, at) == {j \in W!Solid(line) : j >= at}

LEMMA SolidPlaces ==
  ASSUME NEW Signs, NEW line \in Seq(Signs)
  PROVE  /\ W!Solid(line) \subseteq 1 .. Len(line)
         /\ \A i \in 1 .. Len(line) : i \in W!Solid(line) <=> line[i] \notin W!White
<1>1. DOMAIN line = 1 .. Len(line)
  BY LenProperties
<1> QED
  BY <1>1, Zenon DEF W!Solid, W!White

LEMMA WordRead ==
  ASSUME NEW Signs, NEW line \in Seq(Signs), NEW at \in 1 .. Len(line) + 1, NEW room \in Nat \ {0},
         NEW b, b = W!SkipWhite(line)[at], NEW e, e = W!EndOfWord(line, room)[b]
  PROVE  /\ b \in at .. Len(line) + 1 /\ e \in b .. Len(line) + 1
         /\ W!Word(Left(line, at), room) = b .. e - 1
         /\ Left(line, at) \ (b .. e - 1) = Left(line, e)
         /\ Left(line, at) = {} <=> b = Len(line) + 1
         /\ b <= Len(line) => b < e
<1> DEFINE n == Len(line)
           left == Left(line, at)
<1>1. n \in Nat /\ DOMAIN line = 1 .. n /\ at \in 1 .. n + 1
  BY LenProperties
<1>2. /\ b \in at .. n + 1 /\ b \in 1 .. n + 1
      /\ \A i \in at .. b - 1 : line[i] \in W!White
      /\ b <= n => line[b] \notin W!White
  BY <1>1, WhiteSkipped
<1>3. /\ e \in b .. n + 1
      /\ \A i \in b .. e - 1 : line[i] \notin W!White
      /\ e - b <= room
      /\ e - b < room => (e <= n => line[e] \in W!White)
  BY <1>1, <1>2, WordEnded
<1> DEFINE solid == W!Solid(line)
<1>4. /\ solid \subseteq 1 .. n
      /\ \A j \in 1 .. n : j \in solid <=> line[j] \notin W!White
  BY SolidPlaces
<1>5. left = {j \in solid : j >= at} /\ Left(line, e) = {j \in solid : j >= e}
  BY DEF Left
<1> DEFINE later == Left(line, e)
<1> HIDE DEF n, left, solid, later
<1>6. left \subseteq b .. n /\ (b <= n => b \in left) /\ b .. e - 1 \subseteq left
  <2>1. left \subseteq at .. n /\ \A j \in at .. n : j \in left <=> line[j] \notin W!White
    <3>1. \A j \in solid : j \in 1 .. n
      BY <1>4
    <3>2. \A j \in 1 .. n : j >= at <=> j \in at .. n
      BY <1>1
    <3>3. \A j \in at .. n : j \in 1 .. n /\ j >= at
      BY <1>1
    <3> QED
      BY <1>4, <1>5, <3>1, <3>2, <3>3
  <2>2. \A j \in left : j \in at .. n /\ j \notin at .. b - 1
    BY <1>2, <2>1
  <2> QED
    BY <1>1, <1>2, <1>3, <2>1, <2>2
<1>7. b <= n => b < e
  BY <1>1, <1>2, <1>3
<1>8. ASSUME NEW i \in left, NEW a \in left, {j \in left : j <= i} = a .. i, i - a < room
      PROVE  i \in b .. e - 1
  <2>1. i \in b .. n /\ a \in b .. n /\ b \in left /\ b <= i
    BY <1>1, <1>2, <1>6
  <2>2. b \in a .. i
    BY <1>8, <2>1
  <2>3. a = b
    BY <1>1, <1>2, <2>1, <2>2
  <2>4. ASSUME e <= i PROVE FALSE
    <3>1. e \in a .. i /\ e <= n
      BY <1>1, <1>2, <1>3, <2>1, <2>3, <2>4
    <3>2. e \in left
      BY <1>8, <3>1
    <3>3. line[e] \notin W!White
      BY <1>4, <1>5, <3>2
    <3>4. e - b < room
      BY <1>2, <1>3, <1>8, <2>1, <2>3, <2>4
    <3> QED
      BY <1>3, <3>1, <3>3, <3>4
  <2> QED
    BY <1>1, <1>2, <1>3, <2>1, <2>4
<1>9. ASSUME NEW i \in b .. e - 1 PROVE i \in left /\ b \in left /\ {j \in left : j <= i} = b .. i /\ i - b < room
  <2>1. i \in left /\ b <= n /\ b \in left
    BY <1>1, <1>2, <1>3, <1>6
  <2>2. b .. i \subseteq left /\ \A j \in b .. i : j <= i
    BY <1>1, <1>2, <1>3, <1>6
  <2>3. \A j \in left : j <= i => j \in b .. i
    BY <1>1, <1>2, <1>3, <1>6
  <2>4. {j \in left : j <= i} = b .. i
    BY <2>2, <2>3
  <2>5. i - b < room
    BY <1>1, <1>2, <1>3
  <2> QED
    BY <2>1, <2>4, <2>5
<1>10. W!Word(left, room) = b .. e - 1
  BY <1>8, <1>9 DEF W!Word
<1>11. left \ (b .. e - 1) = later
  <2>1. \A j \in left : j \in Int /\ j >= b
    BY <1>1, <1>2, <1>6
  <2>2. \A j \in left : j \notin b .. e - 1 <=> j >= e
    BY <1>1, <1>2, <1>3, <2>1
  <2>3. later = {j \in left : j >= e}
    <3>1. \A j \in solid : j \in Int /\ (j >= e => j >= at)
      BY <1>1, <1>2, <1>3, <1>4
    <3>2. later = {j \in solid : j >= e}
      BY <1>5 DEF later
    <3> QED
      BY <1>5, <3>1, <3>2
  <2> QED
    BY <2>2, <2>3
<1>12. left = {} <=> b = n + 1
  BY <1>1, <1>2, <1>6
<1> QED
  BY <1>2, <1>3, <1>7, <1>10, <1>11, <1>12 DEF left, later, n

LEMMA TextOfPlaces ==
  ASSUME NEW line, NEW b \in Nat, NEW e \in Nat, b < e
  PROVE  W!TextAt(line, b .. e - 1) = SubSeq(line, b, e - 1)
<1> DEFINE first == CHOOSE i \in b .. e - 1 : \A j \in b .. e - 1 : i <= j
           last == CHOOSE i \in b .. e - 1 : \A j \in b .. e - 1 : j <= i
<1>1. \E i \in b .. e - 1 : \A j \in b .. e - 1 : i <= j
  BY b \in b .. e - 1
<1>2. \E i \in b .. e - 1 : \A j \in b .. e - 1 : j <= i
  BY e - 1 \in b .. e - 1
<1>3. first \in b .. e - 1 /\ \A j \in b .. e - 1 : first <= j
  BY <1>1
<1>4. last \in b .. e - 1 /\ \A j \in b .. e - 1 : j <= last
  BY <1>2
<1> HIDE DEF first, last
<1>5. first = b /\ last = e - 1
  BY <1>3, <1>4, b \in b .. e - 1, e - 1 \in b .. e - 1
<1> QED
  BY <1>5 DEF W!TextAt, first, last

(* What is answered to a request of these words *)
Answer(words, ended) ==
  IF words = <<>> THEN <<400>>
  ELSE IF words[1] \notin {<<"GET">>, <<"HEAD">>} THEN <<501>>
  ELSE IF ~ended THEN <<>>
  ELSE IF words[2] \notin Files THEN <<404>>
  ELSE IF words[1] = <<"HEAD">> THEN <<200>> ELSE <<200, words[2]>>

Rooms == MethodRoom \in Nat \ {0} /\ PathRoom \in Nat \ {0}

LEMMA AnswersWhatIsRead ==
  ASSUME NEW Signs, NEW line \in Seq(Signs), NEW ended,
         Rooms
  PROVE  W!AnswerTo(line, ended) = Answer(W!Words(line), ended)
<1> DEFINE n == Len(line)
           b1 == W!SkipWhite(line)[1]
           e1 == W!EndOfWord(line, MethodRoom)[b1]
           b2 == W!SkipWhite(line)[e1]
           e2 == W!EndOfWord(line, PathRoom)[b2]
           b3 == W!SkipWhite(line)[e2]
           method == SubSeq(line, b1, e1 - 1)
           path == SubSeq(line, b2, e2 - 1)
           solid == W!Solid(line)
           places == W!Word(solid, MethodRoom)
           further == W!Word(solid \ places, PathRoom)
<1>1. n \in Nat /\ DOMAIN line = 1 .. n
  BY LenProperties
<1>2. Left(line, 1) = solid /\ 1 \in 1 .. n + 1
  <2>1. solid \subseteq 1 .. n
    BY SolidPlaces
  <2> HIDE DEF solid, n
  <2>2. (\A j \in solid : j >= 1) /\ 1 \in 1 .. n + 1
    BY <1>1, <2>1
  <2>3. solid = {j \in solid : j >= 1}
    BY <2>2
  <2> QED
    BY <2>2, <2>3 DEF Left, solid, n
<1>3. W!Words(line) = IF b3 = n + 1 THEN <<>> ELSE <<method, path>>
  BY DEF W!Words
<1>4. W!AnswerTo(line, ended) =
        IF solid = places \cup further THEN <<400>>
        ELSE IF W!TextAt(line, places) \notin {<<"GET">>, <<"HEAD">>} THEN <<501>>
        ELSE IF ~ended THEN <<>>
        ELSE IF W!TextAt(line, further) \notin Files THEN <<404>>
        ELSE IF W!TextAt(line, places) = <<"HEAD">> THEN <<200>> ELSE <<200, W!TextAt(line, further)>>
  BY DEF W!AnswerTo
<1>5. /\ b1 \in 1 .. n + 1 /\ e1 \in b1 .. n + 1
      /\ W!Word(Left(line, 1), MethodRoom) = b1 .. e1 - 1
      /\ Left(line, 1) \ (b1 .. e1 - 1) = Left(line, e1)
      /\ b1 <= n => b1 < e1
  <2> HIDE DEF b1
  <2> QED
    BY <1>1, <1>2, WordRead DEF b1, e1, Rooms
<1> HIDE DEF b1, e1
<1>6. e1 \in 1 .. n + 1
  BY <1>1, <1>5
<1>7. /\ b2 \in e1 .. n + 1 /\ e2 \in b2 .. n + 1
      /\ W!Word(Left(line, e1), PathRoom) = b2 .. e2 - 1
      /\ Left(line, e1) \ (b2 .. e2 - 1) = Left(line, e2)
      /\ b2 <= n => b2 < e2
  BY <1>6, WordRead DEF Rooms
<1> HIDE DEF b2, e2
<1>8. e2 \in 1 .. n + 1
  BY <1>1, <1>6, <1>7
<1>9. b3 \in e2 .. n + 1 /\ (Left(line, e2) = {} <=> b3 = n + 1)
  BY <1>8, WordRead DEF Rooms
<1> HIDE DEF b3
<1>10. places = b1 .. e1 - 1 /\ solid \ places = Left(line, e1)
  BY <1>2, <1>5
<1>11. further = b2 .. e2 - 1 /\ (solid \ places) \ further = Left(line, e2)
  BY <1>7, <1>10
<1>12. solid = places \cup further <=> b3 = n + 1
  <2>1. places \subseteq solid /\ further \subseteq solid
    BY DEF W!Word
  <2> HIDE DEF solid, places, further
  <2>2. solid = places \cup further <=> (solid \ places) \ further = {}
    BY <2>1
  <2> QED
    BY <1>9, <1>11, <2>2
<1>13. ASSUME b3 # n + 1
       PROVE  W!TextAt(line, places) = method /\ W!TextAt(line, further) = path
  <2>1. b3 <= n /\ e2 <= n /\ b2 <= n /\ e1 <= n /\ b1 <= n
    BY <1>1, <1>5, <1>6, <1>7, <1>8, <1>9, <1>13
  <2>2. /\ b1 \in Nat /\ e1 \in Nat /\ b1 < e1
        /\ b2 \in Nat /\ e2 \in Nat /\ b2 < e2
    BY <1>1, <1>5, <1>6, <1>7, <1>8, <2>1
  <2> QED
    BY <1>10, <1>11, <2>2, TextOfPlaces
<1> HIDE DEF method, path, solid, places, further
<1>14. CASE b3 = n + 1
  BY <1>3, <1>4, <1>12, <1>14 DEF Answer
<1>15. CASE b3 # n + 1
  <2> DEFINE words == <<method, path>>
  <2>1. words[1] = method /\ words[2] = path /\ words # <<>> /\ W!Words(line) = words
    BY <1>3, <1>15
  <2>2. W!AnswerTo(line, ended) =
          IF words[1] \notin {<<"GET">>, <<"HEAD">>} THEN <<501>>
          ELSE IF ~ended THEN <<>>
          ELSE IF words[2] \notin Files THEN <<404>>
          ELSE IF words[1] = <<"HEAD">> THEN <<200>> ELSE <<200, words[2]>>
    <3> HIDE DEF words
    <3>1. solid # places \cup further
      BY <1>12, <1>15
    <3>2. W!TextAt(line, places) = words[1] /\ W!TextAt(line, further) = words[2]
      BY <1>13, <1>15, <2>1
    <3> QED
      BY <1>4, <3>1, <3>2
  <2> HIDE DEF words
  <2> QED
    BY <2>1, <2>2, Zenon DEF Answer
<1> QED
  BY <1>14, <1>15

(* The words of the request that ends at e *)
Request(text, e) == W!Words(W!Fitting(W!LineBefore(text, e)))

(* A blank line has come after it. *)
IsOver(text, e) == \E d \in DOMAIN text : text[d] = W!LF /\ d > e /\ W!Blank(W!LineBefore(text, d))

(* What the text is to be answered: one answer when something is asked. *)
LEMMA NothingExpected ==
  ASSUME NEW text \in Seq(W!Characters), NotAsked(text), LineSize \in Nat
  PROVE  W!Expected(text) = {}
<1>1. Len(W!LineBefore(text, Len(text) + 1)) \in Nat
  BY LineIsALine, Len(text) + 1 \in 1 .. Len(text) + 1
<1>2. ~(Len(W!LineBefore(text, Len(text) + 1)) >= LineSize)
  BY <1>1 DEF NotAsked, Current
<1>3. {e \in {x \in DOMAIN text : text[x] = W!LF} : ~W!Blank(W!LineBefore(text, e))} = {}
  BY DEF NotAsked, Filled
<1> QED
  BY <1>2, <1>3, Zenon DEF W!Expected

LEMMA FittingIsALine ==
  ASSUME NEW line \in Seq(W!Characters), LineSize \in Nat
  PROVE  W!Fitting(line) \in Seq(W!Characters)
<1>1. Len(line) \in Nat /\ \A j \in 1 .. Len(line) : line[j] \in W!Characters
  BY ElementOfSeq, LenProperties
<1>2. ASSUME NEW m \in Int, m <= Len(line) PROVE SubSeq(line, 1, m) \in Seq(W!Characters)
  <2>1. \A j \in 1 .. m : line[j] \in W!Characters
    BY <1>1, <1>2
  <2> QED
    BY <2>1, SubSeqProperties, 1 \in Int
<1>3. CASE Len(line) < LineSize
  <2>1. SubSeq(line, 1, Len(line) - 1) \in Seq(W!Characters)
    BY <1>1, <1>2
  <2> QED
    BY <1>3, <2>1 DEF W!Fitting, W!WithoutCR
<1>4. CASE ~(Len(line) < LineSize)
  <2>1. SubSeq(line, 1, LineSize - 1) \in Seq(W!Characters)
    BY <1>1, <1>2, <1>4
  <2> QED
    BY <1>4, <2>1 DEF W!Fitting
<1> QED
  BY <1>3, <1>4

LEMMA OneExpected ==
  ASSUME NEW text \in Seq(W!Characters), NEW e, IsAsked(text, e), LineSize \in Nat, Rooms
  PROVE  /\ IsOver(text, e) => W!Expected(text) = {Answer(Request(text, e), TRUE)}
         /\ ~IsOver(text, e) => W!Expected(text) = {Answer(Request(text, e), FALSE)}
<1> DEFINE ends == {x \in DOMAIN text : text[x] = W!LF}
           filled == {x \in ends : ~W!Blank(W!LineBefore(text, x))}
           last == Len(text) + 1
           asks == IF filled # {} THEN {CHOOSE x \in filled : \A d \in filled : x <= d}
                   ELSE IF Len(W!LineBefore(text, last)) >= LineSize THEN {last} ELSE {}
           Over(x) == \E d \in ends : d > x /\ W!Blank(W!LineBefore(text, d))
<1>1. filled = Filled(text)
  BY DEF Filled
<1>2. asks = {e}
  <2>1. CASE e = Len(text) + 1
    BY <1>1, <2>1 DEF IsAsked, Current
  <2>2. CASE e # Len(text) + 1
    <3>1. e \in filled /\ \A d \in filled : e <= d
      BY <1>1, <2>2 DEF IsAsked
    <3>2. filled \subseteq Nat
      BY <1>1, LenProperties DEF Filled
    <3> DEFINE f == CHOOSE x \in filled : \A d \in filled : x <= d
    <3> HIDE DEF filled
    <3>3. f \in filled /\ \A d \in filled : f <= d
      BY <3>1
    <3>4. f = e
      <4>1. f <= e /\ e <= f /\ e \in Nat /\ f \in Nat
        BY <3>1, <3>2, <3>3
      <4> QED
        BY <4>1
    <3> QED
      BY <3>1, <3>4
  <2> QED
    BY <2>1, <2>2
<1> DEFINE Fit(x) == W!Fitting(W!LineBefore(text, x))
<1>3. W!Expected(text) = UNION {{W!AnswerTo(line, Over(x)) : line \in {Fit(x)}} : x \in asks}
  BY DEF W!Expected
<1>4. Over(e) <=> IsOver(text, e)
  BY DEF IsOver
<1>5. Fit(e) \in Seq(W!Characters)
  <2>1. e \in 1 .. Len(text) + 1
    BY DEF IsAsked
  <2> QED
    BY <2>1, LineIsALine, FittingIsALine
<1>6. Request(text, e) = W!Words(Fit(e))
  BY DEF Request
<1> HIDE DEF asks, Fit
<1>7. W!Expected(text) = {W!AnswerTo(Fit(e), Over(e))}
  <2>1. UNION {{W!AnswerTo(line, Over(x)) : line \in {Fit(x)}} : x \in {e}} = {W!AnswerTo(Fit(e), Over(e))}
    <3> HIDE DEF Over
    <3> QED
      BY Zenon
  <2> QED
    BY <1>2, <1>3, <2>1, Zenon
<1> HIDE DEF Over
<1>8. W!AnswerTo(Fit(e), Over(e)) = Answer(Request(text, e), Over(e))
  BY <1>5, <1>6, AnswersWhatIsRead
<1>9. ASSUME Over(e) PROVE Answer(Request(text, e), Over(e)) = Answer(Request(text, e), TRUE)
  BY <1>9 DEF Answer
<1>10. ASSUME ~Over(e) PROVE Answer(Request(text, e), Over(e)) = Answer(Request(text, e), FALSE)
  BY <1>10 DEF Answer
<1> QED
  BY <1>4, <1>7, <1>8, <1>9, <1>10

(* What the buffer holds of a line, and how it grows *)
Kept(line) == IF Len(line) < LineSize THEN line ELSE SubSeq(line, 1, LineSize - 1)

LEMMA KeptIsALine ==
  ASSUME NEW line \in Seq(W!Characters), LineSize \in Nat, LineSize > 2
  PROVE  /\ Kept(line) \in Seq(W!Characters)
         /\ Len(Kept(line)) = IF Len(line) < LineSize THEN Len(line) ELSE LineSize - 1
         /\ \A j \in 1 .. Len(Kept(line)) : Kept(line)[j] = line[j]
<1>1. CASE Len(line) < LineSize
  BY <1>1 DEF Kept
<1>2. CASE ~(Len(line) < LineSize)
  <2>1. \A j \in 1 .. LineSize - 1 : line[j] \in W!Characters
    BY <1>2, ElementOfSeq
  <2>2. /\ SubSeq(line, 1, LineSize - 1) \in Seq(W!Characters)
        /\ Len(SubSeq(line, 1, LineSize - 1)) = IF 1 <= LineSize - 1 THEN LineSize - 1 - 1 + 1 ELSE 0
        /\ \A j \in 1 .. LineSize - 1 - 1 + 1 : SubSeq(line, 1, LineSize - 1)[j] = line[1 + j - 1]
    BY <2>1, SubSeqProperties, 1 \in Int, LineSize - 1 \in Int
  <2> QED
    BY <1>2, <2>2 DEF Kept
<1> QED
  BY <1>1, <1>2

LEMMA KeptGrows ==
  ASSUME NEW line \in Seq(W!Characters), NEW ch \in W!Characters, LineSize \in Nat, LineSize > 2
  PROVE  Kept(Append(line, ch)) = IF Len(Kept(line)) = LineSize - 1 THEN Kept(line) ELSE Append(Kept(line), ch)
<1> DEFINE longer == Append(line, ch)
<1>1. longer \in Seq(W!Characters) /\ Len(longer) = Len(line) + 1 /\ \A j \in 1 .. Len(line) : longer[j] = line[j]
  BY AppendProperties
<1> HIDE DEF longer
<1>2. Len(line) \in Nat
  OBVIOUS
<1>3. CASE Len(line) < LineSize - 1
  BY <1>1, <1>2, <1>3 DEF Kept, longer
<1>4. CASE Len(line) >= LineSize - 1
  <2>1. /\ Kept(line) \in Seq(W!Characters) /\ Len(Kept(line)) = LineSize - 1
        /\ \A j \in 1 .. LineSize - 1 : Kept(line)[j] = line[j]
    BY <1>2, <1>4, KeptIsALine
  <2>2. /\ Kept(longer) \in Seq(W!Characters) /\ Len(Kept(longer)) = LineSize - 1
        /\ \A j \in 1 .. LineSize - 1 : Kept(longer)[j] = longer[j]
    <3>1. ~(Len(longer) < LineSize)
      BY <1>1, <1>2, <1>4
    <3>2. Len(Kept(longer)) = LineSize - 1
      BY <1>1, <3>1, KeptIsALine
    <3> QED
      BY <1>1, <3>2, KeptIsALine
  <2>3. \A j \in 1 .. LineSize - 1 : Kept(longer)[j] = Kept(line)[j]
    BY <1>1, <1>2, <1>4, <2>1, <2>2
  <2>4. Kept(longer) = Kept(line)
    BY <2>1, <2>2, <2>3, SeqEqual
  <2> QED
    BY <2>1, <2>4 DEF longer
<1> QED
  BY <1>2, <1>3, <1>4

(* Blank lines fit in the buffer, so that they are what Line() sees as     *)
(* empty.                                                                  *)
LEMMA BlankLines ==
  ASSUME NEW line \in Seq(W!Characters)
  PROVE  W!WithoutCR(line) = <<>> <=> W!Blank(line)
<1>1. CASE line = <<>>
  BY <1>1 DEF W!WithoutCR, W!Blank
<1>2. CASE line # <<>>
  <2>1. Len(line) \in Nat \ {0}
    BY <1>2, EmptySeq
  <2>2. \A j \in 1 .. Len(line) - 1 : line[j] \in W!Characters
    BY ElementOfSeq
  <2>3. /\ SubSeq(line, 1, Len(line) - 1) \in Seq(W!Characters)
        /\ Len(SubSeq(line, 1, Len(line) - 1)) = IF 1 <= Len(line) - 1 THEN Len(line) - 1 - 1 + 1 ELSE 0
    BY <2>1, <2>2, SubSeqProperties, 1 \in Int, Len(line) - 1 \in Int
  <2>4. SubSeq(line, 1, Len(line) - 1) = <<>> <=> Len(line) = 1
    <3> DEFINE q == SubSeq(line, 1, Len(line) - 1)
               n == Len(line)
    <3>1. q \in Seq(W!Characters) /\ (n = 1 => Len(q) = 0) /\ (n # 1 => Len(q) # 0)
      <4>1. n \in Nat \ {0} /\ q \in Seq(W!Characters) /\ Len(q) = IF 1 <= n - 1 THEN n - 1 - 1 + 1 ELSE 0
        BY <2>1, <2>3
      <4> HIDE DEF n, q
      <4> QED
        BY <4>1
    <3> HIDE DEF q
    <3>2. q = <<>> <=> Len(q) = 0
      BY <3>1, EmptySeq
    <3> QED
      BY <3>1, <3>2 DEF q
  <2>5. line = <<W!CR>> <=> Len(line) = 1 /\ line[1] = W!CR
    <3>1. ASSUME Len(line) = 1, line[1] = W!CR PROVE line = <<W!CR>>
      <4>1. W!CR \in W!Characters
        BY <3>1, ElementOfSeq, 1 \in 1 .. Len(line)
      <4>2. <<W!CR>> \in Seq(W!Characters) /\ Len(<<W!CR>>) = 1 /\ <<W!CR>>[1] = W!CR
        BY <4>1
      <4> QED
        BY <3>1, <4>2, SeqEqual
    <3> QED
      BY <3>1
  <2> QED
    BY <1>2, <2>1, <2>4, <2>5 DEF W!WithoutCR, W!Blank
<1> QED
  BY <1>1, <1>2

LEMMA BlankIsShort ==
  ASSUME NEW line, W!Blank(line) PROVE Len(line) \in 0 .. 1
<1>1. Len(<<>>) = 0 /\ Len(<<W!CR>>) = 1
  OBVIOUS
<1>2. line = <<>> \/ line = <<W!CR>>
  BY DEF W!Blank
<1> QED
  BY <1>1, <1>2

LEMMA LongLines ==
  ASSUME NEW line \in Seq(W!Characters), LineSize \in Nat, LineSize > 2
  PROVE  /\ Len(line) >= LineSize - 1 => ~W!Blank(line)
         /\ W!WithoutCR(Kept(line)) = <<>> <=> W!Blank(line)
         /\ Len(Kept(line)) = LineSize - 1 => Kept(line) # <<>>
         /\ W!Fitting(line) = IF Len(line) < LineSize THEN W!WithoutCR(line) ELSE Kept(line)
<1>1. ASSUME Len(line) >= LineSize - 1, W!Blank(line) PROVE FALSE
  <2> DEFINE n == Len(line)
  <2>1. n \in 0 .. 1 /\ n >= LineSize - 1
    BY <1>1, BlankIsShort
  <2> HIDE DEF n
  <2> QED
    BY <2>1
<1>2. Kept(line) \in Seq(W!Characters) /\ Len(Kept(line)) = IF Len(line) < LineSize THEN Len(line) ELSE LineSize - 1
  BY KeptIsALine
<1>3. ASSUME Len(Kept(line)) = LineSize - 1, W!Blank(Kept(line)) PROVE FALSE
  <2>1. Len(Kept(line)) \in 0 .. 1
    BY <1>3, BlankIsShort
  <2> QED
    BY <1>3, <2>1
<1>4. W!WithoutCR(Kept(line)) = <<>> <=> W!Blank(Kept(line))
  BY <1>2, BlankLines
<1>5. W!Blank(Kept(line)) <=> W!Blank(line)
  BY <1>1, <1>2, <1>3 DEF Kept
<1> QED
  BY <1>1, <1>2, <1>3, <1>4, <1>5 DEF W!Fitting, Kept, W!Blank

-----------------------------------------------------------------------------
(* What a character that is read does to the lines that are not blank, to  *)
(* the request and to what follows it.                                     *)
LEMMA FilledGrows ==
  ASSUME NEW text \in Seq(W!Characters), NEW ch \in W!Characters
  PROVE  Filled(Append(text, ch)) =
           Filled(text) \cup IF ch = W!LF /\ ~W!Blank(Current(text)) THEN {Len(text) + 1} ELSE {}
<1> DEFINE more == Append(text, ch)
           n == Len(text)
<1>1. n \in Nat /\ DOMAIN text = 1 .. n /\ DOMAIN more = 1 .. n + 1
  BY AppendProperties, LenProperties
<1>2. (\A i \in 1 .. n : more[i] = text[i]) /\ more[n + 1] = ch
  BY AppendProperties
<1>3. \A e \in 1 .. n + 1 : W!LineBefore(more, e) = W!LineBefore(text, e)
  BY LinesStay
<1>4. W!LineBefore(more, n + 1) = Current(text)
  BY <1>1, <1>3 DEF Current
<1> HIDE DEF more
<1>5. ASSUME NEW e
      PROVE  e \in Filled(more) <=> e \in Filled(text) \/ (ch = W!LF /\ ~W!Blank(Current(text)) /\ e = n + 1)
  <2>1. CASE e \in 1 .. n
    <3>1. e # n + 1 /\ e \in 1 .. n + 1
      BY <1>1, <2>1
    <3>2. e \in Filled(more) <=> more[e] = W!LF /\ ~W!Blank(W!LineBefore(more, e))
      BY <1>1, <3>1 DEF Filled
    <3>3. e \in Filled(text) <=> text[e] = W!LF /\ ~W!Blank(W!LineBefore(text, e))
      BY <1>1, <2>1 DEF Filled
    <3>4. more[e] = text[e] /\ W!LineBefore(more, e) = W!LineBefore(text, e)
      BY <1>2, <1>3, <2>1, <3>1
    <3> QED
      BY <3>1, <3>2, <3>3, <3>4
  <2>2. CASE e = n + 1
    <3>1. e \in 1 .. n + 1 /\ e \notin 1 .. n
      BY <1>1, <2>2
    <3>2. e \in Filled(more) <=> more[n + 1] = W!LF /\ ~W!Blank(W!LineBefore(more, n + 1))
      BY <1>1, <2>2, <3>1 DEF Filled
    <3>3. e \notin Filled(text)
      BY <1>1, <3>1 DEF Filled
    <3> QED
      BY <1>2, <1>4, <2>2, <3>2, <3>3
  <2>3. CASE e \notin 1 .. n /\ e # n + 1
    <3>1. e \notin 1 .. n + 1
      BY <1>1, <2>3
    <3> QED
      BY <1>1, <2>3, <3>1 DEF Filled
  <2> QED
    BY <2>1, <2>2, <2>3
<1>6. Filled(more) = Filled(text) \cup IF ch = W!LF /\ ~W!Blank(Current(text)) THEN {n + 1} ELSE {}
  <2> HIDE DEF n
  <2> QED
    BY <1>5
<1> QED
  BY <1>6 DEF more

LEMMA OverGrows ==
  ASSUME NEW text \in Seq(W!Characters), NEW ch \in W!Characters, NEW e \in 1 .. Len(text) + 1
  PROVE  IsOver(Append(text, ch), e) <=>
           IsOver(text, e) \/ (ch = W!LF /\ W!Blank(Current(text)) /\ e <= Len(text))
<1> DEFINE more == Append(text, ch)
           n == Len(text)
<1>1. n \in Nat /\ DOMAIN text = 1 .. n /\ DOMAIN more = 1 .. n + 1
  BY AppendProperties, LenProperties
<1>2. (\A i \in 1 .. n : more[i] = text[i]) /\ more[n + 1] = ch
  BY AppendProperties
<1>3. \A d \in 1 .. n + 1 : W!LineBefore(more, d) = W!LineBefore(text, d)
  BY LinesStay
<1>4. W!LineBefore(more, n + 1) = Current(text)
  BY <1>1, <1>3 DEF Current
<1>5. e \in Nat
  BY <1>1
<1> HIDE DEF more
<1>6. ASSUME IsOver(more, e) PROVE IsOver(text, e) \/ (ch = W!LF /\ W!Blank(Current(text)) /\ e <= n)
  <2>1. PICK d \in 1 .. n + 1 : more[d] = W!LF /\ d > e /\ W!Blank(W!LineBefore(more, d))
    BY <1>1, <1>6 DEF IsOver
  <2>2. CASE d = n + 1
    <3>1. e <= n
      BY <1>1, <1>5, <2>1, <2>2
    <3> QED
      BY <1>2, <1>4, <2>1, <2>2, <3>1
  <2>3. CASE d # n + 1
    <3>1. d \in 1 .. n
      BY <1>1, <2>3
    <3>2. text[d] = W!LF /\ W!Blank(W!LineBefore(text, d))
      BY <1>2, <1>3, <2>1, <3>1
    <3> QED
      BY <1>1, <2>1, <3>1, <3>2 DEF IsOver
  <2> QED
    BY <2>2, <2>3
<1>7. ASSUME IsOver(text, e) PROVE IsOver(more, e)
  <2>1. PICK d \in 1 .. n : text[d] = W!LF /\ d > e /\ W!Blank(W!LineBefore(text, d))
    BY <1>1, <1>7 DEF IsOver
  <2>2. d \in 1 .. n + 1 /\ more[d] = W!LF /\ W!Blank(W!LineBefore(more, d))
    BY <1>1, <1>2, <1>3, <2>1
  <2> QED
    BY <1>1, <2>1, <2>2 DEF IsOver
<1>8. ASSUME ch = W!LF, W!Blank(Current(text)), e <= n PROVE IsOver(more, e)
  <2>1. n + 1 \in 1 .. n + 1 /\ n + 1 > e
    BY <1>1, <1>5, <1>8
  <2> QED
    BY <1>1, <1>2, <1>4, <1>8, <2>1 DEF IsOver
<1>9. IsOver(more, e) <=> IsOver(text, e) \/ (ch = W!LF /\ W!Blank(Current(text)) /\ e <= n)
  BY <1>6, <1>7, <1>8
<1> QED
  BY <1>9 DEF more

LEMMA NotOverYet ==
  ASSUME NEW text \in Seq(W!Characters), NEW e, e >= Len(text), e \in Nat
  PROVE  ~IsOver(text, e)
<1>1. Len(text) \in Nat /\ DOMAIN text = 1 .. Len(text)
  BY LenProperties
<1> QED
  BY <1>1 DEF IsOver

(* What is asked stays so. *)
LEMMA AskedStays ==
  ASSUME NEW text \in Seq(W!Characters), NEW ch \in W!Characters, NEW e, IsAsked(text, e),
         LineSize \in Nat, LineSize > 2
  PROVE  \E f : /\ IsAsked(Append(text, ch), f)
                /\ Request(Append(text, ch), f) = Request(text, e)
                /\ IsOver(Append(text, ch), f) <=> IsOver(text, e) \/ (ch = W!LF /\ W!Blank(Current(text)))
<1> DEFINE more == Append(text, ch)
           n == Len(text)
<1>1. n \in Nat /\ Len(more) = n + 1 /\ more \in Seq(W!Characters) /\ e \in 1 .. n + 1 /\ e \in Nat
  BY AppendProperties, LenProperties DEF IsAsked
<1>2. Filled(text) \subseteq 1 .. n
  BY LenProperties DEF Filled
<1>3. Filled(more) = Filled(text) \cup IF ch = W!LF /\ ~W!Blank(Current(text)) THEN {n + 1} ELSE {}
  BY FilledGrows
<1>4. IsOver(more, e) <=> IsOver(text, e) \/ (ch = W!LF /\ W!Blank(Current(text)) /\ e <= n)
  BY <1>1, OverGrows
<1>5. W!LineBefore(more, e) = W!LineBefore(text, e)
  BY <1>1, LinesStay
<1>6. Current(text) \in Seq(W!Characters)
  BY <1>1, LineIsALine DEF Current
<1> HIDE DEF more
<1>7. CASE e # n + 1
  <2>1. e <= n /\ e # Len(more) + 1 /\ e \in 1 .. Len(more) + 1 /\ e <= n + 1
    BY <1>1, <1>7
  <2>2. e \in Filled(text) /\ \A d \in Filled(text) : e <= d
    BY <1>7 DEF IsAsked
  <2>3. e \in Filled(more) /\ \A d \in Filled(more) : e <= d
    BY <1>3, <2>1, <2>2
  <2>4. IsAsked(more, e)
    BY <2>1, <2>3 DEF IsAsked
  <2>5. Request(more, e) = Request(text, e)
    BY <1>5 DEF Request
  <2>6. IsOver(more, e) <=> IsOver(text, e) \/ (ch = W!LF /\ W!Blank(Current(text)))
    BY <1>4, <2>1
  <2> QED
    BY <2>4, <2>5, <2>6 DEF more
<1>8. CASE e = n + 1
  <2> DEFINE cur == Current(text)
  <2>1. Len(cur) >= LineSize /\ Filled(text) = {} /\ cur = W!LineBefore(text, e)
    BY <1>8 DEF IsAsked, Current
  <2>2. ~W!Blank(cur)
    <3>1. Len(cur) >= LineSize - 1
      BY <1>6, <2>1
    <3> QED
      BY <1>6, <3>1, LongLines
  <2>3. CASE ch = W!LF
    <3>1. Filled(more) = {e}
      BY <1>3, <1>8, <2>1, <2>2, <2>3
    <3>2. e # Len(more) + 1 /\ e \in 1 .. Len(more) + 1 /\ e <= e
      BY <1>1, <1>8
    <3>3. IsAsked(more, e)
      BY <3>1, <3>2 DEF IsAsked
    <3>4. Request(more, e) = Request(text, e)
      BY <1>5 DEF Request
    <3> QED
      BY <1>4, <2>2, <3>3, <3>4 DEF more
  <2>4. CASE ch # W!LF
    <3> DEFINE longer == Append(cur, ch)
    <3>1. Current(more) = longer
      BY <2>4, LineGrows DEF more
    <3>2. longer \in Seq(W!Characters) /\ Len(longer) = Len(cur) + 1 /\ Len(cur) \in Nat
      BY <1>6, AppendProperties
    <3>3. Len(longer) >= LineSize
      BY <2>1, <3>2
    <3>4. Filled(more) = {}
      BY <1>3, <2>1, <2>4
    <3>5. e + 1 = Len(more) + 1 /\ e + 1 \in 1 .. Len(more) + 1 /\ e + 1 \in Nat /\ e + 1 >= Len(more)
      BY <1>1, <1>8
    <3>6. IsAsked(more, e + 1)
      BY <3>1, <3>3, <3>4, <3>5 DEF IsAsked
    <3>7. W!Fitting(longer) = Kept(longer) /\ W!Fitting(cur) = Kept(cur)
      <4> HIDE DEF longer, cur
      <4>1. ~(Len(longer) < LineSize) /\ ~(Len(cur) < LineSize)
        BY <2>1, <3>2, <3>3
      <4>2. cur \in Seq(W!Characters)
        BY <1>6 DEF cur
      <4> QED
        BY <3>2, <4>1, <4>2, LongLines
    <3>8. Kept(longer) = Kept(cur)
      BY <1>6, <2>1, KeptGrows, KeptIsALine
    <3>9. W!LineBefore(more, e + 1) = longer
      BY <3>1, <3>5 DEF Current
    <3>10. Request(more, e + 1) = Request(text, e)
      BY <2>1, <3>7, <3>8, <3>9 DEF Request
    <3>11. ~IsOver(more, e + 1)
      BY <1>1, <3>5, NotOverYet
    <3>12. ~IsOver(text, e)
      BY <1>1, <1>8, NotOverYet
    <3> QED
      BY <2>4, <3>6, <3>10, <3>11, <3>12 DEF more
  <2> QED
    BY <2>3, <2>4
<1> QED
  BY <1>7, <1>8

-----------------------------------------------------------------------------
(* Not to be refused before its headers have been read *)
Understood(words) == words # <<>> /\ words[1] \in {<<"GET">>, <<"HEAD">>}

(* A session that has read this text and not answered. *)
Hears(text, u) ==
  /\ u = [buf |-> u.buf, state |-> u.state, request |-> u.request, uri |-> u.uri, code |-> 0]
  /\ u.buf = Kept(Current(text))
  /\ \/ u.state = "ReadRequestLine" /\ NotAsked(text)
     \/ /\ u.state = "ReadHeaders"
        /\ \E e : /\ IsAsked(text, e) /\ ~IsOver(text, e) /\ Understood(Request(text, e))
                  /\ u.request = Request(text, e)[1] /\ u.uri = Request(text, e)[2]

(* What becomes of a session: it goes on, or it has the answer to its      *)
(* text.                                                                   *)
Outcome(text, u) == IF u.code = 0 THEN Hears(text, u) ELSE W!Response(u) \in W!Expected(text)

Shaped(u) == u = [buf |-> u.buf, state |-> u.state, request |-> u.request, uri |-> u.uri, code |-> 0]

LEMMA Taken ==
  ASSUME NEW u, Shaped(u), NEW method, NEW path
  PROVE  [u EXCEPT !.request = method, !.uri = path, !.state = "ReadHeaders"]
           = [buf |-> u.buf, state |-> "ReadHeaders", request |-> method, uri |-> path, code |-> 0]
<1> DEFINE b == u.buf
           st == u.state
           q == u.request
           uri0 == u.uri
<1>1. u = [buf |-> b, state |-> st, request |-> q, uri |-> uri0, code |-> 0]
  BY DEF Shaped
<1> HIDE DEF b, st, q, uri0
<1> DEFINE R == [buf : {b}, state : {st, "ReadHeaders"}, request : {q, method}, uri : {uri0, path}, code : {0}]
           r == [u EXCEPT !.request = method, !.uri = path, !.state = "ReadHeaders"]
<1>2. r \in R /\ r.buf = b /\ r.state = "ReadHeaders" /\ r.request = method /\ r.uri = path /\ r.code = 0
  <2>1. u \in R /\ u.buf = b /\ u.code = 0
    BY <1>1
  <2> QED
    BY <2>1
<1> HIDE DEF r
<1>3. r = [buf |-> b, state |-> "ReadHeaders", request |-> method, uri |-> path, code |-> 0]
  BY <1>2
<1> QED
  BY <1>3 DEF b, r

LEMMA Joined == ASSUME NEW a, NEW b PROVE <<a>> \o <<b>> = <<a, b>>
<1>1. <<a>> \in Seq({a, b}) /\ <<b>> \in Seq({a, b}) /\ <<a, b>> \in Seq({a, b})
  OBVIOUS
<1>2. <<a>> \o <<b>> \in Seq({a, b}) /\ Len(<<a>> \o <<b>>) = 2
      /\ (<<a>> \o <<b>>)[1] = a /\ (<<a>> \o <<b>>)[2] = b
  BY <1>1, ConcatProperties
<1> DEFINE p == <<a>> \o <<b>>
           t == <<a, b>>
<1>3. t \in Seq({a, b}) /\ Len(t) = 2 /\ t[1] = a /\ t[2] = b
  BY <1>1
<1>4. p \in Seq({a, b}) /\ Len(p) = 2 /\ p[1] = a /\ p[2] = b
  BY <1>2
<1> HIDE DEF p, t
<1>5. p = t
  BY <1>3, <1>4, SeqEqual
<1> QED
  BY <1>5 DEF p, t

(* The three steps of processHTTP(): a request line, a header, and a       *)
(* character that may end either or fill the buffer.                       *)
LEMMA RequestRead ==
  ASSUME NEW text \in Seq(W!Characters), NEW e, IsAsked(text, e), ~IsOver(text, e), LineSize \in Nat, Rooms,
         NEW u, u = [buf |-> u.buf, state |-> u.state, request |-> u.request, uri |-> u.uri, code |-> 0],
         u.buf = Kept(Current(text)), NEW line, line # <<>>, W!Words(line) = Request(text, e)
  PROVE  Outcome(text, W!RequestLine(u, line))
<1> DEFINE words == Request(text, e)
<1>1. W!Expected(text) = {Answer(words, FALSE)}
  BY OneExpected
<1> HIDE DEF words
<1>2. CASE words = <<>>
  <2> DEFINE r == [u EXCEPT !.code = 400]
  <2>1. W!RequestLine(u, line) = r
    BY <1>2 DEF W!RequestLine, W!Answered, words
  <2>2. r.code = 400
    OBVIOUS
  <2>3. W!Response(r) = <<400>>
    BY <2>2 DEF W!Response
  <2> HIDE DEF r
  <2>4. Answer(words, FALSE) = <<400>>
    BY <1>2 DEF Answer
  <2>5. W!Response(r) \in W!Expected(text)
    BY <1>1, <2>3, <2>4, Zenon
  <2> QED
    BY <2>1, <2>2, <2>5 DEF Outcome
<1>3. CASE words # <<>> /\ words[1] \notin {<<"GET">>, <<"HEAD">>}
  <2> DEFINE r == [u EXCEPT !.code = 501]
  <2>1. W!RequestLine(u, line) = r
    BY <1>3 DEF W!RequestLine, W!Answered, words
  <2>2. r.code = 501
    OBVIOUS
  <2>3. W!Response(r) = <<501>>
    BY <2>2 DEF W!Response
  <2> HIDE DEF r
  <2>4. Answer(words, FALSE) = <<501>>
    BY <1>3 DEF Answer
  <2>5. W!Response(r) \in W!Expected(text)
    BY <1>1, <2>3, <2>4, Zenon
  <2> QED
    BY <2>1, <2>2, <2>5 DEF Outcome
<1>4. CASE Understood(words)
  <2> DEFINE method == words[1]
             path == words[2]
             r == [u EXCEPT !.request = method, !.uri = path, !.state = "ReadHeaders"]
  <2>1. W!RequestLine(u, line) = r
    BY <1>4 DEF W!RequestLine, Understood, words
  <2>2. /\ r = [buf |-> r.buf, state |-> r.state, request |-> r.request, uri |-> r.uri, code |-> 0]
        /\ r.buf = u.buf /\ r.state = "ReadHeaders" /\ r.request = method /\ r.uri = path /\ r.code = 0
    <3>1. r = [buf |-> u.buf, state |-> "ReadHeaders", request |-> method, uri |-> path, code |-> 0]
      BY Taken DEF Shaped
    <3> HIDE DEF r
    <3> QED
      BY <3>1
  <2> HIDE DEF r
  <2>3. Hears(text, r)
    BY <1>4, <2>2 DEF Hears, words
  <2> QED
    BY <2>1, <2>2, <2>3 DEF Outcome
<1> QED
  BY <1>2, <1>3, <1>4 DEF Understood

LEMMA HeaderRead ==
  ASSUME NEW text \in Seq(W!Characters), NEW e, IsAsked(text, e), LineSize \in Nat, Rooms,
         Understood(Request(text, e)),
         NEW u, u = [buf |-> u.buf, state |-> u.state, request |-> u.request, uri |-> u.uri, code |-> 0],
         u.buf = Kept(Current(text)), u.state = "ReadHeaders",
         u.request = Request(text, e)[1], u.uri = Request(text, e)[2],
         NEW line, IsOver(text, e) <=> line = <<>>
  PROVE  Outcome(text, W!Header(u, line))
<1> DEFINE words == Request(text, e)
<1>1. u.request = words[1] /\ u.uri = words[2] /\ words # <<>> /\ words[1] \in {<<"GET">>, <<"HEAD">>}
  BY DEF Understood
<1>2. CASE line # <<>>
  <2>1. W!Header(u, line) = u /\ ~IsOver(text, e)
    BY <1>2 DEF W!Header
  <2>2. Hears(text, u) /\ u.code = 0
    BY <2>1 DEF Hears
  <2> QED
    BY <2>1, <2>2 DEF Outcome
<1>3. CASE line = <<>>
  <2>1. W!Expected(text) = {Answer(words, TRUE)}
    BY <1>3, OneExpected
  <2> DEFINE found == IF u.uri \in Files THEN 200 ELSE 404
             r == [u EXCEPT !.code = found]
  <2>2. W!Header(u, line) = r
    BY <1>3 DEF W!Header, W!Answered
  <2>3. r.code = found /\ r.request = u.request /\ r.uri = u.uri /\ found # 0
    OBVIOUS
  <2> HIDE DEF words, r
  <2>4. W!Response(r) = Answer(words, TRUE)
    <3>1. CASE u.uri \notin Files
      BY <1>1, <2>3, <3>1 DEF W!Response, Answer
    <3>2. CASE u.uri \in Files /\ words[1] = <<"GET">>
      <4>1. W!Response(r) = <<200>> \o <<r.uri>>
        BY <1>1, <2>3, <3>2 DEF W!Response
      <4>2. Answer(words, TRUE) = <<200, words[2]>>
        BY <1>1, <3>2 DEF Answer
      <4>3. r.uri = words[2]
        BY <1>1, <2>3
      <4> QED
        BY <4>1, <4>2, <4>3, Joined
    <3>3. CASE u.uri \in Files /\ words[1] = <<"HEAD">>
      BY <1>1, <2>3, <3>3 DEF W!Response, Answer
    <3> QED
      BY <1>1, <3>1, <3>2, <3>3
  <2> QED
    BY <2>1, <2>2, <2>3, <2>4 DEF Outcome
<1> QED
  BY <1>2, <1>3

LEMMA CharacterRead ==
  ASSUME NEW text \in Seq(W!Characters), NEW ch \in W!Characters, NEW u, Hears(text, u),
         LineSize \in Nat, LineSize > 2, Rooms
  PROVE  Outcome(Append(text, ch), W!Character(u, ch))
<1> DEFINE more == Append(text, ch)
           n == Len(text)
           cur == Current(text)
           empty == [u EXCEPT !.buf = <<>>]
           longer == [u EXCEPT !.buf = Append(u.buf, ch)]
<1>1. n \in Nat /\ Len(more) = n + 1 /\ more \in Seq(W!Characters)
  BY AppendProperties, LenProperties
<1>2. cur \in Seq(W!Characters) /\ Len(cur) \in Nat
  BY <1>1, LineIsALine, n + 1 \in 1 .. n + 1 DEF Current
<1>3. Current(more) = IF ch = W!LF THEN <<>> ELSE Append(cur, ch)
  BY LineGrows
<1>4. Filled(more) = Filled(text) \cup IF ch = W!LF /\ ~W!Blank(cur) THEN {n + 1} ELSE {}
  BY FilledGrows
<1>5. /\ Kept(cur) \in Seq(W!Characters)
      /\ Len(Kept(cur)) = IF Len(cur) < LineSize THEN Len(cur) ELSE LineSize - 1
  BY <1>2, KeptIsALine
<1>6. /\ Len(cur) >= LineSize - 1 => ~W!Blank(cur)
      /\ W!WithoutCR(Kept(cur)) = <<>> <=> W!Blank(cur)
      /\ Len(Kept(cur)) = LineSize - 1 => Kept(cur) # <<>>
      /\ W!Fitting(cur) = IF Len(cur) < LineSize THEN W!WithoutCR(cur) ELSE Kept(cur)
  BY <1>2, LongLines
<1>7. Kept(Append(cur, ch)) = IF Len(Kept(cur)) = LineSize - 1 THEN Kept(cur) ELSE Append(Kept(cur), ch)
  BY <1>2, KeptGrows
<1>8. Kept(<<>>) = <<>> /\ Len(<<>>) = 0
  BY DEF Kept
<1>9. Shaped(u) /\ u.buf = Kept(cur) /\ u.code = 0
  BY DEF Hears, Shaped
<1>10. /\ Shaped(empty) /\ empty.buf = <<>> /\ empty.state = u.state
       /\ empty.request = u.request /\ empty.uri = u.uri /\ empty.code = 0
  BY <1>9 DEF Shaped
<1>11. /\ Shaped(longer) /\ longer.buf = Append(Kept(cur), ch) /\ longer.state = u.state
       /\ longer.request = u.request /\ longer.uri = u.uri /\ longer.code = 0
  <2> DEFINE b == Append(u.buf, ch)
  <2>1. b = Append(Kept(cur), ch)
    BY <1>9
  <2>2. longer = [u EXCEPT !.buf = b]
    OBVIOUS
  <2> HIDE DEF b, longer
  <2> QED
    BY <1>9, <2>1, <2>2 DEF Shaped
<1>12. W!Character(u, ch) =
         IF ch = W!LF THEN W!Line(empty, W!WithoutCR(Kept(cur)))
         ELSE IF Len(Kept(cur)) = LineSize - 1 THEN W!Line(u, Kept(cur))
         ELSE longer
  BY <1>9 DEF W!Character
<1> HIDE DEF more, n, cur, empty, longer
<1>13. CASE u.state = "ReadRequestLine"
  <2>1. Filled(text) = {} /\ Len(cur) < LineSize
    BY <1>13 DEF Hears, NotAsked, cur
  <2>2. Kept(cur) = cur
    BY <2>1 DEF Kept
  <2>3. CASE ch = W!LF /\ W!Blank(cur)
    <3>1. W!Character(u, ch) = empty
      BY <1>6, <1>10, <1>12, <1>13, <2>3 DEF W!Line, W!RequestLine
    <3>2. NotAsked(more)
      BY <1>3, <1>4, <1>8, <2>1, <2>3 DEF NotAsked
    <3>3. Hears(more, empty)
      BY <1>3, <1>8, <1>10, <1>13, <2>3, <3>2 DEF Hears, Shaped
    <3> QED
      BY <1>10, <3>1, <3>3 DEF Outcome, more
  <2>4. CASE ch = W!LF /\ ~W!Blank(cur)
    <3>1. W!Character(u, ch) = W!RequestLine(empty, W!WithoutCR(cur)) /\ W!WithoutCR(cur) # <<>>
      BY <1>6, <1>10, <1>12, <1>13, <2>2, <2>4 DEF W!Line
    <3>2. n + 1 # Len(more) + 1 /\ n + 1 \in 1 .. Len(more) + 1 /\ n + 1 <= n + 1
          /\ n + 1 \in Nat /\ n + 1 >= Len(more)
      BY <1>1
    <3>3. Filled(more) = {n + 1}
      BY <1>4, <2>1, <2>4
    <3>4. IsAsked(more, n + 1)
      BY <3>2, <3>3 DEF IsAsked
    <3>5. ~IsOver(more, n + 1)
      BY <1>1, <3>2, NotOverYet
    <3>6. W!LineBefore(more, n + 1) = cur
      BY <1>1, LinesStay, n + 1 \in 1 .. n + 1 DEF more, n, cur, Current
    <3>7. W!Words(W!WithoutCR(cur)) = Request(more, n + 1)
      BY <1>6, <2>1, <3>6 DEF Request
    <3>8. Outcome(more, W!RequestLine(empty, W!WithoutCR(cur)))
      BY <1>1, <1>3, <1>8, <1>10, <2>4, <3>1, <3>4, <3>5, <3>7, RequestRead DEF Shaped
    <3> QED
      BY <3>1, <3>8 DEF more
  <2>5. CASE ch # W!LF /\ Len(cur) = LineSize - 1
    <3>1. W!Character(u, ch) = W!RequestLine(u, cur) /\ cur # <<>>
      BY <1>6, <1>9, <1>12, <1>13, <2>2, <2>5 DEF W!Line
    <3>2. Current(more) = Append(cur, ch) /\ Kept(Current(more)) = cur
      BY <1>3, <1>7, <2>2, <2>5
    <3>3. Append(cur, ch) \in Seq(W!Characters) /\ Len(Append(cur, ch)) = LineSize
      BY <1>2, <2>5, AppendProperties
    <3>4. Filled(more) = {}
      BY <1>4, <2>1, <2>5
    <3>5. n + 2 = Len(more) + 1 /\ n + 2 \in 1 .. Len(more) + 1 /\ n + 2 \in Nat /\ n + 2 >= Len(more)
      BY <1>1
    <3>6. IsAsked(more, n + 2)
      BY <3>2, <3>3, <3>4, <3>5 DEF IsAsked
    <3>7. ~IsOver(more, n + 2)
      BY <1>1, <3>5, NotOverYet
    <3>8. W!Fitting(Append(cur, ch)) = cur
      <4>1. ~(Len(Append(cur, ch)) < LineSize)
        BY <3>3
      <4> QED
        BY <3>2, <3>3, <4>1, LongLines
    <3>9. W!Words(cur) = Request(more, n + 2)
      BY <3>2, <3>5, <3>8 DEF Request, Current
    <3>10. Outcome(more, W!RequestLine(u, cur))
      BY <1>1, <1>9, <2>2, <3>1, <3>2, <3>6, <3>7, <3>9, RequestRead DEF Shaped
    <3> QED
      BY <3>1, <3>10 DEF more
  <2>6. CASE ch # W!LF /\ Len(cur) # LineSize - 1
    <3>1. W!Character(u, ch) = longer
      BY <1>12, <2>2, <2>6
    <3>2. Current(more) = Append(cur, ch) /\ Kept(Current(more)) = longer.buf
      BY <1>3, <1>7, <1>11, <2>2, <2>6
    <3>3. Len(Append(cur, ch)) = Len(cur) + 1
      BY <1>2, AppendProperties
    <3>4. Len(Append(cur, ch)) < LineSize
      BY <1>2, <2>1, <2>6, <3>3
    <3>5. NotAsked(more)
      BY <1>4, <2>1, <2>6, <3>2, <3>4 DEF NotAsked
    <3>6. Hears(more, longer)
      BY <1>11, <1>13, <3>2, <3>5 DEF Hears, Shaped
    <3> QED
      BY <1>11, <3>1, <3>6 DEF Outcome, more
  <2> QED
    BY <2>3, <2>4, <2>5, <2>6
<1>14. CASE u.state = "ReadHeaders"
  <2>1. PICK e : /\ IsAsked(text, e) /\ ~IsOver(text, e) /\ Understood(Request(text, e))
                 /\ u.request = Request(text, e)[1] /\ u.uri = Request(text, e)[2]
    BY <1>14 DEF Hears
  <2>2. PICK f : /\ IsAsked(more, f) /\ Request(more, f) = Request(text, e)
                 /\ IsOver(more, f) <=> IsOver(text, e) \/ (ch = W!LF /\ W!Blank(cur))
    BY <2>1, AskedStays DEF more, cur
  <2>3. /\ Understood(Request(more, f)) /\ (IsOver(more, f) <=> ch = W!LF /\ W!Blank(cur))
        /\ u.request = Request(more, f)[1] /\ u.uri = Request(more, f)[2]
    BY <2>1, <2>2
  <2>4. CASE ch = W!LF
    <3>1. W!Character(u, ch) = W!Header(empty, W!WithoutCR(Kept(cur)))
      BY <1>10, <1>12, <1>14, <2>4 DEF W!Line
    <3>2. IsOver(more, f) <=> W!WithoutCR(Kept(cur)) = <<>>
      BY <1>6, <2>3, <2>4
    <3>3. empty.buf = Kept(Current(more)) /\ empty.state = "ReadHeaders"
      BY <1>3, <1>8, <1>10, <1>14, <2>4
    <3>4. Outcome(more, W!Header(empty, W!WithoutCR(Kept(cur))))
      BY <1>1, <1>10, <2>2, <2>3, <3>2, <3>3, HeaderRead DEF Shaped
    <3> QED
      BY <3>1, <3>4 DEF more
  <2>5. CASE ch # W!LF /\ Len(Kept(cur)) = LineSize - 1
    <3>1. W!Character(u, ch) = W!Header(u, Kept(cur)) /\ Kept(cur) # <<>>
      BY <1>6, <1>9, <1>12, <1>14, <2>5 DEF W!Line
    <3>2. ~IsOver(more, f)
      BY <2>3, <2>5
    <3>3. u.buf = Kept(Current(more))
      BY <1>3, <1>7, <1>9, <2>5
    <3>4. Outcome(more, W!Header(u, Kept(cur)))
      BY <1>1, <1>9, <1>14, <2>2, <2>3, <3>1, <3>2, <3>3, HeaderRead DEF Shaped
    <3> QED
      BY <3>1, <3>4 DEF more
  <2>6. CASE ch # W!LF /\ Len(Kept(cur)) # LineSize - 1
    <3>1. W!Character(u, ch) = longer
      BY <1>12, <2>6
    <3>2. longer.buf = Kept(Current(more))
      BY <1>3, <1>7, <1>11, <2>6
    <3>3. ~IsOver(more, f)
      BY <2>3, <2>6
    <3>4. Hears(more, longer)
      BY <1>11, <1>14, <2>2, <2>3, <3>2, <3>3 DEF Hears, Shaped
    <3> QED
      BY <1>11, <3>1, <3>4 DEF Outcome, more
  <2> QED
    BY <2>4, <2>5, <2>6
<1> QED
  BY <1>13, <1>14 DEF Hears

-----------------------------------------------------------------------------
(* The filter.  A pattern matches the hosts that its text covers, also     *)
(* when it has been written out and read again.                            *)
LEMMA Matches ==
  ASSUME NEW t, NEW from
  PROVE  /\ W!patternMatchIP(W!parsePattern(t), from) <=> from # W!INADDR_NONE /\ W!Covers(t, from)
         /\ W!parsePattern(t).sign = t.sign
         /\ W!Covers(W!patternToStr(W!parsePattern(t)), from) <=> W!Covers(t, from)
         /\ W!patternToStr(W!parsePattern(t)).sign = t.sign
<1> DEFINE bits == t.mask.bits
           address == t.address \cap bits
           mask == IF address \in {W!INADDR_NONE, {}} THEN {} ELSE bits
           p == W!parsePattern(t)
           q == W!patternToStr(p)
<1>1. p.sign = t.sign /\ p.address = address /\ p.mask = mask
  BY DEF W!parsePattern
<1>2. q.sign = t.sign /\ q.address = address /\ q.mask.bits = mask
  BY <1>1 DEF W!patternToStr, W!Dotted
<1>3. W!Covers(t, from) <=> address \in {W!INADDR_NONE, {}} \/ \A b \in bits : b \in t.address <=> b \in from
  BY DEF W!Covers
<1>4. W!Covers(q, from) <=> address \cap mask \in {W!INADDR_NONE, {}} \/ \A b \in mask : b \in address <=> b \in from
  BY <1>2 DEF W!Covers
<1>5. W!patternMatchIP(p, from) <=> from # W!INADDR_NONE /\ address \cap mask = from \cap mask
  BY <1>1 DEF W!patternMatchIP
<1> HIDE DEF p, q
<1>6. address \cap mask = from \cap mask <=> W!Covers(t, from)
  BY <1>3
<1>7. W!Covers(q, from) <=> W!Covers(t, from)
  BY <1>3, <1>4
<1> QED
  BY <1>1, <1>2, <1>5, <1>6, <1>7 DEF p, q

Allowing(sign, user) == {action = "Accept" \/ (action = "Query" /\ user) : action \in W!ActionsOf(sign)}

ForHost(texts, from) == {i \in DOMAIN texts : W!Covers(texts[i], from)}

(* What the first text for a host says *)
Verdict(texts, from, user) ==
  LET first == CHOOSE i \in ForHost(texts, from) : \A j \in ForHost(texts, from) : i <= j
  IN  IF from = W!INADDR_NONE \/ ForHost(texts, from) = {} THEN {FALSE} ELSE Allowing(texts[first].sign, user)

(* These are patterns of these texts. *)
Match(patterns, texts, from) ==
  /\ DOMAIN patterns = DOMAIN texts
  /\ \A i \in DOMAIN texts : /\ W!patternMatchIP(patterns[i], from) <=> from # W!INADDR_NONE /\ W!Covers(texts[i], from)
                             /\ patterns[i].sign = texts[i].sign

LEMMA Verified ==
  ASSUME NEW texts, NEW from, NEW user, Len(texts) \in Nat, DOMAIN texts = 1 .. Len(texts),
         NEW patterns, Match(patterns, texts, from)
  PROVE  W!verifyConnection(patterns, from, user) = Verdict(texts, from, user)
<1> DEFINE for == ForHost(texts, from)
           first == CHOOSE i \in for : \A j \in for : i <= j
<1> USE DEF ForHost, Match
<1>4. Verdict(texts, from, user) =
        IF from = W!INADDR_NONE \/ for = {} THEN {FALSE} ELSE Allowing(texts[first].sign, user)
  BY DEF Verdict
<1> DEFINE counts == {i \in DOMAIN patterns : /\ W!patternMatchIP(patterns[i], from)
                                              /\ \A j \in 1 .. i - 1 : ~W!patternMatchIP(patterns[j], from)}
           actions == UNION {W!ActionsOf(patterns[i].sign) : i \in counts}
<1>1. W!verifyConnection(patterns, from, user) =
        IF counts = {} THEN {FALSE}
        ELSE {action = "Accept" \/ (action = "Query" /\ user) : action \in actions}
  BY DEF W!verifyConnection
<1>2. CASE from = W!INADDR_NONE \/ for = {}
  <2>1. counts = {}
    BY <1>2
  <2> QED
    BY <1>1, <1>2, <1>4, <2>1, Zenon
<1>3. CASE from # W!INADDR_NONE /\ for # {}
  <2>1. for \subseteq Nat
    OBVIOUS
  <2>2. first \in for /\ \A j \in for : first <= j
    <3> HIDE DEF for
    <3> QED
      BY <1>3, <2>1, LeastNatural
  <2> HIDE DEF first
  <2>3. counts = {first}
    <3>1. first \in counts
      <4>1. ASSUME NEW j \in 1 .. first - 1 PROVE j \in DOMAIN texts /\ j \notin for
        BY <2>1, <2>2
      <4> QED
        BY <1>3, <2>2, <4>1
    <3>2. ASSUME NEW i \in counts PROVE i = first
      <4>1. i \in for /\ \A j \in 1 .. i - 1 : ~W!patternMatchIP(patterns[j], from)
        BY <1>3
      <4>2. W!patternMatchIP(patterns[first], from)
        BY <1>3, <2>2
      <4>3. first <= i /\ ~(first \in 1 .. i - 1) /\ first \in 1 .. Len(texts) /\ i \in 1 .. Len(texts)
        BY <2>2, <4>1, <4>2
      <4> HIDE DEF counts
      <4> QED
        BY <4>3
    <3> QED
      BY <3>1, <3>2
  <2>4. patterns[first].sign = texts[first].sign
    BY <2>2
  <2> HIDE DEF counts
  <2>5. actions = W!ActionsOf(texts[first].sign)
    <3>1. UNION {W!ActionsOf(patterns[i].sign) : i \in {first}} = W!ActionsOf(patterns[first].sign)
      OBVIOUS
    <3> QED
      BY <2>3, <2>4, <3>1, Zenon
  <2> HIDE DEF actions
  <2>6. counts # {}
    BY <2>3
  <2> QED
    BY <1>1, <1>3, <1>4, <2>5, <2>6, Zenon DEF Allowing
<1> QED
  BY <1>2, <1>3

(* verifyConnection() says what the first text for the host does. *)
LEMMA FirstPatternCounts ==
  ASSUME NEW texts, NEW from, NEW user, Len(texts) \in Nat, DOMAIN texts = 1 .. Len(texts)
  PROVE  W!FirstCounts(texts, from, user)
<1> DEFINE patterns == [i \in DOMAIN texts |-> W!parsePattern(texts[i])]
           again == [i \in DOMAIN texts |-> W!parsePattern(W!patternToStr(patterns[i]))]
<1>1. \A i \in DOMAIN texts :
        /\ patterns[i] = W!parsePattern(texts[i])
        /\ again[i] = W!parsePattern(W!patternToStr(W!parsePattern(texts[i])))
  OBVIOUS
<1>2. DOMAIN patterns = DOMAIN texts /\ DOMAIN again = DOMAIN texts
  OBVIOUS
<1>3. W!FirstCounts(texts, from, user) <=>
        /\ W!verifyConnection(again, from, user) = W!verifyConnection(patterns, from, user)
        /\ W!verifyConnection(patterns, from, user) = Verdict(texts, from, user)
  BY Zenon DEF W!FirstCounts, Verdict, ForHost, Allowing
<1> HIDE DEF patterns, again
<1>4. Match(patterns, texts, from)
  <2>1. ASSUME NEW i \in DOMAIN texts
        PROVE  /\ W!patternMatchIP(patterns[i], from) <=> from # W!INADDR_NONE /\ W!Covers(texts[i], from)
               /\ patterns[i].sign = texts[i].sign
    BY <1>1, Matches
  <2> QED
    BY <1>2, <2>1 DEF Match
<1>5. Match(again, texts, from)
  <2>1. ASSUME NEW i \in DOMAIN texts
        PROVE  /\ W!patternMatchIP(again[i], from) <=> from # W!INADDR_NONE /\ W!Covers(texts[i], from)
               /\ again[i].sign = texts[i].sign
    <3> DEFINE t == W!patternToStr(W!parsePattern(texts[i]))
    <3>1. (W!Covers(t, from) <=> W!Covers(texts[i], from)) /\ t.sign = texts[i].sign
      BY Matches
    <3> HIDE DEF t
    <3>2. (W!patternMatchIP(W!parsePattern(t), from) <=> from # W!INADDR_NONE /\ W!Covers(t, from))
          /\ W!parsePattern(t).sign = t.sign
      BY Matches
    <3>3. again[i] = W!parsePattern(t)
      BY <1>1 DEF t
    <3> QED
      BY <3>1, <3>2, <3>3
  <2> QED
    BY <1>2, <2>1 DEF Match
<1> QED
  BY <1>3, <1>4, <1>5, Verified

-----------------------------------------------------------------------------
(* The server *)

HttpTypes ==
  /\ filter \in Filters
  /\ fd \in [Sock -> {"free", "open", "shut", "closed"}]
  /\ toArrive \in [Sock -> Seq(W!Characters)]
  /\ unread \in [Sock -> Seq(W!Characters)]
  /\ heard \in [Sock -> Seq(W!Characters)]
  /\ DOMAIN session = Sock /\ DOMAIN answers = Sock
  /\ idle \in [Sock -> Nat]
  /\ due \in BOOLEAN /\ wake \in Nat
  /\ beingRead \in Sock \cup {W!NoSocket}

(* What has been read is not complete while there is a session. *)
Talks(k) ==
  IF session[k] = W!NoSession THEN answers[k] \in {<<>>} \cup W!Expected(heard[k])
  ELSE Hears(heard[k], session[k]) /\ answers[k] = <<>>

(* The loop wakes up before a session has been idle for too long. *)
OnTime(k) ==
  fd[k] = "open" =>
    /\ idle[k] <= idleTimeout
    /\ ~due => idle[k] < idleTimeout /\ wake > 0 /\ wake <= idleTimeout - idle[k]

SocketInv(k) ==
  /\ W!Live(k) <=> session[k] # W!NoSession
  /\ Talks(k)
  /\ OnTime(k)
  /\ fd[k] = "free" => heard[k] = <<>> /\ answers[k] = <<>> /\ idle[k] = 0

HttpInv ==
  /\ HttpTypes
  /\ \A k \in Sock : SocketInv(k)
  /\ beingRead # W!NoSocket => session[beingRead] # W!NoSession

LEMMA NothingHeard == ASSUME LineSize \in Nat, LineSize > 2 PROVE Hears(<<>>, W!NewSession) /\ W!NewSession # W!NoSession
<1>1. <<>> \in Seq(W!Characters) /\ Len(<<>>) = 0 /\ DOMAIN <<>> = {}
  BY LenProperties, EmptySeq
<1>2. Current(<<>>) = <<>>
  <2>1. Starts(0, <<>>, 1)
    BY DEF Starts
  <2>2. W!LineBefore(<<>>, 1) \in Seq(W!Characters) /\ Len(W!LineBefore(<<>>, 1)) = 1 - 1 - 0
    BY <1>1, <2>1, LineMade, 1 \in 1 .. Len(<<>>) + 1, 0 \in 0 .. 1 - 1
  <2> QED
    BY <1>1, <2>2, EmptySeq DEF Current
<1>3. NotAsked(<<>>)
  BY <1>1, <1>2 DEF NotAsked, Filled
<1>4. Kept(Current(<<>>)) = <<>>
  BY <1>1, <1>2 DEF Kept
<1>5. Hears(<<>>, W!NewSession)
  BY <1>3, <1>4 DEF Hears, W!NewSession
<1>6. W!NewSession.code # W!NoSession.code
  BY DEF W!NewSession, W!NoSession
<1> QED
  BY <1>5, <1>6

(* One lemma for each operation of the server *)
LEMMA AcceptKeeps ==
  ASSUME W!SizesAssumption, HttpInv, NEW k \in Sock, NEW h \in Addresses, NEW text \in Requests, W!Accept(k, h, text)
  PROVE  HttpInv'
<1>1. LineSize \in Nat /\ LineSize > 2 /\ idleTimeout \in Nat
  BY DEF W!SizesAssumption
<1>2. text \in Seq(W!Characters)
  BY DEF W!SizesAssumption
<1>3. fd[k] = "free" /\ fd' \in {[fd EXCEPT ![k] = "open"], [fd EXCEPT ![k] = "closed"]}
      /\ session' = (IF fd'[k] = "open" THEN [session EXCEPT ![k] = W!NewSession] ELSE session)
  BY DEF W!Accept, W!addClient, W!Delete, HttpInv, HttpTypes
<1>4. due' = TRUE /\ toArrive' = [toArrive EXCEPT ![k] = text] /\ beingRead = W!NoSocket
      /\ UNCHANGED <<filter, unread, beingRead, idle, wake, heard, answers>>
  BY DEF W!Accept, W!Waits
<1>5. HttpTypes'
  BY <1>2, <1>3, <1>4 DEF HttpTypes, HttpInv
<1>6. ASSUME NEW j \in Sock PROVE SocketInv(j)'
  <2>1. CASE j = k
    <3>1. session[k] = W!NoSession /\ heard[k] = <<>> /\ answers[k] = <<>> /\ idle[k] = 0
      BY <1>3 DEF HttpInv, SocketInv, W!Live
    <3>2. fd'[k] \in {"open", "closed"}
      BY <1>3 DEF HttpInv, HttpTypes
    <3>3. session'[k] = IF fd'[k] = "open" THEN W!NewSession ELSE W!NoSession
      BY <1>3, <3>1 DEF HttpInv, HttpTypes
    <3>4. W!Live(k)' <=> session'[k] # W!NoSession
      BY <1>1, <3>2, <3>3, NothingHeard DEF W!Live
    <3>5. Talks(k)'
      BY <1>1, <1>4, <3>1, <3>3, NothingHeard DEF Talks
    <3>6. OnTime(k)'
      BY <1>1, <1>4, <3>1 DEF OnTime
    <3> QED
      BY <2>1, <3>2, <3>4, <3>5, <3>6 DEF SocketInv
  <2>2. CASE j # k
    <3>1. fd'[j] = fd[j] /\ session'[j] = session[j]
      BY <1>3, <2>2 DEF HttpInv, HttpTypes
    <3>2. SocketInv(j)
      BY DEF HttpInv
    <3> QED
      BY <1>4, <3>1, <3>2 DEF SocketInv, W!Live, Talks, OnTime
  <2> QED
    BY <2>1, <2>2
<1> QED
  BY <1>4, <1>5, <1>6 DEF HttpInv

LEMMA ClientKeeps ==
  ASSUME HttpInv, NEW k \in Sock, (\E n : W!Arrive(k, n)) \/ W!HangUp(k)
  PROVE  HttpInv'
<1>1. UNCHANGED <<filter, fd, session, beingRead, idle, due, wake, heard, answers>>
  BY DEF W!Arrive, W!HangUp
<1>2. toArrive' \in [Sock -> Seq(W!Characters)] /\ unread' \in [Sock -> Seq(W!Characters)]
  <2>1. CASE W!HangUp(k)
    BY <2>1 DEF W!HangUp, HttpInv, HttpTypes
  <2>2. ASSUME NEW n, W!Arrive(k, n) PROVE <1>2
    <3> DEFINE text == toArrive[k]
    <3>1. text \in Seq(W!Characters) /\ n \in 1 .. Len(text) /\ Len(text) \in Nat
      BY <2>2 DEF W!Arrive, HttpInv, HttpTypes
    <3>2. \A j \in 1 .. Len(text) : text[j] \in W!Characters
      BY <3>1, ElementOfSeq
    <3>3. SubSeq(text, 1, n) \in Seq(W!Characters) /\ SubSeq(text, n + 1, Len(text)) \in Seq(W!Characters)
      BY <3>1, <3>2, SubSeqProperties, 1 \in Int, n \in Int, n + 1 \in Int, Len(text) \in Int
    <3>4. unread[k] \o SubSeq(text, 1, n) \in Seq(W!Characters)
      BY <3>3, ConcatProperties DEF HttpInv, HttpTypes
    <3> QED
      BY <2>2, <3>3, <3>4 DEF W!Arrive, HttpInv, HttpTypes
  <2> QED
    BY <2>1, <2>2
<1>3. ASSUME NEW j \in Sock PROVE SocketInv(j)'
  BY <1>1 DEF HttpInv, SocketInv, W!Live, Talks, OnTime
<1> QED
  BY <1>1, <1>2, <1>3 DEF HttpInv, HttpTypes

LEMMA EventKeeps ==
  ASSUME W!SizesAssumption, HttpInv, NEW k \in Sock, W!ProcessSocketEvent(k)
  PROVE  HttpInv'
<1>1. /\ beingRead' = k /\ idle' = [idle EXCEPT ![k] = 0] /\ W!Live(k)
      /\ UNCHANGED <<filter, fd, toArrive, unread, session, due, wake, heard, answers>>
  BY DEF W!ProcessSocketEvent
<1>2. idleTimeout \in Nat /\ wake \in Nat
  BY DEF W!SizesAssumption, HttpInv, HttpTypes
<1>3. HttpTypes'
  BY <1>1 DEF HttpInv, HttpTypes
<1>4. session[k] # W!NoSession
  BY <1>1 DEF HttpInv, SocketInv
<1>5. ASSUME NEW j \in Sock PROVE SocketInv(j)'
  <2>1. SocketInv(j) /\ idle[j] \in Nat
    BY DEF HttpInv, HttpTypes
  <2>2. idle'[j] = IF j = k THEN 0 ELSE idle[j]
    BY <1>1 DEF HttpInv, HttpTypes
  <2>3. OnTime(j)'
    BY <1>1, <1>2, <2>1, <2>2 DEF SocketInv, OnTime
  <2> QED
    BY <1>1, <2>1, <2>2, <2>3 DEF SocketInv, W!Live, Talks
<1> QED
  BY <1>1, <1>3, <1>4, <1>5 DEF HttpInv

LEMMA ReadKeeps ==
  ASSUME W!SizesAssumption, HttpInv, NEW k \in Sock, W!ReadCharacter(k)
  PROVE  HttpInv'
<1> DEFINE text == heard[k]
           ch == Head(unread[k])
           u == W!Character(session[k], ch)
           more == Append(text, ch)
<1>1. /\ beingRead = k /\ unread[k] # <<>> /\ unread' = [unread EXCEPT ![k] = Tail(@)]
      /\ heard' = [heard EXCEPT ![k] = more]
      /\ UNCHANGED <<filter, toArrive, idle, wake>>
  BY DEF W!ReadCharacter
<1>2. IF u.code = 0
      THEN session' = [session EXCEPT ![k] = u] /\ UNCHANGED <<fd, beingRead, due, answers>>
      ELSE /\ session' = [session EXCEPT ![k] = W!NoSession] /\ fd' = [fd EXCEPT ![k] = "closed"]
           /\ beingRead' = W!NoSocket /\ due' = TRUE
           /\ \/ answers' = [answers EXCEPT ![k] = W!Response(u)]
              \/ answers' = [answers EXCEPT ![k] = answers[k]]
  BY DEF W!ReadCharacter, W!Finish, W!Delete
<1>3. LineSize \in Nat /\ LineSize > 2 /\ Rooms /\ W!NoSocket \notin Sock
  BY DEF W!SizesAssumption, Rooms
<1>4. text \in Seq(W!Characters) /\ unread[k] \in Seq(W!Characters)
  BY DEF HttpInv, HttpTypes
<1>5. ch \in W!Characters /\ Tail(unread[k]) \in Seq(W!Characters)
  BY <1>1, <1>4, HeadTailProperties
<1>6. more \in Seq(W!Characters)
  BY <1>4, <1>5, AppendProperties
<1>7. session[k] # W!NoSession /\ Hears(text, session[k]) /\ answers[k] = <<>> /\ fd[k] \in {"open", "shut"}
  BY <1>1, <1>3 DEF HttpInv, SocketInv, Talks, W!Live
<1>8. Outcome(more, u)
  BY <1>3, <1>4, <1>5, <1>7, CharacterRead
<1> HIDE DEF u, more, text, ch
<1>9. heard'[k] = more /\ \A j \in Sock : j # k => heard'[j] = heard[j]
  BY <1>1 DEF HttpInv, HttpTypes
<1>10. CASE u.code = 0
  <2>1. session' = [session EXCEPT ![k] = u] /\ UNCHANGED <<fd, beingRead, due, answers>>
    BY <1>2, <1>10
  <2>2. HttpTypes'
    BY <1>1, <1>5, <1>6, <2>1 DEF HttpInv, HttpTypes
  <2>3. Hears(more, u)
    BY <1>8, <1>10 DEF Outcome
  <2>4. u # W!NoSession
    BY <1>10 DEF W!NoSession
  <2>5. ASSUME NEW j \in Sock PROVE SocketInv(j)'
    <3>1. SocketInv(j)
      BY DEF HttpInv
    <3>2. session'[j] = IF j = k THEN u ELSE session[j]
      BY <2>1 DEF HttpInv, HttpTypes
    <3>3. Talks(j)'
      BY <1>7, <1>9, <2>1, <2>3, <2>4, <3>1, <3>2 DEF SocketInv, Talks
    <3>4. (W!Live(j) <=> session[j] # W!NoSession)'
      BY <1>7, <2>1, <2>4, <3>1, <3>2 DEF SocketInv, W!Live
    <3>5. OnTime(j)'
      BY <1>1, <2>1, <3>1 DEF SocketInv, OnTime
    <3> QED
      BY <1>1, <1>7, <1>9, <2>1, <3>1, <3>3, <3>4, <3>5 DEF SocketInv
  <2>6. (beingRead # W!NoSocket => session[beingRead] # W!NoSession)'
    BY <1>1, <2>1, <2>4 DEF HttpInv, HttpTypes
  <2> QED
    BY <2>2, <2>5, <2>6 DEF HttpInv
<1>11. CASE u.code # 0
  <2>1. /\ session' = [session EXCEPT ![k] = W!NoSession] /\ fd' = [fd EXCEPT ![k] = "closed"]
        /\ beingRead' = W!NoSocket /\ due' = TRUE
        /\ \/ answers' = [answers EXCEPT ![k] = W!Response(u)]
           \/ answers' = [answers EXCEPT ![k] = answers[k]]
    BY <1>2, <1>11
  <2>2. HttpTypes'
    BY <1>1, <1>5, <1>6, <2>1 DEF HttpInv, HttpTypes
  <2>3. W!Response(u) \in W!Expected(more)
    BY <1>8, <1>11 DEF Outcome
  <2>4. ASSUME NEW j \in Sock PROVE SocketInv(j)'
    <3>1. SocketInv(j)
      BY DEF HttpInv
    <3>2. session'[j] = (IF j = k THEN W!NoSession ELSE session[j]) /\ fd'[j] = (IF j = k THEN "closed" ELSE fd[j])
      BY <2>1 DEF HttpInv, HttpTypes
    <3>3. IF j = k THEN answers'[j] \in {answers[j], W!Response(u)} ELSE answers'[j] = answers[j]
      BY <2>1 DEF HttpInv, HttpTypes
    <3>4. Talks(j)'
      <4>1. CASE j = k
        BY <1>7, <1>9, <2>3, <3>2, <3>3, <4>1 DEF Talks
      <4>2. CASE j # k
        BY <1>9, <3>1, <3>2, <3>3, <4>2 DEF SocketInv, Talks
      <4> QED
        BY <4>1, <4>2
    <3>5. (W!Live(j) <=> session[j] # W!NoSession)'
      BY <3>1, <3>2 DEF SocketInv, W!Live
    <3>6. OnTime(j)'
      BY <1>1, <2>1, <3>1, <3>2 DEF SocketInv, OnTime
    <3> QED
      BY <1>1, <1>9, <3>1, <3>2, <3>3, <3>4, <3>5, <3>6 DEF SocketInv
  <2> QED
    BY <2>1, <2>2, <2>4 DEF HttpInv
<1> QED
  BY <1>10, <1>11

LEMMA ReadAllKeeps ==
  ASSUME W!SizesAssumption, HttpInv, NEW k \in Sock, W!ReadAll(k)
  PROVE  HttpInv'
<1>1. /\ beingRead = k /\ beingRead' = W!NoSocket /\ due' = TRUE
      /\ \/ session' = [session EXCEPT ![k] = W!NoSession] /\ fd' = [fd EXCEPT ![k] = "closed"]
         \/ UNCHANGED <<fd, session>>
      /\ UNCHANGED <<filter, toArrive, unread, idle, wake, heard, answers>>
  BY DEF W!ReadAll, W!Finish, W!Delete
<1>2. k # W!NoSocket /\ session[k] # W!NoSession /\ answers[k] = <<>>
  BY <1>1 DEF W!SizesAssumption, HttpInv, SocketInv, Talks
<1>3. HttpTypes'
  BY <1>1 DEF HttpInv, HttpTypes
<1>4. ASSUME NEW j \in Sock PROVE SocketInv(j)'
  <2>1. SocketInv(j)
    BY DEF HttpInv
  <2>2. \/ j = k /\ session'[j] = W!NoSession /\ fd'[j] = "closed"
        \/ session'[j] = session[j] /\ fd'[j] = fd[j]
    BY <1>1 DEF HttpInv, HttpTypes
  <2>3. Talks(j)'
    BY <1>1, <1>2, <2>1, <2>2 DEF SocketInv, Talks
  <2>4. (W!Live(j) <=> session[j] # W!NoSession)'
    BY <2>1, <2>2 DEF SocketInv, W!Live
  <2>5. OnTime(j)'
    BY <1>1, <2>1, <2>2 DEF SocketInv, OnTime
  <2> QED
    BY <1>1, <2>1, <2>2, <2>3, <2>4, <2>5 DEF SocketInv
<1> QED
  BY <1>1, <1>3, <1>4 DEF HttpInv

LEMMA CheckKeeps ==
  ASSUME W!SizesAssumption, HttpInv, W!CheckTimeouts
  PROVE  HttpInv'
<1> DEFINE sessions == {k \in Sock : session[k] # W!NoSession}
           over == {k \in sessions : idle[k] >= idleTimeout}
           left == {idleTimeout - idle[k] : k \in sessions \ over}
<1>1. /\ due' = FALSE
      /\ fd' = [k \in Sock |-> IF k \in over THEN "shut" ELSE fd[k]]
      /\ wake' = W!Soonest(left)
      /\ UNCHANGED <<filter, toArrive, unread, session, beingRead, idle, heard, answers>>
  BY DEF W!CheckTimeouts
<1>2. idleTimeout \in Nat /\ \A k \in Sock : idle[k] \in Nat /\ SocketInv(k)
  BY DEF W!SizesAssumption, HttpInv, HttpTypes
<1>3. ASSUME NEW k \in sessions \ over PROVE idleTimeout - idle[k] \in left /\ idleTimeout - idle[k] \in Nat \ {0}
  BY <1>2
<1>4. left \subseteq Nat \ {0}
  BY <1>3
<1>5. wake' \in Nat /\ \A t \in left : wake' > 0 /\ wake' <= t
  <2> HIDE DEF left
  <2>1. CASE left = {}
    BY <1>1, <2>1 DEF W!Soonest
  <2>2. CASE left # {}
    <3> DEFINE first == CHOOSE t \in left : \A v \in left : t <= v
    <3>1. first \in left /\ \A v \in left : first <= v
      BY <1>4, <2>2, LeastNatural
    <3>2. wake' = first
      BY <1>1, <2>2 DEF W!Soonest
    <3> HIDE DEF first
    <3>3. first > 0
      BY <1>4, <3>1
    <3> QED
      BY <1>4, <3>1, <3>2, <3>3
  <2> QED
    BY <2>1, <2>2
<1> HIDE DEF left
<1>6. HttpTypes'
  BY <1>1, <1>5 DEF HttpInv, HttpTypes
<1>7. ASSUME NEW j \in Sock PROVE SocketInv(j)'
  <2>1. SocketInv(j) /\ fd'[j] = (IF j \in over THEN "shut" ELSE fd[j]) /\ session'[j] = session[j]
    BY <1>1, <1>2
  <2>2. Talks(j)'
    BY <1>1, <2>1 DEF SocketInv, Talks
  <2>3. (W!Live(j) <=> session[j] # W!NoSession)'
    BY <2>1 DEF SocketInv, W!Live
  <2>4. OnTime(j)'
    <3> SUFFICES ASSUME fd'[j] = "open" PROVE idle[j] < idleTimeout /\ wake' > 0 /\ wake' <= idleTimeout - idle[j]
      BY <1>1, <1>2 DEF OnTime
    <3>1. j \in sessions \ over
      BY <2>1 DEF SocketInv, W!Live
    <3>2. idle[j] < idleTimeout
      BY <1>2, <3>1
    <3>3. idleTimeout - idle[j] \in left
      BY <1>3, <3>1
    <3> QED
      BY <1>5, <3>2, <3>3
  <2> QED
    BY <1>1, <2>1, <2>2, <2>3, <2>4 DEF SocketInv, W!Live
<1> QED
  BY <1>1, <1>6, <1>7 DEF HttpInv

LEMMA TickKeeps ==
  ASSUME W!SizesAssumption, HttpInv, W!Tick
  PROVE  HttpInv'
<1>1. /\ ~due
      /\ idle' = [k \in Sock |-> IF session[k] # W!NoSession /\ idle[k] <= idleTimeout THEN idle[k] + 1 ELSE idle[k]]
      /\ wake' = (IF wake > 0 THEN wake - 1 ELSE 0)
      /\ due' = (wake = 1)
      /\ UNCHANGED <<filter, fd, toArrive, unread, session, beingRead, heard, answers>>
  BY DEF W!Tick
<1>2. idleTimeout \in Nat /\ wake \in Nat /\ \A k \in Sock : idle[k] \in Nat /\ SocketInv(k)
  BY DEF W!SizesAssumption, HttpInv, HttpTypes
<1>3. HttpTypes'
  <2>1. idle' \in [Sock -> Nat]
    BY <1>1, <1>2
  <2>2. wake' \in Nat /\ due' \in BOOLEAN
    BY <1>1, <1>2
  <2> QED
    BY <1>1, <2>1, <2>2 DEF HttpInv, HttpTypes
<1>4. ASSUME NEW j \in Sock PROVE SocketInv(j)'
  <2>1. SocketInv(j) /\ idle[j] \in Nat
    BY <1>2
  <2>2. OnTime(j)'
    <3> SUFFICES ASSUME fd[j] = "open"
                 PROVE  idle'[j] <= idleTimeout
                        /\ (wake # 1 => idle'[j] < idleTimeout /\ wake' > 0 /\ wake' <= idleTimeout - idle'[j])
      BY <1>1 DEF OnTime
    <3>1. session[j] # W!NoSession /\ idle[j] < idleTimeout /\ wake > 0 /\ wake <= idleTimeout - idle[j]
      BY <1>1, <2>1 DEF SocketInv, W!Live, OnTime
    <3>2. idle'[j] = idle[j] + 1 /\ wake' = wake - 1
      BY <1>1, <1>2, <2>1, <3>1
    <3> QED
      BY <1>2, <2>1, <3>1, <3>2
  <2>3. Talks(j)' /\ (W!Live(j) <=> session[j] # W!NoSession)'
    BY <1>1, <2>1 DEF SocketInv, Talks, W!Live
  <2>4. (fd[j] = "free" => heard[j] = <<>> /\ answers[j] = <<>> /\ idle[j] = 0)'
    <3>1. fd[j] = "free" => session[j] = W!NoSession
      BY <2>1 DEF SocketInv, W!Live
    <3> QED
      BY <1>1, <2>1, <3>1 DEF SocketInv
  <2> QED
    BY <2>2, <2>3, <2>4 DEF SocketInv
<1> QED
  BY <1>1, <1>3, <1>4 DEF HttpInv

LEMMA StopKeeps ==
  ASSUME HttpInv, W!Stop
  PROVE  HttpInv'
<1>1. /\ beingRead = W!NoSocket
      /\ fd' = [k \in Sock |-> "closed"] /\ session' = [k \in Sock |-> W!NoSession]
      /\ UNCHANGED <<filter, toArrive, unread, beingRead, idle, due, wake, heard, answers>>
  BY DEF W!Stop, W!Waits
<1>2. HttpTypes'
  BY <1>1 DEF HttpInv, HttpTypes
<1>3. ASSUME NEW j \in Sock PROVE SocketInv(j)'
  <2>1. SocketInv(j)
    BY DEF HttpInv
  <2> QED
    BY <1>1, <2>1 DEF SocketInv, Talks, W!Live, OnTime
<1> QED
  BY <1>1, <1>2, <1>3 DEF HttpInv

(* The invariant holds at first, every action keeps it, and it is enough. *)
LEMMA HttpStarts == ASSUME W!SizesAssumption, W!Init PROVE HttpInv
<1>1. HttpTypes
  <2>1. <<>> \in Seq(W!Characters)
    BY EmptySeq
  <2> QED
    BY <2>1 DEF W!Init, HttpTypes
<1>2. ASSUME NEW j \in Sock PROVE SocketInv(j)
  BY DEF W!Init, SocketInv, Talks, W!Live, OnTime
<1> QED
  BY <1>1, <1>2 DEF HttpInv, W!Init

LEMMA HttpKeeps == ASSUME W!SizesAssumption, HttpInv, [W!Next]_W!vars PROVE HttpInv'
<1>1. ASSUME NEW k \in Sock, NEW h \in Addresses, NEW text \in Requests, W!Accept(k, h, text) PROVE HttpInv'
  BY <1>1, AcceptKeeps
<1>2. ASSUME NEW k \in Sock, (\E n : W!Arrive(k, n)) \/ W!HangUp(k) PROVE HttpInv'
  BY <1>2, ClientKeeps
<1>3. ASSUME NEW k \in Sock, W!ProcessSocketEvent(k) \/ W!ReadCharacter(k) \/ W!ReadAll(k) PROVE HttpInv'
  BY <1>3, EventKeeps, ReadKeeps, ReadAllKeeps
<1>4. ASSUME W!CheckTimeouts \/ W!Tick \/ W!Stop PROVE HttpInv'
  BY <1>4, CheckKeeps, TickKeeps, StopKeeps
<1>5. ASSUME UNCHANGED W!vars PROVE HttpInv'
  BY <1>5 DEF W!vars, HttpInv, HttpTypes, SocketInv, Talks, W!Live, OnTime
<1> QED
  BY <1>1, <1>2, <1>3, <1>4, <1>5 DEF W!Next, W!Reading

LEMMA SessionsAreUnanswered ==
  ASSUME NEW text \in Seq(W!Characters), NEW u, Hears(text, u), LineSize \in Nat, Rooms
  PROVE  W!Expected(text) \subseteq {<<>>}
<1>1. CASE NotAsked(text)
  BY <1>1, NothingExpected
<1>2. ASSUME NEW e, IsAsked(text, e), ~IsOver(text, e), Understood(Request(text, e)) PROVE W!Expected(text) \subseteq {<<>>}
  <2>1. W!Expected(text) = {Answer(Request(text, e), FALSE)}
    BY <1>2, OneExpected
  <2>2. Answer(Request(text, e), FALSE) = <<>>
    BY <1>2 DEF Answer, Understood
  <2> QED
    BY <2>1, <2>2, Zenon
<1> QED
  BY <1>1, <1>2 DEF Hears

LEMMA HttpInvSuffices == ASSUME W!SizesAssumption, HttpInv PROVE W!RequestsAreAnswered
<1> SUFFICES ASSUME NEW k \in Sock
             PROVE  /\ answers[k] \in {<<>>} \cup W!Expected(heard[k])
                    /\ session[k] # W!NoSession => W!Expected(heard[k]) \subseteq {<<>>}
                    /\ W!Live(k) <=> session[k] # W!NoSession
                    /\ fd[k] # "free" => W!FirstCounts(filter, host[k], FALSE)
                    /\ fd[k] = "open" => idle[k] <= idleTimeout
  BY DEF W!RequestsAreAnswered
<1>1. SocketInv(k) /\ heard[k] \in Seq(W!Characters) /\ LineSize \in Nat /\ Rooms
  BY DEF W!SizesAssumption, HttpInv, HttpTypes, Rooms
<1>2. answers[k] \in {<<>>} \cup W!Expected(heard[k])
  BY <1>1 DEF SocketInv, Talks
<1>3. session[k] # W!NoSession => W!Expected(heard[k]) \subseteq {<<>>}
  BY <1>1, SessionsAreUnanswered DEF SocketInv, Talks
<1>4. W!FirstCounts(filter, host[k], FALSE)
  BY FirstPatternCounts DEF W!SizesAssumption, HttpInv, HttpTypes
<1> QED
  BY <1>1, <1>2, <1>3, <1>4 DEF SocketInv, OnTime

-----------------------------------------------------------------------------
(* What another part does leaves the HTTP server as it is. *)
LEMMA PartsKeepHttpInv == PartsSpec => []HttpInv
<1>1. PartsInit => HttpInv
  BY HttpSizes, HttpStarts DEF PartsInit
<1>2. [PartsNext]_<<part, vars, handshakeVars, streamVars, sessionVars, programVars>> => [W!Next]_W!vars
  BY DEF PartsNext, programVars, httpVars, W!vars
<1>3. HttpInv /\ [W!Next]_W!vars => HttpInv'
  BY HttpSizes, HttpKeeps
<1> QED
  BY <1>1, <1>2, <1>3, PTL DEF PartsSpec

(* HTTPServer: however a client's text is cut into pieces, however long its *)
(* lines and their words are, and whatever white space is between them,     *)
(* what it is sent is the answer to its request, once the request is        *)
(* complete; the sockets that are open are those of sessions of hosts that  *)
(* the filter lets in, and none is idle longer than it may be.              *)
THEOREM RequestsAreAnsweredOnce == PartsSpec => []RequestsAreAnswered
<1>1. HttpInv => RequestsAreAnswered
  BY HttpSizes, HttpInvSuffices DEF RequestsAreAnswered
<1> QED
  BY <1>1, PartsKeepHttpInv, PTL

-----------------------------------------------------------------------------
(* Passwords.  First the cipher: shifts and exchanges of bits.              *)
(* A word of 32 bits, as the set of its bits that are 1.                    *)
Word == SUBSET (0 .. 31)

Wide == LongBits \in Int /\ LongBits >= 32

(* The lower halves of two words.                                           *)
Low(p) == <<p[1] \cap (0 .. 31), p[2] \cap (0 .. 31)>>

LEMMA LeftBits ==
  ASSUME NEW w \in SUBSET Int, NEW n \in Int
  PROVE  \A b \in Int : b \in P!Left(w, n) <=> b \in 0 .. LongBits - 1 /\ b - n \in w
<1> DEFINE moved == {a + n : a \in w}
<1>1. ASSUME NEW b \in Int PROVE b \in moved <=> b - n \in w
  <2>1. ASSUME NEW a \in w, b = a + n PROVE b - n \in w
    <3>1. a \in Int /\ b - n = a
      BY <2>1
    <3> QED
      BY <3>1
  <2>2. ASSUME b - n \in w PROVE b \in moved
    <3>1. b = (b - n) + n
      OBVIOUS
    <3> QED
      BY <2>2, <3>1
  <2> QED
    BY <2>1, <2>2
<1>2. P!Left(w, n) = moved \cap (0 .. LongBits - 1)
  BY DEF P!Left
<1> HIDE DEF moved
<1> QED
  BY <1>1, <1>2

LEMMA RightBits ==
  ASSUME NEW w \in SUBSET Int, NEW n \in Int
  PROVE  \A b \in Int : b \in P!Right(w, n) <=> b \in 0 .. LongBits - 1 /\ b + n \in w
<1> DEFINE moved == {a - n : a \in w}
<1>1. ASSUME NEW b \in Int PROVE b \in moved <=> b + n \in w
  <2>1. ASSUME NEW a \in w, b = a - n PROVE b + n \in w
    <3>1. a \in Int /\ b + n = a
      BY <2>1
    <3> QED
      BY <3>1
  <2>2. ASSUME b + n \in w PROVE b \in moved
    <3>1. b = (b + n) - n
      OBVIOUS
    <3> QED
      BY <2>2, <3>1
  <2> QED
    BY <2>1, <2>2
<1>2. P!Right(w, n) = moved \cap (0 .. LongBits - 1)
  BY DEF P!Right
<1> HIDE DEF moved
<1> QED
  BY <1>1, <1>2

LEMMA ShiftsAreBits ==
  ASSUME Wide, NEW w, NEW n
  PROVE  P!Left(w, n) \subseteq Int /\ P!Right(w, n) \subseteq Int
BY DEF P!Left, P!Right, Wide

LEMMA XorBits == ASSUME NEW a, NEW b, NEW x PROVE x \in P!Xor(a, b) <=> ~(x \in a <=> x \in b)
BY DEF P!Xor

LEMMA XorTwice == ASSUME NEW a, NEW b PROVE P!Xor(P!Xor(a, b), b) = a
BY DEF P!Xor

(* The bits that are exchanged stay in the lower half.                      *)
Fits(n, mask) == n \in Nat /\ mask \in Word /\ \A x \in mask : x + n <= 31

LEMMA ExchangeIs ==
  ASSUME NEW a, NEW b, NEW n, NEW mask
  PROVE  P!Exchange(<<a, b>>, n, mask) =
           LET work == P!Xor(P!Right(a, n), b) \cap mask IN <<P!Xor(a, P!Left(work, n)), P!Xor(b, work)>>
BY DEF P!Exchange

(* The bits that differ, and where the other word has them.                 *)
Differing(a, b, n, mask) == {x \in mask : ~(x + n \in a <=> x \in b)}
Above(w, n) == {x + n : x \in w}

LEMMA Exchanged ==
  ASSUME Wide, NEW a \in SUBSET Int, NEW b \in SUBSET Int, NEW n, NEW mask, Fits(n, mask)
  PROVE  /\ P!Exchange(<<a, b>>, n, mask) =
              <<P!Xor(a, Above(Differing(a, b, n, mask), n)), P!Xor(b, Differing(a, b, n, mask))>>
         /\ Differing(a, b, n, mask) \in Word /\ Above(Differing(a, b, n, mask), n) \in Word
<1> DEFINE work == Differing(a, b, n, mask)
<1>0. n \in Int /\ mask \in SUBSET Int /\ \A x \in mask : x \in 0 .. LongBits - 1 /\ x + n \in 0 .. 31
  BY DEF Fits, Wide, Word
<1>1. P!Xor(P!Right(a, n), b) \cap mask = work
  <2>1. \A x \in mask : x \in P!Right(a, n) <=> x + n \in a
    BY <1>0, RightBits
  <2> QED
    BY <2>1, XorBits DEF Differing
<1>2. work \in Word /\ Above(work, n) \in Word
  BY <1>0 DEF Fits, Word, Differing, Above
<1>3. P!Left(work, n) = Above(work, n)
  BY <1>0, <1>2 DEF P!Left, Wide, Word, Above
<1> HIDE DEF work
<1>4. P!Exchange(<<a, b>>, n, mask) = <<P!Xor(a, P!Left(work, n)), P!Xor(b, work)>>
  BY <1>1, ExchangeIs
<1> QED
  BY <1>2, <1>3, <1>4 DEF work

LEMMA ExchangeKeeps ==
  ASSUME Wide, NEW p \in (SUBSET Int) \X (SUBSET Int), NEW n, NEW mask, Fits(n, mask)
  PROVE  /\ P!Exchange(p, n, mask) \in (SUBSET Int) \X (SUBSET Int)
         /\ p[2] \in Word => P!Exchange(p, n, mask)[2] \in Word
         /\ p \in Word \X Word => P!Exchange(p, n, mask) \in Word \X Word
         /\ Low(P!Exchange(p, n, mask)) = P!Exchange(Low(p), n, mask)
<1>1. PICK a \in SUBSET Int, b \in SUBSET Int : p = <<a, b>>
  OBVIOUS
<1> DEFINE AA == a \cap (0 .. 31)
           BB == b \cap (0 .. 31)
           work == Differing(a, b, n, mask)
           up == Above(work, n)
<1>2. Low(p) = <<AA, BB>> /\ AA \in SUBSET Int /\ BB \in SUBSET Int
  BY <1>1 DEF Low
<1>3. Differing(AA, BB, n, mask) = work
  <2>1. \A x \in mask : x \in 0 .. 31 /\ x + n \in 0 .. 31
    BY DEF Fits, Word
  <2> QED
    BY <2>1 DEF Differing
<1>4. P!Exchange(p, n, mask) = <<P!Xor(a, up), P!Xor(b, work)>> /\ work \in Word /\ up \in Word
  <2>1. P!Exchange(<<a, b>>, n, mask) =
              <<P!Xor(a, Above(Differing(a, b, n, mask), n)), P!Xor(b, Differing(a, b, n, mask))>>
    BY Exchanged
  <2>2. Differing(a, b, n, mask) \in Word /\ Above(Differing(a, b, n, mask), n) \in Word
    BY Exchanged
  <2> QED
    BY <1>1, <2>1, <2>2
<1>5. P!Exchange(Low(p), n, mask) = <<P!Xor(AA, up), P!Xor(BB, work)>>
  <2> HIDE DEF AA, BB
  <2>1. P!Exchange(<<AA, BB>>, n, mask) =
              <<P!Xor(AA, Above(Differing(AA, BB, n, mask), n)), P!Xor(BB, Differing(AA, BB, n, mask))>>
    BY <1>2, Exchanged
  <2> QED
    BY <1>2, <1>3, <2>1
<1> HIDE DEF work, up
<1>6. ASSUME NEW x \in SUBSET Int, NEW y \in Word
      PROVE  /\ P!Xor(x, y) \in SUBSET Int /\ (x \in Word => P!Xor(x, y) \in Word)
             /\ P!Xor(x, y) \cap (0 .. 31) = P!Xor(x \cap (0 .. 31), y)
  <2>1. y \subseteq 0 .. 31 /\ y \subseteq Int
    BY DEF Word
  <2>2. P!Xor(x, y) \in SUBSET Int
    BY <2>1 DEF P!Xor
  <2>3. x \in Word => P!Xor(x, y) \in Word
    BY <2>1 DEF P!Xor, Word
  <2>4. P!Xor(x, y) \cap (0 .. 31) = P!Xor(x \cap (0 .. 31), y)
    BY <2>1, Zenon DEF P!Xor
  <2> QED
    BY <2>2, <2>3, <2>4
<1> HIDE DEF AA, BB
<1>7. /\ P!Exchange(p, n, mask)[1] = P!Xor(a, up) /\ P!Exchange(p, n, mask)[2] = P!Xor(b, work)
      /\ p[1] = a /\ p[2] = b
  BY <1>1, <1>4
<1>8. Low(P!Exchange(p, n, mask)) = <<P!Xor(AA, up), P!Xor(BB, work)>>
  <2>1. Low(P!Exchange(p, n, mask)) = <<P!Xor(a, up) \cap (0 .. 31), P!Xor(b, work) \cap (0 .. 31)>>
    BY <1>7 DEF Low
  <2>2. P!Xor(a, up) \cap (0 .. 31) = P!Xor(AA, up)
    BY <1>4, <1>6 DEF AA
  <2>3. P!Xor(b, work) \cap (0 .. 31) = P!Xor(BB, work)
    BY <1>4, <1>6 DEF BB
  <2> QED
    BY <2>1, <2>2, <2>3
<1>9. P!Xor(a, up) \in SUBSET Int /\ P!Xor(b, work) \in SUBSET Int
  BY <1>4, <1>6
<1>10. b \in Word => P!Xor(b, work) \in Word
  BY <1>4, <1>6
<1>11. a \in Word => P!Xor(a, up) \in Word
  BY <1>4, <1>6
<1> QED
  BY <1>1, <1>4, <1>5, <1>7, <1>8, <1>9, <1>10, <1>11

LEMMA ExchangeTwice ==
  ASSUME Wide, NEW p \in Word \X Word, NEW n, NEW mask, Fits(n, mask)
  PROVE  P!Exchange(P!Exchange(p, n, mask), n, mask) = p
<1>1. PICK a \in Word, b \in Word : p = <<a, b>>
  OBVIOUS
<1> DEFINE work == Differing(a, b, n, mask)
           up == Above(work, n)
           lft == P!Xor(a, up)
           rgt == P!Xor(b, work)
<1>0. a \in SUBSET Int /\ b \in SUBSET Int
  BY DEF Word
<1>2. P!Exchange(p, n, mask) = <<lft, rgt>> /\ work \in Word /\ up \in Word
  BY <1>0, <1>1, Exchanged, Zenon
<1>3. Differing(lft, rgt, n, mask) = work
  <2>1. \A x \in mask : x + n \in up <=> x \in work
    BY DEF Fits, Word, Above, Differing
  <2>2. \A x \in mask : x \in work <=> ~(x + n \in a <=> x \in b)
    BY DEF Differing
  <2> HIDE DEF up, work
  <2>3. \A x \in mask : ~(x + n \in lft <=> x \in rgt) <=> x \in work
    BY <2>1, <2>2, XorBits
  <2>4. \A x \in work : x \in mask
    BY DEF work, Differing
  <2> QED
    BY <2>3, <2>4 DEF Differing
<1>4. lft \in SUBSET Int /\ rgt \in SUBSET Int
  <2> HIDE DEF up, work
  <2> QED
    BY <1>0, <1>2 DEF Word, P!Xor
<1>5. P!Exchange(<<lft, rgt>>, n, mask) = <<P!Xor(lft, up), P!Xor(rgt, work)>>
  <2> HIDE DEF lft, rgt
  <2>1. P!Exchange(<<lft, rgt>>, n, mask) =
              <<P!Xor(lft, Above(Differing(lft, rgt, n, mask), n)), P!Xor(rgt, Differing(lft, rgt, n, mask))>>
    BY <1>4, Exchanged
  <2> QED
    BY <1>3, <2>1
<1> HIDE DEF up, work
<1>6. P!Xor(lft, up) = a /\ P!Xor(rgt, work) = b
  BY XorTwice
<1> QED
  BY <1>1, <1>2, <1>5, <1>6

(* Rotated to the left and to the right by a bit *)
RotatedUp(a) == {x \in 0 .. 31 : x - 1 \in a \/ (x = 0 /\ 31 \in a)}
RotatedDown(a) == {x \in 0 .. 31 : x + 1 \in a \/ (x = 31 /\ 0 \in a)}

LEMMA UpIs ==
  ASSUME Wide, NEW p \in Word \X Word
  PROVE  P!Up(p) = <<RotatedUp(p[1]), p[2]>>
<1>1. p[1] \in SUBSET Int /\ p[1] \subseteq 0 .. 31
  BY DEF Word
<1>2. P!Left(p[1], 1) \subseteq Int /\ P!Right(p[1], 31) \subseteq Int
  BY ShiftsAreBits
<1>3. \A x \in 0 .. 31 : x \in P!Left(p[1], 1) <=> x - 1 \in p[1]
  BY <1>1, LeftBits DEF Wide
<1>4. 0 \in P!Right(p[1], 31) <=> 31 \in p[1]
  BY <1>1, RightBits DEF Wide
<1>5. (P!Left(p[1], 1) \cup (P!Right(p[1], 31) \cap {0})) \cap P!Lower = RotatedUp(p[1])
  BY <1>3, <1>4 DEF RotatedUp, P!Lower
<1> QED
  BY <1>5 DEF P!Up

DownLow(p) == <<RotatedDown(p[1]), p[2]>>

LEMMA DownIs ==
  ASSUME Wide, NEW p \in (SUBSET Int) \X (SUBSET Int), p[1] \in Word
  PROVE  /\ P!Down(p) \in (SUBSET Int) \X (SUBSET Int)
         /\ P!Down(p)[2] = p[2]
         /\ Low(P!Down(p)) = DownLow(Low(p))
<1>1. p[1] \in SUBSET Int /\ p[1] \subseteq 0 .. 31 /\ p[1] \cap (0 .. 31) = p[1]
  BY DEF Word
<1>2. P!Left(p[1], 31) \subseteq Int /\ P!Right(p[1], 1) \subseteq Int
  BY ShiftsAreBits
<1>3. \A x \in 0 .. 31 : x \in P!Left(p[1], 31) <=> x - 31 \in p[1]
  BY <1>1, LeftBits DEF Wide
<1>4. \A x \in 0 .. 31 : x \in P!Right(p[1], 1) <=> x + 1 \in p[1]
  BY <1>1, RightBits DEF Wide
<1>5. \A x \in 0 .. 31 : x - 31 \in p[1] <=> x = 31 /\ 0 \in p[1]
  BY <1>1
<1>6. (P!Left(p[1], 31) \cup P!Right(p[1], 1)) \cap (0 .. 31) = RotatedDown(p[1])
  <2>1. \A x \in 0 .. 31 : x \in P!Left(p[1], 31) \/ x \in P!Right(p[1], 1) <=> x + 1 \in p[1] \/ (x = 31 /\ 0 \in p[1])
    BY <1>3, <1>4, <1>5
  <2> QED
    BY <2>1 DEF RotatedDown
<1>7. P!Down(p) = <<P!Left(p[1], 31) \cup P!Right(p[1], 1), p[2]>>
  BY DEF P!Down
<1>8. P!Left(p[1], 31) \cup P!Right(p[1], 1) \in SUBSET Int
  BY <1>2
<1>9. Low(p) = <<p[1], p[2] \cap (0 .. 31)>>
  BY <1>1 DEF Low
<1>10. Low(P!Down(p)) = <<RotatedDown(p[1]), p[2] \cap (0 .. 31)>>
  BY <1>6, <1>7 DEF Low
<1>11. DownLow(Low(p)) = <<RotatedDown(p[1]), p[2] \cap (0 .. 31)>>
  BY <1>9 DEF DownLow
<1> QED
  BY <1>7, <1>8, <1>10, <1>11

LEMMA UpAndDown ==
  ASSUME Wide, NEW p \in Word \X Word
  PROVE  /\ P!Up(p) \in Word \X Word /\ DownLow(p) \in Word \X Word
         /\ DownLow(P!Up(p)) = p /\ P!Up(DownLow(p)) = p
<1>1. PICK a \in Word, b \in Word : p = <<a, b>>
  OBVIOUS
<1>2. P!Up(p) = <<RotatedUp(a), b>> /\ DownLow(p) = <<RotatedDown(a), b>>
  BY <1>1, UpIs DEF DownLow
<1>3. RotatedUp(a) \in Word /\ RotatedDown(a) \in Word
  BY DEF RotatedUp, RotatedDown, Word
<1>4. a \subseteq 0 .. 31
  BY DEF Word
<1>5. RotatedDown(RotatedUp(a)) = a
  <2>1. \A x \in 0 .. 31 : x + 1 \in RotatedUp(a) <=> x + 1 \in 0 .. 31 /\ x \in a
    BY <1>4 DEF RotatedUp
  <2>2. 0 \in RotatedUp(a) <=> 31 \in a
    BY <1>4 DEF RotatedUp
  <2> DEFINE aa == RotatedUp(a)
  <2>3. 32 \notin aa
    BY DEF RotatedUp
  <2>4. ASSUME NEW x \in 0 .. 31 PROVE (x + 1 \in aa \/ (x = 31 /\ 0 \in aa)) <=> x \in a
    <3> HIDE DEF aa
    <3>1. CASE x = 31
      BY <2>2, <2>3, <3>1 DEF aa
    <3>2. CASE x # 31
      BY <2>1, <3>2 DEF aa
    <3> QED
      BY <3>1, <3>2
  <2> HIDE DEF aa
  <2>5. {x \in 0 .. 31 : x + 1 \in aa \/ (x = 31 /\ 0 \in aa)} = a
    BY <1>4, <2>4
  <2> QED
    BY <2>5 DEF RotatedDown, aa
<1>6. RotatedUp(RotatedDown(a)) = a
  <2>1. \A x \in 1 .. 31 : x - 1 \in RotatedDown(a) <=> x \in a
    BY <1>4 DEF RotatedDown
  <2>2. 31 \in RotatedDown(a) <=> 0 \in a
    BY <1>4 DEF RotatedDown
  <2>3. 0 - 1 \notin RotatedDown(a)
    BY DEF RotatedDown
  <2> DEFINE aa == RotatedDown(a)
  <2>4. ASSUME NEW x \in 0 .. 31 PROVE (x - 1 \in aa \/ (x = 0 /\ 31 \in aa)) <=> x \in a
    <3> HIDE DEF aa
    <3>1. CASE x = 0
      BY <2>2, <2>3, <3>1 DEF aa
    <3>2. CASE x # 0
      BY <2>1, <3>2 DEF aa
    <3> QED
      BY <3>1, <3>2
  <2> HIDE DEF aa
  <2>5. {x \in 0 .. 31 : x - 1 \in aa \/ (x = 0 /\ 31 \in aa)} = a
    BY <1>4, <2>4
  <2> QED
    BY <2>5 DEF RotatedUp, aa
<1>7. \A x, y \in Word : <<x, y>> \in Word \X Word
  OBVIOUS
<1>8. DownLow(<<RotatedUp(a), b>>) = <<a, b>>
  BY <1>5 DEF DownLow
<1>9. P!Up(<<RotatedDown(a), b>>) = <<RotatedUp(RotatedDown(a)), b>>
  <2>1. <<RotatedDown(a), b>> \in Word \X Word
    BY <1>3
  <2>2. P!Up(<<RotatedDown(a), b>>) = <<RotatedUp(<<RotatedDown(a), b>>[1]), <<RotatedDown(a), b>>[2]>>
    BY <2>1, UpIs
  <2> QED
    BY <2>2
<1> QED
  BY <1>1, <1>2, <1>3, <1>6, <1>7, <1>8, <1>9

LEMMA MasksFit ==
  /\ Fits(4, P!Every(8, 4)) /\ Fits(16, 0 .. 15) /\ Fits(2, P!Every(4, 2)) /\ Fits(8, P!Every(16, 8))
  /\ Fits(0, P!OddBits)
<1>1. Fits(16, 0 .. 15)
  BY DEF Fits, Word
<1>2. Fits(4, P!Every(8, 4))
  BY DEF Fits, Word, P!Every, P!Lower
<1>3. Fits(2, P!Every(4, 2))
  BY DEF Fits, Word, P!Every, P!Lower
<1>4. Fits(8, P!Every(16, 8))
  BY DEF Fits, Word, P!Every, P!Lower
<1>5. Fits(0, P!OddBits)
  BY DEF Fits, Word, P!OddBits, P!Lower
<1> QED
  BY <1>1, <1>2, <1>3, <1>4, <1>5

(* What two words exchange in their places is the same from either side.    *)
LEMMA ExchangeTurned ==
  ASSUME Wide, NEW p \in Word \X Word, NEW mask, Fits(0, mask)
  PROVE  P!Exchange(P!Turn(p), 0, mask) = P!Turn(P!Exchange(p, 0, mask))
<1>1. PICK a \in Word, b \in Word : p = <<a, b>>
  OBVIOUS
<1> DEFINE work == Differing(a, b, 0, mask)
<1>2. a \in SUBSET Int /\ b \in SUBSET Int /\ mask \subseteq Int /\ work \subseteq Int
  <2>1. mask \subseteq 0 .. 31 /\ a \subseteq 0 .. 31 /\ b \subseteq 0 .. 31
    BY DEF Word, Fits
  <2>2. work \subseteq mask
    BY DEF Differing
  <2> HIDE DEF work
  <2> QED
    BY <2>1, <2>2
<1>3. Differing(b, a, 0, mask) = work
  BY <1>2 DEF Differing
<1>4. Above(work, 0) = work
  <2> HIDE DEF work
  <2> QED
    <3>1. \A x \in work : x + 0 = x
      BY <1>2
    <3> QED
      BY <3>1, Zenon DEF Above
<1>5. P!Exchange(<<a, b>>, 0, mask) =
        <<P!Xor(a, Above(Differing(a, b, 0, mask), 0)), P!Xor(b, Differing(a, b, 0, mask))>>
  BY <1>2, Exchanged
<1>6. P!Exchange(<<b, a>>, 0, mask) =
        <<P!Xor(b, Above(Differing(b, a, 0, mask), 0)), P!Xor(a, Differing(b, a, 0, mask))>>
  BY <1>2, Exchanged
<1>7. P!Turn(p) = <<b, a>>
  BY <1>1 DEF P!Turn
<1> HIDE DEF work
<1>8. P!Exchange(p, 0, mask) = <<P!Xor(a, work), P!Xor(b, work)>>
  BY <1>1, <1>4, <1>5 DEF work
<1>9. P!Exchange(P!Turn(p), 0, mask) = <<P!Xor(b, work), P!Xor(a, work)>>
  <2> HIDE DEF work
  <2>1. Differing(b, a, 0, mask) = work
    BY <1>3 
  <2> QED
  BY <1>4, <1>6, <1>7, <2>1
<1> QED
  BY <1>8, <1>9 DEF P!Turn

(* The permutation after the rounds, in the lower halves of the words.      *)
FinalLow(p) ==
  P!Exchange(P!Exchange(P!Turn(P!Exchange(P!Exchange(DownLow(P!Turn(P!Exchange(DownLow(P!Turn(p)),
    0, P!OddBits))), 8, P!Every(16, 8)), 2, P!Every(4, 2))), 16, 0 .. 15), 4, P!Every(8, 4))

Words == Word \X Word
WideWords == (SUBSET Int) \X (SUBSET Int)

LEMMA WordsAreWide == ASSUME NEW p \in Words PROVE p \in WideWords /\ Low(p) = p
<1>1. p[1] \subseteq 0 .. 31 /\ p[2] \subseteq 0 .. 31
  BY DEF Words, Word
<1>2. p[1] \cap (0 .. 31) = p[1] /\ p[2] \cap (0 .. 31) = p[2]
  BY <1>1
<1>3. p[1] \in SUBSET Int /\ p[2] \in SUBSET Int /\ p = <<p[1], p[2]>>
  BY <1>1 DEF Words
<1>4. p \in WideWords
  BY <1>3 DEF WideWords
<1> QED
  BY <1>2, <1>3, <1>4 DEF Low

LEMMA TurnIs ==
  /\ \A p \in Words : P!Turn(p) \in Words /\ P!Turn(P!Turn(p)) = p
  /\ \A p \in WideWords : P!Turn(p) \in WideWords /\ Low(P!Turn(p)) = P!Turn(Low(p))
                          /\ (p[2] \in Word => P!Turn(p)[1] \in Word)
<1>1. \A p \in Words : P!Turn(p) \in Words /\ P!Turn(P!Turn(p)) = p
  BY DEF P!Turn, Words
<1>2. \A p \in WideWords : P!Turn(p) \in WideWords /\ (p[2] \in Word => P!Turn(p)[1] \in Word)
  BY DEF P!Turn, WideWords
<1>3. \A p \in WideWords : Low(P!Turn(p)) = P!Turn(Low(p))
  BY DEF P!Turn, Low
<1> QED
  BY <1>1, <1>2, <1>3

LEMMA ExchangeOfWords ==
  ASSUME Wide, NEW n, NEW mask, Fits(n, mask)
  PROVE  /\ \A p \in Words : P!Exchange(p, n, mask) \in Words /\ P!Exchange(P!Exchange(p, n, mask), n, mask) = p
         /\ \A p \in WideWords : /\ P!Exchange(p, n, mask) \in WideWords
                                 /\ Low(P!Exchange(p, n, mask)) = P!Exchange(Low(p), n, mask)
                                 /\ p[2] \in Word => P!Exchange(p, n, mask)[2] \in Word
<1>1. ASSUME NEW p \in WideWords
      PROVE  /\ P!Exchange(p, n, mask) \in WideWords
             /\ Low(P!Exchange(p, n, mask)) = P!Exchange(Low(p), n, mask)
             /\ p[2] \in Word => P!Exchange(p, n, mask)[2] \in Word
  BY ExchangeKeeps DEF WideWords
<1>2. ASSUME NEW p \in Words
      PROVE  P!Exchange(p, n, mask) \in Words /\ P!Exchange(P!Exchange(p, n, mask), n, mask) = p
  <2>1. p \in Word \X Word /\ p \in (SUBSET Int) \X (SUBSET Int)
    BY WordsAreWide DEF Words, WideWords
  <2>2. P!Exchange(p, n, mask) \in Word \X Word
    BY <2>1, ExchangeKeeps
  <2>3. P!Exchange(P!Exchange(p, n, mask), n, mask) = p
    BY <2>1, ExchangeTwice
  <2> QED
    BY <2>2, <2>3 DEF Words
<1> QED
  BY <1>1, <1>2

(* Only what is rotated to the right leaves bits above the lower half, and  *)
(* no bit comes down from there.                                            *)
LEMMA FinalIsLow ==
  ASSUME Wide, NEW p \in Words
  PROVE  P!Final(p) \in WideWords /\ Low(P!Final(p)) = FinalLow(p)
<1> DEFINE p1 == P!Turn(p)
           p2 == P!Down(p1)
           p3 == P!Exchange(p2, 0, P!OddBits)
           p4 == P!Turn(p3)
           p5 == P!Down(p4)
           p6 == P!Exchange(p5, 8, P!Every(16, 8))
           p7 == P!Exchange(p6, 2, P!Every(4, 2))
           p8 == P!Turn(p7)
           p9 == P!Exchange(p8, 16, 0 .. 15)
<1>1. P!Final(p) = P!Exchange(p9, 4, P!Every(8, 4))
  BY DEF P!Final
<1>2. p1 \in Words /\ p1 \in WideWords /\ Low(p1) = P!Turn(p) /\ p1[1] \in Word /\ p1[2] \in Word
  <2>1. p1 \in Words
    BY TurnIs
  <2> HIDE DEF p1
  <2>2. p1[1] \in Word /\ p1[2] \in Word
    BY <2>1 DEF Words
  <2> QED
    BY <2>1, <2>2, WordsAreWide DEF p1
<1>3. p2 \in WideWords /\ Low(p2) = DownLow(Low(p1)) /\ p2[2] \in Word
  <2> HIDE DEF p1
  <2> QED
    BY <1>2, DownIs DEF WideWords
<1>4. p3 \in WideWords /\ Low(p3) = P!Exchange(Low(p2), 0, P!OddBits) /\ p3[2] \in Word
  <2> HIDE DEF p2
  <2> QED
    BY <1>3, MasksFit, ExchangeOfWords
<1>5. p4 \in WideWords /\ Low(p4) = P!Turn(Low(p3)) /\ p4[1] \in Word
  <2> HIDE DEF p3
  <2> QED
    BY <1>4, TurnIs
<1>6. p5 \in WideWords /\ Low(p5) = DownLow(Low(p4))
  <2> HIDE DEF p4
  <2> QED
    BY <1>5, DownIs DEF WideWords
<1>7. p6 \in WideWords /\ Low(p6) = P!Exchange(Low(p5), 8, P!Every(16, 8))
  <2> HIDE DEF p5
  <2> QED
    BY <1>6, MasksFit, ExchangeOfWords
<1>8. p7 \in WideWords /\ Low(p7) = P!Exchange(Low(p6), 2, P!Every(4, 2))
  <2> HIDE DEF p6
  <2> QED
    BY <1>7, MasksFit, ExchangeOfWords
<1>9. p8 \in WideWords /\ Low(p8) = P!Turn(Low(p7))
  <2> HIDE DEF p7
  <2> QED
    BY <1>8, TurnIs
<1>10. p9 \in WideWords /\ Low(p9) = P!Exchange(Low(p8), 16, 0 .. 15)
  <2> HIDE DEF p8
  <2> QED
    BY <1>9, MasksFit, ExchangeOfWords
<1> HIDE DEF p1, p2, p3, p4, p5, p6, p7, p8, p9
<1>11. P!Final(p) \in WideWords /\ Low(P!Final(p)) = P!Exchange(Low(p9), 4, P!Every(8, 4))
  BY <1>1, <1>10, MasksFit, ExchangeOfWords
<1> QED
  BY <1>2, <1>3, <1>4, <1>5, <1>6, <1>7, <1>8, <1>9, <1>10, <1>11 DEF FinalLow

(* The two permutations undo each other, the words turned in between.       *)
LEMMA FinalUndoesInitial ==
  ASSUME Wide, NEW p \in Words
  PROVE  P!Initial(p) \in Words /\ FinalLow(P!Turn(P!Initial(p))) = p
<1> DEFINE p1 == P!Exchange(p, 4, P!Every(8, 4))
           p2 == P!Exchange(p1, 16, 0 .. 15)
           p3 == P!Turn(p2)
           p4 == P!Exchange(p3, 2, P!Every(4, 2))
           p5 == P!Exchange(p4, 8, P!Every(16, 8))
           p6 == P!Up(p5)
           p7 == P!Exchange(p6, 0, P!OddBits)
           p8 == P!Turn(p7)
           p9 == P!Up(p8)
<1>0. P!Initial(p) = p9
  BY DEF P!Initial
<1>1. p1 \in Words /\ P!Exchange(p1, 4, P!Every(8, 4)) = p
  BY MasksFit, ExchangeOfWords
<1>2. p2 \in Words /\ P!Exchange(p2, 16, 0 .. 15) = p1
  <2> HIDE DEF p1
  <2> QED
    BY <1>1, MasksFit, ExchangeOfWords
<1>3. p3 \in Words /\ P!Turn(p3) = p2
  <2> HIDE DEF p2
  <2> QED
    BY <1>2, TurnIs
<1>4. p4 \in Words /\ P!Exchange(p4, 2, P!Every(4, 2)) = p3
  <2> HIDE DEF p3
  <2> QED
    BY <1>3, MasksFit, ExchangeOfWords
<1>5. p5 \in Words /\ P!Exchange(p5, 8, P!Every(16, 8)) = p4
  <2> HIDE DEF p4
  <2> QED
    BY <1>4, MasksFit, ExchangeOfWords
<1>6. p6 \in Words /\ DownLow(p6) = p5
  <2> HIDE DEF p5
  <2> QED
    BY <1>5, UpAndDown DEF Words
<1>7. p7 \in Words /\ P!Exchange(p7, 0, P!OddBits) = p6
  <2> HIDE DEF p6
  <2> QED
    BY <1>6, MasksFit, ExchangeOfWords
<1>8. p8 \in Words /\ P!Exchange(p8, 0, P!OddBits) = P!Turn(p6)
  <2> HIDE DEF p7
  <2>1. P!Exchange(P!Turn(p7), 0, P!OddBits) = P!Turn(P!Exchange(p7, 0, P!OddBits))
    BY <1>7, MasksFit, ExchangeTurned DEF Words
  <2> QED
    BY <1>7, <2>1, TurnIs
<1>9. p9 \in Words /\ DownLow(p9) = p8
  <2> HIDE DEF p8
  <2> QED
    BY <1>8, UpAndDown DEF Words
<1> HIDE DEF p1, p2, p3, p4, p5, p6, p7, p8, p9
<1>10. P!Turn(P!Turn(p9)) = p9 /\ P!Turn(P!Turn(p6)) = p6
  BY <1>6, <1>9, TurnIs
<1>11. FinalLow(P!Turn(p9)) = p
  BY <1>1, <1>2, <1>3, <1>4, <1>5, <1>6, <1>8, <1>9, <1>10 DEF FinalLow
<1> QED
  BY <1>0, <1>9, <1>11

LEMMA InitialUndoesFinal ==
  ASSUME Wide, NEW p \in Words
  PROVE  FinalLow(p) \in Words /\ P!Initial(FinalLow(p)) = P!Turn(p)
<1> DEFINE p1 == DownLow(P!Turn(p))
           p2 == P!Exchange(p1, 0, P!OddBits)
           p3 == P!Turn(p2)
           p4 == DownLow(p3)
           p5 == P!Exchange(p4, 8, P!Every(16, 8))
           p6 == P!Exchange(p5, 2, P!Every(4, 2))
           p7 == P!Turn(p6)
           p8 == P!Exchange(p7, 16, 0 .. 15)
           p9 == P!Exchange(p8, 4, P!Every(8, 4))
<1>0. FinalLow(p) = p9
  BY DEF FinalLow
<1>1. p1 \in Words /\ P!Up(p1) = P!Turn(p)
  BY TurnIs, UpAndDown DEF Words
<1>2. p2 \in Words /\ P!Exchange(p2, 0, P!OddBits) = p1
  <2> HIDE DEF p1
  <2> QED
    BY <1>1, MasksFit, ExchangeOfWords
<1>3. p3 \in Words /\ P!Exchange(p3, 0, P!OddBits) = P!Turn(p1)
  <2> HIDE DEF p2
  <2>1. P!Exchange(P!Turn(p2), 0, P!OddBits) = P!Turn(P!Exchange(p2, 0, P!OddBits))
    BY <1>2, MasksFit, ExchangeTurned DEF Words
  <2> QED
    BY <1>2, <2>1, TurnIs
<1>4. p4 \in Words /\ P!Up(p4) = p3
  <2> HIDE DEF p3
  <2> QED
    BY <1>3, UpAndDown DEF Words
<1>5. p5 \in Words /\ P!Exchange(p5, 8, P!Every(16, 8)) = p4
  <2> HIDE DEF p4
  <2> QED
    BY <1>4, MasksFit, ExchangeOfWords
<1>6. p6 \in Words /\ P!Exchange(p6, 2, P!Every(4, 2)) = p5
  <2> HIDE DEF p5
  <2> QED
    BY <1>5, MasksFit, ExchangeOfWords
<1>7. p7 \in Words /\ P!Turn(p7) = p6
  <2> HIDE DEF p6
  <2> QED
    BY <1>6, TurnIs
<1>8. p8 \in Words /\ P!Exchange(p8, 16, 0 .. 15) = p7
  <2> HIDE DEF p7
  <2> QED
    BY <1>7, MasksFit, ExchangeOfWords
<1>9. p9 \in Words /\ P!Exchange(p9, 4, P!Every(8, 4)) = p8
  <2> HIDE DEF p8
  <2> QED
    BY <1>8, MasksFit, ExchangeOfWords
<1> HIDE DEF p1, p2, p3, p4, p5, p6, p7, p8, p9
<1>10. P!Turn(P!Turn(p1)) = p1
  BY <1>1, TurnIs
<1>11. P!Initial(p9) = P!Turn(p)
  BY <1>1, <1>3, <1>4, <1>5, <1>6, <1>7, <1>8, <1>9, <1>10 DEF P!Initial
<1> QED
  BY <1>0, <1>9, <1>11

LEMMA BoxesFit == ASSUME NEW k \in 1 .. 8, NEW w, NEW at PROVE P!SP(k, w, at) \in Word
<1>1. \A j \in 1 .. 8 : \A x \in 1 .. 4 : P!wire[j][x] \in 0 .. 31
  <2>1. \A x \in 1 .. 4 : P!wire[1][x] \in 0 .. 31 /\ P!wire[2][x] \in 0 .. 31
    BY DEF P!wire
  <2>2. \A x \in 1 .. 4 : P!wire[3][x] \in 0 .. 31 /\ P!wire[4][x] \in 0 .. 31
    BY DEF P!wire
  <2>3. \A x \in 1 .. 4 : P!wire[5][x] \in 0 .. 31 /\ P!wire[6][x] \in 0 .. 31
    BY DEF P!wire
  <2>4. \A x \in 1 .. 4 : P!wire[7][x] \in 0 .. 31 /\ P!wire[8][x] \in 0 .. 31
    BY DEF P!wire
  <2> QED
    BY <2>1, <2>2, <2>3, <2>4
<1>2. \E X \in SUBSET (1 .. 4) : P!SP(k, w, at) = {P!wire[k][x] : x \in X}
  BY Zenon DEF P!SP
<1>3. PICK X \in SUBSET (1 .. 4) : P!SP(k, w, at) = {P!wire[k][x] : x \in X}
  BY <1>2
<1>4. \A x \in X : P!wire[k][x] \in 0 .. 31
  BY <1>1
<1> QED
  BY <1>3, <1>4 DEF Word

LEMMA RoundIsAWord ==
  ASSUME NEW p \in Words, NEW keys
  PROVE  P!Round(p, keys) \in Words /\ P!Round(P!Turn(P!Round(p, keys)), keys) = P!Turn(p)
<1> DEFINE f == P!fval(p[2], keys)
<1>1. f \in Word
  <2>1. \A w, at : /\ P!SP(1, w, at) \in Word /\ P!SP(2, w, at) \in Word /\ P!SP(3, w, at) \in Word
                   /\ P!SP(4, w, at) \in Word /\ P!SP(5, w, at) \in Word /\ P!SP(6, w, at) \in Word
                   /\ P!SP(7, w, at) \in Word /\ P!SP(8, w, at) \in Word
    BY BoxesFit
  <2> QED
    BY <2>1 DEF P!fval, Word
<1>2. p[1] \in Word /\ p[2] \in Word /\ p = <<p[1], p[2]>>
  BY DEF Words
<1>3. P!Round(p, keys) = <<p[2], P!Xor(p[1], f)>>
  BY DEF P!Round
<1>4. P!Turn(P!Round(p, keys)) = <<P!Xor(p[1], f), p[2]>>
  <2> HIDE DEF f
  <2> QED
    BY <1>3 DEF P!Turn
<1>5. P!Round(<<P!Xor(p[1], f), p[2]>>, keys) = <<p[2], P!Xor(P!Xor(p[1], f), f)>>
  BY DEF P!Round
<1> HIDE DEF f
<1>6. P!Xor(p[1], f) \in Word
  BY <1>1, <1>2 DEF P!Xor, Word
<1>7. P!Xor(P!Xor(p[1], f), f) = p[1]
  BY XorTwice
<1> QED
  BY <1>2, <1>3, <1>4, <1>5, <1>6, <1>7 DEF P!Turn, Words

(* What goes through the rounds, n of them done                             *)
GoesThrough(f, block, keys) ==
  /\ f[0] = P!Initial(block)
  /\ \A n \in 0 .. 15 : f[n + 1] = P!Round(f[n], keys[n])

LEMMA RoundsExist ==
  ASSUME NEW block, P!Initial(block) \in Words, NEW keys
  PROVE  \E f : f = [n \in 0 .. 16 |-> IF n = 0 THEN P!Initial(block) ELSE P!Round(f[n - 1], keys[n - 1])]
<1> DEFINE step == [q \in (0 .. 15) \X Words |-> P!Round(q[2], keys[q[1]])]
<1>1. PICK f : Begins(f, 16, P!Initial(block), step)
  BY BeginningExists
<1> DEFINE g == [n \in 0 .. 16 |-> f[n]]
           T == {n \in Nat : n <= 16 => f[n] \in Words}
<1>2. \A n \in 0 .. 15, w \in Words : step[<<n, w>>] = P!Round(w, keys[n])
  OBVIOUS
<1> HIDE DEF step
<1>3. f[0] = P!Initial(block) /\ \A n \in 0 .. 15 : f[n + 1] = step[<<n, f[n]>>]
  BY <1>1 DEF Begins
<1>4. 0 \in T
  BY <1>3
<1>5. ASSUME NEW n \in Nat, n \in T PROVE n + 1 \in T
  <2> SUFFICES ASSUME n + 1 <= 16 PROVE f[n + 1] \in Words
    OBVIOUS
  <2>1. n \in 0 .. 15 /\ f[n] \in Words
    BY <1>5
  <2>2. f[n + 1] = P!Round(f[n], keys[n])
    BY <1>2, <1>3, <2>1
  <2> QED
    BY <2>1, <2>2, RoundIsAWord
<1> HIDE DEF T
<1>6. Nat \subseteq T
  BY <1>4, <1>5, Induction
<1>7. \A n \in 0 .. 16 : g[n] = IF n = 0 THEN P!Initial(block) ELSE P!Round(g[n - 1], keys[n - 1])
  <2> SUFFICES ASSUME NEW n \in 0 .. 16 PROVE g[n] = IF n = 0 THEN P!Initial(block) ELSE P!Round(g[n - 1], keys[n - 1])
    OBVIOUS
  <2>1. CASE n = 0
    BY <1>3, <2>1
  <2>2. CASE n # 0
    <3>1. n - 1 \in 0 .. 15 /\ n - 1 \in Nat /\ (n - 1) + 1 = n
      BY <2>2
    <3>2. f[n - 1] \in Words
      BY <1>6, <3>1 DEF T
    <3>3. f[n] = P!Round(f[n - 1], keys[n - 1])
      BY <1>2, <1>3, <3>1, <3>2
    <3> QED
      BY <2>2, <3>1, <3>3
  <2> QED
    BY <2>1, <2>2
<1>8. g = [n \in 0 .. 16 |-> g[n]]
  OBVIOUS
<1> HIDE DEF g
<1>9. g = [n \in 0 .. 16 |-> IF n = 0 THEN P!Initial(block) ELSE P!Round(g[n - 1], keys[n - 1])]
  BY <1>7, <1>8
<1> QED
  BY <1>9

LEMMA DesfuncIs ==
  ASSUME NEW block, P!Initial(block) \in Words, NEW keys
  PROVE  \E f : GoesThrough(f, block, keys) /\ P!desfunc(block, keys) = P!Final(f[16])
<1> DEFINE Eq(g) == g = [n \in 0 .. 16 |-> IF n = 0 THEN P!Initial(block) ELSE P!Round(g[n - 1], keys[n - 1])]
           f == CHOOSE g : Eq(g)
<1>1. Eq(f)
  <2>1. \E g : Eq(g)
    BY RoundsExist
  <2> HIDE DEF Eq
  <2> QED
    BY <2>1
<1>2. P!desfunc(block, keys) = P!Final(f[16])
  BY DEF P!desfunc
<1> HIDE DEF f
<1>3. f[0] = P!Initial(block)
  BY <1>1
<1>4. ASSUME NEW n \in 0 .. 15 PROVE f[n + 1] = P!Round(f[n], keys[n])
  <2>1. n + 1 \in 0 .. 16 /\ n + 1 # 0 /\ (n + 1) - 1 = n
    OBVIOUS
  <2> QED
    BY <1>1, <2>1
<1>5. GoesThrough(f, block, keys)
  BY <1>3, <1>4 DEF GoesThrough
<1> QED
  BY <1>2, <1>5

LEMMA AllAreWords ==
  ASSUME NEW block, P!Initial(block) \in Words, NEW keys, NEW f, GoesThrough(f, block, keys)
  PROVE  \A n \in 0 .. 16 : f[n] \in Words
<1> DEFINE T == {n \in Nat : n <= 16 => f[n] \in Words}
<1>1. 0 \in T
  BY DEF GoesThrough
<1>2. ASSUME NEW n \in Nat, n \in T PROVE n + 1 \in T
  <2> SUFFICES ASSUME n + 1 <= 16 PROVE f[n + 1] \in Words
    OBVIOUS
  <2>1. n \in 0 .. 15 /\ f[n] \in Words
    BY <1>2
  <2>2. f[n + 1] = P!Round(f[n], keys[n])
    BY <2>1 DEF GoesThrough
  <2> QED
    BY <2>1, <2>2, RoundIsAWord
<1> HIDE DEF T
<1>3. Nat \subseteq T
  BY <1>1, <1>2, Induction
<1> QED
  BY <1>3 DEF T

(* The rounds with the keys in the opposite order go back through the same  *)
(* halves.                                                                  *)
LEMMA RoundsUndone ==
  ASSUME Wide, NEW block \in Words, NEW keys, NEW opposite, \A n \in 0 .. 15 : opposite[n] = keys[15 - n]
  PROVE  /\ P!desfunc(block, keys) \in WideWords
         /\ Low(P!desfunc(Low(P!desfunc(block, keys)), opposite)) = block
<1>1. PICK f : GoesThrough(f, block, keys) /\ P!desfunc(block, keys) = P!Final(f[16])
  BY FinalUndoesInitial, DesfuncIs
<1>2. \A n \in 0 .. 16 : f[n] \in Words
  BY <1>1, FinalUndoesInitial, AllAreWords
<1> DEFINE coded == Low(P!desfunc(block, keys))
<1>3. P!desfunc(block, keys) \in WideWords /\ coded = FinalLow(f[16])
  BY <1>1, <1>2, FinalIsLow
<1>4. coded \in Words /\ P!Initial(coded) = P!Turn(f[16])
  BY <1>2, <1>3, InitialUndoesFinal
<1> HIDE DEF coded
<1>5. P!Initial(coded) \in Words
  BY <1>4, FinalUndoesInitial
<1>6. PICK g : GoesThrough(g, coded, opposite) /\ P!desfunc(coded, opposite) = P!Final(g[16])
  BY <1>5, DesfuncIs
<1> DEFINE T == {n \in Nat : n <= 16 => g[n] = P!Turn(f[16 - n])}
<1>7. 0 \in T
  BY <1>4, <1>6 DEF GoesThrough
<1>8. ASSUME NEW n \in Nat, n \in T PROVE n + 1 \in T
  <2> SUFFICES ASSUME n + 1 <= 16 PROVE g[n + 1] = P!Turn(f[16 - (n + 1)])
    OBVIOUS
  <2> DEFINE m == 15 - n
  <2>1. n \in 0 .. 15 /\ m \in 0 .. 15 /\ m \in 0 .. 16 /\ m + 1 = 16 - n /\ 16 - (n + 1) = m /\ g[n] = P!Turn(f[16 - n])
    BY <1>8
  <2>2. opposite[n] = keys[m]
    BY <2>1
  <2> HIDE DEF m
  <2>3. g[n + 1] = P!Round(g[n], opposite[n])
    BY <1>6, <2>1 DEF GoesThrough
  <2>4. f[m + 1] = P!Round(f[m], keys[m])
    BY <1>1, <2>1 DEF GoesThrough
  <2>5. P!Round(P!Turn(P!Round(f[m], keys[m])), keys[m]) = P!Turn(f[m])
    BY <1>2, <2>1, RoundIsAWord
  <2> QED
    BY <2>1, <2>2, <2>3, <2>4, <2>5
<1> HIDE DEF T
<1>9. Nat \subseteq T
  BY <1>7, <1>8, Induction
<1>10. g[16] = P!Turn(f[0])
  BY <1>9 DEF T
<1>11. g[16] \in Words /\ g[16] = P!Turn(P!Initial(block))
  BY <1>1, <1>10, TurnIs, FinalUndoesInitial DEF GoesThrough
<1>12. Low(P!desfunc(coded, opposite)) = FinalLow(P!Turn(P!Initial(block)))
  BY <1>6, <1>11, FinalIsLow
<1> QED
  BY <1>3, <1>12, FinalUndoesInitial DEF coded

LEMMA KeysAreOpposite ==
  ASSUME NEW key
  PROVE  /\ \A m \in 0 .. 15 : P!deskey(key, "DE1")[m] = P!deskey(key, "EN0")[15 - m]
         /\ \A m \in 0 .. 15 : P!deskey(key, "EN0")[m] = P!deskey(key, "DE1")[15 - m]
<1> DEFINE schedule(n) ==
     P!cookey({23 - j : j \in {k \in 0 .. 23 : P!pc2[k + 1] \in P!Rotated(key, n)}},
              {23 - j : j \in {k \in 0 .. 23 : P!pc2[k + 25] \in P!Rotated(key, n)}})
<1>1. \A m \in 0 .. 15 : P!deskey(key, "DE1")[m] = schedule(15 - m)
  BY DEF P!deskey
<1>2. \A m \in 0 .. 15 : P!deskey(key, "EN0")[m] = schedule(m)
  BY DEF P!deskey
<1> HIDE DEF schedule
<1>3. \A m \in 0 .. 15 : 15 - m \in 0 .. 15 /\ 15 - (15 - m) = m
  OBVIOUS
<1> QED
  BY <1>1, <1>2, <1>3

LEMMA FunctionIsSequence == ASSUME NEW T, NEW n \in Nat, NEW u \in [1 .. n -> T] PROVE u \in Seq(T) /\ Len(u) = n
<1>1. [j \in 1 .. n |-> u[j]] \in Seq(T)
  OBVIOUS
<1>2. Len([j \in 1 .. n |-> u[j]]) = n
  OBVIOUS
<1> QED
  BY <1>1, <1>2

LEMMA TwoFours ==
  ASSUME NEW T, NEW a \in [1 .. 4 -> T], NEW b \in [1 .. 4 -> T]
  PROVE  /\ a \o b \in [1 .. 8 -> T] /\ Len(a \o b) = 8
         /\ \A j \in 1 .. 4 : (a \o b)[j] = a[j] /\ (a \o b)[j + 4] = b[j]
<1>1. a \in Seq(T) /\ b \in Seq(T) /\ Len(a) = 4 /\ Len(b) = 4
  BY FunctionIsSequence
<1>2. /\ a \o b \in Seq(T)
      /\ Len(a \o b) = Len(a) + Len(b)
      /\ \A j \in 1 .. Len(a) + Len(b) : (a \o b)[j] = IF j <= Len(a) THEN a[j] ELSE b[j - Len(a)]
  BY <1>1, ConcatProperties
<1>3. a \o b \in [1 .. Len(a \o b) -> T]
  BY <1>2, LenProperties
<1>4. Len(a \o b) = 8
  BY <1>1, <1>2
<1>5. \A j \in 1 .. 8 : (a \o b)[j] = IF j <= 4 THEN a[j] ELSE b[j - 4]
  BY <1>1, <1>2
<1>6. \A j \in 1 .. 4 : j \in 1 .. 8 /\ j <= 4 /\ j + 4 \in 1 .. 8 /\ ~(j + 4 <= 4) /\ (j + 4) - 4 = j
  OBVIOUS
<1> QED
  BY <1>3, <1>4, <1>5, <1>6

(* Eight bytes, and the two words that they are                             *)
Block == [1 .. 8 -> SUBSET (0 .. 7)]
Scrunched(block) == <<P!scrunch(block, 1), P!scrunch(block, 5)>>

(* A word is its four bytes, the first one on top.                          *)
LEMMA ScrunchBits ==
  ASSUME NEW block, NEW from \in Int, \A j \in 0 .. 3 : block[from + j] \subseteq 0 .. 7
  PROVE  /\ P!scrunch(block, from) \in Word
         /\ \A j \in 0 .. 3, b \in 0 .. 7 : b + 8 * (3 - j) \in P!scrunch(block, from) <=> b \in block[from + j]
<1>1. \A x : x \in P!scrunch(block, from) <=> \E j \in 0 .. 3 : \E b \in block[from + j] : x = b + 8 * (3 - j)
  <2>1. \A x : x \in P!scrunch(block, from) <=> \E j \in 0 .. 3 : x \in {b + 8 * (3 - j) : b \in block[from + j]}
    BY DEF P!scrunch
  <2>2. \A x : \A j \in 0 .. 3 : x \in {b + 8 * (3 - j) : b \in block[from + j]} <=> \E b \in block[from + j] : x = b + 8 * (3 - j)
    OBVIOUS
  <2> QED
    BY <2>1, <2>2
<1>2. P!scrunch(block, from) \subseteq 0 .. 31
  <2> SUFFICES ASSUME NEW j \in 0 .. 3, NEW b \in 0 .. 7 PROVE b + 8 * (3 - j) \in 0 .. 31
    BY <1>1
  <2> QED
    OBVIOUS
<1>3. ASSUME NEW j \in 0 .. 3, NEW b \in 0 .. 7, b + 8 * (3 - j) \in P!scrunch(block, from) PROVE b \in block[from + j]
  <2>0. PICK n \in 0 .. 3 : \E e \in block[from + n] : b + 8 * (3 - j) = e + 8 * (3 - n)
    BY <1>1, <1>3
  <2>1. PICK e \in block[from + n] : b + 8 * (3 - j) = e + 8 * (3 - n)
    BY <2>0
  <2>2. e \in 0 .. 7
    OBVIOUS
  <2>3. n = j /\ e = b
    BY <2>1, <2>2
  <2> QED
    BY <2>3
<1> QED
  BY <1>1, <1>2, <1>3 DEF Word

LEMMA UnscrunBits ==
  ASSUME Wide, NEW w \in SUBSET Int
  PROVE  /\ P!unscrun(w) \in [1 .. 4 -> SUBSET (0 .. 7)]
         /\ Len(P!unscrun(w)) = 4 /\ P!unscrun(w) \in Seq(SUBSET (0 .. 7))
         /\ \A j \in 1 .. 4, b \in 0 .. 7 : b \in P!unscrun(w)[j] <=> b + 8 * (4 - j) \in w
<1>1. ASSUME NEW j \in 1 .. 4, NEW b \in 0 .. 7
      PROVE  b \in P!unscrun(w)[j] <=> b + 8 * (4 - j) \in w
  <2> DEFINE n == 8 * (4 - j)
  <2>0. n \in Int
    OBVIOUS
  <2>1. P!unscrun(w)[j] = P!Right(w, n) \cap (0 .. 7)
    BY DEF P!unscrun
  <2> HIDE DEF n
  <2>2. b \in P!Right(w, n) <=> b \in 0 .. LongBits - 1 /\ b + n \in w
    BY <2>0, RightBits
  <2>3. b \in 0 .. LongBits - 1
    BY DEF Wide
  <2> QED
    BY <2>1, <2>2, <2>3 DEF n
<1>2. P!unscrun(w) \in [1 .. 4 -> SUBSET (0 .. 7)]
  BY DEF P!unscrun
<1>3. Len(P!unscrun(w)) = 4 /\ P!unscrun(w) \in Seq(SUBSET (0 .. 7))
  <2>1. \A T : \A u \in [1 .. 4 -> T] : u \in Seq(T) /\ Len(u) = 4
    BY FunctionIsSequence
  <2> QED
    BY <1>2, <2>1, Zenon
<1> QED
  BY <1>1, <1>2, <1>3

LEMMA BytesAre ==
  ASSUME Wide, NEW p \in WideWords
  PROVE  /\ P!Bytes(p) \in Block /\ Len(P!Bytes(p)) = 8
         /\ \A j \in 1 .. 4 : P!Bytes(p)[j] = P!unscrun(p[1])[j] /\ P!Bytes(p)[j + 4] = P!unscrun(p[2])[j]
<1> DEFINE a == P!unscrun(p[1])
           b == P!unscrun(p[2])
<1>1. /\ a \in [1 .. 4 -> SUBSET (0 .. 7)] /\ Len(a) = 4 /\ a \in Seq(SUBSET (0 .. 7))
      /\ b \in [1 .. 4 -> SUBSET (0 .. 7)] /\ Len(b) = 4 /\ b \in Seq(SUBSET (0 .. 7))
  BY UnscrunBits DEF WideWords
<1>2. P!Bytes(p) = a \o b
  BY DEF P!Bytes
<1> HIDE DEF a, b
<1>3. /\ a \o b \in [1 .. 8 -> SUBSET (0 .. 7)] /\ Len(a \o b) = 8
      /\ \A j \in 1 .. 4 : (a \o b)[j] = a[j] /\ (a \o b)[j + 4] = b[j]
  BY <1>1, TwoFours
<1> QED
  BY <1>2, <1>3 DEF a, b, Block

LEMMA BlockOfWords ==
  ASSUME Wide, NEW p \in WideWords
  PROVE  Scrunched(P!Bytes(p)) = Low(p) /\ P!Bytes(p) = P!Bytes(Low(p)) /\ Low(p) \in Words
<1>1. /\ P!Bytes(p) \in Block /\ Len(P!Bytes(p)) = 8
      /\ \A j \in 1 .. 4 : P!Bytes(p)[j] = P!unscrun(p[1])[j] /\ P!Bytes(p)[j + 4] = P!unscrun(p[2])[j]
  BY BytesAre
<1>2. Low(p) \in Words /\ Low(p) \in WideWords
  BY DEF Low, Words, Word, WideWords
<1>3. ASSUME NEW w \in SUBSET Int, NEW from \in {1, 5}, NEW block \in Block,
             \A j \in 1 .. 4 : block[from + (j - 1)] = P!unscrun(w)[j]
      PROVE  P!scrunch(block, from) = w \cap (0 .. 31)
  <2>1. \A j \in 0 .. 3 : block[from + j] = P!unscrun(w)[j + 1]
    BY <1>3
  <2>2. \A j \in 0 .. 3 : block[from + j] \subseteq 0 .. 7
    BY DEF Block
  <2>3. /\ P!scrunch(block, from) \in Word
        /\ \A j \in 0 .. 3, b \in 0 .. 7 : b + 8 * (3 - j) \in P!scrunch(block, from) <=> b \in block[from + j]
    BY <2>2, ScrunchBits
  <2>4. \A j \in 0 .. 3, b \in 0 .. 7 : b \in block[from + j] <=> b + 8 * (3 - j) \in w
    <3>1. \A j \in 1 .. 4, b \in 0 .. 7 : b \in P!unscrun(w)[j] <=> b + 8 * (4 - j) \in w
      BY UnscrunBits
    <3>2. \A j \in 0 .. 3 : j + 1 \in 1 .. 4 /\ 4 - (j + 1) = 3 - j
      OBVIOUS
    <3> QED
      BY <2>1, <3>1, <3>2
  <2>5. ASSUME NEW x \in 0 .. 31 PROVE x \in P!scrunch(block, from) <=> x \in w
    <3> DEFINE j == 3 - (x \div 8)
               b == x % 8
    <3>1. j \in 0 .. 3 /\ b \in 0 .. 7 /\ x = b + 8 * (3 - j)
      OBVIOUS
    <3> HIDE DEF j, b
    <3> QED
      BY <2>3, <2>4, <3>1
  <2> QED
    BY <2>3, <2>5 DEF Word
<1>4. P!scrunch(P!Bytes(p), 1) = p[1] \cap (0 .. 31)
  <2>1. \A j \in 1 .. 4 : P!Bytes(p)[1 + (j - 1)] = P!unscrun(p[1])[j]
    BY <1>1
  <2> QED
    BY <1>1, <1>3, <2>1 DEF WideWords
<1>5. P!scrunch(P!Bytes(p), 5) = p[2] \cap (0 .. 31)
  <2>1. \A j \in 1 .. 4 : 5 + (j - 1) = j + 4
    OBVIOUS
  <2>2. \A j \in 1 .. 4 : P!Bytes(p)[5 + (j - 1)] = P!unscrun(p[2])[j]
    BY <1>1, <2>1
  <2> QED
    BY <1>1, <1>3, <2>2 DEF WideWords
<1>6. ASSUME NEW w \in SUBSET Int PROVE P!unscrun(w \cap (0 .. 31)) = P!unscrun(w)
  <2>1. w \cap (0 .. 31) \in SUBSET Int
    OBVIOUS
  <2>2. \A j \in 1 .. 4, b \in 0 .. 7 : b + 8 * (4 - j) \in 0 .. 31
    OBVIOUS
  <2>3. \A j \in 1 .. 4, b \in 0 .. 7 : b \in P!unscrun(w \cap (0 .. 31))[j] <=> b \in P!unscrun(w)[j]
    BY <2>1, <2>2, UnscrunBits
  <2>4. P!unscrun(w \cap (0 .. 31)) \in [1 .. 4 -> SUBSET (0 .. 7)] /\ P!unscrun(w) \in [1 .. 4 -> SUBSET (0 .. 7)]
    BY <2>1, UnscrunBits
  <2>5. \A j \in 1 .. 4 : P!unscrun(w \cap (0 .. 31))[j] = P!unscrun(w)[j]
    BY <2>3, <2>4
  <2> QED
    BY <2>4, <2>5
<1>7. P!Bytes(p) = P!Bytes(Low(p))
  <2>1. p[1] \in SUBSET Int /\ p[2] \in SUBSET Int
    BY DEF WideWords
  <2> QED
    BY <1>6, <2>1 DEF P!Bytes, Low
<1> QED
  BY <1>2, <1>4, <1>5, <1>7 DEF Scrunched, Low

LEMMA WordsOfBlock ==
  ASSUME Wide, NEW block \in Block
  PROVE  Scrunched(block) \in Words /\ P!Bytes(Scrunched(block)) = block
<1>1. \A from \in {1, 5}, j \in 0 .. 3 : from + j \in 1 .. 8
  OBVIOUS
<1>2. \A from \in {1, 5} : \A j \in 0 .. 3 : block[from + j] \subseteq 0 .. 7
  BY <1>1 DEF Block
<1>3. \A from \in {1, 5} :
        /\ P!scrunch(block, from) \in Word
        /\ \A j \in 0 .. 3, b \in 0 .. 7 : b + 8 * (3 - j) \in P!scrunch(block, from) <=> b \in block[from + j]
  BY <1>2, ScrunchBits
<1>4. Scrunched(block) \in Words
  BY <1>3 DEF Scrunched, Words
<1> DEFINE p == Scrunched(block)
<1>5. p \in WideWords
  BY <1>4, WordsAreWide
<1>6. p[1] = P!scrunch(block, 1) /\ p[2] = P!scrunch(block, 5)
  BY DEF Scrunched
<1> HIDE DEF p
<1>7. /\ P!Bytes(p) \in Block
      /\ \A j \in 1 .. 4 : P!Bytes(p)[j] = P!unscrun(p[1])[j] /\ P!Bytes(p)[j + 4] = P!unscrun(p[2])[j]
  BY <1>5, BytesAre
<1>8. ASSUME NEW from \in {1, 5}, NEW j \in 1 .. 4
      PROVE  P!unscrun(P!scrunch(block, from))[j] = block[from + (j - 1)]
  <2>1. P!scrunch(block, from) \in SUBSET Int
    BY <1>3 DEF Word
  <2>2. \A b \in 0 .. 7 : b \in P!unscrun(P!scrunch(block, from))[j] <=> b + 8 * (4 - j) \in P!scrunch(block, from)
    BY <2>1, UnscrunBits
  <2>3. j - 1 \in 0 .. 3 /\ 3 - (j - 1) = 4 - j
    OBVIOUS
  <2>4. \A b \in 0 .. 7 : b \in P!unscrun(P!scrunch(block, from))[j] <=> b \in block[from + (j - 1)]
    BY <1>3, <2>2, <2>3
  <2>5. P!unscrun(P!scrunch(block, from))[j] \subseteq 0 .. 7
    BY <2>1, UnscrunBits
  <2>6. block[from + (j - 1)] \subseteq 0 .. 7
    BY <1>2, <2>3
  <2> QED
    BY <2>4, <2>5, <2>6
<1>9. \A x \in 1 .. 8 : P!Bytes(p)[x] = block[x]
  <2> SUFFICES ASSUME NEW x \in 1 .. 8 PROVE P!Bytes(p)[x] = block[x]
    OBVIOUS
  <2>1. CASE x <= 4
    <3>1. x \in 1 .. 4 /\ 1 + (x - 1) = x
      BY <2>1
    <3> QED
      BY <1>6, <1>7, <1>8, <3>1
  <2>2. CASE x > 4
    <3> DEFINE j == x - 4
    <3>1. j \in 1 .. 4 /\ j + 4 = x /\ 5 + (j - 1) = x
      BY <2>2
    <3> HIDE DEF j
    <3>2. P!Bytes(p)[j + 4] = P!unscrun(p[2])[j]
      BY <1>7, <3>1
    <3>3. P!unscrun(P!scrunch(block, 5))[j] = block[5 + (j - 1)]
      BY <1>8, <3>1
    <3> QED
      BY <1>6, <3>1, <3>2, <3>3
  <2> QED
    BY <2>1, <2>2
<1>10. P!Bytes(p) = block
  BY <1>7, <1>9 DEF Block
<1> QED
  BY <1>4, <1>10 DEF p

LEMMA DesUndone ==
  ASSUME Wide, NEW block \in Block, NEW keys, NEW opposite, \A n \in 0 .. 15 : opposite[n] = keys[15 - n]
  PROVE  P!des(block, keys) \in Block /\ Len(P!des(block, keys)) = 8 /\ P!des(P!des(block, keys), opposite) = block
<1> DEFINE p == Scrunched(block)
           coded == P!desfunc(p, keys)
           back == P!desfunc(Low(coded), opposite)
<1>1. p \in Words /\ P!Bytes(p) = block
  BY WordsOfBlock
<1>2. P!des(block, keys) = P!Bytes(coded)
  BY DEF P!des, Scrunched
<1>3. P!des(P!Bytes(coded), opposite) = P!Bytes(P!desfunc(Scrunched(P!Bytes(coded)), opposite))
  BY DEF P!des, Scrunched
<1> HIDE DEF p
<1>4. coded \in WideWords /\ Low(back) = p
  BY <1>1, RoundsUndone
<1> HIDE DEF coded
<1>5. Scrunched(P!Bytes(coded)) = Low(coded) /\ Low(coded) \in Words
  BY <1>4, BlockOfWords
<1>6. \A n \in 0 .. 15 : keys[n] = opposite[15 - n]
  <2>1. \A n \in 0 .. 15 : 15 - n \in 0 .. 15 /\ 15 - (15 - n) = n
    OBVIOUS
  <2> QED
    BY <2>1
<1>7. back \in WideWords
  BY <1>5, <1>6, RoundsUndone
<1> HIDE DEF back
<1>8. P!Bytes(back) = P!Bytes(p)
  BY <1>4, <1>7, BlockOfWords
<1>9. P!Bytes(coded) \in Block /\ Len(P!Bytes(coded)) = 8
  BY <1>4, BytesAre
<1> QED
  BY <1>1, <1>2, <1>3, <1>5, <1>8, <1>9 DEF back

(* The cipher of d3des.c: whatever the key is, of which it uses 56 bits, a  *)
(* block that has been encrypted is decrypted to itself, and the other way  *)
(* round.                                                                   *)
THEOREM CipherIsUndone ==
  ASSUME Wide, NEW key, NEW block \in Block
  PROVE  /\ P!des(P!des(block, P!deskey(key, "EN0")), P!deskey(key, "DE1")) = block
         /\ P!des(P!des(block, P!deskey(key, "DE1")), P!deskey(key, "EN0")) = block
<1>1. P!des(P!des(block, P!deskey(key, "EN0")), P!deskey(key, "DE1")) = block
  BY KeysAreOpposite, DesUndone
<1>2. P!des(P!des(block, P!deskey(key, "DE1")), P!deskey(key, "EN0")) = block
  BY KeysAreOpposite, DesUndone
<1> QED
  BY <1>1, <1>2

-----------------------------------------------------------------------------
(* Bytes and lines of them *)
Bytes8 == SUBSET (0 .. 7)
Line == Seq(Bytes8 \ {P!NUL})

LEMMA PaddedIsABlock == ASSUME NEW p \in Line PROVE P!Padded(p) \in Block
<1>1. \A j \in 1 .. 8 : (IF j <= Len(p) THEN p[j] ELSE P!NUL) \in Bytes8
  <2> SUFFICES ASSUME NEW j \in 1 .. 8 PROVE (IF j <= Len(p) THEN p[j] ELSE P!NUL) \in Bytes8
    OBVIOUS
  <2>1. CASE j <= Len(p)
    <3>1. Len(p) \in Nat
      BY LenProperties DEF Line
    <3>2. j \in 1 .. Len(p)
      BY <2>1, <3>1
    <3>3. p[j] \in Bytes8 \ {P!NUL}
      BY <3>2, ElementOfSeq DEF Line
    <3> QED
      BY <2>1, <3>3
  <2>2. CASE ~(j <= Len(p))
    BY <2>2 DEF P!NUL, Bytes8
  <2> QED
    BY <2>1, <2>2
<1> QED
  BY <1>1 DEF P!Padded, Block, Bytes8

(* The string in the bytes of a password is the password.                   *)
LEMMA StringOfPadded == ASSUME NEW p \in Line, Len(p) <= 8 PROVE P!String(P!Padded(p)) = p
<1> DEFINE bytes == P!Padded(p)
           nuls == {j \in 1 .. 8 : bytes[j] = P!NUL}
           end == IF nuls = {} THEN 8 ELSE (CHOOSE j \in nuls : \A k \in nuls : j <= k) - 1
<1>0. Len(p) \in Nat /\ p \in Seq(Bytes8 \ {P!NUL})
  BY LenProperties DEF Line
<1>1. \A j \in 1 .. 8 : bytes[j] = IF j <= Len(p) THEN p[j] ELSE P!NUL
  BY DEF P!Padded
<1>2. \A j \in 1 .. Len(p) : p[j] \in Bytes8 \ {P!NUL}
  BY <1>0, ElementOfSeq
<1>3. P!String(P!Padded(p)) = SubSeq(bytes, 1, end)
  BY DEF P!String
<1> HIDE DEF bytes
<1>4. \A j \in 1 .. 8 : j \in nuls <=> j > Len(p)
  <2> SUFFICES ASSUME NEW j \in 1 .. 8 PROVE bytes[j] = P!NUL <=> j > Len(p)
    OBVIOUS
  <2>1. CASE j <= Len(p)
    <3>1. j \in 1 .. Len(p)
      BY <1>0, <2>1
    <3> QED
      BY <1>0, <1>1, <1>2, <2>1, <3>1
  <2>2. CASE ~(j <= Len(p))
    BY <1>0, <1>1, <2>2
  <2> QED
    BY <2>1, <2>2
<1>5. end = Len(p)
  <2>0. nuls \subseteq 1 .. 8
    OBVIOUS
  <2> HIDE DEF nuls
  <2>1. CASE Len(p) = 8
    <3>1. nuls = {}
      BY <1>4, <2>0, <2>1
    <3> QED
      BY <2>1, <3>1
  <2>2. CASE Len(p) < 8
    <3> DEFINE m == Len(p) + 1
    <3>1. m \in nuls /\ \A k \in nuls : m <= k
      BY <1>0, <1>4, <2>0, <2>2
    <3>2. \A j \in nuls : (\A k \in nuls : j <= k) => j = m
      BY <1>0, <2>0, <3>1
    <3>3. (CHOOSE j \in nuls : \A k \in nuls : j <= k) = m
      <4> HIDE DEF m
      <4> QED
        BY <3>1, <3>2
    <3>4. nuls # {}
      BY <3>1
    <3>5. end = m - 1
      <4> HIDE DEF m
      <4> QED
        BY <3>3, <3>4
    <3> HIDE DEF end
    <3> QED
      BY <1>0, <3>5
  <2>3. Len(p) = 8 \/ Len(p) < 8
    <3>1. \A x \in Nat : x <= 8 => x = 8 \/ x < 8
      OBVIOUS
    <3> QED
      BY <1>0, <3>1, Zenon
  <2> QED
    BY <2>1, <2>2, <2>3, Zenon
<1> HIDE DEF end, nuls
<1> DEFINE n == Len(p)
<1>6. \A j \in 1 .. n : bytes[j] \in Bytes8 \ {P!NUL}
  BY <1>0, <1>1, <1>2
<1>7. n \in Int /\ n \in Nat
  BY <1>0
<1> HIDE DEF n
<1>8. /\ SubSeq(bytes, 1, n) \in Seq(Bytes8 \ {P!NUL})
      /\ Len(SubSeq(bytes, 1, n)) = IF 1 <= n THEN n - 1 + 1 ELSE 0
      /\ \A j \in 1 .. n - 1 + 1 : SubSeq(bytes, 1, n)[j] = bytes[1 + j - 1]
  BY <1>6, <1>7, SubSeqProperties
<1>9. Len(SubSeq(bytes, 1, n)) = n
  BY <1>7, <1>8
<1>10. \A j \in 1 .. n : SubSeq(bytes, 1, n)[j] = p[j]
  <2> SUFFICES ASSUME NEW j \in 1 .. n PROVE SubSeq(bytes, 1, n)[j] = p[j]
    OBVIOUS
  <2>1. j \in 1 .. n - 1 + 1 /\ 1 + j - 1 = j
    BY <1>7
  <2>2. SubSeq(bytes, 1, n)[j] = bytes[j]
    BY <1>8, <2>1
  <2>3. j \in 1 .. 8 /\ j <= Len(p)
    BY <1>7 DEF n
  <2> QED
    BY <1>1, <2>2, <2>3
<1>11. SubSeq(bytes, 1, n) = p
  BY <1>0, <1>8, <1>9, <1>10, SeqEqual DEF n
<1> QED
  BY <1>3, <1>5, <1>11 DEF n

(* The entries of pc1 are places of bits, none of them the top bit of a     *)
(* byte.                                                                    *)
LEMMA TopBitsUnused == \A n \in 1 .. 56 : P!pc1[n] \in 0 .. 63 /\ P!pc1[n] % 8 # 7
<1>1. \A n \in 1 .. 28 : P!pc1[n] \in 0 .. 63 /\ P!pc1[n] % 8 # 7
  BY DEF P!pc1
<1>2. \A n \in 29 .. 56 : P!pc1[n] \in 0 .. 63 /\ P!pc1[n] % 8 # 7
  BY DEF P!pc1
<1> QED
  BY <1>1, <1>2

LEMMA SameRotated ==
  ASSUME NEW a, NEW b, \A j \in 1 .. 8 : a[j] \ {7} = b[j] \ {7}
  PROVE  \A n \in 0 .. 15 : P!Rotated(a, n) = P!Rotated(b, n)
<1> SUFFICES ASSUME NEW n \in 0 .. 15 PROVE P!Rotated(a, n) = P!Rotated(b, n)
  OBVIOUS
<1>1. P!totrot[n + 1] \in Nat
  BY DEF P!totrot
<1> DEFINE r == P!totrot[n + 1]
           l(j) == P!pc1[28 * (j \div 28) + ((j - 28 * (j \div 28) + r) % 28) + 1]
<1>2. P!Rotated(a, n) = {j \in 0 .. 55 : l(j) % 8 \in a[l(j) \div 8 + 1]}
  BY DEF P!Rotated
<1>3. P!Rotated(b, n) = {j \in 0 .. 55 : l(j) % 8 \in b[l(j) \div 8 + 1]}
  BY DEF P!Rotated
<1>4. ASSUME NEW j \in 0 .. 55 PROVE l(j) \in 0 .. 63 /\ l(j) % 8 # 7
  <2> DEFINE x == 28 * (j \div 28) + ((j - 28 * (j \div 28) + r) % 28) + 1
  <2>1. x \in 1 .. 56
    <3>0. r \in Nat
      BY <1>1
    <3> HIDE DEF r
    <3> DEFINE h == 28 * (j \div 28)
               q == (j - h + r) % 28
    <3>1. h \in {0, 28}
      OBVIOUS
    <3> HIDE DEF h
    <3>2. q \in 0 .. 27
      BY <3>0, <3>1
    <3>3. x = h + q + 1
      BY DEF h
    <3> HIDE DEF q, x
    <3> QED
      BY <3>1, <3>2, <3>3
  <2> HIDE DEF x
  <2>2. P!pc1[x] \in 0 .. 63 /\ P!pc1[x] % 8 # 7
    BY <2>1, TopBitsUnused
  <2> QED
    BY <2>2 DEF x
<1> HIDE DEF l
<1>5. ASSUME NEW j \in 0 .. 55 PROVE l(j) % 8 \in a[l(j) \div 8 + 1] <=> l(j) % 8 \in b[l(j) \div 8 + 1]
  <2> DEFINE x == l(j) % 8
             y == l(j) \div 8 + 1
  <2>1. x # 7 /\ y \in 1 .. 8
    BY <1>4
  <2> HIDE DEF x, y
  <2>2. x \in a[y] <=> x \in b[y]
    BY <2>1
  <2> QED
    BY <2>2 DEF x, y
<1> QED
  BY <1>2, <1>3, <1>5

(* Passwords that make the same key give the same response.                 *)
LEMMA SameResponse ==
  ASSUME NEW a, NEW b, P!SameKey(a, b), NEW bytes
  PROVE  P!vncAuthEncryptChallenge(bytes, a) = P!vncAuthEncryptChallenge(bytes, b)
<1>1. \A n \in 0 .. 15 : P!Rotated(P!Padded(a), n) = P!Rotated(P!Padded(b), n)
  BY SameRotated DEF P!SameKey
<1>2. P!deskey(P!Padded(a), "EN0") = P!deskey(P!Padded(b), "EN0")
  BY <1>1 DEF P!deskey
<1> QED
  BY <1>2 DEF P!vncAuthEncryptChallenge

(* A password is found again in what the file keeps of it.                  *)
LEMMA PasswordFound ==
  ASSUME Wide, NEW p \in Line, Len(p) <= 8
  PROVE  /\ P!vncAuthObfuscatePasswd(p) \in Block /\ Len(P!vncAuthObfuscatePasswd(p)) = 8
         /\ P!vncAuthUnobfuscatePasswd(P!vncAuthObfuscatePasswd(p)) = p
<1> DEFINE bytes == P!Padded(p)
           en == P!deskey(P!obfuscationKey, "EN0")
           de == P!deskey(P!obfuscationKey, "DE1")
<1>1. bytes \in Block
  BY PaddedIsABlock
<1>2. P!des(bytes, en) \in Block /\ Len(P!des(bytes, en)) = 8 /\ P!des(P!des(bytes, en), de) = bytes
  <2>1. \A n \in 0 .. 15 : de[n] = en[15 - n]
    BY KeysAreOpposite
  <2> HIDE DEF bytes, en, de
  <2> QED
    BY <1>1, <2>1, DesUndone
<1>3. P!vncAuthObfuscatePasswd(p) = P!des(bytes, en)
  BY DEF P!vncAuthObfuscatePasswd
<1>4. P!vncAuthUnobfuscatePasswd(P!des(bytes, en)) = P!String(P!des(P!des(bytes, en), de))
  BY DEF P!vncAuthUnobfuscatePasswd
<1> HIDE DEF en, de
<1> QED
  BY <1>2, <1>3, <1>4, StringOfPadded

LEMMA ResponseIs ==
  ASSUME Wide, NEW bytes \in [1 .. 16 -> Bytes8], NEW p
  PROVE  P!vncAuthEncryptChallenge(bytes, p) \in Seq(Bytes8) /\ Len(P!vncAuthEncryptChallenge(bytes, p)) = 16
<1> DEFINE keys == P!deskey(P!Padded(p), "EN0")
           a == SubSeq(bytes, 1, 8)
           b == SubSeq(bytes, 9, 16)
<1>0. \A n \in 0 .. 15 : P!deskey(P!Padded(p), "DE1")[n] = keys[15 - n]
  BY KeysAreOpposite
<1>1. P!vncAuthEncryptChallenge(bytes, p) = P!des(a, keys) \o P!des(b, keys)
  BY DEF P!vncAuthEncryptChallenge
<1>2. a \in Block /\ b \in Block
  <2>1. ASSUME NEW m \in {1, 9} PROVE SubSeq(bytes, m, m + 7) \in Block
    <3> DEFINE q == SubSeq(bytes, m, m + 7)
    <3>1. \A j \in m .. m + 7 : bytes[j] \in Bytes8
      OBVIOUS
    <3>2. q \in Seq(Bytes8) /\ Len(q) = IF m <= m + 7 THEN (m + 7) - m + 1 ELSE 0
      BY <3>1, SubSeqProperties
    <3> HIDE DEF q
    <3>0. (m + 7) - m + 1 = 8 /\ m <= m + 7
      OBVIOUS
    <3>3. q \in [1 .. Len(q) -> Bytes8] /\ Len(q) = 8
      BY <3>0, <3>2, LenProperties
    <3>4. q \in [1 .. 8 -> Bytes8]
      BY <3>3
    <3> QED
      BY <3>4 DEF q, Block, Bytes8
  <2>2. 1 + 7 = 8 /\ 9 + 7 = 16
    OBVIOUS
  <2>3. SubSeq(bytes, 1, 1 + 7) \in Block /\ SubSeq(bytes, 9, 9 + 7) \in Block
    BY <2>1
  <2> QED
    BY <2>2, <2>3
<1> HIDE DEF a, b, keys
<1>3. P!des(a, keys) \in Block /\ P!des(b, keys) \in Block /\ Len(P!des(a, keys)) = 8 /\ Len(P!des(b, keys)) = 8
  BY <1>0, <1>2, DesUndone
<1> DEFINE u == P!des(a, keys)
           v == P!des(b, keys)
<1>4. u \in Seq(Bytes8) /\ v \in Seq(Bytes8) /\ Len(u) = 8 /\ Len(v) = 8
  <2>1. \A w \in [1 .. 8 -> Bytes8] : w \in Seq(Bytes8)
    BY FunctionIsSequence
  <2> QED
    BY <1>3, <2>1 DEF Block, Bytes8
<1> HIDE DEF u, v
<1>5. u \o v \in Seq(Bytes8) /\ Len(u \o v) = Len(u) + Len(v)
  BY <1>4, ConcatProperties
<1> QED
  BY <1>1, <1>4, <1>5 DEF u, v

-----------------------------------------------------------------------------
(* The passwords that vncpasswd takes                                       *)
KeptPasswords == {P!Truncated(line) : line \in {l \in PasswordLines : Len(l) >= 6}}

LEMMA TruncatedIs ==
  ASSUME NEW line \in Line
  PROVE  /\ P!Truncated(line) \in Line
         /\ Len(P!Truncated(line)) = IF Len(line) > 8 THEN 8 ELSE Len(line)
         /\ Len(line) <= 8 => P!Truncated(line) = line
         /\ P!Padded(P!Truncated(line)) = P!Padded(line)
<1> DEFINE n == IF Len(line) > 8 THEN 8 ELSE Len(line)
           p == SubSeq(line, 1, n)
           T == Bytes8 \ {P!NUL}
<1>0. P!Truncated(line) = p
  BY DEF P!Truncated
<1>1. line \in Seq(T) /\ Len(line) \in Nat
  BY LenProperties DEF Line
<1>2. n \in 0 .. 8 /\ n <= Len(line)
  <2>1. \A x \in Nat : LET y == IF x > 8 THEN 8 ELSE x IN y \in 0 .. 8 /\ y <= x
    OBVIOUS
  <2> QED
    BY <1>1, <2>1, Zenon
<1>3. \A j \in 1 .. n : line[j] \in T
  <2>1. \A j \in 1 .. Len(line) : line[j] \in T
    BY <1>1, ElementOfSeq
  <2> HIDE DEF n
  <2> QED
    BY <1>1, <1>2, <2>1
<1>4. Len(line) <= 8 => p = line
  BY <1>1, SubSeqFull
<1> HIDE DEF n, T
<1>5. p \in Seq(T) /\ Len(p) = (IF 1 <= n THEN n - 1 + 1 ELSE 0) /\ \A j \in 1 .. n - 1 + 1 : p[j] = line[1 + j - 1]
  BY <1>2, <1>3, SubSeqProperties
<1> HIDE DEF p
<1>6. Len(p) = n
  BY <1>2, <1>5
<1>7. \A j \in 1 .. n : p[j] = line[j]
  <2>1. \A j \in 1 .. n : j \in 1 .. n - 1 + 1 /\ 1 + j - 1 = j
    BY <1>2
  <2> QED
    BY <1>5, <2>1
<1>8. \A j \in 1 .. 8 : j <= n <=> j <= Len(line)
  BY <1>1 DEF n
<1>9. \A j \in 1 .. 8 : (IF j <= Len(p) THEN p[j] ELSE P!NUL) = IF j <= Len(line) THEN line[j] ELSE P!NUL
  <2> SUFFICES ASSUME NEW j \in 1 .. 8
               PROVE  (IF j <= Len(p) THEN p[j] ELSE P!NUL) = IF j <= Len(line) THEN line[j] ELSE P!NUL
    OBVIOUS
  <2>1. j <= n => j \in 1 .. n
    BY <1>2
  <2> QED
    BY <1>6, <1>7, <1>8, <2>1
<1>10. P!Padded(p) = P!Padded(line)
  BY <1>9 DEF P!Padded
<1> QED
  BY <1>0, <1>4, <1>5, <1>6, <1>10 DEF n, T, Line

LEMMA LinesAre ==
  ASSUME P!LinesAssumption
  PROVE  /\ \A line \in PasswordLines : line \in Line /\ Len(line) \in Nat
         /\ \A bytes \in Challenges : bytes \in [1 .. 16 -> Bytes8]
         /\ \A n \in Pieces : n \in Nat
         /\ Wide
<1>1. \A line \in PasswordLines : line \in Seq(Bytes8 \ {P!NUL})
  <2>1. \A line \in PasswordLines : line \in Seq((SUBSET (0 .. 7)) \ {P!NUL})
    BY DEF P!LinesAssumption
  <2> QED
    BY <2>1 DEF Bytes8
<1>2. \A line \in PasswordLines : Len(line) \in Nat
  BY <1>1, LenProperties
<1>3. \A bytes \in Challenges : bytes \in [1 .. 16 -> Bytes8]
  BY Zenon DEF P!LinesAssumption, Bytes8
<1>4. \A n \in Pieces : n \in Nat
  BY DEF P!LinesAssumption
<1>5. Wide
  BY DEF P!LinesAssumption, Wide
<1> QED
  BY <1>1, <1>2, <1>3, <1>4, <1>5, Zenon DEF Line

LEMMA KeptAre ==
  ASSUME P!LinesAssumption, NEW p \in KeptPasswords
  PROVE  /\ p \in Line /\ Len(p) \in 6 .. 8 /\ p # P!NoPassword
         /\ \E line \in PasswordLines : Len(line) >= 6 /\ P!Padded(p) = P!Padded(line)
         /\ P!vncAuthObfuscatePasswd(p) \in Block /\ Len(P!vncAuthObfuscatePasswd(p)) = 8
         /\ P!vncAuthUnobfuscatePasswd(P!vncAuthObfuscatePasswd(p)) = p
<1>1. PICK line \in PasswordLines : Len(line) >= 6 /\ p = P!Truncated(line)
  BY DEF KeptPasswords
<1>2. line \in Line
  BY LinesAre
<1>3. Len(line) \in Nat
  BY LinesAre
<1>4. p \in Line /\ Len(p) = (IF Len(line) > 8 THEN 8 ELSE Len(line)) /\ P!Padded(p) = P!Padded(line)
  BY <1>1, <1>2, TruncatedIs
<1>5. Len(p) \in 6 .. 8 /\ Len(p) <= 8 /\ Len(p) # 0
  <2>1. \A x \in Nat : x >= 6 => LET y == IF x > 8 THEN 8 ELSE x IN y \in 6 .. 8 /\ y <= 8 /\ y # 0
    OBVIOUS
  <2> QED
    BY <1>1, <1>3, <1>4, <2>1, Zenon
<1>6. p # P!NoPassword
  <2>1. Len(<<>>) = 0
    OBVIOUS
  <2> QED
    BY <1>5, <2>1, Zenon DEF P!NoPassword
<1>7. Wide
  BY LinesAre
<1>8. Len(p) <= 8
  BY <1>5
<1> QED
  BY <1>1, <1>4, <1>5, <1>6, <1>7, <1>8, PasswordFound

(* The file keeps the owner's password or none, and vncpasswd has one that  *)
(* may be kept.                                                             *)
FileInv ==
  /\ pc \in {"verify", "open", "write"} => password \in KeptPasswords
  /\ IF owner = P!NoPassword THEN Len(file) # 8 ELSE owner \in KeptPasswords /\ file = P!vncAuthObfuscatePasswd(owner)

Response(k, p) == P!vncAuthEncryptChallenge(challenge[k], p)

(* What is on its way to the server and what has come in is the response    *)
(* that the client made; when all has, the server compares it with the one  *)
(* of the owner.                                                            *)
SentInv(k) ==
  /\ challenge[k] \in Challenges
  /\ \/ response[k] = <<>> /\ coming[k] = <<>>
     \/ /\ typed[k] \in PasswordLines
        /\ response[k] \in Seq(Bytes8) /\ coming[k] \in Seq(Bytes8)
        /\ response[k] \o coming[k] = Response(k, typed[k])

DecidedInv(k) ==
  /\ challenge[k] \in Challenges /\ typed[k] \in PasswordLines
  /\ against[k] = P!NoPassword \/ against[k] \in KeptPasswords
  /\ state[k] = "accepted" <=> against[k] # P!NoPassword /\ Response(k, against[k]) = Response(k, typed[k])

ClientInv(k) ==
  /\ state[k] = "new" => response[k] = <<>> /\ coming[k] = <<>>
  /\ state[k] = "sent" => SentInv(k)
  /\ state[k] \in {"accepted", "refused"} => DecidedInv(k)

ClientTypes ==
  /\ DOMAIN state = Sock /\ DOMAIN challenge = Sock /\ DOMAIN response = Sock
  /\ DOMAIN coming = Sock /\ DOMAIN typed = Sock /\ DOMAIN against = Sock

PasswordInv ==
  /\ FileInv
  /\ ClientTypes
  /\ \A k \in Sock : ClientInv(k)

LEMMA PasswordsStart == ASSUME P!LinesAssumption, P!Init PROVE PasswordInv
<1>1. FileInv
  <2>1. pc \notin {"verify", "open", "write"}
    BY DEF P!Init
  <2>2. CASE \E p \in {l \in PasswordLines : Len(l) \in 6 .. 8} : file = P!vncAuthObfuscatePasswd(p) /\ owner = p
    <3>1. PICK p \in PasswordLines : Len(p) \in 6 .. 8 /\ file = P!vncAuthObfuscatePasswd(p) /\ owner = p
      BY <2>2
    <3>2. p \in Line
      BY LinesAre
    <3>3. Len(p) >= 6 /\ Len(p) <= 8
      <4>1. \A x \in 6 .. 8 : x >= 6 /\ x <= 8
        OBVIOUS
      <4> QED
        BY <3>1, <4>1, Zenon
    <3>4. p \in KeptPasswords
      BY <3>2, <3>3, TruncatedIs DEF KeptPasswords
    <3>5. p # P!NoPassword
      BY <3>4, KeptAre
    <3> QED
      BY <2>1, <3>1, <3>4, <3>5 DEF FileInv
  <2>3. CASE file \in {<<>>, [j \in 1 .. 9 |-> P!Byte(j)]} /\ owner = P!NoPassword
    <3>1. Len(<<>>) = 0 /\ Len([j \in 1 .. 9 |-> P!Byte(j)]) = 9
      OBVIOUS
    <3>2. Len(file) # 8
      <4>1. 0 # 8 /\ 9 # 8
        OBVIOUS
      <4> QED
        BY <2>3, <3>1, <4>1, Zenon
    <3> QED
      BY <2>1, <2>3, <3>2 DEF FileInv
  <2> QED
    BY <2>2, <2>3 DEF P!Init
<1>2. ClientTypes /\ \A k \in Sock : ClientInv(k)
  BY DEF P!Init, ClientTypes, ClientInv
<1> QED
  BY <1>1, <1>2 DEF PasswordInv

(* What vncpasswd does leaves the clients alone.                            *)
LEMMA ClientsStay ==
  ASSUME PasswordInv, UNCHANGED P!clientVars, FileInv'
  PROVE  PasswordInv'
<1>1. ClientTypes' /\ \A k \in Sock : ClientInv(k)'
  BY DEF PasswordInv, P!clientVars, ClientTypes, ClientInv, SentInv, DecidedInv, Response
<1> QED
  BY <1>1 DEF PasswordInv

LEMMA ProgramKeeps ==
  ASSUME P!LinesAssumption, PasswordInv,
         \/ P!StartAsking \/ P!Open \/ P!Write \/ P!Fails
         \/ \E line \in PasswordLines : P!StartWith(line) \/ P!TypePassword(line) \/ P!TypeVerify(line)
  PROVE  PasswordInv'
<1>0. FileInv
  BY DEF PasswordInv
<1>1. CASE P!StartAsking
  <2>1. FileInv'
    BY <1>0, <1>1 DEF P!StartAsking, FileInv
  <2> QED
    BY <1>1, <2>1, ClientsStay DEF P!StartAsking
<1>2. CASE P!Open
  <2>1. FileInv'
    <3>1. Len(<<>>) = 0
      OBVIOUS
    <3> QED
      BY <1>0, <1>2, <3>1 DEF P!Open, FileInv
  <2> QED
    BY <1>2, <2>1, ClientsStay DEF P!Open
<1>3. CASE P!Write
  <2>1. FileInv'
    BY <1>0, <1>3, KeptAre DEF P!Write, P!Exit, FileInv
  <2> QED
    BY <1>3, <2>1, ClientsStay DEF P!Write
<1>4. CASE P!Fails
  <2>1. FileInv'
    BY <1>0, <1>4 DEF P!Fails, P!Exit, FileInv
  <2> QED
    BY <1>4, <2>1, ClientsStay DEF P!Fails
<1>5. ASSUME NEW line \in PasswordLines, P!StartWith(line) \/ P!TypePassword(line) \/ P!TypeVerify(line)
      PROVE  PasswordInv'
  <2>1. line \in Line
    BY LinesAre
  <2>2. Len(line) \in Nat
    BY LinesAre
  <2>3. line # <<>> => Len(line) # 0
    BY <2>1, EmptySeq DEF Line
  <2>4. Len(P!Truncated(line)) = IF Len(line) > 8 THEN 8 ELSE Len(line)
    BY <2>1, TruncatedIs
  <2>5. Len(line) >= 6 => P!Truncated(line) \in KeptPasswords
    BY DEF KeptPasswords
  <2>6. CASE P!StartWith(line)
    <3>1. Len(line) >= 6
      BY <2>2, <2>4, <2>6 DEF P!StartWith
    <3>2. FileInv'
      BY <1>0, <2>5, <2>6, <3>1 DEF P!StartWith, FileInv
    <3> QED
      BY <2>6, <3>2, ClientsStay DEF P!StartWith
  <2>7. CASE P!TypePassword(line)
    <3>0. Len(line) \notin 1 .. 5
      BY <2>7, Zenon DEF P!TypePassword
    <3>1. line # <<>> => Len(line) >= 6
      <4>1. \A x \in Nat : x \notin 1 .. 5 /\ x # 0 => x >= 6
        OBVIOUS
      <4> QED
        BY <2>2, <2>3, <3>0, <4>1, Zenon
    <3>2. FileInv'
      BY <1>0, <2>5, <2>7, <3>1 DEF P!TypePassword, P!Exit, FileInv
    <3> QED
      BY <2>7, <3>2, ClientsStay DEF P!TypePassword
  <2>8. CASE P!TypeVerify(line)
    <3>1. FileInv'
      BY <1>0, <2>8 DEF P!TypeVerify, FileInv
    <3> QED
      BY <2>8, <3>1, ClientsStay DEF P!TypeVerify
  <2> QED
    BY <1>5, <2>6, <2>7, <2>8
<1> QED
  BY <1>1, <1>2, <1>3, <1>4, <1>5

LEMMA SendKeeps ==
  ASSUME PasswordInv, NEW k \in Sock, NEW bytes \in Challenges, P!SendChallenge(k, bytes)
  PROVE  PasswordInv'
<1>0. FileInv /\ ClientTypes /\ \A j \in Sock : ClientInv(j)
  BY DEF PasswordInv
<1>1. FileInv' /\ ClientTypes'
  BY <1>0 DEF P!SendChallenge, P!programVars, FileInv, ClientTypes
<1>2. ClientInv(k)'
  <2>1. state'[k] = "sent" /\ challenge'[k] = bytes /\ response'[k] = <<>> /\ coming'[k] = <<>>
    BY <1>0 DEF P!SendChallenge, ClientTypes, ClientInv
  <2>2. SentInv(k)'
    BY <2>1 DEF SentInv
  <2> QED
    BY <2>1, <2>2 DEF ClientInv
<1>3. ASSUME NEW j \in Sock, j # k PROVE ClientInv(j)'
  <2>1. state'[j] = state[j] /\ challenge'[j] = challenge[j]
    BY <1>0, <1>3 DEF P!SendChallenge, ClientTypes
  <2> QED
    BY <1>0, <2>1 DEF P!SendChallenge, ClientInv, SentInv, DecidedInv, Response
<1> QED
  BY <1>1, <1>2, <1>3 DEF PasswordInv

LEMMA RespondKeeps ==
  ASSUME P!LinesAssumption, PasswordInv, NEW k \in Sock, NEW line \in PasswordLines, P!Respond(k, line)
  PROVE  PasswordInv'
<1>0. FileInv /\ ClientTypes /\ \A j \in Sock : ClientInv(j)
  BY DEF PasswordInv
<1>1. FileInv' /\ ClientTypes'
  BY <1>0 DEF P!Respond, P!programVars, FileInv, ClientTypes
<1>2. ClientInv(k)'
  <2>1. /\ state[k] = "sent" /\ state'[k] = "sent" /\ challenge'[k] = challenge[k] /\ response'[k] = <<>>
        /\ typed'[k] = line /\ coming'[k] = Response(k, line)
    BY <1>0 DEF P!Respond, ClientTypes, Response
  <2>2. challenge[k] \in Challenges
    BY <1>0, <2>1 DEF ClientInv, SentInv
  <2>3. Response(k, line) \in Seq(Bytes8)
    BY <2>2, LinesAre, ResponseIs DEF Response
  <2>4. Response(k, line)' = Response(k, line)
    BY <2>1 DEF Response
  <2>5. <<>> \in Seq(Bytes8) /\ <<>> \o Response(k, line) = Response(k, line)
    BY <2>3, ConcatEmptySeq
  <2>6. SentInv(k)'
    BY <2>1, <2>2, <2>3, <2>4, <2>5 DEF SentInv, Response
  <2> QED
    BY <2>1, <2>6 DEF ClientInv
<1>3. ASSUME NEW j \in Sock, j # k PROVE ClientInv(j)'
  <2>1. typed'[j] = typed[j] /\ coming'[j] = coming[j]
    BY <1>0, <1>3 DEF P!Respond, ClientTypes
  <2> QED
    BY <1>0, <2>1 DEF P!Respond, ClientInv, SentInv, DecidedInv, Response
<1> QED
  BY <1>1, <1>2, <1>3 DEF PasswordInv

(* The server reads the owner's password from the file, and none when there *)
(* is no owner.                                                             *)
LEMMA OwnerIsRead ==
  ASSUME P!LinesAssumption, FileInv PROVE P!getVncAuthPasswd = owner /\ (owner = P!NoPassword \/ owner \in KeptPasswords)
<1>1. CASE owner = P!NoPassword
  BY <1>1 DEF FileInv, P!getVncAuthPasswd
<1>2. CASE owner # P!NoPassword
  <2>1. owner \in KeptPasswords /\ file = P!vncAuthObfuscatePasswd(owner)
    BY <1>2 DEF FileInv
  <2>2. Len(file) = 8 /\ P!vncAuthUnobfuscatePasswd(file) = owner
    BY <2>1, KeptAre
  <2> QED
    BY <2>1, <2>2 DEF P!getVncAuthPasswd
<1> QED
  BY <1>1, <1>2

(* Taking the first n bytes from b to the end of a changes nothing in all.  *)
LEMMA Moved ==
  ASSUME NEW T, NEW a \in Seq(T), NEW b \in Seq(T), NEW n \in 0 .. Len(b)
  PROVE  /\ a \o SubSeq(b, 1, n) \in Seq(T) /\ SubSeq(b, n + 1, Len(b)) \in Seq(T)
         /\ (a \o SubSeq(b, 1, n)) \o SubSeq(b, n + 1, Len(b)) = a \o b
         /\ Len(a \o SubSeq(b, 1, n)) + Len(SubSeq(b, n + 1, Len(b))) = Len(a \o b)
         /\ Len(a \o SubSeq(b, 1, n)) \in Nat /\ Len(SubSeq(b, n + 1, Len(b))) \in Nat
<1> DEFINE f == SubSeq(b, 1, n)
           y == SubSeq(b, n + 1, Len(b))
<1>1. Len(b) \in Nat /\ n \in Nat /\ n <= Len(b)
  BY LenProperties
<1>2. f \in Seq(T) /\ y \in Seq(T)
  <2>1. \A j \in 1 .. n : b[j] \in T
    BY <1>1, ElementOfSeq
  <2>2. \A j \in n + 1 .. Len(b) : b[j] \in T
    BY <1>1, ElementOfSeq
  <2> QED
    BY <1>1, <2>1, <2>2, SubSeqProperties
<1>3. f \o y = b
  <2>1. SubSeq(b, 1, n) \o SubSeq(b, n + 1, Len(b)) = SubSeq(b, 1, Len(b))
    <3>1. 1 \in 1 .. Len(b) + 1 /\ n \in 1 - 1 .. Len(b) /\ Len(b) \in n .. Len(b)
      BY <1>1
    <3> QED
      BY <3>1, ConcatAdjacentSubSeq
  <2> QED
    BY <2>1, SubSeqFull
<1> HIDE DEF f, y
<1>4. (a \o f) \o y = a \o b
  <2>1. (a \o f) \o y = a \o (f \o y)
    BY <1>2, ConcatAssociative
  <2> QED
    BY <1>3, <2>1, Zenon
<1>5. a \o f \in Seq(T)
  BY <1>2, ConcatProperties
<1>6. Len((a \o f) \o y) = Len(a \o f) + Len(y)
  BY <1>2, <1>5, ConcatProperties
<1>7. Len(a \o f) \in Nat /\ Len(y) \in Nat
  BY <1>2, <1>5, LenProperties
<1> QED
  BY <1>2, <1>4, <1>5, <1>6, <1>7 DEF f, y

LEMMA ProcessKeeps ==
  ASSUME P!LinesAssumption, PasswordInv, NEW k \in Sock, NEW n \in Pieces, P!ProcessMsg(k, n)
  PROVE  PasswordInv'
<1>0. FileInv /\ ClientTypes /\ \A j \in Sock : ClientInv(j)
  BY DEF PasswordInv
<1> DEFINE all == response[k] \o SubSeq(coming[k], 1, n)
           rest == SubSeq(coming[k], n + 1, Len(coming[k]))
           passwd == P!getVncAuthPasswd
           right == passwd # P!NoPassword /\ P!vncAuthEncryptChallenge(challenge[k], passwd) = all
<1>1. /\ state[k] = "sent" /\ n <= Len(coming[k])
      /\ response' = [response EXCEPT ![k] = all]
      /\ coming' = [coming EXCEPT ![k] = rest]
      /\ UNCHANGED <<P!programVars, challenge, typed>>
  BY DEF P!ProcessMsg
<1>2. IF Len(all) < 16 THEN UNCHANGED <<state, against>>
      ELSE /\ state' = [state EXCEPT ![k] = IF right THEN "accepted" ELSE "refused"]
           /\ against' = [against EXCEPT ![k] = owner]
  BY DEF P!ProcessMsg
<1>3. FileInv'
  BY <1>0, <1>1 DEF P!programVars, FileInv
<1>4. ClientTypes'
  <2> HIDE DEF all, rest, right
  <2>1. DOMAIN response' = Sock /\ DOMAIN coming' = Sock /\ DOMAIN challenge' = Sock /\ DOMAIN typed' = Sock
    BY <1>0, <1>1 DEF ClientTypes
  <2>2. DOMAIN state' = Sock /\ DOMAIN against' = Sock
    BY <1>0, <1>2 DEF ClientTypes
  <2> QED
    BY <2>1, <2>2 DEF ClientTypes
<1>5. ASSUME NEW j \in Sock, j # k PROVE ClientInv(j)'
  <2> HIDE DEF all, rest, right
  <2>1. response'[j] = response[j] /\ coming'[j] = coming[j]
    BY <1>0, <1>1, <1>5 DEF ClientTypes
  <2>2. state'[j] = state[j] /\ against'[j] = against[j]
    BY <1>0, <1>2, <1>5 DEF ClientTypes
  <2> QED
    BY <1>0, <1>1, <2>1, <2>2 DEF ClientInv, SentInv, DecidedInv, Response
<1>6. response'[k] = all /\ coming'[k] = rest /\ challenge'[k] = challenge[k] /\ typed'[k] = typed[k]
  <2> HIDE DEF all, rest
  <2> QED
    BY <1>0, <1>1 DEF ClientTypes
<1>7. SentInv(k)
  BY <1>0, <1>1 DEF ClientInv
<1>8. n \in Nat
  BY LinesAre
<1>9. CASE response[k] = <<>> /\ coming[k] = <<>>
  <2>1. Len(coming[k]) = 0
    BY <1>9
  <2>2. n = 0
    BY <1>1, <1>8, <2>1
  <2>3. all = <<>> /\ rest = <<>> /\ Len(all) = 0
    BY <1>9, <2>2
  <2> HIDE DEF all, rest, right
  <2>4. UNCHANGED <<state, against>>
    BY <1>2, <2>3
  <2>5. SentInv(k)'
    BY <1>6, <1>7, <2>3 DEF SentInv
  <2>6. ClientInv(k)'
    BY <1>1, <2>4, <2>5 DEF ClientInv
  <2> QED
    BY <1>3, <1>4, <1>5, <2>6 DEF PasswordInv
<1>10. CASE ~(response[k] = <<>> /\ coming[k] = <<>>)
  <2>1. /\ typed[k] \in PasswordLines /\ response[k] \in Seq(Bytes8) /\ coming[k] \in Seq(Bytes8)
        /\ response[k] \o coming[k] = Response(k, typed[k]) /\ challenge[k] \in Challenges
    BY <1>7, <1>10 DEF SentInv
  <2>2. n \in 0 .. Len(coming[k])
    <3>1. Len(coming[k]) \in Nat
      BY <2>1, LenProperties
    <3> QED
      BY <1>1, <1>8, <3>1
  <2>3. /\ all \in Seq(Bytes8) /\ rest \in Seq(Bytes8) /\ all \o rest = response[k] \o coming[k]
        /\ Len(all) + Len(rest) = Len(response[k] \o coming[k]) /\ Len(rest) \in Nat /\ Len(all) \in Nat
    <3>1. \A a, b \in Seq(Bytes8) : \A m \in 0 .. Len(b) :
           /\ a \o SubSeq(b, 1, m) \in Seq(Bytes8) /\ SubSeq(b, m + 1, Len(b)) \in Seq(Bytes8)
           /\ (a \o SubSeq(b, 1, m)) \o SubSeq(b, m + 1, Len(b)) = a \o b
           /\ Len(a \o SubSeq(b, 1, m)) + Len(SubSeq(b, m + 1, Len(b))) = Len(a \o b)
           /\ Len(a \o SubSeq(b, 1, m)) \in Nat /\ Len(SubSeq(b, m + 1, Len(b))) \in Nat
      BY Moved
    <3> QED
      BY <2>1, <2>2, <3>1, Zenon
  <2>4. Len(response[k] \o coming[k]) = 16
    BY <2>1, LinesAre, ResponseIs DEF Response
  <2> HIDE DEF all, rest
  <2>5. Response(k, typed[k])' = Response(k, typed[k])
    BY <1>6 DEF Response
  <2>6. CASE Len(all) < 16
    <3>1. UNCHANGED <<state, against>>
      BY <1>2, <2>6
    <3>2. SentInv(k)'
      BY <1>6, <2>1, <2>3, <2>5 DEF SentInv, Response
    <3>3. ClientInv(k)'
      BY <1>1, <3>1, <3>2 DEF ClientInv
    <3> QED
      BY <1>3, <1>4, <1>5, <3>3 DEF PasswordInv
  <2>7. CASE ~(Len(all) < 16)
    <3>1. all = Response(k, typed[k])
      <4>1. Len(rest) = 0
        BY <2>3, <2>4, <2>7
      <4>2. rest = <<>>
        BY <2>3, <4>1, EmptySeq
      <4>3. all \o <<>> = all
        BY <2>3, ConcatEmptySeq
      <4> QED
        BY <2>1, <2>3, <4>2, <4>3
    <3>2. passwd = owner /\ (owner = P!NoPassword \/ owner \in KeptPasswords)
      BY <1>0, OwnerIsRead
    <3>3. right <=> owner # P!NoPassword /\ Response(k, owner) = Response(k, typed[k])
      <4> HIDE DEF passwd
      <4> QED
        BY <3>1, <3>2 DEF Response
    <3> HIDE DEF right, passwd
    <3>4. state'[k] = (IF right THEN "accepted" ELSE "refused") /\ against'[k] = owner
      BY <1>0, <1>2, <2>7 DEF ClientTypes
    <3>5. DecidedInv(k)'
      BY <1>6, <2>1, <3>2, <3>3, <3>4 DEF DecidedInv, Response
    <3>6. ClientInv(k)'
      BY <3>4, <3>5 DEF ClientInv
    <3> QED
      BY <1>3, <1>4, <1>5, <3>6 DEF PasswordInv
  <2> QED
    BY <2>6, <2>7
<1> QED
  BY <1>9, <1>10

LEMMA PasswordsKeep == ASSUME P!LinesAssumption, PasswordInv, [P!Next]_P!vars PROVE PasswordInv'
<1>1. CASE P!Next
  <2>1. CASE \/ P!StartAsking \/ P!Open \/ P!Write \/ P!Fails
             \/ \E line \in PasswordLines : P!StartWith(line) \/ P!TypePassword(line) \/ P!TypeVerify(line)
    BY <2>1, ProgramKeeps
  <2>2. CASE \E k \in Sock : \E bytes \in Challenges : P!SendChallenge(k, bytes)
    BY <2>2, SendKeeps
  <2>3. CASE \E k \in Sock : \E line \in PasswordLines : P!Respond(k, line)
    BY <2>3, RespondKeeps
  <2>4. CASE \E k \in Sock : \E n \in Pieces : P!ProcessMsg(k, n)
    BY <2>4, ProcessKeeps
  <2> QED
    BY <1>1, <2>1, <2>2, <2>3, <2>4 DEF P!Next
<1>2. CASE UNCHANGED P!vars
  BY <1>2 DEF P!vars, P!programVars, P!clientVars, PasswordInv, FileInv, ClientTypes, ClientInv, SentInv, DecidedInv, Response
<1> QED
  BY <1>1, <1>2

LEMMA PartsKeepPasswordInv == PartsSpec => []PasswordInv
<1>1. PartsInit => PasswordInv
  BY PasswordLinesOfBytes, PasswordsStart DEF PartsInit
<1>2. [PartsNext]_<<part, vars, handshakeVars, streamVars, sessionVars, programVars>> => [P!Next]_P!vars
  BY DEF PartsNext, programVars, passwordVars, P!vars, P!programVars, P!clientVars
<1>3. PasswordInv /\ [P!Next]_P!vars => PasswordInv'
  BY PasswordLinesOfBytes, PasswordsKeep
<1> QED
  BY <1>1, <1>2, <1>3, PTL DEF PartsSpec

(* Passwords: whatever vncpasswd does and wherever it stops, the server     *)
(* finds in the file the password that was put there or none, and a client  *)
(* of which the whole response has come in is accepted if what was typed    *)
(* makes the key of that password, and only if its response is the same.    *)
FileGivesItBack ==
  /\ P!getVncAuthPasswd = owner /\ (owner # P!NoPassword => Len(owner) \in 6 .. 8)
  /\ \A k \in Sock :
       /\ state[k] = "accepted" => against[k] # P!NoPassword /\ Response(k, against[k]) = Response(k, typed[k])
       /\ state[k] = "refused" => against[k] = P!NoPassword \/ ~P!SameKey(against[k], typed[k])

THEOREM PasswordsAreFound == PartsSpec => []FileGivesItBack
<1>1. PasswordInv => FileGivesItBack
  <2> SUFFICES ASSUME PasswordInv PROVE FileGivesItBack
    OBVIOUS
  <2>1. P!getVncAuthPasswd = owner /\ (owner # P!NoPassword => Len(owner) \in 6 .. 8)
    BY PasswordLinesOfBytes, OwnerIsRead, KeptAre DEF PasswordInv
  <2>2. ASSUME NEW k \in Sock
        PROVE  /\ state[k] = "accepted" => against[k] # P!NoPassword /\ Response(k, against[k]) = Response(k, typed[k])
               /\ state[k] = "refused" => against[k] = P!NoPassword \/ ~P!SameKey(against[k], typed[k])
    <3>1. state[k] \in {"accepted", "refused"} => DecidedInv(k)
      BY DEF PasswordInv, ClientInv
    <3>2. P!SameKey(against[k], typed[k]) => Response(k, against[k]) = Response(k, typed[k])
      BY SameResponse DEF Response
    <3> QED
      BY <3>1, <3>2 DEF DecidedInv
  <2> QED
    BY <2>1, <2>2 DEF FileGivesItBack
<1> QED
  BY <1>1, PartsKeepPasswordInv, PTL

(* Passwords: so nobody is accepted without the owner's password, and the   *)
(* file does not hold it as it is, where the challenges tell the passwords  *)
(* apart and none of them is obfuscated to itself.                          *)
THEOREM OnlyThePasswordGetsIn == PartsSpec => []PasswordsAreKept
<1>1. PasswordInv => PasswordsAreKept
  <2> SUFFICES ASSUME PasswordInv PROVE P!PasswordsAreKept
    BY DEF PasswordsAreKept
  <2>1. ASSUME NEW k \in Sock, state[k] \in {"accepted", "refused"}
        PROVE  state[k] = "accepted" <=> against[k] # P!NoPassword /\ P!SameKey(against[k], typed[k])
    <3>1. DecidedInv(k)
      BY <2>1 DEF PasswordInv, ClientInv
    <3>2. P!SameKey(against[k], typed[k]) => Response(k, against[k]) = Response(k, typed[k])
      BY SameResponse DEF Response
    <3>3. ASSUME against[k] \in KeptPasswords, Response(k, against[k]) = Response(k, typed[k])
          PROVE  P!SameKey(against[k], typed[k])
      <4>1. PICK line \in PasswordLines : Len(line) >= 6 /\ P!Padded(against[k]) = P!Padded(line)
        BY <3>3, PasswordLinesOfBytes, KeptAre
      <4>2. P!vncAuthEncryptChallenge(challenge[k], line) = P!vncAuthEncryptChallenge(challenge[k], typed[k])
        BY <3>3, <4>1 DEF Response, P!vncAuthEncryptChallenge
      <4>3. P!SameKey(line, typed[k])
        BY <3>1, <4>1, <4>2, CipherTellsApart DEF DecidedInv, P!CipherAssumption
      <4> QED
        BY <4>1, <4>3 DEF P!SameKey
    <3> QED
      BY <2>1, <3>1, <3>2, <3>3 DEF DecidedInv
  <2>2. ASSUME owner # P!NoPassword
        PROVE  Len(owner) \in 6 .. 8 /\ P!getVncAuthPasswd = owner /\ file # P!Padded(owner)
    <3>1. FileInv /\ owner \in KeptPasswords /\ file = P!vncAuthObfuscatePasswd(owner)
      BY <2>2 DEF PasswordInv, FileInv
    <3>2. Len(owner) \in 6 .. 8 /\ P!getVncAuthPasswd = owner
      BY <3>1, PasswordLinesOfBytes, OwnerIsRead, KeptAre
    <3>3. PICK line \in PasswordLines : Len(line) >= 6 /\ P!Padded(owner) = P!Padded(line)
      BY <3>1, PasswordLinesOfBytes, KeptAre
    <3>4. P!vncAuthObfuscatePasswd(line) # P!Padded(line)
      BY <3>3, CipherTellsApart DEF P!CipherAssumption
    <3>5. P!vncAuthObfuscatePasswd(owner) = P!vncAuthObfuscatePasswd(line)
      BY <3>3 DEF P!vncAuthObfuscatePasswd
    <3> QED
      BY <3>1, <3>2, <3>3, <3>4, <3>5
  <2> QED
    BY <2>1, <2>2 DEF P!PasswordsAreKept
<1> QED
  BY <1>1, PartsKeepPasswordInv, PTL

-----------------------------------------------------------------------------
(* The command line: what stands before and behind the first of a mark.    *)
FirstAt(k, text, mark) ==
  /\ k \in 1 .. Len(text) /\ text[k] = mark
  /\ \A j \in 1 .. k - 1 : text[j] # mark

LEMMA FirstMark ==
  ASSUME NEW text \in Seq(STRING), NEW mark, S!Contains(text, mark)
  PROVE  \E k : FirstAt(k, text, mark)
<1> DEFINE T == {k \in 1 .. Len(text) : text[k] = mark}
<1>1. T \in SUBSET Nat /\ T # {}
  BY DEF S!Contains
<1>2. PICK k \in T : \A j \in T : k <= j
  BY <1>1, LeastNatural
<1>3. k \in 1 .. Len(text) /\ text[k] = mark
  BY <1>2
<1>4. ASSUME NEW j \in 1 .. k - 1 PROVE text[j] # mark
  <2>1. j \in 1 .. Len(text) /\ ~(k <= j)
    BY <1>3
  <2> QED
    BY <1>2, <2>1
<1> QED
  BY <1>3, <1>4 DEF FirstAt

LEMMA BehindFirst ==
  ASSUME NEW text \in Seq(STRING), NEW mark, NEW k, FirstAt(k, text, mark)
  PROVE  /\ S!Contains(text, mark)
         /\ S!Before(text, mark) = SubSeq(text, 1, k - 1)
         /\ S!Behind(text, mark) = SubSeq(text, k + 1, Len(text))
<1>1. S!Contains(text, mark)
  BY DEF S!Contains, FirstAt
<1>2. k \in DOMAIN text /\ text[k] = mark /\ \A j \in 1 .. k - 1 : text[j] # mark
  BY DEF FirstAt
<1>3. ASSUME NEW x \in DOMAIN text, text[x] = mark, \A j \in 1 .. x - 1 : text[j] # mark
      PROVE  x = k
  BY <1>2, <1>3
<1>4. k = CHOOSE x \in DOMAIN text : text[x] = mark /\ \A j \in 1 .. x - 1 : text[j] # mark
  BY <1>2, <1>3
<1>5. S!Before(text, mark) = SubSeq(text, 1, k - 1)
  BY <1>1, <1>4 DEF S!Before
<1>6. k - 1 \in 0 .. Len(text) /\ Len(SubSeq(text, 1, k - 1)) = k - 1
  BY <1>2
<1>7. S!Behind(text, mark) = SubSeq(text, (k - 1) + 2, Len(text))
  BY <1>5, <1>6 DEF S!Behind
<1>8. (k - 1) + 2 = k + 1
  BY <1>2
<1> QED
  BY <1>1, <1>5, <1>7, <1>8

LEMMA PartOfText ==
  ASSUME NEW text \in Seq(STRING), NEW x \in 1 .. Len(text) + 1
  PROVE  SubSeq(text, x, Len(text)) \in Seq(STRING)
<1>1. \A j \in x .. Len(text) : text[j] \in STRING
  BY ElementOfSeq
<1> QED
  BY <1>1, SubSeqProperties, x \in Int, Len(text) \in Int

LEMMA BehindIsText ==
  ASSUME NEW text \in Seq(STRING), NEW mark, S!Contains(text, mark)
  PROVE  S!Behind(text, mark) \in Seq(STRING)
<1>1. PICK k : FirstAt(k, text, mark)
  BY FirstMark
<1>2. k + 1 \in 1 .. Len(text) + 1
  BY <1>1 DEF FirstAt
<1> QED
  BY <1>1, <1>2, BehindFirst, PartOfText

LEMMA BeforeWithout ==
  ASSUME NEW text, NEW mark, ~S!Contains(text, mark) PROVE S!Before(text, mark) = text
BY DEF S!Before

(* The first word of a text is not the mark, so it can be left out. *)
LEMMA BehindOfTail ==
  ASSUME NEW text \in Seq(STRING), NEW mark, text # <<>>, text[1] # mark
  PROVE  /\ S!Contains(Tail(text), mark) <=> S!Contains(text, mark)
         /\ S!Contains(text, mark) => S!Behind(Tail(text), mark) = S!Behind(text, mark)
<1> DEFINE rest == Tail(text)
<1>1. /\ rest \in Seq(STRING) /\ Len(rest) \in Nat /\ Len(text) = Len(rest) + 1
      /\ \A j \in 1 .. Len(rest) : rest[j] = text[j + 1]
  BY HeadTailProperties
<1> HIDE DEF rest
<1>2. S!Contains(rest, mark) => S!Contains(text, mark)
  <2> SUFFICES ASSUME NEW j \in 1 .. Len(rest), rest[j] = mark PROVE S!Contains(text, mark)
    BY DEF S!Contains
  <2>1. j + 1 \in 1 .. Len(text) /\ text[j + 1] = mark
    BY <1>1
  <2> QED
    BY <2>1 DEF S!Contains
<1>3. ASSUME S!Contains(text, mark)
      PROVE  S!Contains(rest, mark) /\ S!Behind(rest, mark) = S!Behind(text, mark)
  <2>1. PICK k : FirstAt(k, text, mark)
    BY <1>3, FirstMark
  <2>2. k \in 2 .. Len(rest) + 1
    BY <1>1, <2>1 DEF FirstAt
  <2>3. FirstAt(k - 1, rest, mark)
    <3>1. k - 1 \in 1 .. Len(rest) /\ rest[k - 1] = text[k]
      BY <1>1, <2>2
    <3>2. ASSUME NEW j \in 1 .. (k - 1) - 1 PROVE rest[j] # mark
      <4>1. j \in 1 .. Len(rest) /\ j + 1 \in 1 .. k - 1
        BY <1>1, <2>2
      <4> QED
        BY <1>1, <2>1, <4>1 DEF FirstAt
    <3> QED
      BY <2>1, <3>1, <3>2 DEF FirstAt
  <2>4. /\ S!Contains(rest, mark) /\ S!Behind(rest, mark) = SubSeq(rest, (k - 1) + 1, Len(rest))
        /\ S!Behind(text, mark) = SubSeq(text, k + 1, Len(text))
    BY <1>1, <2>1, <2>3, BehindFirst
  <2>5. SubSeq(rest, (k - 1) + 1, Len(rest)) = SubSeq(text, k + 1, Len(text))
    <3> DEFINE one == SubSeq(rest, k, Len(rest))
               two == SubSeq(text, k + 1, Len(text))
               n == Len(rest) - k + 1
    <3>1. n \in Nat /\ k \in Int
      BY <1>1, <2>2
    <3>2. one = [j \in 1 .. n |-> rest[k + j - 1]] /\ two = [j \in 1 .. n |-> text[k + 1 + j - 1]]
      BY <1>1, <2>2
    <3>3. ASSUME NEW j \in 1 .. n PROVE rest[k + j - 1] = text[k + 1 + j - 1]
      <4>1. k + j - 1 \in 1 .. Len(rest) /\ (k + j - 1) + 1 = k + 1 + j - 1
        BY <1>1, <2>2
      <4> QED
        BY <1>1, <4>1
    <3> HIDE DEF n
    <3>4. one = two
      BY <3>2, <3>3
    <3>5. (k - 1) + 1 = k
      BY <3>1
    <3> QED
      BY <3>4, <3>5
  <2> QED
    BY <2>4, <2>5
<1> QED
  BY <1>2, <1>3 DEF rest

(* A function that is defined step by step on 0 .. n: it Follows, but only *)
(* so far.                                                                 *)
FollowsTo(f, n, base, step) ==
  f[0] = base /\ \A k \in 1 .. n : f[k] = step[<<k - 1, f[k - 1]>>]

LEMMA ListRecursion ==
  ASSUME NEW n \in Nat, NEW T, NEW base \in T, NEW step \in Step(T)
  PROVE  \E f \in [0 .. n -> T] : FollowsTo(f, n, base, step)
<1>1. PICK g : Follows(g, T, base, step)
  BY RecursiveFunction
<1> DEFINE f == [k \in 0 .. n |-> g[k]]
<1>2. f \in [0 .. n -> T] /\ f[0] = base
  BY <1>1 DEF Follows
<1>3. ASSUME NEW k \in 1 .. n PROVE f[k] = step[<<k - 1, f[k - 1]>>]
  <2>1. k - 1 \in Nat /\ k - 1 \in 0 .. n /\ k \in 0 .. n /\ (k - 1) + 1 = k
    OBVIOUS
  <2>2. g[(k - 1) + 1] = step[<<k - 1, g[k - 1]>>]
    BY <1>1, <2>1 DEF Follows
  <2> QED
    BY <2>1, <2>2
<1> QED
  BY <1>2, <1>3 DEF FollowsTo

(* The items of a text are texts. *)
LEMMA ItemsAreTexts ==
  ASSUME NEW text \in Seq(STRING) PROVE S!Items(text) \in Seq(Seq(STRING))
<1> DEFINE n == Len(text)
           T == Seq(Seq(STRING)) \ {<<>>}
           Longer(items, t) == IF t = "," THEN Append(items, <<>>) ELSE [items EXCEPT ![Len(items)] = Append(@, t)]
           step == [p \in Nat \X T |-> IF p[1] < n THEN Longer(p[2], text[p[1] + 1]) ELSE p[2]]
           Eq(g) == g = [k \in 0 .. n |-> IF k = 0 THEN <<<<>>>>
                                         ELSE IF text[k] = "," THEN Append(g[k - 1], <<>>)
                                         ELSE [g[k - 1] EXCEPT ![Len(g[k - 1])] = Append(@, text[k])]]
<1>1. n \in Nat /\ <<<<>>>> \in T
  OBVIOUS
<1>2. ASSUME NEW items \in T, NEW t \in STRING PROVE Longer(items, t) \in T
  <2>1. CASE t = ","
    <3>1. Append(items, <<>>) \in Seq(Seq(STRING)) /\ Len(Append(items, <<>>)) = Len(items) + 1
      BY AppendProperties
    <3>2. Append(items, <<>>) # <<>>
      BY <3>1
    <3> QED
      BY <2>1, <3>1, <3>2
  <2>2. CASE t # ","
    <3> DEFINE m == Len(items)
               more == Append(items[m], t)
    <3>1. m \in Nat /\ m # 0
      BY EmptySeq
    <3>2. m \in 1 .. Len(items)
      BY <3>1
    <3>3. items[m] \in Seq(STRING)
      BY <3>2, ElementOfSeq
    <3>4. more \in Seq(STRING)
      BY <3>3, AppendProperties
    <3> HIDE DEF more
    <3>5. [items EXCEPT ![m] = more] \in Seq(Seq(STRING)) /\ Len([items EXCEPT ![m] = more]) = m
      BY <3>2, <3>4, ExceptSeq
    <3>6. [items EXCEPT ![m] = more] # <<>>
      BY <3>1, <3>5
    <3> QED
      BY <2>2, <3>5, <3>6 DEF more
  <2> QED
    BY <2>1, <2>2
<1>3. step \in Step(T)
  <2>1. ASSUME NEW p \in Nat \X T PROVE (IF p[1] < n THEN Longer(p[2], text[p[1] + 1]) ELSE p[2]) \in T
    <3>1. p[1] \in Nat /\ p[2] \in T
      OBVIOUS
    <3>2. p[1] < n => text[p[1] + 1] \in STRING
      <4>1. p[1] < n => p[1] + 1 \in 1 .. Len(text)
        BY <3>1
      <4> QED
        BY <4>1, ElementOfSeq
    <3> HIDE DEF Longer, T
    <3> QED
      BY <1>2, <3>1, <3>2
  <2> HIDE DEF T, Longer
  <2> QED
    BY <2>1 DEF Step
<1>4. PICK f \in [0 .. n -> T] : FollowsTo(f, n, <<<<>>>>, step)
  <2> DEFINE base == <<<<>>>>
  <2>1. base \in T
    BY <1>1
  <2> HIDE DEF T, step, n, base
  <2>2. \E f \in [0 .. n -> T] : FollowsTo(f, n, base, step)
    BY <1>1, <1>3, <2>1, ListRecursion
  <2> QED
    BY <2>2 DEF base
<1>5. Eq(f)
  <2>1. ASSUME NEW k \in 1 .. n
        PROVE  f[k] = IF text[k] = "," THEN Append(f[k - 1], <<>>)
                      ELSE [f[k - 1] EXCEPT ![Len(f[k - 1])] = Append(@, text[k])]
    <3>1. k - 1 \in Nat /\ k - 1 \in 0 .. n /\ k - 1 < n /\ (k - 1) + 1 = k
      OBVIOUS
    <3> HIDE DEF T
    <3>2. <<k - 1, f[k - 1]>> \in Nat \X T
      BY <1>4, <3>1
    <3>3. step[<<k - 1, f[k - 1]>>] = Longer(f[k - 1], text[k])
      BY <3>1, <3>2
    <3> QED
      BY <1>4, <3>3 DEF FollowsTo
  <2>2. f = [k \in 0 .. n |-> f[k]]
    BY <1>4
  <2>3. \A k \in 0 .. n : k = 0 \/ k \in 1 .. n
    OBVIOUS
  <2> HIDE DEF T, step
  <2> QED
    BY <1>4, <2>1, <2>2, <2>3 DEF FollowsTo
<1> DEFINE g == CHOOSE h : Eq(h)
<1>6. S!Items(text) = g[n]
  BY DEF S!Items
<1> HIDE DEF Eq
<1>7. Eq(g)
  BY <1>5
<1>8. g[0] = <<<<>>>> /\ \A k \in Nat : k + 1 <= n => g[k + 1] = Longer(g[k], text[k + 1])
  <2>1. g[0] = <<<<>>>>
    <3>1. 0 \in 0 .. n
      BY <1>1
    <3> HIDE DEF n, g
    <3> QED
      BY <1>7, <3>1 DEF Eq
  <2>2. ASSUME NEW m \in 1 .. n PROVE g[m] = Longer(g[m - 1], text[m])
    <3>1. m \in 0 .. n /\ m # 0
      OBVIOUS
    <3> HIDE DEF n
    <3> QED
      BY <1>7, <3>1 DEF Eq
  <2>3. ASSUME NEW k \in Nat, k + 1 <= n PROVE g[k + 1] = Longer(g[k], text[k + 1])
    <3> DEFINE m == k + 1
    <3>1. m \in 1 .. n /\ m - 1 = k
      BY <1>1, <2>3
    <3> HIDE DEF m, g, Longer, n
    <3>2. g[m] = Longer(g[m - 1], text[m])
      BY <2>2, <3>1
    <3> QED
      BY <3>1, <3>2 DEF m
  <2> QED
    BY <2>1, <2>3
<1> DEFINE U == {k \in Nat : k <= n => g[k] \in T}
<1> HIDE DEF g
<1>9. 0 \in U
  BY <1>1, <1>8
<1>10. ASSUME NEW k \in Nat, k \in U PROVE k + 1 \in U
  <2> SUFFICES ASSUME k + 1 <= n PROVE g[k + 1] \in T
    OBVIOUS
  <2>1. k + 1 \in 1 .. Len(text) /\ g[k] \in T
    BY <1>1, <1>10
  <2>2. text[k + 1] \in STRING
    BY <2>1, ElementOfSeq
  <2> HIDE DEF T, Longer, n
  <2>3. Longer(g[k], text[k + 1]) \in T
    BY <1>2, <2>1, <2>2
  <2> QED
    BY <1>8, <2>3
<1> HIDE DEF U
<1>11. Nat \subseteq U
  BY <1>9, <1>10, Induction
<1>12. g[n] \in T
  <2> HIDE DEF T
  <2> QED
    BY <1>1, <1>11 DEF U
<1> QED
  BY <1>6, <1>12

(* A list of log levels: which items are about a log writer, and that the  *)
(* last of them counts.                                                    *)
LEMMA AboutWriter ==
  ASSUME NEW item \in Seq(STRING), NEW w, S!WellFormed(item)
  PROVE  (S!Before(item, ":") = <<"*">> \/ S!Same(S!Before(item, ":"), w))
         <=> (item # <<>> /\ (item[1] = "*" \/ S!Same(S!Before(item, ":"), w)))
<1>1. PICK k : FirstAt(k, item, ":")
  BY FirstMark DEF S!WellFormed
<1>2. k \in 1 .. Len(item) /\ S!Before(item, ":") = SubSeq(item, 1, k - 1)
  BY <1>1, BehindFirst DEF FirstAt
<1>3. item # <<>>
  BY <1>2
<1>4. S!Before(item, ":") = [j \in 1 .. k - 1 |-> item[j]] /\ Len(S!Before(item, ":")) = k - 1
  BY <1>2
<1>5. Len(S!Before(item, ":")) = 1 => S!Before(item, ":") = <<item[1]>>
  <2> SUFFICES ASSUME k = 2 PROVE [j \in 1 .. k - 1 |-> item[j]] = <<item[1]>>
    BY <1>2, <1>4
  <2>1. [j \in 1 .. 1 |-> item[j]] = <<item[1]>>
    OBVIOUS
  <2>2. k - 1 = 1
    OBVIOUS
  <2> QED
    BY <2>1, <2>2
<1>6. S!Before(item, ":") = <<"*">> => Len(S!Before(item, ":")) = 1 /\ S!Before(item, ":")[1] = "*"
  OBVIOUS
<1>7. Len(S!Before(item, ":")) = 1 => S!Before(item, ":")[1] = item[1]
  BY <1>5
<1>8. Len(S!Before(item, ":")) = 1 \/ S!Before(item, ":") = <<"*">>
  BY DEF S!WellFormed, S!Same
<1> QED
  BY <1>3, <1>5, <1>6, <1>7, <1>8

About(items, j, w) == items[j] # <<>> /\ (items[j][1] = "*" \/ S!Same(S!Before(items[j], ":"), w))

(* target is that of the last of the first n items that is about w. *)
Settled(items, n, w, target) ==
  \/ target = S!NoTarget /\ \A j \in 1 .. n : ~About(items, j, w)
  \/ \E j \in 1 .. n : /\ About(items, j, w) /\ target = S!TargetOf(items[j])
                       /\ \A m \in 1 .. n : About(items, m, w) => m <= j

Done(items, n, done) ==
  /\ done.ok <=> \A j \in 1 .. n : items[j] = <<>> \/ S!WellFormed(items[j])
  /\ done.ok => DOMAIN done.log = Writers /\ \A w \in Writers : Settled(items, n, w, done.log[w])

LEMMA OneMoreItem ==
  ASSUME NEW items \in Seq(Seq(STRING)), NEW n \in Nat, n + 1 <= Len(items),
         NEW done, Done(items, n, done)
  PROVE  Done(items, n + 1, S!SetOne(done, items[n + 1]))
<1> DEFINE m == n + 1
           item == items[m]
<1>1. m \in 1 .. m /\ m \in 1 .. Len(items) /\ \A j \in 1 .. m : j \in 1 .. n \/ j = m
  OBVIOUS
<1>2. (\A j \in 1 .. n : j \in 1 .. m /\ j <= m) /\ m <= m
  OBVIOUS
<1>3. item \in Seq(STRING)
  BY <1>1, ElementOfSeq
<1> HIDE DEF m, item
<1>4. ASSUME NEW w, NEW target, Settled(items, n, w, target), ~About(items, m, w)
      PROVE  Settled(items, m, w, target)
  <2>1. \A j \in 1 .. m : About(items, j, w) => j \in 1 .. n
    BY <1>1, <1>4
  <2> QED
    BY <1>2, <1>4, <2>1, Zenon DEF Settled
<1>5. ASSUME NEW w, About(items, m, w) PROVE Settled(items, m, w, S!TargetOf(item))
  <2>1. \A j \in 1 .. m : j <= m
    BY <1>1, <1>2
  <2> QED
    BY <1>1, <1>5, <2>1, Zenon DEF Settled, item
<1>6. CASE ~done.ok
  <2>1. ~\A j \in 1 .. m : items[j] = <<>> \/ S!WellFormed(items[j])
    BY <1>2, <1>6 DEF Done
  <2>2. S!SetOne(done, item) = done
    BY <1>6 DEF S!SetOne
  <2>3. Done(items, m, done)
    BY <1>6, <2>1, Zenon DEF Done
  <2> QED
    BY <2>2, <2>3 DEF m, item
<1>7. CASE done.ok /\ item = <<>>
  <2>1. S!SetOne(done, item) = done
    BY <1>7 DEF S!SetOne
  <2>2. \A w : ~About(items, m, w)
    BY <1>7 DEF About, item
  <2>3. DOMAIN done.log = Writers /\ \A w \in Writers : Settled(items, m, w, done.log[w])
    BY <1>4, <1>7, <2>2 DEF Done
  <2>4. \A j \in 1 .. m : items[j] = <<>> \/ S!WellFormed(items[j])
    BY <1>1, <1>7 DEF Done, item
  <2>5. Done(items, m, done)
    BY <1>7, <2>3, <2>4, Zenon DEF Done
  <2> QED
    BY <2>1, <2>5 DEF m, item
<1>8. CASE done.ok /\ item # <<>> /\ S!WellFormed(item)
  <2> DEFINE more == S!setLogParams(item, done.log)
  <2>1. S!SetOne(done, item) = [ok |-> TRUE, log |-> more]
    BY <1>8 DEF S!SetOne
  <2>2. ASSUME NEW w \in Writers PROVE Settled(items, m, w, more[w])
    <3>1. more[w] = IF S!Before(item, ":") = <<"*">> \/ S!Same(S!Before(item, ":"), w)
                    THEN S!TargetOf(item) ELSE done.log[w]
      BY DEF S!setLogParams
    <3>2. (S!Before(item, ":") = <<"*">> \/ S!Same(S!Before(item, ":"), w)) <=> About(items, m, w)
      BY <1>3, <1>8, AboutWriter DEF About, item
    <3>3. Settled(items, n, w, done.log[w])
      BY <1>8 DEF Done
    <3> HIDE DEF more
    <3>4. CASE About(items, m, w)
      BY <1>5, <3>1, <3>2, <3>4, Zenon
    <3>5. CASE ~About(items, m, w)
      <4>1. more[w] = done.log[w]
        BY <3>1, <3>2, <3>5, Zenon
      <4> QED
        BY <1>4, <3>3, <3>5, <4>1
    <3> QED
      BY <3>4, <3>5
  <2>3. DOMAIN more = Writers
    BY DEF S!setLogParams
  <2> HIDE DEF more
  <2>4. \A j \in 1 .. m : items[j] = <<>> \/ S!WellFormed(items[j])
    BY <1>1, <1>8 DEF Done, item
  <2> DEFINE new == [ok |-> TRUE, log |-> more]
  <2>5. new.ok /\ new.log = more
    OBVIOUS
  <2> HIDE DEF new
  <2>6. Done(items, m, new)
    BY <2>2, <2>3, <2>4, <2>5, Zenon DEF Done
  <2> QED
    BY <2>1, <2>6 DEF m, item, new
<1>9. CASE done.ok /\ item # <<>> /\ ~S!WellFormed(item)
  <2> DEFINE new == [ok |-> FALSE, log |-> done.log]
  <2>1. S!SetOne(done, item) = new
    BY <1>9 DEF S!SetOne
  <2>2. ~new.ok
    OBVIOUS
  <2> HIDE DEF new
  <2>3. ~\A j \in 1 .. m : items[j] = <<>> \/ S!WellFormed(items[j])
    BY <1>1, <1>9 DEF item
  <2>4. Done(items, m, new)
    BY <2>2, <2>3, Zenon DEF Done
  <2> QED
    BY <2>1, <2>4 DEF m, item
<1> QED
  BY <1>6, <1>7, <1>8, <1>9

LEMMA ListIsDone ==
  ASSUME NEW items \in Seq(Seq(STRING))
  PROVE  Done(items, Len(items), S!SetAll(items, [w \in Writers |-> S!NoTarget]))
<1> DEFINE n == Len(items)
           U == {S!NoTarget} \cup {S!TargetOf(items[j]) : j \in 1 .. n}
           T == [ok : BOOLEAN, log : [Writers -> U]]
           base == [ok |-> TRUE, log |-> [w \in Writers |-> S!NoTarget]]
           step == [p \in Nat \X T |-> IF p[1] < n THEN S!SetOne(p[2], items[p[1] + 1]) ELSE p[2]]
           Eq(g) == g = [k \in 0 .. n |-> IF k = 0 THEN base ELSE S!SetOne(g[k - 1], items[k])]
<1>1. n \in Nat /\ 0 \in 0 .. n /\ n \in 0 .. n
  OBVIOUS
<1>2. base \in T
  OBVIOUS
<1>3. ASSUME NEW done \in T, NEW j \in 1 .. n PROVE S!SetOne(done, items[j]) \in T
  <2>1. S!TargetOf(items[j]) \in U
    OBVIOUS
  <2>2. done.log \in [Writers -> U] /\ done.ok \in BOOLEAN
    OBVIOUS
  <2> HIDE DEF U, n
  <2>3. S!setLogParams(items[j], done.log) \in [Writers -> U]
    BY <2>1, <2>2 DEF S!setLogParams
  <2> QED
    BY <2>2, <2>3 DEF S!SetOne
<1> HIDE DEF U, n, base
<1>4. step \in Step(T)
  <2>1. ASSUME NEW p \in Nat \X T PROVE (IF p[1] < n THEN S!SetOne(p[2], items[p[1] + 1]) ELSE p[2]) \in T
    <3>1. p[1] \in Nat /\ p[2] \in T
      OBVIOUS
    <3>2. p[1] < n => p[1] + 1 \in 1 .. n
      BY <1>1, <3>1
    <3> HIDE DEF T
    <3> QED
      BY <1>3, <3>1, <3>2
  <2> HIDE DEF T
  <2> QED
    BY <2>1 DEF Step
<1>5. PICK f \in [0 .. n -> T] : FollowsTo(f, n, base, step)
  <2> HIDE DEF T, step
  <2> QED
    BY <1>1, <1>2, <1>4, ListRecursion
<1> HIDE DEF T
<1>6. Eq(f)
  <2>1. ASSUME NEW k \in 1 .. n PROVE f[k] = S!SetOne(f[k - 1], items[k])
    <3>1. k - 1 \in Nat /\ k - 1 \in 0 .. n /\ k - 1 < n /\ (k - 1) + 1 = k
      BY <1>1
    <3>2. <<k - 1, f[k - 1]>> \in Nat \X T
      BY <1>5, <3>1
    <3>3. step[<<k - 1, f[k - 1]>>] = S!SetOne(f[k - 1], items[k])
      BY <3>1, <3>2
    <3> QED
      BY <1>5, <3>3 DEF FollowsTo
  <2>2. f = [k \in 0 .. n |-> f[k]]
    BY <1>5
  <2>3. \A k \in 0 .. n : k = 0 \/ k \in 1 .. n
    BY <1>1
  <2> HIDE DEF step
  <2> QED
    BY <1>5, <2>1, <2>2, <2>3 DEF FollowsTo
<1> DEFINE g == CHOOSE h : Eq(h)
<1>7. S!SetAll(items, [w \in Writers |-> S!NoTarget]) = g[n]
  BY DEF S!SetAll, n, base
<1> HIDE DEF Eq
<1>8. Eq(g)
  BY <1>6
<1>9. g[0] = base
  <2> HIDE DEF g
  <2> QED
    BY <1>1, <1>8 DEF Eq
<1>10. ASSUME NEW k \in Nat, k + 1 <= n PROVE g[k + 1] = S!SetOne(g[k], items[k + 1])
  <2> DEFINE m == k + 1
  <2>1. m \in 0 .. n /\ m # 0 /\ m - 1 = k
    BY <1>1, <1>10
  <2> HIDE DEF m, g
  <2>2. g[m] = S!SetOne(g[m - 1], items[m])
    BY <1>8, <2>1 DEF Eq
  <2> QED
    BY <2>1, <2>2 DEF m
<1> DEFINE V == {k \in Nat : k <= n => Done(items, k, g[k])}
<1> HIDE DEF g
<1>11. 0 \in V
  <2>1. 1 .. 0 = {}
    OBVIOUS
  <2>2. base.ok /\ DOMAIN base.log = Writers /\ \A w \in Writers : base.log[w] = S!NoTarget
    BY DEF base
  <2>3. Done(items, 0, base)
    BY <2>1, <2>2 DEF Done, Settled
  <2> QED
    BY <1>9, <2>3
<1>12. ASSUME NEW k \in Nat, k \in V PROVE k + 1 \in V
  <2> SUFFICES ASSUME k + 1 <= n PROVE Done(items, k + 1, g[k + 1])
    OBVIOUS
  <2>1. k + 1 <= Len(items) /\ Done(items, k, g[k])
    BY <1>1, <1>12 DEF n
  <2>2. Done(items, k + 1, S!SetOne(g[k], items[k + 1]))
    BY <2>1, OneMoreItem
  <2> QED
    BY <1>10, <2>2
<1> HIDE DEF V
<1>13. Nat \subseteq V
  BY <1>11, <1>12, Induction
<1> QED
  BY <1>1, <1>7, <1>13 DEF V, n

(* What a list that is understood says of each log writer. *)
LEMMA TargetIsSettled ==
  ASSUME NEW items \in Seq(Seq(STRING)), NEW w, NEW target, Settled(items, Len(items), w, target)
  PROVE  target = S!Target(items, w)
<1> DEFINE about == {j \in DOMAIN items : items[j] # <<>> /\ (items[j][1] = "*" \/ S!Same(S!Before(items[j], ":"), w))}
           last == CHOOSE j \in about : \A m \in about : m <= j
<1>1. about = {j \in 1 .. Len(items) : About(items, j, w)}
  BY DEF About
<1>2. S!Target(items, w) = IF about = {} THEN S!NoTarget ELSE S!TargetOf(items[last])
  BY DEF S!Target
<1>3. ASSUME NEW j \in about, \A m \in about : m <= j PROVE last = j
  <2>1. last \in about /\ \A m \in about : m <= last
    BY <1>3
  <2>2. about \subseteq Nat
    BY <1>1
  <2> HIDE DEF about, last
  <2> QED
    BY <1>3, <2>1, <2>2
<1> HIDE DEF about, last
<1>4. CASE \A j \in 1 .. Len(items) : ~About(items, j, w)
  <2>1. about = {}
    BY <1>1, <1>4
  <2> QED
    BY <1>2, <1>4, <2>1 DEF Settled
<1>5. ASSUME NEW j \in 1 .. Len(items), About(items, j, w), target = S!TargetOf(items[j]),
             \A m \in 1 .. Len(items) : About(items, m, w) => m <= j
      PROVE  target = S!Target(items, w)
  <2>1. j \in about /\ \A m \in about : m <= j
    BY <1>1, <1>5
  <2> QED
    BY <1>2, <1>3, <1>5, <2>1
<1> QED
  BY <1>4, <1>5 DEF Settled

(* What becomes of the value of the Log parameter. *)
LEMMA LogIsSet ==
  ASSUME NEW text \in Seq(STRING), NEW writers
  PROVE  /\ S!LogParameter(text, writers).ok <=> S!Understood(S!Items(text))
         /\ S!LogParameter(text, writers).ok =>
              /\ DOMAIN S!LogParameter(text, writers).log = Writers
              /\ \A w \in Writers : S!LogParameter(text, writers).log[w] = S!Target(S!Items(text), w)
<1> DEFINE items == S!Items(text)
           set == S!LogParameter(text, writers)
<1>1. items \in Seq(Seq(STRING)) /\ DOMAIN items = 1 .. Len(items)
  BY ItemsAreTexts
<1>2. set = S!SetAll(items, [w \in Writers |-> S!NoTarget])
  BY DEF S!LogParameter
<1> HIDE DEF items, set
<1>3. Done(items, Len(items), set)
  BY <1>1, <1>2, ListIsDone
<1>4. set.ok <=> S!Understood(items)
  BY <1>1, <1>3 DEF Done, S!Understood
<1>5. set.ok => DOMAIN set.log = Writers /\ \A w \in Writers : set.log[w] = S!Target(items, w)
  BY <1>1, <1>3, TargetIsSettled, Zenon DEF Done
<1> QED
  BY <1>4, <1>5 DEF items, set

(* The security types of a list: those that are known, each as often as it *)
(* is named.                                                               *)
Uses(list, t) == {j \in 1 .. Len(list) : list[j] = t}
Mentions(items, n, t) == {j \in 1 .. n : S!Same(items[j], t)}

Counted(items, n, list) ==
  /\ list \in Seq(S!SecurityTypes)
  /\ \A t \in S!SecurityTypes :
       /\ IsFiniteSet(Uses(list, t)) /\ IsFiniteSet(Mentions(items, n, t))
       /\ Cardinality(Uses(list, t)) = Cardinality(Mentions(items, n, t))

LEMMA SameCardinality == \A T : S!Cardinality(T) = Cardinality(T)
BY DEF S!Cardinality, Cardinality

LEMMA OwnWords ==
  /\ \A t \in S!SecurityTypes : S!Plain(t) = t
  /\ \A n \in S!Name : S!Plain(n) = n
  /\ \A w \in S!On \cup S!Off : S!Plain(w) = w
BY CommandLineOfWords DEF S!WordsAssumption

NextType(list, item) ==
  IF \E t \in S!SecurityTypes : S!Same(item, t) THEN Append(list, S!Plain(item[1])) ELSE list

LEMMA OneMoreType ==
  ASSUME NEW items, NEW n \in Nat, NEW list, Counted(items, n, list)
  PROVE  Counted(items, n + 1, NextType(list, items[n + 1]))
<1> DEFINE m == n + 1
           item == items[m]
           more == NextType(list, item)
<1>1. m \notin 1 .. n /\ 1 .. m = (1 .. n) \cup {m}
  OBVIOUS
<1>2. list \in Seq(S!SecurityTypes)
  BY DEF Counted
<1> HIDE DEF m, item
<1>3. \A t : Mentions(items, m, t) = Mentions(items, n, t) \cup (IF S!Same(item, t) THEN {m} ELSE {})
  BY <1>1 DEF Mentions, item
<1>4. \A t : m \notin Mentions(items, n, t)
  BY <1>1 DEF Mentions
<1>5. CASE \A t \in S!SecurityTypes : ~S!Same(item, t)
  <2>1. more = list
    BY <1>5 DEF NextType
  <2>2. \A t \in S!SecurityTypes : Mentions(items, m, t) = Mentions(items, n, t)
    BY <1>3, <1>5
  <2> HIDE DEF more
  <2>3. Counted(items, m, more)
    BY <2>1, <2>2 DEF Counted
  <2> QED
    BY <2>3 DEF more, m, item
<1>6. ASSUME NEW t0 \in S!SecurityTypes, S!Same(item, t0)
      PROVE  Counted(items, m, more)
  <2>1. more = Append(list, t0) /\ \A t \in S!SecurityTypes : S!Same(item, t) <=> t = t0
    BY <1>6, OwnWords DEF NextType, S!Same
  <2> DEFINE x == Len(list) + 1
  <2>2. /\ more \in Seq(S!SecurityTypes) /\ Len(more) = x /\ more[x] = t0
        /\ \A j \in 1 .. Len(list) : more[j] = list[j]
    BY <1>2, <2>1, AppendProperties
  <2>3. x \notin 1 .. Len(list) /\ 1 .. x = (1 .. Len(list)) \cup {x}
    BY <1>2
  <2> HIDE DEF x, more
  <2>4. \A t : Uses(more, t) = Uses(list, t) \cup (IF t = t0 THEN {x} ELSE {})
    BY <2>2, <2>3 DEF Uses
  <2>5. \A t : x \notin Uses(list, t)
    BY <2>3 DEF Uses
  <2>6. ASSUME NEW t \in S!SecurityTypes
        PROVE  /\ IsFiniteSet(Uses(more, t)) /\ IsFiniteSet(Mentions(items, m, t))
               /\ Cardinality(Uses(more, t)) = Cardinality(Mentions(items, m, t))
    <3>1. /\ IsFiniteSet(Uses(list, t)) /\ IsFiniteSet(Mentions(items, n, t))
          /\ Cardinality(Uses(list, t)) = Cardinality(Mentions(items, n, t))
      BY DEF Counted
    <3>2. CASE t = t0
      <4>1. Uses(more, t) = Uses(list, t) \cup {x} /\ Mentions(items, m, t) = Mentions(items, n, t) \cup {m}
        BY <1>3, <2>1, <2>4, <3>2
      <4>2. IsFiniteSet(Uses(more, t)) /\ Cardinality(Uses(more, t)) = Cardinality(Uses(list, t)) + 1
        BY <2>5, <3>1, <4>1, FS_AddElement
      <4>3. /\ IsFiniteSet(Mentions(items, m, t))
            /\ Cardinality(Mentions(items, m, t)) = Cardinality(Mentions(items, n, t)) + 1
        BY <1>4, <3>1, <4>1, FS_AddElement
      <4> QED
        BY <3>1, <4>2, <4>3
    <3>3. CASE t # t0
      <4>1. Uses(more, t) = Uses(list, t) /\ Mentions(items, m, t) = Mentions(items, n, t)
        BY <1>3, <2>1, <2>4, <3>3
      <4> QED
        BY <3>1, <4>1
    <3> QED
      BY <3>2, <3>3
  <2> QED
    BY <2>2, <2>6 DEF Counted
<1>7. Counted(items, m, more)
  BY <1>5, <1>6 DEF m, item
<1> QED
  BY <1>7 DEF m, item

LEMMA TypesAreCounted ==
  ASSUME NEW text \in Seq(STRING)
  PROVE  Counted(S!Items(text), Len(S!Items(text)), S!parseSecTypes(text))
<1> DEFINE items == S!Items(text)
           n == Len(items)
           T == Seq(S!SecurityTypes)
           step == [p \in Nat \X T |-> NextType(p[2], items[p[1] + 1])]
           Eq(g) == g = [k \in 0 .. n |->
                           IF k = 0 THEN <<>>
                           ELSE IF \E t \in S!SecurityTypes : S!Same(items[k], t)
                                THEN Append(g[k - 1], S!Plain(items[k][1]))
                           ELSE g[k - 1]]
<1>1. n \in Nat /\ 0 \in 0 .. n /\ n \in 0 .. n /\ <<>> \in T
  <2>1. items \in Seq(Seq(STRING))
    BY ItemsAreTexts
  <2> HIDE DEF items
  <2> QED
    BY <2>1
<1>2. S!parseSecTypes(text) = (CHOOSE g : Eq(g))[n]
  BY DEF S!parseSecTypes
<1> HIDE DEF items, n
<1>3. ASSUME NEW list \in T, NEW item PROVE NextType(list, item) \in T
  <2>1. CASE \A t \in S!SecurityTypes : ~S!Same(item, t)
    BY <1>3, <2>1 DEF NextType
  <2>2. ASSUME NEW t \in S!SecurityTypes, S!Same(item, t) PROVE NextType(list, item) \in T
    <3>1. NextType(list, item) = Append(list, t)
      BY <2>2, OwnWords DEF NextType, S!Same
    <3> QED
      BY <3>1, AppendProperties
  <2> QED
    BY <2>1, <2>2
<1> HIDE DEF T
<1>4. step \in Step(T)
  <2>1. \A p \in Nat \X T : NextType(p[2], items[p[1] + 1]) \in T
    BY <1>3
  <2> QED
    BY <2>1 DEF Step
<1>5. PICK f \in [0 .. n -> T] : FollowsTo(f, n, <<>>, step)
  <2> HIDE DEF step
  <2> QED
    BY <1>1, <1>4, ListRecursion
<1>6. Eq(f)
  <2>1. ASSUME NEW k \in 1 .. n PROVE f[k] = NextType(f[k - 1], items[k])
    <3>1. k - 1 \in Nat /\ k - 1 \in 0 .. n /\ (k - 1) + 1 = k
      BY <1>1
    <3>2. <<k - 1, f[k - 1]>> \in Nat \X T
      BY <1>5, <3>1
    <3>3. step[<<k - 1, f[k - 1]>>] = NextType(f[k - 1], items[k])
      BY <3>1, <3>2
    <3> QED
      BY <1>5, <3>3 DEF FollowsTo
  <2>2. f = [k \in 0 .. n |-> f[k]]
    BY <1>5
  <2>3. \A k \in 0 .. n : k = 0 \/ k \in 1 .. n
    BY <1>1
  <2> HIDE DEF step
  <2> QED
    BY <1>5, <2>1, <2>2, <2>3 DEF FollowsTo, NextType
<1> DEFINE g == CHOOSE h : Eq(h)
<1> HIDE DEF Eq
<1>7. Eq(g)
  BY <1>6
<1>8. g[0] = <<>>
  <2> HIDE DEF g
  <2> QED
    BY <1>1, <1>7 DEF Eq
<1>9. ASSUME NEW k \in Nat, k + 1 <= n PROVE g[k + 1] = NextType(g[k], items[k + 1])
  <2> DEFINE m == k + 1
  <2>1. m \in 0 .. n /\ m # 0 /\ m - 1 = k
    BY <1>1, <1>9
  <2> HIDE DEF m, g
  <2>2. g[m] = NextType(g[m - 1], items[m])
    BY <1>7, <2>1 DEF Eq, NextType
  <2> QED
    BY <2>1, <2>2 DEF m
<1> DEFINE V == {k \in Nat : k <= n => Counted(items, k, g[k])}
<1> HIDE DEF g
<1>10. 0 \in V
  <2>1. 1 .. 0 = {} /\ Len(<<>>) = 0 /\ <<>> \in Seq(S!SecurityTypes)
    OBVIOUS
  <2>2. \A t : Uses(<<>>, t) = {} /\ Mentions(items, 0, t) = {}
    BY <2>1 DEF Uses, Mentions
  <2>3. Counted(items, 0, <<>>)
    BY <2>1, <2>2, FS_EmptySet DEF Counted
  <2> QED
    BY <1>8, <2>3
<1>11. ASSUME NEW k \in Nat, k \in V PROVE k + 1 \in V
  <2> SUFFICES ASSUME k + 1 <= n PROVE Counted(items, k + 1, g[k + 1])
    OBVIOUS
  <2>1. Counted(items, k, g[k])
    BY <1>1, <1>11
  <2>2. Counted(items, k + 1, NextType(g[k], items[k + 1]))
    BY <2>1, OneMoreType
  <2> QED
    BY <1>9, <2>2
<1> HIDE DEF V
<1>12. Nat \subseteq V
  BY <1>10, <1>11, Induction
<1>13. Counted(items, n, g[n])
  BY <1>1, <1>12 DEF V
<1>14. S!parseSecTypes(text) = g[n]
  BY <1>2 DEF g
<1> QED
  BY <1>13, <1>14 DEF items, n

(* A parameter that is named takes a value of its kind, and only that.     *)
Effect(set, n, text) ==
  /\ set.value = [value EXCEPT ![n] = S!Meaning(n, text)]
  /\ n # "Log" => set.log = log
  /\ n = "Log" => \A w \in Writers : set.log[w] = S!Target(S!Items(text), w)

LEMMA Kinds ==
  \A n \in S!Name : Kind[n] \in {"bool", "int", "string", "log"} /\ (Kind[n] = "log" <=> n = "Log")
BY CommandLineOfWords DEF S!WordsAssumption

LEMMA NameIsOne ==
  ASSUME NEW name, NEW n \in S!Name, S!Same(name, n)
  PROVE  S!Plain(name[1]) = n /\ Len(name) = 1
BY OwnWords DEF S!Same

LEMMA NotNamed ==
  ASSUME NEW name, NEW text, \A n \in S!Name : ~S!Same(name, n)
  PROVE  S!setParam(name, text).ok = FALSE
BY DEF S!setParam, S!Unknown

LEMMA ParameterIsSet ==
  ASSUME NEW name, NEW n \in S!Name, S!Same(name, n), NEW text \in Seq(STRING)
  PROVE  /\ S!setParam(name, text).ok <=> S!Fits(n, text)
         /\ S!Fits(n, text) => Effect(S!setParam(name, text), n, text)
<1> DEFINE Gives(v) == [ok |-> TRUE, value |-> [value EXCEPT ![n] = v], log |-> log]
           set == S!setParam(name, text)
<1>1. S!Plain(name[1]) = n
  BY NameIsOne
<1>2. set = CASE Kind[n] = "bool" -> IF text = <<>> \/ \E w \in S!On : S!Same(text, w) THEN Gives(TRUE)
                                     ELSE IF \E w \in S!Off : S!Same(text, w) THEN Gives(FALSE)
                                     ELSE S!Unknown
              [] Kind[n] = "int" -> Gives(S!atoi(text))
              [] Kind[n] = "string" -> Gives(text)
              [] Kind[n] = "log" -> [ok |-> S!LogParameter(text, log).ok, value |-> [value EXCEPT ![n] = text],
                                     log |-> S!LogParameter(text, log).log]
  BY <1>1 DEF S!setParam
<1> HIDE DEF set
<1>3. ASSUME NEW v, set = Gives(v), S!Meaning(n, text) = v, S!Fits(n, text), n # "Log"
       PROVE  (set.ok <=> S!Fits(n, text)) /\ (S!Fits(n, text) => Effect(set, n, text))
  BY <1>3 DEF Effect
<1>4. CASE Kind[n] = "bool"
  <2>1. n # "Log"
    BY <1>4, Kinds
  <2>2. set = IF text = <<>> \/ \E w \in S!On : S!Same(text, w) THEN Gives(TRUE)
              ELSE IF \E w \in S!Off : S!Same(text, w) THEN Gives(FALSE)
              ELSE S!Unknown
    BY <1>2, <1>4
  <2>3. S!Fits(n, text) <=> text = <<>> \/ \E w \in S!On \cup S!Off : S!Same(text, w)
    BY <1>4 DEF S!Fits
  <2>4. ASSUME text = <<>> \/ \E w \in S!On : S!Same(text, w) PROVE ~\E w \in S!Off : S!Same(text, w)
    <3>1. S!On \cap S!Off = {}
      BY DEF S!On, S!Off
    <3>2. text = <<>> => Len(text) # 1
      OBVIOUS
    <3> QED
      BY <2>4, <3>1, <3>2, OwnWords DEF S!Same
  <2>5. S!Meaning(n, text) = IF \E w \in S!Off : S!Same(text, w) THEN FALSE ELSE TRUE
    BY <1>4 DEF S!Meaning
  <2>6. CASE text = <<>> \/ \E w \in S!On : S!Same(text, w)
    <3>1. set = Gives(TRUE) /\ S!Meaning(n, text) = TRUE
      BY <2>2, <2>4, <2>5, <2>6
    <3>2. S!Fits(n, text)
      BY <2>3, <2>6
    <3> QED
      BY <1>3, <2>1, <3>1, <3>2 DEF set
  <2>7. CASE ~(text = <<>> \/ \E w \in S!On : S!Same(text, w)) /\ \E w \in S!Off : S!Same(text, w)
    <3>1. set = Gives(FALSE) /\ S!Meaning(n, text) = FALSE
      BY <2>2, <2>5, <2>7
    <3>2. S!Fits(n, text)
      BY <2>3, <2>7
    <3> QED
      BY <1>3, <2>1, <3>1, <3>2 DEF set
  <2>8. CASE ~(text = <<>> \/ \E w \in S!On : S!Same(text, w)) /\ ~\E w \in S!Off : S!Same(text, w)
    <3>1. set = S!Unknown
      BY <2>2, <2>8
    <3>2. ~S!Fits(n, text)
      BY <2>3, <2>8
    <3> QED
      BY <3>1, <3>2 DEF set, S!Unknown
  <2> QED
    BY <2>6, <2>7, <2>8
<1>5. CASE Kind[n] = "int"
  <2>1. n # "Log" /\ S!Fits(n, text)
    BY <1>5, Kinds DEF S!Fits
  <2>2. set = Gives(S!atoi(text)) /\ S!Meaning(n, text) = S!atoi(text)
    BY <1>2, <1>5 DEF S!Meaning
  <2> QED
    BY <1>3, <2>1, <2>2 DEF set
<1>6. CASE Kind[n] = "string"
  <2>1. n # "Log" /\ S!Fits(n, text)
    BY <1>6, Kinds DEF S!Fits
  <2>2. set = Gives(text) /\ S!Meaning(n, text) = text
    BY <1>2, <1>6 DEF S!Meaning
  <2> QED
    BY <1>3, <2>1, <2>2 DEF set
<1>7. CASE Kind[n] = "log"
  <2>1. n = "Log" /\ (S!Fits(n, text) <=> S!Understood(S!Items(text)))
    BY <1>7, Kinds DEF S!Fits
  <2> DEFINE all == S!LogParameter(text, log)
  <2>2. set = [ok |-> all.ok, value |-> [value EXCEPT ![n] = text], log |-> all.log] /\ S!Meaning(n, text) = text
    BY <1>2, <1>7 DEF S!Meaning
  <2>3. /\ all.ok <=> S!Understood(S!Items(text))
        /\ all.ok => \A w \in Writers : all.log[w] = S!Target(S!Items(text), w)
    BY LogIsSet
  <2> HIDE DEF all
  <2>4. set.ok = all.ok /\ set.log = all.log /\ set.value = [value EXCEPT ![n] = text]
    BY <2>2
  <2>5. (set.ok <=> S!Fits(n, text)) /\ (S!Fits(n, text) => Effect(set, n, text))
    BY <2>1, <2>2, <2>3, <2>4 DEF Effect
  <2> QED
    BY <2>5 DEF set
<1> QED
  BY <1>4, <1>5, <1>6, <1>7, Kinds

(* The two ways to read an argument. *)
DoubleDash(a) == Len(a) > 1 /\ a[2] = "-"

LEMMA WithoutDashes ==
  ASSUME NEW a \in Seq(STRING)
  PROVE  /\ S!Contains(S!Stripped(a), "=") <=> S!Joined(a)
         /\ S!Joined(a) => S!Behind(S!Stripped(a), "=") = S!Behind(a, "=")
         /\ S!Dashed(a) <=> S!Stripped(a) # a
         /\ S!Dashed(a) /\ ~DoubleDash(a) => S!Stripped(a) = Tail(a)
<1>1. CASE ~S!Dashed(a)
  BY <1>1 DEF S!Stripped, S!Joined
<1>2. CASE S!Dashed(a)
  <2>1. a # <<>> /\ a[1] # "="
    BY <1>2 DEF S!Dashed
  <2>2. Tail(a) \in Seq(STRING) /\ Len(Tail(a)) = Len(a) - 1 /\ Len(a) \in Nat /\ Len(Tail(a)) \in Nat
        /\ \A j \in 1 .. Len(Tail(a)) : Tail(a)[j] = a[j + 1]
    BY <2>1, HeadTailProperties
  <2>3. /\ S!Contains(Tail(a), "=") <=> S!Contains(a, "=")
        /\ S!Contains(a, "=") => S!Behind(Tail(a), "=") = S!Behind(a, "=")
    BY <2>1, BehindOfTail
  <2>4. \A x \in Nat : x - 1 # x /\ x - 1 - 1 # x
    OBVIOUS
  <2>5. Len(a) \in Nat /\ Len(Tail(a)) = Len(a) - 1
    BY <2>2
  <2>6. CASE ~DoubleDash(a)
    <3>1. S!Stripped(a) = Tail(a)
      BY <1>2, <2>6 DEF S!Stripped, DoubleDash
    <3>2. Tail(a) # a
      BY <2>4, <2>5
    <3> QED
      BY <1>2, <2>3, <3>1, <3>2 DEF S!Joined
  <2>7. CASE DoubleDash(a)
    <3> DEFINE rest == Tail(a)
    <3>1. S!Stripped(a) = Tail(rest)
      BY <1>2, <2>7 DEF S!Stripped, DoubleDash
    <3>2. rest # <<>> /\ rest[1] = "-"
      <4>1. 1 \in 1 .. Len(rest)
        BY <2>2, <2>7 DEF DoubleDash
      <4>2. rest[1] = a[2]
        BY <2>2, <4>1
      <4>3. 1 \notin 1 .. Len(<<>>)
        OBVIOUS
      <4> QED
        BY <2>7, <4>1, <4>2, <4>3, Zenon DEF DoubleDash
    <3>3. rest[1] # "="
      BY <3>2
    <3>4. rest \in Seq(STRING)
      BY <2>2
    <3> HIDE DEF rest
    <3>5. /\ S!Contains(Tail(rest), "=") <=> S!Contains(rest, "=")
          /\ S!Contains(rest, "=") => S!Behind(Tail(rest), "=") = S!Behind(rest, "=")
      BY <3>2, <3>3, <3>4, BehindOfTail
    <3>6. Len(Tail(rest)) = Len(rest) - 1
      BY <3>2, <3>4, HeadTailProperties
    <3>7. Tail(rest) # a
      BY <2>4, <2>5, <3>6, Zenon DEF rest
    <3> QED
      BY <1>2, <2>3, <2>7, <3>1, <3>5, <3>7 DEF S!Joined, rest
  <2> QED
    BY <2>6, <2>7
<1> QED
  BY <1>1, <1>2

LEMMA Alone ==
  ASSUME NEW a \in Seq(STRING)
  PROVE  /\ S!setConfig(a).ok <=>
              \E n \in S!Name :
                /\ S!Names(a, n)
                /\ \/ S!Joined(a) /\ S!Fits(n, S!Behind(a, "="))
                   \/ ~S!Joined(a) /\ S!Dashed(a) /\ Kind[n] = "bool"
         /\ \A n \in S!Name :
              S!setConfig(a).ok /\ S!Names(a, n)
                => Effect(S!setConfig(a), n, IF S!Joined(a) THEN S!Behind(a, "=") ELSE <<>>)
<1> DEFINE config == S!Stripped(a)
           set == S!setConfig(a)
<1>1. /\ S!Contains(config, "=") <=> S!Joined(a)
      /\ S!Joined(a) => S!Behind(config, "=") = S!Behind(a, "=")
      /\ S!Dashed(a) <=> config # a
  BY WithoutDashes
<1>2. set = IF S!Contains(config, "=") THEN S!setParam(S!Before(config, "="), S!Behind(config, "="))
            ELSE IF config # a THEN S!turnOn(config)
            ELSE S!Unknown
  BY DEF S!setConfig
<1>3. \A n : S!Names(a, n) <=> S!Same(S!Before(config, "="), n)
  BY DEF S!Names, S!NameOf
<1>4. CASE S!Joined(a)
  <2> DEFINE text == S!Behind(a, "=")
             name == S!Before(config, "=")
  <2>1. text \in Seq(STRING)
    BY <1>4, BehindIsText DEF S!Joined
  <2>2. set = S!setParam(name, text)
    BY <1>1, <1>2, <1>4
  <2> HIDE DEF text, name, config, set
  <2>3. ASSUME NEW n \in S!Name, S!Names(a, n)
        PROVE  (set.ok <=> S!Fits(n, text)) /\ (S!Fits(n, text) => Effect(set, n, text))
    <3>1. S!Same(name, n)
      BY <1>3, <2>3 DEF name
    <3> QED
      BY <2>1, <2>2, <3>1, ParameterIsSet
  <2>4. ASSUME \A n \in S!Name : ~S!Names(a, n) PROVE ~set.ok
    <3>1. \A n \in S!Name : ~S!Same(name, n)
      BY <1>3, <2>4 DEF name
    <3> QED
      BY <2>2, <3>1, NotNamed
  <2> QED
    BY <1>4, <2>3, <2>4, Zenon DEF text, set
<1>5. CASE ~S!Joined(a) /\ S!Dashed(a)
  <2>1. set = S!turnOn(config)
    BY <1>1, <1>2, <1>5
  <2>2. \A n : S!Names(a, n) <=> S!Same(config, n)
    BY <1>1, <1>3, <1>5, BeforeWithout
  <2> HIDE DEF config, set
  <2>3. ASSUME NEW n \in S!Name, S!Names(a, n), Kind[n] = "bool" PROVE set.ok /\ Effect(set, n, <<>>)
    <3>1. S!Same(config, n) /\ S!Plain(config[1]) = n
      BY <2>2, <2>3, NameIsOne
    <3>2. set = [S!Unknown EXCEPT !.ok = TRUE, !.value[n] = TRUE]
      BY <2>1, <2>3, <3>1 DEF S!turnOn
    <3>3. set = [ok |-> TRUE, value |-> [value EXCEPT ![n] = TRUE], log |-> log]
      BY <3>2 DEF S!Unknown
    <3>4. \A w \in S!Off : ~S!Same(<<>>, w)
      BY DEF S!Same
    <3>5. n # "Log"
      BY <2>3, Kinds
    <3>6. S!Meaning(n, <<>>) = TRUE
      BY <2>3, <3>4 DEF S!Meaning
    <3> QED
      BY <3>3, <3>5, <3>6 DEF Effect
  <2>4. ASSUME \A n \in S!Name : S!Names(a, n) => Kind[n] # "bool" PROVE ~set.ok
    <3>1. set = S!Unknown
      BY <2>1, <2>2, <2>4 DEF S!turnOn
    <3> QED
      BY <3>1 DEF S!Unknown
  <2>5. \A n, n2 \in S!Name : S!Names(a, n) /\ S!Names(a, n2) => n = n2
    BY NameIsOne, Zenon DEF S!Names
  <2> QED
    BY <1>5, <2>3, <2>4, <2>5, Zenon DEF set
<1>6. CASE ~S!Joined(a) /\ ~S!Dashed(a)
  <2>1. set = S!Unknown
    BY <1>1, <1>2, <1>6
  <2>2. ~set.ok
    BY <2>1 DEF S!Unknown
  <2> QED
    BY <1>6, <2>2
<1> QED
  BY <1>4, <1>5, <1>6

LEMMA WithTheNext ==
  ASSUME NEW a \in Seq(STRING), S!Dashed(a), ~S!setConfig(a).ok, NEW text \in Seq(STRING)
  PROVE  /\ S!setParam(Tail(a), text).ok <=>
              S!WantsValue(a) /\ ~DoubleDash(a) /\ \E n \in S!Name : S!Names(a, n) /\ S!Fits(n, text)
         /\ \A n \in S!Name :
              S!setParam(Tail(a), text).ok /\ S!Names(a, n) => Effect(S!setParam(Tail(a), text), n, text)
<1> DEFINE set == S!setParam(Tail(a), text)
<1>1. a # <<>> /\ a[1] = "-" /\ a[1] # "="
  BY DEF S!Dashed
<1>2. Tail(a) \in Seq(STRING) /\ Len(a) \in Nat /\ Len(Tail(a)) = Len(a) - 1
      /\ \A j \in 1 .. Len(Tail(a)) : Tail(a)[j] = a[j + 1]
  BY <1>1, HeadTailProperties
<1>3. S!Plain("-") \notin S!Name /\ S!Plain("=") \notin S!Name
  BY CommandLineOfWords DEF S!WordsAssumption
<1>4. CASE S!Joined(a)
  <2>1. S!Contains(Tail(a), "=")
    BY <1>1, <1>4, BehindOfTail DEF S!Joined
  <2>2. ASSUME NEW n \in S!Name PROVE ~S!Same(Tail(a), n)
    <3> SUFFICES ASSUME S!Same(Tail(a), n) PROVE FALSE
      OBVIOUS
    <3>1. Len(Tail(a)) = 1 /\ S!Plain(Tail(a)[1]) = n
      BY NameIsOne
    <3>2. Tail(a)[1] = "="
      BY <2>1, <3>1 DEF S!Contains
    <3> QED
      BY <1>3, <3>1, <3>2
  <2>3. ~set.ok
    BY <2>2, NotNamed
  <2>4. ~S!WantsValue(a)
    BY <1>4 DEF S!WantsValue
  <2> QED
    BY <2>3, <2>4
<1>5. CASE ~S!Joined(a) /\ DoubleDash(a)
  <2>1. Len(a) > 1 /\ a[2] = "-"
    BY <1>5 DEF DoubleDash
  <2>2. ASSUME NEW n \in S!Name PROVE ~S!Same(Tail(a), n)
    <3> SUFFICES ASSUME S!Same(Tail(a), n) PROVE FALSE
      OBVIOUS
    <3>1. Len(Tail(a)) = 1 /\ S!Plain(Tail(a)[1]) = n
      BY NameIsOne
    <3>2. 1 \in 1 .. 1 /\ 1 + 1 = 2
      OBVIOUS
    <3>3. Tail(a)[1] = "-"
      BY <1>2, <2>1, <3>1, <3>2, Zenon
    <3> QED
      BY <1>3, <3>1, <3>3
  <2>3. ~set.ok
    BY <2>2, NotNamed
  <2> QED
    BY <1>5, <2>3
<1>6. CASE ~S!Joined(a) /\ ~DoubleDash(a)
  <2>1. S!Stripped(a) = Tail(a) /\ ~S!Contains(S!Stripped(a), "=")
    BY <1>6, WithoutDashes
  <2>2. \A n : S!Names(a, n) <=> S!Same(Tail(a), n)
    BY <2>1, BeforeWithout DEF S!Names, S!NameOf
  <2>3. S!WantsValue(a)
    BY <1>6, Alone DEF S!WantsValue
  <2>4. ASSUME NEW n \in S!Name, S!Names(a, n)
        PROVE  (set.ok <=> S!Fits(n, text)) /\ (S!Fits(n, text) => Effect(set, n, text))
    <3>1. S!Same(Tail(a), n)
      BY <2>2, <2>4
    <3> QED
      BY <3>1, ParameterIsSet
  <2>5. ASSUME \A n \in S!Name : ~S!Names(a, n) PROVE ~set.ok
    <3>1. \A n \in S!Name : ~S!Same(Tail(a), n)
      BY <2>2, <2>5
    <3> QED
      BY <3>1, NotNamed
  <2> HIDE DEF set
  <2> QED
    BY <1>6, <2>3, <2>4, <2>5, Zenon DEF set
<1> QED
  BY <1>4, <1>5, <1>6

(* Which arguments are values: a set that the definition asks for exists,  *)
(* and a value follows an option that wants one.                           *)
LEMMA ValuesFollow ==
  ASSUME argv \in Seq(Arguments)
  PROVE  /\ S!Values \subseteq 2 .. Len(argv)
         /\ \A k \in 2 .. Len(argv) : k \in S!Values <=> k - 1 \notin S!Values /\ S!WantsValue(argv[k - 1])
<1> DEFINE After(V, n) == V \subseteq 2 .. n /\ \A k \in 2 .. n : k \in V <=> k - 1 \notin V /\ S!WantsValue(argv[k - 1])
           T == {n \in Nat : \E V : After(V, n)}
<1>1. 0 \in T
  <2>1. After({}, 0)
    OBVIOUS
  <2> QED
    BY <2>1
<1>2. ASSUME NEW n \in Nat, n \in T PROVE n + 1 \in T
  <2>1. PICK V : After(V, n)
    BY <1>2
  <2> DEFINE m == n + 1
             X == V \cup (IF m >= 2 /\ n \notin V /\ S!WantsValue(argv[n]) THEN {m} ELSE {})
  <2>2. X \subseteq 2 .. m
    BY <2>1
  <2>3. m \notin V /\ \A k \in 2 .. m : (k \in 2 .. n /\ k # m /\ k - 1 # m) \/ (k = m /\ k - 1 = n /\ m >= 2 /\ k - 1 # m)
    BY <2>1
  <2>4. ASSUME NEW k \in 2 .. m PROVE k \in X <=> k - 1 \notin X /\ S!WantsValue(argv[k - 1])
    <3>1. k - 1 \in X <=> k - 1 \in V
      BY <2>3
    <3>2. CASE k \in 2 .. n /\ k # m
      <4>1. k \in X <=> k \in V
        BY <3>2
      <4> QED
        BY <2>1, <3>1, <3>2, <4>1
    <3>3. CASE k = m /\ k - 1 = n /\ m >= 2
      <4>1. k \in X <=> n \notin V /\ S!WantsValue(argv[n])
        BY <2>3, <3>3
      <4> QED
        BY <3>1, <3>3, <4>1
    <3> QED
      BY <2>3, <3>2, <3>3
  <2> HIDE DEF X, m
  <2>5. After(X, m)
    BY <2>2, <2>4
  <2>6. m \in Nat
    BY DEF m
  <2> HIDE DEF After
  <2> QED
    BY <2>5, <2>6 DEF m
<1> HIDE DEF T
<1>3. Nat \subseteq T
  BY <1>1, <1>2, Induction
<1>4. Len(argv) \in Nat
  OBVIOUS
<1>5. \E V : After(V, Len(argv))
  BY <1>3, <1>4 DEF T
<1>6. S!Values = CHOOSE V \in SUBSET (2 .. Len(argv)) :
                   \A k \in 2 .. Len(argv) : k \in V <=> k - 1 \notin V /\ S!WantsValue(argv[k - 1])
  BY DEF S!Values
<1> QED
  BY <1>5, <1>6

LEMMA ArgumentIsText ==
  ASSUME argv \in Seq(Arguments), NEW k \in 1 .. Len(argv) PROVE argv[k] \in Seq(STRING)
<1>1. Arguments \subseteq Seq(STRING)
  BY CommandLineOfWords DEF S!WordsAssumption
<1> QED
  BY <1>1, ElementOfSeq

(* Each of the three outcomes for an option says whether it is right.      *)
LEMMA AloneIsRight ==
  ASSUME argv \in Seq(Arguments), NEW k \in 1 .. Len(argv), S!setConfig(argv[k]).ok
  PROVE  /\ ~S!WantsValue(argv[k]) /\ S!Right(k)
         /\ \E n \in S!Name : S!Names(argv[k], n) /\ Effect(S!setConfig(argv[k]), n, S!Given(k))
<1> DEFINE a == argv[k]
           set == S!setConfig(a)
<1>1. a \in Seq(STRING)
  BY ArgumentIsText
<1> HIDE DEF set
<1>2. PICK n \in S!Name : /\ S!Names(a, n)
                          /\ \/ S!Joined(a) /\ S!Fits(n, S!Behind(a, "="))
                             \/ ~S!Joined(a) /\ S!Dashed(a) /\ Kind[n] = "bool"
  BY <1>1, Alone
<1>3. Effect(set, n, IF S!Joined(a) THEN S!Behind(a, "=") ELSE <<>>)
  BY <1>1, <1>2, Alone DEF set
<1>4. ~S!WantsValue(a)
  BY <1>2 DEF S!WantsValue
<1>5. S!Given(k) = IF S!Joined(a) THEN S!Behind(a, "=") ELSE <<>>
  BY <1>4 DEF S!Given
<1>6. S!Fits(n, S!Given(k))
  <2>1. CASE S!Joined(a)
    BY <1>2, <1>5, <2>1
  <2>2. CASE ~S!Joined(a)
    <3>1. S!Given(k) = <<>> /\ Kind[n] = "bool"
      BY <1>2, <1>5, <2>2
    <3> QED
      BY <3>1 DEF S!Fits
  <2> QED
    BY <2>1, <2>2
<1>7. S!Right(k)
  BY <1>2, <1>4, <1>6 DEF S!Right
<1> QED
  BY <1>2, <1>3, <1>4, <1>5, <1>7 DEF set

LEMMA PairIsRight ==
  ASSUME argv \in Seq(Arguments), NEW k \in 1 .. Len(argv), k < Len(argv), S!Dashed(argv[k]),
         ~S!setConfig(argv[k]).ok, S!setParam(Tail(argv[k]), argv[k + 1]).ok
  PROVE  /\ S!WantsValue(argv[k]) /\ S!Right(k)
         /\ \E n \in S!Name :
              S!Names(argv[k], n) /\ Effect(S!setParam(Tail(argv[k]), argv[k + 1]), n, S!Given(k))
<1> DEFINE a == argv[k]
           text == argv[k + 1]
<1>1. k + 1 \in 1 .. Len(argv)
  OBVIOUS
<1>2. a \in Seq(STRING) /\ text \in Seq(STRING)
  BY <1>1, ArgumentIsText
<1>3. S!WantsValue(a) /\ ~DoubleDash(a) /\ \E n \in S!Name : S!Names(a, n) /\ S!Fits(n, text)
  BY <1>2, WithTheNext
<1>4. ~S!Joined(a) /\ S!Given(k) = text
  BY <1>3 DEF S!WantsValue, S!Given
<1>5. S!Right(k)
  BY <1>3, <1>4 DEF S!Right, DoubleDash
<1>6. \A n \in S!Name : S!Names(a, n) => Effect(S!setParam(Tail(a), text), n, text)
  BY <1>2, WithTheNext
<1> QED
  BY <1>3, <1>4, <1>5, <1>6

LEMMA NeitherIsWrong ==
  ASSUME argv \in Seq(Arguments), NEW k \in 1 .. Len(argv), ~S!setConfig(argv[k]).ok,
         ~(S!Dashed(argv[k]) /\ k < Len(argv) /\ S!setParam(Tail(argv[k]), argv[k + 1]).ok)
  PROVE  ~S!Right(k)
<1> DEFINE a == argv[k]
           text == argv[k + 1]
<1> SUFFICES ASSUME S!Right(k) PROVE FALSE
  OBVIOUS
<1>1. a \in Seq(STRING)
  BY ArgumentIsText
<1>2. PICK n \in S!Name : S!Names(a, n) /\ S!Fits(n, S!Given(k))
  BY DEF S!Right
<1>3. ~S!Joined(a)
  <2> SUFFICES ASSUME S!Joined(a) PROVE FALSE
    OBVIOUS
  <2>1. S!Given(k) = S!Behind(a, "=")
    BY DEF S!Given
  <2>2. S!Fits(n, S!Behind(a, "="))
    BY <1>2, <2>1
  <2> QED
    BY <1>1, <1>2, <2>2, Alone
<1>4. S!Dashed(a)
  BY <1>3 DEF S!Right
<1>5. S!WantsValue(a)
  BY <1>1, <1>3, <1>4, Alone DEF S!WantsValue
<1>6. k < Len(argv) /\ ~DoubleDash(a) /\ S!Given(k) = text
  BY <1>3, <1>5 DEF S!Right, DoubleDash, S!Given
<1>7. k + 1 \in 1 .. Len(argv)
  BY <1>6
<1>8. text \in Seq(STRING)
  BY <1>7, ArgumentIsText
<1>9. S!Fits(n, text)
  BY <1>2, <1>6
<1> QED
  BY <1>1, <1>2, <1>4, <1>5, <1>6, <1>8, <1>9, WithTheNext

(* What has been read when the argument at p is next: the options before p *)
(* are right and say what the parameters and the log writers are.          *)
Shown(p, n, v) ==
  \/ /\ \A k \in S!Options : k < p => ~S!Names(argv[k], n)
     /\ v = Default[n]
  \/ \E k \in S!Options :
       /\ k < p /\ S!Names(argv[k], n)
       /\ \A m \in S!Options : m < p /\ S!Names(argv[m], n) => m <= k
       /\ v = S!Meaning(n, S!Given(k))

LogShown(p, w, target, text) ==
  IF \E k \in S!Options : k < p /\ S!Names(argv[k], "Log") THEN target = S!Target(S!Items(text), w)
  ELSE target = [logger |-> "stdout", level |-> 30]

Read(p, values, targets) ==
  /\ p \in 1 .. Len(argv) + 1 /\ p \notin S!Values
  /\ \A k \in S!Options : k < p => S!Right(k)
  /\ DOMAIN values = S!Name
  /\ \A n \in S!Name : Shown(p, n, values[n])
  /\ \A w \in Writers : LogShown(p, w, targets[w], values["Log"])

LEMMA OptionIsRead ==
  ASSUME argv \in Seq(Arguments), NEW p \in 1 .. Len(argv), Read(p, value, log), S!Right(p),
         NEW q, q = p + (IF S!WantsValue(argv[p]) THEN 2 ELSE 1),
         NEW n \in S!Name, S!Names(argv[p], n), NEW set, Effect(set, n, S!Given(p))
  PROVE  Read(q, set.value, set.log)
<1>1. /\ S!Values \subseteq 2 .. Len(argv)
      /\ \A k \in 2 .. Len(argv) : k \in S!Values <=> k - 1 \notin S!Values /\ S!WantsValue(argv[k - 1])
  BY ValuesFollow
<1>2. p \notin S!Values /\ Len(argv) \in Nat
  BY DEF Read
<1>3. p \in S!Options /\ S!Options \subseteq 1 .. Len(argv)
  BY <1>2 DEF S!Options
<1>4. S!WantsValue(argv[p]) => p < Len(argv)
  BY DEF S!Right
<1>5. p + 1 \in S!Values <=> S!WantsValue(argv[p])
  <2>1. p + 1 \in 2 .. Len(argv) => (p + 1 \in S!Values <=> S!WantsValue(argv[p]))
    <3> SUFFICES ASSUME p + 1 \in 2 .. Len(argv) PROVE p + 1 \in S!Values <=> S!WantsValue(argv[p])
      OBVIOUS
    <3> DEFINE m == p + 1
    <3>1. m \in 2 .. Len(argv) /\ m - 1 = p
      OBVIOUS
    <3> HIDE DEF m
    <3>2. m \in S!Values <=> S!WantsValue(argv[p])
      BY <1>1, <1>2, <3>1
    <3> QED
      BY <3>2 DEF m
  <2>2. p + 1 \in 2 .. Len(argv) \/ (p + 1 \notin 2 .. Len(argv) /\ ~(p < Len(argv)))
    BY <1>2
  <2> QED
    BY <1>1, <1>4, <2>1, <2>2
<1>6. q \in 1 .. Len(argv) + 1 /\ q \notin S!Values
  <2>1. CASE S!WantsValue(argv[p])
    <3>1. q = p + 2 /\ q \in 1 .. Len(argv) + 1 /\ q - 1 = p + 1
      BY <1>2, <1>4, <2>1
    <3>2. q \in 2 .. Len(argv) => q \notin S!Values
      BY <1>1, <1>5, <2>1, <3>1
    <3> QED
      BY <1>1, <3>1, <3>2
  <2>2. CASE ~S!WantsValue(argv[p])
    <3>1. q = p + 1 /\ q \in 1 .. Len(argv) + 1
      BY <1>2, <2>2
    <3> QED
      BY <1>5, <2>2, <3>1
  <2> QED
    BY <2>1, <2>2
<1>7. /\ \A k \in S!Options : k < q <=> k < p \/ k = p
      /\ \A k \in S!Options : k < p => k <= p
      /\ p < q /\ p <= p /\ ~(p < p)
  <2>1. \A k \in S!Options : k # p + 1 \/ ~S!WantsValue(argv[p])
    BY <1>5 DEF S!Options
  <2>2. \A k \in 1 .. Len(argv) : /\ k < p => k <= p
                                  /\ k < p + 1 <=> k < p \/ k = p
                                  /\ k < p + 2 <=> k < p \/ k = p \/ k = p + 1
    BY <1>2
  <2>3. p < p + 1 /\ p < p + 2 /\ p <= p /\ ~(p < p)
    OBVIOUS
  <2> QED
    BY <1>3, <2>1, <2>2, <2>3
<1>8. \A k \in S!Options : k < q => S!Right(k)
  BY <1>7, Zenon DEF Read
<1>9. DOMAIN value = S!Name /\ set.value = [value EXCEPT ![n] = S!Meaning(n, S!Given(p))]
  BY DEF Read, Effect
<1>10. /\ DOMAIN set.value = S!Name /\ set.value[n] = S!Meaning(n, S!Given(p))
       /\ \A x \in S!Name : x # n => set.value[x] = value[x]
  BY <1>9
<1>11. ASSUME NEW x \in S!Name, S!Names(argv[p], x) PROVE x = n
  <2> DEFINE name == S!NameOf(argv[p])
  <2>1. S!Same(name, x) /\ S!Same(name, n)
    BY <1>11 DEF S!Names
  <2> HIDE DEF name
  <2>2. S!Plain(name[1]) = x /\ S!Plain(name[1]) = n
    BY <2>1, NameIsOne
  <2> QED
    BY <2>2
<1>12. ASSUME NEW x \in S!Name PROVE Shown(q, x, set.value[x])
  <2>1. CASE x = n
    <3>1. \A m \in S!Options : m < q /\ S!Names(argv[m], n) => m <= p
      BY <1>7, Zenon
    <3> QED
      BY <1>3, <1>7, <1>10, <2>1, <3>1, Zenon DEF Shown
  <2>2. CASE x # n
    <3>1. set.value[x] = value[x] /\ ~S!Names(argv[p], x) /\ Shown(p, x, value[x])
      BY <1>10, <1>11, <2>2 DEF Read
    <3>2. \A k \in S!Options : k < q /\ S!Names(argv[k], x) <=> k < p /\ S!Names(argv[k], x)
      BY <1>7, <3>1, Zenon
    <3>3. Shown(q, x, value[x])
      BY <3>1, <3>2, Zenon DEF Shown
    <3> QED
      BY <3>1, <3>3
  <2> QED
    BY <2>1, <2>2
<1>13. ASSUME NEW w \in Writers PROVE LogShown(q, w, set.log[w], set.value["Log"])
  <2>1. CASE n = "Log"
    <3>1. set.log[w] = S!Target(S!Items(S!Given(p)), w)
      BY <2>1 DEF Effect
    <3>2. S!Meaning(n, S!Given(p)) = S!Given(p)
      <4>1. Kind[n] = "log"
        BY <2>1, Kinds
      <4> QED
        BY <4>1 DEF S!Meaning
    <3>3. set.value["Log"] = S!Given(p)
      BY <1>10, <2>1, <3>2
    <3>4. \E k \in S!Options : k < q /\ S!Names(argv[k], "Log")
      BY <1>3, <1>7, <2>1
    <3> QED
      BY <3>1, <3>3, <3>4 DEF LogShown
  <2>2. CASE n # "Log"
    <3>1. "Log" \in S!Name
      BY CommandLineOfWords DEF S!WordsAssumption
    <3>2. set.log = log /\ set.value["Log"] = value["Log"] /\ ~S!Names(argv[p], "Log")
      BY <1>10, <1>11, <2>2, <3>1 DEF Effect
    <3>3. (\E k \in S!Options : k < q /\ S!Names(argv[k], "Log"))
          <=> (\E k \in S!Options : k < p /\ S!Names(argv[k], "Log"))
      BY <1>7, <3>2, Zenon
    <3>4. LogShown(p, w, log[w], value["Log"])
      BY DEF Read
    <3> QED
      BY <3>2, <3>3, <3>4 DEF LogShown
  <2> QED
    BY <2>1, <2>2
<1> QED
  BY <1>6, <1>8, <1>10, <1>12, <1>13 DEF Read

LEMMA GivenIsText ==
  ASSUME argv \in Seq(Arguments), NEW k \in S!Options, S!Right(k) PROVE S!Given(k) \in Seq(STRING)
<1>1. k \in 1 .. Len(argv)
  BY DEF S!Options
<1>2. argv[k] \in Seq(STRING)
  BY <1>1, ArgumentIsText
<1>3. S!Joined(argv[k]) => S!Behind(argv[k], "=") \in Seq(STRING)
  BY <1>2, BehindIsText DEF S!Joined
<1>4. S!WantsValue(argv[k]) => k + 1 \in 1 .. Len(argv)
  BY <1>1 DEF S!Right
<1>5. S!WantsValue(argv[k]) => argv[k + 1] \in Seq(STRING)
  BY <1>4, ArgumentIsText
<1>6. <<>> \in Seq(STRING)
  OBVIOUS
<1> QED
  BY <1>3, <1>5, <1>6, Zenon DEF S!Given

LEMMA NumberIsInt == ASSUME NEW text PROVE S!atoi(text) \in Int
<1>1. \A word \in DOMAIN Numerals : Numerals[word] \in Int
  BY CommandLineOfWords DEF S!WordsAssumption
<1> DEFINE negative == text # <<>> /\ text[1] = "-"
           digits == IF negative THEN Tail(text) ELSE text
           number == IF digits # <<>> /\ digits[1] \in DOMAIN Numerals THEN Numerals[digits[1]] ELSE 0
<1>2. S!atoi(text) = IF negative THEN -number ELSE number
  BY DEF S!atoi
<1> HIDE DEF negative, digits
<1>3. number \in Int
  BY <1>1
<1> HIDE DEF number
<1> QED
  BY <1>2, <1>3

(* A parameter for which a text or a number is given has one.              *)
LEMMA TypedValues ==
  ASSUME argv \in Seq(Arguments), NEW p, NEW values, NEW targets, Read(p, values, targets)
  PROVE  values["SecurityTypes"] \in Seq(STRING) /\ values["ThreadPriority"] \in Int
<1>1. /\ "ThreadPriority" \in S!Name /\ "SecurityTypes" \in S!Name
      /\ Kind["ThreadPriority"] = "int" /\ Default["ThreadPriority"] \in Int
      /\ Kind["SecurityTypes"] = "string" /\ Default["SecurityTypes"] \in Seq(STRING)
  BY CommandLineOfWords DEF S!WordsAssumption
<1>2. Shown(p, "SecurityTypes", values["SecurityTypes"]) /\ Shown(p, "ThreadPriority", values["ThreadPriority"])
  BY <1>1 DEF Read
<1>3. \A k \in S!Options : k < p => S!Given(k) \in Seq(STRING)
  BY GivenIsText DEF Read
<1>4. \A text : S!Meaning("SecurityTypes", text) = text /\ S!Meaning("ThreadPriority", text) = S!atoi(text)
  BY <1>1 DEF S!Meaning
<1>5. values["SecurityTypes"] \in Seq(STRING)
  BY <1>1, <1>2, <1>3, <1>4 DEF Shown
<1>6. values["ThreadPriority"] \in Int
  BY <1>1, <1>2, <1>4, NumberIsInt DEF Shown
<1> QED
  BY <1>5, <1>6

SettingsInv ==
  /\ argv \in Seq(Arguments)
  /\ status \in {"typing", "reading", "started", "usage"}
  /\ status = "typing" =>
       position = 1 /\ value = Default /\ log = [w \in Writers |-> [logger |-> "stdout", level |-> 30]]
  /\ status # "typing" => Read(position, value, log)
  /\ status = "started" => position = Len(argv) + 1 /\ priority \in 1 .. 20
  /\ status = "usage" => position \in S!Options /\ ~S!Right(position)

LEMMA SettingsInit == S!Init => SettingsInv
<1>1. S!Init => argv = <<>> /\ position = 1 /\ value = Default /\ status = "typing"
                /\ log = [w \in Writers |-> [logger |-> "stdout", level |-> 30]]
  BY DEF S!Init
<1>2. <<>> \in Seq(Arguments)
  OBVIOUS
<1> QED
  BY <1>1, <1>2 DEF SettingsInv

(* As long as the arguments stay, so does what is said about them.         *)
LEMMA ArgumentsStay ==
  ASSUME argv' = argv
  PROVE  /\ S!Options' = S!Options
         /\ \A k : S!Right(k)' <=> S!Right(k)
         /\ Read(position, value, log)' <=> Read(position', value', log')
<1>1. S!Values' = S!Values
  BY DEF S!Values
<1>2. S!Options' = S!Options
  BY <1>1 DEF S!Options
<1>3. \A k : S!Given(k)' = S!Given(k)
  BY DEF S!Given
<1>4. \A k : S!Right(k)' <=> S!Right(k)
  BY <1>3 DEF S!Right
<1>5. Read(position, value, log)' <=> Read(position', value', log')
  BY <1>1, <1>2, <1>3, <1>4 DEF Read, Shown, LogShown
<1> QED
  BY <1>2, <1>4, <1>5

LEMMA SettingsNext == SettingsInv /\ [S!Next]_settingsVars => SettingsInv'
<1> SUFFICES ASSUME SettingsInv, [S!Next]_settingsVars PROVE SettingsInv'
  OBVIOUS
<1>1. /\ argv \in Seq(Arguments)
      /\ status \in {"typing", "reading", "started", "usage"}
      /\ status = "typing" =>
           position = 1 /\ value = Default /\ log = [w \in Writers |-> [logger |-> "stdout", level |-> 30]]
      /\ status # "typing" => Read(position, value, log)
      /\ status = "started" => position = Len(argv) + 1 /\ priority \in 1 .. 20
      /\ status = "usage" => position \in S!Options /\ ~S!Right(position)
  BY DEF SettingsInv
<1>2. ASSUME NEW argument \in Arguments, S!Give(argument) PROVE SettingsInv'
  <2>1. status = "typing" /\ argv' = Append(argv, argument) /\ UNCHANGED <<position, value, log, status, priority>>
    BY <1>2 DEF S!Give
  <2>2. Append(argv, argument) \in Seq(Arguments)
    BY <1>1, AppendProperties
  <2> QED
    BY <1>1, <2>1, <2>2 DEF SettingsInv
<1>3. CASE S!Launch
  <2>1. status = "typing" /\ status' = "reading" /\ UNCHANGED <<argv, position, value, log, priority>>
    BY <1>3 DEF S!Launch
  <2>2. Read(position, value, log)
    <3>1. S!Values \subseteq 2 .. Len(argv)
      BY <1>1, ValuesFollow
    <3>2. Len(argv) \in Nat /\ \A x \in 2 .. Len(argv) : x # 1
      BY <1>1
    <3>3. position \in 1 .. Len(argv) + 1 /\ position \notin S!Values
      BY <1>1, <2>1, <3>1, <3>2
    <3>4. \A k \in S!Options : ~(k < position)
      <4>1. \A k \in 1 .. Len(argv) : ~(k < 1)
        OBVIOUS
      <4>2. S!Options \subseteq 1 .. Len(argv)
        BY <1>1 DEF S!Options
      <4> QED
        BY <1>1, <2>1, <4>1, <4>2
    <3>5. DOMAIN value = S!Name /\ \A n \in S!Name : value[n] = Default[n]
      BY <1>1, <2>1, CommandLineOfWords DEF S!WordsAssumption
    <3>6. \A w \in Writers : log[w] = [logger |-> "stdout", level |-> 30]
      BY <1>1, <2>1
    <3> QED
      BY <3>3, <3>4, <3>5, <3>6, Zenon DEF Read, Shown, LogShown
  <2>3. Read(position, value, log)'
    BY <2>1, <2>2, ArgumentsStay
  <2> QED
    BY <1>1, <2>1, <2>3 DEF SettingsInv
<1>4. CASE S!ReadArgument
  <2> DEFINE p == position
             alone == S!setConfig(argv[p])
             pair == S!setParam(Tail(argv[p]), argv[p + 1])
  <2>1. status = "reading" /\ p <= Len(argv) /\ argv' = argv
    BY <1>4 DEF S!ReadArgument, S!Take
  <2>2. /\ alone.ok => S!Take(alone, 1)
        /\ ~alone.ok /\ S!Dashed(argv[p]) /\ p < Len(argv) /\ pair.ok => S!Take(pair, 2)
        /\ ~alone.ok /\ ~(S!Dashed(argv[p]) /\ p < Len(argv) /\ pair.ok) =>
             status' = "usage" /\ UNCHANGED <<position, value, log>>
    BY <1>4 DEF S!ReadArgument
  <2>3. Read(position, value, log) /\ p \in 1 .. Len(argv) /\ p \in S!Options
    BY <1>1, <2>1 DEF Read, S!Options
  <2>4. ASSUME Read(position', value', log') PROVE Read(position, value, log)'
    BY <2>1, <2>4, ArgumentsStay
  <2>5. ASSUME NEW set, NEW d \in {1, 2}, S!Take(set, d), S!Right(p),
               d = IF S!WantsValue(argv[p]) THEN 2 ELSE 1,
               \E n \in S!Name : S!Names(argv[p], n) /\ Effect(set, n, S!Given(p))
        PROVE  SettingsInv'
    <3>1. PICK n \in S!Name : S!Names(argv[p], n) /\ Effect(set, n, S!Given(p))
      BY <2>5
    <3>2. position' = p + d /\ value' = set.value /\ log' = set.log /\ UNCHANGED <<status, priority>>
      BY <2>5 DEF S!Take
    <3>3. Read(p + d, set.value, set.log)
      BY <1>1, <2>3, <2>5, <3>1, OptionIsRead
    <3>4. Read(position, value, log)'
      BY <2>4, <3>2, <3>3
    <3> QED
      BY <1>1, <2>1, <3>2, <3>4 DEF SettingsInv
  <2>6. CASE alone.ok
    BY <1>1, <2>2, <2>3, <2>5, <2>6, AloneIsRight
  <2>7. CASE ~alone.ok /\ S!Dashed(argv[p]) /\ p < Len(argv) /\ pair.ok
    BY <1>1, <2>2, <2>3, <2>5, <2>7, PairIsRight
  <2>8. CASE ~alone.ok /\ ~(S!Dashed(argv[p]) /\ p < Len(argv) /\ pair.ok)
    <3>1. status' = "usage" /\ UNCHANGED <<position, value, log>>
      BY <2>2, <2>8
    <3>2. ~S!Right(p)
      BY <1>1, <2>3, <2>8, NeitherIsWrong
    <3>3. Read(position, value, log)'
      BY <2>3, <2>4, <3>1
    <3>4. (position \in S!Options /\ ~S!Right(position))'
      BY <2>1, <2>3, <3>1, <3>2, ArgumentsStay
    <3> QED
      BY <1>1, <2>1, <3>1, <3>3, <3>4 DEF SettingsInv
  <2> QED
    BY <2>6, <2>7, <2>8
<1>5. CASE S!Start
  <2>1. /\ status = "reading" /\ position > Len(argv)
        /\ status' = "started" /\ priority' = S!Limited(value["ThreadPriority"])
        /\ UNCHANGED <<argv, position, value, log>>
    BY <1>5 DEF S!Start
  <2>2. Read(position, value, log)
    BY <1>1, <2>1
  <2>3. position = Len(argv) + 1
    <3>1. position \in 1 .. Len(argv) + 1 /\ Len(argv) \in Nat
      BY <1>1, <2>2 DEF Read
    <3> QED
      BY <2>1, <3>1
  <2>4. S!Limited(value["ThreadPriority"]) \in 1 .. 20
    <3>1. value["ThreadPriority"] \in Int
      BY <1>1, <2>2, TypedValues
    <3>2. \A x \in Int : S!Limited(x) \in 1 .. 20
      BY DEF S!Limited
    <3> QED
      BY <3>1, <3>2
  <2>5. Read(position, value, log)'
    BY <2>1, <2>2, ArgumentsStay
  <2> QED
    BY <1>1, <2>1, <2>3, <2>4, <2>5 DEF SettingsInv
<1>6. CASE UNCHANGED settingsVars
  <2>1. UNCHANGED <<argv, position, value, log, status, priority>>
    BY <1>6 DEF settingsVars
  <2>2. /\ S!Options' = S!Options /\ \A k : S!Right(k)' <=> S!Right(k)
        /\ Read(position, value, log)' <=> Read(position, value, log)
    BY <2>1, ArgumentsStay
  <2> QED
    BY <1>1, <2>1, <2>2 DEF SettingsInv
<1> QED
  BY <1>2, <1>3, <1>4, <1>5, <1>6 DEF S!Next

LEMMA SettingsHold == SettingsInv => S!SettingsAreTaken
<1> SUFFICES ASSUME SettingsInv PROVE S!SettingsAreTaken
  OBVIOUS
<1>1. status = "usage" => \E k \in S!Options : ~S!Right(k)
  BY DEF SettingsInv
<1> DEFINE AllRight == \A k \in S!Options : S!Right(k)
           LastCounts == \A n \in S!Name :
                           IF S!LastOf(n) = {} THEN value[n] = Default[n]
                           ELSE \E k \in S!LastOf(n) : value[n] = S!Meaning(n, S!Given(k))
           LogsAreSet == \A w \in Writers :
                           log[w] = IF S!LastOf("Log") = {} THEN [logger |-> "stdout", level |-> 30]
                                    ELSE S!Target(S!Items(value["Log"]), w)
           TypesAreKnown == \A t \in S!SecurityTypes :
                              S!Cardinality({j \in DOMAIN S!parseSecTypes(value["SecurityTypes"]) :
                                             S!parseSecTypes(value["SecurityTypes"])[j] = t}) =
                              S!Cardinality({j \in DOMAIN S!Items(value["SecurityTypes"]) :
                                             S!Same(S!Items(value["SecurityTypes"])[j], t)})
<1>2. S!SettingsAreTaken
      <=> /\ status = "usage" => \E k \in S!Options : ~S!Right(k)
          /\ status = "started" => AllRight /\ LastCounts /\ LogsAreSet /\ TypesAreKnown /\ priority \in 1 .. 20
  BY DEF S!SettingsAreTaken
<1>3. ASSUME status = "started" PROVE AllRight /\ LastCounts /\ LogsAreSet /\ TypesAreKnown /\ priority \in 1 .. 20
  <2> DEFINE p == position
  <2>1. argv \in Seq(Arguments) /\ Read(p, value, log) /\ p = Len(argv) + 1 /\ priority \in 1 .. 20
    BY <1>3 DEF SettingsInv
  <2>2. \A k \in S!Options : k < p
    <3>1. S!Options \subseteq 1 .. Len(argv)
      BY <2>1 DEF S!Options
    <3>2. \A k \in 1 .. Len(argv) : k < Len(argv) + 1
      BY <2>1
    <3> QED
      BY <2>1, <3>1, <3>2
  <2> HIDE DEF p
  <2>3. \A k \in S!Options : S!Right(k)
    BY <2>1, <2>2 DEF Read
  <2>4. ASSUME NEW n \in S!Name
        PROVE  \/ /\ S!LastOf(n) = {} /\ value[n] = Default[n]
                  /\ \A k \in S!Options : ~S!Names(argv[k], n)
               \/ \E k \in S!LastOf(n) : S!Names(argv[k], n) /\ k \in S!Options /\ value[n] = S!Meaning(n, S!Given(k))
    <3>1. Shown(p, n, value[n])
      BY <2>1 DEF Read
    <3>2. CASE \A k \in S!Options : k < p => ~S!Names(argv[k], n)
      <4>1. \A k \in S!Options : ~S!Names(argv[k], n)
        BY <2>2, <3>2
      <4>2. S!LastOf(n) = {}
        BY <4>1 DEF S!LastOf
      <4> QED
        BY <2>2, <3>1, <4>1, <4>2, Zenon DEF Shown
    <3>3. ASSUME NEW k \in S!Options, S!Names(argv[k], n), value[n] = S!Meaning(n, S!Given(k)),
                 \A m \in S!Options : m < p /\ S!Names(argv[m], n) => m <= k
          PROVE  \E x \in S!LastOf(n) : S!Names(argv[x], n) /\ x \in S!Options /\ value[n] = S!Meaning(n, S!Given(x))
      <4>1. k \in S!LastOf(n)
        BY <2>2, <3>3 DEF S!LastOf
      <4> QED
        BY <3>3, <4>1
    <3> QED
      BY <3>1, <3>2, <3>3, Zenon DEF Shown
  <2>5. ASSUME NEW w \in Writers
        PROVE  log[w] = IF S!LastOf("Log") = {} THEN [logger |-> "stdout", level |-> 30]
                        ELSE S!Target(S!Items(value["Log"]), w)
    <3>1. "Log" \in S!Name
      BY CommandLineOfWords DEF S!WordsAssumption
    <3>2. LogShown(p, w, log[w], value["Log"])
      BY <2>1 DEF Read
    <3>3. S!LastOf("Log") = {} <=> ~\E k \in S!Options : k < p /\ S!Names(argv[k], "Log")
      BY <2>2, <2>4, <3>1
    <3> QED
      BY <3>2, <3>3, Zenon DEF LogShown
  <2>6. ASSUME NEW t \in S!SecurityTypes
        PROVE  S!Cardinality({j \in DOMAIN S!parseSecTypes(value["SecurityTypes"]) :
                              S!parseSecTypes(value["SecurityTypes"])[j] = t}) =
               S!Cardinality({j \in DOMAIN S!Items(value["SecurityTypes"]) :
                              S!Same(S!Items(value["SecurityTypes"])[j], t)})
    <3> DEFINE items == S!Items(value["SecurityTypes"])
               list == S!parseSecTypes(value["SecurityTypes"])
    <3>1. value["SecurityTypes"] \in Seq(STRING)
      BY <2>1, TypedValues
    <3>2. Counted(items, Len(items), list) /\ items \in Seq(Seq(STRING))
      BY <3>1, TypesAreCounted, ItemsAreTexts
    <3> HIDE DEF items, list
    <3>3. DOMAIN items = 1 .. Len(items) /\ DOMAIN list = 1 .. Len(list)
      BY <3>2 DEF Counted
    <3>4. S!Cardinality(Uses(list, t)) = S!Cardinality(Mentions(items, Len(items), t))
      BY <3>2, SameCardinality DEF Counted
    <3>5. /\ Uses(list, t) = {j \in DOMAIN list : list[j] = t}
          /\ Mentions(items, Len(items), t) = {j \in DOMAIN items : S!Same(items[j], t)}
      BY <3>3 DEF Uses, Mentions
    <3>6. S!Cardinality({j \in DOMAIN list : list[j] = t}) = S!Cardinality({j \in DOMAIN items : S!Same(items[j], t)})
      BY <3>4, <3>5
    <3> QED
      BY <3>6 DEF items, list
  <2>7. AllRight /\ LastCounts
    BY <2>3, <2>4, Zenon
  <2>8. LogsAreSet
    BY <2>5
  <2>9. TypesAreKnown
    BY <2>6
  <2> QED
    BY <2>1, <2>7, <2>8, <2>9, Zenon
<1> HIDE DEF AllRight, LastCounts, LogsAreSet, TypesAreKnown
<1> QED
  BY <1>1, <1>2, <1>3

LEMMA PartsKeepSettingsInv == PartsSpec => []SettingsInv
<1>1. PartsInit => SettingsInv
  BY SettingsInit DEF PartsInit
<1>2. [PartsNext]_<<part, vars, handshakeVars, streamVars, sessionVars, programVars>> => [S!Next]_settingsVars
  BY DEF PartsNext, programVars, settingsVars
<1> QED
  BY <1>1, <1>2, SettingsNext, PTL DEF PartsSpec

(* Settings: however the arguments of the command line follow each other,  *)
(* the server starts with what the last of each option says, and does not  *)
(* start only if one of them is wrong.                                     *)
THEOREM CommandLineIsTaken == PartsSpec => []SettingsAreTaken
<1>1. SettingsInv => SettingsAreTaken
  BY SettingsHold DEF SettingsAreTaken
<1> QED
  BY <1>1, PartsKeepSettingsInv, PTL

==============================================================================
