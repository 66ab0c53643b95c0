----------------------------- MODULE Blacklist -----------------------------
(***************************************************************************)
(* The hosts that tried too often, rfb/Blacklist.cxx.  isBlackmarked() is  *)
(* called once for every connection, by VNCServerST::addClient() or by     *)
(* VNCSConnectionST::versionReceived() as the blacklistLevel says; an      *)
(* authentication that succeeds calls clearBlackmark().                    *)
(***************************************************************************)
EXTENDS Integers

CONSTANTS
  Host,           \* the names isBlackmarked() is called with
  NoEntry,        \* a host that blm does not have
  Threshold,      \* the parameter BlacklistThreshold
  InitialTimeout, \* the parameter BlacklistTimeout, in seconds
  StartTime,      \* the time when the server is started
  MaxTime         \* bound: the clock stops there

ASSUME ThresholdAssumption == Threshold \in Nat
ASSUME TimeAssumption ==
  /\ InitialTimeout \in Nat
  /\ StartTime \in Nat \ {0}
  /\ MaxTime \in Nat

Entry == [marks : Nat, blockUntil : Nat, blockTimeout : Nat]

ASSUME NoEntryAssumption == NoEntry \notin Entry

VARIABLES
  now,     \* time(0)
  blm,     \* the map from hosts to their entries
  allowed, \* history: calls answered FALSE since the host was cleared
  since    \* history: the time of the first of them that started a timeout

vars == <<now, blm, allowed, since>>

TypeOK ==
  /\ now \in Nat
  /\ blm \in [Host -> Entry \cup {NoEntry}]
  /\ allowed \in [Host -> Nat]
  /\ since \in [Host -> Nat]
  /\ \A h \in Host : blm[h] = NoEntry => allowed[h] = 0

Init ==
  /\ now = StartTime
  /\ blm = [h \in Host |-> NoEntry]
  /\ allowed = [h \in Host |-> 0]
  /\ since = [h \in Host |-> 0]

-----------------------------------------------------------------------------
(* isBlackmarked()                                                         *)

(* Mutant: an entry that starts with no mark. *)
UnmarkedEntry == [marks |-> 0, blockUntil |-> 0, blockTimeout |-> InitialTimeout]

(* A host that has no entry gets one with a mark already made. *)
NewEntry == [marks |-> 1, blockUntil |-> 0, blockTimeout |-> InitialTimeout]

EntryOf(h) == IF blm[h] = NoEntry THEN NewEntry ELSE blm[h]

(* Mutant: one call too few. *)
ReachedEarly(e) == e.marks >= Threshold - 1

Reached(e) == e.marks >= Threshold

(* Mutant: the timeout stays what it was.                                  *)
RetriedSameTimeout(e) == [e EXCEPT !.blockUntil = now + e.blockTimeout]

Retried(e) ==
  [e EXCEPT !.blockUntil = now + e.blockTimeout,
            !.blockTimeout = 2 * e.blockTimeout]

Let(h) == allowed' = [allowed EXCEPT ![h] = allowed[h] + 1]

(* Below the threshold a call makes one mark more. *)
Mark(h) ==
  /\ ~Reached(EntryOf(h))
  /\ blm' = [blm EXCEPT ![h] = [EntryOf(h) EXCEPT !.marks = EntryOf(h).marks + 1]]
  /\ Let(h)
  /\ UNCHANGED <<now, since>>

(* The timeout, if there is one, has expired. *)
Retry(h) ==
  /\ Reached(EntryOf(h))
  /\ now >= EntryOf(h).blockUntil
  /\ blm' = [blm EXCEPT ![h] = Retried(EntryOf(h))]
  /\ since' = IF EntryOf(h).blockUntil = 0 THEN [since EXCEPT ![h] = now] ELSE since
  /\ Let(h)
  /\ UNCHANGED now

Blackmarked(h) == Reached(EntryOf(h)) /\ now < EntryOf(h).blockUntil

Reject(h) == Blackmarked(h) /\ UNCHANGED vars

IsBlackmarked(h) == Mark(h) \/ Retry(h) \/ Reject(h)

-----------------------------------------------------------------------------
(* clearBlackmark(), of a host that has got in. *)
ClearBlackmark(h) ==
  /\ allowed[h] > 0
  /\ blm' = [blm EXCEPT ![h] = NoEntry]
  /\ allowed' = [allowed EXCEPT ![h] = 0]
  /\ since' = [since EXCEPT ![h] = 0]
  /\ UNCHANGED <<now>>

TimePasses ==
  /\ now < MaxTime
  /\ now' = now + 1
  /\ UNCHANGED <<blm, allowed, since>>

Next ==
  \/ \E h \in Host : IsBlackmarked(h) \/ ClearBlackmark(h)
  \/ TimePasses

Spec == Init /\ [][Next]_vars

-----------------------------------------------------------------------------
(* Properties                                                              *)

(* "Threshold means that isBlackmarked can be called that number of times  *)
(* before it will return true", whatever other hosts do in between.        *)
NotBeforeThreshold == \A h \in Host : Blackmarked(h) => allowed[h] >= Threshold

(* And no more than that, except when a timeout has expired. *)
NotAfterThreshold ==
  \A h \in Host :
    allowed[h] >= Threshold /\ ~Blackmarked(h) =>
      EntryOf(h).blockUntil > 0 /\ now >= EntryOf(h).blockUntil

Blocked(h) == blm[h] # NoEntry /\ blm[h].blockUntil > 0

(* All the timeouts a host has been given since it was first blocked have  *)
(* to pass before it is let in again: together they are the timeout it     *)
(* gets next, less the initial one.                                        *)
TimeoutsAddUp ==
  \A h \in Host :
    Blocked(h) => blm[h].blockUntil - since[h] >= blm[h].blockTimeout - InitialTimeout

(* The initial timeout, doubled n times. *)
Doubled[n \in Nat] == IF n = 0 THEN InitialTimeout ELSE 2 * Doubled[n - 1]

(* "At the same time, the timeout is doubled": to be let in n times after  *)
(* the threshold takes (2^n - 1) initial timeouts, whenever the calls come.*)
NoFasterThanDoubling ==
  \A h \in Host :
    Blocked(h) =>
      blm[h].blockUntil - since[h]
        >= Doubled[allowed[h] - Threshold + 1] - InitialTimeout
=============================================================================
