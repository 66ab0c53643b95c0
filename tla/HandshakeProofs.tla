-------------------------- MODULE HandshakeProofs --------------------------
(* What Handshake promises for any lists of security types.                *)
EXTENDS Handshake, Recursion, SequenceTheorems, TLAPS

Refused == sEnd = "REFUSED"

(* Both ends have this type in their lists. *)
Common(t) == t \in Legacy /\ Contains(setup.offered, t) /\ Contains(setup.supported, t)

Agreed == sMinor = cMinor /\ sType = cType

(* What the server has yet to read, in each of its states. *)
ServerFeed ==
  /\ sState = "PROTOCOL_VERSION" => toServer \in {<<>>, <<Version(cMinor)>>}
  /\ sState = "SECURITY_TYPE" =>
       /\ sMinor = 8
       /\ toServer \in {<<>>, <<Chosen(cType)>>}
  /\ sState = "SECURITY" =>
       /\ sType = "VncAuth"
       /\ toServer \in {<<>>, <<Response(setup.password)>>}
  /\ sState = "QUERYING" =>
       toServer = <<>> \/ (Silent /\ toServer = <<Signal("clientInit")>>)
  /\ sState = "INITIALISATION" => toServer \in {<<>>, <<Signal("clientInit")>>}
  /\ sState = "NORMAL" => toServer = <<>>

(* What the client has yet to read and where the server can be meanwhile,  *)
(* in each state of the client.                                            *)
AtVersion ==
  /\ cType = "Invalid" /\ toServer = <<>>
  /\ \/ sState = "PROTOCOL_VERSION" /\ toClient = <<Version(setup.server)>>
     \/ sState = "CLOSING" /\ ~Refused /\ toClient = <<Version(setup.server)>>
     \/ Refused /\ toClient = <<Version(3)>> \o ConnFailed(3)

AtTypes ==
  /\ cType = "Invalid"
  /\ \/ sState = "PROTOCOL_VERSION" /\ toServer = <<Version(cMinor)>> /\ toClient = <<>>
     \/ sState = "CLOSING" /\ ~Refused /\ toClient = <<>>
     \/ Refused /\ toClient = ConnFailed(cMinor)
     \/ /\ cMinor = 3 /\ sMinor = 3 /\ toServer = <<>> /\ Contains(setup.offered, sType)
        /\ \/ /\ sType = "None" /\ sState \in {"QUERYING", "INITIALISATION", "CLOSING"}
              /\ toClient = <<Type33("None")>>
           \/ /\ sType = "VncAuth" /\ sState \in {"SECURITY", "CLOSING"} /\ ~Refused
              /\ toClient = <<Type33("VncAuth"), Signal("challenge")>>
     \/ /\ cMinor = 8 /\ sMinor = 8 /\ toServer = <<>> /\ setup.offered # <<>>
        /\ sState \in {"SECURITY_TYPE", "CLOSING"} /\ ~Refused
        /\ toClient = <<Types(setup.offered)>>

AtChallenge ==
  /\ cType = "VncAuth" /\ Common(cType) /\ ~Refused
  /\ \/ /\ sState = "SECURITY_TYPE" /\ cMinor = 8
        /\ toServer = <<Chosen("VncAuth")>> /\ toClient = <<>>
     \/ /\ sState \in {"SECURITY", "CLOSING"} /\ Agreed
        /\ toServer = <<>> /\ toClient = <<Signal("challenge")>>
     \/ sState = "CLOSING" /\ toClient = <<>>

AtResult ==
  /\ Common(cType) /\ (cMinor = 8 \/ cType = "VncAuth")
  /\ \/ /\ sState = "SECURITY_TYPE" /\ cMinor = 8 /\ cType = "None"
        /\ toServer = <<Chosen("None")>> /\ toClient = <<>>
     \/ /\ sState = "SECURITY" /\ Agreed
        /\ toServer = <<Response(setup.password)>> /\ toClient = <<>>
     \/ sState = "QUERYING" /\ Agreed /\ toServer = <<>> /\ toClient = <<>>
     \/ sState = "INITIALISATION" /\ Agreed /\ toServer = <<>> /\ toClient = <<Result(TRUE)>>
     \/ sState = "CLOSING" /\ ~Refused /\ toClient \in {<<>>, <<Result(TRUE)>>}
     \/ Refused /\ toClient = ResultSent(cMinor, cType, FALSE)

AtReason == Refused /\ toClient = <<Signal("reason")>>

AtInitialisation ==
  /\ Common(cType)
  /\ \/ /\ sState = "QUERYING" /\ Silent /\ Agreed
        /\ toServer = <<Signal("clientInit")>> /\ toClient = <<>>
     \/ /\ sState = "INITIALISATION" /\ Agreed
        /\ toServer = <<Signal("clientInit")>> /\ toClient = <<>>
     \/ sState = "NORMAL" /\ Agreed /\ toServer = <<>> /\ toClient = <<Signal("serverInit")>>
     \/ /\ sState = "CLOSING" /\ (Refused => Silent)
        /\ toClient \in {<<>>, <<Signal("serverInit")>>}

AtNormal ==
  /\ Common(cType) /\ toClient = <<>>
  /\ \/ sState = "NORMAL" /\ Agreed /\ toServer = <<>>
     \/ sState = "CLOSING" /\ (Refused => Silent)

ClientFeed ==
  /\ cState = "PROTOCOL_VERSION" => AtVersion
  /\ cState = "SECURITY_TYPES" => AtTypes
  /\ cState = "SECURITY" => AtChallenge
  /\ cState = "SECURITY_RESULT" => AtResult
  /\ cState = "REASON" => AtReason
  /\ cState = "INITIALISATION" => AtInitialisation
  /\ cState = "NORMAL" => AtNormal
  /\ cState = "INVALID" /\ cEnd = "EOF" => sState = "CLOSING" /\ (Refused => Silent)

(* Who is past the security type "VncAuth" has the password, and only a    *)
(* client that nobody answers says something during a query.               *)
ServerKnows ==
  /\ sState \in In \cup {"QUERYING"} /\ sType = "VncAuth" => setup.password
  /\ sEnd = "BOGUS" => Silent

IInv == TypeOK /\ ServerFeed /\ ClientFeed /\ ServerKnows

-----------------------------------------------------------------------------
(* Messages and their sequences                                            *)

LEMMA Kinds ==
  /\ \A n \in Minor : Version(n) \in Message /\ Version(n).kind = "version" /\ Version(n).minor = n
  /\ \A t \in Type \cup {"Invalid"} :
       /\ Type33(t) \in Message /\ Type33(t).kind = "type33" /\ Type33(t).type = t
       /\ Chosen(t) \in Message /\ Chosen(t).kind = "type" /\ Chosen(t).type = t
  /\ \A ts \in Offers \cup {<<>>} :
       Types(ts) \in Message /\ Types(ts).kind = "types" /\ Types(ts).types = ts
  /\ \A ok \in BOOLEAN :
       /\ Response(ok) \in Message /\ Response(ok).kind = "response" /\ Response(ok).ok = ok
       /\ Result(ok) \in Message /\ Result(ok).kind = "result" /\ Result(ok).ok = ok
  /\ \A k \in {"challenge", "reason", "clientInit", "serverInit"} :
       Signal(k) \in Message /\ Signal(k).kind = k
BY DEF Message, Minor, Type, Version, Type33, Chosen, Types, Response, Result, Signal

LEMMA Sequences ==
  ASSUME NEW a \in Message, NEW b \in Message
  PROVE  /\ <<a>> \in Seq(Message) /\ <<a, b>> \in Seq(Message) /\ <<>> \in Seq(Message)
         /\ <<a>> # <<>> /\ <<a, b>> # <<>>
         /\ Head(<<a>>) = a /\ Head(<<a, b>>) = a
         /\ Tail(<<a>>) = <<>> /\ Tail(<<a, b>>) = <<b>>
         /\ <<a>> \o <<b>> = <<a, b>> /\ <<>> \o <<a>> = <<a>> /\ <<>> \o <<a, b>> = <<a, b>>
         /\ <<a>> \o <<>> = <<a>> /\ <<a, b>> \o <<>> = <<a, b>>
         /\ Append(<<a>>, b) = <<a, b>> /\ Append(<<>>, a) = <<a>>
         /\ <<>> \o <<>> = <<>>
<1>1. /\ <<a>> \in Seq(Message) /\ <<a, b>> \in Seq(Message) /\ <<>> \in Seq(Message)
      /\ <<a>> # <<>> /\ <<a, b>> # <<>>
  OBVIOUS
<1>2. Head(<<a>>) = a /\ Head(<<a, b>>) = a
  OBVIOUS
<1>3. Tail(<<a>>) = <<>>
  OBVIOUS
<1>4. Tail(<<a, b>>) = <<b>>
  OBVIOUS
<1>6. /\ <<>> \o <<a>> = <<a>> /\ <<>> \o <<a, b>> = <<a, b>>
      /\ <<a>> \o <<>> = <<a>> /\ <<a, b>> \o <<>> = <<a, b>> /\ <<>> \o <<>> = <<>>
  BY <1>1, ConcatEmptySeq
<1>7. Append(<<>>, a) = <<a>>
  OBVIOUS
<1>8. Append(<<a>>, b) = <<a, b>>
  <2> DEFINE s == Append(<<a>>, b)
             t == <<a, b>>
  <2>1. Len(<<a>>) = 1 /\ <<a>>[1] = a /\ Len(t) = 2 /\ t[1] = a /\ t[2] = b
    OBVIOUS
  <2>2. s \in Seq(Message) /\ t \in Seq(Message) /\ Len(s) = 2 /\ s[1] = a /\ s[2] = b
    BY <1>1, <2>1, AppendProperties
  <2> HIDE DEF s, t
  <2>3. \A i \in 1 .. Len(s) : s[i] = t[i]
    BY <2>1, <2>2
  <2>4. s = t
    BY <2>1, <2>2, <2>3, SeqEqual
  <2> QED
    BY <2>4 DEF s, t
<1>5. <<a>> \o <<b>> = <<a, b>>
  BY <1>1, <1>8, AppendIsConcat
<1> QED
  BY <1>1, <1>2, <1>3, <1>4, <1>5, <1>6, <1>7, <1>8

(* What follows a message. *)
LEMMA Following ==
  ASSUME NEW a \in Message, NEW q \in Seq(Message)
  PROVE  <<a>> \o q # <<>> /\ Head(<<a>> \o q) = a /\ Tail(<<a>> \o q) = q
<1>1. <<a>> \in Seq(Message) /\ Len(<<a>>) = 1 /\ <<a>>[1] = a
  OBVIOUS
<1>2. Len(q) \in Nat
  BY LenProperties
<1> DEFINE s == <<a>> \o q
<1>3. s \in Seq(Message) /\ Len(s) = 1 + Len(q)
  BY <1>1, ConcatProperties
<1>4. s[1] = a /\ \A i \in 1 .. Len(q) : s[i + 1] = q[i]
  <2>1. \A i \in 1 .. 1 + Len(q) : s[i] = IF i <= 1 THEN <<a>>[i] ELSE q[i - 1]
    BY <1>1, ConcatProperties
  <2> HIDE DEF s
  <2>2. \A i \in 1 .. Len(q) : i + 1 \in 1 .. 1 + Len(q) /\ ~(i + 1 <= 1) /\ i + 1 - 1 = i
    BY <1>2
  <2>3. 1 \in 1 .. 1 + Len(q)
    BY <1>2
  <2> QED
    BY <1>1, <2>1, <2>2, <2>3
<1> HIDE DEF s
<1>5. s # <<>>
  BY <1>2, <1>3
<1>6. /\ Tail(s) \in Seq(Message) /\ Len(Tail(s)) = Len(q)
      /\ \A i \in 1 .. Len(q) : Tail(s)[i] = q[i]
  BY <1>2, <1>3, <1>4, <1>5, HeadTailProperties
<1>7. Tail(s) = q
  BY <1>6, SeqEqual
<1>8. Head(s) = a
  BY <1>4
<1> QED
  BY <1>5, <1>7, <1>8 DEF s

LEMMA Answers ==
  /\ ConnFailed(3) = <<Type33("Invalid"), Signal("reason")>>
  /\ ConnFailed(8) = <<Types(<<>>), Signal("reason")>>
  /\ \A m \in Minor : ConnFailed(m) \in Seq(Message)
  /\ \A m \in Minor, t \in Type \cup {"Invalid"}, ok \in BOOLEAN :
       ResultSent(m, t, ok) \in Seq(Message)
  /\ \A ok \in BOOLEAN : ResultSent(3, "None", ok) = <<>>
  /\ \A m \in Minor, t \in Type \cup {"Invalid"} :
       m = 8 \/ t # "None" =>
         /\ ResultSent(m, t, TRUE) = <<Result(TRUE)>>
         /\ ResultSent(m, t, FALSE) = IF m < 8 THEN <<Result(FALSE)>>
                                      ELSE <<Result(FALSE), Signal("reason")>>
<1>1. Type33("Invalid") \in Message /\ Types(<<>>) \in Message /\ Signal("reason") \in Message
  BY Kinds DEF Type
<1>2. \A ok \in BOOLEAN : Result(ok) \in Message
  BY Kinds
<1>3. /\ ConnFailed(3) = <<Type33("Invalid"), Signal("reason")>>
      /\ ConnFailed(8) = <<Types(<<>>), Signal("reason")>>
  BY DEF ConnFailed
<1>4. \A m \in Minor : ConnFailed(m) \in Seq(Message)
  <2>1. ConnFailed(3) \in Seq(Message) /\ ConnFailed(8) \in Seq(Message)
    BY <1>1, <1>3, Sequences
  <2> QED
    BY <2>1 DEF Minor
<1>5. ASSUME NEW m \in Minor, NEW t \in Type \cup {"Invalid"}, NEW ok \in BOOLEAN
      PROVE  ResultSent(m, t, ok) \in Seq(Message)
  <2>1. ResultSent(m, t, ok) \in {<<>>, <<Result(ok)>>, <<Result(ok), Signal("reason")>>}
    BY DEF ResultSent
  <2>2. <<>> \in Seq(Message) /\ <<Result(ok)>> \in Seq(Message)
    BY <1>2
  <2>3. <<Result(ok), Signal("reason")>> \in Seq(Message)
    BY <1>1, <1>2
  <2> QED
    BY <2>1, <2>2, <2>3
<1>6. \A ok \in BOOLEAN : ResultSent(3, "None", ok) = <<>>
  BY DEF ResultSent
<1>7. ASSUME NEW m \in Minor, NEW t \in Type \cup {"Invalid"}, m = 8 \/ t # "None"
      PROVE  /\ ResultSent(m, t, TRUE) = <<Result(TRUE)>>
             /\ ResultSent(m, t, FALSE) = IF m < 8 THEN <<Result(FALSE)>>
                                          ELSE <<Result(FALSE), Signal("reason")>>
  <2>1. CASE m = 8
    BY <2>1 DEF ResultSent
  <2>2. CASE m = 3
    <3>1. t # "None"
      BY <1>7, <2>2
    <3>2. ResultSent(m, t, TRUE) = <<Result(TRUE)>>
      BY <3>1 DEF ResultSent
    <3>3. m < 8
      BY <2>2
    <3>4. ResultSent(m, t, FALSE) = <<Result(FALSE)>>
      BY <3>1, <3>3, Zenon DEF ResultSent
    <3> QED
      BY <3>2, <3>3, <3>4
  <2> QED
    BY <2>1, <2>2 DEF Minor
<1> QED
  BY <1>3, <1>4, <1>5, <1>6, <1>7

-----------------------------------------------------------------------------
(* Steps of the server                                                     *)

LEMMA ServerTakesType ==
  ASSUME TypeOK, NEW kind, NEW ms \in Seq(Message), ServerTakes(kind, ms)
  PROVE  toServer' \in Seq(Message) /\ toClient' \in Seq(Message)
BY HeadTailProperties, ConcatProperties DEF TypeOK, ServerTakes

(* What a call comes to when the security object is done.                  *)
Outcome(ok, m, t, ms) ==
  \/ /\ ok /\ toClient' = toClient \o (ms \o ResultSent(m, t, TRUE))
     /\ \/ sState' = "INITIALISATION" /\ sEnd' = sEnd
        \/ sState' = "CLOSING" /\ sEnd' = "OTHER"
  \/ /\ sState' = "CLOSING" /\ sEnd' = "REFUSED"
     /\ toClient' = toClient \o (ms \o ResultSent(m, t, FALSE))
  \/ ok /\ sState' = "QUERYING" /\ sEnd' = sEnd /\ toClient' = toClient \o ms

LEMMA DecidedOutcome ==
  ASSUME TypeOK, NEW kind, NEW ok, NEW m \in Minor, NEW t \in Type,
         NEW ms \in Seq(Message), Decided(kind, ok, m, t, ms)
  PROVE  /\ toServer # <<>> /\ toServer' = Tail(toServer)
         /\ toServer' \in Seq(Message) /\ toClient' \in Seq(Message)
         /\ Outcome(ok, m, t, ms)
<1>1. ResultSent(m, t, TRUE) \in Seq(Message) /\ ResultSent(m, t, FALSE) \in Seq(Message)
  BY Answers
<1>2. ms \o ResultSent(m, t, TRUE) \in Seq(Message) /\ ms \o ResultSent(m, t, FALSE) \in Seq(Message)
  BY <1>1, ConcatProperties
<1>3. toServer' \in Seq(Message) /\ toClient' \in Seq(Message)
  BY <1>2, ServerTakesType DEF Decided
<1> QED
  BY <1>3 DEF Decided, Outcome, ServerTakes, ServerCloses

LEMMA SecurityBegun ==
  ASSUME TypeOK, NEW kind, NEW m \in Minor, NEW t \in Type,
         NEW ms \in Seq(Message), SecurityBegins(kind, m, t, ms)
  PROVE  /\ toServer # <<>> /\ toServer' = Tail(toServer)
         /\ toServer' \in Seq(Message) /\ toClient' \in Seq(Message)
         /\ sType' = t
         /\ \/ t = "None" /\ Outcome(TRUE, m, t, ms)
            \/ /\ t = "VncAuth" /\ sState' = "SECURITY" /\ sEnd' = sEnd
               /\ toClient' = toClient \o Append(ms, Signal("challenge"))
<1>1. Append(ms, Signal("challenge")) \in Seq(Message)
  BY Kinds, AppendProperties
<1>2. CASE t = "None" /\ Decided(kind, TRUE, m, t, ms)
  BY <1>2, DecidedOutcome DEF SecurityBegins
<1>3. CASE /\ t = "VncAuth" /\ sState' = "SECURITY" /\ UNCHANGED sEnd
           /\ ServerTakes(kind, Append(ms, Signal("challenge")))
  BY <1>1, <1>3, ServerTakesType DEF SecurityBegins, ServerTakes
<1> QED
  BY <1>2, <1>3 DEF SecurityBegins

(* The first element of a sequence that passes a test. *)
LEMMA MinIsFirst ==
  ASSUME NEW I \in SUBSET Nat, I # {}
  PROVE  Min(I) \in I /\ \A k \in I : Min(I) <= k
BY LeastNatural DEF Min

LEMMA LegacyOffered ==
  ASSUME TypeOK, ListsAssumption, NEW i,
         i = SelectInSeq(setup.offered, LAMBDA t : t \in Legacy), i > 0
  PROVE  setup.offered[i] \in Legacy /\ Contains(setup.offered, setup.offered[i])
<1> DEFINE I == {k \in 1 .. Len(setup.offered) : setup.offered[k] \in Legacy}
<1>1. I \in SUBSET Nat
  OBVIOUS
<1>2. i = IF I # {} THEN Min(I) ELSE 0
  BY DEF SelectInSeq
<1> HIDE DEF I
<1>3. i \in I
  BY <1>1, <1>2, MinIsFirst
<1> QED
  BY <1>3 DEF I, Contains

(* The server is alive: nobody is refused, and the client has not been     *)
(* told of an end.                                                         *)
LEMMA Alive ==
  ASSUME IInv, sState # "CLOSING"
  PROVE  sEnd = "OPEN" /\ ~Refused /\ cEnd # "EOF" /\ sEnd # "BOGUS"
BY DEF IInv, TypeOK, ClientFeed, Refused

(* A call of the server leaves the client as it is. *)
LEMMA ServerStep ==
  ASSUME IInv, UNCHANGED <<setup, clientVars>>,
         sState' \in {"SECURITY_TYPE", "SECURITY", "QUERYING", "INITIALISATION", "NORMAL", "CLOSING"},
         sMinor' \in Minor, sType' \in Type \cup {"Invalid"},
         sEnd' \in {"OPEN", "REFUSED", "BOGUS", "OTHER"},
         sState' = "CLOSING" <=> sEnd' # "OPEN",
         toServer' \in Seq(Message), toClient' \in Seq(Message)
  PROVE  TypeOK'
BY DEF IInv, TypeOK, Setup, clientVars

LEMMA ServerVersionIInv ==
  ASSUME ListsAssumption, IInv, ServerVersion PROVE IInv'
<1>1. /\ sState = "PROTOCOL_VERSION" /\ toServer = <<Version(cMinor)>> /\ cMinor \in Minor
      /\ Head(toServer).minor = cMinor /\ Tail(toServer) = <<>>
      /\ Cooked(cMinor) = cMinor
  <2>1. sState = "PROTOCOL_VERSION" /\ toServer = <<Version(cMinor)>> /\ cMinor \in Minor
    BY DEF IInv, TypeOK, ServerFeed, ServerVersion
  <2>2. Cooked(cMinor) = cMinor
    BY <2>1 DEF Cooked, Minor
  <2> QED
    BY <2>1, <2>2, Kinds, Sequences
<1>2. sEnd = "OPEN" /\ ~Refused /\ cEnd # "EOF"
  BY <1>1, Alive
<1>3. \/ cState = "SECURITY_TYPES" /\ cType = "Invalid" /\ toClient = <<>>
      \/ cState = "INVALID"
  BY <1>1, <1>2
     DEF IInv, TypeOK, ClientFeed, AtVersion, AtTypes, AtChallenge, AtResult,
         AtReason, AtInitialisation, AtNormal
<1>4. sMinor' = cMinor /\ UNCHANGED <<setup, clientVars>>
  BY <1>1 DEF ServerVersion
<1>5. \/ /\ toServer' = <<>> /\ toClient' = toClient \o ConnFailed(cMinor)
         /\ sState' = "CLOSING" /\ sEnd' = "REFUSED" /\ sType' = sType
         /\ toClient' \in Seq(Message)
      \/ \E t \in Legacy :
           /\ cMinor = 3 /\ Contains(setup.offered, t)
           /\ SecurityBegins("version", 3, t, <<Type33(t)>>)
      \/ /\ cMinor = 8 /\ setup.offered # <<>>
         /\ toServer' = <<>> /\ toClient' = toClient \o <<Types(setup.offered)>>
         /\ toClient' \in Seq(Message)
         /\ sState' = "SECURITY_TYPE" /\ sType' = sType /\ sEnd' = sEnd
  <2> DEFINE i == SelectInSeq(setup.offered, LAMBDA t : t \in Legacy)
  <2>1. CASE ServerTakes("version", ConnFailed(cMinor)) /\ ServerCloses("REFUSED") /\ UNCHANGED sType
    BY <1>1, <2>1, Answers, ServerTakesType DEF IInv, ServerTakes, ServerCloses
  <2>2. CASE /\ cMinor = 3 /\ i > 0
             /\ SecurityBegins("version", cMinor, setup.offered[i], <<Type33(setup.offered[i])>>)
    <3> HIDE DEF i
    <3>1. setup.offered[i] \in Legacy /\ Contains(setup.offered, setup.offered[i])
      BY <2>2, LegacyOffered DEF i, IInv
    <3> QED
      BY <2>2, <3>1
  <2>3. CASE /\ cMinor > 3 /\ setup.offered # <<>>
             /\ ServerTakes("version", <<Types(setup.offered)>>)
             /\ sState' = "SECURITY_TYPE" /\ UNCHANGED <<sType, sEnd>>
    <3>1. cMinor = 8
      BY <1>1, <2>3 DEF Minor
    <3>2. <<Types(setup.offered)>> \in Seq(Message)
      BY Kinds, Sequences DEF IInv, TypeOK, Setup
    <3> QED
      BY <1>1, <2>3, <3>1, <3>2, ServerTakesType DEF IInv, ServerTakes
  <2> QED
    BY <1>1, <2>1, <2>2, <2>3 DEF ServerVersion
<1>6. CASE /\ toServer' = <<>> /\ toClient' = toClient \o ConnFailed(cMinor)
           /\ sState' = "CLOSING" /\ sEnd' = "REFUSED" /\ sType' = sType
           /\ toClient' \in Seq(Message)
  <2>1. TypeOK'
    BY <1>1, <1>4, <1>6, ServerStep DEF IInv, TypeOK
  <2>2. cState = "SECURITY_TYPES" => AtTypes'
    BY <1>1, <1>3, <1>4, <1>6, Answers, ConcatEmptySeq DEF AtTypes, Refused, clientVars
  <2> QED
    BY <1>2, <1>3, <1>4, <1>6, <2>1, <2>2
       DEF IInv, ServerFeed, ClientFeed, ServerKnows, clientVars, In
<1>7. ASSUME NEW t \in Legacy, cMinor = 3, Contains(setup.offered, t),
             SecurityBegins("version", 3, t, <<Type33(t)>>)
      PROVE  IInv'
  <2>1. /\ Type33(t) \in Message /\ Signal("challenge") \in Message /\ t \in Type
        /\ <<Type33(t)>> \in Seq(Message)
    BY Kinds, Sequences DEF Legacy, Type
  <2>2. /\ toServer' = <<>> /\ toClient' \in Seq(Message) /\ sType' = t
        /\ \/ t = "None" /\ Outcome(TRUE, 3, t, <<Type33(t)>>)
           \/ /\ t = "VncAuth" /\ sState' = "SECURITY" /\ sEnd' = sEnd
              /\ toClient' = toClient \o Append(<<Type33(t)>>, Signal("challenge"))
    BY <1>1, <1>7, <2>1, SecurityBegun DEF IInv, Minor
  <2>3. \/ /\ t = "None" /\ toClient' = toClient \o <<Type33("None")>>
           /\ \/ sState' \in {"INITIALISATION", "QUERYING"} /\ sEnd' = sEnd
              \/ sState' = "CLOSING" /\ sEnd' \in {"OTHER", "REFUSED"}
        \/ /\ t = "VncAuth" /\ sState' = "SECURITY" /\ sEnd' = sEnd
           /\ toClient' = toClient \o <<Type33("VncAuth"), Signal("challenge")>>
    <3>1. CASE t = "None" /\ Outcome(TRUE, 3, t, <<Type33(t)>>)
      BY <2>1, <3>1, Answers, Sequences DEF Outcome
    <3>2. CASE /\ t = "VncAuth" /\ sState' = "SECURITY" /\ sEnd' = sEnd
               /\ toClient' = toClient \o Append(<<Type33(t)>>, Signal("challenge"))
      BY <2>1, <3>2, Sequences
    <3> QED
      BY <2>2, <3>1, <3>2
  <2>4. TypeOK'
    <3>1. <<>> \in Seq(Message)
      BY EmptySeq
    <3> QED
      BY <1>1, <1>2, <1>4, <2>1, <2>2, <2>3, <3>1, ServerStep DEF Legacy, Type
  <2>5. cState = "SECURITY_TYPES" => AtTypes'
    <3>1. SUFFICES ASSUME cState = "SECURITY_TYPES" PROVE AtTypes'
      OBVIOUS
    <3>2. \/ t = "None" /\ toClient' = <<Type33("None")>>
          \/ t = "VncAuth" /\ toClient' = <<Type33("VncAuth"), Signal("challenge")>>
      BY <1>3, <2>1, <2>3, <3>1, Sequences
    <3> QED
      BY <1>2, <1>3, <1>4, <1>7, <2>2, <2>3, <3>1, <3>2 DEF AtTypes, Refused, clientVars
  <2> QED
    BY <1>2, <1>3, <1>4, <2>2, <2>3, <2>4, <2>5
       DEF IInv, ServerFeed, ClientFeed, ServerKnows, clientVars, In
<1>8. CASE /\ cMinor = 8 /\ setup.offered # <<>>
           /\ toServer' = <<>> /\ toClient' = toClient \o <<Types(setup.offered)>>
           /\ toClient' \in Seq(Message)
           /\ sState' = "SECURITY_TYPE" /\ sType' = sType /\ sEnd' = sEnd
  <2>1. TypeOK'
    BY <1>1, <1>2, <1>4, <1>8, ServerStep DEF IInv, TypeOK
  <2>2. cState = "SECURITY_TYPES" => AtTypes'
    <3>1. <<>> \o <<Types(setup.offered)>> = <<Types(setup.offered)>>
      BY Kinds, Sequences DEF IInv, TypeOK, Setup
    <3> QED
      BY <1>2, <1>3, <1>4, <1>8, <3>1 DEF AtTypes, Refused, clientVars
  <2> QED
    BY <1>2, <1>3, <1>4, <1>8, <2>1, <2>2
       DEF IInv, ServerFeed, ClientFeed, ServerKnows, clientVars, In
<1> QED
  BY <1>5, <1>6, <1>7, <1>8

LEMMA ServerSecurityTypeIInv ==
  ASSUME ListsAssumption, IInv, ServerSecurityType PROVE IInv'
<1>1. /\ sState = "SECURITY_TYPE" /\ sMinor = 8 /\ toServer = <<Chosen(cType)>>
      /\ Head(toServer).type = cType /\ Tail(toServer) = <<>>
  <2>1. sState = "SECURITY_TYPE" /\ sMinor = 8 /\ toServer = <<Chosen(cType)>>
    BY DEF IInv, ServerFeed, ServerSecurityType
  <2> QED
    BY <2>1, Kinds, Sequences DEF IInv, TypeOK
<1>2. sEnd = "OPEN" /\ ~Refused /\ cEnd # "EOF"
  BY <1>1, Alive
<1>3. \/ /\ cState = "SECURITY" /\ cType = "VncAuth" /\ Common(cType)
         /\ cMinor = 8 /\ toClient = <<>>
      \/ /\ cState = "SECURITY_RESULT" /\ cType = "None" /\ Common(cType)
         /\ cMinor = 8 /\ toClient = <<>>
      \/ cState = "INVALID"
  <2>1. toServer # <<>>
    BY DEF ServerSecurityType
  <2> QED
    BY <1>1, <1>2, <2>1
       DEF IInv, TypeOK, ClientFeed, AtVersion, AtTypes, AtChallenge, AtResult,
           AtReason, AtInitialisation, AtNormal
<1>4. UNCHANGED <<setup, sMinor, clientVars>> /\ sMinor' \in Minor
  BY <1>1 DEF ServerSecurityType, Minor
<1>5. CASE cType \in Legacy /\ Contains(setup.offered, cType)
  <2>1. SecurityBegins("type", 8, cType, <<>>)
    BY <1>1, <1>5 DEF ServerSecurityType
  <2>2. cType \in Type /\ 8 \in Minor /\ <<>> \in Seq(Message) /\ Signal("challenge") \in Message
    BY <1>5, Kinds, EmptySeq DEF Legacy, Type, Minor
  <2>3. /\ toServer' = <<>> /\ toClient' \in Seq(Message) /\ sType' = cType
        /\ \/ cType = "None" /\ Outcome(TRUE, 8, cType, <<>>)
           \/ /\ cType = "VncAuth" /\ sState' = "SECURITY" /\ sEnd' = sEnd
              /\ toClient' = toClient \o Append(<<>>, Signal("challenge"))
    BY <1>1, <2>1, <2>2, SecurityBegun DEF IInv
  <2>4. ASSUME NEW ok \in BOOLEAN
        PROVE <<>> \o ResultSent(8, cType, ok) = ResultSent(8, cType, ok)
    BY <2>2, Answers, ConcatEmptySeq
  <2>5. CASE cType = "VncAuth"
    <3>1. /\ sState' = "SECURITY" /\ sEnd' = sEnd
          /\ toClient' = toClient \o <<Signal("challenge")>>
      BY <2>2, <2>3, <2>5, Sequences
    <3>2. TypeOK'
      BY <1>2, <1>4, <2>2, <2>3, <3>1, ServerStep
    <3>3. cState = "SECURITY" => AtChallenge'
      <4>1. <<>> \o <<Signal("challenge")>> = <<Signal("challenge")>>
        BY <2>2, Sequences
      <4> QED
        BY <1>1, <1>2, <1>3, <1>4, <2>3, <2>5, <3>1, <4>1
           DEF AtChallenge, Refused, Common, Agreed, clientVars
    <3> QED
      BY <1>2, <1>3, <1>4, <2>3, <2>5, <3>1, <3>2, <3>3
         DEF IInv, ServerFeed, ClientFeed, ServerKnows, clientVars, In
  <2>6. CASE cType = "None"
    <3>1. \/ /\ sState' = "INITIALISATION" /\ sEnd' = sEnd
             /\ toClient' = toClient \o <<Result(TRUE)>>
          \/ /\ sState' = "CLOSING" /\ sEnd' = "OTHER"
             /\ toClient' = toClient \o <<Result(TRUE)>>
          \/ /\ sState' = "CLOSING" /\ sEnd' = "REFUSED"
             /\ toClient' = toClient \o ResultSent(8, cType, FALSE)
          \/ sState' = "QUERYING" /\ sEnd' = sEnd /\ toClient' = toClient \o <<>>
      <4>1. ResultSent(8, cType, TRUE) = <<Result(TRUE)>>
        BY <2>2, Answers
      <4> QED
        BY <2>3, <2>4, <2>6, <4>1 DEF Outcome
    <3>2. TypeOK'
      BY <1>2, <1>4, <2>2, <2>3, <3>1, ServerStep
    <3>3. cState = "SECURITY_RESULT" => AtResult'
      <4>1. SUFFICES ASSUME cState = "SECURITY_RESULT" PROVE AtResult'
        OBVIOUS
      <4>2. <<>> \o <<Result(TRUE)>> = <<Result(TRUE)>> /\ <<>> \o <<>> = <<>>
        BY Kinds, Sequences
      <4> QED
        BY <1>1, <1>2, <1>3, <1>4, <2>3, <2>4, <2>6, <3>1, <4>1, <4>2
           DEF AtResult, Refused, Common, Agreed, clientVars
    <3> QED
      BY <1>2, <1>3, <1>4, <2>3, <2>6, <3>1, <3>2, <3>3
         DEF IInv, ServerFeed, ClientFeed, ServerKnows, clientVars, In
  <2> QED
    BY <2>3, <2>5, <2>6
<1>6. CASE ~(cType \in Legacy /\ Contains(setup.offered, cType))
  <2>1. cState = "INVALID"
    BY <1>3, <1>6 DEF Common
  <2>2. /\ toServer' \in Seq(Message) /\ toClient' \in Seq(Message)
        /\ sState' = "CLOSING" /\ sEnd' = "REFUSED" /\ sType' = sType
    <3>1. <<>> \in Seq(Message)
      BY EmptySeq
    <3>2. /\ ServerTakes("type", <<>>) /\ ServerCloses("REFUSED") /\ UNCHANGED sType
      BY <1>1, <1>6 DEF ServerSecurityType
    <3> QED
      BY <3>1, <3>2, ServerTakesType DEF IInv, ServerCloses
  <2>3. TypeOK'
    BY <1>4, <2>2, ServerStep DEF IInv, TypeOK
  <2> QED
    BY <1>2, <1>4, <2>1, <2>2, <2>3
       DEF IInv, ServerFeed, ClientFeed, ServerKnows, clientVars, In
<1> QED
  BY <1>5, <1>6

LEMMA ServerResponseIInv ==
  ASSUME ListsAssumption, IInv, ServerResponse PROVE IInv'
<1>1. /\ sState = "SECURITY" /\ sType = "VncAuth" /\ toServer = <<Response(setup.password)>>
      /\ Head(toServer).ok = setup.password /\ Tail(toServer) = <<>>
  <2>1. /\ sState = "SECURITY" /\ sType = "VncAuth" /\ toServer = <<Response(setup.password)>>
        /\ setup.password \in BOOLEAN
    BY DEF IInv, TypeOK, Setup, ServerFeed, ServerResponse
  <2> QED
    BY <2>1, Kinds, Sequences
<1>2. sEnd = "OPEN" /\ ~Refused /\ cEnd # "EOF"
  BY <1>1, Alive
<1>3. \/ /\ cState = "SECURITY_RESULT" /\ Common(cType) /\ Agreed /\ toClient = <<>>
      \/ cState = "INVALID"
  <2>1. toServer # <<>>
    BY DEF ServerResponse
  <2> QED
    BY <1>1, <1>2, <2>1
       DEF IInv, TypeOK, ClientFeed, AtVersion, AtTypes, AtChallenge, AtResult,
           AtReason, AtInitialisation, AtNormal
<1>4. UNCHANGED <<setup, sMinor, sType, clientVars>> /\ sMinor \in Minor /\ sType \in Type
  BY <1>1 DEF ServerResponse, IInv, TypeOK, Type
<1>5. /\ toServer' = <<>> /\ toClient' \in Seq(Message)
      /\ Outcome(setup.password, sMinor, sType, <<>>)
  <2>1. <<>> \in Seq(Message)
    BY EmptySeq
  <2>2. Decided("response", setup.password, sMinor, sType, <<>>)
    BY <1>1 DEF ServerResponse
  <2> QED
    BY <1>1, <1>4, <2>1, <2>2, DecidedOutcome DEF IInv
<1>6. \/ /\ setup.password /\ sState' = "INITIALISATION" /\ sEnd' = sEnd
         /\ toClient' = toClient \o <<Result(TRUE)>>
      \/ /\ sState' = "CLOSING" /\ sEnd' = "OTHER"
         /\ toClient' = toClient \o <<Result(TRUE)>>
      \/ /\ sState' = "CLOSING" /\ sEnd' = "REFUSED"
         /\ toClient' = toClient \o ResultSent(sMinor, sType, FALSE)
      \/ /\ setup.password /\ sState' = "QUERYING" /\ sEnd' = sEnd
         /\ toClient' = toClient \o <<>>
  <2>1. ResultSent(sMinor, sType, TRUE) = <<Result(TRUE)>>
    BY <1>1, <1>4, Answers
  <2>2. ASSUME NEW ok \in BOOLEAN
        PROVE <<>> \o ResultSent(sMinor, sType, ok) = ResultSent(sMinor, sType, ok)
    BY <1>4, Answers, ConcatEmptySeq
  <2> QED
    BY <1>5, <2>1, <2>2 DEF Outcome
<1>7. TypeOK'
  <2>1. <<>> \in Seq(Message)
    BY EmptySeq
  <2> QED
    BY <1>2, <1>4, <1>5, <1>6, <2>1, ServerStep
<1>8. cState = "SECURITY_RESULT" => AtResult'
  <2>1. SUFFICES ASSUME cState = "SECURITY_RESULT" PROVE AtResult'
    OBVIOUS
  <2>2. <<>> \o <<Result(TRUE)>> = <<Result(TRUE)>> /\ <<>> \o <<>> = <<>>
    BY Kinds, Sequences
  <2>3. <<>> \o ResultSent(sMinor, sType, FALSE) = ResultSent(sMinor, sType, FALSE)
    BY <1>4, Answers, ConcatEmptySeq
  <2> QED
    BY <1>1, <1>2, <1>3, <1>4, <1>5, <1>6, <2>1, <2>2, <2>3
       DEF AtResult, Refused, Common, Agreed, clientVars
<1> QED
  BY <1>1, <1>2, <1>3, <1>4, <1>5, <1>6, <1>7, <1>8
     DEF IInv, ServerFeed, ClientFeed, ServerKnows, clientVars, In

LEMMA ApproveConnectionIInv ==
  ASSUME ListsAssumption, IInv, ApproveConnection PROVE IInv'
<1>1. /\ sState = "QUERYING" /\ UNCHANGED <<setup, sMinor, sType, clientVars, toServer>>
      /\ sMinor \in Minor /\ sType \in Type \cup {"Invalid"}
      /\ toServer = <<>> \/ (Silent /\ toServer = <<Signal("clientInit")>>)
  BY DEF ApproveConnection, IInv, TypeOK, ServerFeed
<1>2. sEnd = "OPEN" /\ ~Refused /\ cEnd # "EOF"
  BY <1>1, Alive
<1>3. PICK ok \in BOOLEAN :
        /\ toClient' = toClient \o ResultSent(sMinor, sType, ok)
        /\ \/ ok /\ sState' = "INITIALISATION" /\ sEnd' = sEnd
           \/ ok /\ sState' = "CLOSING" /\ sEnd' = "OTHER"
           \/ ~ok /\ sState' = "CLOSING" /\ sEnd' = "REFUSED"
  BY DEF ApproveConnection, ServerCloses
<1>4. ResultSent(sMinor, sType, ok) \in Seq(Message) /\ toClient' \in Seq(Message)
  BY <1>1, <1>3, Answers, ConcatProperties DEF IInv, TypeOK
<1>5. TypeOK'
  BY <1>1, <1>2, <1>3, <1>4, ServerStep DEF IInv, TypeOK
<1>6. \/ /\ cState = "SECURITY_TYPES" /\ cType = "Invalid" /\ cMinor = 3 /\ sMinor = 3
         /\ toServer = <<>> /\ sType = "None" /\ Contains(setup.offered, sType)
         /\ toClient = <<Type33("None")>>
      \/ /\ cState = "SECURITY_RESULT" /\ Common(cType) /\ (cMinor = 8 \/ cType = "VncAuth")
         /\ Agreed /\ toServer = <<>> /\ toClient = <<>>
      \/ /\ cState = "INITIALISATION" /\ Common(cType) /\ Silent /\ Agreed
         /\ toServer = <<Signal("clientInit")>> /\ toClient = <<>>
      \/ cState = "INVALID"
  BY <1>1, <1>2
     DEF IInv, TypeOK, ClientFeed, AtVersion, AtTypes, AtChallenge, AtResult,
         AtReason, AtInitialisation, AtNormal
<1>7. cState = "SECURITY_TYPES" => AtTypes'
  <2>1. SUFFICES ASSUME cState = "SECURITY_TYPES" PROVE AtTypes'
    OBVIOUS
  <2>2. toClient' = <<Type33("None")>>
    <3>1. ResultSent(sMinor, sType, ok) = <<>>
      BY <1>6, <2>1, Answers
    <3>2. Type33("None") \in Message
      BY Kinds DEF Type
    <3> QED
      BY <1>3, <1>6, <2>1, <3>1, <3>2, Sequences
  <2> QED
    BY <1>1, <1>3, <1>6, <2>1, <2>2 DEF AtTypes, Refused, clientVars
<1>8. cState = "SECURITY_RESULT" => AtResult'
  <2>1. SUFFICES ASSUME cState = "SECURITY_RESULT" PROVE AtResult'
    OBVIOUS
  <2>2. toClient' = ResultSent(sMinor, sType, ok)
    BY <1>3, <1>4, <1>6, <2>1, ConcatEmptySeq
  <2>3. ok => ResultSent(sMinor, sType, ok) = <<Result(TRUE)>>
    <3>1. sMinor = 8 \/ sType # "None"
      BY <1>6, <2>1 DEF Agreed
    <3> QED
      BY <1>1, <3>1, Answers
  <2> QED
    BY <1>1, <1>3, <1>6, <2>1, <2>2, <2>3 DEF AtResult, Refused, Common, Agreed, clientVars
<1>9. cState = "INITIALISATION" => AtInitialisation'
  <2>1. SUFFICES ASSUME cState = "INITIALISATION" PROVE AtInitialisation'
    OBVIOUS
  <2>2. toClient' = <<>>
    <3>1. ResultSent(sMinor, sType, ok) = <<>>
      <4>1. sMinor = 3 /\ sType = "None"
        BY <1>1, <1>6, <2>1 DEF Silent, Minor
      <4> QED
        BY <4>1, Answers
    <3> QED
      BY <1>3, <1>4, <1>6, <2>1, <3>1, ConcatEmptySeq
  <2>3. Silent'
    BY <1>1, <1>6, <2>1 DEF Silent
  <2> QED
    BY <1>1, <1>3, <1>6, <2>1, <2>2, <2>3
       DEF AtInitialisation, Refused, Common, Agreed, clientVars
<1>10. ServerFeed'
  BY <1>1, <1>3 DEF ServerFeed
<1>11. ClientFeed'
  BY <1>1, <1>2, <1>6, <1>7, <1>8, <1>9 DEF ClientFeed, clientVars
<1>12. ServerKnows'
  BY <1>1, <1>2, <1>3 DEF IInv, ServerKnows, In
<1> QED
  BY <1>5, <1>10, <1>11, <1>12 DEF IInv

LEMMA ServerClientInitIInv ==
  ASSUME ListsAssumption, IInv, ServerClientInit PROVE IInv'
<1>1. /\ sState = "INITIALISATION" /\ toServer = <<Signal("clientInit")>>
      /\ UNCHANGED <<setup, sMinor, sType, clientVars>> /\ Tail(toServer) = <<>>
      /\ sMinor \in Minor /\ sType \in Type \cup {"Invalid"}
  <2>1. /\ sState = "INITIALISATION" /\ toServer = <<Signal("clientInit")>>
        /\ UNCHANGED <<setup, sMinor, sType, clientVars>>
    BY DEF IInv, ServerFeed, ServerClientInit, ServerTakes
  <2> QED
    BY <2>1, Kinds, Sequences DEF IInv, TypeOK
<1>2. sEnd = "OPEN" /\ ~Refused /\ cEnd # "EOF"
  BY <1>1, Alive
<1>3. /\ toServer' = <<>> /\ toClient' \in Seq(Message)
      /\ \/ /\ sState' = "NORMAL" /\ sEnd' = sEnd
            /\ toClient' = toClient \o <<Signal("serverInit")>>
         \/ sState' = "CLOSING" /\ sEnd' = "OTHER" /\ toClient' = toClient \o <<>>
  <2>1. <<>> \in Seq(Message) /\ <<Signal("serverInit")>> \in Seq(Message)
    BY Kinds, Sequences
  <2> QED
    BY <1>1, <2>1, ServerTakesType DEF IInv, ServerClientInit, ServerTakes, ServerCloses
<1>4. TypeOK'
  <2>1. <<>> \in Seq(Message)
    BY EmptySeq
  <2> QED
    BY <1>1, <1>2, <1>3, <2>1, ServerStep
<1>5. \/ /\ cState = "INITIALISATION" /\ Common(cType) /\ Agreed /\ toClient = <<>>
      \/ cState = "INVALID"
  <2>1. toServer # <<>>
    BY <1>1, Kinds, Sequences
  <2> QED
    BY <1>1, <1>2, <2>1
       DEF IInv, TypeOK, ClientFeed, AtVersion, AtTypes, AtChallenge, AtResult,
           AtReason, AtInitialisation, AtNormal
<1>6. cState = "INITIALISATION" => AtInitialisation'
  <2>1. <<>> \o <<Signal("serverInit")>> = <<Signal("serverInit")>> /\ <<>> \o <<>> = <<>>
    BY Kinds, Sequences
  <2> QED
    BY <1>1, <1>2, <1>3, <1>5, <2>1 DEF AtInitialisation, Refused, Common, Agreed, clientVars
<1> QED
  BY <1>1, <1>2, <1>3, <1>4, <1>5, <1>6
     DEF IInv, ServerFeed, ClientFeed, ServerKnows, clientVars, In

(* When the server closes for reasons of its own, or because of a message  *)
(* during a query, it has read and sent nothing.                           *)
LEMMA ServerEndsIInv ==
  ASSUME IInv, sState # "CLOSING", NEW why \in {"BOGUS", "OTHER"}, ServerCloses(why),
         why = "BOGUS" => Silent,
         UNCHANGED <<setup, sMinor, sType, clientVars, toServer, toClient>>
  PROVE  IInv'
<1>1. sEnd = "OPEN" /\ ~Refused /\ cEnd # "EOF" /\ ~Refused'
  BY Alive DEF ServerCloses, Refused
<1>2. sState' = "CLOSING" /\ sEnd' = why
  BY DEF ServerCloses
<1>3. TypeOK'
  BY <1>2, ServerStep DEF IInv, TypeOK
<1>4. ServerFeed'
  BY <1>2 DEF ServerFeed
<1>5. ServerKnows'
  BY <1>2 DEF ServerKnows, In, Silent
<1>6. cState = "PROTOCOL_VERSION" => AtVersion'
  BY <1>1, <1>2 DEF IInv, ClientFeed, AtVersion, clientVars
<1>7. cState = "SECURITY_TYPES" => AtTypes'
  BY <1>1, <1>2 DEF IInv, ClientFeed, AtTypes, clientVars
<1>8. cState = "SECURITY" => AtChallenge'
  BY <1>1, <1>2 DEF IInv, ClientFeed, AtChallenge, Common, Agreed, clientVars
<1>9. cState = "SECURITY_RESULT" => AtResult'
  BY <1>1, <1>2 DEF IInv, ClientFeed, AtResult, Common, clientVars
<1>10. cState # "REASON"
  BY <1>1 DEF IInv, ClientFeed, AtReason
<1>11. cState = "INITIALISATION" => AtInitialisation'
  BY <1>1, <1>2 DEF IInv, ClientFeed, AtInitialisation, Common, clientVars
<1>12. cState = "NORMAL" => AtNormal'
  BY <1>1, <1>2 DEF IInv, ClientFeed, AtNormal, Common, clientVars
<1> QED
  BY <1>1, <1>3, <1>4, <1>5, <1>6, <1>7, <1>8, <1>9, <1>10, <1>11, <1>12
     DEF IInv, ClientFeed, clientVars

LEMMA ServerIInv ==
  ASSUME ListsAssumption, IInv, Server \/ ServerHangsUp PROVE IInv'
<1>1. CASE ServerBogus
  <2>1. Silent
    BY <1>1 DEF ServerBogus, IInv, ServerFeed
  <2> QED
    BY <1>1, <2>1, ServerEndsIInv DEF ServerBogus
<1>2. CASE ServerHangsUp
  BY <1>2, ServerEndsIInv DEF ServerHangsUp
<1> QED
  BY <1>1, <1>2, ServerVersionIInv, ServerSecurityTypeIInv, ServerResponseIInv,
     ApproveConnectionIInv, ServerClientInitIInv DEF Server, ServerEndOfStream

-----------------------------------------------------------------------------
(* The choice of the client                                                *)

(* Where its own list has a type, or 0. *)
Place(t) == SelectInSeq(setup.supported, LAMBDA s : s = t)

LEMMA Places ==
  ASSUME TypeOK, ListsAssumption, NEW t
  PROVE  /\ Place(t) \in 0 .. Len(setup.supported) /\ Len(setup.supported) \in Nat
         /\ Place(t) > 0 <=> Contains(setup.supported, t)
         /\ Place(t) > 0 => setup.supported[Place(t)] = t
         /\ \A k \in 1 .. Len(setup.supported) : setup.supported[k] = t => Place(t) <= k
<1> DEFINE I == {k \in 1 .. Len(setup.supported) : setup.supported[k] = t}
<1>1. I \in SUBSET Nat /\ Len(setup.supported) \in Nat
  BY DEF TypeOK, Setup, ListsAssumption
<1>2. Place(t) = IF I # {} THEN Min(I) ELSE 0
  BY DEF Place, SelectInSeq
<1>3. Contains(setup.supported, t) <=> I # {}
  BY DEF Contains
<1>4. \A k \in 1 .. Len(setup.supported) : setup.supported[k] = t <=> k \in I
  OBVIOUS
<1>5. \A k \in I : k \in 1 .. Len(setup.supported)
  OBVIOUS
<1> HIDE DEF I
<1>6. CASE I = {}
  BY <1>1, <1>2, <1>3, <1>4, <1>6
<1>7. CASE I # {}
  <2>1. Place(t) \in I /\ \A k \in I : Place(t) <= k
    BY <1>1, <1>2, <1>7, MinIsFirst
  <2>2. Place(t) \in 1 .. Len(setup.supported) /\ setup.supported[Place(t)] = t
    BY <1>4, <1>5, <2>1
  <2> QED
    BY <1>1, <1>3, <1>4, <1>7, <2>1, <2>2
<1> QED
  BY <1>6, <1>7

Best == [type : Type \cup {"Invalid"}, pos : Nat]

NoBest == [type |-> "Invalid", pos |-> Len(setup.supported) + 1]

BetterPlace(best, t) ==
  (best.type = "Invalid" \/ setup.clientOrder) /\ Place(t) > 0 /\ Place(t) < best.pos

LEMMA BetterIs ==
  ASSUME NEW best, NEW t
  PROVE  Better(best, t) = IF BetterPlace(best, t) THEN [type |-> t, pos |-> Place(t)] ELSE best
BY Zenon DEF Better, BetterPlace, Place

LEMMA BetterType ==
  ASSUME TypeOK, ListsAssumption, NEW best \in Best, NEW t \in Type
  PROVE  Better(best, t) \in Best
<1>1. Place(t) \in Nat
  BY Places
<1>2. [type |-> t, pos |-> Place(t)] \in Best
  BY <1>1 DEF Best
<1> QED
  BY <1>2, BetterIs

(* best is what the loop of Choice leaves after each round. *)
Rounds(best, ts) ==
  best = [n \in 0 .. Len(ts) |-> IF n = 0 THEN NoBest ELSE Better(best[n - 1], ts[n])]

LEMMA RoundsExist ==
  ASSUME TypeOK, ListsAssumption, NEW ts \in Seq(Type) PROVE \E best : Rounds(best, ts)
<1> DEFINE step == [p \in Nat \X Best |->
                      IF p[1] < Len(ts) THEN Better(p[2], ts[p[1] + 1]) ELSE p[2]]
<1>1. NoBest \in Best
  BY Places DEF NoBest, Best
<1>2. ASSUME NEW p \in Nat \X Best
      PROVE (IF p[1] < Len(ts) THEN Better(p[2], ts[p[1] + 1]) ELSE p[2]) \in Best
  <2>1. p[1] \in Nat /\ p[2] \in Best /\ Len(ts) \in Nat
    OBVIOUS
  <2>2. CASE p[1] < Len(ts)
    <3>1. p[1] + 1 \in 1 .. Len(ts)
      BY <2>1, <2>2
    <3>2. ts[p[1] + 1] \in Type
      BY <3>1
    <3> QED
      BY <2>1, <2>2, <3>2, BetterType
  <2> QED
    BY <2>1, <2>2
<1>3. step \in Step(Best)
  BY <1>2 DEF Step
<1>4. \A n \in Nat, b \in Best :
        step[<<n, b>>] = IF n < Len(ts) THEN Better(b, ts[n + 1]) ELSE b
  OBVIOUS
<1> HIDE DEF step
<1>5. PICK f : Follows(f, Best, NoBest, step)
  BY <1>1, <1>3, RecursiveFunction
<1> DEFINE best == [n \in 0 .. Len(ts) |-> f[n]]
<1>6. ASSUME NEW n \in 0 .. Len(ts)
      PROVE  best[n] = IF n = 0 THEN NoBest ELSE Better(best[n - 1], ts[n])
  <2>1. CASE n = 0
    BY <1>5, <2>1 DEF Follows
  <2>2. CASE n # 0
    <3>1. n - 1 \in Nat /\ n - 1 \in 0 .. Len(ts) /\ n = (n - 1) + 1 /\ n - 1 < Len(ts)
      BY <2>2
    <3>2. f[n] = step[<<n - 1, f[n - 1]>>] /\ f[n - 1] \in Best
      BY <1>5, <3>1 DEF Follows
    <3>3. f[n] = Better(f[n - 1], ts[n])
      BY <1>4, <3>1, <3>2
    <3> QED
      BY <2>2, <3>1, <3>3
  <2> QED
    BY <2>1, <2>2
<1>7. DOMAIN best = 0 .. Len(ts) /\ best = [n \in DOMAIN best |-> best[n]]
  OBVIOUS
<1> HIDE DEF best
<1>8. Rounds(best, ts)
  BY <1>6, <1>7 DEF Rounds
<1> QED
  BY <1>8

Has(t) == Contains(setup.supported, t)

(* What the loop has found in the first n types. *)
RoundInv(b, n, ts) ==
  /\ b \in Best
  /\ b.type = "Invalid" =>
       b.pos = Len(setup.supported) + 1 /\ \A k \in 1 .. n : ~Has(ts[k])
  /\ b.type # "Invalid" =>
       /\ b.pos = Place(b.type) /\ Has(b.type)
       /\ \E k \in 1 .. n :
            ts[k] = b.type /\ (~setup.clientOrder => \A j \in 1 .. k - 1 : ~Has(ts[j]))
       /\ setup.clientOrder => \A k \in 1 .. n : Has(ts[k]) => b.pos <= Place(ts[k])

LEMMA RoundKeeps ==
  ASSUME TypeOK, ListsAssumption, NEW ts \in Seq(Type), NEW n \in Nat, n < Len(ts),
         NEW b, RoundInv(b, n, ts)
  PROVE  RoundInv(Better(b, ts[n + 1]), n + 1, ts)
<1> DEFINE t == ts[n + 1]
           c == [type |-> t, pos |-> Place(t)]
<1>1. t \in Type /\ t # "Invalid" /\ n + 1 \in 1 .. n + 1 /\ 1 .. n \subseteq 1 .. n + 1
  BY DEF Type
<1>2. \A k \in 1 .. n + 1 : k \in 1 .. n \/ k = n + 1
  OBVIOUS
<1>3. /\ Place(t) \in 0 .. Len(setup.supported) /\ Len(setup.supported) \in Nat
      /\ Place(t) > 0 <=> Has(t)
  BY Places DEF Has
<1>4. Better(b, t) \in Best
  BY <1>1, BetterType DEF RoundInv
<1>5. CASE BetterPlace(b, t)
  <2>1. Better(b, t) = c /\ c.type = t /\ c.pos = Place(t)
    BY <1>5, BetterIs
  <2>2. Has(t) /\ Place(t) < b.pos /\ (b.type = "Invalid" \/ setup.clientOrder)
    BY <1>3, <1>5 DEF BetterPlace
  <2>3. ASSUME ~setup.clientOrder, NEW j \in 1 .. n PROVE ~Has(ts[j])
    BY <2>2, <2>3 DEF RoundInv
  <2>4. n + 1 - 1 = n
    OBVIOUS
  <2>5. ASSUME setup.clientOrder, NEW k \in 1 .. n + 1, Has(ts[k]) PROVE Place(t) <= Place(ts[k])
    <3>1. CASE k = n + 1
      BY <1>3, <3>1
    <3>2. CASE k \in 1 .. n
      <4>1. b.type # "Invalid" /\ b.pos <= Place(ts[k])
        BY <2>5, <3>2 DEF RoundInv
      <4>2. b.pos \in Nat /\ Place(ts[k]) \in Nat
        BY Places DEF RoundInv, Best
      <4> QED
        BY <1>3, <2>2, <4>1, <4>2
    <3> QED
      BY <1>2, <3>1, <3>2
  <2> HIDE DEF t, c
  <2>6. RoundInv(c, n + 1, ts)
    <3>1. c.type # "Invalid" /\ c.pos = Place(c.type) /\ Has(c.type) /\ c \in Best
      BY <1>1, <1>4, <2>1, <2>2
    <3>2. ts[n + 1] = c.type
      BY <2>1 DEF t
    <3>3. \E k \in 1 .. n + 1 :
            ts[k] = c.type /\ (~setup.clientOrder => \A j \in 1 .. k - 1 : ~Has(ts[j]))
      BY <1>1, <2>3, <2>4, <3>2
    <3>4. setup.clientOrder => \A k \in 1 .. n + 1 : Has(ts[k]) => c.pos <= Place(ts[k])
      BY <2>1, <2>5
    <3> QED
      BY <3>1, <3>3, <3>4 DEF RoundInv
  <2> QED
    BY <2>1, <2>6 DEF t
<1>6. CASE ~BetterPlace(b, t)
  <2>1. Better(b, t) = b
    BY <1>6, BetterIs
  <2>2. CASE b.type = "Invalid"
    <3>1. b.pos = Len(setup.supported) + 1 /\ \A k \in 1 .. n : ~Has(ts[k])
      BY <2>2 DEF RoundInv
    <3>2. ~Has(t)
      BY <1>3, <1>6, <2>2, <3>1 DEF BetterPlace
    <3>3. \A k \in 1 .. n + 1 : ~Has(ts[k])
      BY <1>2, <3>1, <3>2
    <3> QED
      BY <1>4, <2>1, <2>2, <3>1, <3>3 DEF RoundInv
  <2>3. CASE b.type # "Invalid"
    <3>1. \E k \in 1 .. n + 1 :
            ts[k] = b.type /\ (~setup.clientOrder => \A j \in 1 .. k - 1 : ~Has(ts[j]))
      BY <1>1, <2>3 DEF RoundInv
    <3>2. ASSUME setup.clientOrder, NEW k \in 1 .. n + 1, Has(ts[k]) PROVE b.pos <= Place(ts[k])
      <4>1. CASE k = n + 1
        <5>1. b.pos \in Nat
          BY DEF RoundInv, Best
        <5>2. Place(t) > 0 /\ ~(Place(t) < b.pos)
          BY <1>3, <1>6, <3>2, <4>1 DEF BetterPlace
        <5> QED
          BY <1>3, <4>1, <5>1, <5>2
      <4>2. CASE k \in 1 .. n
        BY <2>3, <3>2, <4>2 DEF RoundInv
      <4> QED
        BY <1>2, <4>1, <4>2
    <3> QED
      BY <2>1, <2>3, <3>1, <3>2 DEF RoundInv
  <2> QED
    BY <2>2, <2>3
<1> QED
  BY <1>5, <1>6

(* What the client chooses is in both lists, and it is the first such type *)
(* of the one list or of the other, as clientOrder says.                   *)
LEMMA ChoiceIs ==
  ASSUME TypeOK, ListsAssumption, NEW ts \in Seq(Type)
  PROVE  \E b : RoundInv(b, Len(ts), ts) /\ Choice(ts) = b.type
<1> DEFINE best == CHOOSE f : Rounds(f, ts)
           T == {n \in Nat : n <= Len(ts) => RoundInv(best[n], n, ts)}
<1>1. Rounds(best, ts)
  BY RoundsExist, Zenon
<1>2. Choice(ts) = best[Len(ts)].type
  BY DEF Choice, Rounds, NoBest
<1> HIDE DEF best
<1>3. /\ Len(ts) \in Nat
      /\ \A n \in 0 .. Len(ts) : best[n] = IF n = 0 THEN NoBest ELSE Better(best[n - 1], ts[n])
  BY <1>1 DEF Rounds
<1>4. 0 \in T
  <2>1. best[0] = NoBest
    BY <1>3
  <2>2. NoBest \in Best /\ NoBest.type = "Invalid" /\ NoBest.pos = Len(setup.supported) + 1
    BY Places DEF NoBest, Best
  <2> QED
    BY <2>1, <2>2 DEF RoundInv
<1>5. ASSUME NEW n \in Nat, n \in T PROVE n + 1 \in T
  <2>1. SUFFICES ASSUME n + 1 <= Len(ts) PROVE RoundInv(best[n + 1], n + 1, ts)
    OBVIOUS
  <2>2. n < Len(ts) /\ n + 1 \in 0 .. Len(ts) /\ n + 1 # 0 /\ n + 1 - 1 = n
    BY <1>3, <2>1
  <2>3. RoundInv(best[n], n, ts)
    BY <1>3, <1>5, <2>2
  <2>4. best[n + 1] = Better(best[n], ts[n + 1])
    BY <1>3, <2>2
  <2> QED
    BY <2>2, <2>3, <2>4, RoundKeeps
<1> HIDE DEF T
<1>6. Nat \subseteq T
  BY <1>4, <1>5, Induction
<1>7. RoundInv(best[Len(ts)], Len(ts), ts)
  BY <1>3, <1>6 DEF T
<1> QED
  BY <1>2, <1>7

-----------------------------------------------------------------------------
(* Steps of the client                                                     *)

LEMMA ClientTakesType ==
  ASSUME TypeOK, NEW kind, NEW ms \in Seq(Message), ClientTakes(kind, ms)
  PROVE  toServer' \in Seq(Message) /\ toClient' \in Seq(Message)
BY HeadTailProperties, ConcatProperties DEF TypeOK, ClientTakes

(* A call of the client leaves the server as it is. *)
LEMMA ClientStep ==
  ASSUME IInv, UNCHANGED <<setup, serverVars>>,
         cState' \in {"SECURITY_TYPES", "SECURITY", "SECURITY_RESULT", "REASON",
                      "INITIALISATION", "NORMAL", "INVALID"},
         cMinor' \in Minor, cType' \in Type \cup {"Invalid"},
         cEnd' \in {"OPEN", "TOLD", "NO_MATCH", "EOF", "OTHER"},
         cState' = "INVALID" <=> cEnd' # "OPEN",
         toServer' \in Seq(Message), toClient' \in Seq(Message)
  PROVE  TypeOK' /\ ServerKnows'
BY DEF IInv, TypeOK, Setup, serverVars, ServerKnows, Silent, In

(* A client that closes sends nothing more. *)
LEMMA ClientGone ==
  ASSUME IInv, NEW why \in {"TOLD", "NO_MATCH", "EOF", "OTHER"}, ClientEnds(why),
         why = "EOF" => sState = "CLOSING" /\ (Refused => Silent),
         UNCHANGED <<setup, serverVars, cMinor, cType, toServer>>, toClient' \in Seq(Message)
  PROVE  IInv'
<1>1. cState' = "INVALID" /\ cEnd' = why
  BY DEF ClientEnds
<1>2. TypeOK' /\ ServerKnows'
  BY <1>1, ClientStep DEF IInv, TypeOK
<1>3. ServerFeed'
  BY DEF IInv, ServerFeed, serverVars, Silent
<1>4. ClientFeed'
  BY <1>1 DEF ClientFeed, serverVars, Refused, Silent
<1> QED
  BY <1>2, <1>3, <1>4 DEF IInv

LEMMA ClientOpen == ASSUME IInv, cState # "INVALID" PROVE cEnd = "OPEN"
BY DEF IInv, TypeOK

LEMMA ClientVersionIInv ==
  ASSUME IInv, ClientVersion PROVE IInv'
<1> DEFINE n == Head(toClient).minor
           m == IF setup.protocol3_3 \/ n < 7 THEN 3 ELSE IF n > 8 THEN 8 ELSE n
<1>1. /\ cState = "PROTOCOL_VERSION" /\ AtVersion /\ UNCHANGED <<setup, cType, serverVars>>
      /\ cState' = "SECURITY_TYPES" /\ cEnd' = cEnd /\ cEnd = "OPEN"
      /\ setup.server \in Minor
  BY ClientOpen DEF ClientVersion, ClientGoesTo, IInv, TypeOK, Setup, ClientFeed
<1>2. /\ cMinor' = m /\ toClient # <<>>
      /\ toClient' = Tail(toClient) /\ toServer' = toServer \o <<Version(m)>>
  BY DEF ClientVersion, ClientTakes
<1>3. \/ ~Refused /\ n = setup.server /\ Tail(toClient) = <<>>
      \/ Refused /\ n = 3 /\ Tail(toClient) = ConnFailed(3)
  <2>1. CASE toClient = <<Version(setup.server)>> /\ ~Refused
    BY <1>1, <2>1, Kinds, Sequences
  <2>2. CASE toClient = <<Version(3)>> \o ConnFailed(3) /\ Refused
    <3>1. 3 \in Minor /\ Version(3) \in Message /\ Version(3).minor = 3
      BY Kinds DEF Minor
    <3>2. ConnFailed(3) \in Seq(Message)
      BY <3>1, Answers
    <3> QED
      BY <2>2, <3>1, <3>2, Following
  <2> QED
    BY <1>1, <2>1, <2>2, Alive DEF AtVersion
<1>4. n \in Minor
  BY <1>1, <1>3 DEF Minor
<1>5. m \in Minor /\ (n = 3 => m = 3)
  BY <1>4 DEF Minor
<1> HIDE DEF n, m
<1>6. toServer' = <<Version(m)>> /\ <<Version(m)>> \in Seq(Message)
  BY <1>1, <1>2, <1>5, Kinds, Sequences DEF AtVersion
<1>7. toClient' = <<>> \/ toClient' = ConnFailed(3)
  BY <1>2, <1>3
<1>8. toClient' \in Seq(Message)
  BY <1>7, Answers, EmptySeq DEF Minor
<1>9. TypeOK' /\ ServerKnows'
  BY <1>1, <1>2, <1>5, <1>6, <1>8, ClientStep DEF IInv, TypeOK
<1>10. AtTypes'
  BY <1>1, <1>2, <1>3, <1>5, <1>6, Alive DEF AtTypes, AtVersion, Refused, serverVars
<1>11. ServerFeed'
  BY <1>1, <1>2, <1>6 DEF AtVersion, ServerFeed, serverVars, Refused, IInv, TypeOK
<1> QED
  BY <1>1, <1>9, <1>10, <1>11 DEF IInv, ClientFeed

LEMMA ClientFailsIInv ==
  ASSUME IInv, cState = "SECURITY_TYPES", NEW kind, NEW refused \in BOOLEAN,
         ClientFails(kind, refused), UNCHANGED <<setup, cMinor, serverVars>>,
         refused => Refused /\ Tail(toClient) = <<Signal("reason")>>
  PROVE  IInv'
<1>1. /\ toServer' = toServer /\ toClient' = Tail(toClient) /\ UNCHANGED cType
      /\ toServer' \in Seq(Message) /\ toClient' \in Seq(Message)
  <2>1. <<>> \in Seq(Message) /\ toServer \o <<>> = toServer
    BY EmptySeq, ConcatEmptySeq DEF IInv, TypeOK
  <2> QED
    BY <2>1, ClientTakesType DEF ClientFails, ClientTakes, IInv
<1>2. CASE ~refused
  BY <1>1, <1>2, ClientGone DEF ClientFails
<1>3. CASE refused
  <2>1. cState' = "REASON" /\ cEnd' = "OPEN" /\ AtReason'
    BY <1>1, <1>3, ClientOpen DEF ClientFails, ClientGoesTo, AtReason, Refused, serverVars
  <2>2. TypeOK' /\ ServerKnows'
    BY <1>1, <2>1, ClientStep DEF IInv, TypeOK
  <2>3. ServerFeed'
    BY <1>1 DEF IInv, ServerFeed, serverVars, Silent
  <2> QED
    BY <2>1, <2>2, <2>3 DEF IInv, ClientFeed
<1> QED
  BY <1>2, <1>3

LEMMA SupportedIsLegacy ==
  ASSUME TypeOK, ListsAssumption, NEW t, Contains(setup.supported, t)
  PROVE  t \in Legacy /\ t \in Type /\ t # "Invalid"
BY DEF TypeOK, Setup, ListsAssumption, Contains, Legacy, Type

LEMMA ClientSecurityType33IInv ==
  ASSUME ListsAssumption, IInv, ClientSecurityType33 PROVE IInv'
<1> DEFINE t == Head(toClient).type
<1>1. /\ cState = "SECURITY_TYPES" /\ AtTypes /\ cMinor = 3 /\ toClient # <<>>
      /\ UNCHANGED <<setup, cMinor, serverVars>> /\ cEnd = "OPEN" /\ TypeOK
  BY ClientOpen DEF ClientSecurityType33, IInv, ClientFeed
<1>2. /\ Type33("Invalid") \in Message /\ Type33("None") \in Message
      /\ Type33("VncAuth") \in Message
      /\ Type33("Invalid").type = "Invalid" /\ Type33("None").type = "None"
      /\ Type33("VncAuth").type = "VncAuth"
      /\ Signal("reason") \in Message /\ Signal("challenge") \in Message
      /\ Signal("clientInit") \in Message
  BY Kinds DEF Type
<1>3. \/ Refused /\ t = "Invalid" /\ Tail(toClient) = <<Signal("reason")>>
      \/ /\ sMinor = 3 /\ toServer = <<>> /\ Contains(setup.offered, sType)
         /\ sType = "None" /\ sState \in {"QUERYING", "INITIALISATION", "CLOSING"}
         /\ t = "None" /\ Tail(toClient) = <<>>
      \/ /\ sMinor = 3 /\ toServer = <<>> /\ Contains(setup.offered, sType)
         /\ sType = "VncAuth" /\ sState \in {"SECURITY", "CLOSING"} /\ ~Refused
         /\ t = "VncAuth" /\ Tail(toClient) = <<Signal("challenge")>>
  <2>1. CASE Refused /\ toClient = ConnFailed(3)
    <3>1. toClient = <<Type33("Invalid"), Signal("reason")>>
      BY <2>1, Answers
    <3>2. Head(toClient) = Type33("Invalid") /\ Tail(toClient) = <<Signal("reason")>>
      BY <1>2, <3>1, Sequences
    <3>3. t = "Invalid"
      BY <1>2, <3>2
    <3> HIDE DEF t
    <3> QED
      BY <2>1, <3>2, <3>3
  <2>2. CASE toClient = <<Type33("None")>>
    <3>1. Head(toClient) = Type33("None") /\ Tail(toClient) = <<>>
      BY <1>2, <2>2, Sequences
    <3>2. t = "None"
      BY <1>2, <3>1
    <3>3. toClient # ConnFailed(3) /\ toClient # <<Type33("VncAuth"), Signal("challenge")>>
      BY <1>2, <2>2, <3>1, Answers, Sequences
    <3> HIDE DEF t
    <3> QED
      BY <1>1, <3>1, <3>2, <3>3 DEF AtTypes
  <2>3. CASE toClient = <<Type33("VncAuth"), Signal("challenge")>>
    <3>1. Head(toClient) = Type33("VncAuth") /\ Tail(toClient) = <<Signal("challenge")>>
      BY <1>2, <2>3, Sequences
    <3>2. t = "VncAuth"
      BY <1>2, <3>1
    <3>3. toClient # ConnFailed(3) /\ toClient # <<Type33("None")>>
      BY <1>2, <2>3, <3>1, Answers, Sequences
    <3> HIDE DEF t
    <3> QED
      BY <1>1, <3>1, <3>2, <3>3 DEF AtTypes
  <2> HIDE DEF t
  <2> QED
    BY <1>1, <2>1, <2>2, <2>3 DEF AtTypes
<1>4. CASE ~Contains(setup.supported, t)
  <2>1. ClientFails("type33", t = "Invalid")
    BY <1>4 DEF ClientSecurityType33
  <2> QED
    BY <1>1, <1>3, <2>1, ClientFailsIInv
<1>5. CASE Contains(setup.supported, t)
  <2>1. t \in Legacy /\ t \in Type /\ t # "Invalid"
    BY <1>1, <1>5, SupportedIsLegacy
  <2>2. ClientSecurity("type33", 3, t, <<>>)
    BY <1>1, <1>5 DEF ClientSecurityType33
  <2>3. Common(t) /\ sType = t /\ sMinor = 3 /\ toServer = <<>>
    BY <1>3, <1>5, <2>1 DEF Common
  <2> HIDE DEF t
  <2>4. CASE t = "None"
    <3>1. /\ cType' = "None" /\ cState' = "INITIALISATION" /\ cEnd' = cEnd
          /\ toClient' = Tail(toClient) /\ toServer' = toServer \o Append(<<>>, Signal("clientInit"))
      <4>1. 3 < 8
        OBVIOUS
      <4> QED
        BY <2>2, <2>4, <4>1, Zenon DEF ClientSecurity, ClientTakes, ClientGoesTo
    <3>2. toServer' = <<Signal("clientInit")>> /\ toServer' \in Seq(Message)
      BY <1>2, <2>3, <3>1, Sequences
    <3>3. toClient' = <<>> /\ toClient' \in Seq(Message)
      BY <1>3, <2>3, <2>4, <3>1, EmptySeq
    <3>4. TypeOK' /\ ServerKnows'
      BY <1>1, <3>1, <3>2, <3>3, ClientStep DEF TypeOK, Type
    <3>5. Silent /\ Silent'
      BY <1>1, <2>3, <2>4 DEF Silent, serverVars
    <3>6. AtInitialisation'
      BY <1>1, <1>3, <2>3, <2>4, <3>1, <3>2, <3>3, <3>5
         DEF AtInitialisation, Agreed, Common, serverVars
    <3>7. ServerFeed'
      BY <1>1, <1>3, <2>3, <2>4, <3>2, <3>5 DEF ServerFeed, serverVars
    <3> QED
      BY <3>1, <3>4, <3>6, <3>7 DEF IInv, ClientFeed
  <2>5. CASE t = "VncAuth"
    <3>1. /\ cType' = "VncAuth" /\ cState' = "SECURITY" /\ cEnd' = cEnd
          /\ toClient' = Tail(toClient) /\ toServer' = toServer \o <<>>
      BY <2>2, <2>5 DEF ClientSecurity, ClientTakes, ClientGoesTo
    <3>2. toServer' = <<>> /\ toServer' \in Seq(Message)
      BY <2>3, <3>1, EmptySeq, ConcatEmptySeq
    <3>3. toClient' = <<Signal("challenge")>> /\ toClient' \in Seq(Message)
      BY <1>2, <1>3, <2>3, <2>5, <3>1, Sequences
    <3>4. TypeOK' /\ ServerKnows'
      BY <1>1, <3>1, <3>2, <3>3, ClientStep DEF TypeOK, Type
    <3>5. AtChallenge'
      BY <1>1, <1>3, <2>3, <2>5, <3>1, <3>2, <3>3
         DEF AtChallenge, Agreed, Common, serverVars, Refused
    <3>6. ServerFeed'
      BY <1>1, <1>3, <2>3, <2>5, <3>2 DEF ServerFeed, serverVars
    <3> QED
      BY <3>1, <3>4, <3>5, <3>6 DEF IInv, ClientFeed
  <2> QED
    BY <2>1, <2>4, <2>5 DEF Legacy
<1> QED
  BY <1>4, <1>5

LEMMA ClientSecurityTypesIInv ==
  ASSUME ListsAssumption, IInv, ClientSecurityTypes PROVE IInv'
<1> DEFINE ts == Head(toClient).types
<1>1. /\ cState = "SECURITY_TYPES" /\ AtTypes /\ cMinor = 8 /\ toClient # <<>>
      /\ UNCHANGED <<setup, cMinor, serverVars>> /\ cEnd = "OPEN" /\ TypeOK
  <2>1. cMinor # 3
    BY DEF ClientSecurityTypes
  <2> QED
    BY <2>1, ClientOpen DEF ClientSecurityTypes, IInv, TypeOK, Minor, ClientFeed
<1>2. /\ setup.offered \in Offers /\ setup.offered \in Seq(Type) /\ <<>> \in Seq(Type)
      /\ Signal("reason") \in Message
      /\ Types(<<>>) \in Message /\ Types(<<>>).types = <<>>
      /\ Types(setup.offered) \in Message /\ Types(setup.offered).types = setup.offered
  BY <1>1, Kinds DEF TypeOK, Setup, ListsAssumption
<1>3. \/ Refused /\ ts = <<>> /\ Tail(toClient) = <<Signal("reason")>>
      \/ /\ sMinor = 8 /\ toServer = <<>> /\ setup.offered # <<>>
         /\ sState \in {"SECURITY_TYPE", "CLOSING"} /\ ~Refused
         /\ ts = setup.offered /\ Tail(toClient) = <<>>
  <2>1. CASE Refused /\ toClient = ConnFailed(8)
    <3>1. toClient = <<Types(<<>>), Signal("reason")>>
      BY <2>1, Answers
    <3> QED
      BY <1>2, <2>1, <3>1, Sequences
  <2>2. CASE /\ sMinor = 8 /\ toServer = <<>> /\ setup.offered # <<>>
             /\ sState \in {"SECURITY_TYPE", "CLOSING"} /\ ~Refused
             /\ toClient = <<Types(setup.offered)>>
    BY <1>2, <2>2, Sequences
  <2> HIDE DEF ts
  <2> QED
    BY <1>1, <2>1, <2>2 DEF AtTypes
<1>4. ts \in Seq(Type)
  BY <1>2, <1>3
<1> HIDE DEF ts
<1>5. PICK b : RoundInv(b, Len(ts), ts) /\ Choice(ts) = b.type
  BY <1>1, <1>4, ChoiceIs
<1>6. CASE Choice(ts) = "Invalid"
  <2>1. ClientFails("types", ts = <<>>)
    BY <1>6 DEF ClientSecurityTypes, ts
  <2> QED
    BY <1>1, <1>3, <2>1, ClientFailsIInv
<1>7. CASE Choice(ts) # "Invalid"
  <2> DEFINE t == Choice(ts)
  <2>1. Has(t) /\ Contains(ts, t) /\ ts # <<>>
    <3>1. Has(b.type) /\ \E k \in 1 .. Len(ts) : ts[k] = b.type
      BY <1>5, <1>7 DEF RoundInv
    <3>2. ts # <<>>
      <4>1. CASE ts = <<>>
        <5>1. 1 .. Len(ts) = {}
          BY <4>1
        <5> QED
          BY <3>1, <5>1
      <4> QED
        BY <4>1
    <3> QED
      BY <1>5, <3>1, <3>2 DEF Contains
  <2>2. t \in Legacy /\ t \in Type /\ t # "Invalid"
    BY <1>1, <2>1, SupportedIsLegacy DEF Has
  <2>3. /\ sMinor = 8 /\ toServer = <<>> /\ sState \in {"SECURITY_TYPE", "CLOSING"} /\ ~Refused
        /\ ts = setup.offered /\ Tail(toClient) = <<>>
    BY <1>3, <2>1
  <2>4. Common(t)
    BY <2>1, <2>2, <2>3 DEF Common, Has
  <2>5. ClientSecurity("types", 8, t, <<Chosen(t)>>)
    BY <1>1, <1>7 DEF ClientSecurityTypes, ts
  <2>6. Chosen(t) \in Message
    BY <2>2, Kinds
  <2> HIDE DEF t
  <2>7. /\ cType' = t /\ cEnd' = cEnd
        /\ cState' = IF t = "None" THEN "SECURITY_RESULT" ELSE "SECURITY"
        /\ toClient' = Tail(toClient) /\ toServer' = toServer \o <<Chosen(t)>>
    <3>1. ~(8 < 8)
      OBVIOUS
    <3> QED
      BY <2>5, <3>1, Zenon DEF ClientSecurity, ClientTakes, ClientGoesTo
  <2>8. /\ toServer' = <<Chosen(t)>> /\ toServer' \in Seq(Message)
        /\ toClient' = <<>> /\ toClient' \in Seq(Message)
    BY <2>3, <2>6, <2>7, Sequences, EmptySeq
  <2>9. TypeOK' /\ ServerKnows'
    BY <1>1, <2>2, <2>7, <2>8, ClientStep DEF TypeOK
  <2>10. ServerFeed'
    BY <1>1, <2>3, <2>7, <2>8 DEF ServerFeed, serverVars
  <2>11. CASE t = "None"
    <3>1. AtResult'
      BY <1>1, <2>3, <2>4, <2>7, <2>8, <2>11 DEF AtResult, Common, serverVars, Refused
    <3> QED
      BY <2>7, <2>9, <2>10, <2>11, <3>1 DEF IInv, ClientFeed
  <2>12. CASE t = "VncAuth"
    <3>1. AtChallenge'
      BY <1>1, <2>3, <2>4, <2>7, <2>8, <2>12 DEF AtChallenge, Common, serverVars, Refused
    <3> QED
      BY <2>7, <2>9, <2>10, <2>12, <3>1 DEF IInv, ClientFeed
  <2> QED
    BY <2>2, <2>11, <2>12 DEF Legacy
<1> QED
  BY <1>6, <1>7

LEMMA ClientChallengeIInv == ASSUME IInv, ClientChallenge PROVE IInv'
<1>1. /\ cState = "SECURITY" /\ AtChallenge /\ toClient # <<>>
      /\ UNCHANGED <<setup, cMinor, cType, serverVars>> /\ cEnd = "OPEN" /\ TypeOK
      /\ setup.password \in BOOLEAN
  BY ClientOpen DEF ClientChallenge, ClientTakes, IInv, ClientFeed, TypeOK, Setup
<1>2. /\ sState \in {"SECURITY", "CLOSING"} /\ Agreed /\ ~Refused /\ Common(cType)
      /\ cType = "VncAuth" /\ toServer = <<>> /\ Tail(toClient) = <<>>
  <2>1. /\ sState \in {"SECURITY", "CLOSING"} /\ Agreed /\ ~Refused /\ Common(cType)
        /\ cType = "VncAuth" /\ toServer = <<>> /\ toClient = <<Signal("challenge")>>
    BY <1>1 DEF AtChallenge
  <2>2. Signal("challenge") \in Message
    BY Kinds
  <2> QED
    BY <2>1, <2>2, Sequences
<1>3. Response(setup.password) \in Message
  BY <1>1, Kinds
<1>4. CASE ClientTakes("challenge", <<Response(setup.password)>>) /\ ClientGoesTo("SECURITY_RESULT")
  <2>1. /\ toServer' = <<Response(setup.password)>> /\ toServer' \in Seq(Message)
        /\ toClient' = <<>> /\ toClient' \in Seq(Message)
        /\ cState' = "SECURITY_RESULT" /\ cEnd' = cEnd
    BY <1>2, <1>3, <1>4, Sequences, EmptySeq DEF ClientTakes, ClientGoesTo
  <2>2. TypeOK' /\ ServerKnows'
    BY <1>1, <2>1, ClientStep DEF TypeOK
  <2>3. ServerFeed'
    BY <1>1, <1>2, <2>1 DEF IInv, ServerFeed, serverVars
  <2>4. AtResult'
    BY <1>1, <1>2, <2>1 DEF AtResult, Common, Agreed, serverVars, Refused
  <2> QED
    BY <2>1, <2>2, <2>3, <2>4 DEF IInv, ClientFeed
<1>5. CASE ClientTakes("challenge", <<>>) /\ ClientEnds("OTHER")
  <2>1. toServer' = toServer /\ toClient' \in Seq(Message)
    BY <1>1, <1>2, <1>5, EmptySeq, ConcatEmptySeq DEF ClientTakes
  <2> QED
    BY <1>1, <1>5, <2>1, ClientGone
<1> QED
  BY <1>4, <1>5 DEF ClientChallenge

LEMMA ClientResultIInv == ASSUME IInv, ClientResult PROVE IInv'
<1>1. /\ cState = "SECURITY_RESULT" /\ AtResult /\ toClient # <<>> /\ cMinor \in Minor
      /\ UNCHANGED <<setup, cMinor, cType, serverVars>> /\ cEnd = "OPEN" /\ TypeOK
  BY ClientOpen DEF ClientResult, IInv, ClientFeed, TypeOK
<1>2. /\ Result(TRUE) \in Message /\ Result(TRUE).ok /\ Result(FALSE) \in Message /\ ~Result(FALSE).ok
      /\ Signal("reason") \in Message /\ Signal("clientInit") \in Message
  BY Kinds
<1>3. \/ /\ Common(cType) /\ sState = "INITIALISATION" /\ Agreed /\ toServer = <<>>
         /\ Head(toClient).ok /\ Tail(toClient) = <<>>
      \/ /\ Common(cType) /\ sState = "CLOSING" /\ ~Refused
         /\ Head(toClient).ok /\ Tail(toClient) = <<>>
      \/ /\ Refused /\ ~Head(toClient).ok /\ cMinor = 3 /\ Tail(toClient) = <<>>
      \/ /\ Refused /\ ~Head(toClient).ok /\ cMinor = 8 /\ Tail(toClient) = <<Signal("reason")>>
  <2>1. CASE toClient = <<Result(TRUE)>> /\ ~Refused
    BY <1>1, <1>2, <2>1, Sequences DEF AtResult
  <2>2. CASE Refused /\ toClient = ResultSent(cMinor, cType, FALSE)
    <3>1. ResultSent(cMinor, cType, FALSE) = IF cMinor < 8 THEN <<Result(FALSE)>>
                                             ELSE <<Result(FALSE), Signal("reason")>>
      BY <1>1, Answers DEF AtResult, TypeOK
    <3>2. CASE cMinor = 3
      <4>1. cMinor < 8
        BY <3>2
      <4>2. toClient = <<Result(FALSE)>>
        BY <2>2, <3>1, <4>1, Zenon
      <4>3. Head(toClient) = Result(FALSE) /\ Tail(toClient) = <<>>
        BY <1>2, <4>2, Sequences
      <4> QED
        BY <1>2, <2>2, <3>2, <4>3
    <3>3. CASE cMinor = 8
      <4>1. ~(cMinor < 8)
        BY <3>3
      <4>2. toClient = <<Result(FALSE), Signal("reason")>>
        BY <2>2, <3>1, <4>1, Zenon
      <4>3. Head(toClient) = Result(FALSE) /\ Tail(toClient) = <<Signal("reason")>>
        BY <1>2, <4>2, Sequences
      <4> QED
        BY <1>2, <2>2, <3>3, <4>3
    <3> QED
      BY <1>1, <3>2, <3>3 DEF Minor
  <2> QED
    BY <1>1, <2>1, <2>2, Alive DEF AtResult
<1>4. CASE /\ Head(toClient).ok
           /\ ClientTakes("result", <<Signal("clientInit")>>)
           /\ ClientGoesTo("INITIALISATION")
  <2>1. /\ toServer' = toServer \o <<Signal("clientInit")>> /\ toServer' \in Seq(Message)
        /\ toClient' = <<>> /\ toClient' \in Seq(Message)
        /\ cState' = "INITIALISATION" /\ cEnd' = cEnd
    <3>1. <<Signal("clientInit")>> \in Seq(Message)
      BY <1>2, Sequences
    <3>2. toServer' \in Seq(Message) /\ toClient' \in Seq(Message)
      BY <1>1, <1>4, <3>1, ClientTakesType
    <3> QED
      BY <1>3, <1>4, <3>2 DEF ClientTakes, ClientGoesTo
  <2>2. TypeOK' /\ ServerKnows'
    BY <1>1, <2>1, ClientStep DEF TypeOK
  <2>3. \/ sState = "INITIALISATION" /\ Agreed /\ toServer' = <<Signal("clientInit")>> /\ Common(cType)
        \/ sState = "CLOSING" /\ ~Refused /\ Common(cType)
    BY <1>2, <1>3, <1>4, <2>1, Sequences
  <2>4. ServerFeed'
    BY <1>1, <2>3 DEF ServerFeed, serverVars
  <2>5. AtInitialisation'
    BY <1>1, <2>1, <2>3 DEF AtInitialisation, Common, Agreed, serverVars, Refused
  <2> QED
    BY <2>1, <2>2, <2>4, <2>5 DEF IInv, ClientFeed
<1>5. CASE /\ ~Head(toClient).ok
           /\ ClientTakes("result", <<>>)
           /\ IF cMinor >= 8 THEN ClientGoesTo("REASON") ELSE ClientEnds("TOLD")
  <2>1. /\ toServer' = toServer /\ toServer' \in Seq(Message)
        /\ toClient' = Tail(toClient) /\ toClient' \in Seq(Message)
    <3>1. <<>> \in Seq(Message) /\ toServer \o <<>> = toServer
      BY <1>1, EmptySeq, ConcatEmptySeq DEF TypeOK
    <3>2. toServer' \in Seq(Message) /\ toClient' \in Seq(Message)
      BY <1>1, <1>5, <3>1, ClientTakesType
    <3> QED
      BY <1>5, <3>1, <3>2 DEF ClientTakes
  <2>2. CASE cMinor = 3
    <3>1. ClientEnds("TOLD")
      BY <1>5, <2>2
    <3> QED
      BY <1>1, <2>1, <3>1, ClientGone
  <2>3. CASE cMinor = 8
    <3>1. cState' = "REASON" /\ cEnd' = cEnd /\ AtReason'
      BY <1>1, <1>3, <1>5, <2>1, <2>3 DEF ClientGoesTo, AtReason, Refused, serverVars
    <3>2. TypeOK' /\ ServerKnows'
      BY <1>1, <2>1, <3>1, ClientStep DEF TypeOK
    <3>3. ServerFeed'
      BY <1>1, <2>1 DEF IInv, ServerFeed, serverVars, Silent
    <3> QED
      BY <3>1, <3>2, <3>3 DEF IInv, ClientFeed
  <2> QED
    BY <1>1, <2>2, <2>3 DEF Minor
<1> QED
  BY <1>4, <1>5 DEF ClientResult

LEMMA ClientReasonIInv == ASSUME IInv, ClientReason PROVE IInv'
<1>1. toServer' = toServer /\ toClient' \in Seq(Message)
  <2>1. <<>> \in Seq(Message) /\ toServer \o <<>> = toServer
    BY EmptySeq, ConcatEmptySeq DEF IInv, TypeOK
  <2> QED
    BY <2>1, ClientTakesType DEF ClientReason, ClientTakes, IInv
<1> QED
  BY <1>1, ClientGone DEF ClientReason

LEMMA ClientServerInitIInv == ASSUME IInv, ClientServerInit PROVE IInv'
<1>1. /\ cState = "INITIALISATION" /\ AtInitialisation /\ toClient # <<>>
      /\ UNCHANGED <<setup, cMinor, cType, serverVars>> /\ cEnd = "OPEN" /\ TypeOK
      /\ cState' = "NORMAL" /\ cEnd' = cEnd
  BY ClientOpen DEF ClientServerInit, ClientTakes, ClientGoesTo, IInv, ClientFeed
<1>2. toServer' = toServer /\ toServer' \in Seq(Message) /\ toClient' = Tail(toClient)
  BY <1>1, EmptySeq, ConcatEmptySeq DEF ClientServerInit, ClientTakes, TypeOK
<1>3. /\ toClient = <<Signal("serverInit")>> /\ Common(cType)
      /\ \/ sState = "NORMAL" /\ Agreed /\ toServer = <<>>
         \/ sState = "CLOSING" /\ (Refused => Silent)
  BY <1>1 DEF AtInitialisation
<1>4. toClient' = <<>> /\ toClient' \in Seq(Message)
  BY <1>2, <1>3, Kinds, Sequences, EmptySeq
<1>5. TypeOK' /\ ServerKnows'
  BY <1>1, <1>2, <1>4, ClientStep DEF TypeOK
<1>6. ServerFeed'
  BY <1>1, <1>2 DEF IInv, ServerFeed, serverVars, Silent
<1>7. AtNormal'
  BY <1>1, <1>2, <1>3, <1>4 DEF AtNormal, Common, Agreed, serverVars, Refused, Silent
<1> QED
  BY <1>1, <1>5, <1>6, <1>7 DEF IInv, ClientFeed

(* Where there is nothing more to read from a server that has closed, the  *)
(* client has not been refused, unless nothing is said about it.           *)
LEMMA ClientEndOfStreamIInv == ASSUME IInv, ClientEndOfStream PROVE IInv'
<1>1. /\ sState = "CLOSING" /\ toClient = <<>> /\ cState # "INVALID" /\ TypeOK
      /\ UNCHANGED <<setup, cMinor, cType, serverVars, toServer, toClient>>
  BY DEF ClientEndOfStream, IInv
<1>2. ASSUME Refused, ~Silent PROVE FALSE
  <2>1. Type33("Invalid") \in Message /\ Types(<<>>) \in Message /\ Signal("reason") \in Message
        /\ Version(3) \in Message /\ Result(FALSE) \in Message
        /\ Type33("None") \in Message
    BY Kinds DEF Type, Minor
  <2>2. /\ ConnFailed(3) # <<>> /\ ConnFailed(8) # <<>>
        /\ <<Version(3)>> \o ConnFailed(3) # <<>>
    <3>1. ConnFailed(3) # <<>> /\ ConnFailed(8) # <<>>
      BY <2>1, Answers, Sequences
    <3>2. ConnFailed(3) \in Seq(Message)
      BY Answers DEF Minor
    <3> QED
      BY <2>1, <3>1, <3>2, Following
  <2>3. cState # "PROTOCOL_VERSION"
    BY <1>1, <1>2, <2>2 DEF IInv, ClientFeed, AtVersion, Refused
  <2>4. cState # "SECURITY_TYPES"
    BY <1>1, <1>2, <2>1, <2>2, Sequences DEF IInv, TypeOK, Minor, ClientFeed, AtTypes
  <2>5. cState # "SECURITY" /\ cState # "REASON"
    BY <1>1, <1>2, <2>1, Sequences DEF IInv, ClientFeed, AtChallenge, AtReason
  <2>6. cState # "SECURITY_RESULT"
    <3>1. SUFFICES ASSUME cState = "SECURITY_RESULT" PROVE FALSE
      OBVIOUS
    <3>2. cMinor = 8 \/ cType # "None"
      BY <3>1 DEF IInv, ClientFeed, AtResult
    <3>3. toClient = ResultSent(cMinor, cType, FALSE)
      BY <1>1, <1>2, <3>1 DEF IInv, ClientFeed, AtResult, Refused
    <3>4. cMinor \in Minor /\ cType \in Type \cup {"Invalid"}
      BY <1>1 DEF TypeOK
    <3>5. \/ ResultSent(cMinor, cType, FALSE) = <<Result(FALSE)>>
          \/ ResultSent(cMinor, cType, FALSE) = <<Result(FALSE), Signal("reason")>>
      BY <3>2, <3>4, Answers, Zenon
    <3>6. <<Result(FALSE)>> # <<>> /\ <<Result(FALSE), Signal("reason")>> # <<>>
      BY <2>1, Sequences
    <3> QED
      BY <1>1, <3>3, <3>5, <3>6, Zenon
  <2>7. cState # "INITIALISATION" /\ cState # "NORMAL"
    BY <1>1, <1>2 DEF IInv, ClientFeed, AtInitialisation, AtNormal, Refused
  <2> QED
    BY <1>1, <2>3, <2>4, <2>5, <2>6, <2>7 DEF TypeOK
<1> QED
  BY <1>1, <1>2, ClientGone DEF ClientEndOfStream, TypeOK

LEMMA ClientIInv ==
  ASSUME ListsAssumption, IInv, Client \/ ClientHangsUp PROVE IInv'
<1>1. CASE ClientHangsUp
  BY <1>1, ClientGone DEF ClientHangsUp, IInv, TypeOK
<1> QED
  BY <1>1, ClientVersionIInv, ClientSecurityType33IInv, ClientSecurityTypesIInv,
     ClientChallengeIInv, ClientResultIInv, ClientReasonIInv, ClientServerInitIInv,
     ClientEndOfStreamIInv DEF Client

LEMMA NextIInv == ASSUME ListsAssumption PROVE IInv /\ [Next]_vars => IInv'
<1> SUFFICES ASSUME IInv, [Next]_vars PROVE IInv'
  OBVIOUS
<1>1. CASE UNCHANGED vars
  <2>1. UNCHANGED <<setup, sState, sMinor, sType, sEnd, cState, cMinor, cType, cEnd, toServer, toClient>>
    BY <1>1 DEF vars, serverVars, clientVars
  <2>2. TypeOK'
    BY <2>1 DEF IInv, TypeOK, Setup
  <2>3. ServerFeed' /\ ServerKnows'
    BY <2>1 DEF IInv, ServerFeed, ServerKnows, Silent, In
  <2>4. AtVersion' = AtVersion /\ AtTypes' = AtTypes
    BY <2>1 DEF AtVersion, AtTypes, Refused
  <2>5. AtChallenge' = AtChallenge /\ AtResult' = AtResult /\ AtReason' = AtReason
    BY <2>1 DEF AtChallenge, AtResult, AtReason, Refused, Common, Agreed
  <2>6. AtInitialisation' = AtInitialisation /\ AtNormal' = AtNormal
    BY <2>1 DEF AtInitialisation, AtNormal, Refused, Common, Agreed, Silent
  <2>7. ClientFeed'
    BY <2>1, <2>4, <2>5, <2>6 DEF IInv, ClientFeed, Refused, Silent
  <2> QED
    BY <2>2, <2>3, <2>7 DEF IInv
<1> QED
  BY <1>1, ServerIInv, ClientIInv DEF Next, Ended

LEMMA InitIInv == Init => IInv
<1> SUFFICES ASSUME Init PROVE IInv
  OBVIOUS
<1>1. setup.server \in Minor /\ 3 \in Minor
  BY DEF Init, Setup, Minor
<1>2. <<Version(setup.server)>> \in Seq(Message) /\ <<Version(3)>> \in Seq(Message)
  BY <1>1, Kinds, Sequences
<1>3. <<Version(3)>> \o ConnFailed(3) \in Seq(Message)
  BY <1>1, <1>2, Answers, ConcatProperties
<1>4. toServer \in Seq(Message) /\ toClient \in Seq(Message)
  BY <1>2, <1>3, EmptySeq DEF Init
<1>5. TypeOK
  BY <1>1, <1>4 DEF Init, TypeOK, Minor
<1>6. AtVersion
  BY DEF Init, AtVersion, Refused
<1> QED
  BY <1>5, <1>6 DEF Init, IInv, ServerFeed, ClientFeed, ServerKnows, In

LEMMA Invariance == ASSUME ListsAssumption PROVE Spec => []IInv
BY InitIInv, NextIInv, PTL DEF Spec

-----------------------------------------------------------------------------
(* Every reachable state is well typed: neither end sends anything but     *)
(* messages of the protocol.                                               *)
THEOREM TypeCorrect == ASSUME ListsAssumption PROVE Spec => []TypeOK
<1>1. IInv => TypeOK
  BY DEF IInv
<1> QED
  BY <1>1, Invariance, PTL

LEMMA ServerReads ==
  ASSUME IInv, toServer # <<>>, ServerExpects # "nothing"
  PROVE  Head(toServer).kind = ServerExpects
<1>1. setup.password \in BOOLEAN /\ cMinor \in Minor /\ cType \in Type \cup {"Invalid"}
  BY DEF IInv, TypeOK, Setup
<1>2. CASE sState = "PROTOCOL_VERSION"
  <2>1. toServer = <<Version(cMinor)>> /\ ServerExpects = "version"
    BY <1>2 DEF IInv, ServerFeed, ServerExpects
  <2> QED
    BY <1>1, <2>1, Kinds, Sequences
<1>3. CASE sState = "SECURITY_TYPE"
  <2>1. toServer = <<Chosen(cType)>> /\ ServerExpects = "type"
    BY <1>3 DEF IInv, ServerFeed, ServerExpects
  <2> QED
    BY <1>1, <2>1, Kinds, Sequences
<1>4. CASE sState = "SECURITY"
  <2>1. toServer = <<Response(setup.password)>> /\ ServerExpects = "response"
    BY <1>4 DEF IInv, ServerFeed, ServerExpects
  <2> QED
    BY <1>1, <2>1, Kinds, Sequences
<1>5. CASE sState = "INITIALISATION"
  <2>1. toServer = <<Signal("clientInit")>> /\ ServerExpects = "clientInit"
    BY <1>5 DEF IInv, ServerFeed, ServerExpects
  <2> QED
    BY <2>1, Kinds, Sequences
<1> QED
  BY <1>2, <1>3, <1>4, <1>5 DEF ServerExpects

LEMMA ClientReads ==
  ASSUME IInv, toClient # <<>>, ClientExpects # "nothing"
  PROVE  Head(toClient).kind = ClientExpects
<1>1. /\ setup.server \in Minor /\ cMinor \in Minor /\ 3 \in Minor /\ 8 \in Minor
      /\ cType \in Type \cup {"Invalid"} /\ setup.offered \in Offers
  BY DEF IInv, TypeOK, Setup, Minor
<1>2. \A k \in {"challenge", "reason", "serverInit"} : Signal(k) \in Message /\ Signal(k).kind = k
  BY Kinds
<1>3. CASE cState = "PROTOCOL_VERSION"
  <2>1. ClientExpects = "version"
    BY <1>3 DEF ClientExpects
  <2>2. toClient = <<Version(setup.server)>> \/ toClient = <<Version(3)>> \o ConnFailed(3)
    BY <1>3 DEF IInv, ClientFeed, AtVersion
  <2>3. ConnFailed(3) \in Seq(Message)
    BY <1>1, Answers
  <2> QED
    BY <1>1, <2>1, <2>2, <2>3, Kinds, Sequences, Following
<1>4. CASE cState = "SECURITY_TYPES" /\ cMinor = 3
  <2>1. ClientExpects = "type33"
    BY <1>4 DEF ClientExpects
  <2>2. \/ toClient = <<Type33("Invalid"), Signal("reason")>>
        \/ toClient = <<Type33("None")>>
        \/ toClient = <<Type33("VncAuth"), Signal("challenge")>>
    BY <1>4, Answers DEF IInv, ClientFeed, AtTypes
  <2>3. \A t \in {"Invalid", "None", "VncAuth"} : Type33(t) \in Message /\ Type33(t).kind = "type33"
    BY Kinds DEF Type
  <2> QED
    BY <1>2, <2>1, <2>2, <2>3, Sequences
<1>5. CASE cState = "SECURITY_TYPES" /\ cMinor = 8
  <2>1. ClientExpects = "types"
    BY <1>5 DEF ClientExpects
  <2>2. toClient = <<Types(<<>>), Signal("reason")>> \/ toClient = <<Types(setup.offered)>>
    BY <1>5, Answers DEF IInv, ClientFeed, AtTypes
  <2>3. /\ Types(<<>>) \in Message /\ Types(<<>>).kind = "types"
        /\ Types(setup.offered) \in Message /\ Types(setup.offered).kind = "types"
    BY <1>1, Kinds
  <2> QED
    BY <1>2, <2>1, <2>2, <2>3, Sequences
<1>6. CASE cState = "SECURITY"
  <2>1. toClient = <<Signal("challenge")>> /\ ClientExpects = "challenge"
    BY <1>6 DEF IInv, ClientFeed, AtChallenge, ClientExpects
  <2> QED
    BY <1>2, <2>1, Sequences
<1>7. CASE cState = "SECURITY_RESULT"
  <2>1. ClientExpects = "result"
    BY <1>7 DEF ClientExpects
  <2>2. \/ toClient = <<Result(TRUE)>>
        \/ toClient = ResultSent(cMinor, cType, FALSE) /\ (cMinor = 8 \/ cType # "None")
    BY <1>7 DEF IInv, ClientFeed, AtResult
  <2>3. \/ toClient = <<Result(TRUE)>> \/ toClient = <<Result(FALSE)>>
        \/ toClient = <<Result(FALSE), Signal("reason")>>
    BY <1>1, <2>2, Answers, Zenon
  <2>4. \A ok \in BOOLEAN : Result(ok) \in Message /\ Result(ok).kind = "result"
    BY Kinds
  <2> QED
    BY <1>2, <2>1, <2>3, <2>4, Sequences
<1>8. CASE cState = "REASON"
  <2>1. toClient = <<Signal("reason")>> /\ ClientExpects = "reason"
    BY <1>8 DEF IInv, ClientFeed, AtReason, ClientExpects
  <2> QED
    BY <1>2, <2>1, Sequences
<1>9. CASE cState = "INITIALISATION"
  <2>1. toClient = <<Signal("serverInit")>> /\ ClientExpects = "serverInit"
    BY <1>9 DEF IInv, ClientFeed, AtInitialisation, ClientExpects
  <2> QED
    BY <1>2, <2>1, Sequences
<1> QED
  BY <1>1, <1>3, <1>4, <1>5, <1>6, <1>7, <1>8, <1>9 DEF ClientExpects, Minor

(* Neither end takes a message for another one, whatever the two are       *)
(* configured for and wherever one of them closes.                         *)
THEOREM MessagesAreUnderstood == ASSUME ListsAssumption PROVE Spec => []NeverMisread
<1>1. IInv => NeverMisread
  BY ServerReads, ClientReads DEF NeverMisread
<1> QED
  BY <1>1, Invariance, PTL

(* Both ends that are in mean the same version and the same type, which    *)
(* both have, and nobody is in without the password the type asks for.     *)
THEOREM EndsAgree == ASSUME ListsAssumption PROVE Spec => []AgreeOnSecurity
<1>1. ASSUME IInv PROVE AgreeOnSecurity
  <2>1. sState \in In /\ sType = "VncAuth" => setup.password
    BY <1>1 DEF IInv, ServerKnows
  <2>2. ASSUME sState \in In, cState \in In PROVE Agreed /\ Common(cType)
    BY <1>1, <2>2 DEF IInv, ClientFeed, AtInitialisation, AtNormal, In
  <2> QED
    BY <2>1, <2>2 DEF AgreeOnSecurity, Agreed, Common
<1> QED
  BY <1>1, Invariance, PTL

(* A client that is refused never believes it is in, and the connection    *)
(* does not just end.                                                      *)
THEOREM RefusalIsTold == ASSUME ListsAssumption PROVE Spec => []RefusedClientKnows
<1>1. ASSUME IInv PROVE RefusedClientKnows
  <2>1. ASSUME Refused, ~Silent PROVE cState \notin In
    BY <1>1, <2>1, Alive DEF IInv, ClientFeed, AtInitialisation, AtNormal, In
  <2>2. ASSUME Refused, ~Silent PROVE cEnd # "EOF"
    BY <1>1, <2>2 DEF IInv, TypeOK, ClientFeed
  <2> QED
    BY <2>1, <2>2 DEF RefusedClientKnows, Refused
<1> QED
  BY <1>1, Invariance, PTL

(* A client says nothing during a query, unless it waits for no answer.    *)
THEOREM QueriesAreAwaited == ASSUME ListsAssumption PROVE Spec => []QueriedClientWaits
<1>1. IInv => QueriedClientWaits
  BY DEF IInv, ServerKnows, QueriedClientWaits
<1> QED
  BY <1>1, Invariance, PTL

-----------------------------------------------------------------------------
(* The type that the lists say: the invariant is kept because the client   *)
(* chooses once, among the types that the server has offered.              *)

LEMMA FirstIs ==
  ASSUME TypeOK, ListsAssumption, NEW ts \in Seq(Type), NEW us, NEW k \in 1 .. Len(ts),
         Contains(us, ts[k]), \A j \in 1 .. k - 1 : ~Contains(us, ts[j])
  PROVE  FirstOf(ts, us) = ts[k]
<1> DEFINE I == {j \in 1 .. Len(ts) : Contains(us, ts[j])}
           i == SelectInSeq(ts, LAMBDA t : Contains(us, t))
<1>1. I \in SUBSET Nat /\ k \in I /\ \A j \in I : j \in Nat /\ ~(j \in 1 .. k - 1) /\ j >= 1
  OBVIOUS
<1>2. i = IF I # {} THEN Min(I) ELSE 0
  BY DEF SelectInSeq
<1>3. FirstOf(ts, us) = IF i = 0 THEN "Invalid" ELSE ts[i]
  BY DEF FirstOf
<1> HIDE DEF I, i
<1>4. i \in I /\ i <= k
  BY <1>1, <1>2, MinIsFirst
<1>5. i = k
  BY <1>1, <1>4
<1> QED
  BY <1>3, <1>5

LEMMA ChoiceIsFirst ==
  ASSUME TypeOK, ListsAssumption, Choice(setup.offered) # "Invalid"
  PROVE  Choice(setup.offered) = IF setup.clientOrder THEN FirstOf(setup.supported, setup.offered)
                                 ELSE FirstOf(setup.offered, setup.supported)
<1> DEFINE ts == setup.offered
           us == setup.supported
           t == Choice(ts)
<1>1. ts \in Seq(Type) /\ us \in Seq(Legacy) /\ us \in Seq(Type)
  <2>1. Legacy \subseteq Type
    BY DEF Legacy, Type
  <2>2. setup.offered \in Seq(Type) /\ setup.supported \in Seq(Legacy)
    BY DEF TypeOK, Setup, ListsAssumption
  <2> QED
    BY <2>1, <2>2, SeqMonotonic
<1>2. PICK b : RoundInv(b, Len(ts), ts) /\ Choice(ts) = b.type
  BY <1>1, ChoiceIs
<1>3. /\ b.type # "Invalid" /\ b.pos = Place(b.type) /\ Has(b.type) /\ t = b.type
      /\ \E k \in 1 .. Len(ts) :
           ts[k] = b.type /\ (~setup.clientOrder => \A j \in 1 .. k - 1 : ~Has(ts[j]))
      /\ setup.clientOrder => \A k \in 1 .. Len(ts) : Has(ts[k]) => b.pos <= Place(ts[k])
  BY <1>2 DEF RoundInv
<1>4. CASE ~setup.clientOrder
  <2>1. PICK k \in 1 .. Len(ts) : ts[k] = t /\ \A j \in 1 .. k - 1 : ~Has(ts[j])
    BY <1>3, <1>4
  <2>2. Has(ts[k])
    BY <1>3, <2>1
  <2> HIDE DEF ts, us, t
  <2>3. FirstOf(ts, us) = ts[k]
    BY <1>1, <2>1, <2>2, FirstIs DEF Has, us
  <2> QED
    BY <1>4, <2>1, <2>3 DEF ts, us, t
<1>5. CASE setup.clientOrder
  <2> DEFINE p == Place(t)
  <2>1. /\ p \in 1 .. Len(us) /\ us[p] = t
        /\ \A u : \A j \in 1 .. Len(us) : us[j] = u => Place(u) <= j /\ Place(u) \in Nat
    BY <1>3, Places DEF Has
  <2>2. Contains(ts, us[p])
    BY <1>3, <2>1 DEF Contains
  <2>3. ASSUME NEW j \in 1 .. p - 1, Contains(ts, us[j]) PROVE FALSE
    <3>1. PICK k \in 1 .. Len(ts) : ts[k] = us[j]
      BY <2>3 DEF Contains
    <3>2. j \in 1 .. Len(us) /\ j < p
      BY <2>1
    <3>3. Has(ts[k])
      BY <3>1, <3>2 DEF Has, Contains
    <3>4. p <= Place(ts[k])
      BY <1>3, <1>5, <3>3
    <3>5. Place(ts[k]) <= j /\ Place(ts[k]) \in Nat
      BY <2>1, <3>1, <3>2
    <3> HIDE DEF p
    <3> QED
      BY <2>1, <3>2, <3>4, <3>5
  <2> HIDE DEF ts, us, t, p
  <2>4. FirstOf(us, ts) = us[p]
    BY <1>1, <2>1, <2>2, <2>3, FirstIs
  <2> QED
    BY <1>5, <2>1, <2>4 DEF ts, us, t
<1> QED
  BY <1>4, <1>5

LEMMA PreferencesStay ==
  ASSUME UNCHANGED setup
  PROVE  /\ UNCHANGED FirstOf(setup.supported, setup.offered)
         /\ UNCHANGED FirstOf(setup.offered, setup.supported)
BY DEF FirstOf, SelectInSeq, Contains

(* The client takes the server's preference, or its own when it says so.   *)
THEOREM PreferenceIsObeyed == ASSUME ListsAssumption PROVE Spec => []ChoiceIsPreferred
<1>1. Init => ChoiceIsPreferred
  BY DEF Init, ChoiceIsPreferred
<1>2. ASSUME IInv, ChoiceIsPreferred, [Next]_vars PROVE ChoiceIsPreferred'
  <2>1. CASE UNCHANGED <<setup, cMinor, cType>>
    BY <1>2, <2>1, PreferencesStay DEF ChoiceIsPreferred
  <2>2. CASE ClientVersion
    <3>1. cState = "PROTOCOL_VERSION" /\ UNCHANGED cType
      BY <2>2 DEF ClientVersion
    <3>2. cType' = "Invalid"
      BY <1>2, <3>1 DEF IInv, ClientFeed, AtVersion
    <3> QED
      BY <3>2 DEF ChoiceIsPreferred
  <2>3. CASE ClientSecurityType33
    <3>1. cMinor' = 3
      BY <2>3 DEF ClientSecurityType33
    <3>2. ~(cMinor' > 3)
      BY <3>1
    <3> QED
      BY <3>2 DEF ChoiceIsPreferred
  <2>4. CASE ClientSecurityTypes
    <3> DEFINE ts == Head(toClient).types
    <3>1. /\ cState = "SECURITY_TYPES" /\ AtTypes /\ cMinor > 3 /\ toClient # <<>>
          /\ UNCHANGED <<setup, cMinor>> /\ TypeOK
      BY <1>2, <2>4 DEF ClientSecurityTypes, IInv, ClientFeed
    <3>2. cType' = Choice(ts) \/ cType' = cType
      BY <2>4 DEF ClientSecurityTypes, ClientSecurity, ClientFails
    <3>3. cType = "Invalid"
      BY <3>1 DEF AtTypes
    <3>4. ts = setup.offered \/ ts = <<>>
      <4>1. cMinor = 8
        BY <3>1 DEF TypeOK, Minor
      <4>2. /\ Types(<<>>) \in Message /\ Types(<<>>).types = <<>> /\ Signal("reason") \in Message
            /\ Types(setup.offered) \in Message /\ Types(setup.offered).types = setup.offered
        BY <3>1, Kinds DEF TypeOK, Setup
      <4>3. \/ toClient = <<Types(<<>>), Signal("reason")>>
            \/ toClient = <<Types(setup.offered)>>
        BY <3>1, <4>1, Answers DEF AtTypes
      <4> QED
        BY <4>2, <4>3, Sequences
    <3>5. Choice(<<>>) = "Invalid"
      <4>1. <<>> \in Seq(Type) /\ 1 .. Len(<<>>) = {}
        OBVIOUS
      <4> QED
        BY <3>1, <4>1, ChoiceIs DEF RoundInv
    <3> HIDE DEF ts
    <3>6. cType' # "Invalid" => cType' = Choice(setup.offered)
      BY <3>2, <3>3, <3>4, <3>5
    <3>7. cType' # "Invalid" =>
            cType' = IF setup.clientOrder THEN FirstOf(setup.supported, setup.offered)
                     ELSE FirstOf(setup.offered, setup.supported)
      BY <3>1, <3>6, ChoiceIsFirst
    <3>8. /\ UNCHANGED FirstOf(setup.supported, setup.offered)
          /\ UNCHANGED FirstOf(setup.offered, setup.supported)
      BY <3>1, PreferencesStay
    <3> QED
      BY <3>1, <3>7, <3>8 DEF ChoiceIsPreferred
  <2>5. ASSUME Server \/ ServerHangsUp \/ ClientHangsUp \/ Ended \/ UNCHANGED vars
        PROVE  UNCHANGED <<setup, cMinor, cType>>
    BY <2>5 DEF Server, ServerVersion, ServerSecurityType, ServerResponse, ApproveConnection,
                ServerBogus, ServerClientInit, ServerEndOfStream, ServerHangsUp,
                ClientHangsUp, Ended, vars, clientVars
  <2>6. ASSUME ClientChallenge \/ ClientResult \/ ClientReason \/ ClientServerInit
                 \/ ClientEndOfStream
        PROVE  UNCHANGED <<setup, cMinor, cType>>
    BY <2>6 DEF ClientChallenge, ClientResult, ClientReason, ClientServerInit, ClientEndOfStream
  <2> QED
    BY <1>2, <2>1, <2>2, <2>3, <2>4, <2>5, <2>6 DEF Next, Client
<1>3. IInv /\ ChoiceIsPreferred /\ [Next]_vars => ChoiceIsPreferred'
  BY <1>2
<1> QED
  BY <1>1, <1>3, Invariance, PTL DEF Spec
=============================================================================
