------------------------- MODULE UdpExchangeProofs -------------------------
(***************************************************************************)
(* Theorems about UdpExchange, for all buffers, variables and values, every *)
(* width of the counter and any number of mishaps.                         *)
(***************************************************************************)
EXTENDS UdpExchange, SequenceTheorems, WellFoundedInduction, TLAPS

LEMMA LowestIsLowest ==
    ASSUME NEW S \in SUBSET Nat, S # {}
    PROVE  Lowest(S) \in S /\ \A k \in S : Lowest(S) <= k
<1> DEFINE R == OpToRel(<, Nat)
<1>1. IsWellFoundedOn(R, Nat)
  BY NatLessThanWellFounded
<1>2. \A x, y \in Nat : y < x => <<y, x>> \in R
  BY DEF OpToRel
<1> HIDE DEF R
<1>3. PICK x \in S : \A y \in S : ~ (<<y, x>> \in R)
  BY <1>1, WFMin
<1>4. ASSUME NEW y \in S
      PROVE  x <= y
  <2>1. x \in Nat /\ y \in Nat
    OBVIOUS
  <2>2. ~ (y < x)
    BY <1>2, <1>3, <2>1
  <2> QED BY <2>1, <2>2
<1> QED BY <1>3, <1>4 DEF Lowest

----------------------------------------------------------------------------
(* Sequences of messages: what is in them after each operation of the      *)
(* network and the queues.                                                 *)
Msgs(s) == {s[i] : i \in 1 .. Len(s)}

LEMMA Appended ==
    ASSUME NEW S, NEW s \in Seq(S), NEW m \in S
    PROVE  /\ Append(s, m) \in Seq(S)
           /\ Msgs(Append(s, m)) = Msgs(s) \cup {m}
BY DEF Msgs

LEMMA Shortened ==
    ASSUME NEW S, NEW s \in Seq(S), s # <<>>
    PROVE  /\ Tail(s) \in Seq(S) /\ Head(s) \in S
           /\ Head(s) \in Msgs(s) /\ Msgs(Tail(s)) \subseteq Msgs(s)
BY DEF Msgs

LEMMA Lost ==
    ASSUME NEW S, NEW s \in Seq(S), NEW i \in 1 .. Len(s)
    PROVE  LET t == SubSeq(s, 1, i - 1) \o SubSeq(s, i + 1, Len(s))
           IN  /\ t \in Seq(S) /\ Len(t) = Len(s) - 1
               /\ \A k \in 1 .. Len(s) - 1 : t[k] = s[IF k < i THEN k ELSE k + 1]
               /\ Msgs(t) \subseteq Msgs(s)
<1> DEFINE a == SubSeq(s, 1, i - 1)
           b == SubSeq(s, i + 1, Len(s))
           t == a \o b
<1>1. Len(s) \in Nat /\ i \in Nat /\ i <= Len(s) /\ i >= 1
  OBVIOUS
<1>2. a \in Seq(S) /\ Len(a) = i - 1 /\ \A k \in 1 .. i - 1 : a[k] = s[k]
  OBVIOUS
<1>3. b \in Seq(S) /\ Len(b) = Len(s) - i /\ \A k \in 1 .. Len(s) - i : b[k] = s[k + i]
  OBVIOUS
<1> HIDE DEF a, b
<1>4. /\ t \in Seq(S) /\ Len(t) = Len(a) + Len(b)
      /\ \A k \in 1 .. Len(a) + Len(b) : t[k] = IF k <= Len(a) THEN a[k] ELSE b[k - Len(a)]
  BY <1>2, <1>3, ConcatProperties
<1> HIDE DEF t
<1>5. Len(a) + Len(b) = Len(s) - 1
  BY <1>1, <1>2, <1>3
<1>6. ASSUME NEW k \in 1 .. Len(s) - 1
      PROVE  t[k] = s[IF k < i THEN k ELSE k + 1]
  <2>1. t[k] = IF k <= i - 1 THEN a[k] ELSE b[k - (i - 1)]
    BY <1>2, <1>4, <1>5
  <2>2. k <= i - 1 => k \in 1 .. i - 1 /\ k < i
    BY <1>1
  <2>3. ~ (k <= i - 1) => /\ k - (i - 1) \in 1 .. Len(s) - i
                          /\ (k - (i - 1)) + i = k + 1 /\ ~ (k < i)
    BY <1>1
  <2> QED BY <1>2, <1>3, <2>1, <2>2, <2>3
<1>7. \A k \in 1 .. Len(s) - 1 : (IF k < i THEN k ELSE k + 1) \in 1 .. Len(s)
  BY <1>1
<1>8. Msgs(t) \subseteq Msgs(s)
  BY <1>4, <1>5, <1>6, <1>7 DEF Msgs
<1> QED BY <1>4, <1>5, <1>6, <1>8 DEF t, a, b

LEMMA Doubled ==
    ASSUME NEW S, NEW s \in Seq(S), NEW i \in 1 .. Len(s), NEW t,
           t = SubSeq(s, 1, i) \o SubSeq(s, i, Len(s))
    PROVE  /\ t \in Seq(S) /\ Len(t) = Len(s) + 1
           /\ \A k \in 1 .. Len(t) : t[k] = s[IF k <= i THEN k ELSE k - 1]
           /\ Msgs(t) \subseteq Msgs(s)
<1> DEFINE a == SubSeq(s, 1, i)
           b == SubSeq(s, i, Len(s))
<1>1. a \in Seq(S) /\ Len(a) = i /\ \A k \in 1 .. i : a[k] = s[k]
  OBVIOUS
<1>2. b \in Seq(S) /\ Len(b) = Len(s) - i + 1
      /\ \A k \in 1 .. Len(s) - i + 1 : b[k] = s[k + i - 1]
  OBVIOUS
<1> HIDE DEF a, b
<1>3. t = a \o b
  BY DEF a, b
<1>4. t \in Seq(S) /\ Len(t) = Len(s) + 1
  BY <1>1, <1>2, <1>3
<1>5. \A k \in 1 .. Len(t) : t[k] = s[IF k <= i THEN k ELSE k - 1]
  BY <1>1, <1>2, <1>3, <1>4
<1> QED BY <1>4, <1>5 DEF Msgs

LEMMA Replaced ==
    ASSUME NEW S, NEW s \in Seq(S), NEW i \in 1 .. Len(s), NEW m \in S
    PROVE  /\ [s EXCEPT ![i] = m] \in Seq(S)
           /\ Msgs([s EXCEPT ![i] = m]) \subseteq Msgs(s) \cup {m}
<1>1. /\ [s EXCEPT ![i] = m] \in Seq(S)
      /\ Len([s EXCEPT ![i] = m]) = Len(s)
      /\ \A j \in 1 .. Len(s) : [s EXCEPT ![i] = m][j] = IF j = i THEN m ELSE s[j]
  BY ExceptSeq
<1> QED BY <1>1 DEF Msgs

LEMMA Swapped ==
    ASSUME NEW S, NEW s \in Seq(S), NEW i \in 1 .. Len(s), i < Len(s)
    PROVE  LET t == [s EXCEPT ![i] = s[i + 1], ![i + 1] = s[i]]
           IN  t \in Seq(S) /\ Msgs(t) \subseteq Msgs(s)
<1> DEFINE t == [s EXCEPT ![i] = s[i + 1]]
           u == [t EXCEPT ![i + 1] = s[i]]
<1>1. i + 1 \in 1 .. Len(s) /\ s[i] \in S /\ s[i + 1] \in S
  OBVIOUS
<1>2. s[i] \in Msgs(s) /\ s[i + 1] \in Msgs(s)
  BY <1>1 DEF Msgs
<1>3. t \in Seq(S) /\ Len(t) = Len(s) /\ Msgs(t) \subseteq Msgs(s) \cup {s[i + 1]}
  BY <1>1, Replaced, ExceptSeq
<1> HIDE DEF t
<1>4. u \in Seq(S) /\ Msgs(u) \subseteq Msgs(t) \cup {s[i]}
  BY <1>1, <1>3, Replaced
<1> QED BY <1>2, <1>3, <1>4 DEF t
----------------------------------------------------------------------------
(* Type correctness.                                                       *)
LEMMA OverType ==
    ASSUME NEW D, NEW E, NEW new \in [D -> Value], NEW old \in [E -> Value]
    PROVE  Over(new, old) \in [D \cup E -> Value]
BY DEF Over

LEMMA Constants ==
    /\ Start \in [Var -> Value] /\ <<>> \in Values
    /\ \A b \in Buf : Carried(b) \subseteq Var /\ Read(b) \subseteq Carried(b)
    /\ Nowhere \notin Buf
<1>1. Start \in [Var -> Value]
  BY UdpAssumption DEF UdpAssumption, Start
<1>2. <<>> \in [{} -> Value] /\ {} \in SUBSET Var
  OBVIOUS
<1>3. ASSUME NEW b \in Buf
      PROVE  Carried(b) \subseteq Var /\ Read(b) \subseteq Carried(b)
  BY UdpAssumption DEF UdpAssumption, Carried, Read
<1>4. Nowhere \notin Buf
  BY UdpAssumption DEF UdpAssumption, Nowhere
<1> QED BY <1>1, <1>2, <1>3, <1>4 DEF Values

(* The first place that differs is a place of the buffer.                  *)
LEMMA CopiedCases ==
    ASSUME TypeOK, NEW b \in Buf
    PROVE  \/ Copied(b) = seen
           \/ \E v \in Carried(b) : Copied(b) = [seen EXCEPT ![v] = source[v]]
<1>1. ASSUME Differs(b) # {}
      PROVE  VarsOf[b][Lowest(Differs(b))] \in Carried(b)
  <2>1. DOMAIN VarsOf[b] \subseteq Nat
    BY UdpAssumption DEF UdpAssumption
  <2>2. Differs(b) \in SUBSET Nat /\ Differs(b) \subseteq DOMAIN VarsOf[b]
    BY <2>1 DEF Differs
  <2>3. Lowest(Differs(b)) \in DOMAIN VarsOf[b]
    BY <1>1, <2>2, LowestIsLowest
  <2> QED BY <2>3 DEF Carried
<1> QED BY <1>1 DEF Copied

LEMMA CopiedType ==
    ASSUME TypeOK, NEW b \in Buf
    PROVE  Copied(b) \in [Var -> Value]
<1>1. \A v \in Carried(b) : v \in Var /\ source[v] \in Value
  BY Constants DEF TypeOK
<1> QED BY <1>1, CopiedCases DEF TypeOK

(* One round of output_vars() in parts.                                    *)
Sends(b) == Copied(b) # seen /\ Misfits(b, Copied(b)) = {}
Data(b) == [v \in Carried(b) |-> Copied(b)[v]]
Sent(b) == [id |-> sent + 1, buf |-> b, cnt |-> NextCount, data |-> Data(b), sum |-> TRUE]

LEMMA Outputs ==
    ASSUME TypeOK, OutputBuffer
    PROVE  \E b \in left :
              /\ b \in Buf /\ left' = left \ {b} /\ seen' = Copied(b)
              /\ IF Sends(b)
                 THEN /\ oCounter' = NextCount /\ sent' = sent + 1
                      /\ carried' = Over(Data(b), carried)
                      /\ net' = Append(net, Sent(b))
                 ELSE UNCHANGED <<oCounter, sent, carried, net>>
              /\ UNCHANGED <<source, changes, had, receiver, mishaps>>
<1>1. left \in SUBSET Nat /\ left # {} /\ left \subseteq Buf
  BY UdpAssumption DEF UdpAssumption, TypeOK, OutputBuffer
<1>2. Lowest(left) \in left /\ Lowest(left) \in Buf
  BY <1>1, LowestIsLowest
<1> DEFINE b == Lowest(left)
<1>3. Data(b) = [v \in Carried(b) |-> Filled(b)[v]]
  BY DEF Data, Filled
<1>4. CASE Sends(b)
  BY <1>2, <1>3, <1>4 DEF OutputBuffer, Sends, Sent
<1>5. CASE ~ Sends(b)
  BY <1>2, <1>5 DEF OutputBuffer, Sends
<1> QED BY <1>4, <1>5

LEMMA SentType ==
    ASSUME TypeOK, NEW b \in Buf
    PROVE  Data(b) \in [Carried(b) -> Value] /\ NextCount \in 0 .. W - 1 /\ Sent(b) \in Message
<1>1. Data(b) \in [Carried(b) -> Value]
  BY CopiedType, Constants DEF Data
<1>2. NextCount \in 0 .. W - 1
  BY UdpAssumption DEF UdpAssumption, TypeOK, NextCount
<1>3. Data(b) \in Values
  BY <1>1, Constants DEF Values
<1>4. DOMAIN Data(b) = Carried(b)
  BY DEF Data
<1> QED BY <1>1, <1>2, <1>3, <1>4 DEF TypeOK, Sent, Message

LEMMA OutputType ==
    ASSUME TypeOK, OutputBuffer
    PROVE  TypeOK'
<1>1. PICK b \in left :
              /\ b \in Buf /\ left' = left \ {b} /\ seen' = Copied(b)
              /\ IF Sends(b)
                 THEN /\ oCounter' = NextCount /\ sent' = sent + 1
                      /\ carried' = Over(Data(b), carried)
                      /\ net' = Append(net, Sent(b))
                 ELSE UNCHANGED <<oCounter, sent, carried, net>>
              /\ UNCHANGED <<source, changes, had, receiver, mishaps>>
  BY Outputs
<1>2. seen' \in [Var -> Value] /\ left' \subseteq Buf
  BY <1>1, CopiedType DEF TypeOK
<1>3. oCounter' \in 0 .. W - 1 /\ sent' \in Nat
  BY <1>1, SentType DEF TypeOK
<1>4. carried' \in [Var -> Value]
  <2>1. Over(Data(b), carried) \in [Carried(b) \cup Var -> Value]
    BY <1>1, SentType, OverType DEF TypeOK
  <2>2. Carried(b) \cup Var = Var
    BY <1>1, Constants
  <2> QED BY <1>1, <2>1, <2>2 DEF TypeOK
<1>5. net' \in Seq(Message)
  <2>1. Sent(b) \in Message /\ net \in Seq(Message)
    BY <1>1, SentType DEF TypeOK
  <2>2. net' = Append(net, Sent(b)) \/ net' = net
    BY <1>1
  <2> QED BY <2>1, <2>2, Appended
<1> QED BY <1>1, <1>2, <1>3, <1>4, <1>5 DEF TypeOK, receiver

LEMMA ReceiverType ==
    ASSUME TypeOK, Deliver \/ Receiver
    PROVE  TypeOK'
<1>1. CASE Deliver
  <2>1. net' \in Seq(Message) /\ inbox' \in Seq(Message)
    BY <1>1, Shortened, Appended DEF TypeOK, Deliver
  <2> QED BY <1>1, <2>1 DEF TypeOK, Deliver, sender
<1>2. CASE TakeMessages
  BY <1>2, Constants DEF TypeOK, TakeMessages, sender
<1>3. CASE Misplaced \/ Refuse \/ BadSum \/ Accept
  <2>1. /\ work' \in Seq(Message) /\ Msg \in Message
        /\ UNCHANGED <<sender, inbox, reading, target, net, mishaps>>
        /\ heard' = heard \cup {Msg.id}
    BY <1>3, Shortened DEF TypeOK, Misplaced, Refuse, BadSum, Accept, Looked, Msg
  <2>2. Msg.id \in Nat /\ Msg.cnt \in 0 .. W - 1 /\ Msg.data \in Values
    BY <2>1 DEF Message
  <2>3. iCounter' \in 0 .. W - 1
    BY <1>3, <2>2 DEF TypeOK, Misplaced, Refuse, BadSum, Accept
  <2>4. applied' = applied \/ applied' = Append(applied, Msg.id)
    BY <1>3 DEF Misplaced, Refuse, BadSum, Accept
  <2>5. applied' \in Seq(Nat)
    <3>1. applied \in Seq(Nat) /\ Msg.id \in Nat
      BY <2>2 DEF TypeOK
    <3> QED BY <2>4, <3>1, Appended
  <2>6. result' \in Values
    <3>1. CASE ~ Accept
      BY <1>3, <3>1 DEF TypeOK, Misplaced, Refuse, BadSum
    <3>2. CASE Accept
      <4>1. Msg.buf \in Buf
        BY <3>2, UdpAssumption DEF UdpAssumption, Accept, Placed
      <4>2. PICK S \in SUBSET Var : result \in [S -> Value]
        BY DEF TypeOK, Values
      <4>3. Msg.data \in [Carried(Msg.buf) -> Value]
        BY <2>1, <4>1 DEF Message, Values
      <4> DEFINE read == [v \in Read(Msg.buf) |-> Msg.data[v]]
      <4>4. read \in [Read(Msg.buf) -> Value]
        BY <4>1, <4>3, Constants
      <4>5. result' = Over(read, result)
        BY <3>2 DEF Accept
      <4> HIDE DEF read
      <4>6. result' \in [Read(Msg.buf) \cup S -> Value]
        BY <4>2, <4>4, <4>5, OverType
      <4>7. Read(Msg.buf) \cup S \in SUBSET Var
        BY <4>1, Constants
      <4> QED BY <4>6, <4>7 DEF Values
    <3> QED BY <3>1, <3>2
  <2> QED BY <2>1, <2>2, <2>3, <2>5, <2>6 DEF TypeOK, sender
<1>4. CASE EndInput
  <2>1. PICK S \in SUBSET Var : result \in [S -> Value]
    BY DEF TypeOK, Values
  <2>2. Over(result, target) \in [S \cup Var -> Value] /\ S \cup Var = Var
    BY <2>1, OverType DEF TypeOK
  <2> QED BY <1>4, <2>2, Constants DEF TypeOK, EndInput, sender
<1> QED BY <1>1, <1>2, <1>3, <1>4 DEF Receiver

LEMMA DamagedType ==
    ASSUME NEW m \in Message, NEW n \in Damages(m)
    PROVE  n \in Message
<1>1. CASE n = [m EXCEPT !.buf = Nowhere]
  BY <1>1, Constants DEF Message
<1>2. ASSUME NEW k \in 0 .. W - 1, n = [m EXCEPT !.cnt = k, !.sum = FALSE]
      PROVE  n \in Message
  BY <1>2 DEF Message
<1>3. ASSUME NEW v \in DOMAIN m.data, NEW x \in Value,
             n = [m EXCEPT !.data[v] = x, !.sum = (m.sum /\ Unnoticed(v, m.data[v], x))]
      PROVE  n \in Message
  <2>1. PICK S \in SUBSET Var : m.data \in [S -> Value]
    BY DEF Message, Values
  <2> DEFINE d == [m.data EXCEPT ![v] = x]
  <2>2. d \in [S -> Value] /\ DOMAIN d = DOMAIN m.data
    BY <2>1
  <2>3. d \in Values
    BY <2>2 DEF Values
  <2>4. n = [m EXCEPT !.data = d, !.sum = (m.sum /\ Unnoticed(v, m.data[v], x))]
    BY <1>3
  <2> HIDE DEF d
  <2> QED BY <2>2, <2>3, <2>4 DEF Message
<1> DEFINE C(v) == {[m EXCEPT !.data[v] = x,
                               !.sum = (m.sum /\ Unnoticed(v, m.data[v], x))] :
                       x \in Value}
           B == {[m EXCEPT !.cnt = k, !.sum = FALSE] : k \in 0 .. W - 1}
<1>4. n \in {[m EXCEPT !.buf = Nowhere]} \cup B \cup UNION {C(v) : v \in DOMAIN m.data}
  BY DEF Damages
<1>5. n \in B => \E k \in 0 .. W - 1 : n = [m EXCEPT !.cnt = k, !.sum = FALSE]
  OBVIOUS
<1>6. ASSUME NEW v \in DOMAIN m.data, n \in C(v)
      PROVE  n \in Message
  BY <1>3, <1>6
<1> HIDE DEF B, C
<1> QED BY <1>1, <1>2, <1>4, <1>5, <1>6

LEMMA FaultsType ==
    ASSUME TypeOK, Faults
    PROVE  TypeOK'
<1> DEFINE Mishaps == mishaps' \in Seq(Kind) /\ Len(mishaps') <= MaxFaults
<1>1. ASSUME NEW kind \in Kind, Mishap(kind)
      PROVE  Mishaps
  <2>1. mishaps \in Seq(Kind) /\ Len(mishaps) < MaxFaults /\ mishaps' = Append(mishaps, kind)
    BY <1>1 DEF TypeOK, Mishap
  <2>2. Len(mishaps') = Len(mishaps) + 1 /\ Len(mishaps) \in Nat /\ MaxFaults \in Nat
    BY <2>1, UdpAssumption DEF UdpAssumption
  <2>3. mishaps' \in Seq(Kind)
    BY <2>1, Appended
  <2> QED BY <2>1, <2>2, <2>3
<1>0. \A kind \in Kind : Mishap(kind) => Mishaps
  BY <1>1
<1> HIDE DEF Mishaps
<1>2. ASSUME NEW i \in 1 .. Len(net), Lose(i) \/ Double(i) \/ Overtake(i) \/ Damage(i)
      PROVE  TypeOK'
  <2>1. Mishaps /\ UNCHANGED <<sender, receiver>>
    BY <1>0, <1>2 DEF Lose, Double, Overtake, Damage, Kind
  <2>2. net' \in Seq(Message)
    <3>1. net \in Seq(Message) /\ net[i] \in Message
      BY DEF TypeOK
    <3>2. CASE Lose(i)
      BY <3>1, <3>2, Lost DEF Lose
    <3>3. CASE Double(i)
      BY <3>1, <3>3, Doubled DEF Double
    <3>4. CASE Overtake(i)
      BY <3>1, <3>4, Swapped DEF Overtake
    <3>5. CASE Damage(i)
      BY <3>1, <3>5, DamagedType, Replaced DEF Damage
    <3> QED BY <1>2, <3>2, <3>3, <3>4, <3>5
  <2> QED BY <2>1, <2>2 DEF TypeOK, sender, receiver, Mishaps
<1>3. CASE SenderRestarts
  <2>1. Mishaps /\ 0 \in 0 .. W - 1
    BY <1>0, <1>3, UdpAssumption DEF UdpAssumption, SenderRestarts, Kind
  <2> QED BY <1>3, <2>1, Constants DEF TypeOK, SenderRestarts, receiver, Mishaps
<1>4. CASE ReceiverRestarts
  <2>1. Mishaps /\ 0 \in 0 .. W - 1
    BY <1>0, <1>4, UdpAssumption DEF UdpAssumption, ReceiverRestarts, Kind
  <2>2. /\ inbox' \in Seq(Message) /\ work' \in Seq(Message) /\ applied' \in Seq(Nat)
        /\ result' \in Values /\ target' \in [Var -> Value]
    BY <1>4, Constants DEF ReceiverRestarts
  <2> QED BY <1>4, <2>1, <2>2 DEF TypeOK, ReceiverRestarts, sender, Mishaps
<1> QED BY <1>2, <1>3, <1>4 DEF Faults

LEMMA TypeInductive ==
    ASSUME TypeOK, [Next]_vars
    PROVE  TypeOK'
<1>1. ASSUME NEW v \in Var, NEW x \in Value, SourceChanges(v, x)
      PROVE  TypeOK'
  BY <1>1, UdpAssumption DEF UdpAssumption, TypeOK, SourceChanges, receiver
<1>2. CASE StartOutput
  BY <1>2 DEF TypeOK, StartOutput, receiver
<1>3. CASE UNCHANGED vars
  BY <1>3 DEF TypeOK, vars, sender, receiver
<1> QED BY <1>1, <1>2, <1>3, OutputType, ReceiverType, FaultsType DEF Next, Sender

(* Every reachable state is well typed; in particular a message that names *)
(* a buffer carries exactly its variables (udp_exchange.hpp).              *)
THEOREM TypeCorrect == Spec => []TypeOK
<1>1. Init => TypeOK
  <2> SUFFICES ASSUME Init PROVE TypeOK
    OBVIOUS
  <2>1. 0 \in 0 .. W - 1 /\ 0 \in 0 .. MaxChanges /\ V0 \in Value /\ 0 <= MaxFaults
    BY UdpAssumption DEF UdpAssumption
  <2>2. /\ <<>> \in Seq(Message) /\ <<>> \in Seq(Nat)
        /\ <<>> \in Seq(Kind) /\ Len(<<>>) = 0
    OBVIOUS
  <2> QED BY <2>1, <2>2, Constants DEF Init, TypeOK
<1>2. TypeOK /\ [Next]_vars => TypeOK'
  BY TypeInductive
<1> QED BY <1>1, <1>2, PTL DEF Spec
----------------------------------------------------------------------------
(* Values that were had.  A message whose control sum fits carries, outside *)
(* the bytes that the sum leaves out, values that the sender has had; and  *)
(* so does all that the receiver makes of it.                              *)
Had(m) == m.sum => \A v \in DOMAIN m.data \ Uncovered : m.data[v] \in Passable[v]

HadInv ==
    /\ \A v \in Var : {V0, source[v], seen[v]} \subseteq Passable[v]
    /\ \A m \in Msgs(net) \cup Msgs(inbox) \cup Msgs(work) : Had(m)
    /\ \A v \in DOMAIN result \ Uncovered : result[v] \in Passable[v]
    /\ ValuesWereHad

(* What the sender has had passes, and so does what the sum cannot tell    *)
(* from what passes.                                                       *)
LEMMA PassableIsClosed ==
    ASSUME TypeOK, NEW v \in Var
    PROVE  /\ had[v] \subseteq Passable[v]
           /\ \A x, y \in Value : x \in Passable[v] /\ <<x, y>> \in Alike => y \in Passable[v]
<1>1. had[v] \subseteq Value
  BY DEF TypeOK
<1> QED BY <1>1, UdpAssumption DEF UdpAssumption, Passable

LEMMA PassableStays == had' = had => Passable' = Passable
BY DEF Passable

LEMMA HadOutput ==
    ASSUME TypeOK, HadInv, OutputBuffer
    PROVE  HadInv'
<1>1. PICK b \in left :
              /\ b \in Buf /\ left' = left \ {b} /\ seen' = Copied(b)
              /\ IF Sends(b)
                 THEN /\ oCounter' = NextCount /\ sent' = sent + 1
                      /\ carried' = Over(Data(b), carried)
                      /\ net' = Append(net, Sent(b))
                 ELSE UNCHANGED <<oCounter, sent, carried, net>>
              /\ UNCHANGED <<source, changes, had, receiver, mishaps>>
  BY Outputs
<1>2. \A v \in Var : Copied(b)[v] \in {seen[v], source[v]}
  BY <1>1, CopiedCases DEF TypeOK
<1>3. \A v \in Carried(b) : Data(b)[v] \in Passable[v]
  BY <1>1, <1>2, Constants DEF Data, HadInv
<1>4. Had(Sent(b))
  BY <1>3 DEF Had, Sent, Data
<1>5. Msgs(net') \subseteq Msgs(net) \cup {Sent(b)}
  <2>1. Sent(b) \in Message /\ net \in Seq(Message)
    BY <1>1, SentType DEF TypeOK
  <2> QED BY <1>1, <2>1, Appended
<1> QED BY <1>1, <1>2, <1>4, <1>5, PassableStays DEF HadInv, Had, Msgs, ValuesWereHad, receiver

LEMMA HadReceiver ==
    ASSUME TypeOK, HadInv, Deliver \/ Receiver
    PROVE  HadInv'
<1>1. /\ had' = had /\ source' = source /\ seen' = seen
  BY DEF Deliver, Receiver, TakeMessages, Misplaced, Refuse, BadSum, Accept, Looked,
         EndInput, sender
<1>2. Msgs(net') \cup Msgs(inbox') \cup Msgs(work')
        \subseteq Msgs(net) \cup Msgs(inbox) \cup Msgs(work)
  <2>1. CASE Deliver
    <3>1. /\ Msgs(inbox') = Msgs(inbox) \cup {Head(net)} /\ Head(net) \in Msgs(net)
          /\ Msgs(net') \subseteq Msgs(net) /\ work' = work
      BY <2>1, Shortened, Appended DEF TypeOK, Deliver
    <3> QED BY <3>1
  <2>2. CASE TakeMessages
    BY <2>2 DEF TakeMessages, Msgs
  <2>3. CASE Misplaced \/ Refuse \/ BadSum \/ Accept
    <3>1. Msgs(work') \subseteq Msgs(work) /\ net' = net /\ inbox' = inbox
      BY <2>3, Shortened DEF TypeOK, Misplaced, Refuse, BadSum, Accept, Looked
    <3> QED BY <3>1
  <2>4. CASE EndInput
    BY <2>4 DEF EndInput
  <2> QED BY <2>1, <2>2, <2>3, <2>4 DEF Receiver
<1>3. \A v \in DOMAIN result' \ Uncovered : result'[v] \in Passable[v]
  <2>1. CASE Accept
    <3>1. Msg \in Msgs(work) /\ Msg \in Message
      BY <2>1, Shortened DEF TypeOK, Accept, Looked, Msg
    <3>2. Msg.buf \in Buf /\ Had(Msg) /\ Msg.sum
      BY <2>1, <3>1, UdpAssumption DEF UdpAssumption, Accept, Placed, Whole, HadInv
    <3>3. Read(Msg.buf) \subseteq DOMAIN Msg.data
      BY <3>1, <3>2, Constants DEF Message
    <3> DEFINE read == [v \in Read(Msg.buf) |-> Msg.data[v]]
    <3>4. \A v \in DOMAIN read \ Uncovered : read[v] \in Passable[v]
      BY <3>2, <3>3 DEF Had
    <3>5. result' = Over(read, result)
      BY <2>1 DEF Accept
    <3> HIDE DEF read
    <3> QED BY <3>4, <3>5 DEF Over, HadInv
  <2>2. CASE TakeMessages \/ EndInput
    BY <2>2 DEF TakeMessages, EndInput
  <2>3. CASE Deliver \/ Misplaced \/ Refuse \/ BadSum
    BY <2>3 DEF Deliver, Misplaced, Refuse, BadSum, HadInv
  <2> QED BY <2>1, <2>2, <2>3 DEF Receiver
<1>4. \A v \in Var \ Uncovered : target'[v] \in Passable[v]
  <2>1. CASE EndInput
    BY <2>1 DEF EndInput, Over, TypeOK, HadInv, ValuesWereHad
  <2>2. CASE ~ EndInput
    <3>1. target' = target
      BY <2>2 DEF Deliver, Receiver, TakeMessages, Misplaced, Refuse, BadSum, Accept, Looked
    <3> QED BY <3>1 DEF HadInv, ValuesWereHad
  <2> QED BY <2>1, <2>2
<1> QED BY <1>1, <1>2, <1>3, <1>4, PassableStays DEF HadInv, Had, ValuesWereHad, Msgs

LEMMA HadFaults ==
    ASSUME TypeOK, HadInv, Faults
    PROVE  HadInv'
<1>1. ASSUME NEW i \in 1 .. Len(net), Lose(i) \/ Double(i) \/ Overtake(i) \/ Damage(i)
      PROVE  HadInv'
  <2>1. UNCHANGED <<sender, receiver>>
    BY <1>1 DEF Lose, Double, Overtake, Damage
  <2>2. net \in Seq(Message) /\ net[i] \in Message /\ Had(net[i])
    <3>1. net[i] \in Msgs(net)
      BY DEF Msgs
    <3> QED BY <3>1 DEF TypeOK, HadInv
  <2>3. \A m \in Msgs(net') : Had(m)
    <3>1. CASE Lose(i)
      BY <2>2, <3>1, Lost DEF Lose, HadInv
    <3>2. CASE Double(i)
      BY <2>2, <3>2, Doubled DEF Double, HadInv
    <3>3. CASE Overtake(i)
      BY <2>2, <3>3, Swapped DEF Overtake, HadInv
    <3>4. CASE Damage(i)
      <4>1. PICK m \in Damages(net[i]) : net' = [net EXCEPT ![i] = m]
        BY <3>4 DEF Damage
      <4>2. Had(m)
        <5> DEFINE C(v) == {[net[i] EXCEPT !.data[v] = x,
                                !.sum = (net[i].sum
                                         /\ Unnoticed(v, net[i].data[v], x))] :
                               x \in Value}
                   B == {[net[i] EXCEPT !.cnt = k, !.sum = FALSE] : k \in 0 .. W - 1}
        <5>1. m \in {[net[i] EXCEPT !.buf = Nowhere]} \cup B
                    \cup UNION {C(v) : v \in DOMAIN net[i].data}
          BY <4>1 DEF Damages
        <5>2. m = [net[i] EXCEPT !.buf = Nowhere] => Had(m)
          BY <2>2 DEF Message, Had
        <5>3. m \in B => Had(m)
          BY <2>2 DEF Message, Had
        <5>4. ASSUME NEW v \in DOMAIN net[i].data, m \in C(v)
              PROVE  Had(m)
          <6>1. PICK x \in Value :
                   m = [net[i] EXCEPT !.data[v] = x,
                                      !.sum = (net[i].sum
                                               /\ Unnoticed(v, net[i].data[v], x))]
            BY <5>4
          <6>2. /\ m.sum = (net[i].sum /\ Unnoticed(v, net[i].data[v], x))
                /\ m.data = [net[i].data EXCEPT ![v] = x]
            BY <2>2, <6>1 DEF Message
          <6>3. ASSUME m.sum, v \notin Uncovered PROVE x \in Passable[v]
            <7>1. net[i].data[v] \in Passable[v] /\ <<net[i].data[v], x>> \in Alike
              BY <2>2, <6>2, <6>3 DEF Had, Unnoticed
            <7>2. v \in Var /\ net[i].data[v] \in Value
              BY <2>2 DEF Message, Values
            <7> QED BY <7>1, <7>2, PassableIsClosed
          <6>4. m.sum => net[i].sum
            BY <6>2
          <6> QED BY <2>2, <6>2, <6>3, <6>4 DEF Had
        <5> HIDE DEF B, C
        <5> QED BY <5>1, <5>2, <5>3, <5>4
      <4>3. m \in Message
        BY <2>2, <4>1, DamagedType
      <4>4. Msgs([net EXCEPT ![i] = m]) \subseteq Msgs(net) \cup {m}
        BY <2>2, <4>3, Replaced
      <4> QED BY <4>1, <4>2, <4>4 DEF HadInv
    <3> QED BY <1>1, <3>1, <3>2, <3>3, <3>4
  <2> QED BY <2>1, <2>3, PassableStays DEF HadInv, Had, Msgs, ValuesWereHad, sender, receiver
<1>2. CASE SenderRestarts
  BY <1>2, PassableStays DEF HadInv, Had, Msgs, ValuesWereHad, SenderRestarts, Start, receiver
<1>3. CASE ReceiverRestarts
  BY <1>3, PassableStays DEF HadInv, Had, Msgs, ValuesWereHad, ReceiverRestarts, Start, sender
<1> QED BY <1>1, <1>2, <1>3 DEF Faults

(* Whatever the network does to the messages, a variable inside the control *)
(* sum only gets values that the sender has had (udp_exchange.hpp).        *)
THEOREM OnlyValuesThatWereHad == Spec => []ValuesWereHad
<1>1. Init => HadInv
  <2> SUFFICES ASSUME Init PROVE HadInv
    OBVIOUS
  <2>1. had = [v \in Var |-> {V0}] /\ V0 \in Value /\ <<V0, V0>> \in Alike
    BY UdpAssumption DEF UdpAssumption, Init
  <2>2. \A v \in Var : V0 \in Passable[v]
    BY <2>1 DEF Passable
  <2> QED BY <2>2 DEF Init, HadInv, Had, Msgs, ValuesWereHad, Start
<1>2. TypeOK /\ HadInv /\ [Next]_vars => HadInv'
  <2> SUFFICES ASSUME TypeOK, HadInv, [Next]_vars PROVE HadInv'
    OBVIOUS
  <2>1. ASSUME NEW v \in Var, NEW x \in Value, SourceChanges(v, x)
        PROVE  HadInv'
    <3>0. /\ \A u \in Var : had[u] \subseteq had'[u]
          /\ \A u \in Var : source'[u] \in {source[u]} \cup (had'[u] \cap Value)
          /\ UNCHANGED <<seen, receiver, net>>
      BY <2>1 DEF SourceChanges, TypeOK
    <3>1. /\ \A u \in Var : Passable[u] \subseteq Passable'[u] /\ source'[u] \in Passable'[u]
          /\ UNCHANGED <<seen, receiver, net>>
      <4>1. \A u \in Var : Passable[u] \subseteq Passable'[u]
        BY <3>0 DEF Passable
      <4>2. \A u \in Var : had'[u] \cap Value \subseteq Passable'[u]
        BY UdpAssumption DEF UdpAssumption, Passable
      <4> QED BY <3>0, <4>1, <4>2 DEF HadInv
    <3> HIDE DEF SourceChanges
    <3>2. \A m \in Message : Had(m) => Had(m)'
      BY <3>1 DEF Had, Message, Values
    <3>3. Msgs(net) \cup Msgs(inbox) \cup Msgs(work) \subseteq Message
      BY DEF TypeOK, Msgs
    <3>4. DOMAIN result \subseteq Var
      BY DEF TypeOK, Values
    <3> QED BY <3>1, <3>2, <3>3, <3>4 DEF HadInv, Msgs, ValuesWereHad, receiver
  <2>2. CASE StartOutput
    BY <2>2, PassableStays DEF StartOutput, HadInv, Had, Msgs, ValuesWereHad, receiver
  <2>3. CASE UNCHANGED vars
    BY <2>3, PassableStays DEF HadInv, Had, Msgs, ValuesWereHad, vars, sender, receiver
  <2> QED BY <2>1, <2>2, <2>3, HadOutput, HadReceiver, HadFaults DEF Next, Sender
<1>3. HadInv => ValuesWereHad
  BY DEF HadInv
<1> QED BY <1>1, <1>2, <1>3, TypeCorrect, PTL DEF Spec
----------------------------------------------------------------------------
(* Nothing is forgotten.  Only OutputBuffer changes what was copied, and   *)
(* then for the variables of one buffer.                                   *)
Apart == \A b, c \in Buf : b # c => Carried(b) \cap Carried(c) = {}

LEMMA KeptByOutput ==
    ASSUME TypeOK, Apart, NoneForgotten, OutputBuffer,
           NEW c \in Buf, Misfits(c, seen') = {}
    PROVE  \A v \in Carried(c) : carried'[v] = seen'[v]
<1>1. PICK b \in left :
              /\ b \in Buf /\ left' = left \ {b} /\ seen' = Copied(b)
              /\ IF Sends(b)
                 THEN /\ oCounter' = NextCount /\ sent' = sent + 1
                      /\ carried' = Over(Data(b), carried)
                      /\ net' = Append(net, Sent(b))
                 ELSE UNCHANGED <<oCounter, sent, carried, net>>
              /\ UNCHANGED <<source, changes, had, receiver, mishaps>>
  BY Outputs
<1>2. carried \in [Var -> Value] /\ Carried(b) \subseteq Var /\ Carried(c) \subseteq Var
  BY <1>1, Constants DEF TypeOK
<1>3. \A v \in Var \ Carried(b) : seen'[v] = seen[v]
  BY <1>1, CopiedCases DEF TypeOK
<1>4. \A v \in Var \ Carried(b) : carried'[v] = carried[v]
  BY <1>1, <1>2 DEF Over, Data
<1>5. CASE c = b
  <2>1. CASE Sends(b)
    BY <1>1, <1>2, <1>5, <2>1 DEF Over, Data
  <2>2. CASE ~ Sends(b)
    <3>1. seen' = seen /\ carried' = carried
      BY <1>1, <1>5, <2>2 DEF Sends
    <3> QED BY <3>1 DEF NoneForgotten, Apart
  <2> QED BY <2>1, <2>2
<1>6. CASE c # b
  <2>1. Carried(c) \cap Carried(b) = {}
    BY <1>1, <1>6 DEF Apart
  <2>2. \A v \in Carried(c) : seen'[v] = seen[v] /\ carried'[v] = carried[v]
    BY <1>2, <1>3, <1>4, <2>1
  <2>3. \A i \in DOMAIN VarsOf[c] : VarsOf[c][i] \in Carried(c)
    BY DEF Carried
  <2>4. Misfits(c, seen) = {}
    BY <2>2, <2>3 DEF Misfits
  <2> QED BY <2>2, <2>4 DEF NoneForgotten, Apart
<1> QED BY <1>5, <1>6

(* A variable that the class has copied was sent with the value it has     *)
(* copied, whenever its buffer can carry its values (udp_exchange.hpp,     *)
(* output_vars).                                                           *)
THEOREM NothingIsForgotten == Spec => []NoneForgotten
<1>1. Init => NoneForgotten
  BY DEF Init, NoneForgotten
<1>2. TypeOK /\ NoneForgotten /\ [Next]_vars => NoneForgotten'
  <2> SUFFICES ASSUME TypeOK, NoneForgotten, [Next]_vars PROVE NoneForgotten'
    OBVIOUS
  <2>1. CASE OutputBuffer
    <3>1. Apart => \A c \in Buf : Misfits(c, seen') = {} =>
                      \A v \in Carried(c) : carried'[v] = seen'[v]
      BY <2>1, KeptByOutput
    <3>2. \A c \in Buf : Misfits(c, seen)' = Misfits(c, seen') /\ Carried(c)' = Carried(c)
      BY DEF Misfits, Carried
    <3> QED BY <3>1, <3>2 DEF NoneForgotten, Apart
  <2>2. CASE SenderRestarts
    BY <2>2 DEF SenderRestarts, NoneForgotten, Start
  <2>3. CASE UNCHANGED <<seen, carried>>
    BY <2>3 DEF NoneForgotten, Misfits, Carried
  <2>4. OutputBuffer \/ SenderRestarts \/ UNCHANGED <<seen, carried>>
    BY DEF Next, Sender, StartOutput, SourceChanges, Deliver, Receiver, TakeMessages,
           Misplaced, Refuse, BadSum, Accept, Looked, EndInput, Faults, Lose, Double,
           Overtake, Damage, ReceiverRestarts, sender, vars
  <2> QED BY <2>1, <2>2, <2>3, <2>4
<1> QED BY <1>1, <1>2, TypeCorrect, PTL DEF Spec
----------------------------------------------------------------------------
(* Order.  Without overtaking and damage the messages stand in the order   *)
(* of their numbers in what is read, in the queue and on the way, and two  *)
(* copies of one message have one counter: the later copy, should it come  *)
(* next, is refused.                                                       *)
Straight == ~ Happened("overtaken") /\ ~ Happened("damaged")
Rel(m, n) == m.id <= n.id /\ (m.id = n.id => m.cnt = n.cnt)
Sorted(s) == \A i, j \in 1 .. Len(s) : i < j => Rel(s[i], s[j])
Cross(s, t) == \A m \in Msgs(s), n \in Msgs(t) : Rel(m, n)
LastRead == applied[Len(applied)]
After(m) ==
    /\ \A i \in 1 .. Len(applied) : applied[i] <= m.id
    /\ applied # <<>> /\ LastRead = m.id => iCounter = m.cnt

InOrder(w, in, n) ==
    /\ Sorted(w) /\ Sorted(in) /\ Sorted(n)
    /\ Cross(w, in) /\ Cross(w, n) /\ Cross(in, n)
    /\ \A m \in Msgs(w) \cup Msgs(in) \cup Msgs(n) : m.sum /\ m.id <= sent /\ After(m)

Ascending == \A i, j \in 1 .. Len(applied) : i < j => applied[i] < applied[j]

OrderInv ==
    Straight =>
        /\ InOrder(work, inbox, net) /\ Ascending
        /\ \A i \in 1 .. Len(applied) : applied[i] <= sent

LEMMA SortedTail ==
    ASSUME NEW s \in Seq(Message), s # <<>>, Sorted(s)
    PROVE  Sorted(Tail(s)) /\ \A m \in Msgs(Tail(s)) : Rel(Head(s), m)
BY DEF Sorted, Msgs

LEMMA SortedAppend ==
    ASSUME NEW s \in Seq(Message), Sorted(s), NEW n \in Message,
           \A m \in Msgs(s) : Rel(m, n)
    PROVE  Sorted(Append(s, n))
BY DEF Sorted, Msgs

LEMMA OrderDeliver ==
    ASSUME TypeOK, OrderInv, Deliver
    PROVE  OrderInv'
<1> SUFFICES ASSUME Straight' PROVE OrderInv'
  BY DEF OrderInv
<1>1. /\ net \in Seq(Message) /\ inbox \in Seq(Message) /\ net # <<>>
      /\ inbox' = Append(inbox, Head(net)) /\ net' = Tail(net) /\ work' = work
      /\ UNCHANGED <<iCounter, applied, sent, mishaps>>
  BY DEF TypeOK, Deliver, sender
<1>2. Straight
  BY <1>1 DEF Straight, Happened
<1>3. /\ Msgs(inbox') = Msgs(inbox) \cup {Head(net)} /\ Head(net) \in Msgs(net)
      /\ Msgs(net') \subseteq Msgs(net) /\ Head(net) \in Message
  BY <1>1, Shortened, Appended
<1>4. Sorted(inbox') /\ Sorted(net') /\ \A m \in Msgs(net') : Rel(Head(net), m)
  BY <1>1, <1>2, <1>3, SortedTail, SortedAppend DEF OrderInv, InOrder, Cross
<1>5. Cross(work', inbox') /\ Cross(work', net') /\ Cross(inbox', net')
  BY <1>1, <1>2, <1>3, <1>4 DEF OrderInv, InOrder, Cross
<1> QED BY <1>1, <1>2, <1>3, <1>4, <1>5
        DEF OrderInv, InOrder, After, LastRead, Ascending

LEMMA OrderTake ==
    ASSUME TypeOK, OrderInv, TakeMessages
    PROVE  OrderInv'
<1> SUFFICES ASSUME Straight' PROVE OrderInv'
  BY DEF OrderInv
<1>1. /\ work' = inbox /\ inbox' = <<>> /\ net' = net
      /\ UNCHANGED <<iCounter, applied, sent, mishaps>>
  BY DEF TakeMessages, sender
<1>2. Straight
  BY <1>1 DEF Straight, Happened
<1>3. Msgs(inbox') = {} /\ Sorted(inbox')
  BY <1>1 DEF Msgs, Sorted
<1> QED BY <1>1, <1>2, <1>3 DEF OrderInv, InOrder, Cross, After, LastRead, Ascending

LEMMA OrderLook ==
    ASSUME TypeOK, OrderInv, Misplaced \/ Refuse \/ BadSum \/ Accept
    PROVE  OrderInv'
<1> SUFFICES ASSUME Straight' PROVE OrderInv'
  BY DEF OrderInv
<1>1. /\ work \in Seq(Message) /\ work # <<>> /\ Msg = Head(work) /\ work' = Tail(work)
      /\ inbox' = inbox /\ UNCHANGED <<net, sent, mishaps>>
  BY DEF TypeOK, Misplaced, Refuse, BadSum, Accept, Looked, Msg, sender
<1>2. Straight
  BY <1>1 DEF Straight, Happened
<1>3. Msg \in Message /\ Msg \in Msgs(work) /\ Msgs(work') \subseteq Msgs(work)
  BY <1>1, Shortened
<1>4. Sorted(work') /\ \A m \in Msgs(work') \cup Msgs(inbox) \cup Msgs(net) : Rel(Msg, m)
  BY <1>1, <1>2, <1>3, SortedTail DEF OrderInv, InOrder, Cross
<1>5. /\ Cross(work', inbox') /\ Cross(work', net') /\ Cross(inbox', net')
      /\ Sorted(inbox') /\ Sorted(net')
      /\ \A m \in Msgs(work') \cup Msgs(inbox') \cup Msgs(net') :
            m.sum /\ m.id <= sent' /\ After(m)
  BY <1>1, <1>2, <1>3 DEF OrderInv, InOrder, Cross
<1>6. Msg.sum /\ Msg.id <= sent /\ After(Msg) /\ Msg.id \in Nat
  BY <1>2, <1>3 DEF OrderInv, InOrder, Message
<1>7. CASE UNCHANGED <<iCounter, applied>>
  BY <1>1, <1>2, <1>4, <1>5, <1>7 DEF OrderInv, InOrder, After, LastRead, Ascending
<1>8. CASE Accept
  <2>1. /\ applied \in Seq(Nat) /\ applied' = Append(applied, Msg.id)
        /\ iCounter' = Msg.cnt /\ iCounter # Msg.cnt
    BY <1>8 DEF TypeOK, Accept, Repeated
  <2>2. /\ Len(applied') = Len(applied) + 1 /\ Len(applied) \in Nat
        /\ applied'[Len(applied) + 1] = Msg.id
        /\ \A i \in 1 .. Len(applied) : applied'[i] = applied[i] /\ applied[i] \in Nat
    BY <1>6, <2>1
  <2>3. \A i \in 1 .. Len(applied) : applied[i] < Msg.id
    <3> SUFFICES ASSUME NEW i \in 1 .. Len(applied) PROVE applied[i] < Msg.id
      OBVIOUS
    <3>1. applied # <<>> /\ Len(applied) \in 1 .. Len(applied) /\ i <= Len(applied)
      BY <2>1
    <3>2. LastRead <= Msg.id /\ LastRead # Msg.id /\ LastRead \in Nat
      BY <1>6, <2>1, <2>2, <3>1 DEF After, LastRead
    <3>3. i = Len(applied) \/ applied[i] < LastRead
      BY <1>2, <3>1 DEF OrderInv, Ascending, LastRead
    <3> QED BY <1>6, <2>2, <3>2, <3>3 DEF LastRead
  <2>4. Ascending'
    BY <2>2, <2>3, <1>2 DEF OrderInv, Ascending
  <2>5. \A i \in 1 .. Len(applied') : applied'[i] <= sent'
    BY <1>1, <1>2, <1>6, <2>2 DEF OrderInv
  <2>6. ASSUME NEW m \in Msgs(work') \cup Msgs(inbox') \cup Msgs(net')
        PROVE  After(m)'
    <3>1. Rel(Msg, m)
      BY <1>1, <1>4, <2>6
    <3>2. \A i \in 1 .. Len(applied') : applied'[i] <= m.id
      <4>1. m \in Message
        BY <1>1, <1>3, <2>6 DEF TypeOK, Msgs
      <4> QED BY <1>6, <2>2, <2>3, <3>1, <4>1 DEF Rel, Message
    <3>3. LastRead' = Msg.id
      BY <2>2 DEF LastRead
    <3> QED BY <2>1, <3>1, <3>2, <3>3 DEF After, Rel
  <2> QED BY <1>4, <1>5, <2>4, <2>5, <2>6 DEF OrderInv, InOrder
<1>9. ~ BadSum
  BY <1>6 DEF BadSum, Whole
<1> QED BY <1>7, <1>8, <1>9 DEF Misplaced, Refuse

LEMMA OrderOutput ==
    ASSUME TypeOK, OrderInv, OutputBuffer
    PROVE  OrderInv'
<1> SUFFICES ASSUME Straight' PROVE OrderInv'
  BY DEF OrderInv
<1>1. PICK b \in left :
              /\ b \in Buf /\ left' = left \ {b} /\ seen' = Copied(b)
              /\ IF Sends(b)
                 THEN /\ oCounter' = NextCount /\ sent' = sent + 1
                      /\ carried' = Over(Data(b), carried)
                      /\ net' = Append(net, Sent(b))
                 ELSE UNCHANGED <<oCounter, sent, carried, net>>
              /\ UNCHANGED <<source, changes, had, receiver, mishaps>>
  BY Outputs
<1>2. /\ work' = work /\ inbox' = inbox /\ iCounter' = iCounter
      /\ applied' = applied /\ mishaps' = mishaps
  BY <1>1 DEF receiver
<1>3. Straight
  BY <1>2 DEF Straight, Happened
<1>4. CASE ~ Sends(b)
  BY <1>1, <1>2, <1>3, <1>4 DEF OrderInv, InOrder, After, LastRead, Ascending
<1>5. CASE Sends(b)
  <2>1. net' = Append(net, Sent(b)) /\ sent' = sent + 1 /\ sent \in Nat
    BY <1>1, <1>5 DEF TypeOK
  <2>2. /\ Sent(b) \in Message /\ net \in Seq(Message)
        /\ Sent(b).id = sent + 1 /\ Sent(b).sum
    BY <1>1, SentType DEF TypeOK, Sent
  <2>3. Msgs(net') = Msgs(net) \cup {Sent(b)}
    BY <2>1, <2>2, Appended
  <2>4. \A m \in Msgs(work) \cup Msgs(inbox) \cup Msgs(net) :
           m.id \in Nat /\ m.id <= sent
    <3>1. Msgs(work) \cup Msgs(inbox) \cup Msgs(net) \subseteq Message
      BY DEF TypeOK, Msgs
    <3> QED BY <1>3, <3>1 DEF OrderInv, InOrder, Message
  <2>5. \A m \in Msgs(work) \cup Msgs(inbox) \cup Msgs(net) :
           Rel(m, Sent(b)) /\ m.id <= sent'
    BY <2>1, <2>2, <2>4 DEF Rel
  <2>6. Sorted(net')
    BY <1>3, <2>1, <2>2, <2>5, SortedAppend DEF OrderInv, InOrder
  <2>7. Cross(work', net') /\ Cross(inbox', net')
    BY <1>2, <1>3, <2>3, <2>5 DEF OrderInv, InOrder, Cross
  <2>8. \A i \in 1 .. Len(applied) : applied[i] < Sent(b).id /\ applied[i] <= sent'
    BY <1>3, <2>1, <2>2 DEF OrderInv, TypeOK
  <2>9. After(Sent(b))
    <3>1. applied \in Seq(Nat)
      BY DEF TypeOK
    <3>2. applied # <<>> => Len(applied) \in 1 .. Len(applied)
      BY <3>1
    <3>3. applied # <<>> => LastRead < Sent(b).id /\ LastRead \in Nat
      BY <2>8, <3>1, <3>2 DEF LastRead
    <3>4. \A i \in 1 .. Len(applied) : applied[i] \in Nat
      BY <3>1
    <3> QED BY <2>1, <2>2, <2>8, <3>3, <3>4 DEF After
  <2>10. ASSUME NEW m \in Msgs(work') \cup Msgs(inbox') \cup Msgs(net')
         PROVE  m.sum /\ m.id <= sent' /\ After(m)'
    <3>1. After(m)
      BY <1>2, <1>3, <2>3, <2>9, <2>10 DEF OrderInv, InOrder
    <3>2. m.sum /\ m.id <= sent'
      BY <1>2, <1>3, <2>1, <2>2, <2>3, <2>5, <2>10 DEF OrderInv, InOrder
    <3> QED BY <1>2, <3>1, <3>2 DEF After, LastRead
  <2> QED BY <1>2, <1>3, <2>6, <2>7, <2>8, <2>10 DEF OrderInv, InOrder, Ascending
<1> QED BY <1>4, <1>5

LEMMA MishapIsRecorded ==
    ASSUME TypeOK, NEW kind \in Kind, Mishap(kind), Straight'
    PROVE  Straight /\ kind \notin {"overtaken", "damaged"}
<1>1. /\ mishaps \in Seq(Kind) /\ Len(mishaps) \in Nat
      /\ mishaps' = Append(mishaps, kind)
  BY DEF TypeOK, Mishap
<1>2. /\ Len(mishaps') = Len(mishaps) + 1 /\ mishaps'[Len(mishaps) + 1] = kind
      /\ \A i \in 1 .. Len(mishaps) : mishaps'[i] = mishaps[i]
  BY <1>1
<1> QED BY <1>1, <1>2 DEF Straight, Happened

LEMMA OrderFaults ==
    ASSUME TypeOK, OrderInv, Faults
    PROVE  OrderInv'
<1> SUFFICES ASSUME Straight' PROVE OrderInv'
  BY DEF OrderInv
<1>1. ASSUME NEW i \in 1 .. Len(net), Lose(i) \/ Double(i)
      PROVE  OrderInv'
  <2>1. UNCHANGED <<sender, receiver>> /\ Straight
    BY <1>1, MishapIsRecorded DEF Lose, Double, Kind
  <2>2. Sorted(net') /\ Msgs(net') \subseteq Msgs(net)
    <3>1. net \in Seq(Message) /\ Len(net) \in Nat
      BY DEF TypeOK
    <3>2. CASE Lose(i)
      <4>1. /\ Len(net') = Len(net) - 1 /\ Msgs(net') \subseteq Msgs(net)
            /\ \A k \in 1 .. Len(net) - 1 : net'[k] = net[IF k < i THEN k ELSE k + 1]
        BY <3>1, <3>2, Lost DEF Lose
      <4>2. Sorted(net)
        BY <2>1 DEF OrderInv, InOrder
      <4>3. ASSUME NEW j \in 1 .. Len(net'), NEW k \in 1 .. Len(net'), j < k
            PROVE  Rel(net'[j], net'[k])
        <5> DEFINE a == IF j < i THEN j ELSE j + 1
                   b == IF k < i THEN k ELSE k + 1
        <5>1. a \in 1 .. Len(net) /\ b \in 1 .. Len(net) /\ a < b
          BY <3>1, <4>1, <4>3
        <5>2. net'[j] = net[a] /\ net'[k] = net[b]
          BY <4>1
        <5> HIDE DEF a, b
        <5> QED BY <4>2, <5>1, <5>2 DEF Sorted
      <4> QED BY <4>1, <4>3 DEF Sorted
    <3>3. CASE Double(i)
      <4>1. /\ Len(net') = Len(net) + 1 /\ Msgs(net') \subseteq Msgs(net)
            /\ \A k \in 1 .. Len(net') : net'[k] = net[IF k <= i THEN k ELSE k - 1]
        BY <3>1, <3>3, Doubled DEF Double
      <4>2. Sorted(net)
        BY <2>1 DEF OrderInv, InOrder
      <4>3. ASSUME NEW j \in 1 .. Len(net'), NEW k \in 1 .. Len(net'), j < k
            PROVE  Rel(net'[j], net'[k])
        <5> DEFINE a == IF j <= i THEN j ELSE j - 1
                   b == IF k <= i THEN k ELSE k - 1
        <5>1. a \in 1 .. Len(net) /\ b \in 1 .. Len(net) /\ (a < b \/ a = b)
          BY <3>1, <4>1, <4>3
        <5>2. net'[j] = net[a] /\ net'[k] = net[b]
          BY <4>1
        <5> HIDE DEF a, b
        <5>3. net[a].id \in Nat
          BY <3>1, <5>1 DEF Message
        <5>4. a = b => Rel(net[a], net[b])
          BY <5>3 DEF Rel
        <5> QED BY <4>2, <5>1, <5>2, <5>4 DEF Sorted
      <4> QED BY <4>1, <4>3 DEF Sorted
    <3> QED BY <1>1, <3>2, <3>3
  <2>3. /\ work' = work /\ inbox' = inbox /\ applied' = applied
        /\ iCounter' = iCounter /\ sent' = sent
    BY <2>1 DEF sender, receiver
  <2>4. InOrder(work, inbox, net) /\ Ascending /\ \A k \in 1 .. Len(applied) : applied[k] <= sent
    BY <2>1 DEF OrderInv
  <2>5. Cross(work', net') /\ Cross(inbox', net') /\ Cross(work', inbox')
    BY <2>2, <2>3, <2>4 DEF InOrder, Cross
  <2>6. \A m \in Msgs(work') \cup Msgs(inbox') \cup Msgs(net') :
           m.sum /\ m.id <= sent' /\ After(m)'
    BY <2>2, <2>3, <2>4 DEF InOrder, After, LastRead
  <2>7. Sorted(work') /\ Sorted(inbox') /\ Ascending'
    BY <2>3, <2>4 DEF InOrder, Ascending
  <2> QED BY <2>2, <2>3, <2>4, <2>5, <2>6, <2>7 DEF OrderInv, InOrder
<1>2. ASSUME NEW i \in 1 .. Len(net), Overtake(i) \/ Damage(i)
      PROVE  FALSE
  BY <1>2, MishapIsRecorded DEF Overtake, Damage, Kind
<1>3. CASE SenderRestarts
  <2>1. Straight /\ UNCHANGED <<sent, receiver, net>>
    BY <1>3, MishapIsRecorded DEF SenderRestarts, Kind
  <2> QED BY <2>1 DEF OrderInv, InOrder, Cross, Msgs, Sorted, After, LastRead, Ascending, receiver
<1>4. CASE ReceiverRestarts
  <2>1. /\ Straight /\ UNCHANGED <<sent, net>>
        /\ work' = <<>> /\ inbox' = <<>> /\ applied' = <<>>
    BY <1>4, MishapIsRecorded DEF ReceiverRestarts, Kind, sender
  <2>2. Msgs(work') = {} /\ Msgs(inbox') = {} /\ Sorted(work') /\ Sorted(inbox') /\ Ascending'
    BY <2>1 DEF Msgs, Sorted, Ascending
  <2>3. \A m \in Msgs(net) : After(m)' /\ m.sum /\ m.id <= sent
    BY <2>1 DEF OrderInv, InOrder, After
  <2>4. Sorted(net') /\ Msgs(net') = Msgs(net)
    BY <2>1 DEF OrderInv, InOrder
  <2>5. Cross(work', inbox') /\ Cross(work', net') /\ Cross(inbox', net')
    BY <2>2 DEF Cross
  <2> QED BY <2>1, <2>2, <2>3, <2>4, <2>5 DEF OrderInv, InOrder
<1> QED BY <1>1, <1>2, <1>3, <1>4 DEF Faults

(* A receiver reads each message at most once and in the order of sending, *)
(* whatever is lost or doubled and whoever restarts, as long as none is    *)
(* overtaken or damaged (udp_exchange.hpp, input_vars).                    *)
THEOREM ReadInOrderOnce == Spec => []InOrderOnce
<1>1. Init => OrderInv
  BY DEF Init, OrderInv, InOrder, Sorted, Cross, Msgs, Ascending
<1>2. TypeOK /\ OrderInv /\ [Next]_vars => OrderInv'
  <2> SUFFICES ASSUME TypeOK, OrderInv, [Next]_vars PROVE OrderInv'
    OBVIOUS
  <2>1. CASE EndInput
    BY <2>1 DEF EndInput, OrderInv, Straight, Happened, InOrder, Cross, Msgs, Sorted, After,
                LastRead, Ascending, sender
  <2>2. ASSUME NEW v \in Var, NEW x \in Value, SourceChanges(v, x)
        PROVE  OrderInv'
    BY <2>2 DEF SourceChanges, OrderInv, Straight, Happened, InOrder, Cross, Msgs, Sorted, After,
                LastRead, Ascending, receiver
  <2>3. CASE StartOutput
    BY <2>3 DEF StartOutput, OrderInv, Straight, Happened, InOrder, Cross, Msgs, Sorted, After,
                LastRead, Ascending, receiver
  <2>4. CASE UNCHANGED vars
    BY <2>4 DEF OrderInv, Straight, Happened, InOrder, Cross, Msgs, Sorted, After,
                LastRead, Ascending, vars, sender, receiver
  <2> QED BY <2>1, <2>2, <2>3, <2>4, OrderDeliver, OrderTake, OrderLook, OrderOutput, OrderFaults
          DEF Next, Sender, Receiver
<1>3. TypeOK /\ OrderInv => InOrderOnce
  <2> SUFFICES ASSUME TypeOK, OrderInv, Straight,
                      NEW i \in 2 .. Len(applied)
               PROVE  applied[i - 1] < applied[i]
    BY DEF InOrderOnce, Straight
  <2>1. i - 1 \in 1 .. Len(applied) /\ i \in 1 .. Len(applied) /\ i - 1 < i
    BY DEF TypeOK
  <2> QED BY <2>1 DEF OrderInv, Ascending
<1> QED BY <1>1, <1>2, <1>3, TypeCorrect, PTL DEF Spec
=============================================================================
