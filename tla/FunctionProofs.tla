--------------------------- MODULE FunctionProofs ---------------------------
(***************************************************************************)
(* What the functions that keep no state compute, for inputs of every      *)
(* size.  The recursive functions among them are solved by Recursion and   *)
(* Iteration of module Induction.                                          *)
(***************************************************************************)
EXTENDS MCFunctions, Induction, SequenceTheorems

Words == Name \cup {Stranger} \cup UnaryOps \cup BinaryOps
Renamings == UNION {[D -> Key] : D \in SUBSET Key}
Datum == BOOLEAN \cup Int \cup Seq(Byte) \cup Texts
Letter == {"a", " ", Quote, Backslash}

ConditionInput == [job : {"condition"}, src : Seq(Words), m : [Name -> BOOLEAN]]
RenamingInput  == [job : {"renaming"}, view : [map : {NoData}, remap : Renamings],
                   out : SUBSET Key]
LineInput      == [job : {"line"}, name : {Command, BadCommand},
                   par : Seq([style : Style, text : Seq(Letter)])]
NameInput      == [job : {"name"},
                   name : {name \in Seq(NamePart) : Len(name) \in 1 .. MaxParts}]
MessageInput   == [job : {"message"}, words : Seq(0 .. Top) \ {<<>>}]
PlaceInput     == [job : {"place"}, type : TypeName,
                   slot : {slot \in Seq(Byte) : Len(slot) \in PlaceSize},
                   written : Seq([type : TypeName, data : Datum])]
TextInput      == [job : {"text"}, value : [type : TypeName, data : Datum],
                   accepted : Seq(Texts)]

TypeOK == \/ input \in ConditionInput
          \/ input \in RenamingInput
          \/ input \in LineInput
          \/ input \in NameInput
          \/ input \in MessageInput
          \/ input \in PlaceInput
          \/ input \in TextInput
----------------------------------------------------------------------------
(* Conditions.                                                             *)

LEMMA DepthIs ==
    ASSUME NEW W, NEW src \in Seq(W)
    PROVE  /\ Depth(src) \in [0 .. Len(src) -> Int]
           /\ \A j \in 0 .. Len(src) :
                 Depth(src)[j] = IF j = 0 THEN 0 ELSE Depth(src)[j - 1] + Gain(src[j])
<1> DEFINE n == Len(src)
           step == [j \in 1 .. n |-> [x \in Int |-> x + Gain(src[j])]]
           Solves(d) == d = [j \in 0 .. n |-> IF j = 0 THEN 0 ELSE d[j - 1] + Gain(src[j])]
<1>1. \A w : Gain(w) \in Int
  BY DEF Gain
<1>2. Rounds(n, Int, 0, step)
  BY <1>1 DEF Rounds
<1>3. \A j \in 1 .. n : \A x \in Int : step[j][x] = x + Gain(src[j])
  OBVIOUS
<1> HIDE DEF step
<1>4. PICK f \in [0 .. n -> Int] :
         \A j \in 0 .. n : f[j] = IF j = 0 THEN 0 ELSE f[j - 1] + Gain(src[j])
  <2>1. PICK f \in [0 .. n -> Int] :
           \A j \in 0 .. n : f[j] = IF j = 0 THEN 0 ELSE step[j][f[j - 1]]
    <3> HIDE DEF n
    <3> QED BY <1>2, Iteration
  <2>2. \A j \in 1 .. n : f[j - 1] \in Int
    OBVIOUS
  <2> QED BY <1>3, <2>1, <2>2
<1>5. Solves(f)
  BY <1>4
<1>6. Solves(Depth(src))
  <2> HIDE DEF Solves
  <2>1. Depth(src) = CHOOSE d : Solves(d)
    BY DEF Depth, Solves
  <2> QED BY <1>5, <2>1
<1>7. \A j \in 0 .. n :
         Depth(src)[j] = IF j = 0 THEN 0 ELSE Depth(src)[j - 1] + Gain(src[j])
  BY <1>6
<1>8. Depth(src) \in [0 .. n -> Int]
  <2> DEFINE P == {j \in 0 .. n : Depth(src)[j] \in Int}
  <2>1. 0 \in P
    BY <1>7
  <2>2. \A j \in 0 .. n - 1 : j \in P => j + 1 \in P
    BY <1>1, <1>7
  <2>3. \A j \in 0 .. n : j \in P
    <3>1. Inductive(n, P)
      BY <2>1, <2>2 DEF Inductive
    <3> HIDE DEF P
    <3> QED BY <3>1, UpwardInduction
  <2> QED BY <1>6, <2>3
<1> QED BY <1>7, <1>8

Stack == [ok : BOOLEAN, st : Seq(BOOLEAN)]

(* A word that finds its operands leaves the values below them and one     *)
(* more.                                                                   *)
Fits(w, m, st) == Len(st) >= Arity(w) /\ (IsOperator(w) \/ w \in DOMAIN m)

LEMMA WordIs ==
    ASSUME NEW N, NEW m \in [N -> BOOLEAN], NEW st \in Seq(BOOLEAN), NEW w
    PROVE  /\ Word(w, m, st) \in Stack
           /\ ~ Fits(w, m, st) => Word(w, m, st) = Failed
           /\ Fits(w, m, st) =>
                 LET new == Word(w, m, st).st
                     n   == Len(st)
                 IN  /\ Word(w, m, st).ok
                     /\ Len(new) = n + Gain(w) /\ Len(new) >= 1
                     /\ \A i \in 1 .. Len(new) - 1 : new[i] = st[i]
                     /\ new[Len(new)] =
                           CASE w \in UnaryOps -> ~ st[n]
                             [] w = "&" -> st[n - 1] /\ st[n]
                             [] w = "|" -> st[n - 1] \/ st[n]
                             [] OTHER -> m[w]
<1> USE DEF UnaryOps, BinaryOps, Gain, Arity, IsOperator
<1>0. Failed \in Stack
  BY DEF Failed, Stack
<1>1. ASSUME NEW below \in Seq(BOOLEAN), NEW x \in BOOLEAN
      PROVE  /\ Pushed(below, x) \in Stack /\ Pushed(below, x).ok
             /\ Len(Pushed(below, x).st) = Len(below) + 1
             /\ \A i \in 1 .. Len(below) : Pushed(below, x).st[i] = below[i]
             /\ Pushed(below, x).st[Len(below) + 1] = x
  BY DEF Pushed, Stack
<1>2. ASSUME NEW k \in 0 .. Len(st)
      PROVE  /\ SubSeq(st, 1, k) \in Seq(BOOLEAN) /\ Len(SubSeq(st, 1, k)) = k
             /\ \A i \in 1 .. k : SubSeq(st, 1, k)[i] = st[i]
  OBVIOUS
<1>3. ASSUME NEW k \in 0 .. Len(st), NEW x \in BOOLEAN,
             Word(w, m, st) = Pushed(SubSeq(st, 1, k), x)
      PROVE  /\ Word(w, m, st) \in Stack /\ Word(w, m, st).ok
             /\ Len(Word(w, m, st).st) = k + 1
             /\ \A i \in 1 .. k : Word(w, m, st).st[i] = st[i]
             /\ Word(w, m, st).st[k + 1] = x
  <2> DEFINE below == SubSeq(st, 1, k)
  <2>1. below \in Seq(BOOLEAN) /\ Len(below) = k /\ \A i \in 1 .. k : below[i] = st[i]
    BY <1>2
  <2>2. Word(w, m, st) = Pushed(below, x)
    BY <1>3
  <2> HIDE DEF below
  <2> QED BY <1>1, <2>1, <2>2
<1>4. CASE w = "!"
  <2>1. Word(w, m, st) = ApplyUnary(st)
    BY <1>4 DEF Word
  <2>2. CASE Len(st) < 1
    BY <1>0, <1>4, <2>1, <2>2 DEF Fits, ApplyUnary
  <2>3. CASE Len(st) >= 1
    <3> DEFINE k == Len(st) - 1
               x == ~ st[Len(st)]
    <3>1. Word(w, m, st) = Pushed(SubSeq(st, 1, k), x)
      BY <2>1, <2>3 DEF ApplyUnary
    <3>2. x \in BOOLEAN /\ k \in 0 .. Len(st) /\ k + 1 = Len(st) + Gain(w)
      BY <1>4, <2>3
    <3>3. x = CASE w \in UnaryOps -> ~ st[Len(st)]
                [] w = "&" -> st[Len(st) - 1] /\ st[Len(st)]
                [] w = "|" -> st[Len(st) - 1] \/ st[Len(st)]
                [] OTHER -> m[w]
      BY <1>4
    <3>4. Fits(w, m, st)
      BY <1>4, <2>3 DEF Fits
    <3> HIDE DEF k, x
    <3> QED BY <1>3, <3>1, <3>2, <3>3, <3>4
  <2> QED BY <2>2, <2>3
<1>5. CASE w \in {"&", "|"}
  <2> DEFINE k == Len(st) - 2
             x == IF w = "&" THEN st[Len(st) - 1] /\ st[Len(st)]
                  ELSE st[Len(st) - 1] \/ st[Len(st)]
  <2>1. Word(w, m, st) = ApplyBinary(w, st)
    BY <1>5 DEF Word
  <2>2. CASE Len(st) < 2
    BY <1>0, <1>5, <2>1, <2>2 DEF Fits, ApplyBinary
  <2>3. CASE Len(st) >= 2
    <3>1. Word(w, m, st) = Pushed(SubSeq(st, 1, k), x)
      BY <2>1, <2>3 DEF ApplyBinary
    <3>2. x \in BOOLEAN /\ k \in 0 .. Len(st) /\ k + 1 = Len(st) + Gain(w)
      BY <1>5, <2>3
    <3>3. x = CASE w \in UnaryOps -> ~ st[Len(st)]
                [] w = "&" -> st[Len(st) - 1] /\ st[Len(st)]
                [] w = "|" -> st[Len(st) - 1] \/ st[Len(st)]
                [] OTHER -> m[w]
      BY <1>5
    <3>4. Fits(w, m, st)
      BY <1>5, <2>3 DEF Fits
    <3> HIDE DEF k, x
    <3> QED BY <1>3, <3>1, <3>2, <3>3, <3>4
  <2> QED BY <2>2, <2>3
<1>6. CASE w \notin {"!", "&", "|"}
  <2>1. Word(w, m, st) = PushOperand(w, m, st)
    BY <1>6 DEF Word
  <2>2. CASE w \in N
    <3>1. Word(w, m, st) = Pushed(st, m[w]) /\ m[w] \in BOOLEAN
      BY <2>1, <2>2 DEF PushOperand
    <3> QED BY <1>1, <1>6, <2>2, <3>1 DEF Fits
  <2>3. CASE w \notin N
    BY <1>0, <1>6, <2>1, <2>3 DEF Fits, PushOperand
  <2> QED BY <2>2, <2>3
<1> QED BY <1>4, <1>5, <1>6

LEMMA StackIs ==
    ASSUME NEW W, NEW src \in Seq(W), NEW N, NEW m \in [N -> BOOLEAN]
    PROVE  /\ StackAfter(src, m) \in [0 .. Len(src) -> Stack]
           /\ \A j \in 0 .. Len(src) :
                 StackAfter(src, m)[j] =
                    IF j = 0 THEN [ok |-> TRUE, st |-> <<>>]
                    ELSE IF StackAfter(src, m)[j - 1].ok
                         THEN Word(src[j], m, StackAfter(src, m)[j - 1].st)
                         ELSE Failed
<1> DEFINE n == Len(src)
           none == [ok |-> TRUE, st |-> <<>>]
           Round(j, x) == IF x.ok THEN Word(src[j], m, x.st) ELSE Failed
           step == [j \in 1 .. n |-> [x \in Stack |-> Round(j, x)]]
           Solves(f) == f = [j \in 0 .. n |-> IF j = 0 THEN none ELSE Round(j, f[j - 1])]
           g == StackAfter(src, m)
<1>1. none \in Stack /\ Failed \in Stack
  BY DEF Stack, Failed
<1>2. ASSUME NEW j, NEW x \in Stack PROVE Round(j, x) \in Stack
  BY <1>1, WordIs DEF Stack
<1> HIDE DEF none, Round
<1>3. Rounds(n, Stack, none, step)
  BY <1>1, <1>2 DEF Rounds
<1>4. \A j \in 1 .. n : \A x \in Stack : step[j][x] = Round(j, x)
  OBVIOUS
<1> HIDE DEF step
<1>5. PICK f \in [0 .. n -> Stack] :
         \A j \in 0 .. n : f[j] = IF j = 0 THEN none ELSE Round(j, f[j - 1])
  <2>1. PICK f \in [0 .. n -> Stack] :
           \A j \in 0 .. n : f[j] = IF j = 0 THEN none ELSE step[j][f[j - 1]]
    <3> HIDE DEF n
    <3> QED BY <1>3, Iteration
  <2>2. \A j \in 1 .. n : f[j - 1] \in Stack
    OBVIOUS
  <2> QED BY <1>4, <2>1, <2>2
<1>6. Solves(g)
  <2>1. Solves(f)
    BY <1>5
  <2> HIDE DEF Solves
  <2>2. g = CHOOSE h : Solves(h)
    BY DEF StackAfter, Solves, Round, none
  <2> QED BY <2>1, <2>2
<1>7. \A j \in 0 .. n : g[j] = IF j = 0 THEN none ELSE Round(j, g[j - 1])
  <2> HIDE DEF g
  <2> QED BY <1>6
<1>8. g \in [0 .. n -> Stack]
  <2> HIDE DEF g
  <2> DEFINE P == {j \in 0 .. n : g[j] \in Stack}
  <2>1. Inductive(n, P)
    BY <1>1, <1>2, <1>7 DEF Inductive
  <2>2. \A j \in 0 .. n : j \in P
    <3> HIDE DEF P
    <3> QED BY <2>1, UpwardInduction
  <2> QED BY <1>6, <2>2
<1> QED BY <1>7, <1>8 DEF Round, none

(* As long as every word has fitted, the stack is as high as Depth says.   *)
Good(src, m, k) == /\ Depth(src)[k - 1] >= Arity(src[k])
                   /\ IsOperator(src[k]) \/ src[k] \in DOMAIN m

LEMMA StackHeight ==
    ASSUME NEW W, NEW src \in Seq(W), NEW N, NEW m \in [N -> BOOLEAN],
           NEW j \in 0 .. Len(src)
    PROVE  LET r == StackAfter(src, m)[j]
           IN  /\ r \in Stack
               /\ r.ok <=> \A k \in 1 .. j : Good(src, m, k)
               /\ r.ok => Len(r.st) = Depth(src)[j] /\ (j > 0 => Len(r.st) >= 1)
<1> DEFINE n == Len(src)
           f == StackAfter(src, m)
           d == Depth(src)
           Holds(i) == /\ f[i].ok <=> \A k \in 1 .. i : Good(src, m, k)
                       /\ f[i].ok => Len(f[i].st) = d[i] /\ (i > 0 => Len(f[i].st) >= 1)
           P == {i \in 0 .. n : Holds(i)}
<1>1. /\ f \in [0 .. n -> Stack] /\ d \in [0 .. n -> Int] /\ n \in Nat
      /\ f[0] = [ok |-> TRUE, st |-> <<>>] /\ d[0] = 0
      /\ \A i \in 0 .. n - 1 :
            /\ f[i + 1] = IF f[i].ok THEN Word(src[i + 1], m, f[i].st) ELSE Failed
            /\ d[i + 1] = d[i] + Gain(src[i + 1])
  <2>1. n \in Nat /\ \A i \in 0 .. n - 1 : i + 1 \in 0 .. n /\ i + 1 # 0 /\ (i + 1) - 1 = i
    OBVIOUS
  <2> HIDE DEF n, f, d
  <2> QED BY <2>1, StackIs, DepthIs DEF n, f, d
<1> HIDE DEF f, d, n
<1>2. 0 \in P
  BY <1>1
<1>3. ASSUME NEW i \in 0 .. n - 1, Holds(i) PROVE Holds(i + 1)
  <2>1. f[i] \in Stack /\ (i + 1) - 1 = i /\ i + 1 > 0
    BY <1>1
  <2>2. (\A k \in 1 .. i + 1 : Good(src, m, k)) <=>
           (\A k \in 1 .. i : Good(src, m, k)) /\ Good(src, m, i + 1)
    <3>1. 1 .. i + 1 = 1 .. i \cup {i + 1}
      BY <1>1
    <3> QED BY <3>1
  <2>3. CASE ~ f[i].ok
    BY <1>1, <1>3, <2>2, <2>3 DEF Failed
  <2>4. CASE f[i].ok
    <3>1. /\ f[i].st \in Seq(BOOLEAN) /\ Len(f[i].st) = d[i]
          /\ f[i + 1] = Word(src[i + 1], m, f[i].st)
      BY <1>1, <1>3, <2>1, <2>4 DEF Stack
    <3>2. Good(src, m, i + 1) <=> Fits(src[i + 1], m, f[i].st)
      BY <2>1, <3>1 DEF Good, Fits, d
    <3>3. CASE Fits(src[i + 1], m, f[i].st)
      <4>1. /\ f[i + 1].ok /\ Len(f[i + 1].st) = Len(f[i].st) + Gain(src[i + 1])
            /\ Len(f[i + 1].st) >= 1
        BY <3>1, <3>3, WordIs
      <4> QED BY <1>1, <1>3, <2>2, <2>4, <3>1, <3>2, <3>3, <4>1
    <3>4. CASE ~ Fits(src[i + 1], m, f[i].st)
      <4>1. ~ f[i + 1].ok
        BY <3>1, <3>4, WordIs DEF Failed
      <4> QED BY <2>2, <3>2, <3>4, <4>1
    <3> QED BY <3>3, <3>4
  <2> QED BY <2>3, <2>4
<1>4. \A i \in 0 .. n : i \in P
  <2>1. Inductive(n, P)
    <3> HIDE DEF Holds
    <3> QED BY <1>1, <1>2, <1>3 DEF Inductive
  <2> HIDE DEF P
  <2> QED BY <2>1, UpwardInduction
<1>5. Holds(j)
  BY <1>4 DEF n
<1> QED BY <1>1, <1>5 DEF f, d, n

(* The words of an operand leave one value more than there was before it,  *)
(* and at least that all along.                                            *)
LEMMA BeforeIs ==
    ASSUME NEW W, NEW src \in Seq(W), NEW j \in 1 .. Len(src), Depth(src)[j] >= 1
    PROVE  /\ Before(src, j) \in 0 .. j - 1
           /\ Depth(src)[Before(src, j)] = Depth(src)[j] - 1
           /\ \A k \in Before(src, j) + 1 .. j : Depth(src)[k] >= Depth(src)[j]
<1> DEFINE n == Len(src)
           d == Depth(src)
           T == {i \in 0 .. j - 1 : d[i] <= d[j] - 1}
           IsBefore(i) == /\ i \in 0 .. j - 1 /\ d[i] = d[j] - 1
                          /\ \A k \in i + 1 .. j - 1 : d[k] # d[j] - 1
<1>1. /\ n \in Nat /\ j \in 1 .. n /\ d \in [0 .. n -> Int] /\ d[0] = 0 /\ d[j] >= 1
      /\ \A i \in 0 .. n - 1 : d[i + 1] <= d[i] + 1
  <2>1. \A w : Gain(w) \in Int /\ Gain(w) <= 1
    BY DEF Gain
  <2>2. n \in Nat /\ \A i \in 0 .. n - 1 : i + 1 \in 0 .. n /\ i + 1 # 0 /\ (i + 1) - 1 = i
    OBVIOUS
  <2> HIDE DEF n, d
  <2>3. /\ d \in [0 .. n -> Int] /\ d[0] = 0 /\ j \in 1 .. n /\ d[j] >= 1
        /\ \A i \in 0 .. n - 1 : d[i + 1] = d[i] + Gain(src[i + 1])
    BY <2>2, DepthIs DEF n, d
  <2> QED BY <2>1, <2>2, <2>3
<1>2. Before(src, j) = CHOOSE i \in 0 .. j - 1 : IsBefore(i)
  BY DEF Before
<1> HIDE DEF n, d
<1>3. PICK i \in T : \A x \in T : x <= i
  <2>1. T \subseteq 0 .. j - 1 /\ j - 1 \in Nat /\ 0 \in T
    BY <1>1
  <2> HIDE DEF T
  <2> QED BY <2>1, GreatestNumber
<1>4. i \in 0 .. j - 1 /\ d[i] <= d[j] - 1 /\ \A k \in i + 1 .. j : d[k] >= d[j]
  <2> SUFFICES ASSUME NEW k \in i + 1 .. j PROVE d[k] >= d[j]
    BY <1>3
  <2>1. k \in 0 .. n
    BY <1>1, <1>3
  <2>2. k # j => k \notin T
    BY <1>3
  <2> QED BY <1>1, <1>3, <2>1, <2>2
<1>5. d[i] = d[j] - 1
  <2>1. i + 1 \in i + 1 .. j /\ i \in 0 .. n - 1
    BY <1>1, <1>4
  <2> QED BY <1>1, <1>4, <2>1
<1>6. IsBefore(i)
  BY <1>1, <1>4, <1>5
<1>7. ASSUME NEW b \in 0 .. j - 1, IsBefore(b) PROVE b = i
  <2>1. ~ b < i
    BY <1>4, <1>5, <1>7
  <2>2. ~ i < b
    BY <1>1, <1>4, <1>7
  <2> QED BY <1>4, <2>1, <2>2
<1>8. Before(src, j) = i
  <2> HIDE DEF IsBefore
  <2> QED BY <1>2, <1>4, <1>6, <1>7
<1> QED BY <1>4, <1>5, <1>8 DEF d

(* The operands of a word that fits end before it.                         *)
LEMMA OperandsBefore ==
    ASSUME NEW W, NEW src \in Seq(W), NEW m, NEW j \in 1 .. Len(src),
           \A k \in 1 .. Len(src) : Good(src, m, k)
    PROVE  LET b == Before(src, j - 1)
               d == Depth(src)
           IN  /\ src[j] \in UnaryOps \cup BinaryOps => j - 1 \in 1 .. Len(src)
               /\ src[j] \in BinaryOps =>
                     /\ b \in 1 .. j - 2 /\ d[b] = d[j - 1] - 1
                     /\ \A k \in b + 1 .. j - 1 : d[k] >= d[j - 1]
<1> DEFINE d == Depth(src)
<1>1. Arity(src[j]) = (IF src[j] \in UnaryOps THEN 1 ELSE IF src[j] \in BinaryOps THEN 2 ELSE 0)
  BY DEF Arity, UnaryOps, BinaryOps
<1>2. d \in [0 .. Len(src) -> Int] /\ d[0] = 0 /\ d[j - 1] >= Arity(src[j])
  BY DepthIs DEF Good
<1>3. ASSUME src[j] \in UnaryOps \cup BinaryOps PROVE j - 1 \in 1 .. Len(src)
  BY <1>1, <1>2, <1>3
<1>4. ASSUME src[j] \in BinaryOps
      PROVE  /\ Before(src, j - 1) \in 1 .. j - 2 /\ d[Before(src, j - 1)] = d[j - 1] - 1
             /\ \A k \in Before(src, j - 1) + 1 .. j - 1 : d[k] >= d[j - 1]
  <2>1. d[j - 1] >= 2 /\ j - 1 \in 1 .. Len(src)
    BY <1>1, <1>2, <1>3, <1>4 DEF UnaryOps, BinaryOps
  <2>2. /\ Before(src, j - 1) \in 0 .. (j - 1) - 1 /\ d[Before(src, j - 1)] = d[j - 1] - 1
        /\ \A k \in Before(src, j - 1) + 1 .. j - 1 : d[k] >= d[j - 1]
    <3> DEFINE i == j - 1
    <3>1. i \in 1 .. Len(src) /\ Depth(src)[i] >= 1
      BY <1>2, <2>1
    <3> HIDE DEF i
    <3>2. /\ Before(src, i) \in 0 .. i - 1 /\ d[Before(src, i)] = d[i] - 1
          /\ \A k \in Before(src, i) + 1 .. i : d[k] >= d[i]
      BY <3>1, BeforeIs
    <3> QED BY <3>2 DEF i
  <2> HIDE DEF d
  <2> QED BY <1>2, <2>1, <2>2
<1> QED BY <1>3, <1>4

LEMMA MeaningIs ==
    ASSUME NEW W, NEW src \in Seq(W), NEW N, NEW m \in [N -> BOOLEAN],
           \A k \in 1 .. Len(src) : Good(src, m, k)
    PROVE  \A j \in 1 .. Len(src) :
              LET v == Meaning(src, m)
              IN  v[j] = CASE src[j] \in UnaryOps -> ~ v[j - 1]
                           [] src[j] = "&" -> v[Before(src, j - 1)] /\ v[j - 1]
                           [] src[j] = "|" -> v[Before(src, j - 1)] \/ v[j - 1]
                           [] OTHER -> m[src[j]]
<1> DEFINE n == Len(src)
           D == 1 .. n
           V(g, j) == CASE src[j] \in UnaryOps -> ~ g[j - 1]
                        [] src[j] = "&" -> g[Before(src, j - 1)] /\ g[j - 1]
                        [] src[j] = "|" -> g[Before(src, j - 1)] \/ g[j - 1]
                        [] OTHER -> m[src[j]]
           rank == [j \in D |-> j]
           next == [j \in D |-> [g \in [D -> BOOLEAN] |-> V(g, j)]]
           Solves(g) == g = [j \in D |-> V(g, j)]
<1>0. n \in Nat
  OBVIOUS
<1>1. ASSUME NEW j \in D
      PROVE  /\ src[j] \in UnaryOps \cup BinaryOps => j - 1 \in D
             /\ src[j] \in BinaryOps => Before(src, j - 1) \in D /\ Before(src, j - 1) < j
  <2>1. /\ src[j] \in UnaryOps \cup BinaryOps => j - 1 \in 1 .. Len(src)
        /\ src[j] \in BinaryOps => Before(src, j - 1) \in 1 .. j - 2
    BY OperandsBefore
  <2> QED BY <1>0, <2>1
<1>2. ASSUME NEW j \in D, NEW g \in [D -> BOOLEAN] PROVE V(g, j) \in BOOLEAN
  <2>1. src[j] \notin UnaryOps \cup BinaryOps => m[src[j]] \in BOOLEAN
    BY DEF Good, IsOperator
  <2>2. src[j] = "&" \/ src[j] = "|" => src[j] \in BinaryOps
    BY DEF BinaryOps
  <2>3. src[j] \in BinaryOps => src[j] = "&" \/ src[j] = "|"
    BY DEF BinaryOps
  <2> HIDE DEF D
  <2> QED BY <1>1, <2>1, <2>2, <2>3
<1>3. ASSUME NEW j \in D, NEW g \in [D -> BOOLEAN], NEW h \in [D -> BOOLEAN],
             \A i \in D : i < j => g[i] = h[i]
      PROVE  V(g, j) = V(h, j)
  <2>1. src[j] = "&" \/ src[j] = "|" => src[j] \in BinaryOps
    BY DEF BinaryOps
  <2>2. src[j] \in UnaryOps \cup BinaryOps => g[j - 1] = h[j - 1]
    BY <1>1, <1>3
  <2>3. src[j] \in BinaryOps => g[Before(src, j - 1)] = h[Before(src, j - 1)]
    BY <1>1, <1>3
  <2> QED BY <2>1, <2>2, <2>3
<1> HIDE DEF V
<1>4. Ranked(D, BOOLEAN, n, rank, next)
  <2>1. TRUE \in BOOLEAN /\ n \in Nat /\ rank \in [D -> 0 .. n]
    <3> HIDE DEF n
    <3> QED BY <1>0
  <2>2. next \in [D -> [[D -> BOOLEAN] -> BOOLEAN]]
    BY <1>2
  <2>3. \A j \in D : \A g, h \in [D -> BOOLEAN] :
           (\A i \in D : rank[i] < rank[j] => g[i] = h[i]) => next[j][g] = next[j][h]
    BY <1>3
  <2> HIDE DEF rank, next, D, n
  <2> QED BY <2>1, <2>2, <2>3 DEF Ranked
<1>5. PICK g \in [D -> BOOLEAN] : \A j \in D : g[j] = V(g, j)
  <2>1. \A j \in D : \A g \in [D -> BOOLEAN] : next[j][g] = V(g, j)
    OBVIOUS
  <2>2. \E g \in [D -> BOOLEAN] : \A j \in D : g[j] = next[j][g]
    <3> HIDE DEF rank, next, D, n
    <3> QED BY <1>4, Recursion
  <2> HIDE DEF next, D
  <2> QED BY <2>1, <2>2
<1>6. Solves(g)
  BY <1>5
<1>7. Meaning(src, m) = CHOOSE v : Solves(v)
  BY DEF Meaning, V
<1>8. Solves(Meaning(src, m))
  <2> HIDE DEF Solves
  <2> QED BY <1>6, <1>7
<1> QED BY <1>8 DEF V

(* The value of an operand stays on the stack for as long as the stack is  *)
(* higher.                                                                 *)
Kept(src, m, j) ==
    \A l \in 1 .. j : (\A k \in l + 1 .. j : Depth(src)[k] > Depth(src)[l]) =>
        StackAfter(src, m)[j].st[Depth(src)[l]] = Meaning(src, m)[l]

LEMMA StackMeaning ==
    ASSUME NEW W, NEW src \in Seq(W), NEW N, NEW m \in [N -> BOOLEAN],
           \A k \in 1 .. Len(src) : Good(src, m, k)
    PROVE  \A j \in 0 .. Len(src) : Kept(src, m, j)
<1> DEFINE n == Len(src)
           f == StackAfter(src, m)
           d == Depth(src)
           v == Meaning(src, m)
           P == {j \in 0 .. n : Kept(src, m, j)}
<1>1. /\ n \in Nat /\ d \in [0 .. n -> Int] /\ f \in [0 .. n -> Stack]
      /\ \A j \in 0 .. n : f[j].ok /\ Len(f[j].st) = d[j] /\ (j > 0 => d[j] >= 1)
  <2>1. n \in Nat
    OBVIOUS
  <2>2. \A j \in 0 .. n : \A k \in 1 .. j : Good(src, m, k)
    OBVIOUS
  <2>3. /\ d \in [0 .. n -> Int] /\ f \in [0 .. n -> Stack]
    BY DepthIs, StackIs
  <2>4. \A j \in 0 .. n : /\ f[j].ok <=> \A k \in 1 .. j : Good(src, m, k)
                          /\ f[j].ok => Len(f[j].st) = d[j] /\ (j > 0 => Len(f[j].st) >= 1)
    BY StackHeight
  <2> HIDE DEF n, d, f
  <2> QED BY <2>1, <2>2, <2>3, <2>4
<1>2. 0 \in P
  BY DEF Kept
<1>3. ASSUME NEW i \in 0 .. n - 1, Kept(src, m, i) PROVE Kept(src, m, i + 1)
  <2> DEFINE j == i + 1
             w == src[j]
             st == f[i].st
             new == f[j].st
             b == Before(src, i)
  <2>1. j \in 1 .. n /\ i \in 0 .. n /\ j - 1 = i
    BY <1>1
  <2>2. st \in Seq(BOOLEAN) /\ Len(st) = d[i] /\ Len(new) = d[j]
    <3> HIDE DEF n, f, d, j
    <3> QED BY <1>1, <2>1 DEF Stack
  <2>3. f[j] = Word(w, m, st) /\ Fits(w, m, st)
    <3>1. Good(src, m, j)
      BY <2>1
    <3>2. f[j] = IF f[i].ok THEN Word(w, m, st) ELSE Failed
      BY <2>1, StackIs
    <3> HIDE DEF j, n, f, d
    <3> QED BY <1>1, <2>1, <2>2, <3>1, <3>2 DEF Good, Fits, d
  <2>4. /\ \A k \in 1 .. d[j] - 1 : new[k] = st[k]
        /\ new[d[j]] = CASE w \in UnaryOps -> ~ st[d[i]]
                         [] w = "&" -> st[d[i] - 1] /\ st[d[i]]
                         [] w = "|" -> st[d[i] - 1] \/ st[d[i]]
                         [] OTHER -> m[w]
    <3> HIDE DEF j, w, st, f, d
    <3>1. /\ \A k \in 1 .. Len(new) - 1 : new[k] = st[k]
          /\ new[Len(new)] = CASE w \in UnaryOps -> ~ st[Len(st)]
                               [] w = "&" -> st[Len(st) - 1] /\ st[Len(st)]
                               [] w = "|" -> st[Len(st) - 1] \/ st[Len(st)]
                               [] OTHER -> m[w]
      <4> DEFINE top == Word(w, m, st).st
      <4>1. /\ \A k \in 1 .. Len(top) - 1 : top[k] = st[k]
            /\ top[Len(top)] = CASE w \in UnaryOps -> ~ st[Len(st)]
                                 [] w = "&" -> st[Len(st) - 1] /\ st[Len(st)]
                                 [] w = "|" -> st[Len(st) - 1] \/ st[Len(st)]
                                 [] OTHER -> m[w]
        BY <2>2, <2>3, WordIs
      <4>2. top = new
        BY <2>3
      <4> HIDE DEF top, new
      <4> QED BY <4>1, <4>2
    <3> QED BY <2>2, <3>1
  <2>5. v[j] = CASE w \in UnaryOps -> ~ v[i]
                 [] w = "&" -> v[b] /\ v[i]
                 [] w = "|" -> v[b] \/ v[i]
                 [] OTHER -> m[w]
    BY <2>1, MeaningIs
  <2>6. /\ w \in UnaryOps \cup BinaryOps => i \in 1 .. n
        /\ w \in BinaryOps => /\ b \in 1 .. i - 1 /\ d[b] = d[i] - 1
                              /\ \A k \in b + 1 .. i : d[k] >= d[i]
    <3> HIDE DEF j
    <3>1. /\ w \in UnaryOps \cup BinaryOps => j - 1 \in 1 .. n
          /\ w \in BinaryOps =>
                LET x == Before(src, j - 1)
                IN  /\ x \in 1 .. j - 2 /\ d[x] = d[j - 1] - 1
                    /\ \A k \in x + 1 .. j - 1 : d[k] >= d[j - 1]
      BY <2>1, OperandsBefore
    <3>2. j - 2 = i - 1
      BY <2>1
    <3> HIDE DEF w, n, d
    <3> QED BY <2>1, <3>1, <3>2
  <2>7. \A l \in 1 .. i : (\A k \in l + 1 .. i : d[k] > d[l]) => st[d[l]] = v[l]
    BY <1>3 DEF Kept
  <2> HIDE DEF n, f, d, v, j, w, st, b
  <2>8. w \in UnaryOps \cup BinaryOps => st[d[i]] = v[i]
    <3> SUFFICES ASSUME i \in 1 .. i PROVE st[d[i]] = v[i]
      BY <1>1, <2>6
    <3>1. \A k \in i + 1 .. i : d[k] > d[i]
      BY <2>1
    <3> QED BY <2>7, <3>1
  <2>9. w \in BinaryOps => st[d[i] - 1] = v[b]
    <3> SUFFICES ASSUME w \in BinaryOps PROVE st[d[i] - 1] = v[b]
      OBVIOUS
    <3>1. b \in 1 .. i /\ d[b] = d[i] - 1 /\ d[i] \in Int
      BY <1>1, <2>1, <2>6
    <3>2. \A k \in b + 1 .. i : d[k] > d[b]
      <4> SUFFICES ASSUME NEW k \in b + 1 .. i PROVE d[k] > d[b]
        OBVIOUS
      <4>1. d[k] >= d[i] /\ d[k] \in Int
        BY <1>1, <2>1, <2>6, <3>1
      <4> QED BY <3>1, <4>1
    <3> QED BY <2>7, <3>1, <3>2
  <2>10. new[d[j]] = v[j]
    <3>1. w \in UnaryOps <=> w = "!"
      BY DEF UnaryOps
    <3>2. w \in BinaryOps <=> w = "&" \/ w = "|"
      BY DEF BinaryOps
    <3> QED BY <2>4, <2>5, <2>8, <2>9, <3>1, <3>2
  <2>11. ASSUME NEW l \in 1 .. i, \A k \in l + 1 .. j : d[k] > d[l]
         PROVE  new[d[l]] = v[l]
    <3>1. d[j] > d[l] /\ d[l] >= 1 /\ d[l] \in Int /\ d[j] \in Int
      BY <1>1, <2>1, <2>11
    <3>2. \A k \in l + 1 .. i : d[k] > d[l]
      BY <2>1, <2>11
    <3> QED BY <2>4, <2>7, <3>1, <3>2
  <2> QED BY <2>1, <2>10, <2>11 DEF Kept, new, f, d, v, j
<1>4. \A j \in 0 .. n : j \in P
  <2>1. Inductive(n, P)
    <3> HIDE DEF n
    <3> QED BY <1>1, <1>2, <1>3 DEF Inductive
  <2> HIDE DEF P
  <2> QED BY <2>1, UpwardInduction
<1> QED BY <1>4
----------------------------------------------------------------------------
(* Values.                                                                 *)

Positive == Nat \ {0}
Powers(size, p) ==
    /\ p \in [0 .. size -> Positive] /\ p[0] = 1 /\ p[size] = Patterns(size)
    /\ \A i \in 1 .. size : p[i] = ByteBase * p[i - 1]

LEMMA PatternsAre ==
    ASSUME NEW size \in Nat
    PROVE  \E p : Powers(size, p)
<1> DEFINE step == [i \in 1 .. size |-> [x \in Positive |-> ByteBase * x]]
           Solves(f) == f = [i \in 0 .. size |-> IF i = 0 THEN 1 ELSE ByteBase * f[i - 1]]
           p == CHOOSE f : Solves(f)
<1>1. \A x \in Positive : ByteBase * x \in Positive
  BY ValuesAssumption DEF Positive
<1>2. Rounds(size, Positive, 1, step)
  BY <1>1 DEF Rounds, Positive
<1>3. \A i \in 1 .. size : \A x \in Positive : step[i][x] = ByteBase * x
  OBVIOUS
<1> HIDE DEF step
<1>4. PICK f \in [0 .. size -> Positive] :
         \A i \in 0 .. size : f[i] = IF i = 0 THEN 1 ELSE ByteBase * f[i - 1]
  <2>1. PICK f \in [0 .. size -> Positive] :
           \A i \in 0 .. size : f[i] = IF i = 0 THEN 1 ELSE step[i][f[i - 1]]
    <3> DEFINE first == 1
    <3>1. Rounds(size, Positive, first, step)
      BY <1>2
    <3> HIDE DEF first
    <3>2. \E f \in [0 .. size -> Positive] :
             \A i \in 0 .. size : f[i] = IF i = 0 THEN first ELSE step[i][f[i - 1]]
      BY <3>1, Iteration
    <3> QED BY <3>2 DEF first
  <2>2. \A i \in 1 .. size : f[i - 1] \in Positive
    OBVIOUS
  <2> QED BY <1>3, <2>1, <2>2
<1>5. Solves(f)
  BY <1>4
<1>6. Solves(p)
  <2> HIDE DEF Solves
  <2> QED BY <1>5
<1>7. Patterns(size) = p[size]
  BY DEF Patterns
<1> HIDE DEF p
<1>8. p[0] = 1 /\ \A i \in 1 .. size : p[i] = ByteBase * p[i - 1]
  BY <1>6
<1>9. p \in [0 .. size -> Positive]
  <2> DEFINE P == {i \in 0 .. size : p[i] \in Positive}
  <2>1. 0 \in P
    BY <1>8 DEF Positive
  <2>2. \A i \in 0 .. size - 1 : i \in P => i + 1 \in P
    BY <1>1, <1>8
  <2>3. \A i \in 0 .. size : i \in P
    <3>1. Inductive(size, P)
      BY <2>1, <2>2 DEF Inductive
    <3> HIDE DEF P
    <3> QED BY <3>1, UpwardInduction
  <2> QED BY <1>6, <2>3
<1> QED BY <1>7, <1>8, <1>9 DEF Powers

LEMMA ShiftedIs ==
    ASSUME NEW size \in Nat, NEW k \in Int
    PROVE  /\ Shifted(k, size) \in [0 .. size -> Int] /\ Shifted(k, size)[0] = k
           /\ \A i \in 1 .. size : Shifted(k, size)[i] = Shifted(k, size)[i - 1] \div ByteBase
<1> DEFINE step == [i \in 1 .. size |-> [x \in Int |-> x \div ByteBase]]
           Solves(f) == f = [i \in 0 .. size |-> IF i = 0 THEN k ELSE f[i - 1] \div ByteBase]
<1>1. \A x \in Int : x \div ByteBase \in Int
  BY ValuesAssumption
<1>2. Rounds(size, Int, k, step)
  BY <1>1 DEF Rounds
<1>3. \A i \in 1 .. size : \A x \in Int : step[i][x] = x \div ByteBase
  OBVIOUS
<1> HIDE DEF step
<1>4. PICK f \in [0 .. size -> Int] :
         \A i \in 0 .. size : f[i] = IF i = 0 THEN k ELSE f[i - 1] \div ByteBase
  <2>1. PICK f \in [0 .. size -> Int] :
           \A i \in 0 .. size : f[i] = IF i = 0 THEN k ELSE step[i][f[i - 1]]
    BY <1>2, Iteration
  <2>2. \A i \in 1 .. size : f[i - 1] \in Int
    OBVIOUS
  <2> QED BY <1>3, <2>1, <2>2
<1>5. Solves(f)
  BY <1>4
<1>6. Solves(Shifted(k, size))
  <2> HIDE DEF Solves
  <2>1. Shifted(k, size) = CHOOSE h : Solves(h)
    BY DEF Shifted, Solves
  <2> QED BY <1>5, <2>1
<1> DEFINE s == Shifted(k, size)
<1> HIDE DEF s
<1>7. s[0] = k /\ \A i \in 1 .. size : s[i] = s[i - 1] \div ByteBase
  BY <1>6 DEF s
<1>8. s \in [0 .. size -> Int]
  <2> DEFINE P == {i \in 0 .. size : s[i] \in Int}
  <2>1. 0 \in P
    BY <1>7
  <2>2. \A i \in 0 .. size - 1 : i \in P => i + 1 \in P
    <3> SUFFICES ASSUME NEW i \in 0 .. size - 1, s[i] \in Int PROVE i + 1 \in P
      OBVIOUS
    <3>1. i + 1 \in 1 .. size /\ (i + 1) - 1 = i
      OBVIOUS
    <3>2. s[i + 1] = s[i] \div ByteBase
      BY <1>7, <3>1
    <3>3. s[i + 1] \in Int
      <4>1. s[i] \in Int
        OBVIOUS
      <4> QED BY <1>1, <3>2, <4>1
    <3> QED BY <3>1, <3>3
  <2>3. \A i \in 0 .. size : i \in P
    <3>1. Inductive(size, P)
      BY <2>1, <2>2 DEF Inductive
    <3> HIDE DEF P
    <3> QED BY <3>1, UpwardInduction
  <2>4. s = [i \in 0 .. size |-> s[i]]
    BY <1>6 DEF s
  <2> QED BY <2>3, <2>4
<1> QED BY <1>7, <1>8 DEF s

LEMMA FoldIs ==
    ASSUME NEW size \in Nat, NEW bytes \in [1 .. size -> Byte]
    PROVE  \E f \in [1 .. size + 1 -> Nat] :
              /\ f[size + 1] = 0 /\ Fold(bytes) = f[1] /\ Len(bytes) = size
              /\ \A i \in 1 .. size : f[i] = bytes[i] + ByteBase * f[i + 1]
<1> DEFINE n == Len(bytes)
           D == 1 .. n + 1
           V(f, i) == IF i = n + 1 THEN 0 ELSE bytes[i] + ByteBase * f[i + 1]
           next == [i \in D |-> [f \in [D -> Nat] |-> V(f, i)]]
           Solves(f) == f = [i \in D |-> V(f, i)]
           g == CHOOSE f : Solves(f)
<1>0. bytes \in Seq(Byte) /\ n = size /\ \A i \in 1 .. size : bytes[i] \in Nat
  BY ValuesAssumption DEF Byte
<1> HIDE DEF n
<1>1. ASSUME NEW i \in D, NEW f \in [D -> Nat] PROVE V(f, i) \in Nat
  <2>1. CASE i = n + 1
    BY <2>1
  <2>2. CASE i # n + 1
    <3>1. i \in 1 .. size /\ i + 1 \in D
      BY <1>0, <2>2
    <3>2. bytes[i] \in Nat /\ f[i + 1] \in Nat /\ ByteBase \in Nat
      BY <1>0, <3>1, ValuesAssumption
    <3>3. ByteBase * f[i + 1] \in Nat
      BY <3>2
    <3> QED BY <2>2, <3>2, <3>3
  <2> QED BY <2>1, <2>2
<1>2. ASSUME NEW i \in D, NEW f \in [D -> Nat], NEW h \in [D -> Nat],
             \A j \in D : i < j => f[j] = h[j]
      PROVE  V(f, i) = V(h, i)
  <2>1. CASE i = n + 1
    BY <2>1
  <2>2. CASE i # n + 1
    <3>1. i + 1 \in D /\ i < i + 1
      BY <1>0, <2>2
    <3> QED BY <1>2, <2>2, <3>1
  <2> QED BY <2>1, <2>2
<1> HIDE DEF V
<1>3. Backward(n, Nat, next)
  <2>1. n \in Nat /\ Nat # {}
    BY <1>0
  <2>2. next \in [D -> [[D -> Nat] -> Nat]]
    BY <1>1
  <2>3. \A i \in D : \A f, h \in [D -> Nat] :
           (\A j \in D : i < j => f[j] = h[j]) => next[i][f] = next[i][h]
    BY <1>2
  <2> HIDE DEF next
  <2> QED BY <2>1, <2>2, <2>3 DEF Backward
<1>4. PICK f \in [D -> Nat] : \A i \in D : f[i] = V(f, i)
  <2>1. \A i \in D : \A h \in [D -> Nat] : next[i][h] = V(h, i)
    OBVIOUS
  <2>2. \E h \in [D -> Nat] : \A i \in D : h[i] = next[i][h]
    <3> HIDE DEF next
    <3> QED BY <1>3, BackwardRecursion
  <2> HIDE DEF next, D
  <2> QED BY <2>1, <2>2
<1>5. Solves(f)
  BY <1>4
<1>6. Solves(g)
  <2> HIDE DEF Solves
  <2> QED BY <1>5
<1>7. Fold(bytes) = g[1]
  BY DEF Fold, V, n
<1> HIDE DEF g
<1>8. \A i \in D : g[i] = V(g, i)
  BY <1>6
<1>9. g[size + 1] = 0 /\ \A i \in 1 .. size : g[i] = bytes[i] + ByteBase * g[i + 1]
  BY <1>0, <1>8 DEF V
<1>10. \A j \in 0 .. size : g[size + 1 - j] \in Nat
  <2> DEFINE P == {j \in 0 .. size : g[size + 1 - j] \in Nat}
  <2>1. 0 \in P
    BY <1>9
  <2>2. ASSUME NEW j \in 0 .. size - 1, j \in P PROVE j + 1 \in P
    <3> DEFINE i == size - j
    <3>1. i \in 1 .. size /\ i + 1 = size + 1 - j /\ i = size + 1 - (j + 1) /\ j + 1 \in 0 .. size
      OBVIOUS
    <3>2. g[i + 1] \in Nat
      BY <2>2, <3>1
    <3> HIDE DEF i
    <3>3. g[i] = bytes[i] + ByteBase * g[i + 1] /\ bytes[i] \in Nat
      BY <1>0, <1>9, <3>1
    <3>4. g[i] \in Nat
      BY <3>2, <3>3, ValuesAssumption
    <3> QED BY <3>1, <3>4
  <2>3. \A j \in 0 .. size : j \in P
    <3>1. Inductive(size, P)
      BY <2>1, <2>2 DEF Inductive
    <3> HIDE DEF P
    <3> QED BY <3>1, UpwardInduction
  <2> QED BY <2>3
<1>11. g \in [1 .. size + 1 -> Nat]
  <2>1. ASSUME NEW i \in 1 .. size + 1 PROVE g[i] \in Nat
    <3>1. size + 1 - i \in 0 .. size /\ size + 1 - (size + 1 - i) = i
      OBVIOUS
    <3> QED BY <1>10, <3>1
  <2> QED BY <1>0, <1>6, <2>1
<1> QED BY <1>0, <1>7, <1>9, <1>11 DEF n

(* A number that fits comes out of its bytes as it went in.                *)
LEMMA CodeIs ==
    ASSUME NEW size \in Nat, NEW k \in -Bound(size) .. Bound(size) - 1
    PROVE  /\ Encode(k, size) \in [1 .. size -> Byte]
           /\ Decode(Encode(k, size)) = k
<1> DEFINE bytes == Encode(k, size)
           B == ByteBase
           n == Patterns(size)
           s == Shifted(k, size)
<1>1. B \in Nat /\ B >= 2
  BY ValuesAssumption
<1>2. PICK p : Powers(size, p)
  BY PatternsAre
<1>3. /\ p \in [0 .. size -> Positive] /\ p[0] = 1 /\ p[size] = n /\ n \in Nat /\ n >= 1
      /\ \A i \in 1 .. size : p[i] = B * p[i - 1]
  BY <1>2 DEF Powers, Positive
<1>4. Bound(size) = n \div 2 /\ k \in Int /\ -(n \div 2) <= k /\ k < n \div 2
  BY <1>3 DEF Bound
<1>5. /\ s \in [0 .. size -> Int] /\ s[0] = k
      /\ \A i \in 1 .. size : s[i] = s[i - 1] \div B
  BY <1>4, ShiftedIs
<1>6. bytes = [i \in 1 .. size |-> s[i - 1] % B]
  BY DEF Encode
<1> HIDE DEF bytes, B, n, s
<1>7. \A i \in 1 .. size : /\ bytes[i] \in 0 .. B - 1 /\ s[i] \in Int
                           /\ s[i - 1] = bytes[i] + B * s[i]
  <2> SUFFICES ASSUME NEW i \in 1 .. size
               PROVE  /\ bytes[i] \in 0 .. B - 1 /\ s[i] \in Int
                      /\ s[i - 1] = bytes[i] + B * s[i]
    OBVIOUS
  <2>1. s[i - 1] \in Int /\ s[i] = s[i - 1] \div B /\ bytes[i] = s[i - 1] % B
    BY <1>5, <1>6
  <2> QED BY <1>1, <2>1
<1>8. bytes \in [1 .. size -> Byte]
  BY <1>6, <1>7 DEF Byte, B
<1>9. PICK f \in [1 .. size + 1 -> Nat] :
         /\ f[size + 1] = 0 /\ Fold(bytes) = f[1] /\ Len(bytes) = size
         /\ \A i \in 1 .. size : f[i] = bytes[i] + B * f[i + 1]
  BY <1>8, FoldIs DEF B
<1>10. \A j \in 0 .. size : /\ f[size + 1 - j] \in 0 .. p[j] - 1
                            /\ s[size - j] = f[size + 1 - j] + p[j] * s[size]
  <2> DEFINE P == {j \in 0 .. size : /\ f[size + 1 - j] \in 0 .. p[j] - 1
                                     /\ s[size - j] = f[size + 1 - j] + p[j] * s[size]}
  <2>1. 0 \in P
    BY <1>3, <1>5, <1>9
  <2>2. ASSUME NEW j \in 0 .. size - 1, j \in P PROVE j + 1 \in P
    <3> DEFINE i == size - j
               x == f[i + 1]
               q == p[j]
               r == s[size]
               b == bytes[i]
    <3>1. /\ i \in 1 .. size /\ i + 1 = size + 1 - j /\ i = size + 1 - (j + 1)
          /\ i - 1 = size - (j + 1) /\ j + 1 \in 0 .. size /\ j + 1 \in 1 .. size
          /\ (j + 1) - 1 = j
      OBVIOUS
    <3>2. /\ x \in 0 .. q - 1 /\ s[i] = x + q * r /\ q \in Nat /\ r \in Int
          /\ b \in 0 .. B - 1
      BY <1>3, <1>5, <1>7, <2>2, <3>1 DEF Positive
    <3>3. f[i] = b + B * x /\ s[i - 1] = b + B * s[i] /\ p[j + 1] = B * q
      BY <1>3, <1>7, <1>9, <3>1
    <3> HIDE DEF x, q, r, b, i
    <3>4. b + B * (x + q * r) = (b + B * x) + (B * q) * r
      BY <1>1, <3>2
    <3>5. b + B * x \in 0 .. B * q - 1
      <4>1. B * x <= B * (q - 1) /\ B * (q - 1) = B * q - B
        BY <1>1, <3>2
      <4> QED BY <1>1, <3>2, <4>1
    <3>6. f[i] \in 0 .. p[j + 1] - 1 /\ s[i - 1] = f[i] + p[j + 1] * r
      BY <3>2, <3>3, <3>4, <3>5
    <3> QED BY <3>1, <3>6 DEF r
  <2>3. \A j \in 0 .. size : j \in P
    <3>1. Inductive(size, P)
      <4> HIDE DEF P
      <4> QED BY <2>1, <2>2 DEF Inductive
    <3> HIDE DEF P
    <3> QED BY <3>1, UpwardInduction
  <2> QED BY <2>3
<1> DEFINE F == Fold(bytes)
           r == s[size]
<1>11. F \in 0 .. n - 1 /\ r \in Int /\ k = F + n * r
  <2>1. size \in 0 .. size /\ size + 1 - size = 1 /\ size - size = 0
    OBVIOUS
  <2> QED BY <1>3, <1>5, <1>9, <1>10, <2>1
<1> HIDE DEF F, r
<1>12. n \in Nat /\ n >= 1 /\ -(n \div 2) <= k /\ k < n \div 2 /\ k \in Int
  BY <1>3, <1>4
<1>13. Decode(bytes) = IF 2 * F < n THEN F ELSE F - n
  BY <1>9 DEF Decode, F, n
<1>14. ASSUME r >= 1 PROVE FALSE
  <2>1. n * r >= n
    BY <1>11, <1>12, <1>14
  <2> QED BY <1>11, <1>12, <2>1
<1>15. ASSUME r <= -2 PROVE FALSE
  <2>1. n * (-r) >= 2 * n /\ n * (-r) = -(n * r)
    BY <1>11, <1>12, <1>15
  <2> QED BY <1>11, <1>12, <2>1
<1>16. ASSUME r = 0 PROVE Decode(bytes) = k
  <2>1. n * r = 0
    BY <1>12, <1>16
  <2> QED BY <1>11, <1>12, <1>13, <2>1
<1>17. ASSUME r = -1 PROVE Decode(bytes) = k
  <2>1. n * r = -n
    BY <1>12, <1>17
  <2> QED BY <1>11, <1>12, <1>13, <2>1
<1>18. Decode(bytes) = k
  BY <1>11, <1>14, <1>15, <1>16, <1>17
<1> QED BY <1>8, <1>18 DEF bytes

LEMMA SampleIs ==
    ASSUME NEW type \in TypeName, NEW v \in Sample(type)
    PROVE  /\ v.type = type /\ v = Value(type, v.data)
           /\ type = "bool" => v.data \in BOOLEAN
           /\ type = "int" => v.data \in -Bound(IntSize) .. Bound(IntSize) - 1
           /\ type = "real" => v.data \in -Bound(RealSize) .. Bound(RealSize) - 1
           /\ type = "string" => v.data \in Seq(Byte)
<1>1. PICK d \in CASE type = "bool"   -> BOOLEAN
                   [] type = "int"    -> Ints
                   [] type = "real"   -> Reals
                   [] type = "string" -> Strings : v = Value(type, d)
  BY DEF Sample
<1>2. v.type = type /\ v.data = d /\ v = Value(type, v.data)
  BY <1>1 DEF Value
<1>3. CASE type = "bool"
  BY <1>1, <1>2, <1>3
<1>4. CASE type = "int"
  <2>1. d \in Ints
    BY <1>1, <1>4
  <2> QED BY <1>2, <1>4, <2>1, SampleAssumption
<1>5. CASE type = "real"
  <2>1. d \in Reals
    BY <1>1, <1>5
  <2>2. PICK p : Powers(RealSize, p)
    BY PatternsAre, ValuesAssumption
  <2>3. Patterns(RealSize) \in Nat
    BY <2>2, ValuesAssumption DEF Powers, Positive
  <2>4. Bound(RealSize) \in Int /\ Printed >= 1 /\ Printed \in Int
    BY <2>3, ValuesAssumption DEF Bound
  <2>5. d \in -MaxReal .. MaxReal
    BY <2>1, SampleAssumption
  <2> QED BY <1>2, <1>5, <2>4, <2>5 DEF MaxReal
<1>6. CASE type = "string"
  <2>1. d \in Strings
    BY <1>1, <1>6
  <2> QED BY <1>2, <1>6, <2>1, SampleAssumption
<1> QED BY <1>2, <1>3, <1>4, <1>5, <1>6 DEF TypeName

LEMMA BytesAre ==
    ASSUME NEW type \in TypeName, NEW v \in Sample(type)
    PROVE  /\ ToBytes(v) \in Seq(Byte) /\ Len(ToBytes(v)) \in Nat
           /\ type = "bool" => /\ Len(ToBytes(v)) = 2
                               /\ ToBytes(v)[1] = IF v.data THEN 1 ELSE 0
           /\ type = "string" => ToBytes(v) = v.data
           /\ type \in {"int", "real"} =>
                 Len(ToBytes(v)) = SizeOf(type) /\ Decode(ToBytes(v)) = v.data
<1>1. 0 \in Byte /\ 1 \in Byte
  BY ValuesAssumption DEF Byte
<1>2. CASE type = "bool"
  <2> DEFINE b == IF v.data THEN 1 ELSE 0
  <2>1. ToBytes(v) = <<b, 0>> /\ v.type = "bool"
    BY <1>2, SampleIs DEF ToBytes
  <2>2. b \in Byte
    BY <1>1
  <2>3. <<b, 0>> \in Seq(Byte) /\ Len(<<b, 0>>) = 2 /\ <<b, 0>>[1] = b
    BY <1>1, <2>2
  <2> QED BY <1>2, <2>1, <2>3
<1>3. CASE type = "string"
  BY <1>3, SampleIs DEF ToBytes
<1>4. CASE type \in {"int", "real"}
  <2> DEFINE size == SizeOf(type)
  <2>1. ToBytes(v) = Encode(v.data, size)
    BY <1>4, SampleIs DEF ToBytes
  <2>2. size \in Nat /\ v.data \in -Bound(size) .. Bound(size) - 1
    BY <1>4, SampleIs, ValuesAssumption DEF SizeOf
  <2>3. ToBytes(v) \in [1 .. size -> Byte] /\ Decode(ToBytes(v)) = v.data
    BY <2>1, <2>2, CodeIs
  <2>4. ToBytes(v) \in Seq(Byte) /\ Len(ToBytes(v)) = size
    BY <2>2, <2>3
  <2> QED BY <1>4, <2>2, <2>3, <2>4
<1> QED BY <1>2, <1>3, <1>4 DEF TypeName

LEMMA StoredIs ==
    ASSUME NEW type \in TypeName, NEW v \in Sample(type), NEW slot \in Seq(Byte)
    PROVE  LET n == Len(ToBytes(v))
               size == Len(slot)
           IN  /\ Stored(v, slot) \in Seq(Byte) /\ Len(Stored(v, slot)) = size
               /\ Zeros(size) \in Seq(Byte) /\ Len(Zeros(size)) = size
               /\ n = size => Stored(v, slot) = ToBytes(v)
               /\ n > size => Stored(v, slot) = Zeros(size)
               /\ n < size => Stored(v, slot) = ToBytes(v) \o Zeros(size - n)
<1> DEFINE n == Len(ToBytes(v))
           size == Len(slot)
<1>1. ToBytes(v) \in Seq(Byte) /\ n \in Nat /\ size \in Nat
  BY BytesAre
<1>2. ASSUME NEW k \in Nat
      PROVE  Zeros(k) \in [1 .. k -> Byte] /\ Zeros(k) \in Seq(Byte) /\ Len(Zeros(k)) = k
  <2>1. 0 \in Byte
    BY ValuesAssumption DEF Byte
  <2> QED BY <2>1 DEF Zeros
<1>3. Emptied(slot) = Zeros(size) /\ (FitsIn(v, slot) <=> n <= size)
  BY DEF Emptied, FitsIn
<1> HIDE DEF n, size
<1>4. n <= size => SubSeq(Zeros(size), n + 1, size) = Zeros(size - n)
  <2> SUFFICES ASSUME n <= size PROVE SubSeq(Zeros(size), n + 1, size) = Zeros(size - n)
    OBVIOUS
  <2>1. SubSeq(Zeros(size), n + 1, size) =
           [i \in 1 .. (size - (n + 1)) + 1 |-> Zeros(size)[i + (n + 1) - 1]]
    BY <1>1, <1>2
  <2>2. (size - (n + 1)) + 1 = size - n
    BY <1>1
  <2>3. \A i \in 1 .. size - n : Zeros(size)[i + (n + 1) - 1] = 0
    BY <1>1 DEF Zeros
  <2> QED BY <2>1, <2>2, <2>3 DEF Zeros
<1>5. ASSUME n <= size PROVE Stored(v, slot) = ToBytes(v) \o Zeros(size - n)
  BY <1>3, <1>4, <1>5 DEF Stored, n, size
<1>6. ASSUME n <= size
      PROVE  Stored(v, slot) \in Seq(Byte) /\ Len(Stored(v, slot)) = size
  <2>1. size - n \in Nat
    BY <1>1, <1>6
  <2>2. Zeros(size - n) \in Seq(Byte) /\ Len(Zeros(size - n)) = size - n
    BY <1>2, <2>1
  <2>3. /\ ToBytes(v) \o Zeros(size - n) \in Seq(Byte)
        /\ Len(ToBytes(v) \o Zeros(size - n)) = n + (size - n)
    BY <1>1, <2>2, ConcatProperties DEF n
  <2>4. n + (size - n) = size
    BY <1>1
  <2>5. Stored(v, slot) = ToBytes(v) \o Zeros(size - n)
    BY <1>5, <1>6
  <2> QED BY <2>3, <2>4, <2>5
<1>7. ASSUME n = size PROVE Stored(v, slot) = ToBytes(v)
  <2>1. Zeros(size - n) = <<>>
    BY <1>1, <1>2, <1>7
  <2> QED BY <1>1, <1>5, <1>7, <2>1
<1>8. ASSUME n > size PROVE Stored(v, slot) = Zeros(size)
  BY <1>1, <1>3, <1>8 DEF Stored
<1>9. Stored(v, slot) \in Seq(Byte) /\ Len(Stored(v, slot)) = size
  <2>1. CASE n <= size
    BY <1>6, <2>1
  <2>2. CASE n > size
    BY <1>1, <1>2, <1>8, <2>2
  <2> QED BY <1>1, <2>1, <2>2
<1>10. Zeros(size) \in Seq(Byte) /\ Len(Zeros(size)) = size
  BY <1>1, <1>2
<1>11. n < size => n <= size
  BY <1>1
<1> QED BY <1>5, <1>7, <1>8, <1>9, <1>10, <1>11 DEF n, size

LEMMA TextsAre ==
    ASSUME NEW t \in Texts
    PROVE  /\ t \in [blank : BOOLEAN, number : BOOLEAN, point : BOOLEAN, rest : BOOLEAN,
                     num : Int]
           /\ t.point \/ t.num % One = 0
<1>1. t \in Spoken /\ (t.point \/ t.num % One = 0)
  BY DEF Texts
<1>2. CASE t \in [blank : BOOLEAN, number : {TRUE}, point : BOOLEAN, rest : BOOLEAN, num : Nums]
  BY <1>1, <1>2, SampleAssumption
<1>3. CASE t \in [blank : BOOLEAN, number : {FALSE}, point : {FALSE}, rest : BOOLEAN, num : {0}]
  <2>1. \A k \in {0} : k \in Int
    OBVIOUS
  <2>2. \A b \in {FALSE} : b \in BOOLEAN
    OBVIOUS
  <2> DEFINE Zero_ == {0}
             False_ == {FALSE}
  <2> HIDE DEF Zero_, False_
  <2>3. t \in [blank : BOOLEAN, number : BOOLEAN, point : BOOLEAN, rest : BOOLEAN, num : Int]
    BY <1>3, <2>1, <2>2 DEF Zero_, False_
  <2> QED BY <1>1, <2>3
<1> QED BY <1>1, <1>2, <1>3 DEF Spoken

LEMMA DefaultIs ==
    ASSUME NEW type \in TypeName
    PROVE  Default(type) \in [type : TypeName, data : Datum] /\ Default(type).type = type
BY DEF Default, Value, Datum, TypeName

LEMMA FromTextIs ==
    ASSUME NEW old \in [type : TypeName, data : Datum], NEW t \in Texts
    PROVE  /\ FromText(old, t).value \in [type : TypeName, data : Datum]
           /\ FromText(old, t).value.type = old.type
<1>1. CASE old.type = "string"
  BY <1>1 DEF FromText, Value, Datum
<1>2. CASE old.type # "string" /\ ~ Accepts(old.type, t)
  BY <1>2 DEF FromText
<1>3. CASE old.type # "string" /\ Accepts(old.type, t)
  <2> DEFINE d == CASE old.type = "bool" -> t.num = One
                    [] old.type = "int"  -> t.num \div One
                    [] old.type = "real" -> t.num
  <2>1. FromText(old, t).value = Value(old.type, d)
    BY <1>3 DEF FromText
  <2>2. old.type \in {"bool", "int", "real"}
    BY <1>3 DEF TypeName
  <2>3. d \in BOOLEAN \cup Int
    <3>1. t.num \in Int /\ t.num \div One \in Int
      BY TextsAre, ValuesAssumption
    <3>2. (t.num = One) \in BOOLEAN
      OBVIOUS
    <3> QED BY <2>2, <3>1, <3>2
  <2> HIDE DEF d
  <2> QED BY <2>1, <2>2, <2>3 DEF Value, Datum, TypeName
<1> QED BY <1>1, <1>2, <1>3

LEMMA Division ==
    ASSUME NEW M \in Nat, M > 0, NEW q \in Int, NEW m \in 0 .. M - 1
    PROVE  (M * q + m) \div M = q /\ (M * q + m) % M = m
<1> DEFINE a == M * q + m
           k == a \div M
           p == a % M
<1>1. a \in Int /\ k \in Int /\ p \in 0 .. M - 1 /\ a = M * k + p
  OBVIOUS
<1>2. M * q + m = M * k + p
  BY <1>1
<1> HIDE DEF k, p
<1>3. CASE q > k
  <2>1. M * (q - k) >= M
    BY <1>1, <1>3
  <2>2. M * (q - k) = M * q - M * k
    BY <1>1
  <2> QED BY <1>1, <1>2, <2>1, <2>2
<1>4. CASE q < k
  <2>1. M * (k - q) >= M
    BY <1>1, <1>4
  <2>2. M * (k - q) = M * k - M * q
    BY <1>1
  <2> QED BY <1>1, <1>2, <2>1, <2>2
<1>5. CASE q = k
  BY <1>1, <1>2, <1>5 DEF k, p
<1> QED BY <1>1, <1>3, <1>4, <1>5

----------------------------------------------------------------------------
LEMMA TypeInit == Init => TypeOK
<1> SUFFICES ASSUME Init PROVE TypeOK
  OBVIOUS
<1>1. CASE \E m \in [Name -> BOOLEAN] : input = [job |-> "condition", src |-> <<>>, m |-> m]
  BY <1>1 DEF TypeOK, ConditionInput
<1>2. CASE input = [job |-> "renaming", view |-> NewMap, out |-> {}]
  <2>1. NoData \in [{} -> Key]
    BY DEF NoData
  <2>2. NoData \in Renamings
    BY <2>1 DEF Renamings
  <2> QED BY <1>2, <2>2 DEF TypeOK, RenamingInput, NewMap
<1>3. CASE \E n \in {Command, BadCommand} :
              input = [job |-> "line", name |-> n, par |-> <<>>]
  BY <1>3 DEF TypeOK, LineInput
<1>4. CASE \E type \in TypeName, size \in PlaceSize :
              input = [job |-> "place", type |-> type, slot |-> Zeros(size),
                       written |-> <<>>]
  <2>1. PICK type \in TypeName, size \in PlaceSize :
              input = [job |-> "place", type |-> type, slot |-> Zeros(size), written |-> <<>>]
    BY <1>4
  <2>2. size \in Nat /\ 0 \in Byte
    BY SampleAssumption, ValuesAssumption DEF Byte
  <2>3. Zeros(size) \in Seq(Byte) /\ Len(Zeros(size)) = size
    BY <2>2 DEF Zeros
  <2> QED BY <2>1, <2>3 DEF TypeOK, PlaceInput
<1>5. CASE \E type \in TypeName :
              input = [job |-> "text", value |-> Default(type), accepted |-> <<>>]
  BY <1>5, DefaultIs DEF TypeOK, TextInput
<1>6. CASE \E p \in NamePart : input = [job |-> "name", name |-> <<p>>]
  BY <1>6, PartsAssumption DEF TypeOK, NameInput
<1>7. CASE \E w \in 0 .. Top : input = [job |-> "message", words |-> <<w>>]
  BY <1>7 DEF TypeOK, MessageInput
<1> QED BY <1>1, <1>2, <1>3, <1>4, <1>5, <1>6, <1>7 DEF Init

LEMMA TypeStep == TypeOK /\ [Next]_input => TypeOK'
<1> SUFFICES ASSUME TypeOK, [Next]_input PROVE TypeOK'
  OBVIOUS
<1>0. /\ input.job = "condition" => input \in ConditionInput
      /\ input.job = "renaming" => input \in RenamingInput
      /\ input.job = "line" => input \in LineInput
      /\ input.job = "name" => input \in NameInput
      /\ input.job = "message" => input \in MessageInput
      /\ input.job = "place" => input \in PlaceInput
      /\ input.job = "text" => input \in TextInput
  BY DEF TypeOK, ConditionInput, RenamingInput, LineInput, NameInput, MessageInput,
     PlaceInput, TextInput
<1>1. ASSUME NEW w \in Words, AddWord(w) PROVE TypeOK'
  <2>1. input \in ConditionInput
    BY <1>0, <1>1 DEF AddWord
  <2>2. Append(input.src, w) \in Seq(Words)
    BY <2>1 DEF ConditionInput
  <2> QED BY <1>1, <2>1, <2>2 DEF AddWord, ConditionInput, TypeOK
<1>2. ASSUME NEW existed \in Key, NEW remapped \in Key, AddRenaming(existed, remapped)
      PROVE  TypeOK'
  <2>1. input \in RenamingInput
    BY <1>0, <1>2 DEF AddRenaming
  <2>2. Emplaced(input.view.remap, remapped, existed) \in Renamings
    <3> DEFINE f == input.view.remap
    <3>1. PICK D \in SUBSET Key : f \in [D -> Key]
      BY <2>1 DEF RenamingInput, Renamings
    <3>2. D \cup {remapped} \in SUBSET Key
      OBVIOUS
    <3>3. Emplaced(f, remapped, existed) \in [D \cup {remapped} -> Key]
      <4> HIDE DEF f
      <4> QED BY <3>1 DEF Emplaced
    <3> QED BY <3>2, <3>3 DEF Renamings
  <2>3. input' = [input EXCEPT !.view =
                     [input.view EXCEPT !.remap = Emplaced(@, remapped, existed)]]
    BY <1>2 DEF AddRenaming, SetKeyRemap
  <2> QED BY <2>1, <2>2, <2>3 DEF RenamingInput, TypeOK
<1>3. ASSUME NEW k \in Key, AddResult(k) PROVE TypeOK'
  BY <1>0, <1>3 DEF AddResult, RenamingInput, TypeOK
<1>4. ASSUME NEW s \in Style, AddParameter(s) PROVE TypeOK'
  <2>1. input \in LineInput
    BY <1>0, <1>4 DEF AddParameter
  <2>2. [style |-> s, text |-> <<>>] \in [style : Style, text : Seq(Letter)]
    OBVIOUS
  <2>3. Append(input.par, [style |-> s, text |-> <<>>]) \in
           Seq([style : Style, text : Seq(Letter)])
    BY <2>1, <2>2 DEF LineInput
  <2> QED BY <1>4, <2>1, <2>3 DEF AddParameter, LineInput, TypeOK
<1>5. ASSUME NEW c \in Letter, AddChar(c) PROVE TypeOK'
  <2>1. input \in LineInput /\ input.par # <<>>
    BY <1>0, <1>5 DEF AddChar
  <2> DEFINE P == [style : Style, text : Seq(Letter)]
             l == Len(input.par)
             new == [input.par EXCEPT ![l].text = Append(@, c)]
  <2>2. input.par \in Seq(P) /\ l \in 1 .. Len(input.par)
    BY <2>1 DEF LineInput
  <2>3. input.par[l] \in P
    <3> HIDE DEF P
    <3> QED BY <2>2
  <2>4. [input.par[l] EXCEPT !.text = Append(@, c)] \in P
    <3> DEFINE p == input.par[l]
    <3>1. p.style \in Style /\ p.text \in Seq(Letter) /\ p = [style |-> p.style, text |-> p.text]
      BY <2>3
    <3>2. Append(p.text, c) \in Seq(Letter)
      BY <3>1
    <3> HIDE DEF p
    <3>3. [p EXCEPT !.text = Append(@, c)] \in P
      BY <3>1, <3>2
    <3> QED BY <3>3 DEF p
  <2>5. new \in Seq(P)
    <3> HIDE DEF P
    <3> QED BY <2>2, <2>4
  <2> HIDE DEF P
  <2> QED BY <1>5, <2>1, <2>5 DEF AddChar, LineInput, TypeOK, P
<1>6. ASSUME NEW type \in TypeName, NEW v \in Sample(type), Write(v) PROVE TypeOK'
  <2>1. input \in PlaceInput
    BY <1>0, <1>6 DEF Write
  <2>2. v \in [type : TypeName, data : Datum]
    BY SampleIs DEF Datum, Value, TypeName
  <2>3. Append(input.written, v) \in Seq([type : TypeName, data : Datum])
    BY <2>1, <2>2 DEF PlaceInput
  <2>4. Stored(v, input.slot) \in {slot \in Seq(Byte) : Len(slot) \in PlaceSize}
    BY <2>1, StoredIs DEF PlaceInput
  <2> QED BY <1>6, <2>1, <2>3, <2>4 DEF Write, PlaceInput, TypeOK
<1>7. ASSUME NEW t \in Texts, GiveText(t) PROVE TypeOK'
  <2>1. input \in TextInput
    BY <1>0, <1>7 DEF GiveText
  <2>2. FromText(input.value, t).value \in [type : TypeName, data : Datum]
    BY <2>1, FromTextIs DEF TextInput
  <2>3. \A ok \in BOOLEAN :
           (IF ok THEN Append(input.accepted, t) ELSE input.accepted) \in Seq(Texts)
    BY <2>1 DEF TextInput
  <2>4. FromText(input.value, t).ok \in BOOLEAN
    BY DEF FromText
  <2> QED BY <1>7, <2>1, <2>2, <2>3, <2>4 DEF GiveText, TextInput, TypeOK
<1>8. ASSUME NEW p \in NamePart, AddPart(p) PROVE TypeOK'
  <2>1. input \in NameInput
    BY <1>0, <1>8 DEF AddPart
  <2> DEFINE N == {name \in Seq(NamePart) : Len(name) \in 1 .. MaxParts}
  <2>2. Append(input.name, p) \in N
    BY <1>8, <2>1, PartsAssumption DEF NameInput, AddPart
  <2> HIDE DEF N
  <2> QED BY <1>8, <2>1, <2>2 DEF AddPart, NameInput, TypeOK, N
<1>9. ASSUME NEW w \in 0 .. Top, AddLoad(w) PROVE TypeOK'
  <2>1. input \in MessageInput
    BY <1>0, <1>9 DEF AddLoad
  <2>2. Append(input.words, w) \in Seq(0 .. Top) \ {<<>>}
    BY <2>1 DEF MessageInput
  <2> QED BY <1>9, <2>1, <2>2 DEF AddLoad, MessageInput, TypeOK
<1>10. CASE UNCHANGED input
  BY <1>10 DEF TypeOK, ConditionInput, RenamingInput, LineInput, NameInput, MessageInput,
     PlaceInput, TextInput
<1> QED BY <1>1, <1>2, <1>3, <1>4, <1>5, <1>6, <1>7, <1>8, <1>9, <1>10
        DEF Next, Words, Letter

THEOREM TypeCorrect == Spec => []TypeOK
<1> QED BY TypeInit, TypeStep, PTL DEF Spec

(* The solver gives what the condition means, whatever its length and the  *)
(* names of its variables.                                                 *)
THEOREM ConditionsAreUnderstood == Spec => []SolveIsMeaning
<1>1. TypeOK => SolveIsMeaning
  <2> SUFFICES ASSUME TypeOK, input.job = "condition" PROVE SolveIsMeaning
    BY DEF SolveIsMeaning
  <2> DEFINE src == input.src
             m == input.m
             n == Len(src)
             r == StackAfter(src, m)[n]
  <2>1. src \in Seq(Words) /\ m \in [Name -> BOOLEAN]
    BY DEF TypeOK, ConditionInput, RenamingInput, LineInput, NameInput, MessageInput,
           PlaceInput, TextInput
  <2>2. n \in Nat /\ n \in 0 .. n /\ (src # <<>> => n \in 1 .. n)
    BY <2>1
  <2>3. DOMAIN src = 1 .. n
    BY <2>1
  <2>4. Sound(src, m) <=> \A k \in 1 .. n : Good(src, m, k)
    BY <2>3 DEF Sound, Good
  <2>5. /\ r.ok <=> \A k \in 1 .. n : Good(src, m, k)
        /\ r.ok => Len(r.st) = Depth(src)[n]
    <3> HIDE DEF src, m
    <3> QED BY <2>1, <2>2, StackHeight
  <2>6. ASSUME Sound(src, m), src # <<>>
        PROVE  r.st[Len(r.st)] = Meaning(src, m)[n]
    <3>1. Kept(src, m, n)
      <4> HIDE DEF src, m
      <4> QED BY <2>1, <2>2, <2>4, <2>6, StackMeaning
    <3>2. r.st[Depth(src)[n]] = Meaning(src, m)[n]
      <4>1. \A k \in n + 1 .. n : Depth(src)[k] > Depth(src)[n]
        BY <2>2
      <4> HIDE DEF src, m, n
      <4> QED BY <2>2, <2>6, <3>1, <4>1 DEF Kept, r
    <3> QED BY <2>4, <2>5, <2>6, <3>2
  <2> HIDE DEF src, m, n, r
  <2>7. Solve(src, m) = IF src = <<>> THEN "on"
                        ELSE IF ~ Sound(src, m) THEN "error"
                        ELSE IF Meaning(src, m)[n] THEN "on" ELSE "off"
    <3>1. Solve(src, m) = IF src = <<>> THEN "on"
                          ELSE IF ~ r.ok THEN "error"
                          ELSE IF r.st[Len(r.st)] THEN "on" ELSE "off"
      BY DEF Solve, r, n
    <3> QED BY <2>4, <2>5, <2>6, <3>1
  <2> QED BY <2>7 DEF SolveIsMeaning, src, m, n
<1> QED BY <1>1, TypeCorrect, PTL
----------------------------------------------------------------------------
(* Messages.                                                               *)
Word16 == 0 .. Top

(* Words are added modulo Top, where no sum but the first can be zero.     *)
LEMMA AddedIs ==
    ASSUME NEW r \in Word16, NEW w \in Word16
    PROVE  Added(r, w) = IF r + w = 0 THEN 1
                         ELSE IF r + w <= Top THEN r + w ELSE r + w - Top
<1> DEFINE M == Top + 1
<1>1. M \in Nat /\ M > 0 /\ r \in Nat /\ w \in Nat
  BY TopAssumption DEF Word16
<1>2. (r + w) % M = IF r + w < M THEN r + w ELSE r + w - M
  <2>1. CASE r + w < M
    <3>1. (M * 0 + (r + w)) % M = r + w /\ M * 0 = 0
      BY <1>1, <2>1, Division
    <3> QED BY <1>1, <2>1, <3>1
  <2>2. CASE r + w >= M
    <3>1. r + w - M \in 0 .. M - 1
      BY <2>2, TopAssumption DEF Word16
    <3> HIDE DEF M
    <3>2. (M * 1 + (r + w - M)) % M = r + w - M /\ M * 1 = M
      BY <1>1, <3>1, Division
    <3>3. M * 1 + (r + w - M) = r + w
      BY <1>1, <3>2
    <3> QED BY <1>1, <2>2, <3>2, <3>3
  <2> QED BY <1>1, <2>1, <2>2
<1> QED BY <1>1, <1>2, TopAssumption DEF Added, Word16

LEMMA SumIs ==
    ASSUME NEW words \in Seq(Word16), NEW init \in Word16
    PROVE  \E f \in [0 .. Len(words) -> Word16] :
              /\ CalcControlSum(words, init) = f[Len(words)]
              /\ \A k \in 0 .. Len(words) :
                    f[k] = IF k = 0 THEN init ELSE Added(f[k - 1], words[k])
<1> DEFINE n == Len(words)
           step == [k \in 1 .. n |-> [r \in Word16 |-> Added(r, words[k])]]
           Solves(f) == f = [k \in 0 .. n |-> IF k = 0 THEN init ELSE Added(f[k - 1], words[k])]
           g == CHOOSE f : Solves(f)
<1>1. ASSUME NEW k \in 1 .. n, NEW r \in Word16 PROVE Added(r, words[k]) \in Word16
  <2>1. words[k] \in Word16
    OBVIOUS
  <2>2. Added(r, words[k]) = IF r + words[k] = 0 THEN 1
                             ELSE IF r + words[k] <= Top THEN r + words[k]
                             ELSE r + words[k] - Top
    BY <2>1, AddedIs
  <2> QED BY <2>1, <2>2, TopAssumption DEF Word16
<1>2. Rounds(n, Word16, init, step)
  BY <1>1 DEF Rounds
<1>3. \A k \in 1 .. n : \A r \in Word16 : step[k][r] = Added(r, words[k])
  OBVIOUS
<1> HIDE DEF step
<1>4. PICK f \in [0 .. n -> Word16] :
         \A k \in 0 .. n : f[k] = IF k = 0 THEN init ELSE Added(f[k - 1], words[k])
  <2>1. PICK f \in [0 .. n -> Word16] :
           \A k \in 0 .. n : f[k] = IF k = 0 THEN init ELSE step[k][f[k - 1]]
    <3> HIDE DEF n
    <3> QED BY <1>2, Iteration
  <2>2. \A k \in 1 .. n : f[k - 1] \in Word16
    OBVIOUS
  <2> QED BY <1>3, <2>1, <2>2
<1>5. Solves(g)
  <2>1. Solves(f)
    BY <1>4
  <2> HIDE DEF Solves
  <2> QED BY <2>1
<1>6. CalcControlSum(words, init) = g[n]
  BY DEF CalcControlSum
<1> HIDE DEF g
<1>7. \A k \in 0 .. n : g[k] = IF k = 0 THEN init ELSE Added(g[k - 1], words[k])
  BY <1>5
<1>8. g \in [0 .. n -> Word16]
  <2> DEFINE P == {k \in 0 .. n : g[k] \in Word16}
  <2>1. Inductive(n, P)
    BY <1>1, <1>7 DEF Inductive
  <2>2. \A k \in 0 .. n : k \in P
    <3> HIDE DEF P
    <3> QED BY <2>1, UpwardInduction
  <2> QED BY <1>5, <2>2
<1> QED BY <1>6, <1>7, <1>8

(* What one more word makes of two sums.                                   *)
Sum(a, b) == IF a + b = 0 THEN 1 ELSE IF a + b <= Top THEN a + b ELSE a + b - Top

LEMMA AddedToTells ==
    ASSUME NEW r \in Word16, NEW s \in Word16, NEW w \in Word16
    PROVE  /\ Added(r, w) \in 1 .. Top
           /\ r # 0 /\ s # 0 => (Added(r, w) = Added(s, w) <=> r = s)
           /\ Added(r, w) = Added(s, w) => r = s \/ {r, s} \in {{0, Top}, {0, 1}}
<1>1. Added(r, w) = Sum(r, w) /\ Added(s, w) = Sum(s, w)
  BY AddedIs DEF Sum
<1>2. Top \in Nat /\ Top >= 1 /\ r \in 0 .. Top /\ s \in 0 .. Top /\ w \in 0 .. Top
  BY TopAssumption DEF Word16
<1>3. Added(r, w) \in 1 .. Top
  BY <1>1, <1>2 DEF Sum
<1>4. r # 0 /\ s # 0 => (Sum(r, w) = Sum(s, w) <=> r = s)
  BY <1>2 DEF Sum
<1>5. Sum(r, w) = Sum(s, w) => \/ r = s
                               \/ r = 0 /\ s \in {1, Top}
                               \/ s = 0 /\ r \in {1, Top}
  BY <1>2 DEF Sum
<1> QED BY <1>1, <1>3, <1>4, <1>5

(* What two words make of one sum.                                         *)
LEMMA AddedTells ==
    ASSUME NEW r \in Word16, NEW w \in Word16, NEW x \in Word16
    PROVE  /\ r # 0 => (Added(r, w) = Added(r, x) <=> w = x \/ {x, w} = {0, Top})
           /\ Added(r, w) = Added(r, x) => w = x \/ {x, w} \in {{0, Top}, {0, 1}}
<1>1. Added(r, w) = Sum(r, w) /\ Added(r, x) = Sum(r, x)
  BY AddedIs DEF Sum
<1>2. Top \in Nat /\ Top >= 1 /\ r \in 0 .. Top /\ w \in 0 .. Top /\ x \in 0 .. Top
  BY TopAssumption DEF Word16
<1>3. r # 0 => (Sum(r, w) = Sum(r, x) <=> \/ w = x
                                          \/ x = 0 /\ w = Top
                                          \/ x = Top /\ w = 0)
  BY <1>2 DEF Sum
<1>4. Sum(r, w) = Sum(r, x) => \/ w = x
                               \/ w = 0 /\ x \in {1, Top}
                               \/ x = 0 /\ w \in {1, Top}
  BY <1>2 DEF Sum
<1>5. {x, w} = {0, Top} <=> (x = 0 /\ w = Top) \/ (x = Top /\ w = 0)
  <2>1. ASSUME {x, w} = {0, Top} PROVE (x = 0 /\ w = Top) \/ (x = Top /\ w = 0)
    <3>1. x \in {0, Top} /\ w \in {0, Top} /\ 0 \in {x, w} /\ Top \in {x, w}
      BY <2>1
    <3> QED BY <1>2, <3>1
  <2> QED BY <2>1
<1> QED BY <1>1, <1>3, <1>4, <1>5

(* Two sums over the same words are the same exactly when they began the   *)
(* same, and none but the word of the numbers is zero.                     *)
SameLoad(n, f, g, words, k) ==
    /\ n \in Nat /\ k \in 1 .. n
    /\ f \in [0 .. n -> Word16] /\ g \in [0 .. n -> Word16] /\ f[k] # 0 /\ g[k] # 0
    /\ \A j \in k + 1 .. n : /\ words[j] \in Word16
                             /\ f[j] = Added(f[j - 1], words[j])
                             /\ g[j] = Added(g[j - 1], words[j])

LEMMA SumsPart ==
    ASSUME NEW n, NEW f, NEW g, NEW words, NEW k, SameLoad(n, f, g, words, k)
    PROVE  f[n] = g[n] <=> f[k] = g[k]
<1> USE DEF SameLoad
<1> DEFINE P == {i \in 0 .. n - k : /\ f[k + i] # 0 /\ g[k + i] # 0
                                    /\ f[k + i] = g[k + i] <=> f[k] = g[k]}
<1>1. 0 \in P /\ n - k \in Nat
  OBVIOUS
<1>2. ASSUME NEW i \in 0 .. (n - k) - 1, i \in P PROVE i + 1 \in P
  <2> DEFINE j == k + i
  <2>1. j \in 0 .. n /\ j + 1 \in k + 1 .. n /\ (j + 1) - 1 = j
    OBVIOUS
  <2>2. /\ f[j + 1] = Added(f[j], words[j + 1]) /\ g[j + 1] = Added(g[j], words[j + 1])
        /\ words[j + 1] \in Word16 /\ f[j] \in Word16 /\ g[j] \in Word16
    <3> HIDE DEF j
    <3> QED BY <2>1
  <2>3. f[j] # 0 /\ g[j] # 0 /\ (f[j] = g[j] <=> f[k] = g[k])
    BY <1>2
  <2> HIDE DEF j
  <2>4. f[j + 1] \in 1 .. Top /\ g[j + 1] \in 1 .. Top /\ (f[j + 1] = g[j + 1] <=> f[j] = g[j])
    <3> DEFINE r == f[j]
               s == g[j]
               w == words[j + 1]
    <3>1. r \in Word16 /\ s \in Word16 /\ w \in Word16
      BY <2>2
    <3> HIDE DEF r, s, w
    <3>2. /\ Added(r, w) \in 1 .. Top /\ Added(s, w) \in 1 .. Top
          /\ r # 0 /\ s # 0 => (Added(r, w) = Added(s, w) <=> r = s)
      BY <3>1, AddedToTells
    <3> QED BY <2>2, <2>3, <3>2 DEF r, s, w
  <2>5. f[j + 1] # 0 /\ g[j + 1] # 0 /\ (f[j + 1] = g[j + 1] <=> f[k] = g[k])
    BY <2>3, <2>4
  <2>6. k + (i + 1) = j + 1
    BY DEF j
  <2> QED BY <2>5, <2>6
<1>3. \A i \in 0 .. n - k : i \in P
  <2>1. Inductive(n - k, P)
    <3> HIDE DEF P
    <3> QED BY <1>1, <1>2 DEF Inductive
  <2> HIDE DEF P
  <2> QED BY <2>1, UpwardInduction
<1>4. n - k \in P /\ k + (n - k) = n
  BY <1>1, <1>3
<1> QED BY <1>4

(* The sum tells every change of a word but the few it cannot, in messages *)
(* of every length and for words of every size.                            *)
THEOREM DamageIsTold == Spec => []DamageIsNoticed
<1>1. TypeOK => DamageIsNoticed
  <2> SUFFICES ASSUME TypeOK, input.job = "message", Len(input.words) > 1
               PROVE  DamageIsNoticed
    BY DEF DamageIsNoticed
  <2> DEFINE words == input.words
             n == Len(words) - 1
             Is(f, ws) == /\ f \in [0 .. n -> Word16] /\ SumOf(ws) = f[n] /\ f[0] = ws[1]
                          /\ \A k \in 1 .. n : f[k] = Added(f[k - 1], ws[k + 1])
  <2>1. words \in Seq(Word16) /\ Len(words) > 1
    BY DEF TypeOK, ConditionInput, RenamingInput, LineInput, NameInput, MessageInput,
           PlaceInput, TextInput, Word16
  <2> HIDE DEF words
  <2>2. n \in Nat /\ n >= 1 /\ Len(words) = n + 1
    BY <2>1
  <2>3. ASSUME NEW ws \in Seq(Word16), Len(ws) = n + 1 PROVE \E f : Is(f, ws)
    <3>1. Tail(ws) \in Seq(Word16) /\ Head(ws) \in Word16 /\ Head(ws) = ws[1]
          /\ Len(Tail(ws)) = n /\ \A k \in 1 .. n : Tail(ws)[k] = ws[k + 1]
      BY <2>2, <2>3
    <3>2. PICK f \in [0 .. Len(Tail(ws)) -> Word16] :
             /\ CalcControlSum(Tail(ws), Head(ws)) = f[Len(Tail(ws))]
             /\ \A k \in 0 .. Len(Tail(ws)) :
                   f[k] = IF k = 0 THEN Head(ws) ELSE Added(f[k - 1], Tail(ws)[k])
      BY <3>1, SumIs
    <3>3. SumOf(ws) = CalcControlSum(Tail(ws), Head(ws))
      BY DEF SumOf
    <3>4. Is(f, ws)
      <4> HIDE DEF n
      <4>1. /\ f \in [0 .. n -> Word16] /\ SumOf(ws) = f[n]
            /\ \A k \in 0 .. n : f[k] = IF k = 0 THEN ws[1] ELSE Added(f[k - 1], Tail(ws)[k])
        BY <3>1, <3>2, <3>3
      <4> QED BY <2>2, <3>1, <4>1
    <3> QED BY <3>4
  <2>4. PICK f : Is(f, words)
    BY <2>1, <2>2, <2>3
  <2> HIDE DEF n
  <2>5. \A k \in 1 .. n : f[k] # 0
    <3> SUFFICES ASSUME NEW k \in 1 .. n PROVE f[k] # 0
      OBVIOUS
    <3>1. f[k - 1] \in Word16 /\ words[k + 1] \in Word16
      BY <2>1, <2>2, <2>4
    <3>2. Added(f[k - 1], words[k + 1]) \in 1 .. Top
      BY <3>1, AddedToTells
    <3> QED BY <2>2, <2>4, <3>2
  <2>6. SumOf(words) # 0
    BY <2>2, <2>4, <2>5
  <2>7. ASSUME NEW k \in DOMAIN words, NEW x \in 0 .. Top
        PROVE  LET damaged == [words EXCEPT ![k] = x]
                   same    == SumOf(damaged) = SumOf(words)
               IN  /\ same => x = words[k] \/ {x, words[k]} \in {{0, Top}, {0, 1}}
                   /\ k > 1 /\ ~ Zero(words, k - 1) =>
                         (same <=> x = words[k] \/ {x, words[k]} = {0, Top})
    <3> DEFINE damaged == [words EXCEPT ![k] = x]
    <3> SUFFICES
          /\ SumOf(damaged) = SumOf(words) =>
                x = words[k] \/ {x, words[k]} \in {{0, Top}, {0, 1}}
          /\ k > 1 /\ ~ Zero(words, k - 1) =>
                (SumOf(damaged) = SumOf(words) <=> x = words[k] \/ {x, words[k]} = {0, Top})
      OBVIOUS
    <3>0. k \in 1 .. n + 1
      BY <2>1, <2>2
    <3>1. /\ damaged \in Seq(Word16) /\ Len(damaged) = n + 1 /\ damaged[k] = x
          /\ \A i \in 1 .. n + 1 : i # k => damaged[i] = words[i]
          /\ k \in 1 .. n + 1 /\ x \in Word16 /\ words[k] \in Word16
      <4>1. x \in Word16 /\ k \in 1 .. n + 1
        BY <2>1, <2>2 DEF Word16
      <4> QED BY <2>1, <2>2, <4>1
    <3> HIDE DEF damaged
    <3>2. PICK g : Is(g, damaged)
      BY <2>3, <3>1
    <3>3. ASSUME NEW i \in 1 .. n PROVE g[i] # 0
      <4>1. g[i - 1] \in Word16 /\ damaged[i + 1] \in Word16
        BY <2>2, <3>1, <3>2
      <4>2. Added(g[i - 1], damaged[i + 1]) \in 1 .. Top
        BY <4>1, AddedToTells
      <4> QED BY <2>2, <3>2, <4>2
    <3>4. ASSUME NEW l \in 1 .. n, k <= l + 1
          PROVE  SumOf(damaged) = SumOf(words) <=> f[l] = g[l]
      <4> DEFINE load == [j \in 1 .. n |-> words[j + 1]]
      <4>1. /\ \A j \in l + 1 .. n : load[j] \in Word16 /\ f[j] = Added(f[j - 1], load[j])
                                     /\ g[j] = Added(g[j - 1], load[j])
            /\ f[l] # 0 /\ g[l] # 0
        <5> SUFFICES ASSUME NEW j \in l + 1 .. n
                     PROVE  /\ load[j] \in Word16 /\ f[j] = Added(f[j - 1], load[j])
                            /\ g[j] = Added(g[j - 1], load[j])
          BY <2>5, <3>3
        <5>1. j \in 1 .. n /\ j + 1 \in 1 .. n + 1 /\ j + 1 # k
          BY <2>2, <3>1, <3>4
        <5>2. load[j] = words[j + 1] /\ load[j] = damaged[j + 1]
          BY <3>1, <5>1
        <5>3. load[j] \in Word16
          BY <2>1, <2>2, <5>1, <5>2
        <5>4. f[j] = Added(f[j - 1], words[j + 1])
          BY <2>4, <5>1
        <5>5. g[j] = Added(g[j - 1], damaged[j + 1])
          BY <3>2, <5>1
        <5> HIDE DEF load
        <5> QED BY <5>2, <5>3, <5>4, <5>5
      <4> HIDE DEF load
      <4>2. SameLoad(n, f, g, load, l)
        BY <2>2, <2>4, <3>2, <4>1 DEF SameLoad
      <4>3. f[n] = g[n] <=> f[l] = g[l]
        BY <4>2, SumsPart
      <4> QED BY <2>4, <3>2, <4>3
    <3>5. CASE k = 1
      <4>1. /\ f[1] = Added(words[1], words[2]) /\ g[1] = Added(x, words[2])
            /\ words[1] \in Word16 /\ words[2] \in Word16
        <5>1. 1 \in 1 .. n /\ 1 - 1 = 0 /\ 1 + 1 = 2 /\ 2 \in 1 .. n + 1 /\ 2 # k
          BY <2>2, <3>5
        <5> QED BY <2>1, <2>2, <2>4, <3>1, <3>2, <3>5, <5>1
      <4>2. SumOf(damaged) = SumOf(words) <=> f[1] = g[1]
        BY <2>2, <3>4, <3>5
      <4>3. f[1] = g[1] => x = words[1] \/ {x, words[1]} \in {{0, Top}, {0, 1}}
        <5>1. Added(x, words[2]) = Added(words[1], words[2]) =>
                 x = words[1] \/ {x, words[1]} \in {{0, Top}, {0, 1}}
          <6> DEFINE u == words[1]
                     v == words[2]
                     y == x
          <6>1. u \in Word16 /\ v \in Word16 /\ y \in Word16
            BY <3>1, <4>1
          <6> HIDE DEF u, v, y
          <6>2. Added(y, v) = Added(u, v) => y = u \/ {y, u} \in {{0, Top}, {0, 1}}
            BY <6>1, AddedToTells
          <6> QED BY <6>2 DEF u, v, y
        <5> QED BY <4>1, <5>1
      <4>4. words[k] = words[1] /\ ~ k > 1
        BY <3>5
      <4> HIDE DEF Is
      <4> QED BY <4>2, <4>3, <4>4
    <3>6. CASE k > 1
      <4> DEFINE l == k - 1
                 r == f[l - 1]
      <4>1. l \in 1 .. n /\ l + 1 = k /\ l - 1 \in 0 .. n
        BY <2>2, <3>0, <3>6
      <4> HIDE DEF l
      <4>2. \A i \in 0 .. l - 1 : g[i] = f[i]
        <5> DEFINE P == {i \in 0 .. l - 1 : g[i] = f[i]}
        <5>1. 0 \in P
          <6>1. damaged[1] = words[1]
            BY <2>2, <3>1, <3>6
          <6> QED BY <2>4, <3>2, <4>1, <6>1
        <5>2. ASSUME NEW i \in 0 .. (l - 1) - 1, i \in P PROVE i + 1 \in P
          <6>1. /\ i + 1 \in 1 .. n /\ (i + 1) - 1 = i /\ (i + 1) + 1 \in 1 .. n + 1
                /\ (i + 1) + 1 # k /\ i + 1 \in 0 .. l - 1
            BY <2>2, <4>1
          <6>2. damaged[(i + 1) + 1] = words[(i + 1) + 1]
            BY <3>1, <6>1
          <6> QED BY <2>4, <3>2, <5>2, <6>1, <6>2
        <5>3. Inductive(l - 1, P)
          <6> HIDE DEF P
          <6> QED BY <4>1, <5>1, <5>2 DEF Inductive
        <5>4. \A i \in 0 .. l - 1 : i \in P
          <6> HIDE DEF P
          <6> QED BY <5>3, UpwardInduction
        <5> QED BY <5>4
      <4>3. /\ f[l] = Added(r, words[k]) /\ g[l] = Added(r, x)
            /\ r \in Word16 /\ words[k] \in Word16
        <5>1. g[l - 1] = f[l - 1]
          BY <4>1, <4>2
        <5>2. f[l] = Added(f[l - 1], words[l + 1]) /\ g[l] = Added(g[l - 1], damaged[l + 1])
          BY <2>4, <3>2, <4>1
        <5> QED BY <2>4, <3>1, <4>1, <5>1, <5>2
      <4>4. SumOf(damaged) = SumOf(words) <=> f[l] = g[l]
        BY <3>4, <4>1
      <4>5. ~ Zero(words, k - 1) => r # 0
        <5>1. CASE l = 1
          BY <2>4, <4>1, <5>1 DEF Zero, r, l
        <5>2. CASE l # 1
          <6>1. l - 1 \in 1 .. n
            BY <4>1, <5>2
          <6> QED BY <2>5, <6>1
        <5> QED BY <5>1, <5>2
      <4> HIDE DEF r
      <4>6. /\ f[l] = g[l] => x = words[k] \/ {x, words[k]} \in {{0, Top}, {0, 1}}
            /\ r # 0 => (f[l] = g[l] <=> x = words[k] \/ {x, words[k]} = {0, Top})
        <5> DEFINE w == words[k]
        <5>1. w \in Word16 /\ x \in Word16
          BY <3>1
        <5> HIDE DEF w
        <5>2. /\ r # 0 => (Added(r, w) = Added(r, x) <=> w = x \/ {x, w} = {0, Top})
              /\ Added(r, w) = Added(r, x) => w = x \/ {x, w} \in {{0, Top}, {0, 1}}
          BY <4>3, <5>1, AddedTells
        <5> QED BY <4>3, <5>2 DEF w
      <4> QED BY <4>4, <4>5, <4>6
    <3>7. k = 1 \/ k > 1
      BY <2>2, <3>0
    <3> HIDE DEF Is
    <3> QED BY <3>5, <3>6, <3>7
  <2> QED BY <2>1, <2>6, <2>7 DEF DamageIsNoticed, words
<1> QED BY <1>1, TypeCorrect, PTL
----------------------------------------------------------------------------
(* Renamings.                                                              *)
LEMMA LeastIs ==
    ASSUME NEW S, S \subseteq Key, S # {}
    PROVE  /\ LeastOf(S) \in S /\ \A y \in S : LeastOf(S) <= y
           /\ \A x \in S : (\A y \in S : x <= y) => LeastOf(S) = x
<1>1. S \subseteq Nat
  BY MaxKeyAssumption DEF Key
<1>2. \E x \in S : \A y \in S : x <= y
  BY <1>1, LeastNumber
<1>3. LeastOf(S) \in S /\ \A y \in S : LeastOf(S) <= y
  BY <1>2 DEF LeastOf
<1>4. ASSUME NEW x \in S, \A y \in S : x <= y PROVE LeastOf(S) = x
  <2>1. x <= LeastOf(S) /\ LeastOf(S) <= x
    BY <1>3, <1>4
  <2>2. x \in Nat /\ LeastOf(S) \in Nat
    BY <1>1, <1>3
  <2> HIDE DEF LeastOf
  <2> QED BY <2>1, <2>2
<1> QED BY <1>3, <1>4

(* The result that has name n after the formals up to f have been renamed. *)
Sources(R, out, f, n) ==
    IF n \in out /\ (n \notin DOMAIN R \/ n > f) THEN {n}
    ELSE {g \in out \cap DOMAIN R : g <= f /\ R[g] = n}

Unchained(R, out) == \A f \in out \cap DOMAIN R : R[f] \in DOMAIN R => R[f] < f

After(R, out, res, f) ==
    [n \in {n \in Key : Sources(R, out, f, n) # {}} |-> res[LeastOf(Sources(R, out, f, n))]]

LEMMA SourcesAre ==
    ASSUME NEW R, NEW out, NEW f, NEW n, NEW g
    PROVE  g \in Sources(R, out, f, n) <=>
              \/ n \in out /\ (n \notin DOMAIN R \/ n > f) /\ g = n
              \/ /\ ~ (n \in out /\ (n \notin DOMAIN R \/ n > f))
                 /\ g \in out /\ g \in DOMAIN R /\ g <= f /\ R[g] = n
BY DEF Sources

LEMMA MoveBackIs ==
    ASSUME NEW v, v.remap \in Renamings, NEW X, NEW out \in SUBSET Key, NEW res \in [out -> X],
           Unchained(v.remap, out), NEW f \in 0 .. MaxKey - 1, f + 1 \in DOMAIN v.remap
    PROVE  MoveBack(v, After(v.remap, out, res, f), f + 1) = After(v.remap, out, res, f + 1)
<1> DEFINE R == v.remap
           h == f + 1
           S(n) == Sources(R, out, f, n)
           T(n) == Sources(R, out, h, n)
           old == After(R, out, res, f)
           new == After(R, out, res, h)
<1>0. /\ MaxKey \in Nat /\ h \in Key /\ f \in Nat /\ h \in Nat /\ Key \subseteq Nat
      /\ h \in DOMAIN R /\ \A g \in DOMAIN R : g \in Key /\ R[g] \in Key
      /\ \A g \in out : g \in DOMAIN R /\ R[g] \in DOMAIN R => R[g] < g
  <2>1. PICK D \in SUBSET Key : R \in [D -> Key]
    BY DEF Renamings
  <2>2. MaxKey \in Nat /\ h \in Key /\ f \in Nat /\ h \in Nat /\ Key \subseteq Nat
    BY MaxKeyAssumption DEF Key
  <2> QED BY <2>1, <2>2 DEF Unchained
<1>1. f < h /\ \A k \in Nat : k > f <=> (k > h \/ k = h)
  BY <1>0
<1>2. \A k \in Nat : k <= h <=> (k <= f \/ k = h)
  BY <1>0
<1>3. ASSUME NEW n, NEW g
      PROVE  /\ g \in S(n) <=>
                   \/ n \in out /\ (n \notin DOMAIN R \/ n > f) /\ g = n
                   \/ /\ ~ (n \in out /\ (n \notin DOMAIN R \/ n > f))
                      /\ g \in out /\ g \in DOMAIN R /\ g <= f /\ R[g] = n
             /\ g \in T(n) <=>
                   \/ n \in out /\ (n \notin DOMAIN R \/ n > h) /\ g = n
                   \/ /\ ~ (n \in out /\ (n \notin DOMAIN R \/ n > h))
                      /\ g \in out /\ g \in DOMAIN R /\ g <= h /\ R[g] = n
  BY SourcesAre
<1> HIDE DEF R, h, S, T
<1>4. \A g \in out : g \in Nat /\ g \in Key
  BY <1>0
<1>5. CASE h \notin out
  <2>1. ASSUME NEW n \in Key PROVE S(n) = T(n)
    <3>1. \A g : g \in S(n) <=> g \in T(n)
      BY <1>0, <1>1, <1>2, <1>3, <1>4, <1>5
    <3> QED BY <3>1 DEF S, T, Sources
  <2>2. h \notin DOMAIN old
    <3>1. ASSUME NEW g \in S(h) PROVE FALSE
      <4>1. g \in out /\ g \in DOMAIN R /\ g <= f /\ R[g] = h
        BY <1>3, <1>5, <3>1
      <4>2. h < g /\ g \in Nat
        BY <1>0, <1>4, <4>1
      <4> QED BY <1>0, <1>1, <4>1, <4>2
    <3>2. S(h) = {}
      BY <3>1
    <3> QED BY <3>2 DEF After, S
  <2>3. old = new
    BY <2>1 DEF After, S, T
  <2> QED BY <2>2, <2>3 DEF MoveBack, R, h
<1>6. CASE h \in out
  <2> DEFINE a == R[h]
  <2>1. a \in Key /\ a # h /\ (a \in DOMAIN R => a < h)
    BY <1>0, <1>6
  <2>2. S(h) = {h} /\ T(h) = {}
    <3>1. ASSUME NEW g \in T(h) PROVE FALSE
      <4>0. ~ (h \in out /\ (h \notin DOMAIN R \/ h > h))
        BY <1>0
      <4>1. g \in out /\ g \in DOMAIN R /\ g <= h /\ R[g] = h /\ g \in Nat
        BY <1>3, <1>4, <3>1, <4>0
      <4>2. h < g
        BY <1>0, <4>1
      <4> QED BY <1>0, <4>1, <4>2
    <3>2. \A g : g \in S(h) <=> g = h
      BY <1>0, <1>1, <1>3, <1>6
    <3> QED BY <3>1, <3>2
  <2>3. ASSUME NEW n \in Key, n # a, n # h PROVE S(n) = T(n)
    <3>1. \A g : g \in S(n) <=> g \in T(n)
      BY <1>0, <1>1, <1>2, <1>3, <1>4, <1>6, <2>3
    <3> QED BY <3>1 DEF S, T, Sources
  <2>4. S(a) = {} => T(a) = {h}
    <3> SUFFICES ASSUME \A g : g \notin S(a) PROVE \A g : g \in T(a) <=> g = h
      OBVIOUS
    <3>1. ~ (a \in out /\ (a \notin DOMAIN R \/ a > f))
      BY <1>3
    <3>2. ~ (a \in out /\ (a \notin DOMAIN R \/ a > h))
      BY <1>0, <1>1, <2>1, <3>1
    <3>3. \A g : g \in out /\ g \in DOMAIN R /\ R[g] = a => ~ g <= f
      BY <1>3, <3>1
    <3>4. ASSUME NEW g, g \in T(a) PROVE g = h
      <4>1. g \in out /\ g \in DOMAIN R /\ g <= h /\ R[g] = a /\ g \in Nat
        BY <1>3, <1>4, <3>2, <3>4
      <4> QED BY <1>2, <3>3, <4>1
    <3>5. h \in T(a)
      <4>1. h \in out /\ h \in DOMAIN R /\ h <= h /\ R[h] = a
        BY <1>0, <1>6
      <4> HIDE DEF a
      <4> QED BY <1>3, <3>2, <4>1
    <3> QED BY <3>4, <3>5
  <2>5. S(a) # {} => T(a) # {} /\ LeastOf(T(a)) = LeastOf(S(a))
    <3> SUFFICES ASSUME S(a) # {} PROVE T(a) # {} /\ LeastOf(T(a)) = LeastOf(S(a))
      OBVIOUS
    <3>1. S(a) \subseteq Key /\ T(a) \subseteq Key
      BY <1>0, <1>3, <2>1
    <3>2. \A g \in S(a) : g \in T(a)
      BY <1>0, <1>1, <1>2, <1>3, <1>4, <1>6, <2>1
    <3>3. \A g \in T(a) : g \in S(a) \/ (g = h /\ \A y \in S(a) : y <= h)
      BY <1>0, <1>1, <1>2, <1>3, <1>4, <1>6, <2>1
    <3>4. LeastOf(S(a)) \in S(a) /\ \A y \in S(a) : LeastOf(S(a)) <= y
      BY <3>1, LeastIs
    <3>5. LeastOf(S(a)) \in T(a) /\ \A y \in T(a) : LeastOf(S(a)) <= y
      BY <3>2, <3>3, <3>4
    <3> QED BY <3>1, <3>5, LeastIs
  <2>6. LeastOf({h}) = h
    BY <1>0, LeastIs
  <2> DEFINE both == Emplaced(old, a, old[h])
  <2>7. MoveBack(v, old, h) = [k \in DOMAIN both \ {h} |-> both[k]]
    <3>1. h \in DOMAIN old
      BY <1>0, <2>2 DEF After, S
    <3> QED BY <3>1 DEF MoveBack, R
  <2>8. \A n \in Key : /\ n \in DOMAIN old <=> S(n) # {}
                       /\ n \in DOMAIN new <=> T(n) # {}
                       /\ S(n) # {} => old[n] = res[LeastOf(S(n))]
                       /\ T(n) # {} => new[n] = res[LeastOf(T(n))]
    BY DEF After, S, T
  <2>9. DOMAIN old \subseteq Key /\ DOMAIN new \subseteq Key
    BY DEF After
  <2>10. /\ DOMAIN both = DOMAIN old \cup {a}
         /\ \A n \in DOMAIN both : both[n] = IF n \in DOMAIN old THEN old[n] ELSE old[h]
    BY DEF Emplaced
  <2>11. new = [n \in DOMAIN new |-> new[n]]
    BY DEF After
  <2> HIDE DEF both, old, new, a
  <2>12. DOMAIN both \ {h} = DOMAIN new
    BY <1>0, <2>1, <2>2, <2>3, <2>4, <2>5, <2>8, <2>9, <2>10
  <2>13. ASSUME NEW n \in DOMAIN new PROVE both[n] = new[n]
    <3>1. n \in Key /\ n # h
      BY <2>2, <2>8, <2>9, <2>12
    <3>2. CASE n # a
      BY <2>3, <2>8, <2>9, <2>10, <2>12, <3>1, <3>2
    <3>3. CASE n = a /\ S(a) # {}
      BY <2>5, <2>8, <2>10, <2>12, <3>1, <3>3
    <3>4. CASE n = a /\ S(a) = {}
      BY <1>0, <2>2, <2>4, <2>6, <2>8, <2>10, <2>12, <3>1, <3>4
    <3> QED BY <3>2, <3>3, <3>4
  <2>14. MoveBack(v, old, h) = new
    BY <2>7, <2>11, <2>12, <2>13
  <2> QED BY <2>14 DEF old, new, R, h
<1> QED BY <1>5, <1>6

LEMMA RenamedIs ==
    ASSUME NEW v, v.remap \in Renamings, NEW X, NEW out \in SUBSET Key, NEW res \in [out -> X],
           Unchained(v.remap, out)
    PROVE  Renamed(v, res) = After(v.remap, out, res, MaxKey)
<1> DEFINE R == v.remap
           A(f) == After(R, out, res, f)
           Solves(g) == g = [f \in 0 .. MaxKey |->
                                IF f = 0 THEN res
                                ELSE IF f \in DOMAIN v.remap THEN MoveBack(v, g[f - 1], f)
                                ELSE g[f - 1]]
           a == [f \in 0 .. MaxKey |-> A(f)]
           g == CHOOSE h : Solves(h)
<1>0. MaxKey \in Nat /\ Key \subseteq Nat /\ \A n \in Key : n > 0
  BY MaxKeyAssumption DEF Key
<1>1. A(0) = res
  <2>1. ASSUME NEW n \in Key
        PROVE  Sources(R, out, 0, n) = IF n \in out THEN {n} ELSE {}
    <3>1. \A k : k \in Sources(R, out, 0, n) <=> n \in out /\ k = n
      <4>1. n > 0 /\ \A k \in out : ~ k <= 0
        BY <1>0
      <4> HIDE DEF R
      <4> QED BY <4>1, SourcesAre
    <3> QED BY <3>1
  <2>2. \A n \in Key : LeastOf({n}) = n
    BY <1>0, LeastIs
  <2>3. {n \in Key : Sources(R, out, 0, n) # {}} = out
    BY <2>1
  <2>4. \A n \in out : res[LeastOf(Sources(R, out, 0, n))] = res[n]
    BY <2>1, <2>2
  <2>5. A(0) = [n \in out |-> res[n]]
    BY <2>3, <2>4 DEF After
  <2> HIDE DEF A
  <2> QED BY <2>5
<1>2. ASSUME NEW f \in 0 .. MaxKey - 1
      PROVE  A(f + 1) = IF f + 1 \in DOMAIN v.remap THEN MoveBack(v, A(f), f + 1) ELSE A(f)
  <2>1. CASE f + 1 \in DOMAIN v.remap
    BY <2>1, MoveBackIs
  <2>2. CASE f + 1 \notin DOMAIN v.remap
    <3> DEFINE h == f + 1
    <3>1. h \in Nat /\ f \in Nat /\ h \notin DOMAIN R
      BY <1>0, <2>2
    <3>2. \A k \in Nat : /\ k > f <=> (k > h \/ k = h)
                         /\ k <= h <=> (k <= f \/ k = h)
      BY <3>1
    <3> HIDE DEF R, h
    <3>3. ASSUME NEW n \in Key PROVE Sources(R, out, f, n) = Sources(R, out, h, n)
      <4>1. ASSUME NEW k PROVE k \in Sources(R, out, f, n) <=> k \in Sources(R, out, h, n)
        <5>1. n \in Nat /\ (k \in out => k \in Nat)
          BY <1>0
        <5>2. n \notin DOMAIN R \/ (n > f <=> n > h)
          BY <3>1, <3>2, <5>1
        <5>3. k \in out /\ k \in DOMAIN R => (k <= h <=> k <= f)
          BY <3>1, <3>2, <5>1
        <5> QED BY <5>2, <5>3, SourcesAre
      <4> QED BY <4>1 DEF Sources
    <3>4. A(f) = A(h)
      BY <3>3 DEF After
    <3> QED BY <2>2, <3>4 DEF h, R
  <2> QED BY <2>1, <2>2
<1> HIDE DEF A, R
<1>3. Solves(a)
  <2>1. ASSUME NEW f \in 1 .. MaxKey
        PROVE  a[f] = IF f \in DOMAIN v.remap THEN MoveBack(v, a[f - 1], f) ELSE a[f - 1]
    <3> DEFINE i == f - 1
    <3>1. i \in 0 .. MaxKey - 1 /\ i + 1 = f /\ i \in 0 .. MaxKey
      BY <1>0
    <3> HIDE DEF i
    <3>2. A(i + 1) = IF i + 1 \in DOMAIN v.remap THEN MoveBack(v, A(i), i + 1) ELSE A(i)
      BY <1>2, <3>1
    <3>3. a[f] = A(f) /\ a[i] = A(i)
      BY <3>1
    <3> QED BY <3>1, <3>2, <3>3 DEF i
  <2>2. 0 \in 0 .. MaxKey /\ a[0] = res
    BY <1>0, <1>1
  <2>3. \A f \in 0 .. MaxKey : f = 0 \/ f \in 1 .. MaxKey
    BY <1>0
  <2>4. a = [f \in 0 .. MaxKey |-> a[f]]
    OBVIOUS
  <2> HIDE DEF a
  <2>5. \A f \in 0 .. MaxKey :
           a[f] = IF f = 0 THEN res
                  ELSE IF f \in DOMAIN v.remap THEN MoveBack(v, a[f - 1], f) ELSE a[f - 1]
    BY <2>1, <2>2, <2>3
  <2> QED BY <2>4, <2>5
<1>4. Solves(g)
  <2> HIDE DEF Solves, a
  <2> QED BY <1>3
<1>5. Renamed(v, res) = g[MaxKey]
  BY DEF Renamed
<1> HIDE DEF g, a
<1>6. \A f \in 0 .. MaxKey : g[f] = A(f)
  <2> DEFINE P == {f \in 0 .. MaxKey : g[f] = A(f)}
  <2>1. 0 \in P
    BY <1>0, <1>1, <1>4
  <2>2. ASSUME NEW f \in 0 .. MaxKey - 1, f \in P PROVE f + 1 \in P
    <3>1. f + 1 \in 0 .. MaxKey /\ f + 1 # 0 /\ (f + 1) - 1 = f
      BY <1>0
    <3>2. g[f + 1] = IF f + 1 \in DOMAIN v.remap THEN MoveBack(v, g[f], f + 1) ELSE g[f]
      BY <1>4, <3>1
    <3>3. g[f] = A(f)
      BY <2>2
    <3>4. g[f + 1] = A(f + 1)
      BY <1>2, <3>2, <3>3
    <3> QED BY <3>1, <3>4
  <2>3. Inductive(MaxKey, P)
    <3> HIDE DEF P
    <3> QED BY <1>0, <2>1, <2>2 DEF Inductive
  <2>4. \A f \in 0 .. MaxKey : f \in P
    <3> HIDE DEF P
    <3> QED BY <2>3, UpwardInduction
  <2> QED BY <2>4
<1> QED BY <1>0, <1>5, <1>6 DEF A, R

(* The loop over the renamed formals renames all results at once, for any  *)
(* number of names.                                                        *)
THEOREM ResultsAreRenamed == Spec => []RenamedAtOnce
<1>1. TypeOK => RenamedAtOnce
  <2> SUFFICES ASSUME TypeOK, input.job = "renaming", NoChain PROVE RenamedAtOnce
    BY DEF RenamedAtOnce
  <2> DEFINE view == input.view
             R == view.remap
             out == input.out
             To(n) == {f \in out : IF f \in DOMAIN R THEN R[f] = n ELSE f = n}
             Own(n) == To(n) \ DOMAIN R
  <2>1. /\ view \in [map : {NoData}, remap : Renamings] /\ R \in Renamings
        /\ out \in SUBSET Key
    BY DEF TypeOK, ConditionInput, RenamingInput, LineInput, NameInput, MessageInput,
           PlaceInput, TextInput
  <2>2. PICK D \in SUBSET Key : R \in [D -> Key]
    BY <2>1 DEF Renamings
  <2>3. \A f \in out \cap DOMAIN R : R[f] \in DOMAIN R => R[f] < f
    BY DEF NoChain
  <2>4. MaxKey \in Nat /\ \A n \in Key : n \in 1 .. MaxKey
    BY MaxKeyAssumption DEF Key
  <2> HIDE DEF view, R, out
  <2>5. ASSUME NEW ks \in SUBSET Key, NEW n
        PROVE  Sources(R, ks, MaxKey, n) =
                  IF n \in ks \ DOMAIN R THEN {n} ELSE {g \in ks \cap DOMAIN R : R[g] = n}
    <3>1. ~ n \in Key \/ ~ n > MaxKey
      BY <2>4
    <3>2. \A g \in ks : g <= MaxKey
      BY <2>4
    <3> QED BY <3>1, <3>2 DEF Sources
  <2>6. Call(view, TRUE, Fresh) =
           [n \in {n \in Key : To(n) # {}} |->
               <<"new", LeastOf(IF Own(n) # {} THEN Own(n) ELSE To(n))>>]
    <3> DEFINE X == {<<"new", k>> : k \in Key}
               S(n) == Sources(R, out, MaxKey, n)
    <3>1. Fresh \in [out -> X] /\ \A k \in out : Fresh[k] = <<"new", k>>
      BY <2>1 DEF Fresh, out
    <3>2. Call(view, TRUE, Fresh) = After(R, out, Fresh, MaxKey)
      <4>1. Unchained(R, out)
        BY <2>3 DEF Unchained
      <4> HIDE DEF X
      <4>2. Renamed(view, Fresh) = After(view.remap, out, Fresh, MaxKey)
        BY <2>1, <3>1, <4>1, RenamedIs DEF R
      <4> QED BY <4>2 DEF Call, R
    <3>3. ASSUME NEW n \in Key
          PROVE  S(n) = IF Own(n) # {} THEN Own(n) ELSE To(n)
      <4>1. CASE n \in out \ DOMAIN R
        <5>1. Own(n) = {n}
          BY <4>1
        <5> QED BY <2>1, <2>5, <4>1, <5>1
      <4>2. CASE n \notin out \ DOMAIN R
        <5>1. Own(n) = {} /\ To(n) = {g \in out \cap DOMAIN R : R[g] = n}
          BY <4>2
        <5> QED BY <2>1, <2>5, <4>2, <5>1
      <4> QED BY <4>1, <4>2
    <3> HIDE DEF S
    <3>4. \A n \in Key : S(n) # {} <=> To(n) # {}
      BY <3>3
    <3>5. ASSUME NEW n \in Key, S(n) # {} PROVE LeastOf(S(n)) \in out
      <4>1. S(n) \subseteq out
        BY <3>3
      <4>2. S(n) \subseteq Key
        BY <2>1, <4>1
      <4> QED BY <3>5, <4>1, <4>2, LeastIs
    <3>6. After(R, out, Fresh, MaxKey) =
             [n \in {n \in Key : S(n) # {}} |-> Fresh[LeastOf(S(n))]]
      BY DEF After, S
    <3> HIDE DEF To, Own
    <3> QED BY <3>1, <3>2, <3>3, <3>4, <3>5, <3>6
  <2>7. ASSUME NEW n \in DOMAIN Call(view, TRUE, Echo)
        PROVE  n \in DOMAIN Vars /\ Call(view, TRUE, Echo)[n] = Vars[n]
    <3> DEFINE v == Argument(view, Vars)
               ks == DOMAIN Echo
               S == Sources(R, ks, MaxKey, n)
               V == Key \ {MaxKey}
    <3>1. v.remap = R /\ v.map = Vars /\ DOMAIN Vars = V /\ \A k \in V : Vars[k] = k
      BY <2>1 DEF Argument, UseData, Vars, R
    <3>2. /\ ks \in SUBSET out
          /\ \A k \in ks : Echo[k] = MapKey(v, k) /\ MapKey(v, k) \in V
          /\ Echo = [k \in ks |-> Echo[k]]
      <4>1. Echo = [k \in {k \in out : Has(v, k)} |-> At(v, k)]
        BY DEF Echo, view, out
      <4>2. \A k : Has(v, k) => At(v, k) = MapKey(v, k) /\ MapKey(v, k) \in V
        <5> HIDE DEF v, V
        <5> QED BY <3>1 DEF Has, At
      <4> HIDE DEF v, V
      <4> QED BY <4>1, <4>2
    <3> HIDE DEF v, ks, V
    <3>3. Echo \in [ks -> V] /\ ks \in SUBSET Key
      BY <2>1, <3>2
    <3>4. Call(view, TRUE, Echo) = After(R, ks, Echo, MaxKey)
      <4>1. Unchained(R, ks)
        BY <2>3, <3>2 DEF Unchained
      <4>2. Renamed(view, Echo) = After(view.remap, ks, Echo, MaxKey)
        BY <2>1, <3>3, <4>1, RenamedIs DEF R
      <4> QED BY <4>2 DEF Call, R
    <3>5. n \in Key /\ S # {} /\ Call(view, TRUE, Echo)[n] = Echo[LeastOf(S)]
      BY <2>7, <3>4 DEF After
    <3>6. S = IF n \in ks \ DOMAIN R THEN {n} ELSE {g \in ks \cap DOMAIN R : R[g] = n}
      BY <2>5, <3>3
    <3> HIDE DEF S
    <3>7. LeastOf(S) \in S
      <4>1. S \subseteq Key
        BY <3>3, <3>6
      <4> QED BY <3>5, <4>1, LeastIs
    <3>8. \A g \in S : g \in ks /\ MapKey(v, g) = n
      BY <3>1, <3>6 DEF MapKey
    <3> QED BY <3>1, <3>2, <3>5, <3>7, <3>8 DEF V
  <2> QED BY <2>6, <2>7 DEF RenamedAtOnce, view, R, out
<1> QED BY <1>1, TypeCorrect, PTL
----------------------------------------------------------------------------
(* Names.                                                                  *)

(* A lookup that goes down from place to place until it ends: what it      *)
(* finds from each place on is given by an equation.                       *)
Descends(n, C, X, ends, here, child) ==
    /\ n \in Nat /\ X # {} /\ ends \subseteq (1 .. n) \X C /\ \A c \in C : <<n, c>> \in ends
    /\ here \in [1 .. n -> [C -> X]] /\ child \in [1 .. n -> [C -> C]]

LEMMA Descent ==
    ASSUME NEW n, NEW C, NEW X, NEW ends, NEW here, NEW child,
           Descends(n, C, X, ends, here, child)
    PROVE  \E f \in [1 .. n -> [C -> X]] : \A i \in 1 .. n :
              f[i] = [c \in C |-> IF <<i, c>> \in ends THEN here[i][c]
                                  ELSE f[i + 1][child[i][c]]]
<1> USE DEF Descends
<1> DEFINE D == 1 .. n
           S == [C -> X]
           V(f, i) == [c \in C |-> IF <<i, c>> \in ends THEN here[i][c]
                                   ELSE f[i + 1][child[i][c]]]
           rank == [i \in D |-> n - i]
           next == [i \in D |-> [f \in [D -> S] |-> V(f, i)]]
<1>1. ASSUME NEW i \in D, NEW c \in C, <<i, c>> \notin ends
      PROVE  i + 1 \in D /\ child[i][c] \in C
  <2>1. i # n
    BY <1>1
  <2> QED BY <2>1
<1>2. ASSUME NEW i \in D, NEW f \in [D -> S] PROVE V(f, i) \in S
  <2>1. ASSUME NEW c \in C
        PROVE  (IF <<i, c>> \in ends THEN here[i][c] ELSE f[i + 1][child[i][c]]) \in X
    <3>1. CASE <<i, c>> \in ends
      BY <3>1
    <3>2. CASE <<i, c>> \notin ends
      <4>1. i + 1 \in D /\ child[i][c] \in C
        BY <1>1, <3>2
      <4>2. f[i + 1] \in [C -> X]
        BY <4>1
      <4> QED BY <3>2, <4>1, <4>2
    <3> QED BY <3>1, <3>2
  <2> QED BY <2>1
<1>3. ASSUME NEW i \in D, NEW f \in [D -> S], NEW g \in [D -> S],
             \A j \in D : rank[j] < rank[i] => f[j] = g[j]
      PROVE  V(f, i) = V(g, i)
  <2>1. i + 1 \in D => f[i + 1] = g[i + 1]
    BY <1>3
  <2> QED BY <1>1, <2>1
<1> HIDE DEF V
<1>4. Ranked(D, S, n, rank, next)
  <2>1. n \in Nat /\ rank \in [D -> 0 .. n]
    OBVIOUS
  <2>2. S # {}
    <3>1. PICK x \in X : TRUE
      OBVIOUS
    <3>2. [c \in C |-> x] \in S
      OBVIOUS
    <3> QED BY <3>2
  <2>3. next \in [D -> [[D -> S] -> S]]
    <3> HIDE DEF S
    <3> QED BY <1>2
  <2>4. \A i \in D : \A f, g \in [D -> S] :
           (\A j \in D : rank[j] < rank[i] => f[j] = g[j]) => next[i][f] = next[i][g]
    <3> HIDE DEF S, rank
    <3> QED BY <1>3
  <2> HIDE DEF rank, next, D, S
  <2> QED BY <2>1, <2>2, <2>3, <2>4 DEF Ranked
<1>5. \E f \in [D -> S] : \A i \in D : f[i] = next[i][f]
  <2> HIDE DEF rank, next, D, S
  <2> QED BY <1>4, Recursion
<1>6. \A i \in D : \A f \in [D -> S] : next[i][f] = V(f, i)
  <2> HIDE DEF S
  <2> QED OBVIOUS
<1> HIDE DEF next, S
<1>7. PICK f \in [D -> S] : \A i \in D : f[i] = V(f, i)
  BY <1>5, <1>6
<1>8. \A i \in 1 .. n : f[i] = [c \in C |-> IF <<i, c>> \in ends THEN here[i][c]
                                            ELSE f[i + 1][child[i][c]]]
  BY <1>7 DEF V
<1>9. f \in [1 .. n -> [C -> X]]
  BY <1>7 DEF S
<1> QED BY <1>8, <1>9

(* The blocks, none or one, that the parts of a name lead to from block b. *)
AnyPart == STRING \cup NamePart
Names == Seq(AnyPart)
Below(c, p) == IF <<p>> \in DOMAIN Unit[c] THEN {Unit[c][<<p>>]} ELSE {}
Only(b) == {b}
AllBelow(A, p) == UNION {Below(c, p) : c \in A}
Reached(b, name) ==
    LET at[k \in 0 .. Len(name)] ==
            IF k = 0 THEN Only(b) ELSE AllBelow(at[k - 1], name[k])
    IN  at

LEMMA BelowIs ==
    ASSUME NEW A \in SUBSET DOMAIN Unit, NEW p
    PROVE  AllBelow(A, p) \in SUBSET DOMAIN Unit
BY TreeAssumption DEF AllBelow, Below

LEMMA ReachedIs ==
    ASSUME NEW b \in DOMAIN Unit, NEW W, NEW name \in Seq(W)
    PROVE  /\ Reached(b, name) \in [0 .. Len(name) -> SUBSET DOMAIN Unit]
           /\ \A k \in 0 .. Len(name) :
                 Reached(b, name)[k] =
                    IF k = 0 THEN Only(b)
                    ELSE AllBelow(Reached(b, name)[k - 1], name[k])
<1> DEFINE n == Len(name)
           B == SUBSET DOMAIN Unit
           none == Only(b)
           Round(k, A) == AllBelow(A, name[k])
           step == [k \in 1 .. n |-> [A \in B |-> Round(k, A)]]
           Solves(f) == f = [k \in 0 .. n |-> IF k = 0 THEN none ELSE Round(k, f[k - 1])]
           g == Reached(b, name)
<1>1. ASSUME NEW k, NEW A \in B PROVE Round(k, A) \in B
  BY BelowIs
<1>2. none \in B /\ n \in Nat
  BY DEF Only
<1> HIDE DEF Round, B, none
<1>3. Rounds(n, B, none, step)
  BY <1>1, <1>2 DEF Rounds
<1>4. \A k \in 1 .. n : \A A \in B : step[k][A] = Round(k, A)
  OBVIOUS
<1> HIDE DEF step
<1>5. PICK f \in [0 .. n -> B] :
         \A k \in 0 .. n : f[k] = IF k = 0 THEN none ELSE Round(k, f[k - 1])
  <2>1. PICK f \in [0 .. n -> B] :
           \A k \in 0 .. n : f[k] = IF k = 0 THEN none ELSE step[k][f[k - 1]]
    <3> HIDE DEF n
    <3> QED BY <1>3, Iteration
  <2>2. \A k \in 1 .. n : f[k - 1] \in B
    OBVIOUS
  <2> QED BY <1>4, <2>1, <2>2
<1>6. Solves(g)
  <2>1. Solves(f)
    BY <1>5
  <2> HIDE DEF Solves
  <2>2. g = CHOOSE h : Solves(h)
    BY DEF Reached, Solves, Round, none
  <2> QED BY <2>1, <2>2
<1> HIDE DEF g
<1>7. \A k \in 0 .. n : g[k] = IF k = 0 THEN none ELSE Round(k, g[k - 1])
  BY <1>6
<1>8. g \in [0 .. n -> B]
  <2> DEFINE P == {k \in 0 .. n : g[k] \in B}
  <2>1. Inductive(n, P)
    BY <1>1, <1>2, <1>7 DEF Inductive
  <2>2. \A k \in 0 .. n : k \in P
    <3> HIDE DEF P
    <3> QED BY <2>1, UpwardInduction
  <2> QED BY <1>6, <2>2
<1> QED BY <1>7, <1>8 DEF g, Round, B, none

(* At most one block, and the same for names that begin the same.          *)
LEMMA ReachedOne ==
    ASSUME NEW b \in DOMAIN Unit, NEW W, NEW name \in Seq(W), NEW other \in Seq(W),
           NEW n \in Nat, n <= Len(name), n <= Len(other), \A k \in 1 .. n : name[k] = other[k]
    PROVE  \A k \in 0 .. n : /\ Reached(b, name)[k] = Reached(b, other)[k]
                             /\ \A c, d \in Reached(b, name)[k] : c = d
<1> DEFINE f == Reached(b, name)
           g == Reached(b, other)
           P == {k \in 0 .. n : f[k] = g[k] /\ \A c, d \in f[k] : c = d}
<1>0. /\ \A k \in 0 .. Len(name) : f[k] = IF k = 0 THEN Only(b) ELSE AllBelow(f[k - 1], name[k])
      /\ \A k \in 0 .. Len(other) : g[k] = IF k = 0 THEN Only(b) ELSE AllBelow(g[k - 1], other[k])
  BY ReachedIs
<1>1. 0 \in P
  <2>1. f[0] = Only(b) /\ g[0] = Only(b)
    <3> HIDE DEF f, g
    <3> QED BY <1>0
  <2>2. 0 \in 0 .. n
    OBVIOUS
  <2> HIDE DEF f, g
  <2> QED BY <2>1, <2>2 DEF Only
<1>2. ASSUME NEW k \in 0 .. n - 1, k \in P PROVE k + 1 \in P
  <2>1. /\ k + 1 \in 0 .. Len(name) /\ k + 1 \in 0 .. Len(other) /\ k + 1 # 0
        /\ (k + 1) - 1 = k /\ k + 1 \in 1 .. n /\ k + 1 \in 0 .. n
    OBVIOUS
  <2>2. /\ f[k + 1] = AllBelow(f[k], name[k + 1])
        /\ g[k + 1] = AllBelow(g[k], other[k + 1])
    <3> HIDE DEF f, g
    <3> QED BY <1>0, <2>1
  <2>3. f[k] = g[k] /\ (\A c, d \in f[k] : c = d) /\ name[k + 1] = other[k + 1]
    BY <1>2, <2>1
  <2> HIDE DEF f, g
  <2>4. \A c : \A x, y \in Below(c, name[k + 1]) : x = y
    BY DEF Below
  <2>5. \A x, y \in f[k + 1] : x = y
    BY <2>2, <2>3, <2>4 DEF AllBelow
  <2> QED BY <2>1, <2>2, <2>3, <2>5
<1>3. \A k \in 0 .. n : k \in P
  <2>1. Inductive(n, P)
    <3> HIDE DEF P
    <3> QED BY <1>1, <1>2 DEF Inductive
  <2> HIDE DEF P
  <2> QED BY <2>1, UpwardInduction
<1> QED BY <1>3

LEMMA LastPartIs ==
    ASSUME NEW name \in Names, name # <<>>
    PROVE  /\ LastPart(name) \in 1 .. Len(name)
           /\ \A i \in 1 .. Len(name) :
                 LET rest == SubSeq(name, i, Len(name))
                 IN  /\ rest \in Names /\ First(rest) = <<name[i]>>
                     /\ InChild(rest) <=> i < LastPart(name)
<1> DEFINE n == Len(name)
<1>1. n \in Nat /\ n >= 1
  BY DEF Names
<1>2. LastPart(name) = IF n > 1 /\ name[n] = Empty THEN n - 1 ELSE n
  BY DEF LastPart
<1>3. ASSUME NEW i \in 1 .. n
      PROVE  LET rest == SubSeq(name, i, n)
             IN  /\ rest \in Names /\ First(rest) = <<name[i]>>
                 /\ InChild(rest) <=> i < LastPart(name)
  <2> DEFINE rest == SubSeq(name, i, n)
  <2>1. /\ rest \in Names /\ Len(rest) = n - i + 1
        /\ \A j \in 1 .. n - i + 1 : rest[j] = name[i + j - 1]
    BY DEF Names
  <2>2. First(rest) = <<name[i]>>
    <3> HIDE DEF rest
    <3>1. Len(rest) >= 1 /\ rest[1] = name[i]
      BY <1>1, <2>1
    <3>2. rest # <<>> /\ Head(rest) = rest[1]
      BY <2>1, <3>1 DEF Names
    <3> QED BY <3>1, <3>2 DEF First
  <2> HIDE DEF rest
  <2>3. InChild(rest) <=> ~ (Len(rest) = 1 \/ (Len(rest) = 2 /\ rest[2] = Empty))
    <3>1. CASE Len(rest) = 1
      BY <3>1 DEF InChild, Second
    <3>2. CASE Len(rest) # 1
      <4> DEFINE tail == Tail(rest)
      <4>1. Len(rest) > 1
        BY <1>1, <2>1, <3>2
      <4>2. tail \in Seq(AnyPart) /\ Len(tail) = Len(rest) - 1 /\ tail[1] = rest[2]
        BY <2>1, <4>1 DEF Names
      <4> HIDE DEF tail
      <4>3. tail = [j \in 1 .. Len(tail) |-> tail[j]]
        BY <4>2
      <4>4. tail = <<Empty>> <=> Len(tail) = 1 /\ tail[1] = Empty
        <5>1. <<Empty>> = [j \in 1 .. 1 |-> Empty]
          OBVIOUS
        <5>2. Len(<<Empty>>) = 1 /\ <<Empty>>[1] = Empty
          OBVIOUS
        <5> QED BY <4>3, <5>1, <5>2
      <4>5. Second(rest) = tail
        BY <3>2 DEF Second, tail
      <4>6. Len(tail) = 1 <=> Len(rest) = 2
        BY <1>1, <2>1, <4>2
      <4> QED BY <3>2, <4>2, <4>4, <4>5, <4>6 DEF InChild
    <3> QED BY <3>1, <3>2
  <2>4. CASE i = n
    BY <1>1, <1>2, <2>1, <2>2, <2>3, <2>4 DEF rest
  <2>5. CASE i < n
    <3>1. Len(rest) # 1 /\ (Len(rest) = 2 <=> i = n - 1)
      BY <1>1, <2>1, <2>5
    <3>2. i = n - 1 => rest[2] = name[n]
      BY <1>1, <2>1
    <3>3. InChild(rest) <=> i < LastPart(name)
      BY <1>1, <1>2, <2>3, <2>5, <3>1, <3>2
    <3> QED BY <2>1, <2>2, <3>3 DEF rest
  <2> QED BY <1>1, <2>4, <2>5
<1>4. LastPart(name) \in 1 .. n
  BY <1>1, <1>2
<1> QED BY <1>3, <1>4

(* What a lookup finds, it finds from the block it has come to.            *)
Follows(from, b, name, l) ==
    /\ b \in DOMAIN Unit /\ name \in Names /\ l \in 1 .. Len(name)
    /\ \A i \in 1 .. l - 1 : \A c \in DOMAIN Unit :
          from[i][c] = IF <<name[i]>> \in DOMAIN Unit[c]
                       THEN from[i + 1][Unit[c][<<name[i]>>]] ELSE {}

LEMMA Follow ==
    ASSUME NEW from, NEW b, NEW name, NEW l, Follows(from, b, name, l)
    PROVE  \A k \in 0 .. l - 1 :
              /\ Reached(b, name)[k] = {} => from[1][b] = {}
              /\ \A c \in Reached(b, name)[k] : from[1][b] = from[k + 1][c]
<1> USE DEF Follows
<1> DEFINE A == Reached(b, name)
           P == {k \in 0 .. l - 1 : /\ A[k] = {} => from[1][b] = {}
                                    /\ \A c \in A[k] : from[1][b] = from[k + 1][c]}
<1>0. /\ \A k \in 0 .. Len(name) : A[k] \in SUBSET DOMAIN Unit
      /\ \A k \in 0 .. Len(name) : A[k] = IF k = 0 THEN Only(b) ELSE AllBelow(A[k - 1], name[k])
      /\ Len(name) \in Nat /\ l \in Nat /\ l - 1 \in Nat
  <2>1. name \in Seq(AnyPart)
    BY DEF Names
  <2>2. Len(name) \in Nat /\ l \in Nat /\ l - 1 \in Nat
    BY <2>1
  <2>3. A \in [0 .. Len(name) -> SUBSET DOMAIN Unit]
    BY <2>1, ReachedIs
  <2>4. \A k \in 0 .. Len(name) : A[k] = IF k = 0 THEN Only(b) ELSE AllBelow(A[k - 1], name[k])
    BY <2>1, ReachedIs
  <2> HIDE DEF A
  <2> QED BY <2>2, <2>3, <2>4
<1> HIDE DEF A
<1>1. 0 \in P
  <2>0. 0 \in 0 .. Len(name) /\ 0 \in 0 .. l - 1 /\ 0 + 1 = 1
    BY <1>0
  <2>1. A[0] = {b}
    BY <1>0, <2>0 DEF Only
  <2> QED BY <2>0, <2>1
<1>2. ASSUME NEW k \in 0 .. (l - 1) - 1, k \in P PROVE k + 1 \in P
  <2> DEFINE j == k + 1
  <2>1. /\ j \in 1 .. l - 1 /\ j \in 0 .. l - 1 /\ j # 0 /\ j - 1 = k /\ k \in 0 .. Len(name)
        /\ j \in 0 .. Len(name)
    BY <1>0
  <2> HIDE DEF j
  <2>2. A[j] = AllBelow(A[k], name[j]) /\ A[k] \subseteq DOMAIN Unit
    BY <1>0, <2>1
  <2>3. (A[k] = {} => from[1][b] = {}) /\ \A c \in A[k] : from[1][b] = from[j][c]
    BY <1>2 DEF j
  <2>4. \A c \in DOMAIN Unit : from[j][c] = IF <<name[j]>> \in DOMAIN Unit[c]
                                            THEN from[j + 1][Unit[c][<<name[j]>>]] ELSE {}
    BY <2>1
  <2>5. \A d : d \in A[j] <=>
                \E c \in A[k] : <<name[j]>> \in DOMAIN Unit[c] /\ d = Unit[c][<<name[j]>>]
    BY <2>2 DEF AllBelow, Below
  <2>6. ASSUME A[j] = {} PROVE from[1][b] = {}
    BY <2>2, <2>3, <2>4, <2>5, <2>6
  <2>7. ASSUME NEW d \in A[j] PROVE from[1][b] = from[j + 1][d]
    BY <2>2, <2>3, <2>4, <2>5
  <2>8. j \in P
    BY <2>1, <2>6, <2>7
  <2> QED BY <2>8 DEF j
<1>3. \A k \in 0 .. l - 1 : k \in P
  <2>1. Inductive(l - 1, P)
    <3> HIDE DEF P
    <3> QED BY <1>0, <1>1, <1>2 DEF Inductive
  <2> HIDE DEF P
  <2> QED BY <2>1, UpwardInduction
<1> QED BY <1>3 DEF A

Table(table) == \A c \in DOMAIN Unit : table[c] \subseteq Names
Here(table, c, rest) == {[block |-> c, name |-> m] : m \in table[c] \cap {rest}}

LEMMA FindIs ==
    ASSUME NEW table, Table(table), NEW b \in DOMAIN Unit, NEW name \in Names, name # <<>>
    PROVE  LET above == Reached(b, name)[LastPart(name) - 1]
           IN  /\ above = {} => Find(table, b, name) = {}
               /\ \A c \in above : Find(table, b, name) = Here(table, c, OwnPart(name))
<1> DEFINE n == Len(name)
           l == LastPart(name)
           C == DOMAIN Unit
           X == SUBSET [block : C, name : Names]
           Rest_(i) == SubSeq(name, i, n)
           Body(f, i, c) == IF ~ InChild(Rest_(i)) THEN Here(table, c, Rest_(i))
                            ELSE IF IsChild(c, Rest_(i)) THEN f[i + 1][ChildOf(c, Rest_(i))]
                            ELSE {}
           Solves(f) == f = [i \in 1 .. n |-> [c \in C |-> Body(f, i, c)]]
           Ended(i, c) == ~ InChild(Rest_(i)) \/ ~ IsChild(c, Rest_(i))
           ends == {e \in (1 .. n) \X C : Ended(e[1], e[2])}
           here == [i \in 1 .. n |-> [c \in C |->
                       IF InChild(Rest_(i)) THEN {} ELSE Here(table, c, Rest_(i))]]
           child == [i \in 1 .. n |-> [c \in C |->
                        IF IsChild(c, Rest_(i)) THEN ChildOf(c, Rest_(i)) ELSE c]]
<1>1. /\ n \in Nat /\ l \in 1 .. n
      /\ \A i \in 1 .. n : /\ Rest_(i) \in Names /\ First(Rest_(i)) = <<name[i]>>
                           /\ InChild(Rest_(i)) <=> i < l
  <2>1. n \in Nat
    BY DEF Names
  <2> QED BY <2>1, LastPartIs
<1> HIDE DEF Rest_, n, l
<1>2. Descends(n, C, X, ends, here, child)
  <2>1. ends \subseteq (1 .. n) \X C /\ \A c \in C : <<n, c>> \in ends
    BY <1>1
  <2>2. ASSUME NEW i \in 1 .. n, NEW c \in C
        PROVE  (IF InChild(Rest_(i)) THEN {} ELSE Here(table, c, Rest_(i))) \in X
    BY DEF Here, Table
  <2>3. ASSUME NEW i \in 1 .. n, NEW c \in C
        PROVE  (IF IsChild(c, Rest_(i)) THEN ChildOf(c, Rest_(i)) ELSE c) \in C
    BY TreeAssumption DEF IsChild, ChildOf
  <2>4. here \in [1 .. n -> [C -> X]]
    BY <2>2
  <2>5. child \in [1 .. n -> [C -> C]]
    BY <2>3
  <2>6. {} \in X
    OBVIOUS
  <2> HIDE DEF ends, here, child, C, X
  <2> QED BY <1>1, <2>1, <2>4, <2>5, <2>6 DEF Descends
<1>3. PICK f \in [1 .. n -> [C -> X]] :
         \A i \in 1 .. n : f[i] = [c \in C |-> IF <<i, c>> \in ends THEN here[i][c]
                                               ELSE f[i + 1][child[i][c]]]
  <2> HIDE DEF ends, here, child, C, X
  <2> QED BY <1>2, Descent
<1>4. ASSUME NEW i \in 1 .. n
      PROVE  f[i] = [c \in C |-> Body(f, i, c)]
  <2>1. ASSUME NEW c \in C
        PROVE  (IF <<i, c>> \in ends THEN here[i][c] ELSE f[i + 1][child[i][c]]) = Body(f, i, c)
    <3>1. <<i, c>> \in ends <=> Ended(i, c)
      OBVIOUS
    <3>2. here[i][c] = IF InChild(Rest_(i)) THEN {} ELSE Here(table, c, Rest_(i))
      OBVIOUS
    <3>3. child[i][c] = IF IsChild(c, Rest_(i)) THEN ChildOf(c, Rest_(i)) ELSE c
      OBVIOUS
    <3> HIDE DEF ends, here, child
    <3> QED BY <3>1, <3>2, <3>3
  <2> HIDE DEF ends, here, child, Body
  <2> QED BY <1>3, <2>1
<1> HIDE DEF Body, ends, here, child
<1>5. Solves(f)
  <2>1. f = [i \in 1 .. n |-> f[i]]
    BY <1>3
  <2> QED BY <1>4, <2>1
<1> DEFINE from == CHOOSE g : Solves(g)
<1>6. Find(table, b, name) = from[1][b]
  BY DEF Find, Body, Rest_, n, Here
<1>7. Solves(from)
  <2> HIDE DEF Solves
  <2> QED BY <1>5
<1> HIDE DEF from
<1>8. \A i \in 1 .. n : \A c \in C : from[i][c] = Body(from, i, c)
  <2>1. ASSUME NEW i \in 1 .. n PROVE from[i] = [c \in C |-> Body(from, i, c)]
    BY <1>7
  <2> HIDE DEF Solves
  <2> QED BY <2>1
<1>9. Follows(from, b, name, l)
  <2>1. ASSUME NEW i \in 1 .. l - 1, NEW c \in DOMAIN Unit
        PROVE  from[i][c] = IF <<name[i]>> \in DOMAIN Unit[c]
                            THEN from[i + 1][Unit[c][<<name[i]>>]] ELSE {}
    <3>1. i \in 1 .. n /\ i < l
      BY <1>1
    <3>2. InChild(Rest_(i)) /\ First(Rest_(i)) = <<name[i]>>
      BY <1>1, <3>1
    <3>3. from[i][c] = IF IsChild(c, Rest_(i)) THEN from[i + 1][ChildOf(c, Rest_(i))] ELSE {}
      BY <1>8, <3>1, <3>2 DEF Body
    <3> QED BY <3>2, <3>3 DEF IsChild, ChildOf
  <2> QED BY <1>1, <2>1 DEF Follows, n
<1>10. \A c \in C : from[l][c] = Here(table, c, OwnPart(name))
  <2>1. ~ InChild(Rest_(l)) /\ Rest_(l) = OwnPart(name)
    BY <1>1 DEF Rest_, OwnPart, n, l
  <2> QED BY <1>1, <1>8, <2>1 DEF Body
<1>11. /\ l - 1 \in 0 .. l - 1 /\ (l - 1) + 1 = l
       /\ Reached(b, name)[l - 1] \subseteq C
  <2>1. name \in Seq(AnyPart) /\ l - 1 \in 0 .. Len(name)
    BY <1>1 DEF Names, n
  <2>2. Reached(b, name)[l - 1] \subseteq C
    BY <2>1, ReachedIs
  <2> QED BY <1>1, <2>2
<1>12. /\ Reached(b, name)[l - 1] = {} => from[1][b] = {}
       /\ \A c \in Reached(b, name)[l - 1] : from[1][b] = from[l][c]
  <2> HIDE DEF Solves
  <2> QED BY <1>9, <1>11, Follow
<1> HIDE DEF Solves
<1> QED BY <1>6, <1>10, <1>11, <1>12 DEF l

LEMMA GetChildIs ==
    ASSUME NEW b \in DOMAIN Unit, NEW name \in Names, name # <<>>
    PROVE  GetChild(b, name) = Reached(b, name)[LastPart(name)]
<1> DEFINE n == Len(name)
           l == LastPart(name)
           C == DOMAIN Unit
           X == SUBSET C
           Rest_(i) == SubSeq(name, i, n)
           Body(f, i, c) == IF ~ IsChild(c, Rest_(i)) THEN {}
                            ELSE IF InChild(Rest_(i)) THEN f[i + 1][ChildOf(c, Rest_(i))]
                            ELSE {ChildOf(c, Rest_(i))}
           Solves(f) == f = [i \in 1 .. n |-> [c \in C |-> Body(f, i, c)]]
           Ended(i, c) == ~ InChild(Rest_(i)) \/ ~ IsChild(c, Rest_(i))
           ends == {e \in (1 .. n) \X C : Ended(e[1], e[2])}
           here == [i \in 1 .. n |-> [c \in C |->
                       IF IsChild(c, Rest_(i)) THEN {ChildOf(c, Rest_(i))} ELSE {}]]
           child == [i \in 1 .. n |-> [c \in C |->
                        IF IsChild(c, Rest_(i)) THEN ChildOf(c, Rest_(i)) ELSE c]]
<1>1. /\ n \in Nat /\ l \in 1 .. n
      /\ \A i \in 1 .. n : /\ Rest_(i) \in Names /\ First(Rest_(i)) = <<name[i]>>
                           /\ InChild(Rest_(i)) <=> i < l
  <2>1. n \in Nat
    BY DEF Names
  <2> QED BY <2>1, LastPartIs
<1> HIDE DEF Rest_, n, l
<1>2. Descends(n, C, X, ends, here, child)
  <2>1. ends \subseteq (1 .. n) \X C /\ \A c \in C : <<n, c>> \in ends
    BY <1>1
  <2>2. ASSUME NEW i \in 1 .. n, NEW c \in C
        PROVE  (IF IsChild(c, Rest_(i)) THEN {ChildOf(c, Rest_(i))} ELSE {}) \in X
    BY TreeAssumption DEF IsChild, ChildOf
  <2>3. ASSUME NEW i \in 1 .. n, NEW c \in C
        PROVE  (IF IsChild(c, Rest_(i)) THEN ChildOf(c, Rest_(i)) ELSE c) \in C
    BY TreeAssumption DEF IsChild, ChildOf
  <2>4. here \in [1 .. n -> [C -> X]]
    BY <2>2
  <2>5. child \in [1 .. n -> [C -> C]]
    BY <2>3
  <2>6. {} \in X
    OBVIOUS
  <2> HIDE DEF ends, here, child, C, X
  <2> QED BY <1>1, <2>1, <2>4, <2>5, <2>6 DEF Descends
<1>3. PICK f \in [1 .. n -> [C -> X]] :
         \A i \in 1 .. n : f[i] = [c \in C |-> IF <<i, c>> \in ends THEN here[i][c]
                                               ELSE f[i + 1][child[i][c]]]
  <2> HIDE DEF ends, here, child, C, X
  <2> QED BY <1>2, Descent
<1>4. ASSUME NEW i \in 1 .. n
      PROVE  f[i] = [c \in C |-> Body(f, i, c)]
  <2>1. ASSUME NEW c \in C
        PROVE  (IF <<i, c>> \in ends THEN here[i][c] ELSE f[i + 1][child[i][c]]) = Body(f, i, c)
    <3>1. <<i, c>> \in ends <=> Ended(i, c)
      OBVIOUS
    <3>2. here[i][c] = IF IsChild(c, Rest_(i)) THEN {ChildOf(c, Rest_(i))} ELSE {}
      OBVIOUS
    <3>3. child[i][c] = IF IsChild(c, Rest_(i)) THEN ChildOf(c, Rest_(i)) ELSE c
      OBVIOUS
    <3> HIDE DEF ends, here, child
    <3> QED BY <3>1, <3>2, <3>3
  <2> HIDE DEF ends, here, child, Body
  <2> QED BY <1>3, <2>1
<1> HIDE DEF Body, ends, here, child
<1>5. Solves(f)
  <2>1. f = [i \in 1 .. n |-> f[i]]
    BY <1>3
  <2> QED BY <1>4, <2>1
<1> DEFINE from == CHOOSE g : Solves(g)
<1>6. GetChild(b, name) = from[1][b]
  BY DEF GetChild, Body, Rest_, n
<1>7. Solves(from)
  <2> HIDE DEF Solves
  <2> QED BY <1>5
<1> HIDE DEF from
<1>8. \A i \in 1 .. n : \A c \in C : from[i][c] = Body(from, i, c)
  <2>1. ASSUME NEW i \in 1 .. n PROVE from[i] = [c \in C |-> Body(from, i, c)]
    BY <1>7
  <2> HIDE DEF Solves
  <2> QED BY <2>1
<1>9. Follows(from, b, name, l)
  <2>1. ASSUME NEW i \in 1 .. l - 1, NEW c \in DOMAIN Unit
        PROVE  from[i][c] = IF <<name[i]>> \in DOMAIN Unit[c]
                            THEN from[i + 1][Unit[c][<<name[i]>>]] ELSE {}
    <3>1. i \in 1 .. n /\ i < l
      BY <1>1
    <3>2. InChild(Rest_(i)) /\ First(Rest_(i)) = <<name[i]>>
      BY <1>1, <3>1
    <3>3. from[i][c] = IF IsChild(c, Rest_(i)) THEN from[i + 1][ChildOf(c, Rest_(i))] ELSE {}
      BY <1>8, <3>1, <3>2 DEF Body
    <3> QED BY <3>2, <3>3 DEF IsChild, ChildOf
  <2> QED BY <1>1, <2>1 DEF Follows, n
<1>10. \A c \in C : from[l][c] = Below(c, name[l])
  <2>1. ~ InChild(Rest_(l)) /\ First(Rest_(l)) = <<name[l]>>
    BY <1>1
  <2>2. \A c \in C : from[l][c] = IF IsChild(c, Rest_(l)) THEN {ChildOf(c, Rest_(l))} ELSE {}
    BY <1>1, <1>8, <2>1 DEF Body
  <2> QED BY <2>1, <2>2 DEF Below, IsChild, ChildOf
<1>11. /\ l - 1 \in 0 .. l - 1 /\ (l - 1) + 1 = l
       /\ Reached(b, name)[l - 1] \subseteq C
       /\ Reached(b, name)[l] = AllBelow(Reached(b, name)[l - 1], name[l])
       /\ \A c, d \in Reached(b, name)[l - 1] : c = d
  <2>1. name \in Seq(AnyPart) /\ l - 1 \in 0 .. Len(name)
    BY <1>1 DEF Names, n
  <2>2. Reached(b, name)[l - 1] \subseteq C
    BY <2>1, ReachedIs
  <2>3. Reached(b, name)[l] = AllBelow(Reached(b, name)[l - 1], name[l])
    <3>1. l \in 0 .. Len(name) /\ l # 0
      BY <1>1 DEF n
    <3> QED BY <2>1, <3>1, ReachedIs
  <2>4. \A c, d \in Reached(b, name)[l - 1] : c = d
    <3>1. Len(name) \in Nat
      BY <2>1
    <3> QED BY <2>1, <3>1, ReachedOne
  <2> QED BY <1>1, <2>2, <2>3, <2>4
<1>12. /\ Reached(b, name)[l - 1] = {} => from[1][b] = {}
       /\ \A c \in Reached(b, name)[l - 1] : from[1][b] = from[l][c]
  <2> HIDE DEF Solves
  <2> QED BY <1>9, <1>11, Follow
<1> HIDE DEF Solves
<1>13. from[1][b] = AllBelow(Reached(b, name)[l - 1], name[l])
  <2> DEFINE A == Reached(b, name)[l - 1]
  <2>1. CASE A = {}
    BY <1>12, <2>1 DEF AllBelow
  <2>2. CASE A # {}
    <3>1. PICK c \in A : A = {c}
      BY <1>11, <2>2
    <3>2. from[1][b] = Below(c, name[l])
      BY <1>10, <1>11, <1>12, <3>1
    <3> HIDE DEF A
    <3> QED BY <3>1, <3>2 DEF AllBelow, A
  <2> QED BY <2>1, <2>2
<1> QED BY <1>6, <1>11, <1>13 DEF l

(* The ways down are the paths that reach a block.                         *)
WaysUpTo(n) == {w \in [path : Seq(NamePart), to : DOMAIN Unit] :
                /\ Len(w.path) <= n /\ w.to \in Reached(Main, w.path)[Len(w.path)]}

LEMMA LongerIs ==
    ASSUME NEW n \in Nat
    PROVE  WaysUpTo(n + 1) = WaysUpTo(n) \cup UNION {Longer(w) : w \in WaysUpTo(n)}
<1>0. Main \in DOMAIN Unit
  BY TreeAssumption
<1>1. ASSUME NEW q \in Seq(NamePart), NEW p \in NamePart
      PROVE  /\ Append(q, p) \in Seq(NamePart) /\ Len(Append(q, p)) = Len(q) + 1
             /\ Reached(Main, Append(q, p))[Len(q) + 1] =
                   AllBelow(Reached(Main, q)[Len(q)], p)
  <2> DEFINE r == Append(q, p)
             k == Len(q)
  <2>1. /\ r \in Seq(NamePart) /\ Len(r) = k + 1 /\ r[k + 1] = p /\ k \in Nat
        /\ \A i \in 1 .. k : q[i] = r[i]
    OBVIOUS
  <2> HIDE DEF r
  <2>2. Reached(Main, r)[k] = Reached(Main, q)[k]
    <3>1. k <= Len(q) /\ k <= Len(r) /\ k \in 0 .. k
      BY <2>1
    <3> HIDE DEF k
    <3> QED BY <1>0, <2>1, <3>1, ReachedOne
  <2>3. Reached(Main, r)[k + 1] = AllBelow(Reached(Main, r)[k], p)
    <3>1. k + 1 \in 0 .. Len(r) /\ k + 1 # 0 /\ (k + 1) - 1 = k
      BY <2>1
    <3> HIDE DEF k
    <3> QED BY <1>0, <2>1, <3>1, ReachedIs
  <2> QED BY <2>1, <2>2, <2>3 DEF r
<1>2. ASSUME NEW w \in WaysUpTo(n + 1), w \notin WaysUpTo(n)
      PROVE  \E u \in WaysUpTo(n) : w \in Longer(u)
  <2>1. /\ w \in [path : Seq(NamePart), to : DOMAIN Unit] /\ Len(w.path) = n + 1
        /\ w.to \in Reached(Main, w.path)[n + 1]
    BY <1>2 DEF WaysUpTo
  <2> DEFINE q == SubSeq(w.path, 1, n)
             p == w.path[n + 1]
  <2>2. q \in Seq(NamePart) /\ Len(q) = n /\ p \in NamePart /\ w.path = Append(q, p)
    BY <2>1
  <2> HIDE DEF p, q
  <2>3. w.to \in AllBelow(Reached(Main, q)[n], p)
    BY <1>1, <2>1, <2>2
  <2>4. PICK c \in Reached(Main, q)[n] : <<p>> \in DOMAIN Unit[c] /\ w.to = Unit[c][<<p>>]
    BY <2>3 DEF AllBelow, Below
  <2>5. c \in DOMAIN Unit
    <3>1. n \in 0 .. Len(q)
      BY <2>2
    <3> QED BY <1>0, <2>2, <3>1, ReachedIs
  <2>6. [path |-> q, to |-> c] \in WaysUpTo(n)
    BY <2>2, <2>4, <2>5 DEF WaysUpTo
  <2>7. w \in Longer([path |-> q, to |-> c])
    BY <2>1, <2>2, <2>4 DEF Longer
  <2> QED BY <2>6, <2>7
<1>3. ASSUME NEW u \in WaysUpTo(n), NEW w \in Longer(u) PROVE w \in WaysUpTo(n + 1)
  <2>1. PICK p \in NamePart : /\ <<p>> \in DOMAIN Unit[u.to]
                              /\ w = [path |-> Append(u.path, p), to |-> Unit[u.to][<<p>>]]
    BY <1>3 DEF Longer
  <2>2. /\ u.path \in Seq(NamePart) /\ u.to \in DOMAIN Unit /\ Len(u.path) <= n
        /\ u.to \in Reached(Main, u.path)[Len(u.path)]
    BY DEF WaysUpTo
  <2>3. w.to \in AllBelow(Reached(Main, u.path)[Len(u.path)], p) /\ w.to \in DOMAIN Unit
    BY <2>1, <2>2, TreeAssumption DEF AllBelow, Below
  <2>4. w.path \in Seq(NamePart) /\ Len(w.path) <= n + 1
    BY <1>1, <2>1, <2>2
  <2>5. w.to \in Reached(Main, w.path)[Len(w.path)]
    BY <1>1, <2>1, <2>2, <2>3
  <2>6. w \in [path : Seq(NamePart), to : DOMAIN Unit]
    BY <2>1, <2>3, <2>4
  <2> QED BY <2>4, <2>5, <2>6 DEF WaysUpTo
<1>4. WaysUpTo(n) \subseteq WaysUpTo(n + 1)
  BY DEF WaysUpTo
<1> QED BY <1>2, <1>3, <1>4

LEMMA WaysAre == Ways = WaysUpTo(MaxParts)
<1> DEFINE root == {[path |-> <<>>, to |-> Main]}
           More(A) == A \cup UNION {Longer(w) : w \in A}
           Solves(f) == f = [n \in 0 .. MaxParts |-> IF n = 0 THEN root ELSE More(f[n - 1])]
           a == [n \in 0 .. MaxParts |-> WaysUpTo(n)]
           g == CHOOSE f : Solves(f)
<1>0. MaxParts \in Nat
  BY PartsAssumption
<1>1. WaysUpTo(0) = root
  <2>1. <<>> \in Seq(NamePart) /\ Len(<<>>) = 0 /\ \A q \in Seq(NamePart) : Len(q) <= 0 => q = <<>>
    OBVIOUS
  <2>2. Reached(Main, <<>>)[0] = {Main} /\ Main \in DOMAIN Unit
    <3>1. 0 \in 0 .. Len(<<>>)
      BY <2>1
    <3>2. Reached(Main, <<>>)[0] = Only(Main)
      BY <2>1, <3>1, TreeAssumption, ReachedIs
    <3> QED BY <3>2, TreeAssumption DEF Only
  <2>3. ASSUME NEW w \in WaysUpTo(0) PROVE w = [path |-> <<>>, to |-> Main]
    <3>1. /\ w \in [path : Seq(NamePart), to : DOMAIN Unit] /\ w.path = <<>>
          /\ w.to \in Reached(Main, w.path)[Len(w.path)]
      BY <2>1 DEF WaysUpTo
    <3>2. w.to = Main
      BY <2>1, <2>2, <3>1
    <3> QED BY <3>1, <3>2
  <2>4. [path |-> <<>>, to |-> Main] \in WaysUpTo(0)
    <3> DEFINE w == [path |-> <<>>, to |-> Main]
    <3>1. w \in [path : Seq(NamePart), to : DOMAIN Unit] /\ w.path = <<>> /\ w.to = Main
      BY <2>1, <2>2
    <3>2. Len(w.path) <= 0 /\ w.to \in Reached(Main, w.path)[Len(w.path)]
      BY <2>1, <2>2, <3>1
    <3> QED BY <3>1, <3>2 DEF WaysUpTo
  <2> QED BY <2>3, <2>4
<1>2. \A n \in Nat : WaysUpTo(n + 1) = More(WaysUpTo(n))
  BY LongerIs
<1> HIDE DEF root, More
<1>3. Solves(a)
  <2>1. ASSUME NEW n \in 0 .. MaxParts
        PROVE  WaysUpTo(n) = IF n = 0 THEN root ELSE More(a[n - 1])
    <3>1. CASE n = 0
      BY <1>1, <3>1
    <3>2. CASE n # 0
      <4>1. n - 1 \in Nat /\ (n - 1) + 1 = n /\ a[n - 1] = WaysUpTo(n - 1)
        BY <1>0, <3>2
      <4> HIDE DEF a
      <4>2. WaysUpTo((n - 1) + 1) = More(WaysUpTo(n - 1))
        BY <1>2, <4>1
      <4> QED BY <3>2, <4>1, <4>2
    <3> QED BY <3>1, <3>2
  <2> QED BY <2>1
<1>4. Solves(g)
  <2> HIDE DEF Solves, a
  <2> QED BY <1>3
<1>5. Ways = g[MaxParts]
  BY DEF Ways, root, More
<1> HIDE DEF g, a
<1>6. \A n \in 0 .. MaxParts : g[n] = WaysUpTo(n)
  <2> DEFINE P == {n \in 0 .. MaxParts : g[n] = WaysUpTo(n)}
  <2>1. 0 \in P
    BY <1>0, <1>1, <1>4
  <2>2. ASSUME NEW n \in 0 .. MaxParts - 1, n \in P PROVE n + 1 \in P
    <3>1. n + 1 \in 0 .. MaxParts /\ n + 1 # 0 /\ (n + 1) - 1 = n /\ n \in Nat
      BY <1>0
    <3>2. g[n + 1] = More(g[n]) /\ g[n] = WaysUpTo(n)
      BY <1>4, <2>2, <3>1
    <3> QED BY <1>2, <3>1, <3>2
  <2>3. Inductive(MaxParts, P)
    <3> HIDE DEF P
    <3> QED BY <1>0, <2>1, <2>2 DEF Inductive
  <2>4. \A n \in 0 .. MaxParts : n \in P
    <3> HIDE DEF P
    <3> QED BY <2>3, UpwardInduction
  <2> QED BY <2>4
<1> QED BY <1>0, <1>5, <1>6

LEMMA NameIs ==
    ASSUME NEW name \in Seq(NamePart), Len(name) \in 1 .. MaxParts
    PROVE  LET A == Reached(Main, name)
               l == LastPart(name)
           IN  /\ name \in Names /\ name # <<>> /\ Bare(name) \in Names /\ Len(Bare(name)) = l
               /\ l \in 1 .. Len(name) /\ \A k \in 0 .. l : A[k] \subseteq DOMAIN Unit
               /\ {w.to : w \in {w \in Ways : w.path = SubSeq(name, 1, l - 1)}} = A[l - 1]
               /\ {w.to : w \in {w \in Ways : w.path = Bare(name)}} = A[l]
<1> DEFINE A == Reached(Main, name)
           l == LastPart(name)
<1>1. name \in Names /\ name # <<>> /\ Len(name) \in Nat /\ Len(name) <= MaxParts
  <2>1. NamePart \subseteq AnyPart
    BY DEF AnyPart
  <2>2. Len(name) \in Nat /\ Len(name) >= 1 /\ Len(name) <= MaxParts
    BY PartsAssumption
  <2>3. name \in Seq(AnyPart)
    <3>1. \A i \in 1 .. Len(name) : name[i] \in AnyPart
      BY <2>1
    <3>2. name = [i \in 1 .. Len(name) |-> name[i]]
      OBVIOUS
    <3> QED BY <2>2, <3>1, <3>2
  <2>4. name # <<>>
    <3>1. Len(<<>>) = 0
      OBVIOUS
    <3> QED BY <2>2, <3>1
  <2> QED BY <2>2, <2>3, <2>4 DEF Names
<1>2. l \in 1 .. Len(name)
  BY <1>1, LastPartIs
<1>3. Main \in DOMAIN Unit /\ MaxParts \in Nat
  BY TreeAssumption, PartsAssumption
<1>4. \A k \in 0 .. Len(name) : A[k] \subseteq DOMAIN Unit
  BY <1>1, <1>3, ReachedIs DEF Names
<1> HIDE DEF l
<1>5. ASSUME NEW k \in 0 .. l
      PROVE  {w.to : w \in {w \in Ways : w.path = SubSeq(name, 1, k)}} = A[k]
  <2> DEFINE p == SubSeq(name, 1, k)
  <2>1. k \in Nat /\ k <= Len(name) /\ k <= MaxParts
    BY <1>1, <1>2, <1>3
  <2>2. p \in Seq(NamePart) /\ Len(p) = k /\ \A i \in 1 .. k : name[i] = p[i]
    BY <2>1
  <2> HIDE DEF p
  <2>3. Reached(Main, p)[k] = A[k]
    <3>1. k \in 0 .. k /\ k <= Len(p)
      BY <2>1, <2>2
    <3> QED BY <1>3, <2>1, <2>2, <3>1, ReachedOne
  <2>4. ASSUME NEW w \in Ways, w.path = p PROVE w.to \in A[k]
    <3>1. w.to \in Reached(Main, w.path)[Len(w.path)]
      BY WaysAre DEF WaysUpTo
    <3> QED BY <2>2, <2>3, <2>4, <3>1
  <2>5. ASSUME NEW c \in A[k] PROVE \E w \in Ways : w.path = p /\ w.to = c
    <3> DEFINE w == [path |-> p, to |-> c]
    <3>1. c \in DOMAIN Unit
      <4>1. k \in 0 .. Len(name)
        BY <2>1
      <4> QED BY <1>4, <4>1
    <3>2. w.path = p /\ w.to = c /\ w \in [path : Seq(NamePart), to : DOMAIN Unit]
      BY <2>2, <3>1
    <3> HIDE DEF w
    <3>3. w \in WaysUpTo(MaxParts)
      BY <2>1, <2>2, <2>3, <3>2 DEF WaysUpTo
    <3> QED BY <3>2, <3>3, WaysAre
  <2> HIDE DEF A
  <2> QED BY <2>4, <2>5 DEF p
<1>6. Bare(name) \in Names /\ Len(Bare(name)) = l
  BY <1>1, <1>2 DEF Bare, l, Names
<1>7. /\ {w.to : w \in {w \in Ways : w.path = SubSeq(name, 1, l - 1)}} = A[l - 1]
      /\ {w.to : w \in {w \in Ways : w.path = Bare(name)}} = A[l]
  <2>1. l - 1 \in 0 .. l /\ l \in 0 .. l /\ Bare(name) = SubSeq(name, 1, l)
    BY <1>1, <1>2 DEF Bare, l
  <2> QED BY <1>5, <2>1
<1> QED BY <1>1, <1>2, <1>4, <1>6, <1>7 DEF l

LEMMA StringsAreNames == \A m \in Seq(STRING) : m \in Names
<1> SUFFICES ASSUME NEW m \in Seq(STRING) PROVE m \in Names
  OBVIOUS
<1>1. \A i \in 1 .. Len(m) : m[i] \in AnyPart
  BY DEF AnyPart
<1>2. Len(m) \in Nat /\ m = [i \in 1 .. Len(m) |-> m[i]]
  OBVIOUS
<1> QED BY <1>1, <1>2 DEF Names

LEMMA Joined ==
    ASSUME NEW B, NEW s \in Seq(B), NEW t \in Seq(B), Len(t) = 1
    PROVE  /\ s \o t \in Seq(B) /\ Len(s \o t) = Len(s) + 1
           /\ (s \o t)[Len(s) + 1] = t[1] /\ \A i \in 1 .. Len(s) : s[i] = (s \o t)[i]
<1> DEFINE k == Len(s)
<1>1. k \in Nat /\ k = Len(s)
  OBVIOUS
<1>2. s \o t \in Seq(B) /\ Len(s \o t) = k + 1
  BY ConcatProperties
<1>3. (s \o t)[k + 1] = t[1] /\ \A i \in 1 .. k : s[i] = (s \o t)[i]
  <2> HIDE DEF k
  <2> QED BY <1>1, ConcatProperties
<1> QED BY <1>2, <1>3

(* A name without a dot is that of a unit of the block itself; after the   *)
(* path of a block it leads to the same.                                   *)
LEMMA PlainIs ==
    ASSUME NEW table, Table(table), NEW b \in DOMAIN Unit, NEW m \in table[b], Plain(m)
    PROVE  /\ Find(table, b, m) = {[block |-> b, name |-> m]}
           /\ \A path \in Names :
                 path # <<>> /\ b \in Reached(Main, path)[Len(path)] =>
                    Find(table, Main, path \o m) = {[block |-> b, name |-> m]}
<1>1. m \in Names /\ Len(m) = 1 /\ m # <<Empty>> /\ m # <<>>
  <2>1. m \in Names /\ Len(m) = 1 /\ m # <<Empty>>
    BY DEF Plain, Table
  <2>2. Len(<<>>) = 0
    OBVIOUS
  <2> QED BY <2>1, <2>2
<1>2. m = <<m[1]>> /\ m[1] # Empty
  BY <1>1 DEF Names
<1>3. Here(table, b, m) = {[block |-> b, name |-> m]}
  BY DEF Here
<1>4. Find(table, b, m) = {[block |-> b, name |-> m]}
  <2>1. LastPart(m) = 1
    BY <1>1 DEF LastPart
  <2>2. OwnPart(m) = m
    BY <1>1, <2>1 DEF OwnPart, Names
  <2>3. Reached(b, m)[1 - 1] = {b}
    <3>1. 1 - 1 \in 0 .. Len(m) /\ 1 - 1 = 0
      BY <1>1
    <3> QED BY <1>1, <3>1, ReachedIs DEF Names, Only
  <2>4. b \in Reached(b, m)[LastPart(m) - 1]
    BY <2>1, <2>3
  <2> QED BY <1>1, <1>3, <2>2, <2>4, FindIs
<1>5. ASSUME NEW path \in Names, path # <<>>, b \in Reached(Main, path)[Len(path)]
      PROVE  Find(table, Main, path \o m) = {[block |-> b, name |-> m]}
  <2> DEFINE name == path \o m
             k == Len(path)
  <2>1. path \in Seq(AnyPart) /\ m \in Seq(AnyPart) /\ Len(m) = 1 /\ path # <<>>
    BY <1>1, <1>5 DEF Names
  <2>2. k \in Nat /\ k >= 1
    BY <2>1
  <2>3. /\ name \in Seq(AnyPart) /\ Len(name) = k + 1
        /\ name[k + 1] = m[1] /\ \A i \in 1 .. k : path[i] = name[i]
    <3> HIDE DEF k
    <3> QED BY <2>1, <2>2, Joined DEF k
  <2>4. name # <<>>
    <3>1. Len(<<>>) = 0
      OBVIOUS
    <3> HIDE DEF name
    <3> QED BY <2>2, <2>3, <3>1
  <2> HIDE DEF name, k
  <2>5. LastPart(name) = k + 1 /\ (k + 1) - 1 = k
    BY <1>2, <2>2, <2>3 DEF LastPart
  <2>6. OwnPart(name) = m
    <3> DEFINE own == SubSeq(name, k + 1, k + 1)
    <3>1. own \in Seq(AnyPart) /\ Len(own) = 1 /\ own[1] = m[1]
      BY <2>2, <2>3
    <3>2. OwnPart(name) = own
      BY <2>3, <2>5 DEF OwnPart
    <3> HIDE DEF own
    <3>3. own = [i \in 1 .. Len(own) |-> own[i]] /\ m = [i \in 1 .. Len(m) |-> m[i]]
      BY <2>1, <3>1
    <3>4. \A i \in 1 .. 1 : own[i] = m[i]
      BY <3>1
    <3>5. own = [i \in 1 .. 1 |-> own[i]] /\ m = [i \in 1 .. 1 |-> m[i]]
      BY <2>1, <3>1, <3>3
    <3> QED BY <3>2, <3>4, <3>5
  <2>7. Main \in DOMAIN Unit
    BY TreeAssumption
  <2>8. b \in Reached(Main, name)[k]
    <3>1. k <= Len(path) /\ k <= Len(name) /\ k \in 0 .. k
      BY <2>2, <2>3 DEF k
    <3>2. Reached(Main, path)[k] = Reached(Main, name)[k]
      BY <2>1, <2>2, <2>3, <2>7, <3>1, ReachedOne
    <3> QED BY <1>5, <3>2 DEF k
  <2>9. Find(table, Main, name) = Here(table, b, OwnPart(name))
    <3>1. b \in Reached(Main, name)[LastPart(name) - 1]
      BY <2>5, <2>8
    <3> QED BY <2>3, <2>4, <2>7, <3>1, FindIs DEF Names
  <2> QED BY <1>3, <2>6, <2>9 DEF name
<1> QED BY <1>4, <1>5
(* The names of the operator lead to the units they spell, and what the    *)
(* lists show leads back to what it was shown for, in any tree.            *)
THEOREM UnitsAreFound == Spec => []FoundByName
<1>1. TypeOK => FoundByName
  <2> SUFFICES ASSUME TypeOK, input.job = "name" PROVE FoundByName
    BY DEF FoundByName
  <2> DEFINE name == input.name
             A == Reached(Main, name)
             l == LastPart(name)
             Above == {w \in Ways : w.path = SubSeq(name, 1, l - 1)}
             In(table) == {[block |-> w.to, name |-> OwnPart(name)] :
                              w \in {w \in Above : OwnPart(name) \in table[w.to]}}
             Block == {w.to : w \in {w \in Ways : w.path = Bare(name)}}
  <2>1. name \in Seq(NamePart) /\ Len(name) \in 1 .. MaxParts
    BY DEF TypeOK, ConditionInput, RenamingInput, LineInput, NameInput, MessageInput,
           PlaceInput, TextInput
  <2> HIDE DEF name
  <2>2. /\ name \in Names /\ name # <<>> /\ Bare(name) \in Names /\ Len(Bare(name)) = l
        /\ l \in 1 .. Len(name) /\ \A k \in 0 .. l : A[k] \subseteq DOMAIN Unit
        /\ {w.to : w \in Above} = A[l - 1] /\ Block = A[l]
    BY <2>1, NameIs
  <2>3. Main \in DOMAIN Unit /\ Table(VarOf) /\ Table(SubOf)
    <3>1. \A m \in Seq(STRING) : m \in Names
      BY StringsAreNames
    <3> QED BY <3>1, TreeAssumption DEF Table
  <2>4. /\ l \in Nat /\ l >= 1 /\ l - 1 \in 0 .. l /\ l \in 0 .. l
        /\ l <= Len(name) /\ Len(name) \in Nat
    BY <2>2 DEF Names
  <2> HIDE DEF l
  <2>5. \A c, d \in A[l - 1] : c = d
    <3>1. l - 1 \in 0 .. Len(name) /\ Len(name) <= Len(name)
      BY <2>4
    <3> QED BY <2>2, <2>3, <2>4, <3>1, ReachedOne DEF Names
  <2> HIDE DEF A
  <2>6. ASSUME NEW table, Table(table) PROVE Find(table, Main, name) = In(table)
    <3>1. /\ A[l - 1] = {} => Find(table, Main, name) = {}
          /\ \A c \in A[l - 1] : Find(table, Main, name) = Here(table, c, OwnPart(name))
      BY <2>2, <2>3, <2>6, FindIs DEF A, l
    <3>2. In(table) = UNION {Here(table, c, OwnPart(name)) : c \in A[l - 1]}
      <4>1. ASSUME NEW x \in In(table)
            PROVE  \E c \in A[l - 1] : x \in Here(table, c, OwnPart(name))
        <5>1. PICK w \in Above : /\ OwnPart(name) \in table[w.to]
                                /\ x = [block |-> w.to, name |-> OwnPart(name)]
          BY <4>1
        <5>2. w.to \in A[l - 1]
          BY <2>2
        <5> HIDE DEF Above
        <5> QED BY <5>1, <5>2 DEF Here
      <4>2. ASSUME NEW c \in A[l - 1], NEW x \in Here(table, c, OwnPart(name))
            PROVE  x \in In(table)
        <5>1. /\ OwnPart(name) \in table[c]
              /\ x = [block |-> c, name |-> OwnPart(name)]
          BY <4>2 DEF Here
        <5>2. PICK w \in Above : w.to = c
          BY <2>2
        <5> HIDE DEF Above
        <5> QED BY <5>1, <5>2
      <4> HIDE DEF In
      <4> QED BY <4>1, <4>2
    <3> HIDE DEF In
    <3>3. CASE A[l - 1] = {}
      BY <3>1, <3>2, <3>3
    <3>4. CASE A[l - 1] # {}
      <4>1. PICK c \in A[l - 1] : A[l - 1] = {c}
        BY <2>5, <3>4
      <4> QED BY <3>1, <3>2, <4>1
    <3> QED BY <3>3, <3>4
  <2>7. ReachBlock(name) = Block
    BY <2>2, <2>3, GetChildIs DEF ReachBlock, A, l
  <2>8. ASSUME NEW table, Table(table), NEW s \in UNION {Shown(table, b) : b \in A[l]},
               Plain(s.as)
        PROVE  Find(table, Main, Bare(name) \o s.as) = {s.unit}
    <3>1. PICK b \in A[l] : \E n \in table[b] : \E u \in Find(table, b, n) :
                                s = [as |-> n, unit |-> u]
      BY <2>8 DEF Shown
    <3>2. PICK n \in table[b] : \E u \in Find(table, b, n) : s = [as |-> n, unit |-> u]
      BY <3>1
    <3>3. PICK u \in Find(table, b, n) : s = [as |-> n, unit |-> u]
      BY <3>2
    <3>4. b \in DOMAIN Unit /\ s.as = n /\ s.unit = u
      BY <2>2, <2>4, <3>3
    <3>5. b \in Reached(Main, Bare(name))[Len(Bare(name))] /\ Bare(name) # <<>>
      <4>1. /\ l <= Len(Bare(name)) /\ Len(Bare(name)) = l /\ Bare(name) \in Seq(AnyPart)
            /\ name \in Seq(AnyPart)
        BY <2>2, <2>4 DEF Names
      <4>2. \A i \in 1 .. l : Bare(name)[i] = name[i]
        BY <2>2, <2>4, <4>1 DEF Bare, l
      <4>3. Reached(Main, Bare(name))[l] = A[l]
        BY <2>3, <2>4, <4>1, <4>2, ReachedOne DEF A
      <4>4. Len(<<>>) = 0
        OBVIOUS
      <4> QED BY <2>4, <4>1, <4>3, <4>4
    <3>6. /\ Find(table, b, n) = {[block |-> b, name |-> n]}
          /\ Find(table, Main, Bare(name) \o n) = {[block |-> b, name |-> n]}
      BY <2>2, <2>8, <3>3, <3>4, <3>5, PlainIs
    <3> QED BY <3>3, <3>4, <3>6
  <2>9. /\ GetVarList(name) = UNION {Shown(VarOf, b) : b \in A[l]}
        /\ GetSubpList(name) = UNION {Shown(SubOf, b) : b \in A[l]}
    BY <2>2, <2>7 DEF GetVarList, GetSubpList
  <2>10. /\ ReachVariable(name) = In(VarOf) /\ ReachSubprog(name) = In(SubOf)
    BY <2>3, <2>6 DEF ReachVariable, ReachSubprog, GetVariable, GetSubprog
  <2>11. /\ \A s \in GetVarList(name) :
               Plain(s.as) => ReachVariable(Bare(name) \o s.as) = {s.unit}
         /\ \A s \in GetSubpList(name) :
               Plain(s.as) => ReachSubprog(Bare(name) \o s.as) = {s.unit}
    BY <2>3, <2>8, <2>9 DEF ReachVariable, ReachSubprog, GetVariable, GetSubprog
  <2> QED BY <2>7, <2>10, <2>11 DEF FoundByName, name, l
<1> QED BY <1>1, TypeCorrect, PTL
----------------------------------------------------------------------------
(* Values, continued.                                                      *)

LastOf(s) == s[Len(s)]

(* A place holds what was last written to it.                              *)
WrittenLast == input.job = "place" /\ input.written # <<>> =>
                  /\ LastOf(input.written) \in Sample(input.type)
                  /\ input.slot = Stored(LastOf(input.written), input.slot)

LEMMA StoredTwice ==
    ASSUME NEW type \in TypeName, NEW v \in Sample(type), NEW slot \in Seq(Byte)
    PROVE  Stored(v, Stored(v, slot)) = Stored(v, slot)
<1>1. Len(Stored(v, slot)) = Len(slot)
  BY StoredIs
<1> QED BY <1>1 DEF Stored, FitsIn, Emptied

LEMMA WrittenInit == Init => WrittenLast
BY DEF Init, WrittenLast

LEMMA WrittenStep == TypeOK /\ WrittenLast /\ [Next]_input => WrittenLast'
<1> SUFFICES ASSUME TypeOK, WrittenLast, [Next]_input PROVE WrittenLast'
  OBVIOUS
<1>1. ASSUME NEW type \in TypeName, NEW v \in Sample(type), Write(v) PROVE WrittenLast'
  <2>1. input \in PlaceInput
    BY <1>1 DEF Write, TypeOK, ConditionInput, RenamingInput, LineInput, NameInput,
            MessageInput, PlaceInput, TextInput
  <2>2. input.slot \in Seq(Byte) /\ input.written \in Seq([type : TypeName, data : Datum])
    BY <2>1 DEF PlaceInput
  <2>3. v.type = input.type /\ v.type = type
    BY <1>1, SampleIs DEF Write
  <2>4. /\ input'.type = input.type /\ input'.written = Append(input.written, v)
        /\ input'.slot = Stored(v, input.slot)
    BY <1>1, <2>1 DEF Write, PlaceInput
  <2>5. LastOf(Append(input.written, v)) = v
    BY <2>2 DEF LastOf
  <2> QED BY <2>2, <2>3, <2>4, <2>5, StoredTwice DEF WrittenLast
<1>2. ASSUME input' = input \/ input'.job # "place" PROVE WrittenLast'
  BY <1>2 DEF WrittenLast
<1>3. ASSUME \/ \E w \in Words : AddWord(w)
             \/ \E existed, remapped \in Key : AddRenaming(existed, remapped)
             \/ \E k \in Key : AddResult(k)
             \/ \E s \in Style : AddParameter(s)
             \/ \E c \in Letter : AddChar(c)
             \/ \E t \in Texts : GiveText(t)
             \/ \E p \in NamePart : AddPart(p)
             \/ \E w \in 0 .. Top : AddLoad(w)
      PROVE  input'.job # "place"
  <2>1. TypeOK'
    BY TypeStep
  <2> QED BY <1>3, <2>1 DEF TypeOK, ConditionInput, RenamingInput, LineInput, NameInput,
                            MessageInput,
               PlaceInput, TextInput, AddWord, AddRenaming, AddResult, AddParameter, AddChar,
               GiveText, AddPart, AddLoad
<1> QED BY <1>1, <1>2, <1>3 DEF Next, Words, Letter

(* What a place gives of the value that was written to it.                 *)
ReadOf(v, size, old) ==
    LET n == Len(ToBytes(v))
    IN  CASE n = size -> v
          [] n # size /\ v.type = "string" ->
                Value("string", IF n < size THEN v.data \o Zeros(size - n) ELSE Zeros(size))
          [] size = 1 /\ v.type = "bool" -> Value("bool", FALSE)
          [] OTHER -> old

LEMMA PlaceGives ==
    ASSUME NEW type \in TypeName, NEW v \in Sample(type), NEW old \in Sample(type),
           NEW slot \in Seq(Byte), Len(slot) >= 1, NEW r \in FromBytes(old, Stored(v, slot))
    PROVE  r.value = ReadOf(v, Len(slot), old) /\ r.value.type = type
<1> DEFINE bytes == Stored(v, slot)
           n == Len(ToBytes(v))
           size == Len(slot)
<1>1. /\ v.type = type /\ old.type = type /\ v = Value(type, v.data)
      /\ size \in Nat /\ n \in Nat
  BY SampleIs, BytesAre
<1>2. /\ bytes \in Seq(Byte) /\ Len(bytes) = size
      /\ n = size => bytes = ToBytes(v)
      /\ n > size => bytes = Zeros(size)
      /\ n < size => bytes = ToBytes(v) \o Zeros(size - n)
  BY StoredIs
<1> HIDE DEF bytes, n, size
<1>3. CASE ~ Readable(type, size)
  <2>1. r.value = old
    BY <1>1, <1>2, <1>3 DEF FromBytes, bytes
  <2>2. type # "string" /\ n # size /\ ~ (size = 1 /\ type = "bool")
    <3>1. type = "bool" => n = 2
      BY BytesAre DEF n
    <3>2. type \in {"int", "real"} => n = SizeOf(type)
      BY BytesAre DEF n
    <3> QED BY <1>3, <3>1, <3>2 DEF Readable, TypeName
  <2>3. ReadOf(v, size, old) = old
    BY <1>1, <2>2 DEF ReadOf, n
  <2> QED BY <1>1, <2>1, <2>3 DEF size
<1>4. CASE Readable(type, size) /\ type = "bool"
  <2>1. PICK b \in {b \in BOOLEAN : bytes[1] \in {0, 1} => b = (bytes[1] = 1)} :
                r.value = Value("bool", b)
    BY <1>1, <1>2, <1>4 DEF FromBytes, DataOf, bytes
  <2>2. size \in {1, 2} /\ n = 2 /\ v.data \in BOOLEAN /\ ToBytes(v)[1] = IF v.data THEN 1 ELSE 0
    BY <1>4, BytesAre, SampleIs DEF Readable, n
  <2>3. CASE size = 2
    <3>1. b = v.data
      BY <1>2, <2>1, <2>2, <2>3
    <3>2. ReadOf(v, size, old) = v
      BY <2>2, <2>3 DEF ReadOf, n
    <3> QED BY <1>1, <1>4, <2>1, <3>1, <3>2 DEF size
  <2>4. CASE size = 1
    <3>1. bytes = Zeros(1) /\ Zeros(1)[1] = 0
      BY <1>2, <2>2, <2>4 DEF Zeros
    <3>2. b = FALSE
      BY <2>1, <3>1
    <3>3. ReadOf(v, size, old) = Value("bool", FALSE)
      BY <1>1, <1>4, <2>2, <2>4 DEF ReadOf, n
    <3>4. r.value = Value("bool", FALSE)
      BY <2>1, <3>2
    <3>5. Value("bool", FALSE).type = "bool"
      BY DEF Value
    <3> QED BY <1>4, <3>3, <3>4, <3>5 DEF size
  <2> QED BY <2>2, <2>3, <2>4
<1>5. CASE type = "string"
  <2>1. r.value = Value("string", bytes)
    BY <1>1, <1>2, <1>5 DEF FromBytes, DataOf, Readable, bytes
  <2>2. ToBytes(v) = v.data
    BY <1>5, BytesAre
  <2>3. ReadOf(v, size, old) = Value("string", bytes)
    <3>1. CASE n = size
      BY <1>1, <1>2, <1>5, <2>2, <3>1 DEF ReadOf, n
    <3>2. CASE n < size
      <4>1. n # size
        BY <1>1, <3>2
      <4> QED BY <1>1, <1>2, <1>5, <2>2, <3>2, <4>1 DEF ReadOf, n
    <3>3. CASE n > size
      <4>1. n # size /\ ~ n < size
        BY <1>1, <3>3
      <4> QED BY <1>1, <1>2, <1>5, <2>2, <3>3, <4>1 DEF ReadOf, n
    <3> QED BY <1>1, <3>1, <3>2, <3>3
  <2> QED BY <1>5, <2>1, <2>3 DEF size, Value
<1>6. CASE Readable(type, size) /\ type \in {"int", "real"}
  <2>1. r.value = Value(type, Decode(bytes))
    BY <1>1, <1>2, <1>6 DEF FromBytes, DataOf, bytes
  <2>2. n = size /\ Decode(ToBytes(v)) = v.data
    <3>1. n = SizeOf(type) /\ Decode(ToBytes(v)) = v.data
      BY <1>6, BytesAre DEF n
    <3> QED BY <1>6, <3>1 DEF Readable
  <2>3. ReadOf(v, size, old) = v
    BY <1>1, <1>6, <2>2 DEF ReadOf, n
  <2> QED BY <1>1, <1>2, <2>1, <2>2, <2>3 DEF size
<1> QED BY <1>3, <1>4, <1>5, <1>6 DEF TypeName

(* Whatever was written to a place, of any size, is read as it was, or as  *)
(* the kind of value and the size of the place say.                        *)
THEOREM PlacesKeepValues == Spec => []PlaceKeepsMeaning
<1>1. TypeOK /\ WrittenLast => PlaceKeepsMeaning
  <2> SUFFICES ASSUME TypeOK, WrittenLast, input.job = "place", input.written # <<>>
               PROVE  PlaceKeepsMeaning
    BY DEF PlaceKeepsMeaning
  <2> DEFINE v == input.written[Len(input.written)]
             size == Len(input.slot)
  <2>1. /\ input.type \in TypeName /\ input.slot \in Seq(Byte) /\ size \in PlaceSize
    BY DEF TypeOK, ConditionInput, RenamingInput, LineInput, NameInput, MessageInput,
           PlaceInput, TextInput
  <2>2. v \in Sample(input.type) /\ input.slot = Stored(v, input.slot) /\ size >= 1
    BY <2>1, SampleAssumption DEF WrittenLast, LastOf
  <2> HIDE DEF v
  <2>3. ASSUME NEW old \in Sample(input.type), NEW r \in FromBytes(old, input.slot)
        PROVE  LET copy == CopyData(old, r.value)
               IN  /\ ~ copy.thrown /\ IsEqual(copy.value, ReadOf(v, size, old))
                   /\ copy.changed = ~ IsEqual(copy.value, old)
    <3>1. r \in FromBytes(old, Stored(v, input.slot))
      BY <2>2
    <3>2. r.value = ReadOf(v, size, old) /\ r.value.type = input.type
      BY <2>1, <2>2, <3>1, PlaceGives
    <3>3. old.type = input.type
      BY <2>1, SampleIs
    <3>4. CopyData(old, r.value) =
             [thrown |-> FALSE, changed |-> old.data # r.value.data, value |-> r.value]
      BY <3>2, <3>3 DEF CopyData
    <3> QED BY <3>2, <3>3, <3>4 DEF IsEqual
  <2> QED BY <2>3 DEF PlaceKeepsMeaning, ReadOf, v
<1> QED BY <1>1, TypeCorrect, WrittenInit, WrittenStep, PTL DEF Spec
----------------------------------------------------------------------------
(* Texts.                                                                  *)

LEMMA BoundsAre == Bound(IntSize) \in Nat \ {0} /\ Bound(RealSize) \in Nat \ {0}
<1> SUFFICES ASSUME NEW size \in Nat \ {0} PROVE Bound(size) \in Nat \ {0}
  BY ValuesAssumption
<1>1. PICK p : Powers(size, p)
  BY PatternsAre
<1>2. p[size - 1] \in Nat /\ p[size - 1] >= 1 /\ p[size] = ByteBase * p[size - 1]
  BY <1>1 DEF Powers, Positive
<1>3. ByteBase * p[size - 1] >= 2 /\ ByteBase * p[size - 1] \in Nat
  BY <1>2, ValuesAssumption
<1> QED BY <1>1, <1>2, <1>3 DEF Powers, Bound

LEMMA RoundedIs ==
    ASSUME NEW n \in Int
    PROVE  /\ Rounded(n) \in Int /\ 2 * Apart(Rounded(n), n) <= Printed
           /\ Rounded(Rounded(n)) = Rounded(n)
           /\ n \in -MaxReal .. MaxReal => Rounded(n) \in -MaxReal .. MaxReal
<1> DEFINE P == Printed
           q == n \div P
           m == n % P
           M == MaxReal \div P
<1>1. P \in Nat /\ P >= 1
  BY ValuesAssumption
<1>2. q \in Int /\ m \in 0 .. P - 1 /\ n = P * q + m
  BY <1>1
<1>3. MaxReal \in Nat /\ M \in Int /\ MaxReal = P * M
  BY <1>1, MaxRealAssumption
<1> HIDE DEF P, q, m, M
<1>4. PICK k \in Int : /\ Rounded(n) = P * k
                       /\ (k = q /\ 2 * m <= P) \/ (k = q + 1 /\ 2 * m >= P)
  <2>1. n - m = P * q /\ P * (q + 1) = P * q + P
    BY <1>1, <1>2
  <2>2. \/ Rounded(n) = P * q /\ 2 * m <= P
        \/ Rounded(n) = P * q + P /\ 2 * m >= P
    <3> DEFINE even == ((n - m) \div P) % 2 = 0
               low == n - m
    <3>1. Rounded(n) = IF 2 * m < P \/ (2 * m = P /\ even) THEN low ELSE low + P
      BY DEF Rounded, m, P
    <3> HIDE DEF even
    <3> QED BY <1>1, <1>2, <2>1, <3>1
  <2>3. q \in Int /\ q + 1 \in Int
    BY <1>2
  <2>4. CASE Rounded(n) = P * q /\ 2 * m <= P
    BY <2>3, <2>4
  <2>5. CASE Rounded(n) = P * q + P /\ 2 * m >= P
    <3>1. Rounded(n) = P * (q + 1)
      BY <2>1, <2>5
    <3> QED BY <2>3, <2>5, <3>1
  <2> QED BY <2>2, <2>4, <2>5
<1>5. Rounded(n) \in Int
  BY <1>1, <1>4
<1>6. 2 * Apart(Rounded(n), n) <= P
  <2>1. CASE k = q /\ 2 * m <= P
    <3>1. Rounded(n) = n - m
      BY <1>1, <1>2, <1>4, <2>1
    <3> QED BY <1>1, <1>2, <1>5, <2>1, <3>1 DEF Apart
  <2>2. CASE k = q + 1 /\ 2 * m >= P
    <3>1. Rounded(n) = n - m + P
      <4>1. P * (q + 1) = P * q + P
        BY <1>1, <1>2
      <4> QED BY <1>1, <1>2, <1>4, <2>2, <4>1
    <3> QED BY <1>1, <1>2, <1>5, <2>2, <3>1 DEF Apart
  <2> QED BY <1>4, <2>1, <2>2
<1>7. Rounded(P * k) = P * k
  <2>1. (P * k) % P = 0
    <3>1. 0 \in 0 .. P - 1 /\ P * k + 0 = P * k
      BY <1>1
    <3>2. (P * k + 0) % P = 0
      BY <1>1, <3>1, Division
    <3> QED BY <3>1, <3>2
  <2>2. P * k \in Int /\ P * k - 0 = P * k /\ 2 * 0 < P
    BY <1>1
  <2> QED BY <2>1, <2>2 DEF Rounded, P
<1>8. n \in -MaxReal .. MaxReal => Rounded(n) \in -MaxReal .. MaxReal
  <2> SUFFICES ASSUME n \in -MaxReal .. MaxReal PROVE Rounded(n) \in -MaxReal .. MaxReal
    OBVIOUS
  <2>1. P * q <= P * M /\ -(P * M) <= P * q + m /\ P * q + m <= P * M
    BY <1>1, <1>2, <1>3
  <2>2. q >= -M
    <3>1. ASSUME q < -M PROVE FALSE
      <4>1. P * (q + M + 1) <= 0
        BY <1>1, <1>2, <1>3, <3>1
      <4>2. P * (q + M + 1) = P * q + P * M + P
        BY <1>1, <1>2, <1>3
      <4> QED BY <1>1, <1>2, <1>3, <2>1, <4>1, <4>2
    <3> QED BY <1>2, <1>3, <3>1
  <2>3. q < M \/ (q = M /\ m = 0)
    <3>1. ASSUME q > M PROVE FALSE
      <4>1. P * (q - M) >= P
        BY <1>1, <1>2, <1>3, <3>1
      <4>2. P * (q - M) = P * q - P * M
        BY <1>1, <1>2, <1>3
      <4> QED BY <1>1, <1>2, <1>3, <2>1, <4>1, <4>2
    <3>2. q = M => m = 0
      BY <1>1, <1>2, <1>3, <2>1
    <3>3. q \in Int /\ M \in Int
      BY <1>2, <1>3
    <3> QED BY <3>1, <3>2, <3>3
  <2>4. k >= -M /\ k <= M
    BY <1>1, <1>2, <1>3, <1>4, <2>2, <2>3
  <2>5. P * (k + M) >= 0 /\ P * (M - k) >= 0
    BY <1>1, <1>3, <2>4
  <2>6. P * (k + M) = P * k + P * M /\ P * (M - k) = P * M - P * k
    BY <1>1, <1>3
  <2>7. P * k \in Int /\ P * M \in Int
    BY <1>1, <1>3
  <2> QED BY <1>3, <1>4, <2>5, <2>6, <2>7
<1> QED BY <1>4, <1>5, <1>6, <1>7, <1>8 DEF P

(* What a variable can hold.                                               *)
Held(v) == /\ v.type \in TypeName /\ v = Value(v.type, v.data)
           /\ v.type = "bool" => v.data \in BOOLEAN
           /\ v.type = "int" => v.data \in -Bound(IntSize) .. Bound(IntSize) - 1
           /\ v.type = "real" => v.data \in -MaxReal .. MaxReal

LEMMA ShownAgain ==
    ASSUME NEW v, Held(v)
    PROVE  LET again == FromText(Default(v.type), ToText(v))
           IN  again.ok /\ ToText(again.value) = ToText(v)
<1> DEFINE again == FromText(Default(v.type), ToText(v))
           t == ToText(v)
<1>1. Default(v.type).type = v.type /\ v.type \in TypeName
  BY DefaultIs DEF Held
<1>2. CASE v.type = "string"
  BY <1>1, <1>2 DEF FromText, ToText, Value
<1>3. One \in Nat /\ One >= 1
  BY ValuesAssumption
<1>4. CASE v.type = "bool"
  <2> DEFINE num == IF v.data THEN One ELSE 0
  <2>1. v.data \in BOOLEAN /\ t = Text(num, FALSE)
    BY <1>4 DEF Held, ToText
  <2>2. /\ t.num = num /\ t.number /\ ~ t.rest /\ ~ t.point
    BY <2>1 DEF Text
  <2>3. num \in {0, One} /\ ((num = One) <=> v.data)
    BY <1>3, <2>1
  <2> HIDE DEF num, t
  <2>4. Accepts("bool", t)
    BY <2>2, <2>3 DEF Accepts, Whole, InRange
  <2>5. again.ok /\ again.value = Value("bool", t.num = One)
    BY <1>1, <1>4, <2>4 DEF FromText, t
  <2>6. again.value.data = (num = One) /\ again.value.type = "bool"
    BY <2>2, <2>5 DEF Value
  <2>7. ToText(again.value) = Text(IF num = One THEN One ELSE 0, FALSE)
    BY <2>6 DEF ToText
  <2>8. (IF num = One THEN One ELSE 0) = num
    BY <2>3
  <2> QED BY <2>1, <2>5, <2>7, <2>8 DEF t
<1>5. CASE v.type = "int"
  <2>1. v.data \in -Bound(IntSize) .. Bound(IntSize) - 1 /\ t = Text(v.data * One, FALSE)
    BY <1>5 DEF Held, ToText
  <2>2. t.num = v.data * One /\ t.number /\ ~ t.rest /\ ~ t.point
    BY <2>1 DEF Text
  <2>3. v.data \in Int /\ (v.data * One) \div One = v.data
    <3>1. v.data \in Int
      <4>1. Bound(IntSize) \in Int
        BY BoundsAre
      <4> QED BY <2>1, <4>1
    <3>2. 0 \in 0 .. One - 1 /\ One * v.data + 0 = v.data * One
      BY <1>3, <3>1
    <3>3. (One * v.data + 0) \div One = v.data
      BY <1>3, <3>1, <3>2, Division
    <3> QED BY <3>1, <3>2, <3>3
  <2> HIDE DEF t
  <2>4. Accepts("int", t)
    BY <2>1, <2>2, <2>3 DEF Accepts, Whole, InRange
  <2>5. again.ok /\ again.value = Value("int", v.data)
    BY <1>1, <1>5, <2>2, <2>3, <2>4 DEF FromText, t
  <2>6. again.value = v
    BY <1>5, <2>5 DEF Held
  <2> QED BY <2>5, <2>6 DEF t
<1>6. CASE v.type = "real"
  <2>1. v.data \in -MaxReal .. MaxReal /\ t = Text(Rounded(v.data), TRUE)
    BY <1>6 DEF Held, ToText
  <2>2. t.num = Rounded(v.data) /\ t.number /\ ~ t.rest
    BY <2>1 DEF Text
  <2>3. v.data \in Int
    BY <2>1, MaxRealAssumption
  <2>4. Rounded(v.data) \in -MaxReal .. MaxReal /\ Rounded(Rounded(v.data)) = Rounded(v.data)
    BY <2>1, <2>3, RoundedIs
  <2> HIDE DEF t
  <2>5. Accepts("real", t)
    BY <2>2, <2>4 DEF Accepts, Whole, InRange
  <2>6. again.ok /\ again.value = Value("real", Rounded(v.data))
    BY <1>1, <1>6, <2>2, <2>5 DEF FromText, t
  <2>7. ToText(again.value) = Text(Rounded(Rounded(v.data)), TRUE)
    <3>1. again.value.type = "real" /\ again.value.data = Rounded(v.data)
      BY <2>6 DEF Value
    <3> QED BY <3>1 DEF ToText
  <2> QED BY <2>1, <2>4, <2>6, <2>7 DEF t
<1> QED BY <1>1, <1>2, <1>4, <1>5, <1>6 DEF TypeName

(* A variable has what the last text that it accepted says.                *)
AcceptedLast ==
    input.job = "text" =>
        LET v == input.value
            t == LastOf(input.accepted)
        IN  IF input.accepted = <<>> THEN v = Default(v.type)
            ELSE /\ t \in Texts
                 /\ v.type = "string" \/ Accepts(v.type, t)
                 /\ v = FromText(Default(v.type), t).value

LEMMA AcceptedInit == Init => AcceptedLast
<1> SUFFICES ASSUME Init, input.job = "text" PROVE AcceptedLast
  BY DEF AcceptedLast
<1>1. PICK type \in TypeName :
         input = [job |-> "text", value |-> Default(type), accepted |-> <<>>]
  BY DEF Init
<1> QED BY <1>1, DefaultIs DEF AcceptedLast

LEMMA AcceptedStep == TypeOK /\ AcceptedLast /\ [Next]_input => AcceptedLast'
<1> SUFFICES ASSUME TypeOK, AcceptedLast, [Next]_input PROVE AcceptedLast'
  OBVIOUS
<1>1. ASSUME NEW t \in Texts, GiveText(t) PROVE AcceptedLast'
  <2> DEFINE v == input.value
             r == FromText(v, t)
  <2>1. input \in TextInput
    BY <1>1 DEF GiveText, TypeOK, ConditionInput, RenamingInput, LineInput, NameInput,
            MessageInput, PlaceInput, TextInput
  <2>2. v \in [type : TypeName, data : Datum] /\ input.accepted \in Seq(Texts)
    BY <2>1 DEF TextInput
  <2>3. /\ input'.value = r.value
        /\ input'.accepted = IF r.ok THEN Append(input.accepted, t) ELSE input.accepted
    BY <1>1, <2>1 DEF GiveText, TextInput
  <2>4. r.value.type = v.type /\ Default(v.type).type = v.type
    BY <2>2, FromTextIs, DefaultIs
  <2>5. CASE r.ok
    <3>1. /\ Append(input.accepted, t) # <<>>
          /\ LastOf(Append(input.accepted, t)) = t
      BY <2>2 DEF LastOf
    <3>2. v.type = "string" \/ Accepts(v.type, t)
      BY <2>5 DEF FromText
    <3>3. r.value = FromText(Default(v.type), t).value
      <4> DEFINE w == Default(v.type)
      <4>1. w.type = v.type
        BY <2>4
      <4> HIDE DEF w, v
      <4>2. ASSUME v.type = "string" PROVE FromText(v, t).value = FromText(w, t).value
        BY <4>1, <4>2 DEF FromText
      <4>3. ASSUME v.type # "string" PROVE FromText(v, t).value = FromText(w, t).value
        <5> DEFINE d(x) == CASE x.type = "bool" -> t.num = One
                             [] x.type = "int"  -> t.num \div One
                             [] x.type = "real" -> t.num
        <5>1. Accepts(v.type, t) /\ Accepts(w.type, t) /\ w.type # "string"
          BY <3>2, <4>1, <4>3
        <5>2. /\ FromText(v, t).value = Value(v.type, d(v))
              /\ FromText(w, t).value = Value(w.type, d(w))
          BY <4>3, <5>1 DEF FromText
        <5>3. d(v) = d(w)
          <6>1. v.type \in {"bool", "int", "real"}
            BY <2>2, <4>3 DEF TypeName, v
          <6> QED BY <4>1, <6>1
        <5> HIDE DEF d
        <5> QED BY <4>1, <5>2, <5>3
      <4> QED BY <4>2, <4>3 DEF w
    <3> HIDE DEF r, v
    <3> QED BY <2>3, <2>4, <2>5, <3>1, <3>2, <3>3 DEF AcceptedLast
  <2>6. CASE ~ r.ok
    <3>1. r.value = v
      BY <2>6 DEF FromText
    <3>2. input'.value = input.value /\ input'.accepted = input.accepted
      BY <2>3, <2>6, <3>1
    <3>3. input.job = "text"
      BY <1>1 DEF GiveText
    <3> HIDE DEF r, v
    <3> QED BY <3>2, <3>3 DEF AcceptedLast
  <2> QED BY <2>5, <2>6
<1>2. ASSUME input' = input \/ input'.job # "text" PROVE AcceptedLast'
  BY <1>2 DEF AcceptedLast
<1>3. ASSUME \/ \E w \in Words : AddWord(w)
             \/ \E existed, remapped \in Key : AddRenaming(existed, remapped)
             \/ \E k \in Key : AddResult(k)
             \/ \E s \in Style : AddParameter(s)
             \/ \E c \in Letter : AddChar(c)
             \/ \E type \in TypeName : \E v \in Sample(type) : Write(v)
             \/ \E p \in NamePart : AddPart(p)
             \/ \E w \in 0 .. Top : AddLoad(w)
      PROVE  input'.job # "text"
  <2>1. TypeOK'
    BY TypeStep
  <2> QED BY <1>3, <2>1 DEF TypeOK, ConditionInput, RenamingInput, LineInput, NameInput,
             MessageInput, PlaceInput, TextInput, AddWord, AddRenaming, AddResult,
             AddParameter, AddChar, Write, AddPart, AddLoad
<1> QED BY <1>1, <1>2, <1>3 DEF Next, Words, Letter

(* The text that a variable accepted, its own value and what it shows.     *)
LEMMA AcceptedIs ==
    ASSUME NEW type \in TypeName, NEW t \in Texts, type = "string" \/ Accepts(type, t)
    PROVE  LET v == FromText(Default(type), t).value
               shown == ToText(v)
           IN  /\ Held(v) /\ v.type = type
               /\ IF type = "string" THEN shown = t
                  ELSE /\ t.number /\ ~ t.rest
                       /\ 2 * Apart(shown.num, t.num) <=
                             (IF type = "real" THEN Printed ELSE 0)
<1> DEFINE v == FromText(Default(type), t).value
           shown == ToText(v)
<1>1. /\ t.num \in Int /\ t.point \in BOOLEAN /\ t.rest \in BOOLEAN /\ t.number \in BOOLEAN
      /\ t.point \/ t.num % One = 0
  BY TextsAre
<1>2. Default(type).type = type
  BY DefaultIs
<1>3. One \in Nat /\ One >= 1
  BY ValuesAssumption
<1>4. \A k \in Int : 2 * Apart(k, k) <= 0
  BY DEF Apart
<1>5. CASE type = "string"
  <2>1. v = Value("string", t)
    BY <1>2, <1>5 DEF FromText
  <2>2. v.type = "string" /\ v.data = t /\ v = Value(v.type, v.data)
    BY <2>1 DEF Value
  <2>3. shown = t
    BY <2>2 DEF ToText
  <2>4. Held(v)
    BY <2>2 DEF Held, TypeName
  <2> HIDE DEF v, shown
  <2> QED BY <1>5, <2>2, <2>3, <2>4 DEF v, shown
<1>6. ASSUME type # "string"
      PROVE  /\ t.number /\ ~ t.rest /\ InRange(type, t.num)
             /\ t.point => type = "real"
  BY <1>6 DEF Accepts, Whole
<1>7. CASE type = "bool"
  <2>1. v = Value("bool", t.num = One) /\ t.num \in {0, One}
    BY <1>2, <1>6, <1>7 DEF FromText, InRange
  <2> DEFINE b == t.num = One
  <2>2. b \in BOOLEAN /\ v.type = "bool" /\ v.data = b /\ v = Value(v.type, v.data)
    BY <2>1 DEF Value
  <2>3. shown = Text(IF b THEN One ELSE 0, FALSE)
    BY <2>2 DEF ToText
  <2>4. shown.num = t.num
    BY <1>3, <2>1, <2>3 DEF Text
  <2>5. Held(v)
    BY <2>2 DEF Held, TypeName
  <2> HIDE DEF v, shown
  <2> QED BY <1>1, <1>4, <1>6, <1>7, <2>2, <2>4, <2>5 DEF v, shown
<1>8. CASE type = "int"
  <2> DEFINE d == t.num \div One
  <2>1. v = Value("int", d) /\ d \in -Bound(IntSize) .. Bound(IntSize) - 1
    BY <1>2, <1>6, <1>8 DEF FromText, InRange
  <2>2. v.type = "int" /\ v.data = d /\ v = Value(v.type, v.data)
    BY <2>1 DEF Value
  <2>3. shown = Text(d * One, FALSE)
    BY <2>2 DEF ToText
  <2>4. d * One = t.num
    BY <1>1, <1>3, <1>6, <1>8
  <2>5. shown.num = t.num
    BY <2>3, <2>4 DEF Text
  <2>6. Held(v)
    BY <2>1, <2>2 DEF Held, TypeName
  <2> HIDE DEF v, shown
  <2> QED BY <1>1, <1>4, <1>6, <1>8, <2>2, <2>5, <2>6 DEF v, shown
<1>9. CASE type = "real"
  <2>1. v = Value("real", t.num) /\ t.num \in -MaxReal .. MaxReal
    BY <1>2, <1>6, <1>9 DEF FromText, InRange
  <2>2. v.type = "real" /\ v.data = t.num /\ v = Value(v.type, v.data)
    BY <2>1 DEF Value
  <2>3. shown = Text(Rounded(t.num), TRUE)
    BY <2>2 DEF ToText
  <2>4. shown.num = Rounded(t.num)
    BY <2>3 DEF Text
  <2>5. 2 * Apart(shown.num, t.num) <= Printed
    BY <1>1, <2>4, RoundedIs
  <2>6. Held(v)
    BY <2>1, <2>2 DEF Held, TypeName
  <2> HIDE DEF v, shown
  <2> QED BY <1>6, <1>9, <2>2, <2>5, <2>6 DEF v, shown
<1> QED BY <1>5, <1>7, <1>8, <1>9 DEF TypeName

(* The operator reads what the last accepted text says, for numbers of     *)
(* every width and precision, and may type what is read.                   *)
THEOREM TextsKeepNumbers == Spec => []TextKeepsMeaning
<1>1. TypeOK /\ AcceptedLast => TextKeepsMeaning
  <2> SUFFICES ASSUME TypeOK, AcceptedLast, input.job = "text" PROVE TextKeepsMeaning
    BY DEF TextKeepsMeaning
  <2> DEFINE v == input.value
             t == LastOf(input.accepted)
  <2>1. v.type \in TypeName
    BY DEF TypeOK, ConditionInput, RenamingInput, LineInput, NameInput, MessageInput,
           PlaceInput, TextInput
  <2> HIDE DEF v
  <2>2. CASE input.accepted = <<>>
    <3>1. v = Default(v.type)
      BY <2>2 DEF AcceptedLast, v
    <3>2. Held(v)
      <4>1. 0 \in -Bound(IntSize) .. Bound(IntSize) - 1 /\ 0 \in -MaxReal .. MaxReal
        BY BoundsAre, MaxRealAssumption
      <4>2. v = Value(v.type, v.data)
        BY <3>1 DEF Default, Value
      <4>3. /\ v.type = "bool" => v.data = FALSE
            /\ v.type \in {"int", "real"} => v.data = 0
        <5>1. /\ Default("bool").data = FALSE
              /\ Default("int").data = 0 /\ Default("real").data = 0
          BY DEF Default, Value
        <5> QED BY <3>1, <5>1
      <4> QED BY <2>1, <4>1, <4>2, <4>3 DEF Held
    <3>3. LET again == FromText(Default(v.type), ToText(v))
          IN  again.ok /\ ToText(again.value) = ToText(v)
      BY <3>2, ShownAgain
    <3> QED BY <2>2, <3>3 DEF TextKeepsMeaning, v
  <2>3. CASE input.accepted # <<>>
    <3>1. /\ t \in Texts /\ (v.type = "string" \/ Accepts(v.type, t))
          /\ v = FromText(Default(v.type), t).value
      BY <2>3 DEF AcceptedLast, v
    <3> HIDE DEF t
    <3>2. /\ Held(v)
          /\ IF v.type = "string" THEN ToText(v) = t
             ELSE /\ t.number /\ ~ t.rest
                  /\ 2 * Apart(ToText(v).num, t.num) <=
                        (IF v.type = "real" THEN Printed ELSE 0)
      BY <2>1, <3>1, AcceptedIs
    <3>3. LET again == FromText(Default(v.type), ToText(v))
          IN  again.ok /\ ToText(again.value) = ToText(v)
      BY <3>2, ShownAgain
    <3> QED BY <3>2, <3>3 DEF TextKeepsMeaning, v, t, LastOf
  <2> QED BY <2>2, <2>3
<1>2. Spec => []AcceptedLast
  BY AcceptedInit, AcceptedStep, TypeCorrect, PTL DEF Spec
<1> QED BY <1>1, <1>2, TypeCorrect, PTL
----------------------------------------------------------------------------
(* Lines.  A parameter in quotes is followed backwards from the place of   *)
(* its closing quote, and the parameters of a line backwards from its end; *)
(* both work for every beginning of the line as well, which is what the    *)
(* reader may have.  First, the characters of which a line is made.        *)
Ch == NotSpace \cup Space

LEMMA Marks == Quote # Backslash /\ Quote # "0" /\ Quote \in Ch /\ Backslash \in Ch
BY DEF Quote, Backslash, Space, NotSpace, Ch

LEMMA SpaceIs == \A c : c \in Space <=> c = " "
BY DEF Space

LEMMA NotSpaceIs ==
    /\ \A c \in Letter \cup {"1"} : c \in Ch /\ (c \in NotSpace <=> c # " ")
    /\ Quote # " " /\ Quote \in NotSpace
    /\ \A c \in NotSpace : c # " "
BY DEF Quote, Backslash, Space, NotSpace, Alnum, Alpha, Ch, Letter

(* find_if stops at the first character of the set, or at the end.         *)
LEMMA FoundIs ==
    ASSUME NEW C, NEW L \in Seq(C), NEW i \in 1 .. End(L), NEW S
    PROVE  /\ FindIf(L, i, S) \in i .. End(L)
           /\ FindIf(L, i, S) = End(L) \/ L[FindIf(L, i, S)] \in S
           /\ \A k \in i .. FindIf(L, i, S) - 1 : L[k] \notin S
<1> DEFINE Stops == {j \in i .. End(L) : j = End(L) \/ L[j] \in S}
<1>0. End(L) \in Nat
  BY DEF End
<1>1. Stops \subseteq Nat /\ End(L) \in Stops
  BY <1>0
<1>2. PICK j \in Stops : \A k \in Stops : j <= k
  <2> HIDE DEF Stops
  <2> QED BY <1>1, LeastNumber
<1>3. \A k \in i .. j - 1 : L[k] \notin S
  BY <1>0, <1>2
<1> QED BY <1>2, <1>3 DEF FindIf

(* Where find_if stops, told by what lies before it.                       *)
LEMMA FoundAt ==
    ASSUME NEW C, NEW L \in Seq(C), NEW i \in 1 .. End(L), NEW S, NEW j \in i .. End(L),
           j = End(L) \/ L[j] \in S, \A k \in i .. j - 1 : L[k] \notin S
    PROVE  FindIf(L, i, S) = j
<1> DEFINE f == FindIf(L, i, S)
<1>1. /\ f \in i .. End(L)
      /\ f = End(L) \/ L[f] \in S
      /\ \A k \in i .. f - 1 : L[k] \notin S
  BY FoundIs
<1>2. End(L) \in Nat
  BY DEF End
<1> HIDE DEF f
<1>3. ~ (f < j)
  <2> SUFFICES ASSUME f < j PROVE FALSE
    OBVIOUS
  <2>1. f \in i .. j - 1 /\ f # End(L)
    BY <1>1, <1>2
  <2> QED BY <1>1, <2>1
<1>4. ~ (j < f)
  <2> SUFFICES ASSUME j < f PROVE FALSE
    OBVIOUS
  <2>1. j \in i .. f - 1 /\ j # End(L)
    BY <1>1, <1>2
  <2> QED BY <1>1, <2>1
<1>5. f = j
  BY <1>1, <1>2, <1>3, <1>4
<1> QED BY <1>5 DEF f

(* What is copied of a parameter in quotes, from what is copied further on.*)
Copied(L, b) == [at : b .. End(L), text : Seq(Ch), ended : BOOLEAN]
QuotedFrom(L, f, i) ==
    LET q == FindIf(L, i, {Quote})
    IN  IF q = End(L) THEN Unfinished(L, i)
        ELSE CASE Cancelled(L, q) -> Prefixed(SubSeq(L, i, q - 2) \o <<Quote>>, f[q + 1])
               [] ~ Cancelled(L, q) /\ Doubled(L, q) -> Prefixed(SubSeq(L, i, q), f[q + 2])
               [] OTHER -> Rest(q + 1, SubSeq(L, i, q - 1), TRUE)

(* The outcomes of one round.                                              *)
LEMMA Round ==
    ASSUME NEW L \in Seq(Ch), NEW i \in 1 .. End(L), NEW f
    PROVE  LET q == FindIf(L, i, {Quote})
           IN  /\ q = End(L) => QuotedFrom(L, f, i) = Unfinished(L, i)
               /\ q # End(L) =>
                    /\ q \in i .. Len(L) /\ L[q] = Quote
                    /\ Cancelled(L, q) =>
                         QuotedFrom(L, f, i) =
                            Prefixed(SubSeq(L, i, q - 2) \o <<Quote>>, f[q + 1])
                    /\ ~ Cancelled(L, q) /\ Doubled(L, q) =>
                         /\ q + 1 <= Len(L) /\ L[q + 1] = Quote
                         /\ QuotedFrom(L, f, i) = Prefixed(SubSeq(L, i, q), f[q + 2])
                    /\ ~ Cancelled(L, q) /\ ~ Doubled(L, q) =>
                         QuotedFrom(L, f, i) = Rest(q + 1, SubSeq(L, i, q - 1), TRUE)
<1> DEFINE q == FindIf(L, i, {Quote})
<1>1. q \in i .. End(L) /\ (q = End(L) \/ L[q] = Quote)
  BY FoundIs
<1>2. q # End(L) => q \in i .. Len(L)
  BY <1>1 DEF End
<1>3. q # End(L) /\ Doubled(L, q) => q + 1 <= Len(L) /\ L[q + 1] = Quote
  BY <1>2, Marks DEF Doubled, Char, End
<1>4. QuotedFrom(L, f, i) =
         IF q = End(L) THEN Unfinished(L, i)
         ELSE CASE Cancelled(L, q) -> Prefixed(SubSeq(L, i, q - 2) \o <<Quote>>, f[q + 1])
                [] ~ Cancelled(L, q) /\ Doubled(L, q) -> Prefixed(SubSeq(L, i, q), f[q + 2])
                [] OTHER -> Rest(q + 1, SubSeq(L, i, q - 1), TRUE)
  BY DEF QuotedFrom
<1> HIDE DEF q
<1>5. /\ q = End(L) => QuotedFrom(L, f, i) = Unfinished(L, i)
      /\ q # End(L) /\ Cancelled(L, q) =>
           QuotedFrom(L, f, i) = Prefixed(SubSeq(L, i, q - 2) \o <<Quote>>, f[q + 1])
      /\ q # End(L) /\ ~ Cancelled(L, q) /\ Doubled(L, q) =>
           QuotedFrom(L, f, i) = Prefixed(SubSeq(L, i, q), f[q + 2])
      /\ q # End(L) /\ ~ Cancelled(L, q) /\ ~ Doubled(L, q) =>
           QuotedFrom(L, f, i) = Rest(q + 1, SubSeq(L, i, q - 1), TRUE)
  BY <1>4
<1> QED BY <1>1, <1>2, <1>3, <1>5 DEF q

LEMMA RestType ==
    ASSUME NEW L \in Seq(Ch), NEW b \in 1 .. End(L), NEW at \in b .. End(L),
           NEW text \in Seq(Ch), NEW ended \in BOOLEAN
    PROVE  Rest(at, text, ended) \in Copied(L, b)
BY DEF Rest, Copied

LEMMA PrefixedIs ==
    ASSUME NEW L, NEW b, NEW text \in Seq(Ch), NEW r \in Copied(L, b)
    PROVE  /\ Prefixed(text, r) \in Copied(L, b)
           /\ Prefixed(text, r).at = r.at /\ Prefixed(text, r).ended = r.ended
           /\ Prefixed(text, r).text = text \o r.text
BY DEF Copied, Prefixed, Rest

LEMMA QuotedType ==
    ASSUME NEW L \in Seq(Ch), NEW i \in 1 .. End(L), NEW b \in 1 .. i, NEW f,
           \A j \in i + 1 .. End(L) : f[j] \in Copied(L, b)
    PROVE  QuotedFrom(L, f, i) \in Copied(L, b)
<1> DEFINE q == FindIf(L, i, {Quote})
<1>0. End(L) = Len(L) + 1 /\ Len(L) \in Nat /\ Quote \in Ch
  BY Marks DEF End
<1>1. /\ q = End(L) => QuotedFrom(L, f, i) = Unfinished(L, i)
      /\ q # End(L) =>
           /\ q \in i .. Len(L) /\ L[q] = Quote
           /\ Cancelled(L, q) =>
                QuotedFrom(L, f, i) = Prefixed(SubSeq(L, i, q - 2) \o <<Quote>>, f[q + 1])
           /\ ~ Cancelled(L, q) /\ Doubled(L, q) =>
                /\ q + 1 <= Len(L) /\ L[q + 1] = Quote
                /\ QuotedFrom(L, f, i) = Prefixed(SubSeq(L, i, q), f[q + 2])
           /\ ~ Cancelled(L, q) /\ ~ Doubled(L, q) =>
                QuotedFrom(L, f, i) = Rest(q + 1, SubSeq(L, i, q - 1), TRUE)
  BY Round
<1> HIDE DEF q
<1>2. CASE q = End(L)
  <2>1. Rest(End(L), <<>>, FALSE) \in Copied(L, b)
    BY <1>0 DEF Rest, Copied
  <2> QED BY <1>1, <1>2, <2>1 DEF Unfinished
<1>3. CASE q # End(L) /\ Cancelled(L, q)
  <2>1. SubSeq(L, i, q - 2) \in Seq(Ch)
    BY <1>0, <1>1, <1>3
  <2>2. SubSeq(L, i, q - 2) \o <<Quote>> \in Seq(Ch)
    BY <1>0, <2>1
  <2>3. f[q + 1] \in Copied(L, b)
    BY <1>0, <1>1, <1>3
  <2> QED BY <1>1, <1>3, <2>2, <2>3, PrefixedIs
<1>4. CASE q # End(L) /\ ~ Cancelled(L, q) /\ Doubled(L, q)
  <2>1. SubSeq(L, i, q) \in Seq(Ch)
    BY <1>0, <1>1, <1>4
  <2>2. f[q + 2] \in Copied(L, b)
    BY <1>0, <1>1, <1>4
  <2> QED BY <1>1, <1>4, <2>1, <2>2, PrefixedIs
<1>5. CASE q # End(L) /\ ~ Cancelled(L, q) /\ ~ Doubled(L, q)
  <2>1. SubSeq(L, i, q - 1) \in Seq(Ch)
    BY <1>0, <1>1, <1>5
  <2>2. q + 1 \in b .. End(L) /\ b \in 1 .. End(L)
    BY <1>0, <1>1, <1>5
  <2> QED BY <1>1, <1>5, <2>1, <2>2, RestType
<1> QED BY <1>2, <1>3, <1>4, <1>5

LEMMA QuotedAgrees ==
    ASSUME NEW L \in Seq(Ch), NEW i \in 1 .. End(L), NEW f, NEW g,
           \A j \in i + 1 .. End(L) : f[j] = g[j]
    PROVE  QuotedFrom(L, f, i) = QuotedFrom(L, g, i)
<1> DEFINE q == FindIf(L, i, {Quote})
<1>1. q # End(L) => q \in i .. Len(L)
  BY Round
<1>2. q # End(L) /\ Doubled(L, q) => q + 1 <= Len(L)
  BY <1>1, Marks DEF Doubled, Char, End
<1>3. q # End(L) => f[q + 1] = g[q + 1]
  BY <1>1 DEF End
<1>4. q # End(L) /\ Doubled(L, q) => f[q + 2] = g[q + 2]
  BY <1>1, <1>2 DEF End
<1> QED BY <1>3, <1>4 DEF QuotedFrom

(* The loop over quotes is solved by the round it repeats.                 *)
LEMMA QuotedIs ==
    ASSUME NEW L \in Seq(Ch)
    PROVE  \A i \in 1 .. End(L) : /\ Quoted(L)[i] = QuotedFrom(L, Quoted(L), i)
                                  /\ Quoted(L)[i] \in Copied(L, i)
<1> DEFINE n == Len(L)
           D == 1 .. n + 1
           S == Copied(L, 1)
           next == [i \in D |-> [f \in [D -> S] |-> QuotedFrom(L, f, i)]]
           Solves(f) == f = [i \in D |-> QuotedFrom(L, f, i)]
           g == Quoted(L)
<1>0. n \in Nat /\ End(L) = n + 1
  BY DEF End
<1> HIDE DEF n
<1>1. ASSUME NEW i \in D, NEW f \in [D -> S] PROVE QuotedFrom(L, f, i) \in S
  <2>1. i \in 1 .. End(L) /\ 1 \in 1 .. i /\ \A j \in i + 1 .. End(L) : f[j] \in S
    BY <1>0
  <2> QED BY <2>1, QuotedType
<1>2. S # {}
  <2>1. <<>> \in Seq(Ch) /\ 1 \in 1 .. End(L) /\ 1 \in Nat /\ TRUE \in BOOLEAN
    BY <1>0
  <2> QED BY <2>1, RestType
<1>3. Backward(n, S, next)
  <2>1. next \in [D -> [[D -> S] -> S]]
    BY <1>1
  <2>2. ASSUME NEW i \in D, NEW f \in [D -> S], NEW h \in [D -> S],
               \A j \in D : i < j => f[j] = h[j]
        PROVE  next[i][f] = next[i][h]
    <3>1. \A j \in i + 1 .. End(L) : f[j] = h[j]
      BY <1>0, <2>2
    <3>2. i \in 1 .. End(L)
      BY <1>0
    <3>3. QuotedFrom(L, f, i) = QuotedFrom(L, h, i)
      BY <3>1, <3>2, QuotedAgrees
    <3> QED BY <3>3
  <2>3. \A i \in D : \A f, h \in [D -> S] :
           (\A j \in D : i < j => f[j] = h[j]) => next[i][f] = next[i][h]
    BY <2>2
  <2> HIDE DEF next, S
  <2> QED BY <1>0, <1>2, <2>1, <2>3 DEF Backward
<1>4. \E f : Solves(f)
  <2>1. \A i \in D : \A f \in [D -> S] : next[i][f] = QuotedFrom(L, f, i)
    OBVIOUS
  <2>2. PICK f \in [D -> S] : \A i \in D : f[i] = next[i][f]
    <3> HIDE DEF next, S
    <3> QED BY <1>3, BackwardRecursion
  <2> HIDE DEF next
  <2>3. f = [i \in D |-> QuotedFrom(L, f, i)]
    BY <2>1, <2>2
  <2> QED BY <2>3
<1>5. g = CHOOSE f : Solves(f)
  <2>1. D = 1 .. End(L)
    BY <1>0
  <2>2. Quoted(L) = CHOOSE f : f = [i \in 1 .. End(L) |-> QuotedFrom(L, f, i)]
    BY DEF Quoted, QuotedFrom
  <2> QED BY <2>1, <2>2
<1> HIDE DEF g
<1>6. Solves(g)
  <2> HIDE DEF Solves
  <2> QED BY <1>4, <1>5
<1>7. \A i \in D : g[i] = QuotedFrom(L, g, i)
  BY <1>6
<1>8. \A i \in D : g[i] \in Copied(L, i)
  <2> DEFINE P == {i \in D : g[i] \in Copied(L, i)}
  <2>1. ASSUME NEW i \in D, \A j \in i + 1 .. n + 1 : j \in P PROVE i \in P
    <3>1. \A j \in i + 1 .. End(L) : g[j] \in Copied(L, j)
      BY <1>0, <2>1
    <3>2. \A j \in i + 1 .. End(L) : Copied(L, j) \subseteq Copied(L, i)
      <4> SUFFICES ASSUME NEW j \in i + 1 .. End(L), NEW r \in Copied(L, j)
                   PROVE  r \in Copied(L, i)
        OBVIOUS
      <4>1. \A x \in j .. End(L) : x \in i .. End(L)
        BY <1>0
      <4> QED BY <4>1 DEF Copied
    <3>3. i \in 1 .. End(L) /\ i \in 1 .. i
      BY <1>0
    <3>4. \A j \in i + 1 .. End(L) : g[j] \in Copied(L, i)
      BY <3>1, <3>2
    <3>5. QuotedFrom(L, g, i) \in Copied(L, i)
      BY <3>3, <3>4, QuotedType
    <3> QED BY <1>7, <3>5
  <2>2. \A i \in 1 .. n + 1 : (\A j \in i + 1 .. n + 1 : j \in P) => i \in P
    BY <2>1
  <2> HIDE DEF P
  <2>3. \A i \in 1 .. n + 1 : i \in P
    BY <1>0, <2>2, BackwardInduction
  <2> QED BY <2>3 DEF P
<1> QED BY <1>0, <1>7, <1>8 DEF g

LEMMA Associative ==
    \A s, t, u \in Seq(Ch) : (s \o t) \o u = s \o (t \o u)
BY ConcatAssociative

LEMMA FirstOff ==
    ASSUME NEW L \in Seq(Ch), NEW i \in 1 .. Len(L), NEW k \in i .. Len(L)
    PROVE  SubSeq(L, i, k) = <<L[i]>> \o SubSeq(L, i + 1, k)
BY SubSeqRecursiveFirst

(* A character that is no quote and cancels none is copied.                *)
LEMMA PlainCharacter ==
    ASSUME NEW L \in Seq(Ch), NEW i \in 1 .. Len(L), L[i] # Quote,
           ~ (L[i] = Backslash /\ Char(L, i + 1) = Quote)
    PROVE  /\ Quoted(L)[i].at = Quoted(L)[i + 1].at
           /\ Quoted(L)[i].ended = Quoted(L)[i + 1].ended
           /\ Quoted(L)[i].ended =>
                 Quoted(L)[i].text = <<L[i]>> \o Quoted(L)[i + 1].text
<1> DEFINE f == Quoted(L)
           q == FindIf(L, i, {Quote})
<1>0. /\ Len(L) \in Nat /\ End(L) = Len(L) + 1
      /\ i \in 1 .. End(L) /\ i + 1 \in 1 .. End(L) /\ L[i] \in Ch
  BY DEF End
<1>1. q \in i + 1 .. End(L)
  BY <1>0, FoundIs
<1>2. q = FindIf(L, i + 1, {Quote})
  <2>1. q = End(L) \/ L[q] \in {Quote}
    BY <1>0, FoundIs
  <2>2. \A k \in i + 1 .. q - 1 : L[k] \notin {Quote}
    <3>1. \A k \in i .. q - 1 : L[k] \notin {Quote}
      BY <1>0, FoundIs
    <3> HIDE DEF q
    <3> QED BY <1>0, <1>1, <3>1
  <2> HIDE DEF q
  <2>3. FindIf(L, i + 1, {Quote}) = q
    BY <1>0, <1>1, <2>1, <2>2, FoundAt
  <2> QED BY <2>3
<1>3. f[i] = QuotedFrom(L, f, i) /\ f[i + 1] = QuotedFrom(L, f, i + 1)
  BY <1>0, QuotedIs
<1>4. \A k \in 1 .. End(L) : f[k] \in Copied(L, k)
  BY QuotedIs
<1>5. /\ q = End(L) => f[i] = Unfinished(L, i) /\ f[i + 1] = Unfinished(L, i + 1)
      /\ q # End(L) =>
           /\ q \in i + 1 .. Len(L) /\ L[q] = Quote
           /\ Cancelled(L, q) =>
                /\ f[i] = Prefixed(SubSeq(L, i, q - 2) \o <<Quote>>, f[q + 1])
                /\ f[i + 1] = Prefixed(SubSeq(L, i + 1, q - 2) \o <<Quote>>, f[q + 1])
           /\ ~ Cancelled(L, q) /\ Doubled(L, q) =>
                /\ q + 1 <= Len(L)
                /\ f[i] = Prefixed(SubSeq(L, i, q), f[q + 2])
                /\ f[i + 1] = Prefixed(SubSeq(L, i + 1, q), f[q + 2])
           /\ ~ Cancelled(L, q) /\ ~ Doubled(L, q) =>
                /\ f[i] = Rest(q + 1, SubSeq(L, i, q - 1), TRUE)
                /\ f[i + 1] = Rest(q + 1, SubSeq(L, i + 1, q - 1), TRUE)
  <2>1. /\ q = End(L) => f[i] = Unfinished(L, i)
        /\ q # End(L) =>
             /\ q \in i .. Len(L) /\ L[q] = Quote
             /\ Cancelled(L, q) =>
                  f[i] = Prefixed(SubSeq(L, i, q - 2) \o <<Quote>>, f[q + 1])
             /\ ~ Cancelled(L, q) /\ Doubled(L, q) =>
                  /\ q + 1 <= Len(L)
                  /\ f[i] = Prefixed(SubSeq(L, i, q), f[q + 2])
             /\ ~ Cancelled(L, q) /\ ~ Doubled(L, q) =>
                  f[i] = Rest(q + 1, SubSeq(L, i, q - 1), TRUE)
    <3> HIDE DEF f
    <3> QED BY <1>0, <1>3, Round
  <2>2. LET p == FindIf(L, i + 1, {Quote})
        IN  /\ p = End(L) => f[i + 1] = Unfinished(L, i + 1)
            /\ p # End(L) =>
                 /\ Cancelled(L, p) =>
                      f[i + 1] = Prefixed(SubSeq(L, i + 1, p - 2) \o <<Quote>>, f[p + 1])
                 /\ ~ Cancelled(L, p) /\ Doubled(L, p) =>
                      f[i + 1] = Prefixed(SubSeq(L, i + 1, p), f[p + 2])
                 /\ ~ Cancelled(L, p) /\ ~ Doubled(L, p) =>
                      f[i + 1] = Rest(p + 1, SubSeq(L, i + 1, p - 1), TRUE)
    <3> HIDE DEF f
    <3> QED BY <1>0, <1>3, Round
  <2> HIDE DEF f, q
  <2>3. /\ q = End(L) => f[i + 1] = Unfinished(L, i + 1)
        /\ q # End(L) =>
             /\ Cancelled(L, q) =>
                  f[i + 1] = Prefixed(SubSeq(L, i + 1, q - 2) \o <<Quote>>, f[q + 1])
             /\ ~ Cancelled(L, q) /\ Doubled(L, q) =>
                  f[i + 1] = Prefixed(SubSeq(L, i + 1, q), f[q + 2])
             /\ ~ Cancelled(L, q) /\ ~ Doubled(L, q) =>
                  f[i + 1] = Rest(q + 1, SubSeq(L, i + 1, q - 1), TRUE)
    BY <1>2, <2>2
  <2>4. q # End(L) => q \in i + 1 .. Len(L)
    BY <1>0, <1>1
  <2> QED BY <2>1, <2>3, <2>4
<1> HIDE DEF f, q
<1> DEFINE c == <<L[i]>>
<1>6. c \in Seq(Ch)
  BY <1>0
<1>7. CASE q = End(L)
  BY <1>5, <1>7 DEF Unfinished, Rest, f
<1>8. CASE q # End(L) /\ Cancelled(L, q)
  <2>1. q # i + 1 /\ q - 2 \in i .. Len(L)
    <3>1. q = i + 1 => L[i] = Backslash /\ Char(L, i + 1) = Quote
      BY <1>0, <1>5, <1>8 DEF Cancelled, Char
    <3> QED BY <1>0, <1>5, <1>8, <3>1
  <2> DEFINE s == SubSeq(L, i + 1, q - 2)
             t == f[q + 1].text
  <2>2. s \in Seq(Ch) /\ f[q + 1] \in Copied(L, q + 1)
    BY <1>0, <1>4, <1>5, <1>8, <2>1
  <2>3. t \in Seq(Ch) /\ <<Quote>> \in Seq(Ch)
    BY <2>2, Marks DEF Copied
  <2>4. SubSeq(L, i, q - 2) = c \o s
    BY <2>1, FirstOff
  <2> HIDE DEF s, t, c
  <2>5. ((c \o s) \o <<Quote>>) \o t = c \o ((s \o <<Quote>>) \o t)
    <3>1. s \o <<Quote>> \in Seq(Ch)
      BY <2>2, <2>3
    <3>2. (c \o s) \o <<Quote>> = c \o (s \o <<Quote>>)
      BY <1>6, <2>2, <2>3, Associative
    <3>3. (c \o (s \o <<Quote>>)) \o t = c \o ((s \o <<Quote>>) \o t)
      BY <1>6, <2>3, <3>1, Associative
    <3> QED BY <3>2, <3>3
  <2>6. /\ f[i] = Rest(f[q + 1].at, ((c \o s) \o <<Quote>>) \o t, f[q + 1].ended)
        /\ f[i + 1] = Rest(f[q + 1].at, (s \o <<Quote>>) \o t, f[q + 1].ended)
    BY <1>5, <1>8, <2>4 DEF Prefixed, s, t
  <2> QED BY <2>5, <2>6 DEF Rest, f, c
<1>9. CASE q # End(L) /\ ~ Cancelled(L, q) /\ Doubled(L, q)
  <2> DEFINE s == SubSeq(L, i + 1, q)
             t == f[q + 2].text
  <2>1. q \in i .. Len(L)
    BY <1>0, <1>5, <1>9
  <2>2. s \in Seq(Ch) /\ f[q + 2] \in Copied(L, q + 2)
    BY <1>0, <1>4, <1>5, <1>9
  <2>3. t \in Seq(Ch)
    BY <2>2 DEF Copied
  <2>4. SubSeq(L, i, q) = c \o s
    BY <2>1, FirstOff
  <2> HIDE DEF s, t, c
  <2>5. (c \o s) \o t = c \o (s \o t)
    BY <1>6, <2>2, <2>3, Associative
  <2>6. /\ f[i] = Rest(f[q + 2].at, (c \o s) \o t, f[q + 2].ended)
        /\ f[i + 1] = Rest(f[q + 2].at, s \o t, f[q + 2].ended)
    BY <1>5, <1>9, <2>4 DEF Prefixed, s, t
  <2> QED BY <2>5, <2>6 DEF Rest, f, c
<1>10. CASE q # End(L) /\ ~ Cancelled(L, q) /\ ~ Doubled(L, q)
  <2>1. q - 1 \in i .. Len(L)
    BY <1>0, <1>5, <1>10
  <2> DEFINE s == SubSeq(L, i + 1, q - 1)
  <2>2. SubSeq(L, i, q - 1) = c \o s
    BY <2>1, FirstOff
  <2> HIDE DEF c, s
  <2>3. f[i] = Rest(q + 1, c \o s, TRUE) /\ f[i + 1] = Rest(q + 1, s, TRUE)
    BY <1>5, <1>10, <2>2 DEF s
  <2> QED BY <2>3 DEF Rest, f, c
<1> QED BY <1>7, <1>8, <1>9, <1>10

(* Two quotes are copied as one.                                           *)
LEMMA DoubledQuote ==
    ASSUME NEW L \in Seq(Ch), NEW i \in 1 .. Len(L), i + 1 <= Len(L),
           L[i] = Quote, L[i + 1] = Quote, Char(L, i - 1) # Backslash
    PROVE  Quoted(L)[i] = Prefixed(<<Quote>>, Quoted(L)[i + 2])
<1>0. Len(L) \in Nat /\ End(L) = Len(L) + 1 /\ i \in 1 .. End(L) /\ i # End(L) /\ i \in i .. End(L)
  BY DEF End
<1>1. FindIf(L, i, {Quote}) = i
  <2>1. \A k \in i .. i - 1 : L[k] \notin {Quote}
    OBVIOUS
  <2> QED BY <1>0, <2>1, FoundAt
<1>2. ~ Cancelled(L, i) /\ Doubled(L, i)
  BY <1>0 DEF Cancelled, Doubled, Char
<1>3. SubSeq(L, i, i) = <<Quote>>
  <2>1. SubSeq(L, i, i) = <<L[i]>> \o SubSeq(L, i + 1, i)
    BY FirstOff
  <2>2. SubSeq(L, i + 1, i) = <<>>
    BY SubSeqEmpty
  <2>3. <<Quote>> \in Seq(Ch)
    BY Marks
  <2> QED BY <2>1, <2>2, <2>3, ConcatEmptySeq
<1>4. Quoted(L)[i] = QuotedFrom(L, Quoted(L), i)
  BY <1>0, QuotedIs
<1> QED BY <1>0, <1>1, <1>2, <1>3, <1>4, Round

(* A quote after a backslash is copied without it.                         *)
LEMMA EscapedQuote ==
    ASSUME NEW L \in Seq(Ch), NEW i \in 1 .. Len(L), i + 1 <= Len(L),
           L[i] = Backslash, L[i + 1] = Quote
    PROVE  Quoted(L)[i] = Prefixed(<<Quote>>, Quoted(L)[i + 2])
<1>0. /\ Len(L) \in Nat /\ End(L) = Len(L) + 1 /\ i \in 1 .. End(L)
      /\ i + 1 # End(L) /\ i + 1 \in i .. End(L)
  BY DEF End
<1>1. FindIf(L, i, {Quote}) = i + 1
  <2>1. \A k \in i .. (i + 1) - 1 : L[k] \notin {Quote}
    BY Marks
  <2> QED BY <1>0, <2>1, FoundAt
<1>2. Cancelled(L, i + 1)
  BY <1>0 DEF Cancelled, Char
<1>3. SubSeq(L, i, (i + 1) - 2) \o <<Quote>> = <<Quote>>
  <2>1. SubSeq(L, i, (i + 1) - 2) = <<>>
    BY <1>0
  <2>2. <<Quote>> \in Seq(Ch)
    BY Marks
  <2> QED BY <2>1, <2>2, ConcatEmptySeq
<1>4. Quoted(L)[i] = QuotedFrom(L, Quoted(L), i)
  BY <1>0, QuotedIs
<1>5. Quoted(L)[i] = Prefixed(SubSeq(L, i, (i + 1) - 2) \o <<Quote>>, Quoted(L)[(i + 1) + 1])
  BY <1>0, <1>1, <1>2, <1>4, Round
<1>6. (i + 1) + 1 = i + 2
  OBVIOUS
<1> QED BY <1>3, <1>5, <1>6

(* Any other quote ends the parameter.                                     *)
LEMMA ClosingQuote ==
    ASSUME NEW L \in Seq(Ch), NEW i \in 1 .. Len(L),
           L[i] = Quote, Char(L, i - 1) # Backslash, Char(L, i + 1) # Quote
    PROVE  Quoted(L)[i] = Rest(i + 1, <<>>, TRUE)
<1>0. Len(L) \in Nat /\ End(L) = Len(L) + 1 /\ i \in 1 .. End(L) /\ i # End(L) /\ i \in i .. End(L)
  BY DEF End
<1>1. FindIf(L, i, {Quote}) = i
  <2>1. \A k \in i .. i - 1 : L[k] \notin {Quote}
    OBVIOUS
  <2> QED BY <1>0, <2>1, FoundAt
<1>2. ~ Cancelled(L, i) /\ ~ Doubled(L, i)
  BY <1>0 DEF Cancelled, Doubled
<1>3. SubSeq(L, i, i - 1) = <<>>
  BY <1>0
<1>4. Quoted(L)[i] = QuotedFrom(L, Quoted(L), i)
  BY <1>0, QuotedIs
<1> QED BY <1>0, <1>1, <1>2, <1>3, <1>4, Round

(* Without a quote the parameter never ends.                               *)
LEMMA NoQuote ==
    ASSUME NEW L \in Seq(Ch), NEW i \in 1 .. End(L), \A k \in i .. Len(L) : L[k] # Quote
    PROVE  Quoted(L)[i] = Rest(End(L), <<>>, FALSE)
<1>0. Len(L) \in Nat /\ End(L) = Len(L) + 1 /\ End(L) \in i .. End(L)
  BY DEF End
<1>1. FindIf(L, i, {Quote}) = End(L)
  <2>1. \A k \in i .. End(L) - 1 : L[k] \notin {Quote}
    BY <1>0
  <2> QED BY <1>0, <2>1, FoundAt
<1>4. Quoted(L)[i] = QuotedFrom(L, Quoted(L), i)
  BY <1>0, QuotedIs
<1> QED BY <1>1, <1>4, Round DEF Unfinished

(* The parameters from some position on, from those further on.            *)
Content == Seq(Ch)
PartOf(L) == [at : 1 .. End(L), param : Seq(Content), ended : BOOLEAN]
ParametersFrom(L, f, start) ==
    LET next == ExtractParameter(L, start)
    IN  IF next.at = End(L) THEN next
        ELSE Part(End(L), next.param \o f[next.at].param, f[next.at].ended)

LEMMA PartType ==
    ASSUME NEW L, NEW at \in 1 .. End(L), NEW param \in Seq(Content), NEW ended \in BOOLEAN
    PROVE  Part(at, param, ended) \in PartOf(L)
BY DEF Part, PartOf

(* A round of the loop over parameters goes on, and gives at most one.     *)
LEMMA ExtractIs ==
    ASSUME NEW L \in Seq(Ch), NEW s \in 1 .. End(L)
    PROVE  LET X == ExtractParameter(L, s)
           IN  /\ X \in PartOf(L) /\ Len(X.param) <= 1
               /\ s # End(L) => X.at \in s + 1 .. End(L)
               /\ s = End(L) => X = Part(End(L), <<>>, TRUE)
<1> DEFINE X == ExtractParameter(L, s)
           i == FindIf(L, s, NotSpace)
<1>0. End(L) = Len(L) + 1 /\ Len(L) \in Nat /\ s \in Nat
  BY DEF End
<1>1. i \in s .. End(L) /\ (i = End(L) \/ L[i] \in NotSpace)
  BY FoundIs
<1>2. /\ i = End(L) => X = Part(i, <<>>, TRUE)
      /\ i # End(L) /\ Char(L, i) = Quote => X = ExtractQuoted(L, i + 1)
      /\ i # End(L) /\ Char(L, i) # Quote => X = ExtractBare(L, i)
  <2>1. X = CASE i = End(L) -> Part(i, <<>>, TRUE)
              [] Char(L, i) = Quote -> ExtractQuoted(L, i + 1)
              [] OTHER -> ExtractBare(L, i)
    BY DEF ExtractParameter
  <2> HIDE DEF X, i
  <2>2. Char(L, End(L)) # Quote
    BY <1>0, Marks DEF Char
  <2> QED BY <2>1, <2>2
<1> HIDE DEF X, i
<1>3. CASE i = End(L)
  <2>1. <<>> \in Seq(Content) /\ Len(<<>>) = 0 /\ i \in 1 .. End(L)
    BY <1>0, <1>1
  <2>2. X = Part(i, <<>>, TRUE)
    BY <1>2, <1>3
  <2>3. X \in PartOf(L)
    BY <2>1, <2>2, PartType
  <2>4. X.param = <<>> /\ X.at = End(L) /\ s \in 1 .. End(L)
    BY <1>3, <2>2 DEF Part
  <2>5. Len(X.param) <= 1
    BY <2>1, <2>4
  <2>6. X = Part(End(L), <<>>, TRUE)
    BY <1>3, <2>2
  <2>7. s # End(L) => X.at \in s + 1 .. End(L)
    BY <1>0, <2>4
  <2> QED BY <2>3, <2>5, <2>6, <2>7 DEF X
<1>4. CASE i # End(L) /\ Char(L, i) = Quote
  <2> DEFINE r == Quoted(L)[i + 1]
             param == IF r.ended THEN <<r.text>> ELSE <<>>
  <2>1. i + 1 \in 1 .. End(L)
    BY <1>0, <1>1, <1>4
  <2>2. r \in Copied(L, i + 1)
    BY <2>1, QuotedIs
  <2>3. X = Part(r.at, param, r.ended)
    BY <1>2, <1>4 DEF ExtractQuoted
  <2> HIDE DEF r
  <2>4. r.at \in i + 1 .. End(L) /\ r.text \in Seq(Ch) /\ r.ended \in BOOLEAN
    BY <2>2 DEF Copied
  <2>5. param \in Seq(Content) /\ Len(param) <= 1
    <3>1. r.text \in Content
      BY <2>4 DEF Content
    <3> QED BY <3>1
  <2> HIDE DEF param
  <2>6. r.at \in 1 .. End(L) /\ s # End(L) /\ r.at \in s + 1 .. End(L)
    BY <1>0, <1>1, <2>1, <2>4
  <2>7. X \in PartOf(L)
    BY <2>3, <2>4, <2>5, <2>6, PartType
  <2>8. X.at = r.at /\ X.param = param
    BY <2>3 DEF Part
  <2> QED BY <2>5, <2>6, <2>7, <2>8 DEF X
<1>5. CASE i # End(L) /\ Char(L, i) # Quote
  <2> DEFINE e == FindIf(L, i, Space \cup {Quote})
             text == SubSeq(L, i, e - 1)
  <2>1. i \in 1 .. End(L) /\ i \in 1 .. Len(L)
    BY <1>0, <1>1, <1>5
  <2>2. e \in i .. End(L) /\ (e = End(L) \/ L[e] \in Space \cup {Quote})
    BY <2>1, FoundIs
  <2>3. X = Part(e, <<text>>, TRUE)
    BY <1>2, <1>5 DEF ExtractBare
  <2> HIDE DEF e
  <2>4. e # i
    <3>1. L[i] # Quote /\ L[i] \in NotSpace
      BY <1>1, <1>5, <2>1 DEF Char
    <3>2. L[i] \notin Space \cup {Quote}
      BY <3>1, NotSpaceIs, SpaceIs
    <3> QED BY <1>5, <2>2, <3>2
  <2>5. text \in Seq(Ch)
    BY <1>0, <2>1, <2>2
  <2> HIDE DEF text
  <2>6. <<text>> \in Seq(Content) /\ Len(<<text>>) = 1
    BY <2>5 DEF Content
  <2>7. e \in 1 .. End(L) /\ e \in s + 1 .. End(L) /\ s # End(L)
    BY <1>0, <1>1, <2>1, <2>2, <2>4
  <2>8. X \in PartOf(L)
    BY <2>3, <2>6, <2>7, PartType
  <2>9. X.at = e /\ X.param = <<text>>
    BY <2>3 DEF Part
  <2>10. Len(X.param) <= 1
    BY <2>6, <2>9
  <2> QED BY <2>7, <2>8, <2>9, <2>10 DEF X
<1> QED BY <1>3, <1>4, <1>5

(* The parameters from a position are those of one round and what the      *)
(* rounds after it give.                                                   *)
LEMMA ParametersIs ==
    ASSUME NEW L \in Seq(Ch)
    PROVE  \A s \in 1 .. End(L) :
              LET X == ExtractParameter(L, s)
                  P == Parameters(L)
              IN  /\ P[s] \in PartOf(L)
                  /\ s = End(L) => P[s].param = <<>> /\ P[s].ended
                  /\ s # End(L) =>
                       /\ P[s].param = X.param \o P[X.at].param
                       /\ P[s].ended = IF X.at = End(L) THEN X.ended ELSE P[X.at].ended
<1> DEFINE n == Len(L)
           D == 1 .. n + 1
           S == PartOf(L)
           next == [i \in D |-> [f \in [D -> S] |-> ParametersFrom(L, f, i)]]
           Solves(f) == f = [i \in D |-> ParametersFrom(L, f, i)]
           g == Parameters(L)
           X(s) == ExtractParameter(L, s)
<1>0. n \in Nat /\ End(L) = n + 1 /\ D = 1 .. End(L)
  BY DEF End
<1>1. \A s \in D : /\ X(s) \in PartOf(L)
                   /\ s # End(L) => X(s).at \in s + 1 .. End(L)
                   /\ s = End(L) => X(s).at = End(L) /\ X(s).param = <<>> /\ X(s).ended
  <2> SUFFICES ASSUME NEW s \in D
               PROVE  /\ X(s) \in PartOf(L)
                      /\ s # End(L) => X(s).at \in s + 1 .. End(L)
                      /\ s = End(L) => X(s).at = End(L) /\ X(s).param = <<>> /\ X(s).ended
    OBVIOUS
  <2>1. s \in 1 .. End(L)
    BY <1>0
  <2> QED BY <2>1, ExtractIs DEF Part
<1>2. \A f, s : ParametersFrom(L, f, s) =
         IF X(s).at = End(L) THEN X(s)
         ELSE Part(End(L), X(s).param \o f[X(s).at].param, f[X(s).at].ended)
  BY DEF ParametersFrom
<1> HIDE DEF n, X
<1>3. ASSUME NEW i \in D, NEW f, \A j \in i + 1 .. End(L) : f[j] \in S
      PROVE  ParametersFrom(L, f, i) \in S
  <2>1. CASE X(i).at = End(L)
    BY <1>1, <1>2, <2>1
  <2>2. CASE X(i).at # End(L)
    <3> DEFINE at == X(i).at
               rest == f[at]
    <3>1. at \in i + 1 .. End(L) /\ X(i).param \in Seq(Content)
      BY <1>1, <2>2 DEF PartOf
    <3>2. rest \in S
      BY <1>3, <3>1
    <3>3. rest.param \in Seq(Content) /\ rest.ended \in BOOLEAN
      BY <3>2 DEF PartOf
    <3>4. X(i).param \o rest.param \in Seq(Content)
      BY <3>1, <3>3, ConcatProperties
    <3>5. ParametersFrom(L, f, i) = Part(End(L), X(i).param \o rest.param, rest.ended)
      BY <1>2, <2>2
    <3> HIDE DEF rest
    <3>6. End(L) \in 1 .. End(L)
      BY <1>0
    <3> QED BY <3>3, <3>4, <3>5, <3>6, PartType
  <2> QED BY <2>1, <2>2
<1>4. S # {}
  <2>1. <<>> \in Seq(Content) /\ 1 \in 1 .. End(L) /\ TRUE \in BOOLEAN
    BY <1>0
  <2> QED BY <2>1, PartType
<1>5. Backward(n, S, next)
  <2>1. next \in [D -> [[D -> S] -> S]]
    <3> SUFFICES ASSUME NEW i \in D, NEW f \in [D -> S] PROVE ParametersFrom(L, f, i) \in S
      OBVIOUS
    <3>1. \A j \in i + 1 .. End(L) : f[j] \in S
      BY <1>0
    <3> QED BY <1>3, <3>1
  <2>2. ASSUME NEW i \in D, NEW f \in [D -> S], NEW h \in [D -> S],
               \A j \in D : i < j => f[j] = h[j]
        PROVE  next[i][f] = next[i][h]
    <3>1. X(i).at # End(L) => X(i).at \in D /\ i < X(i).at
      BY <1>0, <1>1
    <3>2. X(i).at # End(L) => f[X(i).at] = h[X(i).at]
      BY <2>2, <3>1
    <3>3. ParametersFrom(L, f, i) = ParametersFrom(L, h, i)
      BY <1>2, <3>2
    <3> QED BY <3>3
  <2>3. \A i \in D : \A f, h \in [D -> S] :
           (\A j \in D : i < j => f[j] = h[j]) => next[i][f] = next[i][h]
    BY <2>2
  <2> HIDE DEF next, S
  <2> QED BY <1>0, <1>4, <2>1, <2>3 DEF Backward
<1>6. \E f : Solves(f)
  <2>1. \A i \in D : \A f \in [D -> S] : next[i][f] = ParametersFrom(L, f, i)
    OBVIOUS
  <2>2. PICK f \in [D -> S] : \A i \in D : f[i] = next[i][f]
    <3> HIDE DEF next, S
    <3> QED BY <1>5, BackwardRecursion
  <2> HIDE DEF next
  <2>3. f = [i \in D |-> ParametersFrom(L, f, i)]
    BY <2>1, <2>2
  <2> QED BY <2>3
<1>7. g = CHOOSE f : Solves(f)
  <2>1. Parameters(L) = CHOOSE f : f = [i \in 1 .. End(L) |-> ParametersFrom(L, f, i)]
    BY DEF Parameters, ParametersFrom
  <2> QED BY <1>0, <2>1
<1> HIDE DEF g
<1>8. Solves(g)
  <2> HIDE DEF Solves
  <2> QED BY <1>6, <1>7
<1>9. \A i \in D : g[i] = ParametersFrom(L, g, i)
  BY <1>8
<1>10. \A i \in 1 .. n + 1 : g[i] \in S
  <2> DEFINE P == {i \in D : g[i] \in S}
  <2>1. ASSUME NEW i \in D, \A j \in i + 1 .. n + 1 : j \in P PROVE i \in P
    <3>1. \A j \in i + 1 .. End(L) : g[j] \in S
      BY <1>0, <2>1
    <3>2. ParametersFrom(L, g, i) \in S
      BY <1>3, <3>1
    <3> QED BY <1>9, <3>2
  <2>2. \A i \in 1 .. n + 1 : (\A j \in i + 1 .. n + 1 : j \in P) => i \in P
    BY <2>1
  <2> HIDE DEF P
  <2>3. \A i \in 1 .. n + 1 : i \in P
    BY <1>0, <2>2, BackwardInduction
  <2> QED BY <2>3 DEF P
<1>11. g[End(L)].param = <<>> /\ g[End(L)].ended
  <2>1. End(L) \in D
    BY <1>0
  <2>2. X(End(L)).at = End(L) /\ X(End(L)).param = <<>> /\ X(End(L)).ended
    BY <1>1, <2>1
  <2>3. g[End(L)] = X(End(L))
    BY <1>2, <1>9, <2>1, <2>2
  <2> QED BY <2>2, <2>3
<1>12. ASSUME NEW s \in D, s # End(L)
       PROVE  /\ g[s].param = X(s).param \o g[X(s).at].param
              /\ g[s].ended = IF X(s).at = End(L) THEN X(s).ended ELSE g[X(s).at].ended
  <2>1. X(s).param \in Seq(Content)
    BY <1>1 DEF PartOf
  <2>2. CASE X(s).at = End(L)
    <3>1. g[s] = X(s)
      BY <1>2, <1>9, <2>2
    <3>2. X(s).param \o <<>> = X(s).param
      BY <2>1, ConcatEmptySeq
    <3> QED BY <1>11, <2>2, <3>1, <3>2
  <2>3. CASE X(s).at # End(L)
    <3> DEFINE rest == g[X(s).at]
               param == X(s).param \o rest.param
    <3>1. g[s] = Part(End(L), param, rest.ended)
      BY <1>2, <1>9, <2>3
    <3> HIDE DEF rest, param
    <3>2. g[s].param = param /\ g[s].ended = rest.ended
      BY <3>1 DEF Part
    <3> QED BY <2>3, <3>2 DEF rest, param
  <2> QED BY <2>2, <2>3
<1> QED BY <1>0, <1>10, <1>11, <1>12 DEF g, X

(* A chain of sequences, each the one before with a piece added: it grows, *)
(* and each piece is found in all that come after it.                      *)
Join(s, t) == s \o t
Chain(g, n, first, piece) ==
    g = [k \in 0 .. n |-> IF k = 0 THEN first ELSE Join(g[k - 1], piece[k])]

LEMMA JoinIs ==
    ASSUME NEW A, NEW s \in Seq(A), NEW t \in Seq(A)
    PROVE  /\ Join(s, t) \in Seq(A)
           /\ Len(s) \in Nat /\ Len(t) \in Nat /\ Len(Join(s, t)) = Len(s) + Len(t)
           /\ \A x \in 1 .. Len(s) : Join(s, t)[x] = s[x]
BY DEF Join

LEMMA JoinRight ==
    ASSUME NEW A, NEW s \in Seq(A), NEW t \in Seq(A), NEW z \in 1 .. Len(t)
    PROVE  Join(s, t)[Len(s) + z] = t[z]
BY DEF Join

Pieces(A, n, first, piece) ==
    n \in Nat /\ first \in Seq(A) /\ \A k \in 1 .. n : piece[k] \in Seq(A)

(* There is such a chain, and it is the one that a definition by recursion *)
(* names.                                                                  *)
LEMMA ChainExists ==
    ASSUME NEW A, NEW n, NEW first, NEW piece, Pieces(A, n, first, piece)
    PROVE  \E g : Chain(g, n, first, piece)
<1> DEFINE S == Seq(A)
           step == [k \in 1 .. n |-> [s \in S |-> Join(s, piece[k])]]
<1>1. \A k \in 1 .. n : \A s \in S : Join(s, piece[k]) \in S
  BY JoinIs DEF Pieces
<1>2. n \in Nat /\ first \in S
  BY DEF Pieces
<1> HIDE DEF S
<1>3. Rounds(n, S, first, step)
  BY <1>1, <1>2 DEF Rounds
<1>4. \A k \in 1 .. n : \A s \in S : step[k][s] = Join(s, piece[k])
  OBVIOUS
<1> HIDE DEF step
<1>5. \E f \in [0 .. n -> S] :
         \A j \in 0 .. n : f[j] = IF j = 0 THEN first ELSE step[j][f[j - 1]]
  BY <1>3, Iteration
<1> PICK f \in [0 .. n -> S] :
        \A j \in 0 .. n : f[j] = IF j = 0 THEN first ELSE step[j][f[j - 1]]
  BY <1>5
<1>6. \A j \in 0 .. n : f[j] = IF j = 0 THEN first ELSE Join(f[j - 1], piece[j])
  <2>1. \A j \in 1 .. n : f[j - 1] \in S
    BY <1>2
  <2> QED BY <1>2, <1>4, <1>5, <2>1
<1>7. Chain(f, n, first, piece)
  BY <1>6 DEF Chain
<1> QED BY <1>7

Grown(A, g, n, first, piece) ==
    /\ g \in [0 .. n -> Seq(A)] /\ g[0] = first
    /\ \A k \in 1 .. n : /\ g[k] = Join(g[k - 1], piece[k])
                         /\ Len(g[k]) = Len(g[k - 1]) + Len(piece[k])
    /\ \A k \in 0 .. n : \A j \in 0 .. k :
          /\ Len(g[j]) <= Len(g[k])
          /\ \A x \in 1 .. Len(g[j]) : g[k][x] = g[j][x]
    /\ \A k \in 1 .. n : \A j \in 1 .. k : \A z \in 1 .. Len(piece[j]) :
          g[k][Len(g[j - 1]) + z] = piece[j][z]

(* A chain grows, and keeps its pieces where they are.                     *)
LEMMA ChainIs ==
    ASSUME NEW A, NEW n \in Nat, NEW first, NEW piece, NEW g,
           Pieces(A, n, first, piece), Chain(g, n, first, piece)
    PROVE  Grown(A, g, n, first, piece)
<1> USE DEF Grown
<1> DEFINE S == Seq(A)
<1>0. n \in Nat
  BY DEF Pieces
<1>1. g[0] = first /\ \A k \in 1 .. n : g[k] = Join(g[k - 1], piece[k])
  <2>1. \A k \in 0 .. n : g[k] = IF k = 0 THEN first ELSE Join(g[k - 1], piece[k])
    BY DEF Chain
  <2> QED BY <1>0, <2>1
<1>2. g \in [0 .. n -> S]
  <2> DEFINE P == {k \in 0 .. n : g[k] \in S}
  <2>1. 0 \in P
    BY <1>0, <1>1 DEF Pieces
  <2>2. ASSUME NEW k \in 0 .. n - 1, k \in P PROVE k + 1 \in P
    <3>1. k + 1 \in 1 .. n /\ (k + 1) - 1 = k /\ k + 1 \in 0 .. n
      BY <1>0
    <3>2. g[k] \in Seq(A) /\ piece[k + 1] \in Seq(A)
      BY <2>2, <3>1 DEF Pieces
    <3>3. Join(g[k], piece[k + 1]) \in Seq(A)
      BY <3>2, JoinIs
    <3> QED BY <1>1, <3>1, <3>3
  <2>3. Inductive(n, P)
    BY <1>0, <2>1, <2>2 DEF Inductive
  <2> HIDE DEF P
  <2>4. \A k \in 0 .. n : k \in P
    BY <2>3, UpwardInduction
  <2> QED BY <2>4 DEF Chain, P
<1>3. ASSUME NEW k \in 1 .. n
      PROVE  /\ Len(g[k]) = Len(g[k - 1]) + Len(piece[k])
             /\ Len(g[k - 1]) \in Nat /\ Len(g[k]) \in Nat /\ Len(piece[k]) \in Nat
             /\ \A x \in 1 .. Len(g[k - 1]) : g[k][x] = g[k - 1][x]
             /\ \A z \in 1 .. Len(piece[k]) : g[k][Len(g[k - 1]) + z] = piece[k][z]
  <2>1. k - 1 \in 0 .. n /\ k \in 0 .. n
    BY <1>0
  <2>2. g[k - 1] \in Seq(A) /\ piece[k] \in Seq(A) /\ g[k] = Join(g[k - 1], piece[k])
    BY <1>1, <1>2, <2>1 DEF Pieces
  <2> DEFINE s == g[k - 1]
             t == piece[k]
             u == g[k]
  <2>3. s \in Seq(A) /\ t \in Seq(A) /\ u = Join(s, t)
    BY <2>2
  <2> HIDE DEF s, t, u
  <2>4. u \in Seq(A)
    BY <2>3, JoinIs
  <2>5. Len(u) = Len(s) + Len(t) /\ Len(s) \in Nat /\ Len(t) \in Nat /\ Len(u) \in Nat
    BY <2>3, <2>4, JoinIs
  <2>6. \A x \in 1 .. Len(s) : u[x] = s[x]
    BY <2>3, JoinIs
  <2>7. \A z \in 1 .. Len(t) : u[Len(s) + z] = t[z]
    <3>1. \A z \in 1 .. Len(t) : Join(s, t)[Len(s) + z] = t[z]
      BY <2>3, JoinRight
    <3> QED BY <2>3, <3>1
  <2> QED BY <2>5, <2>6, <2>7 DEF s, t, u
<1>4. ASSUME NEW j \in 0 .. n
      PROVE  \A k \in 0 .. n : j <= k =>
                /\ Len(g[j]) <= Len(g[k])
                /\ \A x \in 1 .. Len(g[j]) : g[k][x] = g[j][x]
  <2> DEFINE m == Len(g[j])
             P == {k \in 0 .. n : j <= k => /\ m <= Len(g[k])
                                            /\ \A x \in 1 .. m : g[k][x] = g[j][x]}
  <2>0. m \in Nat
    BY <1>2
  <2> HIDE DEF m
  <2>1. j \in P
    BY <2>0 DEF m
  <2>2. ASSUME NEW k \in 1 .. n, k - 1 \in P PROVE k \in P
    <3>1. k \in 0 .. n
      OBVIOUS
    <3>2. CASE j <= k - 1
      <4>1. m <= Len(g[k - 1]) /\ \A x \in 1 .. m : g[k - 1][x] = g[j][x]
        BY <2>2, <3>2
      <4>2. /\ Len(g[k - 1]) \in Nat /\ Len(g[k]) \in Nat /\ Len(g[k - 1]) <= Len(g[k])
            /\ \A x \in 1 .. Len(g[k - 1]) : g[k][x] = g[k - 1][x]
        <5> DEFINE a == Len(g[k - 1])
                   b == Len(piece[k])
                   c == Len(g[k])
        <5>1. c = a + b /\ a \in Nat /\ b \in Nat /\ c \in Nat
          BY <1>3, Zenon
        <5> HIDE DEF a, b, c
        <5>2. a <= c
          BY <5>1
        <5> QED BY <1>3, <5>1, <5>2, Zenon DEF a, c
      <4>3. m <= Len(g[k])
        BY <2>0, <4>1, <4>2
      <4>4. \A x \in 1 .. m : x \in 1 .. Len(g[k - 1])
        BY <2>0, <4>1, <4>2
      <4>5. \A x \in 1 .. m : g[k][x] = g[j][x]
        BY <4>1, <4>2, <4>4
      <4> QED BY <3>1, <4>3, <4>5
    <3>3. CASE ~ (j <= k - 1)
      <4>1. j = k \/ ~ (j <= k)
        BY <3>3
      <4> QED BY <2>1, <3>1, <4>1
    <3> QED BY <3>2, <3>3
  <2>3. 0 \in P
    BY <2>1
  <2>4. Inductive(n, P)
    <3>1. \A k \in 0 .. n - 1 : k + 1 \in 1 .. n /\ (k + 1) - 1 = k
      OBVIOUS
    <3> HIDE DEF P
    <3>2. \A k \in 0 .. n - 1 : k \in P => k + 1 \in P
      BY <2>2, <3>1
    <3> QED BY <1>0, <2>3, <3>2 DEF Inductive
  <2> HIDE DEF P
  <2>5. \A k \in 0 .. n : k \in P
    BY <2>4, UpwardInduction
  <2> QED BY <2>5 DEF P, m
<1>5. ASSUME NEW k \in 1 .. n, NEW j \in 1 .. k, NEW z \in 1 .. Len(piece[j])
      PROVE  g[k][Len(g[j - 1]) + z] = piece[j][z]
  <2>1. j \in 1 .. n /\ j \in 0 .. n /\ k \in 0 .. n /\ j <= k
    OBVIOUS
  <2>2. /\ Len(g[j]) = Len(g[j - 1]) + Len(piece[j])
        /\ Len(g[j - 1]) \in Nat /\ Len(piece[j]) \in Nat
        /\ g[j][Len(g[j - 1]) + z] = piece[j][z]
    BY <1>3, <2>1
  <2>3. Len(g[j - 1]) + z \in 1 .. Len(g[j])
    <3> DEFINE a == Len(g[j - 1])
               b == Len(piece[j])
               c == Len(g[j])
    <3>1. c = a + b /\ a \in Nat /\ b \in Nat /\ z \in 1 .. b
      BY <2>2
    <3> HIDE DEF a, b, c
    <3>2. a + z \in 1 .. c
      BY <3>1
    <3> QED BY <3>2 DEF a, c
  <2> QED BY <1>4, <2>1, <2>2, <2>3
<1> HIDE DEF S
<1>6. \A k \in 0 .. n : \A j \in 0 .. k : j \in 0 .. n /\ j <= k
  OBVIOUS
<1>7. g \in [0 .. n -> Seq(A)]
  BY <1>2 DEF S
<1> QED BY <1>1, <1>3, <1>4, <1>5, <1>6, <1>7

(* A parameter as it is spelled.                                           *)
Param == [style : Style, text : Seq(Letter)]

(* How one character is written.                                           *)
LEMMA WrittenIs ==
    ASSUME NEW c \in Letter, NEW s \in Style
    PROVE  /\ Written(c, s) \in Seq(Letter)
           /\ c # Quote \/ s = "bare" => Written(c, s) = <<c>>
           /\ c = Quote /\ s = "doubled" => Written(c, s) = <<Quote, Quote>>
           /\ c = Quote /\ s = "escaped" => Written(c, s) = <<Backslash, Quote>>
<1>1. Quote \in Letter /\ Backslash \in Letter
  BY DEF Letter
<1> HIDE DEF Letter
<1>2. <<c>> \in Seq(Letter) /\ <<Quote, Quote>> \in Seq(Letter)
      /\ <<Backslash, Quote>> \in Seq(Letter)
  BY <1>1
<1> QED BY <1>2 DEF Written, Style

(* The spelling of a text is a chain of written characters.                *)
LEMMA SpelledIs ==
    ASSUME NEW p \in Param
    PROVE  LET n     == Len(p.text)
               piece == [k \in 1 .. n |-> Written(p.text[k], p.style)]
           IN  /\ Pieces(Letter, n, <<>>, piece)
               /\ Chain(Spelled(p), n, <<>>, piece)
<1> DEFINE n == Len(p.text)
           piece == [k \in 1 .. n |-> Written(p.text[k], p.style)]
           Solves(g) == g = [k \in 0 .. n |->
                               IF k = 0 THEN <<>> ELSE g[k - 1] \o Written(p.text[k], p.style)]
           g == Spelled(p)
<1>1. n \in Nat /\ p.style \in Style /\ \A k \in 1 .. n : p.text[k] \in Letter
  BY DEF Param
<1>2. Pieces(Letter, n, <<>>, piece)
  BY <1>1, WrittenIs DEF Pieces
<1>3. \A h : Chain(h, n, <<>>, piece) <=> Solves(h)
  <2> DEFINE Left(h, k) == IF k = 0 THEN <<>> ELSE Join(h[k - 1], piece[k])
             Right(h, k) == IF k = 0 THEN <<>> ELSE h[k - 1] \o Written(p.text[k], p.style)
  <2>1. \A k \in 1 .. n : piece[k] = Written(p.text[k], p.style)
    OBVIOUS
  <2>2. \A h : \A k \in 0 .. n : Left(h, k) = Right(h, k)
    <3> HIDE DEF piece
    <3> QED BY <1>1, <2>1 DEF Join
  <2>3. \A h : Chain(h, n, <<>>, piece) <=> h = [k \in 0 .. n |-> Left(h, k)]
    BY DEF Chain
  <2> HIDE DEF Left, Right
  <2>4. \A h : h = [k \in 0 .. n |-> Left(h, k)] <=> h = [k \in 0 .. n |-> Right(h, k)]
    BY <2>2
  <2> QED BY <2>3, <2>4 DEF Right
<1>5. \E h : Solves(h)
  <2> HIDE DEF n, piece, Solves
  <2> QED BY <1>1, <1>2, <1>3, ChainExists
<1>6. g = CHOOSE h : Solves(h)
  BY DEF Spelled
<1> HIDE DEF g
<1>7. Solves(g)
  <2> HIDE DEF Solves
  <2> QED BY <1>5, <1>6
<1> HIDE DEF Solves
<1>8. Chain(g, n, <<>>, piece)
  BY <1>3, <1>7
<1> QED BY <1>1, <1>2, <1>8 DEF g

(* Where the pieces of a text lie in its spelling.                         *)
LEMMA PieceAt ==
    ASSUME NEW p \in Param
    PROVE  LET n == Len(p.text)
               g == Spelled(p)
               T == g[n]
           IN  /\ n \in Nat /\ T \in Seq(Letter) /\ Len(g[0]) = 0
               /\ \A j \in 0 .. n : Len(g[j]) \in Nat /\ Len(g[j]) <= Len(T)
               /\ \A j \in 1 .. n :
                     LET c == p.text[j]
                         o == Len(g[j - 1])
                     IN  /\ c # Quote \/ p.style = "bare" =>
                              Len(g[j]) = o + 1 /\ T[o + 1] = c
                         /\ c = Quote /\ p.style = "doubled" =>
                              Len(g[j]) = o + 2 /\ T[o + 1] = Quote /\ T[o + 2] = Quote
                         /\ c = Quote /\ p.style = "escaped" =>
                              Len(g[j]) = o + 2 /\ T[o + 1] = Backslash /\ T[o + 2] = Quote
<1> DEFINE n == Len(p.text)
           g == Spelled(p)
           T == g[n]
           piece == [k \in 1 .. n |-> Written(p.text[k], p.style)]
<1>1. Pieces(Letter, n, <<>>, piece) /\ Chain(g, n, <<>>, piece)
  BY SpelledIs
<1>2. n \in Nat /\ p.style \in Style /\ \A k \in 1 .. n : p.text[k] \in Letter
  BY DEF Param
<1>3. \A k \in 1 .. n : piece[k] = Written(p.text[k], p.style)
  OBVIOUS
<1> HIDE DEF n, g, piece
<1>4. /\ g \in [0 .. n -> Seq(Letter)] /\ g[0] = <<>>
      /\ \A k \in 1 .. n : Len(g[k]) = Len(g[k - 1]) + Len(piece[k])
      /\ \A k \in 0 .. n : \A j \in 0 .. k : Len(g[j]) <= Len(g[k])
      /\ \A k \in 1 .. n : \A j \in 1 .. k : \A z \in 1 .. Len(piece[j]) :
            g[k][Len(g[j - 1]) + z] = piece[j][z]
  <2>1. Grown(Letter, g, n, <<>>, piece)
    BY <1>1, <1>2, ChainIs
  <2> QED BY <2>1 DEF Grown
<1>5. \A j \in 0 .. n : Len(g[j]) \in Nat
  BY <1>4
<1>6. \A j \in 0 .. n : Len(g[j]) <= Len(T)
  BY <1>2, <1>4
<1>7. T \in Seq(Letter) /\ Len(g[0]) = 0
  BY <1>2, <1>4
<1>8. ASSUME NEW j \in 1 .. n
      PROVE  LET c == p.text[j]
                 o == Len(g[j - 1])
             IN  /\ c # Quote \/ p.style = "bare" =>
                      Len(g[j]) = o + 1 /\ T[o + 1] = c
                 /\ c = Quote /\ p.style = "doubled" =>
                      Len(g[j]) = o + 2 /\ T[o + 1] = Quote /\ T[o + 2] = Quote
                 /\ c = Quote /\ p.style = "escaped" =>
                      Len(g[j]) = o + 2 /\ T[o + 1] = Backslash /\ T[o + 2] = Quote
  <2> DEFINE c == p.text[j]
             o == Len(g[j - 1])
             w == piece[j]
  <2>1. c \in Letter /\ w = Written(c, p.style)
    BY <1>2, <1>3
  <2>2. Len(g[j]) = o + Len(w) /\ \A z \in 1 .. Len(w) : T[o + z] = w[z]
    <3>1. n \in 1 .. n /\ j \in 1 .. n
      BY <1>2
    <3> QED BY <1>4, <3>1
  <2> HIDE DEF c, o, w, T
  <2>3. /\ c # Quote \/ p.style = "bare" => w = <<c>>
        /\ c = Quote /\ p.style = "doubled" => w = <<Quote, Quote>>
        /\ c = Quote /\ p.style = "escaped" => w = <<Backslash, Quote>>
    BY <1>2, <2>1, WrittenIs
  <2>4. ASSUME w = <<c>> PROVE Len(g[j]) = o + 1 /\ T[o + 1] = c
    <3>1. Len(w) = 1 /\ w[1] = c
      BY <2>4
    <3> QED BY <2>2, <3>1
  <2>5. ASSUME NEW x, NEW y, w = <<x, y>>
        PROVE  Len(g[j]) = o + 2 /\ T[o + 1] = x /\ T[o + 2] = y
    <3>1. Len(w) = 2 /\ w[1] = x /\ w[2] = y
      BY <2>5
    <3> QED BY <2>2, <3>1
  <2> QED BY <2>3, <2>4, <2>5 DEF c, o
<1> QED BY <1>2, <1>5, <1>6, <1>7, <1>8 DEF n, g

(* The spelling of a parameter, with its quotes.                           *)
LEMMA SpellingIs ==
    ASSUME NEW p \in Param
    PROVE  LET T == Spelled(p)[Len(p.text)]
               s == Spelling(p)
           IN  /\ s \in Seq(Letter)
               /\ p.style = "bare" =>
                    /\ Len(s) = Len(p.text)
                    /\ \A y \in 1 .. Len(p.text) : s[y] = p.text[y]
               /\ p.style # "bare" =>
                    /\ Len(s) = Len(T) + 2 /\ s[1] = Quote /\ s[Len(T) + 2] = Quote
                    /\ \A y \in 1 .. Len(T) : s[1 + y] = T[y]
<1> DEFINE n == Len(p.text)
           g == Spelled(p)
           T == g[n]
           s == Spelling(p)
<1>1. n \in Nat /\ T \in Seq(Letter) /\ Len(g[0]) = 0
  BY PieceAt
<1>2. CASE p.style = "bare"
  <2>1. s = T
    BY <1>2 DEF Spelling
  <2>2. \A j \in 1 .. n : Len(g[j]) = Len(g[j - 1]) + 1 /\ T[Len(g[j - 1]) + 1] = p.text[j]
    BY <1>2, PieceAt
  <2> HIDE DEF g, n, T, s
  <2>3. \A j \in 0 .. n : Len(g[j]) = j
    <3> DEFINE P == {j \in 0 .. n : Len(g[j]) = j}
    <3>1. 0 \in P
      BY <1>1
    <3>2. ASSUME NEW j \in 0 .. n - 1, j \in P PROVE j + 1 \in P
      <4>1. j + 1 \in 1 .. n /\ (j + 1) - 1 = j /\ j + 1 \in 0 .. n
        BY <1>1
      <4>2. Len(g[j + 1]) = Len(g[(j + 1) - 1]) + 1
        BY <2>2, <4>1
      <4> QED BY <3>2, <4>1, <4>2
    <3>3. Inductive(n, P)
      BY <1>1, <3>1, <3>2 DEF Inductive
    <3> HIDE DEF P
    <3>4. \A j \in 0 .. n : j \in P
      BY <3>3, UpwardInduction
    <3> QED BY <3>4 DEF P
  <2>4. Len(T) = n
    BY <1>1, <2>3 DEF T
  <2>5. \A y \in 1 .. n : T[y] = p.text[y]
    <3> SUFFICES ASSUME NEW y \in 1 .. n PROVE T[y] = p.text[y]
      OBVIOUS
    <3>1. y - 1 \in 0 .. n
      BY <1>1
    <3>2. Len(g[y - 1]) + 1 = y
      BY <1>1, <2>3, <3>1
    <3> QED BY <2>2, <3>2
  <2> QED BY <1>1, <1>2, <2>1, <2>4, <2>5 DEF n, s
<1>3. CASE p.style # "bare"
  <2>1. s = <<Quote>> \o T \o <<Quote>>
    BY <1>3 DEF Spelling
  <2>2. Quote \in Letter
    BY DEF Letter
  <2> HIDE DEF T, s
  <2> DEFINE q == <<Quote>>
             u == Join(q, T)
  <2>3. q \in Seq(Letter) /\ Len(q) = 1 /\ q[1] = Quote
    BY <2>2
  <2>4. s = Join(u, q)
    BY <2>1 DEF Join
  <2> HIDE DEF q
  <2>0. Len(T) \in Nat
    BY <1>1
  <2>5. u \in Seq(Letter)
    BY <1>1, <2>3, JoinIs
  <2>12. Len(u) = Len(q) + Len(T)
    BY <1>1, <2>3, JoinIs
  <2>13. Len(u) = Len(T) + 1
    BY <2>0, <2>3, <2>12
  <2>6. u[1] = Quote
    <3>1. \A x \in 1 .. Len(q) : u[x] = q[x]
      BY <1>1, <2>3, JoinIs
    <3> QED BY <2>3, <3>1
  <2>7. \A y \in 1 .. Len(T) : u[1 + y] = T[y]
    <3>1. \A y \in 1 .. Len(T) : u[Len(q) + y] = T[y]
      BY <1>1, <2>3, JoinRight
    <3> QED BY <2>3, <3>1
  <2> HIDE DEF u
  <2>8. s \in Seq(Letter)
    BY <2>3, <2>4, <2>5, JoinIs
  <2>14. Len(s) = Len(u) + Len(q)
    BY <2>3, <2>4, <2>5, JoinIs
  <2>15. \A x \in 1 .. Len(u) : s[x] = u[x]
    BY <2>3, <2>4, <2>5, JoinIs
  <2>9. s[Len(u) + 1] = Quote
    <3>1. \A z \in 1 .. Len(q) : s[Len(u) + z] = q[z]
      BY <2>3, <2>4, <2>5, JoinRight
    <3> QED BY <2>3, <3>1
  <2> DEFINE n1 == Len(T)
             n2 == Len(u)
  <2>16. n1 \in Nat /\ n2 = n1 + 1 /\ Len(s) = n2 + 1 /\ 1 \in 1 .. n2
    BY <2>0, <2>3, <2>13, <2>14
  <2>17. \A y \in 1 .. n1 : 1 + y \in 1 .. n2
    BY <2>16
  <2>10. Len(s) = Len(T) + 2 /\ s[1] = Quote /\ s[Len(T) + 2] = Quote
    BY <2>6, <2>9, <2>15, <2>16
  <2>11. \A y \in 1 .. Len(T) : s[1 + y] = T[y]
    BY <2>7, <2>15, <2>17
  <2> QED BY <1>3, <2>8, <2>10, <2>11 DEF s, T
<1> QED BY <1>2, <1>3

(* The part of a line after b is the beginning of s, or all of it.         *)
Laid(L, b, s) == \A y \in 1 .. Len(s) : b + y <= Len(L) => L[b + y] = s[y]

(* The characters of a text in quotes lie from at[j - 1] to at[j] - 1.     *)
Layout(L, p, b, at) ==
    LET n == Len(p.text)
        m == Len(L)
    IN  /\ at \in [0 .. n -> Nat] /\ at[0] = b + 2 /\ at[n] = b + Len(Spelling(p))
        /\ b + 1 <= m => L[b + 1] = Quote
        /\ at[n] <= m => L[at[n]] = Quote
        /\ \A j \in 0 .. n : at[j] >= b + 2 /\ at[j] <= at[n]
        /\ \A j \in 1 .. n :
              LET x == p.text[j]
                  i == at[j - 1]
              IN  /\ x # Quote => at[j] = i + 1 /\ (i <= m => L[i] = x)
                  /\ x = Quote => at[j] = i + 2 /\ (i + 1 <= m => L[i + 1] = Quote)
                  /\ x = Quote /\ p.style = "doubled" => (i <= m => L[i] = Quote)
                  /\ x = Quote /\ p.style = "escaped" => (i <= m => L[i] = Backslash)

(* The characters of a parameter in quotes have places in the line.        *)
LEMMA LaidOut ==
    ASSUME NEW L \in Seq(Ch), NEW p \in Param, p.style # "bare", NEW b \in Nat,
           Laid(L, b, Spelling(p))
    PROVE  \E at : Layout(L, p, b, at)
<1> DEFINE n == Len(p.text)
           m == Len(L)
           g == Spelled(p)
           T == g[n]
           s == Spelling(p)
           t == Len(T)
           l == [j \in 0 .. n |-> Len(g[j])]
           at == [j \in 0 .. n |-> b + 2 + l[j]]
<1>1. n \in Nat /\ m \in Nat /\ T \in Seq(Letter) /\ t \in Nat
  BY PieceAt
<1>2. l \in [0 .. n -> Nat] /\ l[0] = 0 /\ l[n] = t /\ \A j \in 0 .. n : l[j] <= t
  <2>1. \A j \in 0 .. n : Len(g[j]) \in Nat /\ Len(g[j]) <= t
    BY PieceAt
  <2>2. Len(g[0]) = 0
    BY PieceAt
  <2> HIDE DEF g, n
  <2> QED BY <1>1, <2>1, <2>2
<1>3. Len(s) = t + 2 /\ s[1] = Quote /\ s[t + 2] = Quote /\ \A y \in 1 .. t : s[1 + y] = T[y]
  BY SpellingIs
<1>4. ASSUME NEW j \in 1 .. n
      PROVE  LET x == p.text[j]
                 o == l[j - 1]
             IN  /\ x # Quote => l[j] = o + 1 /\ T[o + 1] = x
                 /\ x = Quote => l[j] = o + 2 /\ T[o + 2] = Quote
                 /\ x = Quote /\ p.style = "doubled" => T[o + 1] = Quote
                 /\ x = Quote /\ p.style = "escaped" => T[o + 1] = Backslash
  <2>1. j \in 0 .. n /\ j - 1 \in 0 .. n
    BY <1>1
  <2>2. l[j] = Len(g[j]) /\ l[j - 1] = Len(g[j - 1])
    BY <2>1
  <2>3. p.style = "doubled" \/ p.style = "escaped"
    BY DEF Param, Style
  <2> HIDE DEF l
  <2> QED BY <2>2, <2>3, PieceAt
<1>5. \A y \in 1 .. Len(s) : b + y <= m => L[b + y] = s[y]
  BY DEF Laid
<1> HIDE DEF n, m, g, T, s, t, l
<1>6. \A y \in 1 .. t : (b + 1) + y <= m => L[(b + 1) + y] = T[y]
  <2> SUFFICES ASSUME NEW y \in 1 .. t, (b + 1) + y <= m PROVE L[(b + 1) + y] = T[y]
    OBVIOUS
  <2>1. 1 + y \in 1 .. Len(s) /\ b + (1 + y) = (b + 1) + y
    BY <1>1, <1>3
  <2> QED BY <1>3, <1>5, <2>1
<1>7. /\ at \in [0 .. n -> Nat] /\ at[0] = b + 2 /\ at[n] = b + Len(s)
      /\ \A j \in 0 .. n : at[j] = b + 2 + l[j]
  BY <1>1, <1>2, <1>3
<1>8. (b + 1 <= m => L[b + 1] = Quote) /\ (at[n] <= m => L[at[n]] = Quote)
  <2>1. 1 \in 1 .. Len(s) /\ t + 2 \in 1 .. Len(s)
    BY <1>1, <1>3
  <2> HIDE DEF at
  <2> QED BY <1>3, <1>5, <1>7, <2>1
<1>9. \A j \in 0 .. n : at[j] >= b + 2 /\ at[j] <= at[n]
  <2> SUFFICES ASSUME NEW j \in 0 .. n PROVE at[j] >= b + 2 /\ at[j] <= at[n]
    OBVIOUS
  <2>1. l[j] \in Nat /\ l[j] <= t /\ at[j] = b + 2 + l[j] /\ at[n] = b + 2 + t
    BY <1>1, <1>2
  <2> QED BY <1>1, <2>1
<1>10. ASSUME NEW j \in 1 .. n
       PROVE  LET x == p.text[j]
                  i == at[j - 1]
              IN  /\ x # Quote => at[j] = i + 1 /\ (i <= m => L[i] = x)
                  /\ x = Quote => at[j] = i + 2 /\ (i + 1 <= m => L[i + 1] = Quote)
                  /\ x = Quote /\ p.style = "doubled" => (i <= m => L[i] = Quote)
                  /\ x = Quote /\ p.style = "escaped" => (i <= m => L[i] = Backslash)
  <2> DEFINE x == p.text[j]
             o == l[j - 1]
             i == at[j - 1]
  <2>1. j \in 0 .. n /\ j - 1 \in 0 .. n
    BY <1>1
  <2>2. i = b + 2 + o /\ at[j] = b + 2 + l[j] /\ o \in Nat /\ l[j] \in Nat /\ l[j] <= t
    BY <1>2, <1>7, <2>1
  <2>3. /\ x # Quote => l[j] = o + 1 /\ T[o + 1] = x
        /\ x = Quote => l[j] = o + 2 /\ T[o + 2] = Quote
        /\ x = Quote /\ p.style = "doubled" => T[o + 1] = Quote
        /\ x = Quote /\ p.style = "escaped" => T[o + 1] = Backslash
    BY <1>4
  <2> HIDE DEF x, o, i, at
  <2>4. l[j] >= o + 1
    BY <2>2, <2>3
  <2>5. o + 1 \in 1 .. t /\ (b + 1) + (o + 1) = i
    BY <1>1, <2>2, <2>4
  <2>6. i <= m => L[i] = T[o + 1]
    BY <1>6, <2>5
  <2>7. x = Quote /\ i + 1 <= m => L[i + 1] = T[o + 2]
    <3> SUFFICES ASSUME x = Quote, i + 1 <= m PROVE L[i + 1] = T[o + 2]
      OBVIOUS
    <3>1. o + 2 \in 1 .. t /\ (b + 1) + (o + 2) = i + 1
      BY <1>1, <2>2, <2>3
    <3> QED BY <1>6, <3>1
  <2>8. (x # Quote => at[j] = i + 1) /\ (x = Quote => at[j] = i + 2)
    BY <2>2, <2>3
  <2> QED BY <2>3, <2>6, <2>7, <2>8 DEF x, i
<1> HIDE DEF at
<1>11. Layout(L, p, b, at)
  BY <1>7, <1>8, <1>9, <1>10 DEF Layout, n, m, s
<1> QED BY <1>11

(* Before the place of a character stands the last one, or the opening     *)
(* quote.                                                                  *)
LEMMA LastWritten ==
    ASSUME NEW L \in Seq(Ch), NEW p \in Param, NEW b \in Nat, NEW at, Layout(L, p, b, at),
           NEW j \in 0 .. Len(p.text), at[j] - 1 <= Len(L)
    PROVE  Char(L, at[j] - 1) = IF j = 0 THEN Quote ELSE p.text[j]
<1> DEFINE n == Len(p.text)
           m == Len(L)
<1>0. n \in Nat /\ m \in Nat
  BY DEF Param
<1>1. at \in [0 .. n -> Nat] /\ at[j] \in Nat /\ at[j] >= b + 2
  <2>1. at \in [0 .. n -> Nat] /\ \A k \in 0 .. n : at[k] >= b + 2
    BY DEF Layout
  <2> QED BY <2>1
<1>2. at[j] - 1 \in 1 .. m
  BY <1>0, <1>1
<1>3. Char(L, at[j] - 1) = L[at[j] - 1]
  BY <1>2 DEF Char
<1>4. CASE j = 0
  BY <1>1, <1>2, <1>3, <1>4 DEF Layout
<1>5. CASE j # 0
  <2> DEFINE i == at[j - 1]
             x == p.text[j]
  <2>1. j \in 1 .. n /\ j - 1 \in 0 .. n
    BY <1>5
  <2>2. i \in Nat
    BY <1>1, <2>1
  <2>3. /\ x # Quote => at[j] = i + 1 /\ (i <= m => L[i] = x)
        /\ x = Quote => at[j] = i + 2 /\ (i + 1 <= m => L[i + 1] = Quote)
    BY <2>1 DEF Layout
  <2> HIDE DEF i, x
  <2>4. L[at[j] - 1] = x
    <3>1. CASE x # Quote
      <4>1. at[j] - 1 = i
        BY <2>2, <2>3, <3>1
      <4> QED BY <1>2, <2>3, <3>1, <4>1
    <3>2. CASE x = Quote
      <4>1. at[j] - 1 = i + 1
        BY <2>2, <2>3, <3>2
      <4> QED BY <1>2, <2>3, <3>2, <4>1
    <3> QED BY <3>1, <3>2
  <2> QED BY <1>3, <1>5, <2>4 DEF x
<1> QED BY <1>4, <1>5

(* The last character of a text in quotes is no backslash.                 *)
LEMMA LastSayable ==
    ASSUME NEW p \in Param, p.style # "bare", Sayable(p), Len(p.text) # 0
    PROVE  p.text[Len(p.text)] # Backslash
<1> DEFINE n == Len(p.text)
<1>1. p.style = "doubled" \/ p.style = "escaped"
  BY DEF Param, Style
<1>2. n \in Nat /\ DOMAIN p.text = 1 .. n /\ n \in 1 .. n /\ p.text # <<>>
  BY DEF Param
<1>3. CASE p.style = "doubled"
  <2>1. \A k \in DOMAIN p.text : p.text[k] = Backslash => k < n
    BY <1>3 DEF Sayable
  <2> QED BY <1>2, <2>1
<1>4. CASE p.style = "escaped"
  BY <1>2, <1>4 DEF Sayable
<1> QED BY <1>1, <1>3, <1>4

(* What is copied from the place of a character on: the rest of the text   *)
(* if its closing quote is there, and otherwise something that ends the    *)
(* line, which with backslashes no quote ends.                             *)
CopiedAll(L, p, c, r, j) == r.at = c + 1 /\ r.ended /\ r.text = SubSeq(p.text, j + 1, Len(p.text))
CopiedBroken(L, p, r) == r.at = End(L) /\ (p.style = "escaped" => ~ r.ended)
CopiedFrom(L, p, at, j) ==
    LET c == at[Len(p.text)]
        r == Quoted(L)[at[j]]
    IN  at[j] <= End(L) => /\ c <= Len(L) => CopiedAll(L, p, c, r, j)
                           /\ c > Len(L) => CopiedBroken(L, p, r)

(* The closing quote ends the parameter, if the line has come so far.      *)
LEMMA ClosingCopied ==
    ASSUME NEW L \in Seq(Ch), NEW p \in Param, p.style # "bare", Sayable(p),
           NEW b \in Nat, NEW at, Layout(L, p, b, at),
           at[Len(p.text)] + 1 <= Len(L) => L[at[Len(p.text)] + 1] # Quote
    PROVE  CopiedFrom(L, p, at, Len(p.text))
<1> DEFINE n == Len(p.text)
           m == Len(L)
           c == at[n]
           r == Quoted(L)[c]
<1>0. n \in Nat /\ n \in 0 .. n /\ m \in Nat /\ End(L) = m + 1
  BY DEF Param, End
<1>1. c \in Nat /\ c >= b + 2 /\ (c <= m => L[c] = Quote)
  <2>1. /\ at \in [0 .. n -> Nat] /\ \A k \in 0 .. n : at[k] >= b + 2
        /\ at[n] <= m => L[at[n]] = Quote
    BY DEF Layout
  <2> QED BY <1>0, <2>1
<1>2. CASE c <= m
  <2>1. c \in 1 .. m /\ L[c] = Quote
    BY <1>0, <1>1, <1>2
  <2>2. Char(L, c - 1) # Backslash
    <3>1. Char(L, c - 1) = IF n = 0 THEN Quote ELSE p.text[n]
      BY <1>0, <1>1, <1>2, LastWritten
    <3> QED BY <3>1, Marks, LastSayable
  <2>3. Char(L, c + 1) # Quote
    <3>1. c + 1 <= m => L[c + 1] # Quote
      OBVIOUS
    <3> QED BY <1>0, <1>1, <3>1, Marks DEF Char
  <2>4. r = Rest(c + 1, <<>>, TRUE)
    BY <2>1, <2>2, <2>3, ClosingQuote
  <2>5. SubSeq(p.text, n + 1, n) = <<>>
    <3>1. p.text \in Seq(Letter) /\ n + 1 \in Int /\ n + 1 > n
      BY <1>0 DEF Param
    <3> QED BY <1>0, <3>1, SubSeqEmpty
  <2> HIDE DEF r
  <2>6. r.at = c + 1 /\ r.ended /\ r.text = <<>>
    BY <2>4 DEF Rest
  <2>7. CopiedAll(L, p, c, r, n)
    BY <2>5, <2>6 DEF CopiedAll
  <2>8. ~ (c > m)
    BY <1>0, <1>1, <1>2
  <2> HIDE DEF c, n
  <2> QED BY <2>7, <2>8 DEF CopiedFrom, r, c, n
<1>3. CASE c = m + 1
  <2>1. c \in 1 .. End(L) /\ \A k \in c .. m : L[k] # Quote
    BY <1>0, <1>1, <1>3
  <2>2. r = Rest(End(L), <<>>, FALSE)
    BY <2>1, NoQuote
  <2> HIDE DEF r
  <2>3. CopiedBroken(L, p, r)
    BY <2>2 DEF Rest, CopiedBroken
  <2>4. ~ (c <= m)
    BY <1>0, <1>3
  <2> HIDE DEF c, n
  <2> QED BY <2>3, <2>4 DEF CopiedFrom, r, c, n
<1>4. CASE c > m + 1
  <2>1. ~ (c <= End(L))
    BY <1>0, <1>1, <1>4
  <2> HIDE DEF c, n
  <2> QED BY <2>1 DEF CopiedFrom, c, n
<1> QED BY <1>0, <1>1, <1>2, <1>3, <1>4

(* One character more is copied.                                           *)
LEMMA OneMore ==
    ASSUME NEW L \in Seq(Ch), NEW p \in Param, NEW at, NEW j \in 1 .. Len(p.text),
           at[j] <= End(L), CopiedFrom(L, p, at, j),
           Quoted(L)[at[j - 1]].at = Quoted(L)[at[j]].at,
           Quoted(L)[at[j - 1]].ended = Quoted(L)[at[j]].ended,
           Quoted(L)[at[j - 1]].ended =>
              Quoted(L)[at[j - 1]].text = <<p.text[j]>> \o Quoted(L)[at[j]].text
    PROVE  CopiedFrom(L, p, at, j - 1)
<1> DEFINE n == Len(p.text)
           c == at[n]
           r == Quoted(L)[at[j - 1]]
           t == Quoted(L)[at[j]]
<1>1. /\ c <= Len(L) => CopiedAll(L, p, c, t, j)
      /\ c > Len(L) => CopiedBroken(L, p, t)
  BY DEF CopiedFrom
<1>2. SubSeq(p.text, (j - 1) + 1, n) = <<p.text[j]>> \o SubSeq(p.text, j + 1, n)
  <2>1. p.text \in Seq(Letter) /\ n \in Nat /\ n \in j .. n /\ (j - 1) + 1 = j
    BY DEF Param
  <2> QED BY <2>1, SubSeqRecursiveFirst
<1>3. r.at = t.at /\ r.ended = t.ended /\ (r.ended => r.text = <<p.text[j]>> \o t.text)
  OBVIOUS
<1> HIDE DEF r, t, c
<1>4. CopiedAll(L, p, c, t, j) => CopiedAll(L, p, c, r, j - 1)
  BY <1>2, <1>3 DEF CopiedAll
<1>5. CopiedBroken(L, p, t) => CopiedBroken(L, p, r)
  BY <1>3 DEF CopiedBroken
<1>6. /\ c <= Len(L) => CopiedAll(L, p, c, r, j - 1)
      /\ c > Len(L) => CopiedBroken(L, p, r)
  BY <1>1, <1>4, <1>5
<1> QED BY <1>6 DEF CopiedFrom, r, c

(* What stands after a backslash of the text is no quote.                  *)
LEMMA NoFalseQuote ==
    ASSUME NEW L \in Seq(Ch), NEW p \in Param, p.style # "bare", Sayable(p), NEW b,
           NEW at, Layout(L, p, b, at), NEW j \in 1 .. Len(p.text), p.text[j] = Backslash
    PROVE  Char(L, at[j]) # Quote
<1> DEFINE n == Len(p.text)
           m == Len(L)
           x == p.text[j + 1]
<1>1. n \in Nat /\ m \in Nat /\ DOMAIN p.text = 1 .. n
  BY DEF Param
<1>2. j # n
  BY LastSayable
<1>3. j + 1 \in 1 .. n /\ (j + 1) - 1 = j
  BY <1>1, <1>2
<1>4. /\ x # Quote => (at[j] <= m => L[at[j]] = x)
      /\ x = Quote /\ p.style = "escaped" => (at[j] <= m => L[at[j]] = Backslash)
  BY <1>3 DEF Layout
<1>5. p.style = "doubled" \/ p.style = "escaped"
  BY DEF Param, Style
<1>6. p.style = "doubled" => x # Quote
  BY <1>1 DEF Sayable
<1> HIDE DEF x
<1>7. at[j] <= m => L[at[j]] # Quote
  BY <1>4, <1>5, <1>6, Marks
<1> QED BY <1>7, Marks DEF Char

(* A doubled quote does not follow a backslash.                            *)
LEMMA NotCancelled ==
    ASSUME NEW L \in Seq(Ch), NEW p \in Param, p.style = "doubled", Sayable(p),
           NEW b \in Nat, NEW at, Layout(L, p, b, at),
           NEW j \in 1 .. Len(p.text), p.text[j] = Quote, at[j - 1] - 1 <= Len(L)
    PROVE  Char(L, at[j - 1] - 1) # Backslash
<1>1. j - 1 \in 0 .. Len(p.text) /\ DOMAIN p.text = 1 .. Len(p.text) /\ Len(p.text) \in Nat
  BY DEF Param
<1>2. Char(L, at[j - 1] - 1) = IF j - 1 = 0 THEN Quote ELSE p.text[j - 1]
  BY <1>1, LastWritten
<1>3. j - 1 # 0 => p.text[j - 1] # Backslash
  <2> SUFFICES ASSUME j - 1 # 0 PROVE p.text[j - 1] # Backslash
    OBVIOUS
  <2>1. j - 1 \in DOMAIN p.text /\ (j - 1) + 1 = j
    BY <1>1
  <2>2. \A y \in DOMAIN p.text : p.text[y] = Backslash => p.text[y + 1] # Quote
    BY DEF Sayable
  <2> QED BY <2>1, <2>2
<1> QED BY <1>2, <1>3, Marks

(* From each character the copying goes on to the next, whether the line   *)
(* has come so far or not.                                                 *)
LEMMA CopiedStep ==
    ASSUME NEW L \in Seq(Ch), NEW p \in Param, p.style # "bare", Sayable(p),
           NEW b \in Nat, NEW at, Layout(L, p, b, at),
           NEW j \in 1 .. Len(p.text), CopiedFrom(L, p, at, j)
    PROVE  CopiedFrom(L, p, at, j - 1)
<1> DEFINE n == Len(p.text)
           m == Len(L)
           i == at[j - 1]
           k == at[j]
           c == at[n]
           x == p.text[j]
           r == Quoted(L)[i]
<1>0. n \in Nat /\ m \in Nat /\ End(L) = m + 1 /\ j - 1 \in 0 .. n /\ j \in 0 .. n /\ n \in 0 .. n
  BY DEF Param, End
<1>1. i \in Nat /\ k \in Nat /\ c \in Nat /\ i >= b + 2 /\ k <= c
  <2>1. at \in [0 .. n -> Nat] /\ \A y \in 0 .. n : at[y] >= b + 2 /\ at[y] <= at[n]
    BY DEF Layout
  <2> QED BY <1>0, <2>1
<1>2. /\ x # Quote => k = i + 1 /\ (i <= m => L[i] = x)
      /\ x = Quote => k = i + 2 /\ (i + 1 <= m => L[i + 1] = Quote)
      /\ x = Quote /\ p.style = "doubled" => (i <= m => L[i] = Quote)
      /\ x = Quote /\ p.style = "escaped" => (i <= m => L[i] = Backslash)
  BY DEF Layout
<1>3. p.style = "doubled" \/ p.style = "escaped"
  BY DEF Param, Style
<1>4. ASSUME i <= End(L) => CopiedBroken(L, p, r), c > m
      PROVE  CopiedFrom(L, p, at, j - 1)
  <2>1. ~ (c <= m)
    BY <1>0, <1>1, <1>4
  <2> HIDE DEF r, c, i, m
  <2> QED BY <1>4, <2>1 DEF CopiedFrom, r, c, i, m
<1>5. CASE i > m + 1
  <2>1. ~ (i <= End(L))
    BY <1>0, <1>1, <1>5
  <2>2. c > m
    BY <1>0, <1>1, <1>2, <1>5
  <2> HIDE DEF r, c, i, m
  <2> QED BY <1>4, <2>1, <2>2
<1>6. CASE i = m + 1
  <2>1. i \in 1 .. End(L) /\ \A y \in i .. m : L[y] # Quote
    BY <1>0, <1>6
  <2>2. r = Rest(End(L), <<>>, FALSE)
    BY <2>1, NoQuote
  <2> HIDE DEF r
  <2>3. CopiedBroken(L, p, r)
    BY <2>2 DEF Rest, CopiedBroken
  <2>4. c > m
    BY <1>0, <1>1, <1>2, <1>6
  <2> HIDE DEF c, i, m
  <2> QED BY <1>4, <2>3, <2>4
<1>7. CASE i <= m /\ x # Quote
  <2>1. i \in 1 .. m /\ L[i] = x /\ k = i + 1 /\ k <= End(L)
    BY <1>0, <1>1, <1>2, <1>7
  <2>2. ~ (x = Backslash /\ Char(L, i + 1) = Quote)
    BY <2>1, NoFalseQuote
  <2>3. L[i] # Quote /\ ~ (L[i] = Backslash /\ Char(L, i + 1) = Quote)
    BY <1>7, <2>1, <2>2
  <2>4. /\ Quoted(L)[i].at = Quoted(L)[i + 1].at
        /\ Quoted(L)[i].ended = Quoted(L)[i + 1].ended
        /\ Quoted(L)[i].ended => Quoted(L)[i].text = <<L[i]>> \o Quoted(L)[i + 1].text
    BY <2>1, <2>3, PlainCharacter
  <2>5. /\ Quoted(L)[i].at = Quoted(L)[k].at
        /\ Quoted(L)[i].ended = Quoted(L)[k].ended
        /\ Quoted(L)[i].ended => Quoted(L)[i].text = <<x>> \o Quoted(L)[k].text
    BY <2>1, <2>4
  <2> QED BY <2>1, <2>5, OneMore
<1>8. CASE i + 1 <= m /\ x = Quote
  <2>1. i \in 1 .. m /\ k = i + 2 /\ k <= End(L) /\ k \in 1 .. End(L) /\ L[i + 1] = Quote
    BY <1>0, <1>1, <1>2, <1>8
  <2>2. r = Prefixed(<<Quote>>, Quoted(L)[i + 2])
    <3>1. CASE p.style = "doubled"
      <4>1. L[i] = Quote
        BY <1>2, <1>8, <2>1, <3>1
      <4>2. Char(L, i - 1) # Backslash
        <5>1. i - 1 <= m
          BY <1>0, <2>1
        <5>2. x = Quote
          BY <1>8
        <5> QED BY <3>1, <5>1, <5>2, NotCancelled
      <4> QED BY <1>8, <2>1, <4>1, <4>2, DoubledQuote
    <3>2. CASE p.style = "escaped"
      <4>1. L[i] = Backslash
        BY <1>2, <1>8, <2>1, <3>2
      <4> QED BY <1>8, <2>1, <4>1, EscapedQuote
    <3> QED BY <1>3, <3>1, <3>2
  <2>3. Quoted(L)[k] \in Copied(L, k)
    BY <2>1, QuotedIs
  <2>4. /\ r.at = Quoted(L)[k].at /\ r.ended = Quoted(L)[k].ended
        /\ r.text = <<x>> \o Quoted(L)[k].text
    <3>1. <<x>> \in Seq(Ch) /\ r = Prefixed(<<x>>, Quoted(L)[k])
      BY <1>8, <2>1, <2>2, Marks
    <3> DEFINE t == Quoted(L)[k]
    <3> HIDE DEF r, k, x, t
    <3>2. t \in Copied(L, k)
      BY <2>3 DEF t
    <3>3. /\ Prefixed(<<x>>, t).at = t.at /\ Prefixed(<<x>>, t).ended = t.ended
          /\ Prefixed(<<x>>, t).text = <<x>> \o t.text
      BY DEF Prefixed, Rest
    <3>4. r = Prefixed(<<x>>, t)
      BY <3>1 DEF t
    <3>5. r.at = t.at /\ r.ended = t.ended /\ r.text = <<x>> \o t.text
      BY <3>3, <3>4
    <3> QED BY <3>5 DEF t
  <2> QED BY <2>1, <2>4, OneMore
<1>9. CASE i = m /\ x = Quote
  <2>1. i \in 1 .. m /\ c > m
    BY <1>0, <1>1, <1>2, <1>9
  <2>2. CopiedBroken(L, p, r)
    <3>1. CASE p.style = "doubled"
      <4>1. L[i] = Quote
        BY <1>2, <1>9, <2>1, <3>1
      <4>2. Char(L, i - 1) # Backslash
        <5>1. i - 1 <= m
          BY <1>0, <2>1
        <5>2. x = Quote
          BY <1>9
        <5> QED BY <3>1, <5>1, <5>2, NotCancelled
      <4>3. Char(L, i + 1) # Quote
        BY <1>0, <1>9, Marks DEF Char
      <4>4. r = Rest(i + 1, <<>>, TRUE)
        BY <2>1, <4>1, <4>2, <4>3, ClosingQuote
      <4> HIDE DEF r
      <4> QED BY <1>0, <1>9, <3>1, <4>4 DEF Rest, CopiedBroken
    <3>2. CASE p.style = "escaped"
      <4>1. L[i] = Backslash
        BY <1>2, <1>9, <2>1, <3>2
      <4>2. i \in 1 .. End(L) /\ \A y \in i .. m : L[y] # Quote
        BY <1>0, <1>9, <2>1, <4>1, Marks
      <4>3. r = Rest(End(L), <<>>, FALSE)
        BY <4>2, NoQuote
      <4> HIDE DEF r
      <4> QED BY <4>3 DEF Rest, CopiedBroken
    <3> QED BY <1>3, <3>1, <3>2
  <2> HIDE DEF r, c, i, m
  <2> QED BY <1>4, <2>1, <2>2
<1> QED
  <2>1. i > m + 1 \/ i = m + 1 \/ i = m \/ i + 1 <= m
    BY <1>0, <1>1
  <2>2. i + 1 <= m => i <= m
    BY <1>0, <1>1
  <2>3. i = m => i <= m
    BY <1>0
  <2> QED BY <1>5, <1>6, <1>7, <1>8, <1>9, <2>1, <2>2, <2>3

LEMMA SpacesApart ==
    /\ \A c \in Space : c # Quote /\ c \notin NotSpace
    /\ \A c \in Letter : c \in NotSpace \/ c \in Space
BY DEF Quote, Backslash, Space, NotSpace, Alnum, Alpha, Letter

(* A text that is written bare.                                            *)
LEMMA BareSayable ==
    ASSUME NEW p \in Param, p.style = "bare", Sayable(p)
    PROVE  /\ Len(p.text) \in Nat /\ Len(p.text) >= 1
           /\ \A y \in 1 .. Len(p.text) :
                 p.text[y] # Quote /\ p.text[y] \in NotSpace /\ p.text[y] \notin Space
<1> DEFINE x == p.text
<1>1. x \in Seq(Letter)
  BY DEF Param
<1>2. x # <<>> /\ \A k \in DOMAIN x : x[k] \notin {" ", Quote}
  BY DEF Sayable
<1> HIDE DEF x
<1>3. Len(x) \in Nat /\ DOMAIN x = 1 .. Len(x) /\ \A y \in 1 .. Len(x) : x[y] \in Letter
  BY <1>1
<1>4. Len(x) # 0
  BY <1>1, <1>2, EmptySeq
<1>5. \A y \in 1 .. Len(x) : x[y] \notin Space /\ x[y] # Quote
  BY <1>2, <1>3, SpaceIs
<1>6. \A y \in 1 .. Len(x) : x[y] \in NotSpace
  BY <1>3, <1>5, SpacesApart
<1>7. Len(x) >= 1
  BY <1>3, <1>4
<1> QED BY <1>3, <1>5, <1>6, <1>7 DEF x

(* A parameter in quotes comes out whole, if the line holds all of it.     *)
LEMMA QuotedText ==
    ASSUME NEW L \in Seq(Ch), NEW p \in Param, p.style # "bare", Sayable(p),
           NEW b \in Nat, Laid(L, b, Spelling(p)), b + 2 <= End(L), NEW c,
           c = b + Len(Spelling(p)), c + 1 <= Len(L) => L[c + 1] # Quote
    PROVE  /\ c <= Len(L) => CopiedAll(L, p, c, Quoted(L)[b + 2], 0)
           /\ c > Len(L) => CopiedBroken(L, p, Quoted(L)[b + 2])
<1> DEFINE n == Len(p.text)
<1>0. n \in Nat
  BY DEF Param
<1> PICK at : Layout(L, p, b, at)
  BY LaidOut
<1>1. at[0] = b + 2 /\ at[n] = c
  BY DEF Layout
<1> DEFINE P == {i \in 1 .. n + 1 : CopiedFrom(L, p, at, i - 1)}
<1>2. ASSUME NEW i \in 1 .. n + 1, \A j \in i + 1 .. n + 1 : j \in P
      PROVE  i \in P
  <2>1. CASE i = n + 1
    <3>1. CopiedFrom(L, p, at, n)
      BY <1>1, ClosingCopied
    <3>2. i - 1 = n
      BY <1>0, <2>1
    <3> QED BY <3>1, <3>2
  <2>2. CASE i # n + 1
    <3>1. i + 1 \in i + 1 .. n + 1 /\ i \in 1 .. n
      BY <1>0, <2>2
    <3>2. CopiedFrom(L, p, at, (i + 1) - 1) /\ (i + 1) - 1 = i
      BY <1>2, <3>1
    <3>3. CopiedFrom(L, p, at, i - 1)
      BY <3>1, <3>2, CopiedStep
    <3> QED BY <3>3
  <2> QED BY <2>1, <2>2
<1>3. 1 \in P
  <2>1. 1 \in 1 .. n + 1
    BY <1>0
  <2> HIDE DEF P, n
  <2> QED BY <1>0, <1>2, <2>1, BackwardInduction
<1>4. CopiedFrom(L, p, at, 0)
  BY <1>3
<1> HIDE DEF P
<1> QED BY <1>1, <1>4 DEF CopiedFrom

(* What one parameter gives, if it ends before f.                          *)
Taken(L, p, X, f) ==
    /\ f <= End(L) => X.at = f /\ X.param = <<p.text>> /\ X.ended
    /\ f > End(L) => /\ X.at = End(L) /\ Len(X.param) <= 1
                     /\ p.style = "escaped" => X.param = <<>>

(* A parameter in quotes is taken whole, or not at all if it has           *)
(* backslashes.                                                            *)
LEMMA QuotedTaken ==
    ASSUME NEW L \in Seq(Ch), NEW p \in Param, p.style # "bare", Sayable(p),
           NEW s \in 1 .. Len(L), Laid(L, s, Spelling(p)), s + 2 <= End(L), NEW f,
           f = s + 1 + Len(Spelling(p)), f <= Len(L) => L[f] \in Space
    PROVE  Taken(L, p, ExtractQuoted(L, s + 2), f)
<1> DEFINE c == s + Len(Spelling(p))
           r == Quoted(L)[s + 2]
<1>0. Len(L) \in Nat /\ End(L) = Len(L) + 1 /\ s \in Nat /\ c \in Nat /\ f = c + 1
  <2>1. Len(Spelling(p)) \in Nat
    BY SpellingIs
  <2> QED BY <2>1 DEF End
<1>1. /\ c <= Len(L) => CopiedAll(L, p, c, r, 0)
      /\ c > Len(L) => CopiedBroken(L, p, r)
  <2>1. c + 1 <= Len(L) => L[c + 1] # Quote
    BY <1>0, SpacesApart
  <2> HIDE DEF r
  <2> QED BY <1>0, <2>1, QuotedText DEF r
<1>2. r \in Copied(L, s + 2)
  <2>1. s + 2 \in 1 .. End(L)
    BY <1>0
  <2> QED BY <2>1, QuotedIs
<1> DEFINE X == ExtractQuoted(L, s + 2)
<1>3. X = Part(r.at, IF r.ended THEN <<r.text>> ELSE <<>>, r.ended)
  BY DEF ExtractQuoted
<1> HIDE DEF r, X, c
<1>4. X.at = r.at /\ X.param = (IF r.ended THEN <<r.text>> ELSE <<>>) /\ X.ended = r.ended
  BY <1>3 DEF Part
<1>5. SubSeq(p.text, 0 + 1, Len(p.text)) = p.text
  BY SubSeqFull DEF Param
<1>6. Len(X.param) <= 1
  BY <1>4
<1>7. c <= Len(L) => X.at = f /\ X.param = <<p.text>> /\ X.ended
  BY <1>0, <1>1, <1>4, <1>5 DEF CopiedAll
<1>8. c > Len(L) => X.at = End(L) /\ (p.style = "escaped" => X.param = <<>>)
  BY <1>1, <1>4 DEF CopiedBroken
<1>9. (f <= End(L) => c <= Len(L)) /\ (f > End(L) => c > Len(L))
  BY <1>0
<1> QED BY <1>6, <1>7, <1>8, <1>9 DEF Taken, X

(* The n characters after the first a.                                     *)
CutOut(A, L, a, n, t) == t \in Seq(A) /\ Len(t) = n /\ \A y \in 1 .. n : t[y] = L[a + y]

(* What SubSeq cuts out.                                                   *)
LEMMA CutIs ==
    ASSUME NEW A, NEW L \in Seq(A), NEW a \in Nat, NEW n \in Nat, a + n <= Len(L)
    PROVE  CutOut(A, L, a, n, SubSeq(L, a + 1, a + n))
BY DEF CutOut

Cut(L, s, f, S, x) ==
    LET e == FindIf(L, s + 1, S)
    IN  /\ f <= End(L) => e = f /\ SubSeq(L, s + 1, e - 1) = x
        /\ f > End(L) => e = End(L)

(* A bare text ends at the space after it.                                 *)
LEMMA BareText ==
    ASSUME NEW L \in Seq(Ch), NEW x \in Seq(Letter), NEW s \in Nat, NEW f,
           f = s + 1 + Len(x), s + 1 <= Len(L), f <= Len(L) => L[f] \in Space,
           \A y \in 1 .. Len(x) : s + y <= Len(L) => L[s + y] = x[y],
           NEW S, Space \subseteq S, \A y \in 1 .. Len(x) : x[y] \notin S
    PROVE  Cut(L, s, f, S, x)
<1> DEFINE n == Len(x)
           m == Len(L)
           e == FindIf(L, s + 1, S)
<1>0. /\ m \in Nat /\ End(L) = m + 1 /\ n \in Nat /\ f = s + 1 + n
      /\ s + 1 \in 1 .. End(L) /\ f \in Nat
  BY DEF End
<1>1. \A k \in s + 1 .. s + n : k <= m => L[k] \notin S
  <2> SUFFICES ASSUME NEW k \in s + 1 .. s + n, k <= m PROVE L[k] \notin S
    OBVIOUS
  <2>1. k - s \in 1 .. n /\ s + (k - s) = k
    BY <1>0
  <2> QED BY <2>1
<1> HIDE DEF e
<1>2. ASSUME f <= End(L) PROVE e = f /\ SubSeq(L, s + 1, e - 1) = x
  <2>1. f \in s + 1 .. End(L) /\ s + n <= m /\ f - 1 = s + n
    BY <1>0, <1>2
  <2>2. f = End(L) \/ L[f] \in S
    <3>1. f = m + 1 \/ f <= m
      BY <1>0, <2>1
    <3>2. L[f] \in Space => L[f] \in S
      OBVIOUS
    <3> QED BY <1>0, <3>1, <3>2
  <2>3. \A k \in s + 1 .. f - 1 : L[k] \notin S
    BY <1>0, <1>1, <2>1
  <2>4. e = f
    BY <1>0, <2>1, <2>2, <2>3, FoundAt DEF e
  <2> DEFINE t == SubSeq(L, s + 1, s + n)
  <2>5. t \in Seq(Ch) /\ Len(t) = n /\ \A y \in 1 .. n : t[y] = L[s + y]
    <3> HIDE DEF n, m
    <3>1. CutOut(Ch, L, s, n, t)
      BY <1>0, <2>1, CutIs DEF m
    <3> QED BY <3>1 DEF CutOut
  <2> HIDE DEF t
  <2>6. ASSUME NEW y \in 1 .. n PROVE t[y] = x[y]
    <3>1. s + y <= m /\ t[y] = L[s + y]
      BY <1>0, <2>1, <2>5
    <3> QED BY <3>1
  <2>7. t = x
    BY <2>5, <2>6, SeqEqual
  <2> QED BY <2>1, <2>4, <2>7 DEF t
<1>3. ASSUME f > End(L) PROVE e = End(L)
  <2>1. \A k \in s + 1 .. End(L) - 1 : L[k] \notin S
    BY <1>0, <1>1, <1>3
  <2>2. End(L) \in s + 1 .. End(L)
    BY <1>0
  <2> QED BY <1>0, <2>1, <2>2, FoundAt DEF e
<1> QED BY <1>2, <1>3 DEF Cut, e

(* A bare parameter is taken up to the space after it or the end of the    *)
(* line.                                                                   *)
LEMMA BareTaken ==
    ASSUME NEW L \in Seq(Ch), NEW p \in Param, p.style = "bare", Sayable(p),
           NEW s \in 1 .. Len(L), Laid(L, s, Spelling(p)), s + 1 <= Len(L), NEW f,
           f = s + 1 + Len(Spelling(p)), f <= Len(L) => L[f] \in Space
    PROVE  Taken(L, p, ExtractBare(L, s + 1), f)
<1> DEFINE x == p.text
           S == Space \cup {Quote}
           e == FindIf(L, s + 1, S)
           X == ExtractBare(L, s + 1)
<1>0. x \in Seq(Letter) /\ s \in Nat /\ Len(Spelling(p)) = Len(x)
  BY SpellingIs DEF Param
<1>1. \A y \in 1 .. Len(x) : s + y <= Len(L) => L[s + y] = x[y]
  BY SpellingIs DEF Laid
<1>2. \A y \in 1 .. Len(x) : x[y] \notin S
  BY BareSayable
<1>3. X = Part(e, <<SubSeq(L, s + 1, e - 1)>>, TRUE)
  BY DEF ExtractBare
<1>4. Space \subseteq S
  OBVIOUS
<1>9. f = s + 1 + Len(x)
  BY <1>0
<1> HIDE DEF X, S, x
<1>5. /\ f <= End(L) => e = f /\ SubSeq(L, s + 1, e - 1) = x
      /\ f > End(L) => e = End(L)
  <2>1. Cut(L, s, f, S, x)
    BY <1>0, <1>1, <1>2, <1>4, <1>9, BareText
  <2> QED BY <2>1 DEF Cut, e
<1> HIDE DEF e
<1>6. X.at = e /\ X.param = <<SubSeq(L, s + 1, e - 1)>> /\ X.ended /\ Len(X.param) = 1
  BY <1>3 DEF Part
<1>7. p.style # "escaped"
  OBVIOUS
<1>8. f <= End(L) => X.param = <<x>>
  BY <1>5, <1>6
<1> HIDE DEF e
<1>10. f <= End(L) => X.at = f /\ X.param = <<x>> /\ X.ended
  BY <1>5, <1>6, <1>8
<1>11. Len(X.param) <= 1
  BY <1>6
<1>12. f > End(L) => /\ X.at = End(L) /\ Len(X.param) <= 1
                     /\ p.style = "escaped" => X.param = <<>>
  BY <1>5, <1>6, <1>7, <1>11
<1>13. Taken(L, p, X, f)
  BY <1>10, <1>12 DEF Taken, x
<1> QED BY <1>13 DEF X

(* A parameter that follows a space is what comes next.                    *)
LEMMA ParameterTaken ==
    ASSUME NEW L \in Seq(Ch), NEW p \in Param, Sayable(p),
           NEW s \in 1 .. Len(L), L[s] \in Space, Laid(L, s, Spelling(p)), NEW f,
           f = s + 1 + Len(Spelling(p)), f <= Len(L) => L[f] \in Space
    PROVE  Taken(L, p, ExtractParameter(L, s), f)
<1> DEFINE m == Len(L)
           t == Spelling(p)
           X == ExtractParameter(L, s)
<1>0. m \in Nat /\ End(L) = m + 1 /\ s \in 1 .. End(L) /\ s \in Nat
  BY DEF End
<1>1. /\ t \in Seq(Letter) /\ Len(t) \in Nat /\ Len(t) >= 1 /\ t[1] \in NotSpace
      /\ (p.style = "bare" => t[1] # Quote) /\ (p.style # "bare" => t[1] = Quote)
  <2>1. CASE p.style = "bare"
    <3> DEFINE x == p.text
    <3>1. Len(x) \in Nat /\ Len(x) >= 1 /\ 1 \in 1 .. Len(x)
      BY <2>1, BareSayable
    <3>2. x[1] # Quote /\ x[1] \in NotSpace
      BY <2>1, <3>1, BareSayable
    <3>3. Len(t) = Len(x) /\ t[1] = x[1] /\ t \in Seq(Letter)
      BY <2>1, <3>1, SpellingIs
    <3> HIDE DEF t, x
    <3> QED BY <2>1, <3>1, <3>2, <3>3
  <2>2. CASE p.style # "bare"
    <3>1. Len(Spelled(p)[Len(p.text)]) \in Nat
      BY PieceAt
    <3>2. t \in Seq(Letter) /\ Len(t) = Len(Spelled(p)[Len(p.text)]) + 2 /\ t[1] = Quote
      BY <2>2, SpellingIs
    <3>3. Quote \in NotSpace
      BY NotSpaceIs
    <3> HIDE DEF t
    <3> QED BY <2>2, <3>1, <3>2, <3>3
  <2> QED BY <2>1, <2>2
<1>2. s + 1 <= m => L[s + 1] = t[1]
  BY <1>0, <1>1 DEF Laid
<1> HIDE DEF t
<1>3. FindIf(L, s, NotSpace) = s + 1
  <2>1. s + 1 \in s .. End(L)
    BY <1>0
  <2>2. s + 1 = End(L) \/ L[s + 1] \in NotSpace
    BY <1>0, <1>1, <1>2
  <2>3. \A k \in s .. (s + 1) - 1 : L[k] \notin NotSpace
    BY <1>0, SpacesApart
  <2> QED BY <1>0, <2>1, <2>2, <2>3, FoundAt
<1>4. /\ s + 1 = End(L) => X = Part(s + 1, <<>>, TRUE)
      /\ s + 1 # End(L) /\ Char(L, s + 1) = Quote => X = ExtractQuoted(L, (s + 1) + 1)
      /\ s + 1 # End(L) /\ Char(L, s + 1) # Quote => X = ExtractBare(L, s + 1)
  <2>1. X = CASE s + 1 = End(L) -> Part(s + 1, <<>>, TRUE)
              [] Char(L, s + 1) = Quote -> ExtractQuoted(L, (s + 1) + 1)
              [] OTHER -> ExtractBare(L, s + 1)
    BY <1>3 DEF ExtractParameter
  <2>2. s + 1 = End(L) => Char(L, s + 1) # Quote
    BY <1>0, Marks DEF Char
  <2> HIDE DEF X
  <2> QED BY <2>1, <2>2
<1> HIDE DEF X
<1>5. CASE s + 1 = End(L)
  <2>1. X = Part(End(L), <<>>, TRUE)
    BY <1>4, <1>5
  <2>2. X.at = End(L) /\ X.param = <<>> /\ Len(X.param) = 0
    BY <2>1 DEF Part
  <2>3. f > End(L) /\ ~ (f <= End(L))
    BY <1>0, <1>1, <1>5 DEF t
  <2> QED BY <2>2, <2>3 DEF Taken, X
<1>6. CASE s + 1 # End(L)
  <2>1. s + 1 <= m /\ s + 2 <= End(L) /\ (s + 1) + 1 = s + 2 /\ Char(L, s + 1) = t[1]
    BY <1>0, <1>2, <1>6 DEF Char
  <2>2. CASE p.style = "bare"
    <3>1. X = ExtractBare(L, s + 1)
      BY <1>1, <1>4, <1>6, <2>1, <2>2
    <3> QED BY <2>1, <2>2, <3>1, BareTaken DEF X
  <2>3. CASE p.style # "bare"
    <3>1. X = ExtractQuoted(L, s + 2)
      BY <1>1, <1>4, <1>6, <2>1, <2>3
    <3> QED BY <2>1, <2>3, <3>1, QuotedTaken DEF X
  <2> QED BY <2>2, <2>3
<1> QED BY <1>5, <1>6

LEMMA AlphabetIs == Letter \subseteq Ch /\ NotSpace \subseteq Ch /\ " " \in Letter /\ " " \in Space
BY DEF Quote, Backslash, Space, NotSpace, Alnum, Alpha, Ch, Letter

LEMMA Coerced ==
    ASSUME NEW A, NEW B, A \subseteq B, NEW s \in Seq(A)
    PROVE  s \in Seq(B)
OBVIOUS

(* The space before each parameter.                                        *)
Blank == " "
Piece(par) == [k \in 1 .. Len(par) |-> <<Blank>> \o Spelling(par[k])]

LEMMA BlankIs == Blank \in Space /\ Blank \in Ch
BY DEF Blank, Space, Ch

(* A space and a parameter.                                                *)
LEMMA PieceIs ==
    ASSUME NEW p \in Param
    PROVE  LET w == <<Blank>> \o Spelling(p)
               t == Spelling(p)
           IN  /\ w \in Seq(Ch) /\ Len(w) = Len(t) + 1 /\ Len(t) \in Nat /\ w[1] = Blank
               /\ \A y \in 1 .. Len(t) : w[1 + y] = t[y]
<1> DEFINE t == Spelling(p)
<1>1. t \in Seq(Ch)
  BY SpellingIs, AlphabetIs, Coerced
<1> HIDE DEF t
<1>2. <<Blank>> \in Seq(Ch)
  BY BlankIs
<1> DEFINE w == <<Blank>> \o t
<1>3. /\ w \in Seq(Ch) /\ Len(w) = Len(t) + 1 /\ Len(t) \in Nat /\ w[1] = Blank
      /\ \A y \in 1 .. Len(t) : w[1 + y] = t[y]
  BY <1>1, <1>2
<1> QED BY <1>3 DEF t

(* A line grows parameter by parameter.                                    *)
LEMMA BegunIs ==
    ASSUME NEW name \in Seq(Ch), NEW par \in Seq(Param)
    PROVE  Grown(Ch, Begun(name, par), Len(par), name, Piece(par))
<1> DEFINE n == Len(par)
           piece == Piece(par)
           Solves(h) == h = [k \in 0 .. n |->
                               IF k = 0 THEN name
                               ELSE h[k - 1] \o (<<Blank>> \o Spelling(par[k]))]
           g == Begun(name, par)
<1>1. n \in Nat /\ \A k \in 1 .. n : par[k] \in Param
  OBVIOUS
<1>0. \A k \in 1 .. n : piece[k] = <<Blank>> \o Spelling(par[k])
  BY DEF Piece
<1> HIDE DEF n, piece
<1>2. Pieces(Ch, n, name, piece)
  <2>1. \A k \in 1 .. n : piece[k] \in Seq(Ch)
    BY <1>0, <1>1, PieceIs
  <2> QED BY <1>1, <2>1 DEF Pieces
<1>3. \A h : Chain(h, n, name, piece) <=> Solves(h)
  <2> DEFINE Left(h, k) == IF k = 0 THEN name ELSE Join(h[k - 1], piece[k])
             Right(h, k) == IF k = 0 THEN name ELSE h[k - 1] \o (<<Blank>> \o Spelling(par[k]))
  <2>2. \A h : \A k \in 0 .. n : Left(h, k) = Right(h, k)
    <3> SUFFICES ASSUME NEW h, NEW k \in 0 .. n PROVE Left(h, k) = Right(h, k)
      OBVIOUS
    <3>1. k # 0 => k \in 1 .. n
      BY <1>1
    <3>2. k # 0 => piece[k] = <<Blank>> \o Spelling(par[k])
      BY <1>0, <3>1
    <3> QED BY <3>2, Zenon DEF Join
  <2>3. \A h : Chain(h, n, name, piece) <=> h = [k \in 0 .. n |-> Left(h, k)]
    BY DEF Chain
  <2> HIDE DEF Left, Right
  <2>4. \A h : h = [k \in 0 .. n |-> Left(h, k)] <=> h = [k \in 0 .. n |-> Right(h, k)]
    BY <2>2
  <2> QED BY <2>3, <2>4 DEF Right
<1>5. \E h : Solves(h)
  <2> HIDE DEF Solves
  <2> QED BY <1>1, <1>2, <1>3, ChainExists
<1>6. g = CHOOSE h : Solves(h)
  BY DEF Begun, n, Blank
<1> HIDE DEF g
<1>7. Solves(g)
  <2> HIDE DEF Solves
  <2> QED BY <1>5, <1>6
<1> HIDE DEF Solves
<1>8. Chain(g, n, name, piece)
  BY <1>3, <1>7
<1>9. Grown(Ch, g, n, name, piece)
  BY <1>1, <1>2, <1>8, ChainIs
<1> QED BY <1>9 DEF g, n, piece

(* A line as it is written: at[k] is the space after the name and the      *)
(* first k parameters.                                                     *)
Lined(line, name, par, at) ==
    LET n == Len(par)
    IN  /\ line \in Seq(Ch) /\ at \in [0 .. n -> Nat]
        /\ at[0] = Len(name) + 1 /\ Len(line) = at[n]
        /\ \A k \in 0 .. n : at[k] \in 1 .. Len(line) /\ line[at[k]] \in Space
        /\ \A k \in 1 .. n : /\ at[k] = at[k - 1] + 1 + Len(Spelling(par[k]))
                             /\ \A y \in 1 .. Len(Spelling(par[k])) :
                                   line[at[k - 1] + y] = Spelling(par[k])[y]
        /\ \A x \in 1 .. Len(name) : line[x] = name[x]

(* Every line that is written has such places.                             *)
LEMMA LinedUp ==
    ASSUME NEW name \in Seq(Ch), NEW par \in Seq(Param)
    PROVE  \E at : Lined(Begun(name, par)[Len(par)] \o <<Blank>>, name, par, at)
<1> DEFINE n == Len(par)
           g == Begun(name, par)
           piece == Piece(par)
           G == g[n]
           line == G \o <<Blank>>
           at == [k \in 0 .. n |-> Len(g[k]) + 1]
<1>1. n \in Nat /\ \A k \in 1 .. n : par[k] \in Param
  OBVIOUS
<1>2. \A k \in 1 .. n : piece[k] = <<Blank>> \o Spelling(par[k])
  BY DEF Piece
<1>3. Grown(Ch, g, n, name, piece)
  BY BegunIs
<1>4. \A k \in 1 .. n : LET t == Spelling(par[k])
                         IN  /\ Len(t) \in Nat /\ Len(piece[k]) = Len(t) + 1 /\ piece[k][1] = Blank
                             /\ \A y \in 1 .. Len(t) : piece[k][1 + y] = t[y]
  BY <1>1, <1>2, PieceIs
<1> HIDE DEF n, g, piece
<1>5. /\ g \in [0 .. n -> Seq(Ch)] /\ g[0] = name
      /\ \A k \in 1 .. n : Len(g[k]) = Len(g[k - 1]) + Len(piece[k])
      /\ \A k \in 0 .. n : \A j \in 0 .. k :
            /\ Len(g[j]) <= Len(g[k])
            /\ \A x \in 1 .. Len(g[j]) : g[k][x] = g[j][x]
      /\ \A k \in 1 .. n : \A j \in 1 .. k : \A z \in 1 .. Len(piece[j]) :
            g[k][Len(g[j - 1]) + z] = piece[j][z]
  BY <1>3 DEF Grown
<1>6. \A k \in 0 .. n : Len(g[k]) \in Nat /\ Len(g[k]) <= Len(G)
  BY <1>1, <1>5
<1>7. G \in Seq(Ch) /\ Len(G) \in Nat
  BY <1>1, <1>5
<1>8. \A x \in 1 .. Len(name) : G[x] = name[x]
  BY <1>1, <1>5
<1>9. \A k \in 1 .. n : \A z \in 1 .. Len(piece[k]) :
         /\ Len(g[k - 1]) + z \in 1 .. Len(G)
         /\ G[Len(g[k - 1]) + z] = piece[k][z]
  <2> SUFFICES ASSUME NEW k \in 1 .. n, NEW z \in 1 .. Len(piece[k])
               PROVE  /\ Len(g[k - 1]) + z \in 1 .. Len(G)
                      /\ G[Len(g[k - 1]) + z] = piece[k][z]
    OBVIOUS
  <2>1. n \in 1 .. n /\ k - 1 \in 0 .. n /\ k \in 0 .. n
    BY <1>1
  <2>2. G[Len(g[k - 1]) + z] = piece[k][z]
    BY <1>5, <2>1
  <2>3. Len(g[k]) = Len(g[k - 1]) + Len(piece[k]) /\ Len(g[k]) <= Len(G) /\ Len(g[k - 1]) \in Nat
    BY <1>5, <1>6, <2>1
  <2>4. Len(piece[k]) \in Nat
    BY <1>4
  <2> DEFINE u == Len(g[k - 1])
             v == Len(piece[k])
  <2>5. u \in Nat /\ v \in Nat /\ z \in 1 .. v /\ u + v <= Len(G)
    BY <2>3, <2>4
  <2> HIDE DEF u, v
  <2>6. u + z \in 1 .. Len(G)
    BY <1>7, <2>5
  <2> QED BY <2>2, <2>6 DEF u
<1> HIDE DEF G
<1>10. /\ line \in Seq(Ch) /\ Len(line) = Len(G) + 1
       /\ \A x \in 1 .. Len(G) : line[x] = G[x]
       /\ line[Len(G) + 1] = Blank
  <2>1. <<Blank>> \in Seq(Ch)
    BY BlankIs
  <2> QED BY <1>7, <2>1
<1> HIDE DEF line
<1>11. /\ at \in [0 .. n -> Nat] /\ at[0] = Len(name) + 1 /\ at[n] = Len(line)
       /\ \A k \in 0 .. n : at[k] = Len(g[k]) + 1
  BY <1>1, <1>5, <1>6, <1>10 DEF G
<1> HIDE DEF at
<1>12. ASSUME NEW k \in 0 .. n PROVE at[k] \in 1 .. Len(line) /\ line[at[k]] \in Space
  <2>1. at[k] \in 1 .. Len(line)
    BY <1>6, <1>7, <1>10, <1>11
  <2>2. CASE k = n
    BY <1>10, <1>11, <2>1, <2>2, BlankIs
  <2>3. CASE k # n
    <3>1. k + 1 \in 1 .. n /\ (k + 1) - 1 = k
      BY <1>1, <2>3
    <3>2. 1 \in 1 .. Len(piece[k + 1]) /\ piece[k + 1][1] = Blank
      BY <1>4, <3>1
    <3>3. Len(g[k]) + 1 \in 1 .. Len(G) /\ G[Len(g[k]) + 1] = Blank
      BY <1>9, <3>1, <3>2
    <3> QED BY <1>10, <1>11, <2>1, <3>3, BlankIs
  <2> QED BY <2>1, <2>2, <2>3
<1>13. ASSUME NEW k \in 1 .. n
       PROVE  LET t == Spelling(par[k])
              IN  /\ at[k] = at[k - 1] + 1 + Len(t)
                  /\ \A y \in 1 .. Len(t) : line[at[k - 1] + y] = t[y]
  <2> DEFINE t == Spelling(par[k])
  <2>1. Len(t) \in Nat /\ Len(piece[k]) = Len(t) + 1
    BY <1>4
  <2>6. \A y \in 1 .. Len(t) : piece[k][1 + y] = t[y]
    BY <1>4
  <2>2. k - 1 \in 0 .. n /\ k \in 0 .. n
    BY <1>1
  <2>3. at[k] = Len(g[k]) + 1 /\ at[k - 1] = Len(g[k - 1]) + 1 /\ Len(g[k - 1]) \in Nat
        /\ Len(g[k]) = Len(g[k - 1]) + Len(piece[k])
    BY <1>5, <1>6, <1>11, <2>2
  <2> DEFINE u == Len(g[k - 1])
             v == Len(piece[k])
             w == Len(t)
             d == Len(g[k])
  <2>7. u \in Nat /\ w \in Nat /\ v = w + 1 /\ d = u + v
    BY <2>1, <2>3
  <2>8. at[k - 1] = u + 1 /\ at[k] = d + 1
    BY <2>3
  <2> HIDE DEF t, u, v, w, d
  <2>4. at[k] = at[k - 1] + 1 + w
    BY <2>7, <2>8
  <2>5. ASSUME NEW y \in 1 .. w PROVE line[at[k - 1] + y] = t[y]
    <3>1. 1 + y \in 1 .. v /\ u + (1 + y) = at[k - 1] + y
      BY <2>7, <2>8
    <3>2. u + (1 + y) \in 1 .. Len(G) /\ G[u + (1 + y)] = piece[k][1 + y]
      BY <1>9, <3>1 DEF u, v
    <3>3. piece[k][1 + y] = t[y]
      BY <2>6 DEF w
    <3>4. line[u + (1 + y)] = G[u + (1 + y)]
      BY <1>10, <3>2
    <3> QED BY <3>1, <3>2, <3>3, <3>4
  <2> QED BY <2>4, <2>5 DEF t, w
<1>14. \A x \in 1 .. Len(name) : line[x] = name[x]
  <2>1. Len(name) <= Len(G)
    BY <1>1, <1>5, <1>6
  <2> SUFFICES ASSUME NEW x \in 1 .. Len(name) PROVE line[x] = name[x]
    OBVIOUS
  <2>2. x \in 1 .. Len(G) /\ G[x] = name[x]
    BY <1>7, <1>8, <2>1
  <2> QED BY <1>10, <2>2
<1>15. Lined(line, name, par, at)
  BY <1>10, <1>11, <1>12, <1>13, <1>14 DEF Lined, n
<1> QED BY <1>15 DEF line, G, g, n

(* A beginning of a line.                                                  *)
Beginning(L, line) ==
    /\ L \in Seq(Ch) /\ Len(L) <= Len(line)
    /\ \A x \in 1 .. Len(L) : L[x] = line[x]

(* From each space of a beginning of the line the next parameter is taken. *)
LEMMA NextTaken ==
    ASSUME NEW par \in Seq(Param), NEW line, NEW name, NEW at, Lined(line, name, par, at),
           NEW L, Beginning(L, line), NEW k \in 1 .. Len(par), Sayable(par[k]),
           at[k - 1] <= Len(L)
    PROVE  Taken(L, par[k], ExtractParameter(L, at[k - 1]), at[k])
<1> DEFINE n == Len(par)
           p == par[k]
           t == Spelling(p)
           s == at[k - 1]
           f == at[k]
<1>1. /\ L \in Seq(Ch) /\ Len(L) \in Nat /\ n \in Nat /\ p \in Param
      /\ k - 1 \in 0 .. n /\ k \in 0 .. n
  BY DEF Beginning
<1>2. \A j \in 0 .. n : at[j] \in 1 .. Len(line) /\ line[at[j]] \in Space
  BY DEF Lined
<1>3. f = s + 1 + Len(t) /\ \A y \in 1 .. Len(t) : line[s + y] = t[y]
  BY DEF Lined
<1>4. \A x \in 1 .. Len(L) : L[x] = line[x]
  BY DEF Beginning
<1>5. s \in 1 .. Len(L)
  BY <1>1, <1>2
<1>6. L[s] \in Space
  BY <1>1, <1>2, <1>4, <1>5
<1>7. f <= Len(L) => L[f] \in Space
  BY <1>1, <1>2, <1>4
<1>8. Laid(L, s, t)
  <2> HIDE DEF t, s
  <2>1. ASSUME NEW y \in 1 .. Len(t), s + y <= Len(L) PROVE L[s + y] = t[y]
    <3>1. s + y \in 1 .. Len(L)
      BY <1>1, <1>5, <2>1
    <3> QED BY <1>3, <1>4, <3>1
  <2> QED BY <2>1 DEF Laid
<1> QED BY <1>1, <1>3, <1>5, <1>6, <1>7, <1>8, ParameterTaken

(* What the parameters of a beginning of the line are from a space on.     *)
TextsOf(par) == [k \in 1 .. Len(par) |-> par[k].text]

LEMMA EndIs ==
    ASSUME NEW L \in Seq(Ch)
    PROVE  End(L) \in Nat /\ End(L) \in 1 .. End(L) /\ End(L) = Len(L) + 1 /\ Len(L) \in Nat
BY DEF End

(* All of them come out of the whole line.                                 *)
LEMMA AllParameters ==
    ASSUME NEW par \in Seq(Param), \A k \in 1 .. Len(par) : Sayable(par[k]),
           NEW line, NEW name, NEW at, Lined(line, name, par, at),
           NEW L, Beginning(L, line), End(L) = at[Len(par)]
    PROVE  Parameters(L)[at[0]].param = TextsOf(par) /\ Parameters(L)[at[0]].ended
<1> DEFINE n == Len(par)
           E == End(L)
           T == TextsOf(par)
           Q == Parameters(L)
           Complete(k) == Q[at[k]].param = SubSeq(T, k + 1, n) /\ Q[at[k]].ended
           P == {i \in 1 .. n + 1 : Complete(i - 1)}
<1>1. /\ L \in Seq(Ch) /\ n \in Nat /\ E \in Nat /\ E = Len(L) + 1 /\ Len(L) \in Nat
      /\ E \in 1 .. E
  BY EndIs DEF Beginning
<1>2. \A k \in 0 .. n : at[k] \in Nat /\ at[k] \in 1 .. E
  <2>1. at \in [0 .. n -> Nat] /\ Len(line) = at[n] /\ \A j \in 0 .. n : at[j] \in 1 .. Len(line)
    BY DEF Lined
  <2> QED BY <1>1, <2>1
<1>3. T \in Seq(Content) /\ Len(T) = n /\ \A k \in 1 .. n : T[k] = par[k].text
  <2>1. \A k \in 1 .. n : par[k].text \in Content
    <3>1. \A k \in 1 .. n : par[k].text \in Seq(Letter)
      <4>1. \A k \in 1 .. n : par[k] \in Param
        OBVIOUS
      <4> QED BY <4>1 DEF Param
    <3> QED BY <3>1, AlphabetIs, Coerced DEF Content
  <2> HIDE DEF n
  <2>2. [k \in 1 .. n |-> par[k].text] \in Seq(Content)
    BY <1>1, <2>1
  <2> QED BY <1>1, <2>2 DEF TextsOf, n
<1> HIDE DEF T, Q
<1>4. Complete(n)
  <2>1. Q[E].param = <<>> /\ Q[E].ended
    BY <1>1, ParametersIs DEF Q
  <2>2. SubSeq(T, n + 1, n) = <<>>
    BY <1>1, <1>3, SubSeqEmpty
  <2> QED BY <2>1, <2>2
<1>5. ASSUME NEW k \in 1 .. n, Complete(k) PROVE Complete(k - 1)
  <2> DEFINE s == at[k - 1]
             f == at[k]
             X == ExtractParameter(L, s)
  <2>1. k - 1 \in 0 .. n /\ k \in 0 .. n
    BY <1>1
  <2>2. s \in 1 .. E /\ f \in 1 .. E /\ s # E
    <3>1. f = s + 1 + Len(Spelling(par[k]))
      BY DEF Lined
    <3>2. Len(Spelling(par[k])) \in Nat
      BY SpellingIs
    <3>3. s \in 1 .. E /\ f \in 1 .. E /\ s \in Nat
      BY <1>2, <2>1
    <3> QED BY <1>1, <3>1, <3>2, <3>3
  <2>3. Taken(L, par[k], X, f)
    BY <1>1, <2>2, NextTaken
  <2> HIDE DEF X, s, f
  <2>4. X.at = f /\ X.param = <<T[k]>> /\ X.ended
    BY <1>1, <1>3, <2>2, <2>3 DEF Taken
  <2>5. Q[s].param = X.param \o Q[f].param
        /\ Q[s].ended = IF f = E THEN X.ended ELSE Q[f].ended
    BY <1>1, <2>2, <2>4, ParametersIs DEF Q, X
  <2>6. Q[f].param = SubSeq(T, k + 1, n) /\ Q[f].ended
    BY <1>5 DEF f
  <2>7. SubSeq(T, (k - 1) + 1, n) = <<T[k]>> \o SubSeq(T, k + 1, n)
    <3>1. n \in k .. n /\ (k - 1) + 1 = k /\ k \in 1 .. Len(T)
      BY <1>1, <1>3
    <3> HIDE DEF n
    <3> QED BY <1>3, <3>1, SubSeqRecursiveFirst
  <2>8. Q[s].param = SubSeq(T, (k - 1) + 1, n)
    BY <2>4, <2>5, <2>6, <2>7
  <2> QED BY <2>4, <2>5, <2>6, <2>8 DEF s
<1> HIDE DEF Complete
<1>6. ASSUME NEW i \in 1 .. n + 1, \A j \in i + 1 .. n + 1 : j \in P
      PROVE  i \in P
  <2>1. CASE i = n + 1
    <3>1. i - 1 = n
      BY <1>1, <2>1
    <3> QED BY <1>4, <3>1
  <2>2. CASE i # n + 1
    <3>1. i + 1 \in i + 1 .. n + 1 /\ i \in 1 .. n
      BY <1>1, <2>2
    <3>2. i + 1 \in P
      BY <1>6, <3>1
    <3>3. Complete((i + 1) - 1)
      BY <3>2
    <3>4. (i + 1) - 1 = i
      BY <3>1
    <3>5. Complete(i)
      BY <3>3, <3>4
    <3>6. Complete(i - 1)
      BY <1>5, <3>1, <3>5
    <3> QED BY <3>6
  <2> QED BY <2>1, <2>2
<1>7. 1 \in P
  <2>1. 1 \in 1 .. n + 1
    BY <1>1
  <2> HIDE DEF P, n
  <2> QED BY <1>1, <1>6, <2>1, BackwardInduction
<1>8. Complete(0)
  BY <1>7
<1>9. SubSeq(T, 0 + 1, n) = T
  BY <1>3, SubSeqFull
<1> QED BY <1>8, <1>9 DEF Complete, Q, T

(* Too few come out of less, when the last has backslashes.                *)
LEMMA FewParameters ==
    ASSUME NEW par \in Seq(Param), \A k \in 1 .. Len(par) : Sayable(par[k]),
           Len(par) # 0, par[Len(par)].style = "escaped",
           NEW line, NEW name, NEW at, Lined(line, name, par, at),
           NEW L, Beginning(L, line), End(L) < at[Len(par)], at[0] <= End(L)
    PROVE  Len(Parameters(L)[at[0]].param) < Len(par)
<1> DEFINE n == Len(par)
           E == End(L)
           Q == Parameters(L)
           Few(k) == at[k] <= E => k < n /\ Len(Q[at[k]].param) < n - k
           P == {i \in 1 .. n + 1 : Few(i - 1)}
<1>1. /\ L \in Seq(Ch) /\ n \in Nat /\ E \in Nat /\ E = Len(L) + 1 /\ Len(L) \in Nat
      /\ E \in 1 .. E
  BY EndIs DEF Beginning
<1>2. \A k \in 0 .. n : at[k] \in Nat /\ at[k] >= 1
  <2>1. at \in [0 .. n -> Nat] /\ Len(line) = at[n] /\ \A j \in 0 .. n : at[j] \in 1 .. Len(line)
    BY DEF Lined
  <2> QED BY <1>1, <2>1
<1> HIDE DEF Q
<1>3. Q[E].param = <<>> /\ Len(Q[E].param) = 0
  <2>1. Q[E].param = <<>>
    BY <1>1, ParametersIs DEF Q
  <2> QED BY <2>1
<1>4. Few(n)
  BY <1>1, <1>2
<1>5. ASSUME NEW k \in 1 .. n, Few(k) PROVE Few(k - 1)
  <2> DEFINE s == at[k - 1]
             f == at[k]
             X == ExtractParameter(L, s)
  <2> SUFFICES ASSUME s <= E PROVE k - 1 < n /\ Len(Q[s].param) < n - (k - 1)
    OBVIOUS
  <2>1. k - 1 \in 0 .. n /\ k \in 0 .. n /\ k - 1 < n
    BY <1>1
  <2>2. s \in 1 .. E /\ f \in Nat /\ f >= 1
    BY <1>1, <1>2, <2>1
  <2>3. CASE s = E
    <3>1. Len(Q[s].param) = 0
      BY <1>3, <2>3
    <3> QED BY <1>1, <2>1, <3>1
  <2>4. CASE s # E
    <3>1. Taken(L, par[k], X, f)
      BY <1>1, <2>2, <2>4, NextTaken
    <3> HIDE DEF X, s, f
    <3>2. Q[s].param = X.param \o Q[X.at].param
      BY <1>1, <2>2, <2>4, ParametersIs DEF Q, X
    <3>3. X \in PartOf(L)
      BY <1>1, <2>2, ExtractIs DEF X
    <3>4. Q[X.at] \in PartOf(L)
      BY <1>1, <3>3, ParametersIs DEF Q, PartOf
    <3> DEFINE u == X.param
               v == Q[X.at].param
    <3>5. u \in Seq(Content) /\ v \in Seq(Content)
      BY <3>3, <3>4 DEF PartOf
    <3> HIDE DEF u, v
    <3>6. Len(Q[s].param) = Len(u) + Len(v) /\ Len(u) \in Nat /\ Len(v) \in Nat
      BY <3>2, <3>5 DEF u, v
    <3>7. CASE f <= E
      <4>1. u = <<par[k].text>> /\ X.at = f
        BY <3>1, <3>7 DEF Taken, u
      <4>2. Len(u) = 1
        BY <4>1
      <4>3. Len(v) < n - k
        BY <1>5, <3>7, <4>1 DEF v, f
      <4> QED BY <1>1, <2>1, <3>6, <4>2, <4>3
    <3>8. CASE f > E
      <4>1. X.at = E /\ Len(u) <= 1 /\ (par[k].style = "escaped" => u = <<>>)
        BY <3>1, <3>8 DEF Taken, u
      <4>2. Len(v) = 0
        BY <1>3, <4>1 DEF v
      <4>3. k = n => Len(u) = 0
        BY <4>1
      <4> QED BY <1>1, <2>1, <3>6, <4>1, <4>2, <4>3
    <3> QED BY <1>1, <2>2, <3>7, <3>8
  <2> QED BY <2>3, <2>4
<1> HIDE DEF Few
<1>6. ASSUME NEW i \in 1 .. n + 1, \A j \in i + 1 .. n + 1 : j \in P
      PROVE  i \in P
  <2>1. CASE i = n + 1
    <3>1. i - 1 = n
      BY <1>1, <2>1
    <3> QED BY <1>4, <3>1
  <2>2. CASE i # n + 1
    <3>1. i + 1 \in i + 1 .. n + 1 /\ i \in 1 .. n
      BY <1>1, <2>2
    <3>2. i + 1 \in P
      BY <1>6, <3>1
    <3>3. Few((i + 1) - 1)
      BY <3>2
    <3>4. (i + 1) - 1 = i
      BY <3>1
    <3>5. Few(i)
      BY <3>3, <3>4
    <3>6. Few(i - 1)
      BY <1>5, <3>1, <3>5
    <3> QED BY <3>6
  <2> QED BY <2>1, <2>2
<1>7. 1 \in P
  <2>1. 1 \in 1 .. n + 1
    BY <1>1
  <2> HIDE DEF P, n
  <2> QED BY <1>1, <1>6, <2>1, BackwardInduction
<1>8. Few(0)
  BY <1>7
<1>9. Len(Q[at[0]].param) < n - 0
  BY <1>8 DEF Few
<1> QED BY <1>1, <1>9 DEF Q

(* What the reader cuts off.                                               *)
LEMMA TrimTo ==
    ASSUME NEW s \in Seq(Ch), FindIf(s, 1, NotSpace) = 1, NEW j \in 0 .. Len(s),
           j = 0 \/ s[j] \notin Space, \A k \in j + 1 .. Len(s) : s[k] \in Space
    PROVE  Trim(s) = SubSeq(s, 1, j)
<1> DEFINE n == Len(s)
           Ends(i) == /\ i = 0 \/ s[i] \notin Space
                      /\ \A k \in i + 1 .. n : s[k] \in Space
           last == CHOOSE i \in 0 .. n : Ends(i)
<1>1. n \in Nat
  OBVIOUS
<1>2. last \in 0 .. n /\ Ends(last)
  <2>1. j \in 0 .. n /\ Ends(j)
    OBVIOUS
  <2> HIDE DEF Ends, n
  <2> QED BY <2>1
<1> HIDE DEF last
<1>3. last = j
  <2>1. ~ (last < j)
    <3> SUFFICES ASSUME last < j PROVE FALSE
      OBVIOUS
    <3>1. j \in last + 1 .. n /\ j # 0
      BY <1>1, <1>2
    <3> QED BY <1>2, <3>1
  <2>2. ~ (j < last)
    <3> SUFFICES ASSUME j < last PROVE FALSE
      OBVIOUS
    <3>1. last \in j + 1 .. n /\ last # 0
      BY <1>1, <1>2
    <3> QED BY <1>2, <3>1
  <2> QED BY <1>1, <1>2, <2>1, <2>2
<1>4. Trim(s) = SubSeq(s, 1, CHOOSE i \in 1 - 1 .. n : /\ i = 1 - 1 \/ s[i] \notin Space
                                                      /\ \A k \in i + 1 .. n : s[k] \in Space)
  BY DEF Trim
<1>5. 1 - 1 = 0
  OBVIOUS
<1>6. Trim(s) = SubSeq(s, 1, last)
  BY <1>4, <1>5 DEF last
<1> QED BY <1>3, <1>6

(* Whatever is cut off, a beginning is left.                               *)
LEMMA TrimBegins ==
    ASSUME NEW s \in Seq(Ch), FindIf(s, 1, NotSpace) = 1
    PROVE  \E j \in 0 .. Len(s) : Trim(s) = SubSeq(s, 1, j)
<1> DEFINE n == Len(s)
           S == {i \in 0 .. n : i = 0 \/ s[i] \notin Space}
<1>1. n \in Nat /\ 0 \in S /\ \A i \in S : i <= n
  OBVIOUS
<1>2. PICK j \in S : \A i \in S : i <= j
  <2>1. S \subseteq 0 .. n /\ S # {}
    BY <1>1
  <2> HIDE DEF S, n
  <2> QED BY <1>1, <2>1, GreatestNumber
<1>3. j \in 0 .. n /\ (j = 0 \/ s[j] \notin Space)
  BY <1>2
<1>4. \A k \in j + 1 .. n : s[k] \in Space
  <2> SUFFICES ASSUME NEW k \in j + 1 .. n, s[k] \notin Space PROVE FALSE
    OBVIOUS
  <2>1. k \in 0 .. n /\ ~ (k <= j)
    BY <1>1, <1>3
  <2>2. k \in S
    BY <2>1
  <2> QED BY <1>2, <2>1, <2>2
<1>5. Trim(s) = SubSeq(s, 1, j)
  BY <1>3, <1>4, TrimTo
<1> QED BY <1>3, <1>5

(* No parameter ends with a space.                                         *)
LEMMA SpellingEnds ==
    ASSUME NEW p \in Param, Sayable(p)
    PROVE  LET t == Spelling(p)
           IN  Len(t) \in Nat /\ Len(t) >= 1 /\ t[Len(t)] \notin Space
<1> DEFINE t == Spelling(p)
<1>1. CASE p.style = "bare"
  <2> DEFINE x == p.text
  <2>1. Len(x) \in Nat /\ Len(x) >= 1 /\ Len(x) \in 1 .. Len(x)
    BY <1>1, BareSayable
  <2>2. x[Len(x)] \notin Space
    BY <1>1, <2>1, BareSayable
  <2>3. Len(t) = Len(x) /\ t[Len(x)] = x[Len(x)]
    BY <1>1, <2>1, SpellingIs
  <2> HIDE DEF t, x
  <2>4. Len(t) \in Nat /\ Len(t) >= 1 /\ t[Len(t)] \notin Space
    BY <2>1, <2>2, <2>3
  <2> QED BY <2>4 DEF t
<1>2. CASE p.style # "bare"
  <2>1. Len(Spelled(p)[Len(p.text)]) \in Nat
    BY PieceAt
  <2>2. Len(t) = Len(Spelled(p)[Len(p.text)]) + 2 /\ t[Len(t)] = Quote
    BY <1>2, SpellingIs
  <2>3. Quote \notin Space
    BY SpacesApart
  <2> HIDE DEF t
  <2>4. Len(t) \in Nat /\ Len(t) >= 1 /\ t[Len(t)] \notin Space
    BY <2>1, <2>2, <2>3
  <2> QED BY <2>4 DEF t
<1> QED BY <1>1, <1>2

(* A name that a command may have.                                         *)
Named(name) ==
    name \in Seq(Ch) /\ Len(name) = 2 /\ \A x \in 1 .. 2 : name[x] \in NotSpace

LEMMA CommandsAreNamed == Named(Command) /\ Named(BadCommand)
<1>1. "a" \in NotSpace /\ "1" \in NotSpace /\ "a" \in Ch /\ "1" \in Ch
  BY DEF NotSpace, Alnum, Alpha, Ch
<1> QED BY <1>1 DEF Named, Command, BadCommand

(* Before the last space of a line there is no space.                      *)
LEMMA LastIsNoSpace ==
    ASSUME NEW par \in Seq(Param), \A k \in 1 .. Len(par) : Sayable(par[k]),
           NEW line, NEW name, Named(name), NEW at, Lined(line, name, par, at)
    PROVE  at[Len(par)] - 1 \in 1 .. Len(line) /\ line[at[Len(par)] - 1] \notin Space
<1> DEFINE n == Len(par)
<1>1. /\ n \in Nat /\ line \in Seq(Ch) /\ Len(line) = at[n] /\ Len(line) \in Nat
      /\ at[0] = Len(name) + 1 /\ \A k \in 0 .. n : at[k] \in 1 .. Len(line)
  BY DEF Lined
<1>2. CASE n = 0
  <2>1. at[n] - 1 = 2 /\ 2 \in 1 .. Len(line)
    BY <1>1, <1>2 DEF Named
  <2>2. line[2] = name[2] /\ name[2] \in NotSpace
    BY DEF Lined, Named
  <2> QED BY <2>1, <2>2, SpacesApart
<1>3. CASE n # 0
  <2> DEFINE t == Spelling(par[n])
  <2>1. n \in 1 .. n /\ n - 1 \in 0 .. n /\ par[n] \in Param
    BY <1>1, <1>3
  <2>2. Len(t) \in Nat /\ Len(t) >= 1 /\ t[Len(t)] \notin Space
    BY <2>1, SpellingEnds
  <2>3. at[n] = at[n - 1] + 1 + Len(t) /\ \A y \in 1 .. Len(t) : line[at[n - 1] + y] = t[y]
    BY <2>1 DEF Lined
  <2>4. at[n - 1] \in Nat /\ at[n - 1] >= 1
    BY <1>1, <2>1
  <2> HIDE DEF t, n
  <2>5. Len(t) \in 1 .. Len(t) /\ at[n] - 1 = at[n - 1] + Len(t)
    BY <2>2, <2>3, <2>4
  <2>6. line[at[n] - 1] = t[Len(t)]
    BY <2>3, <2>5
  <2>7. at[n] - 1 \in 1 .. Len(line)
    BY <1>1, <2>2, <2>4, <2>5
  <2> QED BY <2>2, <2>6, <2>7 DEF n
<1> QED BY <1>2, <1>3

(* The name is what stands before the first space.                         *)
LEMMA FirstSpace ==
    ASSUME NEW par \in Seq(Param), NEW line, NEW name, Named(name), NEW at,
           Lined(line, name, par, at), NEW L, Beginning(L, line)
    PROVE  /\ at[0] <= End(L) =>
                FindIf(L, 1, Space) = at[0] /\ SubSeq(L, 1, at[0] - 1) = name
           /\ at[0] > End(L) => FindIf(L, 1, Space) = End(L)
<1> DEFINE n == Len(par)
           E == End(L)
<1>1. L \in Seq(Ch) /\ E = Len(L) + 1 /\ Len(L) \in Nat /\ E \in Nat /\ 1 \in 1 .. E /\ E \in 1 .. E
  BY EndIs DEF Beginning
<1>2. at[0] = 3 /\ line[3] \in Space /\ \A x \in 1 .. 2 : line[x] = name[x]
  BY DEF Lined, Named
<1>3. \A x \in 1 .. Len(L) : L[x] = line[x]
  BY DEF Beginning
<1>4. name \in Seq(Ch) /\ Len(name) = 2 /\ \A x \in 1 .. 2 : name[x] \notin Space
  BY SpacesApart DEF Named
<1> HIDE DEF E
<1>5. ASSUME 3 <= E PROVE FindIf(L, 1, Space) = 3 /\ SubSeq(L, 1, 3 - 1) = name
  <2>1. 3 \in 1 .. E /\ (3 = E \/ L[3] \in Space)
    BY <1>1, <1>2, <1>3, <1>5
  <2>2. \A k \in 1 .. 3 - 1 : L[k] \notin Space
    BY <1>1, <1>2, <1>3, <1>4, <1>5
  <2>3. FindIf(L, 1, Space) = 3
    BY <1>1, <2>1, <2>2, FoundAt DEF E
  <2> DEFINE t == SubSeq(L, 0 + 1, 0 + 2)
  <2>4. t \in Seq(Ch) /\ Len(t) = 2 /\ \A y \in 1 .. 2 : t[y] = L[0 + y]
    <3>1. CutOut(Ch, L, 0, 2, t)
      BY <1>1, <1>5, CutIs
    <3> QED BY <3>1 DEF CutOut
  <2> HIDE DEF t
  <2>5. \A y \in 1 .. 2 : t[y] = name[y]
    BY <1>1, <1>2, <1>3, <1>5, <2>4
  <2>6. t = name
    BY <1>4, <2>4, <2>5, SeqEqual
  <2> QED BY <2>3, <2>6 DEF t
<1>6. ASSUME 3 > E PROVE FindIf(L, 1, Space) = E
  <2>1. \A k \in 1 .. E - 1 : L[k] \notin Space
    BY <1>1, <1>2, <1>3, <1>4, <1>6
  <2> QED BY <1>1, <2>1, FoundAt DEF E
<1> QED BY <1>2, <1>5, <1>6 DEF E

(* The beginning of a line up to some character.                           *)
LEMMA BeginningIs ==
    ASSUME NEW line \in Seq(Ch), NEW m \in 0 .. Len(line)
    PROVE  LET L == SubSeq(line, 1, m)
           IN  Beginning(L, line) /\ L \in Seq(Ch) /\ Len(L) = m
<1> DEFINE L == SubSeq(line, 0 + 1, 0 + m)
<1>1. L \in Seq(Ch) /\ Len(L) = m /\ \A y \in 1 .. m : L[y] = line[0 + y]
  <2>1. CutOut(Ch, line, 0, m, L)
    BY CutIs
  <2> QED BY <2>1 DEF CutOut
<1>2. L = SubSeq(line, 1, m)
  OBVIOUS
<1> HIDE DEF L
<1>3. Len(L) <= Len(line) /\ \A y \in 1 .. Len(L) : L[y] = line[y]
  BY <1>1
<1>4. Beginning(L, line)
  BY <1>1, <1>3 DEF Beginning
<1> QED BY <1>1, <1>2, <1>4

(* A line begins with its name.                                            *)
LEMMA FirstIsName ==
    ASSUME NEW par \in Seq(Param), NEW line, NEW name, Named(name), NEW at,
           Lined(line, name, par, at), NEW s, Beginning(s, line)
    PROVE  FindIf(s, 1, NotSpace) = 1
<1>1. s \in Seq(Ch) /\ End(s) = Len(s) + 1 /\ Len(s) \in Nat /\ 1 \in 1 .. End(s)
  BY EndIs DEF Beginning
<1>2. line[1] = name[1] /\ name[1] \in NotSpace
  BY DEF Lined, Named
<1>3. 1 = End(s) \/ s[1] \in NotSpace
  <2>1. 1 # End(s) => 1 \in 1 .. Len(s)
    BY <1>1
  <2> QED BY <1>2, <2>1 DEF Beginning
<1>4. \A k \in 1 .. 1 - 1 : s[k] \notin NotSpace
  OBVIOUS
<1> QED BY <1>1, <1>3, <1>4, FoundAt

(* What is carried out of a line of which the end was cut off.             *)
LEMMA CutIsFew ==
    ASSUME NEW par \in Seq(Param), \A k \in 1 .. Len(par) : Sayable(par[k]),
           Len(par) # 0, par[Len(par)].style = "escaped",
           NEW line, NEW name, Named(name), NEW at, Lined(line, name, par, at),
           NEW n \in 0 .. Len(line) - 2
    PROVE  LET L == Trim(SubSeq(line, 1, n))
           IN  Len(Parameters(L)[FindIf(L, 1, Space)].param) < Len(par)
<1> DEFINE s == SubSeq(line, 1, n)
           K == Len(par)
<1>1. /\ line \in Seq(Ch) /\ Len(line) \in Nat /\ K \in Nat
      /\ n \in 0 .. Len(line) /\ Len(line) = at[K]
  BY DEF Lined
<1>2. Beginning(s, line) /\ s \in Seq(Ch) /\ Len(s) = n
  BY <1>1, BeginningIs
<1> HIDE DEF s
<1>3. FindIf(s, 1, NotSpace) = 1
  BY <1>2, FirstIsName
<1>4. PICK m \in 0 .. Len(s) : Trim(s) = SubSeq(s, 1, m)
  BY <1>2, <1>3, TrimBegins
<1> DEFINE L == SubSeq(s, 1, m)
<1>5. Beginning(L, s) /\ L \in Seq(Ch) /\ Len(L) = m
  BY <1>2, BeginningIs
<1> HIDE DEF L
<1>6. Beginning(L, line)
  BY <1>1, <1>2, <1>5 DEF Beginning
<1>7. End(L) = m + 1 /\ m \in Nat /\ m <= n /\ End(L) \in Nat /\ End(L) \in 1 .. End(L)
  BY <1>2, <1>5, EndIs
<1>8. End(L) < at[K]
  BY <1>1, <1>7
<1>9. CASE at[0] <= End(L)
  <2>1. FindIf(L, 1, Space) = at[0]
    BY <1>6, <1>9, FirstSpace
  <2>2. Len(Parameters(L)[at[0]].param) < K
    BY <1>6, <1>8, <1>9, FewParameters
  <2> QED BY <1>4, <2>1, <2>2 DEF L, s
<1>10. CASE at[0] > End(L)
  <2>1. FindIf(L, 1, Space) = End(L)
    BY <1>6, <1>10, FirstSpace
  <2>2. Parameters(L)[End(L)].param = <<>>
    BY <1>5, <1>7, ParametersIs
  <2>3. Len(Parameters(L)[End(L)].param) = 0
    BY <2>2
  <2>4. Len(Parameters(L)[End(L)].param) < K
    BY <1>1, <2>3
  <2> QED BY <1>4, <2>1, <2>4 DEF L, s
<1>11. at[0] \in Nat
  BY <1>1 DEF Lined
<1> QED BY <1>7, <1>9, <1>10, <1>11

(* A line that has come whole gives its name and all its parameters.       *)
LEMMA WholeIsAll ==
    ASSUME NEW par \in Seq(Param), \A k \in 1 .. Len(par) : Sayable(par[k]),
           NEW line, NEW name, Named(name), NEW at, Lined(line, name, par, at)
    PROVE  LET L == Trim(line)
               i == FindIf(L, 1, Space)
           IN  /\ SubSeq(L, 1, i - 1) = name
               /\ Parameters(L)[i].param = TextsOf(par)
               /\ Parameters(L)[i].ended
<1> DEFINE K == Len(par)
           m == at[K] - 1
           L == SubSeq(line, 1, m)
<1>1. line \in Seq(Ch) /\ Len(line) \in Nat /\ K \in Nat /\ Len(line) = at[K] /\ at[K] \in Nat
  BY DEF Lined
<1>2. m \in 1 .. Len(line) /\ line[m] \notin Space
  BY LastIsNoSpace
<1>3. Trim(line) = L
  <2>1. Beginning(line, line)
    BY <1>1 DEF Beginning
  <2>2. FindIf(line, 1, NotSpace) = 1
    BY <2>1, FirstIsName
  <2>3. m \in 0 .. Len(line) /\ \A k \in m + 1 .. Len(line) : k = at[K]
    BY <1>1, <1>2
  <2>4. line[at[K]] \in Space
    BY <1>1 DEF Lined
  <2> HIDE DEF m
  <2>5. \A k \in m + 1 .. Len(line) : line[k] \in Space
    BY <2>3, <2>4
  <2> QED BY <1>1, <1>2, <2>2, <2>3, <2>5, TrimTo
<1>4. Beginning(L, line) /\ L \in Seq(Ch) /\ Len(L) = m
  <2>1. m \in 0 .. Len(line)
    BY <1>1, <1>2
  <2> HIDE DEF m
  <2> QED BY <1>1, <2>1, BeginningIs
<1> HIDE DEF L
<1>5. End(L) = at[K]
  BY <1>1, <1>4, EndIs
<1>6. at[0] <= End(L)
  <2>1. at[0] \in 1 .. Len(line)
    BY <1>1 DEF Lined
  <2> QED BY <1>1, <1>5, <2>1
<1>7. FindIf(L, 1, Space) = at[0] /\ SubSeq(L, 1, at[0] - 1) = name
  BY <1>4, <1>6, FirstSpace
<1>8. Parameters(L)[at[0]].param = TextsOf(par) /\ Parameters(L)[at[0]].ended
  BY <1>4, <1>5, AllParameters
<1> QED BY <1>3, <1>7, <1>8

(* Which of the two names is valid.                                        *)
LEMMA NamesAreJudged ==
    /\ ValidateName(Command) = [name |-> Command, param |-> <<>>, error |-> "no_error"]
    /\ ValidateName(BadCommand) = [name |-> <<>>, param |-> <<>>, error |-> "invalid_name"]
<1>1. Command # <<>> /\ Len(Command) = 2 /\ Command[1] = "a" /\ Command[2] = "1"
  BY DEF Command
<1>2. "a" \in Alpha /\ "1" \in Alnum \cup {"_"} /\ "1" \notin Alpha
  BY DEF Alpha, Alnum
<1>3. \A k \in 2 .. Len(Command) : Command[k] \in Alnum \cup {"_"}
  <2> SUFFICES ASSUME NEW k \in 2 .. Len(Command) PROVE Command[k] \in Alnum \cup {"_"}
    OBVIOUS
  <2>1. k = 2
    BY <1>1
  <2> QED BY <1>1, <1>2, <2>1
<1>4. ValidName(Command)
  BY <1>1, <1>2, <1>3 DEF ValidName
<1>5. ~ ValidName(BadCommand)
  <2>1. BadCommand[1] = "1"
    BY DEF BadCommand
  <2> QED BY <1>2, <2>1 DEF ValidName
<1> QED BY <1>4, <1>5 DEF ValidateName

LEMMA ValidatedIs ==
    ASSUME NEW name
    PROVE  ValidateName(name) \in [name : {name, <<>>}, param : {<<>>},
                                   error : {"no_error", "invalid_name"}]
BY DEF ValidateName

WrittenLine(name, par) == Begun(name, par)[Len(par)] \o <<Blank>>

(* What the parser makes of a line.                                        *)
LEMMA LineParsed ==
    ASSUME NEW par \in Seq(Param), \A k \in 1 .. Len(par) : Sayable(par[k]),
           NEW name \in {Command, BadCommand}
    PROVE  Parse(Trim(WrittenLine(name, par))) =
              [name  |-> IF name = Command THEN Command ELSE <<>>,
               param |-> TextsOf(par),
               error |-> IF name = Command THEN "no_error" ELSE "invalid_name"]
<1> DEFINE line == WrittenLine(name, par)
           L == Trim(line)
           i == FindIf(L, 1, Space)
           v == ValidateName(name)
           r == Parameters(L)[i]
<1>1. Named(name) /\ name \in Seq(Ch)
  BY CommandsAreNamed DEF Named
<1> PICK at : Lined(line, name, par, at)
  BY <1>1, LinedUp DEF WrittenLine
<1> HIDE DEF line
<1>2. SubSeq(L, 1, i - 1) = name /\ r.param = TextsOf(par) /\ r.ended
  BY <1>1, WholeIsAll
<1>3. Parse(L) = [ValidateName(SubSeq(L, 1, i - 1)) EXCEPT
                     !.param = r.param, !.error = IF r.ended THEN @ ELSE "quotes_error"]
  BY DEF Parse
<1> HIDE DEF L, i, v, r
<1>4. Parse(L) = [v EXCEPT !.param = TextsOf(par), !.error = IF r.ended THEN @ ELSE "quotes_error"]
  BY <1>2, <1>3 DEF v
<1>5. Command # BadCommand
  <2>1. Command[1] # BadCommand[1]
    BY DEF Command, BadCommand
  <2> QED BY <2>1
<1>6. v = [name  |-> IF name = Command THEN Command ELSE <<>>, param |-> <<>>,
           error |-> IF name = Command THEN "no_error" ELSE "invalid_name"]
  <2> HIDE DEF v
  <2>1. CASE name = Command
    BY <2>1, NamesAreJudged DEF v
  <2>2. CASE name = BadCommand
    BY <1>5, <2>2, NamesAreJudged DEF v
  <2> QED BY <2>1, <2>2
<1>7. Parse(L) = [name  |-> IF name = Command THEN Command ELSE <<>>, param |-> TextsOf(par),
                  error |-> IF name = Command THEN "no_error" ELSE "invalid_name"]
  BY <1>2, <1>4, <1>6
<1> QED BY <1>7 DEF L, line

(* What the dispatcher makes of a line that was cut off.                   *)
LEMMA CutNotRun ==
    ASSUME NEW par \in Seq(Param), \A k \in 1 .. Len(par) : Sayable(par[k]),
           Len(par) # 0, par[Len(par)].style = "escaped",
           NEW name \in {Command, BadCommand},
           NEW n \in 0 .. Len(WrittenLine(name, par)) - 2
    PROVE  ~ Runs(SubSeq(WrittenLine(name, par), 1, n), [c \in {Command} |-> Len(par)])
<1> DEFINE line == WrittenLine(name, par)
           s == SubSeq(line, 1, n)
           L == Trim(s)
           i == FindIf(L, 1, Space)
           r == Parameters(L)[i]
           v == ValidateName(SubSeq(L, 1, i - 1))
           arity == [c \in {Command} |-> Len(par)]
           res == Parse(L)
<1>1. Named(name) /\ name \in Seq(Ch)
  BY CommandsAreNamed DEF Named
<1> PICK at : Lined(line, name, par, at)
  BY <1>1, LinedUp DEF WrittenLine
<1>2. Len(r.param) < Len(par) /\ Len(par) \in Nat
  <2> HIDE DEF line
  <2> QED BY <1>1, CutIsFew DEF line
<1>3. res = [v EXCEPT !.param = r.param, !.error = IF r.ended THEN @ ELSE "quotes_error"]
  BY DEF Parse
<1> HIDE DEF line, s, L, i, r, v, res, arity
<1>4. res.param = r.param
  <2>1. v \in [name : {SubSeq(L, 1, i - 1), <<>>}, param : {<<>>},
               error : {"no_error", "invalid_name"}]
    BY ValidatedIs DEF v
  <2> QED BY <1>3, <2>1
<1>5. res.name \in DOMAIN arity => ~ SetParameterValues(arity[res.name], res.param)
  <2>1. res.name \in DOMAIN arity => arity[res.name] = Len(par)
    BY DEF arity
  <2> QED BY <1>2, <1>4, <2>1 DEF SetParameterValues
<1>6. ~ Runs(s, arity)
  BY <1>5 DEF Runs, res, L
<1> QED BY <1>6 DEF s, line, arity

(* Every list of parameters that can be written in the three ways comes    *)
(* out of the parser as it was, however many there are and whatever quotes,*)
(* spaces and backslashes they hold.                                       *)
THEOREM LinesAreUnderstood == Spec => []LineIsUnderstood
<1>1. TypeOK => LineIsUnderstood
  <2> SUFFICES ASSUME TypeOK, input.job = "line", AllSayable PROVE LineIsUnderstood
    BY DEF LineIsUnderstood
  <2> DEFINE name == input.name
             par == input.par
  <2>1. name \in {Command, BadCommand} /\ par \in Seq(Param)
    BY DEF TypeOK, ConditionInput, RenamingInput, LineInput, NameInput, MessageInput,
           PlaceInput, TextInput, Param
  <2>2. DOMAIN par = 1 .. Len(par)
    BY <2>1
  <2>3. \A k \in 1 .. Len(par) : Sayable(par[k])
    BY <2>2 DEF AllSayable
  <2>4. Line = WrittenLine(name, par)
    BY DEF Line, WrittenLine, Blank
  <2>5. TextsOf(par) = [k \in DOMAIN par |-> par[k].text]
    BY <2>2 DEF TextsOf
  <2> HIDE DEF name, par
  <2>6. Parse(Trim(WrittenLine(name, par))) =
           [name  |-> IF name = Command THEN Command ELSE <<>>,
            param |-> TextsOf(par),
            error |-> IF name = Command THEN "no_error" ELSE "invalid_name"]
    BY <2>1, <2>3, LineParsed
  <2> QED BY <2>4, <2>5, <2>6 DEF LineIsUnderstood, name, par
<1> QED BY <1>1, TypeCorrect, PTL

(* No beginning of a line whose last parameter is in quotes with           *)
(* backslashes is carried out: whatever it holds, and wherever the reader  *)
(* cuts it off, it has fewer parameters.                                   *)
THEOREM CutsAreRefused == Spec => []CutIsRefused
<1>1. TypeOK => CutIsRefused
  <2> SUFFICES ASSUME TypeOK, input.job = "line", AllSayable, input.par # <<>>,
                      input.par[Len(input.par)].style = "escaped",
                      NEW n \in 0 .. Len(Line) - 2
               PROVE  ~ Runs(SubSeq(Line, 1, n), [c \in {Command} |-> Len(input.par)])
    BY DEF CutIsRefused
  <2> DEFINE name == input.name
             par == input.par
  <2>1. name \in {Command, BadCommand} /\ par \in Seq(Param)
    BY DEF TypeOK, ConditionInput, RenamingInput, LineInput, NameInput, MessageInput,
           PlaceInput, TextInput, Param
  <2>2. DOMAIN par = 1 .. Len(par) /\ Len(par) # 0
    BY <2>1
  <2>3. \A k \in 1 .. Len(par) : Sayable(par[k])
    BY <2>2 DEF AllSayable
  <2>4. Line = WrittenLine(name, par)
    BY DEF Line, WrittenLine, Blank
  <2>5. n \in 0 .. Len(WrittenLine(name, par)) - 2 /\ par[Len(par)].style = "escaped"
    BY <2>4
  <2> HIDE DEF name, par
  <2>6. ~ Runs(SubSeq(WrittenLine(name, par), 1, n), [c \in {Command} |-> Len(par)])
    BY <2>1, <2>2, <2>3, <2>5, CutNotRun
  <2> QED BY <2>4, <2>6 DEF par
<1> QED BY <1>1, TypeCorrect, PTL
=============================================================================
