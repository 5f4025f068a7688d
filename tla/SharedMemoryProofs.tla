------------------------- MODULE SharedMemoryProofs -------------------------
(***************************************************************************)
(* Theorems about SharedMemory, for any number of processes, every layout  *)
(* of the memory, all conditions and every bound.                          *)
(***************************************************************************)
EXTENDS SharedMemory, SequenceTheorems, TLAPS

LEMMA ClearedType == Cleared \in [Var -> Value] /\ NoLocal \in [v : [Var -> Value], res : Results]
<1>1. Cleared \in [Var -> Value]
  BY SharedAssumption DEF SharedAssumption, Cleared
<1>2. <<>> \in [{} -> Value] /\ {} \in SUBSET Var
  OBVIOUS
<1> QED BY <1>1, <1>2 DEF NoLocal, Results

(* A write to one variable of one memory keeps all memories well formed.   *)
LEMMA MemoryType ==
    ASSUME TypeOK, NEW m \in Memory, NEW c \in [Var -> Value]
    PROVE  /\ [mem EXCEPT ![m] = c] \in Seq([Var -> Value])
           /\ Len([mem EXCEPT ![m] = c]) = Len(mem)
           /\ \A n \in Memory : [mem EXCEPT ![m] = c][n] = IF n = m THEN c ELSE mem[n]
BY ExceptSeq DEF TypeOK, Memory

LEMMA OverType ==
    ASSUME NEW D, NEW E, NEW new \in [D -> Value], NEW old \in [E -> Value]
    PROVE  Over(new, old) \in [D \cup E -> Value]
BY DEF Over

(* A process that has the memory has one that was created.                 *)
HandleInv == \A p \in Proc : Has(p) => handle[p] \in Memory

LEMMA GoneType ==
    ASSUME TypeOK, NEW p \in Proc, Gone(p)
    PROVE  /\ pc' \in [Proc -> {"down", "exists", "sizing", "idle", "inside"}]
           /\ handle' \in [Proc -> Memory \cup {NoMemory}]
           /\ mine' \in [Proc -> BOOLEAN] /\ own' \in [Proc -> [Var -> Value]]
           /\ local' \in [Proc -> [v : [Var -> Value], res : Results]]
           /\ place' \in [Proc -> 1 .. Len(Layout) + 1]
<1>1. 1 \in 1 .. Len(Layout) + 1
  BY SharedAssumption DEF SharedAssumption
<1> QED BY <1>1, ClearedType DEF TypeOK, Gone, Goes
----------------------------------------------------------------------------
(* What one round of the exchange does to the three places that it may     *)
(* write to.                                                               *)
Place(p) == Layout[place[p]]
Seen(p) ==
    IF Place(p) \in Unreachable THEN "error"
    ELSE Asked(ReadCond[p], Place(p), local[p].v)
Now(p) == IF Seen(p) = "on" THEN ReadValue(p, Place(p)) ELSE local[p].v[Place(p)]
Writes(p) ==
    /\ Seen(p) # "error"
    /\ Asked(WriteCond[p], Place(p), [local[p].v EXCEPT ![Place(p)] = Now(p)]) = "on"

LEMMA PlaceIsVariable ==
    ASSUME TypeOK, NEW p \in Proc, place[p] <= Len(Layout)
    PROVE  Place(p) \in Var
BY SharedAssumption DEF SharedAssumption, TypeOK, Place, Var

LEMMA NowIsValue ==
    ASSUME TypeOK, HandleInv, NEW p \in Proc, pc[p] = "inside", place[p] <= Len(Layout)
    PROVE  Now(p) \in Value
<1>1. Place(p) \in Var
  BY PlaceIsVariable
<1>2. handle[p] \in Memory
  BY DEF HandleInv, Has
<1>3. local[p].v \in [Var -> Value]
  BY DEF TypeOK
<1>4. mem[handle[p]] \in [Var -> Value]
  BY <1>2 DEF TypeOK, Memory
<1> QED BY <1>1, <1>3, <1>4 DEF Now, ReadValue

LEMMA Rounds ==
    ASSUME TypeOK, HandleInv, NEW p \in Proc, Exchange(p)
    PROVE  /\ pc[p] = "inside" /\ place[p] <= Len(Layout)
           /\ place' = [place EXCEPT ![p] = place[p] + 1]
           /\ local' = [local EXCEPT
                 ![p] = [v   |-> [local[p].v EXCEPT ![Place(p)] = Now(p)],
                         res |-> IF Seen(p) = "on"
                                 THEN Over([u \in {Place(p)} |-> Now(p)], local[p].res)
                                 ELSE local[p].res]]
           /\ mem' = IF Writes(p)
                     THEN [mem EXCEPT ![handle[p]] =
                             [mem[handle[p]] EXCEPT ![Place(p)] = Stored(Place(p), Now(p))]]
                     ELSE mem
           /\ UNCHANGED <<pc, handle, mine, own, named, mutex, changes, crashes, mishaps>>
<1> DEFINE x == IF Seen(p) = "on" THEN ReadValue(p, Place(p)) ELSE local[p].v[Place(p)]
           w == IF Seen(p) = "error" THEN "error"
                ELSE Asked(WriteCond[p], Place(p), [local[p].v EXCEPT ![Place(p)] = x])
<1>1. /\ pc[p] = "inside" /\ place[p] <= Len(Layout)
      /\ place' = [place EXCEPT ![p] = @ + 1]
      /\ local' = [local EXCEPT
                     ![p] = [v   |-> [local[p].v EXCEPT ![Place(p)] = x],
                             res |-> IF Seen(p) = "on"
                                     THEN Over([u \in {Place(p)} |-> x], local[p].res)
                                     ELSE local[p].res]]
      /\ mem' = IF w = "on"
                THEN [mem EXCEPT ![handle[p]][Place(p)] = Stored(Place(p), x)] ELSE mem
      /\ UNCHANGED <<pc, handle, mine, own, named, mutex, changes, crashes, mishaps>>
  BY DEF Exchange, Place, Seen
<1>2. x = Now(p)
  BY DEF Now
<1> HIDE DEF x
<1>3. w = "on" <=> Writes(p)
  BY <1>2 DEF Writes
<1> HIDE DEF w
<1>4. w = "on" => mem' = [mem EXCEPT ![handle[p]] =
                            [mem[handle[p]] EXCEPT ![Place(p)] = Stored(Place(p), x)]]
  BY <1>1
<1> QED BY <1>1, <1>2, <1>3, <1>4

LEMMA RoundIsLocal ==
    ASSUME TypeOK, HandleInv, NEW p \in Proc, Exchange(p)
    PROVE  /\ local'[p].v = [local[p].v EXCEPT ![Place(p)] = Now(p)]
           /\ local'[p].res = IF Seen(p) = "on"
                              THEN Over([u \in {Place(p)} |-> Now(p)], local[p].res)
                              ELSE local[p].res
           /\ place'[p] = place[p] + 1
           /\ \A q \in Proc \ {p} : local'[q] = local[q] /\ place'[q] = place[q]
<1> DEFINE after == [v   |-> [local[p].v EXCEPT ![Place(p)] = Now(p)],
                     res |-> IF Seen(p) = "on"
                             THEN Over([u \in {Place(p)} |-> Now(p)], local[p].res)
                             ELSE local[p].res]
<1>1. local' = [local EXCEPT ![p] = after]
  BY Rounds
<1>2. place' = [place EXCEPT ![p] = place[p] + 1]
  BY Rounds
<1> HIDE DEF after
<1>3. local'[p] = after /\ \A q \in Proc \ {p} : local'[q] = local[q]
  BY <1>1 DEF TypeOK
<1>4. place'[p] = place[p] + 1 /\ \A q \in Proc \ {p} : place'[q] = place[q]
  BY <1>2 DEF TypeOK
<1> QED BY <1>3, <1>4 DEF after
----------------------------------------------------------------------------
(* The constructors keep the types.                                        *)
LEMMA CreateType ==
    ASSUME TypeOK, HandleInv, NEW p \in Proc, Create(p)
    PROVE  TypeOK' /\ HandleInv'
<1>1. mem' \in Seq([Var -> Value]) /\ Len(mem') = Len(mem) + 1 /\ Len(mem) \in Nat
  BY ClearedType DEF TypeOK, Create
<1>2. Memory \subseteq Memory' /\ named' \in Memory' /\ Len(mem') <= MaxMemory
  BY <1>1, SharedAssumption DEF Create, Memory, SharedAssumption
<1>3. TypeOK'
  BY <1>1, <1>2 DEF TypeOK, Create, Goes
<1>4. HandleInv'
  BY <1>2 DEF TypeOK, HandleInv, Has, Create, Goes
<1> QED BY <1>3, <1>4

LEMMA ClearType ==
    ASSUME TypeOK, HandleInv, NEW p \in Proc, Clear(p)
    PROVE  TypeOK' /\ HandleInv'
<1>1. handle[p] \in Memory
  BY DEF HandleInv, Has, Clear
<1>2. mem' \in Seq([Var -> Value]) /\ Len(mem') = Len(mem)
  BY <1>1, MemoryType, ClearedType DEF Clear
<1>3. Memory' = Memory
  BY <1>2 DEF Memory
<1>4. TypeOK'
  BY <1>2, <1>3, ClearedType DEF TypeOK, Clear, Goes, Mishap
<1>5. HandleInv'
  BY <1>3 DEF TypeOK, HandleInv, Has, Clear, Goes
<1> QED BY <1>4, <1>5

LEMMA LoadType ==
    ASSUME TypeOK, HandleInv, NEW p \in Proc, Load(p)
    PROVE  TypeOK' /\ HandleInv'
<1>1. CASE Create(p)
  BY <1>1, CreateType
<1>2. CASE CreateFails(p)
  BY <1>2 DEF TypeOK, HandleInv, Has, Memory, CreateFails, Goes
<1>3. CASE Open(p)
  BY <1>3 DEF TypeOK, HandleInv, Has, Memory, Open, Goes
<1>4. CASE OpenFails(p)
  <2>1. TypeOK'
    BY <1>4, GoneType DEF TypeOK, OpenFails, Memory
  <2>2. HandleInv'
    BY <1>4 DEF TypeOK, HandleInv, Has, Memory, OpenFails, Gone, Goes
  <2> QED BY <2>1, <2>2
<1>5. CASE Clear(p)
  BY <1>5, ClearType
<1> QED BY <1>1, <1>2, <1>3, <1>4, <1>5 DEF Load
----------------------------------------------------------------------------
(* The exchange keeps the types.                                           *)
LEMMA ExchangeType ==
    ASSUME TypeOK, HandleInv, NEW p \in Proc, Exchange(p)
    PROVE  TypeOK' /\ HandleInv'
<1>1. Place(p) \in Var /\ Now(p) \in Value
  BY Rounds, PlaceIsVariable, NowIsValue
<1>2. handle[p] \in Memory
  BY Rounds DEF HandleInv, Has
<1>3. mem' \in Seq([Var -> Value]) /\ Len(mem') = Len(mem)
  <2>1. Stored(Place(p), Now(p)) \in Value
    BY <1>1, SharedAssumption DEF Stored, SharedAssumption
  <2>2. mem[handle[p]] \in [Var -> Value]
    BY <1>2 DEF TypeOK, Memory
  <2> DEFINE c == [mem[handle[p]] EXCEPT ![Place(p)] = Stored(Place(p), Now(p))]
  <2>3. c \in [Var -> Value]
    BY <2>1, <2>2
  <2>4. mem' = mem \/ mem' = [mem EXCEPT ![handle[p]] = c]
    BY Rounds
  <2> HIDE DEF c
  <2>5. LET m == [mem EXCEPT ![handle[p]] = c]
        IN  m \in Seq([Var -> Value]) /\ Len(m) = Len(mem)
    BY <1>2, <2>3, MemoryType
  <2>6. mem \in Seq([Var -> Value])
    BY DEF TypeOK
  <2> QED BY <2>4, <2>5, <2>6
<1>4. local' \in [Proc -> [v : [Var -> Value], res : Results]]
  <2>0. local[p].res \in Results
    BY DEF TypeOK
  <2>1. PICK S \in SUBSET Var : local[p].res \in [S -> Value]
    BY <2>0 DEF Results
  <2>2. Over([u \in {Place(p)} |-> Now(p)], local[p].res) \in [{Place(p)} \cup S -> Value]
    BY <1>1, <2>1, OverType
  <2>3. Over([u \in {Place(p)} |-> Now(p)], local[p].res) \in Results
    BY <1>1, <2>2 DEF Results
  <2>4. [local[p].v EXCEPT ![Place(p)] = Now(p)] \in [Var -> Value]
    BY <1>1 DEF TypeOK
  <2> DEFINE r == IF Seen(p) = "on"
                  THEN Over([u \in {Place(p)} |-> Now(p)], local[p].res)
                  ELSE local[p].res
             after == [v |-> [local[p].v EXCEPT ![Place(p)] = Now(p)], res |-> r]
  <2>5. after \in [v : [Var -> Value], res : Results]
    BY <2>0, <2>3, <2>4
  <2>6. local' = [local EXCEPT ![p] = after]
    BY Rounds
  <2> HIDE DEF after
  <2> QED BY <2>5, <2>6 DEF TypeOK
<1>5. place' \in [Proc -> 1 .. Len(Layout) + 1]
  <2>1. place' = [place EXCEPT ![p] = place[p] + 1] /\ place[p] <= Len(Layout)
    BY Rounds
  <2>2. Len(Layout) \in Nat
    BY SharedAssumption DEF SharedAssumption
  <2> QED BY <2>1, <2>2 DEF TypeOK
<1>6. Memory' = Memory
  BY <1>3 DEF Memory
<1>7. TypeOK'
  BY <1>3, <1>4, <1>5, <1>6, Rounds DEF TypeOK
<1>8. HandleInv'
  BY <1>6, Rounds DEF HandleInv, Has
<1> QED BY <1>7, <1>8

LEMMA EndExchangeType ==
    ASSUME TypeOK, HandleInv, NEW p \in Proc, EndExchange(p)
    PROVE  TypeOK' /\ HandleInv'
<1>0. local[p].res \in Results
  BY DEF TypeOK
<1>1. PICK S \in SUBSET Var : local[p].res \in [S -> Value]
  BY <1>0 DEF Results
<1>2. Over(local[p].res, own[p]) \in [S \cup Var -> Value]
  BY <1>1, OverType DEF TypeOK
<1>3. S \cup Var = Var
  OBVIOUS
<1>4. own' \in [Proc -> [Var -> Value]]
  BY <1>2, <1>3 DEF TypeOK, EndExchange
<1>5. 1 \in 1 .. Len(Layout) + 1
  BY SharedAssumption DEF SharedAssumption
<1>6. TypeOK'
  BY <1>4, <1>5, ClearedType DEF TypeOK, EndExchange, Goes, Memory
<1>7. HandleInv'
  BY DEF TypeOK, HandleInv, Has, Memory, EndExchange, Goes
<1> QED BY <1>6, <1>7

LEMMA StepType ==
    ASSUME TypeOK, HandleInv, NEW p \in Proc, Step(p)
    PROVE  TypeOK' /\ HandleInv'
<1>1. CASE Lock(p)
  <2>1. 1 \in 1 .. Len(Layout) + 1
    BY SharedAssumption DEF SharedAssumption
  <2>2. [v |-> own[p], res |-> <<>>] \in [v : [Var -> Value], res : Results]
    BY ClearedType DEF TypeOK, NoLocal
  <2>3. TypeOK'
    BY <1>1, <2>1, <2>2 DEF TypeOK, Lock, Goes, First, Memory
  <2>4. HandleInv'
    BY <1>1 DEF TypeOK, HandleInv, Has, Memory, Lock, Goes
  <2> QED BY <2>3, <2>4
<1>2. CASE Timeout(p)
  <2>1. TypeOK'
    BY <1>2, GoneType DEF TypeOK, Timeout, Memory, Mishap
  <2>2. HandleInv'
    BY <1>2 DEF TypeOK, HandleInv, Has, Memory, Timeout, Gone, Goes
  <2> QED BY <2>1, <2>2
<1>3. CASE Exchange(p)
  BY <1>3, ExchangeType
<1>4. CASE EndExchange(p)
  BY <1>4, EndExchangeType
<1> QED BY <1>1, <1>2, <1>3, <1>4 DEF Step
----------------------------------------------------------------------------
(* The other actions keep the types.                                       *)
LEMMA OtherType ==
    ASSUME TypeOK, HandleInv, NEW p \in Proc,
           Exit(p) \/ Crash(p) \/ (\E x \in Value : OwnChange(p, x))
    PROVE  TypeOK' /\ HandleInv'
<1>1. CASE Exit(p)
  <2>1. TypeOK'
    BY <1>1, GoneType DEF TypeOK, Exit, Memory, Mishap
  <2>2. HandleInv'
    BY <1>1 DEF TypeOK, HandleInv, Has, Memory, Exit, Gone, Goes
  <2> QED BY <2>1, <2>2
<1>2. CASE Crash(p)
  <2>1. TypeOK'
    BY <1>2, GoneType DEF TypeOK, Crash, Memory, Mishap
  <2>2. HandleInv'
    BY <1>2 DEF TypeOK, HandleInv, Has, Memory, Crash, Gone, Goes
  <2> QED BY <2>1, <2>2
<1>3. CASE \E x \in Value : OwnChange(p, x)
  <2>1. PICK x \in Value : OwnChange(p, x)
    BY <1>3
  <2>2. own' \in [Proc -> [Var -> Value]]
    BY <2>1 DEF TypeOK, OwnChange
  <2> QED BY <2>1, <2>2 DEF TypeOK, OwnChange, HandleInv, Has, Memory
<1> QED BY <1>1, <1>2, <1>3

LEMMA TypeInductive ==
    ASSUME TypeOK, HandleInv, [Next]_vars
    PROVE  TypeOK' /\ HandleInv'
<1>1. CASE UNCHANGED vars
  BY <1>1 DEF TypeOK, HandleInv, Has, Memory, vars, process
<1>2. ASSUME NEW p \in Proc,
             Load(p) \/ Step(p) \/ Exit(p) \/ Crash(p) \/ (\E x \in Value : OwnChange(p, x))
      PROVE  TypeOK' /\ HandleInv'
  BY <1>2, LoadType, StepType, OtherType
<1> QED BY <1>1, <1>2 DEF Next

(* Every reachable state is well typed, and a process that is past its     *)
(* constructor has a memory that was created (boost_shm_object.cpp).       *)
THEOREM TypeCorrect == Spec => [](TypeOK /\ HandleInv)
<1>1. Init => TypeOK /\ HandleInv
  <2> SUFFICES ASSUME Init PROVE TypeOK /\ HandleInv
    OBVIOUS
  <2>1. 1 \in 1 .. Len(Layout) + 1
    BY SharedAssumption DEF SharedAssumption
  <2>2. [v |-> Cleared, res |-> <<>>] \in [v : [Var -> Value], res : Results]
    BY ClearedType DEF NoLocal
  <2>3. mem \in Seq([Var -> Value]) /\ Len(mem) <= MaxMemory
    BY SharedAssumption DEF Init, SharedAssumption
  <2>4. TypeOK
    BY <2>1, <2>2, <2>3, ClearedType DEF Init, TypeOK
  <2>5. HandleInv
    BY DEF Init, HandleInv, Has
  <2> QED BY <2>4, <2>5
<1>2. TypeOK /\ HandleInv /\ [Next]_vars => (TypeOK /\ HandleInv)'
  BY TypeInductive
<1> QED BY <1>1, <1>2, PTL DEF Spec
----------------------------------------------------------------------------
(* HeldByInside is inductive as it stands: only a process inside gives the *)
(* mutex back, and one that crashes inside is on record.                      *)
LEMMA MutexInductive ==
    ASSUME TypeOK, HeldByInside, [Next]_vars
    PROVE  HeldByInside'
<1>0. Nobody \notin Proc
  BY SharedAssumption DEF SharedAssumption
<1>1. CASE UNCHANGED vars
  BY <1>1 DEF HeldByInside, vars, process
<1>2. ASSUME NEW p \in Proc, Load(p)
      PROVE  HeldByInside'
  BY <1>2 DEF TypeOK, HeldByInside, Load, Create, CreateFails, Open, OpenFails,
              Clear, Gone, Goes
<1>3. ASSUME NEW p \in Proc, Lock(p)
      PROVE  HeldByInside'
  BY <1>0, <1>3 DEF TypeOK, HeldByInside, Lock, Goes, Obtained
<1>4. ASSUME NEW p \in Proc, Timeout(p)
      PROVE  HeldByInside'
  BY <1>4 DEF TypeOK, HeldByInside, Timeout, Gone, Goes
<1>5. ASSUME NEW p \in Proc, Exchange(p)
      PROVE  HeldByInside'
  BY <1>5 DEF HeldByInside, Exchange
<1>6. ASSUME NEW p \in Proc, EndExchange(p)
      PROVE  HeldByInside'
  BY <1>0, <1>6 DEF TypeOK, HeldByInside, EndExchange, Goes
<1>7. ASSUME NEW p \in Proc, Exit(p)
      PROVE  HeldByInside'
  BY <1>7 DEF TypeOK, HeldByInside, Exit, Gone, Goes
<1>8. ASSUME NEW p \in Proc, Crash(p)
      PROVE  HeldByInside'
  BY <1>8 DEF TypeOK, HeldByInside, Crash, Gone, Goes
<1>9. ASSUME NEW p \in Proc, NEW x \in Value, OwnChange(p, x)
      PROVE  HeldByInside'
  BY <1>9 DEF HeldByInside, OwnChange
<1> QED BY <1>1, <1>2, <1>3, <1>4, <1>5, <1>6, <1>7, <1>8, <1>9 DEF Next, Step

(* The mutex is held exactly by the process inside the region, until its   *)
(* holder crashes (boost_shm_object.cpp, the mapped region).               *)
THEOREM MutexIsHeldInside == Spec => []HeldByInside
<1>1. Init => HeldByInside
  BY SharedAssumption DEF SharedAssumption, Init, HeldByInside
<1>2. TypeOK /\ HeldByInside /\ [Next]_vars => HeldByInside'
  BY MutexInductive
<1> QED BY <1>1, <1>2, TypeCorrect, PTL DEF Spec
----------------------------------------------------------------------------
(* Every process has the memory that bears the name: that is why a process *)
(* that creates one finds nobody with another.                             *)
NameInv ==
    "orphans" \notin mishaps => \A p \in Proc : Has(p) => handle[p] = named

LEMMA NameInductive ==
    ASSUME TypeOK, HandleInv, NameInv, [Next]_vars
    PROVE  NameInv'
<1>1. CASE UNCHANGED vars
  BY <1>1 DEF NameInv, Has, vars, process
<1>2. ASSUME NEW p \in Proc, Create(p)
      PROVE  NameInv'
  <2>1. NoMemory \notin Memory
    BY SharedAssumption DEF SharedAssumption, TypeOK, Memory
  <2>2. "orphans" \notin mishaps => \A q \in Proc : ~ Has(q)
    BY <1>2, <2>1 DEF NameInv, HandleInv, Create
  <2> QED BY <1>2, <2>2 DEF TypeOK, NameInv, Has, Create, Goes
<1>3. ASSUME NEW p \in Proc, CreateFails(p) \/ Open(p) \/ OpenFails(p) \/ Clear(p)
      PROVE  NameInv'
  BY <1>3 DEF TypeOK, NameInv, Has, CreateFails, Open, OpenFails, Clear, Gone, Goes
<1>4. ASSUME NEW p \in Proc, Step(p)
      PROVE  NameInv'
  BY <1>4 DEF TypeOK, NameInv, Has, Step, Lock, Timeout, Exchange, EndExchange,
              Gone, Goes
<1>5. ASSUME NEW p \in Proc, Exit(p)
      PROVE  NameInv'
  BY <1>5 DEF TypeOK, NameInv, Has, Exit, Removes, Gone, Goes
<1>6. ASSUME NEW p \in Proc, Crash(p)
      PROVE  NameInv'
  BY <1>6 DEF TypeOK, NameInv, Has, Crash, Gone, Goes
<1>7. ASSUME NEW p \in Proc, NEW x \in Value, OwnChange(p, x)
      PROVE  NameInv'
  BY <1>7 DEF NameInv, Has, OwnChange
<1> QED BY <1>1, <1>2, <1>3, <1>4, <1>5, <1>6, <1>7 DEF Next, Load

(* Processes that run use one memory, whoever crashes, as long as nobody   *)
(* that created it removes its name under another process                  *)
(* (boost_shm_object.cpp, the destructor).                                 *)
THEOREM AllUseOneMemory == Spec => []OneMemory
<1>1. Init => NameInv
  BY DEF Init, NameInv, Has
<1>2. TypeOK /\ HandleInv /\ NameInv /\ [Next]_vars => NameInv'
  BY NameInductive
<1>3. NameInv => OneMemory
  BY DEF NameInv, OneMemory
<1> QED BY <1>1, <1>2, <1>3, TypeCorrect, PTL DEF Spec
----------------------------------------------------------------------------
(* ReadTogether needs one writer: another one would change a part of what  *)
(* the first has written.  It gives values and takes none, and what it     *)
(* writes without a condition contains what others read without one.       *)
SoleWriter(w) ==
    /\ DOMAIN ReadCond[w] = {}
    /\ \A p \in Proc \ {w} :
          /\ DOMAIN WriteCond[p] = {}
          /\ Always(ReadCond[p]) \cap Fits \subseteq Always(WriteCond[w])

Calm == {"cleared", "holder"} \cap mishaps = {}
Even(f, S) == \A u, v \in S : f[u] = f[v]
Done(p) == {Layout[i] : i \in 1 .. place[p] - 1}
Kept(w) == Always(WriteCond[w]) \cap Fits
Wanted(p) == Always(ReadCond[p]) \cap Fits
Writing(w, m) == pc[w] = "inside" /\ handle[w] = m

(* The writer has one value for all variables, and keeps to it inside.     *)
WriterInv(w) ==
    /\ Even(own[w], Var) /\ DOMAIN local[w].res = {}
    /\ pc[w] = "inside" => local[w].v = own[w]

(* A memory holds the values of one moment, except the one that is being   *)
(* written: it has new values up to the place of the writer, old ones from *)
(* there on.                                                               *)
MemoryInv(w) ==
    \A m \in Memory :
        IF Writing(w, m)
        THEN /\ \A u \in Kept(w) \cap Done(w) : mem[m][u] = own[w][u]
             /\ Even(mem[m], Kept(w) \ Done(w))
        ELSE Even(mem[m], Kept(w))

(* A reader inside has what the memory holds, up to its place.             *)
ReaderInv(w) ==
    \A p \in Proc \ {w} : pc[p] = "inside" =>
        \A u \in Wanted(p) \cap Done(p) :
            u \in DOMAIN local[p].res /\ local[p].res[u] = mem[handle[p]][u]

OutsideInv == \A p \in Proc : pc[p] = "idle" => Even(own[p], Wanted(p))

Together(w) == WriterInv(w) /\ MemoryInv(w) /\ ReaderInv(w) /\ OutsideInv

LEMMA EvenCleared == \A S \in SUBSET Var : Even(Cleared, S)
BY DEF Even, Cleared

LEMMA Sets == \A p \in Proc : Kept(p) \subseteq Var /\ Wanted(p) \subseteq Var
BY DEF Kept, Wanted, Fits

(* Steps that change neither a memory nor who is inside.                   *)
LEMMA OutsideSteps ==
    ASSUME TypeOK, NEW w \in Proc, SoleWriter(w), Together(w),
           NEW p \in Proc, pc[p] # "inside",
           mem' = mem, \A q \in Proc \ {p} :
              /\ pc'[q] = pc[q] /\ handle'[q] = handle[q] /\ own'[q] = own[q]
              /\ local'[q] = local[q] /\ place'[q] = place[q],
           pc'[p] # "inside",
           pc'[p] = "idle" => Even(own'[p], Wanted(p)),
           p = w => Even(own'[w], Var) /\ DOMAIN local'[w].res = {}
    PROVE  Together(w)'
<1>1. WriterInv(w)'
  BY DEF Together, WriterInv, Even
<1>2. MemoryInv(w)'
  BY DEF Together, MemoryInv, Writing, Memory, Done, Kept, Even
<1>3. ReaderInv(w)'
  BY DEF Together, ReaderInv, Done, Wanted
<1>4. OutsideInv'
  BY DEF Together, OutsideInv, Even, Wanted
<1> QED BY <1>1, <1>2, <1>3, <1>4 DEF Together

LEMMA LoadTogether ==
    ASSUME TypeOK, HandleInv, NEW w \in Proc, SoleWriter(w), Together(w), Calm',
           NEW p \in Proc, CreateFails(p) \/ Open(p) \/ OpenFails(p) \/ Clear(p)
    PROVE  Together(w)'
<1>1. CASE CreateFails(p) \/ Open(p)
  <2>1. /\ pc[p] # "inside" /\ pc'[p] # "inside" /\ pc'[p] # "idle"
        /\ mem' = mem /\ own' = own /\ local' = local /\ place' = place
        /\ \A q \in Proc \ {p} : pc'[q] = pc[q] /\ handle'[q] = handle[q]
    BY <1>1 DEF TypeOK, CreateFails, Open, Goes
  <2>2. p = w => Even(own'[w], Var) /\ DOMAIN local'[w].res = {}
    BY <2>1 DEF Together, WriterInv
  <2> QED BY <2>1, <2>2, OutsideSteps
<1>2. CASE OpenFails(p)
  <2>1. /\ pc[p] # "inside" /\ pc'[p] # "inside" /\ pc'[p] # "idle" /\ mem' = mem
        /\ own'[p] = Cleared /\ local'[p] = NoLocal
        /\ \A q \in Proc \ {p} :
              /\ pc'[q] = pc[q] /\ handle'[q] = handle[q] /\ own'[q] = own[q]
              /\ local'[q] = local[q] /\ place'[q] = place[q]
    BY <1>2 DEF TypeOK, OpenFails, Gone, Goes
  <2>2. p = w => Even(own'[w], Var) /\ DOMAIN local'[w].res = {}
    BY <2>1, EvenCleared DEF NoLocal
  <2> QED BY <2>1, <2>2, OutsideSteps
<1>3. CASE Clear(p)
  <2>1. handle[p] \in Memory
    BY <1>3 DEF HandleInv, Has, Clear
  <2>2. mem[handle[p]] = Cleared
    BY <1>3 DEF Clear, Calm
  <2>3. mem' = mem
    BY <1>3, <2>1, <2>2, MemoryType, SeqEqual DEF TypeOK, Clear, Memory
  <2>4. /\ pc[p] # "inside" /\ pc'[p] # "inside"
        /\ own'[p] = Cleared /\ local' = local
        /\ \A q \in Proc \ {p} :
              /\ pc'[q] = pc[q] /\ handle'[q] = handle[q] /\ own'[q] = own[q]
              /\ place'[q] = place[q]
    BY <1>3 DEF TypeOK, Clear, Goes
  <2>5. Even(own'[p], Wanted(p))
    BY <2>4, EvenCleared, Sets
  <2>6. p = w => Even(own'[w], Var) /\ DOMAIN local'[w].res = {}
    BY <2>4, EvenCleared DEF Together, WriterInv
  <2> QED BY <2>3, <2>4, <2>5, <2>6, OutsideSteps
<1> QED BY <1>1, <1>2, <1>3

LEMMA CreateTogether ==
    ASSUME TypeOK, HandleInv, NEW w \in Proc, SoleWriter(w), Together(w),
           NEW p \in Proc, Create(p)
    PROVE  Together(w)'
<1>1. /\ pc[p] # "inside" /\ pc'[p] = "sizing"
      /\ own' = own /\ local' = local /\ place' = place
      /\ \A q \in Proc \ {p} : pc'[q] = pc[q] /\ handle'[q] = handle[q]
  BY DEF TypeOK, Create, Goes
<1>2. Memory' = Memory \cup {Len(mem) + 1} /\ Len(mem) \in Nat
  BY ClearedType DEF TypeOK, Create, Memory
<1>3. mem'[Len(mem) + 1] = Cleared /\ \A m \in Memory : mem'[m] = mem[m]
  BY ClearedType DEF TypeOK, Create, Memory
<1>4. \A q \in Proc : pc[q] = "inside" => handle[q] \in Memory
  BY DEF HandleInv, Has
<1>5. WriterInv(w)'
  BY <1>1 DEF Together, WriterInv, Even
<1>6. MemoryInv(w)'
  <2>1. ASSUME NEW m \in Memory
        PROVE  Writing(w, m)' = Writing(w, m)
    BY <1>1 DEF Writing
  <2>2. /\ ~ (pc'[w] = "inside" /\ handle'[w] = Len(mem) + 1)
        /\ Even(mem'[Len(mem) + 1], Kept(w))
    BY <1>1, <1>2, <1>3, <1>4, EvenCleared, Sets DEF Memory
  <2>3. Done(w)' = Done(w) /\ Kept(w)' = Kept(w)
    BY <1>1 DEF Done, Kept
  <2>4. ASSUME NEW m \in Memory
        PROVE  IF Writing(w, m)'
               THEN /\ \A u \in Kept(w)' \cap Done(w)' : mem'[m][u] = own'[w][u]
                    /\ Even(mem'[m], Kept(w)' \ Done(w)')
               ELSE Even(mem'[m], Kept(w)')
    <3>1. mem'[m] = mem[m] /\ own'[w] = own[w]
      BY <1>1, <1>3
    <3> QED BY <2>1, <2>3, <3>1 DEF Together, MemoryInv
  <2>5. ASSUME NEW m \in Memory', m \notin Memory
        PROVE  ~ Writing(w, m)' /\ Even(mem'[m], Kept(w)')
    <3>1. m = Len(mem) + 1
      BY <1>2, <2>5
    <3>2. ~ (pc'[w] = "inside" /\ handle'[w] = m)
      BY <2>2, <3>1
    <3> QED BY <2>2, <2>3, <3>1, <3>2 DEF Writing
  <2> QED BY <2>4, <2>5 DEF MemoryInv
<1>7. ReaderInv(w)'
  BY <1>1, <1>3, <1>4 DEF Together, ReaderInv, Done, Wanted
<1>8. OutsideInv'
  BY <1>1 DEF Together, OutsideInv, Even, Wanted
<1> QED BY <1>5, <1>6, <1>7, <1>8 DEF Together

LEMMA EndTogether ==
    ASSUME TypeOK, HeldByInside, NEW w \in Proc, SoleWriter(w), Together(w),
           Calm, Calm', NEW p \in Proc, Timeout(p) \/ Exit(p) \/ Crash(p)
    PROVE  Together(w)'
<1>1. pc[p] # "inside"
  BY DEF HeldByInside, Calm, Timeout, Exit, Crash
<1>2. /\ pc'[p] = "down" /\ mem' = mem
      /\ own'[p] = Cleared /\ local'[p] = NoLocal
      /\ \A q \in Proc \ {p} :
            /\ pc'[q] = pc[q] /\ handle'[q] = handle[q] /\ own'[q] = own[q]
            /\ local'[q] = local[q] /\ place'[q] = place[q]
  BY DEF TypeOK, Timeout, Exit, Crash, Gone, Goes
<1>3. p = w => Even(own'[w], Var) /\ DOMAIN local'[w].res = {}
  BY <1>2, EvenCleared DEF NoLocal
<1> QED BY <1>1, <1>2, <1>3, OutsideSteps

LEMMA ChangeTogether ==
    ASSUME TypeOK, NEW w \in Proc, SoleWriter(w), Together(w),
           NEW p \in Proc, NEW x \in Value, OwnChange(p, x)
    PROVE  Together(w)'
<1>1. /\ pc[p] = "idle" /\ pc' = pc /\ mem' = mem /\ handle' = handle
      /\ local' = local /\ place' = place
      /\ \A q \in Proc \ {p} : own'[q] = own[q]
      /\ own'[p] = [v \in Var |-> IF v \in Var \ DOMAIN ReadCond[p] THEN x ELSE own[p][v]]
  BY DEF TypeOK, OwnChange
<1>2. Even(own'[p], Wanted(p))
  BY <1>1, Sets DEF Together, OutsideInv, Even, Wanted, Always
<1>3. p = w => Even(own'[w], Var) /\ DOMAIN local'[w].res = {}
  BY <1>1 DEF Together, WriterInv, Even, SoleWriter
<1> QED BY <1>1, <1>2, <1>3, OutsideSteps
----------------------------------------------------------------------------
(* Steps of the exchange.                                                  *)
LEMMA Alone ==
    ASSUME HeldByInside, Calm, NEW p \in Proc, pc[p] = "inside"
    PROVE  \A q \in Proc \ {p} : pc[q] # "inside"
BY DEF HeldByInside, Calm

LEMMA DoneType ==
    ASSUME TypeOK, NEW p \in Proc
    PROVE  /\ Done(p) \subseteq Var
           /\ place[p] > Len(Layout) => Done(p) = Var
           /\ place[p] = 1 => Done(p) = {}
           /\ place'[p] = place[p] + 1 => Done(p)' = Done(p) \cup {Place(p)}
<1>1. Len(Layout) \in Nat /\ DOMAIN Layout = 1 .. Len(Layout)
  BY SharedAssumption DEF SharedAssumption
<1>2. place[p] \in 1 .. Len(Layout) + 1
  BY DEF TypeOK
<1>3. 1 .. place[p] - 1 \subseteq DOMAIN Layout
  BY <1>1, <1>2
<1>4. place[p] > Len(Layout) => 1 .. place[p] - 1 = DOMAIN Layout
  BY <1>1, <1>2
<1>5. place[p] = 1 => 1 .. place[p] - 1 = {}
  OBVIOUS
<1>6. 1 .. (place[p] + 1) - 1 = (1 .. place[p] - 1) \cup {place[p]}
  BY <1>1, <1>2
<1>7. place'[p] = place[p] + 1 => 1 .. place'[p] - 1 = (1 .. place[p] - 1) \cup {place[p]}
  BY <1>6
<1>8. place'[p] = place[p] + 1 => Done(p)' = Done(p) \cup {Place(p)}
  BY <1>7 DEF Done, Place
<1> QED BY <1>3, <1>4, <1>5, <1>8 DEF Done, Var

LEMMA AlwaysAsked ==
    ASSUME NEW cond, NEW v, NEW l
    PROVE  /\ v \in Always(cond) => Asked(cond, v, l) = "on"
           /\ v \notin DOMAIN cond => Asked(cond, v, l) = "off"
BY DEF Asked, Always, Solve

LEMMA LockTogether ==
    ASSUME TypeOK, HeldByInside, NEW w \in Proc, SoleWriter(w), Together(w), Calm,
           NEW p \in Proc, Lock(p)
    PROVE  Together(w)'
<1>1. \A q \in Proc : pc[q] # "inside"
  BY SharedAssumption DEF SharedAssumption, HeldByInside, Calm, Lock, Obtained
<1>2. /\ pc' = [pc EXCEPT ![p] = "inside"] /\ mem' = mem /\ own' = own
      /\ handle' = handle /\ local'[p] = [v |-> own[p], res |-> <<>>]
      /\ \A q \in Proc \ {p} : local'[q] = local[q]
      /\ place'[p] = 1
  BY DEF TypeOK, Lock, Goes, First
<1>3. Done(p)' = {}
  BY <1>2 DEF Done
<1>4. WriterInv(w)'
  BY <1>1, <1>2 DEF TypeOK, Together, WriterInv, Even
<1>5. MemoryInv(w)'
  <2>1. ASSUME NEW m \in Memory
        PROVE  Even(mem'[m], Kept(w)) /\ (Writing(w, m)' => Done(w)' = {})
    BY <1>1, <1>2, <1>3 DEF TypeOK, Together, MemoryInv, Writing
  <2>2. Memory' = Memory
    BY <1>2 DEF Memory
  <2> QED BY <2>1, <2>2 DEF MemoryInv, Kept, Even
<1>6. ReaderInv(w)'
  BY <1>1, <1>2, <1>3 DEF TypeOK, ReaderInv
<1>7. OutsideInv'
  BY <1>2 DEF TypeOK, Together, OutsideInv, Even, Wanted
<1> QED BY <1>4, <1>5, <1>6, <1>7 DEF Together

LEMMA WriterTogether ==
    ASSUME TypeOK, HandleInv, HeldByInside, NEW w \in Proc, SoleWriter(w),
           Together(w), Calm, Exchange(w)
    PROVE  Together(w)'
<1> DEFINE h == handle[w]
           u0 == Place(w)
<1>1. /\ pc[w] = "inside" /\ place'[w] = place[w] + 1 /\ u0 \in Var
      /\ UNCHANGED <<pc, handle, own>>
      /\ \A q \in Proc \ {w} : local'[q] = local[q] /\ place'[q] = place[q]
  <2>1. /\ pc[w] = "inside" /\ place[w] <= Len(Layout)
        /\ place' = [place EXCEPT ![w] = place[w] + 1]
        /\ UNCHANGED <<pc, handle, own>>
    BY Rounds
  <2>2. u0 \in Var
    BY <2>1, PlaceIsVariable
  <2>3. \A q \in Proc \ {w} : local'[q] = local[q]
    BY RoundIsLocal
  <2> QED BY <2>1, <2>2, <2>3 DEF TypeOK
<1>2. Seen(w) # "on" /\ (u0 \in Fits => Seen(w) = "off")
  BY AlwaysAsked DEF Seen, SoleWriter, Fits
<1>3. Now(w) = own[w][u0]
  BY <1>1, <1>2 DEF Now, Together, WriterInv
<1>4. local'[w].v = own[w] /\ local'[w].res = local[w].res
  <2>1. local'[w] = [v |-> [local[w].v EXCEPT ![u0] = Now(w)], res |-> local[w].res]
    BY <1>2, Rounds DEF TypeOK
  <2>2. local[w].v = own[w] /\ own[w] \in [Var -> Value]
    BY <1>1 DEF TypeOK, Together, WriterInv
  <2>3. [own[w] EXCEPT ![u0] = own[w][u0]] = own[w]
    BY <2>2
  <2> QED BY <1>3, <2>1, <2>2, <2>3
<1>5. /\ h \in Memory /\ Memory' = Memory
      /\ \A m \in Memory \ {h} : mem'[m] = mem[m]
      /\ \A u \in Var \ {u0} : mem'[h][u] = mem[h][u]
      /\ u0 \in Kept(w) => mem'[h][u0] = own[w][u0]
  <2>1. h \in Memory /\ mem[h] \in [Var -> Value]
    BY <1>1 DEF TypeOK, HandleInv, Has, Memory
  <2> DEFINE c == [mem[h] EXCEPT ![u0] = Stored(u0, Now(w))]
  <2>2. Stored(u0, Now(w)) \in Value
    BY <1>1, NowIsValue, Rounds, SharedAssumption DEF Stored, SharedAssumption
  <2>3. c \in [Var -> Value] /\ c[u0] = Stored(u0, Now(w))
        /\ \A u \in Var \ {u0} : c[u] = mem[h][u]
    BY <1>1, <2>1, <2>2
  <2>4. mem' = IF Writes(w) THEN [mem EXCEPT ![h] = c] ELSE mem
    BY Rounds
  <2> HIDE DEF c
  <2>5. LET n == [mem EXCEPT ![h] = c]
        IN  Len(n) = Len(mem) /\ \A m \in Memory : n[m] = IF m = h THEN c ELSE mem[m]
    BY <2>1, <2>3, MemoryType
  <2>6. u0 \in Kept(w) => Writes(w) /\ Stored(u0, Now(w)) = own[w][u0]
    BY <1>2, <1>3, AlwaysAsked DEF Kept, Writes, Stored, Fits
  <2>7. Memory' = Memory
    BY <2>4, <2>5 DEF Memory
  <2> QED BY <2>1, <2>3, <2>4, <2>5, <2>6, <2>7
<1>6. Done(w)' = Done(w) \cup {u0}
  BY <1>1, DoneType
<1>7. WriterInv(w)'
  BY <1>1, <1>4 DEF Together, WriterInv, Even
<1>8. MemoryInv(w)'
  <2>1. \A m \in Memory : Writing(w, m)' = (m = h)
    BY <1>1 DEF Writing
  <2>2. /\ \A u \in Kept(w) \cap Done(w) : mem[h][u] = own[w][u]
        /\ Even(mem[h], Kept(w) \ Done(w))
    BY <1>1, <1>5 DEF Together, MemoryInv, Writing
  <2>3. \A u \in Kept(w) \cap (Done(w) \cup {u0}) : mem'[h][u] = own'[w][u]
    BY <1>1, <1>5, <2>2, Sets
  <2>4. Even(mem'[h], Kept(w) \ (Done(w) \cup {u0}))
    BY <1>5, <2>2, Sets DEF Even
  <2>5. ASSUME NEW m \in Memory \ {h}
        PROVE  Even(mem'[m], Kept(w))
    BY <1>5 DEF Together, MemoryInv, Writing
  <2>6. ASSUME NEW m \in Memory'
        PROVE  IF Writing(w, m)'
               THEN /\ \A u \in Kept(w) \cap Done(w)' : mem'[m][u] = own'[w][u]
                    /\ Even(mem'[m], Kept(w) \ Done(w)')
               ELSE Even(mem'[m], Kept(w))
    BY <1>5, <1>6, <2>1, <2>3, <2>4, <2>5
  <2>7. Kept(w)' = Kept(w)
    BY DEF Kept
  <2> QED BY <2>6, <2>7 DEF MemoryInv
<1>9. ReaderInv(w)'
  BY <1>1, Alone DEF ReaderInv
<1>10. OutsideInv'
  BY <1>1 DEF Together, OutsideInv, Even, Wanted
<1> QED BY <1>7, <1>8, <1>9, <1>10 DEF Together

LEMMA ReaderTogether ==
    ASSUME TypeOK, HandleInv, HeldByInside, NEW w \in Proc, SoleWriter(w),
           Together(w), Calm, NEW p \in Proc \ {w}, Exchange(p)
    PROVE  Together(w)'
<1> DEFINE u0 == Place(p)
<1>1. /\ pc[p] = "inside" /\ place[p] <= Len(Layout)
      /\ place' = [place EXCEPT ![p] = place[p] + 1]
      /\ UNCHANGED <<pc, handle, own>>
  BY Rounds
<1>2. \A q \in Proc \ {p} : local'[q] = local[q] /\ place'[q] = place[q]
  BY RoundIsLocal
<1>3. mem' = mem
  BY Rounds, AlwaysAsked DEF Writes, SoleWriter
<1>4. u0 \in Var /\ place'[p] = place[p] + 1
  BY <1>1, PlaceIsVariable DEF TypeOK
<1>5. Done(p)' = Done(p) \cup {u0}
  BY <1>4, DoneType
<1>6. u0 \in Wanted(p) => Seen(p) = "on" /\ Now(p) = mem[handle[p]][u0]
  BY AlwaysAsked DEF Wanted, Fits, Seen, Now, ReadValue
<1>7. local'[p].res = IF Seen(p) = "on"
                      THEN Over([u \in {u0} |-> Now(p)], local[p].res)
                      ELSE local[p].res
  BY RoundIsLocal
<1>8. ASSUME NEW u \in Wanted(p) \cap (Done(p) \cup {u0})
      PROVE  u \in DOMAIN local'[p].res /\ local'[p].res[u] = mem[handle[p]][u]
  <2>1. u # u0 => u \in DOMAIN local[p].res /\ local[p].res[u] = mem[handle[p]][u]
    BY <1>1 DEF Together, ReaderInv
  <2>2. CASE Seen(p) = "on"
    <3>1. /\ DOMAIN local'[p].res = {u0} \cup DOMAIN local[p].res
          /\ local'[p].res[u0] = Now(p)
          /\ \A v \in DOMAIN local[p].res \ {u0} : local'[p].res[v] = local[p].res[v]
      BY <1>7, <2>2 DEF Over
    <3> QED BY <1>6, <2>1, <3>1
  <2>3. CASE Seen(p) # "on"
    BY <1>6, <1>7, <2>1, <2>3
  <2> QED BY <2>2, <2>3
<1>9. pc[w] # "inside"
  BY <1>1, Alone
<1>10. WriterInv(w)'
  BY <1>1, <1>2 DEF Together, WriterInv, Even
<1>11. MemoryInv(w)'
  BY <1>1, <1>3, <1>9 DEF Together, MemoryInv, Writing, Memory, Even, Kept
<1>12. ReaderInv(w)'
  <2>1. \A q \in Proc \ {p} : pc'[q] # "inside"
    BY <1>1, Alone
  <2>2. Wanted(p)' = Wanted(p)
    BY DEF Wanted
  <2> QED BY <1>1, <1>3, <1>5, <1>8, <2>1, <2>2 DEF ReaderInv
<1>13. OutsideInv'
  BY <1>1 DEF Together, OutsideInv, Even, Wanted
<1> QED BY <1>10, <1>11, <1>12, <1>13 DEF Together

LEMMA LeaveTogether ==
    ASSUME TypeOK, HandleInv, HeldByInside, NEW w \in Proc, SoleWriter(w),
           Together(w), Calm, NEW p \in Proc, EndExchange(p)
    PROVE  Together(w)'
<1>1. /\ pc[p] = "inside" /\ pc' = [pc EXCEPT ![p] = "idle"]
      /\ mem' = mem /\ handle' = handle /\ Done(p) = Var
      /\ own'[p] = Over(local[p].res, own[p]) /\ local'[p] = NoLocal
      /\ \A q \in Proc \ {p} :
            own'[q] = own[q] /\ local'[q] = local[q] /\ place'[q] = place[q]
  BY DoneType DEF TypeOK, EndExchange, Goes
<1>2. \A q \in Proc : pc'[q] # "inside"
  BY <1>1, Alone DEF TypeOK
<1>3. handle[p] \in Memory /\ Memory' = Memory
  BY <1>1 DEF HandleInv, Has, Memory
<1>4. CASE p = w
  <2>1. own'[w] = own[w]
    <3>1. own[w] \in [Var -> Value] /\ DOMAIN local[w].res = {}
      BY DEF TypeOK, Together, WriterInv
    <3> QED BY <1>1, <1>4, <3>1 DEF Over
  <2>2. Even(mem[handle[w]], Kept(w))
    <3>1. \A u \in Kept(w) : mem[handle[w]][u] = own[w][u]
      BY <1>1, <1>3, <1>4, Sets DEF Together, MemoryInv, Writing
    <3> QED BY <3>1, Sets DEF Together, WriterInv, Even
  <2>3. WriterInv(w)'
    BY <1>1, <1>2, <1>4, <2>1 DEF Together, WriterInv, Even, NoLocal
  <2>4. MemoryInv(w)'
    <3>1. \A m \in Memory : Even(mem[m], Kept(w))
      BY <2>2 DEF Together, MemoryInv, Writing
    <3> QED BY <1>1, <1>2, <1>3, <3>1 DEF MemoryInv, Writing, Kept, Even
  <2>5. ReaderInv(w)'
    BY <1>2 DEF ReaderInv
  <2>6. OutsideInv'
    <3>1. Even(own'[w], Wanted(w))
      BY <2>1, Sets DEF Together, WriterInv, Even
    <3> QED BY <1>1, <1>4, <3>1 DEF TypeOK, Together, OutsideInv, Even, Wanted
  <2> QED BY <2>3, <2>4, <2>5, <2>6 DEF Together
<1>5. CASE p # w
  <2>1. \A m \in Memory : Even(mem[m], Kept(w))
    BY <1>1, <1>5, Alone DEF Together, MemoryInv, Writing
  <2>2. \A u \in Wanted(p) : own'[p][u] = mem[handle[p]][u]
    <3>1. \A u \in Wanted(p) :
             u \in DOMAIN local[p].res /\ local[p].res[u] = mem[handle[p]][u]
      BY <1>1, <1>5, Sets DEF Together, ReaderInv
    <3> QED BY <1>1, <3>1 DEF Over
  <2>3. Even(own'[p], Wanted(p))
    BY <1>3, <1>5, <2>1, <2>2 DEF Even, Wanted, Kept, SoleWriter
  <2>4. WriterInv(w)'
    BY <1>1, <1>2, <1>5 DEF Together, WriterInv, Even
  <2>5. MemoryInv(w)'
    BY <1>1, <1>2, <1>3, <2>1 DEF MemoryInv, Writing, Kept, Even
  <2>6. ReaderInv(w)'
    BY <1>2 DEF ReaderInv
  <2>7. OutsideInv'
    <3>1. \A q \in Proc \ {p} : pc'[q] = pc[q] /\ own'[q] = own[q]
      BY <1>1 DEF TypeOK
    <3>2. \A q \in Proc : Wanted(q)' = Wanted(q)
      BY DEF Wanted
    <3>3. \A q \in Proc : pc'[q] = "idle" => Even(own'[q], Wanted(q))
      BY <2>3, <3>1 DEF Together, OutsideInv
    <3> QED BY <3>2, <3>3 DEF OutsideInv, Even
  <2> QED BY <2>4, <2>5, <2>6, <2>7 DEF Together
<1> QED BY <1>4, <1>5

LEMMA TogetherInductive ==
    ASSUME TypeOK, HandleInv, HeldByInside, NEW w \in Proc, SoleWriter(w),
           Calm => Together(w), [Next]_vars
    PROVE  Calm' => Together(w)'
<1> SUFFICES ASSUME Calm' PROVE Together(w)'
  OBVIOUS
<1>1. CASE UNCHANGED vars
  BY <1>1 DEF vars, process, Calm, Together, WriterInv, MemoryInv, ReaderInv,
              OutsideInv, Writing, Memory, Done, Kept, Wanted, Even
<1>2. CASE Next
  <2>1. mishaps \subseteq mishaps'
    BY <1>2 DEF Next, Load, Create, CreateFails, Open, OpenFails, Clear, Step, Lock,
                Timeout, Exchange, EndExchange, Exit, Crash, OwnChange
  <2>2. Calm /\ Together(w)
    BY <2>1 DEF Calm
  <2>3. ASSUME NEW p \in Proc, Load(p)
        PROVE  Together(w)'
    BY <2>2, <2>3, CreateTogether, LoadTogether DEF Load
  <2>4. ASSUME NEW p \in Proc, Step(p)
        PROVE  Together(w)'
    <3>1. CASE Lock(p)
      BY <2>2, <3>1, LockTogether
    <3>2. CASE Timeout(p)
      BY <2>2, <3>2, EndTogether
    <3>3. CASE Exchange(p)
      BY <2>2, <3>3, WriterTogether, ReaderTogether
    <3>4. CASE EndExchange(p)
      BY <2>2, <3>4, LeaveTogether
    <3> QED BY <2>4, <3>1, <3>2, <3>3, <3>4 DEF Step
  <2>5. ASSUME NEW p \in Proc, Exit(p) \/ Crash(p)
        PROVE  Together(w)'
    BY <2>2, <2>5, EndTogether
  <2>6. ASSUME NEW p \in Proc, NEW x \in Value, OwnChange(p, x)
        PROVE  Together(w)'
    BY <2>2, <2>6, ChangeTogether
  <2> QED BY <1>2, <2>3, <2>4, <2>5, <2>6 DEF Next
<1> QED BY <1>1, <1>2

(* A reader has values that the writer had together: with one writer, the  *)
(* mutex makes the exchange atomic, for every number of readers and        *)
(* variables (shared_memory_io.hpp, the loop).                             *)
THEOREM ReadsAreTogether ==
    ASSUME NEW w \in Proc, SoleWriter(w)
    PROVE  Spec => []ReadTogether
<1>1. Init => (Calm => Together(w))
  <2> SUFFICES ASSUME Init PROVE Together(w)
    OBVIOUS
  <2>1. \A p \in Proc : pc[p] = "down" /\ own[p] = Cleared
    BY DEF Init
  <2>2. DOMAIN local[w].res = {}
    BY DEF Init
  <2>3. Memory = {}
    BY DEF Init, Memory
  <2> QED BY <2>1, <2>2, <2>3, EvenCleared
          DEF Together, WriterInv, MemoryInv, ReaderInv, OutsideInv
<1>2. TypeOK /\ HandleInv /\ HeldByInside /\ (Calm => Together(w)) /\ [Next]_vars
        => (Calm => Together(w))'
  BY TogetherInductive
<1>3. (Calm => Together(w)) => ReadTogether
  BY DEF Calm, Together, OutsideInv, Even, Wanted, ReadTogether
<1> QED BY <1>1, <1>2, <1>3, TypeCorrect, MutexIsHeldInside, PTL DEF Spec
=============================================================================
