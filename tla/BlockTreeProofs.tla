-------------------------- MODULE BlockTreeProofs --------------------------
(***************************************************************************)
(* Proofs about BlockTree, for every tree of blocks, every wiring of their *)
(* variables and every behaviour of the subprograms.                       *)
(***************************************************************************)
EXTENDS BlockTree, TLAPS

(* What the code's write and result operators do to types.                 *)
LEMMA WrittenType ==
    ASSUME NEW b \in Block, NEW base \in [Var -> Value], NEW vm \in Map
    PROVE  Written(b, base, vm) \in [Var -> Value]
<1>1. \A v \in DOMAIN vm : vm[v] \in Value
  BY DEF Map
<1> QED BY <1>1 DEF Written, Writable

LEMMA WriteType ==
    ASSUME NEW b \in Block, NEW vm \in Map, val \in [Block -> [Var -> Value]]
    PROVE  Write(b, vm) \in [Block -> [Var -> Value]]
BY WrittenType DEF Write

LEMMA SetupResultType ==
    ASSUME NEW b \in Block, NEW setup, setup[b] \in Map
    PROVE  SetupResult(b, setup) \in Map
<1> DEFINE D == {d \in DOMAIN Res[b] : Res[b][d] \in Writable(b, setup[b])}
<1>1. D \in SUBSET Var
  BY DataAssumption
<1>2. \A d \in D : setup[b][Res[b][d]] \in Value
  BY DEF Writable, Map
<1>3. SetupResult(b, setup) \in [D -> Value]
  BY <1>2 DEF SetupResult
<1> QED BY <1>1, <1>3 DEF Map

LEMMA BeforeVarType ==
    ASSUME NEW out \in Map, NEW w
    PROVE  BeforeVar(out, w) \in Map
<1> DEFINE D == {v \in DOMAIN out : VarRank[v] < VarRank[w]}
<1>1. D \in SUBSET Var /\ \A v \in D : out[v] \in Value
  BY DEF Map
<1>2. BeforeVar(out, w) \in [D -> Value]
  BY <1>1 DEF BeforeVar
<1> QED BY <1>1, <1>2 DEF Map

LEMMA CallResultType ==
    ASSUME NEW b \in Block, val \in [Block -> [Var -> Value]]
    PROVE  CallResult(b) \in Map
<1>1. DOMAIN Res[b] \in SUBSET Var /\ \A d \in DOMAIN Res[b] : Res[b][d] \in Var
  BY DataAssumption
<1>2. CallResult(b) \in [DOMAIN Res[b] -> Value]
  BY <1>1 DEF CallResult
<1> QED BY <1>1, <1>2 DEF Map

LEMMA FromChildrenType ==
    ASSUME NEW d \in Block
    PROVE  FromChildren(d) \in Map
<1> DEFINE D == {v \in Var : LastByName(Givers(d, v)) # {}}
           e(v) == CHOOSE x \in LastByName(Givers(d, v)) : TRUE
<1>1. ASSUME NEW v \in D
      PROVE  SetupResult(e(v), OffSetup)[v] \in Value
  <2>1. e(v) \in LastByName(Givers(d, v))
    OBVIOUS
  <2>2. e(v) \in Block /\ v \in DOMAIN SetupResult(e(v), OffSetup)
    BY <2>1 DEF LastByName, Givers, Kids, Child
  <2>3. SetupResult(e(v), OffSetup) \in Map
    BY <2>2, SetupResultType, DataAssumption
  <2> QED BY <2>2, <2>3 DEF Map
<1>2. FromChildren(d) \in [D -> Value]
  BY <1>1 DEF FromChildren
<1> QED BY <1>2 DEF Map

LEMMA OffValuesType ==
    ASSUME NEW d \in Block, val \in [Block -> [Var -> Value]]
    PROVE  OffValues(d) \in [Var -> Value]
BY FromChildrenType, WrittenType, DataAssumption DEF OffValues
----------------------------------------------------------------------------
LEMMA TypeInit == Init => TypeOK
BY TreeAssumption, DataAssumption DEF Init, TypeOK, Failure, Child, Unit

LEMMA EnterType ==
    ASSUME TypeOK, NEW b \in Block, NEW t \in Nat, Enter(b, t)
    PROVE  /\ val' \in [Block -> [Var -> Value]]
           /\ plan' \in [Block -> Int] /\ lastcall' \in [Block -> Nat]
           /\ cur' \in Block
<1>1. \A v \in DOMAIN Use[b] : b \in Child /\ Parent[b] \in Block
                               /\ Use[b][v] \in Var
  BY DataAssumption, TreeAssumption DEF Child
<1>2. val' \in [Block -> [Var -> Value]]
  BY <1>1 DEF Enter, TakeUse, UseValues, TypeOK
<1>3. plan' \in [Block -> Int] /\ lastcall' \in [Block -> Nat] /\ cur' \in Block
  <2>1. /\ lastcall' = [lastcall EXCEPT ![b] = t + TouchOffset]
        /\ plan' = [plan EXCEPT ![b] = @ + Period[b]] /\ cur' = b
    BY DEF Enter
  <2>2. plan \in [Block -> Int] /\ lastcall \in [Block -> Nat]
    BY DEF TypeOK
  <2> QED BY <2>1, <2>2, NumberAssumption
<1> QED BY <1>2, <1>3

LEMMA ScheduleType ==
    ASSUME NEW b \in Block, NEW t
    PROVE  Schedule(b, t) \in SUBSET Unit
BY DEF Schedule, Kids, Subs, Unit, Child

LEMMA TypeNext == TypeOK /\ [Next]_vars => TypeOK'
<1> SUFFICES ASSUME TypeOK, [Next]_vars PROVE TypeOK'
  OBVIOUS
<1> USE DEF Failure
<1>1. ASSUME NEW t \in 0 .. MaxTime, StartStep(t) PROVE TypeOK'
  <2>1. t \in Nat /\ Enter(Root, t) /\ Root \in Block
    BY <1>1, TreeAssumption, NumberAssumption DEF StartStep
  <2>2. todo' \in [Block -> SUBSET Unit]
    BY <1>1, <2>1, ScheduleType DEF StartStep, TypeOK
  <2> QED BY <1>1, <2>1, <2>2, EnterType DEF StartStep, Enter, TypeOK, Unit
<1>2. ASSUME NEW c \in Unit, CallChild(c) PROVE TypeOK'
  <2>1. now \in Nat /\ Enter(c, now) /\ c \in Block
    BY <1>2 DEF CallChild, TypeOK
  <2>2. todo' \in [Block -> SUBSET Unit]
    BY <1>2, <2>1, ScheduleType DEF CallChild, TypeOK
  <2> QED BY <1>2, <2>1, <2>2, EnterType DEF CallChild, Enter, TypeOK, Unit
<1>3. ASSUME NEW c \in Unit, RisingEdge(c) PROVE TypeOK'
  <2>1. cur \in Block /\ c \in Block /\ OnSetup[c] \in Map
    BY <1>3, DataAssumption DEF RisingEdge, Turn
  <2>2. SetupResult(c, OnSetup) \in Map
    BY <2>1, SetupResultType
  <2>3. Write(c, OnSetup[c]) \in [Block -> [Var -> Value]]
    BY <2>1, WriteType DEF TypeOK
  <2>4. val' \in [Block -> [Var -> Value]]
    BY <1>3, <2>1, <2>2, <2>3, WrittenType DEF RisingEdge
  <2>5. plan' \in [Block -> Int] /\ lastcall' \in [Block -> Nat]
    BY <1>3, NumberAssumption DEF RisingEdge, TypeOK
  <2> QED BY <1>3, <2>1, <2>4, <2>5 DEF RisingEdge, Collect, Passed, TypeOK
<1>4. ASSUME NEW c \in Unit, FallingEdge(c) PROVE TypeOK'
  <2> DEFINE off == [d \in Block |-> IF d \in Desc(c) THEN OffValues(d) ELSE val[d]]
  <2>1. cur \in Block /\ c \in Block
    BY <1>4 DEF FallingEdge, Turn
  <2>2. SetupResult(c, OffSetup) \in Map
    BY <2>1, SetupResultType, DataAssumption
  <2>3. off \in [Block -> [Var -> Value]]
    BY OffValuesType DEF TypeOK
  <2>4. val' \in [Block -> [Var -> Value]]
    <3>1. val' = [off EXCEPT ![cur] = Written(cur, @, SetupResult(c, OffSetup))]
      BY <1>4 DEF FallingEdge
    <3> HIDE DEF off
    <3> QED BY <3>1, <2>1, <2>2, <2>3, WrittenType
  <2>5. prev' \in [Block -> BOOLEAN]
    BY <1>4 DEF FallingEdge, TypeOK
  <2> QED BY <1>4, <2>1, <2>4, <2>5 DEF FallingEdge, Collect, Passed, TypeOK
<1>5. ASSUME NEW c \in Unit, StayOff(c) PROVE TypeOK'
  BY <1>5 DEF StayOff, Turn, Collect, Passed, TypeOK
<1>6. ASSUME NEW u \in Unit, ConditionFails(u) PROVE TypeOK'
  BY <1>6 DEF ConditionFails, Turn, Caught, Collect, Passed, TypeOK
<1>7. ASSUME NEW s \in Unit, SkipSubprog(s) PROVE TypeOK'
  BY <1>7 DEF SkipSubprog, Turn, Passed, tree, TypeOK
<1>8. ASSUME NEW s \in Unit, CallSubprog(s) PROVE TypeOK'
  <2>1. cur \in Block /\ s \in Subprog
    BY <1>8 DEF CallSubprog, Runs, Turn
  <2>2. \A out \in Outputs[s] : out \in Map
    BY <2>1, DataAssumption
  <2>3. val' \in [Block -> [Var -> Value]]
    BY <1>8, <2>1, <2>2, WriteType DEF CallSubprog, TypeOK
  <2> QED BY <1>8, <2>1, <2>3 DEF CallSubprog, Passed, TypeOK
<1>9. ASSUME NEW s \in Unit, SubprogThrows(s) PROVE TypeOK'
  BY <1>9 DEF SubprogThrows, Runs, Turn, Caught, Passed, TypeOK
<1>10. ASSUME NEW s \in Unit, SubprogMistypes(s) PROVE TypeOK'
  <2>1. cur \in Block /\ s \in Subprog /\ Parent[cur] \in Block
    BY <1>10, TreeAssumption DEF SubprogMistypes, Runs, Turn, Child
  <2>2. ASSUME NEW out \in Outputs[s], NEW w PROVE BeforeVar(out, w) \in Map
    BY <2>1, BeforeVarType, DataAssumption
  <2>3. val' \in [Block -> [Var -> Value]]
    BY <1>10, <2>1, <2>2, WriteType DEF SubprogMistypes, TypeOK
  <2>4. <<"unit", cur>> \in Failure
    BY <2>1 DEF Unit
  <2>5. errBlocks' \in [Block -> SUBSET Failure]
    <3> HIDE DEF Failure
    <3> QED BY <1>10, <2>1, <2>4 DEF SubprogMistypes, TypeOK
  <2> HIDE DEF Failure
  <2>6. errs' \in [Block -> Nat] /\ failed' \in SUBSET Failure
    <3>1. /\ errs' = [errs EXCEPT ![Parent[cur]] = @ + 1]
          /\ failed' = failed \cup {<<"unit", cur>>}
      BY <1>10 DEF SubprogMistypes, Caught
    <3>2. errs \in [Block -> Nat] /\ failed \in SUBSET Failure
      BY DEF TypeOK
    <3> QED BY <3>1, <3>2, <2>1, <2>4
  <2>7. todo' \in [Block -> SUBSET Unit] /\ cur' \in Block
    <3>1. todo' = [todo EXCEPT ![cur] = {}] /\ cur' = Parent[cur]
      BY <1>10 DEF SubprogMistypes
    <3>2. todo \in [Block -> SUBSET Unit]
      BY DEF TypeOK
    <3> QED BY <3>1, <3>2, <2>1
  <2>8. ran' \in SUBSET Unit
    BY <1>10 DEF SubprogMistypes, TypeOK
  <2> QED BY <1>10, <2>3, <2>5, <2>6, <2>7, <2>8 DEF SubprogMistypes, TypeOK
<1>11. ASSUME NEW s \in Unit, ProcessDies(s) PROVE TypeOK'
  BY <1>11 DEF ProcessDies, tree, TypeOK
<1>12. ASSUME ReturnToParent PROVE TypeOK'
  <2>1. cur \in Block /\ Parent[cur] \in Block
    BY <1>12, TreeAssumption DEF ReturnToParent, Ends, Child
  <2>2. val' \in [Block -> [Var -> Value]]
    BY <1>12, <2>1, CallResultType, WriteType DEF ReturnToParent, TypeOK
  <2>3. ASSUME NEW e \in ClassErrors
        PROVE  e \in SUBSET Failure
    <3>1. <<"class", cur>> \in Failure
      BY <2>1
    <3>2. e = {} \/ e = {<<"class", cur>>}
      BY DEF ClassErrors
    <3> HIDE DEF Failure
    <3> QED BY <3>1, <3>2
  <2> HIDE DEF Failure
  <2>4. PICK e \in ClassErrors :
           /\ errs' = [errs EXCEPT ![cur] = IF e = {} THEN @ ELSE @ + 1]
           /\ errBlocks' = [errBlocks EXCEPT
                 ![Parent[cur]] = @ \cup errBlocks[cur] \cup e, ![cur] = {}]
           /\ failed' = failed \cup e
    BY <1>12 DEF ReturnToParent
  <2>5. e \in SUBSET Failure
    BY <2>3
  <2>6. errs' \in [Block -> Nat]
    BY <2>1, <2>4 DEF TypeOK
  <2>7. errBlocks' \in [Block -> SUBSET Failure] /\ failed' \in SUBSET Failure
    BY <2>1, <2>4, <2>5 DEF TypeOK
  <2> QED BY <1>12, <2>1, <2>2, <2>6, <2>7 DEF ReturnToParent, TypeOK
<1>13. ASSUME FinishStep PROVE TypeOK'
  <2>1. cur \in Block
    BY <1>13 DEF FinishStep, Ends
  <2>2. ASSUME NEW e \in ClassErrors
        PROVE  e \in SUBSET Failure
    <3>1. <<"class", cur>> \in Failure
      BY <2>1
    <3>2. e = {} \/ e = {<<"class", cur>>}
      BY DEF ClassErrors
    <3> HIDE DEF Failure
    <3> QED BY <3>1, <3>2
  <2> HIDE DEF Failure
  <2> QED BY <1>13, <2>1, <2>2 DEF FinishStep, TypeOK
<1>14. ASSUME NEW b \in Block, NEW v \in Var, NEW x \in Value, SetValue(b, v, x)
       PROVE  TypeOK'
  BY <1>14 DEF SetValue, Instruction, between, TypeOK
<1>15. ASSUME NEW b \in Block, NEW v \in Var, NEW flag \in LockFlag,
              LockParam(b, v, flag)
       PROVE  TypeOK'
  BY <1>15 DEF LockParam, Instruction, Relock, between, TypeOK
<1>16. ASSUME NEW u \in Unit, NEW flag \in LockFlag, LockUnit(u, flag)
       PROVE  TypeOK'
  BY <1>16 DEF LockUnit, Instruction, Relock, between, TypeOK
<1>17. ASSUME NEW b \in Block, ShowClassErrors(b) PROVE TypeOK'
  BY <1>17, NumberAssumption DEF ShowClassErrors, Drained, Instruction, between, TypeOK
<1>18. CASE UNCHANGED vars
  BY <1>18 DEF vars, tree, TypeOK
<1> QED BY <1>1, <1>2, <1>3, <1>4, <1>5, <1>6, <1>7, <1>8, <1>9, <1>10, <1>11,
           <1>12, <1>13, <1>14, <1>15, <1>16, <1>17, <1>18
        DEF Next, Calls, Control

(* Every variable keeps its type in every reachable state.                 *)
THEOREM TypeCorrect == Spec => []TypeOK
BY TypeInit, TypeNext, PTL DEF Spec
----------------------------------------------------------------------------
(* What a step does to the calls in progress, whatever it computes: a call *)
(* is started, pushed, works off one unit, is popped, or nothing happens.  *)
Start(t) == /\ cur = NoBlock /\ cur' = Root
            /\ todo' = [todo EXCEPT ![Root] = Schedule(Root, t)]
            /\ ran' = {Root} /\ fresh' = {}
Push(c) == /\ cur \in Block /\ c \in Block /\ c \in todo[cur] /\ cur' = c
           /\ todo' = [todo EXCEPT ![cur] = @ \ {c}, ![c] = Schedule(c, now)]
           /\ ran' = ran \cup {c} /\ fresh' = fresh
Handle(u) == /\ cur \in Block /\ u \in todo[cur] /\ cur' = cur
             /\ todo' = [todo EXCEPT ![cur] = @ \ {u}]
             /\ \/ ran' = ran /\ fresh' = fresh
                \/ ran' = ran \cup {u} /\ u \in Subprog /\ fresh' = fresh
                \/ ran' = ran /\ u \in Block /\ fresh' = fresh \cup {u}
Pop == /\ cur \in Block
       /\ cur' = IF cur = Root THEN NoBlock ELSE Parent[cur]
       /\ todo' = [todo EXCEPT ![cur] = {}]
       /\ \/ ran' = ran
          \/ \E s \in todo[cur] \cap Subprog : ran' = ran \cup {s}
       /\ fresh' = fresh
Still == UNCHANGED <<cur, todo, ran, fresh>>

LEMMA Shapes ==
    ASSUME TypeOK, [Next]_vars
    PROVE  \/ \E t \in Nat : Start(t)
           \/ \E u \in Unit : Push(u) \/ Handle(u)
           \/ Pop \/ Still
<1>1. ASSUME NEW t \in 0 .. MaxTime, StartStep(t) PROVE Start(t) /\ t \in Nat
  BY <1>1, NumberAssumption DEF StartStep, Enter, Start
<1>2. ASSUME NEW u \in Unit, CallChild(u) PROVE Push(u)
  BY <1>2 DEF CallChild, Turn, Enter, Push
<1>3. ASSUME NEW u \in Unit,
             RisingEdge(u) \/ FallingEdge(u) \/ StayOff(u) \/ ConditionFails(u)
             \/ SkipSubprog(u) \/ CallSubprog(u) \/ SubprogThrows(u)
      PROVE  Handle(u)
  BY <1>3 DEF RisingEdge, FallingEdge, StayOff, ConditionFails, SkipSubprog,
              CallSubprog, SubprogThrows, Runs, Turn, Passed, Handle
<1>4. ASSUME NEW u \in Unit, SubprogMistypes(u) PROVE Pop
  BY <1>4 DEF SubprogMistypes, Runs, Turn, Pop
<1>5. ASSUME ReturnToParent \/ FinishStep PROVE Pop
  <2>1. todo = [todo EXCEPT ![cur] = {}]
    BY <1>5 DEF ReturnToParent, FinishStep, Ends, TypeOK
  <2> QED BY <1>5, <2>1 DEF ReturnToParent, FinishStep, Ends, Pop
<1>6. ASSUME NEW u \in Unit, ProcessDies(u) PROVE Still
  BY <1>6 DEF ProcessDies, Still
<1>7. ASSUME Control PROVE Still
  BY <1>7 DEF Control, SetValue, LockParam, LockUnit, ShowClassErrors, between, Still
<1>8. CASE UNCHANGED vars
  BY <1>8 DEF vars, Still
<1> QED BY <1>1, <1>2, <1>3, <1>4, <1>5, <1>6, <1>7, <1>8 DEF Next, Calls
----------------------------------------------------------------------------
(* The inductive invariant of the calls: the lists belong to the blocks on *)
(* the call stack and hold their own units; what has run was reached       *)
(* through blocks that have run; what waits has neither run nor been       *)
(* switched on in this step.                                               *)
CallsInv ==
    /\ cur \in Block => cur \in ran
    /\ \A b \in Block : todo[b] # {} => Active(b)
    /\ \A b \in Block : todo[b] \subseteq Kids(b) \cup Subs(b)
    /\ \A b \in ran \cap Block : Anc[b] \subseteq ran
    /\ \A s \in ran \cap Subprog : Owner[s] \in ran
    /\ \A c \in fresh : c \in Child /\ Parent[c] \in ran
    /\ \A b \in Block : todo[b] \cap ran = {}
    /\ \A b \in Block : todo[b] \cap fresh = {}
    /\ fresh \cap ran = {}

LEMMA TreeFacts ==
    /\ \A b \in Block : b \in Anc[b]
    /\ \A c \in Child : /\ c \in Block /\ Parent[c] \in Block /\ c # Parent[c]
                        /\ Anc[c] = {c} \cup Anc[Parent[c]]
                        /\ c \notin Anc[Parent[c]]
                        /\ \A d \in Block : c \in Anc[d] => d \notin Anc[Parent[c]]
                                                       /\ Parent[c] \in Anc[d]
<1>1. \A b \in Block : b \in Anc[b]
  BY TreeAssumption DEF Child
<1>2. ASSUME NEW c \in Child, NEW d \in Block, c \in Anc[d]
      PROVE  d \notin Anc[Parent[c]] /\ Parent[c] \in Anc[d]
  <2>1. c \in Block /\ Parent[c] \in Block
    BY TreeAssumption DEF Child
  <2>2. Anc[c] \subseteq Anc[d] /\ Parent[c] \in Anc[c]
    BY <1>1, <1>2, <2>1, TreeAssumption
  <2>3. ASSUME d \in Anc[Parent[c]] PROVE FALSE
    BY <1>2, <2>1, <2>3, TreeAssumption
  <2> QED BY <2>2, <2>3
<1> QED BY <1>1, <1>2, TreeAssumption DEF Child

LEMMA UnitFacts ==
    ASSUME TypeOK, CallsInv, NEW b \in Block, NEW u \in todo[b]
    PROVE  /\ u \in Block => u \in Child /\ Parent[u] = b
           /\ u \in Subprog => Owner[u] = b /\ u \notin Block
           /\ u \in Block \/ u \in Subprog
           /\ u \notin ran /\ u \notin fresh
BY TreeAssumption DEF CallsInv, Kids, Subs, Child

LEMMA CallsNext == TypeOK /\ CallsInv /\ [Next]_vars => CallsInv'
<1> SUFFICES ASSUME TypeOK, CallsInv, [Next]_vars PROVE CallsInv'
  OBVIOUS
<1>1. ASSUME NEW t \in Nat, Start(t) PROVE CallsInv'
  <2>1. \A b \in Block : todo[b] = {}
    BY <1>1, TreeAssumption DEF Start, CallsInv, Active
  <2>2. \A b \in Block : todo'[b] = IF b = Root THEN Schedule(Root, t) ELSE {}
    BY <1>1, <2>1 DEF Start, TypeOK
  <2>3. Schedule(Root, t) \subseteq Kids(Root) \cup Subs(Root) /\ Root \notin Schedule(Root, t)
    BY TreeAssumption DEF Schedule, Kids, Subs, Child
  <2>4. Anc[Root] = {Root} /\ Root \in Block /\ Root \notin Subprog
    BY TreeAssumption
  <2> QED BY <1>1, <2>2, <2>3, <2>4 DEF Start, CallsInv, Active
<1>2. ASSUME NEW c \in Unit, Push(c) PROVE CallsInv'
  <2>1. /\ cur \in Block /\ c \in Child /\ Parent[c] = cur
        /\ c \notin ran /\ c \notin fresh
    BY <1>2, UnitFacts DEF Push
  <2>2. Anc[c] = {c} \cup Anc[cur] /\ c # cur
    BY <2>1, TreeFacts
  <2>3. \A b \in Block : todo'[b] = IF b = c THEN Schedule(c, now)
                                   ELSE IF b = cur THEN todo[cur] \ {c} ELSE todo[b]
    BY <1>2, <2>1, <2>2 DEF Push, TypeOK
  <2>4. Schedule(c, now) \subseteq Kids(c) \cup Subs(c)
    BY DEF Schedule
  <2>5. ASSUME NEW k \in Kids(c) \cup Subs(c) PROVE k \notin ran /\ k \notin fresh /\ k # c
    <3>1. CASE k \in Kids(c)
      <4>1. k \in Child /\ Parent[k] = c /\ c \in Anc[k] /\ k # c
        BY <3>1, TreeFacts DEF Kids
      <4> QED BY <4>1, <2>1 DEF CallsInv, Child
    <3>2. CASE k \in Subs(c)
      <4>1. k \in Subprog /\ Owner[k] = c /\ k \notin Block
        BY <3>2, TreeAssumption DEF Subs
      <4> QED BY <4>1, <2>1 DEF CallsInv, Child
    <3> QED BY <3>1, <3>2
  <2>6. /\ cur' = c /\ c \in ran' /\ c \in Block
        /\ \A b \in Block : todo'[b] # {} => b \in Anc[c]
    BY <1>2, <2>1, <2>2, <2>3, TreeFacts DEF Push, CallsInv, Active
  <2>7. \A b \in Block : todo'[b] \subseteq Kids(b) \cup Subs(b)
    BY <2>3, <2>4, <2>1 DEF CallsInv
  <2>8. \A b \in ran' \cap Block : Anc[b] \subseteq ran'
    BY <1>2, <2>1, <2>2 DEF Push, CallsInv
  <2>9. /\ \A s \in ran' \cap Subprog : Owner[s] \in ran'
        /\ \A d \in fresh' : d \in Child /\ Parent[d] \in ran'
    BY <1>2, TreeAssumption DEF Push, CallsInv
  <2>10. \A b \in Block : todo'[b] \cap ran' = {} /\ todo'[b] \cap fresh' = {}
    <3> SUFFICES ASSUME NEW b \in Block, NEW u \in todo'[b]
                 PROVE  u \notin ran /\ u # c /\ u \notin fresh
      BY <1>2 DEF Push
    <3>1. CASE b = c
      BY <3>1, <2>3, <2>4, <2>5
    <3>2. CASE b # c
      <4>1. u \in todo[b] /\ (b = cur => u # c)
        BY <3>2, <2>3
      <4>2. u = c => b = cur
        BY <4>1, <2>1, UnitFacts DEF Child
      <4> QED BY <4>1, <4>2, UnitFacts
    <3> QED BY <3>1, <3>2
  <2>11. fresh' \cap ran' = {}
    BY <1>2, <2>1 DEF Push, CallsInv
  <2> QED BY <2>6, <2>7, <2>8, <2>9, <2>10, <2>11 DEF CallsInv, Active
<1>3. ASSUME NEW u \in Unit, Handle(u) PROVE CallsInv'
  <2>1. \A b \in Block : todo'[b] = IF b = cur THEN todo[cur] \ {u} ELSE todo[b]
    BY <1>3 DEF Handle, TypeOK
  <2>2. /\ cur \in Block /\ cur' = cur /\ cur \in ran
        /\ u \in Block => u \in Child /\ Parent[u] = cur
        /\ u \in Subprog => Owner[u] = cur /\ u \notin Block
        /\ u \notin ran /\ u \notin fresh
    BY <1>3, UnitFacts DEF Handle, CallsInv
  <2>3. \A b \in Block : u \in todo[b] => b = cur
    BY <2>2, UnitFacts
  <2>4. \A b \in Block : /\ todo'[b] \subseteq todo[b] /\ u \notin todo'[b]
    BY <2>1, <2>3
  <2>5. CASE ran' = ran /\ fresh' = fresh
    BY <2>2, <2>4, <2>5 DEF CallsInv, Active
  <2>6. CASE ran' = ran \cup {u} /\ u \in Subprog /\ fresh' = fresh
    BY <2>2, <2>4, <2>6 DEF CallsInv, Active
  <2>7. CASE ran' = ran /\ u \in Block /\ fresh' = fresh \cup {u}
    BY <2>2, <2>4, <2>7 DEF CallsInv, Active
  <2> QED BY <1>3, <2>5, <2>6, <2>7 DEF Handle
<1>4. ASSUME Pop PROVE CallsInv'
  <2>1. cur \in Block /\ cur \in ran
    BY <1>4 DEF Pop, CallsInv
  <2>2. \A b \in Block : todo'[b] = IF b = cur THEN {} ELSE todo[b]
    BY <1>4 DEF Pop, TypeOK
  <2>3. \/ ran' = ran
        \/ \E s \in Subprog : /\ ran' = ran \cup {s} /\ Owner[s] = cur
                              /\ s \notin Block /\ s \notin fresh
                              /\ \A b \in Block : s \in todo[b] => b = cur
    <3>1. ASSUME NEW s \in todo[cur] \cap Subprog
          PROVE  /\ Owner[s] = cur /\ s \notin Block /\ s \notin fresh
                 /\ \A b \in Block : s \in todo[b] => b = cur
      BY <2>1, UnitFacts
    <3> QED BY <1>4, <3>1 DEF Pop
  <2>4. CASE cur = Root
    <3>1. \A b \in Block : todo'[b] = {}
      BY <2>2, <2>4, TreeAssumption DEF CallsInv, Active
    <3>2. cur' = NoBlock /\ NoBlock \notin Block /\ fresh' = fresh
      BY <1>4, <2>4, TreeAssumption DEF Pop
    <3> QED BY <2>1, <2>3, <3>1, <3>2 DEF CallsInv, Active
  <2>5. CASE cur # Root
    <3>1. /\ cur \in Child /\ cur' = Parent[cur] /\ Parent[cur] \in Block
          /\ Anc[cur] = {cur} \cup Anc[Parent[cur]] /\ fresh' = fresh
          /\ Parent[cur] \in Anc[Parent[cur]]
      BY <1>4, <2>1, <2>5, TreeFacts DEF Pop, Child
    <3>2. Parent[cur] \in ran
      BY <2>1, <3>1 DEF CallsInv
    <3>3. \A b \in Block : todo'[b] # {} => b \in Anc[Parent[cur]]
      BY <2>2, <3>1 DEF CallsInv, Active
    <3> QED BY <2>1, <2>2, <2>3, <3>1, <3>2, <3>3 DEF CallsInv, Active
  <2> QED BY <2>4, <2>5
<1>5. CASE Still
  BY <1>5 DEF Still, CallsInv, Active
<1> QED BY <1>1, <1>2, <1>3, <1>4, <1>5, Shapes

LEMMA CallsInit == Init => CallsInv
BY TreeAssumption DEF Init, CallsInv, Active

LEMMA CallsCorrect == Spec => []CallsInv
<1>1. TypeOK /\ CallsInv /\ [Next]_vars => CallsInv'
  BY CallsNext
<1> QED BY <1>1, CallsInit, TypeCorrect, PTL DEF Spec

(* No unit is called twice in one step.                                    *)
THEOREM CalledOnce == Spec => []CalledOncePerStep
<1>1. CallsInv => CalledOncePerStep
  BY DEF CallsInv, CalledOncePerStep
<1> QED BY <1>1, CallsCorrect, PTL

(* Nothing at or below a block that was just switched on runs.             *)
THEOREM RestsAfterPowerOn == Spec => []RestAfterPowerOn
<1>1. CallsInv => RestAfterPowerOn
  BY DEF CallsInv, RestAfterPowerOn
<1> QED BY <1>1, CallsCorrect, PTL
----------------------------------------------------------------------------
(* Power.  ActivePowered is what lets a return set _power_prev_step back   *)
(* to TRUE without breaking the nesting.                                   *)

(* A child that is handled lies outside the call stack with all its        *)
(* subtree.                                                                *)
LEMMA BelowIsInactive ==
    ASSUME NEW c \in Child, cur = Parent[c], NEW d \in Desc(c)
    PROVE  ~ Active(d)
BY TreeFacts DEF Desc, Active

LEMMA PowerUnchanged ==
    ASSUME PowerReaches, prev' = prev, \A b \in Child : Active(b)' => Active(b)
    PROVE  PowerReaches'
BY DEF PowerReaches, PowerNesting, ActivePowered

LEMMA PowerNext == TypeOK /\ CallsInv /\ PowerReaches /\ [Next]_vars => PowerReaches'
<1> SUFFICES ASSUME TypeOK, CallsInv, PowerReaches, [Next]_vars PROVE PowerReaches'
  OBVIOUS
<1>0. ASSUME cur \in Block, cur # Root
      PROVE  cur \in Child /\ Parent[cur] \in Block /\ prev[cur]
             /\ Anc[cur] = {cur} \cup Anc[Parent[cur]]
  BY <1>0, TreeFacts DEF PowerReaches, ActivePowered, Active, Child
<1>1. ASSUME NEW t \in 0 .. MaxTime, StartStep(t) PROVE PowerReaches'
  BY <1>1, TreeAssumption, PowerUnchanged DEF StartStep, Enter, Active, Child
<1>2. ASSUME NEW c \in Unit, CallChild(c) PROVE PowerReaches'
  <2>1. /\ c \in Child /\ Parent[c] = cur /\ prev[c] /\ prev' = prev
        /\ cur' = c /\ cur \in Block
    BY <1>2, UnitFacts DEF CallChild, Turn, Enter
  <2>2. Anc[c] = {c} \cup Anc[cur]
    BY <2>1, TreeFacts
  <2> QED BY <2>1, <2>2 DEF PowerReaches, PowerNesting, ActivePowered, Active
<1>3. ASSUME NEW c \in Unit, RisingEdge(c) PROVE PowerReaches'
  <2>1. /\ c \in Child /\ Parent[c] = cur /\ cur' = cur /\ cur \in Block
        /\ prev' = [prev EXCEPT ![c] = TRUE]
    BY <1>3, UnitFacts DEF RisingEdge, Turn
  <2>2. \A b \in Block : prev'[b] = (b = c \/ prev[b])
    BY <2>1 DEF TypeOK
  <2>3. cur # Root => prev[cur]
    BY <1>0, <2>1
  <2> QED BY <2>1, <2>2, <2>3, TreeFacts
          DEF PowerReaches, PowerNesting, ActivePowered, Active, Child
<1>4. ASSUME NEW c \in Unit, FallingEdge(c) PROVE PowerReaches'
  <2>1. /\ c \in Child /\ Parent[c] = cur /\ cur' = cur
        /\ \A b \in Block : prev'[b] = (prev[b] /\ b \notin Desc(c))
    BY <1>4, UnitFacts DEF FallingEdge, Turn
  <2>2. ActivePowered'
    BY <2>1, BelowIsInactive DEF PowerReaches, ActivePowered, Active, Child
  <2>3. ASSUME NEW d \in Child, Parent[d] \in Desc(c) PROVE d \in Desc(c)
    BY <2>1, <2>3, TreeFacts DEF Desc
  <2>4. PowerNesting'
    BY <2>1, <2>3, TreeFacts DEF PowerReaches, PowerNesting
  <2> QED BY <2>2, <2>4 DEF PowerReaches
<1>5. ASSUME ReturnToParent PROVE PowerReaches'
  <2>1. cur \in Block /\ cur # Root /\ prev' = [prev EXCEPT ![cur] = TRUE]
        /\ cur' = Parent[cur]
    BY <1>5 DEF ReturnToParent, Ends
  <2>2. prev' = prev
    BY <2>1, <1>0 DEF TypeOK
  <2> QED BY <2>1, <2>2, <1>0, PowerUnchanged DEF Active
<1>6. ASSUME NEW s \in Unit, SubprogMistypes(s) PROVE PowerReaches'
  <2>1. cur \in Block /\ cur # Root /\ prev' = prev /\ cur' = Parent[cur]
    BY <1>6 DEF SubprogMistypes, Runs, Turn
  <2> QED BY <2>1, <1>0, PowerUnchanged DEF Active
<1>7. ASSUME FinishStep PROVE PowerReaches'
  BY <1>7, TreeAssumption, PowerUnchanged DEF FinishStep, Active
<1>8. ASSUME NEW u \in Unit,
             StayOff(u) \/ ConditionFails(u) \/ SkipSubprog(u) \/ CallSubprog(u)
             \/ SubprogThrows(u) \/ ProcessDies(u)
      PROVE  PowerReaches'
  BY <1>8, PowerUnchanged DEF StayOff, ConditionFails, SkipSubprog, CallSubprog,
          SubprogThrows, ProcessDies, tree, Active
<1>9. ASSUME Control PROVE PowerReaches'
  BY <1>9, PowerUnchanged DEF Control, SetValue, LockParam, LockUnit,
          ShowClassErrors, between, Active
<1>10. CASE UNCHANGED vars
  BY <1>10, PowerUnchanged DEF vars, tree, Active
<1> QED BY <1>1, <1>2, <1>3, <1>4, <1>5, <1>6, <1>7, <1>8, <1>9, <1>10
        DEF Next, Calls

LEMMA PowerInit == Init => PowerReaches
BY TreeAssumption DEF Init, PowerReaches, PowerNesting, ActivePowered, Active, Child

(* Power reaches down from the main block: no block has power below one    *)
(* without, and calls are in progress in blocks with power only.           *)
THEOREM PowerReachesDown == Spec => []PowerReaches
<1>1. TypeOK /\ CallsInv /\ PowerReaches /\ [Next]_vars => PowerReaches'
  BY PowerNext
<1> QED BY <1>1, PowerInit, TypeCorrect, CallsCorrect, PTL DEF Spec
----------------------------------------------------------------------------
(* The plan.  A child waits in a list only while it is not locked and its  *)
(* plan lies before the time of the step: no call and no touch() can move  *)
(* it meanwhile.                                                           *)
PlanInv ==
    /\ \A b \in Block : \A c \in todo[b] \cap Block :
          now > plan[c] /\ c \notin blocked
    /\ PlanBound

LEMMA PlanNext == TypeOK /\ CallsInv /\ PlanInv /\ [Next]_vars => PlanInv'
<1> SUFFICES ASSUME TypeOK, CallsInv, PlanInv, [Next]_vars PROVE PlanInv'
  OBVIOUS
<1> USE NumberAssumption
<1>1. ASSUME NEW t \in 0 .. MaxTime, StartStep(t) PROVE PlanInv'
  <2>1. /\ \A b \in Block : todo[b] = {}
        /\ t \in Nat /\ now' = t /\ t >= now /\ now \in Nat
    BY <1>1, TreeAssumption DEF StartStep, CallsInv, Active, TypeOK
  <2>2. blocked' = blocked /\ \A c \in Child : plan'[c] = plan[c] /\ plan[c] \in Int
    BY <1>1 DEF StartStep, Enter, TypeOK, Child
  <2>3. \A b \in Block : todo'[b] = IF b = Root THEN Schedule(Root, t) ELSE {}
    BY <1>1, <2>1 DEF StartStep, TypeOK
  <2>4. \A c \in Schedule(Root, t) \cap Block : c \in Child /\ t > plan[c] /\ c \notin blocked
    BY TreeAssumption DEF Schedule, Kids, Subs, Due
  <2>5. PlanBound'
    BY <2>1, <2>2 DEF PlanInv, PlanBound, Child
  <2> QED BY <2>1, <2>2, <2>3, <2>4, <2>5 DEF PlanInv
<1>2. ASSUME NEW c \in Unit, CallChild(c) PROVE PlanInv'
  <2>1. /\ c \in Child /\ Parent[c] = cur /\ cur \in Block /\ c \in todo[cur]
        /\ c \in Block /\ now' = now /\ now \in Nat
    BY <1>2, UnitFacts DEF CallChild, Turn, TypeOK
  <2>2. /\ blocked' = blocked
        /\ \A b \in Block : plan'[b] = IF b = c THEN plan[c] + Period[c] ELSE plan[b]
    BY <1>2, <2>1 DEF CallChild, Enter, TypeOK
  <2>3. now > plan[c] /\ plan[c] \in Int /\ Period[c] \in Int
    BY <2>1 DEF PlanInv, TypeOK
  <2>4. PlanBound'
    BY <2>1, <2>2, <2>3 DEF PlanInv, PlanBound, Child
  <2>5. \A b \in Block : todo'[b] = IF b = c THEN Schedule(c, now)
                                   ELSE IF b = cur THEN todo[cur] \ {c} ELSE todo[b]
    <3>1. c # cur /\ todo' = [todo EXCEPT ![cur] = @ \ {c}, ![c] = Schedule(c, now)]
      BY <1>2, <2>1, TreeFacts DEF CallChild
    <3> QED BY <3>1, <2>1 DEF TypeOK
  <2>6. \A k \in Schedule(c, now) \cap Block : k # c /\ now > plan[k] /\ k \notin blocked
    BY TreeAssumption, TreeFacts DEF Schedule, Kids, Subs, Due
  <2>7. ASSUME NEW b \in Block, NEW k \in todo'[b] \cap Block
        PROVE  k # c /\ now > plan[k] /\ k \notin blocked
    <3>1. CASE b = c
      BY <3>1, <2>5, <2>6
    <3>2. CASE b # c
      <4>1. k \in todo[b] /\ (b = cur => k # c)
        BY <3>2, <2>5
      <4>2. k \in Child /\ Parent[k] = b
        BY <4>1, UnitFacts
      <4> QED BY <4>1, <4>2, <2>1 DEF PlanInv
    <3> QED BY <3>1, <3>2
  <2> QED BY <2>1, <2>2, <2>4, <2>7 DEF PlanInv
<1>3. ASSUME NEW c \in Unit, RisingEdge(c) PROVE PlanInv'
  <2>1. /\ c \in Child /\ Parent[c] = cur /\ cur \in Block /\ now' = now /\ now \in Nat
        /\ blocked' = blocked
        /\ \A b \in Block : todo'[b] = IF b = cur THEN todo[cur] \ {c} ELSE todo[b]
        /\ \A b \in Block : plan'[b] = IF b \in Desc(c) THEN now + TouchOffset ELSE plan[b]
    BY <1>3, UnitFacts DEF RisingEdge, Turn, Passed, TypeOK
  <2>2. PlanBound'
    <3> SUFFICES ASSUME NEW k \in Child
                 PROVE  plan'[k] <= now + TouchOffset \/ plan'[k] < now + Period[k]
      BY <2>1 DEF PlanBound
    <3>1. CASE k \in Desc(c)
      BY <3>1, <2>1 DEF Child
    <3>2. CASE k \notin Desc(c)
      BY <3>2, <2>1 DEF PlanInv, PlanBound, Child
    <3> QED BY <3>1, <3>2
  <2>3. ASSUME NEW b \in Block, NEW k \in todo'[b] \cap Block
        PROVE  k \notin Desc(c) /\ now > plan[k] /\ k \notin blocked
    <3>1. k \in todo[b] /\ k \in Child /\ Parent[k] = b /\ k # c
      BY <2>1, UnitFacts
    <3>2. Active(b)
      BY <3>1 DEF CallsInv
    <3>3. ASSUME k \in Desc(c) PROVE b \in Desc(c)
      BY <3>1, <3>3, <2>1, TreeFacts DEF Desc
    <3> QED BY <3>1, <3>2, <3>3, <2>1, BelowIsInactive DEF PlanInv
  <2> QED BY <2>1, <2>2, <2>3 DEF PlanInv
<1>4. ASSUME plan' = plan, now' = now, blocked' = blocked,
             \A b \in Block : todo'[b] \subseteq todo[b]
      PROVE  PlanInv'
  BY <1>4 DEF PlanInv, PlanBound
<1>5. ASSUME NEW u \in Unit,
             FallingEdge(u) \/ StayOff(u) \/ ConditionFails(u) \/ SkipSubprog(u)
             \/ CallSubprog(u) \/ SubprogThrows(u)
      PROVE  PlanInv'
  <2>1. plan' = plan /\ now' = now /\ blocked' = blocked /\ Passed(u)
    BY <1>5 DEF FallingEdge, StayOff, ConditionFails, SkipSubprog, CallSubprog,
               SubprogThrows, tree
  <2> QED BY <2>1, <1>4 DEF Passed, TypeOK
<1>6. ASSUME NEW s \in Unit, SubprogMistypes(s) PROVE PlanInv'
  <2>1. /\ plan' = plan /\ now' = now /\ blocked' = blocked
        /\ todo' = [todo EXCEPT ![cur] = {}]
    BY <1>6 DEF SubprogMistypes
  <2> QED BY <2>1, <1>4 DEF TypeOK
<1>7. ASSUME NEW s \in Unit, ProcessDies(s) PROVE PlanInv'
  BY <1>7, <1>4 DEF ProcessDies, tree
<1>8. ASSUME ReturnToParent \/ FinishStep PROVE PlanInv'
  BY <1>8, <1>4 DEF ReturnToParent, FinishStep
<1>9. ASSUME Control PROVE PlanInv'
  <2>1. plan' = plan /\ now' = now /\ todo' = todo /\ cur = NoBlock
    BY <1>9 DEF Control, SetValue, LockParam, LockUnit, ShowClassErrors,
                Instruction, between
  <2>2. \A b \in Block : todo[b] = {}
    BY <2>1, TreeAssumption DEF CallsInv, Active
  <2> QED BY <2>1, <2>2 DEF PlanInv, PlanBound
<1>10. CASE UNCHANGED vars
  BY <1>10, <1>4 DEF vars, tree
<1> QED BY <1>1, <1>2, <1>3, <1>5, <1>6, <1>7, <1>8, <1>9, <1>10 DEF Next, Calls

LEMMA PlanInit == Init => PlanInv
BY NumberAssumption DEF Init, PlanInv, PlanBound, Child

LEMMA PlanCorrect == Spec => []PlanInv
<1>1. TypeOK /\ CallsInv /\ PlanInv /\ [Next]_vars => PlanInv'
  BY PlanNext
<1> QED BY <1>1, PlanInit, TypeCorrect, CallsCorrect, PTL DEF Spec

(* The plan of a block never runs ahead of the time of the step by a       *)
(* period or more, except by the offset of the clocks after touch().       *)
THEOREM PlanIsBounded == Spec => []PlanBound
<1>1. PlanInv => PlanBound
  BY DEF PlanInv
<1> QED BY <1>1, PlanCorrect, PTL
----------------------------------------------------------------------------
(* Errors.  Wherever a failure was caught, its name is already reported or *)
(* is held by a block whose call is in progress.                           *)
Kept(f) == f \in reported \/ \E b \in Block : f \in errBlocks[b]

ErrorInv ==
    /\ \A f \in failed : Kept(f)
    /\ \A b \in Block : errBlocks[b] # {} => Active(b)

(* The block that is collected from, or returned from, hands its names to  *)
(* the block above it.                                                     *)
LEMMA HandOver ==
    ASSUME TypeOK, ErrorInv, NEW p \in Block, NEW c \in Block, p # c, NEW extra,
           errBlocks' = [errBlocks EXCEPT ![p] = @ \cup errBlocks[c] \cup extra,
                                          ![c] = {}],
           failed' \subseteq failed \cup extra, reported' = reported,
           cur' \in Block, p \in Anc[cur'],
           \A b \in Block \ {c} : Active(b) => b \in Anc[cur']
    PROVE  ErrorInv'
<1>1. \A b \in Block : errBlocks'[b] =
           IF b = c THEN {} ELSE IF b = p THEN errBlocks[p] \cup errBlocks[c] \cup extra
           ELSE errBlocks[b]
  BY DEF TypeOK
<1>2. errBlocks'[p] = errBlocks[p] \cup errBlocks[c] \cup extra
  BY <1>1
<1>4. ASSUME NEW f \in failed'
      PROVE  f \in reported' \/ \E b \in Block : f \in errBlocks'[b]
  <2>1. CASE f \in extra
    <3>1. f \in errBlocks'[p]
      BY <1>2, <2>1, Zenon
    <3> QED BY <3>1
  <2>2. CASE f \in failed /\ f \in reported
    BY <2>2
  <2>3. CASE \E b \in Block : f \in errBlocks[b]
    <3>1. PICK b \in Block : f \in errBlocks[b]
      BY <2>3
    <3>2. CASE b \in {p, c}
      <4>1. f \in errBlocks'[p]
        BY <1>2, <3>1, <3>2, Zenon
      <4> QED BY <4>1
    <3>3. CASE b \notin {p, c}
      BY <1>1, <3>1, <3>3
    <3> QED BY <3>2, <3>3
  <2> QED BY <2>1, <2>2, <2>3 DEF ErrorInv, Kept
<1>3. ASSUME NEW b \in Block, errBlocks'[b] # {} PROVE Active(b)'
  BY <1>1, <1>3 DEF ErrorInv, Active
<1> QED BY <1>3, <1>4 DEF ErrorInv, Kept

LEMMA SameErrors ==
    ASSUME ErrorInv, errBlocks' = errBlocks, failed' = failed, reported' = reported,
           \A b \in Block : Active(b) => Active(b)'
    PROVE  ErrorInv'
BY DEF ErrorInv, Kept

LEMMA ErrorNext == TypeOK /\ CallsInv /\ ErrorInv /\ [Next]_vars => ErrorInv'
<1> SUFFICES ASSUME TypeOK, CallsInv, ErrorInv, [Next]_vars PROVE ErrorInv'
  OBVIOUS
<1>1. ASSUME NEW t \in 0 .. MaxTime, StartStep(t) PROVE ErrorInv'
  <2>1. \A b \in Block : ~ Active(b)
    BY <1>1, TreeAssumption DEF StartStep, Active
  <2> QED BY <1>1, <2>1, SameErrors DEF StartStep, Enter
<1>2. ASSUME NEW c \in Unit, CallChild(c) PROVE ErrorInv'
  <2>1. c \in Child /\ Parent[c] = cur /\ cur' = c /\ cur \in Block
    BY <1>2, UnitFacts DEF CallChild, Turn, Enter
  <2>2. \A b \in Block : Active(b) => Active(b)'
    BY <2>1, TreeFacts DEF Active
  <2> QED BY <1>2, <2>2, SameErrors DEF CallChild, Enter
<1>3. ASSUME NEW c \in Unit, NEW extra, Turn(c), c \in Block, Collect(c, extra),
             failed' \subseteq failed \cup extra, cur' = cur, reported' = reported
      PROVE  ErrorInv'
  <2>1. c \in Child /\ Parent[c] = cur /\ cur \in Block /\ cur # c
    BY <1>3, UnitFacts, TreeFacts DEF Turn
  <2>2. /\ cur' \in Block /\ cur \in Anc[cur']
        /\ \A b \in Block \ {c} : Active(b) => b \in Anc[cur']
    BY <1>3, <2>1, TreeFacts DEF Active
  <2> QED BY <1>3, <2>1, <2>2, HandOver DEF Collect
<1>4. ASSUME NEW c \in Unit, RisingEdge(c) \/ FallingEdge(c) \/ StayOff(c)
      PROVE  ErrorInv'
  BY <1>4, <1>3 DEF RisingEdge, FallingEdge, StayOff
<1>5. ASSUME NEW u \in Unit, u \notin Block, Turn(u), cur' = cur, reported' = reported,
             errBlocks' = [errBlocks EXCEPT ![cur] = @ \cup {<<"unit", u>>}],
             failed' = failed \cup {<<"unit", u>>}
      PROVE  ErrorInv'
  <2>1. cur \in Block /\ Active(cur)
    BY <1>5, TreeFacts DEF Turn, Active
  <2>2. \A b \in Block : errBlocks'[b] = IF b = cur THEN errBlocks[cur] \cup {<<"unit", u>>}
                                         ELSE errBlocks[b]
    BY <1>5, <2>1 DEF TypeOK
  <2>3. \A f \in failed' : Kept(f)'
    BY <1>5, <2>1, <2>2 DEF ErrorInv, Kept
  <2>4. \A b \in Block : errBlocks'[b] # {} => Active(b)'
    BY <1>5, <2>1, <2>2 DEF ErrorInv, Active
  <2> QED BY <2>3, <2>4 DEF ErrorInv
<1>6. ASSUME NEW u \in Unit, ConditionFails(u) PROVE ErrorInv'
  <2>1. CASE u \in Block
    BY <1>6, <2>1, <1>3 DEF ConditionFails, Caught
  <2>2. CASE u \notin Block
    BY <1>6, <2>2, <1>5 DEF ConditionFails, Caught
  <2> QED BY <2>1, <2>2
<1>7. ASSUME NEW s \in Unit, SubprogThrows(s) PROVE ErrorInv'
  BY <1>7, <1>5, TreeAssumption DEF SubprogThrows, Runs, Caught
<1>8. ASSUME cur \in Block, cur # Root, cur' = Parent[cur], NEW extra,
             errBlocks' = [errBlocks EXCEPT
                 ![Parent[cur]] = @ \cup errBlocks[cur] \cup extra, ![cur] = {}],
             failed' \subseteq failed \cup extra, reported' = reported
      PROVE  ErrorInv'
  <2>1. /\ cur \in Child /\ Parent[cur] \in Block /\ Parent[cur] # cur
        /\ Anc[cur] = {cur} \cup Anc[Parent[cur]] /\ Parent[cur] \in Anc[Parent[cur]]
    BY <1>8, TreeFacts DEF Child
  <2>2. /\ cur' \in Block /\ Parent[cur] \in Anc[cur']
        /\ \A b \in Block \ {cur} : Active(b) => b \in Anc[cur']
    BY <1>8, <2>1 DEF Active
  <2> QED BY <1>8, <2>1, <2>2, HandOver
<1>9. ASSUME NEW s \in Unit, SubprogMistypes(s) PROVE ErrorInv'
  BY <1>9, <1>8 DEF SubprogMistypes, Runs, Turn, Caught
<1>10. ASSUME ReturnToParent PROVE ErrorInv'
  BY <1>10, <1>8 DEF ReturnToParent, Ends
<1>11. ASSUME FinishStep PROVE ErrorInv'
  <2>1. PICK e \in ClassErrors : /\ reported' = reported \cup errBlocks[Root] \cup e
                                 /\ failed' = failed \cup e
    BY <1>11 DEF FinishStep
  <2>2. Root \in Block /\ cur = Root /\ cur' = NoBlock /\ Anc[Root] = {Root}
        /\ errBlocks' = [errBlocks EXCEPT ![Root] = {}]
    BY <1>11, TreeAssumption DEF FinishStep, Ends
  <2>3. \A b \in Block : errBlocks'[b] = {}
    BY <2>2 DEF ErrorInv, Active, TypeOK
  <2>4. \A f \in failed' : f \in reported'
    BY <2>1, <2>2 DEF ErrorInv, Kept, Active
  <2> QED BY <2>3, <2>4 DEF ErrorInv, Kept
<1>12. ASSUME NEW s \in Unit, SkipSubprog(s) \/ CallSubprog(s) \/ ProcessDies(s)
       PROVE  ErrorInv'
  BY <1>12, SameErrors DEF SkipSubprog, CallSubprog, ProcessDies, tree, Active
<1>13. ASSUME Control PROVE ErrorInv'
  BY <1>13, SameErrors DEF Control, SetValue, LockParam, LockUnit,
          ShowClassErrors, between, Active
<1>14. CASE UNCHANGED vars
  BY <1>14, SameErrors DEF vars, tree, Active
<1> QED BY <1>1, <1>2, <1>4, <1>6, <1>7, <1>9, <1>10, <1>11, <1>12, <1>13, <1>14
        DEF Next, Calls

LEMMA ErrorInit == Init => ErrorInv
BY DEF Init, ErrorInv

(* Between two steps every failure ever caught has been reported.          *)
THEOREM FailuresReported == Spec => []NoFailureLost
<1>1. TypeOK /\ CallsInv /\ ErrorInv /\ [Next]_vars => ErrorInv'
  BY ErrorNext
<1>2. ErrorInv => NoFailureLost
  BY TreeAssumption DEF ErrorInv, Kept, Active, NoFailureLost
<1> QED BY <1>1, <1>2, ErrorInit, TypeCorrect, CallsCorrect, PTL DEF Spec
----------------------------------------------------------------------------
(* What a step does to the values.  A write reaches the innermost block,   *)
(* or the one above it when that call ends; the edges of a child's power   *)
(* reach the child, or all below it, as well.                              *)
Writes == /\ cur \in Block
          /\ \E b \in Anc[cur] \cap Block, vm \in Map : val' = Write(b, vm)
          /\ \A d \in Block : prev[d] => prev'[d]
Takes(b) == /\ cur' = b /\ b \in Block
            /\ b \in Child => /\ b \in ran' \ ran /\ prev[b]
                              /\ cur \in Block /\ b \in todo[cur]
            /\ val' = TakeUse(b) /\ prev' = prev
Rises(c) == /\ c \in Child /\ Parent[c] = cur /\ ~ prev[c]
            /\ val' = LET on == Write(c, OnSetup[c])
                      IN  [on EXCEPT ![cur] = Written(cur, @, SetupResult(c, OnSetup))]
            /\ prev' = [prev EXCEPT ![c] = TRUE]
Falls(c) == /\ c \in Child /\ Parent[c] = cur /\ prev[c]
            /\ val' = LET off == [d \in Block |->
                                    IF d \in Desc(c) THEN OffValues(d) ELSE val[d]]
                      IN  [off EXCEPT ![cur] = Written(cur, @, SetupResult(c, OffSetup))]
            /\ prev' = [d \in Block |-> prev[d] /\ d \notin Desc(c)]
Operates == BetweenSteps /\ prev' = prev
Keeps == val' = val /\ prev' = prev

LEMMA Movements ==
    ASSUME TypeOK, CallsInv, PowerReaches, [Next]_vars
    PROVE  \/ Writes \/ Operates \/ Keeps
           \/ \E b \in Block : Takes(b)
           \/ \E c \in Child : Rises(c) \/ Falls(c)
<1>1. ASSUME NEW t \in 0 .. MaxTime, StartStep(t) PROVE Takes(Root) /\ Root \in Block
  BY <1>1, TreeAssumption DEF StartStep, Enter, Takes, Child
<1>2. ASSUME NEW c \in Unit, CallChild(c) PROVE Takes(c) /\ c \in Block
  BY <1>2, UnitFacts DEF CallChild, Turn, Enter, Takes
<1>3. ASSUME NEW c \in Unit, RisingEdge(c) PROVE Rises(c) /\ c \in Child
  BY <1>3, UnitFacts DEF RisingEdge, Turn, Rises
<1>4. ASSUME NEW c \in Unit, FallingEdge(c) PROVE Falls(c) /\ c \in Child
  BY <1>4, UnitFacts DEF FallingEdge, Turn, Falls
<1>5. ASSUME NEW s \in Unit, CallSubprog(s) \/ SubprogMistypes(s) PROVE Writes
  <2>1. cur \in Block /\ cur \in Anc[cur] /\ s \in Subprog /\ prev' = prev
    BY <1>5, TreeFacts DEF CallSubprog, SubprogMistypes, Runs, Turn
  <2>2. \A out \in Outputs[s] : out \in Map
    BY <2>1, DataAssumption
  <2>3. CASE CallSubprog(s)
    BY <2>1, <2>2, <2>3 DEF CallSubprog, Writes
  <2>4. CASE SubprogMistypes(s)
    <3>1. PICK out \in Outputs[s] :
             \E w \in Writable(cur, out) : val' = Write(cur, BeforeVar(out, w))
      BY <2>4 DEF SubprogMistypes
    <3>2. PICK w \in Writable(cur, out) : val' = Write(cur, BeforeVar(out, w))
      BY <3>1
    <3>3. BeforeVar(out, w) \in Map
      BY <2>2, BeforeVarType
    <3> QED BY <2>1, <2>4, <3>2, <3>3 DEF SubprogMistypes, Writes
  <2> QED BY <1>5, <2>3, <2>4
<1>6. ASSUME ReturnToParent PROVE Writes
  <2>1. cur \in Child /\ Parent[cur] \in Anc[cur] \cap Block
    BY <1>6, TreeFacts DEF ReturnToParent, Ends, Child
  <2>2. CallResult(cur) \in Map
    BY <2>1, CallResultType DEF TypeOK, Child
  <2> QED BY <1>6, <2>1, <2>2 DEF ReturnToParent, Ends, Writes, TypeOK
<1>7. ASSUME NEW u \in Unit,
             StayOff(u) \/ ConditionFails(u) \/ SkipSubprog(u)
             \/ SubprogThrows(u) \/ ProcessDies(u)
      PROVE  Keeps
  BY <1>7 DEF StayOff, ConditionFails, SkipSubprog, SubprogThrows, ProcessDies,
              tree, Keeps
<1>8. ASSUME FinishStep PROVE Keeps
  BY <1>8 DEF FinishStep, Keeps
<1>9. ASSUME Control PROVE Operates
  BY <1>9 DEF Control, SetValue, LockParam, LockUnit, ShowClassErrors,
              Instruction, between, BetweenSteps, Operates
<1>10. CASE UNCHANGED vars
  BY <1>10 DEF vars, tree, Keeps
<1> QED BY <1>1, <1>2, <1>3, <1>4, <1>5, <1>6, <1>7, <1>8, <1>9, <1>10
        DEF Next, Calls

(* write_variables() leaves what is locked as it is.                       *)
LEMMA LockedStays ==
    ASSUME NEW b \in Block, NEW base, NEW vm, NEW v \in Var, v \in locked[b]
    PROVE  Written(b, base, vm)[v] = base[v]
BY DEF Written, Writable

LEMMA FallValues ==
    ASSUME TypeOK, NEW c \in Child, Falls(c), NEW d \in Block
    PROVE  /\ d \in Desc(c) => val'[d] = OffValues(d)
           /\ d \notin Desc(c) /\ d # cur => val'[d] = val[d]
           /\ d = cur => val'[d] = Written(d, val[d], SetupResult(c, OffSetup))
<1> DEFINE off == [e \in Block |-> IF e \in Desc(c) THEN OffValues(e) ELSE val[e]]
<1>1. cur \in Block /\ cur \notin Desc(c)
  BY TreeFacts DEF Falls, Desc
<1>2. val' = [off EXCEPT ![cur] = Written(cur, @, SetupResult(c, OffSetup))]
  BY DEF Falls
<1>3. off[d] = IF d \in Desc(c) THEN OffValues(d) ELSE val[d]
  OBVIOUS
<1>4. DOMAIN off = Block
  OBVIOUS
<1> HIDE DEF off
<1>5. val'[d] = IF d = cur THEN Written(cur, off[cur], SetupResult(c, OffSetup))
                ELSE off[d]
  BY <1>1, <1>2, <1>4
<1> QED BY <1>1, <1>3, <1>5

LEMMA RiseValues ==
    ASSUME TypeOK, NEW c \in Child, Rises(c), NEW d \in Block
    PROVE  /\ d # c /\ d # cur => val'[d] = val[d]
           /\ d = c => val'[d] = Written(d, val[d], OnSetup[c])
           /\ d = cur => val'[d] = Written(d, val[d], SetupResult(c, OnSetup))
<1> DEFINE on == Write(c, OnSetup[c])
<1>1. cur \in Block /\ cur # c /\ c \in Block
  BY TreeFacts DEF Rises
<1>2. val' = [on EXCEPT ![cur] = Written(cur, @, SetupResult(c, OnSetup))]
  BY DEF Rises
<1>3. /\ DOMAIN on = Block
      /\ on[d] = IF d = c THEN Written(c, val[c], OnSetup[c]) ELSE val[d]
      /\ on[cur] = val[cur]
  BY <1>1 DEF Write, TypeOK
<1> HIDE DEF on
<1>4. val'[d] = IF d = cur THEN Written(cur, on[cur], SetupResult(c, OnSetup))
                ELSE on[d]
  BY <1>1, <1>2, <1>3
<1> QED BY <1>1, <1>3, <1>4

(* A locked variable keeps its value through every step of the tree, on    *)
(* every path that writes variables (write_variables, call).               *)
THEOREM LocksHold == Spec => LockedKept
<1> DEFINE Holds == \A b \in Block : \A v \in locked[b] :
                      \/ val'[b][v] = val[b][v]
                      \/ BetweenSteps
                      \/ Enters(b) /\ v \in DOMAIN Use[b]
<1>1. TypeOK /\ CallsInv /\ PowerReaches /\ [Next]_vars => Holds
  <2> SUFFICES ASSUME TypeOK, CallsInv, PowerReaches, [Next]_vars,
                      NEW b \in Block, NEW v \in locked[b],
                      ~ BetweenSteps, ~ (Enters(b) /\ v \in DOMAIN Use[b])
               PROVE  val'[b][v] = val[b][v]
    OBVIOUS
  <2>1. v \in Var
    BY DEF TypeOK
  <2>2. CASE Writes
    <3>1. PICK d \in Anc[cur] \cap Block, vm \in Map : val' = Write(d, vm)
      BY <2>2 DEF Writes
    <3>2. val'[b] = IF b = d THEN Written(b, val[b], vm) ELSE val[b]
      BY <3>1 DEF Write, TypeOK
    <3> QED BY <2>1, <3>2, LockedStays
  <2>3. ASSUME NEW d \in Block, Takes(d) PROVE val'[b][v] = val[b][v]
    <3>1. val'[b] = IF b = d THEN UseValues(b) ELSE val[b]
      BY <2>3 DEF Takes, TakeUse, TypeOK
    <3>2. b = d => v \notin DOMAIN Use[b]
      BY <2>3, DataAssumption DEF Takes, Enters, Child
    <3> QED BY <2>1, <3>1, <3>2 DEF UseValues
  <2>4. ASSUME NEW c \in Child, Rises(c) PROVE val'[b][v] = val[b][v]
    BY <2>1, <2>4, RiseValues, LockedStays
  <2>5. ASSUME NEW c \in Child, Falls(c) PROVE val'[b][v] = val[b][v]
    <3>1. OffValues(b)[v] = val[b][v]
      BY <2>1, LockedStays DEF OffValues
    <3> QED BY <2>1, <2>5, <3>1, FallValues, LockedStays
  <2>6. CASE Operates
    BY <2>6 DEF Operates
  <2>7. CASE Keeps
    BY <2>7 DEF Keeps
  <2> QED BY <2>2, <2>3, <2>4, <2>5, <2>6, <2>7, Movements
<1> QED BY <1>1, TypeCorrect, CallsCorrect, PowerReachesDown, PTL DEF Spec, LockedKept

(* The power of a block falls only with a falling edge above or at it.     *)
LEMMA PowerFalls ==
    ASSUME TypeOK, CallsInv, PowerReaches, [Next]_vars,
           NEW d \in Block, prev[d], ~ prev'[d]
    PROVE  \E c \in Child : Falls(c) /\ d \in Desc(c)
<1>1. ASSUME NEW c \in Child, Rises(c) PROVE FALSE
  BY <1>1 DEF Rises, TypeOK
<1>2. ASSUME NEW c \in Child, Falls(c) PROVE d \in Desc(c)
  BY <1>2 DEF Falls
<1>3. ~ Writes /\ ~ Operates /\ ~ Keeps /\ \A b \in Block : ~ Takes(b)
  BY DEF Writes, Operates, Keeps, Takes
<1> QED BY <1>1, <1>2, <1>3, Movements

(* A block that is switched off has its off-setup in place, whatever its   *)
(* children returned while they were switched off (power_off_children).    *)
THEOREM OffSetupsStand == Spec => PowerOffResets
<1> DEFINE Resets == \A c \in Child : prev[c] /\ ~ prev'[c] =>
              \A v \in Writable(c, OffSetup[c]) : val'[c][v] = OffSetup[c][v]
<1>1. TypeOK /\ CallsInv /\ PowerReaches /\ [Next]_vars => Resets
  <2> SUFFICES ASSUME TypeOK, CallsInv, PowerReaches, [Next]_vars,
                      NEW d \in Child, prev[d], ~ prev'[d],
                      NEW v \in Writable(d, OffSetup[d])
               PROVE  val'[d][v] = OffSetup[d][v]
    OBVIOUS
  <2>1. d \in Block /\ v \in Var
    BY DataAssumption DEF Child, Writable
  <2>2. PICK c \in Child : Falls(c) /\ d \in Desc(c)
    BY <2>1, PowerFalls
  <2>3. val'[d] = OffValues(d)
    BY <2>1, <2>2, FallValues
  <2> QED BY <2>1, <2>3 DEF OffValues, Written
<1> QED BY <1>1, TypeCorrect, CallsCorrect, PowerReachesDown, PTL DEF Spec, PowerOffResets

(* A block keeps its variables unless its call is in progress or begins,   *)
(* with power and when it is due, or an edge passes through it (call).     *)
THEOREM IdleBlocksKeep == Spec => IdleBlocksInert
<1> DEFINE Inert == \A c \in Child :
              \/ val'[c] = val[c]
              \/ BetweenSteps
              \/ Active(c) /\ prev[c]
              \/ Enters(c) /\ prev[c] /\ c \notin blocked /\ now > plan[c]
              \/ prev[c] # prev'[c]
              \/ \E a \in Anc[c] \ {Root} : prev[a] /\ ~ prev'[a]
<1>1. TypeOK /\ CallsInv /\ PowerReaches /\ PlanInv /\ [Next]_vars => Inert
  <2> SUFFICES ASSUME TypeOK, CallsInv, PowerReaches, PlanInv, [Next]_vars,
                      NEW c \in Child, ~ BetweenSteps, ~ (Active(c) /\ prev[c]),
                      ~ (Enters(c) /\ prev[c] /\ c \notin blocked /\ now > plan[c]),
                      prev[c] = prev'[c],
                      \A a \in Anc[c] \ {Root} : ~ (prev[a] /\ ~ prev'[a])
               PROVE  val'[c] = val[c]
    OBVIOUS
  <2>1. c \in Block /\ c # Root
    BY DEF Child
  <2>2. cur \in Block => c \notin Anc[cur]
    BY DEF PowerReaches, ActivePowered, Active
  <2>3. CASE Writes
    BY <2>1, <2>2, <2>3 DEF Writes, Write, TypeOK
  <2>4. ASSUME NEW b \in Block, Takes(b) PROVE val'[c] = val[c]
    <3>1. ASSUME b = c PROVE FALSE
      <4>1. /\ cur' = c /\ c \in ran' \ ran /\ prev[c]
            /\ cur \in Block /\ c \in todo[cur]
        BY <2>4, <3>1 DEF Takes
      <4>2. now > plan[c] /\ c \notin blocked
        BY <2>1, <4>1 DEF PlanInv
      <4> QED BY <4>1, <4>2 DEF Enters
    <3> QED BY <2>1, <2>4, <3>1 DEF Takes, TakeUse, TypeOK
  <2>5. ASSUME NEW d \in Child, Rises(d) PROVE val'[c] = val[c]
    <3>1. c # d
      BY <2>1, <2>5 DEF Rises, TypeOK
    <3>2. c # cur
      BY <2>1, <2>2, TreeFacts
    <3> QED BY <2>1, <2>5, <3>1, <3>2, RiseValues
  <2>6. ASSUME NEW d \in Child, Falls(d) PROVE val'[c] = val[c]
    <3>1. c # cur
      BY <2>1, <2>2, TreeFacts
    <3>2. prev[d] /\ ~ prev'[d] /\ d # Root
      BY <2>6, TreeFacts DEF Falls, Desc, Child
    <3>3. c \notin Desc(d)
      BY <3>2 DEF Desc
    <3> QED BY <2>1, <2>6, <3>1, <3>3, FallValues
  <2>7. CASE Operates
    BY <2>7 DEF Operates
  <2>8. CASE Keeps
    BY <2>8 DEF Keeps
  <2> QED BY <2>3, <2>4, <2>5, <2>6, <2>7, <2>8, Movements
<1> QED BY <1>1, TypeCorrect, CallsCorrect, PowerReachesDown, PlanCorrect, PTL
        DEF Spec, IdleBlocksInert
=============================================================================
