----------------------------- MODULE BlockTree -----------------------------
(***************************************************************************)
(* One modelling step of the block tree: Block::call and what it calls     *)
(* (kernel/block.hpp), the scheduler StdScheduler (kernel/detail/std.hpp), *)
(* Callable (kernel/callable.hpp), Subprogram (kernel/subprog.hpp) and the *)
(* control functions that change the tree between two steps                *)
(* (kernel/control_func).                                                  *)
(*                                                                         *)
(* Block::call is recursive.  The blocks whose call is on the C++ stack    *)
(* are the innermost one, cur, and its ancestors; todo[b] is what is left  *)
(* of the list that the scheduler gave to the call of b.                   *)
(***************************************************************************)
EXTENDS Integers, FiniteSets, FormulaSolver

CONSTANTS
    Block, Root, NoBlock,  \* the blocks, the main block, "no call is active"
    Parent,                \* Parent[b]: the block that holds b, b # Root
    Anc,                   \* Anc[b]: b and the blocks that hold it
    Subprog, Owner,        \* the subprograms and the block each belongs to
    Var, VarOf, VarRank,   \* names; those in _vars of each block; map order
    Value, Set,            \* values; those whose is_set() is true
    InitVal,               \* InitVal[b][v]: the value the loader gave
    Use,                   \* _use_vars: name in b -> name in Parent[b]
    Res,                   \* _res_vars: name in Parent[b] -> name in b
    OnSetup, OffSetup,     \* _poweron_vars, _poweroff_vars: name -> value
    Cond,                  \* power condition of a block or a subprogram
    Priority, NameRank,    \* _priority; order of the names in the maps
    Period,                \* _period of each block, in ticks
    TouchOffset,           \* the clock of Callable minus the dispatcher's
    Outputs,               \* Outputs[s]: the maps that s may return
    MayThrow, MayMistype, MayDie, \* subprograms that may fail, by kind
    WithClass,             \* blocks whose class may report an error
    Batch,                 \* messages shown by one ShowClassErrors
    MaxSteps, MaxTime, MaxInstr   \* bounds of the exploration

Unit == Block \cup Subprog
Child == Block \ {Root}
Map == UNION {[S -> Value] : S \in SUBSET Var}

ASSUME TreeAssumption ==
    /\ Root \in Block /\ NoBlock \notin Block
    /\ Block \cap Subprog = {}
    /\ Parent \in [Child -> Block]
    /\ Anc \in [Block -> SUBSET Block]
    /\ Anc[Root] = {Root}
    /\ \A b \in Child : Anc[b] = {b} \cup Anc[Parent[b]]
    /\ \A b \in Child : b \notin Anc[Parent[b]]
    /\ \A b, d \in Block : b \in Anc[d] => Anc[b] \subseteq Anc[d]
    /\ Owner \in [Subprog -> Block]

ASSUME DataAssumption ==
    /\ VarOf \in [Block -> SUBSET Var]
    /\ InitVal \in [Block -> [Var -> Value]]
    /\ \A b \in Block :
          /\ Use[b] \in [DOMAIN Use[b] -> Var] /\ DOMAIN Use[b] \subseteq VarOf[b]
          /\ Res[b] \in [DOMAIN Res[b] -> VarOf[b]] /\ DOMAIN Res[b] \subseteq Var
          /\ OnSetup[b] \in Map /\ OffSetup[b] \in Map
    /\ \A b \in Child : \A v \in DOMAIN Use[b] : Use[b][v] \in VarOf[Parent[b]]
    /\ DOMAIN Use[Root] = {}
    /\ Outputs \in [Subprog -> SUBSET Map]

ASSUME NumberAssumption ==
    /\ Period \in [Block -> Int] /\ TouchOffset \in Nat
    /\ Priority \in [Unit -> Int] /\ NameRank \in [Unit -> Int]
    /\ VarRank \in [Var -> Int]
    /\ Batch \in Nat /\ MaxSteps \in Nat /\ MaxTime \in Nat /\ MaxInstr \in Nat

VARIABLES
    val,        \* _vars: the value of each variable of each block
    locked,     \* the locked variables of each block (Parameter::_locked)
    blocked,    \* the units with _isblocked
    prev,       \* _power_prev_step
    plan,       \* _lastcall_plan
    lastcall,   \* Callable::_lastcall_time of the blocks
    errs,       \* number of messages in _errors of each block
    errBlocks,  \* _err_blocks of each block
    cur, todo,  \* the calls in progress
    now,        \* the time argument of the last step
    reported,   \* Dispatcher::_errors
    running,    \* FALSE once an exception has left main()
    steps, instrs, \* steps and instructions so far
    failed,     \* history: the failures caught since the start
    ran, fresh  \* history of this step: units called, blocks switched on

tree == <<val, locked, blocked, prev, plan, lastcall, errs, errBlocks>>
vars == <<tree, cur, todo, now, reported, running, steps, instrs,
          failed, ran, fresh>>

(* What _err_blocks can hold.  The code composes the name of the failed    *)
(* unit with the names of the blocks above it; the unit alone determines   *)
(* that path.                                                              *)
Failure == ({"unit"} \X Unit) \cup ({"class"} \X Block)
----------------------------------------------------------------------------
(* A definition named X_Something is X with a slip that a programmer could *)
(* make; nothing uses it.  It shows which property the slip would break.   *)
Kids(b) == {c \in Child : Parent[c] = b}
Subs(b) == {s \in Subprog : Owner[s] = b}
Desc_Itself(b) == {b}
Desc(b) == {d \in Block : b \in Anc[d]}

(* write_variables(): unknown names and locked variables are skipped; the  *)
(* set of allowed names is a parameter the code never reads.               *)
Writable_Locked(b, vm) == DOMAIN vm \cap VarOf[b]
Writable(b, vm) == (DOMAIN vm \cap VarOf[b]) \ locked[b]
Written(b, base, vm) ==
    [v \in Var |-> IF v \in Writable(b, vm) THEN vm[v] ELSE base[v]]
Write(b, vm) == [val EXCEPT ![b] = Written(b, @, vm)]

(* write_poweron_vars() and write_poweroff_vars(): what reaches the parent *)
(* are the returned variables that the setup has just written.             *)
SetupResult(b, setup) ==
    [d \in {d \in DOMAIN Res[b] : Res[b][d] \in Writable(b, setup[b])}
        |-> setup[b][Res[b][d]]]

(* The map that call() returns.                                            *)
CallResult(b) == [d \in DOMAIN Res[b] |-> val[b][Res[b][d]]]

(* power_off_children() of d: first what its children return, the later    *)
(* name last, then its own setup.  A child returns its own setup only, so  *)
(* a value never rises by more than one level.                             *)
Givers(d, v) == {e \in Kids(d) : v \in DOMAIN SetupResult(e, OffSetup)}
LastByName(S) == {e \in S : \A f \in S : NameRank[f] <= NameRank[e]}
FromChildren(d) ==
    [v \in {v \in Var : LastByName(Givers(d, v)) # {}}
        |-> SetupResult(CHOOSE e \in LastByName(Givers(d, v)) : TRUE, OffSetup)[v]]
OffValues_OwnFirst(d) == Written(d, Written(d, val[d], OffSetup[d]), FromChildren(d))
OffValues(d) == Written(d, Written(d, val[d], FromChildren(d)), OffSetup[d])

(* get_nextcall_objs(): the list is taken once, when the call starts.      *)
Due_NotStrict(c, t) == c \notin blocked /\ t >= plan[c]
Due(c, t) == c \notin blocked /\ t > plan[c]
Schedule(b, t) == {c \in Kids(b) : Due(c, t)} \cup (Subs(b) \ blocked)

(* The multimap: ascending priority; equal keys stay in insertion order,   *)
(* blocks before subprograms, each in the order of their names.            *)
Before(u, w) ==
    \/ Priority[u] < Priority[w]
    \/ /\ Priority[u] = Priority[w]
       /\ \/ u \in Block /\ w \in Subprog
          \/ /\ (u \in Block) = (w \in Block)
             /\ NameRank[u] < NameRank[w]

(* Unit u is the next one the loop of the innermost call takes.            *)
Turn(u) ==
    /\ running /\ cur \in Block
    /\ u \in todo[cur]
    /\ \A w \in todo[cur] \ {u} : Before(u, w)

Power(u) == Solve(Cond[u], [v \in VarOf[cur] |-> val[cur][v] \in Set])

Passed_Not(u) == todo' = todo
Passed_BlocksStay(u) == todo' = [todo EXCEPT ![cur] = @ \ ({u} \cap Subprog)]
Passed(u) == todo' = [todo EXCEPT ![cur] = @ \ {u}]

(* get_subblocks_with_errors() of child c is called and emptied whatever   *)
(* the branch that handled c; extra is what the call of c itself adds.     *)
Collect_Forgets(c, extra) ==
    errBlocks' = [errBlocks EXCEPT ![cur] = @ \cup errBlocks[c], ![c] = {}]
Collect(c, extra) ==
    errBlocks' = [errBlocks EXCEPT ![cur] = @ \cup errBlocks[c] \cup extra,
                                   ![c] = {}]

(* A catch clause of call(): a message, the name of the unit, no values.   *)
Caught(b, u) ==
    /\ errs' = [errs EXCEPT ![b] = @ + 1]
    /\ failed' = failed \cup {<<"unit", u>>}
----------------------------------------------------------------------------
Init ==
    /\ val = InitVal
    /\ locked = [b \in Block |-> {}]
    /\ blocked = {}
    /\ prev = [b \in Block |-> FALSE]
    /\ plan = [b \in Block |-> 0]
    /\ lastcall = [b \in Block |-> 0]
    /\ errs = [b \in Block |-> 0]
    /\ errBlocks = [b \in Block |-> {}]
    /\ cur = NoBlock
    /\ todo = [b \in Block |-> {}]
    /\ now = 0 /\ reported = {} /\ running = TRUE /\ steps = 0 /\ instrs = 0
    /\ failed = {} /\ ran = {} /\ fresh = {}

(* The USE variables, copied from the block above, locked or not.          *)
UseValues(b) ==
    [v \in Var |-> IF v \in DOMAIN Use[b] THEN val[Parent[b]][Use[b][v]] ELSE val[b][v]]
TakeUse_Children(b) == [d \in Block |-> IF d \in Kids(b) THEN UseValues(d) ELSE val[d]]
TakeUse(b) == [val EXCEPT ![b] = UseValues(b)]

(* The start of call(b) at time t, up to the loop: Callable::pre_call,     *)
(* block_pre_call, the copy of the USE variables and the scheduler.        *)
Enter(b, t) ==
    /\ lastcall' = [lastcall EXCEPT ![b] = t + TouchOffset]
    /\ plan' = [plan EXCEPT ![b] = @ + Period[b]]
    /\ val' = TakeUse(b)
    /\ cur' = b
    /\ UNCHANGED <<locked, blocked, prev, errs, errBlocks, reported, running,
                   steps, instrs, failed>>

(* Dispatcher::make_step calls the main block.                             *)
StartStep(t) ==
    /\ running /\ cur = NoBlock /\ steps < MaxSteps /\ t >= now
    /\ now' = t
    /\ Enter(Root, t)
    /\ todo' = [todo EXCEPT ![Root] = Schedule(Root, t)]
    /\ ran' = {Root} /\ fresh' = {}

(* A powered child that was powered when its parent last looked.           *)
CallChild(c) ==
    /\ Turn(c) /\ c \in Block /\ Power(c) = "on" /\ prev[c]
    /\ Enter(c, now)
    /\ todo' = [todo EXCEPT ![cur] = @ \ {c}, ![c] = Schedule(c, now)]
    /\ ran' = ran \cup {c}
    /\ UNCHANGED <<now, fresh>>

(* Rising edge: the setup is written and touch() resets the clocks of the  *)
(* whole subtree; the child is not called in this step.                    *)
RisingEdge(c) ==
    /\ Turn(c) /\ c \in Block /\ Power(c) = "on" /\ ~ prev[c]
    /\ val' = LET on == Write(c, OnSetup[c])
              IN  [on EXCEPT ![cur] = Written(cur, @, SetupResult(c, OnSetup))]
    /\ lastcall' = [d \in Block |->
                      IF d \in Desc(c) THEN now + TouchOffset ELSE lastcall[d]]
    /\ plan' = [d \in Block |->
                  IF d \in Desc(c) THEN now + TouchOffset ELSE plan[d]]
    /\ prev' = [prev EXCEPT ![c] = TRUE]
    /\ Collect(c, {}) /\ Passed(c)
    /\ fresh' = fresh \cup {c}
    /\ UNCHANGED <<locked, blocked, errs, cur, now, reported, running, steps,
                   instrs, failed, ran>>

(* Falling edge: power_off_children() of the whole subtree.                *)
FallingEdge(c) ==
    /\ Turn(c) /\ c \in Block /\ Power(c) = "off" /\ prev[c]
    /\ val' = LET off == [d \in Block |->
                            IF d \in Desc(c) THEN OffValues(d) ELSE val[d]]
              IN  [off EXCEPT ![cur] = Written(cur, @, SetupResult(c, OffSetup))]
    /\ prev' = [d \in Block |-> prev[d] /\ d \notin Desc(c)]
    /\ Collect(c, {}) /\ Passed(c)
    /\ UNCHANGED <<locked, blocked, plan, lastcall, errs, cur, now, reported,
                   running, steps, instrs, failed, ran, fresh>>

StayOff(c) ==
    /\ Turn(c) /\ c \in Block /\ Power(c) = "off" /\ ~ prev[c]
    /\ Collect(c, {}) /\ Passed(c)
    /\ UNCHANGED <<val, locked, blocked, prev, plan, lastcall, errs, cur, now,
                   reported, running, steps, instrs, failed, ran, fresh>>

(* is_powered() throws: the unit is skipped and prev[u] keeps its value.   *)
ConditionFails(u) ==
    /\ Turn(u) /\ Power(u) = "error"
    /\ Caught(cur, u) /\ Passed(u)
    /\ IF u \in Block THEN Collect(u, {<<"unit", u>>})
       ELSE errBlocks' = [errBlocks EXCEPT ![cur] = @ \cup {<<"unit", u>>}]
    /\ UNCHANGED <<val, locked, blocked, prev, plan, lastcall, cur, now,
                   reported, running, steps, instrs, ran, fresh>>
----------------------------------------------------------------------------
SkipSubprog(s) ==
    /\ Turn(s) /\ s \in Subprog /\ Power(s) = "off"
    /\ Passed(s)
    /\ UNCHANGED <<tree, cur, now, reported, running, steps, instrs, failed,
                   ran, fresh>>

Runs(s) == Turn(s) /\ s \in Subprog /\ Power(s) = "on"

(* Subprogram::call returns a map and write_variables() takes it.          *)
CallSubprog(s) ==
    /\ Runs(s)
    /\ \E out \in Outputs[s] : val' = Write(cur, out)
    /\ Passed(s)
    /\ ran' = ran \cup {s}
    /\ UNCHANGED <<locked, blocked, prev, plan, lastcall, errs, errBlocks, cur,
                   now, reported, running, steps, instrs, failed, fresh>>

(* The subprogram throws one of the exceptions that call() catches.        *)
SubprogThrows(s) ==
    /\ Runs(s) /\ s \in MayThrow
    /\ Caught(cur, s) /\ Passed(s)
    /\ errBlocks' = [errBlocks EXCEPT ![cur] = @ \cup {<<"unit", s>>}]
    /\ ran' = ran \cup {s}
    /\ UNCHANGED <<val, locked, blocked, prev, plan, lastcall, cur, now,
                   reported, running, steps, instrs, fresh>>

(* The subprogram returns a value of the wrong type for variable w.  The   *)
(* bad_cast of copy_data() is thrown by write_variables(), outside the try *)
(* block: the call of cur ends there, the names before w are written, and  *)
(* it is the parent's call that catches the exception, as a failure of the *)
(* block cur.                                                              *)
BeforeVar(out, w) ==
    [v \in {v \in DOMAIN out : VarRank[v] < VarRank[w]} |-> out[v]]

SubprogMistypes(s) ==
    /\ Runs(s) /\ s \in MayMistype /\ cur # Root
    /\ \E out \in Outputs[s] : \E w \in Writable(cur, out) :
          val' = Write(cur, BeforeVar(out, w))
    /\ Caught(Parent[cur], cur)
    /\ errBlocks' = [errBlocks EXCEPT
            ![Parent[cur]] = @ \cup errBlocks[cur] \cup {<<"unit", cur>>},
            ![cur] = {}]
    /\ todo' = [todo EXCEPT ![cur] = {}]
    /\ cur' = Parent[cur]
    /\ ran' = ran \cup {s}
    /\ UNCHANGED <<locked, blocked, prev, plan, lastcall, now, reported,
                   running, steps, instrs, fresh>>

(* An exception that no catch clause takes, or a wrong type in the main    *)
(* block, leaves run(): the process ends inside the step.                  *)
ProcessDies(s) ==
    /\ Runs(s)
    /\ \/ s \in MayDie
       \/ s \in MayMistype /\ cur = Root
    /\ running' = FALSE
    /\ UNCHANGED <<tree, cur, todo, now, reported, steps, instrs, failed, ran,
                   fresh>>
----------------------------------------------------------------------------
(* The end of call(cur): the error of the block class.                     *)
ClassErrors == IF cur \in WithClass THEN {{}, {<<"class", cur>>}} ELSE {{}}

Ends == running /\ cur \in Block /\ todo[cur] = {}

ReturnToParent ==
    /\ Ends /\ cur # Root
    /\ \E e \in ClassErrors :
          /\ errs' = [errs EXCEPT ![cur] = IF e = {} THEN @ ELSE @ + 1]
          /\ errBlocks' = [errBlocks EXCEPT
                ![Parent[cur]] = @ \cup errBlocks[cur] \cup e, ![cur] = {}]
          /\ failed' = failed \cup e
    /\ val' = Write(Parent[cur], CallResult(cur))
    /\ prev' = [prev EXCEPT ![cur] = TRUE]
    /\ cur' = Parent[cur]
    /\ UNCHANGED <<locked, blocked, plan, lastcall, todo, now, reported,
                   running, steps, instrs, ran, fresh>>

(* The main block returns; make_step() reports the new names.              *)
FinishStep ==
    /\ Ends /\ cur = Root
    /\ \E e \in ClassErrors :
          /\ errs' = [errs EXCEPT ![Root] = IF e = {} THEN @ ELSE @ + 1]
          /\ reported' = reported \cup errBlocks[Root] \cup e
          /\ failed' = failed \cup e
    /\ errBlocks' = [errBlocks EXCEPT ![Root] = {}]
    /\ cur' = NoBlock
    /\ steps' = steps + 1
    /\ UNCHANGED <<val, locked, blocked, prev, plan, lastcall, todo, now,
                   running, instrs, ran, fresh>>
----------------------------------------------------------------------------
(* The control functions, run by make_step() before the main block.        *)
Instruction == running /\ cur = NoBlock /\ instrs < MaxInstr /\ instrs' = instrs + 1

between == <<cur, todo, now, reported, running, steps, failed, ran, fresh>>

(* SetValue writes through the lock.                                       *)
SetValue(b, v, x) ==
    /\ Instruction /\ v \in VarOf[b]
    /\ val' = [val EXCEPT ![b][v] = x]
    /\ UNCHANGED <<locked, blocked, prev, plan, lastcall, errs, errBlocks, between>>

(* The flag of the three lock functions: "on" locks, "off" unlocks, and    *)
(* any other word is answered with a message and unlocks too.              *)
LockFlag == {"on", "off", "other"}
Relock(S, x, flag) == IF flag = "on" THEN S \cup {x} ELSE S \ {x}

LockParam(b, v, flag) ==
    /\ Instruction /\ v \in VarOf[b]
    /\ locked' = [locked EXCEPT ![b] = Relock(@, v, flag)]
    /\ UNCHANGED <<val, blocked, prev, plan, lastcall, errs, errBlocks, between>>

(* LockBlock reaches every block but the main one, LockSubprog every       *)
(* subprogram.                                                             *)
LockUnit(u, flag) ==
    /\ Instruction /\ u # Root
    /\ blocked' = Relock(blocked, u, flag)
    /\ UNCHANGED <<val, locked, prev, plan, lastcall, errs, errBlocks, between>>

(* What get_next_errors() leaves of n messages.                            *)
Drained(n) == IF n <= Batch THEN 0 ELSE n - Batch

(* get_next_errors() through ShowClassErrors; get_child() never finds the  *)
(* main block.                                                             *)
ShowClassErrors(b) ==
    /\ Instruction /\ b # Root
    /\ errs' = [errs EXCEPT ![b] = Drained(@)]
    /\ UNCHANGED <<val, locked, blocked, prev, plan, lastcall, errBlocks, between>>
----------------------------------------------------------------------------
Calls ==
    \/ \E u \in Unit :
          \/ CallChild(u) \/ RisingEdge(u) \/ FallingEdge(u) \/ StayOff(u)
          \/ ConditionFails(u) \/ SkipSubprog(u) \/ CallSubprog(u)
          \/ SubprogThrows(u) \/ SubprogMistypes(u) \/ ProcessDies(u)
    \/ ReturnToParent \/ FinishStep

Control ==
    \/ \E b \in Block, v \in Var, x \in Value : SetValue(b, v, x)
    \/ \E b \in Block, v \in Var, flag \in LockFlag : LockParam(b, v, flag)
    \/ \E u \in Unit, flag \in LockFlag : LockUnit(u, flag)
    \/ \E b \in Block : ShowClassErrors(b)

Next == Calls \/ Control \/ \E t \in 0 .. MaxTime : StartStep(t)

Spec == Init /\ [][Next]_vars

(* One thread runs a step to its end; subprograms return.                  *)
FairSpec == Spec /\ WF_vars(Calls)
----------------------------------------------------------------------------
Active(b) == cur \in Block /\ b \in Anc[cur]

(* Type invariant: every variable keeps the type its member has in         *)
(* kernel/block.hpp; only blocks that are on the call stack have a list.   *)
TypeOK ==
    /\ val \in [Block -> [Var -> Value]]
    /\ locked \in [Block -> SUBSET Var]
    /\ blocked \subseteq Unit \ {Root}
    /\ prev \in [Block -> BOOLEAN]
    /\ plan \in [Block -> Int] /\ lastcall \in [Block -> Nat]
    /\ errs \in [Block -> Nat]
    /\ errBlocks \in [Block -> SUBSET Failure]
    /\ cur \in Block \cup {NoBlock}
    /\ todo \in [Block -> SUBSET Unit]
    /\ now \in Nat /\ steps \in Nat /\ instrs \in Nat
    /\ running \in BOOLEAN
    /\ reported \subseteq Failure /\ failed \subseteq Failure
    /\ ran \subseteq Unit /\ fresh \subseteq Block

(* Power is nested: a block below an unpowered block is not powered.       *)
PowerNesting ==
    \A c \in Child : prev[c] /\ Parent[c] # Root => prev[Parent[c]]

(* A call is in progress only in blocks that are powered, from the main    *)
(* block down.                                                             *)
ActivePowered == \A b \in Child : Active(b) => prev[b]

(* No unit runs below a block that has no power, also when a condition     *)
(* failed or a call was cut short (power_off_children and set_prev_power   *)
(* in call()).                                                             *)
PowerReaches == PowerNesting /\ ActivePowered

(* No error is lost on its way up: between two steps every failure ever    *)
(* caught has been reported by make_step(), and names wait in _err_blocks  *)
(* only of blocks whose call is in progress.                               *)
NoFailureLost ==
    /\ cur = NoBlock => failed \subseteq reported
    /\ \A b \in Block : errBlocks[b] # {} => Active(b)

(* In one step a unit is called at most once: what has run is not waiting  *)
(* in the list of any call (get_nextcall_objs).                            *)
CalledOncePerStep == \A b \in Block : todo[b] \cap ran = {}

(* A block that is switched on rests for the whole step, and so does       *)
(* everything below it (the rising edge in call()).                        *)
RestAfterPowerOn == \A b \in ran \cap Block : Anc[b] \cap fresh = {}

(* The plan never runs ahead: it exceeds the time of the step by less than *)
(* a period, or by the clock offset after touch().  So between two touches *)
(* a block is called no more often than its period allows.                 *)
PlanBound ==
    \A c \in Child : \/ plan[c] <= now + TouchOffset
                     \/ plan[c] < now + Period[c]

BetweenSteps == cur = NoBlock /\ cur' = NoBlock
Enters(b) == cur' = b /\ b \in ran' \ ran

(* A locked variable keeps its value whatever the step does; only the      *)
(* operator's SetValue and the copy of a USE variable at the start of the  *)
(* block's own call write through the lock.                                *)
LockedKept ==
    [][\A b \in Block : \A v \in locked[b] :
          \/ val'[b][v] = val[b][v]
          \/ BetweenSteps
          \/ Enters(b) /\ v \in DOMAIN Use[b]]_vars

(* A block loses its power with its own off-setup in place: what its       *)
(* children return while they are switched off never overrides it.         *)
PowerOffResets ==
    [][\A c \in Child : prev[c] /\ ~ prev'[c] =>
          \A v \in Writable(c, OffSetup[c]) : val'[c][v] = OffSetup[c][v]]_vars

(* Around a block that is not called, its parent looks at its power, takes *)
(* its returns and passes values in every step.  Within a step the         *)
(* variables of a block change only in its own call, which it has with     *)
(* power and when its plan is over, or with an edge: of its own power or,  *)
(* as it falls, of a block above.                                          *)
IdleBlocksInert ==
    [][\A c \in Child :
          \/ val'[c] = val[c]
          \/ BetweenSteps
          \/ Active(c) /\ prev[c]
          \/ Enters(c) /\ prev[c] /\ c \notin blocked /\ now > plan[c]
          \/ prev[c] # prev'[c]
          \/ \E a \in Anc[c] \ {Root} : prev[a] /\ ~ prev'[a]]_vars

(* Every step that starts comes to its end, whatever fails inside it,      *)
(* unless an exception ends the process.                                   *)
StepCompletes == cur \in Block ~> (cur = NoBlock \/ ~ running)

Holder(u) == IF u \in Child THEN Parent[u] ELSE IF u \in Subprog THEN Owner[u] ELSE u

(* kernel/README:19: the units of one block are called in descending       *)
(* priority.                                                               *)
PriorityDescends ==
    [][\A u \in ran' \ ran, w \in ran :
          cur \in Block /\ Holder(u) = cur /\ Holder(w) = cur /\ w # cur
          => Priority[u] <= Priority[w]]_vars
=============================================================================
