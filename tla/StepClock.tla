----------------------------- MODULE StepClock -----------------------------
(***************************************************************************)
(* The clock of the main loop (process/boost_clock.cpp) and what it means  *)
(* for the blocks below the main block: Dispatcher::run() makes a step and *)
(* waits for the next deadline; in the step the scheduler compares the     *)
(* time with the plan of each block (kernel/detail/std.hpp,                *)
(* kernel/block.hpp).                                                      *)
(*                                                                         *)
(* real is the time that passes, in ticks since the clock was constructed. *)
(* The code reads the clock of the system, universal_time(), which runs    *)
(* ahead of it by shift and which the operator may set; the sleep is       *)
(* measured by a clock that nobody sets.                                   *)
(***************************************************************************)
EXTENDS Integers

CONSTANTS
    Interval,     \* _dt, the period of the main block
    Block,        \* blocks directly below the main block
    Period,       \* _period of each of them
    LoadTime,     \* from the making of the blocks to that of the clock
    Work,         \* how long a step may take
    MaxOver,      \* how much longer than asked for a sleep may last
    Settings,     \* what the operator may add to the system's clock
    Quick,        \* bound: the length of steps once the disturbances end
    Disturbed,    \* bound: the steps with disturbances of any kind
    MaxSettings, MaxSteps   \* bounds: settings of the clock, steps

ASSUME ClockAssumption ==
    /\ Interval \in Nat /\ Period \in [Block -> Int]
    /\ LoadTime \in Nat /\ Work \subseteq Nat /\ MaxOver \in Nat
    /\ Settings \subseteq Int
    /\ Quick \in Nat /\ Disturbed \in Nat
    /\ MaxSettings \in Nat /\ MaxSteps \in Nat

VARIABLES
    pc,           \* "step", "wait" (the step is made) or "sleep"
    real, shift,  \* the time, and how far the system's clock is ahead of it
    wake,         \* when the sleep is over, at the earliest
    iter,         \* *_iter: the deadline of the step that is next or made
    processTime,  \* _process_time
    steps,        \* _steps_total
    plan,         \* _lastcall_plan of each block
    powered, blocked,  \* the blocks with power, with _isblocked
    worked,       \* history: the time spent in steps
    late,         \* history: the delays with which the steps began, added up
    held,         \* history: blocked at some time since power came
    setBack, settings  \* history: how far and how often the clock was set

clock == <<wake, iter, processTime>>
tree == <<plan, powered, blocked, held>>
vars == <<pc, real, shift, clock, steps, tree, worked, late, setBack, settings>>

Reading == real + shift

Init ==
    /\ pc = "step" /\ real = 0 /\ shift = 0 /\ wake = 0
    /\ iter = 0 /\ processTime = 0 /\ steps = 0
    /\ plan = [b \in Block |-> 0]
    /\ powered = {} /\ blocked = {} /\ held = {}
    /\ worked = 0 /\ late = 0 /\ setBack = 0 /\ settings = 0
----------------------------------------------------------------------------
(* The scheduler's list; a block that is not in it keeps its power and its *)
(* plan whatever its condition says.                                       *)
Due(b, lock, t) == b \notin lock /\ t > plan[b]

(* The plan after a step at time t: a call advances it by one period, a    *)
(* rising edge (Block::touch) stamps it with the time since the block was  *)
(* made; at is how far the step had got by then.                           *)
Touched_Not(b, t, at) == plan[b]
Touched(b, t, at) == t + at + LoadTime
Called(b, t) == plan[b] + Period[b]
PlanAfter(lock, on, t, at) ==
    [b \in Block |->
        IF b \notin on \/ ~ Due(b, lock, t) THEN plan[b]
        ELSE IF b \in powered THEN Called(b, t) ELSE Touched(b, t, at)]

PowerAfter(lock, on, t) ==
    {b \in Block : IF Due(b, lock, t) THEN b \in on ELSE b \in powered}

(* run_once(): a step that takes w, with the blocks that are locked and    *)
(* those whose condition gives power as the instructions and the tree have *)
(* it.                                                                     *)
MakeStep ==
    /\ pc = "step" /\ steps < MaxSteps
    /\ \E w \in Work, lock \in SUBSET Block, on \in SUBSET Block :
        \E at \in 0 .. w :
          /\ steps >= Disturbed =>
                w <= Quick /\ lock = {} /\ on = powered
          /\ plan' = PlanAfter(lock, on, Reading, at)
          /\ powered' = PowerAfter(lock, on, Reading)
          /\ blocked' = lock
          /\ held' = ((held \cup lock) \cap powered) \cap powered'
          /\ real' = real + w /\ worked' = worked + w
    /\ late' = late + (Reading - iter)
    /\ steps' = steps + 1
    /\ pc' = "wait"
    /\ UNCHANGED <<shift, clock, setBack, settings>>

(* wait_interval(): the deadlines are counted from the start, so that what *)
(* one step takes too long the next ones may catch up.                     *)
Deadline_Stale == iter
Deadline == iter + Interval
Spent_OnlyLate(dt) == IF dt < 0 THEN Interval ELSE Interval - dt
Spent(dt) == Interval - dt
Sleeps_Never(dt) == FALSE
Sleeps(dt) == dt >= 0
Pause(dt) == IF dt > 0 THEN dt ELSE 0
WaitInterval ==
    /\ pc = "wait"
    /\ iter' = Deadline
    /\ LET dt == iter' - Reading IN
        /\ processTime' = processTime + Spent(dt)
        /\ IF Sleeps(dt) THEN pc' = "sleep" /\ wake' = real + Pause(dt)
           ELSE pc' = "step" /\ wake' = wake
    /\ UNCHANGED <<real, shift, steps, tree, worked, late, setBack, settings>>

Awake ==
    /\ pc = "sleep" /\ pc' = "step"
    /\ \E over \in 0 .. MaxOver : real' = wake + over
    /\ UNCHANGED <<shift, clock, steps, tree, worked, late, setBack, settings>>

(* The system's clock is set while the program runs.                       *)
SetClock ==
    /\ settings < MaxSettings /\ steps < Disturbed
    /\ \E d \in Settings :
          /\ shift' = shift + d
          /\ setBack' = IF d < 0 THEN setBack - d ELSE setBack
    /\ settings' = settings + 1
    /\ UNCHANGED <<pc, real, clock, steps, tree, worked, late>>
----------------------------------------------------------------------------
Loop == MakeStep \/ WaitInterval \/ Awake
Next == Loop \/ SetClock
Spec == Init /\ [][Next]_vars

(* The main thread goes on; nobody need set the clock.                     *)
FairSpec == Spec /\ WF_vars(Loop)
----------------------------------------------------------------------------
(* Type invariant.                                                         *)
TypeOK ==
    /\ pc \in {"step", "wait", "sleep"}
    /\ real \in Nat /\ wake \in Nat /\ worked \in Nat
    /\ shift \in Int /\ iter \in Nat /\ processTime \in Int
    /\ steps \in Nat /\ setBack \in Nat /\ settings \in Nat
    /\ plan \in [Block -> Int]
    /\ powered \subseteq Block /\ blocked \subseteq Block /\ held \subseteq Block
    /\ late \in Int

(* No step begins before its deadline on the system's clock, so there are  *)
(* never more steps than intervals, however late some were; and no pause   *)
(* is longer than an interval (wait_interval).  A clock that is set back   *)
(* loosens both by that amount: the program then sleeps until the old time *)
(* has come again.                                                         *)
DeadlinesKept ==
    /\ pc = "step" => Reading + setBack >= steps * Interval
    /\ pc = "sleep" => wake - real <= Interval + setBack

(* A block with power whose period is at least that of the main block does *)
(* not fall behind: its plan is never more than one interval behind the    *)
(* deadline of the step, so every call that late steps made impossible is  *)
(* made up for.  A block that was locked is exempt until its power rises   *)
(* again, since touch() alone lets go of a plan that is behind.            *)
KeepsSchedule ==
    \A b \in powered \ held :
        Period[b] >= Interval => plan[b] + setBack >= iter - Interval

(* The time that the statistics report covers the work.  After late steps  *)
(* it is more, and by exactly this much: the delay with which each step    *)
(* began, so that one late step is counted again in every step that makes  *)
(* up for it (wait_interval).  A clock that is set ahead within a step     *)
(* adds to that.                                                           *)
ProcessTimeCovers ==
    pc # "wait" /\ setBack = 0 =>
        /\ late >= 0 /\ processTime >= worked + late
        /\ settings = 0 => processTime = worked + late

(* When the disturbances are over and steps are short, the loop comes back *)
(* to beginning each step at its deadline, and stays there.                *)
InTime == Reading >= iter /\ Reading <= iter + MaxOver
CatchesUp == <>[](pc = "step" => InTime)
=============================================================================
