-------------------------- MODULE StepClockProofs --------------------------
(* Theorems about StepClock, for every interval, every length of a step    *)
(* and of a sleep, every set of blocks and every setting of the clock.     *)
EXTENDS StepClock, TLAPS

----------------------------------------------------------------------------
(* Every reachable state of the loop is well typed (boost_clock.hpp).      *)
LEMMA PlansAreTimes ==
    ASSUME ClockAssumption, TypeOK,
           NEW lock \in SUBSET Block, NEW on \in SUBSET Block,
           NEW t \in Int, NEW at \in Int
    PROVE  PlanAfter(lock, on, t, at) \in [Block -> Int]
BY DEF ClockAssumption, TypeOK, PlanAfter, Called, Touched

THEOREM TypeCorrect == Spec => []TypeOK
<1>1. Init => TypeOK
  BY ClockAssumption DEF Init, TypeOK
<1>2. TypeOK /\ [Next]_vars => TypeOK'
  <2> SUFFICES ASSUME TypeOK, [Next]_vars PROVE TypeOK'
    OBVIOUS
  <2>1. CASE MakeStep
    <3>1. PICK w \in Work, lock \in SUBSET Block, on \in SUBSET Block :
            \E at \in 0 .. w :
              /\ plan' = PlanAfter(lock, on, Reading, at)
              /\ powered' = PowerAfter(lock, on, Reading)
              /\ blocked' = lock
              /\ held' = ((held \cup lock) \cap powered) \cap powered'
              /\ real' = real + w /\ worked' = worked + w
      BY <2>1 DEF MakeStep
    <3>2. w \in Nat /\ Reading \in Int
      BY ClockAssumption DEF ClockAssumption, TypeOK, Reading
    <3>3. plan' \in [Block -> Int]
      BY <3>1, <3>2, PlansAreTimes, ClockAssumption
    <3>4. powered' \subseteq Block
      BY <3>1 DEF PowerAfter
    <3> QED BY <2>1, <3>1, <3>2, <3>3, <3>4 DEF MakeStep, TypeOK, clock
  <2>2. CASE WaitInterval
    BY <2>2, ClockAssumption
    DEF ClockAssumption, WaitInterval, TypeOK, Reading, Deadline, Spent,
        Sleeps, Pause, tree
  <2>3. CASE Awake
    BY <2>3, ClockAssumption DEF ClockAssumption, Awake, TypeOK, clock, tree
  <2>4. CASE SetClock
    BY <2>4, ClockAssumption DEF ClockAssumption, SetClock, TypeOK, clock, tree
  <2>5. CASE UNCHANGED vars
    BY <2>5 DEF TypeOK, vars, clock, tree
  <2> QED BY <2>1, <2>2, <2>3, <2>4, <2>5 DEF Next, Loop
<1> QED BY <1>1, <1>2, PTL DEF Spec
----------------------------------------------------------------------------
(* The deadline is a whole number of intervals, and the clock has reached  *)
(* it whenever the loop is not asleep.                                     *)
DeadlineInv ==
    /\ iter = IF pc = "wait" THEN (steps - 1) * Interval ELSE steps * Interval
    /\ pc # "sleep" => Reading + setBack >= iter
    /\ pc = "sleep" =>
         /\ wake + shift + setBack >= iter
         /\ wake - real <= Interval + setBack

LEMMA DeadlineInitially == Init => DeadlineInv
BY ClockAssumption DEF ClockAssumption, Init, DeadlineInv, Reading

LEMMA DeadlinePreserved ==
    ASSUME TypeOK, DeadlineInv, [Next]_vars PROVE DeadlineInv'
<1>1. CASE MakeStep
  <2>1. PICK w \in Work : real' = real + w
    BY <1>1 DEF MakeStep
  <2>2. w \in Nat
    BY ClockAssumption DEF ClockAssumption
  <2>3. iter' = (steps' - 1) * Interval
    BY <1>1 DEF MakeStep, clock, DeadlineInv, TypeOK
  <2> QED BY <1>1, <2>1, <2>2, <2>3 DEF MakeStep, clock, DeadlineInv, TypeOK, Reading
<1>2. CASE WaitInterval
  <2>1. iter = (steps - 1) * Interval /\ Interval \in Nat /\ steps \in Nat
    BY <1>2, ClockAssumption DEF ClockAssumption, WaitInterval, DeadlineInv, TypeOK
  <2>2. iter' = iter + Interval /\ steps' = steps
    BY <1>2 DEF WaitInterval, Deadline
  <2>3. iter' = steps' * Interval
    BY <2>1, <2>2
  <2>4. CASE Sleeps(iter' - Reading)
    BY <1>2, <2>1, <2>2, <2>3, <2>4
    DEF WaitInterval, DeadlineInv, TypeOK, Reading, Sleeps, Pause
  <2>5. CASE ~ Sleeps(iter' - Reading)
    BY <1>2, <2>1, <2>2, <2>3, <2>5
    DEF WaitInterval, DeadlineInv, TypeOK, Reading, Sleeps
  <2> QED BY <2>4, <2>5
<1>3. CASE Awake
  BY <1>3, ClockAssumption
  DEF ClockAssumption, Awake, clock, DeadlineInv, TypeOK, Reading
<1>4. CASE SetClock
  BY <1>4, ClockAssumption
  DEF ClockAssumption, SetClock, clock, DeadlineInv, TypeOK, Reading
<1>5. CASE UNCHANGED vars
  BY <1>5 DEF vars, clock, DeadlineInv, Reading
<1> QED BY <1>1, <1>2, <1>3, <1>4, <1>5 DEF Next, Loop

(* No step begins before its deadline and no pause is longer than an       *)
(* interval, but for the amount the clock was set back (wait_interval).    *)
THEOREM DeadlinesAreKept == Spec => []DeadlinesKept
<1>1. DeadlineInv => DeadlinesKept
  BY DEF DeadlineInv, DeadlinesKept
<1>2. TypeOK /\ DeadlineInv /\ [Next]_vars => DeadlineInv'
  BY DeadlinePreserved
<1> QED BY <1>1, <1>2, DeadlineInitially, TypeCorrect, PTL DEF Spec
----------------------------------------------------------------------------
(* While the loop waits, the plan of such a block has reached the deadline *)
(* of the step that was made; otherwise it may be one interval behind the  *)
(* deadline of the step to come.                                           *)
PlanInv ==
    \A b \in powered \ held :
        Period[b] >= Interval =>
            plan[b] + setBack >= IF pc = "wait" THEN iter ELSE iter - Interval

LEMMA PlanPreserved ==
    ASSUME TypeOK, DeadlineInv, PlanInv, [Next]_vars PROVE PlanInv'
<1>1. CASE MakeStep
  <2>1. PICK w \in Work, lock \in SUBSET Block, on \in SUBSET Block :
          \E at \in 0 .. w :
            /\ plan' = PlanAfter(lock, on, Reading, at)
            /\ powered' = PowerAfter(lock, on, Reading)
            /\ held' = ((held \cup lock) \cap powered) \cap powered'
    BY <1>1 DEF MakeStep
  <2>2. PICK at \in 0 .. w : plan' = PlanAfter(lock, on, Reading, at)
    BY <2>1
  <2>3. w \in Nat /\ LoadTime \in Nat /\ Interval \in Nat /\ Reading \in Int
    BY ClockAssumption DEF ClockAssumption, TypeOK, Reading
  <2>4. Reading + setBack >= iter /\ iter' = iter /\ setBack' = setBack /\ pc' = "wait"
    BY <1>1 DEF MakeStep, clock, DeadlineInv
  <2> SUFFICES ASSUME NEW b \in powered' \ held', Period[b] >= Interval
               PROVE  plan'[b] + setBack >= iter
    BY <2>4 DEF PlanInv
  <2>5. b \in Block /\ plan[b] \in Int /\ Period[b] \in Int
    BY <2>1, ClockAssumption DEF PowerAfter, ClockAssumption, TypeOK
  <2>6. b \in powered => b \notin held /\ b \notin lock
    BY <2>1
  <2>7. CASE ~ Due(b, lock, Reading)
    <3>1. b \in powered /\ plan'[b] = plan[b]
      BY <2>1, <2>2, <2>5, <2>7 DEF PowerAfter, PlanAfter
    <3>2. plan[b] >= Reading
      BY <2>3, <2>5, <2>6, <2>7, <3>1 DEF Due
    <3> QED BY <2>3, <2>4, <2>5, <3>1, <3>2 DEF TypeOK
  <2>8. CASE Due(b, lock, Reading) /\ b \in powered
    <3>1. plan'[b] = plan[b] + Period[b]
      BY <2>1, <2>2, <2>5, <2>8 DEF PowerAfter, PlanAfter, Called
    <3>2. plan[b] + setBack >= iter - Interval
      BY <1>1, <2>6, <2>8 DEF PlanInv, MakeStep
    <3> QED BY <2>3, <2>5, <3>1, <3>2 DEF TypeOK
  <2>9. CASE Due(b, lock, Reading) /\ b \notin powered
    <3>1. plan'[b] = Reading + at + LoadTime
      BY <2>1, <2>2, <2>5, <2>9 DEF PowerAfter, PlanAfter, Touched
    <3> QED BY <2>3, <2>4, <3>1 DEF TypeOK
  <2> QED BY <2>7, <2>8, <2>9
<1>2. CASE WaitInterval
  BY <1>2, ClockAssumption
  DEF ClockAssumption, WaitInterval, Deadline, tree, PlanInv, TypeOK
<1>3. CASE Awake
  BY <1>3 DEF Awake, clock, tree, PlanInv
<1>4. CASE SetClock
  <2>1. setBack' >= setBack /\ setBack' \in Nat
    BY <1>4, ClockAssumption DEF ClockAssumption, SetClock, TypeOK
  <2> QED BY <1>4, <2>1, ClockAssumption
          DEF ClockAssumption, SetClock, clock, tree, PlanInv, TypeOK
<1>5. CASE UNCHANGED vars
  BY <1>5 DEF vars, clock, tree, PlanInv
<1> QED BY <1>1, <1>2, <1>3, <1>4, <1>5 DEF Next, Loop

(* A block that has power and was not locked keeps its schedule, whatever  *)
(* the steps before took: no call it is owed is forgotten.                 *)
THEOREM ScheduleIsKept == Spec => []KeepsSchedule
<1>1. Init => PlanInv
  BY DEF Init, PlanInv
<1>2. TypeOK /\ PlanInv => KeepsSchedule
  BY ClockAssumption DEF ClockAssumption, PlanInv, KeepsSchedule, TypeOK
<1>3. TypeOK /\ DeadlineInv /\ PlanInv /\ [Next]_vars => PlanInv'
  BY PlanPreserved
<1>4. TypeOK /\ DeadlineInv /\ [Next]_vars => DeadlineInv'
  BY DeadlinePreserved
<1> QED BY <1>1, <1>2, <1>3, <1>4, DeadlineInitially, TypeCorrect, PTL DEF Spec
----------------------------------------------------------------------------
(* What the process time lacks while the loop waits is the time since the  *)
(* deadline of the step.                                                   *)
Accounted == IF pc = "wait" THEN processTime + (Reading - iter) ELSE processTime

ProcessInv ==
    /\ setBack = 0 => late >= 0 /\ Accounted >= worked + late
    /\ settings = 0 => Accounted = worked + late

LEMMA ProcessPreserved ==
    ASSUME TypeOK, DeadlineInv, ProcessInv, [Next]_vars PROVE ProcessInv'
<1>1. CASE MakeStep
  <2>1. PICK w \in Work : real' = real + w /\ worked' = worked + w
    BY <1>1 DEF MakeStep
  <2>2. w \in Nat
    BY ClockAssumption DEF ClockAssumption
  <2>3. Accounted' = processTime + (real + w + shift - iter)
    BY <1>1, <2>1, <2>2 DEF MakeStep, clock, Accounted, Reading, TypeOK
  <2>4. Accounted = processTime /\ (setBack = 0 => Reading >= iter)
    BY <1>1 DEF MakeStep, Accounted, DeadlineInv, TypeOK, Reading
  <2>5. late' = late + (Reading - iter)
    BY <1>1 DEF MakeStep
  <2>6. Accounted' - (worked' + late') = Accounted - (worked + late)
    BY <2>1, <2>2, <2>3, <2>4, <2>5 DEF TypeOK, Reading
  <2>7. /\ Accounted \in Int /\ Accounted' \in Int /\ worked \in Int
        /\ worked' \in Int /\ late \in Int /\ late' \in Int
    BY <2>1, <2>2, <2>3, <2>4, <2>5 DEF TypeOK, Reading
  <2>8. setBack = 0 => late' >= 0
    BY <2>4, <2>5 DEF ProcessInv, TypeOK, Reading
  <2> QED BY <1>1, <2>6, <2>7, <2>8 DEF MakeStep, ProcessInv
<1>2. CASE WaitInterval
  <2>1. Accounted' = Accounted
    BY <1>2, ClockAssumption
    DEF ClockAssumption, WaitInterval, Deadline, Spent, Accounted, Reading, TypeOK
  <2> QED BY <1>2, <2>1 DEF WaitInterval, ProcessInv
<1>3. CASE Awake
  BY <1>3 DEF Awake, clock, ProcessInv, Accounted
<1>4. CASE SetClock
  <2>1. PICK d \in Settings :
          /\ shift' = shift + d
          /\ setBack' = IF d < 0 THEN setBack - d ELSE setBack
    BY <1>4 DEF SetClock
  <2>2. d \in Int /\ settings' > 0
    BY <1>4, ClockAssumption DEF ClockAssumption, SetClock, TypeOK
  <2>3. setBack' = 0 => setBack = 0 /\ d >= 0
    BY <2>1, <2>2 DEF TypeOK
  <2>4. d >= 0 => Accounted' >= Accounted
    BY <1>4, <2>1, <2>2 DEF SetClock, clock, Accounted, Reading, TypeOK
  <2>5. Accounted \in Int /\ Accounted' \in Int /\ worked \in Int /\ late \in Int
    BY <1>4, <2>1, <2>2 DEF SetClock, clock, Accounted, Reading, TypeOK
  <2>6. setBack' = 0 => late >= 0 /\ Accounted' >= worked + late
    BY <2>2, <2>3, <2>4, <2>5 DEF ProcessInv
  <2> QED BY <1>4, <2>2, <2>6 DEF SetClock, ProcessInv
<1>5. CASE UNCHANGED vars
  BY <1>5 DEF vars, clock, ProcessInv, Accounted, Reading
<1> QED BY <1>1, <1>2, <1>3, <1>4, <1>5 DEF Next, Loop

(* The process time of the clock is the work of the steps and the delays   *)
(* with which they began, or more if the clock was set (get_process_time). *)
THEOREM ProcessTimeIsCovered == Spec => []ProcessTimeCovers
<1>1. Init => ProcessInv
  BY DEF Init, ProcessInv, Accounted
<1>2. ProcessInv => ProcessTimeCovers
  BY DEF ProcessInv, ProcessTimeCovers, Accounted
<1>3. TypeOK /\ DeadlineInv /\ ProcessInv /\ [Next]_vars => ProcessInv'
  BY ProcessPreserved
<1>4. TypeOK /\ DeadlineInv /\ [Next]_vars => DeadlineInv'
  BY DeadlinePreserved
<1> QED BY <1>1, <1>2, <1>3, <1>4, DeadlineInitially, TypeCorrect, PTL DEF Spec
=============================================================================
