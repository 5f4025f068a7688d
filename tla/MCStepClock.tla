---------------------------- MODULE MCStepClock ----------------------------
(* Steps that take nothing, less than an interval or more than two; a      *)
(* block that keeps pace with the main block and one that is slower.       *)
EXTENDS StepClock

MCBlock == {"same", "slow"}
MCPeriod == [b \in MCBlock |-> IF b = "same" THEN 2 ELSE 3]
MCWork == {1, 4}
MCSettings == {-2, 1}
=============================================================================
