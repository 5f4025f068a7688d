------------------------- MODULE InstructionMailbox -------------------------
(***************************************************************************)
(* What the dispatcher promises to whoever sends it instructions: they are *)
(* carried out one at a time, in the order in which they were taken in,    *)
(* each exactly once, until the mailbox closes; what waits then is lost.   *)
(***************************************************************************)
EXTENDS Sequences

CONSTANT Item
VARIABLES waiting, done, open

Init == waiting = <<>> /\ done = <<>> /\ open = TRUE

Put == /\ open
       /\ \E i \in Item : waiting' = Append(waiting, i)
       /\ UNCHANGED <<done, open>>

Carry == /\ open /\ waiting # <<>>
         /\ done' = Append(done, Head(waiting))
         /\ waiting' = Tail(waiting)
         /\ UNCHANGED open

Close == /\ open /\ ~ open'
         /\ waiting' = <<>>
         /\ UNCHANGED done

Spec == Init /\ [][Put \/ Carry \/ Close]_<<waiting, done, open>>
=============================================================================
