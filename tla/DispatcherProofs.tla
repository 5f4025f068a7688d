-------------------------- MODULE DispatcherProofs --------------------------
(***************************************************************************)
(* Proofs about Dispatcher, for any number of clients, words and signals.  *)
(***************************************************************************)
EXTENDS Dispatcher, SequenceTheorems, TLAPS

(* Appending to the second of two sequences appends to both.               *)
LEMMA AppendConcat ==
    ASSUME NEW S, NEW s \in Seq(S), NEW t \in Seq(S), NEW e \in S
    PROVE  s \o Append(t, e) = Append(s \o t, e)
<1>1. <<e>> \in Seq(S) /\ s \o t \in Seq(S)
  BY ConcatProperties
<1>2. Append(t, e) = t \o <<e>> /\ Append(s \o t, e) = (s \o t) \o <<e>>
  BY <1>1, AppendIsConcat
<1> QED BY <1>1, <1>2, ConcatAssociative

(* Moving the head of a sequence to the end of the one before it.          *)
LEMMA HeadMoves ==
    ASSUME NEW S, NEW s \in Seq(S), NEW t \in Seq(S), t # <<>>
    PROVE  Append(s, Head(t)) \o Tail(t) = s \o t
<1>1. Head(t) \in S /\ Tail(t) \in Seq(S)
  BY HeadTailProperties
<1>2. <<Head(t)>> \in Seq(S)
  BY <1>1
<1>3. Append(s, Head(t)) = s \o <<Head(t)>>
  BY <1>1, AppendIsConcat
<1>4. t = <<Head(t)>> \o Tail(t)
  OBVIOUS
<1> QED BY <1>1, <1>2, <1>3, <1>4, ConcatAssociative

(* The head and the tail of a concatenation.                               *)
LEMMA HeadOfConcat ==
    ASSUME NEW S, NEW s \in Seq(S), NEW t \in Seq(S), s # <<>>
    PROVE  /\ s \o t # <<>>
           /\ Head(s \o t) = Head(s)
           /\ Tail(s \o t) = Tail(s) \o t
<1>1. Len(s) \in Nat \ {0} /\ Len(t) \in Nat
  BY EmptySeq, LenProperties
<1>2. /\ s \o t \in Seq(S) /\ Len(s \o t) = Len(s) + Len(t)
      /\ \A i \in 1 .. Len(s) + Len(t) :
            (s \o t)[i] = IF i <= Len(s) THEN s[i] ELSE t[i - Len(s)]
  BY ConcatProperties
<1>3. s \o t # <<>>
  BY <1>1, ConcatEqualIffEmpty
<1>4. /\ Tail(s) \in Seq(S) /\ Len(Tail(s)) = Len(s) - 1
      /\ \A i \in 1 .. Len(Tail(s)) : Tail(s)[i] = s[i + 1]
  BY HeadTailProperties
<1>5. /\ Tail(s \o t) \in Seq(S) /\ Len(Tail(s \o t)) = Len(s) + Len(t) - 1
      /\ \A i \in 1 .. Len(s) + Len(t) - 1 : Tail(s \o t)[i] = (s \o t)[i + 1]
  BY <1>2, <1>3, HeadTailProperties
<1>6. /\ Tail(s) \o t \in Seq(S) /\ Len(Tail(s) \o t) = Len(s) - 1 + Len(t)
      /\ \A i \in 1 .. Len(s) - 1 + Len(t) : (Tail(s) \o t)[i] =
            IF i <= Len(s) - 1 THEN Tail(s)[i] ELSE t[i - (Len(s) - 1)]
  BY <1>4, ConcatProperties
<1>7. \A i \in 1 .. Len(s) + Len(t) - 1 : Tail(s \o t)[i] = (Tail(s) \o t)[i]
  BY <1>1, <1>2, <1>4, <1>5, <1>6
<1>8. Tail(s \o t) = Tail(s) \o t
  BY <1>1, <1>5, <1>6, <1>7, SeqEqual
<1>9. Head(s \o t) = (s \o t)[1] /\ Head(s) = s[1]
  OBVIOUS
<1> QED BY <1>1, <1>2, <1>3, <1>8, <1>9

(* What a read delivers is a chunk and leaves a sequence of words.         *)
LEMMA DeliveredType ==
    ASSUME NEW c \in Client, NEW k \in 1 .. MaxChunk,
           channel \in [Client -> Seq(Word)], k <= Len(channel[c])
    PROVE  /\ Delivered(c, k) \in Chunk
           /\ SubSeq(channel[c], k + 1, Len(channel[c])) \in Seq(Word)
<1> DEFINE s == channel[c]
<1>1. s \in Seq(Word)
  OBVIOUS
<1>2. Len(s) \in Nat /\ \A n \in 1 .. Len(s) : s[n] \in Word
  BY <1>1, ElementOfSeq, LenProperties
<1> HIDE DEF s
<1>3. k \in Nat /\ k >= 1 /\ k <= Len(s)
  BY DispatcherAssumption DEF s
<1>4. SubSeq(s, 1, k) \in Seq(Word) /\ Len(SubSeq(s, 1, k)) = k
  <2>1. \A n \in 1 .. k : s[n] \in Word
    BY <1>2, <1>3
  <2> QED BY <2>1, <1>3, SubSeqProperties
<1>5. SubSeq(s, 1, k) \in [1 .. k -> Word]
  BY <1>4, LenProperties
<1>6. SubSeq(s, k + 1, Len(s)) \in Seq(Word)
  <2>1. \A n \in k + 1 .. Len(s) : s[n] \in Word
    BY <1>2, <1>3
  <2> QED BY <2>1, <1>2, <1>3, SubSeqProperties
<1> QED BY <1>5, <1>6 DEF Delivered, Chunk, s
----------------------------------------------------------------------------
(* Every variable keeps its type, whatever the threads do.                 *)
THEOREM TypeCorrect == Spec => []TypeOK
<1> USE DispatcherAssumption
<1>1. Init => TypeOK
  <2> SUFFICES ASSUME Init PROVE TypeOK
    OBVIOUS
  <2>1. /\ batch \in Seq(Chunk) /\ queue \in Seq(Chunk)
        /\ accepted \in Seq(Chunk) /\ executed \in Seq(Chunk)
    BY EmptySeq DEF Init
  <2>2. channel \in [Client -> Seq(Word)] /\ answering \in [Client -> BOOLEAN]
    BY EmptySeq DEF Init
  <2>3. mpc \in MainPC /\ sent \in 0 .. MaxSent
    BY DEF Init, MainPC, Constructing, InLoop
  <2>3a. running \in BOOLEAN /\ thrown \in BOOLEAN /\ early \in BOOLEAN
    BY Zenon DEF Init
  <2>4. /\ spc \in {"wait", "count", "compare", "store"} /\ sigCount \in Int
        /\ raised \in Nat /\ pending \in Nat /\ counted \in Nat
        /\ callsAfterStop \in Nat
    BY DEF Init
  <2> QED BY <2>1, <2>2, <2>3, <2>3a, <2>4 DEF TypeOK
<1>2. TypeOK /\ [Next]_vars => TypeOK'
  <2> SUFFICES ASSUME TypeOK, [Next]_vars PROVE TypeOK'
    OBVIOUS
  <2> USE DEF TypeOK, MainPC, Constructing, InLoop, ioVars, sigVars, mainVars, marks
  <2>1. CASE InitRunning
    BY <2>1 DEF InitRunning
  <2>2. CASE InitSigCount
    BY <2>2 DEF InitSigCount
  <2>3. CASE Run
    BY <2>3 DEF Run
  <2>4. CASE TestRunning
    BY <2>4 DEF TestRunning
  <2>5. CASE GetInstructions
    BY <2>5 DEF GetInstructions, Remaining
  <2>6. CASE Instr
    <3>1. Head(batch) \in Chunk /\ batch' \in Seq(Chunk)
      BY <2>6, HeadTailProperties DEF Instr
    <3>2. executed' \in Seq(Chunk)
      BY <3>1, <2>6, AppendProperties DEF Instr
    <3>3. running' \in BOOLEAN
      BY <2>6 DEF Instr
    <3> QED BY <3>1, <3>2, <3>3, <2>6 DEF Instr
  <2>7. CASE InstrsDone
    BY <2>7 DEF InstrsDone
  <2>8. CASE CallMainBlock
    BY <2>8 DEF CallMainBlock, CountsCall
  <2>8a. CASE MainBlockThrows
    BY <2>8a DEF MainBlockThrows, CountsCall
  <2>9. CASE WaitInterval
    BY <2>9 DEF WaitInterval, AfterWait
  <2>10. CASE Destroy
    BY <2>10 DEF Destroy
  <2>11. ASSUME NEW c \in Client, Read(c) PROVE TypeOK'
    <3>1. PICK k \in 1 .. MaxChunk :
             /\ k <= Len(channel[c])
             /\ queue' = Queued(Delivered(c, k))
             /\ accepted' = Append(accepted, Delivered(c, k))
             /\ channel' = [channel EXCEPT ![c] =
                              SubSeq(channel[c], k + 1, Len(channel[c]))]
      BY <2>11 DEF Read
    <3>2. /\ Delivered(c, k) \in Chunk
          /\ SubSeq(channel[c], k + 1, Len(channel[c])) \in Seq(Word)
      BY <3>1, DeliveredType
    <3>3. queue' \in Seq(Chunk) /\ accepted' \in Seq(Chunk)
      BY <3>1, <3>2, AppendProperties DEF Queued
    <3>4. channel' \in [Client -> Seq(Word)]
      BY <3>1, <3>2
    <3>5. answering' \in [Client -> BOOLEAN]
      BY <2>11 DEF Read
    <3> QED BY <3>3, <3>4, <3>5, <2>11 DEF Read
  <2>12. ASSUME NEW c \in Client, Answer(c) PROVE TypeOK'
    BY <2>12 DEF Answer
  <2>13. CASE TakeSignal
    BY <2>13 DEF TakeSignal
  <2>14. CASE CountSignal
    BY <2>14 DEF CountSignal
  <2>15. CASE CompareCount
    BY <2>15 DEF CompareCount
  <2>16. CASE StopRunning
    BY <2>16 DEF StopRunning
  <2>17. CASE RaiseSignal
    BY <2>17 DEF RaiseSignal
  <2>18. ASSUME NEW c \in Client, NEW w \in Word, ClientSends(c, w) PROVE TypeOK'
    <3>1. Append(channel[c], w) \in Seq(Word)
      BY AppendProperties
    <3>2. channel' \in [Client -> Seq(Word)] /\ sent' \in 0 .. MaxSent
      BY <3>1, <2>18 DEF ClientSends
    <3> QED BY <3>2, <2>18 DEF ClientSends
  <2>19. CASE UNCHANGED vars
    BY <2>19 DEF vars
  <2> QED
    BY <2>1, <2>2, <2>3, <2>4, <2>5, <2>6, <2>7, <2>8, <2>8a, <2>9, <2>10,
       <2>11, <2>12, <2>13, <2>14, <2>15, <2>16, <2>17, <2>18, <2>19
       DEF Next, MainThread, IoThread, SignalThread
<1> QED BY <1>1, <1>2, PTL DEF Spec
----------------------------------------------------------------------------
(* What is accepted is carried out, about to be, or queued, in the order   *)
(* of acceptance: get_instructions() takes the queue only when the loop    *)
(* over the last batch is over.                                            *)
QueueInv ==
    /\ NothingLostOrDoubled
    /\ mpc # "instr" => batch = <<>>

(* The steps that touch neither the queue nor the instructions.            *)
LEMMA QueueKept ==
    ASSUME QueueInv, UNCHANGED <<queue, batch, executed, accepted>>,
           mpc' = mpc \/ mpc # "instr" \/ batch = <<>>
    PROVE  QueueInv'
BY DEF QueueInv, NothingLostOrDoubled

THEOREM QueueIsExact == Spec => []QueueInv
<1>1. Init => QueueInv
  BY DEF Init, QueueInv, NothingLostOrDoubled
<1>2. TypeOK /\ QueueInv /\ [Next]_vars => QueueInv'
  <2> SUFFICES ASSUME TypeOK, QueueInv, [Next]_vars PROVE QueueInv'
    OBVIOUS
  <2> USE DEF ioVars, sigVars, mainVars, marks
  <2>a. queue \in Seq(Chunk) /\ batch \in Seq(Chunk) /\ executed \in Seq(Chunk)
    BY DEF TypeOK
  <2>1. CASE GetInstructions
    <3>1. batch = <<>> /\ accepted = (executed \o <<>>) \o queue
      BY <2>1 DEF GetInstructions, QueueInv, NothingLostOrDoubled
    <3>2. accepted = executed \o queue
      BY <2>a, <3>1, ConcatEmptySeq
    <3>3. executed \o queue \in Seq(Chunk)
      BY <2>a, ConcatProperties
    <3>4. (executed \o queue) \o <<>> = executed \o queue
      BY <3>3, ConcatEmptySeq
    <3> QED BY <2>1, <3>2, <3>4
            DEF GetInstructions, Remaining, QueueInv, NothingLostOrDoubled
  <2>2. CASE Instr
    <3>1. executed' \o batch' = executed \o batch
      BY <2>a, <2>2, HeadMoves DEF Instr
    <3> QED BY <2>2, <3>1 DEF Instr, QueueInv, NothingLostOrDoubled
  <2>3. ASSUME NEW c \in Client, Read(c) PROVE QueueInv'
    <3>1. PICK k \in 1 .. MaxChunk :
             /\ k <= Len(channel[c])
             /\ queue' = Queued(Delivered(c, k))
             /\ accepted' = Append(accepted, Delivered(c, k))
      BY <2>3 DEF Read
    <3>2. Delivered(c, k) \in Chunk
      BY <3>1, DeliveredType DEF TypeOK
    <3>3. executed \o batch \in Seq(Chunk)
      BY <2>a, ConcatProperties
    <3>4. (executed \o batch) \o queue' = Append((executed \o batch) \o queue,
                                                 Delivered(c, k))
      BY <2>a, <3>1, <3>2, <3>3, AppendConcat DEF Queued
    <3> QED BY <3>1, <3>4, <2>3 DEF Read, QueueInv, NothingLostOrDoubled
  <2>4. CASE InitRunning \/ InitSigCount \/ Run \/ TestRunning \/ InstrsDone
             \/ CallMainBlock \/ MainBlockThrows \/ WaitInterval \/ Destroy
    BY <2>4, QueueKept DEF InitRunning, InitSigCount, Run, TestRunning,
       InstrsDone, CallMainBlock, MainBlockThrows, WaitInterval, AfterWait, Destroy
  <2>5. CASE TakeSignal \/ CountSignal \/ CompareCount \/ StopRunning \/ RaiseSignal
    BY <2>5, QueueKept DEF TakeSignal, CountSignal, CompareCount, StopRunning,
       RaiseSignal
  <2>6. ASSUME NEW c \in Client, Answer(c) PROVE QueueInv'
    BY <2>6, QueueKept DEF Answer
  <2>7. ASSUME NEW c \in Client, NEW w \in Word, ClientSends(c, w) PROVE QueueInv'
    BY <2>7, QueueKept DEF ClientSends
  <2>8. CASE UNCHANGED vars
    BY <2>8, QueueKept DEF vars
  <2> QED
    BY <2>1, <2>2, <2>3, <2>4, <2>5, <2>6, <2>7, <2>8
       DEF Next, MainThread, IoThread, SignalThread
<1> QED BY <1>1, <1>2, TypeCorrect, PTL DEF Spec

(* No instruction that was answered "200 OK" is lost, doubled or overtaken *)
(* while the dispatcher lives.                                             *)
THEOREM InstructionsAreExact == Spec => []NothingLostOrDoubled
<1>1. QueueInv => NothingLostOrDoubled
  BY DEF QueueInv
<1> QED BY <1>1, QueueIsExact, PTL
----------------------------------------------------------------------------
(* A call of the main block after _running has fallen is the last one: the *)
(* loop tests _running before the next, and only run() raises it.          *)
StopInv ==
    /\ callsAfterStop \in {0, 1}
    /\ mpc \in Constructing \cup {"ready"} => callsAfterStop = 0
    /\ callsAfterStop = 1 => ~ running /\ mpc \in {"wait", "test", "left", "gone"}

(* The main block is called at most once more after a stop.                *)
THEOREM StopsWithinOneStep == Spec => []StopWithinOneStep
<1>1. Init => StopInv
  BY DEF Init, StopInv, Constructing
<1>2. StopInv /\ [Next]_vars => StopInv'
  <2> SUFFICES ASSUME StopInv, [Next]_vars PROVE StopInv'
    OBVIOUS
  <2> USE DEF StopInv, Constructing, ioVars, sigVars, mainVars, marks
  <2>1. CASE MainThread
    <3>1. CASE InitRunning \/ InitSigCount \/ Run
      BY <3>1 DEF InitRunning, InitSigCount, Run
    <3>2. CASE TestRunning \/ GetInstructions \/ Instr \/ InstrsDone
      BY <3>2 DEF TestRunning, GetInstructions, Instr, InstrsDone
    <3>3. CASE CallMainBlock \/ MainBlockThrows
      BY <3>3 DEF CallMainBlock, MainBlockThrows, CountsCall
    <3>4. CASE WaitInterval \/ Destroy
      BY <3>4 DEF WaitInterval, AfterWait, Destroy
    <3> QED BY <2>1, <3>1, <3>2, <3>3, <3>4 DEF MainThread
  <2>2. CASE IoThread
    BY <2>2 DEF IoThread, Read, Answer
  <2>3. CASE SignalThread \/ RaiseSignal
    BY <2>3 DEF SignalThread, TakeSignal, CountSignal, CompareCount,
       StopRunning, RaiseSignal
  <2>4. ASSUME NEW c \in Client, NEW w \in Word, ClientSends(c, w) PROVE StopInv'
    BY <2>4 DEF ClientSends
  <2>5. CASE UNCHANGED vars
    BY <2>5 DEF vars
  <2> QED BY <2>1, <2>2, <2>3, <2>4, <2>5 DEF Next
<1>3. StopInv => StopWithinOneStep
  BY DEF StopInv, StopWithinOneStep
<1> QED BY <1>1, <1>2, <1>3, PTL DEF Spec
----------------------------------------------------------------------------
(* Why the loop may be left.                                               *)
Halted == \E n \in 1 .. Len(executed) : executed[n] = <<Halt>>
Reason == Halted \/ (counted >= SigCount /\ counted >= 1)

(* While no signal came before run() the count starts complete, and        *)
(* whatever is about to clear _running, or has done so, has a reason.      *)
Punctual ==
    /\ mpc \in Constructing \cup {"ready"} =>
           spc = "wait" /\ pending = 0 /\ counted = 0
    /\ mpc \in InLoop \cup {"ready"} => sigCount = SigCount - counted
    /\ mpc \in InLoop /\ spc = "compare" => counted >= 1
    /\ mpc \in InLoop /\ spc = "store" => Reason
    /\ mpc \in InLoop /\ ~ running => Reason
    /\ mpc \in {"left", "gone"} => Reason \/ thrown
ReasonInv == early \/ Punctual

(* A reason stays one: both histories only grow.                           *)
LEMMA ReasonStays ==
    ASSUME TypeOK, TypeOK', [Next]_vars, Reason
    PROVE  Reason'
<1> USE DispatcherAssumption DEF ioVars, sigVars, mainVars, marks
<1>1. CASE Instr
  <2>1. Head(batch) \in Chunk /\ executed \in Seq(Chunk)
    BY <1>1, HeadTailProperties DEF Instr, TypeOK
  <2>2. /\ Len(executed') = Len(executed) + 1
        /\ \A n \in 1 .. Len(executed) : executed'[n] = executed[n]
    BY <2>1, <1>1, AppendProperties DEF Instr
  <2>3. Len(executed) \in Nat
    BY <2>1, LenProperties
  <2>4. Halted => Halted'
    BY <2>2, <2>3 DEF Halted
  <2> QED BY <2>4, <1>1 DEF Reason, Instr
<1>2. CASE CountSignal
  BY <1>2 DEF CountSignal, Reason, Halted, TypeOK
<1>3. ASSUME UNCHANGED <<executed, counted>> PROVE Reason'
  BY <1>3 DEF Reason, Halted
<1>4. CASE MainThread
  BY <1>1, <1>3, <1>4 DEF MainThread, InitRunning, InitSigCount, Run, TestRunning,
     GetInstructions, InstrsDone, CallMainBlock, MainBlockThrows, WaitInterval, Destroy
<1>5. CASE IoThread
  BY <1>3, <1>5 DEF IoThread, Read, Answer
<1>6. CASE SignalThread \/ RaiseSignal
  BY <1>2, <1>3, <1>6 DEF SignalThread, TakeSignal, CompareCount, StopRunning,
     RaiseSignal
<1>7. ASSUME NEW c \in Client, NEW w \in Word, ClientSends(c, w) PROVE Reason'
  BY <1>3, <1>7 DEF ClientSends
<1>8. CASE UNCHANGED vars
  BY <1>3, <1>8 DEF vars
<1> QED BY <1>4, <1>5, <1>6, <1>7, <1>8 DEF Next

LEMMA ReasonStep ==
    ASSUME ~ early, TypeOK, TypeOK', Punctual, [Next]_vars, ~ early'
    PROVE  Punctual'
<1> USE DispatcherAssumption
    DEF Constructing, InLoop, MainPC, ioVars, sigVars, mainVars, marks
<1>0. Reason => Reason'
  BY ReasonStays
<1>1. CASE InitRunning \/ InitSigCount \/ Run
  BY <1>1 DEF InitRunning, InitSigCount, Run, Punctual
<1>2. CASE TestRunning \/ GetInstructions \/ InstrsDone
  BY <1>0, <1>2 DEF TestRunning, GetInstructions, InstrsDone, Punctual
<1>3. CASE Instr
  <2>1. Head(batch) \in Chunk /\ executed \in Seq(Chunk)
    BY <1>3, HeadTailProperties DEF Instr, TypeOK
  <2>2. /\ Len(executed') = Len(executed) + 1
        /\ executed'[Len(executed) + 1] = Head(batch)
    BY <2>1, <1>3, AppendProperties DEF Instr
  <2>3. Len(executed) \in Nat
    BY <2>1, LenProperties
  <2>4. IsHalt(Head(batch)) => Halted'
    BY <2>2, <2>3 DEF IsHalt, Halted
  <2>5. ~ running' => Reason'
    BY <2>4, <1>0, <1>3 DEF Instr, Punctual, Reason
  <2> QED BY <2>5, <1>0, <1>3 DEF Instr, Punctual
<1>4. CASE CallMainBlock \/ MainBlockThrows \/ WaitInterval \/ Destroy
  BY <1>0, <1>4 DEF CallMainBlock, MainBlockThrows, WaitInterval, AfterWait,
     Destroy, Punctual
<1>5. CASE IoThread
  BY <1>0, <1>5 DEF IoThread, Read, Answer, Punctual
<1>6. CASE RaiseSignal \/ TakeSignal
  <2>1. CASE RaiseSignal
    <3>1. mpc \notin Constructing \cup {"ready"}
      BY <2>1, Zenon DEF RaiseSignal
    <3> QED BY <3>1, <2>1, <1>0 DEF RaiseSignal, Punctual
  <2>2. CASE TakeSignal
    BY <2>2, <1>0 DEF TakeSignal, Punctual, TypeOK
  <2> QED BY <1>6, <2>1, <2>2
<1>7. CASE CountSignal
  BY <1>0, <1>7 DEF CountSignal, Punctual, TypeOK
<1>8. CASE CompareCount
  <2>1. mpc \in InLoop /\ spc' = "store" => Reason
    BY <1>8 DEF CompareCount, MoreNeeded, Punctual, Reason, TypeOK
  <2> QED BY <2>1, <1>0, <1>8 DEF CompareCount, Punctual, TypeOK
<1>9. CASE StopRunning
  BY <1>0, <1>9 DEF StopRunning, Punctual, TypeOK
<1>10. ASSUME NEW c \in Client, NEW w \in Word, ClientSends(c, w) PROVE Punctual'
  BY <1>0, <1>10 DEF ClientSends, Punctual
<1>11. CASE UNCHANGED vars
  BY <1>0, <1>11 DEF vars, Punctual
<1> QED BY <1>1, <1>2, <1>3, <1>4, <1>5, <1>6, <1>7, <1>8, <1>9, <1>10, <1>11
        DEF Next, MainThread, SignalThread

(* An early signal stays on record.                                        *)
LEMMA EarlyStays ==
    ASSUME early, [Next]_vars
    PROVE  early'
<1> USE DEF marks
<1>1. CASE MainThread
  BY <1>1, Zenon DEF MainThread, InitRunning, InitSigCount, Run, TestRunning,
     GetInstructions, Instr, InstrsDone, CallMainBlock, MainBlockThrows,
     WaitInterval, Destroy
<1>2. CASE IoThread
  BY <1>2, Zenon DEF IoThread, Read, Answer
<1>3. CASE SignalThread
  BY <1>3, Zenon DEF SignalThread, TakeSignal, CountSignal, CompareCount,
     StopRunning
<1>4. CASE RaiseSignal
  BY <1>4, Zenon DEF RaiseSignal
<1>5. ASSUME NEW c \in Client, NEW w \in Word, ClientSends(c, w) PROVE early'
  BY <1>5, Zenon DEF ClientSends
<1>6. CASE UNCHANGED vars
  BY <1>6, Zenon DEF vars
<1> QED BY <1>1, <1>2, <1>3, <1>4, <1>5, <1>6 DEF Next

(* The program ends only on "halt", after the number of signals that the   *)
(* configuration asks for, or by an exception that leaves the call of the  *)
(* main block, as long as no signal came before run().                     *)
THEOREM NeverStopsEarly == Spec => []NoEarlyStop
<1>1. Init => ReasonInv
  BY DEF Init, ReasonInv, Punctual, Constructing, InLoop
<1>2. TypeOK /\ TypeOK' /\ ReasonInv /\ [Next]_vars => ReasonInv'
  BY ReasonStep, EarlyStays DEF ReasonInv
<1>3. ReasonInv => NoEarlyStop
  BY DEF ReasonInv, Punctual, NoEarlyStop, Reason, Halted
<1> QED BY <1>1, <1>2, <1>3, TypeCorrect, PTL DEF Spec
----------------------------------------------------------------------------
(* The instructions of this step and the queue, seen as one mailbox.       *)
Waiting == IF mpc = "gone" THEN <<>> ELSE batch \o queue
Open == mpc # "gone"

LEMMA MailboxStutters ==
    ASSUME UNCHANGED <<batch, queue, executed>>, (mpc = "gone") <=> (mpc' = "gone")
    PROVE  UNCHANGED <<Waiting, executed, Open>>
BY DEF Waiting, Open

LEMMA MailboxStep ==
    ASSUME TypeOK, QueueInv, [Next]_vars
    PROVE  [Mailbox!Put \/ Mailbox!Carry \/ Mailbox!Close]_<<Waiting, executed, Open>>
<1> USE DEF ioVars, sigVars, mainVars, marks
<1> DEFINE Goal == [Mailbox!Put \/ Mailbox!Carry \/ Mailbox!Close]_<<Waiting, executed, Open>>
<1>a. queue \in Seq(Chunk) /\ batch \in Seq(Chunk) /\ executed \in Seq(Chunk)
  BY DEF TypeOK
<1>1. CASE GetInstructions
  <2>1. batch = <<>>
    BY <1>1 DEF GetInstructions, QueueInv
  <2>2. batch \o queue = queue /\ queue \o <<>> = queue
    BY <2>1, <1>a, ConcatEmptySeq
  <2> QED BY <2>2, <1>1 DEF GetInstructions, Remaining, Waiting, Open
<1>2. CASE Instr
  <2>1. mpc # "gone" /\ mpc' # "gone" /\ batch # <<>>
    BY <1>2 DEF Instr
  <2>2. /\ batch \o queue # <<>>
        /\ Head(batch \o queue) = Head(batch)
        /\ Tail(batch \o queue) = Tail(batch) \o queue
    BY <2>1, <1>a, HeadOfConcat
  <2>3. Waiting = batch \o queue /\ Waiting' = Tail(batch) \o queue
    BY <2>1, <1>2 DEF Instr, Waiting
  <2>4. executed' = Append(executed, Head(batch)) /\ Open /\ Open'
    BY <2>1, <1>2 DEF Instr, Open
  <2> QED BY <2>2, <2>3, <2>4 DEF Mailbox!Carry, Waiting, Open
<1>3. ASSUME NEW c \in Client, Read(c) PROVE Goal
  <2>1. PICK k \in 1 .. MaxChunk :
           k <= Len(channel[c]) /\ queue' = Queued(Delivered(c, k))
    BY <1>3 DEF Read
  <2>2. Delivered(c, k) \in Chunk
    BY <2>1, DeliveredType DEF TypeOK
  <2>3. mpc # "gone" /\ mpc' = mpc /\ executed' = executed /\ batch' = batch
    BY <1>3 DEF Read
  <2>4. batch \o queue' = Append(batch \o queue, Delivered(c, k))
    BY <1>a, <2>1, <2>2, AppendConcat DEF Queued
  <2>5. Waiting' = Append(Waiting, Delivered(c, k)) /\ Open /\ Open'
    BY <2>3, <2>4 DEF Waiting, Open
  <2> QED BY <2>2, <2>3, <2>5 DEF Mailbox!Put, Waiting, Open
<1>4. CASE Destroy
  BY <1>4 DEF Destroy, Mailbox!Close, Waiting, Open
<1>4a. CASE MainBlockThrows
  <2>1. CASE mpc' = "gone"
    BY <1>4a, <2>1 DEF MainBlockThrows, Mailbox!Close, Waiting, Open
  <2>2. CASE mpc' = "left"
    BY <1>4a, <2>2, MailboxStutters DEF MainBlockThrows
  <2> QED BY <1>4a, <2>1, <2>2 DEF MainBlockThrows
<1>5. CASE InitRunning \/ InitSigCount \/ Run \/ TestRunning \/ InstrsDone
           \/ CallMainBlock \/ WaitInterval
  BY <1>5, MailboxStutters DEF InitRunning, InitSigCount, Run, TestRunning,
     InstrsDone, CallMainBlock, WaitInterval, AfterWait
<1>6. CASE SignalThread \/ RaiseSignal
  BY <1>6, MailboxStutters DEF SignalThread, TakeSignal, CountSignal,
     CompareCount, StopRunning, RaiseSignal
<1>7. ASSUME NEW c \in Client, Answer(c) PROVE Goal
  BY <1>7, MailboxStutters DEF Answer
<1>8. ASSUME NEW c \in Client, NEW w \in Word, ClientSends(c, w) PROVE Goal
  BY <1>8, MailboxStutters DEF ClientSends
<1>9. CASE UNCHANGED vars
  BY <1>9, MailboxStutters DEF vars
<1> QED BY <1>1, <1>2, <1>3, <1>4, <1>4a, <1>5, <1>6, <1>7, <1>8, <1>9
        DEF Next, MainThread, IoThread

(* The dispatcher keeps the promise of a mailbox: instructions are carried *)
(* out one at a time, in order, each once, until it closes.                *)
THEOREM DispatcherIsMailbox == Spec => ImplementsMailbox
<1>1. Init => Mailbox!Init
  <2> SUFFICES ASSUME Init PROVE Mailbox!Init
    OBVIOUS
  <2>1. mpc # "gone" /\ batch \o queue = <<>> /\ executed = <<>>
    BY EmptySeq, ConcatEmptySeq DEF Init
  <2> QED BY <2>1 DEF Mailbox!Init
<1>2. TypeOK /\ QueueInv /\ [Next]_vars
        => [Mailbox!Put \/ Mailbox!Carry \/ Mailbox!Close]_<<Waiting, executed, Open>>
  BY MailboxStep
<1>3. Spec => [][Mailbox!Put \/ Mailbox!Carry \/ Mailbox!Close]_<<Waiting, executed, Open>>
  BY <1>2, TypeCorrect, QueueIsExact, PTL DEF Spec
<1>4. Spec => Mailbox!Init
  BY <1>1, PTL DEF Spec
<1> QED BY <1>3, <1>4 DEF ImplementsMailbox, Mailbox!Spec, Waiting, Open
=============================================================================
