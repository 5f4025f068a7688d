----------------------------- MODULE Dispatcher -----------------------------
(***************************************************************************)
(* The dispatcher (process/dispatcher.hpp) with its three threads:         *)
(*   main    constructs the dispatcher, runs the loop of steps and         *)
(*           destroys it (main.cpp);                                       *)
(*   io      serves the control port: reads what a client sends, queues it *)
(*           and answers (boost_tcp_instruction_reader);                   *)
(*   signal  counts SIGINT and SIGTERM (boost_signal_handler).             *)
(* They share the queue of instructions, under a mutex, and the atomics    *)
(* _running and _sig_count.  A step of the main block is one action here;  *)
(* BlockTree opens it.                                                     *)
(***************************************************************************)
EXTENDS Integers, Sequences

CONSTANTS
    Client,        \* connections to the control port
    Word, Halt,    \* what a client may send; the word that stops the program
    SigCount,      \* the signals asked for by the configuration
    Garbage,       \* what _sig_count may hold before it is initialised
    Pipelined,     \* TRUE: a client need not wait for the answer
    MaxChunk,      \* the words that fit in the buffer of one read
    MaxSent, MaxSignals   \* bounds: words sent, signals raised

ASSUME DispatcherAssumption ==
    /\ Halt \in Word /\ SigCount \in Nat /\ Garbage \subseteq Int
    /\ Pipelined \in BOOLEAN
    /\ MaxChunk \in Nat \ {0} /\ MaxSent \in Nat /\ MaxSignals \in Nat

(* What one async_read_some() delivers is taken for one instruction; it    *)
(* may hold several words that were sent one after the other.              *)
Chunk == UNION {[1 .. n -> Word] : n \in 1 .. MaxChunk}

VARIABLES
    mpc,        \* where the main thread is
    running,    \* _running
    batch,      \* the instructions of this step not yet carried out
    queue,      \* BoostTcpInstructionReader::_instr
    channel,    \* per client: sent and not yet read
    answering,  \* per client: "200 OK" is being written
    sent,       \* number of words sent
    spc,        \* where the signal thread is
    sigCount,   \* _sig_count
    raised,     \* signals raised
    pending,    \* signals raised and not yet taken by the signal thread
    accepted,   \* history: what was queued
    executed,   \* history: what was carried out
    counted,    \* history: decrements of _sig_count in run()
    callsAfterStop, \* history: calls of the main block since _running fell
    thrown,     \* history: an exception has left the call of the main block
    early       \* history: a signal was raised before run()

mainVars == <<mpc, running, batch>>
ioVars == <<channel, answering, sent>>
sigVars == <<spc, sigCount, raised, pending>>
marks == <<thrown, early>>
vars == <<mainVars, ioVars, sigVars, queue, accepted, executed, counted,
          callsAfterStop, marks>>

Constructing == {"handler_on", "running_set"}
InLoop == {"test", "take", "instr", "call", "wait"}
MainPC == Constructing \cup InLoop \cup {"ready", "left", "gone"}

(* The members are initialised in the order of their declaration: the      *)
(* signal thread runs from _sh on, before _running and _sig_count have     *)
(* their values.                                                           *)
Init ==
    /\ mpc = "handler_on" /\ running = FALSE /\ batch = <<>>
    /\ queue = <<>> /\ channel = [c \in Client |-> <<>>]
    /\ answering = [c \in Client |-> FALSE] /\ sent = 0
    /\ spc = "wait" /\ sigCount \in Garbage /\ raised = 0 /\ pending = 0
    /\ accepted = <<>> /\ executed = <<>> /\ counted = 0 /\ callsAfterStop = 0
    /\ thrown = FALSE /\ early = FALSE
----------------------------------------------------------------------------
(* The main thread.                                                        *)
InitRunning ==
    /\ mpc = "handler_on" /\ mpc' = "running_set"
    /\ running' = FALSE
    /\ UNCHANGED <<batch, queue, ioVars, sigVars, accepted, executed, counted,
                   callsAfterStop, marks>>

InitSigCount ==
    /\ mpc = "running_set" /\ mpc' = "ready"
    /\ sigCount' = SigCount
    /\ UNCHANGED <<running, batch, queue, ioVars, spc, raised, pending,
                   accepted, executed, counted, callsAfterStop, marks>>

(* run() sets _running whatever a signal has done to it before.            *)
Run ==
    /\ mpc = "ready" /\ mpc' = "test"
    /\ running' = TRUE
    /\ UNCHANGED <<batch, queue, ioVars, sigVars, accepted, executed, counted,
                   callsAfterStop, marks>>

TestRunning ==
    /\ mpc = "test" /\ mpc' = IF running THEN "take" ELSE "left"
    /\ UNCHANGED <<running, batch, queue, ioVars, sigVars, accepted, executed,
                   counted, callsAfterStop, marks>>

(* get_instructions(): the whole queue is spliced off under the mutex.     *)
Remaining_Kept == queue
Remaining == <<>>
GetInstructions ==
    /\ mpc = "take" /\ mpc' = "instr"
    /\ batch' = queue /\ queue' = Remaining
    /\ UNCHANGED <<running, ioVars, sigVars, accepted, executed, counted,
                   callsAfterStop, marks>>

(* One round of the loop over the instructions.  Only a chunk that is just *)
(* the word "halt" (or "krab") stops the program; the rest of the list is  *)
(* carried out all the same.                                               *)
IsHalt_Never(i) == FALSE
IsHalt(i) == i = <<Halt>>
Instr ==
    /\ mpc = "instr" /\ batch # <<>>
    /\ executed' = Append(executed, Head(batch))
    /\ batch' = Tail(batch)
    /\ running' = (running /\ ~ IsHalt(Head(batch)))
    /\ UNCHANGED <<mpc, queue, ioVars, sigVars, accepted, counted,
                   callsAfterStop, marks>>

InstrsDone ==
    /\ mpc = "instr" /\ batch = <<>> /\ mpc' = "call"
    /\ UNCHANGED <<running, batch, queue, ioVars, sigVars, accepted, executed,
                   counted, callsAfterStop, marks>>

(* The main block is called in every step, also when _running has fallen.  *)
CountsCall == callsAfterStop' = IF running THEN 0 ELSE callsAfterStop + 1
CallMainBlock ==
    /\ mpc = "call" /\ mpc' = "wait"
    /\ CountsCall
    /\ UNCHANGED <<running, batch, queue, ioVars, sigVars, accepted, executed,
                   counted, marks>>

(* An exception that no catch clause of Block::call takes ends the loop in *)
(* the middle of the step.  main() catches a runtime_error, and the        *)
(* destructors run; any other one (the bad_cast of write_variables(), the  *)
(* timeout of a shared memory) ends the process where it stands.           *)
MainBlockThrows ==
    /\ mpc = "call" /\ mpc' \in {"left", "gone"}
    /\ thrown' = TRUE
    /\ CountsCall
    /\ UNCHANGED <<running, batch, queue, ioVars, sigVars, accepted, executed,
                   counted, early>>

AfterWait_Take == "take"
AfterWait == "test"
WaitInterval ==
    /\ mpc = "wait" /\ mpc' = AfterWait
    /\ UNCHANGED <<running, batch, queue, ioVars, sigVars, accepted, executed,
                   counted, callsAfterStop, marks>>

(* The destructors stop and join the io thread; what is queued is lost.    *)
Destroy ==
    /\ mpc = "left" /\ mpc' = "gone"
    /\ UNCHANGED <<running, batch, queue, ioVars, sigVars, accepted, executed,
                   counted, callsAfterStop, marks>>

MainThread ==
    InitRunning \/ InitSigCount \/ Run \/ TestRunning \/ GetInstructions \/ Instr
    \/ InstrsDone \/ CallMainBlock \/ MainBlockThrows \/ WaitInterval \/ Destroy
----------------------------------------------------------------------------
(* The clients and the io thread.                                          *)
ClientSends(c, w) ==
    /\ mpc # "gone" /\ sent < MaxSent
    /\ Pipelined \/ (channel[c] = <<>> /\ ~ answering[c])
    /\ channel' = [channel EXCEPT ![c] = Append(@, w)]
    /\ sent' = sent + 1
    /\ UNCHANGED <<mainVars, answering, sigVars, queue, accepted, executed,
                   counted, callsAfterStop, marks>>

(* do_read() and validate_and_add(): every chunk is accepted.              *)
Delivered(c, k) == SubSeq(channel[c], 1, k)
Queued_First(i) == <<i>> \o queue
Queued_Full(i) == IF queue = <<>> THEN <<i>> ELSE queue
Queued(i) == Append(queue, i)
Read(c) ==
    /\ mpc # "gone" /\ channel[c] # <<>> /\ ~ answering[c]
    /\ \E k \in 1 .. MaxChunk :
          /\ k <= Len(channel[c])
          /\ queue' = Queued(Delivered(c, k))
          /\ accepted' = Append(accepted, Delivered(c, k))
          /\ channel' = [channel EXCEPT ![c] = SubSeq(@, k + 1, Len(@))]
    /\ answering' = [answering EXCEPT ![c] = TRUE]
    /\ UNCHANGED <<mainVars, sent, sigVars, executed, counted, callsAfterStop,
                   marks>>

(* do_write(): when "200 OK" is written the next read begins.              *)
Answer(c) ==
    /\ mpc # "gone" /\ answering[c]
    /\ answering' = [answering EXCEPT ![c] = FALSE]
    /\ UNCHANGED <<mainVars, channel, sent, sigVars, queue, accepted, executed,
                   counted, callsAfterStop, marks>>

IoThread == \E c \in Client : Read(c) \/ Answer(c)
----------------------------------------------------------------------------
(* The operator raises a signal; the signal thread handles one at a time.  *)
RaiseSignal ==
    /\ mpc # "gone" /\ raised < MaxSignals
    /\ raised' = raised + 1 /\ pending' = pending + 1
    /\ early' = (early \/ mpc \in Constructing \cup {"ready"})
    /\ UNCHANGED <<mainVars, ioVars, spc, sigCount, queue, accepted, executed,
                   counted, callsAfterStop, thrown>>

TakeSignal ==
    /\ mpc # "gone" /\ spc = "wait" /\ pending > 0
    /\ spc' = "count" /\ pending' = pending - 1
    /\ UNCHANGED <<mainVars, ioVars, sigCount, raised, queue, accepted,
                   executed, counted, callsAfterStop, marks>>

(* handle_SIGINT_SIGTERM: the decrement, the comparison and the store are  *)
(* three accesses.                                                         *)
CountSignal ==
    /\ mpc # "gone" /\ spc = "count" /\ spc' = "compare"
    /\ sigCount' = sigCount - 1
    /\ counted' = IF mpc \in InLoop THEN counted + 1 ELSE counted
    /\ UNCHANGED <<mainVars, ioVars, raised, pending, queue, accepted, executed,
                   callsAfterStop, marks>>

MoreNeeded_Two(n) == n > 1
MoreNeeded_Always(n) == TRUE
MoreNeeded(n) == n > 0
CompareCount ==
    /\ mpc # "gone" /\ spc = "compare"
    /\ spc' = IF MoreNeeded(sigCount) THEN "wait" ELSE "store"
    /\ UNCHANGED <<mainVars, ioVars, sigCount, raised, pending, queue, accepted,
                   executed, counted, callsAfterStop, marks>>

StopRunning ==
    /\ mpc # "gone" /\ spc = "store" /\ spc' = "wait"
    /\ running' = FALSE
    /\ UNCHANGED <<mpc, batch, ioVars, sigCount, raised, pending, queue,
                   accepted, executed, counted, callsAfterStop, marks>>

SignalThread == TakeSignal \/ CountSignal \/ CompareCount \/ StopRunning
----------------------------------------------------------------------------
Next ==
    \/ MainThread \/ IoThread \/ SignalThread \/ RaiseSignal
    \/ \E c \in Client, w \in Word : ClientSends(c, w)

Spec == Init /\ [][Next]_vars

(* Each thread goes on while it can; the operator and the clients need not.*)
FairSpec == Spec /\ WF_vars(MainThread) /\ WF_vars(SignalThread)
                 /\ \A c \in Client : WF_vars(Read(c) \/ Answer(c))
----------------------------------------------------------------------------
(* Type invariant.                                                         *)
TypeOK ==
    /\ mpc \in MainPC /\ running \in BOOLEAN
    /\ batch \in Seq(Chunk) /\ queue \in Seq(Chunk)
    /\ channel \in [Client -> Seq(Word)] /\ answering \in [Client -> BOOLEAN]
    /\ sent \in 0 .. MaxSent
    /\ spc \in {"wait", "count", "compare", "store"} /\ sigCount \in Int
    /\ raised \in Nat /\ pending \in Nat
    /\ accepted \in Seq(Chunk) /\ executed \in Seq(Chunk)
    /\ counted \in Nat /\ callsAfterStop \in Nat
    /\ thrown \in BOOLEAN /\ early \in BOOLEAN

(* Whatever the threads do, what was accepted is exactly what was carried  *)
(* out, then what this step still has to carry out, then the queue: no     *)
(* instruction is lost, doubled or overtaken while the dispatcher lives.   *)
NothingLostOrDoubled == accepted = (executed \o batch) \o queue

(* A stop takes effect within the step: after _running has fallen the main *)
(* block is called at most once more.                                      *)
StopWithinOneStep == callsAfterStop <= 1

(* There are three reasons for the program to end: the word "halt", the    *)
(* number of signals that the configuration asks for (a count of 0 acts as *)
(* 1), and an exception that leaves the call of the main block.  A signal  *)
(* raised before run() may be counted against a value that is not yet set, *)
(* and its late store of _running end the loop: such runs are exempt.      *)
NoEarlyStop ==
    mpc \in {"left", "gone"} /\ ~ early =>
        \/ \E n \in 1 .. Len(executed) : executed[n] = <<Halt>>
        \/ counted >= SigCount /\ counted >= 1
        \/ thrown

(* Every instruction that was accepted is carried out, unless the program  *)
(* ends first.                                                             *)
AcceptedAreRun ==
    \A n \in 1 .. MaxSent :
        Len(accepted) >= n ~> (Len(executed) >= n \/ mpc = "gone")

(* Once "halt" is accepted the program ends.                               *)
HaltStops ==
    (\E n \in 1 .. Len(accepted) : accepted[n] = <<Halt>>) ~> mpc = "gone"

(* The signals that are counted while run() is in its loop do end the      *)
(* program, whatever those that came during the construction have done.    *)
SignalsInRunStop == (counted >= SigCount /\ counted >= 1) ~> mpc = "gone"

(* loader/task.hpp:153: sigcount is the number of SIGINT and SIGTERM that  *)
(* the task waits for before it exits.                                     *)
SignalsStop == (raised >= SigCount /\ raised >= 1) ~> mpc = "gone"

(* Whoever sends an instruction sees a mailbox.                            *)
Mailbox == INSTANCE InstructionMailbox WITH
    Item <- Chunk,
    waiting <- IF mpc = "gone" THEN <<>> ELSE batch \o queue,
    done <- executed,
    open <- mpc # "gone"
ImplementsMailbox == Mailbox!Spec
=============================================================================
