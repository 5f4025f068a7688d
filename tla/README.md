# A verification of func_sim_engine

The Functional Simulation Engine (FSE) runs a model that is described as a
tree of blocks.  A task file says which blocks there are, which variables each
has, which subprograms work on them and when a block has power.  The program
calls the main block in a loop; the call visits the tree.  Meanwhile an
operator may change the tree over a TCP port, signals may stop the program, and
block classes exchange variables with other processes by UDP or through shared
memory.

This directory holds TLA+ modules that follow the source in `src/`, the TLC
configurations that check them, and proofs that TLAPS checks.  `PROJECT.json`
maps every definition to the lines it models.

## 1. The parts of the system

| part | state | operations | talks to |
|---|---|---|---|
| **Block tree** `kernel/block.hpp`, `callable.hpp`, `subprog.hpp`, `detail/std.hpp` | variables, locks, the remembered power and the planned time of each block, its errors | `Block::call` (recursive): schedule, power condition, setups, use and return of variables, calls of children and subprograms, collection of errors | called by the dispatcher; takes variables from and gives them to the block above |
| **Condition solver** `kernel/detail/std.hpp` | a stack | evaluates a condition in reverse Polish notation | called for the power condition of a unit, and for the read and write conditions of shared memory |
| **Dispatcher** `process/dispatcher.hpp`, `main.cpp` | `_running`, `_sig_count`, names of failed units, clock | `run`, `make_step`, `handle_SIGINT_SIGTERM` | owns the reader, the clock, the signal handler and the main block |
| **Instruction reader** `process/boost_tcp_instruction_reader.*` | sessions, the queue of instructions | read, `validate_and_add`, `get_instructions`, answer | the io thread fills the queue, the main thread takes it |
| **Signal handler** `process/boost_signal_handler.*` | – | waits for SIGINT, SIGTERM | calls into the dispatcher from its own thread |
| **Control functions** `kernel/control_func/` | – | SetValue, LockParam, LockBlock, LockSubprog, ShowClassErrors and printing ones | change the tree between two steps |
| **UDP exchange** `kernel/block_class/udp_*` | copied values, message counters, messages received | `output_vars`, `input_vars`, the server thread, one thread per message sent | another process, over the network |
| **Shared memory** `kernel/block_class/shared_memory_io.hpp`, `boost_shm_object.*` | the memory and the mutex in the operating system | create or open, clear, lock, exchange, remove | other processes |
| **Clock** `process/boost_clock.*` | the deadline of the step, process time | `get_time`, `wait_interval` | called by the dispatcher around each step; its time is what the scheduler compares with the plans of the blocks |
| **Instruction parser** `process/simple_instruction_parser.hpp` | – | text to names and arguments | what clients send, by way of the reader, for the dispatcher |
| **Loader** `loader/` | the stage of `config`, the block being decoded, the variables and the wiring made so far | options, search of the task, libraries, recursive `decode` of blocks, `add_variable`, `add_use_param`, `add_return_param` | produces the tree and the dispatcher's settings |
| **Loaders of the classes** `loader/yaml_block_class_*.hpp`, `yaml_inet_address.hpp` | – | read the map of a block class | called by the loader |
| **Values** `kernel/holder.hpp`, `param.hpp`, `typefactory.hpp` | a typed value and a lock | to and from bytes and text, compare, copy | everything |
| **Lookups** in `kernel/block.hpp` | – | a name with dots to a variable, a subprogram or a block, and the lists | control functions |
| **Renaming** `kernel/detail/remappable_map.hpp` | names of a subprogram's inputs and outputs | rename, look up | subprograms |

### What is hard

* *One step is long.*  `Block::call` recurses and mixes schedule, power edges,
  setups, variables and errors; any condition or subprogram in the middle may
  throw.  Most combinations of two levels, a failing unit and an edge are in no
  test; the repository has none.
* *Three threads* share the instruction queue and two atomics, and the order in
  which the dispatcher's members are constructed lets one thread run before the
  values it uses exist.
* *The network* loses, doubles, reorders and damages messages; a sender or a
  receiver restarts; a counter of one byte is all that tells messages apart.
* *What a step takes for granted was checked once, in the loader*: recursively,
  over maps that name variables of other blocks, whose types follow from
  variables further down.
* *Deadlines are counted from the start*, not from the last step, so that late
  steps are made up for; both the deadline and the plans of the blocks are
  compared with a clock that may be set while the program runs.
* *Shared memory outlives the processes*: one may crash while it holds the
  mutex, or remove the memory others use, or clear it while they exchange.

### What makes each part correct

* Tree: a unit is called at most once a step and never below a block without
  power; a block that is not called keeps its variables; power is nested; a block
  that has just been switched on rests; setups and locks keep their promise; no
  failure is lost; the plan does not run ahead.
* Dispatcher: an accepted instruction is carried out once and in order; the
  program stops when asked to, and promptly; it ends without being asked only when
  an exception leaves the call of the main block.
* UDP: no message is applied twice or after a newer one; an applied value was
  once the sender's; no change is forgotten; without faults both sides agree.
* Shared memory: the region is atomic, all processes use one memory, the last
  value arrives.
* Clock: no step before its deadline; a block that keeps pace is never more than an
  interval behind; when steps are short again, the loop is in time again.
* Loader: the program starts with a task that is sound as a whole, and with every
  such task; what is wired exists on both sides with one type.
* Renaming: a subprogram reads and writes the same variables under its names.
* Parser: what can be written comes out as it was; half a line does nothing.
* Values: a variable keeps its value through a place in memory and through text.
* Lookups: a name reaches the unit it names, and what is listed can be reached.

`PROJECT.json` lists the hazards one by one, each at its line, with the
properties that watch it.

## 2. Modules

| module | models | remarks |
|---|---|---|
| `FormulaSolver` | `StdFormulaSolver::solve` | the stack after each word, as a recursive function; outcome "on", "off" or "error" |
| `BlockTree` | one step of the tree and the instructions between steps | extends `FormulaSolver` |
| `BlockTreeProofs` | | theorems about `BlockTree` |
| `InstructionMailbox` | what the dispatcher promises to a client | abstract |
| `Dispatcher` | the three threads | implements `InstructionMailbox` |
| `DispatcherProofs` | | theorems about `Dispatcher` |
| `StepClock` | the deadlines and the plans of blocks below the main block | |
| `StepClockProofs` | | theorems about `StepClock` |
| `UdpExchange` | a sender, the network and a receiver | |
| `UdpExchangeProofs` | | theorems about `UdpExchange` |
| `SubprogramRemap` | the renaming of what a subprogram reads and returns | operators |
| `InstructionParser` | from what a client sent to the name and parameters of an instruction | operators |
| `ControlSum` | the control sum of a message | operators |
| `Values` | the bytes and the texts of the four types | operators |
| `Paths` | the lookups by name | operators |
| `SharedMemory` | processes around one memory and one mutex | extends `FormulaSolver` for the read and write conditions |
| `SharedMemoryProofs` | | theorems about `SharedMemory` |
| `Loader` | from the command line to the tree of blocks | establishes what `BlockTree` assumes |
| `LoaderProofs` | | theorems about `Loader` |
| `Induction` | | lemmas: induction over numbers, and that recursive definitions solve their equations |
| `FunctionProofs` | | theorems about the six modules of operators, by `Induction` |
| `MC...` | the instances for TLC | |

A definition named `X_Something` is the definition `X` with a slip that a
programmer could make.  No specification uses it; put in the place of `X` it
breaks the property that `PROJECT.json` names in "mutants", which shows that
the property depends on that piece of code.

### BlockTree

`cur` is the block whose C++ call is innermost, its ancestors are the rest of
the call stack, and `todo[b]` is what is left of the list the scheduler gave to
the call of `b`.  Each action is one round of the loop in `Block::call` with
everything it does: `CallChild` descends; `RisingEdge`, `FallingEdge` and
`StayOff` are the outcomes of a child's power condition (a rising edge writes
the setup and touches the whole subtree, a falling edge switches the subtree
off from the leaves up); `ConditionFails` is a condition that throws;
`CallSubprog`, `SkipSubprog`, `SubprogThrows`, `SubprogMistypes` and
`ProcessDies` are the outcomes of a subprogram; `ClassErrors` the report of a
block class at the end of a call; `ReturnToParent` the end of a call, with the
return variables written above.  `StartStep` and `FinishStep` are the
dispatcher's.  `SetValue`, `LockParam`, `LockUnit` and `ShowClassErrors` are the
instructions that change the tree; they happen only between steps, as in
`make_step`.  `SubprogMistypes` writes the values that precede the ill-typed
one and then unwinds through every level: the `bad_cast` leaves `call` because
`write_variables` stands outside its `try`.

The names of variables and units are ordered by `VarRank` and `NameRank`,
since the order of `std::map` decides which value is written last.  The time
of a step is arbitrary; `TouchOffset` is the distance of the clock that
`touch()` reads from the time the dispatcher passes.

The flag of the three lock functions is one of `LockFlag`: only "on" locks, and a
misspelt flag lifts a lock after the message that it is wrong
(`kernel/control_func/vars.hpp:137`), as in the code.

`BlockTree` takes the time of a step from outside and assumes that it never falls;
`StepClock` says what that time is.

### Dispatcher

`mpc` is the place of the main thread, from the construction of the signal
handler over the loop to the destruction.  `spc` is the place of the signal
thread, whose decrement, comparison and store are separate.  What one read
delivers is one instruction, and may hold several words.  The step of the main
block is one action here, and `BlockTree` is the same step opened: the two
meet in `StartStep`/`FinishStep` and `CallMainBlock`, and in `ProcessDies` and
`MainBlockThrows` when an exception leaves the call of the main block.  Nothing
in `make_step` or `run` catches one.  `main` catches a `runtime_error`, so that the
dispatcher is destroyed like after `run` (`mpc` becomes "left"); any other one, such as
the `bad_cast` of `write_variables` or the timeout of a shared memory, ends the process
at once ("gone").  `thrown` remembers it, for `NoEarlyStop` counts it among the
reasons for which the program ends.

Signals may be raised at any time once the handler stands.  Those raised before `run`
are marked by `early`: they are counted against a `_sig_count` that is not yet set, are
forgotten when it is set, or leave the signal thread about to clear `_running` when
the loop begins, which then ends too early.  `NoEarlyStop` exempts these runs, and
`SignalsInRunStop` does not: what is counted in the loop ends it, whatever came before.

### StepClock

`real` is the time that passes and `shift` how far the clock of the system is
ahead of it; the operator may set it (`SetClock`).  `MakeStep` is `run_once`: a
step that takes any of the lengths `Work`, with the blocks that are locked and
have power as the tree has it.  `WaitInterval` computes the next deadline `iter`
from the last one, never from the present time, so a program that is late makes
steps without a pause until it has caught up; `Awake` is the end of the sleep,
which may last `MaxOver` longer than asked for.  The plan of a block moves as in
`BlockTree`: by one period with each call, to the present time with `touch()`.

`KeepsSchedule` is what the two clocks mean together: a block whose period is at
least that of the main block is never more than one interval behind, so the calls
that late steps made impossible are made up for.  A block that was locked is exempt
until its power rises again, since nothing but `touch()` lets go of an old plan.
`ProcessTimeCovers` says what the statistics may claim: the process time is the
work and, in addition, the delay with which each step began (`late` adds them up), so
one late step counts again in every step that makes up for it.  `setBack` loosens the properties
by the time the clock was set back: the program then sleeps until the old time has
come again.

### UdpExchange

`OutputBuffer` is one round of the loop in `output_vars`, with its short-circuit
copy (only the first variable that differs is copied; the others follow in the
next steps).  The network is a sequence, so a message that overtakes another is
an action on it.  A message carries its number, its buffer, its values and
whether the control sum still fits; the ghost `id` tells messages apart in the
properties and is never read by the code.  `Unnoticed` is what the sum does not
tell: a variable in an odd last byte (`Uncovered`), and values whose words are zeros
in one and ones in the other (`Alike`; `ControlSum` shows that these are the only
ones).  `TakeMessages`, `Misplaced`, `Refuse`,
`BadSum`, `Accept` and `EndInput` are the paths of `input_vars`.

### SharedMemory

`mem` holds every memory ever created, `named` the one that has the name now;
a process keeps its `handle` to the memory it mapped.  `Create`, `CreateFails`,
`Open`, `OpenFails` and `Clear` are the constructor, `Lock`, `Timeout`,
`Exchange` (variable by variable) and `EndExchange` the step, `Exit` and `Crash`
the two ways to end.  `Timeout` may happen whenever another process holds the
mutex: the code waits until a local time that is compared with universal time,
so the real wait may be nothing or hours.  An unlocking of the mutex that the
process does not hold never occurs.

### Loader

The stages are those of `config`; each is reached or ends the load.  `task::load`
enters the main block, and from there `decode` is recursive: `cur` is the
innermost block, those that hold it wait in phase "children".  The phases are
the parts of `decode` in their order: the fields, the units (`DecodeChild` and,
at the end of each, `Return`), the subprograms and the creation of the block
(`CreateBlock`), one `AddVariable` per variable with the type it copies, the
destinations it checks and the three maps it extends, then the conditions of
units and subprograms, the setups and the block class.  Any check that fails
ends the load, for `decode` returns false through all levels.  The code goes
through maps in the order of their names; the model takes any order, so what
holds does not depend on names.

`doc` is what the task file says: of each block its variables (own, or copied
from a unit; their types; the units they go to), the operands of its condition,
its subprograms, setups and class.  A name that is not found, a type that does
not exist or does not match, a variable with two sources are in the file as
such; a field that is missing or cannot be read is `~ formed`, since the text
tells nothing else apart.  A name with a dot, which `get_variable` would look up
in a unit, is refused by `add_use_param` and `add_return_param` and counts as
not found.

The fields of a block class are `missing` or `wrong`; `MemoryFields` and `UdpFields`
say which the two classes of the kernel require and which they only read when they
are there (`yaml_block_class_shared_memory_io.hpp`,
`yaml_block_class_udp_exchange.hpp`).  One variable and one buffer stand for the
lists of these maps.  `fits` is whether an initial value can be read as its type:
the text of the file is checked only later, by `from_string`, whose result the
code does not look at.

`Sound` says what a file means without the order of decoding: variables that are
copied have a source with a type, found by going down through the units
(`TypeOf`), and every name of a condition, a setup or a class is one of these
variables.  `OnlySoundLoads` compares it with the maps that `decode` filled step
by step, `SoundLoads` says that such a file does load.

`Loader` and `BlockTree` meet in the assumptions: `Wired` and `OperandsExist` say
of the loader's maps what `DataAssumption` says of `Use`, `Res` and `VarOf`.

### FormulaSolver, SubprogramRemap, InstructionParser, Values, Paths, ControlSum

Functions without a state of their own; `MCFunctions` types their inputs one word,
name, character, value, part of a name or word of a message at a time and compares the results with what was meant.

`Renamed` is the loop of `Subprogram::call`: for each formal, in the order of the
names, the result moves to the name of its variable unless that name is taken.
`RenamedAtOnce` says that the loop renames all results at once, and that a function
which returns what it reads changes nothing.  It exempts one
case (`NoChain`): a result that goes to a name which is itself renamed at that
moment or later.  The code then moves the value on (`a: b, b: c` turns a lone
result `a` into `c`) or, when a name stands for itself, loses it.

`Parse` follows the iterators of `SimpleInstructionParser`.  `LineIsUnderstood` says
that each parameter a client can write comes out as it was.  What cannot be
written: in quotes, a backslash at the end, and with doubled quotes also one
before a quote.  The comment at `simple_instruction_parser.hpp:122` names a slash
where the code looks for a backslash.  `CutIsRefused` is about the reader, for which
one read is one line: `Runs` says what the dispatcher, which ignores the error of
the parser and counts the parameters, does with the beginning of a line.  With
backslashes a beginning is never carried out; a doubled quote may be cut in two, and
then the shorter parameter is taken.

`Quoted` copies a parameter in quotes piece by piece between the quotes that do not
end it, and `Prefixed` is what a piece adds in front of what follows.

`Values` has the bytes of a variable as `to_bytes` writes them and `from_bytes` reads
them.  `PlaceKeepsMeaning` takes one place in memory and writes to it again and again:
what is read back is what was written last, whatever longer value stood there.  A bool
writes two bytes and may be read from one: from a place of one byte it always reads
false.  `TextKeepsMeaning` is about what the operator writes and reads: a text is
refused when anything is left over or the number is out of range, a refused text
leaves the value as it was, and a text that is shown can be given back and shows the
same again.  Real numbers count in fractions of the last printed decimal; the largest,
`MaxReal`, is itself printed as it is, as the largest double is a whole number, so that
no rounding leaves the range.

`Paths` is the way of a name with dots through the tree.  A name is taken apart at its
first dot in each block.  `FoundByName` says that each lookup finds the one unit that
the parts of the name lead to, or nothing, and that what a list shows is reached by
the name of the block and the name shown, if that is `Plain`: without a dot and not
empty.  Names that hold a dot themselves are listed and cannot be reached.

`CalcControlSum` is the loop of `calc_control_sum`.  `DamageIsNoticed` says exactly which
changes of one word it tells: all but a word of zeros for one of ones, and, as long as there
were only zeros, 0 for 1.

## 3. Runs

Every run is exhaustive within its bounds.

| run | question | bounds | result |
|---|---|---|---|
| `tree` | edges, periods, priorities, locks, setups, and failures in the middle of all that | 5 blocks on 3 levels, subprograms that throw, mistype or end the process, one malformed condition; 4 steps, times to 5, 1 instruction, clock offset 1 | holds, 108 901 states |
| `order` | is the order of calls that of `kernel/README:19`? | 4 steps, no failures | violated |
| `clock` | deadlines, plans and process time | interval 2, periods 2 and 3, 3 disturbed steps of length 1 or 4, one setting of the clock, 8 quick steps | holds, 565 200 states |
| `queue` | instructions and stop, when the call of the main block may throw | 2 clients, 2 words, 2 signals asked for and 3 raised at any time | holds, 246 274 states |
| `early` | does the configured number of signals suffice? | 2 signals, 2 asked for | violated |
| `udp_faults` | the exchange over a bad network | 2 buffers, 3 variables, counter modulo 2, 2 changes, 2 mishaps of any kind | holds, 475 551 states |
| `udp_fresh` | are only repetitions refused? | 1 mishap | violated |
| `udp_whole` | is a buffer with a bad value refused whole? | no mishaps | violated |
| `functions` | conditions, renamings, lines, values and names against what they mean | conditions of up to 5 words with 2 names and 1 unknown name; every renaming of 4 names; 2 parameters with 5 characters; 2 values to one place; 2 texts to one variable; names of 4 parts; messages of 3 words | holds, 212 038 states |
| `loader` | which task files load, and what of | 4 blocks on 3 levels, 3 names, 2 types; one sound file and those that differ from it in one or two places; 6 things that may be wrong before | holds, 687 923 states |
| `initial` | is a wrong initial value noticed? | the files of `loader` | violated |
| `shm` | the exchange through memory | a writer, a reader, 5 variables, 2 changes, 1 crash, 2 memories | holds, 414 630 states |

Why these bounds.  The tree has three levels, the least that shows a value that
rises by one level only and an edge whose subtree has a subtree; `p` and `x`
travel in both directions, so every block's power depends on what another
returned.  Four steps are a rise, a fall, a rise and a step to see its effect.
The counter of a message is modulo 2 where the code has 256: what the
properties tell apart is whether a number comes round again, and two values
make that happen with two messages.  Two mishaps combine any two kinds.  Two
clients and two words give interleaved reads, a joined chunk, and an instruction
that is queued while the one before it is carried out; three signals are one more
than asked for, so that one may be forgotten during the construction while the others
stop the loop.  The files of `loader` change any variable, destination, source, type,
condition, setup, subprogram or class of the sound file, and two of them at
once where they can interact: variables of the main block with those of the
unit it copies from, and with the other fields of a unit; some of the changed
files are sound again, most are not.  In `shm`, `b` is read on a condition, `s` is described too small and
`z` ends with the last byte of the memory.  In `clock` a step of length 4 is two
intervals, so three of them put the loop several deadlines behind, the period 2 is that
of the main block and 3 is not a multiple of it, and eight quick steps are enough to
catch up from the worst of it.  In `functions` a byte has 4 values, an integer 4 bytes and a
real number 8, so the ends of every range are among the samples; a number has half
units below the last printed decimal, so both ways of rounding occur; a word of a
message has 8 values, and three words make more than one carry.

`CHECK_DEADLOCK FALSE` stands in every configuration because each model does
stop: the program ends, the bounds on steps, words, changes and mishaps run
out.

### Fairness

* `BlockTree`: weak fairness of `Calls`, the steps of a call in progress.  The
  main thread goes on; nothing in a call waits.  The next step (`StartStep`)
  is not promised.
* `Dispatcher`: weak fairness of each thread (main, signal, and per client the
  io thread).  Threads of one process are scheduled again and again and the
  only lock is held for a splice.  Clients and operators promise nothing.
* `UdpExchange`: weak fairness of the sender's and the receiver's steps and of
  delivery.  `Converges` is asserted only for behaviours without mishaps.
* `StepClock`: weak fairness of `Loop`: one thread that computes and sleeps.  Nobody
  need set the clock.  `CatchesUp` is about steps that are short in the end
  (`Quick`), for with long ones nothing could be caught up.
* `Loader`: weak fairness of `Next`: one thread that only computes and reads files.
* `SharedMemory`: weak fairness of each process's own steps: within 10 ms
  it has the mutex or it ends.  Nothing is promised about loading.

### Where the documentation and the code differ

Five runs of kind "violation" each check one sentence of the documentation or
of a comment, quoted in `PROJECT.json`:

1. `order`: units are called in ascending priority; `kernel/README` says descending.
2. `initial`: a task whose initial value does not fit its type is loaded and the
   variable starts with the default of the type, where a comment in
   `loader/yaml_parameter.hpp` says that a wrong value is noticed.
3. `early`: signals before `run()` are forgotten, where `loader/task.hpp` says
   that the task waits for this number of signals.
4. `udp_fresh`: a message never seen is refused when its number happens to equal
   the last one, where the comment says that only repetitions are.
5. `udp_whole`: the variables before an unreadable value are applied, where the
   comment says that the whole buffer is rejected.

## 4. Proofs

The theorems hold for every value of the constants that satisfies the named
assumptions: `TreeAssumption` (the blocks form a tree: what `add_child`
builds), `DataAssumption` (the wiring names existing variables: what the loader
validates), `NumberAssumption`, `DispatcherAssumption`, `LoaderAssumption`
(every block lies somewhere in the main block; of the files only that they are files),
`ClockAssumption` (lengths of time are natural numbers), `UdpAssumption` (the low byte of
the counter has more than one value; being taken for each other is reflexive and
transitive) and `SharedAssumption`; of the functions: `MaxKeyAssumption` and
`PartsAssumption` (a number of names), `TopAssumption` (words are not all 0), the
`TreeAssumption` of `Paths` (the blocks of a block are in the tree; that no block holds
itself is not needed), `ValuesAssumption` and `MaxRealAssumption` (sizes are positive; see
`Values`), and `SampleAssumption` (the values written are values of their types).  Byte,
sizes, values, names, trees and the bounds `MaxWords`, `MaxChars` and so on are
arbitrary: the theorems about functions are about inputs of every length.

| theorem | module | argument |
|---|---|---|
| `TypeCorrect` | `BlockTreeProofs` | each conjunct of `TypeOK` per action; lemmas on what the value functions return |
| `CalledOnce`, `RestsAfterPowerOn` | | `CallsInv`: whatever was called or switched on in this step has its parents called, lists of units belong to calls in progress only, and called, switched-on and waiting units are disjoint |
| `PowerReachesDown` | | `PowerReaches` has two parts, `PowerNesting` and `ActivePowered`: neither is inductive alone, because a call descends only into powered blocks and power changes only below the call stack (`BelowIsInactive`) |
| `PlanIsBounded` | | `PlanInv`: in addition a block still waiting in a list is due and not locked |
| `FailuresReported` | | `ErrorInv`: a failure is reported or in the list of a block in progress; `HandOver` shows that collecting moves it up and loses nothing |
| `LocksHold`, `OffSetupsStand`, `IdleBlocksKeep` | | `Movements`: a step writes a block on the call stack, takes the USE variables of the block it enters, or is an edge of a child of the innermost block; together with `PowerReaches` and the `PlanInv` of the waiting blocks this leaves every other block as it is, and `LockedStays` every locked variable |
| `TypeCorrect` | `StepClockProofs` | per action |
| `DeadlinesAreKept` | | `DeadlineInv`: the deadline is the number of steps times the interval, and the clock has reached it whenever the loop is awake |
| `ScheduleIsKept` | | `PlanInv`: after a step the plan has reached the deadline of that step, because a call moves it by a period and a plan that was not due lies ahead; needs `DeadlineInv` |
| `ProcessTimeIsCovered` | | `ProcessInv`: the process time is the work and the delays of the steps; while the loop waits, it lacks the time since the deadline of the step |
| `TypeCorrect` | `DispatcherProofs` | per thread |
| `QueueIsExact`, `InstructionsAreExact` | | `QueueInv`: accepted = executed, batch, queue, and the batch is empty outside the instruction loop |
| `StopsWithinOneStep` | | `StopInv`: a call after the stop happens only between the fall of `_running` and the next test |
| `NeverStopsEarly` | | `ReasonInv`: as long as no signal came before `run`, `_sig_count` is the configured number less the counted ones (`Punctual`), a fallen `_running` has a reason, and a loop that is left has one or was left by an exception |
| `DispatcherIsMailbox` | | initial states map to initial states; each step of the three threads is a `Put`, a `Carry`, a `Close` or a stutter |
| `TypeCorrect`, `DecodedInOrder` | `LoaderProofs` | together: a variable has a type only because it is added to a block that lacks it, from units that are decoded (`Order`) |
| `WiringIsSound` | | with `Order`: a variable is added to the block being decoded, which lacks it, so that nothing wired before changes its type (`VarsKept`) |
| `ConditionsAreSolvable` | | `Checked`: what the checks of the block in progress have shown so far; a decoded block has exactly the variables of its map |
| `OnlySoundIsLoaded` | | `Traces`: a variable that is copied has the type of its source; `Meant`: if the equation that defines `TypeOf` has a solution, every variable wired so far has the type `TypeOf` gives it; once all blocks are decoded the loader's own map `vars` solves that equation (`TypeOfSolves`), so its types are those of `TypeOf` (`TypesAreMeant`); `Excluded` and `Formed`: a decoded block passed every check of `Sound` |
| `TypeCorrect` | `FunctionProofs` | per kind of input |
| `ConditionsAreUnderstood` | | `StackMeaning`: after each word the stack holds the meanings of those operands before it that no later operator has taken; `StackHeight`: the stack fails just when an operator lacks operands |
| `DamageIsTold` | | `SumsPart`: two sums that differ stay different under the same words, for adding with the carry is one to one but for 0 and all ones (`AddedTells`) |
| `ResultsAreRenamed` | | `RenamedIs`: after the formals up to a name, each variable has the result that the same formals send to it at once (`Sources`); an absent chain keeps a result from moving twice |
| `UnitsAreFound` | | `Follow`: a lookup that has gone down some parts of the name stands at the block that these parts reach (`Reached`); `WaysAre`: the ways that the property enumerates are the blocks reached |
| `PlacesKeepValues` | | `WrittenLast`, an invariant: the place is what the last value leaves of zeros; `CodeIs`: the bytes of a number determine it |
| `TextsKeepNumbers` | | `AcceptedLast`, an invariant: the value is what the last accepted text gives to a new variable; `RoundedIs`: rounding moves by at most half a unit, and not at all what is rounded |
| `LinesAreUnderstood`, `CutsAreRefused` | | backwards from the closing quote: what is copied from the place of a character on is the rest of the text, or the line ends first (`CopiedFrom`); backwards from the end of the line: from each space the parameters that follow are taken (`AllParameters`), or too few of them (`FewParameters`) |
| `TypeCorrect` | `SharedMemoryProofs` | with `HandleInv`: who is past the constructor has a memory mapped |
| `MutexIsHeldInside` | | inductive as it stands, given the types |
| `AllUseOneMemory` | | `NameInv`: the memory of a running process is the one that has the name, or a removal is on record |
| `ReadsAreTogether` | | `Together`: what the writer holds is of one moment, the memory is of one moment outside the writer's turn and inside it in two parts on either side of its place in the list, and the same for what a reader has collected |
| `TypeCorrect` | `UdpExchangeProofs` | per action; a message that names a buffer carries exactly its variables, also after damage |
| `OnlyValuesThatWereHad` | | `HadInv`: the same of every message whose control sum fits, on its way or received, and of the result; `PassableIsClosed`: what the sum cannot tell from a value that passes, passes |
| `NothingIsForgotten` | | inductive as it stands, given the types |
| `ReadInOrderOnce` | | `OrderInv`: what is in the batch, the inbox and the network is in the order of sending, copies side by side, and a copy of what was read last has the number that is refused |

`ReadsAreTogether` is about one writer, `SoleWriter(w)`, that takes no values itself and
writes without a condition what others read without one; two writers would mix their values
without any fault of the exchange.  The instance of `shm` satisfies it.

A recursive function is a `CHOOSE` of a function that solves its equation, so before
anything can be said of it there must be one.  `Induction` shows that there is: from the
least element of a set of numbers (`LeastNumber`, by the well-foundedness of the library)
it has induction upwards and downwards, and by it the solutions of equations that look at
the value before (`Iteration`), at all smaller ones (`Recursion`) or at all larger ones
(`BackwardRecursion`).  Induction is stated over sets, `P \subseteq 0 .. n`, since no
prover here takes an operator.

`Shapes` and `Movements` in `BlockTreeProofs` reduce the many actions of a step to the few
ways in which they move the call stack and the values; the proofs have one case for each.

Each type invariant `TypeOK` is a theorem and no run spends a property on it.

Every safety property that a passing run checks, invariant, action property or
refinement, is a theorem.  Only model-checked are the liveness properties
(`StepCompletes`, `AcceptedAreRun`, `HaltStops`, `SignalsInRunStop`, `Converges`,
`LastValueArrives`, `SoundLoads`, `CatchesUp`), which are out of the prover's reach.

## 5. What is not modelled

* The console, the options of the command line, logging and protocols: input and output.
  Of the control functions that only print, `Paths` has which unit they reach.
* The text of the task file: what cannot be read is an outcome in `Loader`.  The contents
  of the lists in the maps of the block classes, beyond one variable and one buffer.
* The decoding of characters.
* Infinities and NaN, and the bytes of a real number beyond what is used of them (they
  are many, determine the number and are all 0 for 0).
* `BoostClock::save_time`, which nothing calls; `as()` and the helpers of libraries, whose
  failures are outcomes of a subprogram in `BlockTree`.
* Damage to several words of a message that cancels in the control sum, and to the
  first word while the numbers of buffer and message are both 0.  Numbers of buffers
  above 255, which the code stores in one byte.
* `emplace`, `operator[]` and copies of a renamed map, which nothing in the repository
  uses.
* Undefined behaviour of object lifetimes: the detached signal thread after its
  object is gone, the buffer of the answer.  A model of the values they may
  read would say nothing the code promises.
* A limit of memory: lists of errors and instructions grow without bound.

## 6. Plan

The parts of the system are modelled and checked, and their safety properties proved.
What is left:

1. A theorem that joins `Loader` and `BlockTree`: the maps of a loaded task satisfy
   `DataAssumption`, with the levels of `BlockTree` built from those of the loader.
2. The steps of the liveness arguments that are safety: what decreases with each step of
   a call, of a load or of a batch of instructions, as theorems beside the runs.
3. The lists of variables and buffers in the maps of the block classes, with their
   offsets and sizes against the length of the memory or the message.
4. `BlockTree` with the time of `StepClock` in one module, to check the statistics of
   several levels; so far they meet in the plan of a block.
