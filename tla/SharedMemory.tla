---------------------------- MODULE SharedMemory ----------------------------
(***************************************************************************)
(* Processes that exchange variables through one named shared memory       *)
(* (kernel/block_class/shared_memory_io.hpp, boost_shm_object.cpp).  The   *)
(* memory and the mutex live in the operating system: they outlive a       *)
(* process that crashes.  Each process loads its task, which creates or    *)
(* opens the memory and clears it, and then exchanges once per step.       *)
(***************************************************************************)
EXTENDS FormulaSolver

CONSTANTS
    Proc, Nobody,   \* processes; the mutex is free
    NoMemory,       \* no memory has the name
    Layout,         \* the variables, in the order of the configuration
    Value,          \* 0 is cleared memory
    SetValues,      \* values whose is_set() is true
    ReadCond, WriteCond, \* per process: the conditions its configuration gives
    Unreachable,    \* variables that end with the last byte of the memory
    Small,          \* variables given fewer bytes than their values have
    MaxMemory, MaxChanges, MaxCrashes  \* bounds

Var == {Layout[i] : i \in DOMAIN Layout}

ASSUME SharedAssumption ==
    /\ Nobody \notin Proc /\ 0 \in Value /\ SetValues \subseteq Value
    /\ Layout \in Seq(Var)
    /\ Unreachable \subseteq Var /\ Small \subseteq Var
    /\ \A p \in Proc : DOMAIN ReadCond[p] \subseteq Var /\ DOMAIN WriteCond[p] \subseteq Var
    /\ MaxMemory \in Nat /\ MaxChanges \in Nat /\ MaxCrashes \in Nat
    /\ NoMemory \notin 1 .. MaxMemory

VARIABLES
    pc,      \* where each process is
    handle,  \* BoostShmObject::_shm
    mine,    \* not BoostShmObject::_b_open
    own,     \* the variables of the block
    local,   \* _v and res of shared_memory_io()
    place,   \* the variable its loop is at
    named,   \* the memory that has the name now
    mem,     \* contents of every memory ever created
    mutex,   \* who holds the named mutex
    changes, crashes,
    mishaps  \* history: what has disturbed the exchange

process == <<pc, handle, mine, own, local, place>>
vars == <<process, named, mem, mutex, changes, crashes, mishaps>>

Memory == 1 .. Len(mem)
Cleared == [v \in Var |-> 0]
Has(p) == pc[p] \in {"sizing", "idle", "inside"}

Init ==
    /\ pc = [p \in Proc |-> "down"]
    /\ handle = [p \in Proc |-> NoMemory] /\ mine = [p \in Proc |-> FALSE]
    /\ own = [p \in Proc |-> Cleared]
    /\ local = [p \in Proc |-> [v |-> Cleared, res |-> <<>>]]
    /\ place = [p \in Proc |-> 1]
    /\ named = NoMemory /\ mem = <<>> /\ mutex = Nobody
    /\ changes = 0 /\ crashes = 0 /\ mishaps = {}
----------------------------------------------------------------------------
(* The constructor of BoostShmObject: create, or else open, size, clear.   *)
Goes(p, there) == pc' = [pc EXCEPT ![p] = there]

(* A process ends, and all it had in its own memory with it.               *)
NoLocal == [v |-> Cleared, res |-> <<>>]
Gone(p) ==
    /\ Goes(p, "down")
    /\ handle' = [handle EXCEPT ![p] = NoMemory]
    /\ mine' = [mine EXCEPT ![p] = FALSE]
    /\ own' = [own EXCEPT ![p] = Cleared]
    /\ local' = [local EXCEPT ![p] = NoLocal] /\ place' = [place EXCEPT ![p] = 1]

Create(p) ==
    /\ pc[p] = "down" /\ named = NoMemory /\ Len(mem) < MaxMemory
    /\ mem' = Append(mem, Cleared)
    /\ named' = Len(mem')
    /\ handle' = [handle EXCEPT ![p] = named'] /\ mine' = [mine EXCEPT ![p] = TRUE]
    /\ Goes(p, "sizing")
    /\ UNCHANGED <<own, local, place, mutex, changes, crashes, mishaps>>

CreateFails(p) ==
    /\ pc[p] = "down" /\ named # NoMemory
    /\ Goes(p, "exists")
    /\ UNCHANGED <<handle, mine, own, local, place, named, mem, mutex, changes,
                   crashes, mishaps>>

Open(p) ==
    /\ pc[p] = "exists" /\ named # NoMemory
    /\ handle' = [handle EXCEPT ![p] = named] /\ mine' = [mine EXCEPT ![p] = FALSE]
    /\ Goes(p, "sizing")
    /\ UNCHANGED <<own, local, place, named, mem, mutex, changes, crashes, mishaps>>

(* The name went away in between: the class reports it, the task is not    *)
(* loaded.                                                                 *)
OpenFails(p) ==
    /\ pc[p] = "exists" /\ named = NoMemory
    /\ Gone(p)
    /\ UNCHANGED <<named, mem, mutex, changes, crashes, mishaps>>

(* The memory is cleared whether it was created or opened, and without the *)
(* mutex.                                                                  *)
Clear(p) ==
    /\ pc[p] = "sizing"
    /\ mem' = [mem EXCEPT ![handle[p]] = Cleared]
    /\ own' = [own EXCEPT ![p] = Cleared]
    /\ mishaps' = IF mem[handle[p]] # Cleared THEN mishaps \cup {"cleared"} ELSE mishaps
    /\ Goes(p, "idle")
    /\ UNCHANGED <<handle, mine, local, place, named, mutex, changes, crashes>>
----------------------------------------------------------------------------
(* Other units of the block give the variables it does not read one value. *)
OwnChange(p, x) ==
    LET mineToSet == Var \ DOMAIN ReadCond[p]
    IN
    /\ pc[p] = "idle" /\ changes < MaxChanges
    /\ \E v \in mineToSet : own[p][v] # x
    /\ own' = [own EXCEPT ![p] = [v \in Var |-> IF v \in mineToSet THEN x ELSE @[v]]]
    /\ changes' = changes + 1
    /\ UNCHANGED <<pc, handle, mine, local, place, named, mem, mutex, crashes, mishaps>>

(* The constructor of the mapped region: the mutex, for 10 ms.             *)
Obtained_Anyway == TRUE
Obtained == mutex = Nobody

First == 1

Lock(p) ==
    /\ pc[p] = "idle" /\ Obtained
    /\ mutex' = p
    /\ local' = [local EXCEPT ![p] = [v |-> own[p], res |-> <<>>]]
    /\ place' = [place EXCEPT ![p] = First]
    /\ Goes(p, "inside")
    /\ UNCHANGED <<handle, mine, own, named, mem, changes, crashes, mishaps>>

(* BoostMutexWaitTimeout passes every catch clause: the process ends.      *)
Timeout(p) ==
    /\ pc[p] = "idle" /\ mutex # Nobody
    /\ Gone(p)
    /\ mishaps' = mishaps \cup {"timeout"}
    /\ UNCHANGED <<named, mem, mutex, changes, crashes>>

(* do_read() and do_write(): without a condition the default solver says   *)
(* no, and an empty one says yes.                                          *)
Asked(cond, v, l) ==
    IF v \in DOMAIN cond THEN Solve(cond[v], [w \in Var |-> l[w] \in SetValues])
    ELSE "off"

(* The map old with the values of new written over it.                     *)
Over(new, old) ==
    [v \in DOMAIN new \cup DOMAIN old |-> IF v \in DOMAIN new THEN new[v] ELSE old[v]]

(* from_bytes() keeps the old value when the size does not fit, and nobody *)
(* looks at its result; a write that does not fit leaves zero bytes.       *)
ReadValue_Own(p, v) == local[p].v[v]
ReadValue(p, v) == IF v \in Small THEN local[p].v[v] ELSE mem[handle[p]][v]
Stored(v, x)    == IF v \in Small THEN 0 ELSE x

(* One round of the loop.  An exception is caught and leaves what has been *)
(* done: a read is kept although the write condition then fails.           *)
Exchange(p) ==
    LET v == Layout[place[p]]
        l == local[p].v
        r == IF v \in Unreachable THEN "error" ELSE Asked(ReadCond[p], v, l)
        x == IF r = "on" THEN ReadValue(p, v) ELSE l[v]
        w == IF r = "error" THEN "error"
             ELSE Asked(WriteCond[p], v, [l EXCEPT ![v] = x])
    IN
    /\ pc[p] = "inside" /\ place[p] <= Len(Layout)
    /\ place' = [place EXCEPT ![p] = @ + 1]
    /\ local' = [local EXCEPT
                    ![p] = [v   |-> [l EXCEPT ![v] = x],
                            res |-> IF r = "on" THEN Over([u \in {v} |-> x], @.res) ELSE @.res]]
    /\ mem' = IF w = "on" THEN [mem EXCEPT ![handle[p]][v] = Stored(v, x)] ELSE mem
    /\ UNCHANGED <<pc, handle, mine, own, named, mutex, changes, crashes, mishaps>>

(* The region is left and the block writes the result.                     *)
EndExchange(p) ==
    /\ pc[p] = "inside" /\ place[p] > Len(Layout)
    /\ mutex' = Nobody
    /\ own' = [own EXCEPT ![p] = Over(local[p].res, @)]
    /\ local' = [local EXCEPT ![p] = NoLocal] /\ place' = [place EXCEPT ![p] = 1]
    /\ Goes(p, "idle")
    /\ UNCHANGED <<handle, mine, named, mem, changes, crashes, mishaps>>
----------------------------------------------------------------------------
(* An orderly exit: the destructor removes the name of a created memory.   *)
Removes_Always(p) == TRUE
Removes(p) == mine[p]

Exit(p) ==
    /\ pc[p] = "idle"
    /\ named' = IF Removes(p) THEN NoMemory ELSE named
    /\ mishaps' = mishaps \cup {"exit"}
          \cup (IF mine[p] /\ \E q \in Proc \ {p} : Has(q) THEN {"orphans"} ELSE {})
    /\ Gone(p)
    /\ UNCHANGED <<mem, mutex, changes, crashes>>

(* The mutex of a process that crashes stays locked: it is not robust.     *)
Crash(p) ==
    /\ Has(p) /\ crashes < MaxCrashes
    /\ crashes' = crashes + 1
    /\ mishaps' = mishaps \cup {"crash"} \cup (IF mutex = p THEN {"holder"} ELSE {})
    /\ Gone(p)
    /\ UNCHANGED <<named, mem, mutex, changes>>

Load(p) == Create(p) \/ CreateFails(p) \/ Open(p) \/ OpenFails(p) \/ Clear(p)
Step(p) == Lock(p) \/ Timeout(p) \/ Exchange(p) \/ EndExchange(p)

Next ==
    \E p \in Proc :
        \/ Load(p) \/ Step(p) \/ Exit(p) \/ Crash(p)
        \/ \E x \in Value : OwnChange(p, x)

Spec == Init /\ [][Next]_vars

(* A running process goes on: within 10 ms it has the mutex or it ends.    *)
FairSpec == Spec /\ \A p \in Proc : WF_vars(Step(p))
----------------------------------------------------------------------------
Results == UNION {[S -> Value] : S \in SUBSET Var}
Mishap == {"cleared", "timeout", "exit", "orphans", "crash", "holder"}

(* Type invariant.                                                         *)
TypeOK ==
    /\ pc \in [Proc -> {"down", "exists", "sizing", "idle", "inside"}]
    /\ handle \in [Proc -> Memory \cup {NoMemory}] /\ mine \in [Proc -> BOOLEAN]
    /\ own \in [Proc -> [Var -> Value]]
    /\ place \in [Proc -> 1 .. Len(Layout) + 1]
    /\ local \in [Proc -> [v : [Var -> Value], res : Results]]
    /\ named \in Memory \cup {NoMemory} /\ mem \in Seq([Var -> Value])
    /\ Len(mem) <= MaxMemory /\ mutex \in Proc \cup {Nobody}
    /\ changes \in Nat /\ crashes \in Nat /\ mishaps \subseteq Mishap

(* While no holder of the mutex has crashed, the mutex is held exactly by  *)
(* the process that is inside the region: nobody waits for a lock that     *)
(* will not be released.                                                   *)
HeldByInside ==
    "holder" \notin mishaps => \A p \in Proc : mutex = p <=> pc[p] = "inside"

(* Processes that run use one memory, as long as no process that created   *)
(* it has removed its name under another one.  Crashes do not separate     *)
(* them.                                                                   *)
OneMemory ==
    "orphans" \notin mishaps =>
        \A p, q \in Proc : Has(p) /\ Has(q) => handle[p] = handle[q]

(* A process that reads two variables without a condition has values that  *)
(* their writer had together, unless a process that was loaded cleared     *)
(* them or the holder of the mutex crashed: the region makes the exchange  *)
(* atomic.                                                                 *)
Fits == Var \ (Unreachable \cup Small)
Always(cond) == {v \in DOMAIN cond : cond[v] = <<>>}
ReadTogether ==
    {"cleared", "holder"} \cap mishaps = {} =>
        \A p \in Proc : pc[p] = "idle" =>
            \A v, w \in Always(ReadCond[p]) \cap Fits : own[p][v] = own[p][w]

(* If no process ends and none that is loaded clears what was written, the *)
(* last values a writer has come to every reader.                          *)
Undisturbed == mishaps = {} /\ \A p \in Proc : pc[p] \in {"idle", "inside"}
LastValueArrives ==
    (Undisturbed /\ changes = MaxChanges) ~>
        (~ Undisturbed \/ \A p, q \in Proc :
             \A v \in Always(WriteCond[p]) \cap Always(ReadCond[q]) \cap Fits :
                 own[q][v] = own[p][v])
=============================================================================
