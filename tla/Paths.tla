------------------------------- MODULE Paths -------------------------------
(***************************************************************************)
(* How the operator's names lead to units of the tree: the lookups of      *)
(* kernel/block.hpp, which take a name apart at its first dot and ask the  *)
(* unit that the part before it names, and what the instructions of        *)
(* kernel/control_func make of them.                                       *)
(*                                                                         *)
(* A name is the sequence of its parts between the dots; a part may be     *)
(* empty.                                                                  *)
(***************************************************************************)
EXTENDS Integers, Sequences

CONSTANTS
    Main,              \* the main block
    Unit,              \* per block: its blocks by name, _children
    VarOf, SubOf       \* per block: the names of its variables, subprograms

(* The parts of a name are strings; the blocks of a block are in the tree. *)
ASSUME TreeAssumption ==
    /\ Main \in DOMAIN Unit
    /\ \A b \in DOMAIN Unit :
          /\ \A n \in DOMAIN Unit[b] : Unit[b][n] \in DOMAIN Unit
          /\ VarOf[b] \subseteq Seq(STRING) /\ SubOf[b] \subseteq Seq(STRING)

Empty == ""

(* StringSpec::extract_block_name(): what is left after the first dot, of  *)
(* length 0 if there is no dot or nothing after it.                        *)
First(name) == <<Head(name)>>
Second(name) == IF Len(name) = 1 THEN <<Empty>> ELSE Tail(name)
InChild_AnyDot(name) == Len(name) # 1
InChild(name) == Second(name) # <<Empty>>
IsChild(b, name) == First(name) \in DOMAIN Unit[b]
ChildOf(b, name) == Unit[b][First(name)]

(* get_variable() and get_subprog(): a name without a block is looked for  *)
(* in this block, with the dot at its end if it has one.  The result is    *)
(* the set of what is found, empty for a null pointer.                     *)
Find(table, b, name) ==
    LET from[i \in 1 .. Len(name)] ==
            LET rest == SubSeq(name, i, Len(name))
            IN  [c \in DOMAIN Unit |->
                    IF ~ InChild(rest)
                    THEN {[block |-> c, name |-> n] : n \in table[c] \cap {rest}}
                    ELSE IF IsChild(c, rest) THEN from[i + 1][ChildOf(c, rest)]
                    ELSE {}]
    IN  from[1][b]

GetVariable(b, name) == Find(VarOf, b, name)
GetSubprog(b, name) == Find(SubOf, b, name)

GetChild(b, name) ==
    LET from[i \in 1 .. Len(name)] ==
            LET rest == SubSeq(name, i, Len(name))
            IN  [c \in DOMAIN Unit |->
                    IF ~ IsChild(c, rest) THEN {}
                    ELSE IF InChild(rest) THEN from[i + 1][ChildOf(c, rest)]
                    ELSE {ChildOf(c, rest)}]
    IN  from[1][b]
----------------------------------------------------------------------------
(* What the instructions of the operator reach: GetValue, SetValue and     *)
(* LockParam a variable, LockSubprog a subprogram, LockBlock and           *)
(* ShowClassErrors a block.                                                *)
ReachVariable(name) == GetVariable(Main, name)
ReachSubprog(name) == GetSubprog(Main, name)
ReachBlock(name) == GetChild(Main, name)

(* GetVarList and GetSubpList: each name of the block is looked up once    *)
(* more, and what is found is printed under that name.                     *)
Shown(table, b) ==
    UNION {{[as |-> n, unit |-> u] : u \in Find(table, b, n)} : n \in table[b]}
GetVarList(name) == UNION {Shown(VarOf, b) : b \in ReachBlock(name)}
GetSubpList(name) == UNION {Shown(SubOf, b) : b \in ReachBlock(name)}
=============================================================================
