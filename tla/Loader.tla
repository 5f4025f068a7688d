------------------------------- MODULE Loader -------------------------------
(***************************************************************************)
(* How a task becomes a tree of blocks: the stages of config               *)
(* (loader/config.hpp), task::load() and the recursive decode() of a block *)
(* (loader/yaml_block.hpp) with the building operations of Block           *)
(* (kernel/block.hpp).  What the loader accepts is what BlockTree takes    *)
(* for granted.                                                            *)
(*                                                                         *)
(* decode() is recursive: cur is the innermost block, the blocks that hold *)
(* it are waiting in phase "children".  A failure anywhere ends the whole  *)
(* load, and all that was built is dropped.                                *)
(***************************************************************************)
EXTENDS Integers

CONSTANTS
    Block, Root, NoBlock, \* the blocks of the file; no block is being decoded
    Parent,               \* the block whose map holds the block, for b # Root
    Name, Type, NoType,   \* variables, the types of TypeFactory, any other
    Docs,                 \* what a task file may say of its blocks
    Broken                \* what may be wrong before the file is decoded

Child == Block \ {Root}
Kids(b) == {c \in Child : Parent[c] = b}

(* One variable: own, or copied from a variable of a child; and the        *)
(* variables of children it is copied to (a list that names one twice is   *)
(* malformed here; the code refuses it when it adds the second).  fits:    *)
(* the initial value can be read as a value of the type.                   *)
Own == <<>>
Place == Block \X Name
VarDesc == [source : {Own} \cup Place, type : Type \cup {NoType}, fits : BOOLEAN,
            to : SUBSET Place]

(* One block of the file.  formed: no field is missing or malformed.       *)
(* power: the operands of its condition, which is split into words and not *)
(* checked any further (set_power_cond() always succeeds).  subs: the      *)
(* subprograms.  class: the class it names, of the kernel or of a library; *)
(* missing, wrong: fields of the class that are; accepts: the class can    *)
(* make what it needs, a memory or a server, and add its subprogram;       *)
(* needs: the variables it looks for.                                      *)
SubDesc == [known : BOOLEAN, power : SUBSET Name]
SetupDesc == [of : {"on", "off", "else"}, name : Name, fits : BOOLEAN]
Class == {"none", "unknown", "memory", "udp", "library"}

Part == {"command line", "search paths", "task", "directory", "yaml", "libraries"}

ASSUME LoaderAssumption ==
    /\ Root \in Block /\ NoBlock \notin Block /\ NoType \notin Type
    /\ Parent \in [Child -> Block]
    /\ \A S \in SUBSET Block :   \* every block lies somewhere in the main block
          Root \in S /\ (\A b \in S : Kids(b) \subseteq S) => S = Block
    /\ \A D \in Docs : \A b \in Block :
          /\ D[b].vars \in [DOMAIN D[b].vars -> VarDesc] /\ DOMAIN D[b].vars \subseteq Name
          /\ D[b].power \subseteq Name /\ D[b].needs \subseteq Name
          /\ D[b].subs \subseteq SubDesc /\ D[b].setups \subseteq SetupDesc
          /\ D[b].formed \in BOOLEAN /\ D[b].class \in Class
          /\ D[b].missing \subseteq STRING /\ D[b].wrong \subseteq STRING
          /\ D[b].accepts \in BOOLEAN
    /\ Broken \subseteq SUBSET Part

VARIABLES
    doc, broken,  \* the input
    stage,        \* config::_stage
    failed,       \* the load has ended without success
    cur, phase,   \* the decode() in progress and where it is
    todo,         \* variables of cur still to be added
    decoded,      \* blocks whose decode() has returned true
    vars,         \* per block: _vars, with their types
    use, res      \* per block: _use_vars, _res_vars

input == <<doc, broken>>
wiring == <<vars, use, res>>
all == <<input, stage, failed, cur, phase, todo, decoded, wiring>>

None == [n \in {} |-> n]
Init ==
    /\ doc \in Docs /\ broken \in Broken
    /\ stage = "eConstructed" /\ failed = FALSE
    /\ cur = NoBlock /\ phase = "config" /\ todo = {} /\ decoded = {}
    /\ vars = [b \in Block |-> None]
    /\ use = [b \in Block |-> None] /\ res = [b \in Block |-> None]
----------------------------------------------------------------------------
(* The constructor of config: each stage is reached or ends the load.      *)
Fail ==
    /\ failed' = TRUE
    /\ UNCHANGED <<input, stage, cur, phase, todo, decoded, wiring>>

InConfig(from) == stage = from /\ phase = "config" /\ ~ failed
Advance(from, parts, to) ==
    /\ InConfig(from)
    /\ \/ /\ parts \cap broken # {}
          /\ Fail
       \/ /\ parts \cap broken = {}
          /\ stage' = to
          /\ UNCHANGED <<input, failed, cur, phase, todo, decoded, wiring>>

ParseCmdline   == Advance("eConstructed", {"command line"}, "eMainConfigLoaded")
FindConfFile   == Advance("eMainConfigLoaded", {"search paths"}, "eTaskPathLoaded")
LoadTaskConfig == Advance("eTaskPathLoaded", {"task", "directory"}, "eTaskConfigLoaded")

(* task::load(): the file, the libraries, then the main block.             *)
Enter(b, where) == cur' = b /\ phase' = where
LoadTask ==
    /\ InConfig("eTaskConfigLoaded")
    /\ \/ /\ {"yaml", "libraries"} \cap broken # {}
          /\ Fail
       \/ /\ {"yaml", "libraries"} \cap broken = {}
          /\ Enter(Root, "fields")
          /\ UNCHANGED <<input, stage, failed, todo, decoded, wiring>>

Ready ==
    /\ phase = "loaded" /\ ~ failed /\ stage = "eTaskConfigLoaded"
    /\ stage' = "eReady"
    /\ UNCHANGED <<input, failed, cur, phase, todo, decoded, wiring>>
----------------------------------------------------------------------------
(* decode() of cur.  A part that only checks goes on or fails.             *)
At(where) == cur \in Block /\ phase = where /\ ~ failed
Check(where, ok, next) ==
    /\ At(where)
    /\ \/ /\ ~ ok
          /\ Fail
       \/ /\ ok
          /\ phase' = next
          /\ UNCHANGED <<input, stage, failed, cur, todo, decoded, wiring>>

Fields == Check("fields", doc[cur].formed, "children")

DecodeChild(c) ==
    /\ At("children") /\ c \in Kids(cur) \ decoded
    /\ Enter(c, "fields")
    /\ UNCHANGED <<input, stage, failed, todo, decoded, wiring>>

(* When all children are read, the subprograms are, each a registered      *)
(* function; then the block is created.                                    *)
CreateBlock ==
    /\ At("children") /\ Kids(cur) \subseteq decoded
    /\ \/ /\ \E s \in doc[cur].subs : ~ s.known
          /\ Fail
       \/ /\ \A s \in doc[cur].subs : s.known
          /\ phase' = "variables" /\ todo' = DOMAIN doc[cur].vars
          /\ UNCHANGED <<input, stage, failed, cur, decoded, wiring>>

(* The type a new variable gets, NoType if it cannot be created.  Its      *)
(* initial value is given to from_string(), whose result nobody looks at.  *)
Given(p) == p[1] \in Kids(cur) /\ p[2] \in DOMAIN vars[p[1]]
NewType_Declared(d) == d.type
NewType(d) ==
    IF d.source = Own THEN d.type
    ELSE IF Given(d.source) THEN vars[d.source[1]][d.source[2]]
    ELSE NoType

Created(t) == t # NoType

(* add_use_param() refuses a second source for one variable of the child.  *)
Free_Any(p) == TRUE
Free(p) == p[2] \notin DOMAIN use[p[1]]
SameType_Any(p, t) == TRUE
SameType(p, t) == vars[p[1]][p[2]] = t
Destinations(d, t) ==
    \A p \in d.to : Given(p) /\ SameType(p, t) /\ Free(p)

(* The maps extended by the new variable n with description d.             *)
ResWith(n, d) ==
    IF d.source = Own THEN res
    ELSE [res EXCEPT ![d.source[1]] =
              [v \in DOMAIN @ \cup {n} |-> IF v = n THEN d.source[2] ELSE @[v]]]
Copied(d, c) == {v \in Name : <<c, v>> \in d.to}
UseWith(n, d) ==
    [c \in Block |-> [v \in DOMAIN use[c] \cup Copied(d, c) |->
                          IF v \in Copied(d, c) THEN n ELSE use[c][v]]]
VarsWith(n, t) ==
    [vars EXCEPT ![cur] = [v \in DOMAIN @ \cup {n} |-> IF v = n THEN t ELSE @[v]]]

AddVariable(n) ==
    /\ At("variables") /\ n \in todo
    /\ LET d == doc[cur].vars[n]
           t == NewType(d)
           ok == Created(t) /\ Destinations(d, t)
       IN  \/ /\ ~ ok
              /\ Fail
           \/ /\ ok
              /\ todo' = todo \ {n}
              /\ vars' = VarsWith(n, t) /\ res' = ResWith(n, d) /\ use' = UseWith(n, d)
              /\ UNCHANGED <<input, stage, failed, cur, phase, decoded>>

(* The operands of a condition are looked for in the block that holds the  *)
(* unit, a child or a subprogram.                                          *)
Powered_ByOwn(c) == doc[c].power \subseteq DOMAIN doc[c].vars
Powered(c) == doc[c].power \subseteq DOMAIN doc[cur].vars
AddChildren ==
    /\ todo = {}
    /\ Check("variables", \A c \in Kids(cur) : Powered(c), "subprograms")

SubPowered(s) == s.power \subseteq DOMAIN doc[cur].vars
AddSubprograms ==
    Check("subprograms", \A s \in doc[cur].subs : SubPowered(s), "setups")

AddSetups ==
    Check("setups",
          \A s \in doc[cur].setups :
              s.of # "else" /\ s.name \in DOMAIN doc[cur].vars /\ s.fits,
          "class")

(* What the map of a class must give and what it may (the readers of       *)
(* loader/yaml_block_class_*.hpp); a class of a library decides for itself.*)
Both(f, g) == [must |-> f.must \cup g.must, may |-> f.may \cup g.may]
VariableFields == [must |-> {"name", "offset", "variable size"}, may |-> {"read", "write"}]
MemoryFields ==
    Both(VariableFields,
         [must |-> {"memory name", "locker name", "description", "memory size", "variables"},
          may  |-> {"priority", "protocol"}])
AddressFields == [must |-> {"address", "ip", "port"}, may |-> {}]
BufferFields == [must |-> {"buffer size", "variables"}, may |-> {}]
UdpFields ==
    Both(Both(VariableFields, BufferFields),
         Both(AddressFields,
              [must |-> {"exchange", "direction", "priority", "buffers"}, may |-> {}]))

Reads(d, f) == f.must \cap d.missing = {} /\ (f.must \cup f.may) \cap d.wrong = {}
ReadsConfig(d) ==
    CASE d.class = "memory" -> Reads(d, MemoryFields)
      [] d.class = "udp"    -> Reads(d, UdpFields)
      [] OTHER              -> d.class = "library"

(* The class must be known, read its map, find its variables in the block  *)
(* and be able to join.                                                    *)
Joins ==
    \/ doc[cur].class = "none"
    \/ /\ ReadsConfig(doc[cur])
       /\ doc[cur].needs \subseteq DOMAIN vars[cur]
       /\ doc[cur].accepts
JoinClass == Check("class", Joins, "return")

Return ==
    /\ At("return")
    /\ decoded' = decoded \cup {cur}
    /\ IF cur = Root THEN Enter(NoBlock, "loaded") ELSE Enter(Parent[cur], "children")
    /\ UNCHANGED <<input, stage, failed, todo, wiring>>
----------------------------------------------------------------------------
Config == ParseCmdline \/ FindConfFile \/ LoadTaskConfig \/ LoadTask \/ Ready
Decode ==
    \/ Fields \/ CreateBlock \/ AddChildren \/ AddSubprograms \/ AddSetups
    \/ JoinClass \/ Return
    \/ \E c \in Block : DecodeChild(c)
    \/ \E n \in Name : AddVariable(n)

Next == Config \/ Decode
Spec == Init /\ [][Next]_all
FairSpec == Spec /\ WF_all(Next)
----------------------------------------------------------------------------
Partial(T) == UNION {[S -> T] : S \in SUBSET Name}
Stage == {"eConstructed", "eMainConfigLoaded", "eTaskPathLoaded",
          "eTaskConfigLoaded", "eReady"}
Phase == {"config", "fields", "children", "variables", "subprograms", "setups",
          "class", "return", "loaded"}

(* Every variable has a value of its kind; no variable was added without a *)
(* type (Block::_vars of kernel/block.hpp holds objects of a known type).  *)
TypeOK ==
    /\ doc \in Docs /\ broken \in Broken
    /\ stage \in Stage /\ failed \in BOOLEAN
    /\ cur \in Block \cup {NoBlock} /\ phase \in Phase
    /\ todo \subseteq Name /\ decoded \subseteq Block
    /\ vars \in [Block -> Partial(Type)]
    /\ use \in [Block -> Partial(Name)] /\ res \in [Block -> Partial(Name)]

(* What BlockTree takes for granted of a block and the unit c it holds:    *)
(* a use variable of c exists on both sides with one type, and so does a   *)
(* return variable (read_variables and write_variables of kernel/block.hpp *)
(* look them up unchecked, and a value of another type is thrown out as    *)
(* bad_cast in the middle of a step).                                      *)
SameOnBothSides(c, inC, inParent) ==
    /\ inC \in DOMAIN vars[c]
    /\ inParent \in DOMAIN vars[Parent[c]]
    /\ vars[c][inC] = vars[Parent[c]][inParent]
Wired ==
    \A c \in Child :
        /\ \A v \in DOMAIN use[c] : SameOnBothSides(c, v, use[c][v])
        /\ \A v \in DOMAIN res[c] : SameOnBothSides(c, res[c][v], v)

(* In a block that was decoded, every operand of a condition and every     *)
(* variable of a setup is a variable of the block it is looked for in: the *)
(* condition of a unit is solved in the block above (kernel/callable.hpp), *)
(* a setup is written to the block itself (kernel/block.hpp).              *)
OperandsExist ==
    \A b \in decoded :
        /\ \A c \in Kids(b) : doc[c].power \subseteq DOMAIN vars[b]
        /\ \A s \in doc[b].subs : s.power \subseteq DOMAIN vars[b]
        /\ \A s \in doc[b].setups : s.name \in DOMAIN vars[b]
----------------------------------------------------------------------------
(* What a task file means.  The types of the variables of block b, given   *)
(* those of its units: a copied variable has the type of its source; a     *)
(* source that is no unit of the block or has no such variable has none.   *)
Exists(D, b, p) == p[1] \in Kids(b) /\ p[2] \in DOMAIN D[p[1]].vars
Typed(D, type, b) ==
    [n \in DOMAIN D[b].vars |->
        LET d == D[b].vars[n]
        IN  IF d.source = Own THEN d.type
            ELSE IF Exists(D, b, d.source) THEN type[d.source[1]][d.source[2]]
            ELSE NoType]
TypeOf(D) == LET type[b \in Block] == Typed(D, type, b) IN type

(* A file is sound: every variable has a type, the same as each variable   *)
(* it is copied to, which exists and has no other source; every block is   *)
(* complete and names only variables that its block has.                   *)
SoundVars(D, b) ==
    \A n \in DOMAIN D[b].vars :
        /\ TypeOf(D)[b][n] # NoType
        /\ \A p \in D[b].vars[n].to :
              /\ Exists(D, b, p)
              /\ TypeOf(D)[p[1]][p[2]] = TypeOf(D)[b][n]
              /\ \A m \in DOMAIN D[b].vars : p \in D[b].vars[m].to => m = n
SoundRest(D, b) ==
    LET names == DOMAIN D[b].vars
    IN  /\ D[b].formed
        /\ \A c \in Kids(b) : D[c].power \subseteq names
        /\ \A s \in D[b].subs : s.known /\ s.power \subseteq names
        /\ \A s \in D[b].setups : s.of # "else" /\ s.name \in names /\ s.fits
        /\ \/ D[b].class = "none"
           \/ ReadsConfig(D[b]) /\ D[b].accepts /\ D[b].needs \subseteq names
Sound(D) == \A b \in Block : SoundVars(D, b) /\ SoundRest(D, b)

(* What the program starts with is sound as a whole, whatever order the    *)
(* parts were decoded in, and nothing of the file was left out: main()     *)
(* runs the dispatcher only when the stage is eReady.                      *)
OnlySoundLoads ==
    stage = "eReady" => Sound(doc) /\ broken = {} /\ decoded = Block
=============================================================================
