---------------------------- MODULE LoaderProofs ----------------------------
(***************************************************************************)
(* Proofs about Loader, for every tree of blocks and every set of task     *)
(* files.                                                                  *)
(***************************************************************************)
EXTENDS Loader, TLAPS

(* No block holds itself: without it the others would be all the blocks.   *)
LEMMA NoOwnParent == \A c \in Child : Parent[c] # c
<1> SUFFICES ASSUME NEW c \in Child, Parent[c] = c PROVE FALSE
  OBVIOUS
<1>1. Root \in Block \ {c} /\ \A b \in Block \ {c} : Kids(b) \subseteq Block \ {c}
  BY LoaderAssumption DEF Child, Kids
<1>2. Block \ {c} = Block
  BY <1>1, LoaderAssumption
<1> QED BY <1>2 DEF Child

(* A partial function is a function from a set of names.                   *)
LEMMA PartialType ==
    ASSUME NEW T, NEW f
    PROVE  f \in Partial(T) <=> (DOMAIN f \subseteq Name /\ f \in [DOMAIN f -> T])
BY DEF Partial

(* What is known of the description of a variable of the file.             *)
LEMMA DescType ==
    ASSUME TypeOK, cur \in Block, NEW n \in DOMAIN doc[cur].vars
    PROVE  /\ n \in Name
           /\ doc[cur].vars[n].source = Own \/ doc[cur].vars[n].source \in Place
           /\ doc[cur].vars[n].type \in Type \cup {NoType}
           /\ doc[cur].vars[n].to \subseteq Place
<1>1. /\ doc[cur].vars \in [DOMAIN doc[cur].vars -> VarDesc]
      /\ DOMAIN doc[cur].vars \subseteq Name
  BY LoaderAssumption DEF TypeOK
<1> QED BY <1>1 DEF VarDesc

(* A variable that can be created has a type; a copied one has a source    *)
(* with that type in a unit of the block.                                  *)
LEMMA NewVariable ==
    ASSUME TypeOK, cur \in Block, NEW n \in DOMAIN doc[cur].vars,
           Created(NewType(doc[cur].vars[n]))
    PROVE  LET d == doc[cur].vars[n]
           IN  /\ NewType(d) \in Type
               /\ d.source # Own =>
                      /\ Given(d.source) /\ d.source \in Place
                      /\ NewType(d) = vars[d.source[1]][d.source[2]]
<1> DEFINE d == doc[cur].vars[n]
<1>1. /\ d.source = Own \/ d.source \in Place
      /\ d.type \in Type \cup {NoType}
  BY DescType
<1> HIDE DEF d
<1>2. CASE d.source = Own
  BY <1>1, <1>2 DEF Created, NewType, d
<1>3. CASE d.source # Own
  <2>1. Given(d.source) /\ NewType(d) = vars[d.source[1]][d.source[2]]
    BY <1>3 DEF Created, NewType, d
  <2>2. d.source[1] \in Block
    BY <1>1, <1>3 DEF Place
  <2>3. vars[d.source[1]] \in [DOMAIN vars[d.source[1]] -> Type]
    BY <2>2, PartialType DEF TypeOK
  <2> QED BY <1>1, <1>3, <2>1, <2>3 DEF Given, d
<1> QED BY <1>2, <1>3

(* A variable that is added leaves the others as they are, in its block    *)
(* and elsewhere.                                                          *)
LEMMA VarsAdded ==
    ASSUME TypeOK, cur \in Block, NEW n \in Name, NEW t \in Type, NEW vs, vs = VarsWith(n, t)
    PROVE  /\ vs \in [Block -> Partial(Type)]
           /\ DOMAIN vs[cur] = DOMAIN vars[cur] \cup {n} /\ vs[cur][n] = t
           /\ \A v \in DOMAIN vars[cur] : v # n => vs[cur][v] = vars[cur][v]
           /\ \A b \in Block : b # cur => vs[b] = vars[b]
<1> DEFINE g == [v \in DOMAIN vars[cur] \cup {n} |-> IF v = n THEN t ELSE vars[cur][v]]
<1>1. vs = [vars EXCEPT ![cur] = g]
  BY DEF VarsWith
<1>2. vars \in [Block -> Partial(Type)]
  BY DEF TypeOK
<1>3. DOMAIN vars[cur] \subseteq Name /\ vars[cur] \in [DOMAIN vars[cur] -> Type]
  BY <1>2, PartialType
<1>4. /\ g \in [DOMAIN vars[cur] \cup {n} -> Type]
      /\ g[n] = t /\ \A v \in DOMAIN vars[cur] : v # n => g[v] = vars[cur][v]
  BY <1>3
<1> HIDE DEF g
<1>5. g \in Partial(Type) /\ DOMAIN g = DOMAIN vars[cur] \cup {n}
  BY <1>3, <1>4, PartialType
<1> QED BY <1>1, <1>2, <1>4, <1>5

(* The use variables of a unit after a variable was added.                 *)
LEMMA UseAdded ==
    ASSUME TypeOK, cur \in Block, NEW n \in DOMAIN doc[cur].vars,
           NEW us, us = UseWith(n, doc[cur].vars[n])
    PROVE  /\ us \in [Block -> Partial(Name)]
           /\ \A c \in Block : \A v \in DOMAIN us[c] :
                 \/ v \in Copied(doc[cur].vars[n], c) /\ us[c][v] = n
                 \/ v \in DOMAIN use[c] /\ us[c][v] = use[c][v]
<1> DEFINE d == doc[cur].vars[n]
           g(c) == [v \in DOMAIN use[c] \cup Copied(d, c) |->
                       IF v \in Copied(d, c) THEN n ELSE use[c][v]]
<1>1. us = [c \in Block |-> g(c)]
  BY Zenon DEF UseWith
<1>2. ASSUME NEW c \in Block
      PROVE  /\ g(c) \in Partial(Name)
             /\ \A v \in DOMAIN g(c) :
                   \/ v \in Copied(d, c) /\ g(c)[v] = n
                   \/ v \in DOMAIN use[c] /\ g(c)[v] = use[c][v]
  <2> DEFINE D == DOMAIN use[c] \cup Copied(d, c)
             h == g(c)
  <2>1. use[c] \in Partial(Name) /\ n \in Name /\ Copied(d, c) \subseteq Name
    BY DescType DEF TypeOK, Copied
  <2>2. DOMAIN use[c] \subseteq Name /\ use[c] \in [DOMAIN use[c] -> Name]
    BY <2>1, PartialType
  <2>3. /\ h \in [D -> Name]
        /\ \A v \in D : h[v] = IF v \in Copied(d, c) THEN n ELSE use[c][v]
    BY <2>1, <2>2
  <2> HIDE DEF h
  <2>4. h \in Partial(Name) /\ DOMAIN h = D
    BY <2>1, <2>2, <2>3, PartialType
  <2> QED BY <2>3, <2>4 DEF h
<1> HIDE DEF g, d
<1>3. \A c \in Block : us[c] = g(c)
  BY <1>1
<1>4. us \in [Block -> Partial(Name)]
  BY <1>1, <1>2
<1> QED BY <1>2, <1>3, <1>4 DEF d

(* The return variables of a unit after a variable was added.              *)
LEMMA ResAdded ==
    ASSUME TypeOK, cur \in Block, NEW n \in DOMAIN doc[cur].vars,
           NEW rs, rs = ResWith(n, doc[cur].vars[n])
    PROVE  /\ rs \in [Block -> Partial(Name)]
           /\ \A c \in Block : \A v \in DOMAIN rs[c] :
                 \/ /\ doc[cur].vars[n].source # Own /\ v = n
                    /\ c = doc[cur].vars[n].source[1]
                    /\ rs[c][v] = doc[cur].vars[n].source[2]
                 \/ v \in DOMAIN res[c] /\ rs[c][v] = res[c][v]
<1> DEFINE d == doc[cur].vars[n]
           b == d.source[1]
           g == [v \in DOMAIN res[b] \cup {n} |-> IF v = n THEN d.source[2] ELSE res[b][v]]
<1>1. res \in [Block -> Partial(Name)]
  BY DEF TypeOK
<1>2. CASE d.source = Own
  <2>1. rs = res
    BY <1>2 DEF ResWith
  <2> QED BY <1>1, <2>1
<1>3. CASE d.source # Own
  <2>1. rs = [res EXCEPT ![b] = g]
    BY <1>3 DEF ResWith
  <2>2. n \in Name /\ b \in Block /\ d.source[2] \in Name
    BY <1>3, DescType DEF Place
  <2>3. res[b] \in Partial(Name)
    BY <1>1, <2>2
  <2>4. DOMAIN res[b] \subseteq Name /\ res[b] \in [DOMAIN res[b] -> Name]
    BY <2>3, PartialType
  <2> HIDE DEF b
  <2>5. /\ g \in [DOMAIN res[b] \cup {n} -> Name]
        /\ g[n] = d.source[2] /\ \A v \in DOMAIN res[b] : v # n => g[v] = res[b][v]
    BY <2>2, <2>4
  <2> HIDE DEF g
  <2>6. g \in Partial(Name) /\ DOMAIN g = DOMAIN res[b] \cup {n}
    BY <2>2, <2>4, <2>5, PartialType
  <2>7. rs \in [Block -> Partial(Name)] /\ \A c \in Block : rs[c] = IF c = b THEN g ELSE res[c]
    BY <1>1, <2>1, <2>2, <2>6
  <2> QED BY <1>3, <2>5, <2>6, <2>7 DEF b
<1> QED BY <1>2, <1>3
----------------------------------------------------------------------------
(* The steps of Next as the invariants see them: a stage or a failure, the *)
(* start of the decoding, a part of decode() that passes its check, a      *)
(* variable that is added.                                                 *)
Still == UNCHANGED <<input, cur, phase, todo, decoded, wiring>>
Begins == phase = "config" /\ Enter(Root, "fields") /\ UNCHANGED <<input, todo, decoded, wiring>>
Passes(where, next) ==
    At(where) /\ phase' = next /\ UNCHANGED <<input, cur, todo, decoded, wiring>>
Creates ==
    /\ At("children") /\ Kids(cur) \subseteq decoded
    /\ \A s \in doc[cur].subs : s.known
    /\ phase' = "variables" /\ todo' = DOMAIN doc[cur].vars
    /\ UNCHANGED <<input, cur, decoded, wiring>>
Adds(n) ==
    /\ At("variables") /\ n \in todo /\ todo' = todo \ {n}
    /\ LET d == doc[cur].vars[n]
       IN  /\ Created(NewType(d)) /\ Destinations(d, NewType(d))
           /\ vars' = VarsWith(n, NewType(d)) /\ res' = ResWith(n, d) /\ use' = UseWith(n, d)
    /\ UNCHANGED <<input, cur, phase, decoded>>

PassesFields == doc[cur].formed /\ Passes("fields", "children")
PassesChildren == todo = {} /\ (\A c \in Kids(cur) : Powered(c)) /\ Passes("variables", "subprograms")
PassesSubprograms == (\A s \in doc[cur].subs : SubPowered(s)) /\ Passes("subprograms", "setups")
SetupRight(s, b) == s.of # "else" /\ s.name \in DOMAIN doc[b].vars /\ s.fits
PassesSetups == (\A s \in doc[cur].setups : SetupRight(s, cur)) /\ Passes("setups", "class")
PassesClass == Joins /\ Passes("class", "return")

Step ==
    \/ Still \/ Begins \/ PassesFields \/ Creates \/ PassesChildren \/ PassesSubprograms
    \/ PassesSetups \/ PassesClass \/ Return
    \/ \E c \in Block : DecodeChild(c)
    \/ \E n \in Name : Adds(n)

LEMMA StepKinds == [Next]_all => Step
<1> SUFFICES ASSUME [Next]_all PROVE Step
  OBVIOUS
<1> USE DEF Step, input, wiring
<1>1. ASSUME Fail PROVE Still
  BY <1>1 DEF Fail, Still
<1>2. ASSUME NEW from, NEW parts, NEW to, Advance(from, parts, to) PROVE Still
  BY <1>1, <1>2 DEF Advance, Still
<1>3. ASSUME NEW where, NEW ok, NEW next, Check(where, ok, next)
      PROVE  Still \/ (ok /\ Passes(where, next))
  BY <1>1, <1>3 DEF Check, Passes
<1>4. CASE ParseCmdline \/ FindConfFile \/ LoadTaskConfig
  BY <1>2, <1>4 DEF ParseCmdline, FindConfFile, LoadTaskConfig
<1>5. CASE LoadTask
  BY <1>1, <1>5 DEF LoadTask, InConfig, Begins
<1>6. CASE Ready
  BY <1>6 DEF Ready, Still
<1>7. CASE Fields \/ JoinClass
  BY <1>3, <1>7 DEF Fields, JoinClass, PassesFields, PassesClass
<1>8. CASE CreateBlock
  BY <1>1, <1>8 DEF CreateBlock, Creates
<1>9. CASE AddChildren
  BY <1>3, <1>9 DEF AddChildren, PassesChildren
<1>10. CASE AddSubprograms
  BY <1>3, <1>10 DEF AddSubprograms, PassesSubprograms
<1>11. CASE AddSetups
  BY <1>3, <1>11 DEF AddSetups, PassesSetups, SetupRight
<1>12. ASSUME NEW n \in Name, AddVariable(n) PROVE Still \/ Adds(n)
  BY <1>1, <1>12 DEF AddVariable, Adds
<1>13. CASE UNCHANGED all
  BY <1>13 DEF all, Still
<1> QED BY <1>4, <1>5, <1>6, <1>7, <1>8, <1>9, <1>10, <1>11, <1>12, <1>13
       DEF Next, Config, Decode
----------------------------------------------------------------------------
(* The order of decoding: a decoded block has all its variables, and so do *)
(* the units it holds; a block gets its variables only when its units are  *)
(* decoded; the variables still to be added are those it lacks.            *)
Late == {"variables", "subprograms", "setups", "class", "return"}
Order ==
    /\ phase = "config" => decoded = {}
    /\ cur \notin decoded
    /\ \A b \in decoded : Kids(b) \subseteq decoded /\ DOMAIN vars[b] = DOMAIN doc[b].vars
    /\ phase \in Late => cur \in Block /\ Kids(cur) \subseteq decoded
    /\ \A b \in Block \ decoded : (b = cur => phase \notin Late) => DOMAIN vars[b] = {}
    /\ phase = "variables" =>
          /\ todo \cap DOMAIN vars[cur] = {}
          /\ todo \cup DOMAIN vars[cur] = DOMAIN doc[cur].vars
    /\ phase \in Late \ {"variables"} => DOMAIN vars[cur] = DOMAIN doc[cur].vars

(* What a successful addition does to the three maps.                      *)
LEMMA Addition ==
    ASSUME TypeOK, Order, NEW n \in Name, Adds(n)
    PROVE  LET d == doc[cur].vars[n]
           IN  /\ cur \in Block /\ n \in DOMAIN doc[cur].vars /\ n \notin DOMAIN vars[cur]
               /\ NewType(d) \in Type
               /\ vars' = VarsWith(n, NewType(d)) /\ Destinations(d, NewType(d))
               /\ res' = ResWith(n, d) /\ use' = UseWith(n, d)
<1> DEFINE d == doc[cur].vars[n]
<1>1. /\ cur \in Block /\ phase = "variables" /\ n \in todo
      /\ Created(NewType(d)) /\ Destinations(d, NewType(d))
      /\ vars' = VarsWith(n, NewType(d)) /\ res' = ResWith(n, d) /\ use' = UseWith(n, d)
  BY DEF Adds, At
<1>2. n \in DOMAIN doc[cur].vars /\ n \notin DOMAIN vars[cur]
  BY <1>1 DEF Order
<1>3. NewType(d) \in Type
  BY <1>1, <1>2, NewVariable
<1> QED BY <1>1, <1>2, <1>3

LEMMA TypeStep ==
    ASSUME TypeOK, Order, [Next]_all
    PROVE  TypeOK'
<1>1. stage' \in Stage /\ failed' \in BOOLEAN
  <2>1. stage' = stage \/ stage' \in Stage
    BY DEF Next, Config, Decode, ParseCmdline, FindConfFile, LoadTaskConfig, Advance,
       LoadTask, Ready, Fields, CreateBlock, AddChildren, AddSubprograms, AddSetups,
       JoinClass, Return, DecodeChild, AddVariable, Check, Fail, Stage, all
  <2>2. failed' = failed \/ failed' = TRUE
    BY DEF Next, Config, Decode, ParseCmdline, FindConfFile, LoadTaskConfig, Advance,
       LoadTask, Ready, Fields, CreateBlock, AddChildren, AddSubprograms, AddSetups,
       JoinClass, Return, DecodeChild, AddVariable, Check, Fail, all
  <2>3. stage \in Stage /\ failed \in BOOLEAN
    BY DEF TypeOK
  <2> QED BY <2>1, <2>2, <2>3
<1> USE LoaderAssumption DEF input, wiring
<1> DEFINE Others ==
        /\ doc \in Docs /\ broken \in Broken
        /\ cur \in Block \cup {NoBlock} /\ phase \in Phase
        /\ todo \subseteq Name /\ decoded \subseteq Block
        /\ vars \in [Block -> Partial(Type)]
        /\ use \in [Block -> Partial(Name)] /\ res \in [Block -> Partial(Name)]
<1>2. Others'
  <2> USE DEF TypeOK, Phase
  <2>0. Step
    BY StepKinds
  <2>1. CASE Still
    BY <2>1 DEF Still
  <2>2. CASE Begins
    BY <2>2 DEF Begins, Enter
  <2>3. CASE Creates
    BY <2>3 DEF Creates, At
  <2>4. ASSUME NEW where, NEW next \in Phase, Passes(where, next)
        PROVE  Others'
    BY <2>4 DEF Passes
  <2>5. CASE PassesChildren \/ PassesSubprograms \/ PassesSetups
            \/ PassesFields \/ PassesClass
    BY <2>4, <2>5 DEF PassesFields, PassesChildren, PassesSubprograms, PassesSetups,
       PassesClass
  <2>6. CASE Return
    BY <2>6 DEF Return, At, Enter, Child
  <2>7. ASSUME NEW c \in Block, DecodeChild(c) PROVE Others'
    BY <2>7 DEF DecodeChild, Enter
  <2>8. ASSUME NEW n \in Name, Adds(n) PROVE Others'
    <3>1. vars' \in [Block -> Partial(Type)]
      BY <2>8, Addition, VarsAdded
    <3>2. use' \in [Block -> Partial(Name)]
      BY <2>8, Addition, UseAdded
    <3>3. res' \in [Block -> Partial(Name)]
      BY <2>8, Addition, ResAdded
    <3> QED BY <2>8, <3>1, <3>2, <3>3 DEF Adds
  <2> QED BY <2>0, <2>1, <2>2, <2>3, <2>5, <2>6, <2>7, <2>8 DEF Step
<1> QED BY <1>1, <1>2 DEF TypeOK

LEMMA OrderStep ==
    ASSUME TypeOK, Order, [Next]_all
    PROVE  Order'
<1> USE LoaderAssumption DEF input, wiring, Late
<1>0. Step
  BY StepKinds
<1>1. CASE Still
  BY <1>1 DEF Still, Order
<1>2. CASE Begins
  BY <1>2 DEF Begins, Enter, Order
<1>3. CASE Creates
  BY <1>3 DEF Creates, At, Order
<1>4. CASE PassesChildren
  BY <1>4 DEF PassesChildren, Passes, At, Order
<1>5. CASE PassesSubprograms \/ PassesSetups \/ PassesClass
  BY <1>5 DEF PassesSubprograms, PassesSetups, PassesClass, Passes, At, Order
<1>6. CASE PassesFields
  BY <1>6 DEF PassesFields, Passes, At, Order
<1>7. CASE Return
  <2>1. /\ phase = "return" /\ cur \in Block /\ decoded' = decoded \cup {cur}
        /\ UNCHANGED <<doc, vars>>
    BY <1>7 DEF Return, At
  <2>2. /\ Kids(cur) \subseteq decoded /\ DOMAIN vars[cur] = DOMAIN doc[cur].vars
        /\ cur \notin decoded
    BY <2>1 DEF Order
  <2>3. phase' \in {"loaded", "children"} /\ cur' \notin decoded'
    <3>1. CASE cur = Root
      BY <1>7, <2>1, <3>1 DEF Return, Enter, TypeOK
    <3>2. CASE cur # Root
      <4>1. cur' = Parent[cur] /\ phase' = "children"
        BY <1>7, <3>2 DEF Return, Enter
      <4>2. cur \in Kids(Parent[cur]) /\ Parent[cur] # cur
        BY <2>1, <3>2, NoOwnParent DEF Kids, Child
      <4>3. Parent[cur] \notin decoded
        BY <2>2, <4>2 DEF Order
      <4> QED BY <2>1, <4>1, <4>2, <4>3
    <3> QED BY <3>1, <3>2
  <2> QED BY <2>1, <2>2, <2>3 DEF Order
<1>8. ASSUME NEW c \in Block, DecodeChild(c) PROVE Order'
  BY <1>8 DEF DecodeChild, At, Enter, Order
<1>9. ASSUME NEW n \in Name, Adds(n) PROVE Order'
  <2> DEFINE t == NewType(doc[cur].vars[n])
  <2>1. /\ cur \in Block /\ n \in DOMAIN doc[cur].vars /\ n \notin DOMAIN vars[cur]
        /\ t \in Type /\ vars' = VarsWith(n, t)
    BY <1>9, Addition
  <2>2. /\ DOMAIN vars'[cur] = DOMAIN vars[cur] \cup {n}
        /\ \A b \in Block : b # cur => vars'[b] = vars[b]
    BY <2>1, VarsAdded
  <2>3. /\ phase = "variables" /\ todo' = todo \ {n} /\ n \in todo
        /\ UNCHANGED <<doc, cur, phase, decoded>>
    BY <1>9 DEF Adds, At
  <2>4. cur \notin decoded /\ decoded \subseteq Block
    BY DEF Order, TypeOK
  <2> HIDE DEF t
  <2> QED BY <2>1, <2>2, <2>3, <2>4 DEF Order
<1> QED BY <1>0, <1>1, <1>2, <1>3, <1>4, <1>5, <1>6, <1>7, <1>8, <1>9 DEF Step

LEMMA Initially == Init => TypeOK /\ Order
<1> SUFFICES ASSUME Init PROVE TypeOK /\ Order
  OBVIOUS
<1>1. \A T : None \in Partial(T)
  BY PartialType DEF None
<1>2. /\ vars \in [Block -> Partial(Type)]
      /\ use \in [Block -> Partial(Name)] /\ res \in [Block -> Partial(Name)]
  BY <1>1 DEF Init
<1>3. stage \in Stage /\ phase \in Phase
  BY DEF Init, Stage, Phase
<1>4. failed \in BOOLEAN
  BY Zenon DEF Init
<1>5. TypeOK
  BY <1>2, <1>3, <1>4 DEF Init, TypeOK
<1>6. Order
  BY DEF Init, Order, Late, None
<1> QED BY <1>5, <1>6

(* Every part of the loader's state keeps its type: a variable of a block  *)
(* is never without one.                                                   *)
THEOREM TypeCorrect == Spec => []TypeOK
<1>1. TypeOK /\ Order /\ [Next]_all => TypeOK' /\ Order'
  BY TypeStep, OrderStep
<1> QED BY <1>1, Initially, PTL DEF Spec

(* Units are decoded before the block that holds them, each block once,    *)
(* and a decoded block has exactly the variables of its map in the file.   *)
THEOREM DecodedInOrder == Spec => [](TypeOK /\ Order)
<1>1. TypeOK /\ Order /\ [Next]_all => TypeOK' /\ Order'
  BY TypeStep, OrderStep
<1> QED BY <1>1, Initially, PTL DEF Spec
----------------------------------------------------------------------------
(* Adding a variable keeps those of all blocks.                            *)
LEMMA VarsKept ==
    ASSUME TypeOK, Order, NEW n \in Name, Adds(n)
    PROVE  /\ vars'[cur][n] = NewType(doc[cur].vars[n]) /\ n \in DOMAIN vars'[cur]
           /\ \A b \in Block : \A v \in DOMAIN vars[b] :
                 v \in DOMAIN vars'[b] /\ vars'[b][v] = vars[b][v]
<1> DEFINE t == NewType(doc[cur].vars[n])
<1>1. /\ cur \in Block /\ n \notin DOMAIN vars[cur]
      /\ t \in Type /\ vars' = VarsWith(n, t)
  BY Addition
<1> HIDE DEF t
<1>2. /\ DOMAIN vars'[cur] = DOMAIN vars[cur] \cup {n} /\ vars'[cur][n] = t
      /\ \A v \in DOMAIN vars[cur] : v # n => vars'[cur][v] = vars[cur][v]
      /\ \A b \in Block : b # cur => vars'[b] = vars[b]
  BY <1>1, VarsAdded
<1> QED BY <1>1, <1>2 DEF t

LEMMA WiredStep ==
    ASSUME TypeOK, Order, Wired, [Next]_all
    PROVE  Wired'
<1> USE LoaderAssumption
<1>1. CASE UNCHANGED wiring
  BY <1>1 DEF wiring, Wired, SameOnBothSides
<1>2. ASSUME NEW n \in Name, Adds(n) PROVE Wired'
  <2> DEFINE d == doc[cur].vars[n]
             t == NewType(d)
  <2>1. /\ cur \in Block /\ n \in DOMAIN doc[cur].vars
        /\ Created(t) /\ Destinations(d, t)
        /\ res' = ResWith(n, d) /\ use' = UseWith(n, d)
    BY <1>2, Addition DEF Adds
  <2>2. /\ vars'[cur][n] = t /\ n \in DOMAIN vars'[cur]
        /\ \A b \in Block : \A v \in DOMAIN vars[b] :
              v \in DOMAIN vars'[b] /\ vars'[b][v] = vars[b][v]
    BY <1>2, VarsKept
  <2>3. d.source # Own =>
           /\ Given(d.source) /\ t = vars[d.source[1]][d.source[2]]
    BY <2>1, NewVariable
  <2>4. \A c \in Block : \A v \in DOMAIN use'[c] :
           \/ v \in Copied(d, c) /\ use'[c][v] = n
           \/ v \in DOMAIN use[c] /\ use'[c][v] = use[c][v]
    BY <2>1, UseAdded
  <2>5. \A c \in Block : \A v \in DOMAIN res'[c] :
           \/ d.source # Own /\ v = n /\ c = d.source[1] /\ res'[c][v] = d.source[2]
           \/ v \in DOMAIN res[c] /\ res'[c][v] = res[c][v]
    BY <2>1, ResAdded
  <2> HIDE DEF d, t
  <2>6. ASSUME NEW c \in Child, NEW inC, NEW inParent, SameOnBothSides(c, inC, inParent)
        PROVE  SameOnBothSides(c, inC, inParent)'
    BY <2>2, <2>6 DEF SameOnBothSides, Child
  <2>7. ASSUME NEW c \in Child, NEW v \in DOMAIN use'[c]
        PROVE  SameOnBothSides(c, v, use[c][v])'
    <3>1. CASE v \in Copied(d, c) /\ use'[c][v] = n
      <4>1. c \in Kids(cur) /\ v \in DOMAIN vars[c] /\ vars[c][v] = t
        BY <2>1, <3>1 DEF Copied, Destinations, Given, SameType
      <4> QED BY <2>2, <3>1, <4>1 DEF SameOnBothSides, Kids, Child
    <3>2. CASE v \in DOMAIN use[c] /\ use'[c][v] = use[c][v]
      BY <2>6, <3>2 DEF Wired
    <3> QED BY <2>4, <3>1, <3>2 DEF Child
  <2>8. ASSUME NEW c \in Child, NEW v \in DOMAIN res'[c]
        PROVE  SameOnBothSides(c, res[c][v], v)'
    <3>1. CASE d.source # Own /\ v = n /\ c = d.source[1] /\ res'[c][v] = d.source[2]
      <4>1. c \in Kids(cur) /\ d.source[2] \in DOMAIN vars[c] /\ vars[c][d.source[2]] = t
        BY <2>3, <3>1 DEF Given
      <4> QED BY <2>2, <3>1, <4>1 DEF SameOnBothSides, Kids, Child
    <3>2. CASE v \in DOMAIN res[c] /\ res'[c][v] = res[c][v]
      BY <2>6, <3>2 DEF Wired
    <3> QED BY <2>5, <3>1, <3>2 DEF Child
  <2> QED BY <2>7, <2>8 DEF Wired
<1>3. UNCHANGED wiring \/ \E n \in Name : Adds(n)
  BY StepKinds DEF Step, Still, Begins, PassesFields, Creates, PassesChildren,
     PassesSubprograms, PassesSetups, PassesClass, Passes, Return, DecodeChild
<1> QED BY <1>1, <1>2, <1>3

(* A use or return variable exists in the unit and in the block that holds *)
(* it, with one type, in every state of every load: what read_variables()  *)
(* and write_variables() of kernel/block.hpp rely on.                      *)
THEOREM WiringIsSound == Spec => []Wired
<1>1. Init => Wired
  BY DEF Init, Wired, None, Child
<1>2. TypeOK /\ Order /\ Wired /\ [Next]_all => Wired'
  BY WiredStep
<1> QED BY <1>1, <1>2, DecodedInOrder, PTL DEF Spec
----------------------------------------------------------------------------
(* What the checks of decode() have shown of a block so far.               *)
UnitsChecked(b) == \A c \in Kids(b) : doc[c].power \subseteq DOMAIN doc[b].vars
FunctionsChecked(b) == \A s \in doc[b].subs : s.known
SubsChecked(b) == \A s \in doc[b].subs : s.power \subseteq DOMAIN doc[b].vars
SetupsChecked(b) == \A s \in doc[b].setups : SetupRight(s, b)
ClassChecked(b) ==
    \/ doc[b].class = "none"
    \/ ReadsConfig(doc[b]) /\ doc[b].accepts /\ doc[b].needs \subseteq DOMAIN doc[b].vars
Checked ==
    /\ \A b \in decoded : /\ UnitsChecked(b) /\ FunctionsChecked(b) /\ SubsChecked(b)
                          /\ SetupsChecked(b) /\ ClassChecked(b)
    /\ phase \in Late => FunctionsChecked(cur)
    /\ phase \in {"subprograms", "setups", "class", "return"} => UnitsChecked(cur)
    /\ phase \in {"setups", "class", "return"} => SubsChecked(cur)
    /\ phase \in {"class", "return"} => SetupsChecked(cur)
    /\ phase = "return" => ClassChecked(cur)

LEMMA CheckedStep ==
    ASSUME Order, Checked, [Next]_all
    PROVE  Checked'
<1> USE DEF Checked, UnitsChecked, FunctionsChecked, SubsChecked, SetupsChecked, ClassChecked,
        SetupRight, Late, input
<1>0. Step
  BY StepKinds
<1>1. CASE Still
  BY <1>1 DEF Still
<1>2. CASE Begins
  BY <1>2 DEF Begins, Enter
<1>3. CASE Creates
  BY <1>3 DEF Creates
<1>4. CASE PassesChildren
  BY <1>4 DEF PassesChildren, Passes, At, Powered
<1>5. CASE PassesSubprograms
  BY <1>5 DEF PassesSubprograms, Passes, At, SubPowered
<1>6. CASE PassesSetups
  BY <1>6 DEF PassesSetups, Passes, At
<1>7. CASE PassesFields
  BY <1>7 DEF PassesFields, Passes, At
<1>8. CASE PassesClass
  <2>1. phase = "class" /\ DOMAIN vars[cur] = DOMAIN doc[cur].vars /\ ClassChecked(cur)
    BY <1>8 DEF PassesClass, Passes, At, Joins, Order
  <2> QED BY <1>8, <2>1 DEF PassesClass, Passes
<1>9. CASE Return
  BY <1>9 DEF Return, At, Enter
<1>10. ASSUME NEW c \in Block, DecodeChild(c) PROVE Checked'
  BY <1>10 DEF DecodeChild, Enter
<1>11. ASSUME NEW n \in Name, Adds(n) PROVE Checked'
  BY <1>11 DEF Adds, At
<1> QED BY <1>0, <1>1, <1>2, <1>3, <1>4, <1>5, <1>6, <1>7, <1>8, <1>9, <1>10, <1>11 DEF Step

(* In a decoded block every operand of a condition and every variable of a *)
(* setup is a variable of the block it is looked for in.                   *)
THEOREM ConditionsAreSolvable == Spec => []OperandsExist
<1>1. Init => Checked
  BY DEF Init, Checked, Late
<1>2. TypeOK /\ Order /\ Checked /\ [Next]_all => Checked'
  BY CheckedStep
<1>3. Order /\ Checked => OperandsExist
  BY DEF Order, Checked, UnitsChecked, SubsChecked, SetupsChecked, SetupRight, OperandsExist
<1> QED BY <1>1, <1>2, <1>3, DecodedInOrder, PTL DEF Spec
----------------------------------------------------------------------------
(* What is known of the input at each stage.                               *)
Excluded ==
    /\ stage # "eConstructed" => "command line" \notin broken
    /\ stage \in {"eTaskPathLoaded", "eTaskConfigLoaded", "eReady"} =>
          "search paths" \notin broken
    /\ stage \in {"eTaskConfigLoaded", "eReady"} => {"task", "directory"} \cap broken = {}
    /\ phase # "config" =>
          stage \in {"eTaskConfigLoaded", "eReady"} /\ {"yaml", "libraries"} \cap broken = {}
    /\ stage = "eReady" => phase = "loaded"
    /\ phase = "loaded" => Root \in decoded

LEMMA ExcludedStep ==
    ASSUME Excluded, [Next]_all
    PROVE  Excluded'
<1> USE DEF Excluded, input
<1>1. ASSUME Fail PROVE Excluded'
  BY <1>1 DEF Fail
<1>2. ASSUME NEW where, NEW ok, NEW next \in Phase \ {"config", "loaded"},
             Check(where, ok, next), where # "config", where # "loaded"
      PROVE  Excluded'
  BY <1>1, <1>2 DEF Check, At, Phase
<1>3. CASE ParseCmdline
  BY <1>1, <1>3 DEF ParseCmdline, Advance, InConfig
<1>4. CASE FindConfFile
  BY <1>1, <1>4 DEF FindConfFile, Advance, InConfig
<1>5. CASE LoadTaskConfig
  BY <1>1, <1>5 DEF LoadTaskConfig, Advance, InConfig
<1>6. CASE LoadTask
  BY <1>1, <1>6 DEF LoadTask, InConfig, Enter
<1>7. CASE Ready
  BY <1>7 DEF Ready
<1>8. CASE Fields \/ AddChildren \/ AddSubprograms \/ AddSetups \/ JoinClass
  BY <1>2, <1>8 DEF Fields, AddChildren, AddSubprograms, AddSetups, JoinClass, Phase
<1>9. CASE CreateBlock
  BY <1>1, <1>9 DEF CreateBlock, At
<1>10. CASE Return
  BY <1>10 DEF Return, At, Enter
<1>11. ASSUME NEW c \in Block, DecodeChild(c) PROVE Excluded'
  BY <1>11 DEF DecodeChild, At, Enter
<1>12. ASSUME NEW n \in Name, AddVariable(n) PROVE Excluded'
  BY <1>1, <1>12 DEF AddVariable, At
<1>13. CASE UNCHANGED all
  BY <1>13 DEF all
<1> QED BY <1>3, <1>4, <1>5, <1>6, <1>7, <1>8, <1>9, <1>10, <1>11, <1>12, <1>13
       DEF Next, Config, Decode
----------------------------------------------------------------------------
(* The blocks whose decode() is in progress are complete, but for the one  *)
(* whose fields are being read; so are the decoded ones.                   *)
OpenSet(S) ==
    /\ cur \in Block => cur \in S
    /\ \A b \in S : b # Root => Parent[b] \in S
    /\ \A b \in S : b # cur \/ phase # "fields" => doc[b].formed
Formed == /\ \E S \in SUBSET Block : OpenSet(S)
          /\ \A b \in decoded : doc[b].formed

LEMMA FormedStep ==
    ASSUME TypeOK, Formed, [Next]_all
    PROVE  Formed'
<1> USE LoaderAssumption DEF Formed, input
<1>0. Step
  BY StepKinds
<1>1. PICK S \in SUBSET Block : OpenSet(S)
  OBVIOUS
<1>2. CASE Still
  BY <1>1, <1>2 DEF Still, OpenSet
<1>3. CASE Begins
  <2>1. OpenSet({Root})'
    BY <1>3 DEF Begins, Enter, OpenSet
  <2>2. {Root} \in SUBSET Block /\ UNCHANGED <<doc, decoded>>
    BY <1>3 DEF Begins
  <2> QED BY <2>1, <2>2
<1>4. CASE PassesFields
  <2>1. OpenSet(S)'
    BY <1>1, <1>4 DEF PassesFields, Passes, At, OpenSet
  <2> QED BY <1>4, <2>1 DEF PassesFields, Passes
<1>5. CASE Creates
  BY <1>1, <1>5 DEF Creates, At, OpenSet
<1>6. CASE PassesChildren \/ PassesSubprograms \/ PassesSetups \/ PassesClass
  <2>1. /\ phase # "fields" /\ phase' # "fields"
        /\ UNCHANGED <<doc, cur, decoded>>
    BY <1>6 DEF PassesChildren, PassesSubprograms, PassesSetups, PassesClass, Passes, At
  <2>2. OpenSet(S)'
    BY <1>1, <2>1 DEF OpenSet
  <2> QED BY <2>1, <2>2
<1>7. CASE Return
  <2>1. /\ phase = "return" /\ phase' # "fields" /\ cur \in Block
        /\ decoded' = decoded \cup {cur} /\ UNCHANGED doc
        /\ cur' = IF cur = Root THEN NoBlock ELSE Parent[cur]
    BY <1>7 DEF Return, At, Enter
  <2>2. OpenSet(S)'
    BY <1>1, <2>1 DEF OpenSet
  <2>3. doc[cur].formed
    BY <1>1, <2>1 DEF OpenSet
  <2> QED BY <2>1, <2>2, <2>3
<1>8. ASSUME NEW c \in Block, DecodeChild(c) PROVE Formed'
  <2>1. /\ phase = "children" /\ phase' = "fields" /\ cur \in Block /\ cur' = c
        /\ c \in Kids(cur) /\ UNCHANGED <<doc, decoded>>
    BY <1>8 DEF DecodeChild, At, Enter
  <2>2. OpenSet(S \cup {c})'
    BY <1>1, <2>1 DEF Kids, OpenSet
  <2> QED BY <2>1, <2>2
<1>9. ASSUME NEW n \in Name, Adds(n) PROVE Formed'
  BY <1>1, <1>9 DEF Adds, OpenSet
<1> QED BY <1>0, <1>2, <1>3, <1>4, <1>5, <1>6, <1>7, <1>8, <1>9 DEF Step
----------------------------------------------------------------------------
(* Where the type of a variable comes from, and what is known of the       *)
(* variables it is copied to.                                              *)
Traced(b, n) ==
    LET d == doc[b].vars[n]
    IN  /\ n \in DOMAIN doc[b].vars
        /\ IF d.source = Own THEN vars[b][n] = d.type
           ELSE /\ Exists(doc, b, d.source) /\ d.source[2] \in DOMAIN vars[d.source[1]]
                /\ vars[b][n] = vars[d.source[1]][d.source[2]]
Arrived(b, n) ==
    \A p \in doc[b].vars[n].to :
        /\ Exists(doc, b, p) /\ p[2] \in DOMAIN vars[p[1]] /\ vars[p[1]][p[2]] = vars[b][n]
        /\ p[2] \in DOMAIN use[p[1]] /\ use[p[1]][p[2]] = n
Traces == \A b \in Block : \A n \in DOMAIN vars[b] : Traced(b, n) /\ Arrived(b, n)

(* The use variables that were there before stay; those copied are new.    *)
LEMMA UseKept ==
    ASSUME NEW n, NEW d, Destinations(d, NewType(d)), d.to \subseteq Place
    PROVE  \A c \in Block :
              /\ \A v \in DOMAIN use[c] :
                    v \in DOMAIN UseWith(n, d)[c] /\ UseWith(n, d)[c][v] = use[c][v]
              /\ \A v \in Copied(d, c) :
                    v \in DOMAIN UseWith(n, d)[c] /\ UseWith(n, d)[c][v] = n
<1> SUFFICES ASSUME NEW c \in Block
             PROVE  /\ \A v \in DOMAIN use[c] :
                          v \in DOMAIN UseWith(n, d)[c] /\ UseWith(n, d)[c][v] = use[c][v]
                    /\ \A v \in Copied(d, c) :
                          v \in DOMAIN UseWith(n, d)[c] /\ UseWith(n, d)[c][v] = n
  OBVIOUS
<1>1. UseWith(n, d)[c] = [v \in DOMAIN use[c] \cup Copied(d, c) |->
                             IF v \in Copied(d, c) THEN n ELSE use[c][v]]
  BY DEF UseWith
<1>2. \A v \in Copied(d, c) : v \notin DOMAIN use[c]
  BY DEF Copied, Destinations, Free
<1> QED BY <1>1, <1>2

LEMMA TracesStep ==
    ASSUME TypeOK, Order, Traces, [Next]_all
    PROVE  Traces'
<1>1. CASE UNCHANGED <<doc, wiring>>
  BY <1>1 DEF wiring, Traces, Traced, Arrived, Exists
<1>2. ASSUME NEW n \in Name, Adds(n) PROVE Traces'
  <2> DEFINE d == doc[cur].vars[n]
             t == NewType(d)
  <2>0. cur' = cur
    BY <1>2 DEF Adds
  <2>1. /\ cur \in Block /\ n \in DOMAIN doc[cur].vars /\ n \notin DOMAIN vars[cur]
        /\ Created(t) /\ t \in Type /\ Destinations(d, t) /\ vars' = VarsWith(n, t)
        /\ use' = UseWith(n, d) /\ UNCHANGED doc
    BY <1>2, Addition DEF Adds, input
  <2>2. /\ DOMAIN vars'[cur] = DOMAIN vars[cur] \cup {n}
        /\ \A b \in Block : b # cur => DOMAIN vars'[b] = DOMAIN vars[b]
    BY <2>1, VarsAdded
  <2>3. /\ vars'[cur][n] = t
        /\ \A b \in Block : \A v \in DOMAIN vars[b] :
              v \in DOMAIN vars'[b] /\ vars'[b][v] = vars[b][v]
    BY <1>2, VarsKept
  <2>4. d.to \subseteq Place /\ (d.source = Own \/ d.source \in Place)
    BY <2>1, DescType
  <2>5. \A c \in Block :
           /\ \A v \in DOMAIN use[c] : v \in DOMAIN use'[c] /\ use'[c][v] = use[c][v]
           /\ \A v \in Copied(d, c) : v \in DOMAIN use'[c] /\ use'[c][v] = n
    BY <2>1, <2>4, UseKept
  <2>6. \A c \in Kids(cur) : c \in Block /\ DOMAIN vars[c] = DOMAIN doc[c].vars
    BY <1>2 DEF Adds, At, Order, Late, Kids, Child
  <2>7. d.source # Own => Given(d.source) /\ t = vars[d.source[1]][d.source[2]]
    BY <2>1, NewVariable
  <2>8. d.source = Own => t = d.type
    BY DEF NewType
  <2>9. \A p \in d.to : /\ Given(p) /\ vars[p[1]][p[2]] = t
                        /\ p \in Place /\ p[2] \in Copied(d, p[1])
    BY <2>1, <2>4 DEF Destinations, SameType, Copied, Place
  <2> HIDE DEF d, t
  <2>10. Traced(cur, n)'
    <3>1. CASE d.source = Own
      BY <2>0, <2>1, <2>3, <2>8, <3>1 DEF Traced, d
    <3>2. CASE d.source # Own
      BY <2>0, <2>1, <2>3, <2>6, <2>7, <3>2 DEF Traced, Exists, Given, d
    <3> QED BY <3>1, <3>2
  <2>11. Arrived(cur, n)'
    <3> SUFFICES ASSUME NEW p \in d.to
                 PROVE  /\ Exists(doc, cur, p)' /\ p[2] \in DOMAIN vars'[p[1]]
                        /\ vars'[p[1]][p[2]] = vars'[cur][n]
                        /\ p[2] \in DOMAIN use'[p[1]] /\ use'[p[1]][p[2]] = n
      BY <2>0, <2>1 DEF Arrived, d
    <3>1. p[1] \in Kids(cur) /\ p[1] \in Block /\ p[2] \in DOMAIN vars[p[1]]
      BY <2>6, <2>9 DEF Given
    <3> QED BY <2>0, <2>1, <2>3, <2>5, <2>6, <2>9, <3>1 DEF Exists
  <2>12. ASSUME NEW b \in Block, NEW m \in DOMAIN vars[b]
         PROVE  Traced(b, m)' /\ Arrived(b, m)'
    <3>1. Traced(b, m) /\ Arrived(b, m)
      BY DEF Traces
    <3>2. \A p : Exists(doc, b, p) => p[1] \in Block
      BY DEF Exists, Kids, Child
    <3>3. Traced(b, m)'
      BY <2>1, <2>3, <3>1, <3>2 DEF Traced, Exists
    <3>4. Arrived(b, m)'
      BY <2>1, <2>3, <2>5, <3>1, <3>2 DEF Arrived, Exists
    <3> QED BY <3>3, <3>4
  <2> QED BY <2>1, <2>2, <2>0, <2>10, <2>11, <2>12 DEF Traces
<1>3. UNCHANGED <<doc, wiring>> \/ \E n \in Name : Adds(n)
  BY StepKinds DEF Step, Still, Begins, PassesFields, Creates, PassesChildren,
     PassesSubprograms, PassesSetups, PassesClass, Passes, Return, DecodeChild, input
<1> QED BY <1>1, <1>2, <1>3
----------------------------------------------------------------------------
(* The equation of TypeOf.  That it has a solution is known only when a    *)
(* load has ended well, and then the types of the blocks solve it; until   *)
(* then they agree with every solution, since the source of a variable has *)
(* its type before the variable.                                           *)
Solves(type) == type = [b \in Block |-> Typed(doc, type, b)]
Meant ==
    Solves(TypeOf(doc)) =>
        \A b \in Block : \A n \in DOMAIN vars[b] : vars[b][n] = TypeOf(doc)[b][n]

LEMMA TypeOfSolves ==
    ASSUME NEW type, Solves(type)
    PROVE  Solves(TypeOf(doc))
BY DEF Solves, TypeOf

LEMMA MeantStep ==
    ASSUME TypeOK, Order, Meant, [Next]_all
    PROVE  Meant'
<1>1. CASE UNCHANGED <<doc, wiring>>
  BY <1>1 DEF wiring, Meant, Solves
<1>2. ASSUME NEW n \in Name, Adds(n) PROVE Meant'
  <2> DEFINE d == doc[cur].vars[n]
             t == NewType(d)
             T == TypeOf(doc)
  <2>1. /\ cur \in Block /\ n \in DOMAIN doc[cur].vars
        /\ Created(t) /\ t \in Type /\ vars' = VarsWith(n, t) /\ UNCHANGED doc
    BY <1>2, Addition DEF Adds, input
  <2>2. /\ DOMAIN vars'[cur] = DOMAIN vars[cur] \cup {n} /\ vars'[cur][n] = t
        /\ \A v \in DOMAIN vars[cur] : v # n => vars'[cur][v] = vars[cur][v]
        /\ \A b \in Block : b # cur => vars'[b] = vars[b]
    BY <2>1, VarsAdded
  <2>3. \A c \in Kids(cur) : c \in Block /\ DOMAIN vars[c] = DOMAIN doc[c].vars
    BY <1>2 DEF Adds, At, Order, Late, Kids, Child
  <2>4. d.source # Own => Given(d.source) /\ t = vars[d.source[1]][d.source[2]]
    BY <2>1, NewVariable
  <2>5. d.source = Own => t = d.type
    BY DEF NewType
  <2>6. ASSUME Solves(T) PROVE t = T[cur][n]
    <3>1. T[cur] = Typed(doc, T, cur)
      BY <2>1, <2>6 DEF Solves
    <3>2. T[cur][n] = IF d.source = Own THEN d.type
                      ELSE IF Exists(doc, cur, d.source) THEN T[d.source[1]][d.source[2]]
                      ELSE NoType
      BY <2>1, <3>1 DEF Typed
    <3> HIDE DEF d, t, T
    <3>3. CASE d.source = Own
      BY <2>5, <3>2, <3>3
    <3>4. CASE d.source # Own
      <4>1. /\ Exists(doc, cur, d.source) /\ d.source[1] \in Block
            /\ d.source[2] \in DOMAIN vars[d.source[1]]
        BY <2>3, <2>4, <3>4 DEF Exists, Given
      <4>2. vars[d.source[1]][d.source[2]] = T[d.source[1]][d.source[2]]
        BY <2>6, <4>1 DEF Meant, T
      <4> QED BY <2>4, <3>2, <3>4, <4>1, <4>2
    <3> QED BY <3>3, <3>4
  <2> HIDE DEF d, t
  <2>7. Solves(T)' = Solves(T) /\ TypeOf(doc)' = T
    BY <2>1 DEF Solves, TypeOf, Typed, Exists
  <2> QED BY <2>1, <2>2, <2>6, <2>7 DEF Meant
<1>3. UNCHANGED <<doc, wiring>> \/ \E n \in Name : Adds(n)
  BY StepKinds DEF Step, Still, Begins, PassesFields, Creates, PassesChildren,
     PassesSubprograms, PassesSetups, PassesClass, Passes, Return, DecodeChild, input
<1> QED BY <1>1, <1>2, <1>3

(* Once all blocks are decoded their types are those of the file.          *)
LEMMA TypesAreMeant ==
    ASSUME TypeOK, Order, Traces, Meant, decoded = Block
    PROVE  \A b \in Block : \A n \in DOMAIN doc[b].vars :
              n \in DOMAIN vars[b] /\ vars[b][n] = TypeOf(doc)[b][n]
<1>1. \A b \in Block : DOMAIN vars[b] = DOMAIN doc[b].vars
  BY DEF Order
<1>2. ASSUME NEW b \in Block PROVE vars[b] = Typed(doc, vars, b)
  <2>1. vars[b] = [n \in DOMAIN doc[b].vars |-> vars[b][n]]
    BY <1>1, PartialType DEF TypeOK
  <2>2. ASSUME NEW n \in DOMAIN doc[b].vars
        PROVE  vars[b][n] = Typed(doc, vars, b)[n]
    <3>1. Traced(b, n)
      BY <1>1 DEF Traces
    <3> QED BY <3>1 DEF Traced, Typed
  <2>3. Typed(doc, vars, b) = [n \in DOMAIN doc[b].vars |-> Typed(doc, vars, b)[n]]
    BY DEF Typed
  <2> QED BY <2>1, <2>2, <2>3
<1>3. Solves(vars)
  BY <1>2 DEF TypeOK, Solves
<1> QED BY <1>1, <1>3, TypeOfSolves DEF Meant

(* All that the loader knows of a file when the program is about to start. *)
LEMMA ReadyIsSound ==
    ASSUME TypeOK, Order, Checked, Excluded, Formed, Traces, Meant
    PROVE  OnlySoundLoads
<1> SUFFICES ASSUME stage = "eReady"
             PROVE  Sound(doc) /\ broken = {} /\ decoded = Block
  BY DEF OnlySoundLoads
<1>1. decoded = Block
  <2>1. Root \in decoded
    BY DEF Excluded
  <2> QED BY <2>1, LoaderAssumption DEF Order, TypeOK
<1>2. broken = {}
  <2>1. broken \subseteq Part
    BY LoaderAssumption DEF TypeOK
  <2>2. \A p \in Part : p \notin broken
    BY DEF Excluded, Part
  <2> QED BY <2>1, <2>2
<1>3. ASSUME NEW b \in Block PROVE SoundVars(doc, b)
  <2> SUFFICES ASSUME NEW n \in DOMAIN doc[b].vars
               PROVE  /\ TypeOf(doc)[b][n] # NoType
                      /\ \A p \in doc[b].vars[n].to :
                            /\ Exists(doc, b, p)
                            /\ TypeOf(doc)[p[1]][p[2]] = TypeOf(doc)[b][n]
                            /\ \A m \in DOMAIN doc[b].vars : p \in doc[b].vars[m].to => m = n
    BY DEF SoundVars
  <2>1. \A c \in Block : \A m \in DOMAIN doc[c].vars :
           m \in DOMAIN vars[c] /\ vars[c][m] = TypeOf(doc)[c][m]
    BY <1>1, TypesAreMeant
  <2>2. vars[b][n] \in Type
    BY <2>1, PartialType DEF TypeOK
  <2>3. TypeOf(doc)[b][n] # NoType
    BY <2>1, <2>2, LoaderAssumption
  <2>4. ASSUME NEW p \in doc[b].vars[n].to
        PROVE  /\ Exists(doc, b, p)
               /\ TypeOf(doc)[p[1]][p[2]] = TypeOf(doc)[b][n]
               /\ \A m \in DOMAIN doc[b].vars : p \in doc[b].vars[m].to => m = n
    <3>1. \A m \in DOMAIN doc[b].vars : Arrived(b, m)
      BY <2>1 DEF Traces
    <3>2. Exists(doc, b, p) /\ vars[p[1]][p[2]] = vars[b][n] /\ use[p[1]][p[2]] = n
      BY <3>1 DEF Arrived
    <3>3. p[1] \in Block /\ p[2] \in DOMAIN doc[p[1]].vars
      BY <3>2 DEF Exists, Kids, Child
    <3>4. \A m \in DOMAIN doc[b].vars : p \in doc[b].vars[m].to => use[p[1]][p[2]] = m
      BY <3>1 DEF Arrived
    <3> QED BY <2>1, <3>2, <3>3, <3>4
  <2> QED BY <2>3, <2>4
<1>4. ASSUME NEW b \in Block PROVE SoundRest(doc, b)
  BY <1>1 DEF SoundRest, Formed, Checked, UnitsChecked, FunctionsChecked, SubsChecked,
     SetupsChecked, SetupRight, ClassChecked
<1> QED BY <1>1, <1>2, <1>3, <1>4 DEF Sound

(* The program starts only with a file that is sound as a whole: every     *)
(* variable has the type of where it comes from and of where it goes, no   *)
(* variable has two sources, every block is complete; and no block of the  *)
(* file was left out.  The order in which the parts were decoded is of no  *)
(* account.                                                                *)
THEOREM OnlySoundIsLoaded == Spec => []OnlySoundLoads
<1>1. Init => Checked /\ Excluded /\ Formed /\ Traces /\ Meant
  <2> SUFFICES ASSUME Init PROVE Checked /\ Excluded /\ Formed /\ Traces /\ Meant
    OBVIOUS
  <2>1. \A b \in Block : DOMAIN vars[b] = {}
    BY DEF Init, None
  <2>2. OpenSet({})
    BY LoaderAssumption DEF Init, OpenSet
  <2>3. Formed
    BY <2>2 DEF Init, Formed
  <2> QED BY <2>1, <2>3 DEF Init, Checked, Late, Excluded, Traces, Meant
<1>2. TypeOK /\ Order /\ Checked /\ Excluded /\ Formed /\ Traces /\ Meant /\ [Next]_all
      => Checked' /\ Excluded' /\ Formed' /\ Traces' /\ Meant'
  BY CheckedStep, ExcludedStep, FormedStep, TracesStep, MeantStep
<1>3. TypeOK /\ Order /\ Checked /\ Excluded /\ Formed /\ Traces /\ Meant => OnlySoundLoads
  BY ReadyIsSound
<1> QED BY <1>1, <1>2, <1>3, DecodedInOrder, PTL DEF Spec
=============================================================================
