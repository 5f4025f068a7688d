---------------------------- MODULE MCFunctions ----------------------------
(***************************************************************************)
(* Every input, within bounds, of the functions that keep no state: the    *)
(* conditions, typed one word at a time; the renamings of a subprogram and *)
(* the results of its function, one name at a time; and the lines of a     *)
(* client, one character of a parameter at a time; the values written to a *)
(* place in shared memory and the texts given to a variable, one after the *)
(* other; the names of units, one part at a time; and the words of a       *)
(* message.  Each result is compared with a definition of what was meant.  *)
(***************************************************************************)
EXTENDS FormulaSolver, SubprogramRemap, InstructionParser, Values, Paths,
        ControlSum, FiniteSets
LOCAL INSTANCE SequencesExt
LOCAL INSTANCE Functions

CONSTANTS Name, Stranger, MaxWords,   \* variables of a block, one it lacks
          MaxParams, MaxChars,        \* of a line
          Ints, Reals, Strings,       \* values of variables
          PlaceSize, MaxWrites,       \* of places in shared memory, to one place
          Nums, MaxTexts,             \* numbers in texts, texts given to one variable
          MaxParts,                   \* of a name
          MaxLoad                     \* words of a message after its numbers

ASSUME PartsAssumption == MaxParts \in Nat \ {0}
ASSUME SampleAssumption ==
    /\ Ints \subseteq -Bound(IntSize) .. Bound(IntSize) - 1
    /\ Reals \subseteq -MaxReal .. MaxReal
    /\ Strings \subseteq Seq(Byte) /\ PlaceSize \subseteq Nat \ {0} /\ Nums \subseteq Int

VARIABLE input

Command == <<"a", "1">>
BadCommand == <<"1", "a">>
Style == {"bare", "doubled", "escaped"}

(* Values of each type: the ends of its range and what is next to them or  *)
(* in the middle between two printed ones; strings that end with a zero.   *)
MCInts == {-128, -127, -1, 0, 1, 4, 127}
MCReals == {-32764, -6, -2, -1, 0, 1, 2, 3, 4, 6, 32764}
MCStrings == BoundedSeq({0, 2}, 3)
MCNums == {-1032, -1024, -8, -3, 0, 2, 3, 6, 8, 12, 1016, 1024, 32763, 32765}
Sample(type) ==
    {Value(type, d) : d \in CASE type = "bool"   -> BOOLEAN
                              [] type = "int"    -> Ints
                              [] type = "real"   -> Reals
                              [] type = "string" -> Strings}
Spoken == [blank : BOOLEAN, number : {TRUE}, point : BOOLEAN, rest : BOOLEAN, num : Nums]
          \cup [blank : BOOLEAN, number : {FALSE}, point : {FALSE}, rest : BOOLEAN,
                num : {0}]
(* Without a decimal point a text is a whole number.                       *)
Texts == {t \in Spoken : t.point \/ t.num % One = 0}

(* A tree with "b" in "a" and "c" beside it, and with names that hold dots:*)
(* those of "d", of one more variable "x" and of a variable "x.".          *)
MCUnit == [main |-> [n \in {<<"A">>, <<"C">>, <<"A", "C">>} |->
                        CASE n = <<"A">> -> "a" [] n = <<"C">> -> "c" [] OTHER -> "d"],
           a    |-> [n \in {<<"B">>} |-> "b"],
           b    |-> [n \in {} |-> n], c |-> [n \in {} |-> n], d |-> [n \in {} |-> n]]
MCVarOf == [main |-> {<<"x">>, <<"A", "x">>}, a |-> {<<"x">>, <<"x", Empty>>},
            b |-> {<<"x">>, <<"B">>}, c |-> {}, d |-> {<<"x">>}]
MCSubOf == [main |-> {<<"A">>}, a |-> {}, b |-> {<<"x">>}, c |-> {<<"x">>}, d |-> {}]
NamePart == {"A", "B", "C", "x", Empty}

Init == \/ \E m \in [Name -> BOOLEAN] :
              input = [job |-> "condition", src |-> <<>>, m |-> m]
        \/ input = [job |-> "renaming", view |-> NewMap, out |-> {}]
        \/ \E n \in {Command, BadCommand} :
              input = [job |-> "line", name |-> n, par |-> <<>>]
        \/ \E type \in TypeName, size \in PlaceSize :
              input = [job |-> "place", type |-> type, slot |-> Zeros(size),
                       written |-> <<>>]
        \/ \E type \in TypeName :
              input = [job |-> "text", value |-> Default(type), accepted |-> <<>>]
        \/ \E p \in NamePart : input = [job |-> "name", name |-> <<p>>]
        \/ \E w \in 0 .. Top : input = [job |-> "message", words |-> <<w>>]

AddWord(w) == /\ input.job = "condition"
              /\ Len(input.src) < MaxWords
              /\ input' = [input EXCEPT !.src = Append(@, w)]

AddRenaming(existed, remapped) ==
    /\ input.job = "renaming"
    /\ CanRemap(input.view, remapped)
    /\ input' = [input EXCEPT !.view = SetKeyRemap(@, existed, remapped)]

AddResult(k) == /\ input.job = "renaming"
                /\ input' = [input EXCEPT !.out = @ \cup {k}]

Chars(par) == FoldFunction(+, 0, [k \in DOMAIN par |-> Len(par[k].text)])

AddParameter(s) == /\ input.job = "line"
                   /\ Len(input.par) < MaxParams
                   /\ input' = [input EXCEPT !.par =
                                   Append(@, [style |-> s, text |-> <<>>])]

AddChar(c) == /\ input.job = "line"
              /\ input.par # <<>>
              /\ Chars(input.par) < MaxChars
              /\ input' = [input EXCEPT !.par[Len(input.par)].text =
                              Append(@, c)]

Write(v) == /\ input.job = "place" /\ v.type = input.type
            /\ Len(input.written) < MaxWrites
            /\ input' = [input EXCEPT !.slot = Stored(v, @),
                                      !.written = Append(@, v)]

GiveText(t) ==
    /\ input.job = "text" /\ Len(input.accepted) < MaxTexts
    /\ LET r == FromText(input.value, t)
       IN  input' = [input EXCEPT !.value = r.value,
                                  !.accepted = IF r.ok THEN Append(@, t) ELSE @]

AddPart(p) == /\ input.job = "name" /\ Len(input.name) < MaxParts
              /\ input' = [input EXCEPT !.name = Append(@, p)]

AddLoad(w) == /\ input.job = "message" /\ Len(input.words) <= MaxLoad
              /\ input' = [input EXCEPT !.words = Append(@, w)]

Next == \/ \E w \in Name \cup {Stranger} \cup UnaryOps \cup BinaryOps : AddWord(w)
        \/ \E existed, remapped \in Key : AddRenaming(existed, remapped)
        \/ \E k \in Key : AddResult(k)
        \/ \E s \in Style : AddParameter(s)
        \/ \E c \in {"a", " ", Quote, Backslash} : AddChar(c)
        \/ \E type \in TypeName : \E v \in Sample(type) : Write(v)
        \/ \E t \in Texts : GiveText(t)
        \/ \E p \in NamePart : AddPart(p)
        \/ \E w \in 0 .. Top : AddLoad(w)

Spec == Init /\ [][Next]_input
----------------------------------------------------------------------------
(* Conditions.                                                             *)

(* How many values the first j words leave.                                *)
Gain(w) == CASE w \in UnaryOps -> 0 [] w \in BinaryOps -> -1 [] OTHER -> 1
Depth(src) ==
    LET d[j \in 0 .. Len(src)] == IF j = 0 THEN 0 ELSE d[j - 1] + Gain(src[j]) IN d

Arity(w) == CASE w \in UnaryOps -> 1 [] w \in BinaryOps -> 2 [] OTHER -> 0
Sound(src, m) == \A k \in DOMAIN src :
                    /\ Depth(src)[k - 1] >= Arity(src[k])
                    /\ IsOperator(src[k]) \/ src[k] \in DOMAIN m

(* Where the words before the operand that ends at j end: the last place   *)
(* with one value less.                                                    *)
Before(src, j) ==
    CHOOSE i \in 0 .. j - 1 : /\ Depth(src)[i] = Depth(src)[j] - 1
                              /\ \A k \in i + 1 .. j - 1 : Depth(src)[k] # Depth(src)[j] - 1

(* The value of the operand that ends at j.                                *)
Meaning(src, m) ==
    LET value[j \in 1 .. Len(src)] ==
            CASE src[j] \in UnaryOps -> ~ value[j - 1]
              [] src[j] = "&" -> value[Before(src, j - 1)] /\ value[j - 1]
              [] src[j] = "|" -> value[Before(src, j - 1)] \/ value[j - 1]
              [] OTHER -> m[src[j]]
    IN  value

(* solve() gives the value of the last operand that the condition spells,  *)
(* "on" for no condition at all, and throws exactly when an operator lacks *)
(* an operand or a name is unknown.                                        *)
SolveIsMeaning ==
    input.job = "condition" =>
        LET src == input.src
            m   == input.m
        IN  Solve(src, m) =
                IF src = <<>> THEN "on"
                ELSE IF ~ Sound(src, m) THEN "error"
                ELSE IF Meaning(src, m)[Len(src)] THEN "on" ELSE "off"
----------------------------------------------------------------------------
(* Renamings.  The block has every variable but the last, variable k with  *)
(* the value k.                                                            *)
Vars == [k \in Key \ {MaxKey} |-> k]

(* No result goes to a name that is itself renamed, then or later.         *)
NoChain == \A f \in input.out \cap DOMAIN input.view.remap :
              LET actual == input.view.remap[f]
              IN  actual \in DOMAIN input.view.remap => actual < f

(* Functions that return a value of their own for each formal in out, and  *)
(* the value they read for each formal they find.                          *)
Fresh == [k \in input.out |-> <<"new", k>>]
Echo  == LET v == Argument(input.view, Vars)
         IN  [k \in {k \in input.out : Has(v, k)} |-> At(v, k)]

LeastOf(S) == CHOOSE x \in S : \A y \in S : x <= y

(* The loop of call(), which renames one result after the other in the map *)
(* it walks over, renames all at once: variable n gets the result of that  *)
(* name, or else of the first formal that stands for n.  And a name stands *)
(* for the same variable when it is read and when it is written: a         *)
(* function that returns what it reads changes nothing in the block, also  *)
(* where two formals share a variable.                                     *)
RenamedAtOnce ==
    input.job = "renaming" /\ NoChain =>
        LET remap == input.view.remap
            To(n) == {f \in input.out : IF f \in DOMAIN remap THEN remap[f] = n
                                        ELSE f = n}
            Own(n) == To(n) \ DOMAIN remap
            echoed == Call(input.view, TRUE, Echo)
        IN  /\ Call(input.view, TRUE, Fresh) =
                  [n \in {n \in Key : To(n) # {}} |->
                      <<"new", LeastOf(IF Own(n) # {} THEN Own(n) ELSE To(n))>>]
            /\ \A n \in DOMAIN echoed : n \in DOMAIN Vars /\ echoed[n] = Vars[n]
----------------------------------------------------------------------------
(* Lines.  A parameter may be written bare, in quotes with each quote      *)
(* doubled, or in quotes with a backslash before each quote.               *)
Written(c, s) == CASE c = Quote /\ s = "doubled" -> <<Quote, Quote>>
                   [] c = Quote /\ s = "escaped" -> <<Backslash, Quote>>
                   [] OTHER -> <<c>>

(* The first k characters of a parameter, spelled.                         *)
Spelled(p) ==
    LET first[k \in 0 .. Len(p.text)] ==
            IF k = 0 THEN <<>> ELSE first[k - 1] \o Written(p.text[k], p.style)
    IN  first

Spelling(p) ==
    LET text == Spelled(p)[Len(p.text)]
    IN  IF p.style = "bare" THEN text ELSE <<Quote>> \o text \o <<Quote>>

(* What each way of writing can express.                                   *)
Sayable(p) ==
    CASE p.style = "bare" ->
           p.text # <<>> /\ \A k \in DOMAIN p.text : p.text[k] \notin {" ", Quote}
      [] p.style = "doubled" ->
           \A k \in DOMAIN p.text :
              p.text[k] = Backslash => k < Len(p.text) /\ p.text[k + 1] # Quote
      [] p.style = "escaped" ->
           p.text # <<>> => p.text[Len(p.text)] # Backslash

AllSayable == \A k \in DOMAIN input.par : Sayable(input.par[k])

(* The name and the first k parameters.                                    *)
Begun(name, par) ==
    LET first[k \in 0 .. Len(par)] ==
            IF k = 0 THEN name ELSE first[k - 1] \o (<<" ">> \o Spelling(par[k]))
    IN  first
Line == Begun(input.name, input.par)[Len(input.par)] \o <<" ">>

(* Every list of parameters that can be written comes out of parse() as it *)
(* was, whatever quotes, spaces and backslashes it holds.                  *)
LineIsUnderstood ==
    input.job = "line" /\ AllSayable =>
        Parse(Trim(Line)) =
            [name  |-> IF input.name = Command THEN Command ELSE <<>>,
             param |-> [k \in DOMAIN input.par |-> input.par[k].text],
             error |-> IF input.name = Command THEN "no_error" ELSE "invalid_name"]

(* The reader takes what one read returns for a whole line.  A line whose  *)
(* last parameter is in quotes with backslashes is carried out only if it  *)
(* has come whole: no beginning of it has as many parameters.              *)
CutIsRefused ==
    input.job = "line" /\ AllSayable /\ input.par # <<>>
        /\ input.par[Len(input.par)].style = "escaped" =>
            LET arity == [n \in {Command} |-> Len(input.par)]
            IN  \A n \in 0 .. Len(Line) - 2 : ~ Runs(SubSeq(Line, 1, n), arity)
----------------------------------------------------------------------------
(* Values.                                                                 *)

(* What a reader copies out of a place in shared memory is the value last  *)
(* written, if the place has its size.  In a place of another size a       *)
(* number leaves the reader's value alone and a string is filled up with   *)
(* zeros, or is nothing but zeros if it is too long; a bool is written in  *)
(* two bytes and may be read in one, which is then always false.  No       *)
(* earlier value ever shows through, and no number becomes another.        *)
PlaceKeepsMeaning ==
    input.job = "place" /\ input.written # <<>> =>
        LET v    == input.written[Len(input.written)]
            size == Len(input.slot)
            n    == Len(ToBytes(v))
            Expected(old) ==
                CASE n = size -> v
                  [] n # size /\ v.type = "string" ->
                        Value("string", IF n < size THEN v.data \o Zeros(size - n)
                                        ELSE Zeros(size))
                  [] size = 1 /\ v.type = "bool" -> Value("bool", FALSE)
                  [] OTHER -> old
        IN  \A old \in Sample(input.type) : \A r \in FromBytes(old, input.slot) :
                LET copy == CopyData(old, r.value)
                IN  /\ ~ copy.thrown /\ IsEqual(copy.value, Expected(old))
                    /\ copy.changed = ~ IsEqual(copy.value, old)

(* A variable shows the number of the last text that it accepted, whatever *)
(* was refused since, a real one rounded to the nearest that is printed;   *)
(* and what is shown is accepted again and then shows the same.            *)
Apart(m, n) == IF m < n THEN n - m ELSE m - n
TextKeepsMeaning ==
    input.job = "text" =>
        LET shown == ToText(input.value)
            again == FromText(Default(input.value.type), shown)
        IN  /\ again.ok /\ ToText(again.value) = shown
            /\ input.accepted # <<>> =>
                  LET t == input.accepted[Len(input.accepted)]
                  IN  IF input.value.type = "string" THEN shown = t
                      ELSE /\ t.number /\ ~ t.rest
                           /\ 2 * Apart(shown.num, t.num) <=
                                 (IF input.value.type = "real" THEN Printed ELSE 0)
----------------------------------------------------------------------------
(* Names.                                                                  *)

(* The ways down the tree along names without dots.                        *)
Longer(w) ==
    {[path |-> Append(w.path, p), to |-> Unit[w.to][<<p>>]] :
        p \in {p \in NamePart : <<p>> \in DOMAIN Unit[w.to]}}
Ways ==
    LET ways[n \in 0 .. MaxParts] ==
            IF n = 0 THEN {[path |-> <<>>, to |-> Main]}
            ELSE ways[n - 1] \cup UNION {Longer(w) : w \in ways[n - 1]}
    IN  ways[MaxParts]

(* The last part of a name, but for a dot at the end; the name of a unit   *)
(* in its block keeps that dot.                                            *)
LastPart(name) ==
    IF Len(name) > 1 /\ name[Len(name)] = Empty THEN Len(name) - 1 ELSE Len(name)
Bare(name) == SubSeq(name, 1, LastPart(name))
OwnPart(name) == SubSeq(name, LastPart(name), Len(name))
Plain(name) == Len(name) = 1 /\ name # <<Empty>>

(* Each unit is reached by the names on the way to it and its own, and by  *)
(* nothing else: a unit with a dot inside its name by none.  A block may   *)
(* be given a dot at the end; the main block has no name.  What a list     *)
(* shows under a name without a dot, if that is not empty, is what the     *)
(* path of the block and that name lead to.                                *)
FoundByName ==
    input.job = "name" =>
        LET name == input.name
            Above == {w \in Ways : w.path = SubSeq(name, 1, LastPart(name) - 1)}
            In(table) == {[block |-> w.to, name |-> OwnPart(name)] :
                             w \in {w \in Above : OwnPart(name) \in table[w.to]}}
            Block == {w.to : w \in {w \in Ways : w.path = Bare(name)}}
        IN  /\ ReachVariable(name) = In(VarOf) /\ ReachSubprog(name) = In(SubOf)
            /\ ReachBlock(name) = Block
            /\ \A s \in GetVarList(name) :
                  Plain(s.as) => ReachVariable(Bare(name) \o s.as) = {s.unit}
            /\ \A s \in GetSubpList(name) :
                  Plain(s.as) => ReachSubprog(Bare(name) \o s.as) = {s.unit}
----------------------------------------------------------------------------
(* Messages.  The first word has the numbers of the buffer and of the      *)
(* message; the sum is that of the sender and of the receiver.             *)
SumOf(words) == CalcControlSum(Tail(words), Head(words))
Zero(words, k) == \A i \in 1 .. k : words[i] = 0

(* The sum tells every change of one word, except that it takes words of   *)
(* zeros and of ones for each other, and, as long as there were only       *)
(* zeros, also 0 and 1.  After that it is the same for two words exactly   *)
(* when one is all zeros and the other all ones.                           *)
DamageIsNoticed ==
    input.job = "message" /\ Len(input.words) > 1 =>
        LET words == input.words
        IN  /\ SumOf(words) # 0
            /\ \A k \in DOMAIN words : \A x \in 0 .. Top :
                  LET damaged == [words EXCEPT ![k] = x]
                      same    == SumOf(damaged) = SumOf(words)
                  IN  /\ same => x = words[k] \/ {x, words[k]} \in {{0, Top}, {0, 1}}
                      /\ k > 1 /\ ~ Zero(words, k - 1) =>
                            (same <=> x = words[k] \/ {x, words[k]} = {0, Top})
=============================================================================
