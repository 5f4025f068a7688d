------------------------------ MODULE MCLoader ------------------------------
(***************************************************************************)
(* A main block with units "a" and "b", and "c" in "a".  The task files    *)
(* are a sound one in which values go down two levels, up one and across,  *)
(* and those that differ from it in one or two places.                     *)
(***************************************************************************)
EXTENDS Loader

MCParent == [c \in {"a", "b", "c"} |-> IF c = "c" THEN "a" ELSE "main"]

To(b, n) == <<b, n>>
Var(source, type, to) ==
    [source |-> source, type |-> type, fits |-> TRUE, to |-> to]
OwnVar(type, to) == Var(Own, type, to)
Plain(v, power) == [formed |-> TRUE, vars |-> v, power |-> power, subs |-> {},
                    setups |-> {}, class |-> "none", missing |-> {}, wrong |-> {},
                    accepts |-> TRUE, needs |-> {}]
Setup(of, n, fits) == [of |-> of, name |-> n, fits |-> fits]
Sub(known, power) == [known |-> known, power |-> power]

Base ==
    [main |-> [Plain([x |-> OwnVar("t1", {To("a", "x")}),
                      y |-> Var(To("a", "y"), "none", {To("b", "y")})], {})
               EXCEPT !.subs = {Sub(TRUE, {"x"})}, !.setups = {Setup("on", "x", TRUE)}],
     a |-> Plain([x |-> OwnVar("t1", {To("c", "x")}), y |-> OwnVar("t2", {})], {"x"}),
     b |-> [Plain([y |-> OwnVar("t2", {})], {"y"})
            EXCEPT !.class = "memory", !.needs = {"y"}],
     c |-> Plain([x |-> OwnVar("t1", {})], {})]

(* The other ways to write one variable of a block, or to leave it out.    *)
Below(b) == IF b = "main" THEN {To("a", "x"), To("a", "y"), To("b", "y"), To("c", "x")}
            ELSE IF b = "a" THEN {To("c", "x"), To("b", "y")} ELSE {}
Targets(b) == {{}} \cup {{p} : p \in Below(b)}
                   \cup (IF b = "main" THEN {{To("a", "x"), To("b", "y")}} ELSE {})
OneVar(b) == [source : {Own} \cup Below(b), type : Type \cup {NoType},
              fits : {TRUE}, to : Targets(b)]
Sane(d) == d.source = Own \/ d.type = NoType
WithVar(v, n, d) == [m \in DOMAIN v \cup {n} |-> IF m = n THEN d ELSE v[m]]
WithoutVar(v, n) == [m \in DOMAIN v \ {n} |-> v[m]]

VarEdits(D, b) ==
    {[D EXCEPT ![b].vars = WithVar(@, n, d)] : n \in Name, d \in {e \in OneVar(b) : Sane(e)}}
    \cup {[D EXCEPT ![b].vars = WithoutVar(@, n)] : n \in DOMAIN D[b].vars}
OwnVars(D, b) == {n \in DOMAIN D[b].vars : D[b].vars[n].source = Own}
OtherEdits(D, b) ==
    {[D EXCEPT ![b].formed = FALSE]}
    \cup {[D EXCEPT ![b].power = P] : P \in {{"x"}, {"y"}, {"z"}}}
    \cup {[D EXCEPT ![b].subs = @ \cup {Sub(k, {n})}] : k \in BOOLEAN, n \in Name}
    \cup {[D EXCEPT ![b].setups = @ \cup {Setup(of, "x", f)}] :
              of \in {"on", "off", "else"}, f \in BOOLEAN}
    \cup {[D EXCEPT ![b].class = c, ![b].accepts = a] :
              c \in {"unknown", "library"}, a \in BOOLEAN}
    \cup {[D EXCEPT ![b].needs = {n}] : n \in Name}
    \cup {[D EXCEPT ![b].vars[n].fits = FALSE] : n \in OwnVars(D, b)}
Field == UNION {f.must \cup f.may : f \in {MemoryFields, UdpFields}}
ClassEdits(D, b) ==
    {[D EXCEPT ![b].class = c, ![b].missing = m] :
        c \in {"none", "memory", "udp"}, m \in {{}} \cup {{f} : f \in Field}}
    \cup {[D EXCEPT ![b].class = c, ![b].wrong = {f}] :
              c \in {"none", "memory", "udp"}, f \in Field}
Edits(D) ==
    UNION {VarEdits(D, b) \cup OtherEdits(D, b) \cup ClassEdits(D, b) : b \in Block}

All(S) == {D : D \in UNION S}
Files ==
    All({{Base}, Edits(Base)}
        \cup {VarEdits(D, "main") : D \in VarEdits(Base, "a")}
        \cup {OtherEdits(D, "b") : D \in VarEdits(Base, "main")})
MCDocs == Files
MCBroken == {{}} \cup {{p} : p \in Part}
----------------------------------------------------------------------------
(* A wrong initial value is noticed (loader/yaml_parameter.hpp says so,    *)
(* where the value is taken as text); but decode() of a block does not     *)
(* look at the result of from_string(), and the variable starts with the   *)
(* default of its type.                                                    *)
WrongValueNoticed ==
    stage = "eReady" =>
        \A b \in Block : \A n \in OwnVars(doc, b) : doc[b].vars[n].fits

(* Every load ends, and a sound file is never refused (config::config(),   *)
(* task::load()).                                                          *)
SoundLoads ==
    <> (IF Sound(doc) /\ broken = {} THEN stage = "eReady" ELSE failed)
=============================================================================
