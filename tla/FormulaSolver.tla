--------------------------- MODULE FormulaSolver ---------------------------
(***************************************************************************)
(* The solver of power conditions: StdFormulaSolver over LogicOperations   *)
(* with is_set_getter (kernel/detail/std.hpp).  A condition is a sequence  *)
(* of words in reverse Polish notation; a word that is not an operator is  *)
(* the name of a variable of the block that owns the condition.            *)
(***************************************************************************)
EXTENDS Integers, Sequences

UnaryOps  == {"!"}
BinaryOps == {"&", "|"}

IsOperator(w) == w \in UnaryOps \cup BinaryOps

(* The stack after one word; ok is FALSE once invalid_args (too few values *)
(* for an operator) or out_of_range (no such variable) has been thrown.    *)
Failed == [ok |-> FALSE, st |-> <<>>]

Pushed(below, x) == [ok |-> TRUE, st |-> Append(below, x)]

ApplyUnary(st) ==
    IF Len(st) < 1 THEN Failed
    ELSE Pushed(SubSeq(st, 1, Len(st) - 1), ~ st[Len(st)])

ApplyBinary_PopsOne(op, st) ==
    IF Len(st) < 2 THEN Failed
    ELSE LET v1 == st[Len(st) - 1]
             v2 == st[Len(st)]
         IN  Pushed(SubSeq(st, 1, Len(st) - 1),
                    IF op = "&" THEN v1 /\ v2 ELSE v1 \/ v2)
ApplyBinary(op, st) ==
    IF Len(st) < 2 THEN Failed
    ELSE LET v1 == st[Len(st) - 1]
             v2 == st[Len(st)]
         IN  Pushed(SubSeq(st, 1, Len(st) - 2),
                    IF op = "&" THEN v1 /\ v2 ELSE v1 \/ v2)

PushOperand(w, m, st) ==
    IF w \in DOMAIN m THEN Pushed(st, m[w]) ELSE Failed

Word(w, m, st) ==
    CASE w \in UnaryOps  -> ApplyUnary(st)
      [] w \in BinaryOps -> ApplyBinary(w, st)
      [] OTHER           -> PushOperand(w, m, st)

(* The loop of solve(): f[i] is the stack after the first i words.         *)
StackAfter(src, m) ==
    LET f[i \in 0 .. Len(src)] ==
            IF i = 0 THEN [ok |-> TRUE, st |-> <<>>]
            ELSE IF f[i - 1].ok THEN Word(src[i], m, f[i - 1].st)
            ELSE Failed
    IN  f

(* What is_powered() tells its caller: "on", "off" or, when an exception   *)
(* leaves solve(), "error".  m[v] says whether variable v is_set().        *)
Solve(src, m) ==
    IF src = <<>> THEN "on"
    ELSE LET r == StackAfter(src, m)[Len(src)]
         IN  IF ~ r.ok THEN "error"
             ELSE IF r.st[Len(r.st)] THEN "on" ELSE "off"
=============================================================================
