------------------------- MODULE InstructionParser -------------------------
(***************************************************************************)
(* SimpleInstructionParser (process/simple_instruction_parser.hpp): from   *)
(* the line that a client sent to the name and the parameters of an        *)
(* instruction.  A line is a sequence of characters; the positions of its  *)
(* iterators are 1 .. Len(line) + 1, the last being end().  An iterator    *)
(* dereferenced there yields the 0 that ends every std::string.            *)
(***************************************************************************)
EXTENDS Integers, Sequences

Quote     == "\""
Backslash == "\\"

Space == {" "}
Alpha == {"a"}
Alnum == Alpha \cup {"1"}
NotSpace == Alnum \cup {"_", Quote, Backslash}

End(line) == Len(line) + 1
Char(line, i) == IF i \in 1 .. Len(line) THEN line[i] ELSE "0"

(* std::find_if from position i, for a character of set S.                 *)
FindIf(line, i, S) ==
    CHOOSE j \in i .. End(line) : /\ j = End(line) \/ line[j] \in S
                                  /\ \A k \in i .. j - 1 : line[k] \notin S

ValidName(name) ==
    /\ name # <<>>
    /\ name[1] \in Alpha
    /\ \A k \in 2 .. Len(name) : name[k] \in Alnum \cup {"_"}

ValidateName(name) ==
    IF ValidName(name)
    THEN [name |-> name, param |-> <<>>, error |-> "no_error"]
    ELSE [name |-> <<>>, param |-> <<>>, error |-> "invalid_name"]

(* What a part of the line gives: where it ends, the parameters, and       *)
(* whether every parameter in quotes was ended by a quote.                 *)
Part(at, param, ended) == [at |-> at, param |-> param, ended |-> ended]

(* No quote ends the parameter whose rest begins at i.                     *)
Rest(at, text, ended) == [at |-> at, text |-> text, ended |-> ended]
Unfinished_Kept(line, i) == Rest(End(line), SubSeq(line, i, Len(line)), TRUE)
Unfinished(line, i) == Rest(End(line), <<>>, FALSE)

(* Whether the quote at q follows a backslash, or is the first of two.     *)
Cancelled(line, q) == Char(line, q - 1) = Backslash
Doubled_Never(line, q) == FALSE
Doubled(line, q) == Char(line, q + 1) = Quote

(* The loop over the quotes of a parameter in quotes: what is copied of it *)
(* from position i on.                                                     *)
Prefixed(text, rest) == Rest(rest.at, text \o rest.text, rest.ended)
Quoted(line) ==
    LET from[i \in 1 .. End(line)] ==
            LET q == FindIf(line, i, {Quote})
            IN  IF q = End(line) THEN Unfinished(line, i)
                ELSE CASE Cancelled(line, q) ->
                            Prefixed(SubSeq(line, i, q - 2) \o <<Quote>>, from[q + 1])
                       [] ~ Cancelled(line, q) /\ Doubled(line, q) ->
                            Prefixed(SubSeq(line, i, q), from[q + 2])
                       [] OTHER -> Rest(q + 1, SubSeq(line, i, q - 1), TRUE)
    IN  from

ExtractQuoted(line, i) ==
    LET r == Quoted(line)[i]
    IN  Part(r.at, IF r.ended THEN <<r.text>> ELSE <<>>, r.ended)

ExtractBare(line, i) ==
    LET e == FindIf(line, i, Space \cup {Quote})
    IN  Part(e, <<SubSeq(line, i, e - 1)>>, TRUE)

ExtractParameter(line, start) ==
    LET i == FindIf(line, start, NotSpace)
    IN  CASE i = End(line)         -> Part(i, <<>>, TRUE)
          [] Char(line, i) = Quote -> ExtractQuoted(line, i + 1)
          [] OTHER                 -> ExtractBare(line, i)

(* The loop of parse(), which ends at the end of the line.                 *)
Parameters(line) ==
    LET from[start \in 1 .. End(line)] ==
            LET next == ExtractParameter(line, start)
            IN  IF next.at = End(line) THEN next
                ELSE Part(End(line), next.param \o from[next.at].param, from[next.at].ended)
    IN  from

Parse(line) ==
    LET nextSp == FindIf(line, 1, Space)
        res    == ValidateName(SubSeq(line, 1, nextSp - 1))
        rest   == Parameters(line)[nextSp]
    IN  [res EXCEPT !.param = rest.param,
                    !.error = IF rest.ended THEN @ ELSE "quotes_error"]
----------------------------------------------------------------------------
(* What the reader queues of the characters it has read: it cuts off the   *)
(* spaces at both ends.                                                    *)
Trim(s) ==
    LET first == FindIf(s, 1, NotSpace)
        last  == CHOOSE j \in first - 1 .. Len(s) :
                    /\ j = first - 1 \/ s[j] \notin Space
                    /\ \A k \in j + 1 .. Len(s) : s[k] \in Space
    IN  SubSeq(s, first, last)

(* Whether the dispatcher carries out what was read, when arity has the    *)
(* number of parameters of each control function.  It does not look at the *)
(* error; a name that is not valid is empty, which no function is called.  *)
SetParameterValues(count, values) == Len(values) = count

Runs(read, arity) ==
    LET res == Parse(Trim(read))
    IN  /\ res.name \in DOMAIN arity
        /\ SetParameterValues(arity[res.name], res.param)
=============================================================================
