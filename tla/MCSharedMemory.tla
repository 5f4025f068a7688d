--------------------------- MODULE MCSharedMemory ---------------------------
(* A writer and a reader.  Of the five variables b is read only while a is *)
(* set, s is described too small, and z ends with the last byte.           *)
EXTENDS SharedMemory, TLC

MCLayout == <<"a", "b", "c", "s", "z">>
Everything == [v \in {"a", "b", "c", "s", "z"} |-> <<>>]
MCReadCond  == [p \in Proc |-> IF p = "reader" THEN [Everything EXCEPT !.b = <<"a">>] ELSE <<>>]
MCWriteCond == [p \in Proc |-> IF p = "writer" THEN Everything ELSE <<>>]
=============================================================================
