--------------------------- MODULE MCUdpExchange ---------------------------
(* One buffer with two variables, so that a message can mix their values,  *)
(* and one with a single variable, so that buffers share the counter.      *)
EXTENDS UdpExchange, TLC

MCVarsOf == (1 :> <<"a", "b">>) @@ (2 :> <<"c">>)
(* The control sum does not tell 0 from 2.                                 *)
MCAlike == {<<x, y>> \in Value \X Value : x = y \/ {x, y} = {0, 2}}
MCUnsendable == {<<"b", 2>>} \cap (Var \X Value)
=============================================================================
