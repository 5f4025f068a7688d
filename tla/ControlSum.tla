---------------------------- MODULE ControlSum ----------------------------
(***************************************************************************)
(* The control sum of a message (kernel/block_class/udp_exchange.hpp): the *)
(* words of the values are added to the word of the numbers of buffer and  *)
(* message, and every carry is added at the low end.  An odd last byte is  *)
(* in no word.                                                             *)
(***************************************************************************)
EXTENDS Integers, Sequences

CONSTANT Top   \* the largest word, 65535 in the code

ASSUME TopAssumption == Top \in Nat \ {0}

(* One round of the loop; the sum of unsigned words wraps, and is smaller  *)
(* than what was added just when it has.                                   *)
Added_CarryLost(res, w) ==
    LET sum == (res + w) % (Top + 1) IN IF sum = 0 THEN 1 ELSE sum
Added(res, w) ==
    LET sum     == (res + w) % (Top + 1)
        carried == IF sum < w THEN sum + 1 ELSE sum
    IN  IF carried = 0 THEN 1 ELSE carried

CalcControlSum(words, initial) ==
    LET sum[k \in 0 .. Len(words)] ==
            IF k = 0 THEN initial ELSE Added(sum[k - 1], words[k])
    IN  sum[Len(words)]
=============================================================================
