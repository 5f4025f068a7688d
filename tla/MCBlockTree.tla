---------------------------- MODULE MCBlockTree ----------------------------
(* Main holds A and C, A holds B and D.  A is powered by main's p, B by    *)
(* A's p and C by main's x; x travels down from main to A and up from B to *)
(* A to main, p goes up from C to main.  D's condition has one operand too *)
(* few and fails in every step.                                            *)
EXTENDS BlockTree, TLC

MCBlock == {"main", "A", "B", "C", "D"}
MCSubprog == {"m", "a", "b"}
MCParent == ("A" :> "main") @@ ("B" :> "A") @@ ("C" :> "main")
            @@ ("D" :> "A")
MCAnc == ("main" :> {"main"}) @@ ("A" :> {"main", "A"})
         @@ ("B" :> {"main", "A", "B"}) @@ ("C" :> {"main", "C"})
         @@ ("D" :> {"main", "A", "D"})
MCOwner == ("m" :> "main") @@ ("a" :> "A") @@ ("b" :> "B")

MCVar == {"p", "x"}
MCVarOf == ("main" :> MCVar) @@ ("A" :> MCVar) @@ ("B" :> {"x"}) @@ ("C" :> {"p"})
           @@ ("D" :> {})
MCVarRank == [v \in MCVar |-> IF v = "p" THEN 1 ELSE 2]
MCValue == 0 .. 2
MCSet == {1, 2}
MCInit == [b \in MCBlock |-> [v \in MCVar |-> IF v = "p" THEN 1 ELSE 0]]

None == [w \in {} |-> 0]
Only(b, f) == (b :> f) @@ [d \in MCBlock |-> None]

MCUse == Only("A", "x" :> "x")
MCRes == ("A" :> ("x" :> "x")) @@ ("B" :> ("x" :> "x")) @@ ("C" :> ("p" :> "p"))
         @@ [b \in {"main", "D"} |-> None]
MCOn == ("A" :> ("x" :> 1)) @@ Only("C", "p" :> 1)
MCOff == ("A" :> ("x" :> 0)) @@ Only("B", "x" :> 2)

MCCond == ("A" :> <<"p">>) @@ ("B" :> <<"p">>) @@ ("C" :> <<"x">>)
          @@ ("D" :> <<"p", "&">>) @@ ("b" :> <<"x", "!">>)
          @@ [u \in {"main", "m", "a"} |-> <<>>]
MCPriority == ("a" :> 1) @@ ("C" :> 1) @@ [u \in MCBlock \cup MCSubprog |-> 0]
MCNameRank == ("main" :> 0) @@ ("A" :> 1) @@ ("B" :> 2) @@ ("C" :> 3)
              @@ ("D" :> 7)              @@ ("m" :> 4) @@ ("a" :> 5) @@ ("b" :> 6)
MCPeriod == ("B" :> 2) @@ [b \in MCBlock |-> 1]

MCOutputs == ("m" :> {"p" :> 0, "p" :> 1})
             @@ ("a" :> {("p" :> 0) @@ ("x" :> 2), "p" :> 1})
             @@ ("b" :> {"x" :> 1})
MCNobody == {}
MCThrowers == {"a"}
MCMistypers == {"b"}
MCDiers == {"b"}
MCWithClass == {"B"}
=============================================================================
