----------------------------- MODULE MCDvfVoting -----------------------------
(* Small instances of DvfVoting: three validators of which n1 and any other *)
(* are a quorum, on a fork or on a single chain.                            *)
EXTENDS DvfVoting, TLC

CONSTANTS n1, n2, n3, g, a1, b1, a2, a3, a4

MCWeight == [n \in Nodes |-> IF n = n1 THEN 6 ELSE 3]

(* Two validators of the same weight: neither is a quorum alone.           *)
EvenWeight == [n \in Nodes |-> 6]

(* a1 and b1 compete for height 1; the chain goes on from a1.              *)
TreeParent ==
    [b \in Blocks \ {g} |->
        CASE b \in {a1, b1} -> g [] b = a2 -> a1 [] b = a3 -> a2 [] b = a4 -> a3]

TreeNumber ==
    [b \in Blocks |->
        CASE b = g -> 0 [] b \in {a1, b1} -> 1 [] b = a2 -> 2 [] b = a3 -> 3 [] b = a4 -> 4]

=============================================================================
