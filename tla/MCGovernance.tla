----------------------------- MODULE MCGovernance -----------------------------
(* Two validators, two accounts that propose and vote, and a proposal of   *)
(* each sort.  The accounts are interchangeable.                           *)
EXTENDS Governance, TLC

CONSTANTS v1, v2, a1, a2

Naming(group) == [v \in Validators |-> IF v \in group THEN 1 ELSE 0]

MCActions == {
    [kind |-> "RewardMultiple", targets |-> Naming({v1, v2}), amount |-> 0],
    [kind |-> "Slash", targets |-> Naming({v1}), amount |-> 1],
    [kind |-> "RemoveValidator", targets |-> Naming({v2}), amount |-> 0]}

(* One alone, and one named twice beside the other.                        *)
MCRootLists == {Naming({v1}), Naming({v2}), [Naming({v1, v2}) EXCEPT ![v1] = 2]}

MCSymmetry == Permutations(Accounts)

MCShares == [base |-> 60, performance |-> 25, top |-> 15]
PerOperation(n) == [op \in Operations |-> n]
One == PerOperation(1)
PerBlockOf == [submit |-> 1, vote |-> 1]
MCWindow == [submit |-> 2, vote |-> 1]

=============================================================================
