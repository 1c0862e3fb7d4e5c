---------------------------- MODULE MCDvfVotePool ----------------------------
(* Small instances of DvfVotePool: two tasks, two competing checkpoints and *)
(* a later one.                                                             *)
EXTENDS DvfVotePool

CONSTANTS t1, t2, v1, v2, a, b, c

PoolNumber == [x \in Blocks |-> IF x = c THEN 2 ELSE 1]

=============================================================================
