--------------------------- MODULE MCValidatorScores ---------------------------
(* A genesis validator and a candidate that may join with a third or with  *)
(* three times its stake, over epochs of two blocks, the regular one of    *)
(* which decays and checks the scores.  A quarter of the stake is just fit *)
(* for a seat, with the inference result and not without it.               *)
EXTENDS ValidatorScores

CONSTANTS a, b

MCDefaultWeights == [pos |-> 11, poi |-> 9]
MCWeightPairs == {[pos |-> 4, poi |-> 16]}

=============================================================================
