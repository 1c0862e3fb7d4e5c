----------------------------- MODULE MCDcfEpochs -----------------------------
(* Two validators over three short epochs and their boundaries.            *)
EXTENDS DcfEpochs, TLC

CONSTANTS v1, v2

Symmetry == Permutations(Validators)

=============================================================================
