-------------------------- MODULE MCValidatorRegistry --------------------------
(* One genesis validator and one candidate that also uses the PoS calls.   *)
EXTENDS ValidatorRegistry

CONSTANTS g, c

=============================================================================
