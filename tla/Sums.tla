--------------------------------- MODULE Sums ---------------------------------
(***************************************************************************)
(* Sums of natural numbers over a finite set: of weights, of stakes, of    *)
(* rewards.  A sum is defined as the cardinality of a set of units:        *)
(* additivity, monotonicity and quorum intersection are then facts about   *)
(* finite sets, which TLC can count and TLAPS can prove.                   *)
(***************************************************************************)
EXTENDS Integers, FiniteSets

(* The units that the members of S hold under f, and the sum of f over S.  *)
Units(f, S) == UNION {{v} \X (1..f[v]) : v \in S}

Sum(f, S) == Cardinality(Units(f, S))

Total(f) == Sum(f, DOMAIN f)

===============================================================================
