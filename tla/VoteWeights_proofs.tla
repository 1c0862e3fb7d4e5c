-------------------------- MODULE VoteWeights_proofs --------------------------
(***************************************************************************)
(* Lemmas about sums of weights and about quorums, for every finite set of *)
(* validators, every scale and every threshold above one half.             *)
(***************************************************************************)
EXTENDS VoteWeights, FiniteSetTheorems, TLAPS

(* Induction over the subsets of a finite set: the property is the set P   *)
(* of those that have it.  A subset that fails it and has no smaller one   *)
(* that does would be one member more than a subset in P.                  *)
LEMMA SubsetInduction ==
    ASSUME NEW D, IsFiniteSet(D), NEW P, {} \in P,
           \A S \in SUBSET D : \A v \in D \ S : S \in P => S \cup {v} \in P
    PROVE  \A S \in SUBSET D : S \in P
<1> DEFINE Order == StrictSubsetOrdering(D)
           Failing == {S \in SUBSET D : S \notin P}
<1>1. IsWellFoundedOn(Order, SUBSET D)
    BY FS_StrictSubsetOrderingWellFounded, FS_FiniteSubsetsOfFinite
<1>2. SUFFICES ASSUME Failing # {} PROVE FALSE
    OBVIOUS
<1>3. PICK S \in Failing : \A T \in Failing : ~(<<T, S>> \in Order)
  <2> HIDE DEF Order
  <2>1. Failing \subseteq SUBSET D
      OBVIOUS
  <2> HIDE DEF Failing
  <2> QED  BY <1>1, <1>2, <2>1, WFMin
<1>4. PICK v \in S : TRUE
    BY <1>3
<1> DEFINE T == S \ {v}
<1>5. T \in SUBSET D /\ v \in D \ T /\ T \cup {v} = S /\ T # S
    BY <1>3, <1>4
<1>6. <<T, S>> \in Order
    BY <1>3, <1>5 DEF StrictSubsetOrdering
<1> HIDE DEF T
<1>7. T \in P
    BY <1>3, <1>5, <1>6
<1> QED
    BY <1>3, <1>5, <1>7

(* A set of naturals has a least member.                                   *)
LEMMA SmallestOfSet ==
    ASSUME NEW T \in SUBSET Nat, T # {}
    PROVE  \E m \in T : \A k \in T : m <= k
<1> DEFINE Less == OpToRel(<, Nat)
<1>1. IsWellFoundedOn(Less, Nat)
    BY NatLessThanWellFounded
<1>2. PICK m \in T : \A k \in T : ~(<<k, m>> \in Less)
  <2> HIDE DEF Less
  <2> QED  BY <1>1, WFMin
<1>3. \A k \in T : ~(k < m)
    BY <1>2 DEF OpToRel
<1> QED
    BY <1>3

-----------------------------------------------------------------------------

(* A finite set holds finitely many units.                                 *)
LEMMA UnitsFinite ==
    ASSUME NEW D, IsFiniteSet(D), NEW f \in [D -> Nat]
    PROVE  \A S \in SUBSET D : IsFiniteSet(Units(f, S))
<1> SUFFICES ASSUME NEW S \in SUBSET D
             PROVE  IsFiniteSet(Units(f, S))
    OBVIOUS
<1> DEFINE Own == [v \in S |-> {v} \X (1..f[v])]
           Owned == {{v} \X (1..f[v]) : v \in S}
<1>1. IsFiniteSet(S)
    BY FS_Subset
<1>2. Own \in Surjection(S, Owned)
    BY DEF Surjection
<1>3. IsFiniteSet(Owned)
  <2> HIDE DEF Own, Owned
  <2> QED  BY <1>1, <1>2, FS_Surjection
<1>4. ASSUME NEW T \in Owned
      PROVE  IsFiniteSet(T)
  <2>1. PICK v \in S : T = {v} \X (1..f[v])
      OBVIOUS
  <2>2. f[v] \in Nat
      OBVIOUS
  <2>3. IsFiniteSet({v})
      BY FS_Singleton
  <2>4. IsFiniteSet(1..f[v])
    <3> DEFINE n == f[v]
    <3> HIDE DEF n
    <3>1. n \in Int
        BY <2>2 DEF n
    <3>2. IsFiniteSet(1..n)
        BY <3>1, FS_Interval
    <3> QED  BY <3>2 DEF n
  <2> QED  BY <2>1, <2>3, <2>4, FS_Product
<1>5. IsFiniteSet(UNION Owned)
  <2> HIDE DEF Owned
  <2> QED  BY <1>3, <1>4, FS_UNION
<1> QED  BY <1>5 DEF Units

(* A sum of weights is a natural number that grows with the set.           *)
LEMMA SumMonotone ==
    ASSUME NEW D, IsFiniteSet(D), NEW f \in [D -> Nat]
    PROVE  \A T \in SUBSET D : \A S \in SUBSET T :
                Sum(f, S) \in Nat /\ Sum(f, T) \in Nat /\ Sum(f, S) <= Sum(f, T)
<1> SUFFICES ASSUME NEW T \in SUBSET D, NEW S \in SUBSET T
             PROVE  Sum(f, S) \in Nat /\ Sum(f, T) \in Nat /\ Sum(f, S) <= Sum(f, T)
    OBVIOUS
<1>1. IsFiniteSet(Units(f, S)) /\ IsFiniteSet(Units(f, T))
    BY UnitsFinite
<1>2. Units(f, S) \in SUBSET Units(f, T)
    BY DEF Units
<1> QED  BY <1>1, <1>2, FS_Subset, FS_CardinalityType DEF Sum

(* The weights of two sets of validators overlap in those of the members   *)
(* they share.                                                             *)
LEMMA SumUnion ==
    ASSUME NEW D, IsFiniteSet(D), NEW f \in [D -> Nat],
           NEW S \in SUBSET D, NEW T \in SUBSET D
    PROVE  Sum(f, S \cup T) = Sum(f, S) + Sum(f, T) - Sum(f, S \cap T)
<1>1. IsFiniteSet(Units(f, S)) /\ IsFiniteSet(Units(f, T))
    BY UnitsFinite
<1>2. Units(f, S \cup T) = Units(f, S) \cup Units(f, T)
    BY DEF Units
<1>3. Units(f, S \cap T) = Units(f, S) \cap Units(f, T)
    BY DEF Units
<1>4. Cardinality(Units(f, S) \cup Units(f, T))
        = Cardinality(Units(f, S)) + Cardinality(Units(f, T))
            - Cardinality(Units(f, S) \cap Units(f, T))
    BY <1>1, FS_Union
<1> QED  BY <1>2, <1>3, <1>4 DEF Sum

(* The sum over one member, over none, and over one member more.          *)
LEMMA SumOne ==
    ASSUME NEW D, IsFiniteSet(D), NEW f \in [D -> Nat], NEW v \in D
    PROVE  Sum(f, {v}) = f[v]
<1>1. Units(f, {v}) = {v} \X (1..f[v])
    BY DEF Units
<1>2. f[v] \in Nat
    OBVIOUS
<1>3. IsFiniteSet({v}) /\ Cardinality({v}) = 1
    BY FS_Singleton
<1>4. IsFiniteSet(1..f[v]) /\ Cardinality(1..f[v]) = f[v]
  <2> DEFINE n == f[v]
  <2> HIDE DEF n
  <2>1. n \in Nat
      BY <1>2 DEF n
  <2>2. IsFiniteSet(1..n) /\ Cardinality(1..n) = n
      BY <2>1, FS_Interval
  <2> QED  BY <2>2 DEF n
<1>5. Cardinality({v} \X (1..f[v])) = Cardinality({v}) * Cardinality(1..f[v])
    BY <1>3, <1>4, FS_Product
<1>6. 1 * f[v] = f[v]
    BY <1>2
<1> QED  BY <1>1, <1>3, <1>4, <1>5, <1>6 DEF Sum

LEMMA SumEmpty == ASSUME NEW f PROVE Sum(f, {}) = 0
BY FS_EmptySet DEF Sum, Units

LEMMA SumAdd ==
    ASSUME NEW D, IsFiniteSet(D), NEW f \in [D -> Nat], NEW S \in SUBSET D, NEW v \in D \ S
    PROVE  Sum(f, S \cup {v}) = Sum(f, S) + f[v] /\ Sum(f, S) \in Nat
<1>1. S \cap {v} = {} /\ {v} \in SUBSET D
    OBVIOUS
<1>2. Sum(f, S \cup {v}) = Sum(f, S) + Sum(f, {v}) - Sum(f, S \cap {v})
    BY <1>1, SumUnion
<1>3. Sum(f, S) \in Nat /\ f[v] \in Nat
    BY SumMonotone
<1>4. v \in D /\ Sum(f, S \cap {v}) = 0
    BY <1>1, SumEmpty
<1>5. Sum(f, {v}) = f[v]
    BY <1>4, SumOne
<1> QED
    BY <1>2, <1>3, <1>4, <1>5

(* Nothing adds up to nothing.                                             *)
LEMMA SumZero ==
    ASSUME NEW S, NEW f, \A v \in S : f[v] = 0
    PROVE  Sum(f, S) = 0
<1>1. Units(f, S) = {}
  <2>1. \A v \in S : 1..f[v] = {}
      OBVIOUS
  <2> QED  BY <2>1 DEF Units
<1> QED
    BY <1>1, FS_EmptySet DEF Sum

(* What holds of each member's share, up to two scales, holds of the sums. *)
LEMMA ScaledSums ==
    ASSUME NEW D, IsFiniteSet(D), NEW f \in [D -> Nat], NEW g \in [D -> Nat],
           NEW a \in Nat, NEW b \in Nat,
           \A v \in D : f[v] * a <= g[v] * b
    PROVE  \A S \in SUBSET D : Sum(f, S) * a <= Sum(g, S) * b
<1> DEFINE P == {S \in SUBSET D : Sum(f, S) * a <= Sum(g, S) * b}
<1>1. {} \in P
    BY SumEmpty
<1>2. ASSUME NEW S \in SUBSET D, NEW v \in D \ S, S \in P
      PROVE  S \cup {v} \in P
  <2> DEFINE s == Sum(f, S)
             t == Sum(g, S)
             x == f[v]
             y == g[v]
  <2>1. s \in Nat /\ t \in Nat /\ x \in Nat /\ y \in Nat /\ s * a <= t * b /\ x * a <= y * b
      BY <1>2, SumMonotone
  <2>2. Sum(f, S \cup {v}) = s + x /\ Sum(g, S \cup {v}) = t + y
      BY SumAdd
  <2> HIDE DEF s, t, x, y
  <2>3. (s + x) * a = s * a + x * a /\ (t + y) * b = t * b + y * b
      BY <2>1
  <2>4. (s + x) * a <= (t + y) * b
      BY <2>1, <2>3
  <2>5. S \cup {v} \in SUBSET D
      OBVIOUS
  <2> QED
      BY <2>2, <2>4, <2>5
<1> HIDE DEF P
<1>3. \A S \in SUBSET D : S \in P
    BY <1>1, <1>2, SubsetInduction
<1> QED
    BY <1>3 DEF P

(* The sum of two functions.                                               *)
LEMMA SumsAdd ==
    ASSUME NEW D, IsFiniteSet(D), NEW f \in [D -> Nat], NEW g \in [D -> Nat]
    PROVE  \A S \in SUBSET D : Sum([v \in D |-> f[v] + g[v]], S) = Sum(f, S) + Sum(g, S)
<1> DEFINE h == [v \in D |-> f[v] + g[v]]
           P == {S \in SUBSET D : Sum(h, S) = Sum(f, S) + Sum(g, S)}
<1>0. h \in [D -> Nat] /\ \A v \in D : h[v] = f[v] + g[v] /\ f[v] \in Nat /\ g[v] \in Nat
    OBVIOUS
<1> HIDE DEF h
<1>1. {} \in P
    BY SumEmpty
<1>2. ASSUME NEW S \in SUBSET D, NEW v \in D \ S, S \in P
      PROVE  S \cup {v} \in P
  <2>1. /\ Sum(f, S \cup {v}) = Sum(f, S) + f[v] /\ Sum(f, S) \in Nat
        /\ Sum(g, S \cup {v}) = Sum(g, S) + g[v] /\ Sum(g, S) \in Nat
    <3>1. Sum(f, S \cup {v}) = Sum(f, S) + f[v] /\ Sum(f, S) \in Nat
        BY SumAdd
    <3>2. Sum(g, S \cup {v}) = Sum(g, S) + g[v] /\ Sum(g, S) \in Nat
        BY SumAdd
    <3> QED  BY <3>1, <3>2
  <2>a. Sum(h, S \cup {v}) = Sum(h, S) + h[v]
      BY <1>0, SumAdd
  <2>2. Sum(h, S) = Sum(f, S) + Sum(g, S)
      BY <1>2
  <2>3. Sum(h, S \cup {v}) = Sum(f, S \cup {v}) + Sum(g, S \cup {v})
      BY <1>0, <2>1, <2>2, <2>a
  <2> QED
      BY <2>3
<1> HIDE DEF P
<1>3. \A S \in SUBSET D : S \in P
    BY <1>1, <1>2, SubsetInduction
<1> QED
    BY <1>3 DEF P, h

(* No member holds more than the whole set.                                *)
LEMMA MemberBelowTotal ==
    ASSUME NEW D, IsFiniteSet(D), NEW f \in [D -> Nat]
    PROVE  Total(f) \in Nat /\ \A v \in D : f[v] <= Total(f)
<1>1. DOMAIN f = D
    OBVIOUS
<1>2. Total(f) \in Nat
    BY <1>1, SumMonotone DEF Total
<1>3. ASSUME NEW v \in D
      PROVE  f[v] <= Total(f)
  <2>1. Sum(f, {v}) = f[v]
      BY SumOne
  <2>2. Sum(f, {v}) <= Sum(f, D)
      BY SumMonotone
  <2> QED  BY <1>1, <2>1, <2>2 DEF Total
<1> QED  BY <1>2, <1>3

(* The stored weights are naturals, none above the scale, whatever stakes  *)
(* an epoch freezes: freeze_epoch_weights never divides by zero.           *)
LEMMA NormalizedWeightsType ==
    ASSUME NEW D, IsFiniteSet(D), NEW stake \in [D -> Nat]
    PROVE  NormalizedWeights(stake) \in [D -> 0..VoteWeightScale]
<1> DEFINE total == Total(stake)
           count == Cardinality(D)
<1>1. total \in Nat /\ \A v \in D : stake[v] <= total
    BY MemberBelowTotal
<1>2. DOMAIN stake = D
    OBVIOUS
<1>3. VoteWeightScale \in Nat
    BY VoteWeightScaleAssumption
<1>4. ASSUME NEW v \in D
      PROVE  (IF total > 0 THEN (stake[v] * VoteWeightScale) \div total
                           ELSE VoteWeightScale \div count) \in 0..VoteWeightScale
  <2>1. CASE total > 0
    <3> DEFINE n == stake[v] * VoteWeightScale
    <3>1. stake[v] \in Nat /\ stake[v] <= total
        BY <1>1
    <3>2. n \in Nat /\ n <= total * VoteWeightScale
      <4> DEFINE own == stake[v]
      <4> HIDE DEF total, own
      <4>1. /\ own \in Nat /\ total \in Nat /\ VoteWeightScale \in Nat
            /\ own <= total
          BY <1>1, <1>3, <3>1 DEF own
      <4>2. own * VoteWeightScale \in Nat /\ own * VoteWeightScale <= total * VoteWeightScale
          BY <4>1
      <4> QED  BY <4>2 DEF own
    <3>3. n \div total \in Nat /\ n \div total <= VoteWeightScale
      <4> HIDE DEF n, total
      <4> QED BY <3>2, <2>1, <1>1, <1>3
    <3> QED  BY <3>3, <2>1, <1>3
  <2>2. CASE ~(total > 0)
    <3>1. count \in Nat \ {0}
        BY FS_CardinalityType, FS_EmptySet
    <3>2. VoteWeightScale \div count \in 0..VoteWeightScale
      <4> HIDE DEF count
      <4> QED  BY <3>1, <1>3
    <3> QED  BY <2>2, <3>2
  <2> QED  BY <2>1, <2>2
<1> QED  BY <1>2, <1>4 DEF NormalizedWeights

(* Perbill's rounding, by half a unit at most, never brings the threshold  *)
(* down to one half of a total above 50 (the code's totals are close to    *)
(* 32_000).                                                                *)
LEMMA ThresholdAboveHalf ==
    ASSUME NEW total \in Nat
    PROVE  /\ Threshold(total) \in Nat
           /\ total > 50 => 2 * Threshold(total) > total
<1> DEFINE p == ThresholdPercent * total
<1>1. p \in Nat /\ p >= 51 * total
    BY ThresholdPercentAssumption
<1>2. /\ (p + 49) \div 100 \in Nat
      /\ 100 * ((p + 49) \div 100) >= p - 50
  <2> HIDE DEF p
  <2> QED  BY <1>1
<1>3. Threshold(total) = (p + 49) \div 100
    BY DEF Threshold
<1> QED
  <2> HIDE DEF p
  <2> QED BY <1>1, <1>2, <1>3

(* Two quorums of the same frozen weights share validators, and those      *)
(* hold at least what the two thresholds exceed the total by: finalizing   *)
(* two blocks under one set of weights takes validators that signed both.  *)
THEOREM QuorumsIntersect ==
    ASSUME NEW D, IsFiniteSet(D), NEW w \in [D -> Nat], Total(w) > 50,
           NEW S \in SUBSET D, NEW T \in SUBSET D,
           IsQuorum(w, S), IsQuorum(w, T)
    PROVE  /\ Sum(w, S \cap T) >= 2 * Threshold(Total(w)) - Total(w)
           /\ S \cap T # {}
<1>1. DOMAIN w = D
    OBVIOUS
<1>2. Total(w) = Sum(w, D) /\ Total(w) \in Nat
    BY <1>1, SumMonotone DEF Total
<1>3. Sum(w, S \cup T) \in Nat /\ Sum(w, S \cup T) <= Sum(w, D)
    BY SumMonotone
<1>4. Sum(w, S) \in Nat /\ Sum(w, T) \in Nat /\ Sum(w, S \cap T) \in Nat
    BY SumMonotone
<1>5. Sum(w, S \cup T) = Sum(w, S) + Sum(w, T) - Sum(w, S \cap T)
    BY SumUnion
<1>6. Threshold(Total(w)) \in Nat /\ 2 * Threshold(Total(w)) > Total(w)
    BY <1>2, ThresholdAboveHalf
<1>7. Sum(w, S) >= Threshold(Total(w)) /\ Sum(w, T) >= Threshold(Total(w))
    BY DEF IsQuorum
<1>8. Sum(w, S \cap T) >= 2 * Threshold(Total(w)) - Total(w)
    BY <1>2, <1>3, <1>4, <1>5, <1>6, <1>7
<1>9. Sum(w, S \cap T) > 0
    BY <1>2, <1>4, <1>6, <1>8
<1>10. Sum(w, {}) = 0
    BY FS_EmptySet DEF Sum, Units
<1>11. S \cap T # {}
    BY <1>9, <1>10
<1> QED  BY <1>8, <1>11

(* A quorum stays one when validators are added to it.                     *)
LEMMA QuorumMonotone ==
    ASSUME NEW D, IsFiniteSet(D), NEW w \in [D -> Nat],
           NEW T \in SUBSET D, NEW S \in SUBSET T, IsQuorum(w, S)
    PROVE  IsQuorum(w, T)
<1>1. Sum(w, S) \in Nat /\ Sum(w, T) \in Nat /\ Sum(w, S) <= Sum(w, T)
    BY SumMonotone
<1>2. DOMAIN w = D
    OBVIOUS
<1>3. Threshold(Total(w)) \in Nat
    BY <1>2, MemberBelowTotal, ThresholdAboveHalf
<1> QED  BY <1>1, <1>3 DEF IsQuorum

-----------------------------------------------------------------------------

(* Division rounds down, by less than one.                                 *)
LEMMA Rounding ==
    ASSUME NEW n \in Nat, NEW d \in Nat \ {0}
    PROVE  /\ n \div d \in Nat
           /\ (n \div d) * d <= n
           /\ n <= (n \div d + 1) * d
OBVIOUS

(* One for each member counts the members.                                 *)
LEMMA CountingSum ==
    ASSUME NEW D, IsFiniteSet(D), NEW S \in SUBSET D
    PROVE  Sum([v \in D |-> 1], S) = Cardinality(S) /\ Cardinality(S) \in Nat
<1>1. Units([v \in D |-> 1], S) = S \X {1}
  <2>1. 1..1 = {1}
      OBVIOUS
  <2> QED  BY <2>1 DEF Units
<1>2. IsFiniteSet(S) /\ IsFiniteSet({1}) /\ Cardinality({1}) = 1
    BY FS_Subset, FS_Singleton
<1>3. Cardinality(S \X {1}) = Cardinality(S) * Cardinality({1}) /\ Cardinality(S) \in Nat
    BY <1>2, FS_Product, FS_CardinalityType
<1>4. Cardinality(S) * 1 = Cardinality(S)
    BY <1>3
<1> QED
    BY <1>1, <1>2, <1>3, <1>4 DEF Sum

(* The weights of any group against its stake: rounding takes less than a  *)
(* unit of the scale from each member and adds nothing.                    *)
LEMMA WeightsOfStake ==
    ASSUME NEW D, IsFiniteSet(D), NEW stake \in [D -> Nat], Total(stake) > 0,
           NEW S \in SUBSET D
    PROVE  LET w == NormalizedWeights(stake)
           IN  /\ Sum(w, S) * Total(stake) <= Sum(stake, S) * VoteWeightScale
               /\ Sum(stake, S) * VoteWeightScale <= (Sum(w, S) + Cardinality(S)) * Total(stake)
<1> DEFINE w == NormalizedWeights(stake)
           total == Total(stake)
           ones == [v \in D |-> 1]
           up == [v \in D |-> w[v] + ones[v]]
<1>1. total \in Nat \ {0} /\ VoteWeightScale \in Nat
    BY MemberBelowTotal, VoteWeightScaleAssumption
<1>2. w \in [D -> Nat]
  <2>1. w \in [D -> 0..VoteWeightScale]
      BY NormalizedWeightsType
  <2>2. 0..VoteWeightScale \in SUBSET Nat
      BY <1>1
  <2> QED  BY <2>1, <2>2
<1>3. ASSUME NEW v \in D
      PROVE  w[v] * total <= stake[v] * VoteWeightScale /\ stake[v] * VoteWeightScale <= (w[v] + 1) * total
  <2> DEFINE n == stake[v] * VoteWeightScale
  <2>1. w[v] = n \div total
      BY <1>1 DEF NormalizedWeights
  <2>2. stake[v] \in Nat
      OBVIOUS
  <2>3. n \in Nat
      BY <1>1, <2>2
  <2> HIDE DEF n, total, w
  <2>4. (n \div total) * total <= n /\ n <= (n \div total + 1) * total
      BY <1>1, <2>3, Rounding
  <2> QED  BY <2>1, <2>4 DEF n
<1>4. ones \in [D -> Nat] /\ up \in [D -> Nat] /\ \A v \in D : up[v] = w[v] + 1
    BY <1>2
<1>5. Sum(up, S) = Sum(w, S) + Cardinality(S)
  <2> HIDE DEF w, ones
  <2>1. Sum(up, S) = Sum(w, S) + Sum(ones, S)
      BY <1>2, <1>4, SumsAdd
  <2> QED  BY <2>1, CountingSum DEF ones
<1> HIDE DEF w, total, up, ones
<1>6. Sum(w, S) * total <= Sum(stake, S) * VoteWeightScale
    BY <1>1, <1>2, <1>3, ScaledSums
<1>7. Sum(stake, S) * VoteWeightScale <= Sum(up, S) * total
  <2>1. \A v \in D : stake[v] * VoteWeightScale <= up[v] * total
      BY <1>3, <1>4
  <2> QED  BY <1>1, <1>4, <2>1, ScaledSums
<1> QED
    BY <1>5, <1>6, <1>7 DEF w, total

(* The threshold is the percentage of the total, rounded.                  *)
LEMMA ThresholdRounds ==
    ASSUME NEW total \in Nat
    PROVE  /\ 100 * Threshold(total) >= ThresholdPercent * total - 50
           /\ 100 * Threshold(total) <= ThresholdPercent * total + 49
<1> DEFINE p == ThresholdPercent * total
<1>1. p \in Nat
    BY ThresholdPercentAssumption
<1>2. 100 * ((p + 49) \div 100) >= p - 50 /\ 100 * ((p + 49) \div 100) <= p + 49
  <2> HIDE DEF p
  <2> QED  BY <1>1
<1> QED
    BY <1>2 DEF Threshold

(* All that the weights lose by rounding is a unit for each validator.     *)
LEMMA TotalWeight ==
    ASSUME NEW D, IsFiniteSet(D), NEW stake \in [D -> Nat], Total(stake) > 0
    PROVE  LET w == NormalizedWeights(stake)
           IN  /\ w \in [D -> Nat] /\ Total(w) \in Nat
               /\ Total(w) <= VoteWeightScale
               /\ VoteWeightScale <= Total(w) + Cardinality(D)
<1> DEFINE w == NormalizedWeights(stake)
           total == Total(stake)
           sum == Sum(w, D)
           n == Cardinality(D)
<1>1. total \in Nat \ {0} /\ VoteWeightScale \in Nat /\ Sum(stake, D) = total
    BY MemberBelowTotal, VoteWeightScaleAssumption DEF Total
<1>2. w \in [D -> Nat]
  <2>1. w \in [D -> 0..VoteWeightScale]
      BY NormalizedWeightsType
  <2>2. 0..VoteWeightScale \in SUBSET Nat
      BY <1>1
  <2> QED  BY <2>1, <2>2
<1>3. sum \in Nat /\ n \in Nat /\ Total(w) = sum
    BY <1>2, MemberBelowTotal, FS_CardinalityType DEF Total
<1>4. sum * total <= total * VoteWeightScale /\ total * VoteWeightScale <= (sum + n) * total
    BY <1>1, WeightsOfStake
<1>5. sum <= VoteWeightScale /\ VoteWeightScale <= sum + n
  <2> HIDE DEF sum, n, total
  <2>1. \A a, b \in Nat : \A t \in Nat \ {0} : a * t <= t * b => a <= b
      OBVIOUS
  <2>2. \A a, b \in Nat : \A t \in Nat \ {0} : t * a <= b * t => a <= b
      OBVIOUS
  <2> QED  BY <1>1, <1>3, <1>4, <2>1, <2>2
<1> QED
    BY <1>2, <1>3, <1>5

(* What the two rounding bounds make of a quorum, in numbers alone: w and  *)
(* s are the weight and the stake of the group, all the total weight.      *)
LEMMA TwoThirdsArithmetic ==
    ASSUME NEW w \in Nat, NEW s \in Nat, NEW all \in Nat, NEW total \in Nat \ {0},
           NEW n \in Nat, NEW scale \in Nat, NEW percent \in 67..100,
           scale >= 201 * n + 150, scale <= all + n,
           100 * w >= percent * all - 50,
           w * total <= s * scale
    PROVE  3 * s >= 2 * total
<1>1. percent * all >= 67 * all
    OBVIOUS
<1>2. 300 * w >= 200 * scale
    BY <1>1
<1>3. 3 * w >= 2 * scale
    BY <1>2
<1>4. (3 * w) * total >= (2 * scale) * total
    BY <1>3
<1>5. (3 * s) * scale >= (2 * total) * scale
    BY <1>4
<1>6. scale > 0
    OBVIOUS
<1> QED
    BY <1>5, <1>6

(* And what they make of the percentage, held with a unit to spare for    *)
(* each of the m members of the group and one more.                        *)
LEMMA EnoughStakeArithmetic ==
    ASSUME NEW w \in Nat, NEW s \in Nat, NEW all \in Nat, NEW total \in Nat \ {0},
           NEW m \in Nat, NEW scale \in Nat, NEW percent \in 51..100,
           all <= scale,
           s * scale <= (w + m) * total,
           s * scale * 100 >= total * (percent * scale + 100 * (m + 1))
    PROVE  100 * w >= percent * all + 100
<1>1. percent * all <= percent * scale
    OBVIOUS
<1> DEFINE x == percent * scale + 100 * (m + 1)
<1>2. x \in Nat
    OBVIOUS
<1>3. (100 * (w + m)) * total >= x * total
  <2>1. (100 * (w + m)) * total = 100 * ((w + m) * total)
      OBVIOUS
  <2> DEFINE p == s * scale
             q == (w + m) * total
  <2>2. p \in Nat /\ q \in Nat /\ p <= q /\ p * 100 >= total * x
      OBVIOUS
  <2>3. total * x = x * total
      BY <1>2
  <2> HIDE DEF p, x
  <2>4. 100 * q >= x * total
    <3> HIDE DEF q
    <3>1. 100 * q >= p * 100
        BY <2>2
    <3>2. x * total \in Nat
        BY <1>2
    <3> QED  BY <2>2, <2>3, <3>1, <3>2
  <2> QED  BY <2>1, <2>4
<1>4. 100 * (w + m) >= x
  <2> DEFINE y == 100 * (w + m)
  <2>1. y \in Nat /\ y * total >= x * total
      BY <1>3
  <2> HIDE DEF x, y
  <2>2. y >= x
      BY <1>2, <2>1
  <2> QED  BY <2>2 DEF y
<1> QED
    BY <1>1, <1>4

(* A quorum of the weights holds two thirds of the stake they were made    *)
(* from, if the scale is worth 201 units to each validator.                *)
LEMMA QuorumStake ==
    ASSUME NEW D, IsFiniteSet(D), NEW stake \in [D -> Nat], NEW S \in SUBSET D,
           ThresholdPercent >= 67, VoteWeightScale >= 201 * Cardinality(D) + 150,
           IsQuorum(NormalizedWeights(stake), S)
    PROVE  3 * Sum(stake, S) >= 2 * Total(stake)
<1> DEFINE w == NormalizedWeights(stake)
<1>1. Sum(stake, S) \in Nat /\ Total(stake) \in Nat /\ Cardinality(D) \in Nat /\ VoteWeightScale \in Nat
    BY SumMonotone, MemberBelowTotal, FS_CardinalityType, VoteWeightScaleAssumption
<1>2. CASE Total(stake) = 0
    BY <1>1, <1>2
<1>3. CASE Total(stake) > 0
  <2>1. w \in [D -> Nat] /\ Total(w) \in Nat /\ VoteWeightScale <= Total(w) + Cardinality(D)
      BY <1>3, TotalWeight
  <2>2. Sum(w, S) * Total(stake) <= Sum(stake, S) * VoteWeightScale
      BY <1>3, WeightsOfStake
  <2>3. Sum(w, S) >= Threshold(Total(w))
      BY DEF IsQuorum
  <2> HIDE DEF w
  <2>4. Sum(w, S) \in Nat
      BY <2>1, SumMonotone
  <2>5. Threshold(Total(w)) \in Nat /\ 100 * Threshold(Total(w)) >= ThresholdPercent * Total(w) - 50
      BY <2>1, ThresholdAboveHalf, ThresholdRounds
  <2>6. ThresholdPercent \in 67..100
      BY ThresholdPercentAssumption
  <2>7. 100 * Sum(w, S) >= ThresholdPercent * Total(w) - 50
    <3>1. ThresholdPercent * Total(w) \in Nat
        BY <2>1, <2>6
    <3> QED  BY <2>3, <2>4, <2>5, <3>1
  <2> QED
      BY <1>1, <1>3, <2>1, <2>2, <2>4, <2>6, <2>7, TwoThirdsArithmetic
<1> QED
    BY <1>1, <1>2, <1>3

(* A group that holds the percentage of the stake, and a unit of the scale *)
(* for each of its members and one more, is a quorum.                      *)
LEMMA StakeQuorum ==
    ASSUME NEW D, IsFiniteSet(D), NEW stake \in [D -> Nat], NEW S \in SUBSET D,
           Total(stake) > 0,
           Sum(stake, S) * VoteWeightScale * 100
             >= Total(stake) * (ThresholdPercent * VoteWeightScale + 100 * (Cardinality(S) + 1))
    PROVE  IsQuorum(NormalizedWeights(stake), S)
<1> DEFINE w == NormalizedWeights(stake)
<1>1. Sum(stake, S) \in Nat /\ Total(stake) \in Nat \ {0} /\ Cardinality(S) \in Nat /\ VoteWeightScale \in Nat
    BY SumMonotone, MemberBelowTotal, FS_Subset, FS_CardinalityType, VoteWeightScaleAssumption
<1>2. w \in [D -> Nat] /\ Total(w) \in Nat /\ Total(w) <= VoteWeightScale
    BY TotalWeight
<1>3. Sum(stake, S) * VoteWeightScale <= (Sum(w, S) + Cardinality(S)) * Total(stake)
    BY WeightsOfStake
<1> HIDE DEF w
<1>4. Sum(w, S) \in Nat
    BY <1>2, SumMonotone
<1>5. 100 * Sum(w, S) >= ThresholdPercent * Total(w) + 100
    BY <1>1, <1>2, <1>3, <1>4, ThresholdPercentAssumption, EnoughStakeArithmetic
<1>6. Threshold(Total(w)) \in Nat /\ 100 * Threshold(Total(w)) <= ThresholdPercent * Total(w) + 49
    BY <1>2, ThresholdAboveHalf, ThresholdRounds
<1>7. ThresholdPercent * Total(w) \in Nat
    BY <1>2, ThresholdPercentAssumption
<1>8. Sum(w, S) >= Threshold(Total(w))
    BY <1>4, <1>5, <1>6, <1>7
<1> QED
    BY <1>8 DEF IsQuorum, w

=============================================================================
