--------------------------- MODULE Governance_proofs ---------------------------
(***************************************************************************)
(* Proofs about Governance: one vote of each account, effects that are     *)
(* authorized and happen once, verdicts that stay, the rate limits and the *)
(* reward caps, for any number of accounts, proposals and blocks and any   *)
(* limits.                                                                 *)
(* The reward budget rests on the lemmas about sums in VoteWeights_proofs; *)
(* the two constants of that module play no part in governance.            *)
(***************************************************************************)
EXTENDS Governance, VoteWeights_proofs

-----------------------------------------------------------------------------

(* A set with one element more.                                            *)
LEMMA OneMore ==
    ASSUME NEW S, NEW x, IsFiniteSet(S), x \notin S
    PROVE  /\ IsFiniteSet(S \cup {x})
           /\ Cardinality(S \cup {x}) = Cardinality(S) + 1
           /\ Cardinality(S) \in Nat
BY FS_AddElement, FS_CardinalityType

(* Blocks before another one are finitely many.                            *)
LEMMA BlocksFinite ==
    ASSUME NEW n \in Nat, NEW S, S \subseteq 0 .. n
    PROVE  IsFiniteSet(S)
<1>1. IsFiniteSet(0 .. n)
    BY FS_Interval
<1> QED  BY <1>1, FS_Subset

-----------------------------------------------------------------------------

(* The history of an account holds all that the window can still see.      *)
HistoryInv == \A op \in Operations : \A a \in Accounts :
    /\ log[op][a] \subseteq 0 .. block
    /\ opHistory[op][a] \subseteq log[op][a]
    /\ \A b \in log[op][a] : b >= block - Window[op] => b \in opHistory[op][a]

Stretch(op, a, start) == {b \in log[op][a] : start <= b /\ b <= start + Window[op]}

StretchInv == \A op \in Operations : \A a \in Accounts : \A start \in 0 .. block :
    Cardinality(Stretch(op, a, start)) <= PerAccount[op]

Now(op) == {a \in Accounts : block \in log[op][a]}

CounterInv == \A op \in Operations : opsInBlock[op] = Cardinality(Now(op))

VotesInv == TalliesMatchBallots /\ EffectsAuthorized

Inv == TypeOK /\ HistoryInv /\ StretchInv /\ CounterInv /\ VotesInv

LEMMA InitInv == Init => Inv
<1> SUFFICES ASSUME Init PROVE Inv
    OBVIOUS
<1>1. /\ proposals = <<>> /\ ballots = <<>> /\ runs = <<>> /\ Ids = {} /\ DOMAIN ballots = {} /\ DOMAIN runs = {}
      /\ block = 0
    BY DEF Init, Ids
<1>2. \A op \in Operations : \A a \in Accounts : log[op][a] = {} /\ opHistory[op][a] = {}
    BY DEF Init
<1>3. TypeOK
    BY <1>1, <1>2 DEF Init, TypeOK
<1>4. HistoryInv
    BY <1>2 DEF HistoryInv
<1>5. StretchInv
  <2>1. \A op \in Operations : \A a \in Accounts : \A start \in 0 .. block : Stretch(op, a, start) = {}
      BY <1>2 DEF Stretch
  <2>2. \A op \in Operations : PerAccount[op] \in Nat
      BY GovernanceAssumption
  <2> QED  BY <2>1, <2>2, FS_EmptySet DEF StretchInv
<1>6. CounterInv
  <2>1. \A op \in Operations : Now(op) = {}
      BY <1>2 DEF Now
  <2> QED  BY <2>1, FS_EmptySet DEF CounterInv, Init
<1>7. VotesInv
    BY <1>1 DEF VotesInv, TalliesMatchBallots, EffectsAuthorized
<1> QED  BY <1>3, <1>4, <1>5, <1>6, <1>7 DEF Inv

-----------------------------------------------------------------------------

RateInv == HistoryInv /\ StretchInv /\ CounterInv

RateTypes ==
    /\ block \in Nat
    /\ opsInBlock \in [Operations -> Nat]
    /\ opHistory \in [Operations -> [Accounts -> SUBSET Nat]]
    /\ log \in [Operations -> [Accounts -> SUBSET Nat]]

(* Recording what the limits allowed keeps the rates.                      *)
LEMMA RecordKeepsRates ==
    ASSUME RateTypes, RateInv, NEW op \in Operations, NEW who \in Accounts,
           WithinLimits(op, who), RecordOperation(op, who), block' = block
    PROVE  RateTypes' /\ RateInv'
<1> DEFINE W == Window[op]
           hist == opHistory[op][who]
           done == log[op][who]
<1>1. /\ W \in Nat /\ PerAccount[op] \in Nat /\ Interval[op] > 0 /\ Interval[op] \in Nat
      /\ block \in Nat /\ hist \subseteq done /\ done \subseteq 0 .. block
    BY GovernanceAssumption DEF RateTypes, RateInv, HistoryInv
<1>2. /\ log'[op][who] = done \cup {block}
      /\ opHistory'[op][who] = InWindow(op, hist \cup {block})
      /\ opsInBlock'[op] = opsInBlock[op] + 1
    BY DEF RecordOperation, RateTypes
<1>3. \A o \in Operations, a \in Accounts : o # op \/ a # who =>
          log'[o][a] = log[o][a] /\ opHistory'[o][a] = opHistory[o][a]
    BY DEF RecordOperation, RateTypes
<1>4. block \notin done
  <2>1. SUFFICES ASSUME block \in done PROVE FALSE
      OBVIOUS
  <2>2. block \in hist
      BY <1>1, <2>1 DEF RateInv, HistoryInv
  <2> QED  BY <1>1, <2>2 DEF WithinLimits
<1>5. RateTypes'
  <2>1. InWindow(op, hist \cup {block}) \subseteq Nat /\ done \cup {block} \subseteq Nat
      BY <1>1 DEF InWindow
  <2>2. log' \in [Operations -> [Accounts -> SUBSET Nat]] /\ opHistory' \in [Operations -> [Accounts -> SUBSET Nat]]
      BY <2>1 DEF RateTypes, RecordOperation
  <2>3. opsInBlock' \in [Operations -> Nat]
      BY DEF RateTypes, RecordOperation
  <2> QED  BY <2>2, <2>3 DEF RateTypes
<1>6. HistoryInv'
  <2> SUFFICES ASSUME NEW o \in Operations, NEW a \in Accounts
               PROVE  /\ log'[o][a] \subseteq 0 .. block
                      /\ opHistory'[o][a] \subseteq log'[o][a]
                      /\ \A b \in log'[o][a] : b >= block - Window[o] => b \in opHistory'[o][a]
      BY DEF HistoryInv
  <2>1. CASE o # op \/ a # who
      BY <1>3, <2>1 DEF RateInv, HistoryInv
  <2>2. CASE o = op /\ a = who
    <3>1. log'[o][a] \subseteq 0 .. block
        BY <1>1, <1>2, <2>2
    <3>2. opHistory'[o][a] \subseteq log'[o][a]
        BY <1>1, <1>2, <2>2 DEF InWindow
    <3>3. \A b \in done \cup {block} : b >= block - W => b \in InWindow(op, hist \cup {block})
        BY <1>1 DEF InWindow, RateInv, HistoryInv
    <3> QED  BY <1>2, <2>2, <3>1, <3>2, <3>3
  <2> QED  BY <2>1, <2>2
<1>7. StretchInv'
  <2> SUFFICES ASSUME NEW o \in Operations, NEW a \in Accounts, NEW start \in 0 .. block
               PROVE  Cardinality({b \in log'[o][a] : start <= b /\ b <= start + Window[o]}) <= PerAccount[o]
      BY DEF StretchInv, Stretch
  <2>1. CASE o # op \/ a # who
      BY <1>3, <2>1 DEF RateInv, StretchInv, Stretch
  <2>2. CASE o = op /\ a = who
    <3> DEFINE old == Stretch(op, who, start)
               new == {b \in done \cup {block} : start <= b /\ b <= start + W}
               seen == InWindow(op, hist)
    <3>1. old \subseteq done /\ IsFiniteSet(old) /\ block \notin old /\ IsFiniteSet(seen) /\ Cardinality(seen) < PerAccount[op]
      <4>1. old \subseteq 0 .. block /\ seen \subseteq 0 .. block
          BY <1>1 DEF Stretch, InWindow
      <4> QED  BY <1>1, <1>4, <4>1, BlocksFinite DEF Stretch, WithinLimits
    <3>2. CASE block <= start + W
      <4>1. old \subseteq seen
          BY <1>1, <3>2 DEF Stretch, InWindow, RateInv, HistoryInv
      <4>2. Cardinality(old) <= Cardinality(seen) /\ Cardinality(old) \in Nat /\ Cardinality(seen) \in Nat
          BY <3>1, <4>1, FS_Subset, FS_CardinalityType
      <4>3. new = old \cup {block}
          BY <1>1, <3>2 DEF Stretch
      <4>4. Cardinality(new) = Cardinality(old) + 1
          BY <3>1, <4>3, OneMore
      <4>5. {b \in log'[o][a] : start <= b /\ b <= start + Window[o]} = new
          BY <1>2, <2>2
      <4> HIDE DEF new, old, seen
      <4>6. Cardinality(new) <= PerAccount[op]
          BY <1>1, <3>1, <4>2, <4>4
      <4> QED  BY <2>2, <4>5, <4>6
    <3>3. CASE ~(block <= start + W)
      <4>1. new = old
          BY <1>1, <3>3 DEF Stretch
      <4> QED  BY <1>2, <2>2, <4>1 DEF RateInv, StretchInv
    <3> QED  BY <3>2, <3>3
  <2> QED  BY <2>1, <2>2
<1>8. CounterInv'
  <2>1. \A o \in Operations : o # op => Now(o)' = Now(o) /\ opsInBlock'[o] = opsInBlock[o]
      BY <1>3 DEF Now, RecordOperation, RateTypes
  <2>2. Now(op)' = Now(op) \cup {who} /\ who \notin Now(op)
    <3>1. \A a \in Accounts : block \in log'[op][a] <=> (a = who \/ block \in log[op][a])
        BY <1>2, <1>3
    <3> QED  BY <1>4, <3>1 DEF Now
  <2>3. IsFiniteSet(Now(op))
      BY GovernanceAssumption, FS_Subset DEF Now
  <2>4. Cardinality(Now(op)') = Cardinality(Now(op)) + 1
      BY <2>2, <2>3, OneMore
  <2> QED  BY <1>2, <2>1, <2>4 DEF CounterInv, RateInv
<1> QED  BY <1>5, <1>6, <1>7, <1>8 DEF RateInv

(* The counters start anew with the block, the history goes on.            *)
LEMMA BlockKeepsRates ==
    ASSUME RateTypes, RateInv, block' = block + 1, UNCHANGED <<opHistory, log>>,
           opsInBlock' = [op \in Operations |-> 0]
    PROVE  RateTypes' /\ RateInv'
<1>1. RateTypes'
    BY DEF RateTypes
<1>2. HistoryInv'
  <2>1. \A op \in Operations : Window[op] \in Nat
      BY GovernanceAssumption
  <2> QED  BY <2>1 DEF RateTypes, RateInv, HistoryInv
<1>3. \A op \in Operations, a \in Accounts : log[op][a] \subseteq 0 .. block
    BY DEF RateInv, HistoryInv
<1>4. StretchInv'
  <2> SUFFICES ASSUME NEW op \in Operations, NEW a \in Accounts, NEW start \in 0 .. block + 1
               PROVE  Cardinality(Stretch(op, a, start)) <= PerAccount[op]
      BY DEF StretchInv, Stretch
  <2>1. CASE start \in 0 .. block
      BY <2>1 DEF RateInv, StretchInv
  <2>2. CASE start = block + 1
    <3>1. Stretch(op, a, start) = {}
        BY <1>3, <2>2 DEF Stretch, RateTypes
    <3> QED  BY <3>1, FS_EmptySet, GovernanceAssumption
  <2> QED  BY <2>1, <2>2 DEF RateTypes
<1>5. CounterInv'
  <2>1. \A op \in Operations : Now(op)' = {}
      BY <1>3 DEF Now, RateTypes
  <2> QED  BY <2>1, FS_EmptySet DEF CounterInv
<1> QED  BY <1>1, <1>2, <1>4, <1>5 DEF RateInv

LEMMA SameRates ==
    ASSUME RateTypes, RateInv, UNCHANGED <<block, rates>>
    PROVE  RateTypes' /\ RateInv'
BY DEF RateTypes, RateInv, HistoryInv, StretchInv, Stretch, CounterInv, Now, rates

-----------------------------------------------------------------------------

PropTypes ==
    /\ proposals \in Seq(Proposals)
    /\ ballots \in Seq(BallotBoxes) /\ Len(ballots) = Len(proposals)
    /\ runs \in Seq(Nat) /\ Len(runs) = Len(proposals)

PropInv == PropTypes /\ VotesInv

Side(box, approve) == {a \in DOMAIN box : box[a] = approve}

(* What VotesInv says of one proposal.                                     *)
RowOK(p, box, n) ==
    /\ p.for = Cardinality(Side(box, TRUE))
    /\ p.against = Cardinality(Side(box, FALSE))
    /\ n = IF p.status = "Executed" THEN 1 ELSE 0
    /\ p.status \in {"Approved", "Executed"} =>
          \/ AutoApproved(p.action)
          \/ Cardinality(Side(box, TRUE)) > Cardinality(Side(box, FALSE))

LEMMA Rows == VotesInv <=> \A id \in Ids : RowOK(proposals[id], ballots[id], runs[id])
BY DEF VotesInv, TalliesMatchBallots, EffectsAuthorized, RowOK, Side, Ballots, Voted

LEMMA RowsNext == VotesInv' <=> \A id \in Ids' : RowOK(proposals'[id], ballots'[id], runs'[id])
BY DEF VotesInv, TalliesMatchBallots, EffectsAuthorized, RowOK, Side, Ballots, Voted

(* Taking effect keeps it, for a proposal approved or approved at once.    *)
LEMMA RowExecuted ==
    ASSUME NEW p \in Proposals, NEW box, NEW n \in Nat, RowOK(p, box, n), p.status # "Executed",
           AutoApproved(p.action) \/ p.status = "Approved"
    PROVE  RowOK([p EXCEPT !.status = "Executed"], box, n + 1)
<1> DEFINE q == [p EXCEPT !.status = "Executed"]
<1>1. q.status = "Executed" /\ q.for = p.for /\ q.against = p.against /\ q.action = p.action
    BY DEF Proposals
<1>2. n + 1 = 1
    BY DEF RowOK
<1>3. q.for = Cardinality(Side(box, TRUE)) /\ q.against = Cardinality(Side(box, FALSE))
    BY <1>1 DEF RowOK
<1>4. AutoApproved(q.action) \/ Cardinality(Side(box, TRUE)) > Cardinality(Side(box, FALSE))
    BY <1>1 DEF RowOK
<1> HIDE DEF q
<1>5. RowOK(q, box, n + 1)
    BY <1>1, <1>2, <1>3, <1>4 DEF RowOK
<1> QED  BY <1>5 DEF q

LEMMA SameProposals ==
    ASSUME PropInv, UNCHANGED <<proposals, ballots, runs>>
    PROVE  PropInv'
BY Rows, RowsNext DEF PropInv, PropTypes, Ids

LEMMA ProposedKeeps ==
    ASSUME PropInv, NEW action \in Actions, Proposed(action)
    PROVE  PropInv'
<1> DEFINE n == Len(proposals)
           p == [action |-> action, status |-> "Pending", for |-> 0, against |-> 0]
<1>1. n \in Nat /\ Ids = 1 .. n /\ DOMAIN ballots = 1 .. n /\ DOMAIN runs = 1 .. n
    BY DEF PropInv, PropTypes, Ids
<1>2. p \in Proposals /\ <<>> \in BallotBoxes
  <2>1. <<>> \in [{} -> BOOLEAN]
      OBVIOUS
  <2> QED  BY <2>1 DEF Proposals, Statuses, BallotBoxes
<1>3. PropTypes'
    BY <1>2 DEF PropInv, PropTypes, Proposed
<1>4. /\ Ids' = 1 .. n + 1
      /\ \A id \in 1 .. n : proposals'[id] = proposals[id] /\ ballots'[id] = ballots[id] /\ runs'[id] = runs[id]
      /\ proposals'[n + 1] = p /\ ballots'[n + 1] = <<>> /\ runs'[n + 1] = 0
    BY <1>1, <1>2 DEF PropInv, PropTypes, Proposed, Ids
<1>5. RowOK(p, <<>>, 0)
  <2>1. Side(<<>>, TRUE) = {} /\ Side(<<>>, FALSE) = {}
      BY DEF Side
  <2> QED  BY <2>1, FS_EmptySet DEF RowOK
<1>6. \A id \in Ids' : RowOK(proposals'[id], ballots'[id], runs'[id])
    BY <1>1, <1>4, <1>5, Rows DEF PropInv
<1> QED  BY <1>3, <1>6, RowsNext DEF PropInv

(* The ballots of a proposal with one more.                                *)
LEMMA OneMoreBallot ==
    ASSUME NEW box \in BallotBoxes, NEW who \in Accounts, who \notin DOMAIN box, NEW approve \in BOOLEAN
    PROVE  LET more == [a \in DOMAIN box \cup {who} |-> IF a = who THEN approve ELSE box[a]]
           IN  /\ more \in BallotBoxes
               /\ Cardinality(Side(more, approve)) = Cardinality(Side(box, approve)) + 1
               /\ \A other \in BOOLEAN : other # approve => Side(more, other) = Side(box, other)
               /\ Cardinality(Side(box, approve)) \in Nat
<1> DEFINE more == [a \in DOMAIN box \cup {who} |-> IF a = who THEN approve ELSE box[a]]
<1>1. DOMAIN box \subseteq Accounts /\ box \in [DOMAIN box -> BOOLEAN]
    BY DEF BallotBoxes
<1>2. more \in BallotBoxes
  <2>1. more \in [DOMAIN box \cup {who} -> BOOLEAN]
      BY <1>1
  <2> QED  BY <1>1, <2>1 DEF BallotBoxes
<1>3. IsFiniteSet(Side(box, approve)) /\ who \notin Side(box, approve)
    BY <1>1, GovernanceAssumption, FS_Subset DEF Side
<1>4. Side(more, approve) = Side(box, approve) \cup {who}
    BY DEF Side
<1>5. \A other \in BOOLEAN : other # approve => Side(more, other) = Side(box, other)
    BY DEF Side
<1> HIDE DEF more
<1> QED  BY <1>2, <1>3, <1>4, <1>5, OneMore DEF more

LEMMA VoteKeeps ==
    ASSUME PropInv, NEW who \in Accounts, NEW id \in Ids, NEW approve \in BOOLEAN,
           VoteProposal(who, id, approve)
    PROVE  PropInv'
<1> DEFINE p == Counted(proposals[id], approve)
           more == [a \in Voted(id) \cup {who} |-> IF a = who THEN approve ELSE ballots[id][a]]
<1>1. /\ proposals[id] \in Proposals /\ ballots[id] \in BallotBoxes /\ runs[id] \in Nat
      /\ id \in DOMAIN ballots /\ Ids = 1 .. Len(proposals) /\ Len(proposals) \in Nat
    BY DEF PropInv, PropTypes, Ids
<1>2. proposals[id].status = "Pending" /\ who \notin Voted(id)
    BY DEF VoteProposal, MayVote
<1>3. p \in Proposals /\ p.status = "Pending" /\ p.action = proposals[id].action
    BY <1>1, <1>2 DEF Counted, Proposals
<1>4. PICK active \in 0 .. MaxActive : proposals' = [proposals EXCEPT ![id] =
                  IF p.for + p.against >= (active + 1) \div 2
                  THEN [p EXCEPT !.status = Verdict(p.for, p.against)]
                  ELSE p]
    BY DEF VoteProposal
<1>5. ballots' = [ballots EXCEPT ![id] = more] /\ runs' = runs
    BY DEF VoteProposal
<1>6. /\ more \in BallotBoxes
      /\ Cardinality(Side(more, approve)) = Cardinality(Side(ballots[id], approve)) + 1
      /\ \A other \in BOOLEAN : other # approve => Side(more, other) = Side(ballots[id], other)
    BY <1>1, <1>2, OneMoreBallot DEF Voted
<1> HIDE DEF more
<1>7. RowOK(proposals[id], ballots[id], runs[id])
    BY Rows DEF PropInv
<1>8. p.for = Cardinality(Side(more, TRUE)) /\ p.against = Cardinality(Side(more, FALSE))
  <2>1. CASE approve
      BY <1>1, <1>6, <1>7, <2>1 DEF Counted, RowOK, Proposals
  <2>2. CASE ~approve
      BY <1>1, <1>6, <1>7, <2>2 DEF Counted, RowOK, Proposals
  <2> QED  BY <2>1, <2>2
<1> HIDE DEF p
<1>9. proposals'[id] \in {p, [p EXCEPT !.status = Verdict(p.for, p.against)]}
    BY <1>1, <1>4 DEF Ids
<1>10. (Verdict(p.for, p.against) = "Approved" /\ p.for > p.against) \/ Verdict(p.for, p.against) = "Rejected"
    BY DEF Verdict
<1>11. proposals'[id] \in Proposals
    BY <1>3, <1>9, <1>10 DEF Proposals, Statuses
<1>12. PropTypes'
    BY <1>1, <1>4, <1>5, <1>6, <1>11 DEF PropInv, PropTypes
<1>13. RowOK(proposals'[id], more, runs[id])
    BY <1>2, <1>3, <1>7, <1>8, <1>9, <1>10 DEF RowOK, Proposals
<1>14. \A i \in Ids' : RowOK(proposals'[i], ballots'[i], runs'[i])
    BY <1>1, <1>4, <1>5, <1>13, Rows DEF PropInv, Ids, PropTypes
<1> QED  BY <1>12, <1>14, RowsNext DEF PropInv

LEMMA ExecuteKeeps ==
    ASSUME PropInv, NEW id \in Ids, ExecuteProposal(id)
    PROVE  PropInv'
<1>1. /\ proposals[id] \in Proposals /\ runs[id] \in Nat /\ id \in DOMAIN runs
      /\ Ids = 1 .. Len(proposals) /\ Len(proposals) \in Nat
    BY DEF PropInv, PropTypes, Ids
<1>2. /\ proposals' = [proposals EXCEPT ![id].status = "Executed"]
      /\ runs' = [runs EXCEPT ![id] = @ + 1] /\ ballots' = ballots
      /\ proposals[id].status = "Approved"
    BY DEF ExecuteProposal, Executable
<1>3. proposals'[id] = [proposals[id] EXCEPT !.status = "Executed"] /\ runs'[id] = runs[id] + 1
    BY <1>1, <1>2 DEF Ids
<1>4. proposals'[id] \in Proposals
    BY <1>1, <1>3 DEF Proposals, Statuses
<1>5. PropTypes'
    BY <1>1, <1>2, <1>3, <1>4 DEF PropInv, PropTypes
<1>6. RowOK(proposals[id], ballots[id], runs[id])
    BY Rows DEF PropInv
<1>7. RowOK(proposals'[id], ballots[id], runs'[id])
    BY <1>1, <1>2, <1>3, <1>6, RowExecuted
<1>8. \A i \in Ids' : RowOK(proposals'[i], ballots'[i], runs'[i])
  <2>1. Ids' = Ids
      BY <1>1, <1>2 DEF Ids
  <2>2. \A i \in Ids : i # id => proposals'[i] = proposals[i] /\ runs'[i] = runs[i]
      BY <1>1, <1>2 DEF Ids, PropInv, PropTypes
  <2> QED  BY <1>2, <1>7, <2>1, <2>2, Rows DEF PropInv
<1> QED  BY <1>5, <1>8, RowsNext DEF PropInv

LEMMA BoundaryKeeps ==
    ASSUME PropInv, ProcessEpochProposals, ballots' = ballots
    PROVE  PropInv'
<1>1. /\ Ids = 1 .. Len(proposals) /\ Len(proposals) \in Nat
      /\ \A id \in Ids : proposals[id] \in Proposals /\ runs[id] \in Nat
    BY DEF PropInv, PropTypes, Ids
<1>2. /\ proposals' = [id \in Ids |->
              IF id \in DueAtBoundary THEN [proposals[id] EXCEPT !.status = "Executed"] ELSE proposals[id]]
      /\ runs' = [id \in Ids |-> IF id \in DueAtBoundary THEN runs[id] + 1 ELSE runs[id]]
    BY DEF ProcessEpochProposals
<1>3. \A id \in Ids : proposals'[id] \in Proposals /\ runs'[id] \in Nat
    BY <1>1, <1>2 DEF Proposals, Statuses
<1>4. Ids' = Ids /\ DOMAIN runs' = Ids
    BY <1>2 DEF Ids
<1>5. PropTypes'
  <2>1. proposals' \in Seq(Proposals) /\ runs' \in Seq(Nat)
      BY <1>1, <1>2, <1>3
  <2>2. Len(proposals') = Len(proposals) /\ Len(runs') = Len(proposals)
      BY <1>1, <1>2, <2>1
  <2> QED  BY <2>1, <2>2 DEF PropInv, PropTypes
<1>6. \A id \in Ids : RowOK(proposals'[id], ballots[id], runs'[id])
  <2> SUFFICES ASSUME NEW id \in Ids PROVE RowOK(proposals'[id], ballots[id], runs'[id])
      OBVIOUS
  <2>1. RowOK(proposals[id], ballots[id], runs[id])
      BY Rows DEF PropInv
  <2>2. CASE id \in DueAtBoundary
    <3>1. proposals[id].status = "Pending" /\ AutoApproved(proposals[id].action)
        BY <2>2 DEF DueAtBoundary
    <3>2. proposals'[id] = [proposals[id] EXCEPT !.status = "Executed"] /\ runs'[id] = runs[id] + 1
        BY <1>2, <2>2
    <3> QED  BY <1>1, <2>1, <3>1, <3>2, RowExecuted
  <2>3. CASE id \notin DueAtBoundary
      BY <1>2, <2>1, <2>3
  <2> QED  BY <2>2, <2>3
<1> QED  BY <1>4, <1>5, <1>6, RowsNext DEF PropInv

-----------------------------------------------------------------------------

LEMMA InvParts == Inv <=> RateTypes /\ RateInv /\ PropInv /\ registered \in SUBSET Validators
BY DEF Inv, RateTypes, RateInv, PropInv, PropTypes, TypeOK

LEMMA InvPartsNext == Inv' <=> RateTypes' /\ RateInv' /\ PropInv' /\ (registered \in SUBSET Validators)'
BY DEF Inv, RateTypes, RateInv, PropInv, PropTypes, TypeOK

(* Each step changes the rates in one way and the proposals in another.    *)
LEMMA StepInv == Inv /\ [Next]_vars => Inv'
<1> SUFFICES ASSUME Inv, [Next]_vars PROVE Inv'
    OBVIOUS
<1>1. RateTypes /\ RateInv /\ PropInv /\ registered \in SUBSET Validators
    BY InvParts
<1>2. CASE \E who \in Accounts, action \in Actions : SubmitProposal(who, action)
  <2>1. PICK who \in Accounts, action \in Actions : SubmitProposal(who, action)
      BY <1>2
  <2>2. RateTypes' /\ RateInv'
      BY <1>1, <2>1, RecordKeepsRates DEF SubmitProposal, Operations
  <2>3. PropInv' /\ registered' = registered
      BY <1>1, <2>1, ProposedKeeps DEF SubmitProposal
  <2> QED  BY <1>1, <2>2, <2>3, InvPartsNext
<1>3. CASE \E action \in Actions : ProposeAsRoot(action)
  <2>1. PropInv' /\ registered' = registered /\ UNCHANGED <<block, rates>>
      BY <1>1, <1>3, ProposedKeeps DEF ProposeAsRoot
  <2> QED  BY <1>1, <2>1, SameRates, InvPartsNext
<1>4. CASE \E who \in Accounts, id \in Ids, approve \in BOOLEAN : VoteProposal(who, id, approve)
  <2>1. PICK who \in Accounts, id \in Ids, approve \in BOOLEAN : VoteProposal(who, id, approve)
      BY <1>4
  <2>2. RateTypes' /\ RateInv'
      BY <1>1, <2>1, RecordKeepsRates DEF VoteProposal, Operations
  <2>3. PropInv' /\ registered' = registered
      BY <1>1, <2>1, VoteKeeps DEF VoteProposal
  <2> QED  BY <1>1, <2>2, <2>3, InvPartsNext
<1>5. CASE \E id \in Ids : ExecuteProposal(id)
  <2>1. PropInv' /\ UNCHANGED <<block, rates>>
      BY <1>1, <1>5, ExecuteKeeps DEF ExecuteProposal
  <2>2. registered' \in SUBSET Validators
      BY <1>1, <1>5 DEF ExecuteProposal, TakeEffect
  <2> QED  BY <1>1, <2>1, <2>2, SameRates, InvPartsNext
<1>6. CASE RewardByRoot \/ SlashByRoot \/ ChangeRegistration \/ SudoAdvanceEpoch \/ UNCHANGED vars
  <2>1. UNCHANGED <<proposals, ballots, runs>> /\ UNCHANGED <<block, rates>>
      BY <1>6 DEF RewardByRoot, SlashByRoot, ChangeRegistration, SudoAdvanceEpoch, vars
  <2>2. registered' \in SUBSET Validators
    <3>1. CASE ChangeRegistration
        BY <1>1, <3>1, GovernanceAssumption DEF ChangeRegistration
    <3>2. CASE RewardByRoot \/ SlashByRoot \/ SudoAdvanceEpoch \/ UNCHANGED vars
        BY <1>1, <3>2 DEF RewardByRoot, SlashByRoot, SudoAdvanceEpoch, vars
    <3> QED  BY <1>6, <3>1, <3>2
  <2> QED  BY <1>1, <2>1, <2>2, SameRates, SameProposals, InvPartsNext
<1>7. CASE NextBlock
  <2>1. RateTypes' /\ RateInv'
      BY <1>1, <1>7, BlockKeepsRates DEF NextBlock
  <2>2. PropInv' /\ registered' \in SUBSET Validators
    <3>1. CASE ProcessEpochProposals
      <4>1. registered' \in SUBSET Validators
          BY <1>1, <3>1 DEF ProcessEpochProposals
      <4> QED  BY <1>1, <1>7, <3>1, <4>1, BoundaryKeeps DEF NextBlock
    <3>2. CASE UNCHANGED <<proposals, runs, registered, budget>>
        BY <1>1, <1>7, <3>2, SameProposals DEF NextBlock
    <3> QED  BY <1>7, <3>1, <3>2 DEF NextBlock
  <2> QED  BY <2>1, <2>2, InvPartsNext
<1> QED  BY <1>2, <1>3, <1>4, <1>5, <1>6, <1>7 DEF Next

THEOREM Invariance == Spec => []Inv
BY InitInv, StepInv, PTL DEF Spec

-----------------------------------------------------------------------------

(* The storage of proposals, votes and rate limits keeps its types.        *)
THEOREM TypeCorrect == Spec => []TypeOK
<1>1. Inv => TypeOK
    BY DEF Inv
<1> QED  BY <1>1, Invariance, PTL

(* votes_for and votes_against are the ballots cast, one of each account.  *)
THEOREM TalliesAreBallots == Spec => []TalliesMatchBallots
<1>1. Inv => TalliesMatchBallots
    BY DEF Inv, VotesInv
<1> QED  BY <1>1, Invariance, PTL

(* A proposal takes effect once and only with the authority it needs.      *)
THEOREM EffectsAreAuthorized == Spec => []EffectsAuthorized
<1>1. Inv => EffectsAuthorized
    BY DEF Inv, VotesInv
<1> QED  BY <1>1, Invariance, PTL

(* In no stretch of blocks does an account exceed its rate.                *)
THEOREM RatesHold == Spec => []RateBounded
<1>1. Inv => RateBounded
    BY DEF Inv, StretchInv, Stretch, CounterInv, Now, RateBounded
<1> QED  BY <1>1, Invariance, PTL

(* Rejected and executed proposals never change again.                     *)
THEOREM VerdictsStay == Spec => SettledForever
<1> DEFINE Settled == \A id \in Ids : proposals[id].status \in {"Rejected", "Executed"} =>
                          proposals'[id] = proposals[id] /\ ballots'[id] = ballots[id]
<1>1. ASSUME Inv, [Next]_vars PROVE Settled
  <2> SUFFICES ASSUME NEW i \in Ids, proposals[i].status \in {"Rejected", "Executed"}
               PROVE  proposals'[i] = proposals[i] /\ ballots'[i] = ballots[i]
      OBVIOUS
  <2>1. /\ proposals \in Seq(Proposals) /\ ballots \in Seq(BallotBoxes) /\ Len(ballots) = Len(proposals)
        /\ i \in 1 .. Len(proposals) /\ Ids = 1 .. Len(proposals) /\ Len(proposals) \in Nat
      BY <1>1 DEF Inv, TypeOK, Ids
  <2>2. ASSUME NEW action \in Actions, Proposed(action) PROVE proposals'[i] = proposals[i] /\ ballots'[i] = ballots[i]
      BY <2>1, <2>2 DEF Proposed
  <2>3. CASE \E who \in Accounts, id \in Ids, approve \in BOOLEAN : VoteProposal(who, id, approve)
    <3>1. PICK who \in Accounts, id \in Ids, approve \in BOOLEAN : VoteProposal(who, id, approve)
        BY <2>3
    <3>2. i # id
        BY <3>1 DEF VoteProposal, MayVote
    <3> QED  BY <2>1, <3>1, <3>2 DEF VoteProposal
  <2>4. CASE \E id \in Ids : ExecuteProposal(id)
    <3>1. PICK id \in Ids : ExecuteProposal(id)
        BY <2>4
    <3>2. i # id
        BY <3>1 DEF ExecuteProposal, Executable
    <3> QED  BY <2>1, <3>1, <3>2 DEF ExecuteProposal
  <2>5. CASE NextBlock
    <3>1. i \notin DueAtBoundary
        BY DEF DueAtBoundary
    <3> QED  BY <2>5, <3>1 DEF NextBlock, ProcessEpochProposals
  <2>6. CASE RewardByRoot \/ SlashByRoot \/ ChangeRegistration \/ SudoAdvanceEpoch \/ UNCHANGED vars
      BY <2>6 DEF RewardByRoot, SlashByRoot, ChangeRegistration, SudoAdvanceEpoch, vars
  <2> QED  BY <1>1, <2>2, <2>3, <2>4, <2>5, <2>6 DEF Next, SubmitProposal, ProposeAsRoot
<1>2. ASSUME Inv, [Next]_vars PROVE [Settled]_vars
    BY <1>1, <1>2
<1> HIDE DEF Settled
<1>3. Spec => [][Settled]_vars
    BY <1>2, Invariance, PTL DEF Spec
<1> QED  BY <1>3 DEF SettledForever, Settled

-----------------------------------------------------------------------------

(* What is paid in one step after the check keeps within the caps: the     *)
(* total of the sums is the sum of the totals.                             *)
LEMMA PayKeeps ==
    ASSUME RewardsWithinCaps, NEW amounts \in [Validators -> Nat],
           Rewardable(amounts), Pay(amounts)
    PROVE  RewardsWithinCaps'
<1>1. /\ rewards \in Budgets /\ slashes \in Budgets /\ paid \in [Validators -> Nat]
      /\ Total(paid) = rewards.total /\ rewards.total <= MaxRewardPerEpoch
      /\ \A v \in Validators : paid[v] = rewards.of[v] /\ paid[v] <= MaxRewardPerValidator
    BY DEF RewardsWithinCaps
<1>2. /\ rewards.of \in [Validators -> Nat] /\ rewards.total \in Nat
    BY <1>1 DEF Budgets
<1>3. Total(amounts) \in Nat /\ Total(amounts) = Sum(amounts, Validators)
  <2>1. DOMAIN amounts = Validators
      OBVIOUS
  <2> QED  BY <2>1, BudgetAssumption, MemberBelowTotal DEF Total
<1> DEFINE after == Added(rewards, amounts)
<1>4. /\ after.total = rewards.total + Total(amounts)
      /\ after.of \in [Validators -> Nat]
      /\ \A v \in Validators : after.of[v] = rewards.of[v] + amounts[v]
      /\ after \in Budgets
    BY <1>2, <1>3 DEF Added, Budgets
<1>5. rewards' = after /\ slashes' = slashes /\ paid' = [v \in Validators |-> paid[v] + amounts[v]]
    BY DEF Pay
<1>6. paid' \in [Validators -> Nat] /\ \A v \in Validators : paid'[v] = paid[v] + amounts[v]
    BY <1>1, <1>5
<1>7. Total(paid') = Total(paid) + Total(amounts)
  <2>1. DOMAIN paid' = Validators /\ DOMAIN paid = Validators
      BY <1>1, <1>6
  <2>2. Sum(paid', Validators) = Sum(paid, Validators) + Sum(amounts, Validators)
      BY <1>1, <1>5, BudgetAssumption, SumsAdd
  <2> QED  BY <1>3, <2>1, <2>2 DEF Total
<1>8. after.total <= MaxRewardPerEpoch /\ \A v \in Validators : after.of[v] <= MaxRewardPerValidator
  <2>1. after.total <= MaxRewardPerEpoch
      BY DEF Rewardable
  <2>2. ASSUME NEW v \in Validators PROVE after.of[v] <= MaxRewardPerValidator
    <3>1. CASE amounts[v] > 0
        BY <2>2, <3>1 DEF Rewardable
    <3>2. CASE amounts[v] = 0
        BY <1>1, <1>2, <1>4, <3>2
    <3> QED  BY <3>1, <3>2
  <2> QED  BY <2>1, <2>2
<1> HIDE DEF after
<1> QED
    BY <1>1, <1>4, <1>5, <1>6, <1>7, <1>8 DEF RewardsWithinCaps

LEMMA RewardEachKeeps ==
    ASSUME RewardsWithinCaps, NEW times, NEW amount \in Nat, RewardEach(times, amount)
    PROVE  RewardsWithinCaps'
<1> DEFINE reward == RewardOf(amount)
           Amounts(granted) == [v \in Validators |-> granted[v] * reward]
<1>1. PICK granted \in Lists : Rewardable(Amounts(granted)) /\ Pay(Amounts(granted))
    BY DEF RewardEach
<1> DEFINE amounts == Amounts(granted)
<1>2. amounts \in [Validators -> Nat]
  <2>1. reward \in Nat
      BY BudgetAssumption DEF RewardOf
  <2> HIDE DEF reward
  <2>2. ASSUME NEW v \in Validators
        PROVE  granted[v] * reward \in Nat
    <3> DEFINE often == granted[v]
    <3>1. often \in Nat
        BY <1>1, BudgetAssumption DEF Lists
    <3> HIDE DEF often
    <3>2. often * reward \in Nat
        BY <2>1, <3>1
    <3> QED  BY <3>2 DEF often
  <2> QED  BY <2>2
<1> HIDE DEF amounts
<1> QED
    BY <1>1, <1>2, PayKeeps DEF amounts

(* A group shares a percentage of a pool, rounded down.                    *)
LEMMA ShareType ==
    ASSUME NEW pool \in Nat, NEW percentage \in Nat, NEW group \in SUBSET Validators, group # {}
    PROVE  ShareOf(pool, percentage, group) \in Nat
<1>1. Cardinality(group) \in Nat /\ Cardinality(group) # 0
    BY BudgetAssumption, FS_Subset, FS_CardinalityType, FS_EmptySet
<1> DEFINE part == (pool * percentage) \div 100
           members == Cardinality(group)
<1>2. part \in Nat
  <2> DEFINE all == pool * percentage
  <2>1. all \in Nat
      OBVIOUS
  <2> HIDE DEF all
  <2> QED  BY <2>1
<1>3. part \div members \in Nat
  <2> HIDE DEF part, members
  <2>1. members \in Nat \ {0}
      BY <1>1 DEF members
  <2> QED  BY <1>2, <2>1
<1> QED
    BY <1>3 DEF ShareOf

LEMMA DistributeKeeps ==
    ASSUME RewardsWithinCaps, DistributeEpochRewards
    PROVE  RewardsWithinCaps'
<1>0. PICK pool \in Pools, active \in (SUBSET Validators) \ {{}} : \E high, top \in SUBSET active :
            /\ Rewardable(Distribution(pool, active, high, top))
            /\ Pay(Distribution(pool, active, high, top))
    BY DEF DistributeEpochRewards
<1>1. PICK high \in SUBSET active, top \in SUBSET active :
            /\ Rewardable(Distribution(pool, active, high, top))
            /\ Pay(Distribution(pool, active, high, top))
    BY <1>0
<1>2. /\ pool \in Nat /\ Shares.base \in Nat /\ Shares.performance \in Nat /\ Shares.top \in Nat
      /\ ValidatorReward \in Nat
    BY BudgetAssumption
<1>3. ShareOf(pool, Shares.base, active) \in Nat
    BY <1>2, ShareType
<1>4. high # {} => ShareOf(pool, Shares.performance, high) \in Nat
    BY <1>2, ShareType
<1>5. top # {} => ShareOf(pool, Shares.top, top) \in Nat
    BY <1>2, ShareType
<1> DEFINE amounts == Distribution(pool, active, high, top)
<1>6. amounts \in [Validators -> Nat]
  <2>1. ASSUME NEW v \in active
        PROVE  RewardOf(ShareOf(pool, Shares.base, active)
                  + (IF v \in high THEN ShareOf(pool, Shares.performance, high) ELSE 0)
                  + (IF v \in top THEN ShareOf(pool, Shares.top, top) ELSE 0)) \in Nat
      BY <1>2, <1>3, <1>4, <1>5 DEF RewardOf
  <2> QED  BY <2>1 DEF Distribution
<1> HIDE DEF amounts
<1> QED
    BY <1>1, <1>6, PayKeeps DEF amounts

LEMMA SlashKeeps ==
    ASSUME RewardsWithinCaps, registered \in SUBSET Validators, NEW v, NEW amount \in Nat, Slash(v, amount)
    PROVE  RewardsWithinCaps'
<1>1. UNCHANGED <<rewards, paid>>
    BY DEF Slash
<1>2. slashes' \in Budgets
  <2>1. CASE UNCHANGED slashes
      BY <2>1 DEF RewardsWithinCaps
  <2>2. ASSUME NEW remainder \in Nat, slashes' = Added(slashes, Only(v, remainder))
        PROVE  slashes' \in Budgets
    <3> DEFINE amounts == Only(v, remainder)
    <3>1. amounts \in [Validators -> Nat]
        BY DEF Only
    <3>2. Total(amounts) \in Nat
      <4> HIDE DEF amounts
      <4> QED  BY <3>1, BudgetAssumption, MemberBelowTotal
    <3>3. slashes.of \in [Validators -> Nat] /\ slashes.total \in Nat
        BY DEF RewardsWithinCaps, Budgets
    <3> HIDE DEF amounts
    <3>4. Added(slashes, amounts) \in Budgets
        BY <3>1, <3>2, <3>3 DEF Added, Budgets
    <3> QED  BY <2>2, <3>4 DEF amounts
  <2>3. \A asked \in Nat : 0 .. asked \subseteq Nat
      OBVIOUS
  <2>4. (IF amount = 0 THEN 0 .. MaxSlashPerValidator ELSE {amount}) \subseteq Nat
      BY BudgetAssumption
  <2> QED  BY <2>1, <2>2, <2>3, <2>4 DEF Slash
<1> QED
    BY <1>1, <1>2 DEF RewardsWithinCaps

LEMMA ResetKeeps ==
    ASSUME ResetEpochTotals
    PROVE  RewardsWithinCaps'
<1>1. /\ rewards' = NoBudgetUsed /\ slashes' = NoBudgetUsed /\ paid' = Nothing
    BY DEF ResetEpochTotals
<1>2. NoBudgetUsed \in Budgets /\ Nothing \in [Validators -> Nat]
    BY DEF NoBudgetUsed, Budgets, Nothing
<1>3. Total(Nothing) = 0
    BY SumZero DEF Total, Nothing
<1> QED
    BY <1>1, <1>2, <1>3, BudgetAssumption DEF RewardsWithinCaps, NoBudgetUsed, Nothing

LEMMA EffectKeeps ==
    ASSUME RewardsWithinCaps, registered \in SUBSET Validators, NEW action \in Actions, TakeEffect(action)
    PROVE  RewardsWithinCaps'
<1>1. action.amount \in Nat
    BY GovernanceAssumption
<1>2. CASE RewardEach(action.targets, action.amount)
    BY <1>1, <1>2, RewardEachKeeps
<1>3. CASE \E v \in Named(action) : Slash(v, action.amount)
    BY <1>1, <1>3, SlashKeeps
<1>4. CASE UNCHANGED budget
    BY <1>4 DEF budget, RewardsWithinCaps
<1> QED
    BY <1>2, <1>3, <1>4 DEF TakeEffect

(* Between two resets, nobody and not all together are credited more than  *)
(* the caps, whichever proposals, root calls and distributions pay in      *)
(* whatever order, and the counters are what was paid.                     *)
THEOREM RewardCapsHold == Spec => []RewardsWithinCaps
<1>1. Init => RewardsWithinCaps
  <2>1. Total(Nothing) = 0
      BY SumZero DEF Total, Nothing
  <2>2. NoBudgetUsed \in Budgets /\ Nothing \in [Validators -> Nat]
      BY DEF NoBudgetUsed, Budgets, Nothing
  <2> QED  BY <2>1, <2>2, BudgetAssumption DEF Init, RewardsWithinCaps, NoBudgetUsed, Nothing
<1>2. Inv /\ RewardsWithinCaps /\ [Next]_vars => RewardsWithinCaps'
  <2> SUFFICES ASSUME Inv, RewardsWithinCaps, [Next]_vars PROVE RewardsWithinCaps'
      OBVIOUS
  <2>1. registered \in SUBSET Validators /\ proposals \in Seq(Proposals)
      BY DEF Inv, TypeOK
  <2>2. CASE UNCHANGED budget
      BY <2>2 DEF budget, RewardsWithinCaps
  <2>3. CASE \E id \in Ids : ExecuteProposal(id)
    <3>1. PICK id \in Ids : TakeEffect(proposals[id].action)
        BY <2>3 DEF ExecuteProposal
    <3> DEFINE action == proposals[id].action
    <3>2. proposals[id] \in Proposals
        BY <2>1 DEF Ids
    <3>3. action \in Actions
        BY <3>2 DEF Proposals
    <3>4. TakeEffect(action)
        BY <3>1
    <3> HIDE DEF action
    <3> QED  BY <2>1, <3>3, <3>4, EffectKeeps
  <2>4. CASE RewardByRoot
    <3>1. CASE DistributeEpochRewards
        BY <3>1, DistributeKeeps
    <3>2. CASE \E times \in Lists, amount \in RootAmounts : RewardEach(times, amount)
        BY <3>2, RewardEachKeeps, GovernanceAssumption
    <3> QED  BY <2>4, <3>1, <3>2, GovernanceAssumption DEF RewardByRoot
  <2>5. CASE ResetEpochTotals
      BY <2>5, ResetKeeps
  <2>6. CASE NextBlock
    <3>1. UNCHANGED budget \/ ResetEpochTotals
        BY <2>6 DEF NextBlock
    <3> QED  BY <2>2, <2>5, <3>1
  <2>7. CASE SudoAdvanceEpoch
      BY <2>5, <2>7 DEF SudoAdvanceEpoch
  <2>8. ASSUME \/ \E who \in Accounts, action \in Actions : SubmitProposal(who, action)
               \/ \E action \in Actions : ProposeAsRoot(action)
               \/ \E who \in Accounts, id \in Ids, approve \in BOOLEAN : VoteProposal(who, id, approve)
               \/ ChangeRegistration
               \/ UNCHANGED vars
        PROVE  UNCHANGED budget
      BY <2>8 DEF SubmitProposal, ProposeAsRoot, VoteProposal, ChangeRegistration, vars
  <2>9. CASE SlashByRoot
      BY <2>1, <2>9, SlashKeeps, GovernanceAssumption DEF SlashByRoot
  <2> QED  BY <2>2, <2>3, <2>4, <2>6, <2>7, <2>8, <2>9 DEF Next
<1> QED
    BY <1>1, <1>2, Invariance, PTL DEF Spec

=============================================================================
