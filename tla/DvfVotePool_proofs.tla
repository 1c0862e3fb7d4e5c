-------------------------- MODULE DvfVotePool_proofs --------------------------
(***************************************************************************)
(* Proofs about the vote pool, for any number of tasks, validators, rounds *)
(* and entries.  What its two locks protect is the pair of maps: a task    *)
(* that has marked a voter still holds `participation` until its vote is   *)
(* in, and a task that has pruned `votes` still holds it until the marks   *)
(* are gone too.                                                           *)
(***************************************************************************)
EXTENDS DvfVotePool, TLAPS

(* The value of an operation tells its kind.                               *)
LEMMA OpKinds ==
    /\ \A vote : Idle # Pushing(vote) /\ Pushing(vote).step = "push"
                    /\ Pushing(vote).vote = vote
    /\ \A c : Idle # Pruning(c) /\ Pruning(c).step = "prune" /\ Pruning(c).cutoff = c
    /\ \A vote, c : Pushing(vote) # Pruning(c)
    /\ Idle.step = "idle"
BY DEF Idle, Pushing, Pruning

LEMMA OpCases ==
    ASSUME NEW o \in Ops
    PROVE  /\ o.step = "push" => \E vote \in Vote : o = Pushing(vote)
           /\ o.step = "prune" => \E c \in 0..(MaxRound + 1) : o = Pruning(c)
           /\ o.step \notin {"push", "prune"} => o = Idle
BY DEF Ops, Idle, Pushing, Pruning

-----------------------------------------------------------------------------

(* Every step keeps the pool a set of votes, the marks pairs of rounds and *)
(* validators, and the locks owned by tasks: the code's types.             *)
LEMMA TypeStep == TypeOK /\ [Next]_vars => TypeOK'
<1> SUFFICES ASSUME TypeOK, [Next]_vars PROVE TypeOK'
  OBVIOUS
<1> USE DEF TypeOK
<1>1. ASSUME NEW t \in Threads, NEW vote \in Vote, Mark(t, vote) PROVE TypeOK'
  <2>1. Pushing(vote) \in Ops
    BY DEF Ops
  <2>2. <<vote.round, vote.validator>> \in Rounds \X Validators
    BY DEF Vote
  <2> QED BY <1>1, <2>1, <2>2 DEF Mark
<1>2. ASSUME NEW t \in Threads, Push(t) PROVE TypeOK'
  <2>1. op[t].vote \in Vote
    BY <1>2, OpCases, OpKinds DEF Push
  <2>2. Idle \in Ops
    BY DEF Ops
  <2> QED BY <1>2, <2>1, <2>2 DEF Push
<1>3. ASSUME NEW t \in Threads, NEW cutoff \in 0..(MaxRound + 1), PruneVotes(t, cutoff)
      PROVE  TypeOK'
  <2>1. Pruning(cutoff) \in Ops
    BY DEF Ops
  <2> QED BY <1>3, <2>1 DEF PruneVotes
<1>4. ASSUME NEW t \in Threads, PruneParticipation(t) PROVE TypeOK'
  <2>1. Idle \in Ops
    BY DEF Ops
  <2> QED BY <1>4, <2>1 DEF PruneParticipation
<1>5. ASSUME NEW t \in Threads, Trim(t) PROVE TypeOK'
  BY <1>5 DEF Trim, PruneByFinalizedBlock, EnforceMaxSize
<1>6. CASE UNCHANGED vars
  BY <1>6 DEF vars
<1> QED BY <1>1, <1>2, <1>3, <1>4, <1>5, <1>6 DEF Next, Insert, Prune

(* The pool's types hold in every execution.                               *)
THEOREM TypeCorrect == Spec => []TypeOK
<1>1. Init => TypeOK
  BY DEF Init, TypeOK, Ops
<1> QED BY <1>1, TypeStep, PTL DEF Spec

-----------------------------------------------------------------------------

(* Who holds which lock: a task that is pushing owns `participation`, one  *)
(* that is pruning owns `votes`; so at most one of each kind exists.       *)
LocksHeld ==
    \A t \in Threads :
        /\ op[t].step = "push" => participationLock = t
        /\ op[t].step = "prune" => votesLock = t

(* The vote about to be pushed has its voter marked already, and the pool  *)
(* has no vote of that voter for that round.                               *)
MarkedAhead ==
    \A t \in Threads : op[t].step = "push" =>
        <<op[t].vote.round, op[t].vote.validator>> \in participation

(* While a prune is between its maps, `votes` is as the prune left it.      *)
PrunedAhead ==
    \A t \in Threads : op[t].step = "prune" =>
        \A x \in votes : x.round >= op[t].cutoff

IInv ==
    /\ TypeOK
    /\ LocksHeld
    /\ MarkedAhead
    /\ PrunedAhead
    /\ OneVotePerRound
    /\ EveryVoteMarked

LEMMA IInvStep == IInv /\ [Next]_vars => IInv'
<1> SUFFICES ASSUME IInv, [Next]_vars PROVE IInv'
  OBVIOUS
<1>0. TypeOK'
  BY TypeStep DEF IInv
<1> USE DEF IInv
<1>1. ASSUME NEW t \in Threads, NEW vote \in Vote, Mark(t, vote) PROVE IInv'
  <2>1. op' = [op EXCEPT ![t] = Pushing(vote)] /\ op'[t] = Pushing(vote)
    BY <1>1 DEF Mark, TypeOK
  <2>2. LocksHeld'
    BY <1>1, <2>1, OpKinds, ThreadAssumption DEF Mark, LocksHeld, TypeOK
  <2>3. MarkedAhead'
    BY <1>1, <2>1, OpKinds DEF Mark, MarkedAhead, TypeOK
  <2>4. OneVotePerRound'
    <3>1. \A x \in votes : ~(x.round = vote.round /\ x.validator = vote.validator)
      BY <1>1 DEF Mark, EveryVoteMarked, Voters
    <3> QED BY <1>1, <2>1, <3>1, OpKinds DEF Mark, OneVotePerRound, TypeOK
  <2>5. EveryVoteMarked'
    BY <1>1 DEF Mark, EveryVoteMarked, Voters
  <2>6. PrunedAhead'
    BY <1>1, <2>1, OpKinds DEF Mark, PrunedAhead, TypeOK
  <2> QED BY <1>0, <2>2, <2>3, <2>4, <2>5, <2>6
<1>2. ASSUME NEW t \in Threads, Push(t) PROVE IInv'
  <2>1. op' = [op EXCEPT ![t] = Idle] /\ op'[t] = Idle
    BY <1>2 DEF Push, TypeOK
  <2>2. \A u \in Threads : op[u].step = "push" => u = t
    BY <1>2 DEF Push, LocksHeld
  <2>3. \A u \in Threads : op'[u].step # "push"
    BY <2>1, <2>2, OpKinds DEF TypeOK
  <2>4. LocksHeld'
    BY <1>2, <2>1, <2>3, OpKinds DEF Push, LocksHeld, TypeOK
  <2>5. MarkedAhead'
    BY <2>3 DEF MarkedAhead
  <2>6. OneVotePerRound'
    <3>1. votes' = votes \cup {op[t].vote}
      BY <1>2 DEF Push
    <3>2. \A x \in votes : ~(x.round = op[t].vote.round /\ x.validator = op[t].vote.validator)
      BY <1>2 DEF Push, OneVotePerRound
    <3> QED BY <2>3, <3>1, <3>2 DEF OneVotePerRound
  <2>7. EveryVoteMarked'
    BY <1>2 DEF Push, EveryVoteMarked, Voters, MarkedAhead
  <2>8. PrunedAhead'
    <3>1. \A u \in Threads : op[u].step # "prune"
      BY <1>2, ThreadAssumption DEF Push, LocksHeld
    <3> QED BY <2>1, <3>1, OpKinds DEF PrunedAhead, TypeOK
  <2> QED BY <1>0, <2>4, <2>5, <2>6, <2>7, <2>8
<1>3. ASSUME NEW t \in Threads, NEW cutoff \in 0..(MaxRound + 1), PruneVotes(t, cutoff)
      PROVE  IInv'
  <2>1. op' = [op EXCEPT ![t] = Pruning(cutoff)] /\ op'[t] = Pruning(cutoff)
    BY <1>3 DEF PruneVotes, TypeOK
  <2>2. LocksHeld'
    BY <1>3, <2>1, OpKinds, ThreadAssumption DEF PruneVotes, LocksHeld, TypeOK
  <2>3. MarkedAhead'
    BY <1>3, <2>1, OpKinds DEF PruneVotes, MarkedAhead, TypeOK
  <2>4. OneVotePerRound'
    BY <1>3, <2>1, OpKinds DEF PruneVotes, OneVotePerRound, TypeOK
  <2>5. EveryVoteMarked'
    BY <1>3 DEF PruneVotes, EveryVoteMarked, Voters
  <2>6. PrunedAhead'
    <3>1. \A u \in Threads : op[u].step # "prune"
      BY <1>3, ThreadAssumption DEF PruneVotes, LocksHeld
    <3>2. \A x \in votes' : x.round >= cutoff
      BY <1>3 DEF PruneVotes
    <3> QED BY <2>1, <3>1, <3>2, OpKinds DEF PrunedAhead, TypeOK
  <2> QED BY <1>0, <2>2, <2>3, <2>4, <2>5, <2>6
<1>4. ASSUME NEW t \in Threads, PruneParticipation(t) PROVE IInv'
  <2>1. op' = [op EXCEPT ![t] = Idle] /\ op'[t] = Idle
    BY <1>4 DEF PruneParticipation, TypeOK
  <2>2. \A u \in Threads : op[u].step = "prune" => u = t
    BY <1>4 DEF PruneParticipation, LocksHeld
  <2>3. \A u \in Threads : op[u].step # "push"
    BY <1>4, ThreadAssumption DEF PruneParticipation, LocksHeld
  <2>4. LocksHeld' /\ MarkedAhead' /\ PrunedAhead' /\ OneVotePerRound'
    BY <1>4, <2>1, <2>2, <2>3, OpKinds
    DEF PruneParticipation, LocksHeld, MarkedAhead, PrunedAhead, OneVotePerRound, TypeOK
  <2>5. EveryVoteMarked'
    <3>1. \A x \in votes : x.round >= op[t].cutoff
      BY <1>4 DEF PruneParticipation, PrunedAhead
    <3> QED BY <1>4, <3>1 DEF PruneParticipation, EveryVoteMarked, Voters
  <2> QED BY <1>0, <2>4, <2>5
<1>5. ASSUME NEW t \in Threads, Trim(t) PROVE IInv'
  <2>1. votes' \subseteq votes /\ UNCHANGED <<participation, votesLock, participationLock, op>>
    BY <1>5 DEF Trim, PruneByFinalizedBlock, EnforceMaxSize
  <2> QED
    BY <1>0, <2>1 DEF LocksHeld, MarkedAhead, PrunedAhead, OneVotePerRound, EveryVoteMarked, Voters
<1>6. CASE UNCHANGED vars
  BY <1>0, <1>6 DEF vars, LocksHeld, MarkedAhead, PrunedAhead, OneVotePerRound, EveryVoteMarked, Voters
<1> QED BY <1>1, <1>2, <1>3, <1>4, <1>5, <1>6 DEF Next, Insert, Prune

LEMMA IInvAlways == Spec => []IInv
<1>1. Init => IInv
  BY OpKinds DEF Init, IInv, TypeOK, Ops, LocksHeld, MarkedAhead, PrunedAhead,
        OneVotePerRound, EveryVoteMarked, Voters
<1> QED BY <1>1, IInvStep, PTL DEF Spec

(* insert_vote and the three ways to prune, interleaved at the grain of    *)
(* their locks, never let a validator count twice in a round.              *)
THEOREM OneVote == Spec => []OneVotePerRound
BY IInvAlways, PTL DEF IInv

(* Nor do they leave a vote in the pool whose voter is not marked.         *)
THEOREM VotesAreMarked == Spec => []EveryVoteMarked
BY IInvAlways, PTL DEF IInv

-----------------------------------------------------------------------------

LEMMA SyncStep == SyncNext => Next
BY DEF SyncNext, Next

(* A mark that is accounted for, or is new, is accounted for after a step. *)
LEMMA AccountedStep ==
    ASSUME IInv, [SyncNext]_vars,
           NEW p \in participation', p \in participation => Accounted(p)
    PROVE  Accounted(p)'
<1> SUFFICES \/ p \in Voters(votes)'
             \/ \E t \in Threads : op'[t].step = "push" /\ p = MarkOf(t)'
             \/ \E t \in Threads : op'[t].step = "prune" /\ p[1] < op'[t].cutoff
  BY DEF Accounted
<1> USE DEF IInv, TypeOK
<1>1. ASSUME NEW t \in Threads, NEW vote \in Vote, Mark(t, vote)
      PROVE  \/ p \in Voters(votes)'
             \/ \E u \in Threads : op'[u].step = "push" /\ p = MarkOf(u)'
             \/ \E u \in Threads : op'[u].step = "prune" /\ p[1] < op'[u].cutoff
  <2>1. op'[t] = Pushing(vote) /\ \A u \in Threads \ {t} : op'[u] = op[u]
    BY <1>1 DEF Mark
  <2>2. CASE p = <<vote.round, vote.validator>>
    BY <2>1, <2>2, OpKinds DEF MarkOf
  <2>3. CASE p \in participation
    <3>1. op[t].step = "idle"
      BY <1>1, OpKinds DEF Mark
    <3> QED BY <1>1, <2>1, <2>3, <3>1 DEF Mark, Accounted, Voters, MarkOf
  <2> QED BY <1>1, <2>2, <2>3 DEF Mark
<1>2. ASSUME NEW t \in Threads, Push(t)
      PROVE  \/ p \in Voters(votes)'
             \/ \E u \in Threads : op'[u].step = "prune" /\ p[1] < op'[u].cutoff
  <2>1. \A u \in Threads : op[u].step # "prune"
    BY <1>2, ThreadAssumption DEF Push, LocksHeld
  <2>2. \A u \in Threads : op[u].step = "push" => u = t
    BY <1>2 DEF Push, LocksHeld
  <2>3. p \in Voters(votes) \/ p = MarkOf(t)
    BY <1>2, <2>1, <2>2 DEF Push, Accounted
  <2> QED BY <1>2, <2>3 DEF Push, Voters, MarkOf
<1>3. ASSUME NEW t \in Threads, NEW cutoff \in 0..(MaxRound + 1), PruneVotes(t, cutoff)
      PROVE  \/ p \in Voters(votes)'
             \/ \E u \in Threads : op'[u].step = "push" /\ p = MarkOf(u)'
             \/ \E u \in Threads : op'[u].step = "prune" /\ p[1] < op'[u].cutoff
  <2>1. op'[t] = Pruning(cutoff) /\ \A u \in Threads \ {t} : op'[u] = op[u]
    BY <1>3 DEF PruneVotes
  <2>2. \A u \in Threads : op[u].step # "prune"
    BY <1>3, ThreadAssumption DEF PruneVotes, LocksHeld
  <2>3. p \in participation
    BY <1>3 DEF PruneVotes
  <2>4. CASE p \in Voters(votes)
    <3>1. PICK x \in votes : p = <<x.round, x.validator>>
      BY <2>4 DEF Voters
    <3>2. CASE x.round >= cutoff
      BY <1>3, <3>1, <3>2 DEF PruneVotes, Voters
    <3>3. CASE ~(x.round >= cutoff)
      <4>1. x.round \in Nat
        BY DEF Vote, Rounds
      <4>2. p[1] < cutoff
        BY <3>1, <3>3, <4>1
      <4> QED BY <2>1, <4>2, OpKinds
    <3> QED BY <3>2, <3>3
  <2>5. CASE \E u \in Threads : op[u].step = "push" /\ p = MarkOf(u)
    <3>1. op[t].step = "idle"
      BY <1>3, OpKinds DEF PruneVotes
    <3> QED BY <2>1, <2>5, <3>1 DEF MarkOf
  <2> QED BY <2>2, <2>3, <2>4, <2>5 DEF Accounted
<1>4. ASSUME NEW t \in Threads, PruneParticipation(t)
      PROVE  p \in Voters(votes)'
  <2>1. \A u \in Threads : op[u].step = "prune" => u = t
    BY <1>4 DEF PruneParticipation, LocksHeld
  <2>2. \A u \in Threads : op[u].step # "push"
    BY <1>4, ThreadAssumption DEF PruneParticipation, LocksHeld
  <2>3. p \in participation /\ p[1] >= op[t].cutoff
    BY <1>4 DEF PruneParticipation
  <2>4. op[t].cutoff \in Nat /\ p[1] \in Nat
    <3>1. op[t].cutoff \in 0..(MaxRound + 1)
      BY <1>4, OpCases, OpKinds DEF PruneParticipation
    <3> QED BY <2>3, <3>1, MaxRoundAssumption DEF Rounds
  <2>5. ~(p[1] < op[t].cutoff)
    BY <2>3, <2>4
  <2> QED BY <1>4, <2>1, <2>2, <2>3, <2>5 DEF PruneParticipation, Accounted, Voters
<1>5. CASE UNCHANGED vars
  BY <1>5 DEF vars, Accounted, MarkOf, Voters
<1> QED BY <1>1, <1>2, <1>3, <1>4, <1>5 DEF SyncNext, Insert, Prune

(* Inserting and pruning rounds strand no mark: only the trimming of whole *)
(* entries does (prune_by_finalized_block, enforce_max_size).              *)
THEOREM NoMarkIsStranded == Spec => OnlyTrimStrands
<1>1. IInv /\ [Next]_vars => ((\E t \in Threads : Trim(t)) \/ Stranded' \subseteq Stranded)
  <2> SUFFICES ASSUME IInv, [Next]_vars, ~(\E t \in Threads : Trim(t)),
                      NEW p \in Stranded'
               PROVE  p \in Stranded
    OBVIOUS
  <2>1. [SyncNext]_vars
    BY DEF Next, SyncNext
  <2>2. p \in participation' /\ ~Accounted(p)'
    BY DEF Stranded
  <2>3. ~(p \in participation => Accounted(p))
    BY <2>1, <2>2, AccountedStep
  <2> QED BY <2>3 DEF Stranded
<1> QED BY <1>1, IInvAlways, PTL DEF Spec, OnlyTrimStrands

(* As the deployed tasks use the pool, marks and votes agree whenever no   *)
(* operation is half done: a voter is marked only while its vote is there. *)
Quiet == \A t \in Threads : op[t] = Idle

THEOREM MarksAreExact == SyncSpec => [](Quiet => participation = Voters(votes))
<1> DEFINE AllAccounted == \A p \in participation : Accounted(p)
<1>1. Init => IInv /\ AllAccounted
  BY OpKinds DEF Init, IInv, TypeOK, Ops, LocksHeld, MarkedAhead, PrunedAhead,
        OneVotePerRound, EveryVoteMarked, Voters
<1>2. IInv /\ AllAccounted /\ [SyncNext]_vars => (IInv /\ AllAccounted)'
  <2> SUFFICES ASSUME IInv, AllAccounted, [SyncNext]_vars PROVE IInv' /\ AllAccounted'
    OBVIOUS
  <2>1. IInv'
    BY IInvStep, SyncStep
  <2>2. \A p \in participation' : Accounted(p)'
    BY AccountedStep
  <2> QED BY <2>1, <2>2
<1>3. IInv /\ AllAccounted => (Quiet => participation = Voters(votes))
  BY OpKinds DEF IInv, Accounted, Quiet, EveryVoteMarked
<1> HIDE DEF AllAccounted
<1> QED BY <1>1, <1>2, <1>3, PTL DEF SyncSpec

=============================================================================
