------------------------------ MODULE DvfVotePool ------------------------------
(***************************************************************************)
(* The in-memory vote pool of a node (DvfVotePool), at the grain of its    *)
(* two locks.  The gossip validator and the vote creator insert, the       *)
(* finality-sync task and the pruning service prune; each operation takes  *)
(* the write locks of `votes` and `participation` one after the other and  *)
(* keeps both until it returns.                                            *)
(***************************************************************************)
EXTENDS Integers, FiniteSets

CONSTANTS
    Threads,        \* the tasks that share the pool
    NoThread,
    Validators,
    Blocks,
    Number,         \* Number[b]: vote.block_number of the votes for b
    MaxRound,       \* bound: the rounds of the votes
    MaxSize         \* enforce_max_size's argument, 10_000 in the code

ASSUME ThreadAssumption == NoThread \notin Threads
ASSUME PoolNumberAssumption == Number \in [Blocks -> Nat]
ASSUME MaxRoundAssumption == MaxRound \in Nat
ASSUME MaxSizeAssumption == MaxSize \in Nat

VARIABLES
    votes,              \* the votes of all the (round, block) entries
    participation,      \* the (round, validator) pairs
    votesLock,          \* the writer of `votes`, or NoThread
    participationLock,  \* the writer of `participation`, or NoThread
    op                  \* what each thread is in the middle of

vars == <<votes, participation, votesLock, participationLock, op>>

-----------------------------------------------------------------------------

Rounds == 0..MaxRound

Vote == [round : Rounds, validator : Validators, block : Blocks]

(* A thread is idle, has marked the voter of a vote it is about to push,   *)
(* or has pruned the votes and is about to prune the participation.        *)
Idle == [step |-> "idle"]
Pushing(vote) == [step |-> "push", vote |-> vote]
Pruning(cutoff) == [step |-> "prune", cutoff |-> cutoff]

Ops == {Idle} \cup {Pushing(vote) : vote \in Vote} \cup {Pruning(c) : c \in 0..(MaxRound + 1)}

Entry(vote) == <<vote.round, vote.block>>
Entries == {Entry(vote) : vote \in votes}

Init ==
    /\ votes = {}
    /\ participation = {}
    /\ votesLock = NoThread
    /\ participationLock = NoThread
    /\ op = [t \in Threads |-> Idle]

(* Mutants of Mark: the pair is swapped, the lock is not kept.             *)
MarkSwapped(t, vote) ==
    /\ op[t] = Idle
    /\ participationLock = NoThread
    /\ <<vote.round, vote.validator>> \notin participation
    /\ participation' = participation \cup {<<vote.validator, vote.round>>}
    /\ participationLock' = t
    /\ op' = [op EXCEPT ![t] = Pushing(vote)]
    /\ UNCHANGED <<votes, votesLock>>

MarkUnlocked(t, vote) ==
    /\ op[t] = Idle
    /\ participationLock = NoThread
    /\ <<vote.round, vote.validator>> \notin participation
    /\ participation' = participation \cup {<<vote.round, vote.validator>>}
    /\ op' = [op EXCEPT ![t] = Pushing(vote)]
    /\ UNCHANGED <<votes, votesLock, participationLock>>

(* insert_vote, first half: a voter that the round already has is refused, *)
(* which changes nothing; any other is marked, under the lock.             *)
Mark(t, vote) ==
    /\ op[t] = Idle
    /\ participationLock = NoThread
    /\ <<vote.round, vote.validator>> \notin participation
    /\ participation' = participation \cup {<<vote.round, vote.validator>>}
    /\ participationLock' = t
    /\ op' = [op EXCEPT ![t] = Pushing(vote)]
    /\ UNCHANGED <<votes, votesLock>>

(* insert_vote, second half: the vote goes in once `votes` is free; both   *)
(* locks are released.                                                     *)
Push(t) ==
    /\ op[t].step = "push"
    /\ votesLock = NoThread
    /\ votes' = votes \cup {op[t].vote}
    /\ participationLock' = NoThread
    /\ op' = [op EXCEPT ![t] = Idle]
    /\ UNCHANGED <<participation, votesLock>>

(* Mutants of the two halves of a prune: each drops the cutoff round too.  *)
PruneVotesThrough(t, cutoff) ==
    /\ op[t] = Idle
    /\ votesLock = NoThread
    /\ votes' = {vote \in votes : vote.round > cutoff}
    /\ votesLock' = t
    /\ op' = [op EXCEPT ![t] = Pruning(cutoff)]
    /\ UNCHANGED <<participation, participationLock>>

PruneParticipationThrough(t) ==
    /\ op[t].step = "prune"
    /\ participationLock = NoThread
    /\ participation' = {p \in participation : p[1] > op[t].cutoff}
    /\ votesLock' = NoThread
    /\ op' = [op EXCEPT ![t] = Idle]
    /\ UNCHANGED <<votes, participationLock>>

(* prune_older_rounds(cutoff), and prune_by_round_age and clear, which     *)
(* differ from it in the cutoff only; first half.                          *)
PruneVotes(t, cutoff) ==
    /\ op[t] = Idle
    /\ votesLock = NoThread
    /\ votes' = {vote \in votes : vote.round >= cutoff}
    /\ votesLock' = t
    /\ op' = [op EXCEPT ![t] = Pruning(cutoff)]
    /\ UNCHANGED <<participation, participationLock>>

PruneParticipation(t) ==
    /\ op[t].step = "prune"
    /\ participationLock = NoThread
    /\ participation' = {p \in participation : p[1] >= op[t].cutoff}
    /\ votesLock' = NoThread
    /\ op' = [op EXCEPT ![t] = Idle]
    /\ UNCHANGED <<votes, participationLock>>

(* prune_by_finalized_block: the voters stay marked.                       *)
PruneByFinalizedBlock(t, finalizedNumber) ==
    /\ op[t] = Idle
    /\ votesLock = NoThread
    /\ votes' = {vote \in votes : Number[vote.block] >= finalizedNumber}
    /\ UNCHANGED <<participation, votesLock, participationLock, op>>

(* enforce_max_size: whole entries go, those of the oldest rounds first,   *)
(* in the order of the hash map within a round.                            *)
EnforceMaxSize(t) ==
    /\ op[t] = Idle
    /\ votesLock = NoThread
    /\ Cardinality(Entries) > MaxSize
    /\ \E gone \in SUBSET Entries :
        /\ Cardinality(gone) = Cardinality(Entries) - MaxSize
        /\ \A e \in gone, kept \in Entries \ gone : e[1] <= kept[1]
        /\ votes' = {vote \in votes : Entry(vote) \notin gone}
    /\ UNCHANGED <<participation, votesLock, participationLock, op>>

Insert(t) == (\E vote \in Vote : Mark(t, vote)) \/ Push(t)

Prune(t) == (\E cutoff \in 0..(MaxRound + 1) : PruneVotes(t, cutoff)) \/ PruneParticipation(t)

Trim(t) ==
    \/ \E b \in Blocks : PruneByFinalizedBlock(t, Number[b])
    \/ EnforceMaxSize(t)

Next == \E t \in Threads : Insert(t) \/ Prune(t) \/ Trim(t)

Spec == Init /\ [][Next]_vars

(* The tasks that really run: nothing notifies the pruning service, so     *)
(* only prune_older_rounds prunes.                                         *)
SyncNext == \E t \in Threads : Insert(t) \/ Prune(t)

SyncSpec == Init /\ [][SyncNext]_vars

-----------------------------------------------------------------------------

TypeOK ==
    /\ votes \subseteq Vote
    /\ participation \subseteq Rounds \X Validators
    /\ votesLock \in Threads \cup {NoThread}
    /\ participationLock \in Threads \cup {NoThread}
    /\ op \in [Threads -> Ops]

(* A validator is counted once per round: the pool never holds two of its  *)
(* votes for a round, nor is a thread about to push a second one, whatever *)
(* pruning comes between the mark and the push.                            *)
OneVotePerRound ==
    /\ \A x, y \in votes : (x.round = y.round /\ x.validator = y.validator) => x = y
    /\ \A t \in Threads : op[t].step = "push" =>
            \A x \in votes : ~(x.round = op[t].vote.round /\ x.validator = op[t].vote.validator)

Voters(vs) == {<<vote.round, vote.validator>> : vote \in vs}

(* Every vote that can still be counted keeps its voter marked, also while *)
(* a prune is between its two maps.                                        *)
EveryVoteMarked == Voters(votes) \subseteq participation

(* A mark is accounted for by a vote of the pool, or by an operation that  *)
(* is half done: one about to push the vote, or about to drop the mark.    *)
(* Only trimming whole entries leaves a voter marked, and so locked out of *)
(* the round, by a vote that is gone; inserting and pruning rounds never   *)
(* do, however they interleave.                                            *)
MarkOf(t) == <<op[t].vote.round, op[t].vote.validator>>

Accounted(p) ==
    \/ p \in Voters(votes)
    \/ \E t \in Threads : op[t].step = "push" /\ p = MarkOf(t)
    \/ \E t \in Threads : op[t].step = "prune" /\ p[1] < op[t].cutoff

Stranded == {p \in participation : ~Accounted(p)}

OnlyTrimStrands == [][ (\E t \in Threads : Trim(t)) \/ Stranded' \subseteq Stranded ]_vars

=============================================================================
