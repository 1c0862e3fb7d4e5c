------------------------------ MODULE DvfVoting ------------------------------
(***************************************************************************)
(* DVF finality across the nodes of a network, inside one epoch: blocks    *)
(* are produced and imported on a tree, the vote creator of every node     *)
(* signs checkpoints, votes travel by gossip into the pool of each node,   *)
(* the aggregator turns a quorum into a justification that finalizes the   *)
(* block in its client and goes to the transaction pool, a later block     *)
(* carries it to the pallet, and the finality-sync task brings clients up  *)
(* to what the pallet of their best block says.                            *)
(*                                                                         *)
(* Each validator runs one node.  Messages and transactions may be late,   *)
(* reordered, or lost.  The pallet's state is kept per block, so forks     *)
(* disagree on the round.  The Substrate client (block import, best block, *)
(* apply_finality) is external and modelled by what the services rely on.  *)
(* The pool's operations are atomic here; DvfVotePool justifies that, and  *)
(* that the voters of the pool's votes stand for its participation map.    *)
(***************************************************************************)
EXTENDS VoteWeights, Sequences

CONSTANTS
    Nodes,
    Blocks,                     \* the blocks that may ever be produced
    Genesis,
    Parent,
    Number,
    FinalityCheckpointInterval,
    NodeWeight,                 \* the frozen weights, the same at every block
    Restarting,                 \* the nodes that may crash and restart
    Idle                        \* the aggregator between two checks

ASSUME NodesAssumption == IsFiniteSet(Nodes) /\ NodeWeight \in [Nodes -> Nat]
ASSUME TreeAssumption ==
    /\ Genesis \in Blocks
    /\ Parent \in [Blocks \ {Genesis} -> Blocks]
    /\ Number \in [Blocks -> Nat]
    /\ Number[Genesis] = 0
    /\ \A b \in Blocks \ {Genesis} : Number[b] = Number[Parent[b]] + 1
ASSUME CheckpointAssumption == FinalityCheckpointInterval \in Nat \ {0}

VARIABLES
    produced,       \* the blocks that exist
    chain,          \* chain[b]: CurrentRound and FinalizedBlockHash after b
    imported,       \* imported[n]: the blocks in the client of n
    best,           \* best[n]: its best block
    finalized,      \* finalized[n]: its finalized block
    pending,        \* pending[n]: import notifications the vote creator has not taken
    wire,           \* the votes that were gossiped
    known,          \* known[n]: the messages n has sent or seen, and does not validate again
    pool,           \* pool[n]: the votes in its DvfVotePool
    triggered,      \* triggered[n]: the aggregator's last_triggered_block
    building,       \* building[n]: the justification it has decided to build
    justified       \* the justifications submitted to the transaction pool

client == <<imported, best, finalized, pending>>
voting == <<wire, known, pool>>
aggregator == <<triggered, building, justified>>
vars == <<produced, chain, client, voting, aggregator>>

-----------------------------------------------------------------------------

Vote == [voter : Nodes, round : Nat, block : Blocks]

Justification == [round : Nat, block : Blocks, voters : SUBSET Nodes]

Ancestors ==
    LET anc[b \in Blocks] == {b} \cup (IF b = Genesis THEN {} ELSE anc[Parent[b]])
    IN  anc

OnChainOf(a, b) == a \in Ancestors[b]

IsCheckpointBlock(b) == Number[b] % FinalityCheckpointInterval = 0

(* The state the runtime API shows a node: that of its best block.         *)
View(n) == chain[best[n]]

(* Mutant of HasVoted: the round's first vote shuts all others out.        *)
RoundHasVote(n, voter, round) == \E x \in pool[n] : x.round = round

HasVoted(n, voter, round) == \E x \in pool[n] : x.voter = voter /\ x.round = round

(* Mutant of VotersFor: the votes of the round, for whatever block.        *)
VotersOfRound(n, round, b) == {v \in Nodes : \E x \in pool[n] : x.voter = v /\ x.round = round}

VotersFor(n, round, b) == {v \in Nodes : [voter |-> v, round |-> round, block |-> b] \in pool[n]}

(* Mutant of Inserted: no check.                                           *)
InsertedAlways(n, vote) == pool[n] \cup {vote}

(* DvfVotePool::insert_vote: one vote per round and validator, the first.  *)
Inserted(n, vote) ==
    IF HasVoted(n, vote.voter, vote.round) THEN pool[n] ELSE pool[n] \cup {vote}

Notified(n, b) == IF IsCheckpointBlock(b) THEN Append(pending[n], b) ELSE pending[n]

-----------------------------------------------------------------------------

Init ==
    /\ produced = {Genesis}
    /\ chain = [b \in Blocks |-> [round |-> 0, head |-> Genesis]]
    /\ imported = [n \in Nodes |-> {Genesis}]
    /\ best = [n \in Nodes |-> Genesis]
    /\ finalized = [n \in Nodes |-> Genesis]
    /\ pending = [n \in Nodes |-> <<>>]
    /\ wire = {}
    /\ known = [n \in Nodes |-> {}]
    /\ pool = [n \in Nodes |-> {}]
    /\ triggered = [n \in Nodes |-> 0]
    /\ building = [n \in Nodes |-> Idle]
    /\ justified = {}

(* A node extends its best block.  The block may carry a justification     *)
(* that the pallet of its parent accepts: one for a block above the head,  *)
(* on whatever fork (submit_justification).                                *)
Produce(n, b) ==
    LET before == chain[Parent[b]] IN
    /\ b \in Blocks \ produced
    /\ Parent[b] = best[n]
    /\ \/ chain' = [chain EXCEPT ![b] = before]
       \/ \E j \in justified :
            /\ Number[j.block] > Number[before.head]
            /\ chain' = [chain EXCEPT ![b] = [round |-> j.round + 1, head |-> j.block]]
    /\ produced' = produced \cup {b}
    /\ imported' = [imported EXCEPT ![n] = @ \cup {b}]
    /\ best' = [best EXCEPT ![n] = b]
    /\ pending' = [pending EXCEPT ![n] = Notified(n, b)]
    /\ UNCHANGED <<finalized, voting, aggregator>>

(* The client takes a block whose parent it has and whose number is above  *)
(* its finalized one; by LongestChain a higher block becomes the best, and *)
(* is refused if that would revert finality.                               *)
Import(n, b) ==
    /\ b \in produced \ imported[n]
    /\ Parent[b] \in imported[n]
    /\ Number[b] > Number[finalized[n]]
    /\ IF Number[b] > Number[best[n]]
       THEN OnChainOf(finalized[n], b) /\ best' = [best EXCEPT ![n] = b]
       ELSE UNCHANGED best
    /\ imported' = [imported EXCEPT ![n] = @ \cup {b}]
    /\ pending' = [pending EXCEPT ![n] = Notified(n, b)]
    /\ UNCHANGED <<produced, chain, finalized, voting, aggregator>>

(* VoteCreator::process_block.  The round is that of the best block, which *)
(* may have moved since the import.  The vote goes to the network also     *)
(* when the node's own pool already holds its vote for the round; the      *)
(* gossip engine knows the messages that it sends.                         *)
CreateVote(n) ==
    LET b == Head(pending[n])
        vote == [voter |-> n, round |-> View(n).round, block |-> b]
    IN  /\ pending[n] # <<>>
        /\ pending' = [pending EXCEPT ![n] = Tail(@)]
        /\ IF Number[b] <= Number[finalized[n]]
           THEN UNCHANGED <<wire, pool, known>>
           ELSE /\ pool' = [pool EXCEPT ![n] = Inserted(n, vote)]
                /\ wire' = wire \cup {vote}
                /\ known' = [known EXCEPT ![n] = @ \cup {vote}]
        /\ UNCHANGED <<produced, chain, imported, best, finalized, aggregator>>

(* DvfGossipValidator::validate: a message counts as known from now on,    *)
(* whatever the pool says.  Its own votes of before a restart come back to *)
(* a node like any others.                                                 *)
ReceiveVote(n, vote) ==
    /\ vote \in wire \ known[n]
    /\ known' = [known EXCEPT ![n] = @ \cup {vote}]
    /\ pool' = [pool EXCEPT ![n] = Inserted(n, vote)]
    /\ UNCHANGED <<produced, chain, client, wire, aggregator>>

(* VoteAggregatorService::check_vote_accumulation, up to the decision: the *)
(* heaviest quorum of the current round for a block whose header is known, *)
(* above the pallet's head and above what was triggered before.            *)
Quorums(n) ==
    {b \in imported[n] :
        /\ VotersFor(n, View(n).round, b) # {}
        /\ Number[b] > triggered[n]
        /\ Number[b] > Number[View(n).head]
        /\ IsQuorum(NodeWeight, VotersFor(n, View(n).round, b))}

Trigger(n) ==
    LET weight(b) == Sum(NodeWeight, VotersFor(n, View(n).round, b)) IN
    /\ building[n] = Idle
    /\ \E b \in Quorums(n) :
        /\ \A c \in Quorums(n) : weight(c) <= weight(b)
        /\ triggered' = [triggered EXCEPT ![n] = Number[b]]
        /\ building' = [building EXCEPT ![n] = [round |-> View(n).round, block |-> b]]
    /\ UNCHANGED <<produced, chain, client, voting, justified>>

(* JustificationBuilder::select_votes: the heaviest votes first, no more   *)
(* than it takes; then construct_justification checks the threshold again. *)
Selection(voters) ==
    {Q \in SUBSET voters :
        /\ Q # {}
        /\ IsQuorum(NodeWeight, Q)
        /\ \A v \in Q, u \in voters \ Q : NodeWeight[u] <= NodeWeight[v]
        /\ \E v \in Q : /\ \A u \in Q : NodeWeight[v] <= NodeWeight[u]
                        /\ Q = {v} \/ ~IsQuorum(NodeWeight, Q \ {v})}

(* trigger_justification_construction, from the votes the pool holds now.  *)
(* The client refuses to finalize what is not above its finalized block on *)
(* the same chain, and makes the block best if it was on a fork.           *)
Finalize(n, Q) ==
    LET b == building[n].block
        j == [round |-> building[n].round, block |-> b, voters |-> Q]
        newBest == IF OnChainOf(b, best[n]) THEN best[n] ELSE b
    IN  /\ building[n] # Idle
        /\ Q \in Selection(VotersFor(n, building[n].round, b))
        /\ OnChainOf(finalized[n], b)
        /\ finalized' = [finalized EXCEPT ![n] = b]
        /\ best' = [best EXCEPT ![n] = newBest]
        /\ justified' = IF Number[b] > Number[chain[newBest].head]
                        THEN justified \cup {j} ELSE justified
        /\ building' = [building EXCEPT ![n] = Idle]
        /\ UNCHANGED <<produced, chain, imported, pending, voting, triggered>>

(* The error path: the votes are gone, or the client refused.              *)
GiveUp(n) ==
    /\ building[n] # Idle
    /\ \/ Selection(VotersFor(n, building[n].round, building[n].block)) = {}
       \/ ~OnChainOf(finalized[n], building[n].block)
    /\ building' = [building EXCEPT ![n] = Idle]
    /\ UNCHANGED <<produced, chain, client, voting, triggered, justified>>

(* Mutants of Synced: never, by the hash of the pallet.                    *)
NeverSynced(n) == finalized[n]

SyncedByHash(n) ==
    IF Number[View(n).head] > Number[finalized[n]] THEN View(n).head ELSE finalized[n]

(* The client's own blocks, one by one, up to the NUMBER of the pallet's   *)
(* finalized block: the last of them is the highest ancestor of its best   *)
(* block that is not above that number.                                    *)
Synced(n) ==
    IF Number[View(n).head] > Number[finalized[n]]
    THEN CHOOSE b \in Ancestors[best[n]] :
            /\ Number[b] <= Number[View(n).head]
            /\ \A c \in Ancestors[best[n]] : Number[c] <= Number[View(n).head] => Number[c] <= Number[b]
    ELSE finalized[n]

(* The dvf-finality-sync task: it prunes the rounds of the pool up to the  *)
(* NUMBER of the finalized block, then finalizes up to the pallet's head.  *)
SyncFinality(n) ==
    /\ pool' = [pool EXCEPT ![n] = {x \in @ : x.round >= Number[finalized[n]]}]
    /\ finalized' = [finalized EXCEPT ![n] = Synced(n)]
    /\ UNCHANGED <<produced, chain, imported, best, pending, wire, known, aggregator>>

(* A restart loses what is only in memory and repeats the initial sync.    *)
Restart(n) ==
    /\ n \in Restarting
    /\ finalized' = [finalized EXCEPT ![n] = Synced(n)]
    /\ pending' = [pending EXCEPT ![n] = <<>>]
    /\ known' = [known EXCEPT ![n] = {}]
    /\ pool' = [pool EXCEPT ![n] = {}]
    /\ triggered' = [triggered EXCEPT ![n] = 0]
    /\ building' = [building EXCEPT ![n] = Idle]
    /\ UNCHANGED <<produced, chain, imported, best, wire, justified>>

-----------------------------------------------------------------------------

Step(n) ==
    \/ \E b \in Blocks : Produce(n, b)
    \/ \E b \in Blocks : Import(n, b)
    \/ CreateVote(n)
    \/ \E vote \in wire : ReceiveVote(n, vote)
    \/ Trigger(n)
    \/ \E Q \in SUBSET Nodes : Finalize(n, Q)
    \/ GiveUp(n)
    \/ SyncFinality(n)
    \/ Restart(n)

Next == \E n \in Nodes : Step(n)

Spec == Init /\ [][Next]_vars

(* The scheduling the code provides: the tasks of a node run again and     *)
(* again, the network delivers what is sent, blocks keep being produced.   *)
Fairness ==
    \A n \in Nodes :
        /\ WF_vars(\E b \in Blocks : Produce(n, b))
        /\ WF_vars(\E b \in Blocks : Import(n, b))
        /\ WF_vars(CreateVote(n))
        /\ WF_vars(\E vote \in wire : ReceiveVote(n, vote))
        /\ WF_vars(Trigger(n))
        /\ WF_vars((\E Q \in SUBSET Nodes : Finalize(n, Q)) \/ GiveUp(n))
        /\ WF_vars(SyncFinality(n))

FairSpec == Spec /\ Fairness

-----------------------------------------------------------------------------

TypeOK ==
    /\ produced \subseteq Blocks
    /\ chain \in [Blocks -> [round : Nat, head : Blocks]]
    /\ imported \in [Nodes -> SUBSET Blocks]
    /\ best \in [Nodes -> Blocks]
    /\ finalized \in [Nodes -> Blocks]
    /\ pending \in [Nodes -> Seq(Blocks)]
    /\ wire \subseteq Vote
    /\ known \in [Nodes -> SUBSET Vote]
    /\ pool \in [Nodes -> SUBSET Vote]
    /\ triggered \in [Nodes -> Nat]
    /\ building \in [Nodes -> {Idle} \cup [round : Nat, block : Blocks]]
    /\ justified \subseteq Justification

(* No pool ever holds quorums for two blocks in one round at once, although*)
(* validators sign both sides of a fork, sign again after a restart and    *)
(* get their votes in any order.  (Pruning clears a round; a quorum for    *)
(* another block may form in it afterwards.)                               *)
OneQuorumPerRound ==
    \A n \in Nodes, x, y \in UNION {pool[m] : m \in Nodes} :
        x.round = y.round /\ x.block # y.block
            => ~ ( /\ IsQuorum(NodeWeight, VotersFor(n, x.round, x.block))
                   /\ IsQuorum(NodeWeight, VotersFor(n, y.round, y.block)) )

(* A justification that leaves a node carries distinct votes that were     *)
(* really gossiped, for its block and round, with a quorum of the weights, *)
(* however the pool was pruned while it was built: the pallet accepts it   *)
(* wherever the block is above the head.                                   *)
JustificationsAreQuorums ==
    \A j \in justified :
        /\ IsQuorum(NodeWeight, j.voters)
        /\ \A v \in j.voters : [voter |-> v, round |-> j.round, block |-> j.block] \in wire
        /\ IsCheckpointBlock(j.block)

(* A client never leaves the chain it has finalized: neither a             *)
(* justification for a fork, nor a longer fork, nor the sync task, nor a   *)
(* restart takes the finalized block off the chain of the best one.        *)
FinalizedIsOnBestChain ==
    \A n \in Nodes : best[n] \in imported[n] /\ OnChainOf(finalized[n], best[n])

(* Every node finalizes a checkpoint in the end, also those that see the   *)
(* round move on before they have a quorum themselves.                     *)
CheckpointFinalized ==
    <>(\A n \in Nodes : finalized[n] # Genesis)

=============================================================================
