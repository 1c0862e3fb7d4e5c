# Verification of Cerulea's consensus

TLA+ models of the consensus of Cerulea, a Substrate chain with two consensus
layers written in Rust: DCF produces and orders blocks, DVF finalizes them by
weighted votes of the validators. The models are translated from the source;
TLC checks them on small instances (`PROJECT.json`, "runs"), and TLAPS proves
the safety properties for every value of the constants ("theorems").

Run everything in this directory: `tlc -workers 2 -config DvfFull.cfg MCDvfPallet`,
`tlapm DvfPallet_proofs.tla`, and so on.

## 1. The system

### Inventory

| Component | Source | State | Operations | Talks to |
|---|---|---|---|---|
| DVF pallet: finality | `pallet-cerulea-dvf/src/lib.rs` | frozen weights, round, finalized head, vote records, tallies, validator set id | `freeze_epoch_weights`, `submit_dvf_vote`, `submit_justification`, pruning | called by the DCF epoch transition; extrinsics from nodes; its head caps DCF's marker |
| DVF pallet: registry | same | validator set, active set, join times, leave requests, recently removed | `join_*`, `leave_*`, `cancel_leave_request`, expiry in `on_initialize`, `eject_validator` | calls PoS, is called as validator handler |
| Vote creator | `cerulea-consensus/src/vote_creator.rs` | none (one notification stream) | on every block import: check checkpoint, sign, insert in the pool, gossip | runtime API, vote pool, network |
| Vote pool and gossip validator | `dvf_gossip.rs` | `votes`, `participation` (two locks), `known_messages` | `insert_vote`, three ways to prune, `enforce_max_size`, `validate` | shared by the four tasks below and above |
| Vote aggregator | `vote_aggregator.rs` | `last_triggered_block`, last round, last set id | every second: look for a quorum, build a justification, finalize in the client, submit the extrinsic | pool, client, transaction pool |
| Justification builder | `justification_builder.rs` | none | select votes by weight up to the threshold, construct | pool, runtime API |
| Finality-sync task | `service.rs` | none | every six seconds: prune the pool, finalize the client up to the pallet's head | pool, client, runtime API |
| Finality notifier, engine, pruning service | `finality.rs`, `vote_aggregator.rs` | subscriptions | never notified: dead code in the deployed node | - |
| DCF pallet: finality marker | `pallet-cerulea-dcf/src/lib.rs` | last and previous finalized block, best of the previous epoch | `update_finality_markers` at every block | capped by the DVF head |
| DCF pallet: epochs and authors | same | epoch, active validators, author sequences, score snapshots, pending actions | `on_initialize`, epoch transition, `sudo_advance_epoch` | freezes DVF weights |
| DCF pallet: governance and rate limits | same | proposals, votes, operation counts and histories | submit, vote, execute, process at the epoch end | moves balances through PoS, changes the registry |
| DCF pallet: scores and trust | same | `ValidatorStates`, the two weights | aggregation at boundaries, boosts, decay, recomputation, check of the active | reads PoS stake and PoI results, takes seats away |
| DCF pallet: private chain, economic bounds, EVM, metrics | same, and `private_chain.rs`, `economic_bounds.rs`, `evm_compatibility.rs`, `metrics.rs` | allow lists, reports, counters | checks and reports | - |
| PoS pallet | `pallet-cerulea-pos/src/lib.rs` | stake, reserves, strikes, budgets of an epoch | bond, unbond, increase, decrease, slash, reward | calls the DVF pallet as validator handler |
| PoI pallet | `pallet-cerulea-poi/src/lib.rs` | inference results, challenges | submit, simulate, challenge, offchain scores | read by the scores |
| Block production, import queue | `dcf.rs`, `import_queue.rs`, `proposer_factory.rs` | best block, step of the loop | build for the expected author, verify peers' blocks, longest chain | client, runtime API |
| Epoch manager, validator set cache | `epoch_manager.rs`, `validator_set.rs` | caches | refresh; not started by the service | runtime API |
| Block tracker, fork detection, RPC, CLI, tracer, metrics | `cerulea-node/src` | statistics | queries, logs | read only |
| Todo pallet, web studio, tools | `pallet-todo`, `platform/` | - | example application, web front end | RPC |

### How the finality protocol works

A block whose number is a multiple of `FinalityCheckpointInterval` (10) is a
checkpoint. Every validator's vote creator signs the checkpoints its node
imports, for the *round* and the *validator set id* that the pallet shows at
the best block of the moment, puts the vote in the node's pool and gossips it.
The pool takes one vote per round and validator. When the votes for a block in
the current round reach 67 % of the frozen weight, the aggregator builds a
justification, finalizes the block in its client, and submits the
justification as an unsigned extrinsic. The pallet checks it against its frozen
weights, moves the finalized head and sets the round to the justification's
round plus one. The other nodes get there by their own aggregator or by the
finality-sync task. The weights are frozen by the DCF epoch transition (every
100 blocks) from the live stakes, scaled to 32,000 units.

### What makes it hard

- Round, head and weights are read at one block and used at another: forks
  disagree on the round, and a justification may be included rounds later.
- Two extrinsics reach the head by different checks, interleaved with epoch
  transitions that change weights under open tallies.
- Membership, seats and stake are three storage items in three pallets, written
  by extrinsics, by hooks at the start of a block, by the epoch transition and
  by governance, never all together.
- `sudo_advance_epoch` runs the inner half of an epoch transition alone.
- Every authority builds every block in the name of the expected author, and
  judges its peers' blocks by its own best block, which moves meanwhile.
- Four tasks share the pool through two locks, and prune what others count.
- Votes are sent once. A restart loses the pool but not what was signed.
- Weights and thresholds are rounded several times.

The hazards, each with its line and the properties aimed at it, are listed in
`PROJECT.json`.

## 2. The modules

| Module | What it models |
|---|---|
| `Sums` | Sums of natural numbers over a finite set: of weights, of stakes, of rewards. |
| `VoteWeights` | The arithmetic: normalised weights, the Perbill threshold, quorums. |
| `QuorumFinality` | The abstract promise: endorsements, changing weights, and a head that moves up only to a block endorsed by a quorum. |
| `DvfPallet` | DVF on one chain: `SignVote` (off chain), `SubmitDvfVote`, `SubmitJustification`, `FreezeEpochWeights`. |
| `DvfVotePool` | The pool at the grain of its two locks: `Mark`/`Push` (`insert_vote`), `PruneVotes`/`PruneParticipation`, `PruneByFinalizedBlock`, `EnforceMaxSize`. |
| `DvfVoting` | The nodes over a block tree: `Produce`, `Import`, `CreateVote`, `ReceiveVote`, `Trigger`, `Finalize`, `GiveUp`, `SyncFinality`, `Restart`. |
| `StakeLedger` | Free and reserved balances, recorded stake and strikes: the calls of the PoS pallet. |
| `ValidatorRegistry` | Extends `StakeLedger`: members, seats, pending actions, leave requests and cooldowns, by every extrinsic, hook and proposal that changes them. |
| `DcfEpochs` | Epoch, finality markers, author sequences, score snapshots and frozen weights, block by block and by sudo. |
| `EpochBudget` | Rewards and slashes under the caps of an epoch. |
| `Governance` | Extends `EpochBudget`: proposals, ballots, rate limits, execution by root and at boundaries. |
| `ValidatorScores` | The scores that decide who keeps a seat, and every call and hook that moves them. |
| `BlockProduction` | The consensus loop and the import queue of every authority, over forks and an epoch boundary. |
| `MC...` | Instances for TLC: small stakes, trees, weights and proposals. |
| `..._proofs` | Theorems and their proofs. |

`VoteWeights` is extended by the DVF modules, and `DvfPallet` is shown to
implement `QuorumFinality` (`ImplementsQuorumFinality`). `DvfVoting` uses the
pool's operations atomically and reads the voters off the votes instead of
keeping the participation map; what `DvfVotePool` shows is what permits it:
one vote per round and validator, every vote's voter marked, and no mark
stranded as long as only rounds are pruned, which is all the deployed node
does. The modules of the DCF side meet in their variables: the seats that
`ValidatorRegistry` and `ValidatorScores` give and take are arbitrary in
`DcfEpochs` and in `BlockProduction`, and the head that `DvfPallet` moves up is
any rising number in `DcfEpochs`. Each of them so holds for whatever the others
do.

### Correspondence

*`VoteWeights`.* `NormalizedWeights` is lines 842-858 of
`freeze_epoch_weights`: `stake * 32000 / total`, or an even share when nobody
has stake. `Threshold` is `Perbill * total`, which rounds to the nearest
integer with halves down. A sum (`Sums`) is defined as the cardinality of a set
of units rather than by recursion, so that monotonicity, additivity and the
intersection of quorums are facts about finite sets that can be proved.

*`DvfPallet`.* Variables are the storage items under their own names;
`TotalVotingWeight` is the total of `epochVotingWeight`. `signed` is the
environment: every vote ever signed, from which extrinsics may be built at any
later time, again and again. Failed dispatches are rolled back and are no
step. Signatures are those of the validators named. A vote carries the number
its node read in the header; the pallet takes the head's number from the one
vote (`SubmitDvfVote`) or from the first vote (`SubmitJustification`) and never
compares it with the hash. In `SubmitDvfVote` the vote's
own round, epoch and set id are not read, because the code does not read them:
the record is kept under the chain's round. In `SubmitJustification` they are
only required to agree with each other. `FreezeEpochWeights` raises the set id
when the membership changes; `MaxSetId` bounds how often. `frozenStake` is a
history variable: the stakes that the weights of the moment were made from,
which the pallet forgets and which say what a quorum of weights is worth.

*`DvfVotePool`.* `op[t]` says where a task stands inside an operation; a lock
variable names the task that holds it. Read-only operations are left out.
`MaxRound` bounds the rounds of votes, `MaxSize` is the argument of
`enforce_max_size`.

*`DvfVoting`.* `chain[b]` is the pallet's round and head in the state after
block `b`, so two forks may disagree. `Produce` extends the producer's best
block and may include any submitted justification that the pallet of the parent
accepts. `Import` is the client with longest chain. `pending` is the stream of
import notifications of the vote creator, restricted to checkpoints. `Trigger`
is `check_vote_accumulation` up to the decision (with `last_triggered_block`
raised first, as in the code), `Finalize` the construction and what follows it,
`GiveUp` its error path; between them other tasks run. `SyncFinality` prunes
the pool by the finalized block's *number*, as the code does, and finalizes the
client's own chain up to the pallet's height. The Substrate client is external:
`apply_finality` refuses a block that is not a descendant of the finalized
one, and makes the block best if the best block is on another fork.

*`StakeLedger`, `ValidatorRegistry`.* The variables are the storage items; an
entry that stores a block number is kept as its age in blocks, a score as
"reaches the minimum or not" (`fit`). Failed dispatches are rolled back and are
no step. `NextBlock` is the hooks in their order: DCF applies the pending
actions at a boundary and takes the seats of the underperforming in other
blocks, then DVF cleans the cooldowns, lets leave requests expire and takes the
seats of the underperforming. Free slots are computed in the code
from `capacity()` of a vector, which is what the allocator gave it (DCF lib.rs
11551, 11698): `Admissions` therefore admits any number from what the leavers
vacated up to `MaxValidators`. `unbacked` remembers the accounts that used one
of the calls that change reserve and record differently: `bond_stake` and
`unbond_stake` write the record alone, and `decrease_validator_stake` lowers it
by what `unreserve` returns, the part that could *not* be released
(POS lib.rs 574).

*`DcfEpochs`.* A sequence is kept as the set it was drawn from, for weights are
at least 1 and any of these validators may be any author. `EnterEpoch` is the
boundary block, `StayInEpoch` any other, `SudoAdvanceEpoch` the inner
`handle_epoch_transition` that root may run alone. There are two sources of the
epoch length in the code, `T::EpochLength` and the genesis epoch configuration,
which are never compared; they are one constant here, as in the chain
specification.

*`EpochBudget`, `Governance`.* A proposal is its position in the sequence; any
signed account may submit and vote. The quorum is half of the validators that
are active at the vote, rounded up, so the number is arbitrary at each vote.
What `Currency::slash` returns is the part it could not take, and this is what
the code adds to the slash budget (POS lib.rs 813): any number up to what was
asked for. A list of validators to reward is how often it names each of them
(`Lists`), for it may name one twice; whoever no longer fits is skipped, and
which ones fit depends on the order of the list. A boundary executes the
*pending* changes of the set; approved ones wait for root.

*`ValidatorScores`.* A record holds the stake and inference scores, the final
score and the epochs since the last activity. `BoundaryBlock` computes every
member's score from its share of the stake before it admits anybody and counts
the epoch; `RegularBlock` boosts the author, decays and checks in the blocks
where the code does. The intervals of 100, 200 and 1000 blocks are multiples of
the epoch length: their branches in the regular block never run and have no
counterpart. The calls anybody may make (`UpdateValidatorStakeScore`,
`UpdateValidatorInferenceScore`, `SimulateInference`) are actions of their own.
`IncreaseStake`, `DecreaseStake`, `Rebond`, `Reward` and `Slash` are what the
calls of the PoS pallet do to record and score; what a decrease takes off is
the remainder of `unreserve`, which `StakeLedger` explains, and so any number
here. `judged`, `fit` and `sudos` are history: whom the last boundary judged and
found fit, and how often sudo has advanced the epoch since. A change of the
weights empties `fit`; a slash, a leave or a decrease of its own stake drops the
account from it.

*`BlockProduction`.* A block is the path from genesis to it. The loop's four
steps read the best block anew each time, as in `dcf.rs`. The sequence of an
epoch is drawn once for a parent and a set of seats (`draws`): the code seeds it
with the parent hash of the boundary block. The legacy draw and the round robin
are constants: any function of seats and number; so is the sequence that the
genesis build draws for the first epoch. `Finalize` is what the vote aggregator
and the finality-sync task make of a node's client: it may finalize any block
the node has above the finalized one, and takes the best block to it if that was
on another fork, however high. `built` is history: the heights a node has built
since that last happened.

### Mutants

Beside many definitions there are variants marked "Mutant of ...": what the
definition would be with a plausible mistake. They are used by nothing.
`PROJECT.json` names, for each property, the mutant that violates it.

## 3. What is checked

| Run | Bounds | Shows |
|---|---|---|
| `weights` | `DvfPallet` with up to 3 validators, every distribution of stakes 0..5 over them frozen in any order, no votes, scale 753 | A quorum of weights holds two thirds of the stake, rounding included; a group with 67 % and a unit of slack per member is a quorum. |
| `pallet_both` | 3 validators (one holds half), checkpoints at 2 and 4, retention 0, one set change, stakes moved at will | Votes, justifications (however late) and epoch transitions interleaved: the head moves up only, records stay inside the retention window; until a justification is late, rounds go up by one and nobody is locked out by a vote for a decided block. |
| `pallet_justifications` | 3 validators, two competing checkpoints and a higher one, the set shrinking or growing once | The justification path, the one the nodes use, implements `QuorumFinality`: the head moves up only, to a block endorsed by a quorum. |
| `pool` | 2 tasks, 2 validators, 3 blocks, 2 rounds, size limit 2 | One vote per round and validator, votes stay marked, only trimming strands a mark. |
| `vote_fork` | 2 validators, both needed; a fork at height 1, one block above; one node restarts; every block a checkpoint | No pool ever has quorums for two blocks of one round; justifications are quorums of gossiped votes; a client's best block never leaves what it finalized. |
| `vote_live` | 3 validators, a chain of three blocks, checkpoint at 2 | Every node finalizes the checkpoint in the end, by gossip or, when the round moves on without it, through the pallet and the sync task. |
| `registry` | a genesis validator and a candidate, one seat, cooldown and epoch of 2 blocks, 2 strikes | Reserve and record agree but for the calls that break them; members and seats stay within capacity; only members wait to leave; seats belong to members unless a pending join filled them; nobody skips a cooldown; a leave request is settled; an unfit validator keeps losing its seat. |
| `epochs` | 2 validators, 3 epochs of 3 blocks, 2 advances by sudo | The DCF marker never passes DVF; it follows block by block until sudo interferes, and catches up at every boundary after the first anyhow; until then the authors of all but boundary blocks are DVF voters; sequences never change. |
| `governance` | 2 validators, 2 accounts, 3 sorts of proposals, 2 proposals, 3 blocks, epoch of 2, one submission and one vote per block; rewards of 1 by root and 2 by default, a cap of 2 per validator and of 3 per epoch, lists that name a validator once or twice, one validator that root slashes and one that registers and leaves without a proposal | Rewards stay in the caps whatever mixture of calls, proposals and distributions pays them; tallies are ballots; a proposal takes effect once, and moves balances only with a majority of its votes; rates hold over every window; verdicts are final. |
| `production` | 2 authorities, one of which may fall back to an emergency block at height 2, 2 validators, seats that may change in block 1, a boundary at block 2, height 3; one node finalizes a block of height 1, on either fork and at any moment | An authority builds a second block of a height only if finality moved its best block; nobody refuses a regular block of an epoch whose draw it shares; the chain of every node keeps growing. |
| `scores` | a genesis validator and a candidate with a third or three times its stake, one call of root or one reward or slash, epochs of 2 blocks, inactivity after more than one epoch | Whoever was fit at a boundary keeps its seat until the next, but for root and for what it took off its own stake; idleness beyond an epoch is sudo's doing; somebody is fit at every boundary where an even share would be. |
| `vote_counted_twice` | as `pallet_both` | A finding, below. |

**Bounds.** The scale 753 in `weights` is the least for which the rounding
argument works with three validators (201 units per validator plus 150, the
condition `FineScale`); the code's 32,000 satisfies it for up to 158
validators, more than `MaxValidators` = 100, and what it gives is proved for
every number of validators and every stake. Three validators with one heavy one are enough for quorums
with different members, two validators for quorums that need everybody; two
checkpoint heights give late, repeated and overtaken justifications; a retention
of 0 makes the pruning bite within two rounds. A fork at one height gives
conflicting votes in one round and in consecutive ones. A single seat makes
every admission compete with a leaver, an expiry and a cancellation; two blocks
of cooldown tell a request's age from its expiry. Three epochs are the least in
which a sequence, a snapshot and a marker of an older epoch can be confused.
In `scores` the numbers keep the code's relations (a minimum above half of the
maximum, decay that rounds to zero, weights 60:40), a quarter of the stake is
just fit with the inference result and not without it. In `production` a fork
at height 1 that straddles the boundary, with one node finalizing either of its
blocks, is the least in which a best block moves down; a second finalizing node
or a greater height multiplies the states by more than TLC has time for. In
`governance` the cap of an epoch is between one and two caps of a validator, so
each of them bites where the other does not; the accounts are interchangeable
and the run uses that symmetry. Counters the code does
not bound are bounded by the constants marked "bound:" in each module.

**Deadlock** is checked where a model goes on for ever (`epochs`, `governance`).
The others have a bounded set of blocks, rounds, heights or set ids, or accounts
that may all have left, and stop when it is used up.

**Fairness.** `DvfVoting`: weak fairness for each task of each node, which are
endless loops on their own timers or streams; for the delivery of votes, which
gossip repeats to its peers; and for block production. None for `Restart`. The
liveness run has one checkpoint, so that votes of one round do not split over
several; see the limits below. `ValidatorRegistry`: weak fairness of `NextBlock`
alone; nobody is obliged to call anything. `BlockProduction`: weak fairness for
the loop and the import of each node, which service.rs starts as essential
tasks, and strong fairness of `Propose`, which says that building a block does
not fail for ever. `ChainGrows` needs a seat that is taken: the run's seats are
never empty, see below what happens otherwise.

### Findings

- `vote_counted_twice`: `submit_dvf_vote` looks up the record in the chain's
  round and not in the vote's; the same signed vote is added to the tally again
  in each round until a block is final without a quorum.

What was met while modelling, without a run of its own, follows. The models do
what the code does in each of these cases.

*DVF and the nodes.*
- Honest validators sign both sides of a fork; in two successive rounds
  conflicting blocks may be finalized by different clients
  (`vote_creator.rs:186`; `docs/AUDIT_CHAIN.md:466` says otherwise).
- `insert_vote` and `prune_older_rounds` take the two locks of the pool in
  opposite orders and may wait for each other (`dvf_gossip.rs:101`). In
  `DvfVotePool` two such threads stop.
- The sync task prunes *rounds* by a *block number*, which drops the votes of
  the round in progress (`service.rs:874`).
- `last_triggered_block` is raised before the attempt, so a failed justification
  is never tried again (`vote_aggregator.rs:307`; the comment at 349 says it is).
- A late justification takes `CurrentRound` back (`dvf/lib.rs:970`); pruning
  leaves tallies (`:984`); the set id of votes is never compared with
  `ValidatorSetId` (`:905`); the frozen weights ignore the score (`:848`) and
  may be zero for a small stake; the pallet records a hash that need not be on
  its chain (`:945`).

*Epochs.* After one `sudo_advance_epoch` the score snapshot is never taken
again, sequences are keyed one epoch ahead, and progressive finality waits for
the next boundary. Genesis marks block 1 final before DVF did. An ejected
validator stays in the sequence of its epoch. The totals of an epoch are reset
before the transition's event reports them (`dcf/lib.rs:7839`).

*Registry.* An increase followed by a decrease of stake inflates the record. An
account may hold a seat while it is leaving or cooling down, by a pending join
that survives its ejection. `cancel_leave_request` gives an unfit validator its
seat back until the next check.

*Governance.* A tie at the quorum rejects. A proposal whose inner action fails
ends as executed. Slashes count by what could not be taken, so the slash caps
bound single calls only. A share of zero in
`distribute_rewards` pays the default reward (POS lib.rs 718, 889). Sudo's
advance begins new budgets.

*Scores.* A boundary scores the *share* of the stake, `update_validator_stake_score`
the raw amount: anybody can lift a small validator to the maximum until the next
boundary. Any share above about half a percent is capped at 100, so authorship
is nearly even. A newcomer with nearly all of the stake takes everybody else
below the minimum at the next boundary, and they lose their seats at the next
check. With the runtime's constants the decay of a score within the maximum
rounds to zero (at most 100 times 5 by 10,000), so that no inactive validator
ever loses score, although `configs/mod.rs:78` promises "5% score decay per
inactive epoch" and `docs/CONSENSUS_ARCHITECTURE.md:32` that "inactive
validators lose score"; `FitKeepSeats` holds because of it, and its mutant is a
decay that does not round to nothing. A validator can talk itself out of its
seat: `decrease_validator_stake` lowers record and score by what `unreserve` did
*not* release, which is nothing in a first call and the whole amount in one that
finds the reserve empty (POS lib.rs 574, DVF lib.rs 1271); anybody may then have
its score computed anew, and the next check takes the seat. A newcomer's activity is dated by an epoch of the PoS pallet that never advances,
so a seat it gets from `sudo_advance_epoch` is lost as inactive. A validator that
has left keeps its record, and may be given a seat by sudo's advance while its
score stands; anybody can have it scored without a stake then, and it loses the
seat at the next check (why `FitKeepSeats` is not about those that left).
`update_consensus_weights` followed by `update_dcf_parameter` leaves weights
that do not add up (the comment at `dcf/lib.rs:13266` asks for it). Boosts and
slashes of the PoI pallet always fail: they are made with a root origin where a
signature is wanted. An account may submit one inference ever.

*Production.* The seed of a sequence contains the parent hash: forks that
straddle a boundary draw different sequences and refuse each other's blocks for
good, also two authorities that both built the boundary block. When DVF finalizes a block of
another fork, the client makes it the best block, lower than the old one; the
guard against double production (`dcf.rs:206`) compares numbers with the best
block only, and the node builds heights a second time. Set back behind a
boundary, it judges its peers' blocks of the new epoch by the old way of drawing
until its best block has reached the boundary again. The block that begins an epoch is always
judged so: its parent's state has no sequence yet. If the expected
author has lost its seat, the round robin names an author every peer refuses
(`dcf.rs:493`). Emergency blocks name no author and are refused by everybody but
their builder. Without any seat the chain stops. An epoch that begins without
any seat has no sequence: should seats be given in it, the old way of drawing
decides, by the seats of each node's own best block, and nodes may refuse each
other's blocks (`AuthorsAgreeInEpoch` is about epochs that have a draw). `validate_block_author` refuses
nobody and no block is sealed.

## 4. What is proved

All proofs are for arbitrary constants under the named assumptions of the
modules: any finite set of validators, accounts, nodes and blocks, any weights,
intervals, caps and lengths.

- `VoteWeights_proofs`. `QuorumsIntersect`: two quorums of the same weights
  share a validator that has weight, if the total exceeds 50 units. The
  argument: units of disjoint sets are disjoint, so their sum is at most the
  total, but two thresholds of at least 51 % exceed it, rounding included
  (hence the 50). Lemmas: a sum is finite, monotone and additive, over the set
  and over the function. What must be shown for every finite set is shown by
  `SubsetInduction`, where the property is the *set* of the subsets that have
  it: a smallest subset without it is one member more than one that has it.
  From there the rounding of the weights: the weight of a group and its share of
  the scale differ by less than a unit per member (`WeightsOfStake`), the total
  misses less than a unit per validator (`TotalWeight`), the threshold half a
  unit (`ThresholdRounds`).
- `DvfPallet_proofs`. `TypeCorrect`, `FinalityIsMonotone`, `RecordsAreUnique`,
  `RecordsAreRetained` for both extrinsics. The uniqueness
  needs only the record check; the retention is inductive because a record is
  written at the current round and every change of the round prunes.
  `NoLockoutWhenPrompt` and `RoundsAdvanceWhenPrompt` for prompt
  justifications, from the invariant `FreshRounds` (no record is of a round
  still to come, none of the current round is for a decided block): a late
  justification is what breaks it, by taking the round back.
  `TwoThirdsOfStake` and `EnoughStakeFinalizes`: the weights of the moment are
  always those of `frozenStake` (`Frozen`), and what a quorum of them is worth
  in stake, and what stake is worth in weights, is arithmetic with the three
  roundings above. The first one needs `FineScale`: a scale of 201 units per
  validator and 150 more, which the runtime's 32,000 is for 100 validators; the
  second one holds for any scale, for it names the slack, a unit per member.
  `Implementation` for the justification path: each step is a step of `QuorumFinality` or leaves its variables alone; the quorum
  carries over because the signers a justification names are a subset of those
  who endorsed, and sums are monotone.
- `DvfVotePool_proofs`. The inductive invariant adds to the properties who holds
  which lock in which operation (`LocksHeld`), that a marked voter is in the
  map until pushed (`MarkedAhead`), and that what a prune is about to remove has
  no vote left (`PrunedAhead`). From it `OneVote`, `VotesAreMarked`,
  `NoMarkIsStranded`; `MarksAreExact` for the operations the deployed tasks use.
- `DvfVoting_proofs`. `OneBlockPerRound`: no pool has quorums for two blocks
  of one round, from "one vote per round and validator in each pool" and
  `QuorumsIntersect`, for any number of nodes, forks and restarts.
  `SubmittedIsQuorum`: justifications are quorums of votes that were gossiped.
  `FinalizedStaysOnBest`, over any block tree. That
  the recursive definition of `Ancestors` has a solution at all is proved by
  giving one, the least set closed under `Parent` (`AncestorsEquation`);
  induction over the tree (`BlockInduction`) then gives that ancestors are
  lower, that an ancestor's ancestors are ancestors and that two ancestors of a
  block are comparable. The invariant adds that a node has imported what
  it is finalizing (`ClientInv`); the sync task keeps it because the block it
  finalizes is an ancestor of the best block, as the finalized one is, and is not
  lower (`SyncedGoesUp`).
- `ValidatorRegistry_proofs`. `TypeCorrect`; `LeaversAreMembers` (every way out
  of the set drops the request); `SeatedAreMembers` on top of it; `StakeIsBacked`
  (reserve and record move together but for the named calls); `CapacityHolds`,
  by cardinalities of the sets of members and seats; `CooldownIsServed`, from
  the invariant that an account that is out and has served less than the
  cooldown has an entry of the same age.
- `DcfEpochs_proofs`. The invariant ties the markers to the block and the head
  (`MarkersStayWithinDvf`), the newest sequence to the frozen electorate, and,
  until sudo advances, the epoch to the block number (`AuthorsAreVoters`,
  `MarkersFollowDvf`). `BoundariesCatchUp` holds with sudo too: the transition
  sets the best block of the old epoch first, so the check that stalls
  progressive finality passes. `SequencesStayFixed`: keys only grow.
  The module also holds the theorems about `ValidatorScores`, the scores that
  the boundaries compute. `JudgedStayActive`, from the types alone: a boundary
  leaves every member at one epoch, and nothing but `sudo_advance_epoch` counts
  on. `FitSeatsAreKept`: a fit score is at the minimum and stays there if it is
  computed again from the recorded parts (`StaysFit`); boosts, the cap and more
  stake do not lower either (`RegularStaysFit`, `MoreStake`), and a score from
  the raw stake is enough while the weights are such that every stake is
  (`StakeIsEnough`, the same condition as in the property). It assumes
  `DecayIsSmall`, that the decay of a score at the maximum rounds to nothing,
  which the runtime's numbers satisfy (100 times 5 is less than 10,000) and
  without which the property is false. `SomebodyIsFit`: one member has at least
  the average stake (`Average`, by the sums again), so its share is at least an
  even one although every division rounds down (`EvenShare`).
- `Governance_proofs`. `RatesHold`: the trimmed history contains every operation
  of the last window (`HistoryInv`), hence a stretch of the full log that ends
  now is no larger than the limit allowed (`StretchInv`). `TalliesAreBallots`,
  `EffectsAreAuthorized` and `VerdictsStay` are inductive together, proposal by
  proposal. `RewardCapsHold`: a distribution pays several validators at once, so
  the step rests on the additivity of sums over the function (`SumsAdd`); the
  module takes the lemmas about sums from `VoteWeights_proofs`, whose two
  constants play no part in it.
- `BlockProduction_proofs`. `NeverTwoOfAHeight`: whatever draws, forks,
  failures and finalizations. The invariant says that what a node has built since
  finality moved its best block is no higher than that best block
  (`BuiltBelowBest`) and no higher than the parent of the block under
  construction (`BuiltBelowTask`): imports by the longest chain never lower the
  best block, and a finalization that moves it starts the record anew. `AuthorsAgree`: what a sequence is drawn
  from is a path and the seats at its end, so a chain keeps its draws as it
  grows (`SameDraw`), and every epoch that a chain has begun with a seat has its
  sequence (`Drawn`); finality draws none and adds no block
  (`FinalityDrawsNothing`). Best blocks may be lower than what a node has, so the
  property speaks of nodes whose best block has reached the epoch.

Only model-checked: the four liveness properties `CheckpointFinalized`,
`LeaveIsSettled`, `UnfitLoseSeats` and `ChainGrows` (fairness and ENABLED are
beyond the prover). The type invariants
of `DvfPallet`, `DvfVotePool`, `ValidatorRegistry`, `DcfEpochs` and
`Governance`, and `OneRecordPerRound`, are proved and not checked by a run.

## 5. Limits

- `DvfVoting` stays inside one epoch: weights and set id are constant, and the
  checks of the gossip validator against epoch, set and activity are left out,
  as is the longevity of five blocks of the justification extrinsic: a
  submitted justification may be included at any time or never. With a second
  epoch the state space is out of TLC's reach.
- With several checkpoints in a stalled round the votes can split and finality
  may wait for ever. The repository documents this (`docs/AUDIT_CHAIN.md`,
  section 4.4); the liveness run has one checkpoint.
- Signatures are unforgeable and a validator's key is used by its own node.
- The pruning service is not part of `DvfVoting`: nothing calls
  `FinalityNotifier::notify`. Its pool operations are in `DvfVotePool`.
- The seats in `BlockProduction` and `DcfEpochs` change at will, within the sets
  named there, and are not computed by the registry; the composition of all
  modules in one state space is out of reach.
- Metrics, tracing, events, weights of calls and transaction fees are left out.

## 6. Not modelled

- *Governance*: reports of misbehaviour (a counter per pair of accounts that
  ends in `force_eject_validator`, which is an action of `ValidatorRegistry`),
  the parameters of `update_dcf_parameter` other than the two weights (most are
  stored and read by nothing), `update_rate_limit_config`.
- *Trust scores, uptime, participation*: written at many places and read by the
  RPC interface only.
- *PoI challenges and offchain scores*: their effects fail, see above. A second
  challenge by the same account overwrites the first one.
- *Private chain*: no call turns it on. *Economic bounds, EVM compatibility,
  metrics, migrations, invariant checks*: they report, or rewrite storage once.
- *Finality notifier and engine, epoch manager, validator set cache,
  `author_selection.rs`, `DcfImportQueue::import_block`, `RealBlockImport`*: not
  used by the deployed node.
- *Block tracker, fork detection, RPC, CLI, chain specification, tracer*: read
  only, start-up or logging.
- *Todo pallet, web studio, tools*: sequential applications beside the chain.
