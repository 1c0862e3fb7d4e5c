------------------------------ MODULE Governance ------------------------------
(***************************************************************************)
(* Governance proposals of pallet-cerulea-dcf: submission and voting under *)
(* rate limits, execution by root, automatic execution of the changes of   *)
(* the validator set at an epoch boundary, and the rewards and slashes     *)
(* they share with the root calls of pallet-cerulea-pos.                   *)
(*                                                                         *)
(* A proposal is its position in the sequence.  An account performs an     *)
(* operation at most once per block (every interval is at least 1), so its *)
(* history is a set of blocks.  Private-chain mode, which no call turns    *)
(* on, and the weight bounds, which the fixed weights respect, are left    *)
(* out; so is the seat a removed or added validator has in the registry.   *)
(***************************************************************************)
EXTENDS EpochBudget, Sequences

CONSTANTS
    Accounts,
    Actions,                \* bound: the actions proposed
    RootLists,              \* bound: the lists of validators root rewards
    RootAmounts,            \* bound: the amounts of root's rewards and slashes
    Slashable,              \* bound: whom root slashes without a proposal
    Movable,                \* bound: who registers and leaves without a proposal
    MaxActive,              \* bound: the number of active validators
    MaxProposals,           \* bound: the number of proposals
    MaxBlock,               \* bound: the last block
    EpochLength,
    PerBlock,               \* max_proposals_per_block, max_votes_per_block
    PerAccount,             \* max_proposals_per_account, and 100 for votes
    Window,                 \* proposal_rate_window, and 100 for votes
    Interval                \* min_proposal_interval, min_vote_interval

Named(action) == {v \in Validators : action.targets[v] > 0}

Operations == {"submit", "vote"}

SetActions == {"AddValidator", "RemoveValidator", "EjectForPerformance"}

Removals == {"RemoveValidator", "EjectForPerformance", "Eject"}

Kinds == SetActions \cup Removals \cup {"Slash", "Reward", "RewardMultiple"}

ASSUME GovernanceAssumption ==
    /\ IsFiniteSet(Accounts)
    /\ Actions \subseteq [kind : Kinds, targets : Lists, amount : Nat]
    /\ RootLists \subseteq Lists /\ RootAmounts \subseteq Nat
    /\ Movable \cup Slashable \subseteq Validators
    /\ {MaxActive, MaxProposals, MaxBlock} \subseteq Nat
    /\ EpochLength \in Nat \ {0}
    /\ PerBlock \in [Operations -> Nat]
    /\ PerAccount \in [Operations -> Nat]
    /\ Window \in [Operations -> Nat]
    /\ Interval \in [Operations -> Nat]
    /\ \A op \in Operations : Interval[op] > 0 /\ Interval[op] <= Window[op]

VARIABLES
    block,
    proposals,              \* Proposals: action, status, votes_for, votes_against
    ballots,                \* ProposalVotes
    opsInBlock,             \* BlockOperationCounts
    opHistory,              \* AccountOperationHistory
    log,                    \* history: every operation of an account
    runs                    \* history: how often a proposal took effect

rates == <<opsInBlock, opHistory, log>>
vars == <<block, proposals, ballots, runs, rates, registered, budget>>

Ids == DOMAIN proposals

-----------------------------------------------------------------------------

(* Mutant of InWindow: the first block of the window is left out.          *)
InOpenWindow(op, blocks) == {b \in blocks : b > block - Window[op]}

InWindow(op, blocks) == {b \in blocks : b >= block - Window[op]}

(* check_rate_limits: per block, per account, and since the last time.     *)
WithinLimits(op, who) ==
    /\ opsInBlock[op] < PerBlock[op]
    /\ Cardinality(InWindow(op, opHistory[op][who])) < PerAccount[op]
    /\ \A b \in opHistory[op][who] : block - b >= Interval[op]

RecordOperation(op, who) ==
    /\ opsInBlock' = [opsInBlock EXCEPT ![op] = @ + 1]
    /\ opHistory' = [opHistory EXCEPT ![op][who] = InWindow(op, @ \cup {block})]
    /\ log' = [log EXCEPT ![op][who] = @ \cup {block}]

Voted(id) == DOMAIN ballots[id]

Proposed(action) ==
    /\ Len(proposals) < MaxProposals
    /\ proposals' = Append(proposals, [action |-> action, status |-> "Pending", for |-> 0, against |-> 0])
    /\ ballots' = Append(ballots, <<>>)
    /\ runs' = Append(runs, 0)

(* should_auto_approve_proposal *)
AutoApproved(action) == action.kind \in SetActions

(* Mutant of Verdict: a tie approves.                                      *)
Tied(for, against) == IF for >= against THEN "Approved" ELSE "Rejected"

(* The verdict once enough votes are in; a tie rejects.                    *)
Verdict(for, against) == IF for > against THEN "Approved" ELSE "Rejected"

(* Rewards and slashes that fail and changes of the set that are refused   *)
(* are ignored: the proposal has been executed all the same.               *)
TakeEffect(action) ==
    \/ /\ action.kind \in {"Reward", "RewardMultiple"}
       /\ RewardEach(action.targets, action.amount)
       /\ UNCHANGED registered
    \/ /\ action.kind = "Slash"
       /\ \E v \in Named(action) : Slash(v, action.amount)
       /\ UNCHANGED registered
    \/ /\ action.kind = "AddValidator"
       /\ UNCHANGED <<registered, budget>>
    \/ /\ action.kind \in Removals
       /\ registered' = registered \ Named(action)
       /\ UNCHANGED budget

-----------------------------------------------------------------------------

Init ==
    /\ block = 0
    /\ proposals = <<>>
    /\ ballots = <<>>
    /\ runs = <<>>
    /\ opsInBlock = [op \in Operations |-> 0]
    /\ opHistory = [op \in Operations |-> [a \in Accounts |-> {}]]
    /\ log = opHistory
    /\ registered = Validators
    /\ rewards = NoBudgetUsed
    /\ slashes = NoBudgetUsed
    /\ paid = Nothing

(* Any account proposes, within its rate.                                  *)
SubmitProposal(who, action) ==
    /\ block > 0
    /\ WithinLimits("submit", who)
    /\ Proposed(action)
    /\ RecordOperation("submit", who)
    /\ UNCHANGED <<block, registered, budget>>

(* The propose_ calls of root know no rate; they propose no change of the  *)
(* set but ejections.                                                      *)
ProposeAsRoot(action) ==
    /\ block > 0
    /\ action.kind \notin {"AddValidator", "RemoveValidator"}
    /\ Proposed(action)
    /\ UNCHANGED <<block, registered, budget, rates>>

(* Mutant of MayVote: an account may vote again.                           *)
MayVoteAgain(who, id) == proposals[id].status = "Pending"

MayVote(who, id) == proposals[id].status = "Pending" /\ who \notin Voted(id)

(* Mutant of Counted: a vote against takes one off the votes for.          *)
CountedNet(p, approve) == [p EXCEPT !.for = IF approve THEN @ + 1 ELSE @ - 1]

Counted(p, approve) == IF approve THEN [p EXCEPT !.for = @ + 1] ELSE [p EXCEPT !.against = @ + 1]

(* vote_proposal: any account, once; the quorum is half of the validators  *)
(* active at this moment, rounded up.                                      *)
VoteProposal(who, id, approve) ==
    LET p == Counted(proposals[id], approve)
    IN  /\ WithinLimits("vote", who)
        /\ MayVote(who, id)
        /\ \E decided \in {p.for + p.against >= (active + 1) \div 2 : active \in 0 .. MaxActive} :
              proposals' = [proposals EXCEPT ![id] =
                  IF decided THEN [p EXCEPT !.status = Verdict(p.for, p.against)] ELSE p]
        /\ ballots' = [ballots EXCEPT ![id] = [a \in Voted(id) \cup {who} |->
              IF a = who THEN approve ELSE ballots[id][a]]]
        /\ RecordOperation("vote", who)
        /\ UNCHANGED <<block, runs, registered, budget>>

(* Mutant of Executable: not looking whether it has been executed before.  *)
ExecutableAgain(id) == proposals[id].status \in {"Approved", "Executed"}

Executable(id) == proposals[id].status = "Approved"

ExecuteProposal(id) ==
    /\ Executable(id)
    /\ TakeEffect(proposals[id].action)
    /\ proposals' = [proposals EXCEPT ![id].status = "Executed"]
    /\ runs' = [runs EXCEPT ![id] = @ + 1]
    /\ UNCHANGED <<block, ballots, rates>>

(* The root calls of the PoS pallet: any amount to or from any validator.  *)
(* A list of slashes is so many of them in a row, and a percentage of the  *)
(* stake is an amount.                                                     *)
RewardByRoot ==
    /\ block > 0
    /\ \/ \E times \in RootLists, amount \in RootAmounts : RewardEach(times, amount)
       \/ DistributeEpochRewards
    /\ UNCHANGED <<block, proposals, ballots, runs, rates, registered>>

SlashByRoot ==
    /\ block > 0
    /\ \E v \in Slashable, amount \in RootAmounts : Slash(v, amount)
    /\ UNCHANGED <<block, proposals, ballots, runs, rates, registered>>

(* A validator registers (register_validator, join_validators), or leaves  *)
(* or is ejected without a proposal.                                       *)
ChangeRegistration ==
    /\ \E v \in Movable : registered' \in {registered \cup {v}, registered \ {v}}
    /\ UNCHANGED <<block, proposals, ballots, runs, rates, budget>>

(* Mutant of DueAtBoundary: whatever was not executed yet.                 *)
UndecidedOrRejected == {id \in Ids : proposals[id].status \in {"Pending", "Rejected"} /\ AutoApproved(proposals[id].action)}

(* process_epoch_proposals *)
DueAtBoundary == {id \in Ids : proposals[id].status = "Pending" /\ AutoApproved(proposals[id].action)}

ProcessEpochProposals ==
    LET removals == {id \in DueAtBoundary : proposals[id].action.kind \in Removals}
        removed == UNION {Named(proposals[id].action) : id \in removals}
    IN  /\ proposals' = [id \in Ids |->
              IF id \in DueAtBoundary THEN [proposals[id] EXCEPT !.status = "Executed"] ELSE proposals[id]]
        /\ runs' = [id \in Ids |-> IF id \in DueAtBoundary THEN runs[id] + 1 ELSE runs[id]]
        /\ registered' = registered \ removed

(* on_initialize: the block's counters are reset; at a boundary the set    *)
(* changes and the budgets of the new epoch begin.                         *)
NextBlock ==
    /\ block < MaxBlock
    /\ block' = block + 1
    /\ opsInBlock' = [op \in Operations |-> 0]
    /\ \/ /\ block' % EpochLength = 0
          /\ ProcessEpochProposals
          /\ ResetEpochTotals
       \/ /\ block' % EpochLength # 0
          /\ UNCHANGED <<proposals, runs, registered, budget>>
    /\ UNCHANGED <<ballots, opHistory, log>>

(* Root advances the epoch: the budgets begin anew, the proposals wait.    *)
SudoAdvanceEpoch ==
    /\ block > 0
    /\ ResetEpochTotals
    /\ UNCHANGED <<block, proposals, ballots, runs, rates, registered>>

Next ==
    \/ \E who \in Accounts, action \in Actions : SubmitProposal(who, action)
    \/ \E action \in Actions : ProposeAsRoot(action)
    \/ \E who \in Accounts, id \in Ids, approve \in BOOLEAN : VoteProposal(who, id, approve)
    \/ \E id \in Ids : ExecuteProposal(id)
    \/ RewardByRoot
    \/ SlashByRoot
    \/ ChangeRegistration
    \/ SudoAdvanceEpoch
    \/ NextBlock

Spec == Init /\ [][Next]_vars

-----------------------------------------------------------------------------

Statuses == {"Pending", "Approved", "Rejected", "Executed"}

Proposals == [action : Actions, status : Statuses, for : Nat, against : Nat]

BallotBoxes == UNION {[voters -> BOOLEAN] : voters \in SUBSET Accounts}

TypeOK ==
    /\ block \in Nat
    /\ proposals \in Seq(Proposals)
    /\ ballots \in Seq(BallotBoxes) /\ Len(ballots) = Len(proposals)
    /\ runs \in Seq(Nat) /\ Len(runs) = Len(proposals)
    /\ opsInBlock \in [Operations -> Nat]
    /\ opHistory \in [Operations -> [Accounts -> SUBSET Nat]]
    /\ log \in [Operations -> [Accounts -> SUBSET Nat]]
    /\ registered \in SUBSET Validators

Ballots(id, approve) == {a \in Voted(id) : ballots[id][a] = approve}

(* The counters of a proposal are its ballots, one of each account.        *)
TalliesMatchBallots == \A id \in Ids :
    /\ proposals[id].for = Cardinality(Ballots(id, TRUE))
    /\ proposals[id].against = Cardinality(Ballots(id, FALSE))

(* A proposal takes effect at most once, by root or at an epoch boundary,  *)
(* then is Executed; and one that moves balances only after more accounts  *)
(* have voted for than against it.                                         *)
EffectsAuthorized == \A id \in Ids :
    /\ runs[id] = IF proposals[id].status = "Executed" THEN 1 ELSE 0
    /\ proposals[id].status \in {"Approved", "Executed"} =>
          \/ AutoApproved(proposals[id].action)
          \/ Cardinality(Ballots(id, TRUE)) > Cardinality(Ballots(id, FALSE))

(* However the history was trimmed, an account has performed an operation  *)
(* at most max_..._per_account times in any stretch as long as the window, *)
(* and the block's counter knows everybody who did so in this block.       *)
RateBounded == \A op \in Operations :
    /\ \A a \in Accounts : \A start \in 0 .. block :
          Cardinality({b \in log[op][a] : start <= b /\ b <= start + Window[op]}) <= PerAccount[op]
    /\ opsInBlock[op] = Cardinality({a \in Accounts : block \in log[op][a]})

(* What has been rejected or executed stays so, with its votes: neither a  *)
(* late vote nor the next epoch reopens it.                                *)
SettledForever ==
    [][\A id \in Ids : proposals[id].status \in {"Rejected", "Executed"} =>
          proposals'[id] = proposals[id] /\ ballots'[id] = ballots[id]]_vars

=============================================================================
