------------------------------ MODULE DcfEpochs ------------------------------
(***************************************************************************)
(* Epochs of pallet-cerulea-dcf on one chain: at a boundary block the      *)
(* epoch advances, the next author sequence is drawn and the voting        *)
(* weights of DVF are frozen; before it the scores that weigh the draw are *)
(* snapshotted; every block moves the finality markers, which may not pass *)
(* the head of DVF.  sudo_advance_epoch runs the inner transition alone.   *)
(*                                                                         *)
(* A sequence is kept as the set of validators it was drawn from: weights  *)
(* are at least 1, so each of them may be any author in it.  The seats and *)
(* the DVF head change by rules of their own (ValidatorRegistry,           *)
(* DvfPallet) and are arbitrary here, except that the head moves up and    *)
(* names a block that exists.                                              *)
(***************************************************************************)
EXTENDS Integers, FiniteSets

CONSTANTS
    Validators,
    EpochLength,        \* T::EpochLength and genesis.epoch_config.blocks_per_epoch
    SnapshotLead,       \* the 5 blocks between snapshot and boundary
    MaxBlock,           \* bound: the last block
    MaxAdvances         \* bound: how often sudo advances the epoch

ASSUME LengthAssumption == SnapshotLead \in Nat \ {0} /\ EpochLength \in Nat /\ SnapshotLead < EpochLength
ASSUME BoundsAssumption == MaxBlock \in Nat /\ MaxAdvances \in Nat

VARIABLES
    block,              \* the block in progress
    currentEpoch,       \* CurrentEpoch
    markers,            \* LastFinalizedBlock, PreviousFinalizedBlock, PreviousEpochBestBlock
    sequences,          \* EpochAuthorSequences
    snapshots,          \* the epochs with an EpochScoreSnapshot
    governanceMode,     \* GovernanceModeEnabled
    active,             \* ActiveValidators, of the registry
    frozen,             \* the validators with an EpochVotingWeight in DVF
    dvfHead,            \* FinalizedBlockNumber of DVF
    advances            \* history: the calls of sudo_advance_epoch

environment == <<active, dvfHead>>
vars == <<block, currentEpoch, markers, sequences, snapshots, governanceMode, frozen, advances, environment>>

-----------------------------------------------------------------------------

IsEpochBoundary(b) == b > 0 /\ b % EpochLength = 0

(* Mutant of Rejected: without the exception for the epoch in progress.    *)
RejectedPastBest(m, target, b, epoch) ==
    \/ target < m.last
    \/ target > b
    \/ m.best > 0 /\ target > m.best

(* validate_finality_advancement: no regression, nothing that does not     *)
(* exist yet, and past the best block of the previous epoch only within    *)
(* the epoch in progress.                                                  *)
Rejected(m, target, b, epoch) ==
    \/ target < m.last
    \/ target > b
    \/ m.best > 0 /\ target < epoch * EpochLength /\ target > m.best

(* Mutant of Capped: what DVF has finalized is not looked at.              *)
Uncapped(target, head) == IF head = 0 THEN 0 ELSE target

Capped(target, head) == IF target < head THEN target ELSE head

(* update_finality_markers, called for the block before b.                 *)
Updated(m, b, epoch) ==
    LET target == b - 1
        cap == Capped(target, dvfHead)
    IN  IF m.last >= target \/ Rejected(m, target, b, epoch) \/ cap = 0 \/ m.last >= cap
        THEN m
        ELSE [last |-> cap, previous |-> m.last, best |-> b]

(* on_initialize in block 1 when genesis left no marker, and progressive   *)
(* finalization from block 2 on.                                           *)
Progressed(m, b, epoch) ==
    IF b = 1
    THEN IF m.last = 0 THEN [last |-> 0, previous |-> 0, best |-> b] ELSE m
    ELSE Updated(m, b, epoch)

(* Mutant of BoundaryMarkers: the best block of the old epoch is not set.  *)
BoundaryMarkersWithoutBest(m, b, epoch) ==
    IF epoch > 1 THEN Updated(m, b, epoch) ELSE m

(* Mutant of BoundaryMarkers: the best block of the epoch before that.     *)
BoundaryMarkersOfOlderEpoch(m, b, epoch) ==
    LET closed == [m EXCEPT !.best = b - 1 - EpochLength]
    IN  IF epoch > 1 THEN Updated(closed, b, epoch) ELSE closed

(* The best block of the epoch that ended is the block before its boundary *)
(* block; finalize_previous_epoch then catches up, from the second epoch on. *)
BoundaryMarkers(m, b, epoch) ==
    LET closed == [m EXCEPT !.best = b - 1]
    IN  IF epoch > 1 THEN Updated(closed, b, epoch) ELSE closed

(* Mutant of SnapshotDue: the boundary the snapshot is for, not the one    *)
(* before its epoch.                                                       *)
SnapshotDueLate(b) == b = (currentEpoch + 2) * EpochLength - SnapshotLead

SnapshotDue(b) == b = (currentEpoch + 1) * EpochLength - SnapshotLead

(* Mutant of Stored: cached under the epoch that ends.                     *)
StoredEarly(epoch, seats) == [e \in DOMAIN sequences \cup {epoch - 1} |->
    IF e = epoch - 1 THEN seats ELSE sequences[e]]

Stored(epoch, seats) == [e \in DOMAIN sequences \cup {epoch} |->
    IF e = epoch THEN seats ELSE sequences[e]]

(* Mutant of ExpectedAuthors: the seats are read instead of the sequence.  *)
SeatedAuthors(b) == active

(* get_expected_author(b) at this state: a member of the sequence of b's   *)
(* epoch, else (none or an empty one) any seated validator by the legacy   *)
(* draw; nobody while no seat is taken.  A block's author is asked for     *)
(* before it is executed, at the state its parent leaves: a boundary       *)
(* block's own sequence is not there yet.                                  *)
ExpectedAuthors(b) ==
    LET epoch == b \div EpochLength
        drawn == epoch \in DOMAIN sequences /\ sequences[epoch] # {}
    IN  IF active = {} THEN {} ELSE IF drawn THEN sequences[epoch] ELSE active

-----------------------------------------------------------------------------

(* Genesis finalizes block 1 and draws the sequence of epoch 0.            *)
Init ==
    /\ block = 0
    /\ currentEpoch = 0
    /\ markers = [last |-> 1, previous |-> 0, best |-> 1]
    /\ active \in (SUBSET Validators) \ {{}}
    /\ sequences = [e \in {0} |-> active]
    /\ snapshots = {}
    /\ governanceMode = FALSE
    /\ frozen = active
    /\ dvfHead = 0
    /\ advances = 0

(* on_initialize of a boundary block.  Proposals and pending joins and     *)
(* leaves reseat the validators before the sequence is drawn.              *)
EnterEpoch(seats) ==
    /\ IsEpochBoundary(block + 1)
    /\ currentEpoch' = currentEpoch + 1
    /\ markers' = BoundaryMarkers(Progressed(markers, block + 1, currentEpoch), block + 1, currentEpoch')
    /\ active' = seats
    /\ sequences' = Stored(currentEpoch', seats)
    /\ frozen' = seats
    /\ UNCHANGED snapshots

(* on_initialize of any other block; the scores of authors and idlers that *)
(* it also updates are not modelled.                                       *)
StayInEpoch ==
    /\ ~IsEpochBoundary(block + 1)
    /\ markers' = Progressed(markers, block + 1, currentEpoch)
    /\ snapshots' = IF SnapshotDue(block + 1) THEN snapshots \cup {currentEpoch + 1} ELSE snapshots
    /\ UNCHANGED <<currentEpoch, sequences, frozen, active>>

NextBlock ==
    /\ block < MaxBlock
    /\ block' = block + 1
    /\ \/ \E seats \in SUBSET Validators : EnterEpoch(seats)
       \/ StayInEpoch
    /\ UNCHANGED <<governanceMode, dvfHead, advances>>

(* sudo_advance_epoch: the epoch and the seats, and nothing else.          *)
SudoAdvanceEpoch ==
    /\ governanceMode
    /\ block > 0
    /\ advances < MaxAdvances
    /\ advances' = advances + 1
    /\ currentEpoch' = currentEpoch + 1
    /\ active' \in SUBSET Validators
    /\ UNCHANGED <<block, markers, sequences, snapshots, governanceMode, frozen, dvfHead>>

SetGovernanceMode ==
    /\ block > 0
    /\ governanceMode' \in BOOLEAN
    /\ UNCHANGED <<block, currentEpoch, markers, sequences, snapshots, frozen, advances, environment>>

(* The registry's extrinsics and hooks within a block.                     *)
Reseat ==
    /\ active' \in SUBSET Validators
    /\ UNCHANGED <<block, currentEpoch, markers, sequences, snapshots, governanceMode, frozen, dvfHead, advances>>

(* A vote or a justification included in this block finalizes another one. *)
DvfFinalize ==
    /\ dvfHead' \in dvfHead + 1 .. block - 1
    /\ UNCHANGED <<block, currentEpoch, markers, sequences, snapshots, governanceMode, frozen, active, advances>>

Next ==
    \/ NextBlock
    \/ SudoAdvanceEpoch
    \/ SetGovernanceMode
    \/ Reseat
    \/ DvfFinalize

Spec == Init /\ [][Next]_vars

-----------------------------------------------------------------------------

TypeOK ==
    /\ block \in Nat
    /\ currentEpoch \in Nat
    /\ markers \in [last : Nat, previous : Nat, best : Nat]
    /\ active \in SUBSET Validators
    /\ DOMAIN sequences \in SUBSET Nat
    /\ \A e \in DOMAIN sequences : sequences[e] \in SUBSET Validators
    /\ snapshots \in SUBSET Nat
    /\ governanceMode \in BOOLEAN
    /\ frozen \in SUBSET Validators
    /\ dvfHead \in Nat
    /\ advances \in Nat

(* "DCF must not advance the hard finalized head past the last DVF         *)
(* checkpoint": beyond the block genesis wrote, the marker stays at or     *)
(* below the head of DVF, and behind the chain.                            *)
MarkersWithinDvf ==
    /\ markers.last > 1 => markers.last <= dvfHead /\ markers.last < block
    /\ markers.previous < markers.last

(* Until sudo advances an epoch the checks of validate_finality_advancement *)
(* never stop progressive finality: every block moves the marker to what   *)
(* DVF had finalized below it.                                             *)
FollowsDvf ==
    [][block' > block /\ block > 0 /\ advances = 0 =>
        markers'.last >= Capped(block, dvfHead)]_vars

(* However often sudo has advanced the epoch and so stopped progressive    *)
(* finality, a boundary block brings the marker up to DVF again.           *)
CatchesUpAtBoundary ==
    [][block' > block /\ IsEpochBoundary(block') /\ currentEpoch > 0 =>
        markers'.last >= Capped(block, dvfHead)]_vars

(* The chain is authored and finalized by the same electorate: until sudo  *)
(* advances an epoch, whoever may author the next block is one of the      *)
(* validators whose votes count in DVF, however the seats have changed     *)
(* since the boundary - unless it is a boundary block, which falls to the  *)
(* seats of the moment, voters or not.  All but the first epoch's sequence *)
(* was drawn by snapshotted scores.                                        *)
VotersAuthor ==
    advances = 0 =>
        /\ frozen # {} /\ ~IsEpochBoundary(block + 1) => ExpectedAuthors(block + 1) \subseteq frozen
        /\ currentEpoch > 0 => currentEpoch \in snapshots

(* A cached sequence is never rewritten, whichever way epochs advance: two *)
(* blocks of one epoch are judged by the same sequence.                    *)
SequencesFixed ==
    [][\A e \in DOMAIN sequences : e \in DOMAIN sequences' /\ sequences'[e] = sequences[e]]_vars

=============================================================================
