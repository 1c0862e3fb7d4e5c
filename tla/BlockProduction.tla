--------------------------- MODULE BlockProduction ---------------------------
(***************************************************************************)
(* How the authorities of the network build blocks and judge those of      *)
(* their peers.  Every authority runs the consensus loop (dcf.rs) and      *)
(* builds every block, in the name of the author the runtime expects; the  *)
(* import queue of a node (import_queue.rs) takes a peer's block if it     *)
(* names the author that the node's BEST block expects, and an own block   *)
(* unseen.  The loop reads the best block anew in each of its steps, while *)
(* the import queue moves it up - and DVF, which finalizes blocks in tasks *)
(* of its own, takes it to another fork, and down.                         *)
(*                                                                         *)
(* A block is the path from genesis to it; its last entry says who built   *)
(* it, in whose name, and which validators have a seat after it.  Slots    *)
(* and block times are left out: a step may happen at any time.            *)
(***************************************************************************)
EXTENDS Integers, FiniteSets, SequencesExt

CONSTANTS
    Nodes,
    Validators,
    EpochLength,
    MaxNumber,              \* bound: the height of the chain
    MaxFinal,               \* bound: the height up to which blocks get finalized
    Finalizing,             \* bound: the nodes that finalize blocks
    SeatChoices,            \* bound: the seats a block may leave
    Reseating,              \* bound: the heights of the blocks that change seats
    Failing,                \* bound: who falls back to an emergency block, at what height
    LegacyDraw(_, _),       \* get_expected_author_legacy: by seats and number
    RoundRobin(_, _),       \* fallback_author_selection: by seats and number
    GenesisDraw,            \* the author sequence of the first epoch
    NoAuthor,               \* the header of an emergency block names nobody
    Idle                    \* no task, or no block in the import queue

ASSUME EpochLengthAssumption == EpochLength \in Nat \ {0}
ASSUME MaxNumberAssumption == MaxNumber \in Nat
ASSUME SeatsAssumption == SeatChoices \subseteq SUBSET Validators
ASSUME NoAuthorAssumption == NoAuthor \notin Validators
ASSUME DrawAssumption ==
    \A seats \in SeatChoices \cup {Validators} : \A n \in 0 .. MaxNumber :
        seats # {} => LegacyDraw(seats, n) \in seats /\ RoundRobin(seats, n) \in seats

ASSUME GenesisDrawAssumption == GenesisDraw \in [0 .. EpochLength - 1 -> Validators]

VARIABLES
    imported,               \* the blocks a node has
    best,                   \* client.info()
    finalized,              \* client.info(), the finalized block
    task,                   \* where the consensus loop stands
    verified,               \* the block that the import queue has verified
    draws,                  \* EpochAuthorSequences, by what they are drawn from
    built                   \* history: the heights a node built since finality moved its best block

vars == <<imported, best, finalized, task, verified, draws, built>>

Genesis == <<>>

Seats(b) == IF b = Genesis THEN Validators ELSE Last(b).seats

(* The draw of an epoch is seeded by the parent of its boundary block and  *)
(* made among the seats after it, whoever builds that block.               *)
DrawnFrom(b, epoch) ==
    IF epoch = 0 THEN <<Genesis, Validators>>
    ELSE <<SubSeq(b, 1, epoch * EpochLength - 1), Seats(SubSeq(b, 1, epoch * EpochLength))>>

Draw(seats) == [0 .. EpochLength - 1 -> seats]

-----------------------------------------------------------------------------

(* The author of n, judged at b by the sequence of an epoch: it is known   *)
(* from the epoch's boundary block on, and the boundary block itself is    *)
(* drawn the old way.                                                      *)
AuthorInEpoch(b, n, epoch) ==
    CASE Seats(b) = {} -> NoAuthor
      [] Seats(b) # {} /\ epoch * EpochLength <= Len(b) /\ DrawnFrom(b, epoch)[2] # {}
            -> draws[DrawnFrom(b, epoch)][n % EpochLength]
      [] OTHER -> LegacyDraw(Seats(b), n)

(* Mutant of Expected: the epoch of the best block, not the one asked for. *)
ExpectedInEpochOfBest(b, n) == AuthorInEpoch(b, n, Len(b) \div EpochLength)

(* get_expected_author(b, n)                                               *)
Expected(b, n) == AuthorInEpoch(b, n, n \div EpochLength)

(* Mutant of ForkChoice: whatever was imported last is the best block.     *)
LatestChoice(old, b) == b

(* ForkChoiceStrategy::LongestChain                                        *)
ForkChoice(old, b) == IF Len(b) > Len(old) THEN b ELSE old

(* The client refuses a block that is no higher than what it has finalized *)
(* and one that would move its best block off the finalized chain.         *)
Importable(n, b) ==
    /\ Len(b) > Len(finalized[n])
    /\ ForkChoice(best[n], b) = b => IsPrefix(finalized[n], b)

Imports(n, b) ==
    /\ imported' = [imported EXCEPT ![n] = @ \cup {b}]
    /\ best' = [best EXCEPT ![n] = ForkChoice(@, b)]

-----------------------------------------------------------------------------

Init ==
    /\ imported = [n \in Nodes |-> {Genesis}]
    /\ best = [n \in Nodes |-> Genesis]
    /\ finalized = [n \in Nodes |-> Genesis]
    /\ built = [n \in Nodes |-> <<>>]
    /\ task = [n \in Nodes |-> Idle]
    /\ verified = [n \in Nodes |-> Idle]
    /\ draws = [from \in {DrawnFrom(Genesis, 0)} |-> GenesisDraw]

Becomes(n, next) == task' = [task EXCEPT ![n] = next]

(* run and select_next_author_from_runtime: the number to build and its    *)
(* author; an expected author without a seat is replaced by a round robin  *)
(* over the seats, and without any seat the slot is skipped.               *)
SelectAuthor(n) ==
    LET author == Expected(best[n], Len(best[n]) + 1)
    IN  /\ task[n] = Idle
        /\ Len(best[n]) < MaxNumber
        /\ author # NoAuthor
        /\ Becomes(n, [step |-> "guard", number |-> Len(best[n]) + 1, author |->
              IF author \in Seats(best[n]) THEN author ELSE RoundRobin(Seats(best[n]), Len(best[n]))])
        /\ UNCHANGED <<imported, best, finalized, verified, draws, built>>

(* Mutant of AlreadyBuilt: a best block one lower counts as well.          *)
ParentBuilt(n, number) == Len(best[n]) + 1 >= number

(* The double production guard.                                            *)
AlreadyBuilt(n, number) == Len(best[n]) >= number

Guard(n) ==
    /\ task[n] # Idle /\ task[n].step = "guard"
    /\ Becomes(n, IF AlreadyBuilt(n, task[n].number) THEN Idle
                  ELSE [step |-> "propose", author |-> task[n].author])
    /\ UNCHANGED <<imported, best, finalized, verified, draws, built>>

(* produce_block_with_validation and create_block_proposal read the number *)
(* anew and build on the best block there is by now; the author is still   *)
(* the one selected (validate_block_author refuses nobody).                *)
Propose(n) ==
    /\ task[n] # Idle /\ task[n].step = "propose"
    /\ Becomes(n, [step |-> "import", author |-> task[n].author, parent |-> best[n]])
    /\ UNCHANGED <<imported, best, finalized, verified, draws, built>>

(* Neither a block nor an emergency block can be built, or the best block  *)
(* moved between the two reads and the number does not fit.                *)
Fail(n) ==
    /\ task[n] # Idle /\ task[n].step = "propose"
    /\ Becomes(n, Idle)
    /\ UNCHANGED <<imported, best, finalized, verified, draws, built>>

Built(n, author, seats) == Append(task[n].parent, [maker |-> n, author |-> author, seats |-> seats])

(* What a block makes of the seats (run_active_set_selection, and what the *)
(* calls in the block do).                                                 *)
SeatsAfter(parent) == IF Len(parent) + 1 \in Reseating THEN SeatChoices ELSE {Seats(parent)}

IsBoundary(b) == Len(b) % EpochLength = 0

(* import_consensus_block: own blocks pass no verification.  An emergency  *)
(* block has no author in its header.                                      *)
ImportOwn(n) ==
    /\ task[n] # Idle /\ task[n].step = "import"
    /\ \E author \in {task[n].author} \cup (IF <<n, Len(task[n].parent) + 1>> \in Failing THEN {NoAuthor} ELSE {}) :
       \E seats \in SeatsAfter(task[n].parent) :
          LET b == Built(n, author, seats)
              from == DrawnFrom(b, Len(b) \div EpochLength)
          IN  /\ Importable(n, b)
              /\ Imports(n, b)
              /\ built' = [built EXCEPT ![n] = Append(@, Len(b))]
              /\ IF IsBoundary(b) /\ seats # {} /\ from \notin DOMAIN draws
                 THEN \E sequence \in Draw(seats) :
                        draws' = [f \in DOMAIN draws \cup {from} |-> IF f = from THEN sequence ELSE draws[f]]
                 ELSE UNCHANGED draws
    /\ Becomes(n, Idle)
    /\ UNCHANGED <<finalized, verified>>

(* The client refuses the own block: its parent is off what was finalized  *)
(* while the block was built.                                              *)
RefusedOwn(n) ==
    /\ task[n] # Idle /\ task[n].step = "import"
    /\ \A seats \in SeatsAfter(task[n].parent) : ~Importable(n, Built(n, task[n].author, seats))
    /\ Becomes(n, Idle)
    /\ UNCHANGED <<imported, best, finalized, verified, draws, built>>

(* A peer's block that is new here and whose parent is not.                *)
Received(n, b) ==
    /\ b \in UNION {imported[m] : m \in Nodes}
    /\ b \notin imported[n]
    /\ Front(b) \in imported[n]

(* Verifier::verify *)
Accepts(n, b) ==
    /\ Seats(best[n]) # {}
    /\ Last(b).author # NoAuthor
    /\ Last(b).author = Expected(best[n], Len(b))

Verify(n, b) ==
    /\ verified[n] = Idle
    /\ Received(n, b)
    /\ Accepts(n, b)
    /\ verified' = [verified EXCEPT ![n] = b]
    /\ UNCHANGED <<imported, best, finalized, task, draws, built>>

ImportPeers(n) ==
    /\ verified[n] # Idle
    /\ IF Importable(n, verified[n]) THEN Imports(n, verified[n]) ELSE UNCHANGED <<imported, best>>
    /\ verified' = [verified EXCEPT ![n] = Idle]
    /\ UNCHANGED <<finalized, task, draws, built>>

(* The client finalizes a descendant of what it has finalized.  A block    *)
(* that is not on the chain of the best one becomes the best itself, which *)
(* may be a lower one, and none of its descendants is preferred to it.     *)
Finalizes(n, b) ==
    /\ finalized' = [finalized EXCEPT ![n] = b]
    /\ IF IsPrefix(b, best[n])
       THEN UNCHANGED <<best, built>>
       ELSE /\ best' = [best EXCEPT ![n] = b]
            /\ built' = [built EXCEPT ![n] = <<>>]

(* finalize_block, by the vote aggregator or by the finality sync: any     *)
(* block the node has, which DVF has to agree on (DvfVoting).              *)
Finalize(n, b) ==
    /\ n \in Finalizing /\ Len(b) <= MaxFinal
    /\ b \in imported[n] \ {finalized[n]}
    /\ IsPrefix(finalized[n], b)
    /\ Finalizes(n, b)
    /\ UNCHANGED <<imported, task, verified, draws>>

Loop(n) ==
    \/ SelectAuthor(n)
    \/ Guard(n)
    \/ Propose(n)
    \/ Fail(n)
    \/ ImportOwn(n)
    \/ RefusedOwn(n)

Next == \E n \in Nodes :
    \/ Loop(n)
    \/ \E b \in UNION {imported[m] : m \in Nodes} : Verify(n, b)
    \/ ImportPeers(n)
    \/ \E b \in imported[n] : Finalize(n, b)

(* The loop and the import queue are tasks of the node that keep running;  *)
(* building a block does not fail for ever.                                *)
Fairness == \A n \in Nodes : WF_vars(Loop(n)) /\ SF_vars(Propose(n)) /\ WF_vars(ImportPeers(n))

Spec == Init /\ [][Next]_vars

FairSpec == Spec /\ Fairness

-----------------------------------------------------------------------------

(* The blocks that are about.                                              *)
Blocks == UNION {imported[n] : n \in Nodes}

(* However the loop, the import queue and the tasks that finalize          *)
(* interleave, a node builds a second block of a height for one reason     *)
(* only: finality has moved its best block to another fork in between.     *)
(* Every authority builds every block, and this is what keeps them from    *)
(* flooding the network with forks of their own.                           *)
OneBlockPerHeight == \A n \in Nodes : IsInjective(built[n])

(* A block in the name of the author its parent expects.                   *)
Regular(b) == Last(b).author = Expected(Front(b), Len(b))

(* Within an epoch the nodes agree on the author of a number, however far  *)
(* apart their best blocks are and whoever has lost a seat since: a        *)
(* regular block is refused by nobody that has its parent and is on a      *)
(* chain of the same draw.  A node without that draw draws the old way,    *)
(* by the seats of its own best block: when the epoch began without any    *)
(* seat, or when finality has set the node back to the epoch before.       *)
AuthorsAgreeInEpoch ==
    \A n \in Nodes, b \in Blocks :
        LET epoch == Len(b) \div EpochLength
        IN  /\ Received(n, b)
            /\ Regular(b) /\ ~IsBoundary(b)
            /\ Seats(best[n]) # {} /\ Seats(Front(b)) # {}
            /\ epoch * EpochLength <= Len(best[n])
            /\ DrawnFrom(best[n], epoch) = DrawnFrom(b, epoch)
            /\ DrawnFrom(b, epoch)[2] # {}
            => Accepts(n, b)

(* The races between the loop, the import queue and finality cost slots    *)
(* and never stop the chain of a node.                                     *)
ChainGrows == <>(\A n \in Nodes : Len(best[n]) >= MaxNumber)

=============================================================================
