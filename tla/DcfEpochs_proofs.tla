--------------------------- MODULE DcfEpochs_proofs ---------------------------
(***************************************************************************)
(* Proofs about the epochs of the DCF pallet and the scores that their     *)
(* boundaries compute.                                                     *)
(*                                                                         *)
(* About DcfEpochs: the types, the finality markers against the head of    *)
(* DVF, the electorate of the author sequences, and the sequences that are *)
(* never rewritten, for every epoch length and any number of epochs        *)
(* advanced by sudo.  About ValidatorScores: idleness, the seats of the    *)
(* fit and that somebody is fit, for any accounts, stakes and weights.     *)
(***************************************************************************)
EXTENDS DcfEpochs, ValidatorScores, VoteWeights_proofs

-----------------------------------------------------------------------------

(* The epoch of a block by its position between two boundaries.            *)
LEMMA EpochBounds ==
    ASSUME NEW b \in Nat
    PROVE  /\ b \div EpochLength \in Nat
           /\ (b \div EpochLength) * EpochLength <= b
           /\ b < (b \div EpochLength) * EpochLength + EpochLength
BY LengthAssumption

(* Only one epoch contains a block.                                        *)
LEMMA EpochUnique ==
    ASSUME NEW b \in Nat, NEW e \in Nat,
           e * EpochLength <= b, b < e * EpochLength + EpochLength
    PROVE  b \div EpochLength = e
BY LengthAssumption

(* A boundary block is the first block of its epoch.                       *)
LEMMA BoundaryIsStart ==
    ASSUME NEW b \in Nat
    PROVE  b % EpochLength = 0 <=> b = (b \div EpochLength) * EpochLength
BY LengthAssumption

-----------------------------------------------------------------------------

Marks == [last : Nat, previous : Nat, best : Nat]

(* What every update keeps: the marker never falls, and whatever it newly  *)
(* reaches DVF has finalized.                                              *)
Advanced(m, n) ==
    /\ n \in Marks
    /\ m.last <= n.last
    /\ \/ n.last = m.last /\ n.previous = m.previous
       \/ n.last <= dvfHead /\ n.previous < n.last

LEMMA UpdateAdvances ==
    ASSUME NEW m \in Marks, NEW b \in Nat \ {0}, NEW epoch \in Nat, dvfHead \in Nat
    PROVE  Advanced(m, Updated(m, b, epoch))
<1> DEFINE cap == Capped(b - 1, dvfHead)
<1>1. cap \in Nat /\ cap <= dvfHead
    BY DEF Capped
<1>2. CASE Updated(m, b, epoch) = m
    BY <1>2 DEF Advanced, Marks
<1>3. CASE Updated(m, b, epoch) # m
  <2>1. Updated(m, b, epoch) = [last |-> cap, previous |-> m.last, best |-> b] /\ ~(m.last >= cap)
      BY <1>3 DEF Updated
  <2>2. m.last < cap
      BY <1>1, <2>1 DEF Marks
  <2> HIDE DEF cap
  <2> QED  BY <1>1, <2>1, <2>2 DEF Advanced, Marks
<1> QED  BY <1>2, <1>3

(* An update that nothing rejects reaches what DVF has finalized below b.  *)
LEMMA UpdateReaches ==
    ASSUME NEW m \in Marks, NEW b \in Nat \ {0}, NEW epoch \in Nat, dvfHead \in Nat,
           b - 1 >= epoch * EpochLength \/ b - 1 <= m.best
    PROVE  Updated(m, b, epoch).last >= Capped(b - 1, dvfHead)
<1> DEFINE start == epoch * EpochLength
           cap == Capped(b - 1, dvfHead)
<1>1. start \in Nat
    BY LengthAssumption
<1>2. cap \in Nat /\ cap <= b - 1
    BY DEF Capped
<1>3. CASE m.last >= b - 1 \/ m.last >= cap \/ cap = 0
  <2>1. Updated(m, b, epoch) = m
      BY <1>3 DEF Updated
  <2> QED  BY <1>2, <1>3, <2>1 DEF Marks
<1>4. CASE ~(m.last >= b - 1 \/ m.last >= cap \/ cap = 0)
  <2>1. ~Rejected(m, b - 1, b, epoch)
    <3>1. m.last < b - 1
        BY <1>4 DEF Marks
    <3>2. ~(b - 1 < start /\ b - 1 > m.best)
        BY <1>1 DEF Marks
    <3> QED  BY <3>1, <3>2 DEF Rejected, Marks
  <2>2. Updated(m, b, epoch).last = cap
      BY <1>4, <2>1 DEF Updated
  <2> QED  BY <1>2, <2>2
<1> QED  BY <1>3, <1>4

LEMMA ProgressAdvances ==
    ASSUME NEW m \in Marks, NEW b \in Nat \ {0}, NEW epoch \in Nat, dvfHead \in Nat,
           m.last # 0
    PROVE  Advanced(m, Progressed(m, b, epoch))
<1>1. CASE b = 1
    BY <1>1 DEF Progressed, Advanced, Marks
<1>2. CASE b # 1
    BY <1>2, UpdateAdvances DEF Progressed
<1> QED  BY <1>1, <1>2

LEMMA BoundaryAdvances ==
    ASSUME NEW m \in Marks, NEW b \in Nat \ {0}, NEW epoch \in Nat, dvfHead \in Nat
    PROVE  Advanced(m, BoundaryMarkers(m, b, epoch))
<1> DEFINE closed == [m EXCEPT !.best = b - 1]
<1>1. closed \in Marks /\ closed.last = m.last /\ closed.previous = m.previous
    BY DEF Marks
<1>2. Advanced(closed, closed)
    BY <1>1 DEF Advanced, Marks
<1>3. Advanced(closed, Updated(closed, b, epoch))
    BY <1>1, UpdateAdvances
<1>4. BoundaryMarkers(m, b, epoch) \in {closed, Updated(closed, b, epoch)}
    BY DEF BoundaryMarkers
<1> HIDE DEF closed
<1> QED  BY <1>1, <1>2, <1>3, <1>4 DEF Advanced

LEMMA AdvancedTwice ==
    ASSUME NEW m \in Marks, NEW n, NEW o, Advanced(m, n), Advanced(n, o), dvfHead \in Nat
    PROVE  Advanced(m, o)
BY DEF Advanced, Marks

-----------------------------------------------------------------------------

HeadBehindChain == dvfHead = 0 \/ dvfHead < block

MarkersAgree ==
    /\ markers.last >= 1
    /\ markers.last = 1 \/ markers.last <= dvfHead
    /\ markers.previous < markers.last

SequencesPast == DOMAIN sequences \subseteq 0 .. currentEpoch

(* Without sudo, the epoch is that of the block, its sequence was drawn    *)
(* from the voters, and the snapshots are taken ahead.                     *)
EpochsInStep ==
    advances = 0 =>
        /\ currentEpoch * EpochLength <= block
        /\ block < currentEpoch * EpochLength + EpochLength
        /\ currentEpoch \in DOMAIN sequences
        /\ sequences[currentEpoch] = frozen
        /\ currentEpoch > 0 => currentEpoch \in snapshots
        /\ block >= currentEpoch * EpochLength + EpochLength - SnapshotLead => currentEpoch + 1 \in snapshots

Inv == TypeOK /\ HeadBehindChain /\ MarkersAgree /\ SequencesPast /\ EpochsInStep

LEMMA InitInv == Init => Inv
<1> SUFFICES ASSUME Init PROVE Inv
    OBVIOUS
<1>1. TypeOK
  <2>1. DOMAIN sequences = {0} /\ sequences[0] = active
      BY DEF Init
  <2>2. active \in SUBSET Validators /\ DOMAIN sequences \in SUBSET Nat
      BY <2>1 DEF Init
  <2>3. \A e \in DOMAIN sequences : sequences[e] \in SUBSET Validators
      BY <2>1, <2>2
  <2> QED  BY <2>2, <2>3 DEF Init, TypeOK
<1>2. HeadBehindChain /\ MarkersAgree /\ SequencesPast
    BY DEF Init, HeadBehindChain, MarkersAgree, SequencesPast
<1>3. EpochsInStep
  <2>1. 0 * EpochLength = 0
      BY LengthAssumption
  <2> QED  BY <2>1, LengthAssumption DEF Init, EpochsInStep
<1> QED  BY <1>1, <1>2, <1>3 DEF Inv

(* The markers after the block that follows.                               *)
LEMMA NextMarkers ==
    ASSUME Inv, NextBlock
    PROVE  Advanced(markers, markers')
<1> DEFINE b == block + 1
           m == Progressed(markers, b, currentEpoch)
<1>1. markers \in Marks /\ b \in Nat \ {0} /\ currentEpoch \in Nat /\ dvfHead \in Nat /\ markers.last # 0
    BY DEF Inv, TypeOK, MarkersAgree, Marks
<1>2. Advanced(markers, m)
    BY <1>1, ProgressAdvances
<1>3. CASE StayInEpoch
    BY <1>2, <1>3 DEF StayInEpoch
<1>4. CASE \E chosen \in SUBSET Validators : EnterEpoch(chosen)
  <2>1. m \in Marks
      BY <1>2 DEF Advanced
  <2>2. markers' = BoundaryMarkers(m, b, currentEpoch + 1)
      BY <1>4 DEF EnterEpoch
  <2>3. Advanced(m, markers')
      BY <1>1, <2>1, <2>2, BoundaryAdvances
  <2> HIDE DEF m
  <2> QED  BY <1>1, <1>2, <2>3, AdvancedTwice
<1> QED  BY <1>3, <1>4 DEF NextBlock

LEMMA AdvanceKeepsMarkers ==
    ASSUME Inv, Advanced(markers, markers'), dvfHead' = dvfHead
    PROVE  markers' \in Marks /\ MarkersAgree'
BY DEF Inv, TypeOK, MarkersAgree, Advanced, Marks

-----------------------------------------------------------------------------

(* A boundary block without sudo: the block ends the epoch in progress and *)
(* starts the next one.                                                    *)
LEMMA BoundaryStep ==
    ASSUME Inv, advances = 0
    PROVE  /\ IsEpochBoundary(block + 1) => block + 1 = (currentEpoch + 1) * EpochLength
           /\ ~IsEpochBoundary(block + 1) => block + 1 < currentEpoch * EpochLength + EpochLength
<1> DEFINE b == block + 1
           start == currentEpoch * EpochLength
<1>1. b \in Nat /\ currentEpoch \in Nat /\ start \in Nat /\ EpochLength \in Nat /\ EpochLength > 1
    BY LengthAssumption DEF Inv, TypeOK
<1>2. start < b /\ b <= start + EpochLength
  <2>1. currentEpoch * EpochLength <= block /\ block < currentEpoch * EpochLength + EpochLength
      BY DEF Inv, EpochsInStep
  <2>2. block \in Nat /\ start \in Nat /\ EpochLength \in Nat
      BY <1>1 DEF Inv, TypeOK
  <2> QED  BY <2>1, <2>2
<1>3. (currentEpoch + 1) * EpochLength = start + EpochLength
    BY <1>1
<1>4. CASE b = start + EpochLength
  <2>1. b \div EpochLength = currentEpoch + 1
    <3>1. currentEpoch + 1 \in Nat /\ (currentEpoch + 1) * EpochLength <= b
        BY <1>1, <1>3, <1>4
    <3>2. b < (currentEpoch + 1) * EpochLength + EpochLength
        BY <1>1, <1>3, <1>4
    <3> QED  BY <1>1, <3>1, <3>2, EpochUnique
  <2>2. IsEpochBoundary(b)
      BY <1>1, <1>3, <1>4, <2>1, BoundaryIsStart DEF IsEpochBoundary
  <2> QED  BY <1>3, <1>4, <2>2
<1>5. CASE b < start + EpochLength
  <2>1. b \div EpochLength = currentEpoch
      BY <1>1, <1>2, <1>5, EpochUnique
  <2>2. ~IsEpochBoundary(b)
    <3>1. b # start
        BY <1>1, <1>2
    <3> QED  BY <1>1, <2>1, <3>1, BoundaryIsStart DEF IsEpochBoundary
  <2> QED  BY <1>5, <2>2
<1>6. b = start + EpochLength \/ b < start + EpochLength
    BY <1>1, <1>2
<1> QED  BY <1>4, <1>5, <1>6

LEMMA NextBlockInv == Inv /\ NextBlock => Inv'
<1> SUFFICES ASSUME Inv, NextBlock PROVE Inv'
    OBVIOUS
<1> DEFINE L == EpochLength
<1>1. block \in Nat /\ block' = block + 1 /\ dvfHead' = dvfHead /\ advances' = advances /\ dvfHead \in Nat
    BY DEF Inv, TypeOK, NextBlock
<1>2. markers' \in Marks /\ MarkersAgree'
    BY <1>1, NextMarkers, AdvanceKeepsMarkers
<1>3. HeadBehindChain'
    BY <1>1 DEF Inv, HeadBehindChain
<1>4. CASE \E chosen \in SUBSET Validators : EnterEpoch(chosen)
  <2>1. PICK chosen \in SUBSET Validators : EnterEpoch(chosen)
      BY <1>4
  <2>2. /\ currentEpoch' = currentEpoch + 1 /\ currentEpoch \in Nat
        /\ DOMAIN sequences' = DOMAIN sequences \cup {currentEpoch'}
        /\ sequences'[currentEpoch'] = chosen
        /\ frozen' = chosen /\ active' = chosen
        /\ snapshots' = snapshots
        /\ IsEpochBoundary(block + 1)
      BY <2>1 DEF EnterEpoch, Stored, Inv, TypeOK
  <2>3. TypeOK'
    <3>1. \A e \in DOMAIN sequences' : sequences'[e] \in SUBSET Validators
        BY <2>1 DEF EnterEpoch, Stored, Inv, TypeOK
    <3> QED  BY <1>1, <1>2, <2>2, <3>1 DEF Inv, TypeOK, NextBlock, Marks
  <2>4. SequencesPast'
      BY <2>2 DEF Inv, TypeOK, SequencesPast
  <2>5. ASSUME advances' = 0
        PROVE  /\ currentEpoch' * L <= block' /\ block' < currentEpoch' * L + L
               /\ currentEpoch' \in DOMAIN sequences' /\ sequences'[currentEpoch'] = frozen'
               /\ currentEpoch' \in snapshots'
               /\ ~(block' >= currentEpoch' * L + L - SnapshotLead)
    <3>1. block' = currentEpoch' * L
        BY <1>1, <2>2, <2>5, BoundaryStep
    <3>2. block + 1 = currentEpoch * L + L
      <4>1. (currentEpoch + 1) * L = currentEpoch * L + L
          BY <2>2, LengthAssumption
      <4> QED  BY <1>1, <2>2, <3>1, <4>1
    <3>3. currentEpoch + 1 \in snapshots
      <4>1. block >= currentEpoch * L + L - SnapshotLead
        <5>1. currentEpoch * L \in Nat /\ L \in Nat
            BY <2>2, LengthAssumption
        <5> QED  BY <1>1, <3>2, <5>1, LengthAssumption
      <4> QED  BY <1>1, <2>5, <4>1 DEF Inv, EpochsInStep
    <3>4. ~(block' >= currentEpoch' * L + L - SnapshotLead) /\ block' < currentEpoch' * L + L
        BY <1>1, <3>1, LengthAssumption
    <3> QED  BY <1>1, <2>2, <3>1, <3>3, <3>4
  <2>6. EpochsInStep'
      BY <2>5 DEF EpochsInStep
  <2> QED  BY <1>2, <1>3, <2>3, <2>4, <2>6 DEF Inv
<1>5. CASE StayInEpoch
  <2>1. /\ currentEpoch' = currentEpoch /\ sequences' = sequences
        /\ frozen' = frozen /\ active' = active
        /\ snapshots \subseteq snapshots'
        /\ SnapshotDue(block + 1) => currentEpoch + 1 \in snapshots'
        /\ ~IsEpochBoundary(block + 1)
        /\ currentEpoch \in Nat
    <3>1. /\ currentEpoch' = currentEpoch /\ sequences' = sequences
          /\ frozen' = frozen /\ active' = active
        BY <1>5 DEF StayInEpoch
    <3>2. snapshots \subseteq snapshots' /\ (SnapshotDue(block + 1) => currentEpoch + 1 \in snapshots')
        BY <1>5 DEF StayInEpoch
    <3>3. ~IsEpochBoundary(block + 1) /\ currentEpoch \in Nat
        BY <1>5 DEF StayInEpoch, Inv, TypeOK
    <3> QED  BY <3>1, <3>2, <3>3
  <2>2. snapshots' \in SUBSET Nat
    <3>1. snapshots \in SUBSET Nat /\ currentEpoch + 1 \in Nat
        BY DEF Inv, TypeOK
    <3> QED  BY <1>5, <3>1 DEF StayInEpoch
  <2>3. TypeOK'
      BY <1>1, <1>2, <2>1, <2>2 DEF Inv, TypeOK, NextBlock, Marks
  <2>4. SequencesPast'
      BY <2>1 DEF Inv, SequencesPast
  <2>5. ASSUME advances' = 0
        PROVE  /\ currentEpoch * L <= block + 1 /\ block + 1 < currentEpoch * L + L
               /\ block + 1 >= currentEpoch * L + L - SnapshotLead => currentEpoch + 1 \in snapshots'
    <3>1. currentEpoch * L \in Nat /\ L \in Nat /\ SnapshotLead \in Nat
        BY <2>1, LengthAssumption
    <3>2. currentEpoch * L <= block + 1 /\ block + 1 < currentEpoch * L + L
        BY <1>1, <2>1, <2>5, <3>1, BoundaryStep DEF Inv, EpochsInStep
    <3>3. CASE block >= currentEpoch * L + L - SnapshotLead
        BY <1>1, <2>1, <2>5, <3>2, <3>3 DEF Inv, EpochsInStep
    <3>4. CASE block + 1 = currentEpoch * L + L - SnapshotLead
      <4>1. (currentEpoch + 1) * L = currentEpoch * L + L
          BY <2>1, LengthAssumption
      <4>2. SnapshotDue(block + 1)
        <5> DEFINE n == (currentEpoch + 1) * L
        <5>1. n = currentEpoch * L + L
            BY <4>1
        <5>2. n - SnapshotLead = block + 1
            BY <1>1, <3>1, <3>4, <5>1
        <5> QED  BY <5>2 DEF SnapshotDue
      <4> QED  BY <2>1, <3>2, <4>2
    <3>5. CASE block + 1 < currentEpoch * L + L - SnapshotLead
        BY <1>1, <3>1, <3>2, <3>5
    <3> QED  BY <1>1, <3>1, <3>2, <3>3, <3>4, <3>5
  <2>6. EpochsInStep'
      BY <1>1, <2>1, <2>5 DEF EpochsInStep, Inv
  <2> QED  BY <1>2, <1>3, <2>3, <2>4, <2>6 DEF Inv
<1> QED  BY <1>4, <1>5 DEF NextBlock

LEMMA SudoInv == Inv /\ SudoAdvanceEpoch => Inv'
<1> SUFFICES ASSUME Inv, SudoAdvanceEpoch PROVE Inv'
    OBVIOUS
<1>1. TypeOK' /\ HeadBehindChain' /\ MarkersAgree' /\ SequencesPast'
    BY DEF Inv, SudoAdvanceEpoch, TypeOK, HeadBehindChain, MarkersAgree, SequencesPast
<1>2. advances' # 0
    BY DEF Inv, TypeOK, SudoAdvanceEpoch
<1> QED  BY <1>1, <1>2 DEF Inv, EpochsInStep

(* The other actions touch neither epochs nor markers.                     *)
LEMMA OtherInv ==
    ASSUME Inv, SetGovernanceMode \/ Reseat \/ DvfFinalize \/ UNCHANGED vars
    PROVE  Inv'
<1>1. TypeOK'
  <2>1. CASE SetGovernanceMode
      BY <2>1 DEF Inv, TypeOK, SetGovernanceMode, environment
  <2>2. CASE Reseat
      BY <2>2 DEF Inv, TypeOK, Reseat
  <2>3. CASE DvfFinalize
    <3>1. dvfHead' \in Nat
        BY <2>3 DEF Inv, TypeOK, DvfFinalize
    <3> QED  BY <2>3, <3>1 DEF Inv, TypeOK, DvfFinalize
  <2>4. CASE UNCHANGED vars
      BY <2>4 DEF Inv, TypeOK, vars, environment
  <2> QED  BY <2>1, <2>2, <2>3, <2>4
<1>2. HeadBehindChain' /\ MarkersAgree'
  <2>1. dvfHead <= dvfHead' /\ block' = block /\ markers' = markers /\ (dvfHead' = dvfHead \/ dvfHead' < block)
      BY DEF Inv, TypeOK, SetGovernanceMode, Reseat, DvfFinalize, vars, environment
  <2> QED  BY <1>1, <2>1 DEF Inv, TypeOK, HeadBehindChain, MarkersAgree
<1>3. /\ block' = block /\ currentEpoch' = currentEpoch /\ sequences' = sequences
      /\ frozen' = frozen /\ snapshots' = snapshots /\ advances' = advances
    BY DEF SetGovernanceMode, Reseat, DvfFinalize, vars, environment
<1>4. SequencesPast' /\ EpochsInStep'
    BY <1>3 DEF Inv, SequencesPast, EpochsInStep
<1> QED  BY <1>1, <1>2, <1>4 DEF Inv

LEMMA StepInv == Inv /\ [Next]_vars => Inv'
BY NextBlockInv, SudoInv, OtherInv DEF Next

THEOREM Invariance == Spec => []Inv
BY InitInv, StepInv, PTL DEF Spec

-----------------------------------------------------------------------------

(* Every storage item keeps its type.                                      *)
THEOREM TypeCorrect == Spec => []TypeOK
<1>1. Inv => TypeOK
    BY DEF Inv
<1> QED  BY <1>1, Invariance, PTL

(* DCF never calls a block final before DVF did, save the block genesis    *)
(* wrote, and no block that is still being built.                          *)
THEOREM MarkersStayWithinDvf == Spec => []MarkersWithinDvf
<1>1. Inv => MarkersWithinDvf
    BY DEF Inv, TypeOK, HeadBehindChain, MarkersAgree, MarkersWithinDvf
<1> QED  BY <1>1, Invariance, PTL

(* Until sudo advances an epoch, the authors of every block but the        *)
(* boundary blocks are validators whose votes count, drawn by snapshotted  *)
(* scores: no change of the seats within the epoch can alter that.         *)
THEOREM AuthorsAreVoters == Spec => []VotersAuthor
<1>1. ASSUME Inv PROVE VotersAuthor
  <2>1. SUFFICES ASSUME advances = 0
                 PROVE  /\ frozen # {} /\ ~IsEpochBoundary(block + 1)
                              => ExpectedAuthors(block + 1) \subseteq frozen
                        /\ currentEpoch > 0 => currentEpoch \in snapshots
      BY DEF VotersAuthor
  <2>2. ~IsEpochBoundary(block + 1) => (block + 1) \div EpochLength = currentEpoch
    <3> SUFFICES ASSUME ~IsEpochBoundary(block + 1)
                 PROVE  (block + 1) \div EpochLength = currentEpoch
        OBVIOUS
    <3>1. block + 1 < currentEpoch * EpochLength + EpochLength
        BY <1>1, <2>1, BoundaryStep
    <3>2. block + 1 \in Nat /\ currentEpoch \in Nat
        BY <1>1 DEF Inv, TypeOK
    <3>3. currentEpoch * EpochLength <= block + 1
      <4>1. currentEpoch * EpochLength <= block
          BY <1>1, <2>1 DEF Inv, EpochsInStep
      <4>2. currentEpoch * EpochLength \in Nat /\ block \in Nat
          BY <1>1, <3>2, LengthAssumption DEF Inv, TypeOK
      <4> QED  BY <4>1, <4>2
    <3> QED  BY <3>1, <3>2, <3>3, EpochUnique
  <2>3. currentEpoch \in DOMAIN sequences /\ sequences[currentEpoch] = frozen
      BY <1>1, <2>1 DEF Inv, EpochsInStep
  <2>4. frozen # {} /\ ~IsEpochBoundary(block + 1) => ExpectedAuthors(block + 1) \subseteq frozen
    <3>1. CASE active = {}
        BY <3>1 DEF ExpectedAuthors
    <3>2. CASE active # {} /\ frozen # {}
        BY <2>2, <2>3, <3>2 DEF ExpectedAuthors
    <3> QED  BY <3>1, <3>2
  <2> QED  BY <1>1, <2>1, <2>4 DEF Inv, EpochsInStep
<1> QED  BY <1>1, Invariance, PTL

(* A cached author sequence is never rewritten.                            *)
THEOREM SequencesStayFixed == Spec => SequencesFixed
<1> DEFINE Fixed == \A e \in DOMAIN sequences : e \in DOMAIN sequences' /\ sequences'[e] = sequences[e]
<1>1. ASSUME Inv, [Next]_vars PROVE Fixed
  <2>1. CASE sequences' = sequences
      BY <2>1
  <2>2. CASE NextBlock
    <3>1. CASE \E chosen \in SUBSET Validators : EnterEpoch(chosen)
      <4>1. PICK chosen : sequences' = Stored(currentEpoch', chosen) /\ currentEpoch' = currentEpoch + 1
          BY <3>1 DEF EnterEpoch
      <4>2. currentEpoch' \notin DOMAIN sequences
          BY <1>1, <4>1 DEF Inv, TypeOK, SequencesPast
      <4> QED  BY <4>1, <4>2 DEF Stored
    <3>2. CASE StayInEpoch
        BY <2>1, <3>2 DEF StayInEpoch
    <3> QED  BY <2>2, <3>1, <3>2 DEF NextBlock
  <2> QED
      BY <1>1, <2>1, <2>2 DEF Next, SudoAdvanceEpoch, SetGovernanceMode, Reseat, DvfFinalize, vars
<1>2. ASSUME Inv, [Next]_vars PROVE [Fixed]_vars
    BY <1>1, <1>2
<1> HIDE DEF Fixed
<1>3. Spec => [][Fixed]_vars
    BY <1>2, Invariance, PTL DEF Spec
<1> QED  BY <1>3 DEF SequencesFixed, Fixed

(* Until sudo advances an epoch, the marker follows DVF block by block.    *)
THEOREM MarkersFollowDvf == Spec => FollowsDvf
<1> DEFINE Follows == block' > block /\ block > 0 /\ advances = 0 =>
                        markers'.last >= Capped(block, dvfHead)
<1>1. ASSUME Inv, [Next]_vars PROVE Follows
  <2> SUFFICES ASSUME NextBlock, block > 0, advances = 0
               PROVE  markers'.last >= Capped(block, dvfHead)
    <3>1. NextBlock \/ ~(block' > block)
        BY <1>1 DEF Inv, TypeOK, Next, SudoAdvanceEpoch, SetGovernanceMode, Reseat, DvfFinalize, vars
    <3> QED  BY <3>1
  <2> DEFINE b == block + 1
             m == Progressed(markers, b, currentEpoch)
  <2>1. b \in Nat \ {0} /\ b # 1 /\ b - 1 = block /\ currentEpoch \in Nat /\ dvfHead \in Nat /\ markers \in Marks
      BY <1>1 DEF Inv, TypeOK, Marks
  <2>2. m.last >= Capped(block, dvfHead)
    <3>1. block >= currentEpoch * EpochLength
      <4>1. currentEpoch * EpochLength \in Nat /\ currentEpoch * EpochLength <= block
          BY <1>1, <2>1, LengthAssumption DEF Inv, EpochsInStep
      <4> QED  BY <2>1, <4>1 DEF Inv, TypeOK
    <3>2. m = Updated(markers, b, currentEpoch)
        BY <2>1 DEF Progressed
    <3> HIDE DEF m, b
    <3> QED  BY <2>1, <3>1, <3>2, UpdateReaches
  <2>3. CASE StayInEpoch
      BY <2>2, <2>3 DEF StayInEpoch
  <2>4. CASE \E chosen \in SUBSET Validators : EnterEpoch(chosen)
    <3>1. markers' = BoundaryMarkers(m, b, currentEpoch + 1)
        BY <2>4 DEF EnterEpoch
    <3>2. m \in Marks
        BY <1>1, <2>1, ProgressAdvances DEF Inv, MarkersAgree, Advanced
    <3> HIDE DEF m, b
    <3>3. m.last <= markers'.last /\ markers' \in Marks
      <4>1. currentEpoch + 1 \in Nat
          BY <2>1
      <4>2. Advanced(m, BoundaryMarkers(m, b, currentEpoch + 1))
          BY <2>1, <3>2, <4>1, BoundaryAdvances
      <4> QED  BY <3>1, <4>2 DEF Advanced
    <3>4. Capped(block, dvfHead) \in Nat
        BY <1>1 DEF Capped, Inv, TypeOK
    <3> QED  BY <2>2, <3>2, <3>3, <3>4 DEF Marks
  <2> QED  BY <2>3, <2>4 DEF NextBlock
<1>2. ASSUME Inv, [Next]_vars PROVE [Follows]_vars
    BY <1>1, <1>2
<1> HIDE DEF Follows
<1>3. Spec => [][Follows]_vars
    BY <1>2, Invariance, PTL DEF Spec
<1> QED  BY <1>3 DEF FollowsDvf, Follows

(* However epochs were advanced, a boundary block brings the marker up.    *)
THEOREM BoundariesCatchUp == Spec => CatchesUpAtBoundary
<1> DEFINE Caught == block' > block /\ IsEpochBoundary(block') /\ currentEpoch > 0 =>
                        markers'.last >= Capped(block, dvfHead)
<1>1. ASSUME Inv, [Next]_vars PROVE Caught
  <2> SUFFICES ASSUME NextBlock, IsEpochBoundary(block'), currentEpoch > 0
               PROVE  markers'.last >= Capped(block, dvfHead)
    <3>1. NextBlock \/ ~(block' > block)
        BY <1>1 DEF Inv, TypeOK, Next, SudoAdvanceEpoch, SetGovernanceMode, Reseat, DvfFinalize, vars
    <3> QED  BY <3>1
  <2> DEFINE b == block + 1
             m == Progressed(markers, b, currentEpoch)
             closed == [m EXCEPT !.best = b - 1]
  <2>1. /\ b \in Nat \ {0} /\ b - 1 = block /\ block' = b /\ block \in Nat
        /\ currentEpoch \in Nat /\ dvfHead \in Nat /\ markers \in Marks
      BY <1>1 DEF Inv, TypeOK, Marks, NextBlock
  <2>2. m \in Marks
      BY <1>1, <2>1, ProgressAdvances DEF Inv, MarkersAgree, Advanced
  <2>3. \E chosen \in SUBSET Validators : EnterEpoch(chosen)
      BY <2>1 DEF NextBlock, StayInEpoch
  <2>4. markers' = BoundaryMarkers(m, b, currentEpoch + 1)
      BY <2>3 DEF EnterEpoch
  <2>5. closed \in Marks /\ closed.best = block
    <3> HIDE DEF m, b
    <3> QED  BY <2>1, <2>2 DEF Marks
  <2>6. markers' = Updated(closed, b, currentEpoch + 1)
    <3>1. currentEpoch + 1 > 1
        BY <2>1
    <3> QED  BY <2>4, <3>1 DEF BoundaryMarkers
  <2> HIDE DEF m, closed, b
  <2>7. b - 1 <= closed.best /\ currentEpoch + 1 \in Nat
      BY <2>1, <2>5
  <2> QED  BY <2>1, <2>5, <2>6, <2>7, UpdateReaches
<1>2. ASSUME Inv, [Next]_vars PROVE [Caught]_vars
    BY <1>1, <1>2
<1> HIDE DEF Caught
<1>3. Spec => [][Caught]_vars
    BY <1>2, Invariance, PTL DEF Spec
<1> QED  BY <1>3 DEF CatchesUpAtBoundary, Caught

-----------------------------------------------------------------------------

(* The theorems about ValidatorScores.  A record of ValidatorStates:       *)
Records == [stake : Nat, inference : Nat, final : Nat, idle : Nat]

(* Members have a stake and a record.  A record outlives its member.       *)
ScoresTyped ==
    /\ stake \in [Accounts -> Nat]
    /\ members \in SUBSET Accounts
    /\ \A v \in members : stake[v] \in Stakes
    /\ seats \in SUBSET DOMAIN state
    /\ \E D \in SUBSET Accounts : state \in [D -> Records]
    /\ members \subseteq DOMAIN state
    /\ weights \in [pos : Nat, poi : Nat]
    /\ \E D \in SUBSET Accounts : results \in [D -> Nat]
    /\ judged \subseteq DOMAIN state
    /\ fit \subseteq members \cap judged
    /\ sudos \in Nat

(* Scores are natural numbers, rounded down.                               *)
LEMMA FinalScoreType ==
    ASSUME weights \in [pos : Nat, poi : Nat], NEW s \in Nat, NEW i \in Nat
    PROVE  FinalScore(s, i) \in Nat /\ FinalScore(s, i) <= MaxScore
<1> DEFINE x == s * weights.pos + i * weights.poi
<1>1. x \in Nat
    OBVIOUS
<1> HIDE DEF x
<1>2. x \div Precision \in Nat
    BY <1>1, ScaleAssumption, Rounding
<1> QED
    BY <1>2, ScaleAssumption DEF FinalScore, Least, x

LEMMA StakeShareType ==
    ASSUME ScoresTyped, NEW v \in members
    PROVE  StakeShare(v) \in Nat /\ TotalStake \in Nat
<1>1. IsFiniteSet(Accounts) /\ stake \in [Accounts -> Nat] /\ members \in SUBSET Accounts /\ v \in Accounts
    BY MembersAssumption DEF ScoresTyped
<1>2. TotalStake \in Nat
    BY <1>1, SumMonotone DEF TotalStake
<1>3. stake[v] * StakeScale \in Nat
    BY <1>1, ScaleAssumption
<1>4. CASE TotalStake = 0
    BY <1>2, <1>4 DEF StakeShare
<1>5. CASE TotalStake # 0
    BY <1>2, <1>3, <1>5, Rounding DEF StakeShare
<1> QED
    BY <1>2, <1>4, <1>5

LEMMA InferenceScoreType ==
    ASSUME ScoresTyped, NEW v
    PROVE  InferenceScore(v) \in Nat
BY DEF ScoresTyped, InferenceScore

(* What scoring a record anew writes into it.                              *)
LEMMA RescoredRecord ==
    ASSUME weights \in [pos : Nat, poi : Nat], NEW r \in Records, NEW s \in Nat, NEW i \in Nat
    PROVE  /\ Rescored(r, s, i) \in Records
           /\ Rescored(r, s, i).stake = s /\ Rescored(r, s, i).inference = i
           /\ Rescored(r, s, i).final = FinalScore(s, i) /\ Rescored(r, s, i).idle = 0
BY FinalScoreType DEF Rescored, Records

(* Percentages of less than the whole leave a score where it is as long as *)
(* they round to nothing at its maximum.                                   *)
DecayIsSmall == MaxScore * DecayRate < Precision

LEMMA DecayArithmetic ==
    ASSUME NEW f \in Nat, NEW p \in Nat \ {0}, NEW d \in Nat
    PROVE  /\ (f * d) \div p \in Nat
           /\ ((f * d) \div p) * p <= f * d
           /\ d <= p => (f * d) \div p <= f
<1> DEFINE q == (f * d) \div p
<1>1. q \in Nat /\ q * p <= f * d
    BY Rounding
<1> HIDE DEF q
<1>2. ASSUME d <= p PROVE q <= f
  <2>1. f * d <= f * p
      BY <1>2
  <2>2. CASE q > f
    <3>1. q * p > f * p
        BY <1>1, <2>2
    <3> QED  BY <1>1, <2>1, <3>1
  <2> QED  BY <1>1, <2>2
<1> QED
    BY <1>1, <1>2 DEF q

LEMMA NoDecay ==
    ASSUME DecayIsSmall, NEW f \in Nat
    PROVE  Least(MaxScore, f - ((f * DecayRate) \div Precision)) = Least(MaxScore, f)
<1> DEFINE q == (f * DecayRate) \div Precision
           p == Precision
           d == DecayRate
           max == MaxScore
<1>1. p \in Nat \ {0} /\ d \in Nat /\ max \in Nat \ {0} /\ max * d < p
    BY ScaleAssumption DEF DecayIsSmall
<1>2. q \in Nat /\ q * p <= f * d
    BY <1>1, DecayArithmetic
<1> HIDE DEF q, p, d, max
<1>3. CASE f <= max
  <2>1. f * d <= max * d
      BY <1>1, <1>3
  <2>2. q * p < p
      BY <1>1, <1>2, <2>1
  <2>3. q = 0
      BY <1>1, <1>2, <2>2
  <2> QED  BY <2>3 DEF q, max
<1>4. CASE f > max
  <2> DEFINE k == f - max
  <2>1. k \in Nat /\ f = max + k
      BY <1>1, <1>4
  <2> HIDE DEF k
  <2>2. d <= max * d
      BY <1>1
  <2>3. d <= p
      BY <1>1, <2>2
  <2>4. f * d = max * d + k * d
      BY <1>1, <2>1
  <2>5. k * d <= k * p
      BY <1>1, <2>1, <2>3
  <2>6. q * p < p + k * p
      BY <1>1, <1>2, <2>1, <2>4, <2>5
  <2>7. q <= k
    <3>1. CASE q >= k + 1
      <4>1. q * p >= (k + 1) * p
          BY <1>1, <1>2, <2>1, <3>1
      <4> QED  BY <1>1, <1>2, <2>1, <2>6, <4>1
    <3> QED  BY <1>2, <2>1, <3>1
  <2>8. Least(max, f - q) = Least(max, f)
      BY <1>1, <1>2, <1>4, <2>1, <2>7 DEF Least
  <2> QED  BY <2>8 DEF q, max
<1> QED
    BY <1>1, <1>3, <1>4

(* Whatever happens to a record leaves a record.                           *)
LEMMA RecordsStay ==
    ASSUME NEW r \in Records
    PROVE  /\ Boosted(r) \in Records /\ Decayed(r) \in Records
           /\ [r EXCEPT !.idle = 0] \in Records /\ [r EXCEPT !.stake = 0] \in Records
           /\ [r EXCEPT !.idle = Least(@ + 1, MaxInactiveEpochs + 1)] \in Records
           /\ \A n \in Nat : [r EXCEPT !.stake = n] \in Records
<1>1. /\ r.final \in Nat /\ r.idle \in Nat /\ MaxScore \in Nat /\ AuthorshipBoost \in Nat
      /\ MaxInactiveEpochs \in Nat /\ DecayRate \in Nat /\ DecayRate <= Precision /\ Precision \in Nat \ {0}
    BY ScaleAssumption DEF Records
<1>2. Least(MaxScore, r.final + AuthorshipBoost) \in Nat /\ Least(r.idle + 1, MaxInactiveEpochs + 1) \in Nat
    BY <1>1 DEF Least
<1>3. Boosted(r) \in Records
    BY <1>2 DEF Boosted, Records
<1>4. Least(MaxScore, r.final - ((r.final * DecayRate) \div Precision)) \in Nat
  <2> DEFINE q == (r.final * DecayRate) \div Precision
  <2>1. q \in Nat /\ q <= r.final
      BY <1>1, ScaleAssumption, DecayArithmetic
  <2> HIDE DEF q
  <2>2. Least(MaxScore, r.final - q) \in Nat
      BY <1>1, <2>1 DEF Least
  <2> QED  BY <2>2 DEF q
<1>5. Decayed(r) \in Records
    BY <1>4 DEF Decayed, Records
<1> QED
    BY <1>2, <1>3, <1>5 DEF Records

LEMMA AggregatedType ==
    ASSUME ScoresTyped, NEW D \in SUBSET Accounts, state \in [D -> Records]
    PROVE  /\ Aggregated \in [D -> Records]
           /\ \A v \in members : /\ Aggregated[v].stake = StakeShare(v) /\ StakeShare(v) \in Nat
                                 /\ Aggregated[v].inference = InferenceScore(v) /\ InferenceScore(v) \in Nat
                                 /\ Aggregated[v].final = FinalScore(StakeShare(v), InferenceScore(v))
                                 /\ Aggregated[v].idle = 0
           /\ \A v \in D \ members : Aggregated[v] = state[v]
<1>1. DOMAIN Aggregated = D /\ members \subseteq D
    BY DEF Aggregated, ScoresTyped
<1>2. ASSUME NEW v \in members
      PROVE  /\ Aggregated[v] = Rescored(state[v], StakeShare(v), InferenceScore(v))
             /\ StakeShare(v) \in Nat /\ InferenceScore(v) \in Nat
             /\ Rescored(state[v], StakeShare(v), InferenceScore(v)) \in Records
             /\ state[v] \in Records
  <2>1. v \in D /\ state[v] \in Records
      BY <1>1
  <2>2. StakeShare(v) \in Nat /\ InferenceScore(v) \in Nat
      BY StakeShareType, InferenceScoreType
  <2>3. weights \in [pos : Nat, poi : Nat]
      BY DEF ScoresTyped
  <2>4. Rescored(state[v], StakeShare(v), InferenceScore(v)) \in Records
      BY <2>1, <2>2, <2>3, RescoredRecord
  <2>5. Aggregated[v] = Rescored(state[v], StakeShare(v), InferenceScore(v))
      BY <2>1 DEF Aggregated
  <2> QED  BY <2>1, <2>2, <2>4, <2>5
<1>3. ASSUME NEW v \in D \ members PROVE Aggregated[v] = state[v] /\ state[v] \in Records
    BY <1>3 DEF Aggregated
<1>4. Aggregated \in [D -> Records]
  <2>1. \A v \in D : Aggregated[v] \in Records
      BY <1>2, <1>3
  <2>2. Aggregated = [v \in D |-> Aggregated[v]]
      BY DEF Aggregated
  <2> QED  BY <2>1, <2>2
<1>5. ASSUME NEW v \in members
      PROVE  /\ Aggregated[v].stake = StakeShare(v)
             /\ Aggregated[v].inference = InferenceScore(v)
             /\ Aggregated[v].final = FinalScore(StakeShare(v), InferenceScore(v))
             /\ Aggregated[v].idle = 0
  <2> DEFINE r == state[v]
             share == StakeShare(v)
             i == InferenceScore(v)
  <2>1. r \in Records /\ share \in Nat /\ i \in Nat /\ Aggregated[v] = Rescored(r, share, i)
      BY <1>2
  <2> HIDE DEF r, share, i
  <2>3. /\ Rescored(r, share, i).stake = share /\ Rescored(r, share, i).inference = i
        /\ Rescored(r, share, i).final = FinalScore(share, i) /\ Rescored(r, share, i).idle = 0
      BY <2>1 DEF Rescored, Records
  <2> QED  BY <2>1, <2>3 DEF share, i
<1> QED
    BY <1>2, <1>3, <1>4, <1>5

LEMMA OlderType ==
    ASSUME NEW D, NEW states \in [D -> Records]
    PROVE  /\ Older(states) \in [D -> Records]
           /\ \A v \in D : /\ Older(states)[v] = [states[v] EXCEPT !.idle = Least(@ + 1, MaxInactiveEpochs + 1)]
                           /\ Older(states)[v].stake = states[v].stake
                           /\ Older(states)[v].inference = states[v].inference
                           /\ Older(states)[v].final = states[v].final
                           /\ Older(states)[v].idle <= states[v].idle + 1
<1>1. Older(states) = [v \in D |-> [states[v] EXCEPT !.idle = Least(@ + 1, MaxInactiveEpochs + 1)]]
    BY DEF Older
<1>2. ASSUME NEW v \in D
      PROVE  /\ [states[v] EXCEPT !.idle = Least(@ + 1, MaxInactiveEpochs + 1)] \in Records
             /\ Older(states)[v] = [states[v] EXCEPT !.idle = Least(@ + 1, MaxInactiveEpochs + 1)]
             /\ Older(states)[v].stake = states[v].stake
             /\ Older(states)[v].inference = states[v].inference
             /\ Older(states)[v].final = states[v].final
             /\ Older(states)[v].idle <= states[v].idle + 1
  <2>1. states[v] \in Records
      OBVIOUS
  <2>2. Older(states)[v] = [states[v] EXCEPT !.idle = Least(@ + 1, MaxInactiveEpochs + 1)]
      BY <1>1
  <2>3. Least(states[v].idle + 1, MaxInactiveEpochs + 1) <= states[v].idle + 1
      BY <2>1, ScaleAssumption DEF Least, Records
  <2>4. [states[v] EXCEPT !.idle = Least(@ + 1, MaxInactiveEpochs + 1)] \in Records
      BY <2>1, RecordsStay
  <2> QED  BY <2>1, <2>2, <2>3, <2>4 DEF Records
<1> QED
    BY <1>1, <1>2

(* The regular block: what it makes of a record on the way.                *)
LEMMA AuthoredType ==
    ASSUME NEW D, state \in [D -> Records], NEW author
    PROVE  /\ Authored(author) \in [D -> Records]
           /\ \A v \in D : Authored(author)[v] = state[v] \/ Authored(author)[v] = Boosted(state[v])
<1>1. Authored(author) = [v \in D |-> IF v \in author THEN Boosted(state[v]) ELSE state[v]]
    BY DEF Authored
<1>2. \A v \in D : state[v] \in Records /\ Boosted(state[v]) \in Records
    BY RecordsStay
<1> QED
    BY <1>1, <1>2

LEMMA DecayedMembersType ==
    ASSUME NEW D, NEW states \in [D -> Records], NEW b
    PROVE  /\ DecayedMembers(states, b) \in [D -> Records]
           /\ \A v \in D : DecayedMembers(states, b)[v] = states[v] \/ DecayedMembers(states, b)[v] = Decayed(states[v])
<1>1. DecayedMembers(states, b) = [v \in D |-> IF b % DecayInterval = 0 /\ v \in members THEN Decayed(states[v]) ELSE states[v]]
    BY DEF DecayedMembers
<1>2. \A v \in D : states[v] \in Records /\ Decayed(states[v]) \in Records
    BY RecordsStay
<1> QED
    BY <1>1, <1>2

(* What keeps a validator above the minimum: its score, and what the score *)
(* would be if it were computed again from the recorded parts.  A stake by *)
(* itself is enough, too, unless the weights are strange.                  *)
StakesSuffice == \A amount \in Stakes : amount * weights.pos >= MinScore * Precision

StaysFit(r) == r.final >= MinScore /\ FinalScore(r.stake, r.inference) >= MinScore

FitStayFit == StakesSuffice => \A v \in fit : StaysFit(state[v])

(* Idleness needs the types alone; the promise to the fit needs both.       *)
IdleInv == ScoresTyped /\ IdleThroughSudo

ScoresInv == IdleInv /\ FitStayFit

(* More of either part is no worse.                                        *)
LEMMA FinalScoreMonotone ==
    ASSUME weights \in [pos : Nat, poi : Nat], NEW s \in Nat, NEW i \in Nat,
           NEW low \in Nat, low * Precision <= s * weights.pos + i * weights.poi, low <= MaxScore
    PROVE  FinalScore(s, i) >= low
<1> DEFINE x == s * weights.pos + i * weights.poi
           q == x \div Precision
<1>1. x \in Nat /\ Precision \in Nat \ {0}
    BY ScaleAssumption
<1> HIDE DEF x
<1>2. q \in Nat /\ x < (q + 1) * Precision
  <2> DEFINE r == x % Precision
  <2>1. q \in Nat /\ x = Precision * q + r /\ r \in 0 .. Precision - 1
      BY <1>1
  <2> HIDE DEF q, r
  <2>2. Precision * q = q * Precision /\ (q + 1) * Precision = q * Precision + Precision /\ q * Precision \in Nat
      BY <1>1, <2>1
  <2> QED  BY <1>1, <2>1, <2>2
<1> HIDE DEF q
<1>3. low * Precision < (q + 1) * Precision
  <2>1. low * Precision <= x
      BY DEF x
  <2>2. low * Precision \in Nat /\ (q + 1) * Precision \in Nat
      BY <1>1, <1>2
  <2> QED  BY <1>1, <1>2, <2>1, <2>2
<1>4. q >= low
  <2>1. CASE low >= q + 1
    <3>1. low * Precision >= (q + 1) * Precision
        BY <1>1, <1>2, <2>1
    <3>2. low * Precision \in Nat /\ (q + 1) * Precision \in Nat
        BY <1>1, <1>2
    <3> QED  BY <1>3, <3>1, <3>2
  <2> QED  BY <1>2, <2>1
<1>5. FinalScore(s, i) = Least(MaxScore, q)
    BY DEF FinalScore, q, x
<1> QED
    BY <1>2, <1>4, <1>5, ScaleAssumption DEF Least

LEMMA StakeIsEnough ==
    ASSUME weights \in [pos : Nat, poi : Nat], StakesSuffice, NEW amount \in Stakes, NEW i \in Nat
    PROVE  FinalScore(amount, i) >= MinScore
<1>1. MinScore \in Nat /\ MinScore <= MaxScore /\ amount \in Nat
    BY ScaleAssumption, StakesAssumption
<1>2. amount * weights.pos >= MinScore * Precision
    BY DEF StakesSuffice
<1>3. i * weights.poi \in Nat /\ amount * weights.pos \in Nat /\ MinScore * Precision \in Nat
    BY <1>1, ScaleAssumption
<1>4. MinScore * Precision <= amount * weights.pos + i * weights.poi
    BY <1>2, <1>3
<1> QED
    BY <1>1, <1>4, FinalScoreMonotone

LEMMA MoreStake ==
    ASSUME weights \in [pos : Nat, poi : Nat], NEW s \in Nat, NEW t \in Nat, NEW i \in Nat, s <= t,
           FinalScore(s, i) >= MinScore
    PROVE  FinalScore(t, i) >= MinScore
<1> DEFINE x == s * weights.pos + i * weights.poi
           q == x \div Precision
<1>1. x \in Nat /\ Precision \in Nat \ {0} /\ MinScore \in Nat /\ MinScore <= MaxScore /\ MaxScore \in Nat
    BY ScaleAssumption
<1> HIDE DEF x
<1>2. q \in Nat /\ q * Precision <= x
    BY <1>1
<1> HIDE DEF q
<1>3. q >= MinScore
  <2>1. FinalScore(s, i) = Least(MaxScore, q)
      BY DEF FinalScore, q, x
  <2> QED  BY <1>1, <1>2, <2>1 DEF Least
<1>4. MinScore * Precision <= q * Precision
    BY <1>1, <1>2, <1>3
<1>5. s * weights.pos <= t * weights.pos
    OBVIOUS
<1>6. MinScore * Precision <= t * weights.pos + i * weights.poi
  <2>1. /\ MinScore * Precision \in Nat /\ q * Precision \in Nat
        /\ s * weights.pos \in Nat /\ t * weights.pos \in Nat /\ i * weights.poi \in Nat
      BY <1>1, <1>2
  <2> QED  BY <1>2, <1>4, <1>5, <2>1 DEF x
<1> QED
    BY <1>1, <1>6, FinalScoreMonotone

-----------------------------------------------------------------------------

LEMMA ScoresBegin == ScoresInit => ScoresInv
<1> SUFFICES ASSUME ScoresInit PROVE ScoresInv
    OBVIOUS
<1>1. /\ stake \in [Accounts -> Nat] /\ \A v \in Genesis : stake[v] \in Stakes
      /\ weights \in [pos : Nat, poi : Nat] /\ results \in [Genesis -> Nat]
      /\ Genesis \in SUBSET Accounts /\ Precision \in Nat \ {0} /\ GenesisDivisor \in Nat \ {0}
  <2>1. weights \in [pos : Nat, poi : Nat]
      BY WeightsAssumption DEF ScoresInit
  <2>2. results \in [Genesis -> Nat] /\ stake \in [Accounts -> Nat] /\ \A v \in Genesis : stake[v] \in Stakes
    <3>1. results \in [Genesis -> Nat]
      <4>1. results \in [Genesis -> Results] /\ Results \subseteq Nat
          BY StakesAssumption DEF ScoresInit
      <4> QED  BY <4>1
    <3>2. stake \in [Accounts -> Nat]
      <4>1. stake \in [Accounts -> Stakes \cup {0}] /\ Stakes \cup {0} \subseteq Nat
          BY StakesAssumption DEF ScoresInit
      <4> QED  BY <4>1
    <3>3. \A v \in Genesis : v \in Accounts /\ stake[v] # 0
        BY MembersAssumption DEF ScoresInit
    <3>4. \A v \in Genesis : stake[v] \in Stakes
        BY <3>3 DEF ScoresInit
    <3> QED  BY <3>1, <3>2, <3>4
  <2> QED  BY <2>1, <2>2, MembersAssumption, ScaleAssumption
<1>2. ASSUME NEW v \in Genesis
      PROVE  /\ state[v] \in Records /\ state[v].idle = 0
             /\ state[v].final >= MinScore => FinalScore(state[v].stake, state[v].inference) >= MinScore
  <2> DEFINE s == stake[v] \div GenesisDivisor
             i == results[v]
             x == s * weights.pos + i * weights.poi
             q == x \div Precision
  <2>1. state[v] = [stake |-> s, inference |-> i, idle |-> 0, final |-> q]
      BY DEF ScoresInit, GenesisState
  <2>2. stake[v] \in Nat /\ s \in Nat /\ i \in Nat
      BY <1>1, Rounding
  <2> HIDE DEF s, i
  <2>3. x \in Nat
      BY <1>1, <2>2
  <2>4. FinalScore(s, i) = Least(MaxScore, q)
      BY DEF FinalScore
  <2> HIDE DEF x
  <2>5. q \in Nat
      BY <1>1, <2>3, Rounding
  <2> HIDE DEF q
  <2> QED
      BY <2>1, <2>2, <2>4, <2>5, ScaleAssumption DEF Records, Least
<1>3. DOMAIN state = Genesis /\ state \in [Genesis -> Records]
  <2>1. state = [v \in Genesis |-> GenesisState(v)]
      BY DEF ScoresInit
  <2> QED  BY <1>2, <2>1
<1>4. ScoresTyped
    BY <1>1, <1>3 DEF ScoresTyped, ScoresInit
<1>5. IdleThroughSudo
    BY <1>2 DEF IdleThroughSudo, ScoresInit
<1>6. FitStayFit
    BY <1>2 DEF FitStayFit, StaysFit, ScoresInit
<1> QED
    BY <1>4, <1>5, <1>6 DEF ScoresInv, IdleInv

(* A step that writes one record, and raises no idleness.                  *)
LEMMA OneRecord ==
    ASSUME ScoresTyped, IdleThroughSudo,
           NEW v \in DOMAIN state, NEW r \in Records, r.idle <= state[v].idle,
           state' = [state EXCEPT ![v] = r],
           stake' \in [Accounts -> Nat], \A w \in members : stake'[w] \in Stakes,
           \E D \in SUBSET Accounts : results' \in [D -> Nat],
           UNCHANGED <<members, seats, weights, judged, sudos>>, fit' \in SUBSET fit
    PROVE  ScoresTyped' /\ IdleThroughSudo'
<1>1. PICK D \in SUBSET Accounts : state \in [D -> Records]
    BY DEF ScoresTyped
<1>2. state' \in [D -> Records] /\ DOMAIN state' = DOMAIN state
    BY <1>1
<1>3. ScoresTyped'
    BY <1>2 DEF ScoresTyped
<1>4. ASSUME NEW w \in judged PROVE state'[w].idle <= 1 + sudos
  <2>1. w \in D /\ state[w].idle \in Nat /\ state[w].idle <= 1 + sudos /\ r.idle \in Nat /\ sudos \in Nat
      BY <1>1 DEF ScoresTyped, IdleThroughSudo, Records
  <2> QED  BY <1>1, <2>1
<1> QED
    BY <1>3, <1>4 DEF IdleThroughSudo

(* The steps that judge, age or pay every record.                          *)
LEMMA BoundaryTyped ==
    ASSUME ScoresTyped, BoundaryBlock
    PROVE  ScoresTyped' /\ IdleThroughSudo'
<1>1. PICK D \in SUBSET Accounts : state \in [D -> Records]
    BY DEF ScoresTyped
<1>2. Aggregated \in [D -> Records] /\ \A v \in members : Aggregated[v].idle = 0
    BY <1>1, AggregatedType
<1>3. state' \in [D -> Records] /\ \A v \in D : state'[v].idle <= Aggregated[v].idle + 1
    BY <1>2, OlderType DEF BoundaryBlock
<1>4. seats' \in SUBSET D
    BY <1>1, <1>2 DEF ScoresTyped, BoundaryBlock, Admissible
<1>5. ScoresTyped'
    BY <1>1, <1>3, <1>4 DEF ScoresTyped, BoundaryBlock
<1>6. IdleThroughSudo'
    BY <1>1, <1>2, <1>3 DEF ScoresTyped, BoundaryBlock, IdleThroughSudo
<1> QED
    BY <1>5, <1>6

LEMMA SudoTyped ==
    ASSUME ScoresTyped, IdleThroughSudo, SudoAdvance
    PROVE  ScoresTyped' /\ IdleThroughSudo'
<1>1. PICK D \in SUBSET Accounts : state \in [D -> Records]
    BY DEF ScoresTyped
<1>2. state' \in [D -> Records] /\ \A v \in D : state'[v].idle <= state[v].idle + 1
    BY <1>1, OlderType DEF SudoAdvance
<1>3. seats' \in SUBSET D
    BY <1>1 DEF ScoresTyped, SudoAdvance, Admissible
<1>4. ScoresTyped'
    BY <1>1, <1>2, <1>3 DEF ScoresTyped, SudoAdvance
<1>5. ASSUME NEW v \in judged PROVE state'[v].idle <= 1 + sudos'
  <2>1. v \in D /\ state[v].idle \in Nat /\ state'[v].idle \in Nat /\ sudos \in Nat /\ sudos' = sudos + 1
      BY <1>1, <1>2 DEF ScoresTyped, SudoAdvance, Records
  <2> QED  BY <1>2, <2>1 DEF IdleThroughSudo
<1> QED
    BY <1>4, <1>5 DEF IdleThroughSudo, SudoAdvance

(* What a regular block makes of a record.                                 *)
RegularRecord(r) == {r, Boosted(r), Decayed(r), Decayed(Boosted(r))}

LEMMA RegularStates ==
    ASSUME NEW D, state \in [D -> Records], RegularBlock
    PROVE  state' \in [D -> Records] /\ \A v \in D : state'[v] \in RegularRecord(state[v])
<1>1. PICK author \in Authors : state' = DecayedMembers(Authored(author), blockInEpoch')
    BY DEF RegularBlock
<1> DEFINE states == Authored(author)
<1>2. states \in [D -> Records] /\ \A v \in D : states[v] = state[v] \/ states[v] = Boosted(state[v])
    BY AuthoredType
<1> HIDE DEF states
<1>3. /\ DecayedMembers(states, blockInEpoch') \in [D -> Records]
      /\ \A v \in D : DecayedMembers(states, blockInEpoch')[v] \in {states[v], Decayed(states[v])}
    BY <1>2, DecayedMembersType
<1> QED
    BY <1>1, <1>2, <1>3 DEF states, RegularRecord

LEMMA RegularIdle ==
    ASSUME NEW r \in Records, NEW n \in RegularRecord(r)
    PROVE  n.stake = r.stake /\ n.inference = r.inference /\ n.idle <= r.idle
<1>1. r.idle \in Nat
    BY DEF Records
<1>2. ASSUME NEW p \in Records
      PROVE  /\ Boosted(p).stake = p.stake /\ Boosted(p).inference = p.inference /\ Boosted(p).idle = 0
             /\ Decayed(p).stake = p.stake /\ Decayed(p).inference = p.inference /\ Decayed(p).idle = p.idle
    BY DEF Records, Boosted, Decayed
<1>3. Boosted(r) \in Records
    BY RecordsStay
<1> QED
    BY <1>1, <1>2, <1>3 DEF RegularRecord

LEMMA RegularTyped ==
    ASSUME ScoresTyped, IdleThroughSudo, RegularBlock
    PROVE  ScoresTyped' /\ IdleThroughSudo'
<1>1. PICK D \in SUBSET Accounts : state \in [D -> Records]
    BY DEF ScoresTyped
<1>2. state' \in [D -> Records] /\ \A v \in D : state'[v] \in RegularRecord(state[v])
    BY <1>1, RegularStates
<1>3. seats' \in SUBSET D
    BY <1>1 DEF ScoresTyped, RegularBlock
<1>4. ScoresTyped'
    BY <1>1, <1>2, <1>3 DEF ScoresTyped, RegularBlock, history
<1>5. ASSUME NEW v \in judged PROVE state'[v].idle <= 1 + sudos
  <2>1. v \in D /\ state[v] \in Records /\ state'[v] \in Records /\ sudos \in Nat /\ state[v].idle <= 1 + sudos
      BY <1>1, <1>2 DEF ScoresTyped, IdleThroughSudo
  <2>2. state'[v].idle <= state[v].idle
      BY <1>2, <2>1, RegularIdle
  <2> QED  BY <2>1, <2>2 DEF Records
<1> QED
    BY <1>4, <1>5 DEF IdleThroughSudo, RegularBlock, history

LEMMA ScoresStep ==
    ASSUME ScoresTyped, IdleThroughSudo, [ScoresNext]_scoresVars
    PROVE  ScoresTyped' /\ IdleThroughSudo'
<1>1. PICK D \in SUBSET Accounts : state \in [D -> Records]
    BY DEF ScoresTyped
<1>a. DOMAIN state = D /\ members \subseteq D /\ seats \subseteq D
    BY <1>1 DEF ScoresTyped
<1>2. CASE BoundaryBlock
    BY <1>2, BoundaryTyped
<1>3. CASE RegularBlock
    BY <1>3, RegularTyped
<1>4. CASE SudoAdvance
    BY <1>4, SudoTyped
<1>5. ASSUME NEW pair \in WeightPairs, UpdateConsensusWeights(pair)
      PROVE  ScoresTyped' /\ IdleThroughSudo'
    BY <1>5, WeightsAssumption DEF UpdateConsensusWeights, ScoresTyped, IdleThroughSudo
<1>6. CASE UpdateWeightParameter
  <2>1. Precision - DefaultWeights.poi \in Nat /\ Precision - DefaultWeights.pos \in Nat
      BY WeightsAssumption, ScaleAssumption
  <2>2. weights' \in [pos : Nat, poi : Nat]
      BY <1>6, <2>1 DEF UpdateWeightParameter, ScoresTyped
  <2> QED  BY <1>6, <2>2 DEF UpdateWeightParameter, ScoresTyped, IdleThroughSudo
<1>7. ASSUME NEW v \in Accounts, NEW amount \in Stakes, Join(v, amount)
      PROVE  ScoresTyped' /\ IdleThroughSudo'
  <2>1. /\ stake' \in [Accounts -> Nat] /\ \A w \in members' : stake'[w] \in Stakes
        /\ members' \in SUBSET Accounts /\ amount \in Nat
      BY <1>7, StakesAssumption DEF Join, ScoresTyped
  <2>2. CASE v \in D
      BY <1>7, <1>1, <2>1, <2>2 DEF Join, ScoresTyped, IdleThroughSudo, history
  <2>3. CASE v \notin D
    <3>1. PICK idle \in 0 .. MaxInactiveEpochs + 1 :
              state' = [w \in D \cup {v} |->
                          IF w = v THEN [stake |-> amount, inference |-> 0, final |-> MinScore, idle |-> idle]
                          ELSE state[w]]
        BY <1>1, <1>7, <2>3 DEF Join
    <3>2. [stake |-> amount, inference |-> 0, final |-> MinScore, idle |-> idle] \in Records
        BY <2>1, ScaleAssumption DEF Records
    <3>3. state' \in [D \cup {v} -> Records] /\ D \cup {v} \in SUBSET Accounts /\ \A w \in D : state'[w] = state[w]
        BY <1>1, <2>3, <3>1, <3>2
    <3>4. ScoresTyped'
        BY <1>1, <1>7, <2>1, <3>3 DEF Join, ScoresTyped, history
    <3> QED  BY <1>1, <1>7, <3>3, <3>4 DEF Join, ScoresTyped, IdleThroughSudo, history
  <2> QED  BY <2>2, <2>3
<1>8. ASSUME NEW v \in Accounts, Leave(v) PROVE ScoresTyped' /\ IdleThroughSudo'
  <2>1. stake' \in [Accounts -> Nat] /\ \A w \in members' : stake'[w] \in Stakes
      BY <1>8 DEF Leave, ScoresTyped
  <2> QED  BY <1>8, <2>1 DEF Leave, ScoresTyped, IdleThroughSudo
<1>9. ASSUME NEW v \in Accounts, NEW amount \in Stakes, IncreaseStake(v, amount)
      PROVE  ScoresTyped' /\ IdleThroughSudo'
  <2> DEFINE r == [state[v] EXCEPT !.stake = @ + amount - stake[v]]
  <2>1. v \in D /\ state[v] \in Records /\ amount \in Nat /\ stake[v] \in Nat /\ amount > stake[v]
      BY <1>1, <1>a, <1>9, StakesAssumption DEF IncreaseStake, ScoresTyped
  <2>2. r \in Records /\ r.idle = state[v].idle
      BY <2>1 DEF Records
  <2>3. state' = [state EXCEPT ![v] = r]
      BY <1>9 DEF IncreaseStake
  <2>4. stake' \in [Accounts -> Nat] /\ \A w \in members : stake'[w] \in Stakes
      BY <1>9, <2>1 DEF IncreaseStake, ScoresTyped
  <2>5. /\ UNCHANGED <<members, seats, weights, judged, sudos, results>> /\ fit' \in SUBSET fit
        /\ r.idle <= state[v].idle
      BY <1>9, <2>1, <2>2 DEF IncreaseStake, history, Records
  <2> HIDE DEF r
  <2> QED  BY <1>1, <2>1, <2>2, <2>3, <2>4, <2>5, OneRecord DEF ScoresTyped
<1>17. ASSUME NEW v \in Accounts, NEW left \in Stakes, DecreaseStake(v, left)
       PROVE  ScoresTyped' /\ IdleThroughSudo'
  <2> DEFINE r == [state[v] EXCEPT !.stake = Monus(@, stake[v] - left)]
  <2>1. v \in D /\ state[v] \in Records /\ left \in Nat /\ stake[v] \in Nat /\ left < stake[v]
      BY <1>1, <1>a, <1>17, StakesAssumption DEF DecreaseStake, ScoresTyped
  <2>2. r \in Records /\ r.idle = state[v].idle
      BY <2>1 DEF Records, Monus
  <2>3. state' = [state EXCEPT ![v] = r]
      BY <1>17 DEF DecreaseStake
  <2>4. stake' \in [Accounts -> Nat] /\ \A w \in members : stake'[w] \in Stakes
      BY <1>17, <2>1 DEF DecreaseStake, ScoresTyped
  <2>5. /\ UNCHANGED <<members, seats, weights, judged, sudos, results>> /\ fit' \in SUBSET fit
        /\ r.idle <= state[v].idle
      BY <1>17, <2>1, <2>2 DEF DecreaseStake, Records
  <2> HIDE DEF r
  <2> QED  BY <1>1, <2>1, <2>2, <2>3, <2>4, <2>5, OneRecord DEF ScoresTyped
<1>18. ASSUME NEW v \in Accounts, NEW amount \in Stakes, Rebond(v, amount)
       PROVE  ScoresTyped' /\ IdleThroughSudo'
  <2>1. stake' \in [Accounts -> Nat] /\ \A w \in members : stake'[w] \in Stakes
      BY <1>18, StakesAssumption DEF Rebond, ScoresTyped
  <2> QED  BY <1>18, <2>1 DEF Rebond, ScoresTyped, IdleThroughSudo, history
<1>10. ASSUME NEW v \in D, NEW r \in Records, r.idle <= state[v].idle, state' = [state EXCEPT ![v] = r],
              UNCHANGED <<members, seats, weights, judged, sudos, stake, results>>, fit' \in SUBSET fit
       PROVE  ScoresTyped' /\ IdleThroughSudo'
    BY <1>1, <1>10, OneRecord DEF ScoresTyped
<1>19. ASSUME NEW v \in Accounts, NEW amount \in Rewards, Reward(v, amount)
       PROVE  ScoresTyped' /\ IdleThroughSudo'
  <2> DEFINE r == [state[v] EXCEPT !.stake = @ + amount]
  <2>1. v \in D /\ r \in Records /\ r.idle <= state[v].idle
      BY <1>1, <1>19, StakesAssumption DEF Reward, Records
  <2>2. state' = [state EXCEPT ![v] = r]
      BY <1>19 DEF Reward
  <2> HIDE DEF r
  <2> QED  BY <1>19, <1>10, <2>1, <2>2 DEF Reward
<1>11. ASSUME NEW v \in Accounts, Slash(v) PROVE ScoresTyped' /\ IdleThroughSudo'
  <2> DEFINE r == [state[v] EXCEPT !.stake = 0]
  <2>1. v \in D /\ r \in Records /\ r.idle <= state[v].idle
      BY <1>1, <1>11 DEF Slash, Records
  <2>2. state' = [state EXCEPT ![v] = r]
      BY <1>11 DEF Slash
  <2> HIDE DEF r
  <2> QED  BY <1>11, <1>10, <2>1, <2>2 DEF Slash
<1>12. ASSUME NEW v \in Accounts, UpdateValidatorStakeScore(v) PROVE ScoresTyped' /\ IdleThroughSudo'
  <2> DEFINE r == Rescored(state[v], stake[v], state[v].inference)
  <2>1. v \in D /\ state[v] \in Records /\ stake[v] \in Nat /\ state[v].inference \in Nat /\ state[v].idle \in Nat
      BY <1>1, <1>12 DEF UpdateValidatorStakeScore, ScoresTyped, Records
  <2>2. r \in Records /\ r.idle = 0
    <3> DEFINE s == state[v]
               t == stake[v]
               i == state[v].inference
    <3>1. s \in Records /\ t \in Nat /\ i \in Nat
        BY <2>1
    <3>a. weights \in [pos : Nat, poi : Nat]
        BY DEF ScoresTyped
    <3> HIDE DEF s, t, i
    <3>2. Rescored(s, t, i) \in Records
        BY <3>1, <3>a, RescoredRecord
    <3>3. Rescored(s, t, i).idle = 0
        BY <3>1 DEF Rescored, Records
    <3> QED  BY <3>2, <3>3 DEF s, t, i
  <2>3. state' = [state EXCEPT ![v] = r]
      BY <1>12 DEF UpdateValidatorStakeScore
  <2>4. r.idle <= state[v].idle
      BY <2>1, <2>2
  <2> HIDE DEF r
  <2>5. UNCHANGED <<members, seats, weights, judged, sudos, stake, results>> /\ fit' \in SUBSET fit
      BY <1>12 DEF UpdateValidatorStakeScore, history
  <2> QED  BY <1>10, <2>1, <2>2, <2>3, <2>4, <2>5
<1>13. ASSUME NEW v \in Accounts, UpdateValidatorInferenceScore(v) PROVE ScoresTyped' /\ IdleThroughSudo'
  <2> DEFINE r == Rescored(state[v], state[v].stake, state[v].inference)
  <2>1. v \in D /\ state[v] \in Records /\ state[v].stake \in Nat /\ state[v].inference \in Nat /\ state[v].idle \in Nat
      BY <1>1, <1>13 DEF UpdateValidatorInferenceScore, Records
  <2>2. r \in Records /\ r.idle = 0
    <3> DEFINE s == state[v]
               t == state[v].stake
               i == state[v].inference
    <3>1. s \in Records /\ t \in Nat /\ i \in Nat
        BY <2>1
    <3>a. weights \in [pos : Nat, poi : Nat]
        BY DEF ScoresTyped
    <3> HIDE DEF s, t, i
    <3>2. Rescored(s, t, i) \in Records
        BY <3>1, <3>a, RescoredRecord
    <3>3. Rescored(s, t, i).idle = 0
        BY <3>1 DEF Rescored, Records
    <3> QED  BY <3>2, <3>3 DEF s, t, i
  <2>3. state' = [state EXCEPT ![v] = r]
      BY <1>13 DEF UpdateValidatorInferenceScore
  <2>4. r.idle <= state[v].idle
      BY <2>1, <2>2
  <2> HIDE DEF r
  <2>5. UNCHANGED <<members, seats, weights, judged, sudos, stake, results>> /\ fit' \in SUBSET fit
      BY <1>13 DEF UpdateValidatorInferenceScore, history
  <2> QED  BY <1>10, <2>1, <2>2, <2>3, <2>4, <2>5
<1>14. ASSUME NEW v \in Accounts, NEW result \in Results, SubmitInference(v, result)
       PROVE  ScoresTyped' /\ IdleThroughSudo'
  <2>1. \E E \in SUBSET Accounts : results' \in [E -> Nat]
    <3>1. PICK E \in SUBSET Accounts : results \in [E -> Nat]
        BY DEF ScoresTyped
    <3>2. results' \in [E \cup {v} -> Nat]
        BY <1>14, <3>1, StakesAssumption DEF SubmitInference
    <3> QED  BY <3>2
  <2>2. CASE v \in D
    <3> DEFINE r == [state[v] EXCEPT !.idle = 0]
    <3>1. r \in Records /\ r.idle <= state[v].idle
        BY <1>1, <2>2 DEF Records
    <3>2. state' = [state EXCEPT ![v] = r]
        BY <1>14, <1>1, <2>2 DEF SubmitInference
    <3> HIDE DEF r
    <3>3. /\ stake' \in [Accounts -> Nat] /\ \A w \in members : stake'[w] \in Stakes
          /\ UNCHANGED <<members, seats, weights, judged, sudos>> /\ fit' \in SUBSET fit
        BY <1>14 DEF SubmitInference, ScoresTyped, history
    <3> QED  BY <1>1, <2>1, <2>2, <3>1, <3>2, <3>3, OneRecord
  <2>3. CASE v \notin D
    <3>1. state' = state
        BY <1>14, <1>1, <2>3 DEF SubmitInference
    <3> QED  BY <1>14, <2>1, <3>1 DEF SubmitInference, ScoresTyped, IdleThroughSudo, history
  <2> QED  BY <2>2, <2>3
<1>15. ASSUME NEW v \in Accounts, SimulateInference(v) PROVE ScoresTyped' /\ IdleThroughSudo'
  <2> DEFINE r == [state[v] EXCEPT !.idle = 0]
  <2>1. v \in D /\ r \in Records /\ r.idle <= state[v].idle
      BY <1>1, <1>a, <1>15 DEF SimulateInference, Records
  <2>2. state' = [state EXCEPT ![v] = r]
      BY <1>15 DEF SimulateInference
  <2> HIDE DEF r
  <2> QED  BY <1>15, <1>10, <2>1, <2>2 DEF SimulateInference, history
<1>16. CASE UNCHANGED scoresVars
    BY <1>16 DEF scoresVars, history, ScoresTyped, IdleThroughSudo
<1> QED
    BY <1>2, <1>3, <1>4, <1>5, <1>6, <1>7, <1>8, <1>9, <1>11, <1>12, <1>13, <1>14, <1>15, <1>16, <1>17, <1>18, <1>19
       DEF ScoresNext

-----------------------------------------------------------------------------

(* Nothing that a regular block does takes a fit score below the minimum.  *)
LEMMA DecayedStaysFit ==
    ASSUME DecayIsSmall, NEW r \in Records, r.final >= MinScore
    PROVE  Decayed(r).final >= MinScore
<1>1. /\ r.final \in Nat /\ MaxScore \in Nat \ {0} /\ MinScore \in Nat /\ MinScore <= MaxScore
      /\ Precision \in Nat \ {0} /\ DecayRate \in Nat
    BY ScaleAssumption DEF Records
<1>2. CASE r.idle = 0
    BY <1>2 DEF Decayed
<1>3. CASE r.idle # 0
  <2> DEFINE f == r.final
  <2>1. Decayed(r).final = Least(MaxScore, f - ((f * DecayRate) \div Precision))
      BY <1>3 DEF Decayed, Records
  <2>2. f \in Nat /\ f >= MinScore
      BY <1>1
  <2> HIDE DEF f
  <2>3. Least(MaxScore, f - ((f * DecayRate) \div Precision)) = Least(MaxScore, f)
      BY <2>2, NoDecay
  <2> QED  BY <1>1, <2>1, <2>2, <2>3 DEF Least
<1> QED
    BY <1>2, <1>3

LEMMA RegularStaysFit ==
    ASSUME DecayIsSmall, NEW r \in Records, r.final >= MinScore, NEW n \in RegularRecord(r)
    PROVE  n.final >= MinScore
<1>1. Boosted(r) \in Records
    BY RecordsStay
<1>2. Boosted(r).final >= MinScore
  <2>1. r.final \in Nat /\ AuthorshipBoost \in Nat /\ MaxScore \in Nat /\ MinScore \in Nat /\ MinScore <= MaxScore
      BY ScaleAssumption DEF Records
  <2>2. Boosted(r).final = Least(MaxScore, r.final + AuthorshipBoost)
      BY DEF Boosted, Records
  <2> QED  BY <2>1, <2>2 DEF Least
<1>3. Decayed(r).final >= MinScore
    BY DecayedStaysFit
<1>4. Decayed(Boosted(r)).final >= MinScore
    BY <1>1, <1>2, DecayedStaysFit
<1> QED
    BY <1>2, <1>3, <1>4 DEF RegularRecord

(* As long as nobody changes the weights, the promise reads the same.      *)
LEMMA SameWeights ==
    ASSUME weights' = weights, StakesSuffice => \A v \in fit' : StaysFit(state'[v])
    PROVE  FitStayFit'
BY DEF FitStayFit, StakesSuffice, StaysFit, FinalScore

(* A step that writes one record so that it stays fit if it was.           *)
LEMMA OneFitRecord ==
    ASSUME ScoresTyped, FitStayFit, weights' = weights, fit' \in SUBSET fit,
           NEW v \in DOMAIN state, NEW r, state' = [state EXCEPT ![v] = r],
           StakesSuffice /\ v \in fit' /\ StaysFit(state[v]) => StaysFit(r)
    PROVE  FitStayFit'
<1>1. SUFFICES ASSUME StakesSuffice, NEW w \in fit' PROVE StaysFit(state'[w])
    BY SameWeights
<1>2. w \in DOMAIN state /\ StaysFit(state[w])
    BY <1>1 DEF FitStayFit, ScoresTyped
<1>3. \E D : state \in [D -> Records]
    BY DEF ScoresTyped
<1>4. CASE w = v
    BY <1>1, <1>2, <1>3, <1>4
<1>5. CASE w # v
  <2>1. state'[w] = state[w]
      BY <1>2, <1>3, <1>5
  <2> QED  BY <1>2, <2>1
<1> QED  BY <1>4, <1>5

LEMMA FitStep ==
    ASSUME DecayIsSmall, ScoresTyped, FitStayFit, [ScoresNext]_scoresVars
    PROVE  FitStayFit'
<1>1. PICK D \in SUBSET Accounts : state \in [D -> Records]
    BY DEF ScoresTyped
<1>a. /\ DOMAIN state = D /\ members \subseteq D /\ fit \subseteq members /\ weights \in [pos : Nat, poi : Nat]
      /\ \A w \in D : state[w] \in Records
    BY <1>1 DEF ScoresTyped
<1>2. CASE BoundaryBlock
  <2>1. SUFFICES ASSUME NEW v \in fit' PROVE StaysFit(state'[v])
      BY <1>2, SameWeights DEF BoundaryBlock
  <2>2. v \in members /\ v \in D /\ Aggregated[v].final >= MinScore
      BY <1>2, <1>a DEF BoundaryBlock
  <2>3. /\ Aggregated \in [D -> Records]
        /\ Aggregated[v].stake = StakeShare(v) /\ Aggregated[v].inference = InferenceScore(v)
        /\ Aggregated[v].final = FinalScore(StakeShare(v), InferenceScore(v))
      BY <1>1, <2>2, AggregatedType
  <2>4. /\ state'[v].stake = Aggregated[v].stake /\ state'[v].inference = Aggregated[v].inference
        /\ state'[v].final = Aggregated[v].final
    <3> DEFINE states == Aggregated
    <3>1. state' = Older(states) /\ states \in [D -> Records] /\ v \in D
        BY <1>2, <2>2, <2>3 DEF BoundaryBlock
    <3> HIDE DEF states
    <3>2. /\ Older(states)[v].stake = states[v].stake /\ Older(states)[v].inference = states[v].inference
          /\ Older(states)[v].final = states[v].final
        BY <3>1 DEF Older, Records
    <3> QED  BY <3>1, <3>2 DEF states
  <2> QED  BY <2>2, <2>3, <2>4 DEF StaysFit
<1>3. CASE RegularBlock
  <2>1. SUFFICES ASSUME StakesSuffice, NEW v \in fit' PROVE StaysFit(state'[v])
      BY <1>3, SameWeights DEF RegularBlock
  <2>2. v \in D /\ state[v] \in Records /\ StaysFit(state[v])
      BY <1>3, <1>a, <2>1 DEF RegularBlock, history, FitStayFit
  <2>3. state'[v] \in RegularRecord(state[v])
      BY <1>1, <1>3, <2>2, RegularStates
  <2> DEFINE r == state[v]
             n == state'[v]
  <2>4. r \in Records /\ r.final >= MinScore /\ n \in RegularRecord(r)
      BY <2>2, <2>3 DEF StaysFit
  <2> HIDE DEF r, n
  <2>5. n.final >= MinScore
      BY <2>4, RegularStaysFit
  <2>6. n.stake = r.stake /\ n.inference = r.inference
      BY <2>4, RegularIdle
  <2> QED  BY <2>2, <2>5, <2>6 DEF StaysFit, r, n
<1>4. CASE SudoAdvance
  <2>1. SUFFICES ASSUME StakesSuffice, NEW v \in fit' PROVE StaysFit(state'[v])
      BY <1>4, SameWeights DEF SudoAdvance
  <2>2. v \in D /\ StaysFit(state[v])
      BY <1>4, <1>a, <2>1 DEF SudoAdvance, FitStayFit
  <2>3. /\ state'[v].stake = state[v].stake /\ state'[v].inference = state[v].inference
        /\ state'[v].final = state[v].final
    <3>1. state' = Older(state)
        BY <1>4 DEF SudoAdvance
    <3>2. /\ Older(state)[v].stake = state[v].stake /\ Older(state)[v].inference = state[v].inference
          /\ Older(state)[v].final = state[v].final
        BY <1>1, <2>2 DEF Older, Records
    <3> QED  BY <3>1, <3>2
  <2> QED  BY <2>2, <2>3 DEF StaysFit
<1>5. ASSUME NEW pair \in WeightPairs, UpdateConsensusWeights(pair) PROVE FitStayFit'
    BY <1>5 DEF UpdateConsensusWeights, FitStayFit
<1>6. CASE UpdateWeightParameter
    BY <1>6 DEF UpdateWeightParameter, FitStayFit
<1>7. ASSUME NEW v \in Accounts, NEW amount \in Stakes, Join(v, amount) PROVE FitStayFit'
  <2>1. SUFFICES ASSUME StakesSuffice, NEW w \in fit' PROVE StaysFit(state'[w])
      BY <1>7, SameWeights DEF Join
  <2>2. w \in fit /\ w \in D /\ w # v /\ StaysFit(state[w])
      BY <1>7, <1>a, <2>1 DEF Join, history, FitStayFit
  <2>3. state'[w] = state[w]
      BY <1>7, <1>1, <2>2 DEF Join
  <2> QED  BY <2>2, <2>3
<1>8. ASSUME NEW v \in Accounts, Leave(v) PROVE FitStayFit'
  <2>1. SUFFICES ASSUME StakesSuffice, NEW w \in fit' PROVE StaysFit(state'[w])
      BY <1>8, SameWeights DEF Leave
  <2> QED  BY <1>8, <2>1 DEF Leave, FitStayFit
<1>9. ASSUME NEW v \in Accounts, NEW amount \in Stakes, IncreaseStake(v, amount) PROVE FitStayFit'
  <2> DEFINE r == [state[v] EXCEPT !.stake = @ + amount - stake[v]]
             old == state[v].stake
             new == state[v].stake + amount - stake[v]
             i == state[v].inference
  <2>1. /\ v \in D /\ state[v] \in Records /\ amount \in Nat /\ stake[v] \in Nat /\ amount > stake[v]
        /\ weights' = weights /\ fit' \in SUBSET fit
      BY <1>9, <1>a, StakesAssumption DEF IncreaseStake, ScoresTyped, history
  <2>2. state' = [state EXCEPT ![v] = r]
      BY <1>9 DEF IncreaseStake
  <2>3. r.stake = new /\ r.inference = i /\ r.final = state[v].final
      BY <2>1 DEF Records
  <2>4. old \in Nat /\ new \in Nat /\ old <= new /\ i \in Nat
      BY <2>1 DEF Records
  <2> HIDE DEF old, new, i
  <2>5. ASSUME StaysFit(state[v]) PROVE StaysFit(r)
    <3>1. state[v].final >= MinScore /\ FinalScore(old, i) >= MinScore
        BY <2>5 DEF StaysFit, old, i
    <3>2. FinalScore(new, i) >= MinScore
        BY <2>4, <3>1, <1>a, MoreStake
    <3> QED  BY <2>3, <3>1, <3>2 DEF StaysFit
  <2> HIDE DEF r
  <2> QED  BY <1>a, <2>1, <2>2, <2>5, OneFitRecord
<1>17. ASSUME NEW v \in Accounts, NEW left \in Stakes, DecreaseStake(v, left) PROVE FitStayFit'
  <2>1. SUFFICES ASSUME StakesSuffice, NEW w \in fit' PROVE StaysFit(state'[w])
      BY <1>17, SameWeights DEF DecreaseStake
  <2>2. w \in D /\ w # v /\ StaysFit(state[w])
      BY <1>17, <1>a, <2>1 DEF DecreaseStake, FitStayFit
  <2>3. state'[w] = state[w]
      BY <1>17, <1>1, <2>2 DEF DecreaseStake
  <2> QED  BY <2>2, <2>3
<1>18. ASSUME NEW v \in Accounts, NEW amount \in Stakes, Rebond(v, amount) PROVE FitStayFit'
    BY <1>18, SameWeights DEF Rebond, FitStayFit, history
<1>19. ASSUME NEW v \in Accounts, NEW amount \in Rewards, Reward(v, amount) PROVE FitStayFit'
  <2> DEFINE r == [state[v] EXCEPT !.stake = @ + amount]
             old == state[v].stake
             new == state[v].stake + amount
             i == state[v].inference
  <2>1. v \in D /\ state[v] \in Records /\ amount \in Nat /\ weights' = weights /\ fit' \in SUBSET fit
      BY <1>19, <1>a, StakesAssumption DEF Reward
  <2>2. state' = [state EXCEPT ![v] = r]
      BY <1>19 DEF Reward
  <2>3. r.stake = new /\ r.inference = i /\ r.final = state[v].final
      BY <2>1 DEF Records
  <2>4. old \in Nat /\ new \in Nat /\ old <= new /\ i \in Nat
      BY <2>1 DEF Records
  <2> HIDE DEF old, new, i
  <2>5. ASSUME StaysFit(state[v]) PROVE StaysFit(r)
    <3>1. state[v].final >= MinScore /\ FinalScore(old, i) >= MinScore
        BY <2>5 DEF StaysFit, old, i
    <3>2. FinalScore(new, i) >= MinScore
        BY <2>4, <3>1, <1>a, MoreStake
    <3> QED  BY <2>3, <3>1, <3>2 DEF StaysFit
  <2> HIDE DEF r
  <2> QED  BY <1>a, <2>1, <2>2, <2>5, OneFitRecord
<1>11. ASSUME NEW v \in Accounts, Slash(v) PROVE FitStayFit'
  <2>1. SUFFICES ASSUME StakesSuffice, NEW w \in fit' PROVE StaysFit(state'[w])
      BY <1>11, SameWeights DEF Slash
  <2>2. w \in D /\ w # v /\ StaysFit(state[w])
      BY <1>11, <1>a, <2>1 DEF Slash, FitStayFit
  <2>3. state'[w] = state[w]
      BY <1>11, <1>1, <2>2 DEF Slash
  <2> QED  BY <2>2, <2>3
<1>12. ASSUME NEW v \in Accounts, UpdateValidatorStakeScore(v) PROVE FitStayFit'
  <2> DEFINE r == Rescored(state[v], stake[v], state[v].inference)
             i == state[v].inference
             amount == stake[v]
  <2>1. /\ v \in D /\ state[v] \in Records /\ weights' = weights /\ fit' \in SUBSET fit
        /\ state' = [state EXCEPT ![v] = r]
      BY <1>12, <1>a DEF UpdateValidatorStakeScore, history
  <2>2. ASSUME StakesSuffice, v \in fit' PROVE StaysFit(r)
    <3>1. amount \in Stakes /\ i \in Nat
        BY <2>1, <2>2, <1>a DEF ScoresTyped, Records
    <3>2. r.stake = amount /\ r.inference = i /\ r.final = FinalScore(amount, i)
        BY <2>1 DEF Rescored, Records
    <3> HIDE DEF r, amount, i
    <3>3. FinalScore(amount, i) >= MinScore
        BY <1>a, <2>2, <3>1, StakeIsEnough
    <3> QED  BY <3>2, <3>3 DEF StaysFit
  <2> HIDE DEF r
  <2> QED  BY <1>a, <2>1, <2>2, OneFitRecord
<1>13. ASSUME NEW v \in Accounts, UpdateValidatorInferenceScore(v) PROVE FitStayFit'
  <2> DEFINE r == Rescored(state[v], state[v].stake, state[v].inference)
  <2>1. /\ v \in D /\ state[v] \in Records /\ weights' = weights /\ fit' \in SUBSET fit
        /\ state' = [state EXCEPT ![v] = r]
      BY <1>13, <1>a DEF UpdateValidatorInferenceScore, history
  <2>2. /\ r.stake = state[v].stake /\ r.inference = state[v].inference
        /\ r.final = FinalScore(state[v].stake, state[v].inference)
      BY <2>1 DEF Rescored, Records
  <2> HIDE DEF r
  <2>3. StaysFit(state[v]) => StaysFit(r)
      BY <2>2 DEF StaysFit
  <2> QED  BY <1>a, <2>1, <2>3, OneFitRecord
<1>b. ASSUME NEW v \in D, state' = [state EXCEPT ![v].idle = 0], weights' = weights, fit' \in SUBSET fit
      PROVE  FitStayFit'
  <2> DEFINE r == [state[v] EXCEPT !.idle = 0]
  <2>1. r.stake = state[v].stake /\ r.inference = state[v].inference /\ r.final = state[v].final
      BY <1>a DEF Records
  <2>2. state' = [state EXCEPT ![v] = r]
      BY <1>b
  <2> HIDE DEF r
  <2>3. StaysFit(state[v]) => StaysFit(r)
      BY <2>1 DEF StaysFit
  <2> QED  BY <1>a, <1>b, <2>2, <2>3, OneFitRecord
<1>c. ASSUME UNCHANGED <<state, weights, fit>> PROVE FitStayFit'
    BY <1>c, SameWeights DEF FitStayFit
<1>14. ASSUME NEW v \in Accounts, NEW result \in Results, SubmitInference(v, result) PROVE FitStayFit'
  <2>1. CASE v \in D
      BY <1>14, <1>a, <1>b, <2>1 DEF SubmitInference, history
  <2>2. CASE v \notin D
      BY <1>14, <1>a, <1>c, <2>2 DEF SubmitInference, history
  <2> QED  BY <2>1, <2>2
<1>15. ASSUME NEW v \in Accounts, SimulateInference(v) PROVE FitStayFit'
  <2>1. v \in D
      BY <1>15, <1>a DEF SimulateInference, ScoresTyped
  <2> QED  BY <1>15, <1>b, <2>1 DEF SimulateInference, history
<1>16. CASE UNCHANGED scoresVars
    BY <1>16, <1>c DEF scoresVars, history
<1> QED
    BY <1>2, <1>3, <1>4, <1>5, <1>6, <1>7, <1>8, <1>9, <1>11, <1>12, <1>13, <1>14, <1>15, <1>16, <1>17, <1>18, <1>19
       DEF ScoresNext

-----------------------------------------------------------------------------

(* No member that a boundary has judged looks inactive for more epochs     *)
(* than the one it was judged in and those that sudo has advanced.         *)
THEOREM JudgedStayActive == ScoresSpec => []IdleThroughSudo
<1>1. ScoresInit => IdleInv
    BY ScoresBegin DEF ScoresInv, IdleInv
<1>2. IdleInv /\ [ScoresNext]_scoresVars => IdleInv'
    BY ScoresStep DEF IdleInv
<1>3. IdleInv => IdleThroughSudo
    BY DEF IdleInv
<1> QED
    BY <1>1, <1>2, <1>3, PTL DEF ScoresSpec

THEOREM ScoresInvariant ==
    ASSUME DecayIsSmall
    PROVE  ScoresSpec => []ScoresInv
<1>1. ScoresInit => ScoresInv
    BY ScoresBegin
<1>2. ScoresInv /\ [ScoresNext]_scoresVars => ScoresInv'
    BY ScoresStep, FitStep DEF ScoresInv, IdleInv
<1> QED
    BY <1>1, <1>2, PTL DEF ScoresSpec

(* The checks of a regular block find nothing against a fit validator.     *)
LEMMA FitKeepsSeat ==
    ASSUME DecayIsSmall, ScoresInv, RegularBlock, sudos < MaxInactiveEpochs, StakesSuffice
    PROVE  (seats \ seats') \cap fit = {}
<1> SUFFICES ASSUME NEW v \in (seats \ seats') \cap fit PROVE FALSE
    OBVIOUS
<1>1. PICK D \in SUBSET Accounts : state \in [D -> Records]
    BY DEF ScoresInv, IdleInv, ScoresTyped
<1>2. v \in D /\ v \in judged /\ state[v] \in Records /\ StaysFit(state[v]) /\ state[v].idle <= 1 + sudos
    BY <1>1 DEF ScoresInv, IdleInv, ScoresTyped, FitStayFit, IdleThroughSudo
<1>3. PICK author \in Authors :
         /\ state' = DecayedMembers(Authored(author), blockInEpoch')
         /\ seats' = seats \ (DecayedOut(Authored(author), blockInEpoch') \cup Underperforming(state', blockInEpoch'))
    BY DEF RegularBlock
<1>4. Authored(author)[v] \in Records /\ Authored(author)[v].final >= MinScore
  <2> DEFINE r == state[v]
  <2>1. r \in Records /\ r.final >= MinScore
      BY <1>2 DEF StaysFit
  <2>2. Authored(author)[v] = r \/ Authored(author)[v] = Boosted(r)
      BY <1>1, <1>2, AuthoredType
  <2> HIDE DEF r
  <2>3. Boosted(r) \in Records /\ Boosted(r).final >= MinScore
      BY <2>1, RecordsStay, RegularStaysFit DEF RegularRecord
  <2> QED  BY <2>1, <2>2, <2>3
<1>5. v \notin DecayedOut(Authored(author), blockInEpoch')
  <2> DEFINE r == Authored(author)[v]
  <2>1. r \in Records /\ r.final >= MinScore
      BY <1>4
  <2> HIDE DEF r
  <2>2. Decayed(r).final >= MinScore
      BY <2>1, DecayedStaysFit
  <2>3. Decayed(r).final \in Nat /\ MinScore \in Nat
    <3>1. Decayed(r) \in Records
        BY <2>1, RecordsStay
    <3> QED  BY <3>1, ScaleAssumption DEF Records
  <2> QED  BY <2>2, <2>3 DEF DecayedOut, r
<1>6. ~LosesSeat(state'[v])
  <2> DEFINE r == state[v]
             n == state'[v]
  <2>1. r \in Records /\ r.final >= MinScore /\ n \in RegularRecord(r) /\ n \in Records /\ r.idle <= 1 + sudos
      BY <1>1, <1>2, RegularStates DEF StaysFit
  <2> HIDE DEF r, n
  <2>2. n.final >= MinScore
      BY <2>1, RegularStaysFit
  <2>3. n.idle <= r.idle
      BY <2>1, RegularIdle
  <2>4. n.final \in Nat /\ n.idle \in Nat /\ r.idle \in Nat /\ MinScore \in Nat /\ MaxInactiveEpochs \in Nat /\ sudos \in Nat
      BY <2>1, ScaleAssumption DEF Records, ScoresInv, IdleInv, ScoresTyped
  <2> QED  BY <2>1, <2>2, <2>3, <2>4 DEF LosesSeat, n
<1> QED
    BY <1>3, <1>5, <1>6 DEF Underperforming

(* A fit validator keeps its seat until the next boundary, if the decay of *)
(* a score within the maximum rounds to nothing, as it does in the         *)
(* runtime: 5 hundredths of a percent of at most 100.                      *)
THEOREM FitSeatsAreKept ==
    ASSUME DecayIsSmall
    PROVE  ScoresSpec => FitKeepSeats
<1>1. ScoresInv => [ RegularBlock =>
          \/ (seats \ seats') \cap fit = {}
          \/ sudos >= MaxInactiveEpochs
          \/ \E amount \in Stakes : amount * weights.pos < MinScore * Precision ]_scoresVars
  <2> SUFFICES ASSUME ScoresInv, RegularBlock, ~(sudos >= MaxInactiveEpochs),
                      ~ \E amount \in Stakes : amount * weights.pos < MinScore * Precision
               PROVE  (seats \ seats') \cap fit = {}
      OBVIOUS
  <2>1. sudos < MaxInactiveEpochs
      BY ScaleAssumption DEF ScoresInv, IdleInv, ScoresTyped
  <2>2. StakesSuffice
    <3> SUFFICES ASSUME NEW amount \in Stakes PROVE amount * weights.pos >= MinScore * Precision
        BY DEF StakesSuffice
    <3>1. amount \in Nat /\ weights.pos \in Nat /\ MinScore \in Nat /\ Precision \in Nat
        BY StakesAssumption, ScaleAssumption DEF ScoresInv, IdleInv, ScoresTyped
    <3>2. amount * weights.pos \in Nat /\ MinScore * Precision \in Nat
        BY <3>1
    <3> QED  BY <3>2
  <2> QED  BY <2>1, <2>2, FitKeepsSeat
<1> QED
    BY <1>1, ScoresInvariant, PTL DEF FitKeepSeats

-----------------------------------------------------------------------------

(* Somebody has at least the average.                                      *)
LEMMA Average ==
    ASSUME NEW D, IsFiniteSet(D), D # {}, NEW f \in [D -> Nat]
    PROVE  \E v \in D : f[v] * Cardinality(D) >= Sum(f, D)
<1> DEFINE n == Cardinality(D)
           sum == Sum(f, D)
           ones == [v \in D |-> 1]
<1>1. n \in Nat \ {0} /\ sum \in Nat
    BY FS_CardinalityType, FS_EmptySet, SumMonotone
<1>2. Sum(ones, D) = n
    BY CountingSum
<1>3. SUFFICES ASSUME \A v \in D : f[v] * n < sum PROVE FALSE
  <2>1. \A v \in D : f[v] * n \in Nat
      BY <1>1
  <2> HIDE DEF n, sum
  <2>2. (\E v \in D : f[v] * n >= sum) \/ \A v \in D : f[v] * n < sum
      BY <1>1, <2>1
  <2> QED  BY <2>2 DEF n, sum
<1> DEFINE b == sum - 1
<1>4. b \in Nat /\ \A v \in D : f[v] * n <= ones[v] * b
  <2>1. PICK w \in D : TRUE
      OBVIOUS
  <2>2. f[w] * n \in Nat /\ f[w] * n < sum
      BY <1>1, <1>3, <2>1
  <2> HIDE DEF n, sum
  <2>3. b \in Nat
      BY <1>1, <2>2
  <2>4. ASSUME NEW v \in D PROVE f[v] * n <= ones[v] * b
    <3>1. f[v] * n \in Nat /\ f[v] * n < sum /\ ones[v] = 1
        BY <1>1, <1>3
    <3>2. 1 * b = b
        BY <2>3
    <3> QED  BY <1>1, <3>1, <3>2
  <2> QED  BY <2>3, <2>4
<1>5. ones \in [D -> Nat]
    OBVIOUS
<1> HIDE DEF n, ones, b
<1>6. sum * n <= n * b
  <2>1. \A S \in SUBSET D : Sum(f, S) * n <= Sum(ones, S) * b
      BY <1>1, <1>4, <1>5, ScaledSums
  <2> QED  BY <1>2, <2>1
<1> HIDE DEF sum
<1>7. n * b = sum * n - n
    BY <1>1 DEF b
<1>8. sum * n \in Nat
    BY <1>1
<1> QED
    BY <1>1, <1>6, <1>7, <1>8

(* Whoever has the average is given a fair share of the scale, rounded     *)
(* down once only.                                                         *)
LEMMA EvenShare ==
    ASSUME ScoresTyped, members # {}
    PROVE  \E v \in members : StakeShare(v) >= StakeScale \div Cardinality(members)
<1>1. IsFiniteSet(members) /\ stake \in [Accounts -> Nat] /\ members \in SUBSET Accounts
    BY MembersAssumption, FS_Subset DEF ScoresTyped
<1> DEFINE held == [v \in members |-> stake[v]]
           n == Cardinality(members)
           total == TotalStake
<1>2. held \in [members -> Nat] /\ Sum(held, members) = total
  <2>1. Units(held, members) = Units(stake, members)
      BY DEF Units
  <2> QED  BY <1>1, <2>1 DEF TotalStake, Sum
<1>3. PICK v \in members : held[v] * n >= Sum(held, members)
    BY <1>1, <1>2, Average
<1> DEFINE own == stake[v]
<1>4. own \in Nat \ {0} /\ n \in Nat \ {0} /\ own * n >= total /\ StakeScale \in Nat \ {0}
    BY <1>1, <1>2, <1>3, FS_CardinalityType, FS_EmptySet, StakesAssumption, ScaleAssumption DEF ScoresTyped
<1>5. total \in Nat \ {0}
  <2>1. v \in Accounts /\ {v} \in SUBSET members /\ IsFiniteSet(Accounts)
      BY <1>1, MembersAssumption
  <2>2. Sum(stake, {v}) = own
      BY <1>1, <2>1, SumOne
  <2>3. Sum(stake, {v}) <= Sum(stake, members) /\ Sum(stake, members) \in Nat
      BY <1>1, <2>1, SumMonotone
  <2> QED  BY <1>4, <2>2, <2>3 DEF TotalStake
<1>6. StakeShare(v) = (own * StakeScale) \div total
    BY <1>5 DEF StakeShare
<1> DEFINE q == StakeScale \div n
           share == (own * StakeScale) \div total
<1> HIDE DEF own, n, total, held
<1>7. q \in Nat /\ q * n <= StakeScale
    BY <1>4, Rounding
<1>8. own * StakeScale \in Nat
    BY <1>4
<1>9. share \in Nat /\ own * StakeScale < (share + 1) * total
  <2> DEFINE x == own * StakeScale
             r == x % total
  <2>1. share = x \div total
      OBVIOUS
  <2> HIDE DEF x
  <2>2. x \in Nat
      BY <1>8 DEF x
  <2>3. share \in Nat /\ x = total * share + r /\ r \in 0 .. total - 1
      BY <1>5, <2>1, <2>2
  <2> HIDE DEF share, r
  <2>4. total * share = share * total /\ (share + 1) * total = share * total + total /\ share * total \in Nat
      BY <1>5, <2>3
  <2>5. x < (share + 1) * total
      BY <1>5, <2>2, <2>3, <2>4
  <2> QED  BY <2>3, <2>5 DEF x
<1> HIDE DEF q, share
<1>10. q * total <= own * StakeScale
  <2>1. q * total <= q * (own * n)
      BY <1>4, <1>5, <1>7
  <2>2. q * (own * n) = own * (q * n)
      BY <1>4, <1>7
  <2>3. own * (q * n) <= own * StakeScale
      BY <1>4, <1>7
  <2>4. q * total \in Nat /\ q * (own * n) \in Nat
      BY <1>4, <1>5, <1>7
  <2> QED  BY <1>8, <2>1, <2>2, <2>3, <2>4
<1>11. share >= q
  <2>1. CASE q >= share + 1
    <3>1. q * total >= (share + 1) * total
        BY <1>5, <1>7, <1>9, <2>1
    <3>2. q * total \in Nat /\ (share + 1) * total \in Nat
        BY <1>5, <1>7, <1>9
    <3> QED  BY <1>8, <1>9, <1>10, <3>1, <3>2
  <2> QED  BY <1>7, <1>9, <2>1
<1> QED
    BY <1>6, <1>11 DEF q, share, n

(* At a boundary somebody is fit.                                          *)
LEMMA BoundaryFindsFit ==
    ASSUME ScoresTyped, BoundaryBlock, members # {},
           ((StakeScale \div Cardinality(members)) * weights.pos) \div Precision >= MinScore
    PROVE  \E v \in members : state'[v].final >= MinScore
<1>1. PICK D \in SUBSET Accounts : state \in [D -> Records]
    BY DEF ScoresTyped
<1>2. PICK v \in members : StakeShare(v) >= StakeScale \div Cardinality(members)
    BY EvenShare
<1> DEFINE q == StakeScale \div Cardinality(members)
           share == StakeShare(v)
           i == InferenceScore(v)
<1>3. /\ Aggregated \in [D -> Records] /\ v \in D
      /\ Aggregated[v].final = FinalScore(share, i) /\ share \in Nat /\ i \in Nat
    BY <1>1, AggregatedType DEF ScoresTyped
<1>4. state'[v].final = FinalScore(share, i)
  <2> DEFINE states == Aggregated
  <2>1. state' = Older(states) /\ states \in [D -> Records] /\ v \in D
      BY <1>3 DEF BoundaryBlock
  <2> HIDE DEF states
  <2>2. Older(states)[v].final = states[v].final
      BY <2>1 DEF Older, Records
  <2> QED  BY <1>3, <2>1, <2>2 DEF states
<1>5. q \in Nat /\ q <= share
  <2>1. IsFiniteSet(members)
      BY MembersAssumption, FS_Subset DEF ScoresTyped
  <2>2. Cardinality(members) \in Nat \ {0}
      BY <2>1, FS_CardinalityType, FS_EmptySet
  <2>3. q \in Nat
      BY <2>2, ScaleAssumption, Rounding
  <2> QED  BY <1>2, <1>3, <2>3
<1>6. (q * weights.pos) \div Precision >= MinScore
    OBVIOUS
<1> HIDE DEF q, share, i
<1>7. /\ weights \in [pos : Nat, poi : Nat] /\ weights.pos \in Nat /\ weights.poi \in Nat
      /\ Precision \in Nat \ {0} /\ MinScore \in Nat /\ MinScore <= MaxScore
    BY ScaleAssumption DEF ScoresTyped
<1>8. MinScore * Precision <= q * weights.pos
  <2> DEFINE x == q * weights.pos
             z == x \div Precision
  <2>1. x \in Nat
      BY <1>5, <1>7
  <2>2. z >= MinScore
      BY <1>6
  <2> HIDE DEF x
  <2>3. z \in Nat /\ z * Precision <= x
      BY <1>7, <2>1, Rounding
  <2> HIDE DEF z
  <2>4. MinScore * Precision <= z * Precision
      BY <1>7, <2>2, <2>3
  <2>5. MinScore * Precision \in Nat /\ z * Precision \in Nat
      BY <1>7, <2>3
  <2>6. MinScore * Precision <= x
      BY <2>1, <2>3, <2>4, <2>5
  <2> QED  BY <2>6 DEF x
<1>9. q * weights.pos <= share * weights.pos
    BY <1>3, <1>5, <1>7
<1>10. MinScore * Precision <= share * weights.pos + i * weights.poi
  <2>1. /\ MinScore * Precision \in Nat /\ q * weights.pos \in Nat
        /\ share * weights.pos \in Nat /\ i * weights.poi \in Nat
      BY <1>3, <1>5, <1>7
  <2> QED  BY <1>8, <1>9, <2>1
<1>11. FinalScore(share, i) >= MinScore
    BY <1>3, <1>7, <1>10, FinalScoreMonotone
<1> QED
    BY <1>4, <1>11

(* However the stakes are spread, a boundary leaves somebody fit, if an    *)
(* even share is worth the minimum.                                        *)
THEOREM SomebodyIsFit == ScoresSpec => SomebodyFit
<1>1. ScoresInit => IdleInv
    BY ScoresBegin DEF ScoresInv, IdleInv
<1>2. IdleInv /\ [ScoresNext]_scoresVars => IdleInv'
    BY ScoresStep DEF IdleInv
<1>3. IdleInv => [ /\ BoundaryBlock
               /\ members # {}
               /\ ((StakeScale \div Cardinality(members)) * weights.pos) \div Precision >= MinScore
               => \E v \in members : state'[v].final >= MinScore ]_scoresVars
    BY BoundaryFindsFit DEF IdleInv
<1> QED
    BY <1>1, <1>2, <1>3, PTL DEF ScoresSpec, SomebodyFit

=============================================================================
