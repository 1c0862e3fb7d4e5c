--------------------------- MODULE DvfVoting_proofs ---------------------------
(***************************************************************************)
(* Proofs about voting across the nodes, for any network, any tree of      *)
(* blocks, any weights and any checkpoint interval: what a pool holds      *)
(* cannot support two blocks in one round, and what a node submits is a    *)
(* quorum of gossiped votes.  Both follow from the votes alone; nothing is *)
(* assumed of the order in which blocks, votes and restarts come.  What a  *)
(* client has finalized stays on the chain of its best block: that rests   *)
(* on the tree, whose ancestors are those of the recursive function.       *)
(***************************************************************************)
EXTENDS DvfVoting, VoteWeights_proofs, TLAPS

Checkpoints == {b \in Blocks : IsCheckpointBlock(b)}

(* The part of the types that voting needs.                                *)
VotingTypes ==
    /\ chain \in [Blocks -> [round : Nat, head : Blocks]]
    /\ imported \in [Nodes -> SUBSET Blocks]
    /\ best \in [Nodes -> Blocks]
    /\ pending \in [Nodes -> Seq(Checkpoints)]
    /\ wire \subseteq [voter : Nodes, round : Nat, block : Checkpoints]
    /\ pool \in [Nodes -> SUBSET wire]
    /\ building \in [Nodes -> {Idle} \cup [round : Nat, block : Blocks]]
    /\ justified \subseteq Justification

(* A pool holds one vote per round and validator.                          *)
OneVotePerVoter ==
    \A n \in Nodes : \A x, y \in pool[n] :
        (x.voter = y.voter /\ x.round = y.round) => x = y

IInv == VotingTypes /\ OneVotePerVoter /\ JustificationsAreQuorums

-----------------------------------------------------------------------------

(* An insertion adds the vote or nothing, and keeps one vote per voter.    *)
LEMMA InsertedKeeps ==
    ASSUME VotingTypes, OneVotePerVoter,
           NEW n \in Nodes,
           NEW vote \in [voter : Nodes, round : Nat, block : Checkpoints]
    PROVE  /\ Inserted(n, vote) \subseteq pool[n] \cup {vote}
           /\ \A x, y \in Inserted(n, vote) :
                (x.voter = y.voter /\ x.round = y.round) => x = y
BY DEF Inserted, HasVoted, OneVotePerVoter

(* The notifications are of checkpoints only.                              *)
LEMMA NotifiedCheckpoints ==
    ASSUME VotingTypes, NEW n \in Nodes, NEW b \in Blocks
    PROVE  Notified(n, b) \in Seq(Checkpoints)
BY DEF VotingTypes, Notified, Checkpoints

LEMMA InitInv == Init => IInv
<1> SUFFICES ASSUME Init PROVE IInv
  OBVIOUS
<1>1. pending \in [Nodes -> Seq(Checkpoints)]
  BY DEF Init
<1>2. chain \in [Blocks -> [round : Nat, head : Blocks]]
  BY TreeAssumption DEF Init
<1> QED
  BY <1>1, <1>2, TreeAssumption
  DEF Init, IInv, VotingTypes, OneVotePerVoter, JustificationsAreQuorums

LEMMA IInvStep == IInv /\ [Next]_vars => IInv'
<1> SUFFICES ASSUME IInv, [Next]_vars PROVE IInv'
  OBVIOUS
<1> USE DEF IInv
<1>1. ASSUME NEW n \in Nodes, NEW b \in Blocks, Produce(n, b) PROVE IInv'
  <2>1. chain' \in [Blocks -> [round : Nat, head : Blocks]]
    <3>1. CASE chain' = [chain EXCEPT ![b] = chain[Parent[b]]]
      <4>1. Parent[b] \in Blocks
        BY <1>1 DEF Produce, VotingTypes
      <4> QED BY <3>1, <4>1 DEF VotingTypes
    <3>2. ASSUME NEW j \in justified,
                 chain' = [chain EXCEPT ![b] = [round |-> j.round + 1, head |-> j.block]]
          PROVE  chain' \in [Blocks -> [round : Nat, head : Blocks]]
      <4>1. j.round + 1 \in Nat /\ j.block \in Blocks
        BY DEF VotingTypes, Justification
      <4> QED BY <3>2, <4>1 DEF VotingTypes
    <3> QED BY <1>1, <3>1, <3>2 DEF Produce
  <2>2. pending' \in [Nodes -> Seq(Checkpoints)]
    BY <1>1, NotifiedCheckpoints DEF Produce, VotingTypes
  <2>3. VotingTypes'
    BY <1>1, <2>1, <2>2 DEF Produce, VotingTypes, voting, aggregator, Checkpoints, IsCheckpointBlock
  <2> QED BY <1>1, <2>3 DEF Produce, OneVotePerVoter, JustificationsAreQuorums, voting, aggregator
<1>2. ASSUME NEW n \in Nodes, NEW b \in Blocks, Import(n, b) PROVE IInv'
  <2>1. pending' \in [Nodes -> Seq(Checkpoints)]
    BY <1>2, NotifiedCheckpoints DEF Import, VotingTypes
  <2>2. best' \in [Nodes -> Blocks]
    BY <1>2 DEF Import, VotingTypes
  <2> QED
    BY <1>2, <2>1, <2>2
    DEF Import, VotingTypes, OneVotePerVoter, JustificationsAreQuorums, voting, aggregator
<1>3. ASSUME NEW n \in Nodes, CreateVote(n) PROVE IInv'
  <2> DEFINE b == Head(pending[n])
             vote == [voter |-> n, round |-> View(n).round, block |-> b]
  <2>1. b \in Checkpoints /\ Tail(pending[n]) \in Seq(Checkpoints)
    BY <1>3 DEF CreateVote, VotingTypes
  <2>2. vote \in [voter : Nodes, round : Nat, block : Checkpoints]
    BY <2>1 DEF VotingTypes, View
  <2>3. pending' \in [Nodes -> Seq(Checkpoints)]
    BY <1>3, <2>1 DEF CreateVote, VotingTypes
  <2>4. CASE UNCHANGED <<wire, pool>>
    BY <1>3, <2>3, <2>4
    DEF CreateVote, VotingTypes, OneVotePerVoter, JustificationsAreQuorums, aggregator
  <2>5. CASE /\ pool' = [pool EXCEPT ![n] = Inserted(n, vote)]
             /\ wire' = wire \cup {vote}
    <3>1. pool' \in [Nodes -> SUBSET wire']
      BY <2>2, <2>5, InsertedKeeps DEF VotingTypes
    <3>2. OneVotePerVoter'
      BY <2>2, <2>5, InsertedKeeps DEF VotingTypes, OneVotePerVoter
    <3>3. VotingTypes'
      BY <1>3, <2>2, <2>3, <2>5, <3>1 DEF CreateVote, VotingTypes, aggregator
    <3>4. JustificationsAreQuorums'
      BY <1>3, <2>5 DEF CreateVote, JustificationsAreQuorums, aggregator
    <3> QED BY <3>2, <3>3, <3>4
  <2> QED BY <1>3, <2>4, <2>5 DEF CreateVote
<1>4. ASSUME NEW n \in Nodes, NEW vote \in wire, ReceiveVote(n, vote) PROVE IInv'
  <2>1. vote \in [voter : Nodes, round : Nat, block : Checkpoints]
    BY DEF VotingTypes
  <2>2. pool' \in [Nodes -> SUBSET wire]
    BY <1>4, <2>1, InsertedKeeps DEF ReceiveVote, VotingTypes
  <2>3. OneVotePerVoter'
    BY <1>4, <2>1, InsertedKeeps DEF ReceiveVote, VotingTypes, OneVotePerVoter
  <2> QED
    BY <1>4, <2>2, <2>3
    DEF ReceiveVote, VotingTypes, JustificationsAreQuorums, client, aggregator
<1>5. ASSUME NEW n \in Nodes, Trigger(n) PROVE IInv'
  <2>1. PICK b \in Quorums(n) :
            building' = [building EXCEPT ![n] = [round |-> View(n).round, block |-> b]]
    BY <1>5 DEF Trigger
  <2>2. b \in Blocks /\ View(n).round \in Nat
    BY <2>1 DEF Quorums, VotingTypes, View
  <2>3. building' \in [Nodes -> {Idle} \cup [round : Nat, block : Blocks]]
    BY <2>1, <2>2 DEF VotingTypes
  <2> QED
    BY <1>5, <2>3
    DEF Trigger, VotingTypes, OneVotePerVoter, JustificationsAreQuorums, client, voting
<1>6. ASSUME NEW n \in Nodes, NEW Q \in SUBSET Nodes, Finalize(n, Q) PROVE IInv'
  <2> DEFINE b == building[n].block
             r == building[n].round
             j == [round |-> r, block |-> b, voters |-> Q]
  <2>1. b \in Blocks /\ r \in Nat
    BY <1>6 DEF Finalize, VotingTypes
  <2>2. /\ IsQuorum(NodeWeight, Q)
        /\ Q # {}
        /\ \A v \in Q : [voter |-> v, round |-> r, block |-> b] \in pool[n]
    BY <1>6 DEF Finalize, Selection, VotersFor
  <2>3. \A v \in Q : [voter |-> v, round |-> r, block |-> b] \in wire
    BY <2>2 DEF VotingTypes
  <2>4. IsCheckpointBlock(b)
    <3>1. PICK v \in Q : [voter |-> v, round |-> r, block |-> b] \in wire
      BY <2>2, <2>3
    <3>2. [voter |-> v, round |-> r, block |-> b].block \in Checkpoints
      BY <3>1 DEF VotingTypes
    <3> QED BY <3>2 DEF Checkpoints
  <2>5. justified' \subseteq justified \cup {j}
    BY <1>6 DEF Finalize
  <2>6. JustificationsAreQuorums'
    BY <1>6, <2>2, <2>3, <2>4, <2>5
    DEF Finalize, JustificationsAreQuorums, voting, IsCheckpointBlock
  <2>7. justified' \subseteq Justification
    BY <2>1, <2>5 DEF VotingTypes, Justification
  <2>8. best' \in [Nodes -> Blocks]
    BY <1>6, <2>1 DEF Finalize, VotingTypes
  <2> QED
    BY <1>6, <2>6, <2>7, <2>8 DEF Finalize, VotingTypes, OneVotePerVoter, voting
<1>7. ASSUME NEW n \in Nodes, GiveUp(n) PROVE IInv'
  BY <1>7 DEF GiveUp, VotingTypes, OneVotePerVoter, JustificationsAreQuorums, client, voting
<1>8. ASSUME NEW n \in Nodes, SyncFinality(n) PROVE IInv'
  BY <1>8
  DEF SyncFinality, VotingTypes, OneVotePerVoter, JustificationsAreQuorums, aggregator
<1>9. ASSUME NEW n \in Nodes, Restart(n) PROVE IInv'
  <2>1. pending' \in [Nodes -> Seq(Checkpoints)]
    BY <1>9 DEF Restart, VotingTypes
  <2> QED
    BY <1>9, <2>1
    DEF Restart, VotingTypes, OneVotePerVoter, JustificationsAreQuorums
<1>10. CASE UNCHANGED vars
  BY <1>10
  DEF vars, client, voting, aggregator, VotingTypes, OneVotePerVoter, JustificationsAreQuorums
<1> QED
  BY <1>1, <1>2, <1>3, <1>4, <1>5, <1>6, <1>7, <1>8, <1>9, <1>10 DEF Next, Step

-----------------------------------------------------------------------------

(* In a pool with one vote per voter the supporters of two blocks of one   *)
(* round are different validators; two quorums would have to share one.    *)
LEMMA NoTwoQuorums ==
    ASSUME IInv, Total(NodeWeight) > 50
    PROVE  OneQuorumPerRound
<1> SUFFICES ASSUME NEW n \in Nodes,
                    NEW x \in UNION {pool[m] : m \in Nodes},
                    NEW y \in UNION {pool[m] : m \in Nodes},
                    x.round = y.round, x.block # y.block,
                    IsQuorum(NodeWeight, VotersFor(n, x.round, x.block)),
                    IsQuorum(NodeWeight, VotersFor(n, y.round, y.block))
             PROVE  FALSE
  BY DEF OneQuorumPerRound
<1> DEFINE S == VotersFor(n, x.round, x.block)
           T == VotersFor(n, y.round, y.block)
<1>1. S \in SUBSET Nodes /\ T \in SUBSET Nodes
  BY DEF VotersFor
<1>2. S \cap T # {}
  BY <1>1, NodesAssumption, QuorumsIntersect
<1>3. PICK v \in Nodes :
        /\ [voter |-> v, round |-> x.round, block |-> x.block] \in pool[n]
        /\ [voter |-> v, round |-> y.round, block |-> y.block] \in pool[n]
  BY <1>2 DEF VotersFor
<1>4. [voter |-> v, round |-> x.round, block |-> x.block]
        = [voter |-> v, round |-> y.round, block |-> y.block]
  BY <1>3 DEF IInv, OneVotePerVoter
<1> QED BY <1>4

(* Whatever votes reach a node and however it prunes them, its aggregator  *)
(* finds at most one block per round to finalize.                          *)
THEOREM OneBlockPerRound ==
    ASSUME Total(NodeWeight) > 50
    PROVE  Spec => []OneQuorumPerRound
<1>1. IInv => OneQuorumPerRound
  BY NoTwoQuorums
<1> QED BY <1>1, InitInv, IInvStep, PTL DEF Spec

(* Every justification a node submits is backed by gossiped votes that     *)
(* reach the threshold, for a checkpoint.                                  *)
THEOREM SubmittedIsQuorum == Spec => []JustificationsAreQuorums
<1>1. IInv => JustificationsAreQuorums
  BY DEF IInv
<1> QED BY <1>1, InitInv, IInvStep, PTL DEF Spec

-----------------------------------------------------------------------------

(* What holds of the genesis block, and of a block whenever it holds of    *)
(* its parent, holds of every block of the tree.                           *)
LEMMA BlockInduction ==
    ASSUME NEW P, Genesis \in P, \A b \in Blocks \ {Genesis} : Parent[b] \in P => b \in P
    PROVE  Blocks \subseteq P
<1> SUFFICES ASSUME NEW x \in Blocks, x \notin P PROVE FALSE
    OBVIOUS
<1> DEFINE T == {Number[b] : b \in Blocks \ P}
<1>1. T \in SUBSET Nat /\ T # {}
    BY TreeAssumption
<1>2. PICK m \in T : \A k \in T : m <= k
  <2> HIDE DEF T
  <2> QED  BY <1>1, SmallestOfSet
<1>3. PICK b \in Blocks \ P : Number[b] = m
    OBVIOUS
<1>4. b # Genesis /\ Parent[b] \in Blocks \ P
    BY <1>3, TreeAssumption
<1>5. Number[Parent[b]] \in T
    BY <1>4
<1>6. Number[b] = Number[Parent[b]] + 1 /\ Number[Parent[b]] \in Nat
    BY <1>4, TreeAssumption
<1>7. m <= Number[Parent[b]]
  <2> HIDE DEF T
  <2> QED  BY <1>2, <1>5
<1> QED
    BY <1>3, <1>6, <1>7

(* The recursion of Ancestors has a solution: what every set that is       *)
(* closed under Parent and holds the block has in common.                  *)
LEMMA AncestorsEquation ==
    Ancestors = [b \in Blocks |-> {b} \cup (IF b = Genesis THEN {} ELSE Ancestors[Parent[b]])]
<1> DEFINE Closed == {S \in SUBSET Blocks : \A c \in S \ {Genesis} : Parent[c] \in S}
           Common(b) == {a \in Blocks : \A S \in Closed : b \in S => a \in S}
           witness == [b \in Blocks |-> Common(b)]
           Unfold(anc) == [b \in Blocks |-> {b} \cup (IF b = Genesis THEN {} ELSE anc[Parent[b]])]
<1>1. ASSUME NEW b \in Blocks \ {Genesis}
      PROVE  Common(b) = {b} \cup Common(Parent[b])
  <2>1. Parent[b] \in Blocks
      BY TreeAssumption
  <2>2. {b} \cup Common(Parent[b]) \subseteq Common(b)
      OBVIOUS
  <2>3. {b} \cup Common(Parent[b]) \in Closed
    <3>1. {b} \cup Common(Parent[b]) \in SUBSET Blocks
        OBVIOUS
    <3>2. Parent[b] \in Common(Parent[b])
        BY <2>1
    <3>3. ASSUME NEW c \in Common(Parent[b]), c # Genesis PROVE Parent[c] \in Common(Parent[b])
      <4>1. Parent[c] \in Blocks
          BY <3>3, TreeAssumption
      <4>2. \A S \in Closed : Parent[b] \in S => Parent[c] \in S
          BY <3>3
      <4> QED  BY <4>1, <4>2
    <3> QED  BY <3>1, <3>2, <3>3
  <2>4. Common(b) \subseteq {b} \cup Common(Parent[b])
      BY <2>3
  <2> QED  BY <2>2, <2>4
<1>2. Common(Genesis) = {Genesis}
  <2>1. {Genesis} \in Closed
      BY TreeAssumption
  <2>2. Common(Genesis) \subseteq {Genesis}
      BY <2>1
  <2>3. Genesis \in Common(Genesis)
      BY TreeAssumption
  <2> QED  BY <2>2, <2>3
<1> HIDE DEF Closed, Common
<1>3. witness = Unfold(witness)
  <2>1. ASSUME NEW b \in Blocks
        PROVE  Common(b) = {b} \cup (IF b = Genesis THEN {} ELSE witness[Parent[b]])
    <3>1. CASE b = Genesis
        BY <1>2, <3>1
    <3>2. CASE b # Genesis
      <4>1. Parent[b] \in Blocks
          BY <3>2, TreeAssumption
      <4> QED  BY <1>1, <3>2, <4>1
    <3> QED  BY <3>1, <3>2
  <2> QED  BY <2>1
<1>4. Ancestors = CHOOSE anc : anc = Unfold(anc)
    BY DEF Ancestors
<1> HIDE DEF witness
<1>5. Ancestors = Unfold(Ancestors)
  <2> HIDE DEF Unfold
  <2> QED  BY <1>3, <1>4
<1> QED
    BY <1>5

LEMMA AncestorsOf ==
    /\ Ancestors[Genesis] = {Genesis}
    /\ \A b \in Blocks \ {Genesis} : Ancestors[b] = {b} \cup Ancestors[Parent[b]] /\ Parent[b] \in Blocks
    /\ \A b \in Blocks : b \in Ancestors[b]
<1>1. \A b \in Blocks : Ancestors[b] = {b} \cup (IF b = Genesis THEN {} ELSE Ancestors[Parent[b]])
  <2> DEFINE anc == Ancestors
  <2>1. anc = [b \in Blocks |-> {b} \cup (IF b = Genesis THEN {} ELSE anc[Parent[b]])]
      BY AncestorsEquation
  <2> HIDE DEF anc
  <2>2. \A b \in Blocks : anc[b] = {b} \cup (IF b = Genesis THEN {} ELSE anc[Parent[b]])
      BY <2>1
  <2> QED  BY <2>2 DEF anc
<1> QED
    BY <1>1, TreeAssumption

(* An ancestor is a block, and has a lower number than its descendants.    *)
LEMMA AncestorsLower ==
    ASSUME NEW b \in Blocks, NEW a \in Ancestors[b]
    PROVE  a \in Blocks /\ (a = b \/ Number[a] < Number[b])
<1> DEFINE P == {c \in Blocks : \A x \in Ancestors[c] : x \in Blocks /\ (x = c \/ Number[x] < Number[c])}
<1>1. Genesis \in P
    BY AncestorsOf, TreeAssumption
<1>2. ASSUME NEW c \in Blocks \ {Genesis}, Parent[c] \in P PROVE c \in P
  <2>1. \A x \in Ancestors[c] : x = c \/ x \in Ancestors[Parent[c]]
      BY AncestorsOf
  <2>2. Number[c] = Number[Parent[c]] + 1 /\ Number \in [Blocks -> Nat]
      BY TreeAssumption
  <2>3. \A x \in Ancestors[Parent[c]] : x \in Blocks /\ (x = Parent[c] \/ Number[x] < Number[Parent[c]])
      BY <1>2
  <2>4. \A x \in Ancestors[Parent[c]] : x \in Blocks /\ Number[x] < Number[c]
    <3> SUFFICES ASSUME NEW x \in Ancestors[Parent[c]]
                 PROVE  x \in Blocks /\ Number[x] < Number[c]
        OBVIOUS
    <3>1. x \in Blocks /\ (x = Parent[c] \/ Number[x] < Number[Parent[c]])
        BY <2>3
    <3>2. Number[x] \in Nat /\ Number[Parent[c]] \in Nat
        BY <3>1, TreeAssumption
    <3> QED  BY <2>2, <3>1, <3>2
  <2>5. \A x \in Ancestors[c] : x \in Blocks /\ (x = c \/ Number[x] < Number[c])
      BY <2>1, <2>4
  <2> QED  BY <2>5
<1>3. Blocks \subseteq P
  <2> HIDE DEF P
  <2> QED  BY <1>1, <1>2, BlockInduction
<1> QED
    BY <1>3

LEMMA AncestorsTransitive ==
    ASSUME NEW c \in Blocks, NEW b \in Ancestors[c], NEW a \in Ancestors[b]
    PROVE  a \in Ancestors[c]
<1> DEFINE P == {d \in Blocks : \A x \in Ancestors[d] : Ancestors[x] \subseteq Ancestors[d]}
<1>1. Genesis \in P
    BY AncestorsOf, TreeAssumption
<1>2. ASSUME NEW d \in Blocks \ {Genesis}, Parent[d] \in P PROVE d \in P
  <2>1. Ancestors[d] = {d} \cup Ancestors[Parent[d]]
      BY AncestorsOf
  <2>2. \A x \in Ancestors[Parent[d]] : Ancestors[x] \subseteq Ancestors[d]
      BY <1>2, <2>1
  <2>3. \A x \in Ancestors[d] : Ancestors[x] \subseteq Ancestors[d]
      BY <2>1, <2>2
  <2> QED  BY <2>3
<1>3. Blocks \subseteq P
  <2> HIDE DEF P
  <2> QED  BY <1>1, <1>2, BlockInduction
<1> QED
    BY <1>3

(* Two ancestors of one block are on one chain: the lower is an ancestor   *)
(* of the higher.                                                          *)
LEMMA AncestorsComparable ==
    ASSUME NEW c \in Blocks, NEW a \in Ancestors[c], NEW b \in Ancestors[c], Number[a] <= Number[b]
    PROVE  a \in Ancestors[b]
<1> DEFINE P == {d \in Blocks : \A x, y \in Ancestors[d] : x \in Ancestors[y] \/ y \in Ancestors[x]}
<1>1. Genesis \in P
    BY AncestorsOf, TreeAssumption
<1>2. ASSUME NEW d \in Blocks \ {Genesis}, Parent[d] \in P PROVE d \in P
  <2>1. Ancestors[d] = {d} \cup Ancestors[Parent[d]]
      BY AncestorsOf
  <2>2. \A x, y \in Ancestors[Parent[d]] : x \in Ancestors[y] \/ y \in Ancestors[x]
      BY <1>2
  <2>3. \A x, y \in Ancestors[d] : x \in Ancestors[y] \/ y \in Ancestors[x]
      BY <2>1, <2>2
  <2> QED  BY <2>3
<1>3. Blocks \subseteq P
  <2> HIDE DEF P
  <2> QED  BY <1>1, <1>2, BlockInduction
<1>4. CASE b \in Ancestors[a]
  <2>1. a \in Blocks /\ b \in Blocks
      BY AncestorsLower
  <2>2. b = a \/ Number[b] < Number[a]
      BY <1>4, <2>1, AncestorsLower
  <2>3. Number[a] \in Nat /\ Number[b] \in Nat
      BY <2>1, TreeAssumption
  <2>4. a = b
      BY <2>2, <2>3
  <2> QED  BY <1>4, <2>4
<1> QED
    BY <1>3, <1>4

LEMMA GenesisIsAncestor ==
    ASSUME NEW b \in Blocks PROVE Genesis \in Ancestors[b]
<1> DEFINE P == {d \in Blocks : Genesis \in Ancestors[d]}
<1>1. Genesis \in P
    BY AncestorsOf, TreeAssumption
<1>2. ASSUME NEW d \in Blocks \ {Genesis}, Parent[d] \in P PROVE d \in P
    BY <1>2, AncestorsOf
<1>3. Blocks \subseteq P
  <2> HIDE DEF P
  <2> QED  BY <1>1, <1>2, BlockInduction
<1> QED
    BY <1>3

-----------------------------------------------------------------------------

(* Where the clients stand: they have the blocks that they extend, build   *)
(* justifications for and have finalized, the last on the chain of the     *)
(* first.                                                                  *)
ClientInv ==
    /\ Genesis \in produced
    /\ finalized \in [Nodes -> Blocks]
    /\ \A n \in Nodes : building[n] # Idle => building[n].block \in imported[n]
    /\ FinalizedIsOnBestChain

(* The task finds the highest of the client's blocks up to the pallet's    *)
(* number: on the chain of the best block, and never below the block that  *)
(* is finalized already.                                                   *)
LEMMA SyncedGoesUp ==
    ASSUME VotingTypes, ClientInv, NEW n \in Nodes
    PROVE  /\ Synced(n) \in Ancestors[best[n]]
           /\ finalized[n] \in Ancestors[Synced(n)]
<1> DEFINE head == Number[View(n).head]
           below == {c \in Ancestors[best[n]] : Number[c] <= head}
<1>1. best[n] \in Blocks /\ finalized[n] \in Ancestors[best[n]] /\ finalized[n] \in Blocks
    BY DEF VotingTypes, ClientInv, FinalizedIsOnBestChain, OnChainOf
<1>2. head \in Nat
    BY <1>1, TreeAssumption DEF VotingTypes, View
<1>3. CASE ~(head > Number[finalized[n]])
    BY <1>1, <1>3, AncestorsOf DEF Synced
<1>4. CASE head > Number[finalized[n]]
  <2>1. \A c \in Ancestors[best[n]] : c \in Blocks /\ Number[c] \in Nat
      BY <1>1, AncestorsLower, TreeAssumption
  <2>2. finalized[n] \in below /\ Number[finalized[n]] \in Nat
      BY <1>1, <1>2, <1>4, <2>1
  <2> DEFINE T == {head - Number[c] : c \in below}
  <2>3. T \in SUBSET Nat /\ T # {}
    <3>1. \A c \in below : head - Number[c] \in Nat
        BY <1>2, <2>1
    <3> HIDE DEF below, head
    <3> QED  BY <2>2, <3>1
  <2>4. PICK m \in T : \A k \in T : m <= k
    <3> HIDE DEF T
    <3> QED  BY <2>3, SmallestOfSet
  <2>5. PICK top \in below : head - Number[top] = m
      BY <2>4
  <2>6. \A c \in below : Number[c] <= Number[top]
    <3> SUFFICES ASSUME NEW c \in below PROVE Number[c] <= Number[top]
        OBVIOUS
    <3>1. head - Number[c] \in T
        OBVIOUS
    <3>2. head - Number[top] <= head - Number[c]
      <4> HIDE DEF T
      <4> QED  BY <2>4, <2>5, <3>1
    <3>3. Number[c] \in Nat /\ Number[top] \in Nat
        BY <2>1
    <3> HIDE DEF head, below
    <3> QED  BY <1>2, <3>2, <3>3
  <2>7. \E b \in Ancestors[best[n]] :
            /\ Number[b] <= Number[View(n).head]
            /\ \A c \in Ancestors[best[n]] : Number[c] <= Number[View(n).head] => Number[c] <= Number[b]
      BY <2>5, <2>6
  <2> DEFINE s == Synced(n)
  <2>8. /\ s \in Ancestors[best[n]]
        /\ \A c \in Ancestors[best[n]] : Number[c] <= Number[View(n).head] => Number[c] <= Number[s]
      BY <1>4, <2>7 DEF Synced
  <2>9. Number[finalized[n]] <= Number[s]
      BY <2>2, <2>8
  <2> HIDE DEF s
  <2>10. finalized[n] \in Ancestors[s]
      BY <1>1, <2>8, <2>9, AncestorsComparable
  <2> QED  BY <2>8, <2>10 DEF s
<1> QED
    BY <1>3, <1>4

LEMMA InitClients == Init => ClientInv
BY AncestorsOf, TreeAssumption
DEF Init, ClientInv, FinalizedIsOnBestChain, OnChainOf

(* A step of a node keeps that, and its finalized block goes up the chain. *)
LEMMA ClientStep ==
    ASSUME VotingTypes, ClientInv, [Next]_vars
    PROVE  /\ ClientInv'
           /\ \A n \in Nodes : OnChainOf(finalized[n], finalized'[n])
<1> USE DEF OnChainOf
<1>0. /\ \A n \in Nodes : finalized[n] \in Blocks /\ best[n] \in Blocks
      /\ \A n \in Nodes : best[n] \in imported[n] /\ finalized[n] \in Ancestors[best[n]]
      /\ \A b \in Blocks : b \in Ancestors[b]
    BY AncestorsOf DEF VotingTypes, ClientInv, FinalizedIsOnBestChain
<1>1. ASSUME NEW n \in Nodes, NEW b \in Blocks, Produce(n, b)
      PROVE  ClientInv' /\ UNCHANGED finalized
  <2>1. b # Genesis /\ Parent[b] = best[n]
      BY <1>1 DEF Produce, ClientInv
  <2>2. finalized[n] \in Ancestors[b]
      BY <1>0, <2>1, AncestorsOf
  <2>3. /\ UNCHANGED <<finalized, building>> /\ produced' = produced \cup {b}
        /\ imported' = [imported EXCEPT ![n] = @ \cup {b}]
        /\ best' = [best EXCEPT ![n] = b]
      BY <1>1 DEF Produce, aggregator
  <2>4. FinalizedIsOnBestChain'
      BY <1>0, <2>2, <2>3 DEF FinalizedIsOnBestChain, VotingTypes
  <2> QED  BY <2>3, <2>4 DEF ClientInv, VotingTypes
<1>2. ASSUME NEW n \in Nodes, NEW b \in Blocks, Import(n, b)
      PROVE  ClientInv' /\ UNCHANGED finalized
  <2>1. /\ UNCHANGED <<produced, finalized, building>>
        /\ imported' = [imported EXCEPT ![n] = @ \cup {b}]
        /\ \/ OnChainOf(finalized[n], b) /\ best' = [best EXCEPT ![n] = b]
           \/ UNCHANGED best
      BY <1>2 DEF Import, aggregator
  <2>2. FinalizedIsOnBestChain'
      BY <1>0, <2>1 DEF FinalizedIsOnBestChain, VotingTypes
  <2> QED  BY <2>1, <2>2 DEF ClientInv, VotingTypes
<1>3. ASSUME NEW n \in Nodes, Trigger(n)
      PROVE  ClientInv' /\ UNCHANGED finalized
  <2>1. PICK b \in Quorums(n) :
            building' = [building EXCEPT ![n] = [round |-> View(n).round, block |-> b]]
      BY <1>3 DEF Trigger
  <2>2. b \in imported[n]
      BY <2>1 DEF Quorums
  <2>3. UNCHANGED <<produced, imported, best, finalized>>
      BY <1>3 DEF Trigger, client
  <2> QED  BY <2>1, <2>2, <2>3 DEF ClientInv, FinalizedIsOnBestChain, VotingTypes
<1>4. ASSUME NEW n \in Nodes, NEW Q \in SUBSET Nodes, Finalize(n, Q)
      PROVE  ClientInv' /\ \A m \in Nodes : finalized[m] \in Ancestors[finalized'[m]]
  <2> DEFINE b == building[n].block
             newBest == IF b \in Ancestors[best[n]] THEN best[n] ELSE b
  <2>1. b \in imported[n] /\ b \in Blocks
      BY <1>4 DEF Finalize, ClientInv, VotingTypes
  <2>2. b \in Ancestors[newBest] /\ newBest \in imported[n]
      BY <1>0, <2>1
  <2>3. /\ finalized' = [finalized EXCEPT ![n] = b]
        /\ best' = [best EXCEPT ![n] = newBest]
        /\ building' = [building EXCEPT ![n] = Idle]
        /\ finalized[n] \in Ancestors[b]
        /\ UNCHANGED <<produced, imported>>
      BY <1>4 DEF Finalize
  <2> HIDE DEF b, newBest
  <2>4. FinalizedIsOnBestChain'
      BY <1>0, <2>2, <2>3 DEF FinalizedIsOnBestChain, ClientInv, VotingTypes
  <2>5. \A m \in Nodes : finalized[m] \in Ancestors[finalized'[m]]
      BY <1>0, <2>3 DEF ClientInv
  <2>6. \A m \in Nodes : building'[m] # Idle => building'[m].block \in imported'[m]
      BY <2>3 DEF ClientInv, VotingTypes
  <2> QED  BY <2>1, <2>3, <2>4, <2>5, <2>6 DEF ClientInv
<1>5. ASSUME NEW n \in Nodes, GiveUp(n)
      PROVE  ClientInv' /\ UNCHANGED finalized
    BY <1>5 DEF GiveUp, client, ClientInv, FinalizedIsOnBestChain, VotingTypes
<1>6. ASSUME NEW n \in Nodes, SyncFinality(n) \/ Restart(n)
      PROVE  ClientInv' /\ \A m \in Nodes : finalized[m] \in Ancestors[finalized'[m]]
  <2> DEFINE s == Synced(n)
  <2>1. s \in Ancestors[best[n]] /\ finalized[n] \in Ancestors[s]
      BY SyncedGoesUp
  <2>2. s \in Blocks
      BY <1>0, <2>1, AncestorsLower
  <2>3. /\ finalized' = [finalized EXCEPT ![n] = s]
        /\ UNCHANGED <<produced, imported, best>>
        /\ building' = building \/ building' = [building EXCEPT ![n] = Idle]
      BY <1>6 DEF SyncFinality, Restart, aggregator
  <2> HIDE DEF s
  <2>4. FinalizedIsOnBestChain'
      BY <1>0, <2>1, <2>3 DEF FinalizedIsOnBestChain, ClientInv
  <2>5. \A m \in Nodes : finalized[m] \in Ancestors[finalized'[m]]
      BY <1>0, <2>1, <2>3 DEF ClientInv
  <2>6. \A m \in Nodes : building'[m] # Idle => building'[m].block \in imported'[m]
      BY <2>3 DEF ClientInv, VotingTypes
  <2> QED  BY <2>2, <2>3, <2>4, <2>5, <2>6 DEF ClientInv
<1>7. ASSUME NEW n \in Nodes, CreateVote(n) \/ \E vote \in wire : ReceiveVote(n, vote)
      PROVE  ClientInv' /\ UNCHANGED finalized
    BY <1>7 DEF CreateVote, ReceiveVote, client, aggregator, ClientInv, FinalizedIsOnBestChain
<1>8. ASSUME UNCHANGED vars PROVE ClientInv'
  <2>1. UNCHANGED <<produced, imported, best, finalized, building>>
      BY <1>8 DEF vars, client, aggregator
  <2> QED  BY <2>1 DEF ClientInv, FinalizedIsOnBestChain
<1>9. UNCHANGED finalized => \A m \in Nodes : finalized[m] \in Ancestors[finalized'[m]]
    BY <1>0
<1>10. UNCHANGED vars => UNCHANGED finalized
    BY DEF vars, client
<1> QED
    BY <1>1, <1>2, <1>3, <1>4, <1>5, <1>6, <1>7, <1>8, <1>9, <1>10 DEF Next, Step

(* Neither a justification for a fork, nor a longer fork, nor the sync     *)
(* task, nor a restart takes a client's finalized block off the chain of   *)
(* its best one.                                                           *)
THEOREM FinalizedStaysOnBest == Spec => []FinalizedIsOnBestChain
<1>1. ClientInv => FinalizedIsOnBestChain
    BY DEF ClientInv
<1>2. IInv /\ ClientInv /\ [Next]_vars => ClientInv'
    BY ClientStep DEF IInv
<1> QED
    BY <1>1, <1>2, InitClients, InitInv, IInvStep, PTL DEF Spec

=============================================================================
