------------------------ MODULE BlockProduction_proofs ------------------------
(***************************************************************************)
(* Between two occasions on which finality moves its best block, a node    *)
(* builds one block of a height.  The loop reads the best block three      *)
(* times before it builds on it, so the argument does not rest on its      *)
(* guard but on what the import makes true: an own block is imported at    *)
(* once, so all it has built since is no higher than the best block, and   *)
(* the parent was the best block after the last own import.                *)
(*                                                                         *)
(* Within an epoch the nodes agree on the author of a number.  What an     *)
(* author sequence is drawn from is a path and its seats, so a block keeps *)
(* the draws of its parent; whoever imports the first boundary block of a  *)
(* draw makes the sequence, and nobody makes it again.                     *)
(***************************************************************************)
EXTENDS BlockProduction, TLAPS

Building(n) == task[n] # Idle /\ task[n].step = "import"

(* Every block is a chain of entries from some set.                        *)
Chains(S) ==
    /\ imported \in [Nodes -> SUBSET Seq(S)]
    /\ best \in [Nodes -> Seq(S)]
    /\ built \in [Nodes -> Seq(Nat)]
    /\ DOMAIN task = Nodes /\ DOMAIN verified = Nodes
    /\ \A n \in Nodes : Building(n) => task[n].parent \in Seq(S)

(* What a node has built since finality moved its best block is no higher  *)
(* than that block.                                                        *)
BuiltBelowBest == \A n \in Nodes : \A i \in DOMAIN built[n] : built[n][i] <= Len(best[n])

(* The block under construction will be higher than all that.              *)
BuiltBelowTask ==
    \A n \in Nodes : Building(n) => \A i \in DOMAIN built[n] : built[n][i] <= Len(task[n].parent)

QueueIsKnown == \A n \in Nodes : verified[n] # Idle => verified[n] \in Blocks

IInv == (\E S : Chains(S)) /\ BuiltBelowBest /\ BuiltBelowTask /\ QueueIsKnown /\ OneBlockPerHeight

(* A set of entries may be widened.                                        *)
LEMMA Widened == ASSUME NEW S, NEW e, NEW b \in Seq(S) PROVE b \in Seq(S \cup {e})
OBVIOUS

(* What appending an entry does to the height and to the last entry.       *)
LEMMA Appended ==
    ASSUME NEW S, NEW e \in S, NEW b \in Seq(S)
    PROVE  /\ Append(b, e) \in Seq(S)
           /\ Len(Append(b, e)) = Len(b) + 1
           /\ Append(b, e) # Genesis
           /\ Last(Append(b, e)) = e
BY DEF Last, Genesis

(* The best block after an import is the higher one of the two.            *)
LEMMA Chosen ==
    ASSUME NEW S, NEW old \in Seq(S), NEW b \in Seq(S)
    PROVE  /\ ForkChoice(old, b) \in Seq(S)
           /\ Len(old) <= Len(ForkChoice(old, b))
           /\ Len(b) <= Len(ForkChoice(old, b))
BY DEF ForkChoice

LEMMA Initially == Init => IInv
<1> SUFFICES ASSUME Init PROVE IInv
    OBVIOUS
<1>1. Chains({})
    BY DEF Init, Chains, Building, Genesis
<1>2. \A n \in Nodes : verified[n] = Idle /\ ~Building(n) /\ DOMAIN built[n] = {}
    BY DEF Init, Building
<1> QED
    BY <1>1, <1>2 DEF IInv, BuiltBelowBest, BuiltBelowTask, QueueIsKnown, OneBlockPerHeight, IsInjective

(* The steps that import and finalize nothing.                             *)
LEMMA NothingImported ==
    ASSUME IInv, UNCHANGED <<imported, best, built>>,
           DOMAIN task' = Nodes, DOMAIN verified' = Nodes, QueueIsKnown',
           \A n \in Nodes : Building(n)' => task'[n].parent = best[n] \/ (Building(n) /\ task'[n].parent = task[n].parent)
    PROVE  IInv'
<1>1. PICK S : Chains(S)
    BY DEF IInv
<1>2. Chains(S)'
    BY <1>1 DEF Chains
<1>3. BuiltBelowBest' /\ OneBlockPerHeight'
    BY DEF IInv, BuiltBelowBest, OneBlockPerHeight
<1>4. BuiltBelowTask'
    BY DEF IInv, BuiltBelowTask, BuiltBelowBest
<1> QED
    BY <1>2, <1>3, <1>4 DEF IInv

(* An own block is higher than all the node has built since.               *)
LEMMA OwnImported == ASSUME IInv, NEW n \in Nodes, ImportOwn(n) PROVE IInv'
<1>1. PICK S : Chains(S)
    BY DEF IInv
<1>2. Building(n) /\ task'[n] = Idle /\ DOMAIN task' = Nodes /\ \A m \in Nodes \ {n} : task'[m] = task[m]
    BY <1>1 DEF ImportOwn, Building, Becomes, Chains
<1>3. PICK e : /\ Imports(n, Append(task[n].parent, e))
               /\ built' = [built EXCEPT ![n] = Append(@, Len(Append(task[n].parent, e)))]
    BY DEF ImportOwn, Built
<1> DEFINE T == S \cup {e}
           b == Append(task[n].parent, e)
           h == Len(b)
<1>4. Chains(T) /\ e \in T
    BY <1>1, Widened DEF Chains
<1> HIDE DEF T
<1>5. b \in Seq(T) /\ h = Len(task[n].parent) + 1 /\ task[n].parent \in Seq(T) /\ h \in Nat
    BY <1>2, <1>3, <1>4, Appended DEF Chains
<1>6. /\ imported' = [imported EXCEPT ![n] = @ \cup {b}]
      /\ best' = [best EXCEPT ![n] = ForkChoice(@, b)]
      /\ built' = [built EXCEPT ![n] = Append(@, h)]
    BY <1>3 DEF Imports
<1>7. h = Len(b)
    OBVIOUS
<1> HIDE DEF b, h
<1>8. Chains(T)'
  <2>1. imported' \in [Nodes -> SUBSET Seq(T)]
      BY <1>4, <1>5, <1>6 DEF Chains
  <2>2. best' \in [Nodes -> Seq(T)]
      BY <1>4, <1>5, <1>6, Chosen DEF Chains
  <2>3. built' \in [Nodes -> Seq(Nat)]
      BY <1>4, <1>5, <1>6 DEF Chains
  <2>4. DOMAIN task' = Nodes /\ DOMAIN verified' = Nodes
      BY <1>2, <1>4 DEF Chains, ImportOwn
  <2>5. \A m \in Nodes : Building(m)' => task'[m].parent \in Seq(T)
      BY <1>2, <1>4 DEF Chains, Building
  <2> QED  BY <2>1, <2>2, <2>3, <2>4, <2>5 DEF Chains
<1>9. \A m \in Nodes \ {n} : built'[m] = built[m] /\ best'[m] = best[m]
    BY <1>4, <1>6 DEF Chains
<1>10. built[n] \in Seq(Nat) /\ best[n] \in Seq(T) /\ built'[n] = Append(built[n], h) /\ best'[n] = ForkChoice(best[n], b)
    BY <1>4, <1>6 DEF Chains
<1>11. /\ DOMAIN built'[n] = DOMAIN built[n] \cup {Len(built[n]) + 1}
       /\ \A i \in DOMAIN built[n] : built'[n][i] = built[n][i] /\ built[n][i] \in Nat
       /\ built'[n][Len(built[n]) + 1] = h /\ Len(built[n]) + 1 \notin DOMAIN built[n]
    BY <1>5, <1>10
<1>12. \A i \in DOMAIN built[n] : built[n][i] < h
  <2>1. \A i \in DOMAIN built[n] : built[n][i] <= Len(task[n].parent)
      BY <1>2 DEF IInv, BuiltBelowTask
  <2>2. Len(task[n].parent) \in Nat
      BY <1>5
  <2> QED  BY <1>5, <1>11, <2>1, <2>2
<1>13. BuiltBelowBest'
  <2> SUFFICES ASSUME NEW m \in Nodes, NEW i \in DOMAIN built'[m] PROVE built'[m][i] <= Len(best'[m])
      BY DEF BuiltBelowBest
  <2>1. CASE m # n
      BY <1>9, <2>1 DEF IInv, BuiltBelowBest
  <2>2. CASE m = n
    <3>1. h <= Len(best'[n]) /\ Len(best'[n]) \in Nat
        BY <1>5, <1>7, <1>10, Chosen
    <3> QED  BY <1>5, <1>11, <1>12, <2>2, <3>1
  <2> QED  BY <2>1, <2>2
<1>14. BuiltBelowTask'
    BY <1>2, <1>9 DEF IInv, BuiltBelowTask, Building
<1>15. QueueIsKnown'
  <2>1. Blocks \subseteq Blocks'
      BY <1>4, <1>6 DEF Blocks, Chains
  <2> QED  BY <2>1 DEF IInv, QueueIsKnown, ImportOwn
<1>16. OneBlockPerHeight'
  <2>1. IsInjective(built[n])
      BY DEF IInv, OneBlockPerHeight
  <2>2. IsInjective(built'[n])
      BY <1>5, <1>11, <1>12, <2>1 DEF IsInjective
  <2> QED  BY <1>9, <2>2 DEF IInv, OneBlockPerHeight
<1> QED
    BY <1>8, <1>13, <1>14, <1>15, <1>16 DEF IInv

(* A node may take a block that is about already.                          *)
LEMMA SameBlocks ==
    ASSUME DOMAIN imported = Nodes, NEW n \in Nodes, NEW b \in Blocks,
           UNCHANGED imported \/ imported' = [imported EXCEPT ![n] = @ \cup {b}]
    PROVE  Blocks' = Blocks
<1>1. CASE UNCHANGED imported
    BY <1>1 DEF Blocks
<1>2. CASE imported' = [imported EXCEPT ![n] = @ \cup {b}]
    BY <1>2 DEF Blocks
<1> QED
    BY <1>1, <1>2

(* A peer's block is one that is about already.                            *)
LEMMA PeersImported == ASSUME IInv, NEW n \in Nodes, ImportPeers(n) PROVE IInv'
<1>1. PICK S : Chains(S)
    BY DEF IInv
<1> DEFINE b == verified[n]
<1>2. b \in Blocks /\ b \in Seq(S)
    BY <1>1 DEF IInv, QueueIsKnown, ImportPeers, Blocks, Chains
<1>3. /\ verified' = [verified EXCEPT ![n] = Idle]
      /\ task' = task /\ built' = built
      /\ \/ UNCHANGED <<imported, best>>
         \/ /\ imported' = [imported EXCEPT ![n] = @ \cup {b}]
            /\ best' = [best EXCEPT ![n] = ForkChoice(@, b)]
    BY DEF ImportPeers, Imports
<1> HIDE DEF b
<1>4. Blocks' = Blocks
    BY <1>1, <1>2, <1>3, SameBlocks DEF Chains
<1>5. Chains(S)'
  <2>1. imported' \in [Nodes -> SUBSET Seq(S)]
    <3>1. CASE UNCHANGED <<imported, best>>
        BY <1>1, <3>1 DEF Chains
    <3>2. CASE imported' = [imported EXCEPT ![n] = @ \cup {b}]
        BY <1>1, <1>2, <3>2 DEF Chains
    <3> QED  BY <1>3, <3>1, <3>2
  <2>2. best' \in [Nodes -> Seq(S)]
    <3>1. CASE UNCHANGED <<imported, best>>
        BY <1>1, <3>1 DEF Chains
    <3>2. CASE best' = [best EXCEPT ![n] = ForkChoice(@, b)]
        BY <1>1, <1>2, <3>2, Chosen DEF Chains
    <3> QED  BY <1>3, <3>1, <3>2
  <2> QED  BY <1>1, <1>3, <2>1, <2>2 DEF Chains, Building
<1>6. BuiltBelowBest'
  <2> SUFFICES ASSUME NEW m \in Nodes, NEW i \in DOMAIN built[m] PROVE built[m][i] <= Len(best'[m])
      BY <1>3 DEF BuiltBelowBest
  <2>1. built[m][i] <= Len(best[m]) /\ built[m][i] \in Nat /\ best[m] \in Seq(S)
      BY <1>1 DEF IInv, BuiltBelowBest, Chains
  <2>2. CASE best'[m] = best[m]
      BY <2>1, <2>2
  <2>3. CASE best'[m] = ForkChoice(best[m], b)
    <3>1. Len(best[m]) <= Len(best'[m]) /\ Len(best[m]) \in Nat /\ Len(best'[m]) \in Nat
        BY <1>2, <2>1, <2>3, Chosen
    <3> QED  BY <2>1, <3>1
  <2> QED  BY <1>1, <1>3, <2>2, <2>3 DEF Chains
<1>7. BuiltBelowTask' /\ OneBlockPerHeight'
    BY <1>3 DEF IInv, BuiltBelowTask, Building, OneBlockPerHeight
<1>8. QueueIsKnown'
    BY <1>1, <1>3, <1>4 DEF IInv, QueueIsKnown, Chains
<1> QED
    BY <1>5, <1>6, <1>7, <1>8 DEF IInv

(* Finality that moves the best block starts a new count.                  *)
LEMMA Finalized == ASSUME IInv, NEW n \in Nodes, NEW b \in imported[n], Finalize(n, b) PROVE IInv'
<1>1. PICK S : Chains(S)
    BY DEF IInv
<1>2. UNCHANGED <<imported, task, verified>> /\ b \in Seq(S)
    BY <1>1 DEF Finalize, Chains
<1>3. \/ UNCHANGED <<best, built>>
      \/ best' = [best EXCEPT ![n] = b] /\ built' = [built EXCEPT ![n] = <<>>]
    BY DEF Finalize, Finalizes
<1>4. Chains(S)'
  <2>1. CASE UNCHANGED <<best, built>>
      BY <1>1, <1>2, <2>1 DEF Chains, Building
  <2>2. CASE best' = [best EXCEPT ![n] = b] /\ built' = [built EXCEPT ![n] = <<>>]
    <3>1. <<>> \in Seq(Nat)
        OBVIOUS
    <3> QED  BY <1>1, <1>2, <2>2, <3>1 DEF Chains, Building
  <2> QED  BY <1>1, <1>2, <1>3, <2>1, <2>2 DEF Chains, Building
<1>5. \A m \in Nodes : (best'[m] = best[m] /\ built'[m] = built[m]) \/ built'[m] = <<>>
    BY <1>1, <1>3 DEF Chains
<1>6. \A m \in Nodes : built'[m] = <<>> => DOMAIN built'[m] = {}
    OBVIOUS
<1>7. BuiltBelowBest'
    BY <1>5, <1>6 DEF IInv, BuiltBelowBest
<1>8. BuiltBelowTask'
    BY <1>2, <1>5, <1>6 DEF IInv, BuiltBelowTask, Building
<1>9. OneBlockPerHeight'
    BY <1>5, <1>6 DEF IInv, OneBlockPerHeight, IsInjective
<1>10. QueueIsKnown'
    BY <1>2 DEF IInv, QueueIsKnown, Blocks
<1> QED
    BY <1>4, <1>7, <1>8, <1>9, <1>10 DEF IInv

LEMMA Step == IInv /\ [Next]_vars => IInv'
<1> SUFFICES ASSUME IInv, [Next]_vars PROVE IInv'
    OBVIOUS
<1>0. PICK S : Chains(S)
    BY DEF IInv
<1>1. CASE UNCHANGED vars
    BY <1>1, NothingImported DEF vars, IInv, Chains, QueueIsKnown, Blocks, Building
<1>2. ASSUME NEW n \in Nodes, SelectAuthor(n) \/ Guard(n) \/ Fail(n) \/ RefusedOwn(n)
      PROVE  IInv'
  <2>1. /\ UNCHANGED <<imported, best, built, verified>>
        /\ DOMAIN task' = Nodes
        /\ \A m \in Nodes \ {n} : task'[m] = task[m]
      BY <1>0, <1>2 DEF SelectAuthor, Guard, Fail, RefusedOwn, Becomes, Chains
  <2>2. ~Building(n)'
      BY <1>0, <1>2 DEF SelectAuthor, Guard, Fail, RefusedOwn, Becomes, Chains, Building
  <2> QED
      BY <1>0, <2>1, <2>2, NothingImported DEF Building, QueueIsKnown, IInv, Blocks, Chains
<1>3. ASSUME NEW n \in Nodes, Propose(n)
      PROVE  IInv'
  <2>1. /\ UNCHANGED <<imported, best, built, verified>>
        /\ DOMAIN task' = Nodes
        /\ \A m \in Nodes \ {n} : task'[m] = task[m]
        /\ task'[n].parent = best[n]
      BY <1>0, <1>3 DEF Propose, Becomes, Chains
  <2> QED
      BY <1>0, <2>1, NothingImported DEF Building, QueueIsKnown, IInv, Blocks, Chains
<1>4. ASSUME NEW n \in Nodes, NEW b \in UNION {imported[m] : m \in Nodes}, Verify(n, b)
      PROVE  IInv'
  <2>1. UNCHANGED <<imported, best, built, task>> /\ DOMAIN verified' = Nodes /\ QueueIsKnown'
      BY <1>0, <1>4 DEF Verify, Chains, QueueIsKnown, IInv, Blocks
  <2> QED
      BY <1>0, <2>1, NothingImported DEF Building, Chains
<1>5. ASSUME NEW n \in Nodes, ImportOwn(n) PROVE IInv'
    BY <1>5, OwnImported
<1>6. ASSUME NEW n \in Nodes, ImportPeers(n) PROVE IInv'
    BY <1>6, PeersImported
<1>7. ASSUME NEW n \in Nodes, NEW b \in imported[n], Finalize(n, b) PROVE IInv'
    BY <1>7, Finalized
<1> QED
    BY <1>1, <1>2, <1>3, <1>4, <1>5, <1>6, <1>7 DEF Next, Loop

(* Whatever the loop, the import queue and the tasks that finalize         *)
(* interleave, a node builds at most one block of each height between two  *)
(* occasions on which finality moves its best block.                       *)
THEOREM NeverTwoOfAHeight == Spec => []OneBlockPerHeight
<1>1. IInv => OneBlockPerHeight
    BY DEF IInv
<1> QED
    BY Initially, Step, <1>1, PTL DEF Spec

-----------------------------------------------------------------------------

(* Epochs are stretches of EpochLength blocks.                             *)
LEMMA EpochArithmetic ==
    ASSUME NEW n \in Nat
    PROVE  /\ n \div EpochLength \in Nat /\ n % EpochLength \in 0 .. EpochLength - 1
           /\ (n \div EpochLength) * EpochLength <= n
           /\ n % EpochLength # 0 => (n \div EpochLength) * EpochLength # n
           /\ \A e \in Nat : e * EpochLength = n => n \div EpochLength = e /\ n % EpochLength = 0
<1>1. n \div EpochLength \in Nat /\ n % EpochLength \in 0 .. EpochLength - 1
    BY EpochLengthAssumption
<1>2. n = EpochLength * (n \div EpochLength) + (n % EpochLength)
    BY EpochLengthAssumption
<1> DEFINE q == n \div EpochLength
           r == n % EpochLength
<1> HIDE DEF q, r
<1>3. q * EpochLength = EpochLength * q
    BY <1>1, EpochLengthAssumption DEF q
<1>4. ASSUME NEW e \in Nat, e * EpochLength = n PROVE q = e /\ r = 0
  <2>1. e * EpochLength = q * EpochLength + r
      BY <1>1, <1>2, <1>3, <1>4, EpochLengthAssumption DEF q, r
  <2> DEFINE d == e - q
  <2>2. d \in Int /\ d * EpochLength = r
      BY <1>1, <2>1, EpochLengthAssumption DEF q, r
  <2> HIDE DEF d
  <2>3. r \in 0 .. EpochLength - 1
      BY <1>1 DEF r
  <2>4. d = 0
    <3>1. CASE d >= 1
      <4>1. d * EpochLength >= EpochLength
          BY <2>2, <3>1, EpochLengthAssumption
      <4> QED  BY <2>2, <2>3, <4>1, EpochLengthAssumption
    <3>2. CASE d <= -1
      <4>1. d * EpochLength <= -EpochLength
          BY <2>2, <3>2, EpochLengthAssumption
      <4> QED  BY <2>2, <2>3, <4>1, EpochLengthAssumption
    <3> QED  BY <2>2, <3>1, <3>2
  <2> QED  BY <1>1, <2>2, <2>4, EpochLengthAssumption DEF d, q
<1> QED
    BY <1>1, <1>2, <1>3, <1>4, EpochLengthAssumption DEF q, r

(* What is below the last entry does not depend on it.                     *)
LEMMA PrefixStays ==
    ASSUME NEW S, NEW e \in S, NEW b \in Seq(S), NEW k \in Int, k <= Len(b)
    PROVE  SubSeq(Append(b, e), 1, k) = SubSeq(b, 1, k)
OBVIOUS

LEMMA WholeChain ==
    ASSUME NEW S, NEW b \in Seq(S)
    PROVE  SubSeq(b, 1, Len(b)) = b
OBVIOUS

LEMMA FrontAndLast ==
    ASSUME NEW S, NEW b \in Seq(S), b # Genesis
    PROVE  Front(b) \in Seq(S) /\ Last(b) \in S /\ b = Append(Front(b), Last(b)) /\ Len(b) = Len(Front(b)) + 1
<1> DEFINE f == SubSeq(b, 1, Len(b) - 1)
           e == b[Len(b)]
<1>1. Len(b) \in Nat /\ Len(b) >= 1
    BY DEF Genesis
<1>2. f \in Seq(S) /\ Len(f) = Len(b) - 1 /\ \A i \in 1 .. Len(f) : f[i] = b[i]
  <2>1. \A i \in 1 .. Len(b) - 1 : b[i] \in S
      BY <1>1
  <2>2. f \in Seq(S)
      BY <1>1, <2>1
  <2>3. Len(f) = Len(b) - 1
      BY <1>1
  <2>4. ASSUME NEW i \in 1 .. Len(b) - 1 PROVE f[i] = b[i]
      BY <1>1
  <2> HIDE DEF f
  <2> QED  BY <2>2, <2>3, <2>4
<1>3. e \in S
    BY <1>1
<1>4. b = Append(f, e)
  <2> HIDE DEF f
  <2>1. Append(f, e) \in Seq(S) /\ Len(Append(f, e)) = Len(b)
      BY <1>1, <1>2, <1>3
  <2>2. ASSUME NEW i \in 1 .. Len(b) PROVE Append(f, e)[i] = b[i]
      BY <1>1, <1>2, <1>3
  <2> QED  BY <2>1, <2>2
<1>5. Front(b) = f /\ Last(b) = e
    BY DEF Front, Last
<1> HIDE DEF f, e
<1> QED
    BY <1>1, <1>2, <1>3, <1>4, <1>5

(* A draw of an earlier epoch is that of the parent.                       *)
LEMMA SameDraw ==
    ASSUME NEW S, NEW e \in S, NEW b \in Seq(S), NEW epoch \in Nat, epoch * EpochLength <= Len(b)
    PROVE  DrawnFrom(Append(b, e), epoch) = DrawnFrom(b, epoch)
<1> DEFINE k == epoch * EpochLength
<1>1. k \in Nat
    BY EpochLengthAssumption
<1>2. k - 1 \in Int /\ k - 1 <= Len(b) /\ k <= Len(b)
    BY <1>1
<1> HIDE DEF k
<1>3. SubSeq(Append(b, e), 1, k - 1) = SubSeq(b, 1, k - 1)
    BY <1>2, PrefixStays
<1>4. SubSeq(Append(b, e), 1, k) = SubSeq(b, 1, k)
    BY <1>1, <1>2, PrefixStays
<1> QED
    BY <1>3, <1>4 DEF DrawnFrom, k

(* Only validators have seats.                                             *)
SeatsTyped == \A b \in Blocks : Seats(b) \in SUBSET Validators

(* A node has what it builds on.                                           *)
ParentsKnown ==
    \A n \in Nodes : best[n] \in imported[n] /\ (Building(n) => task[n].parent \in imported[n])

(* A sequence is made of the seats that it was drawn among.                *)
DrawsTyped == \A from \in DOMAIN draws : from[2] \in SUBSET Validators /\ draws[from] \in Draw(from[2])

(* The epochs that a chain has begun have their sequences, unless they     *)
(* began without a seat.                                                   *)
Drawn ==
    \A b \in Blocks : \A epoch \in Nat :
        epoch * EpochLength <= Len(b) /\ DrawnFrom(b, epoch)[2] # {} => DrawnFrom(b, epoch) \in DOMAIN draws

DrawInv == SeatsTyped /\ ParentsKnown /\ DrawsTyped /\ Drawn

LEMMA DrawInitially == Init => DrawInv
<1> SUFFICES ASSUME Init PROVE DrawInv
    OBVIOUS
<1>1. \A n \in Nodes : imported[n] = {Genesis} /\ best[n] = Genesis /\ ~Building(n)
    BY DEF Init, Building
<1>2. \A b \in Blocks : b = Genesis
    BY <1>1 DEF Blocks
<1>3. SeatsTyped
    BY <1>2 DEF SeatsTyped, Seats
<1>4. ParentsKnown
    BY <1>1 DEF ParentsKnown
<1>5. DOMAIN draws = {DrawnFrom(Genesis, 0)} /\ draws[DrawnFrom(Genesis, 0)] \in Draw(Validators)
    BY GenesisDrawAssumption DEF Init, Draw
<1>6. DrawnFrom(Genesis, 0) = <<Genesis, Validators>>
    BY DEF DrawnFrom
<1>7. DrawsTyped
    BY <1>5, <1>6 DEF DrawsTyped
<1>8. Drawn
  <2> SUFFICES ASSUME NEW epoch \in Nat, epoch * EpochLength <= Len(Genesis)
               PROVE  DrawnFrom(Genesis, epoch) \in DOMAIN draws
      BY <1>2 DEF Drawn
  <2>1. epoch * EpochLength <= 0
      BY DEF Genesis
  <2>2. epoch = 0
    <3>1. CASE epoch >= 1
      <4>1. epoch * EpochLength >= EpochLength
          BY <3>1, EpochLengthAssumption
      <4> QED  BY <2>1, <4>1, EpochLengthAssumption
    <3> QED  BY <3>1
  <2> QED  BY <1>5, <2>2
<1> QED
    BY <1>3, <1>4, <1>7, <1>8 DEF DrawInv

LEMMA NothingDrawn ==
    ASSUME DrawInv, UNCHANGED <<imported, best, draws>>,
           \A n \in Nodes : Building(n)' => task'[n].parent = best[n] \/ (Building(n) /\ task'[n].parent = task[n].parent)
    PROVE  DrawInv'
<1>1. Blocks' = Blocks
    BY DEF Blocks
<1>2. SeatsTyped'
    BY <1>1 DEF DrawInv, SeatsTyped
<1>3. ParentsKnown'
    BY DEF DrawInv, ParentsKnown
<1>4. DrawsTyped'
    BY DEF DrawInv, DrawsTyped
<1>5. Drawn'
    BY <1>1 DEF DrawInv, Drawn
<1> QED
    BY <1>2, <1>3, <1>4, <1>5 DEF DrawInv

LEMMA PeersDrawNothing == ASSUME IInv, DrawInv, NEW n \in Nodes, ImportPeers(n) PROVE DrawInv'
<1>1. PICK S : Chains(S)
    BY DEF IInv
<1> DEFINE b == verified[n]
<1>2. b \in Blocks
    BY DEF IInv, QueueIsKnown, ImportPeers
<1>3. /\ UNCHANGED <<task, draws>>
      /\ \/ UNCHANGED <<imported, best>>
         \/ /\ imported' = [imported EXCEPT ![n] = @ \cup {b}]
            /\ best' = [best EXCEPT ![n] = ForkChoice(@, b)]
    BY DEF ImportPeers, Imports
<1> HIDE DEF b
<1>4. Blocks' = Blocks
    BY <1>1, <1>2, <1>3, SameBlocks DEF Chains
<1>5. ParentsKnown'
  <2>1. \A m \in Nodes : best'[m] \in imported'[m]
      BY <1>1, <1>3 DEF DrawInv, ParentsKnown, Chains, ForkChoice
  <2>2. \A m \in Nodes : Building(m)' => task'[m].parent \in imported'[m]
      BY <1>1, <1>3 DEF DrawInv, ParentsKnown, Chains, Building
  <2> QED  BY <2>1, <2>2 DEF ParentsKnown
<1>6. SeatsTyped' /\ DrawsTyped' /\ Drawn'
    BY <1>3, <1>4 DEF DrawInv, SeatsTyped, DrawsTyped, Drawn
<1> QED
    BY <1>5, <1>6 DEF DrawInv

(* A new block leaves the draws of its chain as they are and, at the start *)
(* of an epoch, makes the one that is missing.                             *)
LEMMA OwnDraws == ASSUME IInv, DrawInv, NEW n \in Nodes, ImportOwn(n) PROVE DrawInv'
<1>1. PICK S0 : Chains(S0)
    BY DEF IInv
<1>2. Building(n) /\ task'[n] = Idle /\ \A m \in Nodes \ {n} : task'[m] = task[m]
    BY <1>1 DEF ImportOwn, Building, Becomes, Chains
<1> DEFINE parent == task[n].parent
<1>3. PICK author, seats :
      /\ seats \in SeatsAfter(parent)
      /\ LET b == Built(n, author, seats)
             from == DrawnFrom(b, Len(b) \div EpochLength)
         IN  /\ Imports(n, b)
             /\ IF IsBoundary(b) /\ seats # {} /\ from \notin DOMAIN draws
                THEN \E sequence \in Draw(seats) :
                       draws' = [f \in DOMAIN draws \cup {from} |-> IF f = from THEN sequence ELSE draws[f]]
                ELSE UNCHANGED draws
    BY DEF ImportOwn
<1> DEFINE e == [maker |-> n, author |-> author, seats |-> seats]
           S == S0 \cup {e}
           b == Append(parent, e)
           from == DrawnFrom(b, Len(b) \div EpochLength)
<1>4. Built(n, author, seats) = b
    BY DEF Built
<1>5. parent \in imported[n] /\ parent \in Blocks
    BY <1>2 DEF DrawInv, ParentsKnown, Blocks
<1>6. parent \in Seq(S) /\ e \in S /\ e.seats = seats
  <2>1. parent \in Seq(S0)
      BY <1>1, <1>2 DEF Chains
  <2> QED  BY <2>1, Widened
<1> HIDE DEF S, e, parent
<1>7. b \in Seq(S) /\ Len(b) = Len(parent) + 1 /\ b # Genesis /\ Last(b) = e
    BY <1>6, Appended
<1>8. seats \in SUBSET Validators
    BY <1>3, <1>5, SeatsAssumption DEF SeatsAfter, DrawInv, SeatsTyped
<1>9. Seats(b) = seats
    BY <1>6, <1>7 DEF Seats
<1> HIDE DEF b
<1>10. /\ imported' = [imported EXCEPT ![n] = @ \cup {b}]
       /\ best' = [best EXCEPT ![n] = ForkChoice(@, b)]
    BY <1>3, <1>4 DEF Imports
<1>11. Blocks' = Blocks \cup {b}
    BY <1>1, <1>10 DEF Blocks, Chains
<1>12. SeatsTyped'
    BY <1>8, <1>9, <1>11 DEF DrawInv, SeatsTyped
<1>13. ParentsKnown'
  <2>1. \A m \in Nodes : best'[m] \in imported'[m]
      BY <1>1, <1>10 DEF DrawInv, ParentsKnown, Chains, ForkChoice
  <2>2. \A m \in Nodes : Building(m)' => task'[m].parent \in imported'[m]
      BY <1>1, <1>2, <1>10 DEF DrawInv, ParentsKnown, Chains, Building
  <2> QED  BY <2>1, <2>2 DEF ParentsKnown
<1>14. IF IsBoundary(b) /\ seats # {} /\ from \notin DOMAIN draws
       THEN \E sequence \in Draw(seats) :
              draws' = [f \in DOMAIN draws \cup {from} |-> IF f = from THEN sequence ELSE draws[f]]
       ELSE UNCHANGED draws
    BY <1>3, <1>4
<1>15. \A epoch \in Nat : epoch * EpochLength = Len(b) => IsBoundary(b) /\ DrawnFrom(b, epoch) = from
  <2>1. Len(b) \in Nat
      BY <1>7
  <2> QED  BY <2>1, EpochArithmetic DEF IsBoundary
<1>16. IsBoundary(b) => from[2] = seats
  <2> SUFFICES ASSUME IsBoundary(b) PROVE from[2] = seats
      OBVIOUS
  <2> DEFINE epoch == Len(b) \div EpochLength
  <2>1. Len(b) \in Nat /\ Len(b) > 0
      BY <1>6, <1>7
  <2>2. epoch \in Nat /\ Len(b) = EpochLength * epoch + (Len(b) % EpochLength)
      BY <2>1, EpochLengthAssumption
  <2>3. Len(b) % EpochLength = 0
      BY DEF IsBoundary
  <2> HIDE DEF epoch
  <2>4. epoch * EpochLength = Len(b) /\ epoch # 0
      BY <2>1, <2>2, <2>3, EpochLengthAssumption
  <2>5. SubSeq(b, 1, epoch * EpochLength) = b
      BY <1>7, <2>4, WholeChain
  <2>6. DrawnFrom(b, epoch)[2] = Seats(b)
      BY <2>4, <2>5 DEF DrawnFrom
  <2> QED  BY <1>9, <2>6 DEF epoch
<1> HIDE DEF from
<1>17. /\ DrawsTyped' /\ DOMAIN draws \subseteq DOMAIN draws'
       /\ IsBoundary(b) /\ from[2] # {} => from \in DOMAIN draws'
  <2>1. CASE ~(IsBoundary(b) /\ seats # {} /\ from \notin DOMAIN draws)
    <3>1. UNCHANGED draws
        BY <1>14, <2>1
    <3> QED  BY <1>16, <2>1, <3>1 DEF DrawInv, DrawsTyped
  <2>2. CASE IsBoundary(b) /\ seats # {} /\ from \notin DOMAIN draws
    <3>1. PICK sequence \in Draw(seats) :
              draws' = [f \in DOMAIN draws \cup {from} |-> IF f = from THEN sequence ELSE draws[f]]
        BY <1>14, <2>2
    <3>2. from[2] = seats
        BY <1>16, <2>2
    <3>3. DOMAIN draws' = DOMAIN draws \cup {from} /\ draws'[from] = sequence
        BY <3>1
    <3>4. \A f \in DOMAIN draws : draws'[f] = draws[f]
        BY <2>2, <3>1
    <3> QED  BY <1>8, <3>2, <3>3, <3>4 DEF DrawInv, DrawsTyped
  <2> QED  BY <2>1, <2>2
<1>18. Drawn'
  <2> SUFFICES ASSUME NEW c \in Blocks', NEW epoch \in Nat,
                      epoch * EpochLength <= Len(c), DrawnFrom(c, epoch)[2] # {}
               PROVE  DrawnFrom(c, epoch) \in DOMAIN draws'
      BY DEF Drawn
  <2>1. CASE c \in Blocks
      BY <1>17, <2>1 DEF DrawInv, Drawn
  <2>2. CASE c = b /\ epoch * EpochLength <= Len(parent)
    <3>1. DrawnFrom(b, epoch) = DrawnFrom(parent, epoch)
        BY <1>6, <2>2, SameDraw DEF b
    <3> QED  BY <1>5, <1>17, <2>2, <3>1 DEF DrawInv, Drawn
  <2>3. CASE c = b /\ epoch * EpochLength = Len(b)
      BY <1>15, <1>17, <2>3
  <2>4. epoch * EpochLength \in Nat /\ Len(parent) \in Nat
      BY <1>6, EpochLengthAssumption
  <2> QED  BY <1>7, <1>11, <2>1, <2>2, <2>3, <2>4
<1> QED
    BY <1>12, <1>13, <1>17, <1>18 DEF DrawInv

(* Finality moves the best block to one the node has.                      *)
LEMMA FinalityDrawsNothing ==
    ASSUME IInv, DrawInv, NEW n \in Nodes, NEW b \in imported[n], Finalize(n, b) PROVE DrawInv'
<1>1. PICK S : Chains(S)
    BY DEF IInv
<1>2. UNCHANGED <<imported, task, draws>> /\ (best' = best \/ best' = [best EXCEPT ![n] = b])
    BY DEF Finalize, Finalizes
<1>3. Blocks' = Blocks
    BY <1>2 DEF Blocks
<1>4. ParentsKnown'
    BY <1>1, <1>2 DEF DrawInv, ParentsKnown, Chains, Building
<1> QED
    BY <1>2, <1>3, <1>4 DEF DrawInv, SeatsTyped, DrawsTyped, Drawn

LEMMA DrawStep == IInv /\ DrawInv /\ [Next]_vars => DrawInv'
<1> SUFFICES ASSUME IInv, DrawInv, [Next]_vars PROVE DrawInv'
    OBVIOUS
<1>0. PICK S : Chains(S)
    BY DEF IInv
<1>1. CASE UNCHANGED vars
    BY <1>1, NothingDrawn DEF vars, Building
<1>2. ASSUME NEW n \in Nodes, SelectAuthor(n) \/ Guard(n) \/ Fail(n) \/ RefusedOwn(n)
      PROVE  DrawInv'
  <2>1. /\ UNCHANGED <<imported, best, draws>>
        /\ \A m \in Nodes \ {n} : task'[m] = task[m]
      BY <1>0, <1>2 DEF SelectAuthor, Guard, Fail, RefusedOwn, Becomes, Chains
  <2>2. ~Building(n)'
      BY <1>0, <1>2 DEF SelectAuthor, Guard, Fail, RefusedOwn, Becomes, Chains, Building
  <2> QED
      BY <2>1, <2>2, NothingDrawn DEF Building
<1>3. ASSUME NEW n \in Nodes, Propose(n)
      PROVE  DrawInv'
  <2>1. /\ UNCHANGED <<imported, best, draws>>
        /\ \A m \in Nodes \ {n} : task'[m] = task[m]
        /\ task'[n].parent = best[n]
      BY <1>0, <1>3 DEF Propose, Becomes, Chains
  <2> QED
      BY <2>1, NothingDrawn DEF Building
<1>4. ASSUME NEW n \in Nodes, NEW b \in UNION {imported[m] : m \in Nodes}, Verify(n, b)
      PROVE  DrawInv'
    BY <1>4, NothingDrawn DEF Verify, Building
<1>5. ASSUME NEW n \in Nodes, ImportOwn(n) PROVE DrawInv'
    BY <1>5, OwnDraws
<1>6. ASSUME NEW n \in Nodes, ImportPeers(n) PROVE DrawInv'
    BY <1>6, PeersDrawNothing
<1>7. ASSUME NEW n \in Nodes, NEW b \in imported[n], Finalize(n, b) PROVE DrawInv'
    BY <1>7, FinalityDrawsNothing
<1> QED
    BY <1>1, <1>2, <1>3, <1>4, <1>5, <1>6, <1>7 DEF Next, Loop

(* Both judge the number by the sequence of the same draw: the block's     *)
(* parent and the best block of the node have reached the epoch.           *)
LEMMA SameAuthor == IInv /\ DrawInv => AuthorsAgreeInEpoch
<1> SUFFICES ASSUME IInv, DrawInv, NEW n \in Nodes, NEW b \in Blocks,
                    Received(n, b), Regular(b), ~IsBoundary(b),
                    Seats(best[n]) # {}, Seats(Front(b)) # {},
                    (Len(b) \div EpochLength) * EpochLength <= Len(best[n]),
                    DrawnFrom(best[n], Len(b) \div EpochLength) = DrawnFrom(b, Len(b) \div EpochLength),
                    DrawnFrom(b, Len(b) \div EpochLength)[2] # {}
             PROVE  Accepts(n, b)
    BY DEF AuthorsAgreeInEpoch
<1> DEFINE epoch == Len(b) \div EpochLength
           from == DrawnFrom(b, epoch)
           parent == Front(b)
           top == best[n]
           i == Len(b) % EpochLength
<1>1. PICK S : Chains(S)
    BY DEF IInv
<1>2. b \in Seq(S) /\ parent \in imported[n] /\ top \in Seq(S)
    BY <1>1 DEF Chains, Blocks, Received
<1>3. Len(b) \in Nat /\ Len(b) # 0 /\ b # Genesis
  <2>1. Len(b) \in Nat
      BY <1>2
  <2>2. Len(b) # 0
      BY EpochLengthAssumption DEF IsBoundary
  <2> QED  BY <2>1, <2>2 DEF Genesis
<1>4. parent \in Seq(S) /\ Last(b) \in S /\ b = Append(parent, Last(b)) /\ Len(b) = Len(parent) + 1
    BY <1>2, <1>3, FrontAndLast
<1>5. epoch \in Nat /\ i \in 0 .. EpochLength - 1 /\ epoch * EpochLength <= Len(parent)
  <2>1. epoch \in Nat /\ i \in 0 .. EpochLength - 1 /\ epoch * EpochLength <= Len(b) /\ epoch * EpochLength # Len(b)
      BY <1>3, EpochArithmetic DEF IsBoundary
  <2>2. epoch * EpochLength \in Nat /\ Len(parent) \in Nat
      BY <1>4, <2>1, EpochLengthAssumption
  <2> HIDE DEF epoch, i, parent
  <2> QED  BY <1>3, <1>4, <2>1, <2>2
<1>7. epoch * EpochLength <= Len(top) /\ epoch * EpochLength <= Len(b)
  <2>1. epoch * EpochLength \in Nat /\ Len(parent) \in Nat /\ epoch * EpochLength <= Len(top)
      BY <1>4, <1>5, EpochLengthAssumption
  <2> HIDE DEF epoch, parent, top
  <2> QED  BY <1>3, <1>4, <1>5, <2>1
<1>8. DrawnFrom(parent, epoch) = from
  <2> HIDE DEF epoch, parent
  <2>1. DrawnFrom(Append(parent, Last(b)), epoch) = DrawnFrom(parent, epoch)
      BY <1>4, <1>5, SameDraw
  <2> QED  BY <1>4, <2>1
<1>9. from[2] # {} /\ DrawnFrom(top, epoch) = from
    OBVIOUS
<1>10. Expected(parent, Len(b)) = draws[from][i] /\ Expected(top, Len(b)) = draws[from][i]
  <2>1. Expected(parent, Len(b)) = AuthorInEpoch(parent, Len(b), epoch)
        /\ Expected(top, Len(b)) = AuthorInEpoch(top, Len(b), epoch)
      BY DEF Expected
  <2>2. Seats(parent) # {} /\ Seats(top) # {}
      OBVIOUS
  <2> HIDE DEF epoch, from, parent, top
  <2>3. AuthorInEpoch(parent, Len(b), epoch) = draws[from][Len(b) % EpochLength]
      BY <1>5, <1>8, <1>9, <2>2 DEF AuthorInEpoch
  <2>4. AuthorInEpoch(top, Len(b), epoch) = draws[from][Len(b) % EpochLength]
      BY <1>7, <1>9, <2>2 DEF AuthorInEpoch
  <2> QED  BY <2>1, <2>3, <2>4
<1>11. draws[from][i] \in Validators
  <2>1. from \in DOMAIN draws
    <3> HIDE DEF epoch
    <3> QED  BY <1>5, <1>7, <1>9 DEF DrawInv, Drawn
  <2>2. draws[from] \in Draw(from[2]) /\ from[2] \in SUBSET Validators
    <3> HIDE DEF from
    <3> QED  BY <2>1 DEF DrawInv, DrawsTyped
  <2> HIDE DEF from, i
  <2> QED  BY <1>5, <2>2 DEF Draw
<1>12. Last(b).author = draws[from][i]
    BY <1>10 DEF Regular
<1> QED
    BY <1>10, <1>11, <1>12, NoAuthorAssumption DEF Accepts

(* A node that shares the draw of an epoch takes every regular block of    *)
(* it, whatever its own best block is by then.                             *)
THEOREM AuthorsAgree == Spec => []AuthorsAgreeInEpoch
BY Initially, Step, DrawInitially, DrawStep, SameAuthor, PTL DEF Spec

=============================================================================
