------------------------- MODULE SnapshotStoreProofs -------------------------
(***************************************************************************)
(* Proofs about SnapshotStore: what a user of version control may count on *)
(* wherever it implements that specification.                              *)
(***************************************************************************)
EXTENDS SnapshotStore, TLAPS

Taken == {n \in Ids : snapshots[n] # {}}
Parents(n) == {s.parent : s \in snapshots[n]}

\* A walk along the parents stays among snapshots, or comes to none.
ParentsAreTaken == \A n \in Ids : Parents(n) \subseteq Taken \union {NoId}

\* And it ends: in every set of snapshots there is one with no parent in it, so
\* no set of them is a cycle.
HistoriesEnd ==
  \A S \in SUBSET Taken : S # {} => \E n \in S : Parents(n) \intersect S = {}

\* The head names a snapshot, or none, or is on its way.
HeadIsTaken == head \in Taken \union {NoId, Moving}

\* Both are about the functions over Ids that snapshots always is.
HistoryInv ==
  /\ DOMAIN snapshots = Ids
  /\ HeadIsTaken /\ ParentsAreTaken /\ HistoriesEnd

LEMMA InitHistory == Init => HistoryInv
BY DEF Init, HistoryInv, HeadIsTaken, ParentsAreTaken, HistoriesEnd, Taken, Parents

\* What says nothing of the snapshots but where the head is.
LEMMA SameSnapshots ==
  ASSUME HistoryInv, snapshots' = snapshots, HeadIsTaken'
  PROVE  HistoryInv'
BY DEF HistoryInv, ParentsAreTaken, HistoriesEnd, Taken, Parents

\* A new snapshot is nobody's parent yet, and its own parent is an older one.
LEMMA TakeKeepsHistory ==
  ASSUME Ids \subseteq Nat \ {0}, HistoryInv, NEW n \in Ids, TakeSnapshot(n)
  PROVE  HistoryInv'
<1>1. n \notin Taken /\ Taken' = Taken \union {n} /\ DOMAIN snapshots' = Ids
  BY DEF TakeSnapshot, HistoryInv, Taken
<1>2. Parents(n)' = {head} /\ \A m \in Ids \ {n} : Parents(m)' = Parents(m)
  <2>1. snapshots'[n] = {[tree |-> work, parent |-> head]}
    BY DEF TakeSnapshot, HistoryInv
  <2>2. \A m \in Ids \ {n} : snapshots'[m] = snapshots[m]
    BY DEF TakeSnapshot, HistoryInv
  <2>3. {s.parent : s \in {[tree |-> work, parent |-> head]}} = {head}
    OBVIOUS
  <2>4. QED
    BY <2>1, <2>2, <2>3 DEF Parents
<1>3. head \in Taken \union {NoId} /\ head # n
  BY <1>1 DEF TakeSnapshot, HistoryInv, HeadIsTaken, NoId
<1>4. n # NoId
  BY DEF NoId
<1>5. HeadIsTaken'
  BY <1>1 DEF TakeSnapshot, HistoryInv, HeadIsTaken
<1>6. ParentsAreTaken'
  BY <1>1, <1>2, <1>3 DEF HistoryInv, ParentsAreTaken
<1>7. HistoriesEnd'
  <2>1. SUFFICES ASSUME NEW S \in SUBSET Taken', S # {}
                 PROVE  \E m \in S : Parents(m)' \intersect S = {}
    BY DEF HistoriesEnd
  <2>2. CASE S = {n}
    BY <1>2, <1>3, <2>2
  <2>3. CASE S # {n}
    <3>1. PICK m \in S \ {n} : Parents(m) \intersect (S \ {n}) = {}
      <4>1. S \ {n} \in SUBSET Taken /\ S \ {n} # {}
        BY <1>1, <2>1, <2>3
      <4>2. QED
        BY <4>1 DEF HistoryInv, HistoriesEnd
    <3>2. m \in Ids /\ n \notin Parents(m)
      BY <1>1, <1>4 DEF HistoryInv, ParentsAreTaken, Taken
    <3>3. QED
      BY <1>2, <3>1, <3>2
  <2>4. QED
    BY <2>2, <2>3
<1>8. QED
  BY <1>1, <1>5, <1>6, <1>7 DEF HistoryInv

LEMMA StepHistory ==
  ASSUME Ids \subseteq Nat \ {0}, HistoryInv, [Next]_<<work, snapshots, head>>
  PROVE  HistoryInv'
<1>1. CASE EditTree \/ UNCHANGED <<work, snapshots, head>>
  BY <1>1, SameSnapshots DEF EditTree, HistoryInv, HeadIsTaken, Taken
<1>2. CASE MoveHead
  BY <1>2, SameSnapshots DEF MoveHead, HeadIsTaken
<1>3. CASE ArriveAtNone
  BY <1>3, SameSnapshots DEF ArriveAtNone, HeadIsTaken
<1>4. ASSUME NEW n \in Ids, TakeSnapshot(n) PROVE HistoryInv'
  BY <1>4, TakeKeepsHistory
<1>5. ASSUME NEW n \in Ids, Arrive(n) PROVE HistoryInv'
  BY <1>5, SameSnapshots DEF Arrive, HeadIsTaken, Taken
<1>6. QED
  BY <1>1, <1>2, <1>3, <1>4, <1>5 DEF Next

\* The head names a snapshot or none, every parent is a snapshot, and every
\* history ends: what vcs_log relies on to stop.
THEOREM HistoriesAlwaysEnd ==
  ASSUME Ids \subseteq Nat \ {0}
  PROVE  Spec => [](HeadIsTaken /\ ParentsAreTaken /\ HistoriesEnd)
<1>1. HistoryInv /\ [Next]_<<work, snapshots, head>> => HistoryInv'
  BY StepHistory
<1>2. HistoryInv => HeadIsTaken /\ ParentsAreTaken /\ HistoriesEnd
  BY DEF HistoryInv
<1>3. QED
  BY InitHistory, <1>1, <1>2, PTL DEF Spec
=============================================================================
