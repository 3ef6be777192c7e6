---------------------------- MODULE SnapshotStore ----------------------------
(***************************************************************************)
(* What version control promises, without files: a working tree, snapshots *)
(* of it that never change and know their parent, and a head, which names  *)
(* the snapshot the working tree came from.                                *)
(***************************************************************************)
EXTENDS Integers

CONSTANT Ids  \* positive numbers

VARIABLES
  work,       \* the working tree
  snapshots,  \* by id: {}, or {[tree, parent]}
  head        \* an id, NoId, or Moving

NoId == 0
Moving == -1

Init == snapshots = [n \in Ids |-> {}] /\ head = NoId

\* The working tree may change at any time, also under a command.
EditTree == UNCHANGED <<snapshots, head>>

TakeSnapshot(n) ==
  /\ head # Moving
  /\ snapshots[n] = {}
  /\ snapshots' = [snapshots EXCEPT ![n] = {[tree |-> work, parent |-> head]}]
  /\ UNCHANGED <<work, head>>

\* The head is on its way, and arrives at a snapshot that is the working tree.
MoveHead == head # Moving /\ head' = Moving /\ UNCHANGED <<work, snapshots>>
Arrive(n) ==
  /\ head = Moving
  /\ \E s \in snapshots[n] : s.tree = work
  /\ head' = n
  /\ UNCHANGED <<work, snapshots>>
ArriveAtNone ==
  /\ head = Moving /\ snapshots = [n \in Ids |-> {}]
  /\ head' = NoId
  /\ UNCHANGED <<work, snapshots>>

Next ==
  \/ EditTree \/ MoveHead \/ ArriveAtNone
  \/ \E n \in Ids : TakeSnapshot(n) \/ Arrive(n)

Spec == Init /\ [][Next]_<<work, snapshots, head>>
=============================================================================
