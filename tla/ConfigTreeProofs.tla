--------------------------- MODULE ConfigTreeProofs ---------------------------
(* Facts about the operations on trees and overlays, used by the proofs     *)
(* about the session and the commit manager.                                *)
EXTENDS ConfigTree, TLAPS

\* The operations on configuration trees give overlays and trees.
LEMMA TreeTypes ==
  /\ NewRoot \in Overlay
  /\ \A can \in Overlay, run \in Tree :
       /\ Merge(can, run) \in Tree
       /\ \A n \in Node : Set(can, n) \in Overlay /\ Delete(can, run, n) \in Overlay
       /\ \A gone \in SUBSET Node : DeleteAll(can, run, gone) \in Overlay
BY DEF NewRoot, Overlay, Tree, Merge, Set, Delete, Deleted, DeleteAll

\* An overlay without changes shows the running tree.
LEMMA MergeNewRoot == \A run \in Tree : Merge(NewRoot, run) = run
BY DEF NewRoot, Tree, Merge

\* Setting a node adds it to what the overlay shows, and nothing else.
LEMMA MergeSet ==
  ASSUME NEW can \in Overlay, NEW run \in Tree, NEW n \in Node
  PROVE  /\ n \in Merge(Set(can, n), run)
         /\ \A m \in Node \ {n} : m \in Merge(Set(can, n), run) <=> m \in Merge(can, run)
BY DEF Overlay, Tree, Merge, Set

\* Deleting a node removes it from what the overlay shows, and nothing else,
\* whether the running tree has the node or not.
LEMMA MergeDelete ==
  ASSUME NEW can \in Overlay, NEW run \in Tree, NEW n \in Node
  PROVE  /\ n \notin Merge(Delete(can, run, n), run)
         /\ \A m \in Node \ {n} :
              m \in Merge(Delete(can, run, n), run) <=> m \in Merge(can, run)
BY DEF Overlay, Tree, Merge, Delete, Deleted
=============================================================================
