------------------------------ MODULE ConfigTree ------------------------------
(***************************************************************************)
(* The configuration trees of configd, abstracted to what the sessions and *)
(* the commit manager tell apart.  The trees themselves live in the        *)
(* external packages danos/config/{data,union}; they are modelled here     *)
(* from how session/*.go uses them.                                        *)
(*                                                                         *)
(* A tree is the set of the settable nodes (leaf values, presence          *)
(* containers, list entries) it contains.  A candidate is an overlay over  *)
(* the running tree: it says of each node that the session has set it, has *)
(* deleted it, or has not touched it.                                      *)
(***************************************************************************)
CONSTANT Node

Tree == SUBSET Node
Overlay == [Node -> {"same", "set", "del"}]

\* data.New("root"): the overlay of a session that changed nothing.
NewRoot == [n \in Node |-> "same"]

\* union.NewNode(can, run).MergeWithoutDefaults()
Merge(can, run) == {n \in Node : \/ can[n] = "set"
                                 \/ can[n] = "same" /\ n \in run}

\* union.NewNode(can, run).Set(path), for a path that Merge(can, run) lacks
Set(can, n) == [can EXCEPT ![n] = "set"]

\* What one node's deletion leaves in the overlay: a mark if the running tree
\* has the node, nothing otherwise.
Deleted(n, run) == IF n \in run THEN "del" ELSE "same"

\* union.NewNode(can, run).Delete(path), for a path that Merge(can, run) has
Delete(can, run, n) == [can EXCEPT ![n] = Deleted(n, run)]

\* Deletion of several nodes: those operations of an edit-config, or all of the
\* tree that passes the authorization that CheckAuth asks for.
DeleteAll(can, run, gone) ==
  [n \in Node |-> IF n \in gone THEN Deleted(n, run) ELSE can[n]]
=============================================================================
