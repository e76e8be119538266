----------------------------- MODULE AtomicCommit -----------------------------
(***************************************************************************)
(* What the commit manager promises the sessions: a commit that is asked   *)
(* for is answered once; running changes only by the commit of a candidate *)
(* that is asked for, in one step, to what that candidate makes of the     *)
(* running tree of that very moment, except for nodes that could not be    *)
(* applied and keep their old state; an answer "fail" means running was    *)
(* not changed on behalf of this request.  Commits are made up in a place  *)
(* that others can delete from; as long as somebody has, more nodes may be *)
(* missing from the tree that a commit leaves, but none are added.  A      *)
(* restart forgets the requests and restores some running tree from the    *)
(* run file.                                                               *)
(***************************************************************************)
EXTENDS ConfigTree
CONSTANT Session
VARIABLES asked,     \* idle, asked, ok (running was changed) or fail
          cand,      \* the candidate each session has asked to commit
          running,
          disturbed  \* somebody has deleted from the place commits are made up in

Init == /\ asked = [s \in Session |-> "idle"]
        /\ cand = [s \in Session |-> NewRoot]
        /\ running \in Tree
        /\ disturbed = FALSE

Ask(s) == /\ asked[s] = "idle"
          /\ asked' = [asked EXCEPT ![s] = "asked"]
          /\ \E can \in Overlay : cand' = [cand EXCEPT ![s] = can]
          /\ UNCHANGED <<running, disturbed>>

Disturb == /\ disturbed' = ~disturbed
           /\ UNCHANGED <<asked, cand, running>>

Commit(s) ==
  /\ asked[s] = "asked"
  /\ asked' = [asked EXCEPT ![s] = "ok"]
  /\ \E lost, gone \in SUBSET Node :
       /\ gone # {} => disturbed
       /\ running' = ((Merge(cand[s], running) \ lost) \cup (running \cap lost)) \ gone
  /\ disturbed' \in BOOLEAN
  /\ UNCHANGED cand

Fail(s) == /\ asked[s] = "asked"
           /\ asked' = [asked EXCEPT ![s] = "fail"]
           /\ UNCHANGED <<cand, running, disturbed>>

Answer(s) == /\ asked[s] \in {"ok", "fail"}
             /\ asked' = [asked EXCEPT ![s] = "idle"]
             /\ cand' = [cand EXCEPT ![s] = NewRoot]
             /\ UNCHANGED <<running, disturbed>>

Restart == /\ asked' = [s \in Session |-> "idle"]
           /\ cand' = [s \in Session |-> NewRoot]
           /\ running' \in Tree
           /\ disturbed' = FALSE

Next ==
  \/ \E s \in Session : Ask(s) \/ Commit(s) \/ Fail(s) \/ Answer(s)
  \/ Disturb \/ Restart

Spec == Init /\ [][Next]_<<asked, cand, running, disturbed>>
=============================================================================
