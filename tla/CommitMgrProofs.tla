--------------------------- MODULE CommitMgrProofs ---------------------------
(***************************************************************************)
(* Proofs about CommitMgr, for any number of sessions, nodes and defaults: *)
(* commits exclude each other, the EFFECTIVE session records what the      *)
(* current commit has achieved, less what clients delete from it, the run  *)
(* file follows the running tree, and the manager implements AtomicCommit. *)
(***************************************************************************)
EXTENDS CommitMgr, ConfigTreeProofs, TLAPS

-----------------------------------------------------------------------------
\* Facts that hold at the program points between two shared-state changes.

\* What the result of a commit tells about how far it has come.
ResultAt ==
  \A s \in Session :
    /\ pc[s] \in {"idle", "calling", "begin", "validate", "apply", "discard", "store"}
       => res[s] = "none"
    /\ pc[s] \in {"create", "write"} => res[s] = "ok"
    /\ pc[s] \in {"done", "resp"} => res[s] \in {"ok", "fail"}

\* Before the first node is acted on, the nodes that differ are all still to do.
TodoAt ==
  \A s \in Session :
    /\ pc[s] \in {"idle", "calling", "begin", "validate"} => failed[s] = {}
    /\ pc[s] \in Working => todo[s] \cap failed[s] = {}
    /\ pc[s] = "validate" =>
         \A n \in Node \ todo[s] : n \in Merge(cand[s], rtree[s]) <=> n \in rtree[s]

\* The tree that is about to be published: the candidate merged with the
\* running tree, but for the nodes that failed, and the ones that a client had
\* deleted when it was taken from EFFECTIVE.
TreeAt ==
  \A s \in Session :
    /\ pc[s] = "discard" => todo[s] = {}
    /\ pc[s] \in {"discard", "store"} =>
         \A n \in Node :
           LET wanted == n \in IF n \in failed[s] THEN rtree[s] ELSE Merge(cand[s], rtree[s])
           IN  (n \in tree[s] => wanted) /\ (~torn /\ wanted => n \in tree[s])

Inv == /\ TypeOK /\ OneCommit /\ SnapshotIsCurrent /\ EffectiveTracksCommit
       /\ RunfileIsRunning /\ ResultAt /\ TodoAt /\ TreeAt
\* A session hands its candidate to the manager.
LEMMA CommitStep ==
  ASSUME Inv, NEW s \in Session, Commit(s)
  PROVE  Inv'
<1> USE DEF Inv, Goto, locals, shared, history
<1>1. TypeOK'
  BY DEF Commit, TypeOK, Working
<1>2. OneCommit'
  BY DEF Commit, TypeOK, OneCommit, Working
<1>3. SnapshotIsCurrent'
  BY DEF Commit, TypeOK, OneCommit, SnapshotIsCurrent, Publishing, Working
<1>4. EffectiveTracksCommit'
  BY DEF Commit, TypeOK, OneCommit, EffectiveTracksCommit, Achieved, Working
<1>5. RunfileIsRunning'
  BY DEF Commit, TypeOK, OneCommit, RunfileIsRunning, Working
<1>6. ResultAt'
  BY DEF Commit, TypeOK, ResultAt
<1>7. TodoAt'
  BY DEF Commit, TypeOK, TodoAt, Working
<1>8. TreeAt'
  BY DEF Commit, TypeOK, TreeAt
<1> QED
  BY <1>1, <1>2, <1>3, <1>4, <1>5, <1>6, <1>7, <1>8

\* A commit is refused while another one runs.
LEMMA RefuseStep ==
  ASSUME Inv, NEW s \in Session, Refuse(s)
  PROVE  Inv'
<1> USE DEF Inv, Goto, locals, shared, history
<1>1. TypeOK'
  BY DEF Refuse, TypeOK, Working
<1>2. OneCommit'
  BY DEF Refuse, TypeOK, OneCommit, Working
<1>3. SnapshotIsCurrent'
  BY DEF Refuse, TypeOK, OneCommit, SnapshotIsCurrent, Publishing, Working
<1>4. EffectiveTracksCommit'
  BY DEF Refuse, TypeOK, OneCommit, EffectiveTracksCommit, Achieved, Working
<1>5. RunfileIsRunning'
  BY DEF Refuse, TypeOK, OneCommit, RunfileIsRunning, Working
<1>6. ResultAt'
  BY DEF Refuse, TypeOK, ResultAt
<1>7. TodoAt'
  BY DEF Refuse, TypeOK, TodoAt, Working
<1>8. TreeAt'
  BY DEF Refuse, TypeOK, TreeAt
<1> QED
  BY <1>1, <1>2, <1>3, <1>4, <1>5, <1>6, <1>7, <1>8

\* The manager starts the goroutine of a commit.
LEMMA StartStep ==
  ASSUME Inv, NEW s \in Session, Start(s)
  PROVE  Inv'
<1> USE DEF Inv, Goto, locals, shared, history
<1>1. TypeOK'
  BY DEF Start, TypeOK, Working
<1>2. OneCommit'
  BY DEF Start, TypeOK, OneCommit, Working
<1>3. SnapshotIsCurrent'
  BY DEF Start, TypeOK, OneCommit, SnapshotIsCurrent, Publishing, Working
<1>4. EffectiveTracksCommit'
  BY DEF Start, TypeOK, OneCommit, EffectiveTracksCommit, Achieved, Working
<1>5. RunfileIsRunning'
  BY DEF Start, TypeOK, OneCommit, RunfileIsRunning, Working
<1>6. ResultAt'
  BY DEF Start, TypeOK, ResultAt
<1>7. TodoAt'
  BY DEF Start, TypeOK, TodoAt, Working
<1>8. TreeAt'
  BY DEF Start, TypeOK, TreeAt
<1> QED
  BY <1>1, <1>2, <1>3, <1>4, <1>5, <1>6, <1>7, <1>8

\* The goroutine reports on donech.
LEMMA DoneStep ==
  ASSUME Inv, NEW s \in Session, Done(s)
  PROVE  Inv'
<1> USE DEF Inv, Goto, locals, shared, history
<1>1. TypeOK'
  BY DEF Done, TypeOK, Working
<1>2. OneCommit'
  BY DEF Done, TypeOK, OneCommit, Working
<1>3. SnapshotIsCurrent'
  BY DEF Done, TypeOK, OneCommit, SnapshotIsCurrent, Publishing, Working
<1>4. EffectiveTracksCommit'
  BY DEF Done, TypeOK, OneCommit, EffectiveTracksCommit, Achieved, Working
<1>5. RunfileIsRunning'
  BY DEF Done, TypeOK, OneCommit, RunfileIsRunning, Working
<1>6. ResultAt'
  BY DEF Done, TypeOK, ResultAt
<1>7. TodoAt'
  BY DEF Done, TypeOK, TodoAt, Working
<1>8. TreeAt'
  BY DEF Done, TypeOK, TreeAt
<1> QED
  BY <1>1, <1>2, <1>3, <1>4, <1>5, <1>6, <1>7, <1>8

\* The goroutine answers and ends.
LEMMA AnswerStep ==
  ASSUME Inv, NEW s \in Session, Answer(s)
  PROVE  Inv'
<1> USE DEF Inv, Goto, locals, shared, history
<1>1. TypeOK'
  BY TreeTypes DEF Answer, TypeOK, Working, Tree
<1>2. OneCommit'
  BY DEF Answer, TypeOK, OneCommit, Working
<1>3. SnapshotIsCurrent'
  BY DEF Answer, TypeOK, OneCommit, SnapshotIsCurrent, Publishing, Working
<1>4. EffectiveTracksCommit'
  BY DEF Answer, TypeOK, OneCommit, EffectiveTracksCommit, Achieved, Working
<1>5. RunfileIsRunning'
  BY DEF Answer, TypeOK, OneCommit, RunfileIsRunning, Working
<1>6. ResultAt'
  BY DEF Answer, TypeOK, ResultAt
<1>7. TodoAt'
  BY DEF Answer, TypeOK, TodoAt, Working
<1>8. TreeAt'
  BY DEF Answer, TypeOK, TreeAt
<1> QED
  BY <1>1, <1>2, <1>3, <1>4, <1>5, <1>6, <1>7, <1>8

\* The commit reads running once and computes the difference.
LEMMA SnapshotStep ==
  ASSUME Inv, NEW s \in Session, Snapshot(s)
  PROVE  Inv'
<1> USE DEF Inv, Goto, locals, shared, history
<1>1. TypeOK'
  <2>1. Diff(cand[s], running, hadcommit) \subseteq Node \cup Default
    BY DEF Diff, Merge, TypeOK, Tree
  <2> QED
    BY <2>1 DEF Snapshot, TypeOK, Working
<1>2. OneCommit'
  BY DEF Snapshot, TypeOK, OneCommit, Working
<1>3. SnapshotIsCurrent'
  BY DEF Snapshot, TypeOK, OneCommit, SnapshotIsCurrent, Publishing, Working
<1>4. EffectiveTracksCommit'
  BY DEF Snapshot, TypeOK, OneCommit, EffectiveTracksCommit, Achieved, Working
<1>5. RunfileIsRunning'
  BY DEF Snapshot, TypeOK, OneCommit, RunfileIsRunning, Working
<1>6. ResultAt'
  BY DEF Snapshot, TypeOK, ResultAt
<1>7. TodoAt'
  <2>1. \A n \in Node \ Diff(cand[s], running, hadcommit) :
          n \in Merge(cand[s], running) <=> n \in running
    BY CommitAssumption DEF Diff
  <2>2. /\ cand' = cand /\ failed' = failed /\ pc[s] = "begin"
        /\ \A t \in Session \ {s} : pc'[t] = pc[t] /\ rtree'[t] = rtree[t] /\ todo'[t] = todo[t]
        /\ pc'[s] = "validate" /\ rtree'[s] = running
        /\ todo'[s] = Diff(cand[s], running, hadcommit)
    BY DEF Snapshot, TypeOK
  <2> QED
    BY <2>1, <2>2 DEF TodoAt
<1>8. TreeAt'
  BY DEF Snapshot, TypeOK, TreeAt
<1> QED
  BY <1>1, <1>2, <1>3, <1>4, <1>5, <1>6, <1>7, <1>8

\* Validation fails.
LEMMA RejectStep ==
  ASSUME Inv, NEW s \in Session, Reject(s)
  PROVE  Inv'
<1> USE DEF Inv, Goto, locals, shared, history
<1>1. TypeOK'
  BY DEF Reject, TypeOK, Working
<1>2. OneCommit'
  BY DEF Reject, TypeOK, OneCommit, Working
<1>3. SnapshotIsCurrent'
  BY DEF Reject, TypeOK, OneCommit, SnapshotIsCurrent, Publishing, Working
<1>4. EffectiveTracksCommit'
  BY DEF Reject, TypeOK, OneCommit, EffectiveTracksCommit, Achieved, Working
<1>5. RunfileIsRunning'
  BY DEF Reject, TypeOK, OneCommit, RunfileIsRunning, Working
<1>6. ResultAt'
  BY DEF Reject, TypeOK, ResultAt
<1>7. TodoAt'
  BY DEF Reject, TypeOK, TodoAt, Working
<1>8. TreeAt'
  BY DEF Reject, TypeOK, TreeAt
<1> QED
  BY <1>1, <1>2, <1>3, <1>4, <1>5, <1>6, <1>7, <1>8

\* Validation succeeds.
LEMMA ValidatedStep ==
  ASSUME Inv, NEW s \in Session, Validated(s)
  PROVE  Inv'
<1> USE DEF Inv, Goto, locals, shared, history
<1>1. TypeOK'
  BY DEF Validated, TypeOK, Working
<1>2. OneCommit'
  BY DEF Validated, TypeOK, OneCommit, Working
<1>3. SnapshotIsCurrent'
  BY DEF Validated, TypeOK, OneCommit, SnapshotIsCurrent, Publishing, Working
<1>4. EffectiveTracksCommit'
  <2>1. \A t \in Session : pc[t] \notin {"apply", "discard"}
    BY DEF Validated, OneCommit, Working
  <2>2. /\ \A n \in Node : effective[n] # "set"
        /\ ~wiped => effective = NewRoot
        /\ rtree[s] = running /\ failed[s] = {}
    BY <2>1 DEF Validated, EffectiveTracksCommit, SnapshotIsCurrent, Publishing, TodoAt
  <2>3. /\ Merge(effective, running) \subseteq running
        /\ ~wiped => Merge(effective, running) = running
    BY <2>2, MergeNewRoot DEF TypeOK, Merge
  <2>4. \A t \in Session : pc'[t] \in {"apply", "discard"} => t = s
    BY <2>1 DEF Validated, TypeOK
  <2>5. Achieved(s) = running
    <3>1. \A n \in Node : n \in Achieved(s) <=> n \in running
      BY <2>2 DEF Validated, TodoAt, Achieved
    <3> QED
      BY <3>1 DEF Achieved, TypeOK, Tree
  <2>6. pc'[s] = "apply"
    BY DEF Validated, TypeOK
  <2> QED
    BY <2>3, <2>4, <2>5, <2>6 DEF Validated, EffectiveTracksCommit, Achieved
<1>5. RunfileIsRunning'
  BY DEF Validated, TypeOK, OneCommit, RunfileIsRunning, Working
<1>6. ResultAt'
  BY DEF Validated, TypeOK, ResultAt
<1>7. TodoAt'
  BY DEF Validated, TypeOK, TodoAt, Working
<1>8. TreeAt'
  BY DEF Validated, TypeOK, TreeAt
<1> QED
  BY <1>1, <1>2, <1>3, <1>4, <1>5, <1>6, <1>7, <1>8

\* One node is acted on with success.
LEMMA ApplyStep ==
  ASSUME Inv, NEW s \in Session, NEW n \in todo[s], Apply(s, n)
  PROVE  Inv'
<1> USE DEF Inv, Goto, locals, shared, history
<1>1. TypeOK'
  <2>1. effective' \in Overlay
    <3>1. n \in Node \/ n \in Default
      BY DEF TypeOK
    <3>2. CASE n \in Default
      BY <3>2 DEF Apply, TypeOK
    <3>3. CASE n \notin Default
      <4>1. effective \in Overlay /\ running \in Tree /\ n \in Node
        BY <3>1, <3>3 DEF TypeOK
      <4>2. Set(effective, n) \in Overlay /\ Delete(effective, running, n) \in Overlay
        BY <4>1, TreeTypes
      <4> QED
        BY <3>3, <4>2 DEF Apply
    <3> QED
      BY <3>2, <3>3
  <2> QED
    BY <2>1 DEF Apply, TypeOK, Working
<1>2. OneCommit'
  BY DEF Apply, TypeOK, OneCommit, Working
<1>3. SnapshotIsCurrent'
  BY DEF Apply, TypeOK, OneCommit, SnapshotIsCurrent, Publishing, Working
<1>4. EffectiveTracksCommit'
  <2>1. pc[s] = "apply" /\ \A t \in Session : pc[t] \in {"apply", "discard"} => t = s
    BY DEF Apply, OneCommit, Working
  <2>2. rtree[s] = running
    BY <2>1 DEF SnapshotIsCurrent, Publishing
  <2> DEFINE Wanted(m, rest) ==
        m \in IF m \in rest \cup failed[s] THEN rtree[s] ELSE Merge(cand[s], rtree[s])
  <2>3. \A m \in Node : /\ m \in Merge(effective, running) => Wanted(m, todo[s])
                        /\ ~wiped /\ Wanted(m, todo[s]) => m \in Merge(effective, running)
    BY <2>1 DEF EffectiveTracksCommit, Achieved
  <2>4. n \notin failed[s]
    BY <2>1 DEF TodoAt, Working
  <2>5. \A m \in Node : /\ m \in Merge(effective', running) => Wanted(m, todo[s] \ {n})
                        /\ ~wiped /\ Wanted(m, todo[s] \ {n})
                           => m \in Merge(effective', running)
    <3>1. CASE n \in Default
      BY <2>3, <3>1, CommitAssumption DEF Apply
    <3>2. CASE n \notin Default
      <4>1. n \in Node
        BY <3>2 DEF Apply, TypeOK
      <4>2. \A m \in Node \ {n} : m \in Merge(effective', running) <=> m \in Merge(effective, running)
        BY <3>2, <4>1, MergeSet, MergeDelete DEF Apply, TypeOK
      <4>3. n \in Merge(effective', running) <=> n \in Merge(cand[s], rtree[s])
        BY <3>2, <4>1, MergeSet, MergeDelete DEF Apply, TypeOK
      <4> QED
        BY <2>3, <2>4, <4>1, <4>2, <4>3
    <3> QED
      BY <3>1, <3>2
  <2>6. /\ pc' = pc /\ cand' = cand /\ rtree' = rtree /\ failed' = failed
        /\ running' = running /\ todo'[s] = todo[s] \ {n} /\ wiped' = wiped
    BY DEF Apply, TypeOK
  <2>7. \A m \in Node : m \in Achieved(s)' <=> Wanted(m, todo[s] \ {n})
    BY <2>6 DEF Achieved
  <2>8. /\ Merge(effective, running)' = Merge(effective', running)
        /\ Merge(effective', running) \subseteq Node /\ Achieved(s)' \subseteq Node
    BY <2>6 DEF Achieved, Merge
  <2>9. /\ Merge(effective, running)' \subseteq Achieved(s)'
        /\ ~wiped' => Merge(effective, running)' = Achieved(s)'
    <3>1. \A m \in Node : /\ m \in Merge(effective', running) => m \in Achieved(s)'
                          /\ ~wiped /\ m \in Achieved(s)' => m \in Merge(effective', running)
      BY <2>5, <2>7
    <3> QED
      BY <2>6, <2>8, <3>1
  <2> QED
    BY <2>1, <2>6, <2>9 DEF EffectiveTracksCommit
<1>5. RunfileIsRunning'
  BY DEF Apply, TypeOK, OneCommit, RunfileIsRunning, Working
<1>6. ResultAt'
  BY DEF Apply, TypeOK, ResultAt
<1>7. TodoAt'
  BY DEF Apply, TypeOK, TodoAt, Working
<1>8. TreeAt'
  BY DEF Apply, TypeOK, TreeAt
<1> QED
  BY <1>1, <1>2, <1>3, <1>4, <1>5, <1>6, <1>7, <1>8

\* One node's actions fail.
LEMMA ApplyFailsStep ==
  ASSUME Inv, NEW s \in Session, NEW n \in todo[s], ApplyFails(s, n)
  PROVE  Inv'
<1> USE DEF Inv, Goto, locals, shared, history
<1>1. TypeOK'
  BY DEF ApplyFails, TypeOK, Working
<1>2. OneCommit'
  BY DEF ApplyFails, TypeOK, OneCommit, Working
<1>3. SnapshotIsCurrent'
  BY DEF ApplyFails, TypeOK, OneCommit, SnapshotIsCurrent, Publishing, Working
<1>4. EffectiveTracksCommit'
  BY DEF ApplyFails, TypeOK, OneCommit, EffectiveTracksCommit, Achieved, Working
<1>5. RunfileIsRunning'
  BY DEF ApplyFails, TypeOK, OneCommit, RunfileIsRunning, Working
<1>6. ResultAt'
  BY DEF ApplyFails, TypeOK, ResultAt
<1>7. TodoAt'
  BY DEF ApplyFails, TypeOK, TodoAt, Working
<1>8. TreeAt'
  BY DEF ApplyFails, TypeOK, TreeAt
<1> QED
  BY <1>1, <1>2, <1>3, <1>4, <1>5, <1>6, <1>7, <1>8

\* EFFECTIVE is merged into the tree to publish.
LEMMA MergeEffectiveStep ==
  ASSUME Inv, NEW s \in Session, MergeEffective(s)
  PROVE  Inv'
<1> USE DEF Inv, Goto, locals, shared, history
<1>1. TypeOK'
  <2>1. Merge(effective, running) \in Tree
    BY TreeTypes DEF TypeOK
  <2> QED
    BY <2>1 DEF MergeEffective, TypeOK, Working
<1>2. OneCommit'
  BY DEF MergeEffective, TypeOK, OneCommit, Working
<1>3. SnapshotIsCurrent'
  BY DEF MergeEffective, TypeOK, OneCommit, SnapshotIsCurrent, Publishing, Working
<1>4. EffectiveTracksCommit'
  BY DEF MergeEffective, TypeOK, OneCommit, EffectiveTracksCommit, Achieved, Working
<1>5. RunfileIsRunning'
  BY DEF MergeEffective, TypeOK, OneCommit, RunfileIsRunning, Working
<1>6. ResultAt'
  BY DEF MergeEffective, TypeOK, ResultAt
<1>7. TodoAt'
  BY DEF MergeEffective, TypeOK, TodoAt, Working
<1>8. TreeAt'
  <2>1. pc[s] = "apply" /\ todo[s] = {}
    BY DEF MergeEffective
  <2>2. \A n \in Node :
          LET wanted == n \in IF n \in failed[s] THEN rtree[s] ELSE Merge(cand[s], rtree[s])
          IN  /\ n \in Merge(effective, running) => wanted
              /\ ~wiped /\ wanted => n \in Merge(effective, running)
    BY <2>1 DEF EffectiveTracksCommit, Achieved
  <2>3. /\ \A t \in Session \ {s} : pc'[t] = pc[t] /\ tree'[t] = tree[t]
        /\ tree'[s] = Merge(effective, running)
        /\ cand' = cand /\ rtree' = rtree /\ failed' = failed /\ todo' = todo
        /\ torn' = wiped
    BY DEF MergeEffective, TypeOK
  <2>4. \A t \in Session : pc'[t] \in {"discard", "store"} => t = s
    BY <2>1 DEF MergeEffective, OneCommit, Working, TypeOK
  <2> QED
    BY <2>1, <2>2, <2>3, <2>4 DEF TreeAt
<1> QED
  BY <1>1, <1>2, <1>3, <1>4, <1>5, <1>6, <1>7, <1>8

\* EFFECTIVE forgets the changes.
LEMMA DiscardEffectiveStep ==
  ASSUME Inv, NEW s \in Session, DiscardEffective(s)
  PROVE  Inv'
<1> USE DEF Inv, Goto, locals, shared, history
<1>1. TypeOK'
  BY TreeTypes DEF DiscardEffective, TypeOK, Working
<1>2. OneCommit'
  BY DEF DiscardEffective, TypeOK, OneCommit, Working
<1>3. SnapshotIsCurrent'
  BY DEF DiscardEffective, TypeOK, OneCommit, SnapshotIsCurrent, Publishing, Working
<1>4. EffectiveTracksCommit'
  BY DEF DiscardEffective, TypeOK, OneCommit, EffectiveTracksCommit, Achieved, Working, NewRoot
<1>5. RunfileIsRunning'
  BY DEF DiscardEffective, TypeOK, OneCommit, RunfileIsRunning, Working
<1>6. ResultAt'
  BY DEF DiscardEffective, TypeOK, ResultAt
<1>7. TodoAt'
  BY DEF DiscardEffective, TypeOK, TodoAt, Working
<1>8. TreeAt'
  BY DEF DiscardEffective, TypeOK, TreeAt
<1> QED
  BY <1>1, <1>2, <1>3, <1>4, <1>5, <1>6, <1>7, <1>8

\* The new tree is published.
LEMMA StoreStep ==
  ASSUME Inv, NEW s \in Session, Store(s)
  PROVE  Inv'
<1> USE DEF Inv, Goto, locals, shared, history
<1>1. TypeOK'
  BY DEF Store, TypeOK, Working
<1>2. OneCommit'
  BY DEF Store, TypeOK, OneCommit, Working
<1>3. SnapshotIsCurrent'
  BY DEF Store, TypeOK, OneCommit, SnapshotIsCurrent, Publishing, Working
<1>4. EffectiveTracksCommit'
  BY DEF Store, TypeOK, OneCommit, EffectiveTracksCommit, Achieved, Working
<1>5. RunfileIsRunning'
  BY DEF Store, TypeOK, OneCommit, RunfileIsRunning, Working
<1>6. ResultAt'
  BY DEF Store, TypeOK, ResultAt
<1>7. TodoAt'
  BY DEF Store, TypeOK, TodoAt, Working
<1>8. TreeAt'
  BY DEF Store, TypeOK, OneCommit, TreeAt, Working
<1> QED
  BY <1>1, <1>2, <1>3, <1>4, <1>5, <1>6, <1>7, <1>8

\* The run file is truncated.
LEMMA CreateStep ==
  ASSUME Inv, NEW s \in Session, Create(s)
  PROVE  Inv'
<1> USE DEF Inv, Goto, locals, shared, history
<1>1. TypeOK'
  BY DEF Create, TypeOK, Working, Tree
<1>2. OneCommit'
  BY DEF Create, TypeOK, OneCommit, Working
<1>3. SnapshotIsCurrent'
  BY DEF Create, TypeOK, OneCommit, SnapshotIsCurrent, Publishing, Working
<1>4. EffectiveTracksCommit'
  BY DEF Create, TypeOK, OneCommit, EffectiveTracksCommit, Achieved, Working
<1>5. RunfileIsRunning'
  BY DEF Create, TypeOK, OneCommit, RunfileIsRunning, Working
<1>6. ResultAt'
  BY DEF Create, TypeOK, ResultAt
<1>7. TodoAt'
  BY DEF Create, TypeOK, TodoAt, Working
<1>8. TreeAt'
  BY DEF Create, TypeOK, TreeAt
<1> QED
  BY <1>1, <1>2, <1>3, <1>4, <1>5, <1>6, <1>7, <1>8

\* The run file is written.
LEMMA WriteStep ==
  ASSUME Inv, NEW s \in Session, Write(s)
  PROVE  Inv'
<1> USE DEF Inv, Goto, locals, shared, history
<1>1. TypeOK'
  BY TreeTypes DEF Write, TypeOK, Working
<1>2. OneCommit'
  BY DEF Write, TypeOK, OneCommit, Working
<1>3. SnapshotIsCurrent'
  BY DEF Write, TypeOK, OneCommit, SnapshotIsCurrent, Publishing, Working
<1>4. EffectiveTracksCommit'
  BY DEF Write, TypeOK, OneCommit, EffectiveTracksCommit, Achieved, Working
<1>5. RunfileIsRunning'
  <2>1. \A t \in Session : pc[t] \notin {"apply", "discard"}
    BY DEF Write, OneCommit, Working
  <2>2. ~wiped => Merge(effective, running) = running
    BY <2>1, MergeNewRoot DEF EffectiveTracksCommit, TypeOK
  <2> QED
    BY <2>2 DEF Write, RunfileIsRunning
<1>6. ResultAt'
  BY DEF Write, TypeOK, ResultAt
<1>7. TodoAt'
  BY DEF Write, TypeOK, TodoAt, Working
<1>8. TreeAt'
  BY DEF Write, TypeOK, TreeAt
<1> QED
  BY <1>1, <1>2, <1>3, <1>4, <1>5, <1>6, <1>7, <1>8

\* A client's load or copy-config deletes from EFFECTIVE.
LEMMA LoadStep ==
  ASSUME Inv, NEW gone \in SUBSET Node, LoadIntoEffective(gone)
  PROVE  Inv'
<1> USE DEF Inv, locals, shared, history
<1>1. TypeOK'
  BY TreeTypes DEF LoadIntoEffective, TypeOK
<1>2. OneCommit' /\ SnapshotIsCurrent' /\ RunfileIsRunning'
  BY DEF LoadIntoEffective, OneCommit, SnapshotIsCurrent, RunfileIsRunning
<1>3. EffectiveTracksCommit'
  <2>1. /\ \A n \in Node : effective'[n] = "set" => effective[n] = "set"
        /\ Merge(effective', running) \subseteq Merge(effective, running)
    BY DEF LoadIntoEffective, DeleteAll, Deleted, Merge
  <2>2. wiped' /\ UNCHANGED <<pc, cand, rtree, todo, failed, running>>
    BY DEF LoadIntoEffective
  <2> QED
    BY <2>1, <2>2 DEF EffectiveTracksCommit, Achieved
<1>4. ResultAt' /\ TodoAt' /\ TreeAt'
  BY DEF LoadIntoEffective, ResultAt, TodoAt, TreeAt
<1> QED
  BY <1>1, <1>2, <1>3, <1>4

\* The daemon dies and comes back.
LEMMA RestartStep ==
  ASSUME Inv, Restart
  PROVE  Inv'
<1> USE DEF Inv
<1>1. TypeOK'
  BY TreeTypes DEF Restart, TypeOK, Tree
<1>2. OneCommit'
  BY DEF Restart, OneCommit, Working
<1>3. SnapshotIsCurrent' /\ EffectiveTracksCommit' /\ RunfileIsRunning'
  BY DEF Restart, SnapshotIsCurrent, Publishing, EffectiveTracksCommit, RunfileIsRunning, NewRoot
<1>4. ResultAt' /\ TodoAt' /\ TreeAt'
  BY DEF Restart, ResultAt, TodoAt, TreeAt, Working
<1> QED
  BY <1>1, <1>2, <1>3, <1>4

LEMMA InitInv == Init => Inv
<1> SUFFICES ASSUME Init
             PROVE  Inv
  OBVIOUS
<1>1. TypeOK
  BY TreeTypes DEF Init, TypeOK, Tree
<1>2. OneCommit
  BY DEF Init, OneCommit, Working
<1>3. SnapshotIsCurrent /\ EffectiveTracksCommit /\ RunfileIsRunning
  BY DEF Init, SnapshotIsCurrent, Publishing, EffectiveTracksCommit, RunfileIsRunning, NewRoot
<1>4. ResultAt /\ TodoAt /\ TreeAt
  BY DEF Init, ResultAt, TodoAt, TreeAt, Working
<1> QED
  BY <1>1, <1>2, <1>3, <1>4 DEF Inv

LEMMA InvStep == Inv /\ [Next]_vars => Inv'
<1> SUFFICES ASSUME Inv, [Next]_vars
             PROVE  Inv'
  OBVIOUS
<1>1. ASSUME NEW s \in Session, Commit(s) \/ Manager(s)
      PROVE  Inv'
  BY <1>1, CommitStep, RefuseStep, StartStep, DoneStep DEF Manager
<1>2. ASSUME NEW s \in Session, Worker(s)
      PROVE  Inv'
  BY <1>2, SnapshotStep, RejectStep, ValidatedStep, ApplyStep, ApplyFailsStep,
     MergeEffectiveStep, DiscardEffectiveStep, StoreStep, CreateStep, WriteStep, AnswerStep
     DEF Worker
<1>3. CASE UNCHANGED vars
  BY <1>3 DEF vars, locals, shared, history, Inv, TypeOK, OneCommit, SnapshotIsCurrent,
     EffectiveTracksCommit, Achieved, RunfileIsRunning, ResultAt, TodoAt, TreeAt
<1> QED
  BY <1>1, <1>2, <1>3, LoadStep, RestartStep DEF Next

\* The commit manager's invariant: everything below follows from it.
THEOREM CommitMgrInvariant == Spec => []Inv
BY InitInv, InvStep, PTL DEF Spec

\* Type correctness of the commit manager.
THEOREM CommitMgrTypeOK == Spec => []TypeOK
BY CommitMgrInvariant, PTL DEF Inv

\* inCommit lets one commit at a time past the manager's loop (commitmgr.go, run).
THEOREM CommitMgrOneCommit == Spec => []OneCommit
BY CommitMgrInvariant, PTL DEF Inv

\* The single read of running in commit is as good as a lock on it.
THEOREM CommitMgrSnapshotIsCurrent == Spec => []SnapshotIsCurrent
BY CommitMgrInvariant, PTL DEF Inv

\* The EFFECTIVE session sets nothing between commits and never shows more than
\* the current commit has achieved, whatever clients load into it; it is empty
\* between commits and exact during one as long as none does.
THEOREM CommitMgrEffectiveTracksCommit == Spec => []EffectiveTracksCommit
BY CommitMgrInvariant, PTL DEF Inv

\* The run file is the running tree outside writeRunning, restarts included,
\* unless the last write failed or a client had emptied EFFECTIVE before it.
THEOREM CommitMgrRunfileIsRunning == Spec => []RunfileIsRunning
BY CommitMgrInvariant, PTL DEF Inv

-----------------------------------------------------------------------------
\* The manager implements AtomicCommit.

\* A step that neither publishes nor answers is invisible to the sessions.
LEMMA Invisible ==
  ASSUME TypeOK, TypeOK', cand' = cand, running' = running,
         \A s \in Session : /\ pc'[s] = "idle" <=> pc[s] = "idle"
                            /\ res'[s] = res[s]
  PROVE  UNCHANGED <<Asked, cand, running>>
BY DEF Asked

\* A step that the sessions do not see may still be one that changes whether
\* somebody has deleted from EFFECTIVE.
LEMMA MaybeDisturbs ==
  ASSUME TypeOK, TypeOK', UNCHANGED <<Asked, cand, running>>
  PROVE  \/ UNCHANGED <<Asked, cand, running, wiped \/ torn>>
         \/ Abstract!Disturb
<1>1. /\ wiped \in BOOLEAN /\ torn \in BOOLEAN
      /\ wiped' \in BOOLEAN /\ torn' \in BOOLEAN
  BY DEF TypeOK
<1> QED
  BY <1>1 DEF Abstract!Disturb

\* How the request of one session changes.
LEMMA AskedMoves ==
  ASSUME TypeOK, TypeOK', NEW s \in Session,
         \A t \in Session \ {s} : pc'[t] = pc[t] /\ res'[t] = res[t]
  PROVE  Asked' = [Asked EXCEPT ![s] = IF pc'[s] = "idle" THEN "idle"
                                       ELSE IF res'[s] = "none" THEN "asked" ELSE res'[s]]
BY DEF Asked

\* Publishing is the abstract commit: the nodes that failed are the ones lost,
\* the ones that a client had deleted from EFFECTIVE are gone.
LEMMA StoreCommits ==
  ASSUME Inv, Inv', NEW s \in Session, Store(s)
  PROVE  Abstract!Commit(s)
<1>1. /\ pc[s] = "store" /\ res[s] = "none" /\ rtree[s] = running
      /\ pc'[s] = "create" /\ res'[s] = "ok" /\ running' = tree[s] /\ cand' = cand
      /\ \A t \in Session \ {s} : pc'[t] = pc[t] /\ res'[t] = res[t]
  BY DEF Store, Goto, Inv, TypeOK, ResultAt, SnapshotIsCurrent, Publishing
<1>2. Asked[s] = "asked" /\ Asked' = [Asked EXCEPT ![s] = "ok"]
  <2>1. Asked[s] = "asked"
    BY <1>1 DEF Asked
  <2> QED
    BY <1>1, <2>1, AskedMoves DEF Inv
<1> DEFINE lost   == failed[s] \cap Node
           wanted == (Merge(cand[s], running) \ lost) \cup (running \cap lost)
           gone   == wanted \ tree[s]
<1>3. /\ tree[s] = wanted \ gone /\ gone \in SUBSET Node /\ lost \in SUBSET Node
      /\ gone # {} => torn
  <2>1. \A n \in Node :
          LET w == n \in IF n \in failed[s] THEN running ELSE Merge(cand[s], running)
          IN  (n \in tree[s] => w) /\ (~torn /\ w => n \in tree[s])
    BY <1>1 DEF Inv, TreeAt
  <2>2. tree[s] \subseteq Node /\ running \subseteq Node /\ Merge(cand[s], running) \subseteq Node
    BY DEF Inv, TypeOK, Tree, Merge
  <2> QED
    BY <2>1, <2>2
<1>4. Abstract!Merge(cand[s], running) = Merge(cand[s], running)
  BY DEF Merge, Abstract!Merge
<1>5. (wiped' \/ torn') \in BOOLEAN
  OBVIOUS
<1> HIDE DEF lost, gone
<1>6. running' = ((Abstract!Merge(cand[s], running) \ lost) \cup (running \cap lost)) \ gone
  BY <1>1, <1>3, <1>4
<1> QED
  BY <1>1, <1>2, <1>3, <1>5, <1>6 DEF Abstract!Commit

\* Every other step is a request, a failure, an answer, a restart or invisible.
LEMMA RefinementStep ==
  ASSUME Inv, Inv', [Next]_vars
  PROVE  [Abstract!Next]_<<Asked, cand, running, wiped \/ torn>>
<1> USE DEF Goto, locals, shared, history
<1>1. TypeOK /\ TypeOK' /\ ResultAt
  BY DEF Inv
<1>2. ASSUME NEW s \in Session, Commit(s)
      PROVE  Abstract!Ask(s)
  <2>1. /\ pc[s] = "idle" /\ pc'[s] = "calling" /\ res' = res /\ res[s] = "none"
        /\ \A t \in Session \ {s} : pc'[t] = pc[t]
    BY <1>1, <1>2 DEF Commit, TypeOK, ResultAt
  <2>2. Asked[s] = "idle" /\ Asked' = [Asked EXCEPT ![s] = "asked"]
    BY <1>1, <2>1, AskedMoves DEF Asked
  <2> QED
    BY <1>2, <2>2 DEF Commit, Abstract!Ask, Abstract!Overlay, Overlay
<1>3. ASSUME NEW s \in Session, Refuse(s) \/ Reject(s)
      PROVE  Abstract!Fail(s)
  <2>1. /\ pc[s] \in {"calling", "validate"} /\ res[s] = "none"
        /\ pc'[s] # "idle" /\ res'[s] = "fail" /\ cand' = cand /\ running' = running
        /\ wiped' = wiped /\ torn' = torn
        /\ \A t \in Session \ {s} : pc'[t] = pc[t] /\ res'[t] = res[t]
    BY <1>1, <1>3 DEF Refuse, Reject, TypeOK, ResultAt
  <2>2. Asked[s] = "asked"
    BY <2>1 DEF Asked
  <2>3. Asked' = [Asked EXCEPT ![s] = "fail"]
    BY <1>1, <2>1, AskedMoves
  <2> QED
    BY <2>1, <2>2, <2>3 DEF Abstract!Fail
<1>4. ASSUME NEW s \in Session, Answer(s)
      PROVE  Abstract!Answer(s)
  <2>1. /\ pc[s] = "resp" /\ res[s] \in {"ok", "fail"} /\ pc'[s] = "idle"
        /\ running' = running /\ cand' = [cand EXCEPT ![s] = NewRoot]
        /\ wiped' = wiped /\ torn' = torn
        /\ \A t \in Session \ {s} : pc'[t] = pc[t] /\ res'[t] = res[t]
    BY <1>1, <1>4 DEF Answer, TypeOK, ResultAt
  <2>2. Asked[s] \in {"ok", "fail"}
    BY <2>1 DEF Asked
  <2>3. Asked' = [Asked EXCEPT ![s] = "idle"]
    BY <1>1, <2>1, AskedMoves
  <2>4. Abstract!NewRoot = NewRoot
    BY DEF NewRoot, Abstract!NewRoot
  <2> QED
    BY <2>1, <2>2, <2>3, <2>4 DEF Abstract!Answer
<1>5. ASSUME NEW s \in Session, Store(s)
      PROVE  Abstract!Commit(s)
  BY <1>5, StoreCommits
<1>6. ASSUME NEW s \in Session,
             \/ Start(s) \/ Done(s) \/ Snapshot(s) \/ Validated(s)
             \/ \E n \in todo[s] : Apply(s, n) \/ ApplyFails(s, n)
             \/ MergeEffective(s) \/ DiscardEffective(s) \/ Create(s) \/ Write(s)
      PROVE  Abstract!Disturb \/ UNCHANGED <<Asked, cand, running, wiped \/ torn>>
  <2>1. /\ cand' = cand /\ running' = running /\ res' = res
        /\ \A t \in Session : pc'[t] = "idle" <=> pc[t] = "idle"
    BY <1>1, <1>6 DEF Start, Done, Snapshot, Validated, Apply, ApplyFails,
       MergeEffective, DiscardEffective, Create, Write, TypeOK
  <2> QED
    BY <1>1, <2>1, Invisible, MaybeDisturbs
<1>7. Restart => Abstract!Restart
  <2> SUFFICES ASSUME Restart
               PROVE  Abstract!Restart
    OBVIOUS
  <2>1. Asked' = [s \in Session |-> "idle"]
    BY DEF Restart, Asked
  <2> QED
    BY <1>1, <2>1 DEF Restart, Abstract!Restart, NewRoot, Abstract!NewRoot, Tree,
       Abstract!Tree, TypeOK
<1>8. UNCHANGED vars => UNCHANGED <<Asked, cand, running, wiped \/ torn>>
  BY DEF vars, Asked
<1>9. ASSUME NEW gone \in SUBSET Node, LoadIntoEffective(gone)
      PROVE  Abstract!Disturb \/ UNCHANGED <<Asked, cand, running, wiped \/ torn>>
  <2>1. UNCHANGED <<Asked, cand, running>>
    BY <1>9 DEF LoadIntoEffective, Asked
  <2> QED
    BY <1>1, <2>1, MaybeDisturbs
<1> QED
  BY <1>2, <1>3, <1>4, <1>5, <1>6, <1>7, <1>8, <1>9 DEF Next, Manager, Worker, Abstract!Next

\* Readers of running never see a half-applied candidate, a commit that answers
\* "fail" changed nothing, and one that answers "ok" replaced running once, by
\* its candidate over the tree of that moment, but for nodes whose actions failed
\* and for those that a client's load had deleted from EFFECTIVE.
THEOREM CommitMgrImplementsAtomicCommit == Spec => ImplementsAtomicCommit
<1>1. Init => Abstract!Init
  BY DEF Init, Abstract!Init, Asked, NewRoot, Abstract!NewRoot, Tree, Abstract!Tree
<1>2. Inv /\ Inv' /\ [Next]_vars => [Abstract!Next]_<<Asked, cand, running, wiped \/ torn>>
  BY RefinementStep
<1> QED
  BY <1>1, <1>2, CommitMgrInvariant, PTL DEF Spec, ImplementsAtomicCommit, Abstract!Spec
=============================================================================
