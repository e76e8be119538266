------------------------------ MODULE CommitMgr ------------------------------
(***************************************************************************)
(* The commit manager (session/commitmgr.go, session/commit.go): its run   *)
(* loop, the goroutine it starts for each commit it accepts, the running   *)
(* tree it publishes, the EFFECTIVE session it builds that tree in, and    *)
(* the run file from which a restarted configd recovers.                   *)
(*                                                                         *)
(* pc[s] is where the commit of session s stands: first in                 *)
(* CommitMgr.Commit ("calling": blocked on reqch), then in the manager's   *)
(* goroutine ("begin" ... "resp").  The goroutine of one commit can still  *)
(* be about to answer when the next one has started.                       *)
(*                                                                         *)
(* EFFECTIVE is a session like any other, shared and locked by SYSTEM: the *)
(* lock stops every request of a client that writes except the delete that *)
(* a load or a copy-config begins with.                                    *)
(***************************************************************************)
EXTENDS Naturals, FiniteSets, ConfigTree

CONSTANTS Session,     \* sessions that commit
          Default      \* nodes with a default value, in every merged tree

ASSUME CommitAssumption == Default \cap Node = {}

VARIABLES pc, cand,            \* per session: position and candidate
          rtree, todo, failed, \* per session: locals of CommitMgr.commit
          tree, res,
          inCommit,            \* local of CommitMgr.run
          hadcommit,           \* CommitMgr.hadcommit
          running,             \* CommitMgr.running, loaded and stored atomically
          effective,           \* candidate of the EFFECTIVE session
          configured,          \* default nodes whose actions have run
          runfile,             \* what Config.Runfile holds
          lostWrite            \* the last writeRunning left something else than running

\* History: a client has emptied EFFECTIVE since it was last discarded, and
\* had done so when the tree about to be published was taken from it.
VARIABLES wiped, torn

locals == <<rtree, todo, failed, tree, res>>
shared == <<inCommit, hadcommit, running, effective, configured, runfile, lostWrite>>
history == <<wiped, torn>>
vars == <<pc, cand, locals, shared, history>>

Goto(s, label) == pc' = [pc EXCEPT ![s] = label]

-----------------------------------------------------------------------------
\* CommitMgr.Commit and the manager's loop.

Commit(s) ==
  /\ pc[s] = "idle"
  /\ Goto(s, "calling")
  /\ \E can \in Overlay : cand' = [cand EXCEPT ![s] = can]
  /\ UNCHANGED <<locals, shared, history>>

\* Mutants: the loop falls through to inCommit = false, or does not answer.
RefuseClears(s) ==
  /\ pc[s] = "calling" /\ inCommit
  /\ Goto(s, "resp")
  /\ res' = [res EXCEPT ![s] = "fail"]
  /\ inCommit' = FALSE
  /\ UNCHANGED <<cand, rtree, todo, failed, tree, hadcommit, running, effective,
                 configured, runfile, lostWrite, history>>
RefuseDrops(s) ==
  /\ pc[s] = "calling" /\ inCommit
  /\ Goto(s, "dropped")
  /\ UNCHANGED <<cand, locals, shared, history>>

\* "Commit already in progress"
Refuse(s) ==
  /\ pc[s] = "calling" /\ inCommit
  /\ Goto(s, "resp")
  /\ res' = [res EXCEPT ![s] = "fail"]
  /\ UNCHANGED <<cand, rtree, todo, failed, tree, shared, history>>

\* Mutant: a commit starts while another one runs.
StartAnyway(s) ==
  /\ pc[s] = "calling"
  /\ Goto(s, "begin")
  /\ inCommit' = TRUE
  /\ UNCHANGED <<cand, locals, hadcommit, running, effective, configured, runfile,
                 lostWrite, history>>

Start(s) ==
  /\ pc[s] = "calling" /\ ~inCommit
  /\ Goto(s, "begin")
  /\ inCommit' = TRUE
  /\ UNCHANGED <<cand, locals, hadcommit, running, effective, configured, runfile,
                 lostWrite, history>>

\* case <-donech
Done(s) ==
  /\ pc[s] = "done"
  /\ Goto(s, "resp")
  /\ inCommit' = FALSE
  /\ UNCHANGED <<cand, locals, hadcommit, running, effective, configured, runfile,
                 lostWrite, history>>

\* r.resp <- resp: the goroutine ends and its locals are gone.
Answer(s) ==
  /\ pc[s] = "resp"
  /\ Goto(s, "idle")
  /\ cand' = [cand EXCEPT ![s] = NewRoot]
  /\ rtree' = [rtree EXCEPT ![s] = {}]
  /\ todo' = [todo EXCEPT ![s] = {}]
  /\ failed' = [failed EXCEPT ![s] = {}]
  /\ tree' = [tree EXCEPT ![s] = {}]
  /\ res' = [res EXCEPT ![s] = "none"]
  /\ UNCHANGED <<shared, history>>

-----------------------------------------------------------------------------
\* CommitMgr.commit.

\* The nodes a commit has to act on: the difference between the merged
\* candidate and "run", which for the very first commit lacks the defaults.
Diff(can, rt, had) ==
  LET mcan == Merge(can, rt) \cup Default
      run  == IF had THEN rt \cup Default ELSE rt
  IN  (mcan \ run) \cup (run \ mcan)

\* m.Running() is read once; hadcommit is set before anything is validated.
Snapshot(s) ==
  /\ pc[s] = "begin"
  /\ Goto(s, "validate")
  /\ rtree' = [rtree EXCEPT ![s] = running]
  /\ todo' = [todo EXCEPT ![s] = Diff(cand[s], running, hadcommit)]
  /\ hadcommit' = TRUE
  /\ UNCHANGED <<cand, failed, tree, res, inCommit, running, effective, configured,
                 runfile, lostWrite, history>>

\* ctx.validate() fails, or the user's uid is unknown.
Reject(s) ==
  /\ pc[s] = "validate"
  /\ Goto(s, "done")
  /\ res' = [res EXCEPT ![s] = "fail"]
  /\ UNCHANGED <<cand, rtree, todo, failed, tree, shared, history>>

\* The pre-commit hooks have run (their errors are only reported) and the
\* components have been given the candidate.
Validated(s) ==
  /\ pc[s] = "validate"
  /\ Goto(s, "apply")
  /\ UNCHANGED <<cand, locals, shared, history>>

\* commit.Commit acts on one node.  Success is recorded in EFFECTIVE, for the
\* defaults too, which MergeTreeWithoutDefaults strips again.
Apply(s, n) ==
  /\ pc[s] = "apply" /\ n \in todo[s]
  /\ todo' = [todo EXCEPT ![s] = @ \ {n}]
  /\ IF n \in Default
     THEN configured' = configured \cup {n} /\ UNCHANGED effective
     ELSE /\ effective' = IF n \in Merge(cand[s], rtree[s])
                          THEN Set(effective, n)
                          ELSE Delete(effective, running, n)
          /\ UNCHANGED configured
  /\ UNCHANGED <<pc, cand, rtree, failed, tree, res, inCommit, hadcommit, running,
                 runfile, lostWrite, history>>

\* Mutant: a failing node aborts the commit and leaves EFFECTIVE as it is.
ApplyFailsAborts(s, n) ==
  /\ pc[s] = "apply" /\ n \in todo[s]
  /\ Goto(s, "done")
  /\ res' = [res EXCEPT ![s] = "fail"]
  /\ UNCHANGED <<cand, rtree, todo, failed, tree, shared, history>>

\* The node's actions fail: the others go on, EFFECTIVE keeps its old state.
ApplyFails(s, n) ==
  /\ pc[s] = "apply" /\ n \in todo[s]
  /\ todo' = [todo EXCEPT ![s] = @ \ {n}]
  /\ failed' = [failed EXCEPT ![s] = @ \cup {n}]
  /\ UNCHANGED <<pc, cand, rtree, tree, res, shared, history>>

\* Mutant: MergeTree instead of MergeTreeWithoutDefaults.
MergeEffectiveDefaults(s) ==
  /\ pc[s] = "apply" /\ todo[s] = {}
  /\ Goto(s, "discard")
  /\ tree' = [tree EXCEPT ![s] = Merge(effective, running) \cup Default]
  /\ UNCHANGED <<cand, rtree, todo, failed, res, shared, history>>

\* effective := m.effective.MergeTreeWithoutDefaults(): a request to the
\* EFFECTIVE session, as is the Discard that follows it.
MergeEffective(s) ==
  /\ pc[s] = "apply" /\ todo[s] = {}
  /\ Goto(s, "discard")
  /\ tree' = [tree EXCEPT ![s] = Merge(effective, running)]
  /\ torn' = wiped
  /\ UNCHANGED <<cand, rtree, todo, failed, res, shared, wiped>>

\* Mutant: the Discard is forgotten.
DiscardForgotten(s) ==
  /\ pc[s] = "discard"
  /\ Goto(s, "store")
  /\ UNCHANGED <<cand, locals, shared, history>>

DiscardEffective(s) ==
  /\ pc[s] = "discard"
  /\ Goto(s, "store")
  /\ effective' = NewRoot
  /\ wiped' = FALSE
  /\ UNCHANGED <<cand, locals, inCommit, hadcommit, running, configured, runfile,
                 lostWrite, torn>>

Store(s) ==
  /\ pc[s] = "store"
  /\ Goto(s, "create")
  /\ running' = tree[s]
  /\ res' = [res EXCEPT ![s] = "ok"]
  /\ torn' = FALSE
  /\ UNCHANGED <<cand, rtree, todo, failed, tree, inCommit, hadcommit, effective,
                 configured, runfile, lostWrite, wiped>>

\* writeRunning: os.Create empties the file, the text follows in a second
\* step.  Errors end it early and nobody looks at them.
Create(s) ==
  /\ pc[s] = "create"
  /\ \/ /\ Goto(s, "write")
        /\ runfile' = {}
        /\ UNCHANGED lostWrite
     \/ /\ Goto(s, "done")
        /\ lostWrite' = TRUE
        /\ UNCHANGED runfile
  /\ UNCHANGED <<cand, locals, inCommit, hadcommit, running, effective, configured,
                 history>>

\* Mutant: the run file gets the tree the commit started from.
WriteOld(s) ==
  /\ pc[s] = "write"
  /\ Goto(s, "done")
  /\ runfile' = rtree[s] /\ lostWrite' = FALSE
  /\ UNCHANGED <<cand, locals, inCommit, hadcommit, running, effective, configured,
                 history>>

\* What is written is what EFFECTIVE shows, not running itself.
Write(s) ==
  /\ pc[s] = "write"
  /\ Goto(s, "done")
  /\ \/ runfile' = Merge(effective, running) /\ lostWrite' = wiped
     \/ UNCHANGED runfile /\ lostWrite' = TRUE
  /\ UNCHANGED <<cand, locals, inCommit, hadcommit, running, effective, configured,
                 history>>

-----------------------------------------------------------------------------
\* A client's load or copy-config with EFFECTIVE as its session, at any time.
\* delete_then_merge_tree deletes what the client's authorization lets it,
\* without asking for the lock; each set of the merge then fails on it.
LoadIntoEffective(gone) ==
  /\ gone # {} /\ gone \subseteq Merge(effective, running)
  /\ effective' = DeleteAll(effective, running, gone)
  /\ wiped' = TRUE
  /\ UNCHANGED <<pc, cand, locals, inCommit, hadcommit, running, configured, runfile,
                 lostWrite, torn>>

\* The daemon dies at any point and is started again: NewSrv loads the run
\* file and creates a new commit manager and new sessions.
Restart ==
  /\ pc' = [s \in Session |-> "idle"]
  /\ cand' = [s \in Session |-> NewRoot]
  /\ rtree' = [s \in Session |-> {}]
  /\ todo' = [s \in Session |-> {}]
  /\ failed' = [s \in Session |-> {}]
  /\ tree' = [s \in Session |-> {}]
  /\ res' = [s \in Session |-> "none"]
  /\ inCommit' = FALSE
  /\ hadcommit' = FALSE
  /\ running' = runfile
  /\ effective' = NewRoot
  /\ lostWrite' = FALSE
  /\ wiped' = FALSE /\ torn' = FALSE
  /\ UNCHANGED <<configured, runfile>>

Init ==
  /\ pc = [s \in Session |-> "idle"]
  /\ cand = [s \in Session |-> NewRoot]
  /\ rtree = [s \in Session |-> {}]
  /\ todo = [s \in Session |-> {}]
  /\ failed = [s \in Session |-> {}]
  /\ tree = [s \in Session |-> {}]
  /\ res = [s \in Session |-> "none"]
  /\ inCommit = FALSE
  /\ hadcommit = FALSE
  /\ runfile \in Tree
  /\ running = runfile
  /\ effective = NewRoot
  /\ configured = {}
  /\ lostWrite = FALSE
  /\ wiped = FALSE /\ torn = FALSE

Manager(s) == Refuse(s) \/ Start(s) \/ Done(s)

Worker(s) ==
  \/ Snapshot(s) \/ Reject(s) \/ Validated(s)
  \/ \E n \in todo[s] : Apply(s, n) \/ ApplyFails(s, n)
  \/ MergeEffective(s) \/ DiscardEffective(s) \/ Store(s)
  \/ Create(s) \/ Write(s) \/ Answer(s)

Next ==
  \/ \E s \in Session : Commit(s) \/ Manager(s) \/ Worker(s)
  \/ \E gone \in SUBSET Node : LoadIntoEffective(gone)
  \/ Restart

Spec == Init /\ [][Next]_vars

\* The manager's loop never blocks, so every send to it is received; the
\* scripts and components a commit runs come to an end.
FairSpec == Spec /\ \A s \in Session : WF_vars(Manager(s)) /\ WF_vars(Worker(s))

-----------------------------------------------------------------------------
\* Properties.

Working == {"begin", "validate", "apply", "discard", "store", "create", "write", "done"}
Publishing == {"validate", "apply", "discard", "store"}

\* Every variable keeps its type.
TypeOK ==
  /\ pc \in [Session -> Working \cup {"idle", "calling", "resp"}]
  /\ cand \in [Session -> Overlay]
  /\ rtree \in [Session -> Tree]
  /\ todo \in [Session -> SUBSET (Node \cup Default)]
  /\ failed \in [Session -> SUBSET (Node \cup Default)]
  /\ tree \in [Session -> Tree]
  /\ res \in [Session -> {"none", "ok", "fail"}]
  /\ inCommit \in BOOLEAN /\ hadcommit \in BOOLEAN
  /\ running \in Tree /\ runfile \in Tree
  /\ effective \in Overlay
  /\ configured \in SUBSET Default
  /\ lostWrite \in BOOLEAN /\ wiped \in BOOLEAN /\ torn \in BOOLEAN

\* One commit at a time: inCommit is set exactly while one goroutine is
\* between its start and its message on donech, even though an earlier one
\* may still have to answer.
OneCommit ==
  /\ inCommit <=> \E s \in Session : pc[s] \in Working
  /\ \A s, t \in Session : pc[s] \in Working /\ pc[t] \in Working => s = t

\* The running tree that a commit read once at its start is still the running
\* tree when it publishes ("we can only call it once").
SnapshotIsCurrent ==
  \A s \in Session : pc[s] \in Publishing => rtree[s] = running

\* What the commit of s has achieved so far: the candidate, but for the nodes
\* that it has not come to yet and the ones that failed.
Achieved(s) ==
  {n \in Node : n \in IF n \in todo[s] \cup failed[s] THEN rtree[s]
                                                     ELSE Merge(cand[s], rtree[s])}

\* EFFECTIVE never shows more than the running commit has achieved so far, nor
\* anything of an earlier commit, failed, refused or complete; it shows exactly
\* that unless a client has emptied it since it was last discarded.
EffectiveTracksCommit ==
  /\ (\A s \in Session : pc[s] \notin {"apply", "discard"}) =>
       /\ \A n \in Node : effective[n] # "set"
       /\ ~wiped => effective = NewRoot
  /\ \A s \in Session : pc[s] \in {"apply", "discard"} =>
       /\ Merge(effective, running) \subseteq Achieved(s)
       /\ ~wiped => Merge(effective, running) = Achieved(s)

\* The run file is the running tree whenever no commit is about to write it,
\* unless the last write failed or wrote an EFFECTIVE that a client had emptied.
RunfileIsRunning ==
  ~lostWrite /\ (\A s \in Session : pc[s] \notin {"create", "write"})
  => runfile = running

\* The manager implements the abstract commit: readers of running never see a
\* half-applied candidate, "fail" means that nothing was changed, and only a
\* client that empties EFFECTIVE can make a commit lose other nodes than those
\* whose actions failed.
Asked == [s \in Session |-> IF pc[s] = "idle" THEN "idle"
                            ELSE IF res[s] = "none" THEN "asked" ELSE res[s]]
Abstract == INSTANCE AtomicCommit WITH asked <- Asked, disturbed <- (wiped \/ torn)
ImplementsAtomicCommit == Abstract!Spec

\* Every call of CommitMgr.Commit returns.
CommitAnswered == \A s \in Session : pc[s] # "idle" ~> pc[s] = "idle"

\* "To ensure that defaults values are configured": a commit that succeeds
\* without failures leaves every default configured.
DefaultsConfigured ==
  \A s \in Session :
    res[s] = "ok" /\ failed[s] = {} => Default \subseteq configured

\* "File to store current running config into incase of restart": a restart
\* comes back with the running tree, or the one a commit is replacing.
RestartRecovers ==
  [][Restart /\ ~lostWrite =>
       \/ running' = running
       \/ \E s \in Session : res[s] = "ok" /\ running' = rtree[s]]_vars
=============================================================================
