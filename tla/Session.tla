------------------------------- MODULE Session -------------------------------
(***************************************************************************)
(* One configuration session: the goroutine session.run of                 *)
(* session/session_internal.go, its candidate and its lock.                *)
(*                                                                         *)
(* Clients (connections, and the scripts configd itself starts) hand their *)
(* requests to the goroutine over an unbuffered channel.  A request that   *)
(* runs scripts or a commit does so in another goroutine and keeps serving *)
(* the channel while it waits, so requests NEST: "stack" holds the         *)
(* handlers that are waiting, the last one on top, and only the top one    *)
(* can go on.  Everything between two waits is one step.                   *)
(*                                                                         *)
(* The commit manager is seen from the session only: it may be busy, it    *)
(* reads the candidate some time after it was asked, and it stores a new   *)
(* running tree.  CommitMgr models it in full.                             *)
(***************************************************************************)
EXTENDS Integers, Sequences, FiniteSets, ConfigTree

CONSTANTS Client,      \* connections that know this session
          Pid,         \* process ids of their peers
          PidOf        \* several connections may share one pid

ASSUME PidAssumption == /\ Pid \subseteq Nat \ {0}
                        /\ PidOf \in [Client -> Pid]
                        /\ "none" \notin Client

\* configd.LockId COMMIT: no client has this pid.
COMMIT == -1

VARIABLES lpid,        \* pid that locked the session, 0 if none
          saved,       \* the session's "saved" mark
          candidate,   \* the session's overlay over running
          running,     \* the running tree, shared with every other session
          stack,       \* waiting handlers, innermost last
          reading,     \* a handler between its two reads of running
          life         \* "up", "killed" (Kill sent), "term" (term closed)

vars == <<lpid, saved, candidate, running, stack, reading, life>>

-----------------------------------------------------------------------------
\* Handlers that wait.

\* set, merge_tree and edit-config: "cur" is being validated, "todo" follows.
Edit == [client : Client, op : {"set", "merge", "edit"},
         cur : Node, todo : SUBSET Node]

\* validateSetPath on its own, gettree and getfulltree
Read == [client : Client, op : {"read"}]

\* validate and commit; "relock" is the deferred lock(ctx.Pid), 0 if none,
\* "snap" the candidate as the commit manager read it.
Exclusive == [client : Client, op : {"validate", "commit"}, relock : Pid \cup {0},
              phase : {"sent", "taken", "ok", "fail"}, snap : Overlay]

Frame == Edit \cup Read \cup Exclusive

Idle == [client |-> "none"]
Reading == [client : Client, op : {"changed", "commit"}, mcan : Tree]

Top == stack[Len(stack)]
Pop == SubSeq(stack, 1, Len(stack) - 1)
Push(f) == Append(stack, f)
SetTop(f) == [stack EXCEPT ![Len(stack)] = f]

\* A client sends its next request once the previous one is answered.
Waiting(c) == \/ \E i \in DOMAIN stack : stack[i].client = c
              \/ reading.client = c

\* Mutant: changed() serves requests while it compares.
AcceptWhileReading(c) == life # "term" /\ ~Waiting(c)

\* A case of the select in run and in every nested loop: the request is taken.
Accept(c) == /\ life # "term"
             /\ reading = Idle
             /\ ~Waiting(c)

-----------------------------------------------------------------------------
\* The lock.

\* Mutant: trylock that never refuses.
trylockAlways(pid) == TRUE

trylock(pid) == lpid = 0 \/ lpid = pid
lock(l, pid) == IF l = 0 THEN pid ELSE l
unlock(l, pid) == IF l = pid THEN 0 ELSE l

Lock(c) ==
  /\ Accept(c)
  /\ lpid' = lock(lpid, PidOf[c])
  /\ UNCHANGED <<saved, candidate, running, stack, reading, life>>

Unlock(c) ==
  /\ Accept(c)
  /\ lpid' = unlock(lpid, PidOf[c])
  /\ UNCHANGED <<saved, candidate, running, stack, reading, life>>

-----------------------------------------------------------------------------
\* Requests that are answered at once.

Del(c, n) ==
  /\ Accept(c)
  /\ trylock(PidOf[c])
  /\ n \in Merge(candidate, running)
  /\ candidate' = Delete(candidate, running, n)
  /\ UNCHANGED <<lpid, saved, running, stack, reading, life>>

\* Mutants: discard that leaves no tree, or that does not test the lock.
DiscardNil(c) ==
  /\ Accept(c)
  /\ trylock(PidOf[c])
  /\ candidate' = <<>>
  /\ UNCHANGED <<lpid, saved, running, stack, reading, life>>
DiscardUnlocked(c) ==
  /\ Accept(c)
  /\ candidate' = NewRoot
  /\ UNCHANGED <<lpid, saved, running, stack, reading, life>>

Discard(c) ==
  /\ Accept(c)
  /\ trylock(PidOf[c])
  /\ candidate' = NewRoot
  /\ UNCHANGED <<lpid, saved, running, stack, reading, life>>

MarkSaved(c, b) ==
  /\ Accept(c)
  /\ trylock(PidOf[c])
  /\ saved' = b
  /\ UNCHANGED <<lpid, candidate, running, stack, reading, life>>

-----------------------------------------------------------------------------
\* Requests that wait for scripts.

ReadTree(c) ==
  /\ Accept(c)
  /\ stack' = Push([client |-> c, op |-> "read"])
  /\ UNCHANGED <<lpid, saved, candidate, running, reading, life>>

\* The top handler's own goroutine has answered.
Resume(c, op) == /\ reading = Idle /\ stack # <<>>
                 /\ Top.client = c /\ Top.op = op

FinishRead(c) ==
  /\ Resume(c, "read")
  /\ stack' = Pop
  /\ UNCHANGED <<lpid, saved, candidate, running, reading, life>>

EditFrame(c, op, n, rest) == [client |-> c, op |-> op, cur |-> n, todo |-> rest]

\* set (and comment, which is served as a set): lock, then authorization,
\* then the wait in validateSetPath.
SetReq(c, n) ==
  /\ Accept(c)
  /\ trylock(PidOf[c])
  /\ stack' = Push(EditFrame(c, "set", n, {}))
  /\ UNCHANGED <<lpid, saved, candidate, running, reading, life>>

\* editConfigXML: the lock is tested once, for all of its operations.  Those
\* that delete ("gone") do not wait; the first one that sets does.
EditConfig(c, gone, todo) ==
  /\ Accept(c)
  /\ trylock(PidOf[c])
  /\ candidate' = DeleteAll(candidate, running, gone)
  /\ \/ stack' = stack
     \/ \E n \in todo : stack' = Push(EditFrame(c, "edit", n, todo \ {n}))
  /\ UNCHANGED <<lpid, saved, running, reading, life>>

\* merge_tree as far as the first node it has to set.  Nodes the captured tree
\* "ut" already has are skipped; that tree goes stale while the handler waits,
\* so which ones are skipped is left open.
StartMerge(c, todo) ==
  \/ stack' = stack
  \/ /\ trylock(PidOf[c])
     /\ \E n \in todo : \E rest \in SUBSET (todo \ {n}) :
          stack' = Push(EditFrame(c, "merge", n, rest))

MergeReq(c, todo) ==
  /\ Accept(c)
  /\ StartMerge(c, todo)
  /\ UNCHANGED <<lpid, saved, candidate, running, reading, life>>

\* load and copyConfig: delete_then_merge_tree deletes before any lock is
\* tested; only the merge that follows tests it, node by node.
Load(c, todo, gone) ==
  /\ Accept(c)
  /\ candidate' = DeleteAll(candidate, running, gone)
  /\ StartMerge(c, todo)
  /\ UNCHANGED <<lpid, saved, running, reading, life>>

\* _set when its wait is over: validateSetPath refused the path, or substitution
\* scripts ran instead of the set (a second wait in the same place, counted here
\* as part of the first), or the node is set.
SetNode(n) == {candidate} \cup
              {can \in {Set(candidate, n)} : n \notin Merge(candidate, running)}

FinishSet(c) ==
  /\ Resume(c, "set")
  /\ candidate' \in SetNode(Top.cur)
  /\ stack' = Pop
  /\ UNCHANGED <<lpid, saved, running, reading, life>>

\* The next node of a merge: set() tests the lock again for each of them.
FinishMerge(c) ==
  /\ Resume(c, "merge")
  /\ candidate' \in SetNode(Top.cur)
  /\ \/ stack' = Pop
     \/ /\ trylock(PidOf[c])
        /\ \E n \in Top.todo : \E rest \in SUBSET (Top.todo \ {n}) :
             stack' = SetTop(EditFrame(c, "merge", n, rest))
  /\ UNCHANGED <<lpid, saved, running, reading, life>>

\* The operations of an edit-config up to the next set; stop-on-error ends it
\* early.  The lock is not tested again.
FinishEdit(c) ==
  /\ Resume(c, "edit")
  /\ \E can \in SetNode(Top.cur) : \E gone \in SUBSET Node :
       candidate' = DeleteAll(can, running, gone)
  /\ \/ stack' = Pop
     \/ \E n \in Top.todo : stack' = SetTop(EditFrame(c, "edit", n, Top.todo \ {n}))
  /\ UNCHANGED <<lpid, saved, running, reading, life>>

-----------------------------------------------------------------------------
\* validate and commit.

\* The lock dance: a client's own lock makes way for COMMIT ...
Borrow(l, pid) == lock(IF l # 0 THEN unlock(l, pid) ELSE l, COMMIT)
\* Mutant: the deferred calls in the other order.
ReturnSwapped(l, relock) == unlock(IF relock # 0 THEN lock(l, relock) ELSE l, COMMIT)

\* ... and the deferred calls give it back, unlock(COMMIT) first.
Return(l, relock) == LET freed == unlock(l, COMMIT)
                     IN  IF relock # 0 THEN lock(freed, relock) ELSE freed

Begin(c, op) ==
  /\ lpid' = Borrow(lpid, PidOf[c])
  /\ stack' = Push([client |-> c, op |-> op, phase |-> "sent", snap |-> candidate,
                    relock |-> IF lpid # 0 THEN PidOf[c] ELSE 0])

Validate(c) ==
  /\ Accept(c)
  /\ trylock(PidOf[c])
  /\ Begin(c, "validate")
  /\ UNCHANGED <<saved, candidate, running, reading, life>>

FinishValidate(c) ==
  /\ Resume(c, "validate")
  /\ lpid' = Return(lpid, Top.relock)
  /\ stack' = Pop
  /\ UNCHANGED <<saved, candidate, running, reading, life>>

\* changed() merges the candidate with one reading of running and compares
\* the result with another; commit asks it too.
Changed1(c, op) ==
  /\ Accept(c)
  /\ op = "commit" => trylock(PidOf[c])
  /\ reading' = [client |-> c, op |-> op, mcan |-> Merge(candidate, running)]
  /\ UNCHANGED <<lpid, saved, candidate, running, stack, life>>

\* The second reading.  A commit goes on only if something changed, and not
\* on a read-only disk (preCommitChecks, when running is not empty).
Changed2(c, readonly) ==
  /\ reading.client = c
  /\ reading' = Idle
  /\ IF /\ reading.op = "commit"
        /\ reading.mcan # running
        /\ ~(readonly /\ running # {})
     THEN Begin(c, "commit")
     ELSE UNCHANGED <<lpid, stack>>
  /\ UNCHANGED <<saved, candidate, running, life>>

\* Mutant: only a commit that succeeded ends the wait.
FinishCommitOk(c) ==
  /\ Resume(c, "commit")
  /\ Top.phase = "ok"
  /\ candidate' = NewRoot
  /\ lpid' = Return(lpid, Top.relock)
  /\ stack' = Pop
  /\ UNCHANGED <<saved, running, reading, life>>

\* The answer of the commit manager reaches the waiting commit.
FinishCommit(c) ==
  /\ Resume(c, "commit")
  /\ Top.phase \in {"ok", "fail"}
  /\ candidate' = IF Top.phase = "ok" THEN NewRoot ELSE candidate
  /\ lpid' = Return(lpid, Top.relock)
  /\ stack' = Pop
  /\ UNCHANGED <<saved, running, reading, life>>

-----------------------------------------------------------------------------
\* The commit manager, as this session sees it.

Taken == \E i \in DOMAIN stack : stack[i].op = "commit" /\ stack[i].phase = "taken"

\* "Commit already in progress", or the commit starts and reads the candidate.
MgrTake(i) ==
  /\ stack[i].op = "commit" /\ stack[i].phase = "sent"
  /\ \/ stack' = [stack EXCEPT ![i].phase = "fail"]
     \/ stack' = [stack EXCEPT ![i].phase = "taken", ![i].snap = candidate]
  /\ UNCHANGED <<lpid, saved, candidate, running, reading, life>>

\* Validation fails, or the nodes that could be applied ("done") become running.
MgrDone(i) ==
  /\ stack[i].op = "commit" /\ stack[i].phase = "taken"
  /\ \/ /\ stack' = [stack EXCEPT ![i].phase = "fail"]
        /\ UNCHANGED running
     \/ \E done \in SUBSET Node :
          /\ stack' = [stack EXCEPT ![i].phase = "ok"]
          /\ running' = {n \in Node :
                           n \in (IF n \in done THEN Merge(stack[i].snap, running)
                                                ELSE running)}
  /\ UNCHANGED <<lpid, saved, candidate, reading, life>>

\* The commit of another session; the manager runs one at a time.
OtherCommit ==
  /\ ~Taken
  /\ running' \in Tree
  /\ UNCHANGED <<lpid, saved, candidate, stack, reading, life>>

-----------------------------------------------------------------------------
\* Destruction: Kill is sent from a goroutine of its own and is received in
\* the outermost loop only.

Kill ==
  /\ life = "up"
  /\ life' = "killed"
  /\ UNCHANGED <<lpid, saved, candidate, running, stack, reading>>

\* Mutant: a locked session does not look at its kill channel.
TerminateUnlocked ==
  /\ life = "killed" /\ stack = <<>> /\ reading = Idle /\ lpid = 0
  /\ life' = "term"
  /\ UNCHANGED <<lpid, saved, candidate, running, stack, reading>>

Terminate ==
  /\ life = "killed" /\ stack = <<>> /\ reading = Idle
  /\ life' = "term"
  /\ UNCHANGED <<lpid, saved, candidate, running, stack, reading>>

-----------------------------------------------------------------------------
Init ==
  /\ lpid = 0
  /\ saved = FALSE
  /\ candidate = NewRoot
  /\ running \in Tree
  /\ stack = <<>>
  /\ reading = Idle
  /\ life = "up"

Request(c) ==
  \/ Lock(c) \/ Unlock(c) \/ Discard(c) \/ ReadTree(c) \/ Validate(c)
  \/ \E n \in Node : Del(c, n) \/ SetReq(c, n)
  \/ \E b \in BOOLEAN : MarkSaved(c, b)
  \/ \E todo \in SUBSET Node : MergeReq(c, todo)
  \/ \E todo, gone \in SUBSET Node : EditConfig(c, gone, todo) \/ Load(c, todo, gone)
  \/ Changed1(c, "changed") \/ Changed1(c, "commit")

Finish(c) ==
  \/ FinishRead(c) \/ FinishSet(c)
  \/ FinishMerge(c) \/ FinishEdit(c) \/ FinishValidate(c) \/ FinishCommit(c)
  \/ \E readonly \in BOOLEAN : Changed2(c, readonly)

Manager(i) == MgrTake(i) \/ MgrDone(i)

Next ==
  \/ \E c \in Client : Request(c) \/ Finish(c)
  \/ \E i \in DOMAIN stack : Manager(i)
  \/ OtherCommit
  \/ Kill \/ Terminate

Spec == Init /\ [][Next]_vars

\* Go's select picks at random among the ready cases, so no handler that is
\* ready again and again is passed over for ever; scripts and commits end.
Fairness == /\ \A c \in Client : SF_vars(Finish(c))
            /\ WF_vars(\E i \in DOMAIN stack : Manager(i))
            /\ SF_vars(Terminate)

FairSpec == Spec /\ Fairness

-----------------------------------------------------------------------------
\* Properties.

\* Every variable keeps its type.
TypeOK ==
  /\ lpid \in Pid \cup {0, COMMIT}
  /\ saved \in BOOLEAN
  /\ candidate \in Overlay
  /\ running \in Tree
  /\ stack \in Seq(Frame)
  /\ reading \in Reading \cup {Idle}
  /\ life \in {"up", "killed", "term"}

ExclusiveAt == {i \in DOMAIN stack : stack[i].op \in {"validate", "commit"}}

\* However requests nest, the session is locked by COMMIT exactly while one
\* validate or commit is waiting, there is never a second one below or above
\* it, and the lock it will give back is its own client's (validate and commit
\* in session_internal.go).
CommitLock ==
  /\ lpid = COMMIT <=> ExclusiveAt # {}
  /\ \A i, j \in ExclusiveAt : i = j
  /\ \A i \in ExclusiveAt : stack[i].relock \in {0, PidOf[stack[i].client]}

\* A commit that has passed the lock test and is still computing changed()
\* will not find the lock taken when it goes on without testing it again
\* (commit relies on the session's goroutine not serving requests meanwhile).
CommitAdmitted ==
  reading # Idle /\ reading.op = "commit" => trylock(PidOf[reading.client])

\* While a validate or commit waits, no nested request changes the candidate,
\* except load and copy-config ("Lock the session from changes during commit").
FrozenButForLoad ==
  [][/\ lpid = COMMIT /\ lpid' = COMMIT
     /\ candidate' # candidate
     => \E c \in Client : \E todo, gone \in SUBSET Node : Load(c, todo, gone)]_vars

\* The pid that holds the lock or has lent it to a validate or commit.
Holder == IF lpid # COMMIT THEN lpid
          ELSE stack[CHOOSE i \in ExclusiveAt : TRUE].relock

\* The session implements the abstract lock: only Lock and Unlock move it from
\* pid to pid, and validate and commit give back what they borrowed.
AbstractLock == INSTANCE SessionLock WITH holder <- Holder, exclusive <- lpid = COMMIT
ImplementsLock == AbstractLock!Spec

\* Every request the session has accepted is answered, however many requests
\* nest above it.
Answered == \A c \in Client : Waiting(c) ~> ~Waiting(c)

\* A destroyed session's goroutine ends (Session.Kill does not block for ever).
KilledTerminates == life = "killed" ~> life = "term"

\* What the comments in commit promise ("Process requests that don't modify the
\* session during commit"): the candidate that a commit applied is the one that
\* its success throws away.
CommittedIsDiscarded ==
  \A i \in DOMAIN stack :
    stack[i].op = "commit" /\ stack[i].phase \in {"taken", "ok"}
    => stack[i].snap = candidate
=============================================================================
