--------------------------- MODULE ConfirmedCommit ---------------------------
(***************************************************************************)
(* Commits that must be confirmed, rollback and save: the sequences of     *)
(* steps of server/dispatcher.go, confirmed_commit.go and config_mgmt.go,  *)
(* and of the command line (cmd/cfgcli/runfns.go) around them.             *)
(*                                                                         *)
(* Every connection runs its requests one after another, in a goroutine of *)
(* its own; nothing orders the requests of different connections.  They    *)
(* meet in files: the job file of the pending confirmed commit, the revert *)
(* file, the boot file.  pc[a] is the next point where actor a touches     *)
(* something shared.                                                       *)
(*                                                                         *)
(* External, seen from its calls here: vyatta-config-mgmt.pl, which keeps  *)
(* the job file, starts the timers, and on expiry runs "cancel-commit      *)
(* force" in a process of its own (Reverter).  Its confirm-silent and      *)
(* confirm stop a commit-confirm's rollback; its confirming-commit and     *)
(* confirm --persistid end a confirmed commit.  A session's commit is one  *)
(* step here, Session and CommitMgr model it.                              *)
(***************************************************************************)
EXTENDS Integers, FiniteSets

CONSTANTS Client,      \* connections; each has a pid of its own
          Reverter,    \* the process that the timer and the script start
          Config,      \* configurations
          BootConfig,  \* the one that is running and saved when the requests start
          PersistId,   \* persist-ids other than the empty one
          TimeoutArg,  \* timeout arguments that clients pass
          MaxUint,     \* 2^32 - 1, the largest timeout
          MaxRequests  \* bound: requests of all clients together

ASSUME ConfirmAssumption ==
    /\ Reverter \notin Client
    /\ Config \cap {"none", "empty", "damaged"} = {}
    /\ BootConfig \in Config
    /\ "" \notin PersistId
    /\ TimeoutArg \subseteq Int
    /\ MaxUint \in Nat /\ MaxUint >= 600
    /\ MaxRequests \in Nat

Actor == Client \cup {Reverter}

\* Timeout arguments that are not numbers: the empty one and text.
NoTimeout == -1
NotANumber == -2
DefaultTimeout == 600

VARIABLES
    running,     \* the running configuration
    cand,        \* per actor: what its session would commit, "none" if unedited
    boot,        \* /config/config.boot, "empty" from its truncation on, "damaged" if
                 \* what a copy has left is not a configuration
    overlapped,  \* copies into it that another copy disturbs: one of something else,
                 \* or one that failed
    tmp,         \* per actor: the temporary file of its save
    base,        \* per actor: running before its commit, for the external script
    job,         \* confirmed_commit.job
    revertFile,  \* the configuration "revert" of the archive
    armed,       \* the timer of the pending confirmed commit runs
    atRollback,  \* commit-confirm: the configuration its timer goes back to
    pc,          \* per actor: the next step
    req,         \* per actor: its request
    fate,        \* history: how the last confirmed commit ended that was to go
                 \* back to this configuration
    late,        \* history: actors that were at work already when the pending
                 \* confirmed commit was scheduled
    left,        \* requests that clients may still make
    alone,       \* history: no other request overlapped this one so far
    unsaved      \* history: a save failed, or a commit was not saved

jobVars == <<job, revertFile, armed>>
bootVars == <<boot, overlapped>>
vars == <<running, cand, bootVars, tmp, base, jobVars, atRollback,
          pc, req, fate, late, left, alone, unsaved>>

-----------------------------------------------------------------------------
\* Requests

Persist == PersistId \cup {""}

\* commitInfo; "given" is FALSE for the nil of plain commits
CommitInfo == [given : BOOLEAN, confirmed : BOOLEAN, persist : Persist,
               persistId : Persist, timeout : 0 .. MaxUint]

Nil == [given |-> FALSE, confirmed |-> FALSE, persist |-> "",
        persistId |-> "", timeout |-> 0]

\* Mutant: the range of the timeout is not tested.
newCommitInfoUnchecked(confirmed, timeout, persist, persistId) ==
    [given |-> TRUE, confirmed |-> confirmed, persist |-> persist,
     persistId |-> persistId,
     timeout |-> IF timeout < 0 THEN DefaultTimeout ELSE timeout]

\* An unusable timeout leaves 0, which no request that goes on has.
newCommitInfo(confirmed, timeout, persist, persistId) ==
    [given |-> TRUE, confirmed |-> confirmed, persist |-> persist,
     persistId |-> persistId,
     timeout |-> CASE timeout = NoTimeout -> DefaultTimeout
                   [] timeout \in 1 .. MaxUint -> timeout
                   [] OTHER -> 0]

\* revision: "" for a commit, "revert" for cancel-commit, "N" for a rollback to
\* "target".  cli: the command line's commit, which saves once more by itself.
\* keys: the commit of load-keys.  force: a cancel-commit of whoever asks.
\* saving: only the save is left.
Request == [cmt : CommitInfo, mins : BOOLEAN, revision : {"", "revert", "N"},
            target : Config \cup {"none"}, cli : BOOLEAN, keys : BOOLEAN,
            force : BOOLEAN, saving : BOOLEAN]

Plain == [cmt |-> Nil, mins |-> FALSE, revision |-> "", target |-> "none",
          cli |-> FALSE, keys |-> FALSE, force |-> FALSE, saving |-> FALSE]

NoJob == [session |-> "none", persist |-> "", timeout |-> 0]
Job == [session : Client, persist : Persist, timeout : 1 .. MaxUint]

Label == {"idle", "silent", "changed", "load", "loaded", "check",
          "confirming", "recheck", "commit", "validdest", "show", "truncate",
          "copy", "schedule", "terminate", "gone"}

Busy(a) == pc[a] \notin {"idle", "gone"}

Changed(a) == cand[a] \notin {"none", running}

\* A revert at work, and the configuration it goes back to.
Reverting(a) == Busy(a) /\ req[a].revision = "revert"

Target(a) == IF pc[a] \in {"silent", "changed", "load"} THEN revertFile ELSE cand[a]

\* Neither the timer nor another revert would go back where a was to go.
LastHope(a) ==
    /\ Reverting(a) /\ Target(a) \in Config
    /\ ~(armed /\ revertFile = Target(a))
    /\ \A b \in Actor \ {a} : Reverting(b) => Target(b) # Target(a)

\* A request of actor a begins at label l.
Start(a, r, l) ==
    /\ pc' = [pc EXCEPT ![a] = l]
    /\ req' = [req EXCEPT ![a] = r]
    /\ alone' = [b \in Actor |->
                   IF b = a THEN \A x \in Actor \ {a} : ~Busy(x) ELSE FALSE]
    /\ left' = IF a \in Client THEN left - 1 ELSE left
    /\ UNCHANGED <<tmp, base, fate, late>>

\* A request that is answered in the step that receives it.
Answered ==
    /\ alone' = [b \in Actor |-> FALSE]
    /\ left' = left - 1
    /\ UNCHANGED <<tmp, base, pc, req, late>>

Answer == Answered /\ UNCHANGED fate

Goto(a, l) ==
    /\ pc' = [pc EXCEPT ![a] = l]
    /\ UNCHANGED <<tmp, base, req, fate, late, left, alone>>

\* The handler of a is done.
Leave(a) ==
    /\ pc' = [pc EXCEPT ![a] = "idle"]
    /\ req' = [req EXCEPT ![a] = Plain]
    /\ tmp' = [tmp EXCEPT ![a] = "none"]
    /\ base' = [base EXCEPT ![a] = "none"]
    /\ alone' = [alone EXCEPT ![a] = FALSE]
    /\ UNCHANGED left

Return(a, r) ==
    /\ Leave(a)
    /\ late' = late \ {a}
    /\ fate' = IF r = "error" /\ LastHope(a) THEN [fate EXCEPT ![Target(a)] = "error"]
                                            ELSE fate

MayAsk(c) == pc[c] = "idle" /\ left > 0

-----------------------------------------------------------------------------
\* Requests arrive

\* The client edits its session.
Edit(c, cfg) ==
    /\ MayAsk(c) /\ cand[c] = "none" /\ cfg # running
    /\ cand' = [cand EXCEPT ![c] = cfg]
    /\ UNCHANGED <<running, bootVars, tmp, base, job, revertFile, armed, atRollback,
                   pc, req, fate, late, left, alone, unsaved>>

\* Discard
DiscardEdits(c) ==
    /\ pc[c] = "idle" /\ cand[c] # "none"
    /\ cand' = [cand EXCEPT ![c] = "none"]
    /\ UNCHANGED <<running, bootVars, tmp, base, job, revertFile, armed, atRollback,
                   pc, req, fate, late, left, alone, unsaved>>

ConfirmedCommit(c, confirmed, timeout, persist, persistId) ==
    LET cmt == newCommitInfo(confirmed, timeout, persist, persistId) IN
    /\ MayAsk(c)
    /\ IF cmt.timeout = 0
       THEN Answer
       ELSE Start(c, [Plain EXCEPT !.cmt = cmt], "check")
    /\ UNCHANGED <<running, cand, bootVars, job, revertFile, armed, atRollback, unsaved>>

\* Commit: the RPC alone, or the command line's commit, which first stops the
\* rollback of a commit-confirm.
Commit(c, cli) ==
    /\ MayAsk(c)
    /\ Start(c, [Plain EXCEPT !.cli = cli], IF cli THEN "silent" ELSE "check")
    /\ UNCHANGED <<running, cand, bootVars, job, revertFile, armed, atRollback, unsaved>>

\* CommitConfirm, and commit-confirm on the command line.  Zero minutes is
\* accepted and schedules nothing.
CommitConfirm(c, mins, cli) ==
    /\ MayAsk(c)
    /\ cli => mins
    /\ Start(c, [Plain EXCEPT !.mins = mins, !.cli = cli],
             IF cli THEN "changed" ELSE "check")
    /\ UNCHANGED <<running, cand, bootVars, job, revertFile, armed, atRollback, unsaved>>

Rollback(c, cfg) ==
    /\ MayAsk(c)
    /\ Start(c, [Plain EXCEPT !.revision = "N", !.target = cfg], "silent")
    /\ UNCHANGED <<running, cand, bootVars, job, revertFile, armed, atRollback, unsaved>>

MayCancel(c, persistId) ==
    /\ job # NoJob
    /\ job.persist = persistId
    /\ persistId = "" => job.session = c

CancelCommit(c, persistId, force) ==
    /\ MayAsk(c)
    /\ IF force \/ MayCancel(c, persistId)
       THEN Start(c, [Plain EXCEPT !.revision = "revert", !.cmt.persistId = persistId,
                                   !.force = force], "silent")
       ELSE Answer
    /\ UNCHANGED <<running, cand, bootVars, job, revertFile, armed, atRollback, unsaved>>

\* vyatta-config-mgmt.pl --action=confirm, with and without --persistid
Confirm(c) ==
    /\ MayAsk(c)
    /\ \/ atRollback' = "none" /\ Answer
       \/ UNCHANGED atRollback /\ Answer
    /\ UNCHANGED <<running, cand, bootVars, job, revertFile, armed, unsaved>>

EndJob ==
    /\ job' = NoJob
    /\ revertFile' = "none"
    /\ armed' = FALSE

ConfirmPersistId(c, p) ==
    /\ MayAsk(c)
    /\ \/ /\ job # NoJob /\ job.persist = p
          /\ EndJob
          /\ fate' = [fate EXCEPT ![revertFile] = "confirmed"]
          /\ Answered
       \/ UNCHANGED jobVars /\ Answer
    /\ UNCHANGED <<running, cand, bootVars, atRollback, unsaved>>

\* LoadKeys: each key of the file is set in the session, on top of what was
\* edited there before; then a plain commit of all of it.  With a bad line the
\* keys before it stay set.
LoadKeys(c, cfg) ==
    /\ MayAsk(c)
    /\ cand' = [cand EXCEPT ![c] = cfg] \/ UNCHANGED cand
    /\ Answer \/ Start(c, [Plain EXCEPT !.keys = TRUE], "changed")
    /\ UNCHANGED <<running, bootVars, job, revertFile, armed, atRollback, unsaved>>

Save(c) ==
    /\ MayAsk(c)
    /\ Start(c, [Plain EXCEPT !.saving = TRUE], "validdest")
    /\ UNCHANGED <<running, cand, bootVars, job, revertFile, armed, atRollback, unsaved>>

-----------------------------------------------------------------------------
\* rollbackInternal, loadKeysInternal, and the command line before its RPC

\* Its error is ignored.
ConfirmSilent(a) ==
    /\ pc[a] = "silent"
    /\ Goto(a, IF req[a].keys THEN "check" ELSE "changed")
    /\ \/ atRollback' = "none"
       \/ UNCHANGED atRollback
    /\ UNCHANGED <<running, cand, bootVars, job, revertFile, armed, unsaved>>

\* The command line commits only with changes, a rollback only without; no keys
\* to commit is no error.
SessionChanged(a) ==
    /\ pc[a] = "changed"
    /\ IF req[a].revision = ""
       THEN \/ Changed(a) /\ Goto(a, IF req[a].keys THEN "silent" ELSE "check")
            \/ ~Changed(a) /\ Return(a, IF req[a].keys THEN "ok" ELSE "error")
       ELSE IF Changed(a) THEN Return(a, "error") ELSE Goto(a, "load")
    /\ UNCHANGED <<running, cand, bootVars, job, revertFile, armed, atRollback, unsaved>>

\* The file of the revision, if there is one: a revert looks for its file, a
\* numbered revision must be in the commit log.
Archived(a) == IF req[a].revision = "revert" THEN revertFile ELSE req[a].target

loadArchivedConfig(a) ==
    /\ pc[a] = "load"
    /\ \/ /\ Archived(a) # "none"
          /\ cand' = [cand EXCEPT ![a] = Archived(a)]
          /\ Goto(a, "loaded")
       \/ /\ Return(a, "error")
          /\ UNCHANGED cand
    /\ UNCHANGED <<running, bootVars, job, revertFile, armed, atRollback, unsaved>>

\* Mutant: what was loaded is not committed.
LoadedOnly(a) ==
    /\ pc[a] = "loaded"
    /\ Return(a, "ok")
    /\ UNCHANGED <<running, cand, bootVars, job, revertFile, armed, atRollback, unsaved>>

Loaded(a) ==
    /\ pc[a] = "loaded"
    /\ IF Changed(a) THEN Goto(a, "check") ELSE Return(a, "ok")
    /\ UNCHANGED <<running, cand, bootVars, job, revertFile, armed, atRollback, unsaved>>

-----------------------------------------------------------------------------
\* confirmedCommitInternal

\* The pending commit is somebody else's, and the request does not name it.
NotOurs(a) ==
    LET cmt == req[a].cmt IN
    \/ ~cmt.given
    \/ job.persist # cmt.persistId
    \/ cmt.persistId = "" /\ job.session # a

\* What performConfirmingCommitIfRequired decides when it reads the job file.
Decision(a) ==
    IF job = NoJob THEN "none"
    ELSE IF req[a].revision = "revert" THEN "confirm"
    ELSE IF NotOurs(a) THEN "denied"
    ELSE IF req[a].cmt.confirmed THEN "none" ELSE "confirm"

\* Mutant: a denied commit goes on.
CheckIgnored(a) ==
    /\ pc[a] = "check"
    /\ Goto(a, IF Decision(a) = "confirm" THEN "confirming" ELSE "commit")
    /\ UNCHANGED <<running, cand, bootVars, job, revertFile, armed, atRollback, unsaved>>

performConfirmingCommitIfRequired(a) ==
    /\ pc[a] = "check"
    /\ \/ Decision(a) = "none" /\ Goto(a, "commit")
       \/ Decision(a) = "confirm" /\ Goto(a, "confirming")
       \/ Decision(a) = "denied" /\ Return(a, "error")
    /\ UNCHANGED <<running, cand, bootVars, job, revertFile, armed, atRollback, unsaved>>

\* A revert that ends the confirmed commit still has to commit what it loaded;
\* it may have loaded what an earlier one was to go back to.
FateOf(a) == IF req[a].revision # "revert" THEN "confirmed"
             ELSE IF cand[a] = revertFile THEN "none" ELSE "superseded"

\* The script, whose error is ignored.
ConfirmingCommit(a) ==
    /\ pc[a] = "confirming"
    /\ pc' = [pc EXCEPT ![a] = "recheck"]
    /\ \/ /\ EndJob
          /\ fate' = IF job = NoJob THEN fate ELSE [fate EXCEPT ![revertFile] = FateOf(a)]
       \/ UNCHANGED <<jobVars, fate>>
    /\ UNCHANGED <<running, cand, bootVars, tmp, base, atRollback, req, late, left,
                   alone, unsaved>>

\* After success the command line saves once more.
Succeed(a) ==
    IF req[a].cli
    THEN /\ pc' = [pc EXCEPT ![a] = "validdest"]
         /\ req' = [req EXCEPT ![a].cli = FALSE, ![a].saving = TRUE]
         /\ UNCHANGED <<tmp, base, fate, late, left, alone>>
    ELSE Return(a, "ok")

\* A confirming commit with nothing else to commit is done.
Recheck(a) ==
    /\ pc[a] = "recheck"
    /\ IF Changed(a) THEN Goto(a, "commit") ELSE Succeed(a)
    /\ UNCHANGED <<running, cand, bootVars, job, revertFile, armed, atRollback, unsaved>>

\* A revert or rollback is to be scheduled once the commit is saved.
ToSchedule(a) == ~req[a].saving /\ (req[a].cmt.confirmed \/ req[a].mins)

\* sess.Commit: it can be refused, succeed, or succeed with non-fatal failures,
\* and then neither the save nor the schedule follows.
SessCommit(a) ==
    /\ pc[a] = "commit"
    /\ \/ /\ Return(a, "error")
          /\ UNCHANGED <<running, cand, unsaved>>
       \/ /\ Changed(a)
          /\ running' = cand[a]
          /\ cand' = [cand EXCEPT ![a] = "none"]
          /\ \/ /\ pc' = [pc EXCEPT ![a] = "validdest"]
                /\ base' = [base EXCEPT ![a] = IF ToSchedule(a) THEN running ELSE "none"]
                /\ UNCHANGED <<tmp, req, fate, late, left, alone, unsaved>>
             \/ /\ Succeed(a)
                /\ unsaved' = TRUE
    /\ UNCHANGED <<bootVars, job, revertFile, armed, atRollback>>

\* saveToInternal: the destination must be a configuration already: it has to
\* hold the line that is written last ...
validLocalSaveToDest(a) ==
    /\ pc[a] = "validdest"
    /\ \/ boot # "empty" /\ Goto(a, "show") /\ UNCHANGED unsaved
       \/ boot \notin Config /\ Return(a, "error") /\ unsaved' = TRUE
    /\ UNCHANGED <<running, cand, bootVars, job, revertFile, armed, atRollback>>

\* Mutant: what is shown is the tree from before the commit.
writeTempOldConfigFile(a) ==
    /\ pc[a] = "show"
    /\ tmp' = [tmp EXCEPT ![a] = IF base[a] = "none" THEN running ELSE base[a]]
    /\ pc' = [pc EXCEPT ![a] = "truncate"]
    /\ UNCHANGED <<running, cand, bootVars, base, job, revertFile, armed, atRollback,
                   req, fate, late, left, alone, unsaved>>

\* ... RUNNING is shown into a temporary file ...
writeTempRunningConfigFile(a) ==
    /\ pc[a] = "show"
    /\ \/ /\ tmp' = [tmp EXCEPT ![a] = running]
          /\ pc' = [pc EXCEPT ![a] = "truncate"]
          /\ UNCHANGED <<base, req, fate, late, left, alone, unsaved>>
       \/ Return(a, "error") /\ unsaved' = TRUE
    /\ UNCHANGED <<running, cand, bootVars, job, revertFile, armed, atRollback>>

\* Other copies under way, of something else.
OtherCopies(a) == {b \in Actor \ {a} : pc[b] = "copy" /\ tmp[b] # tmp[a]}

\* Mutant: the destination is opened before the owner is set, which fails.
CopyOpensEarly(a) ==
    /\ pc[a] = "truncate"
    /\ boot' = "empty"
    /\ Goto(a, "copy") \/ Return(a, "error")
    /\ UNCHANGED <<running, cand, overlapped, job, revertFile, armed, atRollback, unsaved>>

\* ... which, its owner set, cp copies: it truncates the destination ...
CopyOpens(a) ==
    /\ pc[a] = "truncate"
    /\ \/ /\ boot' = "empty"
          /\ overlapped' = overlapped \cup OtherCopies(a)
                             \cup {b \in {a} : OtherCopies(a) # {}}
          /\ Goto(a, "copy")
          /\ UNCHANGED unsaved
       \/ /\ UNCHANGED bootVars
          /\ Return(a, "error")
          /\ unsaved' = TRUE
    /\ UNCHANGED <<running, cand, job, revertFile, armed, atRollback>>

\* ... and writes it block by block, from the start of the file, unless it fails
\* half way.  Of two copies that overlap each may leave parts of the other.
copyFile(a) ==
    /\ pc[a] = "copy"
    /\ \/ /\ boot' = tmp[a] \/ (a \in overlapped /\ boot' = "damaged")
          /\ overlapped' = overlapped \ {a}
          /\ IF ToSchedule(a) THEN Goto(a, "schedule") ELSE Succeed(a)
          /\ UNCHANGED unsaved
       \/ /\ boot' = "damaged" \/ (boot # "empty" /\ UNCHANGED boot)
          /\ overlapped' = {b \in Actor \ {a} : b \in overlapped \/ pc[b] = "copy"}
          /\ Return(a, "error")
          /\ unsaved' = TRUE
    /\ UNCHANGED <<running, cand, job, revertFile, armed, atRollback>>

\* setConfirmedCommitTimeout: its error does not reach the client.  A follow-up
\* keeps the configuration to revert to.
setConfirmedCommitTimeout(a) ==
    /\ pc[a] = "schedule" /\ req[a].cmt.confirmed
    /\ \/ /\ job' = [session |-> a, persist |-> req[a].cmt.persist,
                     timeout |-> req[a].cmt.timeout]
          /\ revertFile' = IF job = NoJob THEN base[a] ELSE revertFile
          /\ armed' = TRUE
          /\ fate' = [fate EXCEPT ![revertFile'] = "none"]
          /\ late' = {b \in Actor \ {a} : Busy(b)}
          /\ Leave(a)
       \/ UNCHANGED jobVars /\ Return(a, "ok")
    /\ UNCHANGED <<running, cand, bootVars, atRollback, unsaved>>

setConfirmTimeout(a) ==
    /\ pc[a] = "schedule" /\ ~req[a].cmt.confirmed
    /\ \/ atRollback' = base[a] /\ Succeed(a)
       \/ UNCHANGED atRollback /\ Return(a, "error")
    /\ UNCHANGED <<running, cand, bootVars, job, revertFile, armed, unsaved>>

-----------------------------------------------------------------------------
\* Timers and the end of a connection

\* The external process starts with a session of its own.
StartReverter(r) ==
    /\ pc[Reverter] = "idle"
    /\ cand' = [cand EXCEPT ![Reverter] = "none"]
    /\ pc' = [pc EXCEPT ![Reverter] = "silent"]
    /\ req' = [req EXCEPT ![Reverter] = r]
    /\ alone' = [b \in Actor |-> FALSE]
    /\ UNCHANGED <<running, bootVars, tmp, base, job, revertFile, fate, late, left,
                   unsaved>>

Expire ==
    /\ armed /\ armed' = FALSE
    /\ StartReverter([Plain EXCEPT !.revision = "revert"])
    /\ UNCHANGED atRollback

CommitConfirmExpires ==
    /\ atRollback # "none" /\ atRollback' = "none"
    /\ StartReverter([Plain EXCEPT !.revision = "N", !.target = atRollback])
    /\ UNCHANGED armed

\* The request loop of the connection ends; its edits are not looked at again.
\* An unconfirmed commit ends with the connection that made it.
sessionTermination(c) ==
    /\ pc[c] = "idle"
    /\ pc' = [pc EXCEPT ![c] = IF job.session = c /\ job.persist = ""
                              THEN "terminate" ELSE "gone"]
    /\ cand' = [cand EXCEPT ![c] = "none"]
    /\ alone' = [b \in Actor |-> FALSE]
    /\ UNCHANGED <<running, bootVars, tmp, base, job, revertFile, armed, atRollback,
                   req, fate, late, left, unsaved>>

\* The script of the connection that ends.
RevertConfiguration(c) ==
    /\ pc[c] = "terminate"
    /\ pc[Reverter] = "idle"
    /\ cand' = [cand EXCEPT ![Reverter] = "none"]
    /\ pc' = [pc EXCEPT ![c] = "gone", ![Reverter] = "silent"]
    /\ req' = [req EXCEPT ![Reverter] = [Plain EXCEPT !.revision = "revert"]]
    /\ alone' = [b \in Actor |-> FALSE]
    /\ UNCHANGED <<running, bootVars, tmp, base, job, revertFile, armed, atRollback,
                   fate, late, left, unsaved>>

-----------------------------------------------------------------------------
Init ==
    /\ running = BootConfig
    /\ cand = [a \in Actor |-> "none"]
    /\ boot = running /\ overlapped = {}
    /\ tmp = [a \in Actor |-> "none"]
    /\ base = [a \in Actor |-> "none"]
    /\ job = NoJob /\ revertFile = "none" /\ armed = FALSE
    /\ atRollback = "none"
    /\ pc = [a \in Actor |-> "idle"]
    /\ req = [a \in Actor |-> Plain]
    /\ fate = [cfg \in Config |-> "none"]
    /\ late = {}
    /\ left = MaxRequests
    /\ alone = [a \in Actor |-> FALSE]
    /\ unsaved = FALSE

Ask(c) ==
    \/ \E cfg \in Config : Edit(c, cfg)
    \/ DiscardEdits(c)
    \/ \E t \in TimeoutArg, p, i \in Persist :
          ConfirmedCommit(c, TRUE, t, p, i) \/ ConfirmedCommit(c, FALSE, t, "", i)
    \/ \E cli \in BOOLEAN : Commit(c, cli)
    \/ \E mins, cli \in BOOLEAN : CommitConfirm(c, mins, cli)
    \/ \E cfg \in Config : Rollback(c, cfg)
    \/ \E p \in Persist, force \in BOOLEAN : CancelCommit(c, p, force)
    \/ Confirm(c)
    \/ \E p \in PersistId : ConfirmPersistId(c, p)
    \/ \E cfg \in Config : LoadKeys(c, cfg)
    \/ Save(c)
    \/ sessionTermination(c)

\* What an actor that is at work does next.
Step(a) ==
    \/ ConfirmSilent(a)
    \/ SessionChanged(a)
    \/ loadArchivedConfig(a)
    \/ Loaded(a)
    \/ performConfirmingCommitIfRequired(a)
    \/ ConfirmingCommit(a)
    \/ Recheck(a)
    \/ SessCommit(a)
    \/ validLocalSaveToDest(a)
    \/ writeTempRunningConfigFile(a)
    \/ CopyOpens(a)
    \/ copyFile(a)
    \/ setConfirmedCommitTimeout(a)
    \/ setConfirmTimeout(a)

Next ==
    \/ \E c \in Client : Ask(c) \/ RevertConfiguration(c)
    \/ \E a \in Actor : Step(a)
    \/ Expire
    \/ CommitConfirmExpires

\* Handlers run to their end, the timer's process is started: no lock is held
\* while they wait for one another.  What clients ask is up to them.
Spec == /\ Init /\ [][Next]_vars
        /\ \A a \in Actor : WF_vars(Step(a))
        /\ \A c \in Client : WF_vars(RevertConfiguration(c))
        /\ WF_vars(Expire)

-----------------------------------------------------------------------------
TypeOK ==
    /\ running \in Config
    /\ cand \in [Actor -> Config \cup {"none"}]
    /\ boot \in Config \cup {"empty", "damaged"}
    /\ overlapped \subseteq Actor
    /\ tmp \in [Actor -> Config \cup {"none"}]
    /\ base \in [Actor -> Config \cup {"none"}]
    /\ job \in Job \cup {NoJob}
    /\ revertFile \in Config \cup {"none"}
    /\ armed \in BOOLEAN
    /\ atRollback \in Config \cup {"none"}
    /\ pc \in [Actor -> Label]
    /\ req \in [Actor -> Request]
    /\ fate \in [Config -> {"none", "confirmed", "superseded", "error"}]
    /\ late \subseteq Actor
    /\ left \in Nat
    /\ alone \in [Actor -> BOOLEAN]
    /\ unsaved \in BOOLEAN

\* a may end the pending confirmed commit, and commit while it is pending: the
\* revert of its timer, a cancel that is forced or names it, a request of the
\* session that made it or with its persist-id.
Entitled(a) ==
    IF req[a].revision = "revert"
    THEN a = Reverter \/ req[a].force \/ MayCancel(a, req[a].cmt.persistId)
    ELSE ~NotOurs(a)

\* While a confirmed commit is pending, running is changed and the confirmed
\* commit ended only by those who are entitled to, however the requests
\* interleave, but for requests that were under way already when it was
\* scheduled: what performConfirmingCommitIfRequired and CancelCommit have read
\* from the job file is out of date for those only (confirmed_commit.go:98-136).
PendingIsProtected ==
    [][job # NoJob /\ (running' # running \/ job' = NoJob) =>
         \/ \E a \in Actor : /\ pc[a] \in {"confirming", "commit"} /\ pc'[a] # pc[a]
                             /\ a \in late \/ Entitled(a)
         \/ job.persist \in PersistId /\ UNCHANGED <<running, pc>>]_vars

\* The boot file is empty only as long as somebody copies into it, however many
\* save at the same time and wherever their saves fail: what is there afterwards
\* is a configuration, or what a copy left that failed or was overlapped by
\* another one (config_mgmt.go, saveToInternal and copyFile).
BootIsWhole == boot = "empty" => \E a \in Actor : pc[a] = "copy"

\* A commit without others around leaves its own result in the boot file
\* (dispatcher.go:1128, Save before the answer).
SavedIfAlone ==
    [][\A a \in Actor :
          pc[a] = "copy" /\ boot' \in Config /\ pc'[a] # "copy" /\ alone[a]
             => boot' = running]_vars

\* A confirmed commit does not stay unconfirmed: once its timer is set, it is
\* confirmed, or the configuration goes back to what it was, or the last process
\* that was to take it back is told of an error, or a revert that was under way
\* before it has ended it (confirmed_commit.go, dispatcher.go CancelCommit,
\* rollbackInternal, sessionTermination).
Resolved ==
    \A cfg \in Config :
       (armed /\ revertFile = cfg) ~> (running = cfg \/ fate[cfg] # "none")

\* "'commit' saves configuration" (cmd/cfgcli/runfns.go:578; dispatcher.go:1128
\* saves too): when nothing failed and nothing is under way, the boot file holds the
\* running configuration.
CommitSaves ==
    ~unsaved /\ (\A a \in Actor : ~Busy(a)) => boot = running

=============================================================================
