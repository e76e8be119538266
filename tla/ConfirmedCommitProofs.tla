------------------------ MODULE ConfirmedCommitProofs ------------------------
(***************************************************************************)
(* Proofs about ConfirmedCommit, for any connections, configurations,      *)
(* persist-ids, timeouts and number of requests.                           *)
(***************************************************************************)
EXTENDS ConfirmedCommit, TLAPS

Fate == {"none", "confirmed", "superseded", "error"}

\* What the requests under way keep in their locals, and the history.
Locals ==
    /\ tmp \in [Actor -> Config \cup {"none"}]
    /\ base \in [Actor -> Config \cup {"none"}]
    /\ pc \in [Actor -> Label]
    /\ req \in [Actor -> Request]
    /\ fate \in [Config -> Fate]
    /\ late \subseteq Actor
    /\ left \in Nat
    /\ alone \in [Actor -> BOOLEAN]

\* What they share.
Shared ==
    /\ running \in Config
    /\ cand \in [Actor -> Config \cup {"none"}]
    /\ boot \in Config \cup {"empty", "damaged"}
    /\ overlapped \subseteq Actor
    /\ job \in Job \cup {NoJob}
    /\ revertFile \in Config \cup {"none"}
    /\ armed \in BOOLEAN
    /\ atRollback \in Config \cup {"none"}
    /\ unsaved \in BOOLEAN

\* Only a client makes a confirmed commit, and with a usable timeout.
Usable(a, r) == r.cmt.confirmed => a \in Client /\ r.cmt.timeout \in 1 .. MaxUint

\* The temporary file is written before it is copied.
Prepared ==
    /\ \A a \in Actor : Usable(a, req[a])
    /\ \A a \in Actor : pc[a] \in {"truncate", "copy"} => tmp[a] \in Config

TypeInv == Locals /\ Shared /\ Prepared

LEMMA TypeInvTypes == TypeInv => TypeOK
  BY DEF TypeInv, Locals, Shared, TypeOK, Fate

-----------------------------------------------------------------------------
\* Requests

LEMMA Timeouts == MaxUint \in Nat /\ MaxUint >= 600 /\ \A t \in TimeoutArg : t \in Int
  BY ConfirmAssumption, Zenon

LEMMA PlainIsRequest ==
  /\ Plain \in Request /\ ~Plain.cmt.confirmed
  /\ \A b \in BOOLEAN, d \in BOOLEAN :
        /\ [Plain EXCEPT !.mins = b, !.cli = d] \in Request
        /\ ~[Plain EXCEPT !.mins = b, !.cli = d].cmt.confirmed
  /\ \A b \in BOOLEAN :
        /\ [Plain EXCEPT !.cli = b] \in Request
        /\ ~[Plain EXCEPT !.cli = b].cmt.confirmed
        /\ [Plain EXCEPT !.saving = b] \in Request
        /\ ~[Plain EXCEPT !.saving = b].cmt.confirmed
        /\ [Plain EXCEPT !.keys = b] \in Request
        /\ ~[Plain EXCEPT !.keys = b].cmt.confirmed
  /\ \A cfg \in Config :
        /\ [Plain EXCEPT !.revision = "N", !.target = cfg] \in Request
        /\ ~[Plain EXCEPT !.revision = "N", !.target = cfg].cmt.confirmed
  /\ \A i \in Persist, b \in BOOLEAN :
        LET r == [Plain EXCEPT !.revision = "revert", !.cmt.persistId = i, !.force = b]
        IN  r \in Request /\ ~r.cmt.confirmed
  /\ [Plain EXCEPT !.revision = "revert"] \in Request
  /\ ~[Plain EXCEPT !.revision = "revert"].cmt.confirmed
<1>0. 0 \in 0 .. MaxUint /\ "" \in Persist
  BY Timeouts DEF Persist
<1>1. Nil \in CommitInfo
  BY <1>0 DEF Nil, CommitInfo
<1>2. \A i \in Persist : [Nil EXCEPT !.persistId = i] \in CommitInfo
  BY <1>1 DEF Nil, CommitInfo
<1>3. ASSUME NEW i \in Persist, NEW b \in BOOLEAN
      PROVE  LET r == [Plain EXCEPT !.revision = "revert", !.cmt.persistId = i, !.force = b]
             IN  r \in Request /\ ~r.cmt.confirmed
  <2> DEFINE r == [Plain EXCEPT !.revision = "revert", !.cmt.persistId = i, !.force = b]
  <2>1. r = [Plain EXCEPT !.revision = "revert", !.cmt = [Nil EXCEPT !.persistId = i],
                          !.force = b]
    BY DEF Plain, Nil
  <2>2. r \in Request
    BY <1>2, <2>1 DEF Plain, Request
  <2>3. ~r.cmt.confirmed
    BY <2>1 DEF Plain, Nil
  <2> QED BY <2>2, <2>3
<1>4. Plain \in Request
  BY <1>1 DEF Plain, Request
<1>5. /\ \A b \in BOOLEAN, d \in BOOLEAN :
            [Plain EXCEPT !.mins = b, !.cli = d] \in Request
      /\ \A b \in BOOLEAN :
            /\ [Plain EXCEPT !.cli = b] \in Request
            /\ [Plain EXCEPT !.saving = b] \in Request
            /\ [Plain EXCEPT !.keys = b] \in Request
  BY <1>4 DEF Request
<1>6. /\ \A cfg \in Config : [Plain EXCEPT !.revision = "N", !.target = cfg] \in Request
      /\ [Plain EXCEPT !.revision = "revert"] \in Request
  BY <1>4 DEF Request
<1>7. /\ ~Plain.cmt.confirmed
      /\ \A b \in BOOLEAN, d \in BOOLEAN :
            ~[Plain EXCEPT !.mins = b, !.cli = d].cmt.confirmed
      /\ \A b \in BOOLEAN :
            /\ ~[Plain EXCEPT !.cli = b].cmt.confirmed
            /\ ~[Plain EXCEPT !.saving = b].cmt.confirmed
            /\ ~[Plain EXCEPT !.keys = b].cmt.confirmed
      /\ \A cfg \in Config : ~[Plain EXCEPT !.revision = "N", !.target = cfg].cmt.confirmed
      /\ ~[Plain EXCEPT !.revision = "revert"].cmt.confirmed
  BY DEF Plain, Nil
<1> HIDE DEF Plain
<1> QED
  BY <1>3, <1>4, <1>5, <1>6, <1>7, Zenon

LEMMA CommitInfoRequest ==
  ASSUME NEW confirmed \in BOOLEAN, NEW t \in TimeoutArg, NEW p \in Persist, NEW i \in Persist
  PROVE  LET cmt == newCommitInfo(confirmed, t, p, i)
             r == [Plain EXCEPT !.cmt = cmt]
         IN  r \in Request /\ (cmt.timeout # 0 => r.cmt.timeout \in 1 .. MaxUint)
<1> DEFINE cmt == newCommitInfo(confirmed, t, p, i)
<1>1. cmt.timeout \in 0 .. MaxUint
  <2>1. 600 \in 0 .. MaxUint /\ 0 \in 0 .. MaxUint /\ 1 .. MaxUint \subseteq 0 .. MaxUint
    BY Timeouts
  <2>2. cmt.timeout = CASE t = NoTimeout -> DefaultTimeout
                        [] t \in 1 .. MaxUint -> t
                        [] OTHER -> 0
    BY DEF newCommitInfo
  <2>3. CASE t = NoTimeout
    <3>1. t \notin 1 .. MaxUint
      BY <2>3, Timeouts DEF NoTimeout
    <3> QED BY <2>1, <2>2, <2>3, <3>1 DEF DefaultTimeout
  <2>4. CASE t # NoTimeout /\ t \in 1 .. MaxUint
    BY <2>1, <2>2, <2>4
  <2>5. CASE t # NoTimeout /\ t \notin 1 .. MaxUint
    BY <2>1, <2>2, <2>5
  <2> QED BY <2>3, <2>4, <2>5
<1>2. cmt \in CommitInfo
  BY <1>1 DEF newCommitInfo, CommitInfo
<1>3. [Plain EXCEPT !.cmt = cmt] \in Request /\ [Plain EXCEPT !.cmt = cmt].cmt = cmt
  BY <1>2 DEF Plain, Request
<1> QED
  BY <1>1, <1>3

-----------------------------------------------------------------------------
\* The local effects of the steps

LocalInv == Locals /\ Prepared

LEMMA StartLocal ==
  ASSUME LocalInv, NEW a \in Actor, NEW r \in Request, NEW l \in Label, Start(a, r, l),
         Usable(a, r), l \notin {"truncate", "copy"}, a \in Client => left > 0
  PROVE  LocalInv'
<1>1. Locals'
  <2>1. left' \in Nat
    BY DEF LocalInv, Locals, Start
  <2>2. alone' \in [Actor -> BOOLEAN]
    BY DEF Start
  <2> QED BY <2>1, <2>2 DEF LocalInv, Locals, Start
<1>2. Prepared'
  BY DEF LocalInv, Locals, Prepared, Start
<1> QED BY <1>1, <1>2 DEF LocalInv

LEMMA AnswerLocal ==
  ASSUME LocalInv, Answered, fate' \in [Config -> Fate], left > 0
  PROVE  LocalInv'
<1>1. left' \in Nat
  BY DEF LocalInv, Locals, Answered
<1>2. alone' \in [Actor -> BOOLEAN]
  BY DEF Answered
<1> QED
  BY <1>1, <1>2 DEF LocalInv, Locals, Prepared, Answered

LEMMA GotoLocal ==
  ASSUME LocalInv, NEW a \in Actor, NEW l \in Label, Goto(a, l),
         l \in {"truncate", "copy"} => pc[a] \in {"truncate", "copy"}
  PROVE  LocalInv'
  BY DEF LocalInv, Locals, Prepared, Goto

LEMMA LeaveLocal ==
  ASSUME LocalInv, NEW a \in Actor, Leave(a), fate' \in [Config -> Fate], late' \subseteq Actor
  PROVE  LocalInv'
<1>1. "idle" \in Label
  BY DEF Label
<1>2. alone' \in [Actor -> BOOLEAN]
  BY DEF LocalInv, Locals, Leave
<1>3. Locals'
  BY <1>1, <1>2, PlainIsRequest DEF LocalInv, Locals, Leave
<1>4. Prepared'
  BY PlainIsRequest DEF LocalInv, Locals, Prepared, Leave, Usable
<1> QED BY <1>3, <1>4 DEF LocalInv

LEMMA ReturnLocal ==
  ASSUME LocalInv, NEW a \in Actor, NEW r, Return(a, r)
  PROVE  LocalInv'
<1>1. Leave(a) /\ late' \subseteq Actor
  BY DEF LocalInv, Locals, Return
<1>2. fate' \in [Config -> Fate]
  BY DEF LocalInv, Locals, Return, Fate
<1> QED BY <1>1, <1>2, LeaveLocal

LEMMA SavingIsRequest ==
  ASSUME NEW r \in Request
  PROVE  /\ [r EXCEPT !.cli = FALSE, !.saving = TRUE] \in Request
         /\ [r EXCEPT !.cli = FALSE, !.saving = TRUE].cmt = r.cmt
  BY DEF Request

LEMMA SucceedLocal ==
  ASSUME LocalInv, NEW a \in Actor, Succeed(a)
  PROVE  LocalInv'
<1>1. CASE req[a].cli
  <2>1. req[a] \in Request /\ "validdest" \in Label
    BY DEF LocalInv, Locals, Label
  <2>2. /\ pc' = [pc EXCEPT ![a] = "validdest"]
        /\ req' = [req EXCEPT ![a] = [req[a] EXCEPT !.cli = FALSE, !.saving = TRUE]]
        /\ UNCHANGED <<tmp, base, fate, late, left, alone>>
    BY <1>1 DEF Succeed
  <2>3. Locals'
    BY <2>1, <2>2, SavingIsRequest DEF LocalInv, Locals
  <2>4. Prepared'
    BY <2>1, <2>2, SavingIsRequest DEF LocalInv, Locals, Prepared, Usable
  <2> QED BY <2>3, <2>4 DEF LocalInv
<1>2. CASE ~req[a].cli
  BY <1>2, ReturnLocal DEF Succeed
<1> QED BY <1>1, <1>2

-----------------------------------------------------------------------------
\* Types

LEMMA TypeInvInit == Init => TypeInv
<1> SUFFICES ASSUME Init PROVE TypeInv
  OBVIOUS
<1>1. MaxRequests \in Nat /\ BootConfig \in Config
  BY ConfirmAssumption, Zenon
<1>2. Locals
  BY <1>1, PlainIsRequest DEF Init, Locals, Label, Fate
<1>3. Shared
  BY <1>1 DEF Init, Shared, bootVars
<1>4. Prepared
  BY PlainIsRequest DEF Init, Prepared, Usable
<1> QED BY <1>2, <1>3, <1>4 DEF TypeInv

\* The steps that leave the shared state alone but for what they name.
LEMMA AskType ==
  ASSUME TypeInv, NEW c \in Client, Ask(c)
  PROVE  TypeInv'
<1>0. LocalInv /\ Shared /\ c \in Actor
  BY DEF TypeInv, LocalInv, Actor
<1>a. ASSUME Answer, MayAsk(c) PROVE LocalInv'
  BY <1>0, <1>a, AnswerLocal DEF MayAsk, Answer, LocalInv, Locals
<1>s. ASSUME NEW r \in Request, ~r.cmt.confirmed, MayAsk(c),
             NEW l \in {"check", "silent", "changed", "validdest"}, Start(c, r, l)
      PROVE  LocalInv'
  <2>1. l \in Label /\ l \notin {"truncate", "copy"}
    BY DEF Label
  <2> QED BY <1>0, <1>s, <2>1, StartLocal DEF MayAsk, Usable
<1>q. ASSUME LocalInv', Shared' PROVE TypeInv'
  BY <1>q DEF LocalInv, TypeInv
<1>1. CASE \E cfg \in Config : Edit(c, cfg)
  <2>1. PICK cfg \in Config : Edit(c, cfg)
    BY <1>1
  <2>2. LocalInv'
    BY <1>0, <2>1 DEF Edit, LocalInv, Locals, Prepared
  <2>3. Shared'
    BY <1>0, <2>1 DEF Edit, Shared, bootVars
  <2> QED BY <1>q, <2>2, <2>3
<1>2. CASE DiscardEdits(c)
  <2>1. LocalInv'
    BY <1>0, <1>2 DEF DiscardEdits, LocalInv, Locals, Prepared
  <2>2. Shared'
    BY <1>0, <1>2 DEF DiscardEdits, Shared, bootVars
  <2> QED BY <1>q, <2>1, <2>2
<1>3. ASSUME NEW b \in BOOLEAN, NEW t \in TimeoutArg, NEW p \in Persist, NEW i \in Persist,
             ConfirmedCommit(c, b, t, p, i)
      PROVE  TypeInv'
  <2> DEFINE cmt == newCommitInfo(b, t, p, i)
             r == [Plain EXCEPT !.cmt = cmt]
  <2>1. Shared' /\ MayAsk(c)
    BY <1>0, <1>3 DEF ConfirmedCommit, Shared, bootVars
  <2>2. CASE cmt.timeout = 0
    BY <1>3, <1>a, <1>q, <2>1, <2>2 DEF ConfirmedCommit
  <2>3. CASE cmt.timeout # 0
    <3>1. Start(c, r, "check")
      BY <1>3, <2>3 DEF ConfirmedCommit
    <3>2. r \in Request /\ r.cmt.timeout \in 1 .. MaxUint
      BY <2>3, CommitInfoRequest
    <3>3. Usable(c, r) /\ "check" \in Label
      BY <3>2 DEF Usable, Label
    <3>4. LocalInv'
      BY <1>0, <2>1, <3>1, <3>2, <3>3, StartLocal DEF MayAsk
    <3> QED BY <1>q, <2>1, <3>4
  <2> QED BY <2>2, <2>3
<1>4. CASE \E cli \in BOOLEAN : Commit(c, cli)
  <2>1. PICK cli \in BOOLEAN : Commit(c, cli)
    BY <1>4
  <2>2. Shared' /\ MayAsk(c)
    BY <1>0, <2>1 DEF Commit, Shared, bootVars
  <2>3. LocalInv'
    BY <1>s, <2>1, <2>2, PlainIsRequest DEF Commit
  <2> QED BY <1>q, <2>2, <2>3
<1>5. CASE \E mins, cli \in BOOLEAN : CommitConfirm(c, mins, cli)
  <2>1. PICK mins \in BOOLEAN, cli \in BOOLEAN : CommitConfirm(c, mins, cli)
    BY <1>5
  <2>2. Shared' /\ MayAsk(c)
    BY <1>0, <2>1 DEF CommitConfirm, Shared, bootVars
  <2>3. LocalInv'
    BY <1>s, <2>1, <2>2, PlainIsRequest DEF CommitConfirm
  <2> QED BY <1>q, <2>2, <2>3
<1>6. CASE \E cfg \in Config : Rollback(c, cfg)
  <2>1. PICK cfg \in Config : Rollback(c, cfg)
    BY <1>6
  <2>2. Shared' /\ MayAsk(c)
    BY <1>0, <2>1 DEF Rollback, Shared, bootVars
  <2>3. LocalInv'
    BY <1>s, <2>1, <2>2, PlainIsRequest DEF Rollback
  <2> QED BY <1>q, <2>2, <2>3
<1>7. CASE \E p \in Persist, force \in BOOLEAN : CancelCommit(c, p, force)
  <2>1. PICK p \in Persist, force \in BOOLEAN : CancelCommit(c, p, force)
    BY <1>7
  <2>2. Shared' /\ MayAsk(c)
    BY <1>0, <2>1 DEF CancelCommit, Shared, bootVars
  <2>3. Answer \/ Start(c, [Plain EXCEPT !.revision = "revert", !.cmt.persistId = p,
                                           !.force = force], "silent")
    BY <2>1 DEF CancelCommit
  <2>4. LocalInv'
    BY <1>a, <1>s, <2>2, <2>3, PlainIsRequest
  <2> QED BY <1>q, <2>2, <2>4
<1>8. CASE Confirm(c)
  <2>1. Shared'
    BY <1>0, <1>8 DEF Confirm, Shared, bootVars
  <2>2. LocalInv'
    BY <1>8, <1>a DEF Confirm
  <2> QED BY <1>q, <2>1, <2>2
<1>9. CASE \E p \in PersistId : ConfirmPersistId(c, p)
  <2>1. PICK p \in PersistId : ConfirmPersistId(c, p)
    BY <1>9
  <2>2. Shared'
    BY <1>0, <2>1 DEF ConfirmPersistId, EndJob, Shared, bootVars, jobVars
  <2>3. LocalInv'
    <3>1. MayAsk(c) /\ Answered /\ fate' \in [Config -> Fate]
      BY <1>0, <2>1 DEF ConfirmPersistId, Answer, LocalInv, Locals, Fate
    <3> QED BY <1>0, <3>1, AnswerLocal DEF MayAsk
  <2> QED BY <1>q, <2>2, <2>3
<1>10. CASE \E cfg \in Config : LoadKeys(c, cfg)
  <2>1. PICK cfg \in Config : LoadKeys(c, cfg)
    BY <1>10
  <2>2. Shared'
    <3>1. cand' \in [Actor -> Config \cup {"none"}]
      BY <1>0, <2>1 DEF LoadKeys, Shared, bootVars
    <3> QED BY <1>0, <2>1, <3>1 DEF LoadKeys, Shared, bootVars
  <2>3. MayAsk(c) /\ (Answer \/ Start(c, [Plain EXCEPT !.keys = TRUE], "changed"))
    BY <2>1 DEF LoadKeys
  <2>4. LocalInv'
    BY <1>a, <1>s, <2>3, PlainIsRequest
  <2> QED BY <1>q, <2>2, <2>4
<1>11. CASE Save(c)
  <2>1. Shared'
    BY <1>0, <1>11 DEF Save, Shared, bootVars
  <2>2. LocalInv'
    BY <1>11, <1>s, PlainIsRequest DEF Save
  <2> QED BY <1>q, <2>1, <2>2
<1>12. CASE sessionTermination(c)
  <2>1. Shared'
    BY <1>0, <1>12 DEF sessionTermination, Shared, bootVars
  <2>2. LocalInv'
    <3>1. alone' \in [Actor -> BOOLEAN]
      BY <1>12 DEF sessionTermination
    <3>2. pc' \in [Actor -> Label] /\ pc'[c] \notin {"truncate", "copy"}
          /\ \A a \in Actor \ {c} : pc'[a] = pc[a]
      BY <1>0, <1>12 DEF sessionTermination, LocalInv, Locals, Label
    <3> QED BY <1>0, <1>12, <3>1, <3>2 DEF sessionTermination, LocalInv, Locals, Prepared
  <2> QED BY <1>q, <2>1, <2>2
<1>p. "" \in Persist
  BY DEF Persist
<1> QED
  BY <1>1, <1>2, <1>3, <1>4, <1>5, <1>6, <1>7, <1>8, <1>9, <1>10, <1>11, <1>12, <1>p DEF Ask

LEMMA StepType ==
  ASSUME TypeInv, NEW a \in Actor, Step(a)
  PROVE  TypeInv'
<1>0. LocalInv /\ Shared
  BY DEF TypeInv, LocalInv
<1>q. ASSUME LocalInv', Shared' PROVE TypeInv'
  BY <1>q DEF LocalInv, TypeInv
<1>g. ASSUME NEW l \in Label \ {"truncate", "copy"}, Goto(a, l) PROVE LocalInv'
  BY <1>0, <1>g, GotoLocal
<1>r. ASSUME NEW r, Return(a, r) PROVE LocalInv'
  BY <1>0, <1>r, ReturnLocal
<1>s. ASSUME Succeed(a) PROVE LocalInv'
  BY <1>0, <1>s, SucceedLocal
<1>1. CASE ConfirmSilent(a)
  <2>1. Shared'
    BY <1>0, <1>1 DEF ConfirmSilent, Shared, bootVars
  <2> QED BY <1>1, <1>g, <1>q, <2>1 DEF ConfirmSilent, Label
<1>2. CASE SessionChanged(a)
  <2>1. Shared'
    BY <1>0, <1>2 DEF SessionChanged, Shared, bootVars
  <2> QED BY <1>2, <1>g, <1>q, <1>r, <2>1 DEF SessionChanged, Label
<1>3. CASE loadArchivedConfig(a)
  <2>1. Archived(a) \in Config \cup {"none"}
    BY <1>0 DEF Archived, Shared, bootVars, LocalInv, Locals, Request
  <2>2. cand' \in [Actor -> Config \cup {"none"}]
    BY <1>0, <1>3, <2>1 DEF loadArchivedConfig, Shared, bootVars
  <2>3. Shared'
    BY <1>0, <1>3, <2>2 DEF loadArchivedConfig, Shared, bootVars
  <2> QED BY <1>3, <1>g, <1>q, <1>r, <2>3 DEF loadArchivedConfig, Label
<1>4. CASE Loaded(a)
  <2>1. Shared'
    BY <1>0, <1>4 DEF Loaded, Shared, bootVars
  <2> QED BY <1>4, <1>g, <1>q, <1>r, <2>1 DEF Loaded, Label
<1>5. CASE performConfirmingCommitIfRequired(a)
  <2>1. Shared'
    BY <1>0, <1>5 DEF performConfirmingCommitIfRequired, Shared, bootVars
  <2> QED BY <1>5, <1>g, <1>q, <1>r, <2>1 DEF performConfirmingCommitIfRequired, Label
<1>6. CASE ConfirmingCommit(a)
  <2>1. Shared'
    BY <1>0, <1>6 DEF ConfirmingCommit, EndJob, Shared, bootVars, jobVars
  <2>2. fate' \in [Config -> Fate]
    BY <1>0, <1>6 DEF ConfirmingCommit, LocalInv, Locals, FateOf, Fate
  <2>3. LocalInv'
    BY <1>0, <1>6, <2>2 DEF ConfirmingCommit, LocalInv, Locals, Prepared, Label
  <2> QED BY <1>q, <2>1, <2>3
<1>7. CASE Recheck(a)
  <2>1. Shared'
    BY <1>0, <1>7 DEF Recheck, Shared, bootVars
  <2> QED BY <1>7, <1>g, <1>q, <1>s, <2>1 DEF Recheck, Label
<1>8. CASE SessCommit(a)
  <2>1. CASE Return(a, "error") /\ UNCHANGED <<running, cand, unsaved>>
    <3>1. Shared'
      BY <1>0, <1>8, <2>1 DEF SessCommit, Shared, bootVars
    <3> QED BY <1>q, <1>r, <2>1, <3>1
  <2>2. CASE /\ Changed(a)
             /\ running' = cand[a]
             /\ cand' = [cand EXCEPT ![a] = "none"]
             /\ \/ /\ pc' = [pc EXCEPT ![a] = "validdest"]
                   /\ base' = [base EXCEPT ![a] = IF ToSchedule(a) THEN running ELSE "none"]
                   /\ UNCHANGED <<tmp, req, fate, late, left, alone, unsaved>>
                \/ /\ Succeed(a)
                   /\ unsaved' = TRUE
    <3>1. Shared'
      BY <1>0, <1>8, <2>2 DEF SessCommit, Shared, bootVars, Changed
    <3>2. CASE Succeed(a)
      BY <1>q, <1>s, <3>1, <3>2
    <3>3. CASE /\ pc' = [pc EXCEPT ![a] = "validdest"]
               /\ base' = [base EXCEPT ![a] = IF ToSchedule(a) THEN running ELSE "none"]
               /\ UNCHANGED <<tmp, req, fate, late, left, alone, unsaved>>
      <4>1. base' \in [Actor -> Config \cup {"none"}]
        BY <1>0, <3>3 DEF LocalInv, Locals, Shared
      <4>2. LocalInv'
        BY <1>0, <3>3, <4>1 DEF LocalInv, Locals, Prepared, Label
      <4> QED BY <1>q, <3>1, <4>2
    <3> QED BY <2>2, <3>2, <3>3
  <2> QED BY <1>8, <2>1, <2>2 DEF SessCommit
<1>9. CASE validLocalSaveToDest(a)
  <2>1. Shared'
    BY <1>0, <1>9 DEF validLocalSaveToDest, Shared, bootVars
  <2> QED BY <1>9, <1>g, <1>q, <1>r, <2>1 DEF validLocalSaveToDest, Label
<1>10. CASE writeTempRunningConfigFile(a)
  <2>1. Shared'
    BY <1>0, <1>10 DEF writeTempRunningConfigFile, Shared, bootVars
  <2>2. CASE Return(a, "error")
    BY <1>q, <1>r, <2>1, <2>2
  <2>3. CASE ~Return(a, "error")
    <3>1. /\ tmp' = [tmp EXCEPT ![a] = running]
          /\ pc' = [pc EXCEPT ![a] = "truncate"]
          /\ UNCHANGED <<base, req, fate, late, left, alone>>
      BY <1>10, <2>3 DEF writeTempRunningConfigFile
    <3>2. Locals'
      BY <1>0, <3>1 DEF LocalInv, Locals, Shared, Label
    <3>3. Prepared'
      BY <1>0, <3>1 DEF LocalInv, Locals, Shared, Prepared
    <3> QED BY <1>q, <2>1, <3>2, <3>3 DEF LocalInv
  <2> QED BY <2>2, <2>3
<1>11. CASE CopyOpens(a)
  <2>1. Shared'
    BY <1>0, <1>11 DEF CopyOpens, Shared, bootVars, OtherCopies
  <2>2. ASSUME Goto(a, "copy") PROVE LocalInv'
    BY <1>0, <1>11, <2>2, GotoLocal DEF CopyOpens, Label
  <2> QED BY <1>11, <1>q, <1>r, <2>1, <2>2 DEF CopyOpens
<1>12. CASE copyFile(a)
  <2>1. tmp[a] \in Config
    BY <1>0, <1>12 DEF copyFile, LocalInv, Prepared
  <2>2. Shared'
    BY <1>0, <1>12, <2>1 DEF copyFile, Shared, bootVars
  <2>3. LocalInv'
    BY <1>12, <1>g, <1>r, <1>s DEF copyFile, Label
  <2> QED BY <1>q, <2>2, <2>3
<1>13. CASE setConfirmedCommitTimeout(a)
  <2> DEFINE r == req[a]
  <2>1. r \in Request /\ r.cmt.persist \in Persist /\ base[a] \in Config \cup {"none"}
    BY <1>0 DEF LocalInv, Locals, Request, CommitInfo
  <2>2. a \in Client /\ r.cmt.timeout \in 1 .. MaxUint
    BY <1>0, <1>13 DEF setConfirmedCommitTimeout, LocalInv, Prepared, Usable
  <2>3. [session |-> a, persist |-> r.cmt.persist, timeout |-> r.cmt.timeout] \in Job
    BY <2>1, <2>2 DEF Job
  <2>4. job' \in Job \cup {NoJob} /\ revertFile' \in Config \cup {"none"} /\ armed' \in BOOLEAN
    BY <1>0, <1>13, <2>1, <2>3 DEF setConfirmedCommitTimeout, Shared, bootVars, jobVars
  <2>5. Shared'
    BY <1>0, <1>13, <2>4 DEF setConfirmedCommitTimeout, Shared, bootVars
  <2>6. CASE Return(a, "ok")
    BY <1>q, <1>r, <2>5, <2>6
  <2>7. CASE /\ Leave(a)
             /\ fate' = [fate EXCEPT ![revertFile'] = "none"]
             /\ late' = {b \in Actor \ {a} : Busy(b)}
    <3>1. fate' \in [Config -> Fate] /\ late' \subseteq Actor
      BY <1>0, <2>7 DEF LocalInv, Locals, Fate
    <3> QED BY <1>0, <1>q, <2>5, <2>7, <3>1, LeaveLocal
  <2> QED BY <1>13, <2>6, <2>7 DEF setConfirmedCommitTimeout
<1>14. CASE setConfirmTimeout(a)
  <2>1. Shared'
    BY <1>0, <1>14 DEF setConfirmTimeout, Shared, bootVars, LocalInv, Locals
  <2> QED BY <1>14, <1>q, <1>r, <1>s, <2>1 DEF setConfirmTimeout
<1> QED
  BY <1>1, <1>2, <1>3, <1>4, <1>5, <1>6, <1>7, <1>8, <1>9, <1>10, <1>11, <1>12, <1>13,
     <1>14 DEF Step

LEMMA TimerType ==
  ASSUME TypeInv,
         Expire \/ CommitConfirmExpires \/ \E c \in Client : RevertConfiguration(c)
  PROVE  TypeInv'
<1>0. Locals /\ Shared /\ Prepared /\ Reverter \in Actor /\ Client \subseteq Actor
  BY DEF TypeInv, Actor
<1>1. CASE Expire \/ CommitConfirmExpires
  <2>1. PICK r \in Request : StartReverter(r) /\ ~r.cmt.confirmed
    BY <1>0, <1>1, PlainIsRequest DEF Expire, CommitConfirmExpires, Shared
  <2>2. armed' \in BOOLEAN /\ atRollback' \in Config \cup {"none"}
    BY <1>0, <1>1 DEF Expire, CommitConfirmExpires, Shared
  <2>3. Shared'
    BY <1>0, <2>1, <2>2 DEF StartReverter, Shared, bootVars
  <2>4. alone' \in [Actor -> BOOLEAN]
    BY <2>1 DEF StartReverter
  <2>5. Locals'
    BY <1>0, <2>1, <2>2, <2>4 DEF StartReverter, Locals, Label
  <2>6. Prepared'
    BY <1>0, <2>1 DEF StartReverter, Locals, Prepared, Usable
  <2> QED BY <2>3, <2>5, <2>6 DEF TypeInv
<1>2. ASSUME NEW c \in Client, RevertConfiguration(c) PROVE TypeInv'
  <2>1. Shared'
    BY <1>0, <1>2 DEF RevertConfiguration, Shared, bootVars
  <2>2. alone' \in [Actor -> BOOLEAN]
    BY <1>2 DEF RevertConfiguration
  <2>3. Locals'
    BY <1>0, <1>2, <2>2, PlainIsRequest DEF RevertConfiguration, Locals, Label
  <2>4. Prepared'
    BY <1>0, <1>2, PlainIsRequest, ZenonT(60) DEF RevertConfiguration, Locals, Prepared, Usable
  <2> QED BY <2>1, <2>3, <2>4 DEF TypeInv
<1> QED BY <1>1, <1>2

LEMMA TypeInvNext == TypeInv /\ [Next]_vars => TypeInv'
<1>1. ASSUME TypeInv, Next PROVE TypeInv'
  BY <1>1, AskType, StepType, TimerType DEF Next
<1>2. ASSUME TypeInv, UNCHANGED vars PROVE TypeInv'
  BY <1>2 DEF TypeInv, Locals, Shared, Prepared, vars, bootVars, jobVars
<1> QED BY <1>1, <1>2

\* Every variable keeps its type: the timeout of a pending confirmed commit is
\* in range and its maker is a connection, the boot file and the configuration
\* to go back to are configurations.
THEOREM TypeCorrect == Spec => []TypeOK
<1> QED
  BY TypeInvInit, TypeInvNext, TypeInvTypes, PTL DEF Spec

-----------------------------------------------------------------------------
\* Requests that overlap no other

\* What a step of actor a leaves as it is.
OthersStay(a) ==
    /\ \A x \in Actor \ {a} : pc'[x] = pc[x] /\ (alone'[x] <=> alone[x])
    /\ alone'[a] => alone[a]

LEMMA HelpersStay ==
  ASSUME Locals, NEW a \in Actor, NEW l, NEW r, Goto(a, l) \/ Leave(a) \/ Return(a, r) \/ Succeed(a)
  PROVE  OthersStay(a)
<1>1. ASSUME NEW m, pc' = [pc EXCEPT ![a] = m], UNCHANGED alone PROVE OthersStay(a)
  BY <1>1 DEF OthersStay, Locals
<1>2. ASSUME NEW m, pc' = [pc EXCEPT ![a] = m], alone' = [alone EXCEPT ![a] = FALSE]
      PROVE  OthersStay(a)
  BY <1>2 DEF OthersStay, Locals
<1> QED
  BY <1>1, <1>2 DEF Goto, Leave, Return, Succeed

\* A step of an actor at work moves only that actor.
LEMMA StepStays ==
  ASSUME Locals, NEW a \in Actor, Step(a)
  PROVE  Busy(a) /\ OthersStay(a)
<1>1. Busy(a)
  BY DEF Step, Busy, ConfirmSilent, SessionChanged, loadArchivedConfig, Loaded,
         performConfirmingCommitIfRequired, ConfirmingCommit, Recheck, SessCommit,
         validLocalSaveToDest, writeTempRunningConfigFile, CopyOpens, copyFile,
         setConfirmedCommitTimeout, setConfirmTimeout
<1>2. \/ \E l, r : Goto(a, l) \/ Leave(a) \/ Return(a, r) \/ Succeed(a)
      \/ \E l : pc' = [pc EXCEPT ![a] = l] /\ UNCHANGED alone
  <2>1. CASE ConfirmSilent(a) \/ SessionChanged(a) \/ loadArchivedConfig(a) \/ Loaded(a)
             \/ performConfirmingCommitIfRequired(a) \/ Recheck(a)
    BY <2>1 DEF ConfirmSilent, SessionChanged, loadArchivedConfig, Loaded,
                performConfirmingCommitIfRequired, Recheck
  <2>2. CASE ConfirmingCommit(a) \/ SessCommit(a) \/ writeTempRunningConfigFile(a)
    BY <2>2 DEF ConfirmingCommit, SessCommit, writeTempRunningConfigFile
  <2>3. CASE validLocalSaveToDest(a) \/ CopyOpens(a) \/ copyFile(a)
             \/ setConfirmedCommitTimeout(a) \/ setConfirmTimeout(a)
    BY <2>3 DEF validLocalSaveToDest, CopyOpens, copyFile, setConfirmedCommitTimeout,
                setConfirmTimeout
  <2> QED BY <2>1, <2>2, <2>3 DEF Step
<1>3. ASSUME NEW l, pc' = [pc EXCEPT ![a] = l], UNCHANGED alone PROVE OthersStay(a)
  BY <1>3 DEF OthersStay, Locals
<1> QED BY <1>1, <1>2, <1>3, HelpersStay

\* A request that no other overlaps: nobody else is at work, so what it has
\* shown of running is still so.
Undisturbed(a) ==
    /\ \A x \in Actor \ {a} : ~Busy(x)
    /\ pc[a] \in {"truncate", "copy"} => tmp[a] = running
    /\ pc[a] = "copy" => boot = "empty"

AloneInv == \A a \in Actor : alone[a] => Undisturbed(a)

LEMMA AloneInit == Init => AloneInv
  BY DEF Init, AloneInv

\* Requests that begin, end or are answered at once, and timers.
LEMMA AloneAsk ==
  ASSUME Locals, AloneInv, NEW c \in Client, Ask(c)
  PROVE  AloneInv'
<1>0. c \in Actor
  BY DEF Actor
<1>a. ASSUME Answered PROVE AloneInv'
  BY <1>a DEF Answered, AloneInv
<1>s. ASSUME NEW r, NEW l \in {"check", "silent", "changed", "validdest"}, Start(c, r, l)
      PROVE  AloneInv'
  <2>1. /\ pc' = [pc EXCEPT ![c] = l]
        /\ \A x \in Actor \ {c} : ~alone'[x]
        /\ alone'[c] => \A x \in Actor \ {c} : ~Busy(x)
    BY <1>0, <1>s DEF Start
  <2>2. \A x \in Actor \ {c} : Busy(x)' <=> Busy(x)
    BY <2>1 DEF Busy, Locals
  <2>3. pc'[c] \notin {"truncate", "copy"}
    BY <1>0, <2>1 DEF Locals
  <2> QED BY <2>1, <2>2, <2>3 DEF AloneInv, Undisturbed
<1>e. ASSUME UNCHANGED <<pc, alone, tmp, running, boot>> PROVE AloneInv'
  BY <1>e DEF AloneInv, Undisturbed, Busy
<1>1. CASE (\E cfg \in Config : Edit(c, cfg)) \/ DiscardEdits(c)
  BY <1>1, <1>e DEF Edit, DiscardEdits, bootVars
<1>2. CASE \E t \in TimeoutArg, p, i \in Persist :
             ConfirmedCommit(c, TRUE, t, p, i) \/ ConfirmedCommit(c, FALSE, t, "", i)
  BY <1>2, <1>a, <1>s DEF ConfirmedCommit, Answer
<1>3. CASE (\E cli \in BOOLEAN : Commit(c, cli))
           \/ (\E mins, cli \in BOOLEAN : CommitConfirm(c, mins, cli))
  BY <1>3, <1>s DEF Commit, CommitConfirm
<1>4. CASE (\E cfg \in Config : Rollback(c, cfg)) \/ Save(c)
  BY <1>4, <1>s DEF Rollback, Save
<1>5. CASE \E p \in Persist, force \in BOOLEAN : CancelCommit(c, p, force)
  BY <1>5, <1>a, <1>s DEF CancelCommit, Answer
<1>6. CASE Confirm(c) \/ \E p \in PersistId : ConfirmPersistId(c, p)
  BY <1>6, <1>a DEF Confirm, ConfirmPersistId, Answer
<1>7. CASE \E cfg \in Config : LoadKeys(c, cfg)
  BY <1>7, <1>a, <1>s DEF LoadKeys, Answer
<1>8. CASE sessionTermination(c)
  BY <1>8 DEF sessionTermination, AloneInv
<1> QED
  BY <1>1, <1>2, <1>3, <1>4, <1>5, <1>6, <1>7, <1>8 DEF Ask

LEMMA AloneTimer ==
  ASSUME Expire \/ CommitConfirmExpires \/ \E c \in Client : RevertConfiguration(c)
  PROVE  AloneInv' /\ \A a \in Actor : ~alone'[a]
  BY DEF Expire, CommitConfirmExpires, StartReverter, RevertConfiguration, AloneInv

LEMMA AloneStep ==
  ASSUME Locals, Shared, AloneInv, NEW a \in Actor, Step(a)
  PROVE  AloneInv'
<1>0. Busy(a) /\ OthersStay(a)
  BY StepStays
<1>1. \A x \in Actor \ {a} : ~alone'[x]
  BY <1>0 DEF OthersStay, AloneInv, Undisturbed
<1>2. SUFFICES ASSUME alone'[a] PROVE Undisturbed(a)'
  BY <1>1 DEF AloneInv
<1>3. alone[a] /\ Undisturbed(a)
  BY <1>0, <1>2 DEF OthersStay, AloneInv
<1>4. (\A x \in Actor \ {a} : ~Busy(x))'
  BY <1>0, <1>3 DEF OthersStay, Undisturbed, Busy
<1>v. ASSUME pc'[a] \notin {"truncate", "copy"}
      PROVE  Undisturbed(a)'
  BY <1>4, <1>v DEF Undisturbed
<1>g. ASSUME NEW l, Goto(a, l) PROVE pc'[a] = l
  BY <1>g DEF Goto, Locals
<1>r. ~Leave(a) /\ \A r : ~Return(a, r)
  BY <1>2 DEF Leave, Return, Locals
<1>s. ASSUME Succeed(a) PROVE Undisturbed(a)'
  <2>1. pc'[a] = "validdest"
    BY <1>r, <1>s DEF Succeed, Locals
  <2> QED BY <1>v, <2>1
<1>5. CASE ConfirmSilent(a) \/ SessionChanged(a) \/ loadArchivedConfig(a) \/ Loaded(a)
           \/ performConfirmingCommitIfRequired(a) \/ validLocalSaveToDest(a)
  <2>1. \E l \in {"silent", "changed", "check", "load", "loaded", "commit", "confirming",
                  "show"} : Goto(a, l)
    BY <1>5, <1>r DEF ConfirmSilent, SessionChanged, loadArchivedConfig, Loaded,
                      performConfirmingCommitIfRequired, validLocalSaveToDest
  <2> QED BY <1>g, <1>v, <2>1
<1>6. CASE ConfirmingCommit(a)
  BY <1>6, <1>v DEF ConfirmingCommit, Locals
<1>7. CASE Recheck(a)
  BY <1>7, <1>g, <1>s, <1>v DEF Recheck
<1>9. CASE SessCommit(a)
  <2>1. Succeed(a) \/ pc' = [pc EXCEPT ![a] = "validdest"]
    BY <1>9, <1>r DEF SessCommit
  <2>2. CASE pc' = [pc EXCEPT ![a] = "validdest"]
    BY <1>v, <2>2 DEF Locals
  <2> QED BY <1>s, <2>1, <2>2
<1>10. CASE writeTempRunningConfigFile(a)
  <2>1. tmp' = [tmp EXCEPT ![a] = running] /\ pc'[a] = "truncate" /\ UNCHANGED running
    BY <1>10, <1>r DEF writeTempRunningConfigFile, Locals
  <2> QED BY <1>4, <2>1 DEF Undisturbed, Locals
<1>11. CASE CopyOpens(a)
  <2>1. /\ pc[a] = "truncate" /\ pc'[a] = "copy" /\ boot' = "empty"
        /\ UNCHANGED <<running, tmp>>
    BY <1>11, <1>g, <1>r DEF CopyOpens, Goto
  <2> QED BY <1>3, <1>4, <2>1 DEF Undisturbed
<1>12. CASE copyFile(a) \/ setConfirmedCommitTimeout(a) \/ setConfirmTimeout(a)
  <2>1. Succeed(a) \/ Goto(a, "schedule")
    BY <1>12, <1>r DEF copyFile, setConfirmedCommitTimeout, setConfirmTimeout
  <2> QED BY <1>g, <1>s, <1>v, <2>1
<1> QED
  BY <1>5, <1>6, <1>7, <1>9, <1>10, <1>11, <1>12 DEF Step

LEMMA AloneNext == TypeInv /\ AloneInv /\ [Next]_vars => AloneInv'
<1>1. ASSUME TypeInv, AloneInv, Next PROVE AloneInv'
  BY <1>1, AloneAsk, AloneStep, AloneTimer DEF Next, TypeInv
<1>2. ASSUME AloneInv, UNCHANGED vars PROVE AloneInv'
  BY <1>2 DEF AloneInv, Undisturbed, Busy, vars, bootVars
<1> QED BY <1>1, <1>2

-----------------------------------------------------------------------------
\* The pending confirmed commit

\* Where an actor goes on after it has read the job file.
Decided == {"confirming", "recheck", "commit"}

Resting == {"idle", "terminate", "gone"}

\* Whoever has decided to go on, or to revert, since the confirmed commit was
\* scheduled is entitled to: what it read of the job file is still there.
Guarded ==
    /\ \A a \in Actor : pc[a] \in Resting => req[a].revision = ""
    /\ job # NoJob => \A a \in Actor \ late : pc[a] \in Decided \/ Reverting(a) => Entitled(a)

LEMMA GuardedInit == Init => Guarded
<1>1. Plain.revision = ""
  BY DEF Plain
<1> QED BY <1>1 DEF Init, Guarded

LEMMA EntitledStays ==
  ASSUME NEW a \in Actor, job' = job, req'[a].revision = req[a].revision,
         req'[a].force = req[a].force, req'[a].cmt = req[a].cmt
  PROVE  Entitled(a)' <=> Entitled(a)
  BY DEF Entitled, MayCancel, NotOurs

\* Nothing happens to those that a step does not move.
LEMMA GuardStays ==
  ASSUME Guarded, NEW x \in Actor, job' = job, pc'[x] = pc[x], req'[x] = req[x],
         x \notin late
  PROVE  job' # NoJob /\ (pc'[x] \in Decided \/ Reverting(x)') => Entitled(x)'
<1>1. Entitled(x)' <=> Entitled(x)
  BY EntitledStays
<1>2. Reverting(x)' <=> Reverting(x)
  BY DEF Reverting, Busy
<1> QED BY <1>1, <1>2 DEF Guarded

LEMMA GuardedSame ==
  ASSUME Guarded, UNCHANGED <<pc, req, job, late>>
  PROVE  Guarded'
<1>1. \A x \in Actor \ late : job' # NoJob /\ (pc'[x] \in Decided \/ Reverting(x)') => Entitled(x)'
  BY GuardStays
<1>2. \A a \in Actor : pc'[a] \in Resting => req'[a].revision = ""
  BY DEF Guarded
<1> QED BY <1>1, <1>2 DEF Guarded

\* A request begins that may revert.
LEMMA GuardedStart ==
  ASSUME Locals, Guarded, NEW c \in Actor, NEW r,
         NEW l \in {"check", "silent", "changed", "validdest"},
         pc' = [pc EXCEPT ![c] = l], req' = [req EXCEPT ![c] = r],
         r.revision = "revert" => c = Reverter \/ r.force \/ MayCancel(c, r.cmt.persistId),
         UNCHANGED <<job, late>>
  PROVE  Guarded'
<1>1. pc'[c] = l /\ req'[c] = r /\ \A x \in Actor \ {c} : pc'[x] = pc[x] /\ req'[x] = req[x]
  BY DEF Locals
<1>2. \A a \in Actor : pc'[a] \in Resting => req'[a].revision = ""
  BY <1>1 DEF Guarded, Resting
<1>3. ASSUME NEW x \in Actor \ late', job' # NoJob, pc'[x] \in Decided \/ Reverting(x)'
      PROVE  Entitled(x)'
  <2>1. CASE x # c
    BY <1>1, <1>3, <2>1, GuardStays
  <2>2. CASE x = c
    <3>1. r.revision = "revert"
      BY <1>1, <1>3, <2>2 DEF Reverting, Decided
    <3>2. MayCancel(c, r.cmt.persistId)' <=> MayCancel(c, r.cmt.persistId)
      BY DEF MayCancel
    <3> QED BY <1>1, <2>2, <3>1, <3>2 DEF Entitled, MayCancel
  <2> QED BY <2>1, <2>2
<1> QED BY <1>2, <1>3 DEF Guarded

LEMMA GuardedAsk ==
  ASSUME Locals, Guarded, NEW c \in Client, Ask(c)
  PROVE  Guarded'
<1>0. c \in Actor
  BY DEF Actor
<1>a. ASSUME Answered, UNCHANGED job PROVE Guarded'
  BY <1>a, GuardedSame DEF Answered
<1>s. ASSUME NEW r, NEW l \in {"check", "silent", "changed", "validdest"}, Start(c, r, l),
             UNCHANGED job,
             r.revision = "revert" => r.force \/ MayCancel(c, r.cmt.persistId)
      PROVE  Guarded'
  <2>1. /\ pc' = [pc EXCEPT ![c] = l] /\ req' = [req EXCEPT ![c] = r]
        /\ UNCHANGED late
    BY <1>s DEF Start
  <2> QED BY <1>0, <1>s, <2>1, GuardedStart
<1>e. ASSUME EndJob, UNCHANGED <<pc, req>> PROVE Guarded'
  BY <1>e DEF EndJob, Guarded
<1>1. CASE (\E cfg \in Config : Edit(c, cfg)) \/ DiscardEdits(c)
  BY <1>1, GuardedSame DEF Edit, DiscardEdits
<1>2. ASSUME NEW b \in BOOLEAN, NEW t, NEW p, NEW i, ConfirmedCommit(c, b, t, p, i)
      PROVE  Guarded'
  <2>1. [Plain EXCEPT !.cmt = newCommitInfo(b, t, p, i)].revision = ""
    BY DEF Plain
  <2> QED BY <1>2, <1>a, <1>s, <2>1 DEF ConfirmedCommit, Answer
<1>3. CASE (\E cli \in BOOLEAN : Commit(c, cli))
           \/ (\E mins, cli \in BOOLEAN : CommitConfirm(c, mins, cli))
  <2>1. \A b, d : /\ [Plain EXCEPT !.cli = d].revision = ""
                  /\ [Plain EXCEPT !.mins = b, !.cli = d].revision = ""
    BY DEF Plain
  <2> QED BY <1>3, <1>s, <2>1 DEF Commit, CommitConfirm
<1>4. CASE (\E cfg \in Config : Rollback(c, cfg)) \/ Save(c)
  <2>1. /\ [Plain EXCEPT !.saving = TRUE].revision = ""
        /\ \A cfg : [Plain EXCEPT !.revision = "N", !.target = cfg].revision = "N"
    BY DEF Plain
  <2> QED BY <1>4, <1>s, <2>1 DEF Rollback, Save
<1>5. ASSUME NEW p \in Persist, NEW force \in BOOLEAN, CancelCommit(c, p, force)
      PROVE  Guarded'
  <2> DEFINE r == [Plain EXCEPT !.revision = "revert", !.cmt.persistId = p, !.force = force]
  <2>1. r.force = force /\ r.cmt.persistId = p
    BY DEF Plain, Nil
  <2>2. UNCHANGED job /\ (Answer \/ (Start(c, r, "silent") /\ (force \/ MayCancel(c, p))))
    BY <1>5 DEF CancelCommit
  <2> HIDE DEF r
  <2> QED BY <1>a, <1>s, <2>1, <2>2 DEF Answer
<1>6. CASE Confirm(c)
  BY <1>6, <1>a DEF Confirm, Answer
<1>7. CASE \E p \in PersistId : ConfirmPersistId(c, p)
  BY <1>7, <1>a, <1>e DEF ConfirmPersistId, Answer, Answered, jobVars
<1>8. CASE \E cfg \in Config : LoadKeys(c, cfg)
  <2>1. [Plain EXCEPT !.keys = TRUE].revision = ""
    BY DEF Plain
  <2> QED BY <1>8, <1>a, <1>s, <2>1 DEF LoadKeys, Answer
<1>9. CASE sessionTermination(c)
  <2>1. /\ UNCHANGED <<job, req, late>> /\ pc[c] = "idle" /\ pc'[c] \in {"terminate", "gone"}
        /\ \A x \in Actor \ {c} : pc'[x] = pc[x]
    BY <1>0, <1>9 DEF sessionTermination, Locals
  <2>2. req[c].revision = ""
    BY <1>0, <2>1 DEF Guarded, Resting
  <2>3. \A a \in Actor : pc'[a] \in Resting => req'[a].revision = ""
    BY <2>1, <2>2 DEF Guarded
  <2>4. pc'[c] \notin Decided /\ ~Reverting(c)'
    BY <2>1, <2>2 DEF Decided, Reverting
  <2>5. \A x \in Actor \ late :
           job' # NoJob /\ (pc'[x] \in Decided \/ Reverting(x)') => Entitled(x)'
    BY <2>1, <2>4, GuardStays
  <2> QED BY <2>1, <2>3, <2>5 DEF Guarded
<1> QED
  BY <1>1, <1>2, <1>3, <1>4, <1>5, <1>6, <1>7, <1>8, <1>9 DEF Ask

LEMMA GuardedTimer ==
  ASSUME Locals, Guarded,
         Expire \/ CommitConfirmExpires \/ \E c \in Client : RevertConfiguration(c)
  PROVE  Guarded'
<1>0. Reverter \in Actor /\ Client \subseteq Actor
  BY DEF Actor
<1>1. CASE Expire \/ CommitConfirmExpires
  <2>1. PICK r : StartReverter(r)
    BY <1>1 DEF Expire, CommitConfirmExpires
  <2>2. /\ pc' = [pc EXCEPT ![Reverter] = "silent"] /\ req' = [req EXCEPT ![Reverter] = r]
        /\ UNCHANGED <<job, late>>
    BY <2>1 DEF StartReverter
  <2> QED BY <1>0, <2>2, GuardedStart
<1>2. ASSUME NEW c \in Client, RevertConfiguration(c) PROVE Guarded'
  <2> DEFINE r == [Plain EXCEPT !.revision = "revert"]
  <2>0. c # Reverter
    BY ConfirmAssumption, Zenon
  <2>1. /\ UNCHANGED <<job, late>> /\ pc[c] = "terminate" /\ pc'[c] = "gone"
        /\ pc'[Reverter] = "silent" /\ req'[Reverter] = r
        /\ \A x \in Actor \ {Reverter} : req'[x] = req[x]
        /\ \A x \in Actor \ {c, Reverter} : pc'[x] = pc[x]
    BY <1>0, <1>2, <2>0 DEF RevertConfiguration, Locals
  <2>2. req[c].revision = ""
    BY <1>0, <2>1 DEF Guarded, Resting
  <2>3. \A a \in Actor : pc'[a] \in Resting => req'[a].revision = ""
    BY <2>0, <2>1, <2>2 DEF Guarded, Resting
  <2>4. pc'[c] \notin Decided /\ ~Reverting(c)'
    BY <1>0, <2>0, <2>1, <2>2 DEF Decided, Reverting, Busy
  <2>5. Reverting(Reverter)' => Entitled(Reverter)'
    BY <1>0 DEF Entitled, Reverting
  <2>6. pc'[Reverter] \notin Decided
    BY <2>1 DEF Decided
  <2>7. ASSUME NEW x \in Actor \ late, job' # NoJob, pc'[x] \in Decided \/ Reverting(x)'
        PROVE  Entitled(x)'
    <3>1. CASE x \in {c, Reverter}
      BY <2>4, <2>5, <2>6, <2>7, <3>1
    <3>2. CASE x \notin {c, Reverter}
      BY <2>1, <2>7, <3>2, GuardStays
    <3> QED BY <3>1, <3>2
  <2> QED BY <2>1, <2>3, <2>7 DEF Guarded
<1> QED BY <1>1, <1>2

\* How the handler of a goes on: with the same request, past the job file only
\* when it may.
GoesOn(a) ==
    /\ late' = late
    /\ pc'[a] \notin Resting
    /\ req'[a].revision = req[a].revision
    /\ req'[a].force = req[a].force
    /\ req'[a].cmt = req[a].cmt
    /\ pc'[a] \in Decided => pc[a] \in Decided \/ Decision(a) # "denied"

\* The confirmed commit is scheduled.
Schedules(a) ==
    /\ Leave(a)
    /\ job' # NoJob
    /\ late' = {b \in Actor \ {a} : Busy(b)}

LEMMA StepKinds ==
  ASSUME TypeInv, NEW a \in Actor, Step(a)
  PROVE  /\ \A x \in Actor \ {a} : pc'[x] = pc[x] /\ req'[x] = req[x]
         /\ \/ job' \in {job, NoJob} /\ Leave(a) /\ late' = late \ {a}
            \/ job' \in {job, NoJob} /\ GoesOn(a)
            \/ Schedules(a)
<1>0. Locals /\ Prepared /\ Shared
  BY DEF TypeInv
<1> DEFINE Others == \A x \in Actor \ {a} : pc'[x] = pc[x] /\ req'[x] = req[x]
           Left == Leave(a) /\ late' = late \ {a}
<1>l. ASSUME Leave(a) PROVE Others
  BY <1>0, <1>l DEF Leave, Locals
<1>r. ASSUME NEW r, Return(a, r) PROVE Others /\ Left
  BY <1>l, <1>r DEF Return
<1>g. ASSUME NEW l, Goto(a, l), l \notin Resting,
             l \in Decided => pc[a] \in Decided \/ Decision(a) # "denied"
      PROVE  Others /\ GoesOn(a)
  BY <1>0, <1>g DEF Goto, Locals, GoesOn
<1>s. ASSUME Succeed(a) PROVE Others /\ (Left \/ GoesOn(a))
  <2>1. CASE ~req[a].cli
    BY <1>r, <1>s, <2>1 DEF Succeed
  <2>2. CASE req[a].cli
    <3>1. /\ pc' = [pc EXCEPT ![a] = "validdest"] /\ UNCHANGED late
          /\ req' = [req EXCEPT ![a] = [req[a] EXCEPT !.cli = FALSE, !.saving = TRUE]]
      BY <1>s, <2>2 DEF Succeed
    <3>2. req[a] \in Request
      BY <1>0 DEF Locals
    <3>3. /\ req'[a].revision = req[a].revision /\ req'[a].force = req[a].force
          /\ req'[a].cmt = req[a].cmt
      BY <1>0, <3>1, <3>2 DEF Locals, Request
    <3> QED BY <1>0, <3>1, <3>3 DEF Locals, GoesOn, Decided, Resting
  <2> QED BY <2>1, <2>2
<1>m. ASSUME NEW l \in {"validdest", "truncate"}, pc' = [pc EXCEPT ![a] = l],
             UNCHANGED <<req, late>>
      PROVE  Others /\ GoesOn(a)
  BY <1>0, <1>m DEF Locals, GoesOn, Decided, Resting
<1> HIDE DEF Others, Left
<1>1. CASE ConfirmSilent(a) \/ SessionChanged(a) \/ loadArchivedConfig(a) \/ Loaded(a)
           \/ validLocalSaveToDest(a)
  <2>1. job' = job
    BY <1>1 DEF ConfirmSilent, SessionChanged, loadArchivedConfig, Loaded,
                validLocalSaveToDest
  <2>2. \/ \E r : Return(a, r)
        \/ \E l \in {"silent", "changed", "check", "load", "loaded", "show"} : Goto(a, l)
    BY <1>1 DEF ConfirmSilent, SessionChanged, loadArchivedConfig, Loaded,
                validLocalSaveToDest
  <2>3. Others /\ (Left \/ GoesOn(a))
    BY <1>g, <1>r, <2>2 DEF Resting, Decided
  <2> QED BY <2>1, <2>3 DEF Others, Left
<1>2. CASE performConfirmingCommitIfRequired(a)
  <2>1. job' = job
    BY <1>2 DEF performConfirmingCommitIfRequired
  <2>2. Others /\ (Left \/ GoesOn(a))
    BY <1>2, <1>g, <1>r DEF performConfirmingCommitIfRequired, Resting
  <2> QED BY <2>1, <2>2 DEF Others, Left
<1>3. CASE ConfirmingCommit(a)
  <2>1. job' \in {job, NoJob}
    BY <1>3 DEF ConfirmingCommit, EndJob, jobVars
  <2>2. /\ pc[a] = "confirming" /\ pc' = [pc EXCEPT ![a] = "recheck"] /\ UNCHANGED <<req, late>>
    BY <1>3 DEF ConfirmingCommit
  <2>3. Others /\ GoesOn(a)
    BY <1>0, <2>2 DEF Others, Locals, GoesOn, Decided, Resting
  <2> QED BY <2>1, <2>3 DEF Others
<1>4. CASE Recheck(a)
  <2>1. job' = job
    BY <1>4 DEF Recheck
  <2>2. Others /\ (Left \/ GoesOn(a))
    BY <1>4, <1>g, <1>s DEF Recheck, Resting, Decided
  <2> QED BY <2>1, <2>2 DEF Others, Left
<1>5. CASE SessCommit(a) \/ writeTempRunningConfigFile(a)
  <2>1. job' = job
    BY <1>5 DEF SessCommit, writeTempRunningConfigFile
  <2>2. Others /\ (Left \/ GoesOn(a))
    BY <1>5, <1>m, <1>r, <1>s DEF SessCommit, writeTempRunningConfigFile
  <2> QED BY <2>1, <2>2 DEF Others, Left
<1>6. CASE CopyOpens(a) \/ copyFile(a) \/ setConfirmTimeout(a)
  <2>1. job' = job
    BY <1>6 DEF CopyOpens, copyFile, setConfirmTimeout
  <2>2. Succeed(a) \/ Goto(a, "copy") \/ Goto(a, "schedule") \/ \E r : Return(a, r)
    BY <1>6 DEF CopyOpens, copyFile, setConfirmTimeout
  <2>3. Others /\ (Left \/ GoesOn(a))
    BY <1>g, <1>r, <1>s, <2>2 DEF Resting, Decided
  <2> QED BY <2>1, <2>3 DEF Others, Left
<1>7. CASE setConfirmedCommitTimeout(a)
  <2>1. CASE UNCHANGED jobVars /\ Return(a, "ok")
    BY <1>r, <2>1 DEF Others, Left, jobVars
  <2>2. CASE /\ job' = [session |-> a, persist |-> req[a].cmt.persist,
                        timeout |-> req[a].cmt.timeout]
             /\ Leave(a) /\ late' = {b \in Actor \ {a} : Busy(b)}
    <3>1. req[a].cmt.timeout \in 1 .. MaxUint
      BY <1>0, <1>7 DEF setConfirmedCommitTimeout, Prepared, Usable
    <3>2. job'.timeout # 0 /\ NoJob.timeout = 0
      BY <2>2, <3>1, Timeouts DEF NoJob
    <3>3. job' # NoJob
      BY <3>2
    <3> QED BY <1>l, <2>2, <3>3 DEF Others, Schedules
  <2> QED BY <1>7, <2>1, <2>2 DEF setConfirmedCommitTimeout
<1> QED
  BY <1>1, <1>2, <1>3, <1>4, <1>5, <1>6, <1>7 DEF Step

LEMMA GuardedStep ==
  ASSUME TypeInv, Guarded, NEW a \in Actor, Step(a)
  PROVE  Guarded'
<1>0. Locals /\ Busy(a)
  BY StepStays DEF TypeInv
<1>1. \A x \in Actor \ {a} : pc'[x] = pc[x] /\ req'[x] = req[x]
  BY StepKinds
<1>l. ASSUME Leave(a) PROVE pc'[a] = "idle" /\ req'[a].revision = ""
  BY <1>0, <1>l DEF Leave, Locals, Plain
<1>2. \A x \in Actor : pc'[x] \in Resting => req'[x].revision = ""
  <2>1. pc'[a] \in Resting => req'[a].revision = ""
    BY <1>l, StepKinds DEF Schedules, GoesOn
  <2> QED BY <1>1, <2>1 DEF Guarded
<1>3. CASE Schedules(a)
  <2>1. ASSUME NEW x \in Actor \ late' PROVE pc'[x] \notin Decided /\ ~Reverting(x)'
    <3>1. CASE x = a
      BY <1>3, <1>l, <3>1 DEF Schedules, Decided, Reverting
    <3>2. CASE x # a
      <4>1. ~Busy(x)
        BY <1>3, <2>1, <3>2 DEF Schedules
      <4> QED BY <1>1, <3>2, <4>1 DEF Busy, Reverting, Decided
    <3> QED BY <3>1, <3>2
  <2> QED BY <1>2, <2>1 DEF Guarded
<1>4. CASE job' = NoJob
  BY <1>2, <1>4 DEF Guarded
<1>5. CASE job' = job /\ job # NoJob /\ Leave(a) /\ late' = late \ {a}
  <2>1. ASSUME NEW x \in Actor \ late', pc'[x] \in Decided \/ Reverting(x)'
        PROVE  Entitled(x)'
    <3>1. x # a
      BY <1>5, <1>l, <2>1 DEF Decided, Reverting
    <3>2. x \notin late
      BY <1>5, <2>1, <3>1
    <3> QED BY <1>1, <1>5, <2>1, <3>1, <3>2, GuardStays
  <2> QED BY <1>2, <2>1 DEF Guarded
<1>6. CASE job' = job /\ job # NoJob /\ GoesOn(a)
  <2>1. ASSUME NEW x \in Actor \ late', pc'[x] \in Decided \/ Reverting(x)'
        PROVE  Entitled(x)'
    <3>0. x \notin late
      BY <1>6, <2>1 DEF GoesOn
    <3>1. CASE x # a
      BY <1>1, <1>6, <2>1, <3>0, <3>1, GuardStays
    <3>2. CASE x = a
      <4>1. Entitled(a)' <=> Entitled(a)
        BY <1>6, EntitledStays DEF GoesOn
      <4>2. Reverting(a)' => Reverting(a)
        BY <1>0, <1>6 DEF GoesOn, Reverting
      <4>3. Reverting(a) \/ pc[a] \in Decided => Entitled(a)
        BY <1>6, <3>0, <3>2 DEF Guarded
      <4>4. Decision(a) # "denied" /\ ~Reverting(a) => Entitled(a)
        BY <1>0, <1>6 DEF Decision, Entitled, Reverting
      <4> QED BY <1>6, <2>1, <3>2, <4>1, <4>2, <4>3, <4>4 DEF GoesOn
    <3> QED BY <3>1, <3>2
  <2> QED BY <1>2, <2>1 DEF Guarded
<1> QED BY <1>3, <1>4, <1>5, <1>6, StepKinds

LEMMA GuardedNext == TypeInv /\ Guarded /\ [Next]_vars => Guarded'
<1>1. ASSUME TypeInv, Guarded, Next PROVE Guarded'
  BY <1>1, GuardedAsk, GuardedStep, GuardedTimer DEF Next, TypeInv
<1>2. ASSUME Guarded, UNCHANGED vars PROVE Guarded'
  BY <1>2, GuardedSame DEF vars, jobVars
<1> QED BY <1>1, <1>2

\* What the steps do to running and to the pending confirmed commit.
LEMMA PendingStep ==
  ASSUME TypeInv, Next, job # NoJob, running' # running \/ job' = NoJob
  PROVE  \/ \E a \in Actor : pc[a] \in {"confirming", "commit"} /\ pc'[a] # pc[a]
         \/ job.persist \in PersistId /\ UNCHANGED <<running, pc>>
<1>0. Locals /\ Shared
  BY DEF TypeInv
<1>1. ASSUME NEW c \in Client, Ask(c) PROVE job.persist \in PersistId /\ UNCHANGED <<running, pc>>
  <2>1. \/ UNCHANGED <<running, job>>
        \/ \E p \in PersistId : ConfirmPersistId(c, p)
    BY <1>1 DEF Ask, Edit, DiscardEdits, ConfirmedCommit, Commit, CommitConfirm, Rollback,
                CancelCommit, Confirm, LoadKeys, Save, sessionTermination
  <2>2. PICK p \in PersistId : ConfirmPersistId(c, p)
    BY <2>1
  <2> QED BY <2>2 DEF ConfirmPersistId, Answer, Answered, jobVars
<1>2. ASSUME NEW a \in Actor, Step(a)
      PROVE  pc[a] \in {"confirming", "commit"} /\ pc'[a] # pc[a]
  <2>1. CASE ConfirmSilent(a) \/ SessionChanged(a) \/ loadArchivedConfig(a) \/ Loaded(a)
             \/ performConfirmingCommitIfRequired(a) \/ Recheck(a)
    BY <2>1 DEF ConfirmSilent, SessionChanged, loadArchivedConfig, Loaded,
                performConfirmingCommitIfRequired, Recheck
  <2>2. CASE validLocalSaveToDest(a) \/ writeTempRunningConfigFile(a) \/ CopyOpens(a)
             \/ copyFile(a) \/ setConfirmTimeout(a)
    BY <2>2 DEF validLocalSaveToDest, writeTempRunningConfigFile, CopyOpens, copyFile,
                setConfirmTimeout
  <2>3. CASE ConfirmingCommit(a)
    BY <1>0, <2>3 DEF ConfirmingCommit, Locals
  <2>4. CASE SessCommit(a)
    <3>1. pc[a] = "commit"
      BY <2>4 DEF SessCommit
    <3>2. pc'[a] \in {"idle", "validdest"}
      BY <1>0, <2>4 DEF SessCommit, Succeed, Return, Leave, Locals
    <3> QED BY <3>1, <3>2
  <2>5. CASE setConfirmedCommitTimeout(a)
    <3>1. running' = running /\ pc[a] = "schedule"
      BY <2>5 DEF setConfirmedCommitTimeout
    <3>2. job' = NoJob
      BY <3>1
    <3>3. UNCHANGED job \/ job'.timeout = req[a].cmt.timeout
      BY <2>5 DEF setConfirmedCommitTimeout, jobVars
    <3>4. req[a].cmt.timeout \in 1 .. MaxUint
      BY <2>5 DEF setConfirmedCommitTimeout, TypeInv, Prepared, Usable
    <3>5. job'.timeout = 0
      BY <3>2 DEF NoJob
    <3>6. UNCHANGED job
      BY <3>3, <3>4, <3>5, Timeouts
    <3> QED BY <3>2, <3>6
  <2> QED BY <1>2, <2>1, <2>2, <2>3, <2>4, <2>5 DEF Step
<1>3. ASSUME Expire \/ CommitConfirmExpires PROVE FALSE
  BY <1>3 DEF Expire, CommitConfirmExpires, StartReverter
<1>4. ASSUME NEW c \in Client, RevertConfiguration(c) PROVE FALSE
  BY <1>4 DEF RevertConfiguration
<1> QED BY <1>1, <1>2, <1>3, <1>4 DEF Next

\* While a confirmed commit is pending, only those that are entitled to it
\* change running or end it, but for requests that were under way already when
\* it was scheduled: however many connections make requests, in any order.
THEOREM PendingAlwaysProtected == Spec => PendingIsProtected
<1> DEFINE Protected ==
      job # NoJob /\ (running' # running \/ job' = NoJob) =>
         \/ \E a \in Actor : /\ pc[a] \in {"confirming", "commit"} /\ pc'[a] # pc[a]
                             /\ a \in late \/ Entitled(a)
         \/ job.persist \in PersistId /\ UNCHANGED <<running, pc>>
<1>1. ASSUME TypeInv, Guarded, [Next]_vars PROVE [Protected]_vars
  <2>1. SUFFICES ASSUME Next, job # NoJob, running' # running \/ job' = NoJob,
                        ~(job.persist \in PersistId /\ UNCHANGED <<running, pc>>)
                 PROVE  \E a \in Actor : /\ pc[a] \in {"confirming", "commit"}
                                         /\ pc'[a] # pc[a]
                                         /\ a \in late \/ Entitled(a)
    BY <1>1
  <2>2. PICK a \in Actor : pc[a] \in {"confirming", "commit"} /\ pc'[a] # pc[a]
    BY <1>1, <2>1, PendingStep
  <2>3. a \in late \/ Entitled(a)
    BY <1>1, <2>1, <2>2 DEF Guarded, Decided
  <2> QED BY <2>2, <2>3
<1>2. TypeInv /\ Guarded /\ [Next]_vars => [Protected]_vars
  BY <1>1
<1> QED
  BY <1>2, TypeInvInit, TypeInvNext, GuardedInit, GuardedNext, PTL DEF Spec, PendingIsProtected

-----------------------------------------------------------------------------
\* The boot file

\* Only the copy itself ends a copy.
LEMMA CopyStays ==
  ASSUME Locals, Next, NEW x \in Actor, pc[x] = "copy"
  PROVE  pc'[x] = "copy" \/ copyFile(x)
<1>1. ASSUME NEW c \in Client, Ask(c) PROVE pc'[x] = "copy"
  <2>0. c \in Actor
    BY DEF Actor
  <2>1. \/ UNCHANGED pc
        \/ pc[c] = "idle" /\ \E l : pc' = [pc EXCEPT ![c] = l]
    <3>1. CASE (\E cfg \in Config : Edit(c, cfg) \/ Rollback(c, cfg) \/ LoadKeys(c, cfg))
               \/ DiscardEdits(c) \/ Save(c) \/ sessionTermination(c)
      BY <3>1 DEF Edit, Rollback, LoadKeys, DiscardEdits, Save, sessionTermination, MayAsk,
                  Start, Answer, Answered
    <3>2. CASE \E t \in TimeoutArg, p, i \in Persist :
                 ConfirmedCommit(c, TRUE, t, p, i) \/ ConfirmedCommit(c, FALSE, t, "", i)
      BY <3>2 DEF ConfirmedCommit, MayAsk, Start, Answer, Answered
    <3>3. CASE (\E cli \in BOOLEAN : Commit(c, cli))
               \/ (\E mins, cli \in BOOLEAN : CommitConfirm(c, mins, cli))
               \/ (\E p \in Persist, force \in BOOLEAN : CancelCommit(c, p, force))
      BY <3>3 DEF Commit, CommitConfirm, CancelCommit, MayAsk, Start, Answer, Answered
    <3>4. CASE Confirm(c) \/ \E p \in PersistId : ConfirmPersistId(c, p)
      BY <3>4 DEF Confirm, ConfirmPersistId, Answer, Answered
    <3> QED BY <1>1, <3>1, <3>2, <3>3, <3>4 DEF Ask
  <2> QED BY <2>0, <2>1 DEF Locals
<1>2. ASSUME NEW a \in Actor, Step(a) PROVE pc'[x] = "copy" \/ copyFile(x)
  <2>1. CASE a # x
    BY <1>2, <2>1, StepStays DEF OthersStay
  <2>2. CASE a = x
    BY <1>2, <2>2 DEF Step, ConfirmSilent, SessionChanged, loadArchivedConfig, Loaded,
         performConfirmingCommitIfRequired, ConfirmingCommit, Recheck, SessCommit,
         validLocalSaveToDest, writeTempRunningConfigFile, CopyOpens,
         setConfirmedCommitTimeout, setConfirmTimeout
  <2> QED BY <2>1, <2>2
<1>3. ASSUME Expire \/ CommitConfirmExpires PROVE pc'[x] = "copy"
  BY <1>3 DEF Expire, CommitConfirmExpires, StartReverter, Locals, Actor
<1>4. ASSUME NEW c \in Client, RevertConfiguration(c) PROVE pc'[x] = "copy"
  BY <1>4 DEF RevertConfiguration, Locals, Actor
<1> QED BY <1>1, <1>2, <1>3, <1>4 DEF Next

\* The boot file is written by copies only.
LEMMA BootStays ==
  ASSUME Next
  PROVE  boot' = boot \/ \E a \in Actor : CopyOpens(a) \/ copyFile(a)
<1>1. ASSUME NEW c \in Client, Ask(c) PROVE UNCHANGED boot
  BY <1>1 DEF Ask, Edit, DiscardEdits, ConfirmedCommit, Commit, CommitConfirm, Rollback,
              CancelCommit, Confirm, ConfirmPersistId, LoadKeys, Save, sessionTermination,
              bootVars
<1>2. ASSUME NEW a \in Actor, Step(a)
      PROVE  boot' = boot \/ CopyOpens(a) \/ copyFile(a)
  <2>1. CASE ConfirmSilent(a) \/ SessionChanged(a) \/ loadArchivedConfig(a) \/ Loaded(a)
             \/ performConfirmingCommitIfRequired(a)
    BY <2>1 DEF ConfirmSilent, SessionChanged, loadArchivedConfig, Loaded,
                performConfirmingCommitIfRequired, bootVars
  <2>2. CASE ConfirmingCommit(a) \/ Recheck(a) \/ setConfirmedCommitTimeout(a)
             \/ setConfirmTimeout(a)
    BY <2>2 DEF ConfirmingCommit, Recheck, setConfirmedCommitTimeout, setConfirmTimeout,
                bootVars
  <2>3. CASE SessCommit(a) \/ validLocalSaveToDest(a) \/ writeTempRunningConfigFile(a)
    BY <2>3 DEF SessCommit, validLocalSaveToDest, writeTempRunningConfigFile, bootVars
  <2> QED BY <1>2, <2>1, <2>2, <2>3 DEF Step
<1>3. ASSUME Expire \/ CommitConfirmExpires PROVE UNCHANGED boot
  BY <1>3 DEF Expire, CommitConfirmExpires, StartReverter, bootVars
<1>4. ASSUME NEW c \in Client, RevertConfiguration(c) PROVE UNCHANGED boot
  BY <1>4 DEF RevertConfiguration, bootVars
<1> QED BY <1>1, <1>2, <1>3, <1>4 DEF Next

LEMMA BootIsWholeNext == TypeInv /\ BootIsWhole /\ [Next]_vars => BootIsWhole'
<1>1. ASSUME TypeInv, BootIsWhole, Next PROVE BootIsWhole'
  <2>0. Locals /\ Prepared
    BY <1>1 DEF TypeInv
  <2>1. ASSUME NEW a \in Actor, copyFile(a) PROVE BootIsWhole'
    <3>1. tmp[a] # "empty"
      BY <2>0, <2>1, ConfirmAssumption, Zenon DEF copyFile, Prepared
    <3>2. boot' # "empty"
      BY <2>1, <3>1 DEF copyFile
    <3> QED BY <3>2 DEF BootIsWhole
  <2>2. ASSUME NEW a \in Actor, CopyOpens(a), boot' # boot PROVE BootIsWhole'
    <3>1. pc'[a] = "copy"
      BY <2>0, <2>2 DEF CopyOpens, Goto, Locals, bootVars
    <3> QED BY <3>1 DEF BootIsWhole
  <2>3. CASE boot' = boot /\ \A a \in Actor : ~copyFile(a)
    <3>1. \A x \in Actor : pc[x] = "copy" => pc'[x] = "copy"
      BY <1>1, <2>0, <2>3, CopyStays
    <3> QED BY <1>1, <2>3, <3>1 DEF BootIsWhole
  <2> QED BY <1>1, <2>1, <2>2, <2>3, BootStays
<1>2. ASSUME BootIsWhole, UNCHANGED vars PROVE BootIsWhole'
  BY <1>2 DEF BootIsWhole, vars, bootVars
<1> QED BY <1>1, <1>2

LEMMA BootIsWholeInit == Init => BootIsWhole
<1> SUFFICES ASSUME Init PROVE boot # "empty"
  BY DEF BootIsWhole
<1>1. boot = BootConfig
  BY DEF Init
<1> QED BY <1>1, ConfirmAssumption, Zenon

\* However many connections save at once, and wherever their saves fail, the
\* boot file is empty only while one of them copies into it.
THEOREM BootNeverStaysEmpty == Spec => []BootIsWhole
<1> QED
  BY TypeInvInit, TypeInvNext, BootIsWholeInit, BootIsWholeNext, PTL DEF Spec

\* A save that no other request overlaps leaves the running configuration in
\* the boot file.
THEOREM SavesRunning == Spec => SavedIfAlone
<1> DEFINE Saved == \A a \in Actor :
                      pc[a] = "copy" /\ boot' \in Config /\ pc'[a] # "copy" /\ alone[a]
                         => boot' = running
<1>1. ASSUME TypeInv, AloneInv, [Next]_vars PROVE [Saved]_vars
  <2>1. SUFFICES ASSUME Next, NEW a \in Actor, pc[a] = "copy", boot' \in Config,
                        pc'[a] # "copy", alone[a]
                 PROVE  boot' = running
    BY <1>1
  <2>2. copyFile(a)
    BY <1>1, <2>1, CopyStays DEF TypeInv
  <2>3. tmp[a] = running /\ boot = "empty"
    BY <1>1, <2>1 DEF AloneInv, Undisturbed
  <2>4. boot' # "damaged" /\ boot' # "empty"
    BY <2>1, ConfirmAssumption, Zenon
  <2> QED BY <2>1, <2>2, <2>3, <2>4 DEF copyFile
<1>2. TypeInv /\ AloneInv /\ [Next]_vars => [Saved]_vars
  BY <1>1
<1> QED
  BY <1>2, TypeInvInit, TypeInvNext, AloneInit, AloneNext, PTL DEF Spec, SavedIfAlone

=============================================================================
