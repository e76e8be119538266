--------------------------- MODULE SessionMgrProofs ---------------------------
(***************************************************************************)
(* Proofs about SessionMgr, for any number of connections, pids, names and *)
(* session objects.                                                        *)
(***************************************************************************)
EXTENDS SessionMgr, TLAPS

\* The mutex that Destroy holds between its two steps keeps what its first step
\* found: one writer, and the name it is about to delete denotes a session
\* other than RUNNING.
DestroyInv ==
  /\ \A c \in Conn : pc[c] = "destroying" => sid[c] # RUNNING /\ sessions[sid[c]] # 0
  /\ \A c, d \in Conn : pc[c] = "destroying" /\ pc[d] = "destroying" => c = d

\* A commit or validate that runs has the lock of its session to itself.
BusyInv ==
  /\ \A c \in Conn : pc[c] = "busy" => lpid[ptr[c]] = COMMIT /\ life[ptr[c]] # "term"
  /\ \A c, d \in Conn : pc[c] = "busy" /\ pc[d] = "busy" /\ ptr[c] = ptr[d] => c = d

SafeInv == TypeOK /\ NamesAreLive /\ RunningStays /\ DestroyInv /\ BusyInv

-----------------------------------------------------------------------------
\* Every step is one of these.
Action(c) ==
  \/ \E method, name, label :
       /\ Call(c, method, name, label)
       /\ method \in {"setup", "setupshared", "teardown", "lock", "unlock", "commit",
                      "validateconfig"}
       /\ name \in Names
       /\ label \in {"create", "destroy", "get"}
  \/ Disconnect(c) \/ Accept(c)
  \/ Get(c) \/ DestroyDelete(c)
  \/ ActTerminated(c) \/ ActLock(c) \/ ActUnlock(c) \/ ActExclusive(c)
  \/ EndExclusive(c) \/ ActCopyConfig(c)
  \/ UnlockAllCheck(c) \/ UnlockAllUnlock(c) \/ Closed(c)
  \/ Create(c) \/ DestroyCheck(c)

LEMMA NextIsAction ==
  ASSUME Next
  PROVE  (\E c \in Conn : Action(c)) \/ (\E o \in Obj : Terminate(o))
<1>1. ASSUME NEW c \in Conn, Request(c)
      PROVE  Action(c)
  <2>1. \A p \in Pid : ValidateSid[p] \in Names
    BY DEF Names
  <2>2. Sid \cup {RUNNING} \subseteq Names /\ PidOf[c] \in Pid
    BY MgrAssumption DEF Names
  <2>3. CASE \E n \in Sid \cup {RUNNING} :
               \/ SessionSetup(c, n) \/ SessionSetupShared(c, n) \/ SessionTeardown(c, n)
               \/ SessionLock(c, n) \/ SessionUnlock(c, n) \/ Commit(c, n)
    BY <2>2, <2>3 DEF Action, SessionSetup, SessionSetupShared, SessionTeardown,
                      SessionLock, SessionUnlock, Commit
  <2>4. CASE ValidateConfig(c)
    BY <2>1, <2>2, <2>4 DEF Action, ValidateConfig
  <2> QED
    BY <1>1, <2>3, <2>4 DEF Request, Action
<1> QED
  BY <1>1 DEF Next, Action, Step, Write

LEMMA TypeInit == Init => TypeOK
  BY MgrAssumption DEF Init, TypeOK, Names, Obj, SYSTEM

LEMMA LeaveType ==
  ASSUME TypeOK, NEW c \in Conn, Leave(c) \/ Return(c)
  PROVE  /\ pc' \in [Conn -> {"closed", "ready", "get", "act", "busy", "create",
                    "destroy", "destroying", "unlockall", "unlockone"}]
         /\ op' \in [Conn -> {"none", "setup", "setupshared", "teardown", "lock",
                    "unlock", "commit", "validateconfig", "validate"}]
         /\ sid' \in [Conn -> Names]
         /\ ptr' \in [Conn -> Obj]
         /\ pc'[c] \in {"ready", "destroy"}
         /\ \A d \in Conn \ {c} : pc'[d] = pc[d] /\ sid'[d] = sid[d] /\ ptr'[d] = ptr[d]
<1>1. 1 \in Obj /\ RUNNING \in Names
  BY MgrAssumption DEF Obj, Names
<1>2. CASE Return(c)
  BY <1>1, <1>2 DEF TypeOK, Return
<1>3. CASE Goto(c, "destroy")
  BY <1>3 DEF TypeOK, Goto
<1> QED
  BY <1>2, <1>3 DEF Leave

LEMMA TypeStep ==
  ASSUME TypeOK, NEW c \in Conn, Action(c)
  PROVE  TypeOK'
<1> USE DEF TypeOK, Obj
<1>0. PidOf[c] \in Pid /\ UidOf[c] \in Uid /\ 1 \in Obj /\ RUNNING \in Names
  BY MgrAssumption DEF Names
<1>1. CASE \E method, name, label :
       /\ Call(c, method, name, label)
       /\ method \in {"setup", "setupshared", "teardown", "lock", "unlock", "commit",
                      "validateconfig"}
       /\ name \in Names
       /\ label \in {"create", "destroy", "get"}
  BY <1>1 DEF Call, objects, locks
<1>2. CASE Disconnect(c)
  BY <1>2 DEF Disconnect, Goto, objects, locks
<1>3. CASE Accept(c) \/ Closed(c)
  BY <1>3 DEF Accept, Closed, Goto, objects, locks
<1>4. CASE Get(c)
  <2>1. CASE Leave(c)
    BY <1>4, <2>1, LeaveType DEF Get, objects, locks
  <2>2. CASE ~Leave(c)
    BY <1>0, <1>4, <2>2 DEF Get, lookup, objects, locks
  <2> QED BY <2>1, <2>2
<1>5. CASE DestroyDelete(c)
  BY <1>5, LeaveType DEF DestroyDelete, locks
<1>6. CASE ActTerminated(c)
  BY <1>6, LeaveType DEF ActTerminated, objects, locks
<1>7. CASE ActLock(c) \/ ActUnlock(c)
  <2>1. /\ lock(lpid[ptr[c]], PidOf[c]) \in Pid \cup {0, COMMIT, SYSTEM}
        /\ unlock(lpid[ptr[c]], PidOf[c]) \in Pid \cup {0, COMMIT, SYSTEM}
    BY <1>0 DEF lock, unlock
  <2>2. lpid' \in [Obj -> Pid \cup {0, COMMIT, SYSTEM}]
    BY <1>7, <2>1 DEF ActLock, ActUnlock
  <2>3. Return(c) /\ UNCHANGED <<objects, lent, todo>>
    BY <1>7 DEF ActLock, ActUnlock
  <2> QED BY <2>2, <2>3, LeaveType DEF objects
<1>8. CASE ActExclusive(c)
  <2>1. CASE lpid[ptr[c]] \in {0, PidOf[c]}
    <3>1. lpid[ptr[c]] \in Pid \cup {0} /\ ptr[c] \in Obj
      BY <1>0, <2>1
    <3>2. lpid' \in [Obj -> Pid \cup {0, COMMIT, SYSTEM}] /\ lent' \in [Obj -> Pid \cup {0}]
      BY <1>8, <2>1, <3>1 DEF ActExclusive
    <3> QED BY <1>8, <2>1, <3>2 DEF ActExclusive, Goto, objects
  <2>2. CASE lpid[ptr[c]] \notin {0, PidOf[c]}
    BY <1>8, <2>2, LeaveType DEF ActExclusive, objects
  <2> QED BY <2>1, <2>2
<1>9. CASE EndExclusive(c)
  BY <1>9, LeaveType DEF EndExclusive, objects
<1>10. CASE ActCopyConfig(c)
  <2>1. CASE Leave(c)
    BY <1>10, <2>1, LeaveType DEF ActCopyConfig, objects, locks
  <2>2. CASE ~Leave(c)
    BY <1>0, <1>10, <2>2 DEF ActCopyConfig, objects, locks
  <2> QED BY <2>1, <2>2
<1>11. CASE UnlockAllCheck(c)
  <2>1. PICK o \in todo[c] :
              /\ todo' = [todo EXCEPT ![c] = @ \ {o}]
              /\ IF lpid[o] = PidOf[c]
                 THEN /\ pc' = [pc EXCEPT ![c] = "unlockone"]
                      /\ ptr' = [ptr EXCEPT ![c] = o]
                 ELSE UNCHANGED <<pc, ptr>>
    BY <1>11 DEF UnlockAllCheck
  <2>2. o \in Obj /\ todo[c] \ {o} \in SUBSET Obj
    OBVIOUS
  <2>3. pc' \in [Conn -> {"closed", "ready", "get", "act", "busy", "create", "destroy",
                          "destroying", "unlockall", "unlockone"}]
        /\ ptr' \in [Conn -> Obj]
    BY <2>1, <2>2
  <2>4. todo' \in [Conn -> SUBSET Obj]
    BY <2>1, <2>2
  <2> QED BY <1>11, <2>3, <2>4 DEF UnlockAllCheck, objects, locks
<1>12. CASE UnlockAllUnlock(c)
  BY <1>0, <1>12 DEF UnlockAllUnlock, unlock, objects
<1>13. CASE Create(c)
  <2> DEFINE kind == IF op[c] = "setupshared" THEN "shared" ELSE UidOf[c]
  <2>1. kind \in Uid \cup {"shared"}
    BY <1>0
  <2>2. sessions' \in [Names -> Obj \cup {0}] /\ owner' \in [Obj -> Uid \cup {"shared"}]
        /\ life' \in [Obj -> {"up", "killed", "term"}] /\ UNCHANGED <<locks, todo>>
    <3>1. CASE UNCHANGED objects
      BY <1>13, <3>1 DEF Create, objects
    <3>2. CASE \E new \in Obj :
                 /\ sessions' = [sessions EXCEPT ![sid[c]] = new]
                 /\ owner' = [owner EXCEPT ![new] = kind]
                 /\ life' = [life EXCEPT ![new] = "up"]
      BY <1>13, <2>1, <3>2 DEF Create
    <3> QED BY <1>13, <3>1, <3>2 DEF Create
  <2>3. Goto(c, "get") \/ Return(c)
    BY <1>13 DEF Create
  <2>4. CASE Goto(c, "get")
    BY <2>2, <2>4 DEF Goto, locks
  <2>5. CASE Return(c)
    BY <2>2, <2>5, LeaveType DEF locks
  <2> QED BY <2>3, <2>4, <2>5
<1>14. CASE DestroyCheck(c)
  <2>1. CASE Return(c)
    BY <1>14, <2>1, LeaveType DEF DestroyCheck, objects, locks
  <2>2. CASE Goto(c, "destroying")
    BY <1>14, <2>2 DEF DestroyCheck, Goto, objects, locks
  <2> QED BY <1>14, <2>1, <2>2 DEF DestroyCheck
<1> QED
  BY <1>1, <1>2, <1>3, <1>4, <1>5, <1>6, <1>7, <1>8, <1>9, <1>10, <1>11, <1>12, <1>13,
     <1>14 DEF Action

LEMMA TypeTerminate ==
  ASSUME TypeOK, NEW o \in Obj, Terminate(o)
  PROVE  TypeOK'
  BY DEF TypeOK, Terminate, Obj

\* Every variable keeps its type in every step of the session manager.
THEOREM TypeCorrect == Spec => []TypeOK
<1>1. TypeOK /\ [Next]_vars => TypeOK'
  <2>1. ASSUME TypeOK, Next PROVE TypeOK'
    BY <2>1, NextIsAction, TypeStep, TypeTerminate
  <2>2. ASSUME TypeOK, UNCHANGED vars PROVE TypeOK'
    BY <2>2 DEF TypeOK, vars, objects, locks
  <2> QED BY <2>1, <2>2
<1> QED
  BY <1>1, TypeInit, PTL DEF Spec

-----------------------------------------------------------------------------
\* The mutex, the commit lock and RUNNING.

\* What a step of connection c leaves as it is for the others.
OthersStay(c) ==
  \A d \in Conn \ {c} : pc'[d] = pc[d] /\ sid'[d] = sid[d] /\ ptr'[d] = ptr[d]

LEMMA PidsAreNatural ==
  ASSUME NEW c \in Conn
  PROVE  PidOf[c] \in Pid /\ PidOf[c] \notin {0, COMMIT, SYSTEM}
  BY MgrAssumption DEF COMMIT, SYSTEM

LEMMA Distinct == COMMIT # SYSTEM /\ COMMIT # 0 /\ SYSTEM # 0
                  /\ COMMIT \notin Pid /\ SYSTEM \notin Pid /\ 0 \notin Pid
  BY MgrAssumption DEF COMMIT, SYSTEM

\* A step that neither makes nor ends a session, nor takes or gives back a
\* commit's lock.
LEMMA QuietStep ==
  ASSUME SafeInv, TypeOK', NEW c \in Conn, UNCHANGED <<sessions, life>>, OthersStay(c),
         pc'[c] \notin {"destroying", "busy"}, lpid'[1] = SYSTEM,
         \A o \in Obj : lpid[o] = COMMIT => lpid'[o] = COMMIT
  PROVE  SafeInv'
<1>1. NamesAreLive' /\ RunningStays'
  BY DEF SafeInv, NamesAreLive, RunningStays
<1>2. DestroyInv'
  BY DEF SafeInv, DestroyInv, OthersStay
<1>3. BusyInv'
  <2>1. \A d \in Conn : pc'[d] = "busy" => d # c /\ pc[d] = "busy" /\ ptr'[d] = ptr[d]
                                           /\ ptr[d] \in Obj
    BY DEF OthersStay, SafeInv, TypeOK
  <2> QED BY <2>1 DEF SafeInv, BusyInv
<1> QED BY <1>1, <1>2, <1>3 DEF SafeInv

LEMMA SafeInit == Init => SafeInv
<1> SUFFICES ASSUME Init PROVE SafeInv
  OBVIOUS
<1>1. TypeOK /\ RUNNING \in Names /\ 1 \in Obj
  BY TypeInit, MgrAssumption DEF Names, Obj
<1> QED
  BY <1>1 DEF Init, SafeInv, NamesAreLive, RunningStays, DestroyInv, BusyInv

LEMMA LockKeeps ==
  ASSUME NEW l, NEW c \in Conn
  PROVE  /\ l \in {COMMIT, SYSTEM} => lock(l, PidOf[c]) = l /\ unlock(l, PidOf[c]) = l
         /\ l = 0 => unlock(l, PidOf[c]) = 0
  BY PidsAreNatural, Distinct DEF lock, unlock

LEMMA SafeStep ==
  ASSUME SafeInv, NEW c \in Conn, Action(c)
  PROVE  SafeInv'
<1>0. TypeOK /\ TypeOK'
  BY TypeStep DEF SafeInv
<1>r. lpid[1] = SYSTEM /\ 1 \in Obj /\ sessions[RUNNING] = 1 /\ RUNNING \in Names
  BY MgrAssumption DEF SafeInv, RunningStays, Obj, Names
<1>l. ASSUME Leave(c) \/ Return(c), UNCHANGED <<objects, lpid>>
      PROVE  SafeInv'
  BY <1>0, <1>r, <1>l, LeaveType, QuietStep DEF OthersStay, objects
<1>1. CASE \E method, name, label :
       /\ Call(c, method, name, label)
       /\ method \in {"setup", "setupshared", "teardown", "lock", "unlock", "commit",
                      "validateconfig"}
       /\ name \in Names
       /\ label \in {"create", "destroy", "get"}
  <2>1. OthersStay(c) /\ pc'[c] \notin {"destroying", "busy"}
    BY <1>0, <1>1 DEF Call, OthersStay, TypeOK
  <2> QED BY <1>0, <1>1, <1>r, <2>1, QuietStep DEF Call, objects, locks
<1>2. CASE Disconnect(c) \/ Accept(c) \/ Closed(c)
  <2>1. OthersStay(c) /\ pc'[c] \notin {"destroying", "busy"}
    BY <1>0, <1>2 DEF Disconnect, Accept, Closed, Goto, OthersStay, TypeOK
  <2> QED BY <1>0, <1>2, <1>r, <2>1, QuietStep
          DEF Disconnect, Accept, Closed, objects, locks
<1>3. CASE Get(c)
  <2>1. CASE Leave(c)
    BY <1>3, <1>l, <2>1 DEF Get, locks
  <2>2. CASE ~Leave(c)
    <3>1. OthersStay(c) /\ pc'[c] \notin {"destroying", "busy"}
      BY <1>0, <1>3, <2>2 DEF Get, OthersStay, TypeOK
    <3> QED BY <1>0, <1>3, <1>r, <3>1, QuietStep DEF Get, objects, locks
  <2> QED BY <2>1, <2>2
<1>4. CASE ActTerminated(c)
  BY <1>4, <1>l DEF ActTerminated, locks
<1>5. CASE ActLock(c) \/ ActUnlock(c)
  <2>1. Return(c) /\ UNCHANGED objects
    BY <1>5 DEF ActLock, ActUnlock
  <2>2. \A o \in Obj : lpid[o] \in {COMMIT, SYSTEM} => lpid'[o] = lpid[o]
    <3>1. CASE ActLock(c)
      BY <1>0, <3>1, LockKeeps, ZenonT(60) DEF ActLock, TypeOK
    <3>2. CASE ActUnlock(c)
      BY <1>0, <3>2, LockKeeps DEF ActUnlock, TypeOK
    <3> QED BY <1>5, <3>1, <3>2
  <2> QED BY <1>0, <1>r, <2>1, <2>2, LeaveType, QuietStep DEF OthersStay, objects
<1>6. CASE ActExclusive(c)
  <2>1. CASE lpid[ptr[c]] \in {0, PidOf[c]}
    <3>1. /\ lpid[ptr[c]] \notin {COMMIT, SYSTEM}
          /\ ptr[c] \in Obj /\ ptr[c] # 1 /\ life[ptr[c]] # "term"
      BY <1>0, <1>6, <1>r, <2>1, PidsAreNatural, Distinct DEF ActExclusive, Act, TypeOK
    <3>2. /\ lpid' = [lpid EXCEPT ![ptr[c]] = COMMIT]
          /\ pc' = [pc EXCEPT ![c] = "busy"]
          /\ UNCHANGED <<sessions, life, sid, ptr>>
      BY <1>6, <2>1 DEF ActExclusive, Goto, objects
    <3>3. NamesAreLive' /\ RunningStays' /\ DestroyInv'
      BY <1>0, <3>1, <3>2 DEF SafeInv, NamesAreLive, RunningStays, DestroyInv, TypeOK
    <3>4. BusyInv'
      BY <1>0, <3>1, <3>2 DEF SafeInv, BusyInv, TypeOK
    <3> QED BY <1>0, <3>3, <3>4 DEF SafeInv
  <2>2. CASE lpid[ptr[c]] \notin {0, PidOf[c]}
    BY <1>6, <1>l, <2>2 DEF ActExclusive
  <2> QED BY <2>1, <2>2
<1>7. CASE EndExclusive(c)
  <2>1. /\ pc[c] = "busy" /\ Leave(c) /\ UNCHANGED <<sessions, life>>
        /\ lpid' = [lpid EXCEPT ![ptr[c]] = lent[ptr[c]]]
    BY <1>7 DEF EndExclusive, objects
  <2>2. ptr[c] # 1 /\ ptr[c] \in Obj
    BY <1>0, <1>r, <2>1, Distinct DEF SafeInv, BusyInv, TypeOK
  <2>3. /\ \A d \in Conn \ {c} : pc'[d] = pc[d] /\ sid'[d] = sid[d] /\ ptr'[d] = ptr[d]
        /\ pc'[c] \in {"ready", "destroy"}
    BY <1>0, <2>1, LeaveType
  <2>4. NamesAreLive' /\ RunningStays'
    BY <1>0, <1>r, <2>1, <2>2 DEF SafeInv, NamesAreLive, RunningStays, TypeOK
  <2>5. DestroyInv'
    BY <2>1, <2>3 DEF SafeInv, DestroyInv
  <2>6. BusyInv'
    <3>1. \A d \in Conn : pc'[d] = "busy" =>
             /\ pc[d] = "busy" /\ ptr'[d] = ptr[d] /\ ptr[d] # ptr[c] /\ ptr[d] \in Obj
             /\ lpid'[ptr[d]] = lpid[ptr[d]]
      BY <1>0, <2>1, <2>2, <2>3 DEF SafeInv, BusyInv, TypeOK
    <3> QED BY <2>1, <3>1 DEF SafeInv, BusyInv
  <2> QED BY <1>0, <2>4, <2>5, <2>6 DEF SafeInv
<1>8. CASE ActCopyConfig(c)
  <2>1. CASE Leave(c)
    BY <1>8, <1>l, <2>1 DEF ActCopyConfig, locks
  <2>2. CASE ~Leave(c)
    <3>1. OthersStay(c) /\ pc'[c] \notin {"destroying", "busy"}
      BY <1>0, <1>8, <2>2 DEF ActCopyConfig, OthersStay, TypeOK
    <3> QED BY <1>0, <1>8, <1>r, <3>1, QuietStep DEF ActCopyConfig, objects, locks
  <2> QED BY <2>1, <2>2
<1>9. CASE UnlockAllCheck(c)
  <2>1. OthersStay(c) /\ pc'[c] \notin {"destroying", "busy"}
    BY <1>0, <1>9 DEF UnlockAllCheck, OthersStay, TypeOK
  <2> QED BY <1>0, <1>9, <1>r, <2>1, QuietStep DEF UnlockAllCheck, objects, locks
<1>10. CASE UnlockAllUnlock(c)
  <2>1. OthersStay(c) /\ pc'[c] \notin {"destroying", "busy"}
    BY <1>0, <1>10 DEF UnlockAllUnlock, OthersStay, TypeOK
  <2>2. \A o \in Obj : lpid[o] \in {COMMIT, SYSTEM} => lpid'[o] = lpid[o]
    BY <1>0, <1>10, LockKeeps, ZenonT(60) DEF UnlockAllUnlock, TypeOK
  <2> QED BY <1>0, <1>10, <1>r, <2>1, <2>2, QuietStep DEF UnlockAllUnlock, objects
<1>11. CASE DestroyCheck(c)
  <2>1. CASE Return(c)
    BY <1>11, <1>l, <2>1 DEF DestroyCheck, locks
  <2>2. CASE ~Return(c)
    <3>1. /\ lookup(c, sid[c]) # 0 /\ lpid[lookup(c, sid[c])] \in {0, PidOf[c]}
          /\ pc' = [pc EXCEPT ![c] = "destroying"]
          /\ UNCHANGED <<sessions, life, lpid, sid, ptr>>
          /\ \A d \in Conn : pc[d] # "destroying"
      BY <1>11, <2>2 DEF DestroyCheck, Goto, Writing, objects, locks
    <3>2. sessions[sid[c]] # 0 /\ sid[c] # RUNNING
      BY <1>r, <3>1, PidsAreNatural, Distinct DEF lookup
    <3>3. NamesAreLive' /\ RunningStays'
      BY <3>1 DEF SafeInv, NamesAreLive, RunningStays
    <3>4. DestroyInv'
      BY <1>0, <3>1, <3>2 DEF DestroyInv, TypeOK
    <3>5. BusyInv'
      BY <1>0, <3>1 DEF SafeInv, BusyInv, TypeOK
    <3> QED BY <1>0, <3>3, <3>4, <3>5 DEF SafeInv
  <2> QED BY <2>1, <2>2
<1>12. CASE DestroyDelete(c)
  <2> DEFINE o == sessions[sid[c]]
  <2>1. /\ pc[c] = "destroying" /\ Return(c) /\ UNCHANGED lpid
        /\ life' = [life EXCEPT ![o] = "killed"]
        /\ sessions' = [sessions EXCEPT ![sid[c]] = 0]
    BY <1>12 DEF DestroyDelete, locks
  <2>2. /\ sid[c] \in Names /\ sid[c] # RUNNING /\ o # 0 /\ o \in Obj /\ o # 1
        /\ \A n \in Names : n # sid[c] => sessions[n] # o
    BY <1>0, <1>r, <2>1 DEF SafeInv, DestroyInv, NamesAreLive, TypeOK
  <2>3. /\ \A d \in Conn \ {c} : pc'[d] = pc[d] /\ sid'[d] = sid[d] /\ ptr'[d] = ptr[d]
        /\ pc'[c] \in {"ready", "destroy"}
    BY <1>0, <2>1, LeaveType
  <2>4. NamesAreLive' /\ RunningStays'
    BY <1>0, <1>r, <2>1, <2>2 DEF SafeInv, NamesAreLive, RunningStays, TypeOK
  <2>5. DestroyInv'
    BY <2>1, <2>3 DEF SafeInv, DestroyInv
  <2>6. BusyInv'
    <3>1. \A d \in Conn : pc'[d] = "busy" =>
             pc[d] = "busy" /\ ptr'[d] = ptr[d] /\ ptr[d] \in Obj
      BY <1>0, <2>3 DEF TypeOK
    <3>2. \A x \in Obj : life[x] # "term" => life'[x] # "term"
      BY <1>0, <2>1, <2>2 DEF TypeOK
    <3> QED BY <2>1, <3>1, <3>2 DEF SafeInv, BusyInv
  <2> QED BY <1>0, <2>4, <2>5, <2>6 DEF SafeInv
<1>13. CASE Create(c)
  <2>1. CASE UNCHANGED objects
    <3>1. Goto(c, "get") \/ Return(c)
      BY <1>13 DEF Create
    <3>2. CASE Goto(c, "get")
      <4>1. OthersStay(c) /\ pc'[c] \notin {"destroying", "busy"}
        BY <1>0, <3>2 DEF Goto, OthersStay, TypeOK
      <4> QED BY <1>0, <1>13, <1>r, <2>1, <4>1, QuietStep DEF Create, objects, locks
    <3>3. CASE Return(c)
      BY <1>13, <1>l, <2>1, <3>3 DEF Create, locks
    <3> QED BY <3>1, <3>2, <3>3
  <2>2. CASE ~UNCHANGED objects
    <3>1. PICK new \in Obj :
             /\ Free(new) /\ sessions[sid[c]] = 0
             /\ sessions' = [sessions EXCEPT ![sid[c]] = new]
             /\ life' = [life EXCEPT ![new] = "up"]
      BY <1>13, <2>2 DEF Create
    <3>2. /\ UNCHANGED lpid /\ (Goto(c, "get") \/ Return(c))
          /\ \A d \in Conn : pc[d] # "destroying"
      BY <1>13, <2>2 DEF Create, locks, Writing
    <3>3. OthersStay(c) /\ pc'[c] \notin {"destroying", "busy"}
      BY <1>0, <3>2, LeaveType DEF Goto, OthersStay, TypeOK
    <3>4. /\ sid[c] \in Names /\ sid[c] # RUNNING /\ new # 0
          /\ \A n \in Names : sessions[n] # new
      <4>1. new # 0
        BY DEF Obj
      <4>2. \A n \in Names : sessions[n] # new
        BY <3>1, <4>1 DEF Free, SafeInv, NamesAreLive
      <4> QED BY <1>0, <1>r, <3>1, <4>1, <4>2 DEF TypeOK
    <3>5. NamesAreLive' /\ RunningStays'
      BY <1>0, <1>r, <3>1, <3>2, <3>4 DEF SafeInv, NamesAreLive, RunningStays, TypeOK
    <3>6. DestroyInv'
      BY <3>2, <3>3 DEF DestroyInv, OthersStay
    <3>7. BusyInv'
      <4>1. \A d \in Conn : pc'[d] = "busy" =>
               pc[d] = "busy" /\ ptr'[d] = ptr[d] /\ ptr[d] \in Obj
        BY <1>0, <3>3 DEF TypeOK, OthersStay
      <4>2. \A x \in Obj : life[x] # "term" => life'[x] # "term"
        BY <1>0, <3>1 DEF TypeOK
      <4> QED BY <3>2, <4>1, <4>2 DEF SafeInv, BusyInv
    <3> QED BY <1>0, <3>5, <3>6, <3>7 DEF SafeInv
  <2> QED BY <2>1, <2>2
<1> QED
  BY <1>1, <1>2, <1>3, <1>4, <1>5, <1>6, <1>7, <1>8, <1>9, <1>10, <1>11, <1>12, <1>13
  DEF Action

LEMMA SafeTerminate ==
  ASSUME SafeInv, NEW o \in Obj, Terminate(o)
  PROVE  SafeInv'
<1>0. TypeOK /\ TypeOK' /\ 1 \in Obj /\ RUNNING \in Names
  BY TypeTerminate, MgrAssumption DEF SafeInv, Obj, Names
<1>1. /\ life[o] = "killed" /\ life' = [life EXCEPT ![o] = "term"]
      /\ lpid' = [lpid EXCEPT ![o] = 0]
      /\ UNCHANGED <<sessions, pc, sid, ptr>>
      /\ \A c \in Conn : ~(pc[c] = "busy" /\ ptr[c] = o)
  BY DEF Terminate
<1>2. o # 1 /\ \A n \in Names : sessions[n] # o
  <2>1. o # 0
    BY DEF Obj
  <2>2. \A n \in Names : sessions[n] # o
    BY <1>1, <2>1 DEF SafeInv, NamesAreLive
  <2> QED BY <1>0, <2>2 DEF SafeInv, RunningStays
<1>3. NamesAreLive' /\ RunningStays'
  BY <1>0, <1>1, <1>2 DEF SafeInv, NamesAreLive, RunningStays, TypeOK
<1>4. DestroyInv' /\ BusyInv'
  BY <1>0, <1>1 DEF SafeInv, DestroyInv, BusyInv, TypeOK
<1> QED BY <1>0, <1>3, <1>4 DEF SafeInv

LEMMA SafeNext == SafeInv /\ [Next]_vars => SafeInv'
<1>1. ASSUME SafeInv, Next PROVE SafeInv'
  BY <1>1, NextIsAction, SafeStep, SafeTerminate
<1>2. ASSUME SafeInv, UNCHANGED vars PROVE SafeInv'
  BY <1>2 DEF SafeInv, TypeOK, NamesAreLive, RunningStays, DestroyInv, BusyInv, vars,
              objects, locks
<1> QED BY <1>1, <1>2

\* However connections set up, tear down and look up sessions, a name denotes
\* a session that still serves requests, and no two names denote one session.
THEOREM NamesAlwaysLive == Spec => []NamesAreLive
<1>1. SafeInv => NamesAreLive
  BY DEF SafeInv
<1> QED
  BY <1>1, SafeInit, SafeNext, PTL DEF Spec

\* No sequence of requests removes the running session or its SYSTEM lock.
THEOREM RunningAlwaysStays == Spec => []RunningStays
<1>1. SafeInv => RunningStays
  BY DEF SafeInv
<1> QED
  BY <1>1, SafeInit, SafeNext, PTL DEF Spec

-----------------------------------------------------------------------------
\* Locks are given back.

\* What a commit has borrowed belongs to the process that runs the commit.
LentInv ==
  \A o \in Obj : lent[o] # 0 =>
    \E c \in Conn : pc[c] = "busy" /\ ptr[c] = o /\ PidOf[c] = lent[o]

\* A session that has ended is not locked.
FreeInv == \A o \in Obj : life[o] = "term" => lpid[o] = 0

\* Connection c is open, and has yet to pass o if it is closing.
Releases(c, o) ==
  /\ pc[c] # "closed"
  /\ pc[c] = "unlockall" => o \in todo[c]
  /\ pc[c] = "unlockone" => o \in todo[c] \/ ptr[c] = o

\* Some connection of the process that locked a session will come by.
HolderInv ==
  \A n \in Names : sessions[n] # 0 /\ lpid[sessions[n]] \in Pid =>
    \E c \in Conn : PidOf[c] = lpid[sessions[n]] /\ Releases(c, sessions[n])

LeakInv == SafeInv /\ LentInv /\ FreeInv /\ HolderInv

LEMMA LeakInit == Init => LeakInv
<1> SUFFICES ASSUME Init PROVE LeakInv
  OBVIOUS
<1>1. SafeInv /\ SYSTEM \notin Pid /\ 0 \notin Pid /\ 1 \in Obj
  BY SafeInit, Distinct, MgrAssumption DEF Obj
<1>2. LentInv /\ FreeInv
  BY DEF Init, LentInv, FreeInv
<1>3. HolderInv
  BY <1>1 DEF Init, HolderInv
<1> QED BY <1>1, <1>2, <1>3 DEF LeakInv

\* A step that keeps sessions and locks, and does not take connection c to the
\* end of its closing.
LEMMA LeakQuiet ==
  ASSUME LeakInv, SafeInv', NEW c \in Conn, OthersStay(c), UNCHANGED <<sessions, life, locks>>,
         pc[c] # "busy", pc'[c] \notin {"closed", "unlockall", "unlockone"}, UNCHANGED todo
  PROVE  LeakInv'
<1>1. LentInv'
  BY DEF LeakInv, LentInv, OthersStay, locks
<1>2. FreeInv'
  BY DEF LeakInv, FreeInv, locks
<1>3. HolderInv'
  <2>1. \A d \in Conn, o \in Obj : Releases(d, o) => Releases(d, o)'
    BY DEF Releases, OthersStay
  <2>2. \A n \in Names : sessions[n] # 0 => sessions[n] \in Obj
    BY DEF LeakInv, SafeInv, TypeOK
  <2> QED BY <2>1, <2>2 DEF LeakInv, HolderInv, locks
<1> QED BY <1>1, <1>2, <1>3 DEF LeakInv

LEMMA LeakStep ==
  ASSUME LeakInv, NEW c \in Conn, Action(c)
  PROVE  LeakInv'
<1>0. SafeInv /\ SafeInv' /\ TypeOK /\ TypeOK'
  BY SafeStep DEF LeakInv, SafeInv
<1>n. \A n \in Names : sessions[n] # 0 => sessions[n] \in Obj
  BY <1>0 DEF TypeOK
<1>p. PidOf[c] \in Pid /\ PidOf[c] \notin {0, COMMIT, SYSTEM}
  BY PidsAreNatural
<1>l. ASSUME Leave(c) \/ Return(c), pc[c] # "busy", UNCHANGED <<sessions, life, locks, todo>>
      PROVE  LeakInv'
  BY <1>0, <1>l, LeaveType, LeakQuiet DEF OthersStay
<1>1. CASE \E method, name, label :
       /\ Call(c, method, name, label)
       /\ method \in {"setup", "setupshared", "teardown", "lock", "unlock", "commit",
                      "validateconfig"}
       /\ name \in Names
       /\ label \in {"create", "destroy", "get"}
  <2>1. /\ OthersStay(c) /\ pc'[c] \notin {"closed", "unlockall", "unlockone"}
        /\ pc[c] # "busy" /\ UNCHANGED <<sessions, life, locks, todo>>
    BY <1>0, <1>1 DEF Call, OthersStay, TypeOK, objects
  <2> QED BY <1>0, <2>1, LeakQuiet
<1>2. CASE Accept(c)
  <2>1. /\ OthersStay(c) /\ pc'[c] \notin {"closed", "unlockall", "unlockone"}
        /\ pc[c] # "busy" /\ UNCHANGED <<sessions, life, locks, todo>>
    BY <1>0, <1>2 DEF Accept, Goto, OthersStay, TypeOK, objects
  <2> QED BY <1>0, <2>1, LeakQuiet
<1>3. CASE Disconnect(c)
  <2>1. /\ pc[c] = "ready" /\ pc' = [pc EXCEPT ![c] = "unlockall"]
        /\ todo' = [todo EXCEPT ![c] = {sessions[n] : n \in Names} \ {0}]
        /\ UNCHANGED <<sessions, life, lpid, lent, ptr>>
    BY <1>3 DEF Disconnect, Goto, objects, locks
  <2>2. LentInv' /\ FreeInv'
    BY <1>0, <2>1 DEF LeakInv, LentInv, FreeInv, TypeOK
  <2>3. \A n \in Names, d \in Conn : sessions[n] # 0 /\ Releases(d, sessions[n])
                                     => Releases(d, sessions[n])'
    BY <1>0, <2>1 DEF Releases, TypeOK
  <2>4. HolderInv'
    BY <2>1, <2>3 DEF LeakInv, HolderInv
  <2> QED BY <1>0, <2>2, <2>4 DEF LeakInv
<1>4. CASE Closed(c)
  <2>1. /\ pc[c] = "unlockall" /\ todo[c] = {} /\ pc' = [pc EXCEPT ![c] = "closed"]
        /\ UNCHANGED <<sessions, life, lpid, lent, ptr, todo>>
    BY <1>4 DEF Closed, Goto, objects, locks
  <2>2. LentInv' /\ FreeInv'
    BY <1>0, <2>1 DEF LeakInv, LentInv, FreeInv, TypeOK
  <2>3. \A o \in Obj, d \in Conn : Releases(d, o) => Releases(d, o)'
    BY <1>0, <2>1 DEF Releases, TypeOK
  <2>4. HolderInv'
    BY <1>n, <2>1, <2>3 DEF LeakInv, HolderInv
  <2> QED BY <1>0, <2>2, <2>4 DEF LeakInv
<1>5. CASE Get(c)
  <2>1. CASE Leave(c)
    BY <1>5, <1>l, <2>1 DEF Get, objects
  <2>2. CASE ~Leave(c)
    <3>1. /\ OthersStay(c) /\ pc'[c] \notin {"closed", "unlockall", "unlockone"}
          /\ pc[c] # "busy" /\ UNCHANGED <<sessions, life, locks, todo>>
      BY <1>0, <1>5, <2>2 DEF Get, OthersStay, TypeOK, objects
    <3> QED BY <1>0, <3>1, LeakQuiet
  <2> QED BY <2>1, <2>2
<1>6. CASE ActTerminated(c)
  BY <1>6, <1>l DEF ActTerminated, objects
<1>7. CASE ActCopyConfig(c)
  <2>1. CASE Leave(c)
    BY <1>7, <1>l, <2>1 DEF ActCopyConfig, Act, objects
  <2>2. CASE ~Leave(c)
    <3>1. /\ OthersStay(c) /\ pc'[c] \notin {"closed", "unlockall", "unlockone"}
          /\ pc[c] # "busy" /\ UNCHANGED <<sessions, life, locks, todo>>
      BY <1>0, <1>7, <2>2 DEF ActCopyConfig, Act, OthersStay, TypeOK, objects
    <3> QED BY <1>0, <3>1, LeakQuiet
  <2> QED BY <2>1, <2>2
<1>8. CASE DestroyCheck(c)
  <2>1. CASE Return(c)
    BY <1>8, <1>l, <2>1 DEF DestroyCheck, objects
  <2>2. CASE ~Return(c)
    <3>1. /\ OthersStay(c) /\ pc'[c] \notin {"closed", "unlockall", "unlockone"}
          /\ pc[c] # "busy" /\ UNCHANGED <<sessions, life, locks, todo>>
      BY <1>0, <1>8, <2>2 DEF DestroyCheck, Goto, OthersStay, TypeOK, objects
    <3> QED BY <1>0, <3>1, LeakQuiet
  <2> QED BY <2>1, <2>2
<1>9. CASE ActLock(c) \/ ActUnlock(c)
  <2>1. /\ Return(c) /\ UNCHANGED <<sessions, life, lent, todo>> /\ pc[c] = "act"
        /\ ptr[c] \in Obj /\ life[ptr[c]] # "term"
        /\ \/ lpid' = [lpid EXCEPT ![ptr[c]] = lock(lpid[ptr[c]], PidOf[c])]
           \/ lpid' = [lpid EXCEPT ![ptr[c]] = unlock(lpid[ptr[c]], PidOf[c])]
    BY <1>0, <1>9 DEF ActLock, ActUnlock, Act, objects, TypeOK
  <2>2. /\ \A d \in Conn \ {c} : pc'[d] = pc[d] /\ sid'[d] = sid[d] /\ ptr'[d] = ptr[d]
        /\ pc'[c] \in {"ready", "destroy"}
    BY <1>0, <2>1, LeaveType
  <2>3. LentInv' /\ FreeInv'
    BY <1>0, <2>1, <2>2 DEF LeakInv, LentInv, FreeInv, TypeOK
  <2>4. \A o \in Obj : lpid'[o] = lpid[o] \/ lpid'[o] = 0 \/ lpid'[o] = PidOf[c]
    BY <1>0, <2>1 DEF lock, unlock, TypeOK
  <2>5. \A o \in Obj : Releases(c, o)'
    BY <2>2 DEF Releases
  <2>6. \A o \in Obj, d \in Conn : Releases(d, o) => Releases(d, o)'
    BY <2>1, <2>2 DEF Releases
  <2>7. HolderInv'
    BY <1>n, <2>1, <2>4, <2>5, <2>6, Distinct DEF LeakInv, HolderInv
  <2> QED BY <1>0, <2>3, <2>7 DEF LeakInv
<1>10. CASE ActExclusive(c)
  <2>1. CASE lpid[ptr[c]] \in {0, PidOf[c]}
    <3> DEFINE o == ptr[c]
    <3>1. /\ pc[c] = "act" /\ pc' = [pc EXCEPT ![c] = "busy"]
          /\ UNCHANGED <<sessions, life, sid, ptr, todo>>
          /\ lent' = [lent EXCEPT ![o] = lpid[o]]
          /\ lpid' = [lpid EXCEPT ![o] = COMMIT]
          /\ o \in Obj /\ life[o] # "term"
      BY <1>0, <1>10, <2>1 DEF ActExclusive, Act, Goto, objects, TypeOK
    <3>2. FreeInv'
      BY <1>0, <3>1 DEF LeakInv, FreeInv, TypeOK
    <3>3. LentInv'
      BY <1>0, <2>1, <3>1 DEF LeakInv, LentInv, TypeOK
    <3>4. \A x \in Obj, d \in Conn : Releases(d, x) => Releases(d, x)'
      BY <1>0, <3>1 DEF Releases, TypeOK
    <3>5. HolderInv'
      <4>1. \A x \in Obj : lpid'[x] \in Pid => lpid'[x] = lpid[x]
        BY <1>0, <3>1, Distinct DEF TypeOK
      <4> QED BY <1>n, <3>1, <3>4, <4>1 DEF LeakInv, HolderInv
    <3> QED BY <1>0, <3>2, <3>3, <3>5 DEF LeakInv
  <2>2. CASE lpid[ptr[c]] \notin {0, PidOf[c]}
    BY <1>10, <1>l, <2>2 DEF ActExclusive, Act, objects, locks
  <2> QED BY <2>1, <2>2
<1>11. CASE EndExclusive(c)
  <2> DEFINE o == ptr[c]
  <2>1. /\ pc[c] = "busy" /\ Leave(c) /\ UNCHANGED <<sessions, life, todo>>
        /\ lpid' = [lpid EXCEPT ![o] = lent[o]]
        /\ lent' = [lent EXCEPT ![o] = 0]
        /\ o \in Obj /\ life[o] # "term"
    BY <1>0, <1>11 DEF EndExclusive, objects, TypeOK, SafeInv, BusyInv
  <2>2. /\ \A d \in Conn \ {c} : pc'[d] = pc[d] /\ sid'[d] = sid[d] /\ ptr'[d] = ptr[d]
        /\ pc'[c] \in {"ready", "destroy"}
    BY <1>0, <2>1, LeaveType
  <2>3. FreeInv'
    BY <1>0, <2>1 DEF LeakInv, FreeInv, TypeOK
  <2>4. LentInv'
    BY <1>0, <2>1, <2>2 DEF LeakInv, LentInv, TypeOK
  <2>5. lent[o] = 0 \/ lent[o] = PidOf[c]
    BY <1>0, <2>1 DEF LeakInv, LentInv, SafeInv, BusyInv
  <2>6. \A x \in Obj : lpid'[x] = lpid[x] \/ lpid'[x] = 0 \/ lpid'[x] = PidOf[c]
    BY <1>0, <2>1, <2>5 DEF TypeOK
  <2>7. \A x \in Obj : Releases(c, x)'
    BY <2>2 DEF Releases
  <2>8. \A x \in Obj, d \in Conn : Releases(d, x) => Releases(d, x)'
    BY <2>1, <2>2 DEF Releases
  <2>9. HolderInv'
    BY <1>n, <2>1, <2>6, <2>7, <2>8, Distinct DEF LeakInv, HolderInv
  <2> QED BY <1>0, <2>3, <2>4, <2>9 DEF LeakInv
<1>12. CASE UnlockAllCheck(c)
  <2>1. PICK o \in todo[c] :
              /\ todo' = [todo EXCEPT ![c] = @ \ {o}]
              /\ IF lpid[o] = PidOf[c]
                 THEN /\ pc' = [pc EXCEPT ![c] = "unlockone"]
                      /\ ptr' = [ptr EXCEPT ![c] = o]
                 ELSE UNCHANGED <<pc, ptr>>
    BY <1>12 DEF UnlockAllCheck
  <2>2. pc[c] = "unlockall" /\ UNCHANGED <<sessions, life, lpid, lent>>
    BY <1>12 DEF UnlockAllCheck, objects, locks
  <2>3. LentInv' /\ FreeInv'
    BY <1>0, <2>1, <2>2 DEF LeakInv, LentInv, FreeInv, TypeOK
  <2>4. ASSUME NEW x \in Obj, NEW d \in Conn, Releases(d, x), PidOf[d] = lpid[x]
        PROVE  Releases(d, x)'
    BY <1>0, <2>1, <2>2, <2>4 DEF Releases, TypeOK
  <2>5. HolderInv'
    BY <1>n, <2>2, <2>4 DEF LeakInv, HolderInv
  <2> QED BY <1>0, <2>3, <2>5 DEF LeakInv
<1>13. CASE UnlockAllUnlock(c)
  <2> DEFINE o == ptr[c]
  <2>1. /\ pc[c] = "unlockone" /\ pc' = [pc EXCEPT ![c] = "unlockall"]
        /\ lpid' = [lpid EXCEPT ![o] = unlock(lpid[o], PidOf[c])]
        /\ ptr' = [ptr EXCEPT ![c] = 1]
        /\ UNCHANGED <<sessions, life, lent, todo>> /\ o \in Obj
    BY <1>0, <1>13 DEF UnlockAllUnlock, objects, TypeOK
  <2>2. LentInv'
    BY <1>0, <2>1 DEF LeakInv, LentInv, TypeOK
  <2>3. /\ \A x \in Obj : lpid'[x] = lpid[x] \/ lpid'[x] = 0
        /\ lpid[o] = PidOf[c] => lpid'[o] = 0
    BY <1>0, <2>1 DEF unlock, TypeOK
  <2>4. FreeInv'
    BY <2>1, <2>3 DEF LeakInv, FreeInv
  <2>5. ASSUME NEW x \in Obj, NEW d \in Conn, Releases(d, x), PidOf[d] = lpid'[x],
               lpid'[x] \in Pid
        PROVE  Releases(d, x)'
    <3>1. CASE d = c
      <4>1. x # o
        BY <2>3, <2>5, <3>1, <1>p
      <4> QED BY <1>0, <2>1, <2>5, <3>1, <4>1 DEF Releases, TypeOK
    <3>2. CASE d # c
      BY <1>0, <2>1, <2>5, <3>2 DEF Releases, TypeOK
    <3> QED BY <3>1, <3>2
  <2>6. HolderInv'
    <3> SUFFICES ASSUME NEW n \in Names, sessions[n] # 0, lpid'[sessions[n]] \in Pid
                 PROVE  \E d \in Conn : PidOf[d] = lpid'[sessions[n]] /\ Releases(d, sessions[n])'
      BY <2>1 DEF HolderInv
    <3>1. sessions[n] \in Obj /\ lpid'[sessions[n]] = lpid[sessions[n]]
      BY <1>n, <2>3, Distinct
    <3>2. PICK d \in Conn : PidOf[d] = lpid[sessions[n]] /\ Releases(d, sessions[n])
      BY <3>1 DEF LeakInv, HolderInv
    <3> QED BY <2>1, <2>5, <3>1, <3>2
  <2> QED BY <1>0, <2>2, <2>4, <2>6 DEF LeakInv
<1>14. CASE DestroyDelete(c)
  <2>1. /\ pc[c] = "destroying" /\ Return(c) /\ UNCHANGED <<lpid, lent, todo>>
        /\ life' = [life EXCEPT ![sessions[sid[c]]] = "killed"]
        /\ sessions' = [sessions EXCEPT ![sid[c]] = 0]
    BY <1>14 DEF DestroyDelete, locks
  <2>2. /\ \A d \in Conn \ {c} : pc'[d] = pc[d] /\ sid'[d] = sid[d] /\ ptr'[d] = ptr[d]
        /\ pc'[c] \in {"ready", "destroy"}
    BY <1>0, <2>1, LeaveType
  <2>3. LentInv'
    BY <2>1, <2>2 DEF LeakInv, LentInv
  <2>4. FreeInv'
    BY <1>0, <2>1 DEF LeakInv, FreeInv, TypeOK
  <2>5. \A o \in Obj, d \in Conn : Releases(d, o) => Releases(d, o)'
    BY <2>1, <2>2 DEF Releases
  <2>6. \A n \in Names : sessions'[n] # 0 => sessions'[n] = sessions[n]
    BY <1>0, <2>1 DEF TypeOK
  <2>7. HolderInv'
    BY <1>n, <2>1, <2>5, <2>6 DEF LeakInv, HolderInv
  <2> QED BY <1>0, <2>3, <2>4, <2>7 DEF LeakInv
<1>15. CASE Create(c)
  <2>1. /\ pc[c] = "create" /\ (Goto(c, "get") \/ Return(c)) /\ UNCHANGED <<locks, todo>>
    BY <1>15 DEF Create
  <2>2. OthersStay(c) /\ pc'[c] \in {"get", "ready", "destroy"}
    BY <1>0, <2>1, LeaveType DEF Goto, OthersStay, TypeOK
  <2>3. CASE UNCHANGED objects
    BY <1>0, <2>1, <2>2, <2>3, LeakQuiet DEF objects
  <2>4. CASE ~UNCHANGED objects
    <3>1. PICK new \in Obj :
             /\ Free(new)
             /\ sessions' = [sessions EXCEPT ![sid[c]] = new]
             /\ life' = [life EXCEPT ![new] = "up"]
      BY <1>15, <2>4 DEF Create
    <3>2. lpid[new] = 0
      BY <3>1 DEF Free, LeakInv, FreeInv
    <3>3. LentInv'
      BY <2>1, <2>2 DEF LeakInv, LentInv, OthersStay, locks
    <3>4. FreeInv'
      BY <1>0, <2>1, <3>1 DEF LeakInv, FreeInv, TypeOK, locks
    <3>5. \A o \in Obj, d \in Conn : Releases(d, o) => Releases(d, o)'
      BY <2>1, <2>2 DEF Releases, OthersStay
    <3>6. \A n \in Names : sessions'[n] = new \/ sessions'[n] = sessions[n]
      BY <1>0, <3>1 DEF TypeOK
    <3>7. HolderInv'
      BY <1>n, <2>1, <3>2, <3>5, <3>6, Distinct DEF LeakInv, HolderInv, locks
    <3> QED BY <1>0, <3>3, <3>4, <3>7 DEF LeakInv
  <2> QED BY <2>3, <2>4
<1> QED
  BY <1>1, <1>2, <1>3, <1>4, <1>5, <1>6, <1>7, <1>8, <1>9, <1>10, <1>11, <1>12, <1>13,
     <1>14, <1>15 DEF Action

LEMMA LeakTerminate ==
  ASSUME LeakInv, NEW o \in Obj, Terminate(o)
  PROVE  LeakInv'
<1>0. SafeInv /\ SafeInv' /\ TypeOK
  BY SafeTerminate DEF LeakInv, SafeInv
<1>1. /\ life' = [life EXCEPT ![o] = "term"] /\ lpid' = [lpid EXCEPT ![o] = 0]
      /\ UNCHANGED <<sessions, lent, pc, ptr, todo>>
  BY DEF Terminate
<1>2. LentInv' /\ FreeInv'
  BY <1>0, <1>1 DEF LeakInv, LentInv, FreeInv, TypeOK
<1>3. \A x \in Obj : lpid'[x] = lpid[x] \/ lpid'[x] = 0
  BY <1>0, <1>1 DEF TypeOK
<1>4. \A x \in Obj, d \in Conn : Releases(d, x) => Releases(d, x)'
  BY <1>1 DEF Releases
<1>5. \A n \in Names : sessions[n] # 0 => sessions[n] \in Obj
  BY <1>0 DEF TypeOK
<1>6. HolderInv'
  BY <1>1, <1>3, <1>4, <1>5, Distinct DEF LeakInv, HolderInv
<1> QED BY <1>0, <1>2, <1>6 DEF LeakInv

LEMMA LeakNext == LeakInv /\ [Next]_vars => LeakInv'
<1>1. ASSUME LeakInv, Next PROVE LeakInv'
  BY <1>1, NextIsAction, LeakStep, LeakTerminate
<1>2. ASSUME LeakInv, UNCHANGED vars PROVE LeakInv'
  <2>1. SafeInv'
    BY <1>2, SafeNext DEF LeakInv
  <2> QED BY <1>2, <2>1 DEF LeakInv, LentInv, FreeInv, HolderInv, Releases, vars, objects, locks
<1> QED BY <1>1, <1>2

\* When the last connection of a process has closed, no session that has a name
\* is locked by it or will be: UnlockAllPid misses none, commits that borrowed
\* the lock and other connections of the process included.
THEOREM LocksNeverLeak == Spec => []NoLeakedLock
<1>1. LeakInv => NoLeakedLock
  <2> SUFFICES ASSUME LeakInv, NEW p \in Pid,
                      \A c \in Conn : PidOf[c] = p => pc[c] = "closed",
                      NEW n \in Names, sessions[n] # 0
               PROVE  p \notin {lpid[sessions[n]], lent[sessions[n]]}
    BY DEF NoLeakedLock
  <2>1. sessions[n] \in Obj /\ p # 0
    BY Distinct DEF LeakInv, SafeInv, TypeOK
  <2>2. lpid[sessions[n]] # p
    BY DEF LeakInv, HolderInv, Releases
  <2>3. lent[sessions[n]] # p
    BY <2>1 DEF LeakInv, LentInv
  <2> QED BY <2>2, <2>3
<1> QED
  BY <1>1, LeakInit, LeakNext, PTL DEF Spec

=============================================================================
