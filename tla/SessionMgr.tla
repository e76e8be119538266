------------------------------ MODULE SessionMgr ------------------------------
(***************************************************************************)
(* The session manager (session/sessionmgr.go), the connections that use   *)
(* it (server/conn.go) and the dispatcher methods that set up, look up,    *)
(* lock and tear down sessions (server/dispatcher.go).                     *)
(*                                                                         *)
(* A session object is reduced to its lock and its goroutine's life;       *)
(* Session models it in full.  Names ("sid") map to objects; a connection  *)
(* that looked a name up keeps the object, whatever happens to the name    *)
(* afterwards.                                                             *)
(*                                                                         *)
(* The RWMutex is not a variable: pc tells who holds it.  Sections that do *)
(* not wait for a session while they hold it are one step.                 *)
(***************************************************************************)
EXTENDS Integers, FiniteSets

CONSTANTS Conn, Pid, PidOf, Uid, UidOf, \* connections, peer pid, login uid
          Super,      \* connections of configd itself or of a superuser
          Sid,        \* names clients use for sessions
          ValidateSid,\* pid -> "VALIDATE<pid>", the name validateConfigInternal uses
          MaxObj      \* bound on session objects in use at once

RUNNING == "RUNNING"
ASSUME MgrAssumption == /\ Pid \subseteq Nat \ {0}
                        /\ PidOf \in [Conn -> Pid]
                        /\ UidOf \in [Conn -> Uid]
                        /\ Super \subseteq Conn
                        /\ MaxObj \in Nat \ {0}
                        /\ "shared" \notin Uid
                        /\ \A p, q \in Pid :
                             /\ ValidateSid[p] \notin Sid \cup {RUNNING}
                             /\ ValidateSid[p] = ValidateSid[q] => p = q

\* configd.LockId
COMMIT == -1
SYSTEM == -2

Obj == 1..MaxObj
Names == Sid \cup {ValidateSid[p] : p \in Pid} \cup {RUNNING}

VARIABLES sessions,    \* SessionMgr.sessions: name -> object, 0 if none
          owner,       \* object -> uid, or "shared"
          lpid,        \* object -> pid that locked it, 0 if none
          lent,        \* object -> pid whose lock a commit has borrowed
          life,        \* object -> "up", "killed", "term" (ended, or not yet made)
          pc, op, sid, \* connection -> step, dispatcher method, its argument
          ptr,         \* connection -> object it looked up
          todo         \* connection -> objects UnlockAllPid still visits

objects == <<sessions, owner, life>>
locks == <<lpid, lent>>
vars == <<objects, locks, pc, op, sid, ptr, todo>>

Goto(c, label) == pc' = [pc EXCEPT ![c] = label] /\ UNCHANGED <<op, sid, ptr>>

\* The method returns and its locals are gone.
Return(c) == /\ pc' = [pc EXCEPT ![c] = "ready"]
             /\ op' = [op EXCEPT ![c] = "none"]
             /\ sid' = [sid EXCEPT ![c] = RUNNING]
             /\ ptr' = [ptr EXCEPT ![c] = 1]

\* ... except that validateConfigInternal has deferred SessionTeardown.
Leave(c) == IF op[c] \in {"validateconfig", "validate"} THEN Goto(c, "destroy")
                                                      ELSE Return(c)

lock(l, pid) == IF l = 0 THEN pid ELSE l
unlock(l, pid) == IF l = pid THEN 0 ELSE l

\* Who holds mu: for writing, Destroy between its two steps; for reading,
\* UnlockAllPid.
Writing == \E c \in Conn : pc[c] = "destroying"
Reading == \E c \in Conn : pc[c] \in {"unlockall", "unlockone"}

\* lookup: the object a name denotes, if this connection may use it, else 0.
Allowed(c, o) == owner[o] \in {"shared", UidOf[c]} \/ c \in Super
lookup(c, name) == LET o == sessions[name]
                   IN  IF o # 0 /\ Allowed(c, o) THEN o ELSE 0

-----------------------------------------------------------------------------
\* Requests a client may send on an open connection.

Call(c, method, name, label) ==
  /\ pc[c] = "ready"
  /\ pc' = [pc EXCEPT ![c] = label]
  /\ op' = [op EXCEPT ![c] = method]
  /\ sid' = [sid EXCEPT ![c] = name]
  /\ UNCHANGED <<objects, locks, ptr, todo>>

SessionSetup(c, name) == Call(c, "setup", name, "create")
SessionSetupShared(c, name) == Call(c, "setupshared", name, "create")
SessionTeardown(c, name) == Call(c, "teardown", name, "destroy")
SessionLock(c, name) == Call(c, "lock", name, "get")
SessionUnlock(c, name) == Call(c, "unlock", name, "get")
Commit(c, name) == Call(c, "commit", name, "get")
ValidateConfig(c) == Call(c, "validateconfig", ValidateSid[PidOf[c]], "create")

-----------------------------------------------------------------------------
\* SessionMgr.Get: the object is used after RUnlock.  getROSession falls back
\* to RUNNING when the name is unknown.
Get(c) ==
  /\ pc[c] = "get" /\ ~Writing
  /\ LET found == lookup(c, sid[c])
         o == IF found = 0 /\ op[c] = "validateconfig" THEN sessions[RUNNING] ELSE found
     IN  \/ /\ o # 0
            /\ pc' = [pc EXCEPT ![c] = "act"]
            /\ ptr' = [ptr EXCEPT ![c] = o]
            /\ UNCHANGED <<op, sid>>
         \/ o = 0 /\ Leave(c)
  /\ UNCHANGED <<objects, locks, todo>>

\* An object that nobody refers to.
Free(o) == life[o] = "term" /\ \A c \in Conn : ptr[c] # o

\* SessionMgr.Create: an existing session is returned to its own kind of user
\* unless another pid has locked it; a new one starts its goroutine.
Create(c) ==
  /\ pc[c] = "create" /\ ~Writing /\ ~Reading
  /\ LET name == sid[c]
         o == sessions[name]
         kind == IF op[c] = "setupshared" THEN "shared" ELSE UidOf[c]
         usable == /\ lookup(c, name) # 0
                   /\ (owner[o] = "shared") = (kind = "shared")
                   /\ lpid[o] \in {0, PidOf[c]}
         succeed == IF op[c] = "validateconfig" THEN Goto(c, "get") ELSE Return(c)
     IN  \/ /\ o # 0 /\ usable
            /\ succeed
            /\ UNCHANGED <<objects, locks>>
         \/ /\ o # 0 /\ ~usable
            /\ Return(c)
            /\ UNCHANGED <<objects, locks>>
         \/ /\ o = 0
            /\ \E new \in Obj :
                 /\ Free(new) /\ \A other \in Obj : Free(other) => new <= other
                 /\ sessions' = [sessions EXCEPT ![name] = new]
                 /\ owner' = [owner EXCEPT ![new] = kind]
                 /\ life' = [life EXCEPT ![new] = "up"]
            /\ succeed
            /\ UNCHANGED locks
  /\ UNCHANGED todo

\* Mutant: destroy does not ask for the lock.
DestroyUnasked(c) ==
  /\ pc[c] = "destroy" /\ ~Writing /\ ~Reading
  /\ IF lookup(c, sid[c]) # 0 THEN Goto(c, "destroying") ELSE Return(c)
  /\ UNCHANGED <<objects, locks, todo>>

\* SessionMgr.Destroy asks the session for its lock ...
DestroyCheck(c) ==
  /\ pc[c] = "destroy" /\ ~Writing /\ ~Reading
  /\ LET o == lookup(c, sid[c])
     IN  IF o # 0 /\ lpid[o] \in {0, PidOf[c]} THEN Goto(c, "destroying") ELSE Return(c)
  /\ UNCHANGED <<objects, locks, todo>>

\* Mutant: the session is killed and its name stays.
DestroyKeepsName(c) ==
  /\ pc[c] = "destroying"
  /\ Return(c)
  /\ life' = [life EXCEPT ![sessions[sid[c]]] = "killed"]
  /\ UNCHANGED <<sessions, owner, locks, todo>>

\* ... then forgets the name and starts "go sess.Kill()".
DestroyDelete(c) ==
  /\ pc[c] = "destroying"
  /\ Return(c)
  /\ life' = [life EXCEPT ![sessions[sid[c]]] = "killed"]
  /\ sessions' = [sessions EXCEPT ![sid[c]] = 0]
  /\ UNCHANGED <<owner, locks, todo>>

\* The goroutine receives kill once no request is being served; what the
\* object held is lost.
Terminate(o) ==
  /\ life[o] = "killed"
  /\ \A c \in Conn : ~(pc[c] = "busy" /\ ptr[c] = o)
  /\ life' = [life EXCEPT ![o] = "term"]
  /\ owner' = [owner EXCEPT ![o] = "shared"]
  /\ lpid' = [lpid EXCEPT ![o] = 0]
  /\ UNCHANGED <<sessions, lent, pc, op, sid, ptr, todo>>

-----------------------------------------------------------------------------
\* The session call itself, outside the manager's mutex.

\* The session has ended: sessTermError.
ActTerminated(c) ==
  /\ pc[c] = "act" /\ life[ptr[c]] = "term"
  /\ Leave(c)
  /\ UNCHANGED <<objects, locks, todo>>

Act(c, methods) == pc[c] = "act" /\ op[c] \in methods /\ life[ptr[c]] # "term"

ActLock(c) ==
  /\ Act(c, {"lock"})
  /\ lpid' = [lpid EXCEPT ![ptr[c]] = lock(@, PidOf[c])]
  /\ Return(c)
  /\ UNCHANGED <<objects, lent, todo>>

ActUnlock(c) ==
  /\ Act(c, {"unlock"})
  /\ lpid' = [lpid EXCEPT ![ptr[c]] = unlock(@, PidOf[c])]
  /\ Return(c)
  /\ UNCHANGED <<objects, lent, todo>>

\* Mutant: commit takes the lock away from whoever has it.
ActExclusiveAnyway(c) ==
  /\ Act(c, {"commit", "validate"})
  /\ lent' = [lent EXCEPT ![ptr[c]] = lpid[ptr[c]]]
  /\ lpid' = [lpid EXCEPT ![ptr[c]] = COMMIT]
  /\ Goto(c, "busy")
  /\ UNCHANGED <<objects, todo>>

\* commit and validate borrow the lock while they run (see Session).
ActExclusive(c) ==
  /\ Act(c, {"commit", "validate"})
  /\ LET o == ptr[c]
     IN  IF lpid[o] \in {0, PidOf[c]}
         THEN /\ lent' = [lent EXCEPT ![o] = lpid[o]]
              /\ lpid' = [lpid EXCEPT ![o] = COMMIT]
              /\ Goto(c, "busy")
         ELSE Leave(c) /\ UNCHANGED <<lpid, lent>>
  /\ UNCHANGED <<objects, todo>>

\* Mutant: a commit is tried again until it succeeds.
EndExclusiveRetries(c) ==
  /\ pc[c] = "busy"
  /\ lpid' = [lpid EXCEPT ![ptr[c]] = lent[ptr[c]]]
  /\ lent' = [lent EXCEPT ![ptr[c]] = 0]
  /\ Goto(c, "act")
  /\ UNCHANGED <<objects, todo>>

EndExclusive(c) ==
  /\ pc[c] = "busy"
  /\ lpid' = [lpid EXCEPT ![ptr[c]] = lent[ptr[c]]]
  /\ lent' = [lent EXCEPT ![ptr[c]] = 0]
  /\ Leave(c)
  /\ UNCHANGED <<objects, todo>>

\* copyConfig deletes without testing the lock, in RUNNING too if Get fell back
\* to it; then Validate(sn), or an error.
ActCopyConfig(c) ==
  /\ Act(c, {"validateconfig"})
  /\ \/ /\ pc' = [pc EXCEPT ![c] = "get"]
        /\ op' = [op EXCEPT ![c] = "validate"]
        /\ ptr' = [ptr EXCEPT ![c] = 1]
        /\ UNCHANGED sid
     \/ Leave(c)
  /\ UNCHANGED <<objects, locks, todo>>

-----------------------------------------------------------------------------
\* The end of a connection: UnlockAllPid holds the read lock throughout.

\* Mutant: only the user's own sessions are visited.
DisconnectOwn(c) ==
  /\ pc[c] = "ready" /\ ~Writing
  /\ todo' = [todo EXCEPT ![c] = {o \in Obj : /\ owner[o] = UidOf[c]
                                             /\ \E n \in Names : sessions[n] = o}]
  /\ Goto(c, "unlockall")
  /\ UNCHANGED <<objects, locks>>

Disconnect(c) ==
  /\ pc[c] = "ready" /\ ~Writing
  /\ todo' = [todo EXCEPT ![c] = {sessions[n] : n \in Names} \ {0}]
  /\ Goto(c, "unlockall")
  /\ UNCHANGED <<objects, locks>>

\* sess.Locked: is it our pid?
UnlockAllCheck(c) ==
  /\ pc[c] = "unlockall"
  /\ \E o \in todo[c] :
       /\ todo' = [todo EXCEPT ![c] = @ \ {o}]
       /\ IF lpid[o] = PidOf[c]
          THEN /\ pc' = [pc EXCEPT ![c] = "unlockone"]
               /\ ptr' = [ptr EXCEPT ![c] = o]
          ELSE UNCHANGED <<pc, ptr>>
  /\ UNCHANGED <<objects, locks, op, sid>>

UnlockAllUnlock(c) ==
  /\ pc[c] = "unlockone"
  /\ lpid' = [lpid EXCEPT ![ptr[c]] = unlock(@, PidOf[c])]
  /\ pc' = [pc EXCEPT ![c] = "unlockall"]
  /\ ptr' = [ptr EXCEPT ![c] = 1]
  /\ UNCHANGED <<objects, lent, op, sid, todo>>

Closed(c) ==
  /\ pc[c] = "unlockall" /\ todo[c] = {}
  /\ Goto(c, "closed")
  /\ UNCHANGED <<objects, locks, todo>>

\* Srv.Serve accepts a connection (again).
Accept(c) ==
  /\ pc[c] = "closed"
  /\ Goto(c, "ready")
  /\ UNCHANGED <<objects, locks, todo>>

-----------------------------------------------------------------------------
\* NewSrv: RUNNING exists, is shared and is locked by SYSTEM for ever.
Init ==
  /\ sessions = [n \in Names |-> IF n = RUNNING THEN 1 ELSE 0]
  /\ owner = [o \in Obj |-> "shared"]
  /\ lpid = [o \in Obj |-> IF o = 1 THEN SYSTEM ELSE 0]
  /\ lent = [o \in Obj |-> 0]
  /\ life = [o \in Obj |-> IF o = 1 THEN "up" ELSE "term"]
  /\ pc = [c \in Conn |-> "closed"]
  /\ op = [c \in Conn |-> "none"]
  /\ sid = [c \in Conn |-> RUNNING]
  /\ ptr = [c \in Conn |-> 1]
  /\ todo = [c \in Conn |-> {}]

Request(c) ==
  \/ \E n \in Sid \cup {RUNNING} :
       \/ SessionSetup(c, n) \/ SessionSetupShared(c, n) \/ SessionTeardown(c, n)
       \/ SessionLock(c, n) \/ SessionUnlock(c, n) \/ Commit(c, n)
  \/ ValidateConfig(c)
  \/ Disconnect(c)
  \/ Accept(c)

Step(c) ==
  \/ Get(c) \/ DestroyDelete(c)
  \/ ActTerminated(c) \/ ActLock(c) \/ ActUnlock(c) \/ ActExclusive(c)
  \/ EndExclusive(c) \/ ActCopyConfig(c)
  \/ UnlockAllCheck(c) \/ UnlockAllUnlock(c) \/ Closed(c)

Write(c) == Create(c) \/ DestroyCheck(c)

Next == \/ \E c \in Conn : Request(c) \/ Step(c) \/ Write(c)
        \/ \E o \in Obj : Terminate(o)

Spec == Init /\ [][Next]_vars

\* Handlers and session goroutines run; a blocked mu.Lock keeps new readers out
\* (sync.RWMutex), so it is not starved by them, and readers get in between
\* two writers.
FairSpec ==
  /\ Spec
  /\ \A c \in Conn : SF_vars(Step(c) \/ Write(c))
  /\ \A o \in Obj : WF_vars(Terminate(o))

-----------------------------------------------------------------------------
\* Properties.

\* Every variable keeps its type.
TypeOK ==
  /\ sessions \in [Names -> Obj \cup {0}]
  /\ owner \in [Obj -> Uid \cup {"shared"}]
  /\ lpid \in [Obj -> Pid \cup {0, COMMIT, SYSTEM}]
  /\ lent \in [Obj -> Pid \cup {0}]
  /\ life \in [Obj -> {"up", "killed", "term"}]
  /\ pc \in [Conn -> {"closed", "ready", "get", "act", "busy", "create", "destroy",
                      "destroying", "unlockall", "unlockone"}]
  /\ op \in [Conn -> {"none", "setup", "setupshared", "teardown", "lock", "unlock",
                      "commit", "validateconfig", "validate"}]
  /\ sid \in [Conn -> Names]
  /\ ptr \in [Conn -> Obj]
  /\ todo \in [Conn -> SUBSET Obj]

\* A name always denotes a session whose goroutine still serves requests, no
\* two names denote one session, and a session being killed has no name left
\* (destroy deletes the name before it starts Kill).
NamesAreLive ==
  /\ \A n \in Names : sessions[n] # 0 => life[sessions[n]] = "up"
  /\ \A m, n \in Names : sessions[m] = sessions[n] /\ sessions[m] # 0 => m = n

\* RUNNING cannot be torn down or locked by a client, which getROSession and
\* every reader of the running configuration rely on.
RunningStays == sessions[RUNNING] = 1 /\ lpid[1] = SYSTEM

\* No lock outlives its process: once every connection of a pid is closed, no
\* session that has a name is locked by it or will be when a commit gives the
\* lock back (UnlockAllPid against commits and other connections).
NoLeakedLock ==
  \A p \in Pid :
    (\A c \in Conn : PidOf[c] = p => pc[c] = "closed")
    => \A n \in Names : sessions[n] # 0 => p \notin {lpid[sessions[n]], lent[sessions[n]]}

\* Every dispatcher call returns, readers, writers and sessions waiting for
\* each other as they do.
CallsReturn == \A c \in Conn : pc[c] \notin {"ready", "closed"} ~> pc[c] \in {"ready", "closed"}
=============================================================================
