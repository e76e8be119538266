---------------------------- MODULE SessionProofs ----------------------------
(***************************************************************************)
(* Proofs about Session, for any number of clients, pids and nodes.        *)
(*                                                                         *)
(* The argument is about what a step does to the lock and to the waiting   *)
(* validate and commit handlers only.  StepKind says that every step is of *)
(* one of four kinds; that the commit lock is kept, and that the session   *)
(* implements the abstract lock, then needs one case per kind.             *)
(***************************************************************************)
EXTENDS Session, ConfigTreeProofs, SequenceTheorems, TLAPS

\* The positions of the waiting validate and commit handlers of a stack.
Excl(s) == {i \in DOMAIN s : s[i].op \in {"validate", "commit"}}

\* A change of the stack that leaves those handlers, and what they will give
\* back, alone.
Quiet(s, t) == /\ Excl(t) = Excl(s)
               /\ \A i \in Excl(s) : /\ t[i].relock = s[i].relock
                                     /\ t[i].client = s[i].client

-----------------------------------------------------------------------------
\* Stacks.

\* A waiting handler for another request does not touch a validate or commit.
LEMMA PushOther ==
  ASSUME NEW s \in Seq(Frame), NEW f \in Edit \cup Read
  PROVE  Append(s, f) \in Seq(Frame) /\ Quiet(s, Append(s, f))
<1>1. f \in Frame /\ f.op \notin {"validate", "commit"}
  BY DEF Frame, Edit, Read
<1>2. /\ Append(s, f) \in Seq(Frame)
      /\ Len(Append(s, f)) = Len(s) + 1
      /\ \A i \in 1..Len(s) : Append(s, f)[i] = s[i]
      /\ Append(s, f)[Len(s) + 1] = f
  BY <1>1, AppendProperties
<1>3. DOMAIN s = 1..Len(s) /\ DOMAIN Append(s, f) = 1..(Len(s) + 1) /\ Len(s) \in Nat
  BY <1>2, LenProperties
<1>4. Excl(Append(s, f)) = Excl(s)
  BY <1>1, <1>2, <1>3 DEF Excl
<1> QED
  BY <1>2, <1>3, <1>4 DEF Quiet, Excl

\* The first validate or commit is the only one.
LEMMA PushExclusive ==
  ASSUME NEW s \in Seq(Frame), NEW f \in Exclusive, Excl(s) = {}
  PROVE  /\ Append(s, f) \in Seq(Frame)
         /\ Excl(Append(s, f)) = {Len(s) + 1}
         /\ Append(s, f)[Len(s) + 1] = f
<1>1. f \in Frame /\ f.op \in {"validate", "commit"}
  BY DEF Frame, Exclusive
<1>2. /\ Append(s, f) \in Seq(Frame)
      /\ Len(Append(s, f)) = Len(s) + 1
      /\ \A i \in 1..Len(s) : Append(s, f)[i] = s[i]
      /\ Append(s, f)[Len(s) + 1] = f
  BY <1>1, AppendProperties
<1>3. DOMAIN s = 1..Len(s) /\ DOMAIN Append(s, f) = 1..(Len(s) + 1) /\ Len(s) \in Nat
  BY <1>2, LenProperties
<1> QED
  BY <1>1, <1>2, <1>3 DEF Excl

\* What is left when the innermost handler returns.
LEMMA PopStack ==
  ASSUME NEW s \in Seq(Frame), s # <<>>
  PROVE  LET t == SubSeq(s, 1, Len(s) - 1)
         IN  /\ t \in Seq(Frame)
             /\ Len(s) \in Nat \ {0} /\ s[Len(s)] \in Frame
             /\ DOMAIN s = 1..Len(s) /\ DOMAIN t = 1..(Len(s) - 1)
             /\ \A i \in 1..(Len(s) - 1) : t[i] = s[i]
<1>1. Len(s) \in Nat \ {0} /\ DOMAIN s = 1..Len(s)
  BY LenProperties, EmptySeq
<1>2. \A i \in 1..Len(s) : s[i] \in Frame
  BY ElementOfSeq
<1> DEFINE t == SubSeq(s, 1, Len(s) - 1)
<1>3. /\ t \in Seq(Frame)
      /\ Len(t) = IF 1 <= Len(s) - 1 THEN Len(s) - 1 - 1 + 1 ELSE 0
      /\ \A i \in 1..(Len(s) - 1 - 1 + 1) : t[i] = s[1 + i - 1]
  BY <1>1, <1>2, SubSeqProperties
<1>4. DOMAIN t = 1..Len(t)
  BY <1>3, LenProperties
<1> QED
  BY <1>1, <1>2, <1>3, <1>4

LEMMA PopOther ==
  ASSUME NEW s \in Seq(Frame), s # <<>>, s[Len(s)].op \notin {"validate", "commit"}
  PROVE  SubSeq(s, 1, Len(s) - 1) \in Seq(Frame) /\ Quiet(s, SubSeq(s, 1, Len(s) - 1))
<1> DEFINE t == SubSeq(s, 1, Len(s) - 1)
<1>1. /\ t \in Seq(Frame) /\ Len(s) \in Nat \ {0}
      /\ DOMAIN s = 1..Len(s) /\ DOMAIN t = 1..(Len(s) - 1)
      /\ \A i \in 1..(Len(s) - 1) : t[i] = s[i]
  BY PopStack
<1> HIDE DEF t
<1>2. Excl(t) = Excl(s) /\ \A i \in Excl(s) : t[i] = s[i]
  BY <1>1 DEF Excl
<1>3. Quiet(s, t)
  BY <1>2 DEF Quiet
<1> QED
  BY <1>1, <1>3 DEF t

LEMMA PopExclusive ==
  ASSUME NEW s \in Seq(Frame), s # <<>>, s[Len(s)].op \in {"validate", "commit"},
         \A i, j \in Excl(s) : i = j
  PROVE  /\ SubSeq(s, 1, Len(s) - 1) \in Seq(Frame)
         /\ Excl(SubSeq(s, 1, Len(s) - 1)) = {}
         /\ Excl(s) = {Len(s)}
<1> DEFINE t == SubSeq(s, 1, Len(s) - 1)
<1>1. /\ t \in Seq(Frame) /\ Len(s) \in Nat \ {0}
      /\ DOMAIN s = 1..Len(s) /\ DOMAIN t = 1..(Len(s) - 1)
      /\ \A i \in 1..(Len(s) - 1) : t[i] = s[i]
  BY PopStack
<1> HIDE DEF t
<1>2. Len(s) \in Excl(s)
  BY <1>1 DEF Excl
<1>3. Excl(s) = {Len(s)}
  BY <1>2
<1>4. \A i \in Excl(t) : i \in Excl(s) /\ i # Len(s)
  BY <1>1 DEF Excl
<1> QED
  BY <1>1, <1>3, <1>4 DEF t

\* One waiting handler goes on; it may be a commit whose phase changes.
LEMMA ReplaceFrame ==
  ASSUME NEW s \in Seq(Frame), NEW i \in DOMAIN s, NEW f \in Frame,
         \/ f \in Edit /\ s[i].op \notin {"validate", "commit"}
         \/ /\ f \in Exclusive /\ s[i] \in Exclusive
            /\ f.relock = s[i].relock /\ f.client = s[i].client
  PROVE  [s EXCEPT ![i] = f] \in Seq(Frame) /\ Quiet(s, [s EXCEPT ![i] = f])
<1> DEFINE t == [s EXCEPT ![i] = f]
<1>1. DOMAIN s = 1..Len(s) /\ Len(s) \in Nat
  BY LenProperties
<1>2. /\ t \in Seq(Frame)
      /\ Len(t) = Len(s)
      /\ \A j \in 1..Len(s) : t[j] = IF j = i THEN f ELSE s[j]
  BY <1>1, ExceptSeq
<1>3. DOMAIN t = 1..Len(s)
  BY <1>2, LenProperties
<1> HIDE DEF t
<1>4. f \in Edit => f.op \notin {"validate", "commit"}
  BY DEF Edit
<1>5. \A g \in Exclusive : g.op \in {"validate", "commit"}
  BY DEF Exclusive
<1>6. \A j \in 1..Len(s) : t[j].op \in {"validate", "commit"}
                           <=> s[j].op \in {"validate", "commit"}
  BY <1>1, <1>2, <1>4, <1>5
<1>7. Excl(t) = Excl(s)
  BY <1>1, <1>3, <1>6 DEF Excl
<1>8. \A j \in Excl(s) : t[j].relock = s[j].relock /\ t[j].client = s[j].client
  BY <1>1, <1>2, <1>4, <1>5 DEF Excl
<1> QED
  BY <1>2, <1>7, <1>8 DEF Quiet, t

-----------------------------------------------------------------------------
\* The lock and the frames.

\* What the lock operations return, and that COMMIT is nobody's pid.
LEMMA LockValues ==
  ASSUME NEW l \in Pid \cup {0, COMMIT}, NEW p \in Pid
  PROVE  /\ p # 0 /\ p # COMMIT /\ COMMIT # 0
         /\ lock(l, p) \in Pid \cup {0, COMMIT}
         /\ unlock(l, p) \in Pid \cup {0, COMMIT}
         /\ l \in {0, p} => Borrow(l, p) = COMMIT
         /\ Borrow(l, p) \in Pid \cup {0, COMMIT}
         /\ \A r \in Pid \cup {0} : /\ Return(l, r) \in Pid \cup {0, COMMIT}
                                   /\ Return(COMMIT, r) = r
BY PidAssumption DEF lock, unlock, Borrow, Return, COMMIT

\* The frame of a client that waits on top of the stack.
LEMMA TopFrame ==
  ASSUME TypeOK, stack # <<>>
  PROVE  /\ Top \in Frame /\ Len(stack) \in DOMAIN stack
         /\ Top.op = "read" => Top \in Read
         /\ Top.op \in {"set", "merge", "edit"} => Top \in Edit
         /\ Top.op \in {"validate", "commit"} => Top \in Exclusive
<1>1. Top \in Frame /\ Len(stack) \in DOMAIN stack
  BY PopStack DEF TypeOK, Top
<1> QED
  BY <1>1 DEF Frame, Edit, Read, Exclusive

LEMMA FrameAt ==
  ASSUME TypeOK, NEW i \in DOMAIN stack
  PROVE  stack[i] \in Frame /\ (stack[i].op = "commit" => stack[i] \in Exclusive)
<1>1. stack[i] \in Frame
  BY ElementOfSeq, LenProperties DEF TypeOK
<1> QED
  BY <1>1 DEF Frame, Edit, Read, Exclusive

-----------------------------------------------------------------------------
\* What a step does to the lock and to the waiting handlers.

Keeps == lpid' = lpid /\ Quiet(stack, stack')
Moves == /\ \E c \in Client : \/ lpid' = lock(lpid, PidOf[c])
                              \/ lpid' = unlock(lpid, PidOf[c])
         /\ stack' = stack
Begins == \E c \in Client : \E op \in {"validate", "commit"} :
            trylock(PidOf[c]) /\ Begin(c, op)
Ends == /\ stack # <<>> /\ Top.op \in {"validate", "commit"}
        /\ lpid' = Return(lpid, Top.relock)
        /\ stack' = Pop

StepKind == Keeps \/ Moves \/ Begins \/ Ends

Good == TypeOK' /\ StepKind

LEMMA QuietSame == \A s : Quiet(s, s)
BY DEF Quiet

\* Requests that push nothing.
LEMMA ShortSteps ==
  ASSUME TypeOK, NEW c \in Client,
         \/ Lock(c) \/ Unlock(c) \/ Discard(c)
         \/ \E n \in Node : Del(c, n)
         \/ \E b \in BOOLEAN : MarkSaved(c, b)
  PROVE  Good
<1>1. PidOf[c] \in Pid
  BY PidAssumption
<1>2. CASE Lock(c) \/ Unlock(c)
  <2>1. /\ lock(lpid, PidOf[c]) \in Pid \cup {0, COMMIT}
        /\ unlock(lpid, PidOf[c]) \in Pid \cup {0, COMMIT}
    BY <1>1, LockValues DEF TypeOK
  <2>2. lpid' = lock(lpid, PidOf[c]) \/ lpid' = unlock(lpid, PidOf[c])
    BY <1>2 DEF Lock, Unlock
  <2>3. stack' = stack
    BY <1>2 DEF Lock, Unlock
  <2>4. Moves
    BY <2>2, <2>3 DEF Moves
  <2> QED
    BY <1>2, <2>1, <2>2, <2>4 DEF Lock, Unlock, TypeOK, Good, StepKind
<1>3. CASE Discard(c)
  BY <1>3, TreeTypes, QuietSame DEF Discard, TypeOK, Good, StepKind, Keeps
<1>4. ASSUME NEW n \in Node, Del(c, n)
      PROVE  Good
  BY <1>4, TreeTypes, QuietSame DEF Del, TypeOK, Good, StepKind, Keeps
<1>5. ASSUME NEW b \in BOOLEAN, MarkSaved(c, b)
      PROVE  Good
  BY <1>5, QuietSame DEF MarkSaved, TypeOK, Good, StepKind, Keeps
<1> QED
  BY <1>2, <1>3, <1>4, <1>5

\* Requests that push a handler that is no validate or commit.
LEMMA PushSteps ==
  ASSUME TypeOK, NEW c \in Client,
         \/ ReadTree(c)
         \/ \E n \in Node : SetReq(c, n)
         \/ \E todo \in SUBSET Node : MergeReq(c, todo)
         \/ \E todo, gone \in SUBSET Node : EditConfig(c, gone, todo) \/ Load(c, todo, gone)
  PROVE  Good
<1> DEFINE Pushed == stack' = stack \/ \E f \in Edit \cup Read : stack' = Append(stack, f)
<1>1. Pushed => stack' \in Seq(Frame) /\ Quiet(stack, stack')
  BY PushOther, QuietSame DEF TypeOK
<1>2. \A op \in {"set", "merge", "edit"}, n \in Node, rest \in SUBSET Node :
        EditFrame(c, op, n, rest) \in Edit
  BY DEF EditFrame, Edit
<1>3. \A todo \in SUBSET Node : StartMerge(c, todo) => Pushed
  BY <1>2 DEF StartMerge, Push
<1>4. CASE ReadTree(c)
  <2>1. [client |-> c, op |-> "read"] \in Read
    BY DEF Read
  <2>2. Pushed
    BY <1>4, <2>1 DEF ReadTree, Push
  <2> QED
    BY <1>1, <1>4, <2>2 DEF ReadTree, TypeOK, Good, StepKind, Keeps
<1>5. ASSUME NEW n \in Node, SetReq(c, n)
      PROVE  Good
  <2>1. Pushed
    BY <1>2, <1>5 DEF SetReq, Push
  <2> QED
    BY <1>1, <1>5, <2>1 DEF SetReq, TypeOK, Good, StepKind, Keeps
<1>6. ASSUME NEW todo \in SUBSET Node, NEW gone \in SUBSET Node, EditConfig(c, gone, todo)
      PROVE  Good
  <2>1. Pushed
    BY <1>2, <1>6 DEF EditConfig, Push
  <2>2. candidate' \in Overlay
    BY <1>6, TreeTypes DEF EditConfig, TypeOK
  <2> QED
    BY <1>1, <1>6, <2>1, <2>2 DEF EditConfig, TypeOK, Good, StepKind, Keeps
<1>7. ASSUME NEW todo \in SUBSET Node, MergeReq(c, todo)
      PROVE  Good
  <2>1. Pushed
    BY <1>3, <1>7 DEF MergeReq
  <2> QED
    BY <1>1, <1>7, <2>1 DEF MergeReq, TypeOK, Good, StepKind, Keeps
<1>8. ASSUME NEW todo \in SUBSET Node, NEW gone \in SUBSET Node, Load(c, todo, gone)
      PROVE  Good
  <2>1. Pushed
    BY <1>3, <1>8 DEF Load
  <2>2. candidate' \in Overlay
    BY <1>8, TreeTypes DEF Load, TypeOK
  <2> QED
    BY <1>1, <1>8, <2>1, <2>2 DEF Load, TypeOK, Good, StepKind, Keeps
<1> QED
  BY <1>4, <1>5, <1>6, <1>7, <1>8

\* The frame that Begin pushes.
LEMMA BeginTypes ==
  ASSUME TypeOK, NEW c \in Client, NEW op \in {"validate", "commit"}, Begin(c, op)
  PROVE  /\ stack' \in Seq(Frame)
         /\ lpid' \in Pid \cup {0, COMMIT}
<1> DEFINE f == [client |-> c, op |-> op, phase |-> "sent", snap |-> candidate,
                 relock |-> IF lpid # 0 THEN PidOf[c] ELSE 0]
<1>1. PidOf[c] \in Pid
  BY PidAssumption
<1>2. f \in Exclusive
  BY <1>1 DEF Exclusive, TypeOK
<1>3. f \in Frame
  BY <1>2 DEF Frame
<1>4. Append(stack, f) \in Seq(Frame)
  BY <1>3, AppendProperties DEF TypeOK
<1>5. Borrow(lpid, PidOf[c]) \in Pid \cup {0, COMMIT}
  BY <1>1, LockValues DEF TypeOK
<1> QED
  BY <1>4, <1>5 DEF Begin, Push

\* validate, and both halves of commit and Changed up to the wait.
LEMMA ExclusiveSteps ==
  ASSUME TypeOK, CommitAdmitted, NEW c \in Client,
         \/ Validate(c)
         \/ Changed1(c, "changed") \/ Changed1(c, "commit")
         \/ \E readonly \in BOOLEAN : Changed2(c, readonly)
  PROVE  Good
<1>1. CASE Validate(c)
  <2>1. trylock(PidOf[c]) /\ Begin(c, "validate")
    BY <1>1 DEF Validate
  <2>2. stack' \in Seq(Frame) /\ lpid' \in Pid \cup {0, COMMIT}
    BY <2>1, BeginTypes
  <2>3. Begins
    BY <2>1 DEF Begins
  <2> QED
    BY <1>1, <2>2, <2>3 DEF Validate, TypeOK, Good, StepKind
<1>2. ASSUME NEW op \in {"changed", "commit"}, Changed1(c, op)
      PROVE  Good
  <2>1. reading' \in Reading
    BY <1>2, TreeTypes DEF Changed1, Reading, TypeOK
  <2> QED
    BY <1>2, <2>1, QuietSame DEF Changed1, TypeOK, Good, StepKind, Keeps
<1>3. ASSUME NEW readonly \in BOOLEAN, Changed2(c, readonly)
      PROVE  Good
  <2>1. reading # Idle
    BY <1>3, PidAssumption DEF Changed2, Idle
  <2>2. CASE UNCHANGED <<lpid, stack>>
    BY <1>3, <2>2, QuietSame DEF Changed2, TypeOK, Good, StepKind, Keeps
  <2>3. CASE reading.op = "commit" /\ Begin(c, "commit")
    <3>1. reading.client = c
      BY <1>3 DEF Changed2
    <3>2. trylock(PidOf[c])
      BY <2>1, <2>3, <3>1 DEF CommitAdmitted
    <3>3. stack' \in Seq(Frame) /\ lpid' \in Pid \cup {0, COMMIT}
      BY <2>3, BeginTypes
    <3>4. Begins
      BY <2>3, <3>2 DEF Begins
    <3> QED
      BY <1>3, <3>3, <3>4 DEF Changed2, TypeOK, Good, StepKind
  <2> QED
    BY <1>3, <2>2, <2>3 DEF Changed2
<1> QED
  BY <1>1, <1>2, <1>3

\* Handlers other than validate and commit go on or return.
LEMMA ResumeSteps ==
  ASSUME TypeOK, NEW c \in Client,
         FinishRead(c) \/ FinishSet(c) \/ FinishMerge(c) \/ FinishEdit(c)
  PROVE  Good
<1>1. stack # <<>> /\ Top.op \in {"read", "set", "merge", "edit"}
  BY DEF FinishRead, FinishSet, FinishMerge, FinishEdit, Resume
<1>2. /\ Len(stack) \in DOMAIN stack
      /\ Top.op # "read" => Top.cur \in Node /\ Top.todo \in SUBSET Node
  BY <1>1, TopFrame DEF Edit
<1> DEFINE Goes == \/ stack' = Pop
                   \/ \E f \in Edit : stack' = SetTop(f)
<1>3. Goes => stack' \in Seq(Frame) /\ Quiet(stack, stack')
  <2>1. Pop \in Seq(Frame) /\ Quiet(stack, Pop)
    BY <1>1, PopOther DEF TypeOK, Top, Pop
  <2>2. ASSUME NEW f \in Edit
        PROVE  SetTop(f) \in Seq(Frame) /\ Quiet(stack, SetTop(f))
    BY <1>1, <1>2, ReplaceFrame DEF TypeOK, Top, SetTop, Frame
  <2> QED
    BY <2>1, <2>2
<1>4. \A n \in Node : SetNode(n) \subseteq Overlay
  BY TreeTypes DEF SetNode, TypeOK
<1>5. \A op \in {"merge", "edit"}, n \in Node, rest \in SUBSET Node :
        EditFrame(c, op, n, rest) \in Edit
  BY DEF EditFrame, Edit
<1>6. CASE FinishRead(c)
  BY <1>3, <1>6 DEF FinishRead, TypeOK, Good, StepKind, Keeps
<1>7. CASE FinishSet(c)
  <2>1. candidate' \in Overlay
    BY <1>2, <1>4, <1>7 DEF FinishSet, Resume
  <2> QED
    BY <1>3, <1>7, <2>1 DEF FinishSet, TypeOK, Good, StepKind, Keeps
<1>8. CASE FinishMerge(c)
  <2>1. candidate' \in Overlay
    BY <1>2, <1>4, <1>8 DEF FinishMerge, Resume
  <2>2. Goes
    BY <1>2, <1>5, <1>8 DEF FinishMerge, Resume
  <2> QED
    BY <1>3, <1>8, <2>1, <2>2 DEF FinishMerge, TypeOK, Good, StepKind, Keeps
<1>9. CASE FinishEdit(c)
  <2>1. candidate' \in Overlay
    BY <1>2, <1>4, <1>9, TreeTypes, ZenonT(60) DEF FinishEdit, Resume, TypeOK
  <2>2. Goes
    BY <1>2, <1>5, <1>9 DEF FinishEdit, Resume
  <2> QED
    BY <1>3, <1>9, <2>1, <2>2 DEF FinishEdit, TypeOK, Good, StepKind, Keeps
<1> QED
  BY <1>6, <1>7, <1>8, <1>9

\* validate and commit return.
LEMMA EndSteps ==
  ASSUME TypeOK, NEW c \in Client, FinishValidate(c) \/ FinishCommit(c)
  PROVE  Good
<1>1. /\ stack # <<>> /\ Top.op \in {"validate", "commit"}
      /\ lpid' = Return(lpid, Top.relock) /\ stack' = Pop
  BY DEF FinishValidate, FinishCommit, Resume
<1>2. Top.relock \in Pid \cup {0}
  BY <1>1, TopFrame DEF Exclusive
<1>3. Return(lpid, Top.relock) \in Pid \cup {0, COMMIT}
  <2>1. ASSUME NEW l \in Pid \cup {0, COMMIT}, NEW r \in Pid \cup {0}
        PROVE  Return(l, r) \in Pid \cup {0, COMMIT}
    BY DEF Return, lock, unlock
  <2> QED
    BY <1>2, <2>1 DEF TypeOK
<1>4. stack' \in Seq(Frame)
  BY <1>1, PopStack DEF TypeOK, Pop
<1>5. candidate' \in Overlay
  BY TreeTypes DEF FinishValidate, FinishCommit, TypeOK
<1>6. Ends
  BY <1>1 DEF Ends
<1> QED
  BY <1>1, <1>3, <1>4, <1>5, <1>6 DEF FinishValidate, FinishCommit, TypeOK, Good, StepKind

\* The commit manager changes the phase of a waiting commit, and running.
LEMMA ManagerSteps ==
  ASSUME TypeOK, NEW i \in DOMAIN stack, Manager(i)
  PROVE  Good
<1> DEFINE Moved(f) == /\ f \in Exclusive /\ f.relock = stack[i].relock
                       /\ f.client = stack[i].client
<1>1. stack[i] \in Exclusive /\ stack[i].op = "commit"
  BY FrameAt DEF Manager, MgrTake, MgrDone
<1>2. \E f : Moved(f) /\ stack' = [stack EXCEPT ![i] = f]
  <2>1. \A p \in {"taken", "ok", "fail"}, t \in Overlay :
          /\ Moved([stack[i] EXCEPT !.phase = p])
          /\ Moved([stack[i] EXCEPT !.phase = p, !.snap = t])
    BY <1>1 DEF Exclusive
  <2>2. CASE MgrTake(i)
    BY <2>1, <2>2 DEF MgrTake, TypeOK
  <2>3. CASE MgrDone(i)
    BY <2>1, <2>3 DEF MgrDone, TypeOK
  <2> QED
    BY <2>2, <2>3 DEF Manager
<1>3. stack' \in Seq(Frame) /\ Quiet(stack, stack')
  BY <1>1, <1>2, ReplaceFrame DEF TypeOK, Frame
<1>4. running' \in Tree
  BY DEF Manager, MgrTake, MgrDone, TypeOK, Tree
<1> QED
  BY <1>3, <1>4 DEF Manager, MgrTake, MgrDone, TypeOK, Good, StepKind, Keeps

\* Every step of the session is of one of the four kinds and keeps the types.
LEMMA EveryStep ==
  ASSUME TypeOK, CommitAdmitted, [Next]_vars
  PROVE  Good
<1>1. ASSUME NEW c \in Client, Request(c)
      PROVE  Good
  BY <1>1, ShortSteps, PushSteps, ExclusiveSteps DEF Request
<1>2. ASSUME NEW c \in Client, Finish(c)
      PROVE  Good
  BY <1>2, ResumeSteps, EndSteps, ExclusiveSteps DEF Finish
<1>3. ASSUME NEW i \in DOMAIN stack, Manager(i)
      PROVE  Good
  BY <1>3, ManagerSteps
<1>4. CASE OtherCommit \/ Kill \/ Terminate \/ UNCHANGED vars
  BY <1>4, QuietSame
     DEF OtherCommit, Kill, Terminate, vars, TypeOK, Good, StepKind, Keeps
<1> QED
  BY <1>1, <1>2, <1>3, <1>4 DEF Next

-----------------------------------------------------------------------------
\* The inductive invariant.  CommitLock needs CommitAdmitted because the second
\* half of a commit takes the lock without testing it again.
Inv == TypeOK /\ CommitLock /\ CommitAdmitted

\* CommitLock as a relation between a lock and a stack.
LockedBy(l, s) ==
  /\ l = COMMIT <=> Excl(s) # {}
  /\ \A i, j \in Excl(s) : i = j
  /\ \A i \in Excl(s) : s[i].relock \in {0, PidOf[s[i].client]}

LEMMA CommitLockIsLockedBy == /\ CommitLock <=> LockedBy(lpid, stack)
                              /\ CommitLock' <=> LockedBy(lpid', stack')
BY DEF CommitLock, LockedBy, ExclusiveAt, Excl

\* Each kind of step keeps the commit lock.
LEMMA CommitLockStep ==
  ASSUME TypeOK, CommitLock, StepKind
  PROVE  CommitLock'
<1>1. LockedBy(lpid, stack)
  BY CommitLockIsLockedBy
<1>2. CASE Keeps
  <2>1. LockedBy(lpid', stack')
    BY <1>1, <1>2 DEF Keeps, Quiet, LockedBy
  <2> QED
    BY <2>1, CommitLockIsLockedBy
<1>3. CASE Moves
  <2>1. PICK c \in Client : lpid' = lock(lpid, PidOf[c]) \/ lpid' = unlock(lpid, PidOf[c])
    BY <1>3 DEF Moves
  <2>2. PidOf[c] \in Pid
    BY PidAssumption
  <2>3. lpid' = COMMIT <=> lpid = COMMIT
    BY <2>1, <2>2, PidAssumption DEF lock, unlock, COMMIT, TypeOK
  <2>4. LockedBy(lpid', stack')
    BY <1>1, <1>3, <2>3 DEF Moves, LockedBy
  <2> QED
    BY <2>4, CommitLockIsLockedBy
<1>4. CASE Begins
  <2>1. PICK c \in Client, op \in {"validate", "commit"} : trylock(PidOf[c]) /\ Begin(c, op)
    BY <1>4 DEF Begins
  <2> DEFINE f == [client |-> c, op |-> op, phase |-> "sent", snap |-> candidate,
                   relock |-> IF lpid # 0 THEN PidOf[c] ELSE 0]
  <2>2. PidOf[c] \in Pid
    BY PidAssumption
  <2>3. f \in Exclusive
    BY <2>2 DEF Exclusive, TypeOK
  <2>4. lpid \in {0, PidOf[c]} /\ lpid # COMMIT
    BY <2>1, <2>2, LockValues DEF trylock, TypeOK
  <2>5. Excl(stack) = {}
    BY <1>1, <2>4 DEF LockedBy
  <2>6. lpid' = COMMIT
    BY <2>1, <2>2, <2>4, LockValues DEF Begin, TypeOK
  <2>7. stack' = Append(stack, f)
    BY <2>1 DEF Begin, Push
  <2>8. Excl(stack') = {Len(stack) + 1} /\ stack'[Len(stack) + 1] = f
    BY <2>3, <2>5, <2>7, PushExclusive DEF TypeOK
  <2>9. f.relock \in {0, PidOf[f.client]}
    OBVIOUS
  <2>10. LockedBy(lpid', stack')
    BY <2>6, <2>8, <2>9 DEF LockedBy
  <2> QED
    BY <2>10, CommitLockIsLockedBy
<1>5. CASE Ends
  <2>1. Excl(stack') = {} /\ Excl(stack) = {Len(stack)}
    BY <1>1, <1>5, PopExclusive DEF Ends, Top, Pop, TypeOK, LockedBy
  <2>2. lpid = COMMIT
    BY <1>1, <2>1 DEF LockedBy
  <2>3. Top.relock \in Pid \cup {0}
    BY <1>5, TopFrame DEF Ends, Exclusive
  <2>4. lpid' \in Pid \cup {0}
    BY <1>5, <2>2, <2>3 DEF Ends, Return, lock, unlock
  <2>5. lpid' # COMMIT
    BY <2>4, PidAssumption DEF COMMIT
  <2>6. LockedBy(lpid', stack')
    BY <2>1, <2>5 DEF LockedBy
  <2> QED
    BY <2>6, CommitLockIsLockedBy
<1> QED
  BY <1>2, <1>3, <1>4, <1>5 DEF StepKind

\* Nothing moves the lock between the two halves of a commit.
LEMMA CommitAdmittedStep ==
  ASSUME TypeOK, CommitAdmitted, [Next]_vars
  PROVE  CommitAdmitted'
<1>1. reading' = reading /\ lpid' = lpid => CommitAdmitted'
  BY DEF CommitAdmitted, trylock
<1>2. reading' = Idle => CommitAdmitted'
  BY DEF CommitAdmitted
<1>3. ASSUME NEW c \in Client, Request(c)
      PROVE  CommitAdmitted'
  <2>1. CASE Lock(c) \/ Unlock(c) \/ Validate(c)
    BY <1>2, <2>1 DEF Lock, Unlock, Validate, Accept
  <2>2. CASE \/ Discard(c) \/ ReadTree(c)
             \/ \E n \in Node : Del(c, n) \/ SetReq(c, n)
             \/ \E b \in BOOLEAN : MarkSaved(c, b)
             \/ \E todo \in SUBSET Node : MergeReq(c, todo)
             \/ \E todo, gone \in SUBSET Node : EditConfig(c, gone, todo) \/ Load(c, todo, gone)
    BY <1>1, <2>2 DEF Discard, ReadTree, Del, SetReq, MarkSaved, EditConfig, MergeReq, Load
  <2>3. CASE Changed1(c, "changed") \/ Changed1(c, "commit")
    BY <2>3 DEF Changed1, CommitAdmitted, trylock
  <2> QED
    BY <1>3, <2>1, <2>2, <2>3 DEF Request
<1>4. ASSUME NEW c \in Client, Finish(c)
      PROVE  CommitAdmitted'
  <2>1. CASE FinishRead(c) \/ FinishSet(c) \/ FinishMerge(c) \/ FinishEdit(c)
             \/ FinishValidate(c) \/ FinishCommit(c)
    BY <1>2, <2>1 DEF FinishRead, FinishSet, FinishMerge, FinishEdit, FinishValidate,
                      FinishCommit, Resume
  <2>2. ASSUME NEW readonly \in BOOLEAN, Changed2(c, readonly)
        PROVE  CommitAdmitted'
    BY <1>2, <2>2 DEF Changed2
  <2> QED
    BY <1>4, <2>1, <2>2 DEF Finish
<1>5. ASSUME NEW i \in DOMAIN stack, Manager(i)
      PROVE  CommitAdmitted'
  BY <1>1, <1>5 DEF Manager, MgrTake, MgrDone
<1>6. CASE OtherCommit \/ Kill \/ Terminate \/ UNCHANGED vars
  BY <1>1, <1>6 DEF OtherCommit, Kill, Terminate, vars
<1> QED
  BY <1>3, <1>4, <1>5, <1>6 DEF Next

LEMMA InitInv == Init => Inv
<1> SUFFICES ASSUME Init
             PROVE  Inv
  OBVIOUS
<1>1. stack \in Seq(Frame) /\ DOMAIN stack = {}
  BY EmptySeq DEF Init
<1>2. TypeOK
  BY <1>1, TreeTypes DEF Init, TypeOK
<1>3. CommitLock
  BY <1>1 DEF Init, CommitLock, ExclusiveAt, COMMIT
<1> QED
  BY <1>2, <1>3 DEF Init, Inv, CommitAdmitted

LEMMA InvStep == Inv /\ [Next]_vars => Inv'
BY EveryStep, CommitLockStep, CommitAdmittedStep DEF Inv, Good

\* The session of session_internal.go keeps its types, is locked by COMMIT
\* exactly while one validate or commit waits, and takes that lock only when no
\* other pid has it, whatever requests nest.
THEOREM SessionInvariant == Spec => []Inv
BY InitInv, InvStep, PTL DEF Spec

\* Type correctness of the session.
THEOREM SessionTypeOK == Spec => []TypeOK
BY SessionInvariant, PTL DEF Inv

\* The commit lock: one validate or commit at a time, and it gives back what
\* it borrowed.
THEOREM SessionCommitLock == Spec => []CommitLock
BY SessionInvariant, PTL DEF Inv

\* No client's lock comes between a commit's lock test and its lock(COMMIT).
THEOREM SessionCommitAdmitted == Spec => []CommitAdmitted
BY SessionInvariant, PTL DEF Inv

-----------------------------------------------------------------------------
\* The session implements the abstract lock.

HolderOf(l, s) == IF l # COMMIT THEN l ELSE s[CHOOSE i \in Excl(s) : TRUE].relock

LEMMA HolderIsHolderOf == Holder = HolderOf(lpid, stack) /\ Holder' = HolderOf(lpid', stack')
BY DEF Holder, HolderOf, ExclusiveAt, Excl

\* The holder that a validate or commit hides is the one it will give back.
LEMMA HiddenHolder ==
  ASSUME NEW s, NEW k, Excl(s) = {k}
  PROVE  HolderOf(COMMIT, s) = s[k].relock
BY DEF HolderOf

\* Each kind of step is a step of the abstract lock or leaves it alone.
LEMMA LockRefinementStep ==
  ASSUME Inv, StepKind
  PROVE  AbstractLock!Next \/ UNCHANGED <<Holder, lpid = COMMIT>>
<1>1. LockedBy(lpid, stack) /\ TypeOK
  BY CommitLockIsLockedBy DEF Inv
<1>2. CASE Keeps
  <2>1. lpid' = lpid
    BY <1>2 DEF Keeps
  <2>2. HolderOf(lpid', stack') = HolderOf(lpid, stack)
    <3>1. CASE lpid # COMMIT
      BY <2>1, <3>1 DEF HolderOf
    <3>2. CASE lpid = COMMIT
      <4>1. PICK k : Excl(stack) = {k}
        BY <1>1, <3>2 DEF LockedBy
      <4>2. Excl(stack') = {k} /\ stack'[k].relock = stack[k].relock
        BY <1>2, <4>1 DEF Keeps, Quiet
      <4> QED
        BY <2>1, <3>2, <4>1, <4>2, HiddenHolder
    <3> QED
      BY <3>1, <3>2
  <2> QED
    BY <2>1, <2>2, HolderIsHolderOf
<1>3. CASE Moves
  <2>1. PICK c \in Client : lpid' = lock(lpid, PidOf[c]) \/ lpid' = unlock(lpid, PidOf[c])
    BY <1>3 DEF Moves
  <2>2. stack' = stack /\ PidOf[c] \in Pid
    BY <1>3, PidAssumption DEF Moves
  <2>3. CASE lpid' = lpid
    BY <2>2, <2>3, HolderIsHolderOf DEF HolderOf
  <2>4. CASE lpid' # lpid
    <3>1. \/ lpid = 0 /\ lpid' = PidOf[c]
          \/ lpid = PidOf[c] /\ lpid' = 0
      BY <2>1, <2>4 DEF lock, unlock
    <3>2. lpid # COMMIT /\ lpid' # COMMIT
      BY <2>2, <3>1, PidAssumption DEF COMMIT
    <3>3. Holder = lpid /\ Holder' = lpid'
      BY <3>2, HolderIsHolderOf DEF HolderOf
    <3>4. AbstractLock!Acquire(PidOf[c]) \/ AbstractLock!Release(PidOf[c])
      BY <3>1, <3>2, <3>3 DEF AbstractLock!Acquire, AbstractLock!Release
    <3> QED
      BY <2>2, <3>4 DEF AbstractLock!Next
  <2> QED
    BY <2>3, <2>4
<1>4. CASE Begins
  <2>1. PICK c \in Client, op \in {"validate", "commit"} : trylock(PidOf[c]) /\ Begin(c, op)
    BY <1>4 DEF Begins
  <2> DEFINE f == [client |-> c, op |-> op, phase |-> "sent", snap |-> candidate,
                   relock |-> IF lpid # 0 THEN PidOf[c] ELSE 0]
  <2>2. PidOf[c] \in Pid
    BY PidAssumption
  <2>3. f \in Exclusive
    BY <1>1, <2>2 DEF Exclusive, TypeOK
  <2>4. lpid \in {0, PidOf[c]} /\ lpid # COMMIT
    BY <1>1, <2>1, <2>2, LockValues DEF trylock, TypeOK
  <2>5. Excl(stack) = {}
    BY <1>1, <2>4 DEF LockedBy
  <2>6. lpid' = COMMIT
    BY <1>1, <2>1, <2>2, <2>4, LockValues DEF Begin, TypeOK
  <2>7. stack' = Append(stack, f)
    BY <2>1 DEF Begin, Push
  <2>8. Excl(stack') = {Len(stack) + 1} /\ stack'[Len(stack) + 1] = f
    BY <1>1, <2>3, <2>5, <2>7, PushExclusive DEF TypeOK
  <2>9. Holder' = f.relock
    BY <2>6, <2>8, HiddenHolder, HolderIsHolderOf
  <2>10. Holder = lpid /\ f.relock = lpid
    BY <2>4, HolderIsHolderOf DEF HolderOf
  <2>11. AbstractLock!Begin(PidOf[c])
    BY <2>4, <2>6, <2>9, <2>10 DEF AbstractLock!Begin
  <2> QED
    BY <2>2, <2>11 DEF AbstractLock!Next
<1>5. CASE Ends
  <2>1. Excl(stack) = {Len(stack)}
    BY <1>1, <1>5, PopExclusive DEF Ends, Top, Pop, TypeOK, LockedBy
  <2>2. lpid = COMMIT
    BY <1>1, <2>1 DEF LockedBy
  <2>3. Top.relock \in Pid \cup {0}
    BY <1>1, <1>5, TopFrame DEF Ends, Exclusive
  <2>4. Holder = Top.relock
    BY <2>1, <2>2, HiddenHolder, HolderIsHolderOf DEF Top
  <2>5. lpid' = Top.relock
    BY <1>5, <2>2, <2>3 DEF Ends, Return, lock, unlock
  <2>6. lpid' # COMMIT
    BY <2>3, <2>5, PidAssumption DEF COMMIT
  <2>7. Holder' = lpid'
    BY <2>6, HolderIsHolderOf DEF HolderOf
  <2>8. AbstractLock!End
    BY <2>2, <2>4, <2>5, <2>6, <2>7 DEF AbstractLock!End
  <2> QED
    BY <2>8 DEF AbstractLock!Next
<1> QED
  BY <1>2, <1>3, <1>4, <1>5 DEF StepKind

\* The nested, borrowed and deferred lock of session_internal.go implements the
\* lock of SessionLock: it goes from pid to pid by Lock and Unlock alone, and a
\* validate or commit leaves it as it found it.
THEOREM SessionImplementsLock == Spec => ImplementsLock
<1>1. Init => AbstractLock!Init
  BY DEF Init, AbstractLock!Init, Holder, COMMIT
<1>2. Inv /\ [Next]_vars => [AbstractLock!Next]_<<Holder, lpid = COMMIT>>
  <2> SUFFICES ASSUME Inv, [Next]_vars
               PROVE  [AbstractLock!Next]_<<Holder, lpid = COMMIT>>
    OBVIOUS
  <2>1. StepKind
    BY EveryStep DEF Inv, Good
  <2> QED
    BY <2>1, LockRefinementStep
<1> QED
  BY <1>1, <1>2, SessionInvariant, PTL DEF Spec, ImplementsLock, AbstractLock!Spec

-----------------------------------------------------------------------------
\* While a validate or commit waits, only load and copy-config edit.

\* Handlers that began after a validate or commit only read.
ReadsAbove(s) == \A i \in Excl(s), j \in DOMAIN s : j > i => s[j].op = "read"

\* What passes the lock test finds no validate or commit waiting.
LEMMA AdmittedAlone ==
  ASSUME Inv, NEW c \in Client, trylock(PidOf[c])
  PROVE  Excl(stack) = {} /\ lpid # COMMIT
<1>1. PidOf[c] \in Pid
  BY PidAssumption
<1>2. lpid # COMMIT
  BY <1>1, LockValues DEF trylock, Inv, TypeOK
<1> QED
  BY <1>2, CommitLockIsLockedBy DEF Inv, LockedBy

\* What a step can do to the stack.
Pushes == \E f \in Frame : stack' = Append(stack, f) /\ (f.op = "read" \/ Excl(stack) = {})
Pops == stack # <<>> /\ stack' = Pop
Goes == \E i \in DOMAIN stack : \E f \in Frame :
          stack' = [stack EXCEPT ![i] = f] /\ f.op = stack[i].op
StackStep == stack' = stack \/ Pushes \/ Pops \/ Goes

LEMMA StackRequest ==
  ASSUME Inv, NEW c \in Client, Request(c)
  PROVE  StackStep
<1>1. \A op \in {"set", "merge", "edit"}, n \in Node, rest \in SUBSET Node :
        EditFrame(c, op, n, rest) \in Frame
  BY DEF EditFrame, Edit, Frame
<1>2. CASE Lock(c) \/ Unlock(c) \/ Discard(c) \/ (\E n \in Node : Del(c, n))
           \/ (\E b \in BOOLEAN : MarkSaved(c, b))
           \/ Changed1(c, "changed") \/ Changed1(c, "commit")
  BY <1>2 DEF Lock, Unlock, Discard, Del, MarkSaved, Changed1, StackStep
<1>3. CASE ReadTree(c)
  <2>1. [client |-> c, op |-> "read"] \in Frame
    BY DEF Read, Frame
  <2> QED BY <1>3, <2>1 DEF ReadTree, Push, StackStep, Pushes
<1>4. ASSUME NEW n \in Node, SetReq(c, n) PROVE StackStep
  <2>1. Excl(stack) = {}
    BY <1>4, AdmittedAlone DEF SetReq
  <2> QED BY <1>1, <1>4, <2>1 DEF SetReq, Push, StackStep, Pushes
<1>5. ASSUME NEW todo \in SUBSET Node, StartMerge(c, todo) PROVE StackStep
  <2>1. CASE stack' = stack
    BY <2>1 DEF StackStep
  <2>2. CASE stack' # stack
    <3>1. Excl(stack) = {}
      BY <1>5, <2>2, AdmittedAlone DEF StartMerge
    <3> QED BY <1>1, <1>5, <2>2, <3>1 DEF StartMerge, Push, StackStep, Pushes
  <2> QED BY <2>1, <2>2
<1>6. ASSUME NEW todo \in SUBSET Node, NEW gone \in SUBSET Node, EditConfig(c, gone, todo)
      PROVE  StackStep
  <2>1. Excl(stack) = {}
    BY <1>6, AdmittedAlone DEF EditConfig
  <2> QED BY <1>1, <1>6, <2>1 DEF EditConfig, Push, StackStep, Pushes
<1>7. CASE Validate(c)
  <2>1. trylock(PidOf[c]) /\ Begin(c, "validate")
    BY <1>7 DEF Validate
  <2> DEFINE f == [client |-> c, op |-> "validate", phase |-> "sent", snap |-> candidate,
                   relock |-> IF lpid # 0 THEN PidOf[c] ELSE 0]
  <2>2. f \in Frame
    BY PidAssumption DEF Exclusive, Frame, Inv, TypeOK
  <2>3. stack' = Append(stack, f)
    BY <2>1 DEF Begin, Push
  <2> QED BY <2>1, <2>2, <2>3, AdmittedAlone DEF StackStep, Pushes
<1> QED
  BY <1>2, <1>3, <1>4, <1>5, <1>6, <1>7 DEF Request, MergeReq, Load

LEMMA StackFinish ==
  ASSUME Inv, NEW c \in Client, Finish(c)
  PROVE  StackStep
<1>1. CASE FinishRead(c) \/ FinishSet(c) \/ FinishValidate(c) \/ FinishCommit(c)
  BY <1>1 DEF FinishRead, FinishSet, FinishValidate, FinishCommit, Resume, StackStep, Pops
<1>2. ASSUME NEW op \in {"merge", "edit"}, Resume(c, op), NEW n \in Top.todo,
             NEW rest \in SUBSET Top.todo, stack' = SetTop(EditFrame(c, op, n, rest))
      PROVE  StackStep
  <2>1. Len(stack) \in DOMAIN stack /\ Top \in Edit /\ Top.op = op
    BY <1>2, TopFrame DEF Resume, Inv
  <2>2. EditFrame(c, op, n, rest) \in Frame /\ EditFrame(c, op, n, rest).op = op
    BY <1>2, <2>1 DEF EditFrame, Edit, Frame
  <2> QED BY <1>2, <2>1, <2>2 DEF SetTop, Top, StackStep, Goes
<1>3. CASE FinishMerge(c)
  <2>1. CASE stack' = Pop
    BY <1>3, <2>1 DEF FinishMerge, Resume, StackStep, Pops
  <2>2. CASE stack' # Pop
    <3>1. PICK n \in Top.todo : \E rest \in SUBSET (Top.todo \ {n}) :
             stack' = SetTop(EditFrame(c, "merge", n, rest))
      BY <1>3, <2>2 DEF FinishMerge
    <3>2. PICK rest \in SUBSET (Top.todo \ {n}) :
             stack' = SetTop(EditFrame(c, "merge", n, rest))
      BY <3>1
    <3> QED BY <1>2, <1>3, <3>2 DEF FinishMerge
  <2> QED BY <2>1, <2>2
<1>4. CASE FinishEdit(c)
  <2>1. CASE stack' = Pop
    BY <1>4, <2>1 DEF FinishEdit, Resume, StackStep, Pops
  <2>2. CASE stack' # Pop
    <3>1. PICK n \in Top.todo : stack' = SetTop(EditFrame(c, "edit", n, Top.todo \ {n}))
      BY <1>4, <2>2 DEF FinishEdit
    <3> QED BY <1>2, <1>4, <3>1 DEF FinishEdit
  <2> QED BY <2>1, <2>2
<1>5. ASSUME NEW readonly \in BOOLEAN, Changed2(c, readonly) PROVE StackStep
  <2>1. CASE stack' = stack
    BY <2>1 DEF StackStep
  <2>2. CASE stack' # stack
    <3>1. reading.client = c /\ reading.op = "commit" /\ Begin(c, "commit")
      BY <1>5, <2>2 DEF Changed2
    <3>2. reading # Idle
      BY <3>1, PidAssumption DEF Idle
    <3>3. trylock(PidOf[c])
      BY <3>1, <3>2 DEF Inv, CommitAdmitted
    <3> DEFINE f == [client |-> c, op |-> "commit", phase |-> "sent", snap |-> candidate,
                     relock |-> IF lpid # 0 THEN PidOf[c] ELSE 0]
    <3>4. f \in Frame
      BY PidAssumption DEF Exclusive, Frame, Inv, TypeOK
    <3>5. stack' = Append(stack, f)
      BY <3>1 DEF Begin, Push
    <3> QED BY <3>3, <3>4, <3>5, AdmittedAlone DEF StackStep, Pushes
  <2> QED BY <2>1, <2>2
<1> QED
  BY <1>1, <1>3, <1>4, <1>5 DEF Finish

LEMMA StackManager ==
  ASSUME Inv, NEW i \in DOMAIN stack, Manager(i)
  PROVE  StackStep
<1>1. stack[i] \in Exclusive /\ stack[i].op = "commit"
  BY FrameAt DEF Manager, MgrTake, MgrDone, Inv
<1>2. \A p \in {"taken", "ok", "fail"}, t \in Overlay :
        /\ [stack[i] EXCEPT !.phase = p] \in Frame
        /\ [stack[i] EXCEPT !.phase = p].op = "commit"
        /\ [stack[i] EXCEPT !.phase = p, !.snap = t] \in Frame
        /\ [stack[i] EXCEPT !.phase = p, !.snap = t].op = "commit"
  BY <1>1 DEF Exclusive, Frame
<1>3. CASE MgrTake(i)
  <2> DEFINE g == [stack[i] EXCEPT !.phase = "fail"]
             h == [stack[i] EXCEPT !.phase = "taken", !.snap = candidate]
  <2>1. g \in Frame /\ g.op = stack[i].op /\ h \in Frame /\ h.op = stack[i].op
    BY <1>1, <1>2 DEF Inv, TypeOK
  <2>2. stack' = [stack EXCEPT ![i] = g] \/ stack' = [stack EXCEPT ![i] = h]
    BY <1>1, <1>3 DEF MgrTake, Inv, TypeOK
  <2> HIDE DEF g, h
  <2> QED BY <2>1, <2>2 DEF StackStep, Goes
<1>4. CASE MgrDone(i)
  BY <1>1, <1>2, <1>4 DEF MgrDone, Inv, TypeOK, StackStep, Goes
<1> QED BY <1>3, <1>4 DEF Manager

LEMMA EveryStackStep ==
  ASSUME Inv, [Next]_vars
  PROVE  StackStep
<1>1. CASE OtherCommit \/ Kill \/ Terminate \/ UNCHANGED vars
  BY <1>1 DEF OtherCommit, Kill, Terminate, vars, StackStep
<1> QED
  BY <1>1, StackRequest, StackFinish, StackManager DEF Next

LEMMA ReadsAboveStep ==
  ASSUME Inv, ReadsAbove(stack), StackStep
  PROVE  ReadsAbove(stack')
<1>0. stack \in Seq(Frame) /\ DOMAIN stack = 1..Len(stack) /\ Len(stack) \in Nat
  BY LenProperties DEF Inv, TypeOK
<1>1. CASE stack' = stack
  BY <1>1
<1>2. CASE Pushes
  <2>1. PICK f \in Frame : stack' = Append(stack, f) /\ (f.op = "read" \/ Excl(stack) = {})
    BY <1>2 DEF Pushes
  <2>2. /\ stack' \in Seq(Frame)
        /\ Len(stack') = Len(stack) + 1
        /\ \A i \in 1..Len(stack) : stack'[i] = stack[i]
        /\ stack'[Len(stack) + 1] = f
    BY <1>0, <2>1, AppendProperties
  <2>3. DOMAIN stack' = 1..(Len(stack) + 1)
    BY <2>2, LenProperties
  <2>4. \A i \in Excl(stack') : i \in Excl(stack) \/ i = Len(stack) + 1
    BY <1>0, <2>2, <2>3 DEF Excl
  <2> SUFFICES ASSUME NEW i \in Excl(stack'), NEW j \in DOMAIN stack', j > i
               PROVE  stack'[j].op = "read"
    BY DEF ReadsAbove
  <2>5. i \in DOMAIN stack'
    BY DEF Excl
  <2>6. i \in Excl(stack)
    BY <1>0, <2>3, <2>4, <2>5
  <2>7. CASE j = Len(stack) + 1
    BY <2>1, <2>2, <2>6, <2>7
  <2>8. CASE j # Len(stack) + 1
    <3>1. j \in 1..Len(stack)
      BY <1>0, <2>3, <2>8
    <3> QED BY <1>0, <2>2, <2>6, <3>1 DEF ReadsAbove
  <2> QED BY <2>7, <2>8
<1>3. CASE Pops
  <2> DEFINE t == SubSeq(stack, 1, Len(stack) - 1)
  <2>1. stack' = t /\ stack # <<>>
    BY <1>3 DEF Pops, Pop
  <2>2. DOMAIN t = 1..(Len(stack) - 1) /\ \A i \in 1..(Len(stack) - 1) : t[i] = stack[i]
    BY <1>0, <2>1, PopStack
  <2> HIDE DEF t
  <2>3. \A i \in DOMAIN t : i \in DOMAIN stack /\ t[i] = stack[i]
    BY <1>0, <2>2
  <2>4. ReadsAbove(t)
    BY <2>3 DEF ReadsAbove, Excl
  <2> QED BY <2>1, <2>4
<1>4. CASE Goes
  <2>1. PICK k \in DOMAIN stack, f \in Frame :
          stack' = [stack EXCEPT ![k] = f] /\ f.op = stack[k].op
    BY <1>4 DEF Goes
  <2>2. DOMAIN stack' = DOMAIN stack /\ \A j \in DOMAIN stack : stack'[j].op = stack[j].op
    BY <1>0, <2>1, ExceptSeq, LenProperties
  <2> QED BY <2>2 DEF ReadsAbove, Excl
<1> QED BY <1>1, <1>2, <1>3, <1>4 DEF StackStep

\* With a validate or commit waiting, the innermost handler is it or reads.
LEMMA NoEditOnTop ==
  ASSUME Inv, ReadsAbove(stack), lpid = COMMIT, stack # <<>>
  PROVE  Top.op \notin {"set", "merge", "edit"}
<1>1. stack \in Seq(Frame) /\ DOMAIN stack = 1..Len(stack) /\ Len(stack) \in Nat
  BY LenProperties DEF Inv, TypeOK
<1>2. PICK i : i \in Excl(stack)
  BY CommitLockIsLockedBy DEF Inv, LockedBy
<1>3. Len(stack) \in DOMAIN stack /\ i \in DOMAIN stack
  BY <1>2, TopFrame DEF Inv, Excl
<1>4. CASE i = Len(stack)
  BY <1>2, <1>4 DEF Excl, Top
<1>5. CASE i # Len(stack)
  BY <1>1, <1>2, <1>3, <1>5 DEF ReadsAbove, Top
<1> QED BY <1>4, <1>5

\* "Lock the session from changes during commit" (session_internal.go): no
\* request that arrives while a validate or commit waits changes the candidate,
\* whatever is nested, except load and copy-config.
THEOREM SessionFrozenButForLoad == Spec => FrozenButForLoad
<1> DEFINE IInv == Inv /\ ReadsAbove(stack)
           Frozen == /\ lpid = COMMIT /\ lpid' = COMMIT
                     /\ candidate' # candidate
                     => \E c \in Client : \E todo, gone \in SUBSET Node : Load(c, todo, gone)
<1>1. Init => IInv
  <2>1. Init => DOMAIN stack = {}
    BY EmptySeq DEF Init
  <2> QED BY <2>1, InitInv DEF ReadsAbove
<1>2. IInv /\ [Next]_vars => IInv'
  <2>1. ASSUME IInv, [Next]_vars PROVE ReadsAbove(stack)'
    <3>1. ReadsAbove(stack')
      BY <2>1, EveryStackStep, ReadsAboveStep
    <3> QED BY <3>1 DEF ReadsAbove, Excl
  <2> QED BY <2>1, InvStep
<1>3. IInv /\ [Next]_vars => [Frozen]_vars
  <2> SUFFICES ASSUME IInv, Next, lpid = COMMIT, lpid' = COMMIT, candidate' # candidate
               PROVE  \E c \in Client : \E todo, gone \in SUBSET Node : Load(c, todo, gone)
    OBVIOUS
  <2>1. \A c \in Client : ~trylock(PidOf[c])
    BY AdmittedAlone
  <2>2. ASSUME NEW c \in Client, Request(c)
        PROVE  \E todo, gone \in SUBSET Node : Load(c, todo, gone)
    BY <2>1, <2>2 DEF Request, Lock, Unlock, Discard, ReadTree, Validate, Del, SetReq,
                      MarkSaved, MergeReq, EditConfig, Changed1
  <2>3. ASSUME NEW c \in Client, Finish(c) PROVE FALSE
    <3>1. CASE FinishSet(c) \/ FinishMerge(c) \/ FinishEdit(c)
      BY <3>1, NoEditOnTop DEF FinishSet, FinishMerge, FinishEdit, Resume
    <3>2. CASE FinishCommit(c)
      <4>1. stack # <<>> /\ Top.op = "commit" /\ lpid' = Return(lpid, Top.relock)
        BY <3>2 DEF FinishCommit, Resume
      <4>2. Top.relock \in Pid \cup {0}
        BY <4>1, TopFrame DEF Exclusive, Inv
      <4>3. lpid' \in Pid \cup {0}
        BY <4>1, <4>2 DEF Return, lock, unlock
      <4> QED BY <4>3, PidAssumption DEF COMMIT
    <3>3. CASE FinishRead(c) \/ FinishValidate(c)
               \/ \E readonly \in BOOLEAN : Changed2(c, readonly)
      BY <3>3 DEF FinishRead, FinishValidate, Changed2
    <3> QED BY <2>3, <3>1, <3>2, <3>3 DEF Finish
  <2>4. ASSUME NEW i \in DOMAIN stack, Manager(i) PROVE FALSE
    BY <2>4 DEF Manager, MgrTake, MgrDone
  <2>5. ~(OtherCommit \/ Kill \/ Terminate)
    BY DEF OtherCommit, Kill, Terminate
  <2> QED BY <2>2, <2>3, <2>4, <2>5 DEF Next
<1> QED
  BY <1>1, <1>2, <1>3, PTL DEF Spec, FrozenButForLoad
=============================================================================
