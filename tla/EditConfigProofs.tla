--------------------------- MODULE EditConfigProofs ---------------------------
(***************************************************************************)
(* Proofs about EditConfig, for any schema, document, objection and        *)
(* sequence of requests.                                                   *)
(***************************************************************************)
EXTENDS EditConfig, OrderProofs

\* The options are those of the protocol, and failures are of operations that
\* have been performed.
LoopInv ==
  /\ objections \in {{}} \cup {{o} : o \in Objections}
  /\ err \in {"stop-on-error", "continue-on-error", "rollback-on-error"}
  /\ test \in {"test-then-set", "set", "test-only"}
  /\ next \in Nat
  /\ phase \in {"idle", "test", "perform", "ok", "error"}
  /\ phase \in {"idle", "test"} => failed = {}

EditInv == LoopInv /\ ErrorsReported /\ TestOnlyIsPure

LEMMA EditInit == Init => EditInv
  BY DEF Init, EditInv, LoopInv, ErrorsReported, TestOnlyIsPure

LEMMA RequestStep ==
  ASSUME EditInv, NEW r \in Requests(objections), NEW a,
         Request(r.doc, a, r.default, r.test, r.err)
  PROVE  EditInv'
<1>1. r.test \in {"test-then-set", "set", "test-only"}
      /\ r.err \in {"stop-on-error", "continue-on-error", "rollback-on-error"}
  BY EditAssumption DEF EditInv, LoopInv
<1>2. /\ phase = "idle" /\ phase' \in {"error", "test", "perform"}
      /\ test' = r.test /\ err' = r.err /\ before' = tree /\ next' = 1
      /\ UNCHANGED <<objections, tree, failed>>
  BY DEF Request
<1>3. failed = {}
  BY <1>2 DEF EditInv, LoopInv
<1> QED
  BY <1>1, <1>2, <1>3 DEF EditInv, LoopInv, ErrorsReported, TestOnlyIsPure

\* Under test-only, performing an operation gives back the tree it was given.
LEMMA TestOnlyKeeps ==
  ASSUME NEW o, NEW t, test = "test-only"
  PROVE  Perform(o, t).tree = t
  BY DEF Perform, Outcome

LEMMA PerformStep ==
  ASSUME EditInv, PerformNext
  PROVE  EditInv'
<1> DEFINE out == Perform(ops[next], tree)
<1>1. /\ phase = "perform" /\ next' = next + 1
      /\ tree' = out.tree
      /\ failed' = IF out.ok THEN failed ELSE failed \cup {next}
      /\ phase' = IF ~out.ok /\ err = "stop-on-error" THEN "error" ELSE "perform"
      /\ UNCHANGED <<objections, before, test, err, ops>>
  BY DEF PerformNext, request
<1> HIDE DEF out
<1>2. LoopInv'
  BY <1>1 DEF EditInv, LoopInv
<1>3. err = "stop-on-error" => failed = {}
  BY <1>1 DEF EditInv, ErrorsReported
<1>4. ErrorsReported'
  BY <1>1, <1>3 DEF EditInv, LoopInv, ErrorsReported
<1>5. TestOnlyIsPure'
  BY <1>1, TestOnlyKeeps DEF EditInv, TestOnlyIsPure, out
<1> QED BY <1>2, <1>4, <1>5 DEF EditInv

LEMMA EditNext == EditInv /\ [Next]_vars => EditInv'
<1>1. ASSUME EditInv, Next PROVE EditInv'
  <2>1. CASE \E r \in Requests(objections) :
               \E a \in [DOMAIN r.doc -> Attr] : Request(r.doc, a, r.default, r.test, r.err)
    BY <1>1, <2>1, RequestStep
  <2>2. CASE Prevalidate
    BY <1>1, <2>2 DEF Prevalidate, EditInv, LoopInv, ErrorsReported, TestOnlyIsPure, request
  <2>3. CASE PerformNext
    BY <1>1, <2>3, PerformStep
  <2>4. CASE Performed
    <3>1. /\ phase = "perform" /\ next > Len(ops)
          /\ phase' = IF failed # {} /\ err = "continue-on-error" THEN "error" ELSE "ok"
          /\ UNCHANGED <<objections, tree, before, test, err, ops, next, failed>>
      BY <2>4 DEF Performed, request
    <3> QED BY <1>1, <3>1 DEF EditInv, LoopInv, ErrorsReported, TestOnlyIsPure
  <2>5. CASE Reply
    BY <1>1, <2>5 DEF Reply, EditInv, LoopInv, ErrorsReported, TestOnlyIsPure
  <2> QED BY <1>1, <2>1, <2>2, <2>3, <2>4, <2>5 DEF Next
<1>2. ASSUME EditInv, UNCHANGED vars PROVE EditInv'
  BY <1>2 DEF EditInv, LoopInv, ErrorsReported, TestOnlyIsPure, vars, request
<1> QED BY <1>1, <1>2

\* stop-on-error stops at the first failure, continue-on-error goes through all
\* operations, and neither answers ok when one failed, whatever the document.
THEOREM ErrorsAlwaysReported == Spec => []ErrorsReported
<1>1. EditInv => ErrorsReported
  BY DEF EditInv
<1> QED BY <1>1, EditInit, EditNext, PTL DEF Spec

\* No test-only request changes the candidate.
THEOREM TestOnlyAlwaysPure == Spec => []TestOnlyIsPure
<1>1. EditInv => TestOnlyIsPure
  BY DEF EditInv
<1> QED BY <1>1, EditInit, EditNext, PTL DEF Spec

-----------------------------------------------------------------------------
\* The schema.

\* A node and what it is contained in.
Up(n) == {n} \cup Above[n]

LEMMA UpTransitive ==
  ASSUME NEW n \in Node, NEW m \in Up(n), NEW l \in Up(m)
  PROVE  m \in Node /\ l \in Node /\ l \in Up(n)
  BY EditAssumption, SchemaAssumption DEF Up

\* Nodes that contain a common node contain each other.
LEMMA UpIsChain ==
  ASSUME NEW n \in Node, NEW l \in Up(n), NEW m \in Up(n)
  PROVE  l \in Up(m) \/ m \in Up(l)
  BY EditAssumption, SchemaAssumption DEF Up

LEMMA UpAntisymmetric ==
  ASSUME NEW m \in Node, NEW n \in Node, m \in Up(n), n \in Up(m)
  PROVE  m = n
  BY EditAssumption, SchemaAssumption DEF Up

LEMMA RivalsAreSiblings ==
  ASSUME NEW n \in Node, NEW m, Rivals(m, n)
  PROVE  m \in Node /\ m # n /\ Above[m] = Above[n] /\ Rivals(n, m)
  BY EditAssumption, SchemaAssumption DEF Rivals

\* What contains a common node is no rival of each other.
LEMMA NoRivalsInChain ==
  ASSUME NEW n \in Node, NEW l \in Up(n), NEW m \in Up(n)
  PROVE  ~Rivals(l, m)
<1> SUFFICES ASSUME Rivals(l, m) PROVE FALSE
  OBVIOUS
<1>1. l \in Node /\ m \in Node
  BY UpTransitive DEF Up
<1>2. l # m /\ Above[l] = Above[m]
  BY <1>1, RivalsAreSiblings
<1>3. l \in Above[m] \/ m \in Above[l]
  BY <1>2, UpIsChain DEF Up
<1> QED BY <1>1, <1>2, <1>3, SchemaAssumption

LEMMA BelowIsUp ==
  ASSUME NEW n \in Node
  PROVE  Below(n) = {m \in Node : n \in Up(m)} /\ n \in Below(n)
  BY DEF Below, Up

\* What a set ousts.
Ousted(n) == {m \in Node : \E k \in Up(n), r \in Up(m) : Rivals(r, k)}

LEMMA WithIs ==
  ASSUME NEW n \in Node, NEW t
  PROVE  With(n, t) = (t \ Ousted(n)) \cup {m \in Up(n) : ~Implicit(m)}
<1>1. \A k \in Up(n) : k \in Node
  BY UpTransitive DEF Up
<1>2. UNION {Below(m) : m \in UNION {OtherValue[k] \cup OtherCase[k] : k \in Up(n)}} = Ousted(n)
  <2>1. ASSUME NEW x, x \in UNION {Below(m) : m \in UNION {OtherValue[k] \cup OtherCase[k] : k \in Up(n)}}
        PROVE  x \in Ousted(n)
    <3>1. PICK k, m : k \in Up(n) /\ m \in OtherValue[k] \cup OtherCase[k] /\ x \in Below(m)
      BY <2>1
    <3>2. Rivals(m, k) /\ m \in Node
      BY <1>1, <3>1, RivalsAreSiblings DEF Rivals
    <3>3. x \in Node /\ m \in Up(x)
      BY <3>1, <3>2, BelowIsUp
    <3> QED BY <3>1, <3>2, <3>3 DEF Ousted
  <2>2. ASSUME NEW x \in Ousted(n)
        PROVE  x \in UNION {Below(m) : m \in UNION {OtherValue[k] \cup OtherCase[k] : k \in Up(n)}}
    <3>1. PICK k \in Up(n), m \in Up(x) : Rivals(m, k)
      BY <2>2 DEF Ousted
    <3>2. m \in OtherValue[k] \cup OtherCase[k]
      BY <3>1 DEF Rivals
    <3>3. x \in Below(m)
      BY <2>2, <3>1, UpTransitive, BelowIsUp DEF Ousted
    <3> QED BY <3>1, <3>2, <3>3
  <2> QED BY <2>1, <2>2
<1> QED BY <1>2 DEF With, Up

-----------------------------------------------------------------------------
\* Candidates that the schema allows.

Allowed(t) ==
  /\ t \in SUBSET {n \in Node : ~Implicit(n)}
  /\ \A n \in t : \A m \in Above[n] : Implicit(m) \/ m \in t
  /\ \A n \in t : (OtherValue[n] \cup OtherCase[n]) \cap t = {}

LEMMA WithoutAllowed ==
  ASSUME NEW n \in Node, NEW t, Allowed(t)
  PROVE  Allowed(Without(n, t))
<1>1. Without(n, t) \in SUBSET {m \in Node : ~Implicit(m)}
  BY DEF Allowed, Without
<1>2. ASSUME NEW l \in Without(n, t), NEW m \in Above[l], ~Implicit(m)
      PROVE  m \in Without(n, t)
  <2>1. l \in t /\ l \in Node /\ m \in Up(l) /\ m \in t /\ m \in Node
    BY <1>2 DEF Allowed, Without, Up
  <2>2. n \notin Up(l)
    BY <1>2, <2>1, BelowIsUp DEF Without
  <2>3. n \notin Up(m)
    BY <2>1, <2>2, UpTransitive
  <2> QED BY <2>1, <2>3, BelowIsUp DEF Without
<1>3. \A l \in Without(n, t) : (OtherValue[l] \cup OtherCase[l]) \cap Without(n, t) = {}
  BY DEF Allowed, Without
<1> QED BY <1>1, <1>2, <1>3 DEF Allowed

LEMMA WithAllowed ==
  ASSUME NEW n \in Node, NEW t, Allowed(t)
  PROVE  Allowed(With(n, t))
<1> DEFINE w == With(n, t)
           new == {m \in Up(n) : ~Implicit(m)}
<1>1. w = (t \ Ousted(n)) \cup new
  BY WithIs
<1>2. new \subseteq Node
  BY UpTransitive DEF Up
<1> HIDE DEF w
<1>3. w \in SUBSET {m \in Node : ~Implicit(m)}
  BY <1>1, <1>2 DEF Allowed
<1>4. ASSUME NEW l \in w, NEW m \in Above[l], ~Implicit(m)
      PROVE  m \in w
  <2>1. CASE l \in new
    BY <1>1, <1>4, <2>1, UpTransitive DEF Up
  <2>2. CASE l \notin new
    <3>1. l \in t /\ l \in Node /\ m \in t /\ m \in Node /\ m \in Up(l) /\ l \notin Ousted(n)
      BY <1>1, <1>4, <2>2 DEF Allowed, Up
    <3>2. m \notin Ousted(n)
      BY <3>1, UpTransitive DEF Ousted
    <3> QED BY <1>1, <3>1, <3>2
  <2> QED BY <2>1, <2>2
<1>5. ASSUME NEW l \in w, NEW m \in w, Rivals(m, l)
      PROVE  FALSE
  <2>1. l \in Node /\ m \in Node /\ Rivals(l, m) /\ l \in Up(l) /\ m \in Up(m)
    BY <1>3, <1>5, RivalsAreSiblings DEF Up
  <2>2. CASE l \in new /\ m \in new
    BY <1>5, <2>2, NoRivalsInChain
  <2>3. CASE l \in new /\ m \notin new
    <3>1. m \in Ousted(n)
      BY <1>5, <2>1, <2>3 DEF Ousted
    <3> QED BY <1>1, <2>3, <3>1
  <2>4. CASE l \notin new /\ m \in new
    <3>1. l \in Ousted(n)
      BY <2>1, <2>4 DEF Ousted
    <3> QED BY <1>1, <2>4, <3>1
  <2>5. CASE l \notin new /\ m \notin new
    BY <1>1, <1>5, <2>5 DEF Allowed, Rivals
  <2> QED BY <2>2, <2>3, <2>4, <2>5
<1> QED BY <1>3, <1>4, <1>5 DEF Allowed, Rivals, w

-----------------------------------------------------------------------------
\* The order of the operations.

LEMMA ElementOf ==
  ASSUME NEW S, NEW s \in Seq(S)
  PROVE  DOMAIN s = 1..Len(s) /\ Len(s) \in Nat /\ \A k \in DOMAIN s : s[k] \in S
  OBVIOUS

LEMMA Nesting ==
  ASSUME NEW d, Document(d), NEW i \in DOMAIN d, NEW j \in d[i].in
  PROVE  /\ i \in Nat /\ j \in DOMAIN d /\ j \in Nat /\ j < i
         /\ \A k \in d[j].in : k \in d[i].in
         /\ \A k \in DOMAIN d : j < k /\ k <= i => j \in d[k].in
<1>1. i \in 1..Len(d) /\ DOMAIN d = 1..Len(d) /\ Len(d) \in Nat
  BY DEF Document
<1>2. j \in 1..(i - 1)
  BY DEF Document
<1>3. \A k \in (j + 1)..i : j \in d[k].in
  BY DEF Document
<1>4. \A k \in d[j].in : k \in d[i].in
  BY DEF Document
<1> QED BY <1>1, <1>2, <1>3, <1>4

LEMMA PrecedesTotal ==
  ASSUME NEW d, Document(d), NEW f, NEW i \in DOMAIN d, NEW j \in DOMAIN d, i # j
  PROVE  Precedes(d, f, i, j) <=> ~Precedes(d, f, j, i)
<1>1. i \in Nat /\ j \in Nat
  BY DEF Document
<1>2. ~(i \in d[j].in /\ j \in d[i].in)
  BY Nesting
<1> QED BY <1>1, <1>2 DEF Precedes

LEMMA PrecedesTransitive ==
  ASSUME NEW d, Document(d), NEW f, NEW i \in DOMAIN d, NEW j \in DOMAIN d,
         NEW k \in DOMAIN d, i # j, j # k, i # k,
         Precedes(d, f, i, j), Precedes(d, f, j, k)
  PROVE  Precedes(d, f, i, k)
<1>1. i \in Nat /\ j \in Nat /\ k \in Nat
  BY DEF Document
<1>2. \A a, b \in {i, j, k} : a \in d[b].in =>
         /\ a < b /\ b \notin d[a].in
         /\ \A c \in {i, j, k} : c \in d[a].in => c \in d[b].in
         /\ \A c \in {i, j, k} : a < c /\ c <= b => a \in d[c].in
  BY Nesting
<1> QED BY <1>1, <1>2, SMTT(30) DEF Precedes

\* The operations are the elements that emit one, each once, in the order of the
\* traversal.
LEMMA OrderIs ==
  ASSUME NEW d, Document(d), NEW f
  PROVE  LET s == Order(d, f)
         IN  /\ s \in Seq(Emits(d, f))
             /\ \A k, l \in DOMAIN s : k < l => Precedes(d, f, s[k], s[l])
             /\ \A k, l \in DOMAIN s : k # l => s[k] # s[l]
             /\ \A i \in Emits(d, f) : \E k \in DOMAIN s : s[k] = i
<1> DEFINE E == Emits(d, f)
           R == {p \in E \X E : p[1] # p[2] /\ Precedes(d, f, p[1], p[2])}
<1>1. E \subseteq DOMAIN d /\ DOMAIN d = 1..Len(d) /\ Len(d) \in Nat
  BY DEF Emits, Visited, Document
<1>2. IsFiniteSet(E)
  <2>1. IsFiniteSet(1..Len(d))
    BY <1>1, FS_Interval
  <2> QED BY <1>1, <2>1, FS_Subset
<1>3. \A i, j \in E : <<i, j>> \in R <=> i # j /\ Precedes(d, f, i, j)
  OBVIOUS
<1> HIDE DEF E, R
<1>4. Orders(R, E)
  <2>1. \A i, j \in E : i # j => <<i, j>> \in R \/ <<j, i>> \in R
    BY <1>1, <1>3, PrecedesTotal
  <2>2. ASSUME NEW i \in E, NEW j \in E, NEW k \in E, <<i, j>> \in R, <<j, k>> \in R
        PROVE  <<i, k>> \in R
    <3>1. i # j /\ j # k /\ Precedes(d, f, i, j) /\ Precedes(d, f, j, k)
      BY <1>3, <2>2
    <3>2. i # k
      BY <1>1, <3>1, PrecedesTotal
    <3> QED BY <1>1, <1>3, <3>1, <3>2, PrecedesTransitive
  <2> QED BY <2>1, <2>2 DEF Orders
<1>5. PICK s \in SetToSeqs(E) : Sorted(s, R)
  BY <1>2, <1>4, SortedExists
<1>6. \A s2 \in SetToSeqs(E) : s2 \in Seq(E) /\ \A k \in DOMAIN s2 : s2[k] \in E
  BY <1>2, EnumerationIsOnto
<1>7. \A k, l \in DOMAIN s : k < l => Precedes(d, f, s[k], s[l])
  BY <1>3, <1>5, <1>6 DEF Sorted
<1>8. /\ Order(d, f) \in SetToSeqs(E)
      /\ \A k, l \in DOMAIN Order(d, f) : k < l => Precedes(d, f, Order(d, f)[k], Order(d, f)[l])
  BY <1>5, <1>7 DEF Order, E
<1> QED BY <1>2, <1>8, EnumerationIsOnto DEF E

-----------------------------------------------------------------------------
\* The operation of each element is one of the protocol's.
LEMMA OperationType ==
  ASSUME NEW d, Document(d), NEW a \in [DOMAIN d -> Attr], NEW o \in {"merge", "replace", "none"}
  PROVE  getOperation(d, a, o) \in [DOMAIN d -> Attr]
<1> SUFFICES ASSUME NEW i \in DOMAIN d PROVE getOperation(d, a, o)[i] \in Attr
  BY DEF getOperation
<1> DEFINE own == {j \in {i} \cup d[i].in : a[j] # "notset"}
<1>1. getOperation(d, a, o)[i] = IF own = {} THEN default_operation_Get(o)
                                 ELSE a[CHOOSE j \in own : \A k \in own : k <= j]
  BY DEF getOperation
<1>2. default_operation_Get(o) \in Attr
  BY DEF default_operation_Get, Attr
<1>3. own \subseteq DOMAIN d
  BY Nesting
<1>4. own \subseteq 0..i /\ i \in Nat
  <2>1. i \in Nat
    BY DEF Document
  <2> QED BY <2>1, Nesting
<1>5. own # {} => \E j \in own : \A k \in own : k <= j
  BY <1>4, LargestNumber
<1> HIDE DEF own
<1>6. own # {} => (CHOOSE j \in own : \A k \in own : k <= j) \in own
  BY <1>5
<1> QED BY <1>1, <1>2, <1>3, <1>6

LEMMA OperationsType ==
  ASSUME NEW d, Document(d), NEW f \in [DOMAIN d -> Attr]
  PROVE  /\ Operations(d, f) \in Seq([op : Attr, path : Node])
         /\ DOMAIN Operations(d, f) = DOMAIN Order(d, f)
         /\ \A k \in DOMAIN Operations(d, f) :
              /\ Order(d, f)[k] \in Emits(d, f) /\ Order(d, f)[k] \in DOMAIN d
              /\ Operations(d, f)[k] = [op |-> f[Order(d, f)[k]], path |-> d[Order(d, f)[k]].path]
<1> DEFINE s == Order(d, f)
<1>1. s \in Seq(Emits(d, f))
  BY OrderIs
<1>2. Operations(d, f) = [k \in DOMAIN s |-> [op |-> f[s[k]], path |-> d[s[k]].path]]
  BY DEF Operations
<1>3. Emits(d, f) \subseteq DOMAIN d
  BY DEF Emits, Visited
<1> HIDE DEF s
<1>4. DOMAIN s = 1..Len(s) /\ Len(s) \in Nat /\ \A k \in DOMAIN s : s[k] \in Emits(d, f)
  BY <1>1
<1>5. \A i \in DOMAIN d : d[i].path \in Node
  <2>1. d \in Seq([path : Node, in : SUBSET Nat])
    BY DEF Document
  <2>2. \A i \in DOMAIN d : d[i] \in [path : Node, in : SUBSET Nat]
    BY <2>1, ElementOf
  <2> QED BY <2>2
<1>6. \A k \in DOMAIN s : [op |-> f[s[k]], path |-> d[s[k]].path] \in [op : Attr, path : Node]
  BY <1>3, <1>4, <1>5
<1>7. Operations(d, f) \in Seq([op : Attr, path : Node])
  BY <1>2, <1>4, <1>6
<1> QED BY <1>2, <1>3, <1>4, <1>7 DEF s

\* What performing an operation can make of the tree t.
Effect(o, t, u) ==
  \/ u = t
  \/ u = Without(o.path, t) /\ o.op \in {"replace", "delete", "remove"}
  \/ u = With(o.path, t) /\ o.op \in {"merge", "create"} /\ ~Implicit(o.path)
  \/ u = With(o.path, Without(o.path, t)) /\ o.op = "replace" /\ ~Implicit(o.path)

Option == {"test-then-set", "set", "test-only"}

LEMMA PerformEffect ==
  ASSUME NEW o, o.op \in Attr, NEW t, test \in Option
  PROVE  Effect(o, t, Perform(o, t).tree)
<1>1. Effect(o, t, Set(o, t).tree)
  BY DEF Effect, Set, Attr, MergeNode, SetNode, Settable, Outcome
<1> QED BY <1>1 DEF Perform, Outcome, Option, Effect

LEMMA EffectAllowed ==
  ASSUME NEW o, o.path \in Node, NEW t, Allowed(t), NEW u, Effect(o, t, u)
  PROVE  Allowed(u)
  BY WithAllowed, WithoutAllowed DEF Effect

\* The request under way is a document with its operations.
RequestInv ==
  /\ phase \in {"test", "perform", "ok"} =>
       Document(doc) /\ op \in [DOMAIN doc -> Attr] /\ ops = Operations(doc, op)
  /\ phase = "idle" => ops = <<>> /\ next = 1 /\ failed = {}

TypeInv == TypeOK /\ LoopInv /\ RequestInv

LEMMA TypeOKIs ==
  TypeOK <=>
    /\ Allowed(tree) /\ before \in SUBSET Node
    /\ ops \in Seq([op : Attr, path : Node])
    /\ next \in 1..Len(ops) + 1 /\ failed \subseteq DOMAIN ops
    /\ phase \in {"idle", "test", "perform", "ok", "error"}
  BY DEF TypeOK, Allowed

LEMMA TypeInit == Init => TypeInv
<1> SUFFICES ASSUME Init PROVE TypeInv
  OBVIOUS
<1>1. Allowed({})
  BY DEF Allowed
<1>2. LoopInv
  BY EditInit DEF EditInv
<1>3. <<>> \in Seq([op : Attr, path : Node]) /\ Len(<<>>) = 0 /\ DOMAIN <<>> = {}
  OBVIOUS
<1>4. TypeOK
  BY <1>1, <1>3, TypeOKIs DEF Init
<1> QED BY <1>2, <1>4 DEF TypeInv, RequestInv, Init

LEMMA TypeRequest ==
  ASSUME TypeInv, LoopInv', NEW r \in Requests(objections), NEW a \in [DOMAIN r.doc -> Attr],
         Request(r.doc, a, r.default, r.test, r.err)
  PROVE  TypeInv'
<1> DEFINE f == getOperation(r.doc, a, r.default)
<1>1. objections \in {{}} \cup {{o} : o \in Objections}
  BY DEF TypeInv, LoopInv
<1>2. Document(r.doc) /\ r.default \in {"merge", "replace", "none"}
  BY <1>1, EditAssumption, DocumentAssumption
<1>3. f \in [DOMAIN r.doc -> Attr]
  BY <1>2, OperationType
<1>4. /\ phase = "idle" /\ doc' = r.doc /\ op' = f /\ before' = tree /\ next' = 1
      /\ tree' = tree /\ failed' = failed
      /\ \/ phase' = "error" /\ ops' = ops
         \/ phase' \in {"test", "perform"} /\ ops' = Operations(r.doc, f)
  BY DEF Request
<1> HIDE DEF f
<1>5. ops = <<>> /\ failed = {} /\ Allowed(tree)
  BY <1>4, TypeOKIs DEF TypeInv, RequestInv
<1>6. ops' \in Seq([op : Attr, path : Node])
  <2>1. Operations(r.doc, f) \in Seq([op : Attr, path : Node])
    BY <1>2, <1>3, OperationsType
  <2>2. ops \in Seq([op : Attr, path : Node])
    BY DEF TypeInv, TypeOK
  <2> QED BY <1>4, <2>1, <2>2
<1>7. tree \in SUBSET Node
  BY <1>5 DEF Allowed
<1>8. Len(ops') \in Nat
  BY <1>6
<1>9. TypeOK'
  <2>1. Allowed(tree)'
    BY <1>4, <1>5 DEF Allowed, Implicit
  <2>2. (next \in 1..Len(ops) + 1 /\ failed \subseteq DOMAIN ops)'
    BY <1>4, <1>5, <1>8
  <2>3. (phase \in {"idle", "test", "perform", "ok", "error"})'
    BY <1>4
  <2> QED BY <1>4, <1>6, <1>7, <2>1, <2>2, <2>3 DEF TypeOK, Allowed
<1>10. RequestInv'
  BY <1>2, <1>3, <1>4 DEF RequestInv, Document
<1> QED BY <1>9, <1>10 DEF TypeInv

LEMMA TypePerform ==
  ASSUME TypeInv, LoopInv', PerformNext
  PROVE  TypeInv'
<1> DEFINE o == ops[next]
           out == Perform(o, tree)
<1>1. /\ phase = "perform" /\ next <= Len(ops) /\ next' = next + 1
      /\ tree' = out.tree
      /\ failed' \in {failed, failed \cup {next}}
      /\ phase' \in {"error", "perform"}
      /\ UNCHANGED <<doc, op, before, ops>>
  BY DEF PerformNext, request
<1>2. Allowed(tree) /\ ops \in Seq([op : Attr, path : Node]) /\ next \in 1..Len(ops) + 1
      /\ failed \subseteq DOMAIN ops /\ before \in SUBSET Node
  BY TypeOKIs DEF TypeInv
<1>3. next \in DOMAIN ops /\ o \in [op : Attr, path : Node] /\ DOMAIN ops = 1..Len(ops) /\ Len(ops) \in Nat
  <2>1. DOMAIN ops = 1..Len(ops) /\ Len(ops) \in Nat
    BY <1>2
  <2>2. next \in DOMAIN ops
    BY <1>1, <1>2, <2>1
  <2> QED BY <1>2, <2>1, <2>2, ElementOf
<1>4. Effect(o, tree, out.tree)
  <2>1. test \in Option /\ o.op \in Attr
    BY <1>3 DEF TypeInv, LoopInv, Option
  <2> QED BY <2>1, PerformEffect
<1> HIDE DEF o, out
<1>5. Allowed(out.tree)
  BY <1>2, <1>3, <1>4, EffectAllowed
<1>6. TypeOK'
  <2>1. (next \in 1..Len(ops) + 1 /\ failed \subseteq DOMAIN ops)'
    BY <1>1, <1>2, <1>3
  <2>2. Allowed(tree')
    BY <1>1, <1>5
  <2> QED BY <1>1, <1>2, <2>1, <2>2 DEF TypeOK, Allowed
<1>7. RequestInv'
  BY <1>1 DEF TypeInv, RequestInv
<1> QED BY <1>6, <1>7 DEF TypeInv

LEMMA TypeStep == TypeInv /\ [Next]_vars => TypeInv'
<1> SUFFICES ASSUME TypeInv, [Next]_vars PROVE TypeInv'
  OBVIOUS
<1>0. LoopInv'
  <2>1. CASE \E r \in Requests(objections) :
               \E a \in [DOMAIN r.doc -> Attr] : Request(r.doc, a, r.default, r.test, r.err)
    BY <2>1, EditAssumption DEF TypeInv, LoopInv, Request
  <2>2. CASE Prevalidate \/ PerformNext \/ Performed
    BY <2>2 DEF Prevalidate, PerformNext, Performed, TypeInv, LoopInv, request
  <2>3. CASE Reply \/ UNCHANGED vars
    BY <2>3 DEF Reply, TypeInv, LoopInv, vars, request
  <2> QED BY <2>1, <2>2, <2>3 DEF Next
<1>1. CASE \E r \in Requests(objections) :
             \E a \in [DOMAIN r.doc -> Attr] : Request(r.doc, a, r.default, r.test, r.err)
  BY <1>0, <1>1, TypeRequest
<1>2. CASE PerformNext
  BY <1>0, <1>2, TypePerform
<1>3. CASE Prevalidate \/ Performed
  <2>1. /\ UNCHANGED <<tree, before, doc, op, ops, next, failed>>
        /\ phase \in {"test", "perform"} /\ phase' \in {"perform", "error", "ok"}
    BY <1>3 DEF Prevalidate, Performed, request
  <2> QED BY <1>0, <2>1 DEF TypeInv, TypeOK, RequestInv
<1>4. CASE Reply
  <2>1. /\ tree' = tree /\ before' = {} /\ ops' = <<>> /\ next' = 1 /\ failed' = {} /\ phase' = "idle"
    BY <1>4 DEF Reply
  <2> QED BY <1>0, <2>1 DEF TypeInv, TypeOK, RequestInv
<1>5. CASE UNCHANGED vars
  BY <1>0, <1>5 DEF vars, request, TypeInv, TypeOK, RequestInv
<1> QED BY <1>1, <1>2, <1>3, <1>4, <1>5 DEF Next

\* Type correctness of edit-config for any schema that is a tree and any
\* documents: whatever is performed and in whatever order, the candidate has
\* enclosing nodes for what it contains, one value for a leaf and one case of a
\* choice.
THEOREM EditTypeCorrect == Spec => []TypeOK
<1>1. TypeInv => TypeOK
  BY DEF TypeInv
<1> QED BY <1>1, TypeInit, TypeStep, PTL DEF Spec

-----------------------------------------------------------------------------
\* Operations that do not depend on each other.

Apart(p, q) == /\ p \notin Up(q) /\ q \notin Up(p)
               /\ \A m \in Up(p), n \in Up(q) : ~Rivals(m, n) /\ ~Rivals(n, m)

\* An edit of p changes nothing below a node that is apart from it.
LEMMA ApartKept ==
  ASSUME NEW p \in Node, NEW q \in Node, Apart(p, q), NEW t, NEW m \in Below(q)
  PROVE  /\ m \in Without(p, t) <=> m \in t
         /\ m \in With(p, t) <=> m \in t
<1>1. m \in Node /\ q \in Up(m)
  BY BelowIsUp
<1>2. m \notin Below(p)
  BY <1>1, BelowIsUp, UpIsChain DEF Apart
<1>3. m \notin Up(p)
  BY <1>1, UpTransitive DEF Apart
<1>4. m \notin Ousted(p)
  <2> SUFFICES ASSUME NEW k \in Up(p), NEW r \in Up(m), Rivals(r, k) PROVE FALSE
    BY DEF Ousted
  <2>1. k \in Node /\ r \in Node
    BY <1>1, UpTransitive DEF Up
  <2>2. r \notin Up(q)
    BY DEF Apart
  <2>3. q \in Up(r) /\ q # r
    BY <1>1, <2>2, UpIsChain DEF Up
  <2>4. q \in Up(k)
    BY <2>1, <2>3, RivalsAreSiblings DEF Up
  <2>5. q \in Up(p)
    BY <2>4, UpTransitive
  <2> QED BY <2>5 DEF Apart
<1>5. With(p, t) = (t \ Ousted(p)) \cup {n \in Up(p) : ~Implicit(n)}
  BY WithIs
<1> QED BY <1>2, <1>3, <1>4, <1>5 DEF Without

LEMMA EffectKeepsApart ==
  ASSUME NEW o, o.path \in Node, NEW q \in Node, Apart(o.path, q), NEW t, NEW u, Effect(o, t, u)
  PROVE  Exists(q, u) <=> Exists(q, t)
<1>1. \A m \in Below(q) : m \in u <=> m \in t
  BY ApartKept DEF Effect
<1>2. q \in Below(q)
  BY BelowIsUp
<1> QED BY <1>1, <1>2 DEF Exists

LEMMA TestSame ==
  ASSUME NEW o, NEW t, NEW u, Exists(o.path, u) <=> Exists(o.path, t), Test(o, t)
  PROVE  Test(o, u)
  BY DEF Test, Auth, Needs

\* What passes the test is performed, if no script refuses it.
LEMMA TestedIsPerformed ==
  ASSUME NEW o, o.op \in Attr, NEW t, Test(o, t), test \in Option,
         o.op \in {"merge", "replace", "create"} => ~Implicit(o.path),
         \A x \in objections : x[2] # "refused"
  PROVE  Perform(o, t).ok
<1>1. o.op \in {"merge", "replace", "create"} => Settable(o.path)
  <2>1. <<o.path, "refused">> \notin objections
    OBVIOUS
  <2>2. <<o.path, "invalid">> \notin objections
    BY DEF Test
  <2> QED BY <2>1, <2>2 DEF Settable
<1>2. Set(o, t).ok
  <2>1. CASE o.op \in {"merge", "replace"}
    BY <1>1, <2>1 DEF Set, MergeNode, SetNode, Outcome
  <2>2. CASE o.op = "create"
    BY <1>1, <2>2 DEF Set, SetNode, Outcome, Test
  <2>3. CASE o.op \in {"delete", "remove", "notset"}
    BY <2>3 DEF Set, Outcome, Test
  <2> QED BY <2>1, <2>2, <2>3 DEF Attr
<1>3. Auth(o, t)
  BY DEF Test
<1> QED BY <1>2, <1>3 DEF Perform, Option, Outcome

\* Two operations of a request whose operations are independent.
LEMMA IndependentApart ==
  ASSUME Document(doc), op \in [DOMAIN doc -> Attr], ops = Operations(doc, op), Independent,
         NEW k \in DOMAIN ops, NEW l \in DOMAIN ops, k # l
  PROVE  Apart(ops[k].path, ops[l].path)
<1> DEFINE i == Order(doc, op)[k]
           j == Order(doc, op)[l]
<1>1. /\ i \in Emits(doc, op) /\ j \in Emits(doc, op) /\ i # j
      /\ ops[k].path = doc[i].path /\ ops[l].path = doc[j].path
  BY OperationsType, OrderIs
<1> HIDE DEF i, j
<1>2. ~Related(i, j) /\ ~Rivalry(i, j) /\ ~Rivalry(j, i)
  BY <1>1 DEF Independent
<1>3. Chain(i) = Up(doc[i].path) /\ Chain(j) = Up(doc[j].path)
  BY DEF Chain, Up
<1> QED BY <1>1, <1>2, <1>3 DEF Apart, Related, Rivalry

RollbackInv ==
  err = "rollback-on-error" /\ (\A o \in objections : o[2] # "refused") =>
    /\ phase = "test" => tree = before
    /\ phase = "perform" /\ Independent =>
         failed = {} /\ \A k \in next..Len(ops) : Test(ops[k], tree)
    /\ phase = "ok" /\ Independent => failed = {}
    /\ phase = "error" => failed = {} /\ tree = before

LEMMA RollbackPerform ==
  ASSUME TypeInv, RollbackInv, PerformNext
  PROVE  RollbackInv'
<1> DEFINE o == ops[next]
           out == Perform(o, tree)
<1>1. /\ phase = "perform" /\ next <= Len(ops) /\ next' = next + 1
      /\ tree' = out.tree
      /\ failed' = IF out.ok THEN failed ELSE failed \cup {next}
      /\ phase' = IF ~out.ok /\ err = "stop-on-error" THEN "error" ELSE "perform"
      /\ UNCHANGED <<objections, doc, op, test, err, before, ops>>
  BY DEF PerformNext, request
<1>2. /\ Document(doc) /\ op \in [DOMAIN doc -> Attr] /\ ops = Operations(doc, op)
      /\ ops \in Seq([op : Attr, path : Node]) /\ next \in 1..Len(ops) + 1
      /\ test \in Option
  BY <1>1 DEF TypeInv, RequestInv, TypeOK, LoopInv, Option
<1>3. DOMAIN ops = 1..Len(ops) /\ Len(ops) \in Nat
      /\ \A k \in DOMAIN ops : ops[k].op \in Attr /\ ops[k].path \in Node
  <2>1. \A k \in DOMAIN ops : ops[k] \in [op : Attr, path : Node]
    BY <1>2, ElementOf
  <2> QED BY <1>2, <2>1
<1>4. next \in DOMAIN ops
  BY <1>1, <1>2, <1>3
<1>5. Effect(o, tree, out.tree)
  BY <1>2, <1>3, <1>4, PerformEffect
<1> SUFFICES ASSUME err = "rollback-on-error", \A x \in objections : x[2] # "refused", Independent
             PROVE  failed' = {} /\ \A k \in (next + 1)..Len(ops) : Test(ops[k], out.tree)
  <2>1. Independent' = Independent
    BY <1>1 DEF Independent, Related, Rivalry, Chain
  <2>2. \A k \in (next + 1)..Len(ops) : Test(ops[k], out.tree) => Test(ops[k], tree)'
    BY <1>1 DEF Test, Auth
  <2> QED BY <1>1, <2>1, <2>2 DEF RollbackInv
<1>6. failed = {} /\ \A k \in next..Len(ops) : Test(ops[k], tree)
  BY <1>1 DEF RollbackInv
<1>7. Test(o, tree)
  BY <1>2, <1>3, <1>4, <1>6
<1>8. out.ok
  BY <1>2, <1>3, <1>4, <1>7, TestedIsPerformed DEF Independent
<1> HIDE DEF out, o
<1>9. ASSUME NEW k \in (next + 1)..Len(ops) PROVE Test(ops[k], out.tree)
  <2>1. k \in DOMAIN ops /\ k # next /\ k \in next..Len(ops)
    BY <1>2, <1>3, <1>4
  <2>2. Apart(o.path, ops[k].path)
    BY <1>2, <1>4, <2>1, IndependentApart DEF o
  <2>3. Exists(ops[k].path, out.tree) <=> Exists(ops[k].path, tree)
    BY <1>3, <1>4, <1>5, <2>1, <2>2, EffectKeepsApart DEF o
  <2> QED BY <1>6, <2>1, <2>3, TestSame
<1> QED BY <1>1, <1>6, <1>8, <1>9

LEMMA RollbackStep == TypeInv /\ RollbackInv /\ [Next]_vars => RollbackInv'
<1> SUFFICES ASSUME TypeInv, RollbackInv, [Next]_vars PROVE RollbackInv'
  OBVIOUS
<1>1. CASE \E r \in Requests(objections) :
             \E a \in [DOMAIN r.doc -> Attr] : Request(r.doc, a, r.default, r.test, r.err)
  <2>1. PICK r \in Requests(objections) :
          \E a \in [DOMAIN r.doc -> Attr] : Request(r.doc, a, r.default, r.test, r.err)
    BY <1>1
  <2>2. /\ phase = "idle" /\ err' = r.err /\ before' = tree /\ tree' = tree /\ failed' = failed
        /\ phase' \in {"error", IF r.err = "rollback-on-error" THEN "test" ELSE "perform"}
    BY <2>1 DEF Request
  <2>3. failed = {}
    BY <2>2 DEF TypeInv, RequestInv
  <2> QED BY <2>2, <2>3 DEF RollbackInv
<1>2. CASE Prevalidate
  <2>1. /\ phase = "test"
        /\ phase' = IF \A k \in DOMAIN ops : Test(ops[k], tree) THEN "perform" ELSE "error"
        /\ UNCHANGED <<objections, tree, before, doc, op, test, err, ops, next, failed>>
    BY <1>2 DEF Prevalidate, request
  <2>2. failed = {} /\ next \in 1..Len(ops) + 1 /\ DOMAIN ops = 1..Len(ops) /\ Len(ops) \in Nat
    BY <2>1, ElementOf DEF TypeInv, LoopInv, TypeOK
  <2>3. next..Len(ops) \subseteq DOMAIN ops
    BY <2>2
  <2>4. phase' = "perform" => \A k \in next..Len(ops) : Test(ops[k], tree)'
    BY <2>1, <2>3 DEF Test, Auth
  <2> QED BY <2>1, <2>2, <2>4 DEF RollbackInv
<1>3. CASE PerformNext
  BY <1>3, RollbackPerform
<1>4. CASE Performed
  <2>1. /\ phase = "perform"
        /\ phase' = IF failed # {} /\ err = "continue-on-error" THEN "error" ELSE "ok"
        /\ UNCHANGED <<objections, tree, before, doc, op, test, err, ops, next, failed>>
    BY <1>4 DEF Performed, request
  <2>2. Independent' = Independent
    BY <2>1 DEF Independent, Related, Rivalry, Chain
  <2> QED BY <2>1, <2>2 DEF RollbackInv
<1>5. CASE Reply
  BY <1>5 DEF Reply, RollbackInv
<1>6. CASE UNCHANGED vars
  BY <1>6 DEF vars, request, RollbackInv, Independent, Related, Rivalry, Chain, Test, Auth
<1> QED BY <1>1, <1>2, <1>3, <1>4, <1>5, <1>6 DEF Next

\* "We can't rollback, but we can prevalidate": with rollback-on-error, for any
\* schema and document whose operations do not depend on each other, and if no
\* script objects, all operations are performed or none.
THEOREM RollbackWhereIndependent == Spec => []RollbackIfIndependent
<1>1. Init => RollbackInv
  BY DEF Init, RollbackInv
<1>2. RollbackInv => RollbackIfIndependent
  BY DEF RollbackInv, RollbackIfIndependent
<1> QED BY <1>1, <1>2, TypeInit, TypeStep, RollbackStep, PTL DEF Spec

-----------------------------------------------------------------------------
\* What an edit that succeeds does.

Path(i) == doc[i].path
Em == Emits(doc, op)
Gone == {i \in Em : Deletes(op[i])}
Stay == {i \in Em : Stays(i) /\ doc[i].in \cap Gone = {}}
Made(n) == \E i \in Em : Stays(i) /\ n \in Up(Path(i))
Touched == {n \in Node : \E i \in Em : n \in Below(Path(i)) \/ n \in Up(Path(i))}
Replaced == {n \in Node : \E m \in Up(n), k \in Touched : Rivals(m, k)}

\* The meaning of the elements in the set done, when they have made t of before.
Meaning(done, t) ==
  /\ \A i \in Gone \cap done : Below(Path(i)) \cap t = {}
  /\ \A i \in Stay \cap done : Exists(Path(i), t)
  /\ \A i \in Em \cap done : op[i] = "replace" => \A n \in Below(Path(i)) \cap t : Made(n)
  /\ \A n \in Node \ (Touched \cup Replaced) : n \in t <=> n \in before

Done(n) == {Order(doc, op)[k] : k \in 1..(n - 1)}

RequestKnown == Document(doc) /\ op \in [DOMAIN doc -> Attr] /\ ops = Operations(doc, op)

LEMMA EmPaths ==
  ASSUME RequestKnown, NEW i \in Em
  PROVE  /\ i \in DOMAIN doc /\ Path(i) \in Node /\ op[i] \in Attr /\ Chain(i) = Up(Path(i))
         /\ \A j \in doc[i].in : j \in DOMAIN doc /\ Path(j) \in Above[Path(i)]
<1>1. i \in Visited(doc, op) /\ i \in DOMAIN doc
  BY DEF Em, Emits, Visited
<1>2. doc[i] \in [path : Node, in : SUBSET Nat]
  BY <1>1, ElementOf DEF RequestKnown, Document
<1>3. \A j \in doc[i].in : j \in DOMAIN doc /\ Kind[doc[j].path] # "unknown"
  BY <1>1, Nesting DEF RequestKnown, Visited
<1>4. \A j \in doc[i].in : Path(j) \in Above[Path(i)]
  BY <1>1, <1>3 DEF RequestKnown, Document, Path
<1> QED BY <1>1, <1>2, <1>3, <1>4 DEF RequestKnown, Path, Chain, Up

\* An element that stays and encloses others is of a node that exists by itself.
LEMMA EnclosingIsExplicit ==
  ASSUME RequestKnown, NEW i \in Em, Stays(i), NEW j \in Em, i \in doc[j].in
  PROVE  ~Implicit(Path(i))
<1>1. ~Deletes(op[i])
  BY DEF Stays, Deletes
<1>2. j \in DOMAIN doc
  BY EmPaths
<1> QED BY <1>1, <1>2 DEF Em, Emits, Implicit, Path

\* Two elements, of which i was performed before j.
LEMMA InOrder ==
  ASSUME RequestKnown, Consistent, NEW i \in Em, NEW j \in Em, i # j,
         Precedes(doc, op, i, j)
  PROVE  \/ /\ Path(i) \notin Up(Path(j)) /\ Path(j) \notin Up(Path(i))
            /\ Stays(i) /\ Stays(j) =>
                 \A m \in Up(Path(i)), n \in Up(Path(j)) : ~Rivals(m, n)
         \/ i \in doc[j].in /\ ~Deletes(op[i]) /\ Path(i) \in Above[Path(j)]
         \/ j \in doc[i].in /\ Deletes(op[j]) /\ Path(j) \in Above[Path(i)]
<1>1. i \in DOMAIN doc /\ j \in DOMAIN doc
  BY EmPaths
<1>2. CASE i \in doc[j].in
  BY <1>2, EmPaths DEF Precedes
<1>3. CASE j \in doc[i].in
  <2>1. i \notin doc[j].in
    BY <1>1, <1>3, Nesting DEF RequestKnown
  <2> QED BY <1>3, <2>1, EmPaths DEF Precedes
<1>4. CASE i \notin doc[j].in /\ j \notin doc[i].in
  <2>1. ~Related(i, j) /\ ~(Rivalry(i, j) /\ Stays(i) /\ Stays(j))
    BY <1>4 DEF Consistent, Em
  <2> QED BY <2>1, EmPaths DEF Related, Rivalry, Path
<1> QED BY <1>2, <1>3, <1>4

\* A performed operation that did not fail.
LEMMA SetOk ==
  ASSUME NEW o, o.op \in Attr, o.path \in Node, NEW t, Set(o, t).ok, NEW u, u = Set(o, t).tree
  PROVE  \/ o.op = "notset" /\ u = t
         \/ Deletes(o.op) /\ u = Without(o.path, t)
         \/ o.op = "merge" /\ u = t /\ Exists(o.path, t)
         \/ o.op \in {"merge", "create"} /\ u = With(o.path, t) /\ ~Implicit(o.path)
         \/ o.op = "replace" /\ u = With(o.path, Without(o.path, t)) /\ ~Implicit(o.path)
<1>1. ~Exists(o.path, Without(o.path, t))
  BY BelowIsUp DEF Exists, Without
<1>2. CASE o.op = "merge"
  BY <1>2 DEF Set, MergeNode, SetNode, Settable, Outcome
<1>3. CASE o.op = "replace"
  BY <1>1, <1>3 DEF Set, MergeNode, SetNode, Settable, Outcome
<1>4. CASE o.op = "create"
  BY <1>4 DEF Set, SetNode, Settable, Outcome
<1>5. CASE o.op \in {"delete", "remove", "notset"}
  BY <1>5 DEF Set, Deletes, Outcome
<1> QED BY <1>2, <1>3, <1>4, <1>5 DEF Attr

\* What the operation of element j can change: it takes away what is below its
\* path, if it deletes or replaces, or what it ousts; it adds only what it makes.
LEMMA OkChanges ==
  ASSUME RequestKnown, NEW j \in Em, NEW o, o = [op |-> op[j], path |-> Path(j)],
         NEW t, Set(o, t).ok, NEW u, u = Set(o, t).tree, NEW m \in Node
  PROVE  /\ m \in u /\ m \notin t => Stays(j) /\ m \in Up(Path(j)) /\ ~Implicit(m)
         /\ m \in t /\ m \notin u => \/ Path(j) \in Up(m)
                                     \/ Stays(j) /\ m \in Ousted(Path(j))
<1>1. Path(j) \in Node /\ op[j] \in Attr
  BY EmPaths
<1>2. o.op = op[j] /\ o.path = Path(j)
  OBVIOUS
<1>3. \A x : With(Path(j), x) = (x \ Ousted(Path(j))) \cup {k \in Up(Path(j)) : ~Implicit(k)}
  BY <1>1, WithIs
<1>4. \A x : m \in Without(Path(j), x) <=> m \in x /\ Path(j) \notin Up(m)
  BY <1>1, BelowIsUp DEF Without
<1> QED BY <1>1, <1>2, <1>3, <1>4, SetOk DEF Stays
\* One more element is performed.
LEMMA MeaningStep ==
  ASSUME RequestKnown, Consistent, NEW done, done \subseteq Em, NEW j \in Em, j \notin done,
         \A i \in done : Precedes(doc, op, i, j),
         NEW o, o = [op |-> op[j], path |-> Path(j)],
         NEW t, Set(o, t).ok, NEW u, u = Set(o, t).tree, Meaning(done, t)
  PROVE  Meaning(done \cup {j}, u)
<1>1. Path(j) \in Node /\ op[j] \in Attr /\ o.op = op[j] /\ o.path = Path(j)
  BY EmPaths
<1>2. \/ op[j] = "notset" /\ u = t
      \/ Deletes(op[j]) /\ u = Without(Path(j), t)
      \/ op[j] = "merge" /\ u = t /\ Exists(Path(j), t)
      \/ op[j] \in {"merge", "create"} /\ u = With(Path(j), t) /\ ~Implicit(Path(j))
      \/ op[j] = "replace" /\ u = With(Path(j), Without(Path(j), t)) /\ ~Implicit(Path(j))
  BY <1>1, SetOk
<1>3. \A m \in Node :
        /\ m \in u /\ m \notin t => Stays(j) /\ m \in Up(Path(j)) /\ ~Implicit(m)
        /\ m \in t /\ m \notin u => Path(j) \in Up(m) \/ (Stays(j) /\ m \in Ousted(Path(j)))
  BY OkChanges
<1>4. \A i \in done : i \in Em /\ i # j /\ Path(i) \in Node
  BY EmPaths
<1>5. ASSUME NEW i \in Gone \cap (done \cup {j}), NEW m \in Below(Path(i)), m \in u
      PROVE  FALSE
  <2>1. CASE i = j
    <3>1. u = Without(Path(j), t)
      BY <1>2, <1>5, <2>1 DEF Gone, Deletes
    <3> QED BY <1>5, <2>1, <3>1 DEF Without
  <2>2. CASE i # j
    <3>1. i \in done /\ i \in Em /\ Path(i) \in Node /\ Deletes(op[i]) /\ m \in Node
          /\ Path(i) \in Up(m) /\ m \notin t
      BY <1>4, <1>5, <2>2, BelowIsUp DEF Meaning, Gone
    <3>2. Path(i) \in Up(Path(j))
      BY <1>1, <1>3, <1>5, <3>1, UpTransitive
    <3>3. Path(j) \in Above[Path(i)]
      BY <2>2, <3>1, <3>2, InOrder
    <3> QED BY <1>1, <3>1, <3>2, <3>3, UpAntisymmetric, SchemaAssumption DEF Up
  <2> QED BY <2>1, <2>2
<1>6. ASSUME NEW i \in Stay \cap (done \cup {j})
      PROVE  Exists(Path(i), u)
  <2>1. CASE i = j
    <3>1. Stays(j)
      BY <1>6, <2>1 DEF Stay
    <3>2. CASE u = t /\ Exists(Path(j), t)
      BY <2>1, <3>2
    <3>3. CASE ~Implicit(Path(j)) /\ \E x : u = With(Path(j), x)
      BY <1>1, <2>1, <3>3, WithIs DEF Exists, Up
    <3> QED BY <1>2, <3>1, <3>2, <3>3 DEF Stays, Deletes
  <2>2. CASE i # j
    <3>1. /\ i \in done /\ i \in Em /\ Path(i) \in Node /\ Stays(i) /\ Exists(Path(i), t)
          /\ doc[i].in \cap Gone = {}
      BY <1>4, <1>6, <2>2 DEF Meaning, Stay
    <3>2. CASE i \in doc[j].in /\ Path(i) \in Above[Path(j)]
      <4>1. ~Implicit(Path(i)) /\ Path(i) \in t
        BY <3>1, <3>2, EnclosingIsExplicit DEF Exists
      <4>2. Path(j) \notin Up(Path(i))
        BY <1>1, <3>1, <3>2, UpAntisymmetric, SchemaAssumption DEF Up
      <4>3. Path(i) \notin Ousted(Path(j))
        <5> SUFFICES ASSUME NEW k \in Up(Path(j)), NEW r \in Up(Path(i)), Rivals(r, k) PROVE FALSE
          BY DEF Ousted
        <5>1. Path(i) \in Up(Path(j))
          BY <3>2 DEF Up
        <5>2. r \in Up(Path(j))
          BY <1>1, <5>1, UpTransitive
        <5> QED BY <1>1, <5>2, NoRivalsInChain
      <4> QED BY <1>3, <3>1, <4>1, <4>2, <4>3 DEF Exists
    <3>3. CASE j \in doc[i].in /\ Deletes(op[j])
      BY <3>1, <3>3 DEF Gone
    <3>4. CASE /\ Path(i) \notin Up(Path(j)) /\ Path(j) \notin Up(Path(i))
               /\ Stays(j) => \A m \in Up(Path(i)), n \in Up(Path(j)) : ~Rivals(m, n)
      <4>1. ASSUME NEW m \in Below(Path(i)), m \in t PROVE m \in u
        <5>1. m \in Node /\ Path(i) \in Up(m)
          BY <3>1, BelowIsUp
        <5>2. Path(j) \notin Up(m)
          BY <1>1, <3>4, <5>1, UpIsChain
        <5>3. Stays(j) => Apart(Path(j), Path(i))
          BY <1>1, <3>1, <3>4, RivalsAreSiblings, UpTransitive DEF Apart, Up
        <5>4. Stays(j) => m \in With(Path(j), t)
          BY <1>1, <3>1, <4>1, <5>3, ApartKept
        <5>5. Stays(j) => m \notin Ousted(Path(j)) \/ m \in Up(Path(j))
          BY <1>1, <5>4, WithIs
        <5>6. m \notin Up(Path(j))
          BY <1>1, <3>4, <5>1, UpTransitive
        <5> QED BY <1>3, <4>1, <5>1, <5>2, <5>5, <5>6
      <4>2. Path(i) \in Below(Path(i))
        BY <3>1, BelowIsUp
      <4> QED BY <3>1, <4>1, <4>2 DEF Exists
    <3> QED BY <2>2, <3>1, <3>2, <3>3, <3>4, InOrder
  <2> QED BY <2>1, <2>2
<1>7. ASSUME NEW i \in Em \cap (done \cup {j}), op[i] = "replace",
             NEW m \in Below(Path(i)), m \in u
      PROVE  Made(m)
  <2>1. m \in Node /\ Path(i) \in Node
    BY <1>7, EmPaths, BelowIsUp
  <2>2. CASE m \notin t
    BY <1>3, <1>7, <2>1, <2>2 DEF Made
  <2>3. CASE m \in t /\ i # j
    BY <1>7, <2>3 DEF Meaning
  <2>4. CASE m \in t /\ i = j
    <3>1. u = With(Path(j), Without(Path(j), t))
      BY <1>2, <1>7, <2>4 DEF Deletes
    <3>2. m \in Up(Path(j))
      BY <1>1, <1>7, <2>4, <3>1, WithIs DEF Without
    <3> QED BY <1>7, <2>4, <3>2 DEF Made, Stays
  <2> QED BY <2>2, <2>3, <2>4
<1>8. ASSUME NEW m \in Node \ (Touched \cup Replaced)
      PROVE  m \in u <=> m \in before
  <2>1. m \notin Up(Path(j)) /\ Path(j) \notin Up(m)
    BY <1>1, <1>8, BelowIsUp DEF Touched
  <2>2. m \notin Ousted(Path(j))
    <3> SUFFICES ASSUME NEW k \in Up(Path(j)), NEW r \in Up(m), Rivals(r, k) PROVE FALSE
      BY DEF Ousted
    <3>1. k \in Touched
      BY <1>1, UpTransitive DEF Touched, Up
    <3> QED BY <1>8, <3>1 DEF Replaced
  <2>3. m \in u <=> m \in t
    BY <1>3, <2>1, <2>2
  <2> QED BY <2>3 DEF Meaning
<1> QED BY <1>5, <1>6, <1>7, <1>8 DEF Meaning

MeaningInv ==
  /\ phase = "test" => tree = before /\ next = 1
  /\ phase \in {"perform", "ok"} /\ failed = {} /\ test # "test-only" /\ Consistent =>
       Meaning(Done(next), tree)
  /\ phase = "ok" => next > Len(ops)

LEMMA DoneOrder ==
  ASSUME RequestKnown, NEW n \in 1..Len(ops) + 1
  PROVE  /\ Done(n) \subseteq Em
         /\ n = Len(ops) + 1 => Done(n) = Em
         /\ n <= Len(ops) =>
              LET j == Order(doc, op)[n]
              IN  /\ j \in Em /\ j \notin Done(n) /\ Done(n + 1) = Done(n) \cup {j}
                  /\ \A i \in Done(n) : Precedes(doc, op, i, j)
                  /\ ops[n] = [op |-> op[j], path |-> Path(j)]
<1> DEFINE s == Order(doc, op)
<1>1. /\ ops \in Seq([op : Attr, path : Node]) /\ DOMAIN ops = DOMAIN s
      /\ \A k \in DOMAIN ops : s[k] \in Em /\ ops[k] = [op |-> op[s[k]], path |-> Path(s[k])]
  <2>1. Document(doc) /\ op \in [DOMAIN doc -> Attr] /\ ops = Operations(doc, op)
    BY DEF RequestKnown
  <2>2. Operations(doc, op) \in Seq([op : Attr, path : Node]) /\ DOMAIN Operations(doc, op) = DOMAIN s
    BY <2>1, OperationsType
  <2>3. ASSUME NEW k \in DOMAIN Operations(doc, op)
        PROVE  /\ s[k] \in Emits(doc, op)
               /\ Operations(doc, op)[k] = [op |-> op[s[k]], path |-> doc[s[k]].path]
    BY <2>1, OperationsType
  <2> HIDE DEF s
  <2> QED BY <2>1, <2>2, <2>3 DEF Em, Path
<1>2. /\ \A k, l \in DOMAIN s : k < l => Precedes(doc, op, s[k], s[l])
      /\ \A k, l \in DOMAIN s : k # l => s[k] # s[l]
      /\ \A i \in Em : \E k \in DOMAIN s : s[k] = i
  BY OrderIs DEF RequestKnown, Em
<1>3. DOMAIN s = 1..Len(ops) /\ Len(ops) \in Nat
  BY <1>1, ElementOf
<1>4. \A m : Done(m) = {s[k] : k \in 1..(m - 1)}
  BY DEF Done
<1> HIDE DEF s
<1>5. Done(n) \subseteq Em
  BY <1>1, <1>3, <1>4
<1>6. ASSUME n = Len(ops) + 1 PROVE Em \subseteq Done(n)
  BY <1>2, <1>3, <1>4, <1>6
<1>7. ASSUME n <= Len(ops)
      PROVE  /\ s[n] \in Em /\ s[n] \notin Done(n) /\ Done(n + 1) = Done(n) \cup {s[n]}
             /\ \A i \in Done(n) : Precedes(doc, op, i, s[n])
             /\ ops[n] = [op |-> op[s[n]], path |-> Path(s[n])]
  <2>1. n \in DOMAIN s /\ n + 1 \in Nat /\ 1..(n + 1 - 1) = 1..(n - 1) \cup {n}
    BY <1>3, <1>7
  <2>2. \A k \in 1..(n - 1) : k \in DOMAIN s /\ k < n
    BY <1>3, <1>7
  <2>3. Done(n + 1) = Done(n) \cup {s[n]}
    BY <1>4, <2>1
  <2> QED BY <1>1, <1>2, <1>4, <2>1, <2>2, <2>3
<1> QED BY <1>5, <1>6, <1>7 DEF s

LEMMA MeaningPerform ==
  ASSUME TypeInv, MeaningInv, PerformNext
  PROVE  MeaningInv'
<1> DEFINE o == ops[next]
           out == Perform(o, tree)
           j == Order(doc, op)[next]
<1>1. /\ phase = "perform" /\ next <= Len(ops) /\ next' = next + 1
      /\ tree' = out.tree
      /\ failed' = IF out.ok THEN failed ELSE failed \cup {next}
      /\ phase' \in {"error", "perform"}
      /\ UNCHANGED <<objections, doc, op, test, err, before, ops>>
  BY DEF PerformNext, request
<1>2. RequestKnown /\ next \in 1..Len(ops) + 1 /\ test \in Option
  BY <1>1 DEF TypeInv, RequestInv, TypeOK, LoopInv, RequestKnown, Option
<1> SUFFICES ASSUME out.ok, failed = {}, test # "test-only", Consistent
             PROVE  Meaning(Done(next + 1), out.tree)
  <2>1. Consistent' = Consistent
    BY <1>1 DEF Consistent, Related, Rivalry, Chain, Stays
  <2>2. Meaning(Done(next + 1), out.tree) => Meaning(Done(next), tree)'
    BY <1>1 DEF Meaning, Done, Gone, Stay, Em, Path, Made, Touched, Replaced, Stays
  <2>3. failed' = {} => failed = {} /\ out.ok
    BY <1>1
  <2> QED BY <1>1, <2>1, <2>2, <2>3 DEF MeaningInv
<1>3. Meaning(Done(next), tree)
  BY <1>1 DEF MeaningInv
<1>4. /\ Done(next) \subseteq Em /\ j \in Em /\ j \notin Done(next)
      /\ Done(next + 1) = Done(next) \cup {j}
      /\ \A i \in Done(next) : Precedes(doc, op, i, j)
      /\ o = [op |-> op[j], path |-> Path(j)]
  BY <1>1, <1>2, DoneOrder
<1>5. Set(o, tree).ok /\ out.tree = Set(o, tree).tree
  BY <1>2 DEF Perform, Option, Outcome
<1> HIDE DEF o, out, j
<1>6. Meaning(Done(next) \cup {j}, out.tree)
  BY <1>2, <1>3, <1>4, <1>5, MeaningStep
<1> QED BY <1>4, <1>6

LEMMA MeaningNext == TypeInv /\ MeaningInv /\ [Next]_vars => MeaningInv'
<1> SUFFICES ASSUME TypeInv, MeaningInv, [Next]_vars PROVE MeaningInv'
  OBVIOUS
<1>0. TypeInv'
  BY TypeStep
<1>1. ASSUME phase' = "perform", next' = 1, tree' = before' PROVE Meaning(Done(next), tree)'
  <2>1. Done(next)' = {}
    BY <1>1 DEF Done
  <2> QED BY <1>1, <2>1 DEF Meaning
<1>2. CASE \E r \in Requests(objections) :
             \E a \in [DOMAIN r.doc -> Attr] : Request(r.doc, a, r.default, r.test, r.err)
  <2>1. before' = tree /\ tree' = tree /\ next' = 1 /\ phase' \in {"error", "test", "perform"}
    BY <1>2 DEF Request
  <2> QED BY <1>1, <2>1 DEF MeaningInv
<1>3. CASE Prevalidate
  <2>1. /\ phase = "test" /\ phase' \in {"perform", "error"}
        /\ UNCHANGED <<tree, before, next>>
    BY <1>3 DEF Prevalidate, request
  <2> QED BY <1>1, <2>1 DEF MeaningInv
<1>4. CASE PerformNext
  BY <1>4, MeaningPerform
<1>5. CASE Performed
  <2>1. /\ phase = "perform" /\ phase' \in {"ok", "error"} /\ next > Len(ops)
        /\ UNCHANGED <<objections, tree, before, doc, op, test, err, ops, next, failed>>
    BY <1>5 DEF Performed, request
  <2>2. Consistent' = Consistent
    BY <2>1 DEF Consistent, Related, Rivalry, Chain, Stays
  <2>3. Meaning(Done(next), tree) => Meaning(Done(next), tree)'
    BY <2>1 DEF Meaning, Done, Gone, Stay, Em, Path, Made, Touched, Replaced, Stays
  <2> QED BY <2>1, <2>2, <2>3 DEF MeaningInv
<1>6. CASE Reply
  BY <1>6 DEF Reply, MeaningInv
<1>7. CASE UNCHANGED vars
  BY <1>7 DEF vars, request, MeaningInv, Consistent, Related, Rivalry, Chain, Stays,
              Meaning, Done, Gone, Stay, Em, Path, Made, Touched, Replaced
<1> QED BY <1>2, <1>3, <1>4, <1>5, <1>6, <1>7 DEF Next

LEMMA MeaningIsMeaning ==
  ASSUME TypeInv, MeaningInv
  PROVE  HasMeaning
<1> SUFFICES ASSUME phase = "ok", failed = {}, test # "test-only", Consistent
             PROVE  HasMeaning
  BY DEF HasMeaning
<1>1. RequestKnown /\ next \in 1..Len(ops) + 1 /\ next > Len(ops) /\ Len(ops) \in Nat
  BY ElementOf DEF TypeInv, RequestInv, TypeOK, RequestKnown, MeaningInv
<1>2. Done(next) = Em
  <2>1. next = Len(ops) + 1
    BY <1>1
  <2> QED BY <1>1, <2>1, DoneOrder
<1>3. Meaning(Em, tree)
  BY <1>2 DEF MeaningInv
<1>4. \A i \in Em : doc[i].path = Path(i) /\ Path(i) \in Node
  BY <1>1, EmPaths DEF Path
<1> DEFINE touched == UNION {Below(n) \cup Above[n] : n \in {doc[i].path : i \in Em}}
           ousted == UNION {Below(n) : n \in {m \in Node : \E k \in touched : Rivals(m, k)}}
<1>5. Touched \subseteq touched
  <2> SUFFICES ASSUME NEW n \in Touched PROVE n \in touched
    OBVIOUS
  <2>1. PICK i \in Em : n \in Below(Path(i)) \/ n \in Up(Path(i))
    BY DEF Touched
  <2>2. n \in Below(Path(i)) \cup Above[Path(i)]
    BY <1>4, <2>1, BelowIsUp DEF Up
  <2> QED BY <1>4, <2>2
<1>6. Replaced \subseteq ousted
  <2> SUFFICES ASSUME NEW n \in Replaced PROVE n \in ousted
    OBVIOUS
  <2>1. PICK m \in Up(n), k \in Touched : Rivals(m, k)
    BY DEF Replaced
  <2>2. m \in Node /\ n \in Below(m)
    BY <2>1, UpTransitive, BelowIsUp DEF Replaced, Up
  <2> QED BY <1>5, <2>1, <2>2
<1> HIDE DEF touched, ousted
<1>7. \A n \in Node \ (touched \cup ousted) : n \in tree <=> n \in before
  BY <1>3, <1>5, <1>6 DEF Meaning
<1>8. \A i \in Em : op[i] = "replace" => \A n \in Below(doc[i].path) \cap tree :
        \E k \in Em : Stays(k) /\ n \in {doc[k].path} \cup Above[doc[k].path]
  BY <1>3, <1>4 DEF Meaning, Made, Up
<1>9. /\ \A i \in Gone : Below(doc[i].path) \cap tree = {}
      /\ \A i \in Stay : Exists(doc[i].path, tree)
  BY <1>3, <1>4 DEF Meaning, Gone, Stay
<1> QED BY <1>7, <1>8, <1>9 DEF HasMeaning, touched, ousted, Em, Gone, Stay

\* An edit-config that answers ok has the meaning of its document, for any schema
\* and any document whose elements contradict each other only where one
\* encloses the other, in whatever order traverseSubtree puts its operations.
THEOREM EditHasMeaning == Spec => []HasMeaning
<1>1. Init => MeaningInv
  BY DEF Init, MeaningInv
<1>2. TypeInv /\ MeaningInv => HasMeaning
  BY MeaningIsMeaning
<1> QED BY <1>1, <1>2, TypeInit, TypeStep, MeaningNext, PTL DEF Spec
=============================================================================
