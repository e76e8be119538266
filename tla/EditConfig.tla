------------------------------ MODULE EditConfig ------------------------------
(***************************************************************************)
(* NETCONF edit-config on a session's candidate (session/edit_config.go):  *)
(* the traversal that turns the XML document into a list of operations,    *)
(* the prevalidation that stands in for rollback-on-error, and the         *)
(* operations with their test and error options.                           *)
(*                                                                         *)
(* A document is a sequence of elements in document order, each with its   *)
(* schema path and the indices of the elements that enclose it.  What      *)
(* other clients do while an operation waits for scripts is in Session.    *)
(***************************************************************************)
EXTENDS Naturals, Sequences, SequencesExt, FiniteSets

CONSTANTS Node,        \* schema paths, values of leaves included
          Kind,        \* container (no presence), presence, list (without key),
                       \* entry, leaf; unknown or foreign to the schema
          Above,       \* node -> the nodes it is contained in
          OtherValue,  \* leaf value -> the other values of its leaf
          OtherCase,   \* node -> its siblings in other cases of the choice
          Objections,  \* <<node, why>>, of which at most one applies: the user
                       \* lacks a permission, the schema finds the path
                       \* invalid, or only its scripts refuse it
          Requests(_)  \* the requests made when those objections apply:
                       \* [doc, default, test, err], where doc is a sequence of
                       \* [path, in], "in" the enclosing elements

Attr == {"notset", "merge", "replace", "create", "delete", "remove"}
Why == {"create", "update", "delete", "invalid", "refused"}
ASSUME EditAssumption ==
  /\ Kind \in [Node -> {"container", "presence", "list", "entry", "leaf",
                        "unknown", "foreign"}]
  /\ Above \in [Node -> SUBSET Node]
  /\ OtherValue \in [Node -> SUBSET Node] /\ OtherCase \in [Node -> SUBSET Node]
  /\ Objections \subseteq Node \X Why
  /\ \A o \in {{}} \cup {{o} : o \in Objections} : \A r \in Requests(o) :
       /\ r.default \in {"merge", "replace", "none"}
       /\ r.test \in {"test-then-set", "set", "test-only"}
       /\ r.err \in {"stop-on-error", "continue-on-error", "rollback-on-error"}

\* The schema is a tree, in which other values and other cases are siblings.
ASSUME SchemaAssumption ==
  \A n \in Node :
    /\ n \notin Above[n]
    /\ \A m \in Above[n] : Above[m] \subseteq Above[n]
    /\ \A l, m \in Above[n] : l = m \/ l \in Above[m] \/ m \in Above[l]
    /\ \A m \in OtherValue[n] \cup OtherCase[n] :
         m # n /\ Above[m] = Above[n] /\ n \in OtherValue[m] \cup OtherCase[m]

\* Elements are nested, and an element is of a node below those of the elements
\* that enclose it, as far as the schema knows them.
Document(d) ==
  /\ d \in Seq([path : Node, in : SUBSET Nat])
  /\ \A i \in DOMAIN d : \A j \in d[i].in :
       /\ j \in 1..(i - 1) /\ d[j].in \subseteq d[i].in
       /\ \A k \in (j + 1)..i : j \in d[k].in
       /\ Kind[d[j].path] # "unknown" => d[j].path \in Above[d[i].path]

ASSUME DocumentAssumption ==
  \A o \in {{}} \cup {{o} : o \in Objections} : \A r \in Requests(o) : Document(r.doc)

VARIABLES objections,      \* the one that applies, if any
          tree, before,    \* the merged candidate, now and when asked
          doc, op,         \* the document and the operation of each element
          test, err,       \* test-option, error-option
          ops, next,       \* edit_config.ops, the one to perform next
          failed,          \* indices of operations that failed
          phase            \* "idle", "test", "perform", "ok" or "error"

request == <<before, doc, op, test, err>>
vars == <<objections, tree, request, ops, next, failed, phase>>

-----------------------------------------------------------------------------
\* Candidate trees, from how edit_config.go and its tests use union.Node:
\* containers without presence and lists exist while they have contents.

Below(n) == {m \in Node : m = n \/ n \in Above[m]}
Implicit(n) == Kind[n] \in {"container", "list"}
Exists(n, t) == IF Implicit(n) THEN Below(n) \cap t # {} ELSE n \in t
Without(n, t) == t \ Below(n)

\* Mutant: a set that keeps the leaf's other value.
WithBoth(n, t) == t \cup {m \in {n} \cup Above[n] : ~Implicit(m)}

\* A set brings the enclosing nodes with it, and ousts the leaf's other value
\* and the choice's other cases.
With(n, t) == LET new == {m \in {n} \cup Above[n] : ~Implicit(m)}
             IN  (t \ UNION {Below(m) : m \in UNION {OtherValue[k] \cup OtherCase[k] :
                                                      k \in {n} \cup Above[n]}}) \cup new

-----------------------------------------------------------------------------
\* Traversal.

default_operation_Get(o) == IF o = "none" THEN "notset" ELSE o

\* getOperation: its own attribute, or the innermost enclosing one, or the default.
getOperation(d, a, o) ==
  [i \in DOMAIN d |->
     LET own == {j \in {i} \cup d[i].in : a[j] # "notset"}
     IN  IF own = {} THEN default_operation_Get(o)
         ELSE a[CHOOSE j \in own : \A k \in own : k <= j]]

Deletes(o) == o \in {"delete", "remove"}

\* traverse does not descend into unknown elements, nor into a list without its
\* key unless the list is to be deleted.
Visited(d, f) ==
  {i \in DOMAIN d :
     \A j \in {i} \cup d[i].in :
       /\ Kind[d[j].path] # "unknown"
       /\ j # i => ~(Kind[d[j].path] = "list" /\ ~Deletes(f[j]))}

\* Visited elements that become operations.
Emits(d, f) ==
  {i \in Visited(d, f) :
     CASE Kind[d[i].path] = "container" ->
            Deletes(f[i]) \/ \A j \in DOMAIN d : i \notin d[j].in
       [] Kind[d[i].path] = "list" -> Deletes(f[i])
       [] OTHER -> TRUE}

\* Mutant: a subtree is always traversed in pre-order.
InDocumentOrder(d, f, i, j) == i < j

\* traverseSubtree: an element comes before its contents, or after them if it
\* deletes; otherwise the order is the document's.
Precedes(d, f, i, j) ==
  IF i \in d[j].in THEN ~Deletes(f[i])
  ELSE IF j \in d[i].in THEN Deletes(f[j])
  ELSE i < j

\* The elements that become operations, in the order they are added.
Order(d, f) == CHOOSE s \in SetToSeqs(Emits(d, f)) :
                  \A k, l \in DOMAIN s : k < l => Precedes(d, f, s[k], s[l])

Operations(d, f) ==
  LET order == Order(d, f)
  IN  [k \in DOMAIN order |-> [op |-> f[order[k]], path |-> d[order[k]].path]]

\* checkNode: two siblings that stay, in different cases of one choice.
ChoiceClash(d, f) ==
  \E i, j \in DOMAIN d :
    /\ i < j /\ d[i].in = d[j].in
    /\ d[i].in \subseteq Visited(d, f)
    /\ ~Deletes(f[i]) /\ ~Deletes(f[j])
    /\ d[j].path \in OtherCase[d[i].path]

WrongNamespace(d, f) == \E i \in Visited(d, f) : Kind[d[i].path] = "foreign"

-----------------------------------------------------------------------------
\* Operations.

\* The permissions Auth asks for.
Needs(o, t) ==
  CASE o.op = "merge" -> IF Exists(o.path, t) THEN {"update"} ELSE {"create"}
    [] o.op = "replace" -> {"create"} \cup {p \in {"delete"} : Exists(o.path, t)}
    [] o.op = "create" -> {"create"}
    [] Deletes(o.op) -> {"delete"}
    [] OTHER -> {}
Auth(o, t) == \A p \in Needs(o, t) : <<o.path, p>> \notin objections

\* Mutant: Test that does not look for the node.
TestAuthOnly(o, t) == Auth(o, t) /\ <<o.path, "invalid">> \notin objections

Test(o, t) == /\ Auth(o, t)
              /\ o.op = "create" => ~Exists(o.path, t)
              /\ o.op = "delete" => Exists(o.path, t)
              /\ <<o.path, "invalid">> \notin objections

\* _set: validateSetPath wants a complete path and asks the scripts.
Settable(n) == /\ ~Implicit(n)
               /\ \A why \in {"invalid", "refused"} : <<n, why>> \notin objections

Outcome(ok, t) == [ok |-> ok, tree |-> t]
SetNode(n, t) == IF Settable(n) THEN Outcome(TRUE, With(n, t)) ELSE Outcome(FALSE, t)
MergeNode(n, t) == IF Exists(n, t) THEN Outcome(TRUE, t) ELSE SetNode(n, t)

Set(o, t) ==
  CASE o.op = "merge" -> MergeNode(o.path, t)
    [] o.op = "replace" -> MergeNode(o.path, Without(o.path, t))
    [] o.op = "create" -> IF Exists(o.path, t) THEN Outcome(FALSE, t) ELSE SetNode(o.path, t)
    [] o.op = "delete" -> Outcome(Exists(o.path, t), Without(o.path, t))
    [] o.op = "remove" -> Outcome(TRUE, Without(o.path, t))
    [] o.op = "notset" -> Outcome(TRUE, t)   \* only from default-operation none

\* Mutant: test-only falls through to the set.
PerformAlways(o, t) == IF Test(o, t) THEN Set(o, t) ELSE Outcome(FALSE, t)

Perform(o, t) ==
  CASE test = "test-then-set" -> IF Test(o, t) THEN Set(o, t) ELSE Outcome(FALSE, t)
    [] test = "set" -> IF Auth(o, t) THEN Set(o, t) ELSE Outcome(FALSE, t)
    [] test = "test-only" -> Outcome(Test(o, t), t)

-----------------------------------------------------------------------------
\* EditConfig.

\* newEditConfigXML has parsed the request; the traversal comes first, and its
\* errors before any operation.
Request(d, a, o, t, e) ==
  /\ phase = "idle"
  /\ doc' = d /\ op' = getOperation(d, a, o) /\ test' = t /\ err' = e
  /\ before' = tree
  /\ LET eff == getOperation(d, a, o)
     IN  IF ChoiceClash(d, eff) \/ WrongNamespace(d, eff)
         THEN phase' = "error" /\ UNCHANGED ops
         ELSE /\ ops' = Operations(d, eff)
              /\ phase' = IF e = "rollback-on-error" THEN "test" ELSE "perform"
  /\ next' = 1
  /\ UNCHANGED <<objections, tree, failed>>

\* "We can't rollback, but we can prevalidate": every operation against the tree
\* as it is before the first.
Prevalidate ==
  /\ phase = "test"
  /\ phase' = IF \A k \in DOMAIN ops : Test(ops[k], tree) THEN "perform" ELSE "error"
  /\ UNCHANGED <<objections, tree, request, ops, next, failed>>

\* Mutant: an error never ends the loop.
PerformNextContinues ==
  /\ phase = "perform" /\ next <= Len(ops)
  /\ LET out == Perform(ops[next], tree)
     IN  /\ tree' = out.tree
         /\ failed' = IF out.ok THEN failed ELSE failed \cup {next}
  /\ next' = next + 1
  /\ UNCHANGED <<objections, request, ops, phase>>

\* One round of the loop in perform.
PerformNext ==
  /\ phase = "perform" /\ next <= Len(ops)
  /\ LET out == Perform(ops[next], tree)
     IN  /\ tree' = out.tree
         /\ failed' = IF out.ok THEN failed ELSE failed \cup {next}
         /\ phase' = IF ~out.ok /\ err = "stop-on-error" THEN "error" ELSE "perform"
  /\ next' = next + 1
  /\ UNCHANGED <<objections, request, ops>>

\* The end of the loop; only continue-on-error has collected errors.
Performed ==
  /\ phase = "perform" /\ next > Len(ops)
  /\ phase' = IF failed # {} /\ err = "continue-on-error" THEN "error" ELSE "ok"
  /\ UNCHANGED <<objections, tree, request, ops, next, failed>>

\* The reply is sent; the next request starts from the tree this one left.
Reply ==
  /\ phase \in {"ok", "error"}
  /\ phase' = "idle"
  /\ ops' = <<>> /\ next' = 1 /\ failed' = {}
  /\ before' = {} /\ doc' = <<>> /\ op' = <<>> /\ test' = "set" /\ err' = "stop-on-error"
  /\ UNCHANGED <<objections, tree>>

Init ==
  /\ objections \in {{}} \cup {{o} : o \in Objections}
  /\ tree = {} /\ before = {} /\ doc = <<>> /\ op = <<>> /\ test = "set" /\ err = "stop-on-error"
  /\ ops = <<>> /\ next = 1 /\ failed = {} /\ phase = "idle"

Next ==
  \/ \E r \in Requests(objections) :
       \E a \in [DOMAIN r.doc -> Attr] : Request(r.doc, a, r.default, r.test, r.err)
  \/ Prevalidate \/ PerformNext \/ Performed \/ Reply

Spec == Init /\ [][Next]_vars

-----------------------------------------------------------------------------
\* Properties.

\* Every variable keeps its type, and the candidate is a configuration the
\* schema allows: contents in what contains them, one value, one case.
TypeOK ==
  /\ tree \in SUBSET {n \in Node : ~Implicit(n)} /\ before \in SUBSET Node
  /\ \A n \in tree : \A m \in Above[n] : Implicit(m) \/ m \in tree
  /\ \A n \in tree : (OtherValue[n] \cup OtherCase[n]) \cap tree = {}
  /\ ops \in Seq([op : Attr, path : Node])
  /\ next \in 1..Len(ops) + 1 /\ failed \subseteq DOMAIN ops
  /\ phase \in {"idle", "test", "perform", "ok", "error"}

Stays(i) == op[i] \in {"merge", "create", "replace"}
Rivals(m, n) == m \in OtherValue[n] \cup OtherCase[n]
Chain(i) == {doc[i].path} \cup Above[doc[i].path]
Related(i, j) == doc[i].path \in Chain(j) \/ doc[j].path \in Chain(i)
Rivalry(i, j) == \E m \in Chain(i), n \in Chain(j) : Rivals(m, n)

\* Elements contradict each other only where one encloses the other.
Consistent ==
  \A i, j \in Emits(doc, op) :
    Related(i, j) \/ (Rivalry(i, j) /\ Stays(i) /\ Stays(j))
    => i = j \/ i \in doc[j].in \/ j \in doc[i].in

\* Whatever order the traversal chose, an edit that succeeds has the meaning of
\* its document: what it deletes is gone, contents included; what it merges,
\* creates or replaces is there unless an enclosing element deletes it; what it
\* replaces has no other contents; everything else is as it was.
HasMeaning ==
  phase = "ok" /\ failed = {} /\ test # "test-only" /\ Consistent =>
    LET em == Emits(doc, op)
        gone == {i \in em : Deletes(op[i])}
        stay == {i \in em : Stays(i) /\ doc[i].in \cap gone = {}}
        made(n) == \E i \in em : Stays(i) /\ n \in {doc[i].path} \cup Above[doc[i].path]
        touched == UNION {Below(n) \cup Above[n] : n \in {doc[i].path : i \in em}}
        ousted == UNION {Below(n) : n \in {m \in Node : \E k \in touched : Rivals(m, k)}}
    IN  /\ \A i \in gone : Below(doc[i].path) \cap tree = {}
        /\ \A i \in stay : Exists(doc[i].path, tree)
        /\ \A i \in stay : op[i] = "replace" =>
             \A n \in Below(doc[i].path) \cap tree : made(n)
        /\ \A n \in Node \ (touched \cup ousted) : n \in tree <=> n \in before

\* stop-on-error does nothing after the first failure, continue-on-error misses
\* no operation, and neither answers ok if one failed.
ErrorsReported ==
  /\ err = "stop-on-error" => \A k \in failed : next = k + 1 /\ phase = "error"
  /\ err = "continue-on-error" /\ failed # {} /\ phase = "error" => next > Len(ops)
  /\ err # "rollback-on-error" /\ phase = "ok" => failed = {}

\* test-only leaves the candidate alone.
TestOnlyIsPure == phase # "idle" /\ test = "test-only" => tree = before

Independent ==
  /\ \A i, j \in Emits(doc, op) : i # j => ~Related(i, j) /\ ~Rivalry(i, j)
  /\ \A k \in DOMAIN ops : ops[k].op \in {"merge", "replace", "create"} =>
       ~Implicit(ops[k].path)

\* Where operations do not depend on each other and no script objects, the
\* prevalidation is as good as a rollback: all of them are performed, or none.
RollbackIfIndependent ==
  err = "rollback-on-error" /\ (\A o \in objections : o[2] # "refused") /\ phase \in {"ok", "error"} /\ Independent
  => failed = {} /\ (phase = "error" => tree = before)

\* "We can't rollback, but we can prevalidate which is the same result": with
\* rollback-on-error, a failure leaves the candidate as it was.
RollbackIsAtomic ==
  err = "rollback-on-error" /\ phase \in {"ok", "error"} /\ failed # {} => tree = before
=============================================================================
