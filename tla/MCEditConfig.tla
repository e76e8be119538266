----------------------------- MODULE MCEditConfig -----------------------------
(* A container c with a presence container p, whose leaf has the values a    *)
(* and b, and a list l with one entry e that has a leaf k; x, with a leaf z, *)
(* and y are two cases of a choice in p.                                     *)
EXTENDS EditConfig

MCNode == {"c", "p", "a", "b", "x", "y", "z", "l", "e", "k", "u", "f"}
MCKind == [n \in MCNode |->
             CASE n = "c" -> "container" [] n \in {"p", "x"} -> "presence" [] n = "l" -> "list"
               [] n = "e" -> "entry" [] n = "u" -> "unknown" [] n = "f" -> "foreign"
               [] OTHER -> "leaf"]
MCAbove == [n \in MCNode |->
              CASE n \in {"c", "u", "f"} -> {} [] n \in {"p", "l"} -> {"c"}
                [] n = "e" -> {"c", "l"} [] n = "k" -> {"c", "l", "e"}
                [] n = "z" -> {"c", "p", "x"} [] OTHER -> {"c", "p"}]
MCOtherValue == [n \in MCNode |->
                   CASE n = "a" -> {"b"} [] n = "b" -> {"a"} [] OTHER -> {}]
MCOtherCase == [n \in MCNode |->
                   CASE n = "x" -> {"y"} [] n = "y" -> {"x"} [] OTHER -> {}]

El(n, enclosing) == [path |-> n, in |-> enclosing]
MCDocs == {<<El("c", {}), El("p", {1}), El("a", {1, 2})>>,
           <<El("p", {}), El("a", {1}), El("b", {1})>>,
           <<El("x", {}), El("y", {})>>,
           <<El("z", {}), El("y", {})>>,
           <<El("e", {}), El("k", {1})>>,
           <<El("c", {}), El("l", {1}), El("k", {1, 2})>>,
           <<El("a", {}), El("a", {})>>,
           <<El("u", {}), El("f", {1}), El("k", {})>>,
           <<El("f", {}), El("k", {})>>}

\* Two elements, for the runs that vary the options and objections.
MCPairs == {<<El("a", {}), El("k", {})>>, <<El("p", {}), El("a", {1})>>,
            <<El("a", {}), El("b", {})>>, <<El("c", {}), El("k", {})>>}
MCTwice == {<<El("a", {}), El("a", {})>>}
MCObjections == ({"a"} \X Why) \cup {<<"k", "refused">>}

Req(docs, defaults, tests, errs) ==
  [doc : docs, default : defaults, test : tests, err : errs]

\* Every shape under the plain options, and pairs under every option and
\* objection.
MCRequests(objs) ==
  Req(MCPairs, {"merge"}, {"test-then-set", "set", "test-only"},
      {"stop-on-error", "continue-on-error", "rollback-on-error"})
    \cup (IF objs = {}
            THEN Req(MCDocs, {"merge", "none"}, {"set"}, {"stop-on-error"})
                   \cup Req(MCPairs, {"replace"}, {"set"}, {"stop-on-error"})
            ELSE {})
MCTwiceRequests(objs) ==
  Req(MCTwice, {"merge", "none"}, {"test-then-set", "set"}, {"rollback-on-error"})
=============================================================================
