-------------------------------- MODULE MCCli --------------------------------
(* A container inter with a list dp, keyed by tag, whose leaf peer refers to *)
(* the keys; a container in with presence, whose name begins the other's,    *)
(* with an empty leaf e and a leaf-list m.  The two are cases of a choice.   *)
EXTENDS Cli

MCKind == [root |-> "container", inter |-> "container", dp |-> "list", tag |-> "leaf",
           peer |-> "leafref", in |-> "presence", e |-> "empty", m |-> "leaf-list"]
MCChildren == [root |-> <<"inter", "in">>, inter |-> <<"dp">>, dp |-> <<"tag", "peer">>,
               tag |-> <<>>, peer |-> <<>>, in |-> <<"e", "m">>, e |-> <<>>,
               m |-> <<>>]
MCOtherCase == [n \in DOMAIN MCKind |->
                  CASE n = "inter" -> {"in"} [] n = "in" -> {"inter"} [] OTHER -> {}]
MCKey == [dp |-> "tag"]

MCNumber == [n \in {"0", "5"} |-> IF n = "5" THEN 5 ELSE 0]
MCFirstWord == Commands \cup {"comm", "r", "rol", "zz"}
MCVocabulary ==
  [k \in Commands |->
     CASE k = "set" -> {"i", "in", "int", "intx", "dp", "e", "m", "p", "x"}
       [] k = "delete" -> {"in", "int", "dp", "e", "m", "x"}
       [] k = "edit" -> {"in", "int", "dp", "e", "x"}
       [] k = "show" -> {"i", "int", "dp", "tag", "x"}
       [] k = "commit" -> {"c", "comment", "text"}
       [] k = "commit-confirm" -> {"5", "0", "c", "comment"}
       [] k = "confirm" -> {"p", "persist-id", "text"}
       [] k = "cancel-commit" -> {"f", "comment", "c", "persist-id", "text"}
       [] k = "rollback" -> {"5", "c", "comment", "text"}
       [] k = "compare" -> {"5", "s", "saved", "text"}
       [] k = "exit" -> {"d", "text"}
       [] k \in {"load", "save", "loadkey"} -> {"routing-instance", "ri", "text"}
       [] k = "merge" -> {"text"}
       [] OTHER -> {"text"}]
MCWord ==
  {"", "__noncomp__", "dummyValue", "force", "discard", "root", "inter", "in", "i", "int",
   "intx", "dp", "tag", "peer", "p", "e", "m", "x", "0", "5", "c", "comm", "comment", "text",
   "persist-id", "f", "s", "saved", "d", "routing-instance", "ri", "r", "rol", "zz", "commit",
   "compare", "delete", "edit", "exit", "load", "merge", "save", "set", "show", "top", "up",
   "validate", "run", "confirm", "cancel-commit", "rollback", "commit-confirm", "loadkey"}

\* Strings are sequences of characters.
MCPrefixesOf == [w \in MCWord |-> {p \in MCWord : Len(p) <= Len(w) /\ SubSeq(w, 1, Len(p)) = p}]
MCLength == [w \in MCWord |-> Len(w)]
MCJoined(name, prefix, val) == name \o SubSeq(val, Len(prefix) + 1, Len(val))

X == <<"inter", "dp", "x">>
MCFile == {{}, {X}}
MCOtherPath == {X, <<"in", "e">>}
=============================================================================
