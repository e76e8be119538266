------------------------------ MODULE PathExpand ------------------------------
(***************************************************************************)
(* Configuration paths as the command line sees them: how the server       *)
(* expands abbreviated words (Disp.expandPath in server/dispatcher.go),    *)
(* what its templates say of a path, and what it offers for the next word. *)
(*                                                                         *)
(* A schema node is known by its name, and words are atoms of which only   *)
(* their length and their prefixes matter.  A configuration is the set of  *)
(* paths of its list entries, values, empty leaves and presence            *)
(* containers; other containers exist while they have contents.            *)
(***************************************************************************)
EXTENDS Naturals, Integers, Sequences, SequencesExt, FiniteSets

CONSTANTS Word,        \* Blank and "__noncomp__" among them
          PrefixesOf,  \* word -> the words it begins with, itself included
          Length,      \* word -> its number of characters
          Joined(_, _, _),  \* name, prefix, word -> the name, then what the word has
                            \* after the prefix
          Root,        \* the node of the schema tree itself
          Kind,        \* node -> container, presence (a container with presence),
                       \* list, leaf, leaf-list, leafref or empty
          Children,    \* node -> its children, in the order of the schema
          OtherCase,   \* node -> its siblings in other cases of a choice
          Key,         \* list -> the name of its key
          Value        \* words that are keys and values of the right type

\* Go's empty string.
Blank == ""

ASSUME PathAssumption ==
  /\ {Blank, "__noncomp__"} \subseteq Word
  /\ PrefixesOf \in [Word -> SUBSET Word] /\ Length \in [Word -> Nat]
  /\ \A w \in Word : /\ {Blank, w} \subseteq PrefixesOf[w]
                      /\ \A p \in PrefixesOf[w] \ {w} : Length[p] < Length[w]
  /\ DOMAIN Kind = DOMAIN Children /\ DOMAIN Children \subseteq Word
  /\ Root \in DOMAIN Kind /\ Kind[Root] = "container"
  /\ "none" \notin DOMAIN Kind
  /\ \A n \in DOMAIN Kind : /\ Kind[n] \in {"container", "presence", "list", "leaf", "leaf-list",
                                             "leafref", "empty"}
                             /\ Children[n] \in Seq(DOMAIN Kind)

\* The cases of a choice belong to the node the choice is in.
ASSUME ChoiceAssumption ==
  /\ OtherCase \in [DOMAIN Kind -> SUBSET DOMAIN Kind]
  /\ \A n \in DOMAIN Kind : \A m \in OtherCase[n] :
       /\ m # n /\ n \in OtherCase[m]
       /\ \A k \in DOMAIN Kind : n \in ToSet(Children[k]) => m \in ToSet(Children[k])

HasPrefix(w, p) == p \in PrefixesOf[w]

-----------------------------------------------------------------------------
\* Templates (external schema.PathDescendant; Disp.TmplGet).

\* Where a path leads: a node, and whether it ends in the node's value or key.
\* "none" is no place.
Nowhere == [node |-> "none", val |-> FALSE]

Container == {"container", "presence"}

Inner(at) == Kind[at.node] \in Container \/ (Kind[at.node] = "list" /\ at.val)

SchemaChild(at, w) ==
  IF at = Nowhere THEN Nowhere
  ELSE IF Inner(at)
       THEN IF w \in ToSet(Children[at.node]) THEN [node |-> w, val |-> FALSE] ELSE Nowhere
       ELSE IF at.val \/ Kind[at.node] = "empty" THEN Nowhere
            ELSE [node |-> at.node, val |-> TRUE]

PathDescendant(path) ==
  LET at[i \in 0..Len(path)] ==
        IF i = 0 THEN [node |-> Root, val |-> FALSE] ELSE SchemaChild(at[i - 1], path[i])
  IN  at[Len(path)]

TmplValidatePath(path) == PathDescendant(path) # Nowhere

isListKey(at) == at.val /\ Kind[at.node] = "list"
isTypeless(at) == Kind[at.node] \in Container \cup {"empty"}

\* What "edit" accepts as a level.
Editable(at) == isListKey(at) \/ isTypeless(at)

-----------------------------------------------------------------------------
\* Expansion.  The closures of expandPath walk down the path; "expect" tells
\* which of them comes next.

Expecting(n) == CASE Kind[n] \in Container -> "child"
                  [] Kind[n] = "list" -> "key"
                  [] OTHER -> "value"

\* processchildrenskip: an exact match wins, then the names val abbreviates
\* and, at the cursor, the names that begin with the text before it.
Matches(names, val, prefix, pos) ==
  IF val \in names THEN {val}
  ELSE {n \in names : HasPrefix(n, val) \/ (pos = 0 /\ HasPrefix(n, prefix))}

\* prefixMatch: some name was matched by the prefix alone, before an exact match
\* ended the loop.
PrefixMatch(children, skiplist, val, prefix, pos) ==
  /\ pos = 0
  /\ \E i \in DOMAIN children :
       /\ children[i] \notin skiplist
       /\ ~HasPrefix(children[i], val) /\ HasPrefix(children[i], prefix)
       /\ \A j \in 1..i : children[j] = val => val \in skiplist

Fail(st, why) == [st EXCEPT !.err = why]

\* The names found for the word.  cpath gets the full one, followed after a prefix
\* match by what the word has after the prefix.
Descend(st, val, prefix, pos, found, mid) ==
  LET name == CHOOSE n \in found : TRUE
  IN  CASE found = {} -> Fail(st, "unknown")
        [] Cardinality(found) > 1 -> Fail(st, "ambiguous")
        [] Cardinality(found) = 1 /\ mid /\ Length[prefix] >= Length[val] ->
             Fail(st, "prefix")
        [] OTHER -> [st EXCEPT !.node = name, !.expect = Expecting(name),
                               !.cpath = Append(@, IF mid THEN Joined(name, prefix, val)
                                                          ELSE name),
                               !.pos = pos]

processchildrenskip(st, val, skiplist, prefix, pos) ==
  LET children == Children[st.node]
  IN  Descend(st, val, prefix, pos, Matches(ToSet(children) \ skiplist, val, prefix, pos),
              PrefixMatch(children, skiplist, val, prefix, pos))

\* One word.  A container counts the position down, a list does not, neither for
\* its key nor for the name after it.
expandWord(st, val, prefix) ==
  CASE st.err = "nil" /\ st.expect = "child" ->
         processchildrenskip(st, val, {}, prefix, st.pos - 1)
    [] st.err = "nil" /\ st.expect = "field" ->
         processchildrenskip(st, val, {Key[st.node]}, prefix, st.pos)
    [] st.err = "nil" /\ st.expect = "key" ->
         [st EXCEPT !.cpath = Append(@, val), !.expect = "field"]
    [] st.err = "nil" /\ st.expect = "value" /\ Kind[st.node] # "empty" ->
         [st EXCEPT !.cpath = Append(@, val), !.expect = "end"]
    [] OTHER -> IF st.err = "nil" THEN Fail(st, "unknown") ELSE st

expandPath(path, prefix, pos) ==
  LET start == [node |-> Root, expect |-> "child", cpath |-> <<>>, pos |-> pos,
                err |-> "nil"]
      st[i \in 0..Len(path)] ==
        IF i = 0 THEN start ELSE expandWord(st[i - 1], path[i], prefix)
  IN  st[Len(path)]

\* Mutant: the position is that of the next word.
ExpandWithPrefixNext(path, prefix, pos) == expandPath(path, prefix, pos + 2)

ExpandWithPrefix(path, prefix, pos) == expandPath(path, prefix, pos + 1)

\* NoPrefix, InvalidPos: the position is never 0.
Expand(path) == ExpandWithPrefix(path, "__noncomp__", -1)

-----------------------------------------------------------------------------
\* Configurations, as the session keeps them (external union.Node).

Explicit(path) == LET at == PathDescendant(path)
                  IN  at # Nowhere /\ (at.val \/ Kind[at.node] \in {"empty", "presence"})

\* The value of a leaf, of which there is one.
SingleValue(at) == at.val /\ Kind[at.node] \in {"leaf", "leafref"}

Exists(path, t) == \E q \in t : IsPrefix(path, q)
Without(path, t) == {q \in t : ~IsPrefix(path, q)}

\* r is in another case of a choice than path, at some word of the two.
Ousts(path, r) ==
  \E i \in DOMAIN path \cap DOMAIN r :
    /\ SubSeq(path, 1, i - 1) = SubSeq(r, 1, i - 1)
    /\ Inner(PathDescendant(SubSeq(path, 1, i - 1)))
    /\ r[i] \in OtherCase[path[i]]

\* The value of a leaf replaces the one it had, and the other cases of every choice
\* on the path go.
With(path, t) ==
  LET kept == IF SingleValue(PathDescendant(path)) THEN Without(Front(path), t) ELSE t
  IN  {q \in kept : ~Ousts(path, q)} \cup {q \in Prefixes(path) : Explicit(q)}

\* A merge of u into t.
Merge(t, u) ==
  u \cup {q \in t : \A r \in u : /\ SingleValue(PathDescendant(r)) => ~IsPrefix(Front(r), q)
                                /\ ~Ousts(r, q)}

\* session.set refuses a path that ends where a key or a value is missing, or
\* one of the wrong type.
Settable(path) ==
  LET at == PathDescendant(path)
  IN  /\ at # Nowhere /\ (at.val \/ isTypeless(at))
      /\ \A q \in Prefixes(path) : q # <<>> /\ PathDescendant(q).val /\ ~Inner(PathDescendant(Front(q)))
                                   => Last(q) \in Value

\* What a session's candidate can be: entries that contain what is set, one value
\* to a leaf, one case to a choice.
Configuration(t) ==
  /\ t \subseteq Seq(Word)
  /\ \A q \in t : /\ Explicit(q) /\ Settable(q)
                   /\ \A r \in Prefixes(q) : Explicit(r) => r \in t
  /\ \A q, r \in t : /\ SingleValue(PathDescendant(q))
                      /\ Len(q) = Len(r) /\ Front(q) = Front(r) => q = r
  /\ \A q, r \in t : ~Ousts(q, r)

\* External union.Node.GetHelp: names and values that may come after a path, all
\* of the schema's or the configured ones.  The key of an entry is its name already.
GetHelp(fromSchema, path, t) ==
  LET at == PathDescendant(path)
      configured == {q[Len(path) + 1] : q \in {q \in t : IsStrictPrefix(path, q)}}
      help == IF at # Nowhere /\ Inner(at) /\ fromSchema THEN ToSet(Children[at.node]) ELSE configured
  IN  {n \in help : at # Nowhere /\ isListKey(at) => n # Key[at.node]}
=============================================================================
