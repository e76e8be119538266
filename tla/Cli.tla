--------------------------------- MODULE Cli ---------------------------------
(***************************************************************************)
(* The configuration shell at work: a user types a line word by word, asks *)
(* for completions and runs it (cmd/cfgcli), at an edit level that is kept *)
(* in the shell's environment, on a session that another process may use   *)
(* too.  Each line is run by a process of its own, so the level and the    *)
(* server's session are all that lasts from one line to the next.          *)
(*                                                                         *)
(* What a commit or rollback does is in ConfirmedCommit, what a load or    *)
(* merge does in Session; here they replace or extend the configuration.   *)
(* A completion below a leafref edits the candidate and takes its edit     *)
(* back (Disp.getLeafrefVals), request by request.                         *)
(***************************************************************************)
EXTENDS CliCommands

CONSTANTS FirstWord,   \* what the user types first
          Vocabulary,  \* command -> the words typed after it
          MaxWords,    \* bound on the words of a line
          File,        \* configurations in files and archives
          OtherPath    \* paths that the other process edits

ASSUME LineAssumption ==
  /\ Commands \subseteq Word /\ FirstWord \subseteq Word
  /\ Vocabulary \in [Commands -> SUBSET Word]
  /\ MaxWords \in Nat
  /\ \A t \in File : Configuration(t)
  /\ OtherPath \subseteq Seq(Word) /\ \A q \in OtherPath : Settable(q)

VARIABLES level,    \* VYATTA_EDIT_LEVEL, as a path
          line,     \* the words typed
          cand,     \* the session's candidate, merged with running
          comp      \* the leafref completion under way

vars == <<level, line, cand, comp>>

NoComp == [pc |-> "idle", ps |-> <<>>, n |-> 0, before |-> {}, alone |-> TRUE]

\* Mutant: paths are absolute.
editPathAbsolute(args) == args

editPath(args) == level \o args

-----------------------------------------------------------------------------
\* Lines that are run or completed.

Context(args, idx, prefix) ==
  [args |-> <<ExpandCommand(Head(args))>> \o Tail(args), idx |-> idx, prefix |-> prefix]

RunContext(l) == Context(l, 0, "__noncomp__")

\* The cursor is at the end of the last word, or after a space.
CompleteContext(l, space) ==
  LET args == IF space THEN Append(l, Blank) ELSE l
  IN  Context(args, Len(args) - 1, Last(args))

\* Words that lead nowhere make the path invalid ("... is not valid"); an ambiguous
\* one is left to the run.  Of the path before the cursor an expansion that fails
\* ends the process.
checkValidPath(c) ==
  LET path == editPath(Tail(c.args))
      valid == ExpandWithPrefix(path, c.prefix, c.idx - 1).err # "unknown"
  IN  IF path = <<>> THEN TRUE
      ELSE IF c.prefix = Blank /\ Last(path) = Blank
           THEN LET front == Expand(Front(path))
                IN  front.err = "nil" /\ (TmplValidatePath(front.cpath) \/ valid)
           ELSE valid

PathCommand == {"set", "delete", "edit", "show"}
SingleCommand == {"discard", "top", "up", "validate"}

Valid(c) ==
  LET cmd == Arg(c, 0)
  IN  CASE cmd \in PathCommand -> checkValidPath(c)
        [] cmd \in SingleCommand -> validSingleCommand(c)
        [] cmd = "commit" -> commitValid(c)
        [] cmd = "commit-confirm" -> commitConfValid(c)
        [] cmd = "confirm" -> confirmValid(c)
        [] cmd = "cancel-commit" -> cancelcommitValid(c)
        [] cmd = "rollback" -> rollbackValid(c)
        [] cmd = "compare" -> compareValid(c)
        [] cmd = "exit" -> exitValid(c)
        [] cmd \in {"load", "save"} -> loadsaveValid(c, 0)
        [] cmd = "loadkey" -> loadKeyValid(c)
        [] cmd = "merge" -> mergeValid(c)
        [] OTHER -> cmd = "run"    \* which has no validator

\* The values a leafref may have are the keys of its list.
AllowedValues(t) == {q[Len(q)] : q \in {q \in t : isListKey(PathDescendant(q))}}

fromschema(cmd) == cmd \notin {"delete", "show"}

\* Only a leafref has values that depend on the configuration.
TmplGetAllowed(path) ==
  LET at == PathDescendant(path)
  IN  IF Kind[at.node] = "leafref" /\ ~at.val THEN AllowedValues(cand) ELSE {}

GetCompletions(schema, path) ==
  GetHelp(schema, path, cand) \cup IF schema THEN TmplGetAllowed(path) ELSE {}

pathComp(c) ==
  LET ps == Expand(editPath(SubSeq(c.args, 2, c.idx)))
  IN  IF ps.err # "nil" THEN {} ELSE GetCompletions(fromschema(Arg(c, 0)), ps.cpath)

Offered(c) ==
  LET cmd == Arg(c, 0)
  IN  CASE cmd \in PathCommand -> pathComp(c)
        [] cmd = "commit" -> commitComp(c)
        [] cmd = "commit-confirm" -> commitConfComp(c)
        [] cmd = "confirm" -> confirmComp(c)
        [] cmd = "cancel-commit" -> cancelcommitComp(c)
        [] cmd = "rollback" -> rollbackComp(c)
        [] cmd = "compare" -> compareComp(c)
        [] cmd = "exit" -> exitComp(c)
        [] cmd = "load" -> loadComp(c)
        [] cmd = "save" -> saveComp(c)
        [] cmd = "loadkey" -> loadkeyComp(c)
        [] OTHER -> {}

prefixFilterMap(comps, prefix) == {w \in comps : HasPrefix(w, prefix)}

\* The request that a line becomes; of load and save what a bare one does is
\* decided in loadRun and saveRun.
Requested(c) ==
  LET cmd == Arg(c, 0)
      send == CASE cmd = "commit" -> commitRun(c)
                [] cmd = "commit-confirm" -> commitConfRun(c)
                [] cmd = "confirm" -> confirmRun(c)
                [] cmd = "cancel-commit" -> cancelcommitRun(c)
                [] cmd = "rollback" -> rollbackRun(c)
                [] cmd = "compare" -> compareRun(c)
                [] cmd = "load" ->
                     IF NumArgs(c) = 1 THEN Send("LoadFrom", Blank, Blank, FALSE)
                     ELSE parseCfgMgmtCmdArgs("LoadFrom", Tail(c.args))
                [] cmd = "save" ->
                     IF NumArgs(c) = 1 THEN Refused   \* "This command has no effect"
                     ELSE parseCfgMgmtCmdArgs("SaveTo", Tail(c.args))
                [] cmd = "loadkey" ->
                     IF NumArgs(c) < 3 THEN Refused
                     ELSE parseCfgMgmtCmdArgs("LoadKeys", SubSeq(c.args, 3, NumArgs(c)))
                [] cmd = "merge" -> Send("Merge", Arg(c, 1), Blank, FALSE)
                [] OTHER -> Refused
  IN  IF Valid(c) THEN send ELSE Refused

-----------------------------------------------------------------------------
\* Typing.

Idle == comp.pc = "idle"

Type(w) ==
  /\ Idle /\ Len(line) < MaxWords
  /\ IF line = <<>> THEN w \in FirstWord
     ELSE /\ ExpandCommand(Head(line)) # Blank
          /\ w \in Vocabulary[ExpandCommand(Head(line))]
  /\ line' = Append(line, w)
  /\ UNCHANGED <<level, cand, comp>>

\* doComplete: the only word that the prefix begins is filled in; otherwise help
\* is shown and nothing changes.
Complete ==
  /\ Idle /\ Len(line) > 1 /\ ExpandCommand(Head(line)) # Blank
  /\ LET c == CompleteContext(line, FALSE)
         found == prefixFilterMap(Offered(c), c.prefix)
     IN  /\ Valid(c) /\ Cardinality(found) = 1 /\ Last(line) \notin found
         /\ line' = Append(Front(line), CHOOSE w \in found : TRUE)
  /\ UNCHANGED <<level, cand, comp>>

\* firstWordComp.
CompleteCommand ==
  /\ Idle /\ Len(line) = 1
  /\ LET found == prefixFilterMap(Commands, Head(line))
     IN  /\ Cardinality(found) = 1 /\ Head(line) \notin found
         /\ line' = <<CHOOSE k \in found : TRUE>>
  /\ UNCHANGED <<level, cand, comp>>

-----------------------------------------------------------------------------
\* Running a line.

Run(cmds) ==
  /\ Idle /\ line # <<>> /\ ExpandCommand(Head(line)) \in cmds
  /\ Valid(RunContext(line))
  /\ line' = <<>>
  /\ UNCHANGED comp

\* No such command, or its validator objects.
RunInvalid ==
  /\ Idle /\ line # <<>>
  /\ ExpandCommand(Head(line)) = Blank \/ ~Valid(RunContext(line))
  /\ line' = <<>>
  /\ UNCHANGED <<level, cand, comp>>

\* The typed path at this level.
Target == Expand(editPath(Tail(line)))

\* Mutant: the types of keys and values are not checked.
CandSetUnchecked(path) ==
  \/ UNCHANGED cand
  \/ cand' = With(path, cand)

\* The session may refuse a set: the lock, the schema, a permission.
CandSet(path) ==
  \/ UNCHANGED cand
  \/ Settable(path) /\ cand' = With(path, cand)

setRun ==
  /\ Run({"set"})
  /\ IF Len(line) = 1 \/ Target.err # "nil" THEN UNCHANGED cand ELSE CandSet(Target.cpath)
  /\ UNCHANGED level

deleteRun ==
  /\ Run({"delete"})
  /\ \/ UNCHANGED cand
     \/ /\ Len(line) > 1 /\ Target.err = "nil"
        /\ cand' = Without(Target.cpath, cand)
  /\ UNCHANGED level

\* The node is created if it is missing, and the level moves even if it cannot be.
editRun ==
  /\ Run({"edit"})
  /\ IF Target.err # "nil" \/ ~Editable(PathDescendant(Target.cpath))
     THEN UNCHANGED <<level, cand>>
     ELSE /\ level' = Target.cpath
          /\ IF Exists(level', cand) THEN UNCHANGED cand ELSE CandSet(level')

topRun ==
  /\ Run({"top"})
  /\ level' = <<>>
  /\ UNCHANGED cand

\* Mutant: one word up, whatever it is.
upRunOne ==
  /\ Run({"up"})
  /\ level' = IF level = <<>> THEN level ELSE Front(level)
  /\ UNCHANGED cand

\* The key of a list goes with its list.
upRun ==
  /\ Run({"up"})
  /\ level' = IF level = <<>> THEN level
              ELSE IF isListKey(PathDescendant(level))
                   THEN SubSeq(level, 1, Len(level) - 2) ELSE Front(level)
  /\ UNCHANGED cand

\* Below the top, back to it.  At the top the shell ends, and its session with it,
\* unless there are changes that the user does not discard; the next one starts
\* from the running configuration.
exitRun ==
  /\ Run({"exit"})
  /\ level' = <<>>
  /\ UNCHANGED cand \/ (level = <<>> /\ cand' \in File)

\* What the session discards leaves the running configuration.
discardRun ==
  /\ Run({"discard"})
  /\ UNCHANGED cand \/ cand' \in File
  /\ UNCHANGED level

\* These load another configuration, if they are sent and not refused.
replaceRun ==
  /\ Run({"load", "rollback", "cancel-commit"})
  /\ \/ UNCHANGED cand
     \/ Requested(RunContext(line)) # Refused /\ cand' \in File
  /\ UNCHANGED level

mergeRun ==
  /\ Run({"merge"})
  /\ UNCHANGED cand \/ \E t \in File : cand' = Merge(cand, t)
  /\ UNCHANGED level

\* The others leave level and candidate as they are.
showRun == Run({"show"}) /\ UNCHANGED <<level, cand>>
validateRun == Run({"validate"}) /\ UNCHANGED <<level, cand>>
saveRun == Run({"save"}) /\ UNCHANGED <<level, cand>>
runRun == Run({"run"}) /\ UNCHANGED <<level, cand>>
requestRun ==
  Run({"compare", "commit", "commit-confirm", "confirm"}) /\ UNCHANGED <<level, cand>>

\* The keys are not below any node of this schema.
loadkeyRun == Run({"loadkey"}) /\ UNCHANGED <<level, cand>>

-----------------------------------------------------------------------------
\* Completion of a leafref's value.

\* The calls before the first Exists only read.
CompleteLeafref ==
  /\ Idle /\ line # <<>> /\ fromschema(ExpandCommand(Head(line)))
  /\ ExpandCommand(Head(line)) \in PathCommand
  /\ LET c == CompleteContext(line, TRUE)
         at == PathDescendant(Target.cpath)
     IN  /\ Valid(c) /\ Target.err = "nil"
         /\ Kind[at.node] = "leafref" /\ ~at.val
         /\ comp' = [pc |-> "exists", ps |-> Target.cpath, n |-> Len(Target.cpath),
                     before |-> cand, alone |-> TRUE]
  /\ UNCHANGED <<level, line, cand>>

\* The leaf, then what contains it, up to the first that exists or the first word.
LeafrefExists ==
  /\ comp.pc = "exists"
  /\ comp' = IF Exists(SubSeq(comp.ps, 1, comp.n), cand)
             THEN IF comp.n = Len(comp.ps) THEN NoComp ELSE [comp EXCEPT !.pc = "set"]
             ELSE [comp EXCEPT !.pc = IF comp.n = 1 THEN "set" ELSE @, !.n = @ - 1]
  /\ UNCHANGED <<level, line, cand>>

\* The dummy value that the XPath evaluation starts from.
LeafrefSet ==
  /\ comp.pc = "set"
  /\ \/ UNCHANGED cand /\ comp' = NoComp
     \/ /\ Settable(Append(comp.ps, "dummyValue"))
        /\ cand' = With(Append(comp.ps, "dummyValue"), cand)
        /\ comp' = [comp EXCEPT !.pc = "delete"]
  /\ UNCHANGED <<level, line>>

\* Mutant: the leaf alone is deleted, as if its list entry went with it.
LeafrefDeleteLeaf ==
  /\ comp.pc = "delete"
  /\ \/ cand' = Without(comp.ps, cand)
     \/ ~comp.alone /\ UNCHANGED cand
  /\ comp' = NoComp
  /\ UNCHANGED <<level, line>>

\* The deferred delete of the first node that was missing.  Its error is dropped:
\* another process may have locked the session meanwhile.
LeafrefDelete ==
  /\ comp.pc = "delete"
  /\ \/ cand' = Without(SubSeq(comp.ps, 1, comp.n + 1), cand)
     \/ ~comp.alone /\ UNCHANGED cand
  /\ comp' = NoComp
  /\ UNCHANGED <<level, line>>

-----------------------------------------------------------------------------
\* Another process edits, discards, loads or locks the same session.
Other ==
  /\ cand' \in {With(p, cand) : p \in OtherPath} \cup {Without(p, cand) : p \in OtherPath}
                \cup File \cup {cand}
  /\ comp' = IF Idle THEN comp ELSE [comp EXCEPT !.alone = FALSE]
  /\ UNCHANGED <<level, line>>

Init == level = <<>> /\ line = <<>> /\ cand = {} /\ comp = NoComp

Next ==
  \/ \E w \in Word : Type(w)
  \/ Complete \/ CompleteCommand
  \/ RunInvalid \/ setRun \/ deleteRun \/ editRun \/ topRun \/ upRun \/ exitRun
  \/ discardRun \/ replaceRun \/ mergeRun
  \/ showRun \/ validateRun \/ saveRun \/ runRun \/ requestRun \/ loadkeyRun
  \/ CompleteLeafref \/ LeafrefExists \/ LeafrefSet \/ LeafrefDelete
  \/ Other

Spec == Init /\ [][Next]_vars
-----------------------------------------------------------------------------
\* Properties.

\* Every variable keeps its type, and the candidate stays a configuration of the
\* schema: entries that contain what is set, one value to a leaf, one case to a choice.
TypeOK ==
  /\ level \in Seq(Word) /\ TmplValidatePath(level)
  /\ line \in Seq(Word) /\ Len(line) <= MaxWords
  /\ Configuration(cand)
  /\ comp.pc \in {"idle", "exists", "set", "delete"} /\ comp.n \in 0..Len(comp.ps)

\* The edit level is always one that "edit" accepts, however edit, up, top and exit
\* are mixed, and it expands to itself: words typed at a level are never put
\* under another node, although the level is expanded again with each of them.
LevelIsEditable ==
  /\ Editable(PathDescendant(level))
  /\ Expand(level).err = "nil" /\ Expand(level).cpath = level

\* Whatever the words typed abbreviate, set, delete and edit change nothing
\* outside the level they are typed at, but for what contains the level itself, and
\* what is in another case of a choice that the level is in, which goes.
EditsStayBelow ==
  [][line # <<>> /\ line' = <<>> /\ ExpandCommand(Head(line)) \in {"set", "delete", "edit"}
     => \A q \in (cand \ cand') \cup (cand' \ cand) :
          \/ IsPrefix(level, q) \/ IsPrefix(q, level)
          \/ q \notin cand' /\ Ousts(level, q)]_vars

\* The documented forms: commit [comment <text>], commit-confirm <timeout>
\* [comment <text>], rollback <ver> [comment <text>], confirm [persist-id <text>],
\* cancel-commit [force | persist-id <text>] [comment <text>].
CommentOf(words, exact) ==
  CASE words = <<>> -> {Blank}
    [] Len(words) = 2 -> IF words[1] = "comment" \/ (~exact /\ HasPrefix("comment", words[1]))
                         THEN {words[2]} ELSE {}
    [] OTHER -> {}

Meant(cmd, a) ==
  CASE cmd = "commit" -> {Send("Commit", Blank, t, FALSE) : t \in CommentOf(a, FALSE)}
    [] cmd = "commit-confirm" /\ a # <<>> /\ IsNumber(Head(a)) /\ Number[Head(a)] > 0 ->
         {Send("CommitConfirm", Head(a), t, FALSE) : t \in CommentOf(Tail(a), FALSE)}
    [] cmd = "rollback" /\ a # <<>> ->
         {Send("Rollback", Head(a), t, FALSE) : t \in CommentOf(Tail(a), TRUE)}
    [] cmd = "confirm" /\ a = <<>> -> {Send("Confirm", Blank, Blank, FALSE)}
    [] cmd = "confirm" /\ Len(a) = 2 /\ HasPrefix("persist-id", a[1]) ->
         {Send("ConfirmPersistId", a[2], Blank, FALSE)}
    [] cmd = "cancel-commit" ->
         {Send("CancelCommit", Blank, t, FALSE) : t \in CommentOf(a, FALSE)}
           \cup (IF a # <<>> /\ HasPrefix("force", a[1])
                 THEN {Send("CancelCommit", Blank, t, TRUE) : t \in CommentOf(Tail(a), FALSE)} ELSE {})
           \cup (IF Len(a) > 1 /\ HasPrefix("persist-id", a[1])
                 THEN {Send("CancelCommit", a[2], t, FALSE) :
                         t \in CommentOf(SubSeq(a, 3, Len(a)), FALSE)} ELSE {})
    [] OTHER -> {}

\* What is run although it has no such form: rollback and cancel-commit with the
\* last argument missing, rollback with an abbreviated keyword, whose comment is
\* dropped, and cancel-commit with more comments, of which the last one counts.
Lenient(cmd, a) ==
  \/ cmd = "rollback" /\ Len(a) \in {2, 3} /\ HasPrefix("comment", a[2])
  \/ cmd = "cancel-commit" /\ Len(a) = 1 /\ HasPrefix("persist-id", a[1])
  \/ /\ cmd = "cancel-commit"
     /\ \E j \in 0..Len(a) :
          /\ Meant(cmd, SubSeq(a, 1, j)) # {}
          /\ \A m \in 1..Len(a) - j : m % 2 = 1 => HasPrefix("comment", a[j + m])

\* A line of a documented form becomes the request it stands for, with its own
\* arguments, and no other line of these commands becomes a request but for the
\* leniencies above.  Words are not empty: an empty last one would be dropped.
RunsAsMeant ==
  line # <<>> /\ Blank \notin ToSet(line) =>
    LET c == RunContext(line)
        cmd == Arg(c, 0)
        a == Tail(c.args)
    IN  cmd \in {"commit", "commit-confirm", "rollback", "confirm", "cancel-commit"} =>
          IF Meant(cmd, a) # {} THEN Requested(c) \in Meant(cmd, a)
          ELSE Requested(c) = Refused \/ Lenient(cmd, a)

\* What a completion offers is accepted: with an offered word in place of the one
\* at the cursor, and with a space after it, the line is still a valid beginning.
OfferedIsAccepted ==
  Idle /\ line # <<>> /\ ExpandCommand(Head(line)) # Blank =>
    \A space \in BOOLEAN :
      LET c == CompleteContext(line, space)
      IN  c.idx > 0 /\ Valid(c) =>
            \A w \in prefixFilterMap(Offered(c), c.prefix) :
              LET l == Append(Front(c.args), w)
              IN  Valid(CompleteContext(l, FALSE)) /\ Valid(CompleteContext(l, TRUE))

\* What a tab in the middle of a word should do: the path is expanded as if the
\* i-th word ended after p, and then the name found has the rest of the word after
\* it; "set interfaces dataplanedp0" for "datadp0".  If p is a name, the names that
\* it begins compete with it.
ExpandsAsCut(path, i, p) ==
  LET before == Expand(SubSeq(path, 1, i - 1))
      names == ToSet(Children[before.node])
      cut == Expand([path EXCEPT ![i] = p])
      mid == ExpandWithPrefix(path, p, i - 1)
  IN  /\ before.err = "nil" /\ before.expect \in {"child", "field"}
      /\ \A n \in names : ~HasPrefix(n, path[i])
      => \/ /\ mid.err = cut.err
            /\ cut.err = "nil" => mid.cpath = [cut.cpath EXCEPT ![i] = Joined(@, p, path[i])]
         \/ p \in names /\ mid.err = "ambiguous"

\* The texts before a cursor in a word.
Cuts(w) == PrefixesOf[w] \ {w, Blank}

\* Where the word itself begins no name, a tab in it expands the path as cut at the
\* cursor, at every level, if the path passes no list (Disp.ExpandWithPrefix).
MidWordAsCut ==
  line # <<>> /\ ExpandCommand(Head(line)) \in PathCommand =>
    LET path == editPath(Tail(line))
    IN  \A i \in DOMAIN path : \A p \in Cuts(path[i]) :
          (\A q \in Prefixes([path EXCEPT ![i] = p]) : Expand(q).expect # "field")
             => ExpandsAsCut(path, i, p)

\* If no other process used the session meanwhile, a leafref completion leaves
\* nothing behind of the dummy value that it set or of what had to be created for
\* it, and all that it loses is in other cases of the choices on the leafref's path.
CompletionTakesDummyBack ==
  [][~Idle /\ Idle' /\ comp.alone =>
       cand' \subseteq comp.before /\ \A q \in comp.before \ cand' : Ousts(comp.ps, q)]_vars
=============================================================================
