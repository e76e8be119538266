------------------------------ MODULE CliCommands ------------------------------
(***************************************************************************)
(* The commands of the configuration shell (cmd/cfgcli): which lines their *)
(* validators accept, which words their completions offer, and which       *)
(* request a line that is run becomes.                                     *)
(*                                                                         *)
(* A context c has the words of the line (args), the index of the word at  *)
(* the cursor (idx, from 0; 0 when a line is run) and the text before the  *)
(* cursor (prefix; "__noncomp__" when a line is run).                      *)
(***************************************************************************)
EXTENDS PathExpand

CONSTANTS Number,    \* words that are numbers, and their values
          Revision,  \* the numbers in the commit log
          Instance,  \* names of routing instances
          User,      \* users that have logins
          Feature    \* what the system has: "config-mgmt", "routing-instance",
                     \* "loadkey"

ASSUME CliAssumption ==
  /\ DOMAIN Number \subseteq Word /\ Revision \subseteq DOMAIN Number
  /\ Instance \subseteq Word /\ User \subseteq Word
  /\ Feature \subseteq {"config-mgmt", "routing-instance", "loadkey"}
  /\ {"comment", "discard", "dummyValue", "force", "persist-id", "routing-instance", "saved"}
       \subseteq Word
  /\ \A k \in {"comment", "force", "persist-id"} : "__noncomp__" \notin PrefixesOf[k]
  /\ \A k, l \in {"comment", "force", "persist-id"} : k # l => PrefixesOf[k] \cap PrefixesOf[l] = {Blank}

HasConfigMgmt == "config-mgmt" \in Feature
HasRoutingInstance == "routing-instance" \in Feature
HasLoadKey == "loadkey" \in Feature

Commands ==
  {"commit", "compare", "delete", "discard", "edit", "exit", "load", "merge",
   "run", "save", "set", "show", "top", "up", "validate"}
    \cup (IF HasConfigMgmt
          THEN {"confirm", "cancel-commit", "rollback", "commit-confirm"} ELSE {})
    \cup (IF HasLoadKey THEN {"loadkey"} ELSE {})

\* GetCommand: the command of that name, or the only one it abbreviates; Blank if
\* there is none or more than one.
ExpandCommand(name) ==
  LET found == {k \in Commands : HasPrefix(k, name)}
  IN  IF name \in Commands THEN name
      ELSE IF Cardinality(found) = 1 THEN CHOOSE k \in found : TRUE ELSE Blank

\* Go's args[i].
Arg(c, i) == c.args[i + 1]
NumArgs(c) == Len(c.args)

\* No more than n words, of which the last may be an empty one.
AtMost(c, n) == NumArgs(c) <= n \/ (NumArgs(c) = n + 1 /\ c.prefix = Blank)

-----------------------------------------------------------------------------
\* Validators.

validSingleCommand(c) == AtMost(c, 1)

removeTrailingEmptyArgument(c) ==
  IF Last(c.args) = Blank THEN [c EXCEPT !.args = Front(@)] ELSE c

\* The word at pos abbreviates the keyword, and one argument may follow.
validateArgumentIfAny(c, pos, keyword) ==
  CASE NumArgs(c) <= pos -> TRUE
    [] NumArgs(c) = pos + 1 -> HasPrefix(keyword, c.prefix) \/ HasPrefix(keyword, Arg(c, pos))
    [] NumArgs(c) = pos + 2 -> HasPrefix(keyword, Arg(c, pos))
    [] OTHER -> FALSE

commitValid(c) ==
  NumArgs(c) = 1 \/ validateArgumentIfAny(removeTrailingEmptyArgument(c), 1, "comment")

confirmValid(c) ==
  NumArgs(c) = 1 \/ validateArgumentIfAny(removeTrailingEmptyArgument(c), 1, "persist-id")

rollbackValid(c) ==
  NumArgs(c) <= 2 \/ validateArgumentIfAny(removeTrailingEmptyArgument(c), 2, "comment")

\* Atoi succeeds.
IsNumber(w) == w \in DOMAIN Number

commitConfValid(c) ==
  LET d == removeTrailingEmptyArgument(c)
  IN  /\ NumArgs(c) > 1
      /\ NumArgs(d) >= 2 => IsNumber(Arg(d, 1)) /\ Number[Arg(d, 1)] > 0
      /\ validateArgumentIfAny(d, 2, "comment")

compareValid(c) ==
  LET saved == HasPrefix("saved", Arg(c, 1))
  IN  CASE NumArgs(c) = 1 -> TRUE
        [] NumArgs(c) > 1 /\ ~HasConfigMgmt -> validSingleCommand(c)
        [] NumArgs(c) > 1 /\ HasConfigMgmt /\ c.idx = 1 ->
             c.prefix = Blank \/ HasPrefix("saved", c.prefix) \/ IsNumber(c.prefix)
        [] NumArgs(c) > 1 /\ HasConfigMgmt /\ c.idx = 2 ->
             IF saved THEN c.prefix = Blank
             ELSE IsNumber(Arg(c, 1)) /\ (c.prefix = Blank \/ IsNumber(c.prefix))
        [] OTHER -> AtMost(c, IF saved THEN 2 ELSE 3)

exitValid(c) ==
  CASE c.idx = 1 -> HasPrefix("discard", c.prefix)
    [] c.idx = 2 -> c.prefix = Blank
    [] OTHER -> AtMost(c, 2)

\* load and save, and after a user loadkey.
loadsaveValid(c, before) ==
  LET n == before + IF HasRoutingInstance THEN 3 ELSE 1
  IN  c.idx \in 1..n \/ AtMost(c, n + 1)

loadKeyValid(c) == loadsaveValid(c, 1)

mergeValid(c) == c.idx = 1 \/ NumArgs(c) = 2

-----------------------------------------------------------------------------
\* cancel-commit: cmdDefs, and the loop over the words.

NeedArg == {"comment", "persist-id"}
AtStart == {"force", "persist-id"}
Keyword == NeedArg \cup AtStart

\* Keywords that the word at idx (counted from 0 after the command) may be.
matchKeyword(c, i, val) ==
  {k \in Keyword :
     /\ k \notin AtStart \/ i = 0
     /\ \/ HasPrefix(k, val)
        \/ c.prefix # Blank /\ c.idx = i + 1 /\ HasPrefix(k, c.prefix)}

NoDefs == [match |-> Blank, needarg |-> FALSE, ok |-> TRUE,
           pos |-> [k \in Keyword |-> 0], arg |-> [k \in Keyword |-> Blank],
           argpresent |-> {}]

\* At most one keyword matches a word that is not empty; for an empty one the code
\* takes the first in the order of a Go map, which is any.
validateWord(c, i, d) ==
  LET val == Arg(c, i + 1)
      found == matchKeyword(c, i, val)
      k == CHOOSE k \in found : TRUE
  IN  CASE ~d.ok -> d
        [] d.ok /\ d.needarg ->
             [d EXCEPT !.needarg = FALSE, !.arg[d.match] = val, !.argpresent = @ \cup {d.match}]
        [] d.ok /\ ~d.needarg /\ found = {} -> [d EXCEPT !.ok = FALSE]
        [] OTHER -> [d EXCEPT !.match = IF k \in NeedArg THEN k ELSE Blank,
                              !.needarg = k \in NeedArg, !.pos[k] = i + 1]

processCancelCommitCmd(ctx) ==
  LET c == removeTrailingEmptyArgument(ctx)
      d[n \in 0..NumArgs(c) - 1] == IF n = 0 THEN NoDefs ELSE validateWord(c, n - 1, d[n - 1])
  IN  d[NumArgs(c) - 1]

cancelcommitValid(c) == NumArgs(c) = 1 \/ processCancelCommitCmd(c).ok

-----------------------------------------------------------------------------
\* Completions: the words offered, before the prefix filters them.  Texts in
\* angle brackets are help only.

\* Mutant: keywords that must come first are offered anywhere.
cancelcommitCompAnywhere(c) ==
  LET d == processCancelCommitCmd(c)
  IN  {k \in Keyword : d.pos[k] = 0}

cancelcommitComp(c) ==
  LET d == processCancelCommitCmd(c)
      n == NumArgs(c)
      wantsText == /\ d.match # Blank
                   /\ \/ /\ d.match \in NeedArg /\ d.match \notin d.argpresent
                         /\ d.pos[d.match] # n - 1
                      \/ d.pos[d.match] = n - 2
  IN  IF wantsText THEN {}
      ELSE {k \in Keyword :
              /\ d.pos[k] \in {0, n - 1} \/ (k \in NeedArg /\ k \notin d.argpresent)
              /\ k \notin AtStart \/ n <= 2}

compareComp(c) ==
  CASE ~HasConfigMgmt -> {}
    [] HasConfigMgmt /\ c.idx = 1 -> {"saved"} \cup Revision
    [] HasConfigMgmt /\ c.idx = 2 -> IF HasPrefix("saved", Arg(c, 1)) THEN {} ELSE Revision
    [] OTHER -> {}

\* URIs are offered as patterns, which no prefix completes.
loadsaveComp(c, before) ==
  CASE ~HasRoutingInstance \/ c.prefix # Blank -> {}
    [] HasRoutingInstance /\ c.prefix = Blank /\ c.idx = before + 1 -> {"routing-instance"}
    [] HasRoutingInstance /\ c.prefix = Blank /\ c.idx = before + 2
         /\ Arg(c, before + 1) = "routing-instance" -> Instance
    [] OTHER -> {}

loadComp(c) == loadsaveComp(c, 0)
saveComp(c) == loadsaveComp(c, 0)
loadkeyComp(c) == IF c.idx = 1 THEN User ELSE loadsaveComp(c, 1)

rollbackComp(c) ==
  CASE c.idx = 1 -> Revision [] c.idx = 2 -> {"comment"} [] OTHER -> {}

\* These offer one keyword, at one place.
keywordComp(c, pos, keyword) == IF c.idx = pos THEN {keyword} ELSE {}
commitComp(c) == keywordComp(c, 1, "comment")
commitConfComp(c) == keywordComp(c, 2, "comment")
confirmComp(c) == keywordComp(c, 1, "persist-id")
exitComp(c) == keywordComp(c, 1, "discard")

-----------------------------------------------------------------------------
\* Requests.  Blank is an argument that is not there.

Refused == [call |-> "refused", arg |-> Blank, comment |-> Blank, flag |-> FALSE]
Send(call, arg, comment, flag) ==
  [call |-> call, arg |-> arg, comment |-> comment, flag |-> flag]

\* validateCommitCommentIfAny, validateConfirmPersistIdIfAny: the keyword at pos
\* without its argument is an error.
ArgumentMissing(c, pos) == NumArgs(c) = pos + 1
ArgumentIfAny(c, pos) == IF NumArgs(c) > pos + 1 THEN Arg(c, pos + 1) ELSE Blank

commitRun(c) ==
  IF ArgumentMissing(c, 1) THEN Refused
  ELSE Send("Commit", Blank, ArgumentIfAny(c, 1), FALSE)

commitConfRun(c) ==
  IF ArgumentMissing(c, 2) THEN Refused
  ELSE Send("CommitConfirm", Arg(c, 1), ArgumentIfAny(c, 2), FALSE)

confirmRun(c) ==
  IF ArgumentMissing(c, 1) THEN Refused
  ELSE LET persistid == ArgumentIfAny(c, 1)
       IN  Send(IF persistid = Blank THEN "Confirm" ELSE "ConfirmPersistId",
                persistid, Blank, FALSE)

cancelcommitRun(c) ==
  LET d == processCancelCommitCmd(c)
  IN  Send("CancelCommit", d.arg["persist-id"], d.arg["comment"], d.pos["force"] # 0)

\* Mutant: the comment is the word after the revision.
rollbackRunKeyword(c) ==
  IF NumArgs(c) = 1 THEN Refused
  ELSE Send("Rollback", Arg(c, 1), IF NumArgs(c) >= 4 THEN Arg(c, 2) ELSE Blank, FALSE)

rollbackRun(c) ==
  IF NumArgs(c) = 1 THEN Refused
  ELSE Send("Rollback", Arg(c, 1),
            IF NumArgs(c) >= 4 /\ Arg(c, 2) = "comment" THEN Arg(c, 3) ELSE Blank, FALSE)

\* load, loadkey and save: the source or destination and the routing instance.
parseCfgMgmtCmdArgs(call, words) ==
  CASE Len(words) = 3 /\ words[1] = "routing-instance" -> Send(call, words[3], words[2], FALSE)
    [] Len(words) = 1 -> Send(call, words[1], Blank, FALSE)
    [] OTHER -> Refused

compareRun(c) ==
  CASE NumArgs(c) = 1 -> Send("CompareSessionChanges", Blank, Blank, FALSE)
    [] NumArgs(c) = 2 -> Send("CompareConfigRevisions", "session", Arg(c, 1), FALSE)
    [] OTHER -> Send("CompareConfigRevisions", Arg(c, 1), Arg(c, 2), FALSE)
=============================================================================
