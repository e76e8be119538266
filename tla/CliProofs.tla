------------------------------- MODULE CliProofs -------------------------------
(***************************************************************************)
(* Proofs about Cli and the path expansion it rests on, for every schema,  *)
(* vocabulary and length of lines.  A path is walked word by word by a     *)
(* recursive function; what holds of every path is shown for a shortest    *)
(* path of which it fails.                                                 *)
(***************************************************************************)
EXTENDS Cli, OrderProofs

-----------------------------------------------------------------------------
\* Sequences and their prefixes.

\* A path that is not empty is its front and its last word.
LEMMA FrontAndLast ==
  ASSUME NEW S, NEW p \in Seq(S), p # <<>>
  PROVE  /\ Front(p) \in Seq(S) /\ Last(p) \in S /\ p = Append(Front(p), Last(p))
         /\ Len(p) \in Nat /\ Len(p) > 0 /\ Len(Front(p)) = Len(p) - 1
         /\ \A i \in 1..(Len(p) - 1) : Front(p)[i] = p[i]
<1>1. Len(p) \in Nat /\ Len(p) > 0 /\ Last(p) \in S
  BY DEF Last
<1>2. /\ Front(p) \in Seq(S) /\ Len(Front(p)) = Len(p) - 1
      /\ \A i \in 1..(Len(p) - 1) : Front(p)[i] = p[i]
  <2> DEFINE n == Len(p) - 1
  <2>1. n \in 0..Len(p)
    BY <1>1
  <2>2. /\ SubSeq(p, 1, n) \in Seq(S) /\ Len(SubSeq(p, 1, n)) = n
        /\ \A i \in 1..n : SubSeq(p, 1, n)[i] = p[i]
    <3> HIDE DEF n
    <3> QED BY <2>1, <1>1
  <2> QED BY <2>2 DEF Front
<1>3. p = Append(Front(p), Last(p))
  <2>1. Append(Front(p), Last(p)) \in Seq(S) /\ Len(Append(Front(p), Last(p))) = Len(p)
    BY <1>1, <1>2
  <2>2. \A i \in 1..Len(p) : Append(Front(p), Last(p))[i] = p[i]
    BY <1>1, <1>2 DEF Last
  <2> QED BY <2>1, <2>2
<1> QED BY <1>1, <1>2, <1>3

\* And an appended word comes off again.
LEMMA FrontOfAppend ==
  ASSUME NEW S, NEW p \in Seq(S), NEW w \in S
  PROVE  /\ Append(p, w) \in Seq(S) /\ Append(p, w) # <<>>
         /\ Front(Append(p, w)) = p /\ Last(Append(p, w)) = w
         /\ Len(Append(p, w)) = Len(p) + 1
<1>1. /\ Append(p, w) \in Seq(S) /\ Append(p, w) # <<>> /\ Len(Append(p, w)) = Len(p) + 1
      /\ Len(p) \in Nat /\ Last(Append(p, w)) = w
  BY DEF Last
<1>2. Front(Append(p, w)) = p
  <2>1. Front(Append(p, w)) \in Seq(S) /\ Len(Front(Append(p, w))) = Len(p)
    BY <1>1 DEF Front
  <2>2. \A i \in 1..Len(p) : Front(Append(p, w))[i] = p[i]
    BY <1>1 DEF Front
  <2> QED BY <2>1, <2>2
<1> QED BY <1>1, <1>2

\* The first k words of a path.
LEMMA FirstWords ==
  ASSUME NEW S, NEW p \in Seq(S), NEW k \in 0..Len(p)
  PROVE  /\ SubSeq(p, 1, k) \in Seq(S) /\ Len(SubSeq(p, 1, k)) = k
         /\ \A i \in 1..k : SubSeq(p, 1, k)[i] = p[i]
         /\ k = Len(p) => SubSeq(p, 1, k) = p
         /\ k < Len(p) => SubSeq(p, 1, k) = SubSeq(Front(p), 1, k)
         /\ k > 0 => /\ SubSeq(p, 1, k) # <<>> /\ Last(SubSeq(p, 1, k)) = p[k]
                     /\ Front(SubSeq(p, 1, k)) = SubSeq(p, 1, k - 1)
<1>1. Len(p) \in Nat /\ k \in Nat
  OBVIOUS
<1>2. /\ SubSeq(p, 1, k) \in Seq(S) /\ Len(SubSeq(p, 1, k)) = k
      /\ \A i \in 1..k : SubSeq(p, 1, k)[i] = p[i]
  BY <1>1
<1>3. k = Len(p) => SubSeq(p, 1, k) = p
  BY <1>1, <1>2
<1>4. ASSUME k < Len(p) PROVE SubSeq(p, 1, k) = SubSeq(Front(p), 1, k)
  BY <1>1, <1>2, <1>4, FrontAndLast
<1>5. ASSUME k > 0
      PROVE  /\ SubSeq(p, 1, k) # <<>> /\ Last(SubSeq(p, 1, k)) = p[k]
             /\ Front(SubSeq(p, 1, k)) = SubSeq(p, 1, k - 1)
  BY <1>1, <1>2, <1>5 DEF Front, Last
<1> QED BY <1>2, <1>3, <1>4, <1>5
-----------------------------------------------------------------------------
\* Where a path leads.

Top == [node |-> Root, val |-> FALSE]
Places(f, n, p) ==
  f = [i \in 0..n |-> IF i = 0 THEN Top
                      ELSE SchemaChild(f[i - 1], p[i])]

\* The recursive function of PathDescendant exists for paths of every length.
LEMMA PlacesExists ==
  ASSUME NEW p, NEW n \in Nat
  PROVE  \E f : Places(f, n, p)
<1> DEFINE Bad == {k \in Nat : ~\E f : Places(f, k, p)}
<1> SUFFICES ASSUME Bad # {} PROVE FALSE
  OBVIOUS
<1>1. PICK k \in Bad : \A m \in Bad : k <= m
  BY LeastNumber
<1>2. k # 0
  <2>1. \A i \in 0..0 : i = 0
    OBVIOUS
  <2>2. Places([i \in 0..0 |-> Top], 0, p)
    BY <2>1 DEF Places
  <2> QED BY <2>2
<1>3. k - 1 \in Nat /\ k - 1 \notin Bad
  BY <1>1, <1>2
<1>4. PICK f : Places(f, k - 1, p)
  BY <1>3
<1> DEFINE g == [i \in 0..k |-> IF i = k THEN SchemaChild(f[k - 1], p[k]) ELSE f[i]]
<1>5. \A i \in 0..k : g[i] = IF i = 0 THEN Top ELSE SchemaChild(g[i - 1], p[i])
  BY <1>2, <1>4 DEF Places
<1>6. Places(g, k, p)
  BY <1>5 DEF Places
<1> QED BY <1>6, <1>1

\* Two of them agree as far as their paths do.
LEMMA PlacesAgree ==
  ASSUME NEW p, NEW q, NEW m \in Nat, NEW n \in Nat, NEW f, NEW g,
         Places(f, m, p), Places(g, n, q), m <= n,
         \A i \in 1..m : p[i] = q[i]
  PROVE  \A i \in 0..m : f[i] = g[i]
<1> DEFINE Bad == {i \in 0..m : f[i] # g[i]}
<1> SUFFICES ASSUME Bad # {} PROVE FALSE
  OBVIOUS
<1>1. Bad \subseteq Nat
  OBVIOUS
<1>2. PICK k \in Bad : \A i \in Bad : k <= i
  BY <1>1, LeastNumber
<1>3. k # 0
  BY DEF Places
<1>4. k - 1 \in 0..m /\ k - 1 \notin Bad
  BY <1>2, <1>3
<1>5. f[k - 1] = g[k - 1] /\ p[k] = q[k]
  BY <1>3, <1>4
<1>6. f[k] = SchemaChild(f[k - 1], p[k]) /\ g[k] = SchemaChild(g[k - 1], q[k])
  BY <1>3 DEF Places
<1> QED BY <1>5, <1>6

LEMMA PlacesOf ==
  ASSUME NEW p \in Seq(Word)
  PROVE  \E f : Places(f, Len(p), p) /\ PathDescendant(p) = f[Len(p)]
<1>1. Len(p) \in Nat
  OBVIOUS
<1>2. \E f : Places(f, Len(p), p)
  BY <1>1, PlacesExists
<1> QED BY <1>2 DEF PathDescendant, Places, Top

\* A word leads from where the words before it lead.
LEMMA PlaceStep ==
  ASSUME NEW p \in Seq(Word), p # <<>>
  PROVE  PathDescendant(p) = SchemaChild(PathDescendant(Front(p)), Last(p))
<1>1. /\ Front(p) \in Seq(Word) /\ Len(p) \in Nat /\ Len(p) > 0 /\ Len(Front(p)) = Len(p) - 1
      /\ \A i \in 1..(Len(p) - 1) : Front(p)[i] = p[i]
  BY FrontAndLast
<1>2. PICK f : Places(f, Len(p), p) /\ PathDescendant(p) = f[Len(p)]
  BY PlacesOf
<1>3. PICK g : Places(g, Len(p) - 1, Front(p)) /\ PathDescendant(Front(p)) = g[Len(p) - 1]
  BY <1>1, PlacesOf
<1>4. g[Len(p) - 1] = f[Len(p) - 1]
  <2>1. PICK m \in Nat : m = Len(p) - 1
    BY <1>1
  <2>2. /\ Places(g, m, Front(p)) /\ m <= Len(p) /\ m \in 0..m
        /\ \A i \in 1..m : Front(p)[i] = p[i]
    BY <2>1, <1>1, <1>3
  <2>3. \A i \in 0..m : g[i] = f[i]
    BY <2>2, <1>1, <1>2, PlacesAgree, SMTT(30)
  <2> QED BY <2>1, <2>2, <2>3
<1>5. f[Len(p)] = SchemaChild(f[Len(p) - 1], p[Len(p)])
  BY <1>1, <1>2, SMTT(30) DEF Places
<1> QED BY <1>2, <1>3, <1>4, <1>5 DEF Last

LEMMA PlaceOfRoot == PathDescendant(<<>>) = Top
<1>1. <<>> \in Seq(Word) /\ Len(<<>>) = 0
  OBVIOUS
<1>2. PICK f : Places(f, 0, <<>>) /\ PathDescendant(<<>>) = f[0]
  BY <1>1, PlacesOf
<1> QED BY <1>2 DEF Places

-----------------------------------------------------------------------------
\* What a path expands to.

Start(pos) == [node |-> Root, expect |-> "child", cpath |-> <<>>, pos |-> pos, err |-> "nil"]
States(f, n, p, prefix, pos) ==
  f = [i \in 0..n |-> IF i = 0 THEN Start(pos)
                      ELSE expandWord(f[i - 1], p[i], prefix)]

\* The recursive function of expandPath exists for paths of every length.
LEMMA StatesExists ==
  ASSUME NEW p, NEW prefix, NEW pos, NEW n \in Nat
  PROVE  \E f : States(f, n, p, prefix, pos)
<1> DEFINE Bad == {k \in Nat : ~\E f : States(f, k, p, prefix, pos)}
<1> SUFFICES ASSUME Bad # {} PROVE FALSE
  OBVIOUS
<1>1. PICK k \in Bad : \A m \in Bad : k <= m
  BY LeastNumber
<1>2. k # 0
  <2>1. \A i \in 0..0 : i = 0
    OBVIOUS
  <2>2. States([i \in 0..0 |-> Start(pos)], 0, p, prefix, pos)
    BY <2>1 DEF States
  <2> QED BY <2>2
<1>3. k - 1 \in Nat /\ k - 1 \notin Bad
  BY <1>1, <1>2
<1>4. PICK f : States(f, k - 1, p, prefix, pos)
  BY <1>3
<1> DEFINE g == [i \in 0..k |-> IF i = k THEN expandWord(f[k - 1], p[k], prefix) ELSE f[i]]
<1>5. \A i \in 0..k : g[i] = IF i = 0 THEN Start(pos) ELSE expandWord(g[i - 1], p[i], prefix)
  BY <1>2, <1>4 DEF States
<1>6. States(g, k, p, prefix, pos)
  BY <1>5 DEF States
<1> QED BY <1>6, <1>1

\* Two of them agree as far as their paths do.
LEMMA StatesAgree ==
  ASSUME NEW p, NEW q, NEW prefix, NEW pos, NEW m \in Nat, NEW n \in Nat, NEW f, NEW g,
         States(f, m, p, prefix, pos), States(g, n, q, prefix, pos), m <= n,
         \A i \in 1..m : p[i] = q[i]
  PROVE  \A i \in 0..m : f[i] = g[i]
<1> DEFINE Bad == {i \in 0..m : f[i] # g[i]}
<1> SUFFICES ASSUME Bad # {} PROVE FALSE
  OBVIOUS
<1>1. Bad \subseteq Nat
  OBVIOUS
<1>2. PICK k \in Bad : \A i \in Bad : k <= i
  BY <1>1, LeastNumber
<1>3. k # 0
  BY DEF States
<1>4. k - 1 \in 0..m /\ k - 1 \notin Bad
  BY <1>2, <1>3
<1>5. f[k - 1] = g[k - 1] /\ p[k] = q[k]
  BY <1>3, <1>4
<1>6. f[k] = expandWord(f[k - 1], p[k], prefix) /\ g[k] = expandWord(g[k - 1], q[k], prefix)
  BY <1>3 DEF States
<1> QED BY <1>5, <1>6

LEMMA StatesOf ==
  ASSUME NEW p \in Seq(Word), NEW prefix, NEW pos
  PROVE  \E f : States(f, Len(p), p, prefix, pos) /\ expandPath(p, prefix, pos) = f[Len(p)]
<1>1. Len(p) \in Nat
  OBVIOUS
<1>2. \E f : States(f, Len(p), p, prefix, pos)
  BY <1>1, StatesExists
<1> QED BY <1>2 DEF expandPath, States, Start

\* A word is expanded from where the words before it lead.
LEMMA ExpandStep ==
  ASSUME NEW p \in Seq(Word), p # <<>>, NEW prefix, NEW pos
  PROVE  expandPath(p, prefix, pos) = expandWord(expandPath(Front(p), prefix, pos), Last(p), prefix)
<1>1. /\ Front(p) \in Seq(Word) /\ Len(p) \in Nat /\ Len(p) > 0 /\ Len(Front(p)) = Len(p) - 1
      /\ \A i \in 1..(Len(p) - 1) : Front(p)[i] = p[i]
  BY FrontAndLast
<1>2. PICK f : States(f, Len(p), p, prefix, pos) /\ expandPath(p, prefix, pos) = f[Len(p)]
  BY StatesOf
<1>3. PICK g : /\ States(g, Len(p) - 1, Front(p), prefix, pos)
               /\ expandPath(Front(p), prefix, pos) = g[Len(p) - 1]
  BY <1>1, StatesOf
<1>4. g[Len(p) - 1] = f[Len(p) - 1]
  <2>1. PICK m \in Nat : m = Len(p) - 1
    BY <1>1
  <2>2. /\ States(g, m, Front(p), prefix, pos) /\ m <= Len(p) /\ m \in 0..m
        /\ \A i \in 1..m : Front(p)[i] = p[i]
    BY <2>1, <1>1, <1>3
  <2>3. \A i \in 0..m : g[i] = f[i]
    BY <2>2, <1>1, <1>2, StatesAgree
  <2> QED BY <2>1, <2>2, <2>3
<1>5. f[Len(p)] = expandWord(f[Len(p) - 1], p[Len(p)], prefix)
  BY <1>1, <1>2, SMTT(30) DEF States
<1> QED BY <1>2, <1>3, <1>4, <1>5 DEF Last

LEMMA ExpandOfNothing ==
  ASSUME NEW prefix, NEW pos
  PROVE  expandPath(<<>>, prefix, pos) = Start(pos)
<1>1. <<>> \in Seq(Word) /\ Len(<<>>) = 0
  OBVIOUS
<1>2. PICK f : States(f, 0, <<>>, prefix, pos) /\ expandPath(<<>>, prefix, pos) = f[0]
  BY <1>1, StatesOf
<1> QED BY <1>2 DEF States

-----------------------------------------------------------------------------
\* One word, when no prefix is used.

\* The words of an expanded path: the one at the cursor may be joined from others.
Written == Word \cup {Joined(n, p, w) : n \in Word, p \in Word, w \in Word}

State == [node : DOMAIN Kind, expect : {"child", "key", "field", "value", "end"},
          cpath : Seq(Written), pos : Int, err : {"nil", "unknown", "ambiguous", "prefix"}]

\* The nodes that have values.
Valued == {"leaf", "leaf-list", "leafref"}

\* What a state expects fits its node, and its position is past any cursor.
Sound(st) ==
  /\ st \in State /\ st.cpath \in Seq(Word)
  /\ st.expect = "child" => Kind[st.node] \in Container /\ st.pos <= 0
  /\ st.expect # "child" => st.pos < 0
  /\ st.expect \in {"key", "field"} => Kind[st.node] = "list"
  /\ st.expect = "value" => Kind[st.node] \in Valued \cup {"empty"}
  /\ st.expect = "end" => Kind[st.node] \in Valued

Place(st) == [node |-> st.node, val |-> IF st.expect \in {"field", "end"} THEN TRUE ELSE FALSE]

Found(st, n, pos) ==
  [node |-> n, expect |-> Expecting(n), cpath |-> Append(st.cpath, n), pos |-> pos,
   err |-> st.err]

LEMMA WordsAreWritten ==
  ASSUME NEW s \in Seq(Word)
  PROVE  s \in Seq(Written)
<1>1. Word \subseteq Written
  BY DEF Written
<1>2. \A i \in 1..Len(s) : s[i] \in Written
  BY <1>1
<1> QED BY <1>2

LEMMA ChildrenAreNodes ==
  ASSUME NEW m \in DOMAIN Kind
  PROVE  ToSet(Children[m]) \subseteq DOMAIN Kind /\ ToSet(Children[m]) \subseteq Word
<1>1. Children[m] \in Seq(DOMAIN Kind) /\ DOMAIN Kind \subseteq Word
  BY PathAssumption
<1>2. \A i \in DOMAIN Children[m] : Children[m][i] \in DOMAIN Kind
  BY <1>1
<1> QED BY <1>1, <1>2 DEF ToSet

LEMMA NoPrefixMatch ==
  ASSUME NEW c, NEW skip, NEW w, NEW prefix, NEW pos \in Int, pos < 0
  PROVE  ~PrefixMatch(c, skip, w, prefix, pos)
<1>1. pos # 0
  OBVIOUS
<1> QED BY <1>1, Zenon DEF PrefixMatch

LEMMA DescendOne ==
  ASSUME NEW st \in State, NEW skip, NEW n \in ToSet(Children[st.node]) \ skip, NEW prefix,
         NEW pos \in Int, pos < 0
  PROVE  processchildrenskip(st, n, skip, prefix, pos) = Found(st, n, pos)
<1>1. Cardinality({n}) = 1 /\ ~(Cardinality({n}) > 1) /\ {n} # {} /\ (CHOOSE m \in {n} : TRUE) = n
  BY FS_Singleton
<1>2. ~PrefixMatch(Children[st.node], skip, n, prefix, pos)
  BY NoPrefixMatch
<1>3. Matches(ToSet(Children[st.node]) \ skip, n, prefix, pos) = {n}
  BY DEF Matches
<1>4. processchildrenskip(st, n, skip, prefix, pos)
        = [st EXCEPT !.node = n, !.expect = Expecting(n), !.cpath = Append(@, n),
                     !.pos = pos]
  BY <1>1, <1>2, <1>3 DEF Descend, processchildrenskip
<1> QED BY <1>4 DEF Found, State

LEMMA DescendNone ==
  ASSUME NEW st, NEW w, NEW prefix, NEW pos, NEW c, NEW skip
  PROVE  Descend(st, w, prefix, pos, {}, PrefixMatch(c, skip, w, prefix, pos))
           = Fail(st, "unknown")
<1>1. Cardinality({}) = 0 /\ ~(Cardinality({}) > 1) /\ ~(Cardinality({}) = 1)
  BY FS_EmptySet
<1> QED BY <1>1 DEF Descend

\* The name of a child, or what abbreviates one child alone, leads to it.
LEMMA Descends ==
  ASSUME NEW st \in State, st.err = "nil", NEW w \in Word, NEW skip, NEW prefix,
         NEW pos \in Int, pos < 0
  PROVE  \/ processchildrenskip(st, w, skip, prefix, pos) = Fail(st, "unknown")
         \/ processchildrenskip(st, w, skip, prefix, pos) = Fail(st, "ambiguous")
         \/ \E n \in ToSet(Children[st.node]) \ skip :
              /\ processchildrenskip(st, w, skip, prefix, pos) = Found(st, n, pos)
              /\ processchildrenskip(st, n, skip, prefix, pos) = Found(st, n, pos)
<1> DEFINE names == ToSet(Children[st.node]) \ skip
           found == Matches(names, w, prefix, pos)
           r == processchildrenskip(st, w, skip, prefix, pos)
<1>1. \A v : ~PrefixMatch(Children[st.node], skip, v, prefix, pos)
  BY NoPrefixMatch
<1>2. \A v : processchildrenskip(st, v, skip, prefix, pos)
               = Descend(st, v, prefix, pos, Matches(names, v, prefix, pos),
                         PrefixMatch(Children[st.node], skip, v, prefix, pos))
  BY DEF processchildrenskip
<1>3. CASE found = {}
  <2>1. r = Fail(st, "unknown")
    BY <1>2, <1>3, DescendNone
  <2> QED BY <2>1
<1>4. CASE found # {} /\ Cardinality(found) > 1
  <2>1. r = Fail(st, "ambiguous")
    BY <1>1, <1>2, <1>4 DEF Descend
  <2> QED BY <2>1
<1>5. CASE found # {} /\ ~(Cardinality(found) > 1)
  <2> DEFINE n == CHOOSE n \in found : TRUE
  <2>1. n \in found /\ n \in names
    BY <1>5 DEF Matches
  <2>2. r = [st EXCEPT !.node = n, !.expect = Expecting(n), !.cpath = Append(@, n),
                       !.pos = pos]
    BY <1>1, <1>2, <1>5 DEF Descend
  <2>3. r = Found(st, n, pos)
    BY <2>2 DEF Found, State
  <2> HIDE DEF n
  <2>4. processchildrenskip(st, n, skip, prefix, pos) = Found(st, n, pos)
    BY <2>1, DescendOne
  <2> QED BY <2>1, <2>3, <2>4
<1> QED BY <1>3, <1>4, <1>5

\* r follows st: one more word, which leads on from the place of st, and which
\* expands to itself.
Follows(st, r, prefix) ==
  \E n \in Word : /\ r.cpath = Append(st.cpath, n)
                  /\ Place(r) = SchemaChild(Place(st), n)
                  /\ expandWord(st, n, prefix) = r

LEMMA FoundFollows ==
  ASSUME NEW st, Sound(st), st.err = "nil", st.expect \in {"child", "field"}, NEW pos \in Int, pos < 0,
         NEW n \in ToSet(Children[st.node])
  PROVE  /\ Sound(Found(st, n, pos)) /\ Found(st, n, pos).err = "nil"
         /\ Found(st, n, pos).cpath = Append(st.cpath, n)
         /\ Place(Found(st, n, pos)) = SchemaChild(Place(st), n)
<1>1. n \in DOMAIN Kind /\ n \in Word /\ st \in State
  BY ChildrenAreNodes DEF Sound, State
<1>2. Kind[n] \in Container \cup {"list", "empty"} \cup Valued
  BY <1>1, PathAssumption DEF Container, Valued
<1>3. /\ Expecting(n) \in {"child", "key", "value"}
      /\ Expecting(n) = "child" => Kind[n] \in Container
      /\ Expecting(n) = "key" => Kind[n] = "list"
      /\ Expecting(n) = "value" => Kind[n] \in Valued \cup {"empty"}
  BY <1>2 DEF Expecting
<1>4. Found(st, n, pos) = [node |-> n, expect |-> Expecting(n), cpath |-> Append(st.cpath, n),
                           pos |-> pos, err |-> "nil"]
  BY DEF Found
<1>0. Append(st.cpath, n) \in Seq(Word) /\ Append(st.cpath, n) \in Seq(Written)
  BY <1>1, FrontOfAppend, WordsAreWritten DEF Sound
<1>5. Found(st, n, pos) \in State
  BY <1>0, <1>1, <1>3, <1>4 DEF State
<1>6. Sound(Found(st, n, pos))
  BY <1>0, <1>3, <1>4, <1>5 DEF Sound
<1>7. Place(st) # Nowhere /\ Inner(Place(st))
  BY <1>1, PathAssumption DEF Place, Nowhere, Inner, Sound, State
<1>8. Place(Found(st, n, pos)) = [node |-> n, val |-> FALSE]
  <2>1. Found(st, n, pos).node = n /\ ~(Found(st, n, pos).expect \in {"field", "end"})
    BY <1>3, <1>4
  <2> QED BY <2>1 DEF Place
<1>9. SchemaChild(Place(st), n) = [node |-> n, val |-> FALSE]
  BY <1>7 DEF SchemaChild, Place
<1> QED BY <1>4, <1>6, <1>8, <1>9

LEMMA FailIsSound ==
  ASSUME NEW st, Sound(st), NEW why \in {"unknown", "ambiguous"}
  PROVE  Sound(Fail(st, why)) /\ Fail(st, why).err = why
<1>1. Fail(st, why) = [node |-> st.node, expect |-> st.expect, cpath |-> st.cpath,
                       pos |-> st.pos, err |-> why]
  BY DEF Fail, Sound, State
<1> QED BY <1>1 DEF Sound, State

\* A word keeps the state sound, and unless it fails, follows.
LEMMA WordStep ==
  ASSUME NEW st, Sound(st), st.err = "nil", NEW w \in Word, NEW prefix
  PROVE  /\ Sound(expandWord(st, w, prefix))
         /\ expandWord(st, w, prefix).err = "nil" => Follows(st, expandWord(st, w, prefix), prefix)
<1> DEFINE r == expandWord(st, w, prefix)
<1>0. st \in State /\ st.pos \in Int
  BY DEF Sound, State
<1>1. ASSUME NEW skip, NEW pos \in Int, pos < 0, st.expect \in {"child", "field"},
             \A v \in Word : expandWord(st, v, prefix) = processchildrenskip(st, v, skip, prefix, pos)
      PROVE  Sound(r) /\ (r.err = "nil" => Follows(st, r, prefix))
  <2>1. r = processchildrenskip(st, w, skip, prefix, pos)
    BY <1>1
  <2>2. CASE r = Fail(st, "unknown") \/ r = Fail(st, "ambiguous")
    <3>1. Sound(r) /\ r.err # "nil"
      <4> HIDE DEF r
      <4> QED BY <2>2, FailIsSound
    <3> QED BY <3>1
  <2>3. CASE \E n \in ToSet(Children[st.node]) \ skip :
               r = Found(st, n, pos) /\ processchildrenskip(st, n, skip, prefix, pos) = r
    <3>1. PICK n \in ToSet(Children[st.node]) \ skip :
                 r = Found(st, n, pos) /\ processchildrenskip(st, n, skip, prefix, pos) = r
      BY <2>3
    <3>2. n \in Word
      BY <1>0, ChildrenAreNodes DEF State
    <3>3. expandWord(st, n, prefix) = r
      BY <1>1, <3>1, <3>2
    <3> HIDE DEF r
    <3>4. Sound(r) /\ r.cpath = Append(st.cpath, n) /\ Place(r) = SchemaChild(Place(st), n)
      BY <1>1, <3>1, FoundFollows
    <3> QED BY <3>2, <3>3, <3>4 DEF Follows
  <2>4. \/ r = Fail(st, "unknown") \/ r = Fail(st, "ambiguous")
        \/ \E n \in ToSet(Children[st.node]) \ skip :
             r = Found(st, n, pos) /\ processchildrenskip(st, n, skip, prefix, pos) = r
    BY <1>0, <1>1, <2>1, Descends
  <2> QED BY <2>2, <2>3, <2>4
<1>2. CASE st.expect = "child"
  <2>1. \A v \in Word : expandWord(st, v, prefix) = processchildrenskip(st, v, {}, prefix, st.pos - 1)
    BY <1>2 DEF expandWord
  <2>2. st.pos - 1 \in Int /\ st.pos - 1 < 0
    BY <1>0, <1>2 DEF Sound
  <2> QED BY <1>1, <1>2, <2>1, <2>2
<1>3. CASE st.expect = "field"
  <2>1. \A v \in Word : expandWord(st, v, prefix)
                          = processchildrenskip(st, v, {Key[st.node]}, prefix, st.pos)
    BY <1>3 DEF expandWord
  <2>2. st.pos \in Int /\ st.pos < 0
    BY <1>0, <1>3 DEF Sound
  <2> QED BY <1>1, <1>3, <2>1, <2>2
<1>4. CASE st.expect = "key"
  <2>1. r = [st EXCEPT !.cpath = Append(@, w), !.expect = "field"]
    BY <1>4 DEF expandWord
  <2>2. r = [node |-> st.node, expect |-> "field", cpath |-> Append(st.cpath, w),
             pos |-> st.pos, err |-> "nil"]
    BY <1>0, <2>1 DEF State
  <2>9. Append(st.cpath, w) \in Seq(Word) /\ Append(st.cpath, w) \in Seq(Written)
    BY FrontOfAppend, WordsAreWritten DEF Sound
  <2>3. r \in State
    BY <1>0, <2>2, <2>9 DEF State
  <2>4. Sound(r)
    BY <1>0, <1>4, <2>2, <2>3, <2>9 DEF Sound
  <2>5. Place(st) = [node |-> st.node, val |-> FALSE] /\ Place(r) = [node |-> st.node, val |-> TRUE]
    BY <1>4, <2>2 DEF Place
  <2>6. SchemaChild(Place(st), w) = [node |-> st.node, val |-> TRUE]
    BY <1>0, <1>4, <2>5, PathAssumption DEF SchemaChild, Inner, Nowhere, State, Sound, Container, Valued
  <2>7. r.cpath = Append(st.cpath, w) /\ Place(r) = SchemaChild(Place(st), w)
    BY <2>2, <2>5, <2>6
  <2> QED BY <2>4, <2>7 DEF Follows
<1>5. CASE st.expect = "value" /\ Kind[st.node] # "empty"
  <2>1. r = [st EXCEPT !.cpath = Append(@, w), !.expect = "end"]
    BY <1>5 DEF expandWord
  <2>2. r = [node |-> st.node, expect |-> "end", cpath |-> Append(st.cpath, w),
             pos |-> st.pos, err |-> "nil"]
    BY <1>0, <2>1 DEF State
  <2>9. Append(st.cpath, w) \in Seq(Word) /\ Append(st.cpath, w) \in Seq(Written)
    BY FrontOfAppend, WordsAreWritten DEF Sound
  <2>3. r \in State
    BY <1>0, <2>2, <2>9 DEF State
  <2>4. Sound(r)
    BY <1>0, <1>5, <2>2, <2>3, <2>9 DEF Sound, Valued
  <2>5. Place(st) = [node |-> st.node, val |-> FALSE] /\ Place(r) = [node |-> st.node, val |-> TRUE]
    BY <1>5, <2>2 DEF Place
  <2>6. SchemaChild(Place(st), w) = [node |-> st.node, val |-> TRUE]
    BY <1>0, <1>5, <2>5, PathAssumption DEF SchemaChild, Inner, Nowhere, State, Sound, Container, Valued
  <2>7. r.cpath = Append(st.cpath, w) /\ Place(r) = SchemaChild(Place(st), w)
    BY <2>2, <2>5, <2>6
  <2> QED BY <2>4, <2>7 DEF Follows
<1>6. CASE st.expect = "end" \/ (st.expect = "value" /\ Kind[st.node] = "empty")
  <2>1. r = Fail(st, "unknown")
    BY <1>6 DEF expandWord
  <2>2. Sound(r) /\ r.err # "nil"
    <3> HIDE DEF r
    <3> QED BY <2>1, FailIsSound
  <2> QED BY <2>2
<1> QED BY <1>0, <1>2, <1>3, <1>4, <1>5, <1>6 DEF State

-----------------------------------------------------------------------------
\* Paths, when no prefix is used.

NoPrefix == "__noncomp__"

LEMMA BeginningOfFront ==
  ASSUME NEW p \in Seq(Word), NEW w \in Word, NEW k \in 0..Len(p)
  PROVE  SubSeq(Append(p, w), 1, k) = SubSeq(p, 1, k)
<1> DEFINE q == Append(p, w)
<1>1. q \in Seq(Word) /\ Len(q) = Len(p) + 1 /\ Front(q) = p
  BY FrontOfAppend
<1> HIDE DEF q
<1>2. k \in 0..Len(q) /\ k < Len(q)
  BY <1>1
<1>3. SubSeq(q, 1, k) = SubSeq(Front(q), 1, k)
  BY <1>1, <1>2, FirstWords
<1> QED BY <1>1, <1>3 DEF q

LEMMA ExpandOne ==
  ASSUME NEW p \in Seq(Word), p # <<>>
  PROVE  Expand(p) = expandWord(Expand(Front(p)), Last(p), NoPrefix)
<1>1. \A q : Expand(q) = expandPath(q, NoPrefix, 0)
  BY DEF Expand, ExpandWithPrefix, NoPrefix
<1>2. expandPath(p, NoPrefix, 0) = expandWord(expandPath(Front(p), NoPrefix, 0), Last(p), NoPrefix)
  BY ExpandStep
<1> QED BY <1>1, <1>2

LEMMA ExpandNothing == Expand(<<>>) = Start(0)
<1>1. Expand(<<>>) = expandPath(<<>>, NoPrefix, 0)
  BY DEF Expand, ExpandWithPrefix, NoPrefix
<1>2. expandPath(<<>>, NoPrefix, 0) = Start(0)
  BY ExpandOfNothing
<1> QED BY <1>1, <1>2

LEMMA StuckInError ==
  ASSUME NEW st, st.err # "nil", NEW w, NEW prefix
  PROVE  expandWord(st, w, prefix) = st
BY DEF expandWord

LEMMA ExpandSound ==
  ASSUME NEW p \in Seq(Word)
  PROVE  Sound(Expand(p))
<1> DEFINE Bad == {n \in Nat : \E q \in Seq(Word) : Len(q) = n /\ ~Sound(Expand(q))}
<1> SUFFICES ASSUME Bad # {} PROVE FALSE
  OBVIOUS
<1>1. PICK n \in Bad : \A m \in Bad : n <= m
  BY LeastNumber
<1>2. PICK q \in Seq(Word) : Len(q) = n /\ ~Sound(Expand(q))
  BY <1>1
<1>3. CASE q = <<>>
  <2>1. Start(0) \in State
    BY PathAssumption DEF Start, State
  <2>2. Sound(Start(0))
    BY <2>1, PathAssumption DEF Start, Sound, Container
  <2> QED BY <1>2, <1>3, <2>2, ExpandNothing
<1>4. CASE q # <<>>
  <2>1. Front(q) \in Seq(Word) /\ Last(q) \in Word /\ Len(Front(q)) = n - 1 /\ n - 1 \in Nat
    BY <1>2, <1>4, FrontAndLast
  <2>2. Sound(Expand(Front(q)))
    BY <1>1, <2>1
  <2>3. Sound(expandWord(Expand(Front(q)), Last(q), NoPrefix))
    BY <2>1, <2>2, WordStep, StuckInError
  <2> QED BY <1>2, <1>4, <2>3, ExpandOne
<1> QED BY <1>3, <1>4

\* The words of a path that expands, expand, each from where the others lead.
LEMMA ExpandFollows ==
  ASSUME NEW p \in Seq(Word), p # <<>>, Expand(p).err = "nil"
  PROVE  /\ Expand(Front(p)).err = "nil"
         /\ Follows(Expand(Front(p)), Expand(p), NoPrefix)
<1>1. Front(p) \in Seq(Word) /\ Last(p) \in Word
  BY FrontAndLast
<1>2. Expand(p) = expandWord(Expand(Front(p)), Last(p), NoPrefix)
  BY ExpandOne
<1>3. Expand(Front(p)).err = "nil"
  BY <1>2, StuckInError
<1>4. Sound(Expand(Front(p)))
  BY <1>1, ExpandSound
<1> QED BY <1>1, <1>2, <1>3, <1>4, WordStep

\* What a path expands to is a path of the schema, and expands to itself.
Expands(p) ==
  /\ Expand(p).cpath \in Seq(Word) /\ Len(Expand(p).cpath) = Len(p)
  /\ PathDescendant(Expand(p).cpath) = Place(Expand(p))
  /\ Expand(Expand(p).cpath) = Expand(p)

LEMMA ExpandLeads ==
  ASSUME NEW p \in Seq(Word), Expand(p).err = "nil"
  PROVE  Expands(p)
<1> DEFINE Bad == {n \in Nat : \E q \in Seq(Word) :
                                 Len(q) = n /\ Expand(q).err = "nil" /\ ~Expands(q)}
<1> SUFFICES ASSUME Bad # {} PROVE FALSE
  OBVIOUS
<1>1. PICK n \in Bad : \A m \in Bad : n <= m
  BY LeastNumber
<1>2. PICK q \in Seq(Word) : Len(q) = n /\ Expand(q).err = "nil" /\ ~Expands(q)
  BY <1>1
<1>3. CASE q = <<>>
  <2>1. Expand(q).cpath = <<>> /\ Expand(q).node = Root /\ Expand(q).expect = "child"
    BY <1>3, ExpandNothing DEF Start
  <2>2. Place(Expand(q)) = Top
    BY <2>1 DEF Place, Top
  <2> QED BY <1>2, <1>3, <2>1, <2>2, PlaceOfRoot DEF Expands
<1>4. CASE q # <<>>
  <2> DEFINE f == Expand(Front(q))
             e == Expand(q)
  <2>1. Front(q) \in Seq(Word) /\ Last(q) \in Word /\ Len(Front(q)) = n - 1 /\ n - 1 \in Nat
    <3>1. /\ Front(q) \in Seq(Word) /\ Last(q) \in Word /\ Len(Front(q)) = Len(q) - 1
          /\ Len(q) \in Nat /\ Len(q) > 0
      BY <1>4, FrontAndLast
    <3> QED BY <1>2, <3>1
  <2>2. f.err = "nil" /\ Follows(f, e, NoPrefix)
    BY <1>2, <1>4, ExpandFollows
  <2>3. Expands(Front(q))
    BY <1>1, <2>1, <2>2
  <2>4. /\ f.cpath \in Seq(Word) /\ Len(f.cpath) = n - 1
        /\ PathDescendant(f.cpath) = Place(f) /\ Expand(f.cpath) = f
    BY <2>1, <2>3 DEF Expands
  <2> HIDE DEF f, e
  <2>5. PICK w \in Word : /\ e.cpath = Append(f.cpath, w) /\ Place(e) = SchemaChild(Place(f), w)
                          /\ expandWord(f, w, NoPrefix) = e
    BY <2>2 DEF Follows
  <2>6. /\ e.cpath \in Seq(Word) /\ e.cpath # <<>> /\ Len(e.cpath) = n
        /\ Front(e.cpath) = f.cpath /\ Last(e.cpath) = w
    BY <2>1, <2>4, <2>5, FrontOfAppend
  <2>7. PathDescendant(e.cpath) = Place(e)
    BY <2>4, <2>5, <2>6, PlaceStep
  <2>8. Expand(e.cpath) = e
    BY <2>4, <2>5, <2>6, ExpandOne
  <2> QED BY <1>2, <2>6, <2>7, <2>8 DEF Expands, e
<1> QED BY <1>3, <1>4

\* The beginning of a path expands to the beginning of what the path expands to.
LEMMA ExpandBeginning ==
  ASSUME NEW p \in Seq(Word), Expand(p).err = "nil", NEW k \in 0..Len(p)
  PROVE  /\ Expand(SubSeq(p, 1, k)).err = "nil"
         /\ Expand(SubSeq(p, 1, k)).cpath = SubSeq(Expand(p).cpath, 1, k)
<1> DEFINE Good(q) == /\ Expand(SubSeq(q, 1, k)).err = "nil"
                      /\ Expand(SubSeq(q, 1, k)).cpath = SubSeq(Expand(q).cpath, 1, k)
           Bad == {n \in Nat : \E q \in Seq(Word) :
                                 Len(q) = n /\ k <= n /\ Expand(q).err = "nil" /\ ~Good(q)}
<1> SUFFICES ASSUME Bad # {} PROVE FALSE
  OBVIOUS
<1>1. PICK n \in Bad : \A m \in Bad : n <= m
  BY LeastNumber
<1>2. PICK q \in Seq(Word) : Len(q) = n /\ k <= n /\ Expand(q).err = "nil" /\ ~Good(q)
  BY <1>1
<1>0. k \in Nat /\ Len(p) \in Nat /\ k \in 0..Len(q)
  BY <1>2
<1>3. CASE k = n
  <2>1. SubSeq(q, 1, k) = q
    BY <1>0, <1>2, <1>3, FirstWords
  <2>2. Expand(q).cpath \in Seq(Word) /\ Len(Expand(q).cpath) = k
    BY <1>2, <1>3, ExpandLeads DEF Expands
  <2>3. SubSeq(Expand(q).cpath, 1, k) = Expand(q).cpath
    BY <1>0, <2>2, FirstWords
  <2> QED BY <1>2, <2>1, <2>3
<1>4. CASE k < n
  <2> DEFINE f == Expand(Front(q))
             e == Expand(q)
  <2>0. q # <<>>
    BY <1>0, <1>2, <1>4
  <2>1. Front(q) \in Seq(Word) /\ Last(q) \in Word /\ Len(Front(q)) = n - 1 /\ n - 1 \in Nat
    <3>1. /\ Front(q) \in Seq(Word) /\ Last(q) \in Word /\ Len(Front(q)) = Len(q) - 1
          /\ Len(q) \in Nat /\ Len(q) > 0
      BY <2>0, FrontAndLast
    <3> QED BY <1>2, <3>1
  <2>2. f.err = "nil" /\ Follows(f, e, NoPrefix)
    BY <1>2, <2>0, ExpandFollows
  <2>3. f.cpath \in Seq(Word) /\ Len(f.cpath) = n - 1
    BY <2>1, <2>2, ExpandLeads DEF Expands
  <2>4. Good(Front(q))
    BY <1>0, <1>1, <1>4, <2>1, <2>2
  <2>5. PICK w \in Word : e.cpath = Append(f.cpath, w)
    BY <2>2 DEF Follows
  <2>6. SubSeq(q, 1, k) = SubSeq(Front(q), 1, k)
    <3>1. k < Len(q)
      BY <1>2, <1>4
    <3> QED BY <1>0, <3>1, FirstWords
  <2> HIDE DEF f, e
  <2>7. SubSeq(e.cpath, 1, k) = SubSeq(f.cpath, 1, k)
    <3>1. k \in 0..Len(f.cpath)
      BY <1>0, <1>4, <2>3
    <3> QED BY <2>3, <2>5, <3>1, BeginningOfFront
  <2> QED BY <1>2, <2>4, <2>6, <2>7 DEF e, f
<1> QED BY <1>0, <1>2, <1>3, <1>4

-----------------------------------------------------------------------------
\* Prefixes of paths.

LEMMA PrefixWords ==
  ASSUME NEW p \in Seq(Word), NEW q \in Seq(Word)
  PROVE  /\ IsPrefix(p, q) <=> Len(p) <= Len(q) /\ \A i \in 1..Len(p) : p[i] = q[i]
         /\ IsPrefix(p, q) => p = SubSeq(q, 1, Len(p)) /\ Len(p) \in 0..Len(q)
<1>1. Len(p) \in Nat /\ Len(q) \in Nat /\ SubSeq(p, 1, Len(p)) = p
  BY FirstWords
<1>2. ASSUME Len(p) <= Len(q)
      PROVE  SubSeq(p, 1, Len(p)) = SubSeq(q, 1, Len(p)) <=> \A i \in 1..Len(p) : p[i] = q[i]
  <2> DEFINE s == SubSeq(q, 1, Len(p))
  <2>1. Len(p) \in 0..Len(q)
    BY <1>1, <1>2
  <2>2. s \in Seq(Word) /\ Len(s) = Len(p) /\ \A i \in 1..Len(p) : s[i] = q[i]
    BY <2>1, FirstWords
  <2> HIDE DEF s
  <2>3. p = s <=> \A i \in 1..Len(p) : p[i] = s[i]
    BY <1>1, <2>2
  <2> QED BY <1>1, <2>2, <2>3 DEF s
<1> QED BY <1>1, <1>2 DEF IsPrefix

LEMMA PrefixesOfPath ==
  ASSUME NEW q \in Seq(Word), NEW r
  PROVE  r \in Prefixes(q) <=> r \in Seq(Word) /\ IsPrefix(r, q)
<1>1. ASSUME r \in Prefixes(q) PROVE r \in Seq(Word) /\ IsPrefix(r, q)
  <2>1. PICK k \in 0..Len(q) : r = SubSeq(q, 1, k)
    BY <1>1 DEF Prefixes
  <2>2. r \in Seq(Word) /\ Len(r) = k /\ \A i \in 1..k : r[i] = q[i]
    BY <2>1, FirstWords
  <2>3. Len(r) <= Len(q) /\ \A i \in 1..Len(r) : r[i] = q[i]
    BY <2>1, <2>2
  <2> QED BY <2>2, <2>3, PrefixWords
<1>2. ASSUME r \in Seq(Word), IsPrefix(r, q) PROVE r \in Prefixes(q)
  BY <1>2, PrefixWords DEF Prefixes
<1> QED BY <1>1, <1>2

LEMMA PrefixTransitive ==
  ASSUME NEW p \in Seq(Word), NEW q \in Seq(Word), NEW r \in Seq(Word),
         IsPrefix(p, q), IsPrefix(q, r)
  PROVE  IsPrefix(p, r)
<1>1. Len(p) \in Nat /\ Len(q) \in Nat /\ Len(r) \in Nat
  OBVIOUS
<1>2. Len(p) <= Len(q) /\ (\A i \in 1..Len(p) : p[i] = q[i])
  BY PrefixWords
<1>3. Len(q) <= Len(r) /\ (\A i \in 1..Len(q) : q[i] = r[i])
  BY PrefixWords
<1>4. Len(p) <= Len(r) /\ (\A i \in 1..Len(p) : p[i] = r[i])
  BY <1>1, <1>2, <1>3
<1> QED BY <1>4, PrefixWords

\* Of two beginnings of a path the shorter begins the longer.
LEMMA PrefixesComparable ==
  ASSUME NEW p \in Seq(Word), NEW q \in Seq(Word), NEW r \in Seq(Word),
         IsPrefix(p, r), IsPrefix(q, r)
  PROVE  /\ Len(p) <= Len(q) => IsPrefix(p, q)
         /\ IsPrefix(p, q) \/ IsPrefix(q, p)
         /\ Len(p) = Len(q) => p = q
<1>1. Len(p) \in Nat /\ Len(q) \in Nat /\ Len(r) \in Nat
  OBVIOUS
<1>2. Len(p) <= Len(r) /\ (\A i \in 1..Len(p) : p[i] = r[i]) /\ p = SubSeq(r, 1, Len(p))
  BY PrefixWords
<1>3. Len(q) <= Len(r) /\ (\A i \in 1..Len(q) : q[i] = r[i]) /\ q = SubSeq(r, 1, Len(q))
  BY PrefixWords
<1>4. ASSUME Len(p) <= Len(q) PROVE IsPrefix(p, q)
  <2>1. \A i \in 1..Len(p) : p[i] = q[i]
    BY <1>1, <1>2, <1>3, <1>4
  <2> QED BY <1>4, <2>1, PrefixWords
<1>5. ASSUME ~(Len(p) <= Len(q)) PROVE IsPrefix(q, p)
  <2>1. Len(q) <= Len(p) /\ \A i \in 1..Len(q) : q[i] = p[i]
    BY <1>1, <1>2, <1>3, <1>5
  <2> QED BY <2>1, PrefixWords
<1>6. Len(p) = Len(q) => p = q
  BY <1>2, <1>3
<1> QED BY <1>4, <1>5, <1>6

LEMMA PrefixItself ==
  ASSUME NEW p \in Seq(Word)
  PROVE  IsPrefix(p, p) /\ IsPrefix(<<>>, p)
<1>1. <<>> \in Seq(Word) /\ Len(<<>>) = 0 /\ Len(p) \in Nat
  OBVIOUS
<1>2. IsPrefix(p, p)
  BY <1>1, PrefixWords
<1>3. IsPrefix(<<>>, p)
  <2>1. PICK e \in Seq(Word) : e = <<>>
    BY <1>1
  <2>2. Len(e) = 0 /\ Len(e) <= Len(p) /\ \A i \in 1..Len(e) : e[i] = p[i]
    BY <1>1, <2>1
  <2>3. IsPrefix(e, p)
    BY <2>2, PrefixWords
  <2> QED BY <2>1, <2>3
<1> QED BY <1>2, <1>3

\* The front of a path is a prefix of it, and of every path that extends it by
\* another word.
LEMMA FrontIsPrefix ==
  ASSUME NEW p \in Seq(Word), p # <<>>
  PROVE  /\ Front(p) \in Seq(Word) /\ IsPrefix(Front(p), p)
         /\ \A q \in Seq(Word) : IsPrefix(q, p) => q = p \/ IsPrefix(q, Front(p))
<1>1. /\ Front(p) \in Seq(Word) /\ Len(Front(p)) = Len(p) - 1 /\ Len(p) \in Nat /\ Len(p) > 0
      /\ \A i \in 1..(Len(p) - 1) : Front(p)[i] = p[i]
  BY FrontAndLast
<1>2. IsPrefix(Front(p), p)
  BY <1>1, PrefixWords
<1>3. ASSUME NEW q \in Seq(Word), IsPrefix(q, p), q # p PROVE IsPrefix(q, Front(p))
  <2>1. Len(q) \in Nat /\ Len(q) <= Len(p) /\ IsPrefix(p, p)
    BY <1>3, PrefixWords, PrefixItself
  <2>2. Len(q) # Len(p)
    BY <1>3, <2>1, PrefixesComparable
  <2>3. Len(q) <= Len(Front(p))
    BY <1>1, <2>1, <2>2
  <2> QED BY <1>1, <1>2, <1>3, <2>3, PrefixesComparable
<1> QED BY <1>1, <1>2, <1>3


-----------------------------------------------------------------------------
\* Places in the schema.

APlace(at) ==
  /\ at.node \in DOMAIN Kind /\ at.val \in BOOLEAN
  /\ at = [node |-> at.node, val |-> at.val]
  /\ at.val => Kind[at.node] \in {"list"} \cup Valued

LEMMA PlaceNotNowhere ==
  ASSUME NEW at, APlace(at)
  PROVE  at # Nowhere
BY PathAssumption DEF APlace, Nowhere

LEMMA SchemaChildPlace ==
  ASSUME NEW at, at = Nowhere \/ APlace(at), NEW w
  PROVE  LET c == SchemaChild(at, w) IN c = Nowhere \/ (at # Nowhere /\ APlace(c))
<1>1. CASE at = Nowhere
  BY <1>1 DEF SchemaChild
<1>2. CASE at # Nowhere /\ Inner(at)
  <2>1. CASE w \in ToSet(Children[at.node])
    <3>1. SchemaChild(at, w) = [node |-> w, val |-> FALSE]
      BY <1>2, <2>1 DEF SchemaChild
    <3>2. w \in DOMAIN Kind
      BY <1>2, <2>1, ChildrenAreNodes DEF APlace
    <3>3. APlace([node |-> w, val |-> FALSE])
      BY <3>2 DEF APlace
    <3> QED BY <1>2, <3>1, <3>3
  <2>2. CASE w \notin ToSet(Children[at.node])
    BY <1>2, <2>2 DEF SchemaChild
  <2> QED BY <2>1, <2>2
<1>3. CASE at # Nowhere /\ ~Inner(at)
  <2>1. CASE at.val \/ Kind[at.node] = "empty"
    BY <1>3, <2>1 DEF SchemaChild
  <2>2. CASE ~at.val /\ Kind[at.node] # "empty"
    <3>1. SchemaChild(at, w) = [node |-> at.node, val |-> TRUE]
      BY <1>3, <2>2 DEF SchemaChild
    <3>2. at.node \in DOMAIN Kind /\ Kind[at.node] \in {"list"} \cup Valued
      BY <1>3, <2>2, PathAssumption DEF APlace, Inner, Container, Valued
    <3>3. APlace([node |-> at.node, val |-> TRUE])
      BY <3>2 DEF APlace
    <3> QED BY <1>3, <3>1, <3>3
  <2> QED BY <2>1, <2>2
<1> QED BY <1>1, <1>2, <1>3

LEMMA PlaceOfPath ==
  ASSUME NEW p \in Seq(Word)
  PROVE  PathDescendant(p) = Nowhere \/ APlace(PathDescendant(p))
<1> DEFINE Good(q) == PathDescendant(q) = Nowhere \/ APlace(PathDescendant(q))
           Bad == {n \in Nat : \E q \in Seq(Word) : Len(q) = n /\ ~Good(q)}
<1> SUFFICES ASSUME Bad # {} PROVE FALSE
  OBVIOUS
<1>1. PICK n \in Bad : \A m \in Bad : n <= m
  BY LeastNumber
<1>2. PICK q \in Seq(Word) : Len(q) = n /\ ~Good(q)
  BY <1>1
<1>3. CASE q = <<>>
  <2>1. APlace(Top)
    BY PathAssumption DEF APlace, Top
  <2> QED BY <1>2, <1>3, <2>1, PlaceOfRoot
<1>4. CASE q # <<>>
  <2>1. Front(q) \in Seq(Word) /\ Len(Front(q)) = Len(q) - 1 /\ Len(q) \in Nat /\ Len(q) > 0
    BY <1>4, FrontAndLast
  <2>2. Good(Front(q))
    BY <1>1, <1>2, <2>1
  <2>3. PathDescendant(q) = SchemaChild(PathDescendant(Front(q)), Last(q))
    BY <1>4, PlaceStep
  <2>4. Good(q)
    BY <2>2, <2>3, SchemaChildPlace
  <2> QED BY <1>2, <2>4
<1> QED BY <1>3, <1>4

Leaf(q) == SingleValue(PathDescendant(q))

\* Nothing is below the value of a leaf.
LEMMA LeafEnds ==
  ASSUME NEW q \in Seq(Word), NEW p \in Seq(Word), IsPrefix(q, p), Leaf(q),
         PathDescendant(p) # Nowhere
  PROVE  p = q
<1> DEFINE Bad == {n \in Nat : \E r \in Seq(Word) :
                     Len(r) = n /\ IsPrefix(q, r) /\ PathDescendant(r) # Nowhere /\ r # q}
<1> SUFFICES ASSUME Bad # {} PROVE FALSE
  OBVIOUS
<1>1. PICK n \in Bad : \A m \in Bad : n <= m
  BY LeastNumber
<1>2. PICK r \in Seq(Word) : Len(r) = n /\ IsPrefix(q, r) /\ PathDescendant(r) # Nowhere /\ r # q
  BY <1>1
<1>3. r # <<>>
  <2>1. Len(q) \in Nat /\ Len(q) <= Len(r)
    BY <1>2, PrefixWords
  <2>2. r = <<>> => q = <<>>
    BY <2>1
  <2> QED BY <1>2, <2>2
<1>4. Front(r) \in Seq(Word) /\ Len(Front(r)) = Len(r) - 1 /\ Len(r) \in Nat /\ Len(r) > 0
  BY <1>3, FrontAndLast
<1>5. IsPrefix(q, Front(r))
  BY <1>2, <1>3, FrontIsPrefix
<1>6. PathDescendant(r) = SchemaChild(PathDescendant(Front(r)), Last(r))
  BY <1>3, PlaceStep
<1>7. PathDescendant(Front(r)) # Nowhere
  BY <1>2, <1>6 DEF SchemaChild
<1>8. Front(r) = q
  BY <1>1, <1>2, <1>4, <1>5, <1>7
<1>9. APlace(PathDescendant(q)) /\ SingleValue(PathDescendant(q))
  BY <1>7, <1>8, PlaceOfPath DEF Leaf
<1>10. SchemaChild(PathDescendant(q), Last(r)) = Nowhere
  BY <1>9 DEF SchemaChild, SingleValue, Inner, APlace, Container
<1> QED BY <1>2, <1>6, <1>8, <1>10

\* A sibling of a leaf's value is a value of the same leaf.
LEMMA SiblingLeaf ==
  ASSUME NEW q \in Seq(Word), NEW r \in Seq(Word), q # <<>>, r # <<>>, Front(q) = Front(r), Leaf(q)
  PROVE  PathDescendant(r) = PathDescendant(q)
<1> DEFINE at == PathDescendant(Front(q))
<1>1. PathDescendant(q) = SchemaChild(at, Last(q)) /\ PathDescendant(r) = SchemaChild(at, Last(r))
  BY PlaceStep
<1> HIDE DEF at
<1>2. SchemaChild(at, Last(q)).val
  BY <1>1 DEF Leaf, SingleValue
<1>3. at # Nowhere /\ ~Inner(at) /\ ~(at.val \/ Kind[at.node] = "empty")
  BY <1>2 DEF SchemaChild, Nowhere
<1>4. \A w : SchemaChild(at, w) = [node |-> at.node, val |-> TRUE]
  BY <1>3 DEF SchemaChild
<1> QED BY <1>1, <1>4


-----------------------------------------------------------------------------
\* Cases of choices.

LEMMA BeginningLeads ==
  ASSUME NEW q \in Seq(Word), PathDescendant(q) # Nowhere, NEW k \in 0..Len(q)
  PROVE  PathDescendant(SubSeq(q, 1, k)) # Nowhere
<1> DEFINE Bad == {m \in 0..Len(q) : PathDescendant(SubSeq(q, 1, m)) = Nowhere}
<1> SUFFICES ASSUME Bad # {} PROVE FALSE
  OBVIOUS
<1>1. Bad \subseteq 0..Len(q) /\ Len(q) \in Nat
  OBVIOUS
<1> HIDE DEF Bad
<1>2. PICK m \in Bad : \A l \in Bad : l <= m
  BY <1>1, LargestNumber
<1>3. m # Len(q)
  <2>1. Len(q) \in 0..Len(q)
    BY <1>1
  <2>2. SubSeq(q, 1, Len(q)) = q
    BY <2>1, FirstWords
  <2> QED BY <1>2, <2>2 DEF Bad
<1>4. PICK l \in 0..Len(q) : l = m + 1 /\ l \notin Bad /\ l > 0 /\ l - 1 = m
  <2>1. m \in 0..Len(q)
    BY <1>1, <1>2
  <2>2. m + 1 \in 0..Len(q) /\ m + 1 > m /\ (m + 1) - 1 = m /\ m + 1 > 0
    BY <1>1, <1>3, <2>1
  <2> QED BY <1>2, <2>1, <2>2
<1>5. /\ SubSeq(q, 1, l) \in Seq(Word)
      /\ l > 0 => /\ SubSeq(q, 1, l) # <<>> /\ Last(SubSeq(q, 1, l)) = q[l]
                  /\ Front(SubSeq(q, 1, l)) = SubSeq(q, 1, l - 1)
  BY FirstWords
<1>6. PathDescendant(SubSeq(q, 1, l))
        = SchemaChild(PathDescendant(SubSeq(q, 1, l - 1)), Last(SubSeq(q, 1, l)))
  BY <1>4, <1>5, PlaceStep
<1>7. PathDescendant(SubSeq(q, 1, l - 1)) = Nowhere
  BY <1>2, <1>4 DEF Bad
<1>8. PathDescendant(SubSeq(q, 1, l)) = Nowhere
  BY <1>6, <1>7 DEF SchemaChild
<1> QED BY <1>4, <1>8 DEF Bad

\* The words of a path below a container or an entry are names of the schema.
LEMMA NameOnPath ==
  ASSUME NEW q \in Seq(Word), PathDescendant(q) # Nowhere, NEW i \in 1..Len(q),
         Inner(PathDescendant(SubSeq(q, 1, i - 1)))
  PROVE  q[i] \in DOMAIN Kind
<1>1. PICK k \in 0..Len(q) : k = i /\ k > 0 /\ k - 1 = i - 1 /\ k - 1 \in 0..Len(q)
  OBVIOUS
<1> DEFINE at == PathDescendant(SubSeq(q, 1, k - 1))
<1>2. /\ SubSeq(q, 1, k) \in Seq(Word) /\ SubSeq(q, 1, k - 1) \in Seq(Word)
      /\ SubSeq(q, 1, k) # <<>> /\ Last(SubSeq(q, 1, k)) = q[k]
      /\ Front(SubSeq(q, 1, k)) = SubSeq(q, 1, k - 1)
  <2>1. SubSeq(q, 1, k - 1) \in Seq(Word)
    BY <1>1, FirstWords, ZenonT(60)
  <2>2. /\ SubSeq(q, 1, k) \in Seq(Word)
        /\ k > 0 => /\ SubSeq(q, 1, k) # <<>> /\ Last(SubSeq(q, 1, k)) = q[k]
                    /\ Front(SubSeq(q, 1, k)) = SubSeq(q, 1, k - 1)
    BY FirstWords, ZenonT(60)
  <2> QED BY <1>1, <2>1, <2>2
<1>3. PathDescendant(SubSeq(q, 1, k)) # Nowhere
  BY BeginningLeads
<1>4. PathDescendant(SubSeq(q, 1, k)) = SchemaChild(at, q[k])
  BY <1>2, PlaceStep
<1>5. at = Nowhere \/ APlace(at)
  BY <1>2, PlaceOfPath
<1>6. Inner(at)
  BY <1>1
<1> HIDE DEF at
<1>7. at # Nowhere /\ q[k] \in ToSet(Children[at.node])
  BY <1>3, <1>4, <1>6 DEF SchemaChild
<1>8. q[k] \in DOMAIN Kind
  BY <1>5, <1>7, ChildrenAreNodes DEF APlace
<1> QED BY <1>1, <1>8

\* The i-th words are in different cases.
Rivals(p, q, i) ==
  /\ i \in 1..Len(p) /\ i \in 1..Len(q)
  /\ SubSeq(p, 1, i - 1) = SubSeq(q, 1, i - 1)
  /\ Inner(PathDescendant(SubSeq(p, 1, i - 1)))
  /\ q[i] \in OtherCase[p[i]]

LEMMA OustsAt ==
  ASSUME NEW p \in Seq(Word), NEW q \in Seq(Word)
  PROVE  Ousts(p, q) <=> \E i : Rivals(p, q, i)
<1>1. DOMAIN p = 1..Len(p) /\ DOMAIN q = 1..Len(q)
  OBVIOUS
<1> QED BY <1>1 DEF Ousts, Rivals

LEMMA SameBeginning ==
  ASSUME NEW p \in Seq(Word), NEW q \in Seq(Word), IsPrefix(p, q), NEW i \in 1..Len(p)
  PROVE  i \in 1..Len(q) /\ p[i] = q[i] /\ SubSeq(p, 1, i - 1) = SubSeq(q, 1, i - 1)
<1>1. /\ Len(p) \in Nat /\ Len(q) \in Nat /\ Len(p) <= Len(q)
      /\ \A j \in 1..Len(p) : p[j] = q[j]
  BY PrefixWords
<1>2. PICK k \in 0..Len(p) : k = i - 1 /\ k \in 0..Len(q)
  BY <1>1
<1>3. /\ SubSeq(p, 1, k) \in Seq(Word) /\ Len(SubSeq(p, 1, k)) = k
      /\ \A j \in 1..k : SubSeq(p, 1, k)[j] = p[j]
  BY FirstWords
<1>4. /\ SubSeq(q, 1, k) \in Seq(Word) /\ Len(SubSeq(q, 1, k)) = k
      /\ \A j \in 1..k : SubSeq(q, 1, k)[j] = q[j]
  BY <1>2, FirstWords
<1>5. PICK s, t : s = SubSeq(p, 1, k) /\ t = SubSeq(q, 1, k)
  OBVIOUS
<1>6. s = t
  <2>1. \A j \in 1..k : s[j] = t[j]
    BY <1>1, <1>2, <1>3, <1>4, <1>5
  <2>2. s \in Seq(Word) /\ t \in Seq(Word) /\ Len(s) = k /\ Len(t) = k
    BY <1>3, <1>4, <1>5
  <2> QED BY <2>1, <2>2
<1> QED BY <1>1, <1>2, <1>5, <1>6

\* What a path ousts, all that begins with it ousts; and with a path goes all that
\* begins with it.
LEMMA LongerOusts ==
  ASSUME NEW r \in Seq(Word), NEW p \in Seq(Word), NEW q \in Seq(Word), IsPrefix(r, p), Ousts(r, q)
  PROVE  Ousts(p, q)
<1>1. PICK i : Rivals(r, q, i)
  BY OustsAt
<1>2. i \in 1..Len(p) /\ r[i] = p[i] /\ SubSeq(r, 1, i - 1) = SubSeq(p, 1, i - 1)
  BY <1>1, SameBeginning DEF Rivals
<1>3. Rivals(p, q, i)
  BY <1>1, <1>2 DEF Rivals
<1> QED BY <1>3, OustsAt

LEMMA LongerOusted ==
  ASSUME NEW r \in Seq(Word), NEW p \in Seq(Word), NEW q \in Seq(Word), IsPrefix(r, q), Ousts(p, r)
  PROVE  Ousts(p, q)
<1>1. PICK i : Rivals(p, r, i)
  BY OustsAt
<1>2. i \in 1..Len(q) /\ r[i] = q[i] /\ SubSeq(r, 1, i - 1) = SubSeq(q, 1, i - 1)
  BY <1>1, SameBeginning DEF Rivals
<1>3. Rivals(p, q, i)
  BY <1>1, <1>2 DEF Rivals
<1> QED BY <1>3, OustsAt

LEMMA OustsBothWays ==
  ASSUME NEW p \in Seq(Word), NEW q \in Seq(Word), PathDescendant(p) # Nowhere, Ousts(p, q)
  PROVE  Ousts(q, p)
<1>1. PICK i : Rivals(p, q, i)
  BY OustsAt
<1>2. p[i] \in DOMAIN Kind
  BY <1>1, NameOnPath DEF Rivals
<1>3. p[i] \in OtherCase[q[i]]
  BY <1>1, <1>2, ChoiceAssumption DEF Rivals
<1>4. Rivals(q, p, i)
  BY <1>1, <1>3 DEF Rivals
<1> QED BY <1>4, OustsAt

\* A path is in one case of each choice.
LEMMA OneCase ==
  ASSUME NEW x \in Seq(Word), PathDescendant(x) # Nowhere, NEW p \in Seq(Word), NEW q \in Seq(Word),
         IsPrefix(p, x), IsPrefix(q, x)
  PROVE  ~Ousts(p, q)
<1> SUFFICES ASSUME Ousts(p, q) PROVE FALSE
  OBVIOUS
<1>1. Ousts(x, q)
  BY LongerOusts
<1>2. Ousts(x, x)
  BY <1>1, LongerOusted
<1>3. PICK i : Rivals(x, x, i)
  BY <1>2, OustsAt
<1>4. x[i] \in DOMAIN Kind
  BY <1>3, NameOnPath DEF Rivals
<1> QED BY <1>3, <1>4, ChoiceAssumption DEF Rivals

\* What a set leaves of the other cases.
Oust(p, t) == {q \in t : ~Ousts(p, q)}

-----------------------------------------------------------------------------
\* Edits keep a configuration a configuration.

LEMMA LeafNotRoot ==
  ASSUME NEW q \in Seq(Word), Leaf(q)
  PROVE  q # <<>>
BY PlaceOfRoot DEF Leaf, SingleValue, Top

LEMMA ConfigurationPaths ==
  ASSUME NEW t, Configuration(t)
  PROVE  t \subseteq Seq(Word)
BY DEF Configuration

LEMMA PartsOfConfiguration ==
  ASSUME NEW t, Configuration(t)
  PROVE  /\ \A q \in t : q \in Seq(Word) /\ Explicit(q) /\ Settable(q)
         /\ \A q \in t : \A r \in Seq(Word) : IsPrefix(r, q) /\ Explicit(r) => r \in t
         /\ \A q, r \in t : Leaf(q) /\ Len(q) = Len(r) /\ Front(q) = Front(r) => q = r
         /\ \A q, r \in t : ~Ousts(q, r)
         /\ \A q \in t : PathDescendant(q) # Nowhere
<1>1. \A q \in t : q \in Seq(Word) /\ Explicit(q) /\ Settable(q)
  BY DEF Configuration
<1>2. ASSUME NEW q \in t, NEW r \in Seq(Word), IsPrefix(r, q), Explicit(r) PROVE r \in t
  <2>1. r \in Prefixes(q)
    BY <1>1, <1>2, PrefixesOfPath
  <2> QED BY <1>2, <2>1 DEF Configuration
<1>3. \A q, r \in t : Leaf(q) /\ Len(q) = Len(r) /\ Front(q) = Front(r) => q = r
  BY DEF Configuration, Leaf
<1>4. (\A q, r \in t : ~Ousts(q, r)) /\ \A q \in t : PathDescendant(q) # Nowhere
  BY DEF Configuration, Explicit
<1> QED BY <1>1, <1>2, <1>3, <1>4

LEMMA ToConfiguration ==
  ASSUME NEW t, \A q \in t : q \in Seq(Word) /\ Explicit(q) /\ Settable(q),
         \A q \in t : \A r \in Seq(Word) : IsPrefix(r, q) /\ Explicit(r) => r \in t,
         \A q, r \in t : Leaf(q) /\ Len(q) = Len(r) /\ Front(q) = Front(r) => q = r,
         \A q, r \in t : ~Ousts(q, r)
  PROVE  Configuration(t)
<1>1. ASSUME NEW q \in t, NEW r \in Prefixes(q), Explicit(r) PROVE r \in t
  <2>1. r \in Seq(Word) /\ IsPrefix(r, q)
    BY <1>1, PrefixesOfPath
  <2> QED BY <1>1, <2>1
<1>2. t \subseteq Seq(Word)
  OBVIOUS
<1> QED BY <1>1, <1>2 DEF Configuration, Leaf

LEMMA WithoutKeeps ==
  ASSUME NEW t, Configuration(t), NEW p \in Seq(Word)
  PROVE  Configuration(Without(p, t))
<1> DEFINE u == Without(p, t)
<1>1. \A q : q \in u <=> q \in t /\ ~IsPrefix(p, q)
  BY DEF Without
<1> HIDE DEF u
<1>2. \A q \in u : q \in Seq(Word) /\ Explicit(q) /\ Settable(q)
  BY <1>1, PartsOfConfiguration
<1>3. ASSUME NEW q \in u, NEW r \in Seq(Word), IsPrefix(r, q), Explicit(r) PROVE r \in u
  <2>1. r \in t /\ q \in Seq(Word) /\ ~IsPrefix(p, q)
    BY <1>1, <1>2, <1>3, PartsOfConfiguration
  <2>2. ~IsPrefix(p, r)
    BY <1>3, <2>1, PrefixTransitive
  <2> QED BY <1>1, <2>1, <2>2
<1>4. \A q, r \in u : Leaf(q) /\ Len(q) = Len(r) /\ Front(q) = Front(r) => q = r
  BY <1>1, PartsOfConfiguration
<1>6. \A q, r \in u : ~Ousts(q, r)
  BY <1>1, PartsOfConfiguration
<1>5. Configuration(u)
  BY <1>2, <1>3, <1>4, <1>6, ToConfiguration
<1> QED BY <1>5 DEF u

LEMMA OustKeeps ==
  ASSUME NEW t, Configuration(t), NEW p \in Seq(Word)
  PROVE  Configuration(Oust(p, t))
<1> DEFINE u == Oust(p, t)
<1>1. \A q : q \in u <=> q \in t /\ ~Ousts(p, q)
  BY DEF Oust
<1> HIDE DEF u
<1>2. \A q \in u : q \in Seq(Word) /\ Explicit(q) /\ Settable(q)
  BY <1>1, PartsOfConfiguration
<1>3. ASSUME NEW q \in u, NEW r \in Seq(Word), IsPrefix(r, q), Explicit(r) PROVE r \in u
  <2>1. r \in t /\ q \in Seq(Word) /\ ~Ousts(p, q)
    BY <1>1, <1>2, <1>3, PartsOfConfiguration
  <2>2. ~Ousts(p, r)
    BY <1>3, <2>1, LongerOusted
  <2> QED BY <1>1, <2>1, <2>2
<1>4. /\ \A q, r \in u : Leaf(q) /\ Len(q) = Len(r) /\ Front(q) = Front(r) => q = r
      /\ \A q, r \in u : ~Ousts(q, r)
  BY <1>1, PartsOfConfiguration
<1>5. Configuration(u)
  BY <1>2, <1>3, <1>4, ToConfiguration
<1> QED BY <1>5 DEF u

\* A path that has a sibling's front begins with it.
LEMMA SameFront ==
  ASSUME NEW q \in Seq(Word), NEW r \in Seq(Word), Len(q) = Len(r), Front(q) = Front(r), q # <<>>
  PROVE  r # <<>> /\ IsPrefix(Front(q), r)
<1>1. r # <<>>
  <2>1. Len(q) \in Nat /\ Len(q) > 0
    BY FrontAndLast
  <2> QED BY <2>1
<1>2. IsPrefix(Front(r), r)
  BY <1>1, FrontIsPrefix
<1> QED BY <1>1, <1>2

\* What is put in place of values of the same leaves and of other cases.
LEMMA MergeKeeps ==
  ASSUME NEW t, Configuration(t), NEW u, Configuration(u)
  PROVE  Configuration(Merge(t, u))
<1> DEFINE m == Merge(t, u)
<1>1. \A q : q \in m <=> \/ q \in u
                         \/ q \in t /\ \A r \in u : (Leaf(r) => ~IsPrefix(Front(r), q)) /\ ~Ousts(r, q)
  BY DEF Merge, Leaf
<1> HIDE DEF m
<1>2. \A q \in m : q \in Seq(Word) /\ Explicit(q) /\ Settable(q)
  BY <1>1, PartsOfConfiguration
<1>3. ASSUME NEW q \in m, NEW r \in Seq(Word), IsPrefix(r, q), Explicit(r) PROVE r \in m
  <2>1. CASE q \in u
    <3>1. r \in u
      BY <1>3, <2>1, PartsOfConfiguration
    <3> QED BY <1>1, <3>1
  <2>2. CASE q \notin u
    <3>1. q \in t /\ r \in t /\ q \in Seq(Word)
      BY <1>1, <1>3, <2>2, PartsOfConfiguration
    <3>2. ASSUME NEW x \in u, Leaf(x) PROVE ~IsPrefix(Front(x), r)
      <4>1. x \in Seq(Word) /\ x # <<>>
        BY <3>2, PartsOfConfiguration, LeafNotRoot
      <4>2. Front(x) \in Seq(Word) /\ ~IsPrefix(Front(x), q)
        BY <1>1, <1>3, <2>2, <3>2, <4>1, FrontIsPrefix
      <4> QED BY <1>3, <3>1, <4>2, PrefixTransitive
    <3>3. ASSUME NEW x \in u PROVE ~Ousts(x, r)
      <4>1. x \in Seq(Word) /\ ~Ousts(x, q)
        BY <1>1, <1>3, <2>2, <3>3, PartsOfConfiguration
      <4> QED BY <1>3, <3>1, <4>1, LongerOusted
    <3> QED BY <1>1, <3>1, <3>2, <3>3
  <2> QED BY <2>1, <2>2
<1>4. ASSUME NEW q \in m, NEW r \in m, Leaf(q), Len(q) = Len(r), Front(q) = Front(r) PROVE q = r
  <2>1. q \in Seq(Word) /\ r \in Seq(Word) /\ q # <<>>
    BY <1>2, <1>4, LeafNotRoot
  <2>2. r # <<>> /\ IsPrefix(Front(q), r) /\ IsPrefix(Front(r), q)
    BY <1>4, <2>1, SameFront
  <2>3. Leaf(r)
    BY <1>4, <2>1, <2>2, SiblingLeaf DEF Leaf
  <2>4. CASE q \in u
    <3>1. r \in u
      BY <1>1, <1>4, <2>2, <2>4
    <3> QED BY <1>4, <2>4, <3>1, PartsOfConfiguration
  <2>5. CASE q \notin u
    <3>1. q \in t /\ r \notin u
      BY <1>1, <1>4, <2>2, <2>3, <2>5
    <3>2. r \in t
      BY <1>1, <1>4, <3>1
    <3> QED BY <1>4, <3>1, <3>2, PartsOfConfiguration
  <2> QED BY <2>4, <2>5
<1>6. ASSUME NEW q \in m, NEW r \in m PROVE ~Ousts(q, r)
  <2>1. q \in Seq(Word) /\ r \in Seq(Word) /\ PathDescendant(q) # Nowhere
    BY <1>1, <1>2, <1>6, PartsOfConfiguration
  <2>2. CASE q \in u
    BY <1>1, <1>6, <2>2, PartsOfConfiguration
  <2>3. CASE q \notin u /\ r \in u
    BY <1>1, <1>6, <2>1, <2>3, OustsBothWays
  <2>4. CASE q \notin u /\ r \notin u
    BY <1>1, <1>6, <2>4, PartsOfConfiguration
  <2> QED BY <2>2, <2>3, <2>4
<1>5. Configuration(m)
  BY <1>2, <1>3, <1>4, <1>6, ToConfiguration
<1> QED BY <1>5 DEF m

\* What a set creates is a configuration by itself.
Created(p) == {q \in Prefixes(p) : Explicit(q)}

LEMMA CreatedPaths ==
  ASSUME NEW p \in Seq(Word), NEW q
  PROVE  q \in Created(p) <=> q \in Seq(Word) /\ IsPrefix(q, p) /\ Explicit(q)
BY PrefixesOfPath DEF Created

LEMMA CreatedIsConfiguration ==
  ASSUME NEW p \in Seq(Word), Settable(p)
  PROVE  /\ Configuration(Created(p))
         /\ \A q \in Created(p) : Leaf(q) => q = p
<1>1. ASSUME NEW q \in Created(p)
      PROVE  /\ q \in Seq(Word) /\ IsPrefix(q, p) /\ Explicit(q) /\ Settable(q)
             /\ Leaf(q) => q = p
  <2>1. q \in Seq(Word) /\ IsPrefix(q, p) /\ Explicit(q)
    BY CreatedPaths
  <2>2. \A r \in Prefixes(q) : r \in Prefixes(p)
    BY <2>1, PrefixesOfPath, PrefixTransitive
  <2>3. Settable(q)
    BY <2>1, <2>2 DEF Settable, Explicit, isTypeless, Container
  <2>4. PathDescendant(p) # Nowhere
    BY DEF Settable
  <2>5. Leaf(q) => q = p
    BY <2>1, <2>4, LeafEnds
  <2> QED BY <2>1, <2>3, <2>5
<1>2. ASSUME NEW q \in Created(p), NEW r \in Seq(Word), IsPrefix(r, q), Explicit(r)
      PROVE  r \in Created(p)
  BY <1>1, <1>2, PrefixTransitive, CreatedPaths
<1>3. ASSUME NEW q \in Created(p), NEW r \in Created(p), Len(q) = Len(r) PROVE q = r
  BY <1>1, <1>3, PrefixesComparable
<1>5. ASSUME NEW q \in Created(p), NEW r \in Created(p) PROVE ~Ousts(q, r)
  <2>1. PathDescendant(p) # Nowhere
    BY DEF Settable
  <2> QED BY <1>1, <1>5, <2>1, OneCase
<1>4. Configuration(Created(p))
  BY <1>1, <1>2, <1>3, <1>5, ToConfiguration
<1> QED BY <1>1, <1>4

\* A set drops the other cases and merges what it creates.
LEMMA WithIsMerge ==
  ASSUME NEW t, t \subseteq Seq(Word), NEW p \in Seq(Word), Settable(p)
  PROVE  /\ With(p, t) = Merge(Oust(p, t), Created(p))
         /\ \A q : q \in With(p, t) <=>
              \/ q \in Created(p)
              \/ q \in t /\ ~Ousts(p, q) /\ (Leaf(p) => ~IsPrefix(Front(p), q))
<1> DEFINE c == Created(p)
           o == Oust(p, t)
<1>1. \A q : q \in With(p, t) <=>
        q \in c \/ (q \in t /\ ~Ousts(p, q) /\ (Leaf(p) => ~IsPrefix(Front(p), q)))
  <2>1. CASE Leaf(p)
    BY <2>1 DEF With, Leaf, Created, Without
  <2>2. CASE ~Leaf(p)
    BY <2>2 DEF With, Leaf, Created
  <2> QED BY <2>1, <2>2
<1>2. \A q : q \in Merge(o, c) <=>
        q \in c \/ (q \in o /\ \A r \in c : (Leaf(r) => ~IsPrefix(Front(r), q)) /\ ~Ousts(r, q))
  BY DEF Merge, Leaf
<1>3. ASSUME NEW q \in o, NEW r \in c PROVE ~Ousts(r, q)
  <2>1. q \in Seq(Word) /\ ~Ousts(p, q)
    BY <1>3 DEF Oust
  <2>2. r \in Seq(Word) /\ IsPrefix(r, p)
    BY <1>3, CreatedPaths
  <2> QED BY <2>1, <2>2, LongerOusts
<1>4. ASSUME NEW q \in o
      PROVE  (\A r \in c : Leaf(r) => ~IsPrefix(Front(r), q)) <=> (Leaf(p) => ~IsPrefix(Front(p), q))
  <2>1. \A r \in c : Leaf(r) => r = p
    BY CreatedIsConfiguration
  <2>2. Leaf(p) => p \in c
    <3>1. Leaf(p) => Explicit(p)
      BY DEF Explicit, Leaf, SingleValue, Settable
    <3> QED BY <3>1, PrefixItself, CreatedPaths
  <2> HIDE DEF c
  <2> QED BY <2>1, <2>2
<1>5. \A q : q \in o <=> q \in t /\ ~Ousts(p, q)
  BY DEF Oust
<1> HIDE DEF c, o
<1>6. \A q : q \in With(p, t) <=> q \in Merge(o, c)
  BY <1>1, <1>2, <1>3, <1>4, <1>5
<1>7. With(p, t) = Merge(o, c)
  <2>1. PICK x, y : x = With(p, t) /\ y = Merge(o, c)
    OBVIOUS
  <2>2. \A q : q \in x <=> q \in y
    BY <1>6, <2>1
  <2>3. x = y
    BY <2>2
  <2> QED BY <2>1, <2>3
<1> QED BY <1>1, <1>7 DEF c, o

LEMMA WithKeeps ==
  ASSUME NEW t, Configuration(t), NEW p \in Seq(Word), Settable(p)
  PROVE  Configuration(With(p, t))
<1>1. t \subseteq Seq(Word)
  BY ConfigurationPaths
<1>2. With(p, t) = Merge(Oust(p, t), Created(p))
  BY <1>1, WithIsMerge
<1> QED BY <1>2, OustKeeps, MergeKeeps, CreatedIsConfiguration


-----------------------------------------------------------------------------
\* Edit levels.

LevelOK(l) ==
  /\ l \in Seq(Word) /\ TmplValidatePath(l) /\ Editable(PathDescendant(l))
  /\ Expand(l).err = "nil" /\ Expand(l).cpath = l

LEMMA TopLevel == LevelOK(<<>>)
<1>1. PathDescendant(<<>>) = Top /\ Expand(<<>>) = Start(0) /\ <<>> \in Seq(Word)
  BY PlaceOfRoot, ExpandNothing
<1>2. Top # Nowhere /\ Editable(Top)
  BY PathAssumption DEF Top, Nowhere, Editable, isTypeless, Container
<1>3. Start(0).err = "nil" /\ Start(0).cpath = <<>>
  BY DEF Start
<1> QED BY <1>1, <1>2, <1>3 DEF LevelOK, TmplValidatePath

\* What contains a node can be edited.
LEMMA ParentEditable ==
  ASSUME NEW p \in Seq(Word), p # <<>>, PathDescendant(p) # Nowhere, ~PathDescendant(p).val
  PROVE  PathDescendant(Front(p)) # Nowhere /\ Editable(PathDescendant(Front(p)))
<1> DEFINE at == PathDescendant(Front(p))
<1>1. PathDescendant(p) = SchemaChild(at, Last(p))
  BY PlaceStep
<1> HIDE DEF at
<1>2. at # Nowhere /\ Inner(at)
  BY <1>1 DEF SchemaChild
<1> QED BY <1>2 DEF at, Inner, Editable, isListKey, isTypeless

\* The key of a list follows its name.
LEMMA KeyFollowsList ==
  ASSUME NEW p \in Seq(Word), p # <<>>, isListKey(PathDescendant(p))
  PROVE  /\ Front(p) \in Seq(Word) /\ Front(p) # <<>>
         /\ PathDescendant(Front(p)) # Nowhere /\ ~PathDescendant(Front(p)).val
<1> DEFINE at == PathDescendant(Front(p))
<1>1. PathDescendant(p) = SchemaChild(at, Last(p)) /\ Front(p) \in Seq(Word)
  BY PlaceStep, FrontAndLast
<1>2. SchemaChild(at, Last(p)).val
  BY <1>1 DEF isListKey
<1>3. Front(p) = <<>> => at = Top
  BY PlaceOfRoot
<1> HIDE DEF at
<1>4. at # Nowhere /\ ~Inner(at) /\ ~at.val
  BY <1>2 DEF SchemaChild, Nowhere
<1>5. at # Top
  BY <1>4, PathAssumption DEF Top, Inner, Container
<1> QED BY <1>1, <1>3, <1>4, <1>5 DEF at

LEMMA UpLevel ==
  ASSUME NEW l, LevelOK(l), l # <<>>
  PROVE  LevelOK(IF isListKey(PathDescendant(l)) THEN SubSeq(l, 1, Len(l) - 2) ELSE Front(l))
<1>1. l \in Seq(Word) /\ PathDescendant(l) # Nowhere
  BY DEF LevelOK, TmplValidatePath
<1>2. /\ Front(l) \in Seq(Word) /\ Len(l) \in Nat /\ Len(l) > 0 /\ Len(Front(l)) = Len(l) - 1
  BY <1>1, FrontAndLast
<1>3. ASSUME NEW k \in 0..Len(l), Editable(PathDescendant(SubSeq(l, 1, k))),
             PathDescendant(SubSeq(l, 1, k)) # Nowhere
      PROVE  LevelOK(SubSeq(l, 1, k))
  <2>1. SubSeq(l, 1, k) \in Seq(Word)
    BY <1>1, FirstWords
  <2>2. Expand(l).err = "nil" /\ Expand(l).cpath = l
    BY DEF LevelOK
  <2>3. Expand(SubSeq(l, 1, k)).err = "nil" /\ Expand(SubSeq(l, 1, k)).cpath = SubSeq(l, 1, k)
    BY <1>1, <2>2, ExpandBeginning
  <2> QED BY <1>3, <2>1, <2>3 DEF LevelOK, TmplValidatePath
<1>4. CASE isListKey(PathDescendant(l))
  <2>1. Front(l) # <<>> /\ PathDescendant(Front(l)) # Nowhere /\ ~PathDescendant(Front(l)).val
    BY <1>1, <1>4, KeyFollowsList
  <2>2. PathDescendant(Front(Front(l))) # Nowhere /\ Editable(PathDescendant(Front(Front(l))))
    BY <1>2, <2>1, ParentEditable
  <2>3. Len(Front(l)) > 0 /\ Len(l) - 2 \in Nat /\ Len(l) - 2 \in 0..Len(l)
    BY <1>2, <2>1, FrontAndLast
  <2>4. Front(Front(l)) = SubSeq(l, 1, Len(l) - 2)
    <3>1. PICK k \in 0..Len(l) : k = Len(l) - 1 /\ k > 0 /\ k - 1 = Len(l) - 2
      BY <1>2, <2>3
    <3>2. Front(l) = SubSeq(l, 1, k)
      BY <3>1 DEF Front
    <3>3. Front(SubSeq(l, 1, k)) = SubSeq(l, 1, k - 1)
      BY <1>1, <3>1, FirstWords
    <3> QED BY <3>1, <3>2, <3>3
  <2> QED BY <1>3, <1>4, <2>2, <2>3, <2>4
<1>5. CASE ~isListKey(PathDescendant(l))
  <2>1. ~PathDescendant(l).val
    BY <1>1, <1>5, PlaceOfPath DEF LevelOK, Editable, isTypeless, isListKey, APlace, Container, Valued
  <2>2. PathDescendant(Front(l)) # Nowhere /\ Editable(PathDescendant(Front(l)))
    BY <1>1, <2>1, ParentEditable
  <2>3. Front(l) = SubSeq(l, 1, Len(l) - 1) /\ Len(l) - 1 \in 0..Len(l)
    BY <1>2 DEF Front
  <2> QED BY <1>3, <1>5, <2>2, <2>3
<1> QED BY <1>4, <1>5

\* A level that "edit" accepts.
LEMMA EditLevel ==
  ASSUME NEW p \in Seq(Word), Expand(p).err = "nil", Editable(PathDescendant(Expand(p).cpath))
  PROVE  LevelOK(Expand(p).cpath)
<1>1. /\ Expand(p).cpath \in Seq(Word) /\ PathDescendant(Expand(p).cpath) = Place(Expand(p))
      /\ Expand(Expand(p).cpath) = Expand(p)
  BY ExpandLeads DEF Expands
<1>2. Place(Expand(p)) # Nowhere
  BY ExpandSound, PathAssumption DEF Sound, State, Place, Nowhere
<1> QED BY <1>1, <1>2 DEF LevelOK, TmplValidatePath

\* The words typed at a level are put below it.
LEMMA BelowLevel ==
  ASSUME NEW l, LevelOK(l), NEW words \in Seq(Word), Expand(l \o words).err = "nil"
  PROVE  /\ l \o words \in Seq(Word) /\ Expand(l \o words).cpath \in Seq(Word)
         /\ IsPrefix(l, Expand(l \o words).cpath)
<1> DEFINE p == l \o words
           c == Expand(p).cpath
           k == Len(l)
<1>1. l \in Seq(Word) /\ Expand(l).cpath = l
  BY DEF LevelOK
<1>2. /\ p \in Seq(Word) /\ Len(p) = Len(l) + Len(words) /\ Len(l) \in Nat /\ Len(words) \in Nat
      /\ \A i \in 1..Len(l) : p[i] = l[i]
  BY <1>1
<1>3. Expand(p).err = "nil"
  OBVIOUS
<1>4. c \in Seq(Word) /\ Len(c) = Len(p)
  BY <1>2, <1>3, ExpandLeads DEF Expands
<1> HIDE DEF p
<1>5. k \in 0..Len(p) /\ k \in 0..Len(c)
  BY <1>2, <1>4
<1>6. SubSeq(p, 1, k) = l
  <2>1. IsPrefix(l, p)
    BY <1>1, <1>2, PrefixWords, SMTT(30)
  <2> QED BY <1>1, <1>2, <2>1, PrefixWords
<1>7. l = SubSeq(c, 1, k)
  BY <1>1, <1>2, <1>3, <1>5, <1>6, ExpandBeginning
<1>8. IsPrefix(l, c)
  <2> HIDE DEF c
  <2>1. Len(l) <= Len(c) /\ \A i \in 1..Len(l) : l[i] = c[i]
    <3>1. \A i \in 1..k : SubSeq(c, 1, k)[i] = c[i]
      BY <1>4, <1>5, FirstWords
    <3> QED BY <1>5, <1>7, <3>1
  <2> QED BY <1>1, <1>4, <2>1, PrefixWords
<1> QED BY <1>2, <1>4, <1>8 DEF p

LEMMA LevelIsNoLeaf ==
  ASSUME NEW l, LevelOK(l)
  PROVE  ~Leaf(l)
<1>1. APlace(PathDescendant(l)) /\ Editable(PathDescendant(l))
  BY PlaceOfPath DEF LevelOK, TmplValidatePath
<1> QED BY <1>1 DEF APlace, Editable, isListKey, isTypeless, Leaf, SingleValue, Container

\* What a path below a level ousts is below the level, or ousted by the level itself.
LEMMA OustsBelow ==
  ASSUME NEW l \in Seq(Word), NEW p \in Seq(Word), NEW q \in Seq(Word), IsPrefix(l, p), Ousts(p, q)
  PROVE  IsPrefix(l, q) \/ Ousts(l, q)
<1>1. PICK i : Rivals(p, q, i)
  BY OustsAt
<1>2. /\ Len(l) \in Nat /\ Len(p) \in Nat /\ Len(q) \in Nat /\ Len(l) <= Len(p)
      /\ \A j \in 1..Len(l) : l[j] = p[j]
  BY PrefixWords
<1>3. i \in 1..Len(p) /\ i \in 1..Len(q)
  BY <1>1 DEF Rivals
<1>4. CASE i <= Len(l)
  <2>1. i \in 1..Len(l)
    BY <1>2, <1>3, <1>4
  <2>2. l[i] = p[i] /\ SubSeq(l, 1, i - 1) = SubSeq(p, 1, i - 1)
    BY <2>1, SameBeginning
  <2>3. Rivals(l, q, i)
    BY <1>1, <2>1, <2>2 DEF Rivals
  <2> QED BY <2>3, OustsAt
<1>5. CASE ~(i <= Len(l))
  <2>1. PICK k \in 0..Len(p) : k = i - 1 /\ k \in 0..Len(q) /\ Len(l) <= k /\ k <= Len(q)
    BY <1>2, <1>3, <1>5
  <2>2. \A j \in 1..k : SubSeq(p, 1, k)[j] = p[j]
    BY FirstWords
  <2>3. \A j \in 1..k : SubSeq(q, 1, k)[j] = q[j]
    BY <2>1, FirstWords
  <2>4. SubSeq(p, 1, k) = SubSeq(q, 1, k)
    BY <1>1, <2>1 DEF Rivals
  <2>5. \A j \in 1..k : p[j] = q[j]
    BY <2>2, <2>3, <2>4
  <2>6. Len(l) <= Len(q) /\ \A j \in 1..Len(l) : l[j] = q[j]
    BY <1>2, <2>1, <2>5
  <2> QED BY <2>6, PrefixWords
<1> QED BY <1>4, <1>5

LEMMA SetStaysBelow ==
  ASSUME NEW l, LevelOK(l), NEW p \in Seq(Word), IsPrefix(l, p), Settable(p),
         NEW t, t \subseteq Seq(Word), NEW q \in (t \ With(p, t)) \cup (With(p, t) \ t)
  PROVE  IsPrefix(l, q) \/ IsPrefix(q, l) \/ (q \notin With(p, t) /\ Ousts(l, q))
<1>0. l \in Seq(Word)
  BY DEF LevelOK
<1>1. q \in With(p, t) <=>
        \/ q \in Created(p)
        \/ q \in t /\ ~Ousts(p, q) /\ (Leaf(p) => ~IsPrefix(Front(p), q))
  BY WithIsMerge
<1>2. CASE q \notin t
  <2>1. q \in Seq(Word) /\ IsPrefix(q, p)
    BY <1>1, <1>2, CreatedPaths
  <2> QED BY <1>0, <2>1, PrefixesComparable
<1>3. CASE q \in t /\ Ousts(p, q)
  BY <1>0, <1>3, OustsBelow
<1>4. CASE q \in t /\ ~Ousts(p, q)
  <2>1. Leaf(p) /\ IsPrefix(Front(p), q) /\ q \in Seq(Word)
    BY <1>1, <1>4
  <2>2. l # p /\ p # <<>>
    BY <2>1, LevelIsNoLeaf, LeafNotRoot
  <2>3. IsPrefix(l, Front(p)) /\ Front(p) \in Seq(Word)
    BY <1>0, <2>2, FrontIsPrefix
  <2> QED BY <1>0, <2>1, <2>3, PrefixTransitive
<1> QED BY <1>2, <1>3, <1>4

LEMMA DeleteStaysBelow ==
  ASSUME NEW l, LevelOK(l), NEW p \in Seq(Word), IsPrefix(l, p),
         NEW t, t \subseteq Seq(Word), NEW q \in (t \ Without(p, t)) \cup (Without(p, t) \ t)
  PROVE  IsPrefix(l, q)
<1>1. q \in Seq(Word) /\ IsPrefix(p, q) /\ l \in Seq(Word)
  BY DEF Without, LevelOK
<1> QED BY <1>1, PrefixTransitive


-----------------------------------------------------------------------------
\* Completions offer words.

LEMMA CommandFound ==
  ASSUME NEW name, ExpandCommand(name) # Blank
  PROVE  ExpandCommand(name) \in Commands
<1> DEFINE found == {k \in Commands : HasPrefix(k, name)}
<1>1. Cardinality({}) = 0
  BY FS_EmptySet
<1>2. Cardinality(found) = 1 => found # {}
  BY <1>1
<1>3. found # {} => (CHOOSE k \in found : TRUE) \in found
  OBVIOUS
<1>4. ExpandCommand(name) = IF name \in Commands THEN name
                            ELSE IF Cardinality(found) = 1 THEN CHOOSE k \in found : TRUE ELSE Blank
  BY DEF ExpandCommand
<1>5. \A k \in found : k \in Commands
  OBVIOUS
<1> HIDE DEF found
<1> QED BY <1>2, <1>3, <1>4, <1>5

\* A set of one element has one.
LEMMA TheOne ==
  ASSUME NEW S, Cardinality(S) = 1
  PROVE  (CHOOSE x \in S : TRUE) \in S
<1>1. S # {}
  BY FS_EmptySet
<1> QED BY <1>1

LEMMA HelpIsWords ==
  ASSUME NEW fromSchema, NEW path \in Seq(Word), NEW t, Configuration(t)
  PROVE  GetHelp(fromSchema, path, t) \subseteq Word
<1> DEFINE at == PathDescendant(path)
           below == {q \in t : IsStrictPrefix(path, q)}
           configured == {q[Len(path) + 1] : q \in below}
<1>1. ASSUME NEW q \in t, IsStrictPrefix(path, q) PROVE q[Len(path) + 1] \in Word
  <2>1. q \in Seq(Word) /\ IsPrefix(path, q) /\ path # q
    BY <1>1, PartsOfConfiguration DEF IsStrictPrefix
  <2>2. Len(path) <= Len(q) /\ Len(path) \in Nat /\ Len(q) \in Nat /\ path = SubSeq(q, 1, Len(path))
    BY <2>1, PrefixWords
  <2>3. Len(path) # Len(q)
    <3>1. Len(q) \in 0..Len(q)
      BY <2>2
    <3>2. SubSeq(q, 1, Len(q)) = q
      BY <2>1, <3>1, FirstWords
    <3> QED BY <2>1, <2>2, <3>2
  <2>4. Len(path) + 1 \in 1..Len(q)
    BY <2>2, <2>3
  <2> QED BY <2>1, <2>4
<1>2. configured \subseteq Word
  BY <1>1
<1>3. at # Nowhere => ToSet(Children[at.node]) \subseteq Word
  BY PlaceOfPath, ChildrenAreNodes DEF APlace
<1>4. GetHelp(fromSchema, path, t)
        \subseteq IF at # Nowhere /\ Inner(at) /\ fromSchema THEN ToSet(Children[at.node]) ELSE configured
  BY DEF GetHelp
<1> HIDE DEF at, configured
<1> QED BY <1>2, <1>3, <1>4

LEMMA AllowedIsWords ==
  ASSUME NEW t, Configuration(t)
  PROVE  AllowedValues(t) \subseteq Word
<1>1. ASSUME NEW q \in t, isListKey(PathDescendant(q)) PROVE q[Len(q)] \in Word
  <2>1. q \in Seq(Word)
    BY PartsOfConfiguration
  <2>2. q # <<>>
    BY <1>1, PlaceOfRoot DEF isListKey, Top
  <2> QED BY <2>1, <2>2, FrontAndLast DEF Last
<1> QED BY <1>1 DEF AllowedValues

LEMMA PathCompIsWords ==
  ASSUME level \in Seq(Word), Configuration(cand), NEW c, c.args \in Seq(Word),
         c.idx = Len(c.args) - 1, c.args # <<>>
  PROVE  pathComp(c) \subseteq Word
<1> DEFINE words == SubSeq(c.args, 2, c.idx)
           ps == Expand(editPath(words))
<1>1. words \in Seq(Word)
  <2>1. PICK a \in Seq(Word) : a = c.args
    OBVIOUS
  <2>2. Len(a) \in Nat /\ Len(a) > 0
    BY <2>1
  <2>3. SubSeq(a, 2, Len(a) - 1) \in Seq(Word)
    <3>1. \A i \in 2..(Len(a) - 1) : i \in 1..Len(a)
      BY <2>2
    <3> QED BY <2>2, <3>1
  <2> QED BY <2>1, <2>3
<1> HIDE DEF words
<1>2. editPath(words) \in Seq(Word)
  BY <1>1 DEF editPath
<1>3. ps.cpath \in Seq(Word)
  BY <1>2, ExpandSound DEF Sound, State
<1>4. \A s : GetHelp(s, ps.cpath, cand) \subseteq Word
  BY <1>3, HelpIsWords
<1>5. TmplGetAllowed(ps.cpath) \subseteq Word
  BY AllowedIsWords DEF TmplGetAllowed
<1>6. \A s : GetCompletions(s, ps.cpath) \subseteq Word
  BY <1>4, <1>5 DEF GetCompletions
<1> QED BY <1>6 DEF pathComp, words

\* The keywords, revisions, routing instances and users that the others offer.
LEMMA KeywordsAreWords ==
  ASSUME NEW c
  PROVE  /\ commitComp(c) \subseteq Word /\ commitConfComp(c) \subseteq Word
         /\ confirmComp(c) \subseteq Word /\ exitComp(c) \subseteq Word
         /\ rollbackComp(c) \subseteq Word /\ compareComp(c) \subseteq Word
         /\ cancelcommitComp(c) \subseteq Word
         /\ loadComp(c) \subseteq Word /\ saveComp(c) \subseteq Word /\ loadkeyComp(c) \subseteq Word
<1>1. /\ "comment" \in Word /\ "discard" \in Word /\ "force" \in Word /\ "persist-id" \in Word
      /\ "routing-instance" \in Word /\ "saved" \in Word
      /\ Revision \subseteq Word /\ Instance \subseteq Word /\ User \subseteq Word
  BY CliAssumption
<1>2. /\ commitComp(c) \subseteq Word /\ commitConfComp(c) \subseteq Word
      /\ confirmComp(c) \subseteq Word /\ exitComp(c) \subseteq Word
  BY <1>1 DEF commitComp, commitConfComp, confirmComp, exitComp, keywordComp
<1>3. rollbackComp(c) \subseteq Word
  BY <1>1 DEF rollbackComp
<1>4. compareComp(c) \subseteq Word
  BY <1>1 DEF compareComp
<1>5. cancelcommitComp(c) \subseteq Word
  BY <1>1 DEF cancelcommitComp, Keyword, NeedArg, AtStart
<1>6. \A n \in 0..1 : loadsaveComp(c, n) \subseteq Word
  BY <1>1 DEF loadsaveComp
<1>7. loadComp(c) \subseteq Word /\ saveComp(c) \subseteq Word /\ loadkeyComp(c) \subseteq Word
  BY <1>1, <1>6 DEF loadComp, saveComp, loadkeyComp
<1> QED BY <1>2, <1>3, <1>4, <1>5, <1>7

LEMMA OfferedIsWords ==
  ASSUME level \in Seq(Word), Configuration(cand), NEW c, c.args \in Seq(Word),
         c.idx = Len(c.args) - 1, c.args # <<>>
  PROVE  Offered(c) \subseteq Word
<1>1. pathComp(c) \subseteq Word
  BY PathCompIsWords
<1> QED BY <1>1, KeywordsAreWords DEF Offered, PathCommand


-----------------------------------------------------------------------------
\* The completion of a leafref.

\* Deleting the first of the nodes that had to be created undoes the set, but for
\* the other cases.
LEMMA SetIsUndone ==
  ASSUME NEW t, Configuration(t), NEW ps \in Seq(Word), NEW w \in Word,
         Settable(Append(ps, w)), NEW n \in 0..(Len(ps) - 1),
         ~Exists(SubSeq(ps, 1, n + 1), t), n = 0 \/ Exists(SubSeq(ps, 1, n), t)
  PROVE  Without(SubSeq(ps, 1, n + 1), With(Append(ps, w), t)) = Oust(ps, t)
<1> DEFINE p == Append(ps, w)
           new == SubSeq(ps, 1, n + 1)
           old == SubSeq(ps, 1, n)
<1>1. /\ p \in Seq(Word) /\ p # <<>> /\ Front(p) = ps /\ Len(p) = Len(ps) + 1
      /\ Len(ps) \in Nat /\ n \in Nat
  BY FrontOfAppend
<1>2. /\ new \in Seq(Word) /\ Len(new) = n + 1 /\ IsPrefix(new, ps)
      /\ old \in Seq(Word) /\ Len(old) = n /\ IsPrefix(old, ps)
  <2>1. ASSUME NEW k \in 0..Len(ps)
        PROVE  SubSeq(ps, 1, k) \in Seq(Word) /\ Len(SubSeq(ps, 1, k)) = k /\ IsPrefix(SubSeq(ps, 1, k), ps)
    <3>1. SubSeq(ps, 1, k) \in Seq(Word) /\ Len(SubSeq(ps, 1, k)) = k
      BY FirstWords
    <3>2. SubSeq(ps, 1, k) \in Prefixes(ps)
      BY DEF Prefixes
    <3> QED BY <3>1, <3>2, PrefixesOfPath
  <2>2. n + 1 \in 0..Len(ps) /\ n \in 0..Len(ps)
    BY <1>1
  <2> QED BY <2>1, <2>2
<1>9. Settable(p) /\ PathDescendant(p) # Nowhere
  BY DEF Settable
<1>3. \A q : q \in With(p, t) <=>
        \/ q \in Created(p)
        \/ q \in t /\ ~Ousts(p, q) /\ (Leaf(p) => ~IsPrefix(ps, q))
  <2> HIDE DEF p
  <2> QED BY <1>1, <1>9, WithIsMerge, ConfigurationPaths
<1>4. \A x \in t : x \in Seq(Word) /\ ~IsPrefix(new, x)
  BY PartsOfConfiguration DEF Exists
<1> HIDE DEF p, new, old
<1>5. IsPrefix(new, p) /\ IsPrefix(old, p) /\ IsPrefix(ps, p)
  <2>1. IsPrefix(ps, p)
    BY <1>1, FrontIsPrefix
  <2> QED BY <1>1, <1>2, <2>1, PrefixTransitive
<1>6. ASSUME NEW x \in t PROVE ~IsPrefix(ps, x) /\ (Ousts(p, x) <=> Ousts(ps, x))
  <2>1. x \in Seq(Word) /\ ~IsPrefix(ps, x)
    BY <1>2, <1>4, <1>6, PrefixTransitive
  <2>2. Ousts(ps, x) => Ousts(p, x)
    BY <1>1, <1>5, <2>1, LongerOusts
  <2>3. Ousts(p, x) => Ousts(ps, x)
    BY <1>1, <1>5, <2>1, OustsBelow
  <2> QED BY <2>1, <2>2, <2>3
<1>7. ASSUME NEW q \in Created(p) PROVE IsPrefix(new, q) \/ (q \in t /\ ~Ousts(ps, q))
  <2>1. q \in Seq(Word) /\ IsPrefix(q, p) /\ Explicit(q) /\ Len(q) \in Nat
    BY <1>1, <1>7, CreatedPaths
  <2>2. CASE Len(new) <= Len(q)
    BY <1>1, <1>2, <1>5, <2>1, <2>2, PrefixesComparable
  <2>3. CASE ~(Len(new) <= Len(q))
    <3>1. Len(q) <= Len(old)
      BY <1>1, <1>2, <2>1, <2>3
    <3>2. IsPrefix(q, old)
      BY <1>1, <1>2, <1>5, <2>1, <3>1, PrefixesComparable
    <3>3. n # 0
      <4>1. n = 0 => q = <<>>
        BY <1>2, <2>1, <3>1
      <4>2. ~Explicit(<<>>)
        BY PlaceOfRoot, PathAssumption DEF Explicit, Top
      <4> QED BY <2>1, <4>1, <4>2
    <3>4. PICK x \in t : IsPrefix(old, x)
      BY <3>3 DEF Exists, old
    <3>5. IsPrefix(q, x)
      BY <1>2, <1>4, <2>1, <3>2, <3>4, PrefixTransitive
    <3>6. ~Ousts(ps, q)
      BY <1>1, <1>5, <1>9, <2>1, OneCase
    <3> QED BY <2>1, <3>5, <3>6, PartsOfConfiguration
  <2> QED BY <2>2, <2>3
<1>8. \A q : q \in Without(new, With(p, t)) <=> q \in With(p, t) /\ ~IsPrefix(new, q)
  BY DEF Without
<1>10. \A q : q \in Oust(ps, t) <=> q \in t /\ ~Ousts(ps, q)
  BY DEF Oust
<1>11. \A q : q \in Without(new, With(p, t)) <=> q \in Oust(ps, t)
  BY <1>3, <1>4, <1>6, <1>7, <1>8, <1>10
<1>12. PICK x, y : x = Without(new, With(p, t)) /\ y = Oust(ps, t)
  OBVIOUS
<1>13. \A q : q \in x <=> q \in y
  BY <1>11, <1>12
<1>14. x = y
  BY <1>13
<1> QED BY <1>12, <1>14 DEF p, new

CompOK(c, t) ==
  /\ c \in [pc : {"idle", "exists", "set", "delete"}, ps : Seq(Word), n : Nat,
            before : SUBSET Seq(Word), alone : BOOLEAN]
  /\ c.n <= Len(c.ps)
  /\ c.pc = "exists" => c.n > 0
  /\ c.pc \in {"set", "delete"} => c.n < Len(c.ps)
  /\ c.pc # "idle" /\ c.alone =>
       /\ Configuration(c.before)
       /\ c.n < Len(c.ps) => ~Exists(SubSeq(c.ps, 1, c.n + 1), c.before)
       /\ c.pc \in {"exists", "set"} => t = c.before
       /\ c.pc \in {"set", "delete"} => c.n = 0 \/ Exists(SubSeq(c.ps, 1, c.n), c.before)
       /\ c.pc = "delete" => /\ Settable(Append(c.ps, "dummyValue"))
                             /\ t = With(Append(c.ps, "dummyValue"), c.before)

LEMMA NoCompOK ==
  ASSUME NEW t
  PROVE  CompOK(NoComp, t)
BY DEF CompOK, NoComp

\* From when the other process has used the session, nothing is promised.
LEMMA NotAlone ==
  ASSUME NEW c, NEW t, NEW u, CompOK(c, t), c.pc # "idle"
  PROVE  CompOK([c EXCEPT !.alone = FALSE], u)
<1> DEFINE d == [c EXCEPT !.alone = FALSE]
<1>1. c \in [pc : {"idle", "exists", "set", "delete"}, ps : Seq(Word), n : Nat,
             before : SUBSET Seq(Word), alone : BOOLEAN]
  BY DEF CompOK
<1>2. /\ d \in [pc : {"idle", "exists", "set", "delete"}, ps : Seq(Word), n : Nat,
                before : SUBSET Seq(Word), alone : BOOLEAN]
      /\ d.pc = c.pc /\ d.ps = c.ps /\ d.n = c.n /\ d.alone = FALSE
  BY <1>1
<1> HIDE DEF d
<1>3. CompOK(d, u)
  BY <1>2 DEF CompOK
<1> QED BY <1>3 DEF d


-----------------------------------------------------------------------------
\* The inductive invariant.

LineOK(l) == l \in Seq(Word) /\ Len(l) <= MaxWords

Inv ==
  /\ LevelOK(level) /\ LineOK(line)
  /\ Configuration(cand)
  /\ CompOK(comp, cand)

\* A change is below the level, or of what contains it, or takes away another case.
Below(t, u) ==
  \A q \in (t \ u) \cup (u \ t) :
    IsPrefix(level, q) \/ IsPrefix(q, level) \/ (q \notin u /\ Ousts(level, q))

LEMMA IdleComp ==
  ASSUME CompOK(comp, cand), Idle, NEW t
  PROVE  CompOK(comp, t)
BY DEF CompOK, Idle

LEMMA RunStep ==
  ASSUME NEW cmds, Inv, Run(cmds)
  PROVE  /\ Idle /\ line # <<>> /\ ExpandCommand(Head(line)) \in cmds /\ line' = <<>> /\ comp' = comp
         /\ Tail(line) \in Seq(Word) /\ LineOK(line')
         /\ \A t : CompOK(comp', t)
<1>1. Idle /\ line # <<>> /\ ExpandCommand(Head(line)) \in cmds /\ line' = <<>> /\ comp' = comp
  BY DEF Run
<1>2. Tail(line) \in Seq(Word)
  BY <1>1 DEF Inv, LineOK
<1>3. LineOK(<<>>)
  BY LineAssumption DEF LineOK
<1>4. \A t : CompOK(comp, t)
  BY <1>1, IdleComp DEF Inv
<1> QED BY <1>1, <1>2, <1>3, <1>4

LEMMA TargetPath ==
  ASSUME Inv, Tail(line) \in Seq(Word), Target.err = "nil"
  PROVE  /\ Target.cpath \in Seq(Word) /\ IsPrefix(level, Target.cpath)
         /\ Editable(PathDescendant(Target.cpath)) => LevelOK(Target.cpath)
<1>1. Target = Expand(level \o Tail(line)) /\ LevelOK(level)
  BY DEF Target, editPath, Inv
<1>2. /\ level \o Tail(line) \in Seq(Word) /\ Target.cpath \in Seq(Word)
      /\ IsPrefix(level, Target.cpath)
  BY <1>1, BelowLevel
<1> QED BY <1>1, <1>2, EditLevel

LEMMA CandSetStep ==
  ASSUME Inv, NEW p \in Seq(Word), IsPrefix(level, p), CandSet(p)
  PROVE  Configuration(cand') /\ Below(cand, cand')
<1>0. Configuration(cand) /\ LevelOK(level) /\ cand \subseteq Seq(Word)
  BY ConfigurationPaths DEF Inv
<1>1. CASE cand' = cand
  BY <1>0, <1>1 DEF Below
<1>2. CASE Settable(p) /\ cand' = With(p, cand)
  BY <1>0, <1>2, WithKeeps, SetStaysBelow DEF Below
<1> QED BY <1>1, <1>2 DEF CandSet

LEMMA SetStep ==
  ASSUME Inv, setRun
  PROVE  Inv' /\ Below(cand, cand')
<1>1. Run({"set"}) /\ level' = level
  BY DEF setRun
<1>2. Tail(line) \in Seq(Word) /\ LineOK(line') /\ \A t : CompOK(comp', t)
  BY <1>1, RunStep
<1>3. Configuration(cand') /\ Below(cand, cand')
  <2>1. CASE Target.err = "nil" /\ CandSet(Target.cpath)
    BY <1>2, <2>1, TargetPath, CandSetStep
  <2>2. CASE cand' = cand
    BY <2>2 DEF Inv, Below
  <2> QED BY <2>1, <2>2 DEF setRun
<1> QED BY <1>1, <1>2, <1>3 DEF Inv

LEMMA DeleteStep ==
  ASSUME Inv, deleteRun
  PROVE  Inv' /\ Below(cand, cand')
<1>1. Run({"delete"}) /\ level' = level
  BY DEF deleteRun
<1>2. Tail(line) \in Seq(Word) /\ LineOK(line') /\ \A t : CompOK(comp', t)
  BY <1>1, RunStep
<1>3. Configuration(cand') /\ Below(cand, cand')
  <2>1. CASE Target.err = "nil" /\ cand' = Without(Target.cpath, cand)
    <3>1. Target.cpath \in Seq(Word) /\ IsPrefix(level, Target.cpath)
      BY <1>2, <2>1, TargetPath
    <3>2. Configuration(cand) /\ LevelOK(level) /\ cand \subseteq Seq(Word)
      BY ConfigurationPaths DEF Inv
    <3> QED BY <2>1, <3>1, <3>2, WithoutKeeps, DeleteStaysBelow DEF Below
  <2>2. CASE cand' = cand
    BY <2>2 DEF Inv, Below
  <2> QED BY <2>1, <2>2 DEF deleteRun
<1> QED BY <1>1, <1>2, <1>3 DEF Inv

LEMMA EditStep ==
  ASSUME Inv, editRun
  PROVE  Inv' /\ Below(cand, cand')
<1>1. Run({"edit"})
  BY DEF editRun
<1>2. Tail(line) \in Seq(Word) /\ LineOK(line') /\ \A t : CompOK(comp', t)
  BY <1>1, RunStep
<1>3. CASE UNCHANGED <<level, cand>>
  BY <1>2, <1>3 DEF Inv, Below
<1>4. CASE /\ Target.err = "nil" /\ Editable(PathDescendant(Target.cpath))
           /\ level' = Target.cpath
           /\ cand' = cand \/ CandSet(level')
  <2>1. Target.cpath \in Seq(Word) /\ IsPrefix(level, Target.cpath) /\ LevelOK(Target.cpath)
    BY <1>2, <1>4, TargetPath
  <2>2. CASE CandSet(level')
    <3>1. Configuration(cand') /\ Below(cand, cand')
      BY <1>4, <2>1, <2>2, CandSetStep
    <3> QED BY <1>2, <1>4, <2>1, <3>1 DEF Inv
  <2>3. CASE cand' = cand
    BY <1>2, <1>4, <2>1, <2>3 DEF Inv, Below
  <2> QED BY <1>4, <2>2, <2>3
<1> QED BY <1>3, <1>4 DEF editRun


LEMMA LevelStep ==
  ASSUME Inv, topRun \/ upRun \/ exitRun
  PROVE  Inv'
<1>1. PICK cmds : Run(cmds)
  BY DEF topRun, upRun, exitRun
<1>2. LineOK(line') /\ \A t : CompOK(comp', t)
  BY <1>1, RunStep
<1>3. LevelOK(level')
  <2>1. CASE level' = <<>>
    BY <2>1, TopLevel
  <2>2. CASE upRun /\ level # <<>>
    BY <2>2, UpLevel DEF upRun, Inv
  <2> QED BY <2>1, <2>2 DEF topRun, upRun, exitRun
<1>4. Configuration(cand')
  BY LineAssumption DEF topRun, upRun, exitRun, Inv
<1> QED BY <1>2, <1>3, <1>4 DEF Inv

LEMMA ReplaceStep ==
  ASSUME Inv, discardRun \/ replaceRun \/ mergeRun
  PROVE  Inv'
<1>1. PICK cmds : Run(cmds)
  BY DEF discardRun, replaceRun, mergeRun
<1>2. LineOK(line') /\ \A t : CompOK(comp', t)
  BY <1>1, RunStep
<1>3. level' = level
  BY DEF discardRun, replaceRun, mergeRun
<1>4. Configuration(cand')
  <2>1. CASE cand' = cand \/ cand' \in File
    BY <2>1, LineAssumption DEF Inv
  <2>2. CASE \E t \in File : cand' = Merge(cand, t)
    BY <2>2, LineAssumption, MergeKeeps DEF Inv
  <2> QED BY <2>1, <2>2 DEF discardRun, replaceRun, mergeRun
<1> QED BY <1>2, <1>3, <1>4 DEF Inv

LEMMA ReadStep ==
  ASSUME Inv, RunInvalid \/ showRun \/ validateRun \/ saveRun \/ runRun \/ requestRun \/ loadkeyRun
  PROVE  Inv' /\ cand' = cand
<1>1. level' = level /\ cand' = cand /\ line' = <<>> /\ comp' = comp
  BY DEF RunInvalid, showRun, validateRun, saveRun, runRun, requestRun, loadkeyRun, Run
<1>2. LineOK(<<>>)
  BY LineAssumption DEF LineOK
<1> QED BY <1>1, <1>2 DEF Inv

\* A word is put in the place of the last one.
LEMMA LastReplaced ==
  ASSUME LineOK(line), line # <<>>, NEW w \in Word
  PROVE  LineOK(Append(Front(line), w)) /\ Append(Front(line), w) # <<>>
<1>1. Front(line) \in Seq(Word) /\ Len(Front(line)) = Len(line) - 1 /\ Len(line) \in Nat
  BY FrontAndLast DEF LineOK
<1>2. /\ Append(Front(line), w) \in Seq(Word) /\ Append(Front(line), w) # <<>>
      /\ Len(Append(Front(line), w)) = Len(Front(line)) + 1
  BY <1>1, FrontOfAppend
<1> QED BY <1>1, <1>2 DEF LineOK

LEMMA CompleteStep ==
  ASSUME Inv, Complete
  PROVE  Inv' /\ line' # <<>>
<1> DEFINE c == CompleteContext(line, FALSE)
           found == prefixFilterMap(Offered(c), c.prefix)
           w == CHOOSE w \in found : TRUE
<1>1. line \in Seq(Word) /\ Len(line) \in Nat /\ Len(line) > 1 /\ line # <<>>
  BY DEF Complete, Inv, LineOK
<1>2. ExpandCommand(Head(line)) \in Word
  BY CommandFound, LineAssumption DEF Complete
<1>3. c.args \in Seq(Word) /\ c.idx = Len(c.args) - 1 /\ c.args # <<>>
  <2>1. PICK k \in Word : k = ExpandCommand(Head(line))
    BY <1>2
  <2>2. c.args = <<k>> \o Tail(line) /\ c.idx = Len(line) - 1
    BY <2>1 DEF CompleteContext, Context
  <2>3. Tail(line) \in Seq(Word) /\ Len(Tail(line)) = Len(line) - 1
    BY <1>1
  <2>4. <<k>> \in Seq(Word) /\ Len(<<k>>) = 1
    OBVIOUS
  <2>5. <<k>> \o Tail(line) \in Seq(Word) /\ Len(<<k>> \o Tail(line)) = Len(line)
    BY <1>1, <2>3, <2>4
  <2>6. <<k>> \o Tail(line) # <<>>
    BY <1>1, <2>5
  <2> QED BY <2>2, <2>5, <2>6
<1>4. Offered(c) \subseteq Word
  <2>1. level \in Seq(Word) /\ Configuration(cand)
    BY DEF Inv, LevelOK
  <2> HIDE DEF c
  <2> QED BY <1>3, <2>1, OfferedIsWords
<1>5. found \subseteq Word
  BY <1>4 DEF prefixFilterMap
<1>6. Cardinality(found) = 1 /\ line' = Append(Front(line), w) /\ UNCHANGED <<level, cand, comp>>
  BY DEF Complete
<1>7. w \in found
  <2> HIDE DEF found
  <2> QED BY <1>6, TheOne
<1>8. w \in Word
  BY <1>5, <1>7
<1> HIDE DEF w
<1> QED BY <1>1, <1>6, <1>8, LastReplaced DEF Inv

LEMMA TypingStep ==
  ASSUME Inv, CompleteCommand \/ \E w \in Word : Type(w)
  PROVE  Inv' /\ line' # <<>>
<1>1. CASE \E w \in Word : Type(w)
  <2>1. PICK w \in Word : Type(w)
    BY <1>1
  <2>2. /\ Append(line, w) \in Seq(Word) /\ Append(line, w) # <<>>
        /\ Len(Append(line, w)) = Len(line) + 1 /\ Len(line) \in Nat
    BY FrontOfAppend DEF Inv, LineOK
  <2>3. line' = Append(line, w) /\ Len(line) < MaxWords /\ UNCHANGED <<level, cand, comp>>
    BY <2>1 DEF Type
  <2>4. LineOK(line')
    BY <2>2, <2>3, LineAssumption DEF LineOK
  <2> QED BY <2>2, <2>3, <2>4 DEF Inv
<1>2. CASE CompleteCommand
  <2> DEFINE found == prefixFilterMap(Commands, Head(line))
             k == CHOOSE k \in found : TRUE
  <2>1. found \subseteq Word
    BY LineAssumption DEF prefixFilterMap
  <2>2. /\ Cardinality(found) = 1 /\ line' = <<k>> /\ Len(line) = 1
        /\ UNCHANGED <<level, cand, comp>>
    BY <1>2 DEF CompleteCommand
  <2>3. k \in found
    <3> HIDE DEF found
    <3> QED BY <2>2, TheOne
  <2>4. k \in Word
    BY <2>1, <2>3
  <2> HIDE DEF k
  <2>5. LineOK(<<k>>) /\ <<k>> # <<>>
    BY <2>2, <2>4 DEF LineOK, Inv
  <2> QED BY <2>2, <2>5 DEF Inv
<1> QED BY <1>1, <1>2

LEMMA OtherStep ==
  ASSUME Inv, Other
  PROVE  Inv' /\ line' = line
<1>1. level' = level /\ line' = line
  BY DEF Other
<1>2. Configuration(cand')
  <2>1. CASE \E p \in OtherPath : cand' = With(p, cand) \/ cand' = Without(p, cand)
    BY <2>1, LineAssumption, WithKeeps, WithoutKeeps DEF Inv
  <2>2. CASE cand' \in File \cup {cand}
    BY <2>2, LineAssumption DEF Inv
  <2> QED BY <2>1, <2>2 DEF Other
<1>3. CompOK(comp', cand')
  <2>1. CASE Idle
    BY <2>1, IdleComp DEF Other, Inv
  <2>2. CASE ~Idle
    BY <2>2, NotAlone DEF Other, Inv, Idle
  <2> QED BY <2>1, <2>2
<1> QED BY <1>1, <1>2, <1>3 DEF Inv


CompType == [pc : {"idle", "exists", "set", "delete"}, ps : Seq(Word), n : Nat,
             before : SUBSET Seq(Word), alone : BOOLEAN]

LEMMA CompFields ==
  ASSUME NEW c \in CompType, NEW pc \in {"idle", "exists", "set", "delete"}, NEW n \in Nat
  PROVE  /\ [c EXCEPT !.pc = pc, !.n = n] \in CompType
         /\ [c EXCEPT !.pc = pc, !.n = n].pc = pc /\ [c EXCEPT !.pc = pc, !.n = n].n = n
         /\ [c EXCEPT !.pc = pc, !.n = n].ps = c.ps
         /\ [c EXCEPT !.pc = pc, !.n = n].before = c.before
         /\ [c EXCEPT !.pc = pc, !.n = n].alone = c.alone
         /\ [c EXCEPT !.pc = pc] = [c EXCEPT !.pc = pc, !.n = c.n]
BY DEF CompType

LEMMA LeafrefStarts ==
  ASSUME Inv, CompleteLeafref
  PROVE  Inv'
<1> DEFINE ps == Target.cpath
<1>1. /\ Idle /\ line # <<>> /\ Target.err = "nil" /\ UNCHANGED <<level, line, cand>>
      /\ Kind[PathDescendant(ps).node] = "leafref"
      /\ comp' = [pc |-> "exists", ps |-> ps, n |-> Len(ps), before |-> cand, alone |-> TRUE]
  BY DEF CompleteLeafref
<1>2. Tail(line) \in Seq(Word)
  BY <1>1 DEF Inv, LineOK
<1>3. ps \in Seq(Word)
  BY <1>1, <1>2, TargetPath
<1>4. ps # <<>>
  BY <1>1, PlaceOfRoot, PathAssumption DEF Top
<1> HIDE DEF ps
<1>5. Len(ps) \in Nat /\ Len(ps) > 0
  BY <1>3, <1>4
<1>6. Configuration(cand) /\ cand \in SUBSET Seq(Word)
  BY ConfigurationPaths DEF Inv
<1>7. comp' \in CompType
  BY <1>1, <1>3, <1>5, <1>6 DEF CompType
<1>8. CompOK(comp', cand)
  BY <1>1, <1>5, <1>6, <1>7 DEF CompOK, CompType
<1> QED BY <1>1, <1>8 DEF Inv

LEMMA ExistsStep ==
  ASSUME Inv, LeafrefExists
  PROVE  Inv' /\ cand' = cand /\ line' = line
<1> DEFINE here == Exists(SubSeq(comp.ps, 1, comp.n), cand)
<1>1. comp.pc = "exists" /\ UNCHANGED <<level, line, cand>>
  BY DEF LeafrefExists
<1>2. comp \in CompType /\ CompOK(comp, cand)
  BY DEF Inv, CompOK, CompType
<1>3. /\ comp.n \in Nat /\ comp.n > 0 /\ comp.n <= Len(comp.ps) /\ comp.ps \in Seq(Word)
      /\ Len(comp.ps) \in Nat
  BY <1>1, <1>2 DEF CompOK, CompType
<1>4. CompOK(comp', cand)
  <2>1. CASE here /\ comp.n = Len(comp.ps)
    <3>1. comp' = NoComp
      BY <2>1 DEF LeafrefExists
    <3> QED BY <3>1, NoCompOK
  <2>2. CASE here /\ comp.n # Len(comp.ps)
    <3>1. comp' = [comp EXCEPT !.pc = "set"]
      BY <2>2 DEF LeafrefExists
    <3>2. /\ comp' \in CompType /\ comp'.pc = "set" /\ comp'.n = comp.n /\ comp'.ps = comp.ps
          /\ comp'.before = comp.before /\ comp'.alone = comp.alone
      BY <1>2, <1>3, <3>1, CompFields DEF CompType
    <3> QED BY <1>1, <1>2, <1>3, <2>2, <3>2 DEF CompOK, CompType
  <2>3. CASE ~here
    <3>1. comp' = [comp EXCEPT !.pc = IF comp.n = 1 THEN "set" ELSE @, !.n = @ - 1]
      BY <2>3 DEF LeafrefExists
    <3>2. PICK n \in Nat : n = comp.n - 1 /\ n + 1 = comp.n
      BY <1>3
    <3>3. /\ comp' \in CompType /\ comp'.n = n /\ comp'.ps = comp.ps
          /\ comp'.pc = IF n = 0 THEN "set" ELSE "exists"
          /\ comp'.before = comp.before /\ comp'.alone = comp.alone
      <4>1. CASE n = 0
        <5>0. comp.n = 1 /\ comp.n - 1 = n
          BY <3>2, <4>1
        <5>1. comp' = [comp EXCEPT !.pc = "set", !.n = n]
          BY <3>1, <5>0
        <5> QED BY <1>2, <4>1, <5>1, CompFields DEF CompType
      <4>2. CASE n # 0
        <5>1. comp' = [comp EXCEPT !.pc = "exists", !.n = n]
          BY <1>1, <1>3, <3>1, <3>2, <4>2
        <5> QED BY <1>2, <4>2, <5>1, CompFields DEF CompType
      <4> QED BY <4>1, <4>2
    <3>4. comp.alone => ~Exists(SubSeq(comp'.ps, 1, n + 1), comp'.before) /\ cand = comp'.before
      BY <1>1, <1>2, <2>3, <3>2, <3>3 DEF CompOK
    <3>5. comp.alone => Configuration(comp'.before)
      BY <1>1, <1>2, <3>3 DEF CompOK
    <3>6. n < Len(comp.ps) /\ n <= Len(comp.ps)
      BY <1>3, <3>2
    <3>7. CASE n = 0
      BY <3>3, <3>4, <3>5, <3>6, <3>7 DEF CompOK, CompType
    <3>8. CASE n # 0
      <4>1. comp'.pc = "exists" /\ n > 0
        BY <3>3, <3>8
      <4> QED BY <3>3, <3>4, <3>5, <3>6, <4>1 DEF CompOK, CompType
    <3> QED BY <3>7, <3>8
  <2> QED BY <2>1, <2>2, <2>3
<1> QED BY <1>1, <1>4 DEF Inv

LEMMA DummySetStep ==
  ASSUME Inv, LeafrefSet
  PROVE  Inv' /\ line' = line /\ (Idle' => cand' = cand)
<1>1. comp.pc = "set" /\ UNCHANGED <<level, line>> /\ Configuration(cand)
  BY DEF LeafrefSet, Inv
<1>2. comp \in CompType /\ CompOK(comp, cand) /\ comp.ps \in Seq(Word) /\ "dummyValue" \in Word
  BY CliAssumption DEF Inv, CompOK, CompType
<1>3. CASE UNCHANGED cand /\ comp' = NoComp
  BY <1>1, <1>3, NoCompOK DEF Inv
<1>4. CASE /\ Settable(Append(comp.ps, "dummyValue"))
           /\ cand' = With(Append(comp.ps, "dummyValue"), cand)
           /\ comp' = [comp EXCEPT !.pc = "delete"]
  <2>1. Append(comp.ps, "dummyValue") \in Seq(Word)
    BY <1>2, FrontOfAppend
  <2>2. Configuration(cand')
    BY <1>1, <1>4, <2>1, WithKeeps
  <2>3. /\ comp' \in CompType /\ comp'.pc = "delete" /\ comp'.n = comp.n /\ comp'.ps = comp.ps
        /\ comp'.before = comp.before /\ comp'.alone = comp.alone
    BY <1>2, <1>4, CompFields DEF CompType
  <2>4. CompOK(comp', cand')
    BY <1>1, <1>2, <1>4, <2>3 DEF CompOK, CompType
  <2>5. ~Idle'
    BY <2>3 DEF Idle
  <2> QED BY <1>1, <2>2, <2>4, <2>5 DEF Inv
<1> QED BY <1>3, <1>4 DEF LeafrefSet

LEMMA DummyDeleteStep ==
  ASSUME Inv, LeafrefDelete
  PROVE  Inv' /\ line' = line /\ (comp.alone => cand' = Oust(comp.ps, comp.before))
<1> DEFINE new == SubSeq(comp.ps, 1, comp.n + 1)
<1>1. comp.pc = "delete" /\ comp' = NoComp /\ UNCHANGED <<level, line>> /\ Configuration(cand)
  BY DEF LeafrefDelete, Inv
<1>2. /\ comp \in CompType /\ CompOK(comp, cand) /\ comp.ps \in Seq(Word) /\ "dummyValue" \in Word
      /\ comp.n \in Nat /\ comp.n < Len(comp.ps) /\ Len(comp.ps) \in Nat
  BY <1>1, CliAssumption DEF Inv, CompOK, CompType
<1>3. new \in Seq(Word)
  <2>1. comp.n + 1 \in 0..Len(comp.ps)
    BY <1>2
  <2> QED BY <1>2, <2>1, FirstWords
<1>4. Configuration(cand')
  <2>1. CASE cand' = Without(new, cand)
    BY <1>1, <1>3, <2>1, WithoutKeeps
  <2>2. CASE cand' = cand
    BY <1>1, <2>2
  <2> QED BY <2>1, <2>2 DEF LeafrefDelete
<1>5. ASSUME comp.alone PROVE cand' = Oust(comp.ps, comp.before)
  <2>1. cand' = Without(new, cand)
    BY <1>5 DEF LeafrefDelete
  <2>2. /\ Configuration(comp.before) /\ ~Exists(new, comp.before)
        /\ comp.n = 0 \/ Exists(SubSeq(comp.ps, 1, comp.n), comp.before)
        /\ Settable(Append(comp.ps, "dummyValue"))
        /\ cand = With(Append(comp.ps, "dummyValue"), comp.before)
    BY <1>1, <1>2, <1>5 DEF CompOK
  <2>3. comp.n \in 0..(Len(comp.ps) - 1)
    BY <1>2
  <2>4. Without(new, With(Append(comp.ps, "dummyValue"), comp.before))
          = Oust(comp.ps, comp.before)
    BY <1>2, <2>2, <2>3, SetIsUndone
  <2> QED BY <2>1, <2>2, <2>4
<1> QED BY <1>1, <1>4, <1>5, NoCompOK DEF Inv

LEMMA InvInit ==
  ASSUME Init
  PROVE  Inv
<1>1. Configuration({})
  BY DEF Configuration
<1>2. LineOK(<<>>)
  BY LineAssumption DEF LineOK
<1> QED BY <1>1, <1>2, TopLevel, NoCompOK DEF Init, Inv

LEMMA InvNext ==
  ASSUME Inv, [Next]_vars
  PROVE  Inv'
<1>1. CASE UNCHANGED vars
  BY <1>1 DEF vars, Inv
<1>2. CASE Next
  BY <1>2, SetStep, DeleteStep, EditStep, LevelStep, ReplaceStep, ReadStep, CompleteStep,
     TypingStep, OtherStep, LeafrefStarts, ExistsStep, DummySetStep, DummyDeleteStep DEF Next
<1> QED BY <1>1, <1>2

LEMMA InvAlways == Spec => []Inv
BY InvInit, InvNext, PTL DEF Spec

-----------------------------------------------------------------------------
\* Theorems.

\* Whatever is typed, completed and run, and whatever another process does to the
\* session, the candidate stays a configuration of the schema.
THEOREM CliTypeCorrect == Spec => []TypeOK
<1>1. ASSUME Inv PROVE TypeOK
  BY <1>1 DEF Inv, LevelOK, LineOK, CompOK, TypeOK
<1> QED BY <1>1, InvAlways, PTL

\* Every edit level, however it was reached and whatever was abbreviated to reach
\* it, can be edited and expands to itself.
THEOREM LevelAlwaysEditable == Spec => []LevelIsEditable
<1>1. ASSUME Inv PROVE LevelIsEditable
  BY <1>1 DEF Inv, LevelOK, LevelIsEditable
<1> QED BY <1>1, InvAlways, PTL

\* set, delete and edit change nothing outside the level they are typed at but the
\* other cases of choices that the level is in, for any schema and any abbreviations.
THEOREM EditsAlwaysBelow == Spec => EditsStayBelow
<1> DEFINE P == line # <<>> /\ line' = <<>> /\ ExpandCommand(Head(line)) \in {"set", "delete", "edit"}
                => \A q \in (cand \ cand') \cup (cand' \ cand) :
                     \/ IsPrefix(level, q) \/ IsPrefix(q, level)
                     \/ q \notin cand' /\ Ousts(level, q)
<1>1. ASSUME Inv, Next PROVE P
  <2>1. CASE setRun \/ deleteRun \/ editRun
    BY <1>1, <2>1, SetStep, DeleteStep, EditStep DEF Below
  <2>2. CASE RunInvalid \/ showRun \/ validateRun \/ saveRun \/ runRun \/ requestRun \/ loadkeyRun
    BY <1>1, <2>2, ReadStep
  <2>3. CASE topRun \/ upRun \/ exitRun \/ discardRun \/ replaceRun \/ mergeRun
    BY <2>3 DEF topRun, upRun, exitRun, discardRun, replaceRun, mergeRun, Run
  <2>4. CASE Complete \/ CompleteCommand \/ \E w \in Word : Type(w)
    BY <1>1, <2>4, CompleteStep, TypingStep
  <2>5. CASE CompleteLeafref \/ LeafrefExists \/ LeafrefSet \/ LeafrefDelete \/ Other
    BY <2>5 DEF CompleteLeafref, LeafrefExists, LeafrefSet, LeafrefDelete, Other
  <2> QED BY <1>1, <2>1, <2>2, <2>3, <2>4, <2>5 DEF Next
<1>2. ASSUME Inv, [Next]_vars PROVE [P]_vars
  BY <1>1, <1>2
<1> QED BY <1>2, InvAlways, PTL DEF Spec, EditsStayBelow

\* A leafref completion deletes exactly what it had to create, at whatever depth
\* of the schema, if it had the session for itself; what it loses was in other cases
\* of the choices on the leafref's path.
THEOREM DummyAlwaysTakenBack == Spec => CompletionTakesDummyBack
<1> DEFINE P == ~Idle /\ Idle' /\ comp.alone =>
                  cand' \subseteq comp.before /\ \A q \in comp.before \ cand' : Ousts(comp.ps, q)
<1>1. ASSUME Inv, Next PROVE P
  <2>1. CASE LeafrefExists
    BY <1>1, <2>1, ExistsStep DEF Inv, CompOK, LeafrefExists
  <2>2. CASE LeafrefSet
    BY <1>1, <2>2, DummySetStep DEF Inv, CompOK, LeafrefSet
  <2>3. CASE LeafrefDelete
    BY <1>1, <2>3, DummyDeleteStep DEF Oust
  <2>4. CASE Other
    <3>1. ~Idle => comp' = [comp EXCEPT !.alone = FALSE]
      BY <2>4 DEF Other
    <3>2. ~Idle => ~Idle'
      BY <1>1, <3>1 DEF Idle, Inv, CompOK
    <3> QED BY <3>2
  <2>5. CASE CompleteLeafref \/ Complete \/ CompleteCommand \/ RunInvalid \/ \E w \in Word : Type(w)
    BY <2>5 DEF CompleteLeafref, Complete, CompleteCommand, RunInvalid, Type
  <2>6. ASSUME NEW cmds, Run(cmds) PROVE P
    BY <2>6 DEF Run
  <2> QED BY <1>1, <2>1, <2>2, <2>3, <2>4, <2>5, <2>6
          DEF Next, setRun, deleteRun, editRun, topRun, upRun, exitRun, discardRun, replaceRun,
              mergeRun, showRun, validateRun, saveRun, runRun, requestRun, loadkeyRun
<1>2. ASSUME Inv, [Next]_vars PROVE [P]_vars
  BY <1>1, <1>2
<1> QED BY <1>2, InvAlways, PTL DEF Spec, CompletionTakesDummyBack

-----------------------------------------------------------------------------
\* A prefix of the word at the cursor.

LEMMA ChildrenFinite ==
  ASSUME NEW m \in DOMAIN Kind
  PROVE  IsFiniteSet(ToSet(Children[m]))
<1>1. PICK c \in Seq(DOMAIN Kind) : c = Children[m]
  BY PathAssumption
<1>2. DOMAIN c = 1..Len(c) /\ Len(c) \in Nat
  OBVIOUS
<1>3. IsFiniteSet(1..Len(c))
  BY <1>2, FS_Interval
<1>4. c \in Surjection(1..Len(c), ToSet(c))
  BY <1>2 DEF Surjection, ToSet
<1>5. IsFiniteSet(ToSet(c))
  BY <1>3, <1>4, FS_Surjection
<1> QED BY <1>1, <1>5

LEMMA TwoOfMany ==
  ASSUME NEW S, IsFiniteSet(S), NEW m, NEW n, m # n, {m, n} \subseteq S
  PROVE  Cardinality(S) > 1
<1>1. Cardinality({m, n}) <= Cardinality(S)
  BY FS_Subset
<1>2. Cardinality({m, n}) = 2
  <2>1. IsFiniteSet({m}) /\ Cardinality({m}) = 1 /\ n \notin {m}
    BY FS_Singleton
  <2>2. PICK s : s = {m}
    OBVIOUS
  <2>3. Cardinality(s \cup {n}) = Cardinality(s) + 1
    BY <2>1, <2>2, FS_AddElement
  <2>4. {m} \cup {n} = {m, n}
    OBVIOUS
  <2> QED BY <2>1, <2>2, <2>3, <2>4
<1>3. Cardinality(S) \in Nat
  BY FS_CardinalityType
<1> QED BY <1>1, <1>2, <1>3

\* Two expansions that have come to the same place, though their positions differ.
Alike(a, b) == a.node = b.node /\ a.expect = b.expect /\ a.err = b.err

\* From a and b, both went on to the same word.
Together(a, b, r, s) ==
  r.err = "nil" => \E v \in Word : r.cpath = Append(a.cpath, v) /\ s.cpath = Append(b.cpath, v)

\* What processchildrenskip makes of the names it found.
Result(st, S, pos) ==
  IF S = {} THEN Fail(st, "unknown")
  ELSE IF Cardinality(S) > 1 THEN Fail(st, "ambiguous")
  ELSE Found(st, CHOOSE n \in S : TRUE, pos)

Plain(names, w) == IF w \in names THEN {w} ELSE {n \in names : HasPrefix(n, w)}

LEMMA OffCursor ==
  ASSUME NEW st \in State, NEW w, NEW skip, NEW prefix, NEW pos \in Int, pos # 0
  PROVE  processchildrenskip(st, w, skip, prefix, pos)
           = Result(st, Plain(ToSet(Children[st.node]) \ skip, w), pos)
<1> DEFINE names == ToSet(Children[st.node]) \ skip
           S == Plain(names, w)
<1>1. ~PrefixMatch(Children[st.node], skip, w, prefix, pos)
  <2> QED BY Zenon DEF PrefixMatch
<1>2. Matches(names, w, prefix, pos) = S
  BY DEF Matches, Plain
<1> HIDE DEF S
<1>3. Cardinality({}) = 0
  BY FS_EmptySet
<1>4. CASE S = {}
  <2>1. Cardinality(S) = 0
    BY <1>3, <1>4
  <2>2. processchildrenskip(st, w, skip, prefix, pos) = Fail(st, "unknown")
    BY <1>1, <1>2, <1>4, <2>1 DEF processchildrenskip, Descend
  <2> QED BY <1>4, <2>2 DEF Result, S
<1>5. CASE S # {} /\ Cardinality(S) > 1
  <2>1. processchildrenskip(st, w, skip, prefix, pos) = Fail(st, "ambiguous")
    BY <1>1, <1>2, <1>5 DEF processchildrenskip, Descend
  <2> QED BY <1>5, <2>1 DEF Result, S
<1>6. CASE S # {} /\ ~(Cardinality(S) > 1)
  <2> DEFINE n == CHOOSE n \in S : TRUE
  <2>1. processchildrenskip(st, w, skip, prefix, pos)
          = [st EXCEPT !.node = n, !.expect = Expecting(n), !.cpath = Append(@, n),
                       !.pos = pos]
    BY <1>1, <1>2, <1>6 DEF processchildrenskip, Descend
  <2>2. processchildrenskip(st, w, skip, prefix, pos) = Found(st, n, pos)
    BY <2>1 DEF Found, State
  <2> QED BY <1>6, <2>2 DEF Result, S
<1> QED BY <1>4, <1>5, <1>6

\* The state is typed, whatever the position.
LEMMA AppendWritten ==
  ASSUME NEW st \in State, NEW w \in Written
  PROVE  Append(st.cpath, w) \in Seq(Written) /\ Append(st.cpath, w) # <<>>
BY FrontOfAppend DEF State

LEMMA WordIsWritten ==
  ASSUME NEW n \in Word
  PROVE  n \in Written /\ \A p, w \in Word : Joined(n, p, w) \in Written
BY DEF Written

LEMMA ResultTyped ==
  ASSUME NEW st \in State, st.err = "nil", NEW S, S \subseteq ToSet(Children[st.node]), NEW pos \in Int
  PROVE  /\ Result(st, S, pos) \in State
         /\ Result(st, S, pos).err = "nil" =>
              /\ Result(st, S, pos).pos = pos /\ Result(st, S, pos).expect # "field"
              /\ Result(st, S, pos).cpath # <<>>
<1>1. CASE S = {}
  <2>1. Result(st, S, pos) = Fail(st, "unknown")
    BY <1>1 DEF Result
  <2> QED BY <2>1 DEF Fail, State
<1>2. CASE S # {} /\ Cardinality(S) > 1
  <2>1. Result(st, S, pos) = Fail(st, "ambiguous")
    BY <1>2 DEF Result
  <2> QED BY <2>1 DEF Fail, State
<1>3. CASE S # {} /\ ~(Cardinality(S) > 1)
  <2>1. PICK n \in S : Result(st, S, pos) = Found(st, n, pos)
    BY <1>3 DEF Result
  <2>2. n \in DOMAIN Kind /\ n \in Word
    BY <2>1, ChildrenAreNodes DEF State
  <2>3. Expecting(n) \in {"child", "key", "value"}
    BY DEF Expecting
  <2>4. Append(st.cpath, n) \in Seq(Written) /\ Append(st.cpath, n) # <<>>
    BY <2>2, WordIsWritten, AppendWritten
  <2>5. Found(st, n, pos) \in State
    BY <2>2, <2>3, <2>4 DEF Found, State
  <2> QED BY <2>1, <2>3, <2>4, <2>5 DEF Found
<1> QED BY <1>1, <1>2, <1>3

LEMMA SameResult ==
  ASSUME NEW a \in State, NEW b \in State, Alike(a, b), NEW S, S \subseteq Word, NEW i, NEW j
  PROVE  /\ Alike(Result(a, S, i), Result(b, S, j))
         /\ a.err = "nil" => Together(a, b, Result(a, S, i), Result(b, S, j))
<1>1. CASE S = {}
  <2>1. Result(a, S, i) = Fail(a, "unknown") /\ Result(b, S, j) = Fail(b, "unknown")
    BY <1>1 DEF Result
  <2> QED BY <2>1 DEF Alike, Fail, State, Together
<1>2. CASE S # {} /\ Cardinality(S) > 1
  <2>1. Result(a, S, i) = Fail(a, "ambiguous") /\ Result(b, S, j) = Fail(b, "ambiguous")
    BY <1>2 DEF Result
  <2> QED BY <2>1 DEF Alike, Fail, State, Together
<1>3. CASE S # {} /\ ~(Cardinality(S) > 1)
  <2>1. PICK n \in Word : Result(a, S, i) = Found(a, n, i) /\ Result(b, S, j) = Found(b, n, j)
    BY <1>3 DEF Result
  <2> QED BY <2>1 DEF Alike, Found, Together
<1> QED BY <1>1, <1>2, <1>3

\* A key or a value.
Entered(st, w, next) ==
  [node |-> st.node, expect |-> next, cpath |-> Append(st.cpath, w), pos |-> st.pos,
   err |-> st.err]

\* Away from the cursor a word takes both on alike.
LEMMA SameStep ==
  ASSUME NEW a \in State, NEW b \in State, Alike(a, b), NEW w \in Word, NEW x, NEW y,
         b.err = "nil" => /\ b.expect \in {"child", "key", "value", "end"}
                          /\ a.pos # 1 /\ b.pos # 1
  PROVE  /\ Alike(expandWord(a, w, x), expandWord(b, w, y))
         /\ Together(a, b, expandWord(a, w, x), expandWord(b, w, y))
         /\ expandWord(a, w, x) \in State
         /\ expandWord(a, w, x).err = "nil" =>
              expandWord(a, w, x).pos = IF a.expect = "child" THEN a.pos - 1 ELSE a.pos
<1>1. CASE b.err # "nil"
  <2>1. a.err # "nil"
    BY <1>1 DEF Alike
  <2>2. expandWord(a, w, x) = a /\ expandWord(b, w, y) = b
    BY <1>1, <2>1, StuckInError
  <2> QED BY <2>1, <2>2 DEF Together
<1>2. CASE b.err = "nil" /\ b.expect = "child"
  <2> DEFINE S == Plain(ToSet(Children[b.node]), w)
  <2>1. /\ a.err = "nil" /\ a.expect = "child" /\ a.node = b.node
        /\ a.pos - 1 \in Int /\ a.pos - 1 # 0 /\ b.pos - 1 \in Int /\ b.pos - 1 # 0
    BY <1>2 DEF Alike, State
  <2>2. /\ expandWord(a, w, x) = processchildrenskip(a, w, {}, x, a.pos - 1)
        /\ expandWord(b, w, y) = processchildrenskip(b, w, {}, y, b.pos - 1)
    BY <1>2, <2>1 DEF expandWord
  <2>3. ToSet(Children[b.node]) \ {} = ToSet(Children[b.node])
    OBVIOUS
  <2>4. PICK i, j : i = a.pos - 1 /\ j = b.pos - 1
    OBVIOUS
  <2>5. expandWord(a, w, x) = Result(a, S, i) /\ expandWord(b, w, y) = Result(b, S, j)
    <3>1. i \in Int /\ i # 0 /\ j \in Int /\ j # 0
      BY <2>1, <2>4
    <3>2. processchildrenskip(a, w, {}, x, i) = Result(a, Plain(ToSet(Children[a.node]) \ {}, w), i)
      BY <3>1, OffCursor
    <3>3. processchildrenskip(b, w, {}, y, j) = Result(b, Plain(ToSet(Children[b.node]) \ {}, w), j)
      BY <3>1, OffCursor
    <3> QED BY <2>1, <2>2, <2>3, <2>4, <3>2, <3>3
  <2>6. S \subseteq ToSet(Children[a.node]) /\ S \subseteq Word
    <3>1. S \subseteq ToSet(Children[a.node])
      BY <2>1 DEF Plain
    <3> QED BY <3>1, ChildrenAreNodes DEF State
  <2> HIDE DEF S
  <2>7. /\ Alike(expandWord(a, w, x), expandWord(b, w, y))
        /\ Together(a, b, expandWord(a, w, x), expandWord(b, w, y))
    BY <2>1, <2>5, <2>6, SameResult
  <2>8. /\ expandWord(a, w, x) \in State
        /\ expandWord(a, w, x).err = "nil" => expandWord(a, w, x).pos = a.pos - 1
    <3>1. i \in Int
      BY <2>1, <2>4
    <3> QED BY <2>1, <2>4, <2>5, <2>6, <3>1, ResultTyped
  <2> QED BY <2>1, <2>7, <2>8
<1>3. CASE b.err = "nil" /\ b.expect = "key"
  <2>1. /\ expandWord(a, w, x) = [a EXCEPT !.cpath = Append(@, w), !.expect = "field"]
        /\ expandWord(b, w, y) = [b EXCEPT !.cpath = Append(@, w), !.expect = "field"]
    BY <1>3 DEF expandWord, Alike
  <2>2. /\ expandWord(a, w, x) = Entered(a, w, "field") /\ expandWord(b, w, y) = Entered(b, w, "field")
        /\ a.expect # "child"
    BY <1>3, <2>1 DEF Alike, State, Entered
  <2>3. Append(a.cpath, w) \in Seq(Written)
    BY WordIsWritten, AppendWritten
  <2>4. Entered(a, w, "field") \in State
    BY <2>3 DEF State, Entered
  <2> QED BY <2>2, <2>4 DEF Alike, Entered, Together
<1>4. CASE b.err = "nil" /\ b.expect = "value" /\ Kind[b.node] # "empty"
  <2>1. /\ expandWord(a, w, x) = [a EXCEPT !.cpath = Append(@, w), !.expect = "end"]
        /\ expandWord(b, w, y) = [b EXCEPT !.cpath = Append(@, w), !.expect = "end"]
    BY <1>4 DEF expandWord, Alike
  <2>2. /\ expandWord(a, w, x) = Entered(a, w, "end") /\ expandWord(b, w, y) = Entered(b, w, "end")
        /\ a.expect # "child"
    BY <1>4, <2>1 DEF Alike, State, Entered
  <2>3. Append(a.cpath, w) \in Seq(Written)
    BY WordIsWritten, AppendWritten
  <2>4. Entered(a, w, "end") \in State
    BY <2>3 DEF State, Entered
  <2> QED BY <2>2, <2>4 DEF Alike, Entered, Together
<1>5. CASE b.err = "nil" /\ (b.expect = "end" \/ (b.expect = "value" /\ Kind[b.node] = "empty"))
  <2>1. expandWord(a, w, x) = Fail(a, "unknown") /\ expandWord(b, w, y) = Fail(b, "unknown")
    BY <1>5 DEF expandWord, Alike
  <2> QED BY <1>5, <2>1 DEF Alike, Fail, State, Together
<1> QED BY <1>1, <1>2, <1>3, <1>4, <1>5


\* r went on from a to the name that s went on to from b, followed by what w has
\* after p.
JoinedTo(a, b, r, s, p, w) ==
  r.err = "nil" => \E n \in Word : /\ r.cpath = Append(a.cpath, Joined(n, p, w))
                                   /\ s.cpath = Append(b.cpath, n)

\* A word at the cursor that begins no name is taken for the text before the cursor.
LEMMA AtCursor ==
  ASSUME NEW st \in State, st.err = "nil", st.expect = "child", st.pos = 1,
         NEW w \in Word, NEW p \in PrefixesOf[w] \ {w},
         \A n \in ToSet(Children[st.node]) : ~HasPrefix(n, w)
  PROVE  LET names == ToSet(Children[st.node])
             found == {n \in names : HasPrefix(n, p)}
         IN  /\ expandWord(st, w, p) \in State
             /\ Alike(expandWord(st, w, p), Result(st, found, 0))
             /\ JoinedTo(st, st, expandWord(st, w, p), Result(st, found, 0), p, w)
             /\ expandWord(st, w, p).err = "nil" => expandWord(st, w, p).pos = 0
<1> DEFINE c == Children[st.node]
           names == ToSet(c)
           found == {n \in names : HasPrefix(n, p)}
           mid == PrefixMatch(c, {}, w, p, 0)
<1>1. st.pos - 1 = 0 /\ st.node \in DOMAIN Kind
  BY DEF State
<1>2. /\ names \subseteq Word /\ names \subseteq DOMAIN Kind
      /\ w \notin names /\ names \ {} = names
  <2>1. names \subseteq Word /\ names \subseteq DOMAIN Kind
    BY <1>1, ChildrenAreNodes
  <2>2. HasPrefix(w, w)
    BY PathAssumption DEF HasPrefix
  <2> QED BY <2>1, <2>2
<1>3. Matches(names, w, p, 0) = found
  <2>1. \A n \in names : ~HasPrefix(n, w)
    OBVIOUS
  <2> HIDE DEF names
  <2> QED BY <1>2, <2>1 DEF Matches
<1>4. expandWord(st, w, p) = Descend(st, w, p, 0, found, mid)
  <2>1. expandWord(st, w, p) = processchildrenskip(st, w, {}, p, 0)
    BY <1>1 DEF expandWord
  <2>2. processchildrenskip(st, w, {}, p, 0) = Descend(st, w, p, 0, Matches(names \ {}, w, p, 0), mid)
    BY DEF processchildrenskip
  <2> QED BY <1>2, <1>3, <2>1, <2>2
<1>5. ~(Length[p] >= Length[w]) /\ p \in Word
  <2>1. p \in Word
    BY PathAssumption
  <2>2. Length[p] < Length[w] /\ Length[p] \in Nat /\ Length[w] \in Nat
    BY <2>1, PathAssumption
  <2> QED BY <2>1, <2>2
<1>9. found # {} => mid
  <2> SUFFICES ASSUME NEW n \in found PROVE mid
    OBVIOUS
  <2>1. PICK k \in DOMAIN c : c[k] = n
    BY DEF ToSet
  <2>2. ~HasPrefix(c[k], w) /\ HasPrefix(c[k], p)
    BY <2>1
  <2>3. \A j \in 1..k : c[j] # w
    <3>1. DOMAIN c = 1..Len(c) /\ Len(c) \in Nat
      BY <1>1, PathAssumption, SMTT(30)
    <3>2. \A j \in 1..k : j \in DOMAIN c
      BY <2>1, <3>1
    <3>3. \A j \in DOMAIN c : c[j] \in names
      BY DEF ToSet
    <3> QED BY <1>2, <3>2, <3>3
  <2> HIDE DEF c
  <2> QED BY <2>1, <2>2, <2>3 DEF PrefixMatch
<1> HIDE DEF found, mid
<1>6. CASE found = {}
  <2>1. expandWord(st, w, p) = Fail(st, "unknown")
    <3>1. Cardinality({}) = 0 /\ ~(Cardinality({}) > 1) /\ ~(Cardinality({}) = 1)
      BY FS_EmptySet
    <3> QED BY <1>4, <1>6, <3>1 DEF Descend
  <2>2. Result(st, found, 0) = Fail(st, "unknown")
    BY <1>6 DEF Result
  <2> QED BY <2>1, <2>2 DEF Fail, State, Alike, JoinedTo, found
<1>7. CASE found # {} /\ Cardinality(found) > 1
  <2>1. expandWord(st, w, p) = Fail(st, "ambiguous")
    BY <1>4, <1>7 DEF Descend
  <2>2. Result(st, found, 0) = Fail(st, "ambiguous")
    BY <1>7 DEF Result
  <2> QED BY <2>1, <2>2 DEF Fail, State, Alike, JoinedTo, found
<1>8. CASE found # {} /\ ~(Cardinality(found) > 1)
  <2>1. PICK n : n = CHOOSE m \in found : TRUE
    OBVIOUS
  <2>2. n \in found /\ n \in DOMAIN Kind /\ n \in Word
    BY <1>2, <1>8, <2>1 DEF found
  <2>3. expandWord(st, w, p)
          = [st EXCEPT !.node = n, !.expect = Expecting(n), !.cpath = Append(@, Joined(n, p, w)),
                       !.pos = 0]
    BY <1>4, <1>5, <1>8, <1>9, <2>1 DEF Descend
  <2>4. expandWord(st, w, p) = [node |-> n, expect |-> Expecting(n),
                                cpath |-> Append(st.cpath, Joined(n, p, w)),
                                pos |-> 0, err |-> "nil"]
    BY <2>3 DEF State
  <2>5. Expecting(n) \in {"child", "key", "value"}
    BY DEF Expecting
  <2>6. Append(st.cpath, Joined(n, p, w)) \in Seq(Written)
    BY <1>5, <2>2, WordIsWritten, AppendWritten
  <2>7. expandWord(st, w, p) \in State
    <3>1. Expecting(n) \in {"child", "key", "field", "value", "end"}
      BY <2>5
    <3> QED BY <2>2, <2>4, <2>6, <3>1 DEF State
  <2>8. Result(st, found, 0) = Found(st, n, 0)
    BY <1>8, <2>1 DEF Result
  <2>9. Alike(expandWord(st, w, p), Result(st, found, 0))
    BY <2>4, <2>8 DEF Alike, Found
  <2>11. JoinedTo(st, st, expandWord(st, w, p), Result(st, found, 0), p, w)
    BY <2>2, <2>4, <2>8 DEF JoinedTo, Found
  <2>10. expandWord(st, w, p).pos = 0
    BY <2>4
  <2> QED BY <2>7, <2>9, <2>10, <2>11 DEF found
<1> QED BY <1>6, <1>7, <1>8

\* And the word cut there is expanded alike, but for a name that begins others.
LEMMA AtCut ==
  ASSUME NEW a \in State, NEW b, Sound(b), Alike(a, b), b.err = "nil", b.expect = "child", a.pos = 1,
         NEW w \in Word, NEW p \in PrefixesOf[w] \ {w}, NEW x,
         \A n \in ToSet(Children[b.node]) : ~HasPrefix(n, w)
  PROVE  /\ expandWord(a, w, p) \in State
         /\ expandWord(a, w, p).err = "nil" => expandWord(a, w, p).pos = 0
         /\ \/ /\ Alike(expandWord(a, w, p), expandWord(b, p, x))
               /\ JoinedTo(a, b, expandWord(a, w, p), expandWord(b, p, x), p, w)
            \/ p \in ToSet(Children[b.node]) /\ expandWord(a, w, p).err = "ambiguous"
<1> DEFINE names == ToSet(Children[b.node])
           found == {n \in names : HasPrefix(n, p)}
<1>1. b \in State /\ a.node = b.node /\ a.err = "nil" /\ a.expect = "child" /\ p \in Word
  <2>1. p \in Word
    BY PathAssumption
  <2> QED BY <2>1 DEF Sound, Alike
<1>2. /\ expandWord(a, w, p) \in State
      /\ Alike(expandWord(a, w, p), Result(a, found, 0))
      /\ JoinedTo(a, a, expandWord(a, w, p), Result(a, found, 0), p, w)
      /\ expandWord(a, w, p).err = "nil" => expandWord(a, w, p).pos = 0
  BY <1>1, AtCursor
<1>3. PICK j \in Int : j # 0 /\ expandWord(b, p, x) = Result(b, Plain(names, p), j)
  <2>1. PICK j \in Int : j = b.pos - 1 /\ j # 0
    BY <1>1 DEF Sound, State
  <2>2. expandWord(b, p, x) = processchildrenskip(b, p, {}, x, j)
    BY <1>1, <2>1 DEF expandWord
  <2>3. processchildrenskip(b, p, {}, x, j) = Result(b, Plain(names \ {}, p), j)
    <3>1. b \in State /\ j # 0
      BY <1>1, <2>1
    <3> QED BY <3>1, OffCursor
  <2>4. names \ {} = names
    OBVIOUS
  <2> QED BY <2>1, <2>2, <2>3, <2>4
<1>4. CASE Plain(names, p) = found
  <2>1. /\ Alike(Result(a, found, 0), Result(b, found, j))
        /\ Together(a, b, Result(a, found, 0), Result(b, found, j))
    <3>1. found \subseteq Word
      BY <1>1, ChildrenAreNodes DEF State
    <3> HIDE DEF found
    <3> QED BY <1>1, <3>1, SameResult
  <2> DEFINE r == expandWord(a, w, p)
             m == Result(a, found, 0)
             e == Result(b, found, j)
  <2>2. Alike(r, m) /\ JoinedTo(a, a, r, m, p, w) /\ Alike(m, e) /\ Together(a, b, m, e)
    BY <1>2, <2>1
  <2>3. a.cpath \in Seq(Written) /\ \A n \in Word : n \in Written
    BY WordIsWritten DEF State
  <2>4. e = expandWord(b, p, x)
    BY <1>3, <1>4
  <2> HIDE DEF r, m, e
  <2>5. ASSUME r.err = "nil"
        PROVE  \E n \in Word : r.cpath = Append(a.cpath, Joined(n, p, w)) /\ e.cpath = Append(b.cpath, n)
    <3>1. PICK n \in Word : r.cpath = Append(a.cpath, Joined(n, p, w)) /\ m.cpath = Append(a.cpath, n)
      BY <2>2, <2>5 DEF JoinedTo
    <3>2. PICK v \in Word : m.cpath = Append(a.cpath, v) /\ e.cpath = Append(b.cpath, v)
      BY <2>2, <2>5 DEF Together, Alike
    <3>3. n = Last(Append(a.cpath, n)) /\ v = Last(Append(a.cpath, v))
      BY <2>3, FrontOfAppend
    <3> QED BY <3>1, <3>2, <3>3
  <2>6. Alike(r, e) /\ JoinedTo(a, b, r, e, p, w)
    BY <2>2, <2>5 DEF Alike, JoinedTo
  <2> QED BY <1>2, <2>4, <2>6 DEF r
<1>5. CASE Plain(names, p) # found
  <2>1. p \in names
    BY <1>5 DEF Plain
  <2>2. HasPrefix(p, p)
    BY <1>1, PathAssumption DEF HasPrefix
  <2>3. PICK n \in found : n # p
    BY <1>5, <2>1, <2>2 DEF Plain
  <2>4. IsFiniteSet(found)
    <3>1. b.node \in DOMAIN Kind
      BY <1>1 DEF State
    <3>2. IsFiniteSet(names)
      BY <3>1, ChildrenFinite
    <3> QED BY <3>2, FS_Subset
  <2>5. {n, p} \subseteq found
    BY <2>1, <2>2, <2>3
  <2> HIDE DEF found
  <2>6. Cardinality(found) > 1
    BY <2>3, <2>4, <2>5, TwoOfMany
  <2>7. Result(a, found, 0) = Fail(a, "ambiguous")
    BY <2>3, <2>6 DEF Result
  <2>8. expandWord(a, w, p).err = "ambiguous"
    BY <1>1, <1>2, <2>7 DEF Alike, Fail, State
  <2> QED BY <1>2, <2>1, <2>8
<1> QED BY <1>4, <1>5

\* The k-th word of a path, from where the words before it lead.
LEMMA ExpandAt ==
  ASSUME NEW q \in Seq(Word), NEW k \in Nat, k < Len(q), NEW prefix, NEW pos
  PROVE  expandPath(SubSeq(q, 1, k + 1), prefix, pos)
           = expandWord(expandPath(SubSeq(q, 1, k), prefix, pos), q[k + 1], prefix)
<1>1. PICK m \in 0..Len(q) : m = k + 1
  OBVIOUS
<1>2. m > 0 /\ m - 1 = k
  BY <1>1
<1>3. /\ SubSeq(q, 1, m) \in Seq(Word)
      /\ m > 0 => /\ SubSeq(q, 1, m) # <<>> /\ Last(SubSeq(q, 1, m)) = q[m]
                  /\ Front(SubSeq(q, 1, m)) = SubSeq(q, 1, m - 1)
  BY FirstWords, ZenonT(60)
<1>4. expandPath(SubSeq(q, 1, m), prefix, pos)
        = expandWord(expandPath(SubSeq(q, 1, m - 1), prefix, pos), q[m], prefix)
  BY <1>2, <1>3, ExpandStep
<1> QED BY <1>1, <1>2, <1>4

\* Only a container's child or a list's field leads to a container.
LEMMA BackToContainer ==
  ASSUME NEW st \in State, NEW w, NEW prefix, st.expect # "field",
         expandWord(st, w, prefix).err = "nil", expandWord(st, w, prefix).expect = "child"
  PROVE  st.err = "nil" /\ st.expect = "child"
<1>1. st.err = "nil"
  BY StuckInError
<1>2. CASE st.expect = "key"
  <2>1. expandWord(st, w, prefix) = [st EXCEPT !.cpath = Append(@, w), !.expect = "field"]
    BY <1>1, <1>2 DEF expandWord
  <2> QED BY <2>1 DEF State
<1>3. CASE st.expect = "value" /\ Kind[st.node] # "empty"
  <2>1. expandWord(st, w, prefix) = [st EXCEPT !.cpath = Append(@, w), !.expect = "end"]
    BY <1>1, <1>3 DEF expandWord
  <2> QED BY <2>1 DEF State
<1>4. CASE st.expect = "end" \/ (st.expect = "value" /\ Kind[st.node] = "empty")
  <2>1. expandWord(st, w, prefix) = Fail(st, "unknown")
    BY <1>1, <1>4 DEF expandWord
  <2> QED BY <2>1 DEF Fail, State
<1> QED BY <1>1, <1>2, <1>3, <1>4 DEF State

\* The path with the word at the cursor cut there, after k of its words; the same
\* words of the whole path, with the text before the cursor.
Cut(until, k) == Expand(SubSeq(until, 1, k))
Mid(path, p, i, k) == expandPath(SubSeq(path, 1, k), p, i)

LEMMA CutStep ==
  ASSUME NEW q \in Seq(Word), NEW k \in Nat, k < Len(q)
  PROVE  Cut(q, k + 1) = expandWord(Cut(q, k), q[k + 1], NoPrefix)
<1>1. \A r : Expand(r) = expandPath(r, NoPrefix, 0)
  BY DEF Expand, ExpandWithPrefix, NoPrefix
<1> QED BY <1>1, ExpandAt DEF Cut

LEMMA CutSound ==
  ASSUME NEW q \in Seq(Word), NEW k \in 0..Len(q)
  PROVE  Sound(Cut(q, k))
<1>1. SubSeq(q, 1, k) \in Seq(Word)
  BY FirstWords
<1> QED BY <1>1, ExpandSound DEF Cut

\* On the way to a container that is below no list there are containers only.
LEMMA ContainersBefore ==
  ASSUME NEW q \in Seq(Word), NEW n \in 0..Len(q),
         Cut(q, n).err = "nil", Cut(q, n).expect = "child",
         \A k \in 0..n : Cut(q, k).expect # "field"
  PROVE  \A k \in 0..n : Cut(q, k).err = "nil" /\ Cut(q, k).expect = "child"
<1> DEFINE Bad == {k \in 0..n : ~(Cut(q, k).err = "nil" /\ Cut(q, k).expect = "child")}
<1> SUFFICES ASSUME Bad # {} PROVE FALSE
  OBVIOUS
<1>1. Bad \subseteq 0..n /\ n \in Nat /\ Len(q) \in Nat
  OBVIOUS
<1> HIDE DEF Bad
<1>2. PICK k \in Bad : \A m \in Bad : m <= k
  BY <1>1, LargestNumber
<1>3. k \in 0..n /\ k # n
  BY <1>1, <1>2 DEF Bad
<1>4. k \in Nat /\ k < Len(q) /\ k + 1 \in 0..n /\ k + 1 \notin Bad /\ k \in 0..Len(q)
  BY <1>1, <1>2, <1>3
<1>5. Cut(q, k + 1).err = "nil" /\ Cut(q, k + 1).expect = "child"
  BY <1>4 DEF Bad
<1>6. Cut(q, k) \in State
  BY <1>4, CutSound DEF Sound
<1>7. Cut(q, k + 1) = expandWord(Cut(q, k), q[k + 1], NoPrefix)
  BY <1>4, CutStep
<1>8. Cut(q, k).err = "nil" /\ Cut(q, k).expect = "child"
  BY <1>3, <1>5, <1>6, <1>7, BackToContainer
<1> QED BY <1>2, <1>3, <1>8 DEF Bad

\* The paths differ in the i-th word alone.
CutAt(path, until, i) ==
  until \in Seq(Word) /\ Len(until) = Len(path) /\ \A k \in 1..Len(path) : k # i => until[k] = path[k]

ContainersUntil(q, n) == \A k \in 0..n : Cut(q, k).err = "nil" /\ Cut(q, k).expect = "child"
PassesNoList(q) == \A k \in 0..Len(q) : Cut(q, k).expect # "field"
BeginsNoName(node, w) == \A n \in ToSet(Children[node]) : ~HasPrefix(n, w)

\* Before the cursor both walk through the same containers.
LEMMA MidBefore ==
  ASSUME NEW path \in Seq(Word), NEW until, NEW p, NEW i \in 1..Len(path),
         CutAt(path, until, i), NEW n, n = i - 1, ContainersUntil(until, n)
  PROVE  /\ Mid(path, p, i, n) \in State /\ Alike(Mid(path, p, i, n), Cut(until, n))
         /\ Mid(path, p, i, n).cpath = Cut(until, n).cpath /\ Mid(path, p, i, n).pos = 1
<1> DEFINE Good(k) == /\ Mid(path, p, i, k) \in State
                      /\ Alike(Mid(path, p, i, k), Cut(until, k))
                      /\ Mid(path, p, i, k).cpath = Cut(until, k).cpath
                      /\ Mid(path, p, i, k).pos = i - k
           Bad == {k \in 0..n : ~Good(k)}
<1>0. n \in 0..n /\ i - n = 1
  OBVIOUS
<1> SUFFICES ASSUME Bad # {} PROVE FALSE
  BY <1>0
<1>1. /\ Bad \subseteq Nat /\ i \in Nat /\ i > 0 /\ Len(path) \in Nat /\ i <= Len(path)
      /\ n \in Nat /\ n < i
  OBVIOUS
<1> USE DEF CutAt, ContainersUntil
<1>2. PICK k \in Bad : \A m \in Bad : k <= m
  BY <1>1, LeastNumber
<1>3. CASE k = 0
  <2>1. SubSeq(path, 1, 0) = <<>> /\ SubSeq(until, 1, 0) = <<>>
    OBVIOUS
  <2>2. Mid(path, p, i, 0) = Start(i)
    BY <2>1, ExpandOfNothing DEF Mid
  <2>3. Cut(until, 0) = Start(0)
    BY <2>1, ExpandNothing DEF Cut
  <2>4. Start(i) \in State
    BY <1>1, PathAssumption DEF Start, State
  <2>5. Alike(Start(i), Start(0)) /\ Start(i).pos = i - 0 /\ Start(i).cpath = Start(0).cpath
    BY <1>1 DEF Start, Alike
  <2> QED BY <1>2, <1>3, <2>2, <2>3, <2>4, <2>5
<1>4. CASE k # 0
  <2>1. PICK m \in 0..n : m + 1 = k /\ m \in Nat /\ m < Len(path) /\ i - m # 1 /\ i - m - 1 = i - k
    <3>1. k \in 0..n
      OBVIOUS
    <3> HIDE DEF Bad
    <3>2. k - 1 \in 0..n /\ (k - 1) + 1 = k /\ k - 1 \in Nat
      BY <1>1, <1>4, <3>1
    <3>3. k - 1 < Len(path) /\ i - (k - 1) # 1 /\ i - (k - 1) - 1 = i - k
      BY <1>1, <3>1, <3>2
    <3> QED BY <3>2, <3>3
  <2>2. Good(m)
    BY <1>1, <1>2, <2>1
  <2> DEFINE a == Mid(path, p, i, m)
             b == Cut(until, m)
  <2>3. a \in State /\ Alike(a, b) /\ a.pos = i - m /\ a.cpath = b.cpath
    BY <2>2
  <2>4. Sound(b) /\ b.err = "nil" /\ b.expect = "child"
    BY <1>1, <2>1, CutSound
  <2>5. path[k] \in Word /\ until[k] = path[k]
    BY <1>1, <1>2, <1>4
  <2>6. Mid(path, p, i, k) = expandWord(a, path[k], p)
    BY <2>1, ExpandAt DEF Mid
  <2>7. Cut(until, k) = expandWord(b, path[k], NoPrefix)
    BY <2>1, <2>5, CutStep
  <2> HIDE DEF a, b
  <2>8. b \in State /\ b.pos # 1 /\ a.expect = "child" /\ a.err = "nil"
    BY <2>3, <2>4 DEF Sound, Alike, State
  <2>9. /\ Alike(expandWord(a, path[k], p), expandWord(b, path[k], NoPrefix))
        /\ Together(a, b, expandWord(a, path[k], p), expandWord(b, path[k], NoPrefix))
        /\ expandWord(a, path[k], p) \in State
        /\ expandWord(a, path[k], p).err = "nil" => expandWord(a, path[k], p).pos = a.pos - 1
    BY <2>1, <2>3, <2>4, <2>5, <2>8, SameStep, ZenonT(60)
  <2>10. Cut(until, k).err = "nil"
    BY <1>1, <1>2
  <2>11. Mid(path, p, i, k).pos = i - k
    BY <2>1, <2>3, <2>6, <2>7, <2>9, <2>10 DEF Alike
  <2>12. Mid(path, p, i, k).cpath = Cut(until, k).cpath
    BY <2>3, <2>6, <2>7, <2>9, <2>10 DEF Alike, Together
  <2> QED BY <1>2, <2>6, <2>7, <2>9, <2>11, <2>12
<1> QED BY <1>3, <1>4

\* What is written for the i-th word of q, cut to p: the name found and the rest of w.
WordJoined(q, i, p, w) == [q EXCEPT ![i] = Joined(@, p, w)]

LEMMA JoinedThenAppended ==
  ASSUME NEW q \in Seq(Word), NEW v \in Word, NEW p \in Word, NEW w \in Word
  PROVE  /\ \A i \in 1..Len(q) :
              Append(WordJoined(q, i, p, w), v) = WordJoined(Append(q, v), i, p, w)
         /\ Append(q, Joined(v, p, w)) = WordJoined(Append(q, v), Len(q) + 1, p, w)
<1>1. /\ q \in [1..Len(q) -> Written] /\ Len(q) \in Nat /\ v \in Written
      /\ Append(q, v) \in Seq(Written) /\ Len(Append(q, v)) = Len(q) + 1
      /\ Append(q, v) \in [1..(Len(q) + 1) -> Written]
      /\ \A k \in 1..(Len(q) + 1) : Append(q, v)[k] = IF k = Len(q) + 1 THEN v ELSE q[k]
  <2>1. q \in Seq(Written) /\ v \in Written
    BY WordsAreWritten, WordIsWritten
  <2>2. q \in [1..Len(q) -> Written] /\ Len(q) \in Nat
    BY <2>1
  <2>3. Append(q, v) \in Seq(Written) /\ Len(Append(q, v)) = Len(q) + 1
    BY <2>1
  <2>4. Append(q, v) \in [1..(Len(q) + 1) -> Written]
    <3>1. \A s \in Seq(Written) : s \in [1..Len(s) -> Written]
      OBVIOUS
    <3> QED BY <2>3, <3>1
  <2>5. \A k \in 1..(Len(q) + 1) : Append(q, v)[k] = IF k = Len(q) + 1 THEN v ELSE q[k]
    BY <2>1, <2>2
  <2> QED BY <2>1, <2>2, <2>3, <2>4, <2>5
<1>2. \A n \in Word : Joined(n, p, w) \in Written
  BY WordIsWritten
<1>3. ASSUME NEW i \in 1..Len(q)
      PROVE  Append(WordJoined(q, i, p, w), v) = WordJoined(Append(q, v), i, p, w)
  <2> DEFINE e == WordJoined(q, i, p, w)
             f == WordJoined(Append(q, v), i, p, w)
             j == Joined(q[i], p, w)
  <2>1. q[i] \in Word /\ Append(q, v)[i] = q[i] /\ j \in Written
    BY <1>1, <1>2
  <2>2. /\ e = [q EXCEPT ![i] = j] /\ f = [Append(q, v) EXCEPT ![i] = j]
    BY <2>1 DEF WordJoined
  <2> HIDE DEF j, e, f
  <2>3. e \in [1..Len(q) -> Written] /\ \A k \in 1..Len(q) : e[k] = IF k = i THEN j ELSE q[k]
    BY <1>1, <2>1, <2>2
  <2>4. /\ f \in [1..(Len(q) + 1) -> Written]
        /\ \A k \in 1..(Len(q) + 1) : f[k] = IF k = i THEN j ELSE Append(q, v)[k]
    BY <1>1, <2>1, <2>2
  <2>5. e \in Seq(Written) /\ Len(e) = Len(q) /\ f \in Seq(Written) /\ Len(f) = Len(q) + 1
    BY <1>1, <2>3, <2>4
  <2>6. /\ Append(e, v) \in Seq(Written) /\ Len(Append(e, v)) = Len(q) + 1
        /\ \A k \in 1..(Len(q) + 1) : Append(e, v)[k] = IF k = Len(q) + 1 THEN v ELSE e[k]
    BY <1>1, <2>5
  <2>7. \A k \in 1..(Len(q) + 1) : Append(e, v)[k] = f[k]
    BY <1>1, <2>3, <2>4, <2>6
  <2>8. Append(e, v) = f
    BY <2>5, <2>6, <2>7
  <2> QED BY <2>8 DEF e, f
<1>4. Append(q, Joined(v, p, w)) = WordJoined(Append(q, v), Len(q) + 1, p, w)
  <2> DEFINE j == Joined(v, p, w)
             f == WordJoined(Append(q, v), Len(q) + 1, p, w)
  <2>1. j \in Written /\ f = [Append(q, v) EXCEPT ![Len(q) + 1] = j]
    <3>1. Append(q, v)[Len(q) + 1] = v
      BY <1>1
    <3> QED BY <1>2, <3>1 DEF WordJoined
  <2> HIDE DEF j, f
  <2>2. /\ f \in [1..(Len(q) + 1) -> Written]
        /\ \A k \in 1..(Len(q) + 1) : f[k] = IF k = Len(q) + 1 THEN j ELSE q[k]
    BY <1>1, <2>1
  <2>3. f \in Seq(Written) /\ Len(f) = Len(q) + 1 /\ q \in Seq(Written)
    BY <1>1, <2>2
  <2>4. /\ Append(q, j) \in Seq(Written) /\ Len(Append(q, j)) = Len(q) + 1
        /\ \A k \in 1..(Len(q) + 1) : Append(q, j)[k] = IF k = Len(q) + 1 THEN j ELSE q[k]
    BY <1>1, <2>1, <2>3
  <2>5. Append(q, j) = f
    BY <2>2, <2>3, <2>4
  <2> QED BY <2>5 DEF j, f
<1> QED BY <1>3, <1>4

\* And after it, if they leave it together.
LEMMA MidAfter ==
  ASSUME NEW path \in Seq(Word), NEW until, NEW p \in Word, NEW i \in 1..Len(path),
         CutAt(path, until, i), PassesNoList(until),
         Mid(path, p, i, i) \in State, Alike(Mid(path, p, i, i), Cut(until, i)),
         Mid(path, p, i, i).err = "nil" =>
           /\ Mid(path, p, i, i).pos = 0
           /\ Mid(path, p, i, i).cpath = WordJoined(Cut(until, i).cpath, i, p, path[i])
  PROVE  /\ Alike(Mid(path, p, i, Len(path)), Cut(until, Len(path)))
         /\ Mid(path, p, i, Len(path)).err = "nil" =>
              Mid(path, p, i, Len(path)).cpath = WordJoined(Cut(until, Len(path)).cpath, i, p, path[i])
<1> DEFINE Good(k) == /\ Mid(path, p, i, k) \in State
                      /\ Alike(Mid(path, p, i, k), Cut(until, k))
                      /\ Mid(path, p, i, k).err = "nil" =>
                           /\ Mid(path, p, i, k).pos <= 0
                           /\ Mid(path, p, i, k).cpath = WordJoined(Cut(until, k).cpath, i, p, path[i])
           Bad == {k \in i..Len(path) : ~Good(k)}
<1>0. Len(path) \in i..Len(path)
  OBVIOUS
<1> SUFFICES ASSUME Bad # {} PROVE FALSE
  BY <1>0
<1> USE DEF CutAt, PassesNoList
<1>1. Bad \subseteq Nat /\ i \in Nat /\ i > 0 /\ Len(path) \in Nat /\ i <= Len(path)
  OBVIOUS
<1>2. PICK k \in Bad : \A m \in Bad : k <= m
  BY <1>1, LeastNumber
<1>3. k # i
  BY <1>2
<1>4. PICK m \in i..Len(path) : m + 1 = k /\ m \in Nat /\ m < Len(path) /\ m \in 0..Len(until)
  <2>1. k - 1 \in i..Len(path) /\ (k - 1) + 1 = k /\ k - 1 \in Nat
    BY <1>1, <1>2, <1>3
  <2> QED BY <1>1, <1>2, <2>1
<1>5. Good(m)
  BY <1>1, <1>2, <1>4
<1> DEFINE a == Mid(path, p, i, m)
           b == Cut(until, m)
<1>6. /\ a \in State /\ Alike(a, b)
      /\ a.err = "nil" => a.pos <= 0 /\ a.cpath = WordJoined(b.cpath, i, p, path[i])
  BY <1>5
<1>7. Sound(b) /\ b.expect # "field"
  BY <1>4, CutSound
<1>14. b.err = "nil" => b.cpath \in Seq(Word) /\ i \in 1..Len(b.cpath)
  <2>1. SubSeq(until, 1, m) \in Seq(Word) /\ Len(SubSeq(until, 1, m)) = m
    BY <1>4, FirstWords
  <2>2. b.err = "nil" => b.cpath \in Seq(Word) /\ Len(b.cpath) = m
    BY <2>1, ExpandLeads DEF Expands, Cut
  <2> HIDE DEF b
  <2> QED BY <1>1, <1>4, <2>2
<1>8. path[k] \in Word /\ until[k] = path[k]
  BY <1>1, <1>2, <1>3
<1>9. Mid(path, p, i, k) = expandWord(a, path[k], p)
  BY <1>4, ExpandAt DEF Mid
<1>10. Cut(until, k) = expandWord(b, path[k], NoPrefix)
  BY <1>4, <1>8, CutStep
<1> HIDE DEF a, b
<1>11. /\ b \in State /\ a.err = b.err /\ b.expect \in {"child", "key", "value", "end"}
       /\ b.pos # 1 /\ (b.err = "nil" => a.pos # 1)
  BY <1>6, <1>7, SMTT(30) DEF Sound, Alike, State
<1>12. /\ Alike(expandWord(a, path[k], p), expandWord(b, path[k], NoPrefix))
       /\ Together(a, b, expandWord(a, path[k], p), expandWord(b, path[k], NoPrefix))
       /\ expandWord(a, path[k], p) \in State
       /\ expandWord(a, path[k], p).err = "nil" =>
            expandWord(a, path[k], p).pos = IF a.expect = "child" THEN a.pos - 1 ELSE a.pos
  BY <1>6, <1>8, <1>11, SameStep, SMTT(60)
<1>13. expandWord(a, path[k], p).err = "nil" => expandWord(a, path[k], p).pos <= 0
  <2>1. expandWord(a, path[k], p).err = "nil" => a.err = "nil"
    BY StuckInError
  <2>2. a.pos \in Int
    BY <1>6 DEF State
  <2> QED BY <1>6, <1>12, <2>1, <2>2
<1>15. expandWord(a, path[k], p).err = "nil" =>
         expandWord(a, path[k], p).cpath = WordJoined(expandWord(b, path[k], NoPrefix).cpath, i, p, path[i])
  <2> SUFFICES ASSUME expandWord(a, path[k], p).err = "nil"
               PROVE  expandWord(a, path[k], p).cpath
                        = WordJoined(expandWord(b, path[k], NoPrefix).cpath, i, p, path[i])
    OBVIOUS
  <2>1. PICK v \in Word : /\ expandWord(a, path[k], p).cpath = Append(a.cpath, v)
                          /\ expandWord(b, path[k], NoPrefix).cpath = Append(b.cpath, v)
    BY <1>12 DEF Together
  <2>2. a.err = "nil" /\ b.err = "nil" /\ path[i] \in Word
    BY <1>11, StuckInError
  <2>3. Append(WordJoined(b.cpath, i, p, path[i]), v) = WordJoined(Append(b.cpath, v), i, p, path[i])
    BY <1>14, <2>2, JoinedThenAppended, ZenonT(60)
  <2> QED BY <1>6, <2>1, <2>2, <2>3
<1> QED BY <1>2, <1>9, <1>10, <1>12, <1>13, <1>15

\* An error that the word at the cursor makes, stays.
LEMMA MidStuck ==
  ASSUME NEW path \in Seq(Word), NEW p, NEW i \in 1..Len(path), Mid(path, p, i, i).err # "nil"
  PROVE  \A k \in i..Len(path) : Mid(path, p, i, k) = Mid(path, p, i, i)
<1> DEFINE Bad == {k \in i..Len(path) : Mid(path, p, i, k) # Mid(path, p, i, i)}
<1> SUFFICES ASSUME Bad # {} PROVE FALSE
  OBVIOUS
<1>1. Bad \subseteq Nat /\ i \in Nat /\ Len(path) \in Nat
  OBVIOUS
<1>2. PICK k \in Bad : \A m \in Bad : k <= m
  BY <1>1, LeastNumber
<1>3. PICK m \in i..Len(path) : m + 1 = k /\ m \in Nat /\ m < Len(path) /\ m \notin Bad
  <2>1. k # i
    BY <1>2
  <2>2. k - 1 \in i..Len(path) /\ (k - 1) + 1 = k /\ k - 1 \in Nat /\ k - 1 < k
    BY <1>1, <1>2, <2>1
  <2> QED BY <1>1, <1>2, <2>2
<1>4. Mid(path, p, i, m) = Mid(path, p, i, i)
  BY <1>3
<1>5. Mid(path, p, i, k) = expandWord(Mid(path, p, i, m), path[k], p)
  BY <1>3, ExpandAt DEF Mid
<1> QED BY <1>2, <1>4, <1>5, StuckInError

LEMMA WordReplaced ==
  ASSUME NEW path \in Seq(Word), NEW i \in 1..Len(path), NEW p \in Word
  PROVE  /\ CutAt(path, [path EXCEPT ![i] = p], i) /\ [path EXCEPT ![i] = p][i] = p
         /\ Cut([path EXCEPT ![i] = p], i - 1) = Expand(SubSeq(path, 1, i - 1))
<1> DEFINE until == [path EXCEPT ![i] = p]
<1>1. path \in [1..Len(path) -> Word] /\ Len(path) \in Nat
  OBVIOUS
<1>2. until \in [1..Len(path) -> Word] /\ \A k \in 1..Len(path) : until[k] = IF k = i THEN p ELSE path[k]
  BY <1>1
<1> HIDE DEF until
<1>3. until \in Seq(Word) /\ Len(until) = Len(path)
  BY <1>1, <1>2
<1>4. CutAt(path, until, i) /\ until[i] = p
  BY <1>2, <1>3 DEF CutAt
<1>5. PICK n \in 0..Len(path) : n = i - 1
  BY <1>1
<1>6. /\ SubSeq(path, 1, n) \in Seq(Word) /\ Len(SubSeq(path, 1, n)) = n
      /\ \A k \in 1..n : SubSeq(path, 1, n)[k] = path[k]
  BY FirstWords
<1>7. /\ SubSeq(until, 1, n) \in Seq(Word) /\ Len(SubSeq(until, 1, n)) = n
      /\ \A k \in 1..n : SubSeq(until, 1, n)[k] = until[k]
  BY <1>3, FirstWords
<1>8. \A k \in 1..n : until[k] = path[k]
  BY <1>1, <1>2, <1>5
<1>9. PICK s, t : s = SubSeq(path, 1, n) /\ t = SubSeq(until, 1, n)
  OBVIOUS
<1>10. s = t
  <2>1. s \in Seq(Word) /\ t \in Seq(Word) /\ Len(s) = n /\ Len(t) = n /\ \A k \in 1..n : s[k] = t[k]
    BY <1>6, <1>7, <1>8, <1>9
  <2> QED BY <2>1
<1>11. Cut(until, i - 1) = Expand(SubSeq(path, 1, i - 1))
  BY <1>5, <1>9, <1>10 DEF Cut
<1> QED BY <1>4, <1>11 DEF until

LEMMA MidIsCut ==
  ASSUME NEW path \in Seq(Word), NEW i \in 1..Len(path), NEW p \in PrefixesOf[path[i]] \ {path[i]},
         NEW until, CutAt(path, until, i), until[i] = p, PassesNoList(until), NEW n, n = i - 1,
         Cut(until, n).err = "nil", Cut(until, n).expect = "child",
         BeginsNoName(Cut(until, n).node, path[i])
  PROVE  \/ /\ Alike(Mid(path, p, i, Len(path)), Cut(until, Len(path)))
            /\ Mid(path, p, i, Len(path)).err = "nil" =>
                 Mid(path, p, i, Len(path)).cpath = WordJoined(Cut(until, Len(path)).cpath, i, p, path[i])
         \/ p \in ToSet(Children[Cut(until, n).node]) /\ Mid(path, p, i, Len(path)).err = "ambiguous"
<1>1. /\ i \in Nat /\ i > 0 /\ i <= Len(path) /\ Len(path) \in Nat
      /\ path[i] \in Word /\ p \in Word
      /\ until \in Seq(Word) /\ Len(until) = Len(path)
  <2>1. path[i] \in Word
    OBVIOUS
  <2>2. p \in Word
    BY <2>1, PathAssumption
  <2> QED BY <2>1, <2>2 DEF CutAt
<1>2. /\ n \in 0..Len(until) /\ n + 1 = i /\ n \in Nat /\ n < Len(path) /\ n < Len(until)
      /\ \A k \in 0..n : k \in 0..Len(until)
  BY <1>1
<1>3. ContainersUntil(until, n)
  <2>1. \A k \in 0..n : Cut(until, k).expect # "field"
    BY <1>2 DEF PassesNoList
  <2> QED BY <1>1, <1>2, <2>1, ContainersBefore DEF ContainersUntil
<1> DEFINE a == Mid(path, p, i, n)
           b == Cut(until, n)
<1>4. a \in State /\ Alike(a, b) /\ a.cpath = b.cpath /\ a.pos = 1
  BY <1>3, MidBefore
<1>5. Sound(b) /\ b.err = "nil" /\ b.expect = "child"
  BY <1>1, <1>2, CutSound
<1>6. Mid(path, p, i, i) = expandWord(a, path[i], p) /\ Cut(until, i) = expandWord(b, p, NoPrefix)
  <2>1. Mid(path, p, i, n + 1) = expandWord(a, path[n + 1], p)
    BY <1>2, ExpandAt DEF Mid
  <2>2. Cut(until, n + 1) = expandWord(b, until[n + 1], NoPrefix)
    BY <1>1, <1>2, CutStep
  <2> QED BY <1>2, <2>1, <2>2
<1>7. BeginsNoName(b.node, path[i])
  OBVIOUS
<1>11. b.cpath \in Seq(Word) /\ Len(b.cpath) + 1 = i
  <2>1. SubSeq(until, 1, n) \in Seq(Word) /\ Len(SubSeq(until, 1, n)) = n
    BY <1>1, <1>2, FirstWords
  <2>2. b.cpath \in Seq(Word) /\ Len(b.cpath) = n
    BY <1>5, <2>1, ExpandLeads DEF Expands, Cut
  <2> QED BY <1>2, <2>2
<1> HIDE DEF a, b
<1>8. /\ expandWord(a, path[i], p) \in State
      /\ expandWord(a, path[i], p).err = "nil" => expandWord(a, path[i], p).pos = 0
      /\ \/ /\ Alike(expandWord(a, path[i], p), expandWord(b, p, NoPrefix))
            /\ JoinedTo(a, b, expandWord(a, path[i], p), expandWord(b, p, NoPrefix), p, path[i])
         \/ p \in ToSet(Children[b.node]) /\ expandWord(a, path[i], p).err = "ambiguous"
  BY <1>1, <1>4, <1>5, <1>7, AtCut DEF BeginsNoName
<1>9. CASE /\ Alike(expandWord(a, path[i], p), expandWord(b, p, NoPrefix))
           /\ JoinedTo(a, b, expandWord(a, path[i], p), expandWord(b, p, NoPrefix), p, path[i])
  <2>1. expandWord(a, path[i], p).err = "nil" =>
          expandWord(a, path[i], p).cpath = WordJoined(expandWord(b, p, NoPrefix).cpath, i, p, path[i])
    <3> SUFFICES ASSUME expandWord(a, path[i], p).err = "nil"
                 PROVE  expandWord(a, path[i], p).cpath
                          = WordJoined(expandWord(b, p, NoPrefix).cpath, i, p, path[i])
      OBVIOUS
    <3>1. PICK m \in Word : /\ expandWord(a, path[i], p).cpath = Append(a.cpath, Joined(m, p, path[i]))
                            /\ expandWord(b, p, NoPrefix).cpath = Append(b.cpath, m)
      BY <1>9 DEF JoinedTo
    <3>2. Append(b.cpath, Joined(m, p, path[i])) = WordJoined(Append(b.cpath, m), Len(b.cpath) + 1, p, path[i])
      <4>1. b.cpath \in Seq(Word) /\ m \in Word /\ p \in Word /\ path[i] \in Word
        BY <1>1, <1>11, <3>1
      <4> QED BY ONLY <4>1, JoinedThenAppended, ZenonT(30)
    <3> QED BY <1>4, <1>11, <3>1, <3>2
  <2> QED BY <1>1, <1>6, <1>8, <1>9, <2>1, MidAfter
<1>10. CASE p \in ToSet(Children[b.node]) /\ expandWord(a, path[i], p).err = "ambiguous"
  <2>1. Len(path) \in i..Len(path)
    BY <1>1
  <2>2. Mid(path, p, i, Len(path)) = Mid(path, p, i, i)
    BY <1>6, <1>10, <2>1, MidStuck
  <2> QED BY <1>6, <1>10, <2>2 DEF b
<1> QED BY <1>8, <1>9, <1>10

\* For every line that can be on the prompt, at every level, and every cut of one of
\* its words: a tab there (expandPath with a prefix and a position) finds what the
\* words up to the cursor would find on their own, and writes the rest of the word
\* after the name, if the path passes no list.
THEOREM MidWordAlwaysAsCut == Spec => []MidWordAsCut
<1>1. ASSUME NEW path \in Seq(Word), NEW i \in DOMAIN path, NEW p \in Cuts(path[i]),
             \A q \in Prefixes([path EXCEPT ![i] = p]) : Expand(q).expect # "field"
      PROVE  ExpandsAsCut(path, i, p)
  <2> DEFINE until == [path EXCEPT ![i] = p]
             before == Expand(SubSeq(path, 1, i - 1))
             n == i - 1
  <2>1. i \in 1..Len(path) /\ Len(path) \in Nat
    OBVIOUS
  <2>2. path[i] \in Word /\ p \in Word /\ p \in PrefixesOf[path[i]] \ {path[i]}
    <3>1. path[i] \in Word
      OBVIOUS
    <3> QED BY <3>1, PathAssumption DEF Cuts
  <2>3. CutAt(path, until, i) /\ until[i] = p /\ Cut(until, n) = before
    BY <2>1, <2>2, WordReplaced
  <2>4. PassesNoList(until)
    <3>1. \A q \in Prefixes(until) : Expand(q).expect # "field"
      BY <1>1
    <3> HIDE DEF until
    <3> QED BY <3>1 DEF PassesNoList, Prefixes, Cut
  <2>5. before.expect # "field"
    <3>1. n \in 0..Len(until)
      BY <2>1, <2>3 DEF CutAt
    <3> HIDE DEF until, n, before
    <3> QED BY <2>3, <2>4, <3>1 DEF PassesNoList
  <2>6. ExpandWithPrefix(path, p, i - 1) = Mid(path, p, i, Len(path)) /\ Expand(until) = Cut(until, Len(path))
    <3> HIDE DEF until
    <3>1. SubSeq(path, 1, Len(path)) = path /\ (i - 1) + 1 = i
      BY <2>1, FirstWords
    <3>2. SubSeq(until, 1, Len(until)) = until /\ Len(until) = Len(path)
      BY <2>1, <2>3, FirstWords DEF CutAt
    <3> QED BY <3>1, <3>2 DEF Mid, Cut, ExpandWithPrefix
  <2> DEFINE cut == Expand(until)
             mid == ExpandWithPrefix(path, p, i - 1)
             names == ToSet(Children[before.node])
  <2>7. ASSUME before.err = "nil", before.expect \in {"child", "field"},
               \A m \in names : ~HasPrefix(m, path[i])
        PROVE  \/ /\ mid.err = cut.err
                  /\ cut.err = "nil" => mid.cpath = WordJoined(cut.cpath, i, p, path[i])
               \/ p \in names /\ mid.err = "ambiguous"
    <3>1. /\ Cut(until, n).err = "nil" /\ Cut(until, n).expect = "child"
          /\ BeginsNoName(Cut(until, n).node, path[i])
      <4>1. before.expect = "child"
        BY <2>5, <2>7
      <4>2. BeginsNoName(before.node, path[i])
        BY <2>7 DEF BeginsNoName
      <4> HIDE DEF until, n, before
      <4> QED BY <2>3, <2>7, <4>1, <4>2
    <3>2. n = i - 1
      OBVIOUS
    <3> HIDE DEF until, n, before
    <3>3. \/ /\ Alike(Mid(path, p, i, Len(path)), Cut(until, Len(path)))
             /\ Mid(path, p, i, Len(path)).err = "nil" =>
                  Mid(path, p, i, Len(path)).cpath = WordJoined(Cut(until, Len(path)).cpath, i, p, path[i])
          \/ p \in ToSet(Children[Cut(until, n).node]) /\ Mid(path, p, i, Len(path)).err = "ambiguous"
      BY <2>1, <2>2, <2>3, <2>4, <3>1, <3>2, MidIsCut
    <3> QED BY <2>3, <2>6, <3>3 DEF Alike
  <2> HIDE DEF until, n, before, cut, mid, names
  <2> QED BY <2>7 DEF ExpandsAsCut, WordJoined, until, before, cut, mid, names
<1>2. ASSUME Inv PROVE MidWordAsCut
  <2>1. line # <<>> => editPath(Tail(line)) \in Seq(Word)
    BY <1>2 DEF Inv, LevelOK, LineOK, editPath
  <2> QED BY <1>1, <2>1 DEF MidWordAsCut
<1> QED BY <1>2, InvAlways, PTL

-----------------------------------------------------------------------------
\* A path that expands is never found invalid, wherever the cursor is: a prefix
\* adds names that compete.

Names(node, w, skip, m) == Plain(ToSet(Children[node]) \ skip, w) = {m}

\* The name, whatever follows it.
Named(r, st, m, pos) ==
  \E y \in Written :
    r = [node |-> m, expect |-> Expecting(m), cpath |-> Append(st.cpath, y), pos |-> pos,
         err |-> "nil"]

LEMMA ChildWithPrefix ==
  ASSUME NEW st \in State, st.err = "nil", NEW w \in Word, NEW skip, NEW prefix \in Word, NEW pos \in Int,
         NEW m, Names(st.node, w, skip, m)
  PROVE  \/ processchildrenskip(st, w, skip, prefix, pos) = Fail(st, "ambiguous")
         \/ processchildrenskip(st, w, skip, prefix, pos) = Fail(st, "prefix")
         \/ Named(processchildrenskip(st, w, skip, prefix, pos), st, m, pos)
<1> DEFINE c == Children[st.node]
           names == ToSet(c) \ skip
           found == Matches(names, w, prefix, pos)
           mid == PrefixMatch(c, skip, w, prefix, pos)
<1>1. m \in found /\ found \subseteq names
  BY DEF Names, Plain, Matches
<1>2. IsFiniteSet(found) /\ m \in Word
  <2>1. st.node \in DOMAIN Kind
    BY DEF State
  <2>2. IsFiniteSet(ToSet(c)) /\ ToSet(c) \subseteq Word
    BY <2>1, ChildrenFinite, ChildrenAreNodes
  <2>3. found \subseteq ToSet(c)
    BY <1>1
  <2> QED BY <1>1, <2>2, <2>3, FS_Subset
<1>3. processchildrenskip(st, w, skip, prefix, pos) = Descend(st, w, prefix, pos, found, mid)
  BY DEF processchildrenskip
<1> HIDE DEF found, mid
<1>4. CASE Cardinality(found) > 1
  <2>1. Descend(st, w, prefix, pos, found, mid) = Fail(st, "ambiguous")
    BY <1>1, <1>4 DEF Descend
  <2> QED BY <1>3, <2>1
<1>5. CASE ~(Cardinality(found) > 1)
  <2>1. found = {m}
    <3> SUFFICES ASSUME NEW n \in found, n # m PROVE FALSE
      BY <1>1
    <3>1. {m, n} \subseteq found
      BY <1>1
    <3> QED BY <1>2, <1>5, <3>1, TwoOfMany
  <2>2. (CHOOSE n \in found : TRUE) = m /\ found # {}
    BY <2>1
  <2>3. m \in Written /\ Joined(m, prefix, w) \in Written
    BY <1>2, WordIsWritten
  <2>4. \/ Descend(st, w, prefix, pos, found, mid) = Fail(st, "prefix")
        \/ Descend(st, w, prefix, pos, found, mid)
             = [st EXCEPT !.node = m, !.expect = Expecting(m),
                          !.cpath = Append(@, IF mid THEN Joined(m, prefix, w) ELSE m), !.pos = pos]
    BY <1>5, <2>2 DEF Descend
  <2>5. CASE Descend(st, w, prefix, pos, found, mid)
             = [st EXCEPT !.node = m, !.expect = Expecting(m),
                          !.cpath = Append(@, IF mid THEN Joined(m, prefix, w) ELSE m), !.pos = pos]
    <3>1. PICK y \in Written : y = IF mid THEN Joined(m, prefix, w) ELSE m
      BY <2>3
    <3>2. Descend(st, w, prefix, pos, found, mid)
            = [node |-> m, expect |-> Expecting(m), cpath |-> Append(st.cpath, y), pos |-> pos,
               err |-> "nil"]
      BY <2>5, <3>1 DEF State
    <3> QED BY <1>3, <3>2 DEF Named
  <2> QED BY <1>3, <2>4, <2>5
<1> QED BY <1>4, <1>5

\* What makes no error names one child.
LEMMA ResultOfOne ==
  ASSUME NEW st \in State, NEW S, IsFiniteSet(S), NEW pos, Result(st, S, pos).err = "nil"
  PROVE  \E m : S = {m} /\ Result(st, S, pos) = Found(st, m, pos)
<1>1. S # {}
  <2> SUFFICES ASSUME S = {} PROVE FALSE
    OBVIOUS
  <2>1. Result(st, S, pos) = Fail(st, "unknown")
    BY DEF Result
  <2> QED BY <2>1 DEF Fail, State
<1>2. ~(Cardinality(S) > 1)
  <2> SUFFICES ASSUME Cardinality(S) > 1 PROVE FALSE
    OBVIOUS
  <2>1. Result(st, S, pos) = Fail(st, "ambiguous")
    BY <1>1 DEF Result
  <2> QED BY <2>1 DEF Fail, State
<1>3. PICK m : m \in S /\ m = CHOOSE n \in S : TRUE
  BY <1>1
<1>4. S = {m}
  <2> SUFFICES ASSUME NEW n \in S, n # m PROVE FALSE
    BY <1>3
  <2>1. {m, n} \subseteq S
    BY <1>3
  <2> QED BY <1>2, <2>1, TwoOfMany
<1>5. Result(st, S, pos) = Found(st, m, pos)
  BY <1>1, <1>2, <1>3 DEF Result
<1> QED BY <1>4, <1>5

LEMMA WordWithPrefix ==
  ASSUME NEW a \in State, NEW b, Sound(b), Alike(a, b), b.err = "nil", NEW w \in Word,
         NEW prefix \in Word, NEW x, expandWord(b, w, x).err = "nil"
  PROVE  /\ expandWord(a, w, prefix) \in State
         /\ expandWord(a, w, prefix).err # "unknown"
         /\ expandWord(a, w, prefix).err = "nil" => Alike(expandWord(a, w, prefix), expandWord(b, w, x))
<1>0. b \in State /\ a.node = b.node /\ a.err = "nil" /\ a.expect = b.expect
  BY DEF Sound, Alike
<1>1. ASSUME NEW skip, NEW i \in Int, NEW j \in Int, j < 0,
             expandWord(a, w, prefix) = processchildrenskip(a, w, skip, prefix, i),
             expandWord(b, w, x) = processchildrenskip(b, w, skip, x, j)
      PROVE  /\ expandWord(a, w, prefix) \in State
             /\ expandWord(a, w, prefix).err # "unknown"
             /\ expandWord(a, w, prefix).err = "nil" =>
                  Alike(expandWord(a, w, prefix), expandWord(b, w, x))
  <2> DEFINE S == Plain(ToSet(Children[b.node]) \ skip, w)
  <2>1. expandWord(b, w, x) = Result(b, S, j)
    <3>1. j # 0
      BY <1>1
    <3> QED BY <1>0, <1>1, <3>1, OffCursor
  <2>2. S \subseteq ToSet(Children[b.node]) /\ IsFiniteSet(S)
    <3>1. b.node \in DOMAIN Kind
      BY <1>0 DEF State
    <3>2. IsFiniteSet(ToSet(Children[b.node])) /\ S \subseteq ToSet(Children[b.node])
      BY <3>1, ChildrenFinite DEF Plain
    <3> QED BY <3>2, FS_Subset
  <2> HIDE DEF S
  <2>3. PICK m : S = {m} /\ expandWord(b, w, x) = Found(b, m, j)
    BY <1>0, <2>1, <2>2, ResultOfOne
  <2>4. Names(a.node, w, skip, m)
    BY <1>0, <2>3 DEF S, Names
  <2>5. m \in DOMAIN Kind /\ m \in Word /\ Expecting(m) \in {"child", "key", "field", "value", "end"}
    <3>1. m \in ToSet(Children[b.node]) /\ b.node \in DOMAIN Kind
      BY <1>0, <2>2, <2>3 DEF State
    <3> QED BY <3>1, ChildrenAreNodes DEF Expecting
  <2> DEFINE r == expandWord(a, w, prefix)
  <2> HIDE DEF r
  <2>6. r = Fail(a, "ambiguous") \/ r = Fail(a, "prefix") \/ Named(r, a, m, i)
    <3>1. r = processchildrenskip(a, w, skip, prefix, i) /\ a.err = "nil"
      BY <1>0, <1>1 DEF r
    <3> QED BY <2>4, <3>1, ChildWithPrefix
  <2>7. CASE r = Fail(a, "ambiguous") \/ r = Fail(a, "prefix")
    <3>1. r \in State /\ r.err # "unknown" /\ r.err # "nil"
      BY <2>7 DEF Fail, State
    <3> QED BY <3>1 DEF r
  <2>8. ASSUME NEW y \in Written,
               r = [node |-> m, expect |-> Expecting(m), cpath |-> Append(a.cpath, y), pos |-> i,
                    err |-> "nil"]
        PROVE  r \in State /\ r.err # "unknown" /\ Alike(r, expandWord(b, w, x))
    <3>1. Append(a.cpath, y) \in Seq(Written)
      BY AppendWritten
    <3>2. r \in State
      BY <2>5, <2>8, <3>1 DEF State
    <3>3. r.err = "nil"
      BY <2>8
    <3>4. Alike(r, Found(b, m, j))
      BY <1>0, <2>8 DEF Alike, Found
    <3> QED BY <2>3, <3>2, <3>3, <3>4
  <2> QED BY <2>6, <2>7, <2>8 DEF r, Named
<1>2. CASE b.expect = "child"
  <2>1. PICK i \in Int, j \in Int : i = a.pos - 1 /\ j = b.pos - 1 /\ j < 0
    BY <1>0, <1>2 DEF Sound, State
  <2>2. /\ expandWord(a, w, prefix) = processchildrenskip(a, w, {}, prefix, i)
        /\ expandWord(b, w, x) = processchildrenskip(b, w, {}, x, j)
    BY <1>0, <1>2, <2>1 DEF expandWord
  <2> QED BY <1>1, <2>1, <2>2
<1>3. CASE b.expect = "field"
  <2>1. PICK i \in Int, j \in Int : i = a.pos /\ j = b.pos /\ j < 0
    BY <1>0, <1>3 DEF Sound, State
  <2>2. /\ expandWord(a, w, prefix) = processchildrenskip(a, w, {Key[a.node]}, prefix, i)
        /\ expandWord(b, w, x) = processchildrenskip(b, w, {Key[b.node]}, x, j)
    BY <1>0, <1>3, <2>1 DEF expandWord
  <2> QED BY <1>0, <1>1, <2>1, <2>2
<1>4. CASE b.expect = "key"
  <2>1. /\ expandWord(a, w, prefix) = [a EXCEPT !.cpath = Append(@, w), !.expect = "field"]
        /\ expandWord(b, w, x) = [b EXCEPT !.cpath = Append(@, w), !.expect = "field"]
    BY <1>0, <1>4 DEF expandWord
  <2>2. /\ expandWord(a, w, prefix) = Entered(a, w, "field")
        /\ expandWord(b, w, x) = Entered(b, w, "field")
    BY <1>0, <2>1 DEF State, Entered
  <2>3. Append(a.cpath, w) \in Seq(Written)
    BY WordIsWritten, AppendWritten
  <2>4. Entered(a, w, "field") \in State
    BY <2>3 DEF State, Entered
  <2> QED BY <1>0, <2>2, <2>4 DEF Alike, Entered
<1>5. CASE b.expect = "value" /\ Kind[b.node] # "empty"
  <2>1. /\ expandWord(a, w, prefix) = [a EXCEPT !.cpath = Append(@, w), !.expect = "end"]
        /\ expandWord(b, w, x) = [b EXCEPT !.cpath = Append(@, w), !.expect = "end"]
    BY <1>0, <1>5 DEF expandWord
  <2>2. /\ expandWord(a, w, prefix) = Entered(a, w, "end")
        /\ expandWord(b, w, x) = Entered(b, w, "end")
    BY <1>0, <2>1 DEF State, Entered
  <2>3. Append(a.cpath, w) \in Seq(Written)
    BY WordIsWritten, AppendWritten
  <2>4. Entered(a, w, "end") \in State
    BY <2>3 DEF State, Entered
  <2> QED BY <1>0, <2>2, <2>4 DEF Alike, Entered
<1>6. CASE b.expect = "end" \/ (b.expect = "value" /\ Kind[b.node] = "empty")
  <2>1. expandWord(b, w, x) = Fail(b, "unknown")
    BY <1>0, <1>6 DEF expandWord
  <2> QED BY <1>0, <2>1 DEF Fail, State
<1> QED BY <1>0, <1>2, <1>3, <1>4, <1>5, <1>6 DEF State

LEMMA NeverUnknown ==
  ASSUME NEW p \in Seq(Word), Expand(p).err = "nil", NEW prefix \in Word, NEW pos \in Int
  PROVE  expandPath(p, prefix, pos).err # "unknown"
<1> DEFINE Good(q) == /\ expandPath(q, prefix, pos) \in State
                      /\ expandPath(q, prefix, pos).err # "unknown"
                      /\ expandPath(q, prefix, pos).err = "nil" =>
                           Alike(expandPath(q, prefix, pos), Expand(q))
           Bad == {n \in Nat : \E q \in Seq(Word) : Len(q) = n /\ Expand(q).err = "nil" /\ ~Good(q)}
<1>0. Len(p) \in Nat
  OBVIOUS
<1> SUFFICES ASSUME Bad # {} PROVE FALSE
  BY <1>0
<1>1. PICK n \in Bad : \A m \in Bad : n <= m
  BY LeastNumber
<1>2. PICK q \in Seq(Word) : Len(q) = n /\ Expand(q).err = "nil" /\ ~Good(q)
  BY <1>1
<1>3. CASE q = <<>>
  <2>1. expandPath(q, prefix, pos) = Start(pos) /\ Expand(q) = Start(0)
    BY <1>3, ExpandOfNothing, ExpandNothing
  <2>2. Start(pos) \in State
    BY PathAssumption DEF Start, State
  <2>3. Start(pos).err # "unknown" /\ Alike(Start(pos), Start(0))
    BY DEF Start, Alike
  <2> QED BY <1>2, <2>1, <2>2, <2>3
<1>4. CASE q # <<>>
  <2> DEFINE a == expandPath(Front(q), prefix, pos)
             b == Expand(Front(q))
  <2>1. Front(q) \in Seq(Word) /\ Last(q) \in Word /\ Len(Front(q)) = n - 1 /\ n - 1 \in Nat
    <3>1. /\ Front(q) \in Seq(Word) /\ Last(q) \in Word /\ Len(Front(q)) = Len(q) - 1
          /\ Len(q) \in Nat /\ Len(q) > 0
      BY <1>4, FrontAndLast
    <3> QED BY <1>2, <3>1
  <2>2. b.err = "nil"
    BY <1>2, <1>4, ExpandFollows
  <2>3. Good(Front(q))
    BY <1>1, <2>1, <2>2
  <2>4. a \in State /\ a.err # "unknown" /\ (a.err = "nil" => Alike(a, b)) /\ Sound(b)
    BY <2>1, <2>3, ExpandSound
  <2>5. /\ expandPath(q, prefix, pos) = expandWord(a, Last(q), prefix)
        /\ Expand(q) = expandWord(b, Last(q), NoPrefix)
    BY <1>4, ExpandStep, ExpandOne
  <2> HIDE DEF a, b
  <2>6. CASE a.err # "nil"
    BY <1>2, <2>4, <2>5, <2>6, StuckInError
  <2>7. CASE a.err = "nil"
    <3>1. expandWord(b, Last(q), NoPrefix).err = "nil"
      BY <1>2, <2>5
    <3> QED BY <1>2, <2>1, <2>2, <2>4, <2>5, <2>7, <3>1, WordWithPrefix
  <2> QED BY <2>6, <2>7
<1> QED BY <1>3, <1>4

-----------------------------------------------------------------------------
\* Words offered after a path expand after it.

LEMMA HelpLeads ==
  ASSUME NEW s, NEW p \in Seq(Word), NEW t, Configuration(t), PathDescendant(p) # Nowhere,
         NEW w \in GetHelp(s, p, t)
  PROVE  /\ SchemaChild(PathDescendant(p), w) # Nowhere
         /\ isListKey(PathDescendant(p)) => w # Key[PathDescendant(p).node]
<1> DEFINE at == PathDescendant(p)
           below == {q \in t : IsStrictPrefix(p, q)}
           configured == {q[Len(p) + 1] : q \in below}
<1>1. isListKey(at) => w # Key[at.node]
  BY DEF GetHelp
<1>2. CASE Inner(at) /\ s
  <2>1. w \in ToSet(Children[at.node])
    BY <1>2 DEF GetHelp
  <2>2. w \in DOMAIN Kind
    <3>1. at.node \in DOMAIN Kind
      BY PlaceOfPath DEF APlace
    <3> QED BY <2>1, <3>1, ChildrenAreNodes
  <2>3. SchemaChild(at, w) = [node |-> w, val |-> FALSE]
    BY <1>2, <2>1 DEF SchemaChild
  <2> HIDE DEF at
  <2>4. SchemaChild(at, w) # Nowhere
    BY <2>2, <2>3, PathAssumption DEF Nowhere
  <2> QED BY <1>1, <2>4 DEF at
<1>3. CASE ~(Inner(at) /\ s)
  <2>1. w \in configured
    BY <1>3 DEF GetHelp
  <2>2. PICK q \in t : IsStrictPrefix(p, q) /\ w = q[Len(p) + 1]
    BY <2>1
  <2>3. q \in Seq(Word) /\ IsPrefix(p, q) /\ p # q /\ PathDescendant(q) # Nowhere
    BY <2>2, PartsOfConfiguration DEF IsStrictPrefix, Explicit
  <2>4. Len(p) <= Len(q) /\ Len(p) \in Nat /\ Len(q) \in Nat /\ p = SubSeq(q, 1, Len(p))
    BY <2>3, PrefixWords
  <2>5. Len(p) # Len(q)
    <3>1. Len(q) \in 0..Len(q)
      BY <2>4
    <3>2. SubSeq(q, 1, Len(q)) = q
      BY <2>3, <3>1, FirstWords
    <3> QED BY <2>3, <2>4, <3>2
  <2>6. PICK k \in 0..Len(q) : k = Len(p) + 1 /\ k > 0 /\ k - 1 = Len(p)
    BY <2>4, <2>5
  <2>7. /\ SubSeq(q, 1, k) \in Seq(Word)
        /\ k > 0 => /\ SubSeq(q, 1, k) # <<>> /\ Last(SubSeq(q, 1, k)) = q[k]
                    /\ Front(SubSeq(q, 1, k)) = SubSeq(q, 1, k - 1)
    BY <2>3, FirstWords, ZenonT(60)
  <2>8. PathDescendant(SubSeq(q, 1, k)) = SchemaChild(PathDescendant(p), w)
    <3>1. PathDescendant(SubSeq(q, 1, k))
            = SchemaChild(PathDescendant(Front(SubSeq(q, 1, k))), Last(SubSeq(q, 1, k)))
      BY <2>6, <2>7, PlaceStep
    <3> QED BY <2>2, <2>4, <2>6, <2>7, <3>1
  <2>9. PathDescendant(SubSeq(q, 1, k)) # Nowhere
    BY <2>3, BeginningLeads
  <2> QED BY <1>1, <2>8, <2>9
<1> QED BY <1>2, <1>3

\* A word that leads on from a place is taken there.
LEMMA WordLeads ==
  ASSUME NEW st, Sound(st), st.err = "nil", NEW w \in Word, SchemaChild(Place(st), w) # Nowhere,
         st.expect = "field" => w # Key[st.node]
  PROVE  expandWord(st, w, NoPrefix).err = "nil"
<1>0. st \in State /\ st.node \in DOMAIN Kind
  BY DEF Sound, State
<1>1. ASSUME NEW skip, w \notin skip, NEW pos \in Int, pos < 0, Inner(Place(st)),
             expandWord(st, w, NoPrefix) = processchildrenskip(st, w, skip, NoPrefix, pos)
      PROVE  expandWord(st, w, NoPrefix).err = "nil"
  <2>1. w \in ToSet(Children[st.node])
    BY <1>1 DEF SchemaChild, Place
  <2>2. w \in ToSet(Children[st.node]) \ skip
    BY <1>1, <2>1
  <2>3. processchildrenskip(st, w, skip, NoPrefix, pos) = Found(st, w, pos)
    BY <1>0, <1>1, <2>2, DescendOne
  <2> QED BY <1>1, <2>3 DEF Found
<1>2. CASE st.expect = "child"
  <2>1. expandWord(st, w, NoPrefix) = processchildrenskip(st, w, {}, NoPrefix, st.pos - 1)
    BY <1>2 DEF expandWord
  <2>2. PICK pos \in Int : pos = st.pos - 1 /\ pos < 0
    BY <1>0, <1>2 DEF Sound, State
  <2>3. Inner(Place(st))
    BY <1>2 DEF Sound, Inner, Place
  <2> QED BY <1>1, <2>1, <2>2, <2>3
<1>3. CASE st.expect = "field"
  <2>1. expandWord(st, w, NoPrefix) = processchildrenskip(st, w, {Key[st.node]}, NoPrefix, st.pos)
    BY <1>3 DEF expandWord
  <2>2. st.pos \in Int /\ st.pos < 0 /\ w \notin {Key[st.node]}
    BY <1>0, <1>3 DEF Sound, State
  <2>3. Inner(Place(st))
    BY <1>3 DEF Sound, Inner, Place
  <2> QED BY <1>1, <2>1, <2>2, <2>3
<1>4. CASE st.expect = "key"
  <2>1. expandWord(st, w, NoPrefix) = [st EXCEPT !.cpath = Append(@, w), !.expect = "field"]
    BY <1>4 DEF expandWord
  <2> QED BY <1>0, <2>1 DEF State
<1>5. CASE st.expect = "value" /\ Kind[st.node] # "empty"
  <2>1. expandWord(st, w, NoPrefix) = [st EXCEPT !.cpath = Append(@, w), !.expect = "end"]
    BY <1>5 DEF expandWord
  <2> QED BY <1>0, <2>1 DEF State
<1>6. CASE st.expect = "end" \/ (st.expect = "value" /\ Kind[st.node] = "empty")
  <2>1. ~Inner(Place(st)) /\ (Place(st).val \/ Kind[Place(st).node] = "empty")
    BY <1>6 DEF Sound, Inner, Place, Container, Valued
  <2>2. SchemaChild(Place(st), w) = Nowhere
    BY <2>1 DEF SchemaChild
  <2> QED BY <2>2
<1> QED BY <1>0, <1>2, <1>3, <1>4, <1>5, <1>6 DEF State

LEMMA OfferedExpands ==
  ASSUME Configuration(cand), NEW p \in Seq(Word), Expand(p).err = "nil",
         NEW s, NEW w \in GetCompletions(s, Expand(p).cpath), w \in Word
  PROVE  Expand(Append(p, w)).err = "nil"
<1> DEFINE e == Expand(p)
           at == PathDescendant(e.cpath)
<1>1. Sound(e) /\ e \in State /\ e.cpath \in Seq(Word) /\ at = Place(e)
  BY ExpandSound, ExpandLeads DEF Expands, Sound
<1>2. at # Nowhere
  <2>1. e.node \in DOMAIN Kind
    BY <1>1 DEF State
  <2> QED BY <1>1, <2>1, PathAssumption DEF Place, Nowhere
<1>3. Expand(Append(p, w)) = expandWord(e, w, NoPrefix)
  BY FrontOfAppend, ExpandOne
<1>4. w \in GetHelp(s, e.cpath, cand) \/ w \in TmplGetAllowed(e.cpath)
  BY DEF GetCompletions
<1>5. CASE w \in GetHelp(s, e.cpath, cand)
  <2>1. /\ SchemaChild(at, w) # Nowhere
        /\ isListKey(at) => w # Key[at.node]
    BY <1>1, <1>2, <1>5, HelpLeads
  <2> HIDE DEF e, at
  <2>2. e.expect = "field" => w # Key[e.node]
    BY <1>1, <2>1 DEF isListKey, Place, Sound
  <2> QED BY <1>1, <1>3, <2>1, <2>2, WordLeads DEF e
<1>6. CASE w \in TmplGetAllowed(e.cpath)
  <2>1. Kind[at.node] = "leafref" /\ ~at.val
    BY <1>6 DEF TmplGetAllowed
  <2> HIDE DEF e, at
  <2>2. e.expect = "value" /\ Kind[e.node] # "empty"
    BY <1>1, <2>1 DEF Place, Sound, State, Container
  <2>3. expandWord(e, w, NoPrefix) = [e EXCEPT !.cpath = Append(@, w), !.expect = "end"]
    BY <2>2 DEF expandWord, e
  <2> QED BY <1>1, <1>3, <2>3 DEF State, e
<1> QED BY <1>4, <1>5, <1>6

-----------------------------------------------------------------------------
\* The line with an offered word.

\* w in place of the last word.
InPlace(a, w, l) == l = Append(Front(a), w)

\* And a space after it.
LEMMA WordInPlace ==
  ASSUME NEW a \in Seq(Word), NEW n \in Nat, n > 0, Len(a) = n + 1, NEW w \in Word,
         NEW l, InPlace(a, w, l)
  PROVE  /\ l \in Seq(Word) /\ Len(l) = n + 1 /\ Last(l) = w /\ l[n + 1] = w
         /\ \A i \in 1..n : l[i] = a[i]
         /\ Head(l) = Head(a) /\ Tail(l) = Append(SubSeq(a, 2, n), w)
         /\ SubSeq(a, 2, n) \in Seq(Word)
         /\ Append(l, Blank) \in Seq(Word) /\ Len(Append(l, Blank)) = n + 2
         /\ Last(Append(l, Blank)) = Blank /\ Front(Append(l, Blank)) = l
         /\ Head(Append(l, Blank)) = Head(a) /\ Tail(Append(l, Blank)) = Append(Tail(l), Blank)
<1>0. Blank \in Word
  BY PathAssumption
<1>1. a # <<>>
  OBVIOUS
<1>2. /\ Front(a) \in Seq(Word) /\ Len(Front(a)) = n /\ \A i \in 1..n : Front(a)[i] = a[i]
  <2>1. /\ Front(a) \in Seq(Word) /\ Len(Front(a)) = Len(a) - 1
        /\ \A i \in 1..(Len(a) - 1) : Front(a)[i] = a[i]
    BY <1>1, FrontAndLast
  <2>2. Len(a) - 1 = n
    OBVIOUS
  <2> QED BY <2>1, <2>2
<1>3. l \in Seq(Word) /\ Len(l) = n + 1 /\ Last(l) = w /\ l # <<>>
  BY <1>2, FrontOfAppend DEF InPlace
<1>4. /\ l[n + 1] = w /\ \A i \in 1..n : l[i] = a[i]
  BY <1>2 DEF InPlace
<1>5. Head(l) = Head(a)
  <2>1. 1 \in 1..n /\ Head(l) = l[1] /\ Head(a) = a[1]
    BY <1>3
  <2> QED BY <1>4, <2>1
<1>6. /\ SubSeq(a, 2, n) \in Seq(Word) /\ Len(SubSeq(a, 2, n)) = n - 1
      /\ \A i \in 1..(n - 1) : SubSeq(a, 2, n)[i] = a[i + 1]
  <2>1. \A i \in 2..n : i \in 1..Len(a)
    OBVIOUS
  <2> QED BY <2>1
<1>7. Tail(l) = Append(SubSeq(a, 2, n), w)
  <2> DEFINE t == Append(SubSeq(a, 2, n), w)
             r == Tail(l)
  <2>1. t \in Seq(Word) /\ Len(t) = n /\ t[n] = w /\ \A i \in 1..(n - 1) : t[i] = a[i + 1]
    BY <1>6
  <2>2. r \in Seq(Word) /\ Len(r) = n /\ \A i \in 1..n : r[i] = l[i + 1]
    BY <1>3
  <2>3. \A i \in 1..n : r[i] = t[i]
    <3> TAKE i \in 1..n
    <3>1. r[i] = l[i + 1]
      BY <2>2
    <3>2. CASE i = n
      BY <1>4, <2>1, <3>1, <3>2
    <3>3. CASE i # n
      <4>1. i \in 1..(n - 1) /\ i + 1 \in 1..n
        BY <3>3
      <4>2. t[i] = a[i + 1]
        BY <2>1, <4>1
      <4> QED BY <1>4, <3>1, <4>1, <4>2
    <3> QED BY <3>2, <3>3
  <2> HIDE DEF t, r
  <2>4. r = t
    BY <2>1, <2>2, <2>3
  <2> QED BY <2>4 DEF r, t
<1> HIDE DEF Blank
<1>8. /\ Append(l, Blank) \in Seq(Word) /\ Len(Append(l, Blank)) = n + 2
      /\ Last(Append(l, Blank)) = Blank /\ Front(Append(l, Blank)) = l
  <2>1. PICK b \in Word : b = Blank
    BY <1>0
  <2>2. /\ Append(l, b) \in Seq(Word) /\ Len(Append(l, b)) = Len(l) + 1
        /\ Last(Append(l, b)) = b /\ Front(Append(l, b)) = l
    BY <1>3, FrontOfAppend
  <2> QED BY <1>3, <2>1, <2>2
<1>9. Head(Append(l, Blank)) = Head(a) /\ Tail(Append(l, Blank)) = Append(Tail(l), Blank)
  <2>1. PICK b \in Word : b = Blank
    BY <1>0
  <2>2. Head(Append(l, b)) = Head(l) /\ Tail(Append(l, b)) = Append(Tail(l), b)
    BY <1>3
  <2> QED BY <1>5, <2>1, <2>2
<1> QED BY <1>3, <1>4, <1>5, <1>6, <1>7, <1>8, <1>9

\* The cursor at the end of the offered word, and after a space.
AtEnd(l, n, w) == [args |-> l, idx |-> n, prefix |-> w]
AfterSpace(l, n) == [args |-> Append(l, Blank), idx |-> n + 1, prefix |-> Blank]

LEMMA HeadAndTail ==
  ASSUME NEW s \in Seq(Word), s # <<>>
  PROVE  <<Head(s)>> \o Tail(s) = s /\ Head(s) = s[1] /\ Tail(s) \in Seq(Word)
OBVIOUS

LEMMA CompletedLine ==
  ASSUME line \in Seq(Word), line # <<>>, ExpandCommand(Head(line)) # Blank, NEW space \in BOOLEAN,
         NEW c, c = CompleteContext(line, space), c.idx > 0
  PROVE  /\ c.args \in Seq(Word) /\ c.idx \in Nat /\ Len(c.args) = c.idx + 1
         /\ c.prefix = Last(c.args) /\ Head(c.args) \in Commands
<1> DEFINE args == IF space THEN Append(line, Blank) ELSE line
           cmd == ExpandCommand(Head(args))
<1>0. Blank \in Word
  BY PathAssumption
<1>1. args \in Seq(Word) /\ Head(args) = Head(line) /\ args # <<>>
  <2>1. PICK b \in Word : b = Blank
    BY <1>0
  <2>2. Append(line, b) \in Seq(Word) /\ Head(Append(line, b)) = Head(line) /\ Append(line, b) # <<>>
    OBVIOUS
  <2> QED BY <2>1, <2>2
<1>2. cmd \in Commands /\ cmd \in Word
  BY <1>1, CommandFound, LineAssumption
<1>3. c = [args |-> <<cmd>> \o Tail(args), idx |-> Len(args) - 1, prefix |-> Last(args)]
  BY DEF CompleteContext, Context
<1> HIDE DEF args, cmd
<1>4. Len(args) \in Nat /\ Len(args) > 1
  BY <1>1, <1>3
<1>5. /\ <<cmd>> \o Tail(args) \in Seq(Word) /\ Len(<<cmd>> \o Tail(args)) = Len(args)
      /\ Head(<<cmd>> \o Tail(args)) = cmd /\ Last(<<cmd>> \o Tail(args)) = Last(args)
  <2>1. Tail(args) \in Seq(Word) /\ Len(Tail(args)) = Len(args) - 1
    BY <1>1
  <2>2. /\ <<cmd>> \o Tail(args) \in Seq(Word) /\ Len(<<cmd>> \o Tail(args)) = Len(args)
        /\ Head(<<cmd>> \o Tail(args)) = cmd
    BY <1>2, <1>4, <2>1
  <2>3. (<<cmd>> \o Tail(args))[Len(args)] = args[Len(args)]
    BY <1>1, <1>2, <1>4, <2>1
  <2> QED BY <1>4, <2>2, <2>3 DEF Last
<1>6. /\ c.args = <<cmd>> \o Tail(args) /\ c.idx = Len(args) - 1 /\ c.prefix = Last(args)
  BY <1>3
<1> QED BY <1>2, <1>4, <1>5, <1>6

LEMMA NewContexts ==
  ASSUME NEW l \in Seq(Word), NEW n \in Nat, Len(l) = n + 1, Head(l) \in Commands, NEW w, w = Last(l),
         NEW m \in Seq(Word), m = Append(l, Blank), Len(m) = n + 2, Head(m) = Head(l), Last(m) = Blank
  PROVE  /\ CompleteContext(l, FALSE) = AtEnd(l, n, w)
         /\ CompleteContext(l, TRUE) = AfterSpace(l, n)
<1>1. ExpandCommand(Head(l)) = Head(l) /\ ExpandCommand(Head(m)) = Head(m)
  BY DEF ExpandCommand
<1>2. <<Head(l)>> \o Tail(l) = l /\ <<Head(m)>> \o Tail(m) = m
  <2>1. l # <<>> /\ m # <<>>
    OBVIOUS
  <2> QED BY <2>1, HeadAndTail
<1>3. Len(l) - 1 = n /\ Len(m) - 1 = n + 1
  OBVIOUS
<1>4. CompleteContext(l, FALSE) = AtEnd(l, n, w)
  BY <1>1, <1>2, <1>3 DEF CompleteContext, Context, AtEnd
<1>5. CompleteContext(l, TRUE) = AfterSpace(l, n)
  BY <1>1, <1>2, <1>3 DEF CompleteContext, Context, AfterSpace
<1> QED BY <1>4, <1>5

\* A path that expands is valid, and so is the space after it.
LEMMA FrontValid ==
  ASSUME NEW d, d.prefix = Blank, NEW path \in Seq(Word), path = editPath(Tail(d.args)), path # <<>>,
         Last(path) = Blank, Expand(Front(path)).err = "nil"
  PROVE  checkValidPath(d)
<1>1. Front(path) \in Seq(Word)
  BY FrontAndLast
<1>2. PathDescendant(Expand(Front(path)).cpath) = Place(Expand(Front(path)))
  BY <1>1, ExpandLeads DEF Expands
<1>3. Expand(Front(path)).node \in DOMAIN Kind
  BY <1>1, ExpandSound DEF Sound, State
<1>4. TmplValidatePath(Expand(Front(path)).cpath)
  BY <1>2, <1>3, PathAssumption DEF TmplValidatePath, Place, Nowhere
<1> QED BY <1>4 DEF checkValidPath

LEMMA PathValid ==
  ASSUME NEW d, d.idx \in Int, d.prefix \in Word, NEW path \in Seq(Word),
         path = editPath(Tail(d.args)), Expand(path).err = "nil"
  PROVE  checkValidPath(d)
<1>1. CASE path = <<>>
  BY <1>1 DEF checkValidPath
<1>2. CASE path # <<>> /\ d.prefix = Blank /\ Last(path) = Blank
  <2>1. Expand(Front(path)).err = "nil"
    BY <1>2, ExpandFollows
  <2> QED BY <1>2, <2>1, FrontValid
<1>3. CASE path # <<>> /\ ~(d.prefix = Blank /\ Last(path) = Blank)
  <2>1. PICK pos \in Int : pos = (d.idx - 1) + 1
    OBVIOUS
  <2>2. expandPath(path, d.prefix, pos).err # "unknown"
    BY NeverUnknown
  <2>3. ExpandWithPrefix(path, d.prefix, d.idx - 1).err # "unknown"
    BY <2>1, <2>2 DEF ExpandWithPrefix
  <2> QED BY <1>3, <2>3 DEF checkValidPath
<1> QED BY <1>1, <1>2, <1>3

LEMMA PathAccepted ==
  ASSUME level \in Seq(Word), Configuration(cand), NEW c, c.args \in Seq(Word), c.idx \in Nat,
         c.idx > 0, Len(c.args) = c.idx + 1, NEW w \in pathComp(c), w \in Word,
         NEW l, InPlace(c.args, w, l)
  PROVE  checkValidPath(AtEnd(l, c.idx, w)) /\ checkValidPath(AfterSpace(l, c.idx))
<1> DEFINE words == SubSeq(c.args, 2, c.idx)
           before == editPath(words)
<1>0. Blank \in Word
  BY PathAssumption
<1>1. /\ l \in Seq(Word) /\ words \in Seq(Word) /\ Tail(l) = Append(words, w)
      /\ Tail(Append(l, Blank)) = Append(Tail(l), Blank)
  <2>1. PICK a \in Seq(Word), n \in Nat : a = c.args /\ n = c.idx
    OBVIOUS
  <2>2. n > 0 /\ Len(a) = n + 1 /\ InPlace(a, w, l)
    BY <2>1
  <2>3. l \in Seq(Word) /\ SubSeq(a, 2, n) \in Seq(Word)
    BY <2>2, WordInPlace
  <2>4. Tail(l) = Append(SubSeq(a, 2, n), w)
    BY <2>2, WordInPlace
  <2>5. Tail(Append(l, Blank)) = Append(Tail(l), Blank)
    BY <2>2, WordInPlace
  <2> QED BY <2>1, <2>3, <2>4, <2>5
<1>2. w \in GetCompletions(fromschema(Arg(c, 0)), Expand(before).cpath) /\ Expand(before).err = "nil"
  BY DEF pathComp
<1> HIDE DEF words
<1>3. before \in Seq(Word) /\ editPath(Append(words, w)) = Append(before, w)
  <2>1. words \in Seq(Word)
    BY <1>1
  <2>2. level \o words \in Seq(Word) /\ level \o Append(words, w) = Append(level \o words, w)
    BY <2>1
  <2> QED BY <2>2 DEF editPath
<1> HIDE DEF before
<1>4. Append(before, w) \in Seq(Word) /\ Expand(Append(before, w)).err = "nil"
  BY <1>2, <1>3, FrontOfAppend, OfferedExpands
<1>5. checkValidPath(AtEnd(l, c.idx, w))
  <2>1. AtEnd(l, c.idx, w).idx \in Int /\ AtEnd(l, c.idx, w).args = l /\ AtEnd(l, c.idx, w).prefix \in Word
    BY DEF AtEnd
  <2>2. editPath(Tail(AtEnd(l, c.idx, w).args)) = Append(before, w)
    BY <1>1, <1>3, <2>1
  <2> QED BY <1>4, <2>1, <2>2, PathValid
<1>6. checkValidPath(AfterSpace(l, c.idx))
  <2> DEFINE p == Append(before, w)
             b == Append(p, Blank)
             d == AfterSpace(l, c.idx)
  <2>1. d.prefix = Blank /\ d.args = Append(l, Blank)
    BY DEF AfterSpace
  <2>2. b \in Seq(Word) /\ b # <<>> /\ Last(b) = Blank /\ Front(b) = p
    <3> HIDE DEF p
    <3> QED BY <1>0, <1>4, FrontOfAppend DEF p
  <2>3. editPath(Tail(d.args)) = b
    <3>1. Tail(d.args) = Append(Append(words, w), Blank)
      BY <1>1, <2>1
    <3>2. editPath(Append(Append(words, w), Blank)) = Append(editPath(Append(words, w)), Blank)
      <4>1. PICK v \in Seq(Word) : v = Append(words, w)
        BY <1>1, FrontOfAppend
      <4>2. PICK x \in Word : x = Blank
        BY <1>0
      <4>3. level \o Append(v, x) = Append(level \o v, x)
        OBVIOUS
      <4> QED BY <4>1, <4>2, <4>3 DEF editPath
    <3> QED BY <1>3, <3>1, <3>2
  <2> HIDE DEF b, d, p
  <2>4. Expand(Front(b)).err = "nil"
    BY <1>4, <2>2 DEF p
  <2>5. checkValidPath(d)
    BY <2>1, <2>2, <2>3, <2>4, FrontValid
  <2> QED BY <2>5 DEF d
<1> QED BY <1>5, <1>6

-----------------------------------------------------------------------------
\* Keywords, revisions, instances and users.

\* A completed line of n words after the command, the offered one for the last.
Completed(c, n, w, l) ==
  /\ c.args \in Seq(Word) /\ n \in Nat /\ n > 0 /\ Len(c.args) = n + 1 /\ c.idx = n
  /\ c.prefix = c.args[n + 1] /\ Last(c.args) = c.args[n + 1]
  /\ w \in Word /\ l \in Seq(Word) /\ Len(l) = n + 1 /\ l[n + 1] = w
  /\ \A i \in 1..n : l[i] = c.args[i]

LEMMA Removed ==
  ASSUME NEW d, d = [args |-> d.args, idx |-> d.idx, prefix |-> d.prefix], d.args \in Seq(Word), d.args # <<>>
  PROVE  LET r == removeTrailingEmptyArgument(d)
         IN  /\ r.prefix = d.prefix /\ r.idx = d.idx /\ r.args \in Seq(Word)
             /\ Len(r.args) = IF Last(d.args) = Blank THEN Len(d.args) - 1 ELSE Len(d.args)
             /\ \A i \in 1..Len(r.args) : r.args[i] = d.args[i]
<1> DEFINE r == removeTrailingEmptyArgument(d)
<1>1. CASE Last(d.args) # Blank
  BY <1>1 DEF removeTrailingEmptyArgument
<1>2. CASE Last(d.args) = Blank
  <2>1. r = [args |-> Front(d.args), idx |-> d.idx, prefix |-> d.prefix]
    BY <1>2 DEF removeTrailingEmptyArgument
  <2>2. /\ Front(d.args) \in Seq(Word) /\ Len(Front(d.args)) = Len(d.args) - 1
        /\ \A i \in 1..(Len(d.args) - 1) : Front(d.args)[i] = d.args[i]
    BY FrontAndLast
  <2>3. r.args = Front(d.args) /\ r.prefix = d.prefix /\ r.idx = d.idx
    BY <2>1
  <2> HIDE DEF r
  <2> QED BY <1>2, <2>2, <2>3 DEF r
<1> QED BY <1>1, <1>2

\* The words that are left of the three lines.
LEMMA RemovedOf ==
  ASSUME NEW c, c = [args |-> c.args, idx |-> c.idx, prefix |-> c.prefix], NEW n, NEW w, NEW l,
         Completed(c, n, w, l)
  PROVE  /\ removeTrailingEmptyArgument(AfterSpace(l, n)) = [args |-> l, idx |-> n + 1, prefix |-> Blank]
         /\ w # Blank => removeTrailingEmptyArgument(AtEnd(l, n, w)) = AtEnd(l, n, w)
         /\ LET r == removeTrailingEmptyArgument(AtEnd(l, n, w))
            IN  w = Blank => /\ r.args \in Seq(Word) /\ Len(r.args) = n /\ r.prefix = Blank /\ r.idx = n
                             /\ \A i \in 1..n : r.args[i] = l[i]
         /\ LET r == removeTrailingEmptyArgument(c)
            IN  /\ r.args \in Seq(Word) /\ Len(r.args) \in {n, n + 1}
                /\ r.prefix = c.prefix /\ r.idx = n
                /\ Len(r.args) = n => r.prefix = Blank
                /\ \A i \in 1..Len(r.args) : r.args[i] = c.args[i]
<1>0. Blank \in Word
  BY PathAssumption
<1>1. l \in Seq(Word) /\ l # <<>> /\ Len(l) = n + 1 /\ Last(l) = w /\ n \in Nat
  BY DEF Completed, Last
<1>2. removeTrailingEmptyArgument(AfterSpace(l, n)) = [args |-> l, idx |-> n + 1, prefix |-> Blank]
  <2>1. Last(Append(l, Blank)) = Blank /\ Front(Append(l, Blank)) = l
    BY <1>0, <1>1, FrontOfAppend
  <2> QED BY <2>1 DEF removeTrailingEmptyArgument, AfterSpace
<1>3. w # Blank => removeTrailingEmptyArgument(AtEnd(l, n, w)) = AtEnd(l, n, w)
  BY <1>1 DEF removeTrailingEmptyArgument, AtEnd
<1>4. LET r == removeTrailingEmptyArgument(AtEnd(l, n, w))
      IN  w = Blank => /\ r.args \in Seq(Word) /\ Len(r.args) = n /\ r.prefix = Blank /\ r.idx = n
                       /\ \A i \in 1..n : r.args[i] = l[i]
  <2> DEFINE d == AtEnd(l, n, w)
             r == removeTrailingEmptyArgument(d)
  <2> SUFFICES ASSUME w = Blank
               PROVE  /\ r.args \in Seq(Word) /\ Len(r.args) = n /\ r.prefix = Blank /\ r.idx = n
                      /\ \A i \in 1..n : r.args[i] = l[i]
    OBVIOUS
  <2>1. d.args = l /\ d.idx = n /\ d.prefix = w /\ d = [args |-> d.args, idx |-> d.idx, prefix |-> d.prefix]
    BY DEF AtEnd
  <2> HIDE DEF d
  <2>2. /\ r.prefix = d.prefix /\ r.idx = d.idx /\ r.args \in Seq(Word)
        /\ Len(r.args) = IF Last(d.args) = Blank THEN Len(d.args) - 1 ELSE Len(d.args)
        /\ \A i \in 1..Len(r.args) : r.args[i] = d.args[i]
    BY <1>1, <2>1, Removed
  <2> HIDE DEF r
  <2> QED BY <1>1, <2>1, <2>2
<1>5. LET r == removeTrailingEmptyArgument(c)
      IN  /\ r.args \in Seq(Word) /\ Len(r.args) \in {n, n + 1}
          /\ r.prefix = c.prefix /\ r.idx = n
          /\ Len(r.args) = n => r.prefix = Blank
          /\ \A i \in 1..Len(r.args) : r.args[i] = c.args[i]
  <2> DEFINE r == removeTrailingEmptyArgument(c)
  <2>1. c.args \in Seq(Word) /\ c.args # <<>> /\ Len(c.args) = n + 1 /\ Last(c.args) = c.prefix /\ c.idx = n
    BY <1>1 DEF Completed
  <2>2. /\ r.prefix = c.prefix /\ r.idx = c.idx /\ r.args \in Seq(Word)
        /\ Len(r.args) = IF Last(c.args) = Blank THEN Len(c.args) - 1 ELSE Len(c.args)
        /\ \A i \in 1..Len(r.args) : r.args[i] = c.args[i]
    BY <2>1, Removed
  <2> HIDE DEF r
  <2> QED BY <1>1, <2>1, <2>2 DEF r
<1> QED BY <1>2, <1>3, <1>4, <1>5

LEMMA KeywordHere ==
  ASSUME NEW c, c = [args |-> c.args, idx |-> c.idx, prefix |-> c.prefix], NEW n, NEW w, NEW l,
         Completed(c, n, w, l), HasPrefix(w, w)
  PROVE  /\ validateArgumentIfAny(removeTrailingEmptyArgument(AtEnd(l, n, w)), n, w)
         /\ validateArgumentIfAny(removeTrailingEmptyArgument(AfterSpace(l, n)), n, w)
<1>1. n \in Nat /\ Len(l) = n + 1 /\ l[n + 1] = w
  BY DEF Completed
<1>2. validateArgumentIfAny(removeTrailingEmptyArgument(AfterSpace(l, n)), n, w)
  <2> DEFINE d == [args |-> l, idx |-> n + 1, prefix |-> Blank]
  <2>1. NumArgs(d) = n + 1 /\ Arg(d, n) = w
    BY <1>1 DEF NumArgs, Arg
  <2>2. removeTrailingEmptyArgument(AfterSpace(l, n)) = d
    BY RemovedOf
  <2> HIDE DEF d
  <2>3. validateArgumentIfAny(d, n, w)
    BY <1>1, <2>1 DEF validateArgumentIfAny
  <2> QED BY <2>2, <2>3
<1>3. CASE w # Blank
  <2>1. removeTrailingEmptyArgument(AtEnd(l, n, w)) = AtEnd(l, n, w)
    BY <1>3, RemovedOf
  <2>2. NumArgs(AtEnd(l, n, w)) = n + 1 /\ Arg(AtEnd(l, n, w), n) = w
    BY <1>1 DEF NumArgs, Arg, AtEnd
  <2>3. validateArgumentIfAny(AtEnd(l, n, w), n, w)
    BY <1>1, <2>2 DEF validateArgumentIfAny
  <2> QED BY <1>2, <2>1, <2>3
<1>4. CASE w = Blank
  <2>1. PICK r : r = removeTrailingEmptyArgument(AtEnd(l, n, w)) /\ Len(r.args) = n
    BY <1>4, RemovedOf
  <2>2. NumArgs(r) = n
    BY <1>1, <2>1 DEF NumArgs
  <2>3. validateArgumentIfAny(r, n, w)
    BY <1>1, <2>2 DEF validateArgumentIfAny
  <2> QED BY <1>2, <2>1, <2>3
<1> QED BY <1>3, <1>4

LEMMA CommitAccepted ==
  ASSUME NEW c, c = [args |-> c.args, idx |-> c.idx, prefix |-> c.prefix], NEW n, NEW w, NEW l,
         Completed(c, n, w, l)
  PROVE  /\ w \in commitComp(c) => commitValid(AtEnd(l, n, w)) /\ commitValid(AfterSpace(l, n))
         /\ w \in confirmComp(c) => confirmValid(AtEnd(l, n, w)) /\ confirmValid(AfterSpace(l, n))
<1>1. c.idx = n
  BY DEF Completed
<1>2. HasPrefix("comment", "comment") /\ HasPrefix("persist-id", "persist-id")
  BY PathAssumption, CliAssumption DEF HasPrefix
<1>3. ASSUME w \in commitComp(c) PROVE commitValid(AtEnd(l, n, w)) /\ commitValid(AfterSpace(l, n))
  <2>1. n = 1 /\ w = "comment"
    BY <1>1, <1>3 DEF commitComp, keywordComp
  <2>2. /\ validateArgumentIfAny(removeTrailingEmptyArgument(AtEnd(l, n, w)), n, w)
        /\ validateArgumentIfAny(removeTrailingEmptyArgument(AfterSpace(l, n)), n, w)
    BY <1>2, <2>1, KeywordHere
  <2> QED BY <2>1, <2>2 DEF commitValid
<1>4. ASSUME w \in confirmComp(c) PROVE confirmValid(AtEnd(l, n, w)) /\ confirmValid(AfterSpace(l, n))
  <2>1. n = 1 /\ w = "persist-id"
    BY <1>1, <1>4 DEF confirmComp, keywordComp
  <2>2. /\ validateArgumentIfAny(removeTrailingEmptyArgument(AtEnd(l, n, w)), n, w)
        /\ validateArgumentIfAny(removeTrailingEmptyArgument(AfterSpace(l, n)), n, w)
    BY <1>2, <2>1, KeywordHere
  <2> QED BY <2>1, <2>2 DEF confirmValid
<1> QED BY <1>3, <1>4

LEMMA CommitConfirmAccepted ==
  ASSUME NEW c, c = [args |-> c.args, idx |-> c.idx, prefix |-> c.prefix], NEW n, NEW w, NEW l,
         Completed(c, n, w, l), w \in commitConfComp(c), commitConfValid(c)
  PROVE  commitConfValid(AtEnd(l, n, w)) /\ commitConfValid(AfterSpace(l, n))
<1>1. c.idx = n /\ n \in Nat /\ Len(c.args) = n + 1 /\ Len(l) = n + 1 /\ l[2] = c.args[2]
  <2>1. n = 2
    BY DEF commitConfComp, keywordComp, Completed
  <2> QED BY <2>1 DEF Completed
<1>2. n = 2 /\ w = "comment"
  BY <1>1 DEF commitConfComp, keywordComp
<1>3. HasPrefix("comment", "comment")
  BY PathAssumption, CliAssumption DEF HasPrefix
<1>4. /\ validateArgumentIfAny(removeTrailingEmptyArgument(AtEnd(l, n, w)), n, w)
      /\ validateArgumentIfAny(removeTrailingEmptyArgument(AfterSpace(l, n)), n, w)
  BY <1>2, <1>3, KeywordHere
<1>5. IsNumber(l[2]) /\ Number[l[2]] > 0
  <2>1. PICK r : /\ r = removeTrailingEmptyArgument(c) /\ Len(r.args) \in {n, n + 1}
                 /\ \A i \in 1..Len(r.args) : r.args[i] = c.args[i]
    BY RemovedOf
  <2>2. NumArgs(r) >= 2 /\ Arg(r, 1) = c.args[2]
    BY <1>2, <2>1 DEF NumArgs, Arg
  <2>3. IsNumber(Arg(r, 1)) /\ Number[Arg(r, 1)] > 0
    BY <2>1, <2>2 DEF commitConfValid
  <2> QED BY <1>1, <2>2, <2>3
<1>6. ASSUME NEW d, NumArgs(d) > 1, validateArgumentIfAny(removeTrailingEmptyArgument(d), 2, "comment"),
             Arg(removeTrailingEmptyArgument(d), 1) = l[2]
      PROVE  commitConfValid(d)
  BY <1>5, <1>6 DEF commitConfValid
<1>7. NumArgs(AtEnd(l, n, w)) > 1 /\ Arg(removeTrailingEmptyArgument(AtEnd(l, n, w)), 1) = l[2]
  <2>1. NumArgs(AtEnd(l, n, w)) > 1
    BY <1>1, <1>2 DEF NumArgs, AtEnd
  <2>2. CASE w # Blank
    BY <2>1, <2>2, RemovedOf DEF Arg, AtEnd
  <2>3. CASE w = Blank
    <3>1. PICK r : r = removeTrailingEmptyArgument(AtEnd(l, n, w)) /\ \A i \in 1..n : r.args[i] = l[i]
      BY <2>3, RemovedOf
    <3>2. 2 \in 1..n
      BY <1>2
    <3> QED BY <2>1, <3>1, <3>2 DEF Arg
  <2> QED BY <2>2, <2>3
<1>8. NumArgs(AfterSpace(l, n)) > 1 /\ Arg(removeTrailingEmptyArgument(AfterSpace(l, n)), 1) = l[2]
  <2>1. removeTrailingEmptyArgument(AfterSpace(l, n)) = [args |-> l, idx |-> n + 1, prefix |-> Blank]
    BY RemovedOf
  <2>2. Len(Append(l, Blank)) = n + 2
    BY <1>1, PathAssumption, SMTT(30) DEF Completed
  <2> QED BY <1>2, <2>1, <2>2 DEF Arg, NumArgs, AfterSpace
<1> QED BY <1>2, <1>4, <1>6, <1>7, <1>8

LEMMA RollbackAccepted ==
  ASSUME NEW c, c = [args |-> c.args, idx |-> c.idx, prefix |-> c.prefix], NEW n, NEW w, NEW l,
         Completed(c, n, w, l), w \in rollbackComp(c)
  PROVE  rollbackValid(AtEnd(l, n, w)) /\ rollbackValid(AfterSpace(l, n))
<1>1. c.idx = n /\ n \in Nat /\ Len(l) = n + 1
  BY DEF Completed
<1>2. HasPrefix("comment", "comment")
  BY PathAssumption, CliAssumption DEF HasPrefix
<1>3. CASE n = 1
  <2>1. NumArgs(AtEnd(l, n, w)) <= 2
    <3>1. AtEnd(l, n, w).args = l /\ Len(l) = 2
      BY <1>1, <1>3 DEF AtEnd
    <3> QED BY <3>1 DEF NumArgs
  <2>2. removeTrailingEmptyArgument(AfterSpace(l, n)) = [args |-> l, idx |-> n + 1, prefix |-> Blank]
    BY RemovedOf
  <2>3. PICK r : r = removeTrailingEmptyArgument(AfterSpace(l, n)) /\ NumArgs(r) = 2
    BY <1>1, <1>3, <2>2 DEF NumArgs
  <2>4. validateArgumentIfAny(r, 2, "comment")
    BY <2>3 DEF validateArgumentIfAny
  <2> QED BY <2>1, <2>3, <2>4 DEF rollbackValid
<1>4. CASE n = 2
  <2>1. w = "comment"
    BY <1>1, <1>4 DEF rollbackComp
  <2>2. /\ validateArgumentIfAny(removeTrailingEmptyArgument(AtEnd(l, n, w)), n, w)
        /\ validateArgumentIfAny(removeTrailingEmptyArgument(AfterSpace(l, n)), n, w)
    BY <1>2, <2>1, KeywordHere
  <2> QED BY <1>4, <2>1, <2>2 DEF rollbackValid
<1>5. n = 1 \/ n = 2
  BY <1>1 DEF rollbackComp
<1> QED BY <1>3, <1>4, <1>5

LEMMA CompareAccepted ==
  ASSUME NEW c, NEW n, NEW w, NEW l, Completed(c, n, w, l), w \in compareComp(c), compareValid(c)
  PROVE  compareValid(AtEnd(l, n, w)) /\ compareValid(AfterSpace(l, n))
<1>1. /\ c.idx = n /\ n \in Nat /\ Len(c.args) = n + 1 /\ Len(l) = n + 1 /\ l[n + 1] = w
      /\ \A i \in 1..n : l[i] = c.args[i]
  BY DEF Completed
<1>2. HasConfigMgmt /\ n \in {1, 2}
  BY <1>1 DEF compareComp
<1>3. \A v \in Revision : IsNumber(v)
  BY CliAssumption DEF IsNumber
<1>4. HasPrefix("saved", "saved")
  BY PathAssumption, CliAssumption DEF HasPrefix
<1> DEFINE d == AtEnd(l, n, w)
           e == AfterSpace(l, n)
<1>5. /\ NumArgs(d) = n + 1 /\ d.idx = n /\ d.prefix = w /\ Arg(d, 1) = l[2]
      /\ NumArgs(e) = n + 2 /\ e.idx = n + 1 /\ e.prefix = Blank /\ Arg(e, 1) = l[2]
  <2>1. Len(Append(l, Blank)) = n + 2 /\ Append(l, Blank)[2] = l[2]
    BY <1>1, <1>2, PathAssumption DEF Completed
  <2> QED BY <1>1, <2>1 DEF AtEnd, AfterSpace, NumArgs, Arg
<1> HIDE DEF d, e
<1>6. CASE n = 1
  <2>1. w = "saved" \/ w \in Revision
    BY <1>1, <1>2, <1>6 DEF compareComp
  <2>2. compareValid(d)
    BY <1>2, <1>3, <1>4, <1>5, <1>6, <2>1 DEF compareValid
  <2>3. HasPrefix("saved", l[2]) \/ IsNumber(l[2])
    BY <1>1, <1>3, <1>4, <1>6, <2>1
  <2>4. compareValid(e)
    BY <1>2, <1>5, <1>6, <2>3 DEF compareValid
  <2> QED BY <2>2, <2>4 DEF d, e
<1>7. CASE n = 2
  <2>1. ~HasPrefix("saved", c.args[2]) /\ w \in Revision
    BY <1>1, <1>2, <1>7 DEF compareComp, Arg
  <2>2. IsNumber(c.args[2])
    BY <1>1, <1>2, <1>7, <2>1 DEF compareValid, Arg, NumArgs
  <2>3. l[2] = c.args[2]
    BY <1>1, <1>7
  <2>4. compareValid(d)
    BY <1>2, <1>3, <1>5, <1>7, <2>1, <2>2, <2>3 DEF compareValid
  <2>5. compareValid(e)
    BY <1>2, <1>5, <1>7, <2>1, <2>3 DEF compareValid, AtMost
  <2> QED BY <2>4, <2>5 DEF d, e
<1> QED BY <1>2, <1>6, <1>7

LEMMA OthersAccepted ==
  ASSUME NEW c, NEW n, NEW w, NEW l, Completed(c, n, w, l)
  PROVE  /\ w \in exitComp(c) => exitValid(AtEnd(l, n, w)) /\ exitValid(AfterSpace(l, n))
         /\ \A k \in {0, 1} : w \in loadsaveComp(c, k) =>
              loadsaveValid(AtEnd(l, n, w), k) /\ loadsaveValid(AfterSpace(l, n), k)
         /\ w \in loadkeyComp(c) => loadKeyValid(AtEnd(l, n, w)) /\ loadKeyValid(AfterSpace(l, n))
<1>1. c.idx = n /\ n \in Nat /\ n > 0
  BY DEF Completed
<1>2. /\ AtEnd(l, n, w).idx = n /\ AtEnd(l, n, w).prefix = w
      /\ AfterSpace(l, n).idx = n + 1 /\ AfterSpace(l, n).prefix = Blank
  BY DEF AtEnd, AfterSpace
<1>3. w \in exitComp(c) => exitValid(AtEnd(l, n, w)) /\ exitValid(AfterSpace(l, n))
  <2>1. HasPrefix("discard", "discard")
    BY PathAssumption, CliAssumption DEF HasPrefix
  <2> QED BY <1>1, <1>2, <2>1 DEF exitComp, keywordComp, exitValid
<1>4. ASSUME NEW k \in {0, 1}, w \in loadsaveComp(c, k)
      PROVE  loadsaveValid(AtEnd(l, n, w), k) /\ loadsaveValid(AfterSpace(l, n), k)
  <2>1. HasRoutingInstance /\ n \in {k + 1, k + 2}
    BY <1>1, <1>4 DEF loadsaveComp
  <2> QED BY <1>1, <1>2, <2>1 DEF loadsaveValid
<1>5. w \in loadkeyComp(c) => loadKeyValid(AtEnd(l, n, w)) /\ loadKeyValid(AfterSpace(l, n))
  <2>1. CASE n = 1
    BY <1>1, <1>2, <2>1 DEF loadKeyValid, loadsaveValid
  <2>2. CASE n # 1
    BY <1>1, <1>4, <2>2 DEF loadkeyComp, loadKeyValid
  <2> QED BY <2>1, <2>2
<1> QED BY <1>3, <1>4, <1>5

-----------------------------------------------------------------------------
\* The words of cancel-commit.

Defs == [match : Keyword \cup {Blank}, needarg : BOOLEAN, ok : BOOLEAN,
         pos : [Keyword -> Nat], arg : [Keyword -> Word], argpresent : SUBSET Keyword]
DefsOK(d) == d \in Defs /\ (d.needarg => d.match \in Keyword)

LEMMA NoDefsTyped == DefsOK(NoDefs) /\ NoDefs.ok
BY PathAssumption DEF NoDefs, Defs, DefsOK

\* What a word does to what the words before it say.
LEMMA WordParsed ==
  ASSUME NEW c, NEW i \in Nat, Arg(c, i + 1) \in Word, NEW d, DefsOK(d)
  PROVE  /\ DefsOK(validateWord(c, i, d))
         /\ ~d.ok => ~validateWord(c, i, d).ok
         /\ d.ok /\ d.needarg => validateWord(c, i, d).ok
         /\ d.ok /\ matchKeyword(c, i, Arg(c, i + 1)) # {} => validateWord(c, i, d).ok
<1> DEFINE val == Arg(c, i + 1)
           found == matchKeyword(c, i, val)
           k == CHOOSE k \in found : TRUE
           v == validateWord(c, i, d)
<1>0. d.ok \in BOOLEAN /\ d.needarg \in BOOLEAN /\ d \in Defs
  BY DEF Defs, DefsOK
<1>1. found \subseteq Keyword
  BY DEF matchKeyword
<1>2. CASE ~d.ok
  <2>1. v = d
    BY <1>0, <1>2 DEF validateWord
  <2> QED BY <1>2, <2>1
<1>3. CASE d.ok /\ d.needarg
  <2>1. v = [d EXCEPT !.needarg = FALSE, !.arg[d.match] = val, !.argpresent = @ \cup {d.match}]
    BY <1>0, <1>3 DEF validateWord
  <2>2. d.match \in Keyword
    BY <1>3 DEF DefsOK
  <2> HIDE DEF val, found, v
  <2>3. v \in Defs
    BY <1>0, <2>1, <2>2 DEF Defs, val
  <2>4. v.ok /\ ~v.needarg
    BY <1>0, <1>3, <2>1 DEF Defs
  <2> QED BY <1>3, <2>3, <2>4 DEF DefsOK, v
<1>4. CASE d.ok /\ ~d.needarg /\ found = {}
  <2>1. v = [d EXCEPT !.ok = FALSE]
    BY <1>0, <1>4 DEF validateWord
  <2> HIDE DEF val, found, v
  <2>2. v \in Defs /\ ~v.ok /\ ~v.needarg
    BY <1>0, <1>4, <2>1 DEF Defs
  <2> QED BY <1>4, <2>2 DEF DefsOK, v, found, val
<1>5. CASE d.ok /\ ~d.needarg /\ found # {}
  <2>1. v = [d EXCEPT !.match = IF k \in NeedArg THEN k ELSE Blank,
                      !.needarg = k \in NeedArg, !.pos[k] = i + 1]
    BY <1>0, <1>5 DEF validateWord
  <2>2. k \in Keyword
    BY <1>1, <1>5
  <2> HIDE DEF val, found, k, v
  <2>3. v \in Defs
    <3>1. d.pos \in [Keyword -> Nat] /\ i + 1 \in Nat
      BY <1>0 DEF Defs
    <3>2. PICK ps : ps = [d.pos EXCEPT ![k] = i + 1]
      OBVIOUS
    <3>3. ps \in [Keyword -> Nat]
      BY <3>1, <3>2
    <3>4. CASE k \in NeedArg
      <4>1. v = [d EXCEPT !.match = k, !.needarg = TRUE, !.pos = ps]
        BY <1>0, <2>1, <3>2, <3>4 DEF Defs
      <4> QED BY <1>0, <2>2, <3>3, <4>1 DEF Defs
    <3>5. CASE k \notin NeedArg
      <4>1. (k \in NeedArg) = FALSE /\ (IF k \in NeedArg THEN k ELSE Blank) = Blank
        BY <3>5
      <4>2. v = [d EXCEPT !.match = Blank, !.needarg = FALSE, !.pos[k] = i + 1]
        BY <2>1, <4>1, Zenon
      <4>3. v = [d EXCEPT !.match = Blank, !.needarg = FALSE, !.pos = ps]
        BY <1>0, <3>2, <4>2 DEF Defs
      <4> QED BY <1>0, <3>3, <4>3 DEF Defs
    <3> QED BY <3>4, <3>5
  <2>4. v.ok /\ (v.needarg => v.match \in Keyword)
    BY <1>0, <1>5, <2>1, <2>2 DEF Defs
  <2> QED BY <1>5, <2>3, <2>4 DEF DefsOK, v
<1> QED BY <1>0, <1>2, <1>3, <1>4, <1>5

\* The loop of processCancelCommitCmd.
Parsed(f, n, c) ==
  f = [i \in 0..n |-> IF i = 0 THEN NoDefs ELSE validateWord(c, i - 1, f[i - 1])]

LEMMA ParsedExists ==
  ASSUME NEW c, NEW n \in Nat
  PROVE  \E f : Parsed(f, n, c)
<1> DEFINE Bad == {k \in Nat : ~\E f : Parsed(f, k, c)}
<1> SUFFICES ASSUME Bad # {} PROVE FALSE
  OBVIOUS
<1>1. PICK k \in Bad : \A m \in Bad : k <= m
  BY LeastNumber
<1>2. k # 0
  <2>1. \A i \in 0..0 : i = 0
    OBVIOUS
  <2>2. Parsed([i \in 0..0 |-> NoDefs], 0, c)
    BY <2>1 DEF Parsed
  <2> QED BY <2>2
<1>3. k - 1 \in Nat /\ k - 1 \notin Bad
  BY <1>1, <1>2
<1>4. PICK f : Parsed(f, k - 1, c)
  BY <1>3
<1> DEFINE g == [i \in 0..k |-> IF i = k THEN validateWord(c, k - 1, f[k - 1]) ELSE f[i]]
<1>5. \A i \in 0..k : g[i] = IF i = 0 THEN NoDefs ELSE validateWord(c, i - 1, g[i - 1])
  BY <1>2, <1>4 DEF Parsed
<1>6. Parsed(g, k, c)
  BY <1>5 DEF Parsed
<1> QED BY <1>6, <1>1

LEMMA ParsedOf ==
  ASSUME NEW ctx, NEW r, r = removeTrailingEmptyArgument(ctx), NEW n \in Nat, Len(r.args) = n + 1
  PROVE  \E f : Parsed(f, n, r) /\ processCancelCommitCmd(ctx) = f[n]
<1>1. \E f : Parsed(f, n, r)
  BY ParsedExists
<1>2. NumArgs(r) - 1 = n
  BY DEF NumArgs
<1> QED BY <1>1, <1>2 DEF processCancelCommitCmd, Parsed

\* All of it is typed, and an error stays.
LEMMA ParsedTyped ==
  ASSUME NEW c, c.args \in Seq(Word), NEW n \in Nat, n < Len(c.args), NEW f, Parsed(f, n, c)
  PROVE  \A i \in 0..n : DefsOK(f[i])
<1> DEFINE Bad == {i \in 0..n : ~DefsOK(f[i])}
<1> SUFFICES ASSUME Bad # {} PROVE FALSE
  OBVIOUS
<1>1. Bad \subseteq Nat
  OBVIOUS
<1>2. PICK k \in Bad : \A i \in Bad : k <= i
  BY <1>1, LeastNumber
<1>3. k # 0
  BY <1>2, NoDefsTyped DEF Parsed
<1>4. PICK m \in Nat : m = k - 1 /\ m \in 0..n /\ m \notin Bad /\ DefsOK(f[m])
  BY <1>2, <1>3
<1>5. f[k] = validateWord(c, m, f[m])
  BY <1>2, <1>3, <1>4 DEF Parsed
<1>6. Arg(c, m + 1) \in Word
  BY <1>2, <1>4 DEF Arg
<1>7. DefsOK(validateWord(c, m, f[m]))
  BY <1>4, <1>6, WordParsed
<1> QED BY <1>2, <1>5, <1>7

\* Where the cursor is not, the words alone count.
NotHere(c, n) == \A i \in 0..(n - 1) : c.prefix = Blank \/ c.idx # i + 1
SameWords(c, d, n) == \A i \in 1..(n + 1) : c.args[i] = d.args[i]

LEMMA ParsedAgree ==
  ASSUME NEW c, NEW d, NEW m \in Nat, NEW n \in Nat, NEW k \in Nat, k <= m, k <= n, NEW f, NEW g,
         Parsed(f, m, c), Parsed(g, n, d), NotHere(c, k), NotHere(d, k), SameWords(c, d, k)
  PROVE  f[k] = g[k]
<1> DEFINE Bad == {i \in 0..k : f[i] # g[i]}
<1> SUFFICES ASSUME Bad # {} PROVE FALSE
  OBVIOUS
<1>1. Bad \subseteq Nat
  OBVIOUS
<1>2. PICK b \in Bad : \A i \in Bad : b <= i
  BY <1>1, LeastNumber
<1>3. b # 0
  BY <1>2 DEF Parsed
<1>4. PICK a \in Nat : a = b - 1 /\ a \in 0..(k - 1) /\ a \notin Bad /\ f[a] = g[a]
  BY <1>2, <1>3
<1>5. Arg(c, a + 1) = Arg(d, a + 1)
  BY <1>4 DEF Arg, SameWords
<1>6. (c.prefix = Blank \/ c.idx # a + 1) /\ (d.prefix = Blank \/ d.idx # a + 1)
  BY <1>4 DEF NotHere
<1>7. \A val : matchKeyword(c, a, val) = matchKeyword(d, a, val)
  BY <1>6 DEF matchKeyword
<1>8. \A x : validateWord(c, a, x) = validateWord(d, a, x)
  BY <1>5, <1>7 DEF validateWord
<1>9. f[b] = validateWord(c, a, f[a]) /\ g[b] = validateWord(d, a, g[a])
  BY <1>2, <1>3, <1>4 DEF Parsed
<1> QED BY <1>2, <1>4, <1>8, <1>9

LEMMA ParsedStep ==
  ASSUME NEW c, NEW n \in Nat, NEW k \in Nat, k < n, NEW f, Parsed(f, n, c)
  PROVE  f[k + 1] = validateWord(c, k, f[k])
<1>1. k + 1 \in 0..n /\ k + 1 # 0 /\ (k + 1) - 1 = k
  OBVIOUS
<1> QED BY <1>1 DEF Parsed

\* An offered keyword is one that may follow.
LEMMA CancelAccepted ==
  ASSUME NEW c, c = [args |-> c.args, idx |-> c.idx, prefix |-> c.prefix], NEW n, NEW w, NEW l,
         Completed(c, n, w, l), w \in cancelcommitComp(c), cancelcommitValid(c)
  PROVE  cancelcommitValid(AtEnd(l, n, w)) /\ cancelcommitValid(AfterSpace(l, n))
<1>1. /\ n \in Nat /\ n > 0 /\ c.idx = n /\ Len(c.args) = n + 1 /\ l \in Seq(Word) /\ Len(l) = n + 1
      /\ l[n + 1] = w /\ w \in Word /\ \A i \in 1..n : l[i] = c.args[i]
  BY DEF Completed
<1>2. PICK m \in Nat : m = n - 1
  BY <1>1
<1>3. w \in Keyword /\ (w \in AtStart => m = 0)
  <2>1. w \in Keyword /\ (w \in AtStart => NumArgs(c) <= 2)
    BY DEF cancelcommitComp
  <2> QED BY <1>1, <1>2, <2>1 DEF NumArgs
<1>4. PICK r : /\ r = removeTrailingEmptyArgument(c)
               /\ r.args \in Seq(Word) /\ Len(r.args) \in {n, n + 1}
               /\ r.prefix = c.prefix /\ r.idx = n
               /\ \A i \in 1..Len(r.args) : r.args[i] = c.args[i]
  BY RemovedOf
<1>5. PICK a \in Nat : Len(r.args) = a + 1 /\ (a = m \/ a = n) /\ m <= a
  <2>1. CASE Len(r.args) = n
    <3>1. Len(r.args) = m + 1 /\ m <= m
      BY <1>1, <1>2, <2>1
    <3> QED BY <3>1
  <2>2. CASE Len(r.args) = n + 1
    <3>1. m <= n
      BY <1>1, <1>2
    <3> QED BY <1>1, <2>2, <3>1
  <2> QED BY <1>4, <2>1, <2>2
<1>6. PICK f : Parsed(f, a, r) /\ processCancelCommitCmd(c) = f[a]
  BY <1>4, <1>5, ParsedOf
<1>7. f[a].ok
  BY <1>1, <1>6 DEF cancelcommitValid, NumArgs
<1>8. \A i \in 0..a : DefsOK(f[i])
  <2>1. a < Len(r.args)
    BY <1>5
  <2> QED BY <1>4, <1>6, <2>1, ParsedTyped
<1>9. f[m].ok /\ DefsOK(f[m])
  <2>1. DefsOK(f[m])
    BY <1>5, <1>8
  <2>2. CASE a = m
    BY <1>7, <2>1, <2>2
  <2>3. CASE a = n
    <3>1. f[n] = validateWord(r, m, f[m])
      BY <1>1, <1>2, <1>6, <2>3 DEF Parsed
    <3>2. Arg(r, m + 1) \in Word
      BY <1>2, <1>4, <1>5, <2>3 DEF Arg
    <3>3. ~f[m].ok => ~validateWord(r, m, f[m]).ok
      BY <2>1, <3>2, WordParsed
    <3> QED BY <1>7, <2>1, <2>3, <3>1, <3>3
  <2> QED BY <1>5, <2>2, <2>3
<1>10. NotHere(r, m) /\ \A i \in 1..n : r.args[i] = l[i]
  BY <1>1, <1>2, <1>4 DEF NotHere
<1>11. ASSUME NEW e, NEW b \in Nat, m <= b, NEW g, Parsed(g, b, e), e.prefix = Blank \/ e.idx = n,
              \A i \in 1..n : e.args[i] = l[i]
       PROVE  g[m] = f[m]
  <2>1. NotHere(e, m)
    <3> SUFFICES ASSUME NEW i \in 0..(m - 1) PROVE e.prefix = Blank \/ e.idx # i + 1
      BY DEF NotHere
    <3>1. n # i + 1
      BY <1>1, <1>2
    <3> QED BY <1>11, <3>1
  <2>2. SameWords(r, e, m)
    <3>1. m + 1 = n
      BY <1>1, <1>2
    <3> QED BY <1>10, <1>11, <3>1 DEF SameWords
  <2> QED BY <1>5, <1>6, <1>10, <1>11, <2>1, <2>2, ParsedAgree
<1>12. ASSUME NEW e, NEW g, Parsed(g, n, e), e.prefix = Blank \/ e.idx = n, e.args = l
       PROVE  g[n].ok
  <2>1. m <= n
    BY <1>1, <1>2
  <2>2. g[m] = f[m]
    BY <1>1, <1>11, <1>12, <2>1
  <2>3. g[n] = validateWord(e, m, g[m])
    <3>1. m < n /\ m + 1 = n
      BY <1>1, <1>2
    <3>2. g[m + 1] = validateWord(e, m, g[m])
      BY <1>1, <1>12, <3>1, ParsedStep
    <3> QED BY <3>1, <3>2
  <2>4. Arg(e, m + 1) = w
    BY <1>1, <1>2, <1>12 DEF Arg
  <2>5. HasPrefix(w, w)
    BY <1>1, PathAssumption DEF HasPrefix
  <2>6. w \in matchKeyword(e, m, w)
    BY <1>3, <2>5 DEF matchKeyword
  <2>7. validateWord(e, m, g[m]).ok
    BY <1>1, <1>9, <2>2, <2>4, <2>6, WordParsed
  <2> QED BY <2>3, <2>7
<1>13. cancelcommitValid(AtEnd(l, n, w))
  <2>1. CASE w # Blank
    <3>0. PICK e : e = AtEnd(l, n, w)
      OBVIOUS
    <3>1. e = AtEnd(l, n, w) /\ e.args = l /\ e.idx = n
      BY <3>0 DEF AtEnd
    <3>2. e = removeTrailingEmptyArgument(AtEnd(l, n, w)) /\ Len(e.args) = n + 1
      BY <1>1, <2>1, <3>1, RemovedOf
    <3>3. PICK g : Parsed(g, n, e) /\ processCancelCommitCmd(AtEnd(l, n, w)) = g[n]
      BY <1>1, <3>2, ParsedOf
    <3> QED BY <1>12, <3>1, <3>3 DEF cancelcommitValid
  <2>2. CASE w = Blank
    <3>1. PICK e : /\ e = removeTrailingEmptyArgument(AtEnd(l, n, w)) /\ Len(e.args) = n
                   /\ e.prefix = Blank /\ \A i \in 1..n : e.args[i] = l[i]
      BY <2>2, RemovedOf
    <3>2. Len(e.args) = m + 1
      BY <1>1, <1>2, <3>1
    <3>3. PICK g : Parsed(g, m, e) /\ processCancelCommitCmd(AtEnd(l, n, w)) = g[m]
      BY <3>1, <3>2, ParsedOf
    <3>4. g[m] = f[m]
      BY <1>11, <3>1, <3>3
    <3> QED BY <1>9, <3>3, <3>4 DEF cancelcommitValid
  <2> QED BY <2>1, <2>2
<1>14. cancelcommitValid(AfterSpace(l, n))
  <2>1. PICK e : e = [args |-> l, idx |-> n + 1, prefix |-> Blank]
    OBVIOUS
  <2>2. e = removeTrailingEmptyArgument(AfterSpace(l, n)) /\ Len(e.args) = n + 1
    BY <1>1, <2>1, RemovedOf
  <2>3. PICK g : Parsed(g, n, e) /\ processCancelCommitCmd(AfterSpace(l, n)) = g[n]
    BY <1>1, <2>2, ParsedOf
  <2>4. e.prefix = Blank /\ e.args = l
    BY <2>1
  <2> QED BY <1>12, <2>3, <2>4 DEF cancelcommitValid
<1> QED BY <1>13, <1>14

\* Whatever the command, the line with the offered word is valid.
LEMMA OfferAccepted ==
  ASSUME level \in Seq(Word), Configuration(cand),
         NEW c, c = [args |-> c.args, idx |-> c.idx, prefix |-> c.prefix], NEW n, NEW w, NEW l,
         Completed(c, n, w, l), InPlace(c.args, w, l), Valid(c), w \in Offered(c)
  PROVE  Valid(AtEnd(l, n, w)) /\ Valid(AfterSpace(l, n))
<1> DEFINE d == AtEnd(l, n, w)
           e == AfterSpace(l, n)
           cmd == c.args[1]
<1>1. c.idx = n /\ n \in Nat /\ n > 0 /\ Len(c.args) = n + 1 /\ c.args \in Seq(Word) /\ w \in Word
  BY DEF Completed
<1>2. Arg(c, 0) = cmd /\ Arg(d, 0) = cmd /\ Arg(e, 0) = cmd
  <2>1. l \in Seq(Word) /\ l # <<>> /\ l[1] = c.args[1]
    BY DEF Completed
  <2>2. Append(l, Blank)[1] = l[1]
    BY <2>1, PathAssumption
  <2> QED BY <2>1, <2>2 DEF Arg, AtEnd, AfterSpace
<1> HIDE DEF cmd, d, e
<1>3. CASE cmd \in PathCommand
  <2>1. w \in pathComp(c)
    BY <1>2, <1>3 DEF Offered, PathCommand
  <2>2. checkValidPath(d) /\ checkValidPath(e)
    BY <1>1, <2>1, PathAccepted DEF d, e
  <2> QED BY <1>2, <1>3, <2>2 DEF Valid, PathCommand, SingleCommand, d, e
<1>4. CASE cmd \in {"commit", "confirm"}
  <2>1. cmd \notin PathCommand /\ cmd \notin SingleCommand
    BY <1>4 DEF PathCommand, SingleCommand
  <2>2. cmd = "commit" => commitValid(d) /\ commitValid(e)
    BY <1>2, <2>1, CommitAccepted DEF Offered, d, e
  <2>3. cmd = "confirm" => confirmValid(d) /\ confirmValid(e)
    BY <1>2, <2>1, CommitAccepted DEF Offered, d, e
  <2> QED BY <1>2, <1>4, <2>1, <2>2, <2>3 DEF Valid, d, e
<1>5. CASE cmd = "commit-confirm"
  <2>1. cmd \notin PathCommand /\ cmd \notin SingleCommand
    BY <1>5 DEF PathCommand, SingleCommand
  <2>2. w \in commitConfComp(c) /\ commitConfValid(c)
    BY <1>2, <1>5, <2>1 DEF Offered, Valid
  <2>3. commitConfValid(d) /\ commitConfValid(e)
    BY <2>2, CommitConfirmAccepted DEF d, e
  <2> QED BY <1>2, <1>5, <2>1, <2>3 DEF Valid, d, e
<1>6. CASE cmd = "cancel-commit"
  <2>1. cmd \notin PathCommand /\ cmd \notin SingleCommand
    BY <1>6 DEF PathCommand, SingleCommand
  <2>2. w \in cancelcommitComp(c) /\ cancelcommitValid(c)
    BY <1>2, <1>6, <2>1 DEF Offered, Valid
  <2>3. cancelcommitValid(d) /\ cancelcommitValid(e)
    BY <2>2, CancelAccepted DEF d, e
  <2> QED BY <1>2, <1>6, <2>1, <2>3 DEF Valid, d, e
<1>7. CASE cmd = "rollback"
  <2>1. cmd \notin PathCommand /\ cmd \notin SingleCommand
    BY <1>7 DEF PathCommand, SingleCommand
  <2>2. w \in rollbackComp(c)
    BY <1>2, <1>7, <2>1 DEF Offered
  <2>3. rollbackValid(d) /\ rollbackValid(e)
    BY <2>2, RollbackAccepted DEF d, e
  <2> QED BY <1>2, <1>7, <2>1, <2>3 DEF Valid, d, e
<1>8. CASE cmd = "compare"
  <2>1. cmd \notin PathCommand /\ cmd \notin SingleCommand
    BY <1>8 DEF PathCommand, SingleCommand
  <2>2. w \in compareComp(c) /\ compareValid(c)
    BY <1>2, <1>8, <2>1 DEF Offered, Valid
  <2>3. compareValid(d) /\ compareValid(e)
    BY <2>2, CompareAccepted DEF d, e
  <2> QED BY <1>2, <1>8, <2>1, <2>3 DEF Valid, d, e
<1>9. CASE cmd \in {"exit", "load", "save", "loadkey"}
  <2>1. cmd \notin PathCommand /\ cmd \notin SingleCommand
    BY <1>9 DEF PathCommand, SingleCommand
  <2>2. cmd = "exit" => w \in exitComp(c)
    BY <1>2, <2>1 DEF Offered
  <2>3. cmd \in {"load", "save"} => w \in loadsaveComp(c, 0)
    BY <1>2, <2>1 DEF Offered, loadComp, saveComp
  <2>4. cmd = "loadkey" => w \in loadkeyComp(c)
    BY <1>2, <2>1 DEF Offered
  <2>5. /\ cmd = "exit" => exitValid(d) /\ exitValid(e)
        /\ cmd = "loadkey" => loadKeyValid(d) /\ loadKeyValid(e)
    BY <2>2, <2>4, OthersAccepted DEF d, e
  <2>6. cmd \in {"load", "save"} => loadsaveValid(d, 0) /\ loadsaveValid(e, 0)
    BY <2>3, OthersAccepted DEF d, e
  <2> QED BY <1>2, <1>9, <2>1, <2>5, <2>6 DEF Valid, d, e
<1>10. cmd \in PathCommand \/ cmd \in {"commit", "confirm", "commit-confirm", "cancel-commit", "rollback",
                                      "compare", "exit", "load", "save", "loadkey"}
  BY <1>2 DEF Offered
<1> QED BY <1>3, <1>4, <1>5, <1>6, <1>7, <1>8, <1>9, <1>10

\* Completion never offers a word that the command's validator then refuses, at
\* the word's end or after a space: for every schema, every configuration and
\* every line, at every level.
THEOREM OffersAlwaysAccepted == Spec => []OfferedIsAccepted
<1>1. Inv => OfferedIsAccepted
  <2> SUFFICES ASSUME Inv, line # <<>>, ExpandCommand(Head(line)) # Blank, NEW space \in BOOLEAN,
                      NEW c, c = CompleteContext(line, space), c.idx > 0, Valid(c),
                      NEW w \in prefixFilterMap(Offered(c), c.prefix),
                      NEW l, InPlace(c.args, w, l)
               PROVE  Valid(CompleteContext(l, FALSE)) /\ Valid(CompleteContext(l, TRUE))
    BY DEF OfferedIsAccepted, InPlace
  <2>1. level \in Seq(Word) /\ Configuration(cand) /\ line \in Seq(Word)
    BY DEF Inv, LevelOK, LineOK
  <2>2. /\ c.args \in Seq(Word) /\ c.idx \in Nat /\ Len(c.args) = c.idx + 1
        /\ c.prefix = Last(c.args) /\ Head(c.args) \in Commands
    BY <2>1, CompletedLine
  <2>3. c = [args |-> c.args, idx |-> c.idx, prefix |-> c.prefix]
    BY DEF CompleteContext, Context
  <2>4. PICK a \in Seq(Word), n \in Nat : a = c.args /\ n = c.idx
    BY <2>2
  <2>5. w \in Offered(c) /\ w \in Word
    <3>1. c.idx = Len(c.args) - 1 /\ c.args # <<>>
      BY <2>2
    <3>2. Offered(c) \subseteq Word
      BY <2>1, <2>2, <3>1, OfferedIsWords
    <3> QED BY <3>2 DEF prefixFilterMap
  <2>6. n > 0 /\ Len(a) = n + 1 /\ InPlace(a, w, l) /\ InPlace(c.args, w, l)
    BY <2>2, <2>4
  <2>7. l \in Seq(Word) /\ Len(l) = n + 1 /\ Last(l) = w /\ l[n + 1] = w
    BY <2>5, <2>6, WordInPlace
  <2>8. \A i \in 1..n : l[i] = a[i]
    BY <2>5, <2>6, WordInPlace
  <2>9. Head(l) \in Commands
    <3>1. Head(l) = Head(a)
      BY <2>5, <2>6, WordInPlace
    <3> QED BY <2>2, <2>4, <3>1
  <2>10. PICK m : m = Append(l, Blank)
    OBVIOUS
  <2>11. m \in Seq(Word) /\ Len(m) = n + 2 /\ Last(m) = Blank
    BY <2>5, <2>6, <2>10, WordInPlace
  <2>12. Head(m) = Head(l)
    <3>1. Head(l) = Head(a)
      BY <2>5, <2>6, WordInPlace
    <3>2. Head(Append(l, Blank)) = Head(a)
      BY <2>5, <2>6, WordInPlace
    <3> QED BY <2>10, <3>1, <3>2
  <2>13. CompleteContext(l, FALSE) = AtEnd(l, n, w) /\ CompleteContext(l, TRUE) = AfterSpace(l, n)
    BY <2>7, <2>9, <2>10, <2>11, <2>12, NewContexts
  <2>14. Completed(c, n, w, l)
    BY <2>2, <2>4, <2>5, <2>6, <2>7, <2>8 DEF Completed, Last
  <2>15. Valid(AtEnd(l, n, w)) /\ Valid(AfterSpace(l, n))
    BY <2>1, <2>3, <2>5, <2>6, <2>14, OfferAccepted
  <2> QED BY <2>13, <2>15
<1> QED BY <1>1, InvAlways, PTL

-----------------------------------------------------------------------------
\* Lines that are run.

\* The words a after the command cmd, none of them empty.
Ran(c, cmd, a) ==
  /\ c = [args |-> c.args, idx |-> 0, prefix |-> "__noncomp__"]
  /\ c.args \in Seq(Word) /\ a \in Seq(Word) /\ Len(c.args) = Len(a) + 1
  /\ c.args[1] = cmd /\ \A i \in 1..Len(a) : c.args[i + 1] = a[i] /\ a[i] # Blank

\* It becomes what it means, or nothing, or is one of the leniencies.
AsMeant(c, cmd, a) ==
  IF Meant(cmd, a) # {} THEN Requested(c) \in Meant(cmd, a)
  ELSE Requested(c) = Refused \/ Lenient(cmd, a)

LEMMA RanFields ==
  ASSUME NEW c, NEW cmd, NEW a, Ran(c, cmd, a)
  PROVE  /\ c.idx = 0 /\ c.prefix = "__noncomp__" /\ a \in Seq(Word) /\ Len(a) \in Nat
         /\ NumArgs(c) = Len(a) + 1 /\ Arg(c, 0) = cmd
         /\ \A i \in 1..Len(a) : Arg(c, i) = a[i] /\ a[i] # Blank /\ a[i] \in Word
<1>1. c = [args |-> c.args, idx |-> 0, prefix |-> "__noncomp__"]
  BY DEF Ran
<1>2. c.idx = 0 /\ c.prefix = "__noncomp__"
  BY <1>1
<1> QED BY <1>2 DEF Ran, NumArgs, Arg

LEMMA NothingRemoved ==
  ASSUME NEW c, NEW cmd, NEW a, Ran(c, cmd, a), a # <<>>
  PROVE  removeTrailingEmptyArgument(c) = c
<1>1. Len(a) > 0 /\ Len(a) \in Nat
  BY DEF Ran
<1>2. Last(c.args) = a[Len(a)] /\ a[Len(a)] # Blank
  BY <1>1 DEF Ran, Last
<1> QED BY <1>2 DEF removeTrailingEmptyArgument

\* The keyword at pos, abbreviated or not, and its argument at q.
LEMMA ArgumentValid ==
  ASSUME NEW c, NEW cmd, NEW a, Ran(c, cmd, a), NEW pos \in Nat, pos > 0, NEW q, q = pos + 1,
         NEW k, k = "comment" \/ k = "persist-id"
  PROVE  /\ Len(a) < pos => validateArgumentIfAny(c, pos, k)
         /\ Len(a) = pos \/ Len(a) = q => (validateArgumentIfAny(c, pos, k) <=> HasPrefix(k, a[pos]))
         /\ Len(a) > q => ~validateArgumentIfAny(c, pos, k)
<1>1. ~HasPrefix(k, c.prefix)
  BY RanFields, CliAssumption DEF HasPrefix
<1>2. NumArgs(c) = Len(a) + 1 /\ Len(a) \in Nat
  BY RanFields
<1>3. Len(a) >= pos => Arg(c, pos) = a[pos]
  BY <1>2, RanFields
<1> QED BY <1>1, <1>2, <1>3 DEF validateArgumentIfAny

\* What a command takes for that argument.
LEMMA ArgumentTaken ==
  ASSUME NEW c, NEW cmd, NEW a, Ran(c, cmd, a), NEW pos \in Nat, NEW q, q = pos + 1
  PROVE  /\ Len(a) < pos => ~ArgumentMissing(c, pos) /\ ArgumentIfAny(c, pos) = Blank
         /\ Len(a) = pos => ArgumentMissing(c, pos)
         /\ Len(a) = q => ~ArgumentMissing(c, pos) /\ ArgumentIfAny(c, pos) = a[q]
<1>1. NumArgs(c) = Len(a) + 1 /\ Len(a) \in Nat
  BY RanFields
<1>2. Len(a) = q => Arg(c, q) = a[q]
  BY <1>1, RanFields
<1> QED BY <1>1, <1>2 DEF ArgumentMissing, ArgumentIfAny

LEMMA OneTwoMore ==
  ASSUME NEW n \in Nat, n # 0
  PROVE  n = 1 \/ n = 2 \/ n > 2
OBVIOUS

LEMMA NoWords ==
  ASSUME NEW a \in Seq(Word)
  PROVE  a = <<>> <=> Len(a) = 0
OBVIOUS

LEMMA CommentMeant ==
  ASSUME NEW a \in Seq(Word), NEW exact \in BOOLEAN
  PROVE  /\ a = <<>> => CommentOf(a, exact) = {Blank}
         /\ Len(a) = 2 /\ a[1] = "comment" => CommentOf(a, exact) = {a[2]}
         /\ Len(a) = 2 /\ ~exact /\ HasPrefix("comment", a[1]) => CommentOf(a, exact) = {a[2]}
         /\ Len(a) = 2 /\ ~HasPrefix("comment", a[1]) => CommentOf(a, exact) = {}
         /\ Len(a) = 2 /\ exact /\ a[1] # "comment" => CommentOf(a, exact) = {}
         /\ a # <<>> /\ Len(a) # 2 => CommentOf(a, exact) = {}
<1>1. HasPrefix("comment", "comment")
  BY PathAssumption, CliAssumption DEF HasPrefix
<1> QED BY <1>1 DEF CommentOf

LEMMA CommitAsMeant ==
  ASSUME NEW c, NEW a, Ran(c, "commit", a)
  PROVE  AsMeant(c, "commit", a)
<1>1. /\ a \in Seq(Word) /\ Len(a) \in Nat /\ NumArgs(c) = Len(a) + 1 /\ Arg(c, 0) = "commit"
  BY RanFields
<1>2. Valid(c) <=> commitValid(c)
  BY <1>1 DEF Valid, PathCommand, SingleCommand
<1>3. Requested(c) = IF commitValid(c) THEN commitRun(c) ELSE Refused
  BY <1>1, <1>2 DEF Requested
<1>4. Meant("commit", a) = {Send("Commit", Blank, t, FALSE) : t \in CommentOf(a, FALSE)}
  BY DEF Meant
<1>5. 1 \in Nat /\ 1 > 0 /\ 2 = 1 + 1
  OBVIOUS
<1>6. /\ Len(a) < 1 => ~ArgumentMissing(c, 1) /\ ArgumentIfAny(c, 1) = Blank
      /\ Len(a) = 1 => ArgumentMissing(c, 1)
      /\ Len(a) = 2 => ~ArgumentMissing(c, 1) /\ ArgumentIfAny(c, 1) = a[2]
  <2>1. Len(a) < 1 => ~ArgumentMissing(c, 1) /\ ArgumentIfAny(c, 1) = Blank
    BY <1>5, ArgumentTaken, Zenon
  <2>2. Len(a) = 1 => ArgumentMissing(c, 1)
    BY <1>5, ArgumentTaken, ZenonT(60)
  <2>3. Len(a) = 2 => ~ArgumentMissing(c, 1) /\ ArgumentIfAny(c, 1) = a[2]
    <3>1. PICK q : q = 1 + 1 /\ q = 2
      BY <1>5
    <3>2. Len(a) = q => ~ArgumentMissing(c, 1) /\ ArgumentIfAny(c, 1) = a[q]
      BY <1>5, <3>1, ArgumentTaken, Zenon
    <3> QED BY <3>1, <3>2
  <2> QED BY <2>1, <2>2, <2>3
<1>7. CASE a = <<>>
  <2>1. Len(a) = 0
    BY <1>7
  <2>2. CommentOf(a, FALSE) = {Blank}
    BY <1>1, <1>7, CommentMeant
  <2>3. commitValid(c) /\ commitRun(c) = Send("Commit", Blank, Blank, FALSE)
    <3>1. NumArgs(c) = 1 /\ ~ArgumentMissing(c, 1) /\ ArgumentIfAny(c, 1) = Blank
      BY <1>1, <1>6, <2>1
    <3> QED BY <3>1 DEF commitValid, commitRun
  <2> QED BY <1>3, <1>4, <2>2, <2>3 DEF AsMeant
<1>8. CASE a # <<>>
  <2>1. removeTrailingEmptyArgument(c) = c
    BY <1>8, NothingRemoved
  <2>2. NumArgs(c) # 1 /\ Len(a) # 0
    BY <1>1, <1>8
  <2>3. commitValid(c) <=> validateArgumentIfAny(c, 1, "comment")
    BY <2>1, <2>2 DEF commitValid
  <2>4. /\ Len(a) = 1 \/ Len(a) = 2 => (validateArgumentIfAny(c, 1, "comment") <=> HasPrefix("comment", a[1]))
        /\ Len(a) > 2 => ~validateArgumentIfAny(c, 1, "comment")
    BY <1>5, ArgumentValid, Zenon
  <2>5. CASE Len(a) = 2 /\ HasPrefix("comment", a[1])
    <3>1. CommentOf(a, FALSE) = {a[2]}
      BY <1>1, <2>5, CommentMeant, Zenon
    <3>2. commitValid(c) /\ commitRun(c) = Send("Commit", Blank, a[2], FALSE)
      BY <1>6, <2>3, <2>4, <2>5 DEF commitRun
    <3> QED BY <1>3, <1>4, <3>1, <3>2 DEF AsMeant
  <2>6. CASE ~(Len(a) = 2 /\ HasPrefix("comment", a[1]))
    <3>1. CommentOf(a, FALSE) = {}
      BY <1>1, <1>8, <2>6, CommentMeant, Zenon
    <3>2. Len(a) = 1 => commitRun(c) = Refused
      BY <1>6 DEF commitRun
    <3>3. Len(a) = 1 \/ Len(a) = 2 \/ Len(a) > 2
      BY <1>1, <2>2, OneTwoMore, Zenon
    <3>4. Len(a) # 1 => ~commitValid(c)
      BY <2>3, <2>4, <2>6, <3>3, Zenon
    <3> QED BY <1>3, <1>4, <3>1, <3>2, <3>4 DEF AsMeant
  <2> QED BY <2>5, <2>6
<1> QED BY <1>7, <1>8

LEMMA ConfirmAsMeant ==
  ASSUME NEW c, NEW a, Ran(c, "confirm", a)
  PROVE  AsMeant(c, "confirm", a)
<1>1. a \in Seq(Word) /\ Len(a) \in Nat /\ NumArgs(c) = Len(a) + 1 /\ Arg(c, 0) = "confirm"
  BY RanFields
<1>2. Valid(c) <=> confirmValid(c)
  BY <1>1 DEF Valid, PathCommand, SingleCommand
<1>3. Requested(c) = IF confirmValid(c) THEN confirmRun(c) ELSE Refused
  BY <1>1, <1>2 DEF Requested
<1>5. 1 \in Nat /\ 1 > 0 /\ 2 = 1 + 1
  OBVIOUS
<1>6. /\ Len(a) < 1 => ~ArgumentMissing(c, 1) /\ ArgumentIfAny(c, 1) = Blank
      /\ Len(a) = 1 => ArgumentMissing(c, 1)
      /\ Len(a) = 2 => ~ArgumentMissing(c, 1) /\ ArgumentIfAny(c, 1) = a[2]
  <2>1. Len(a) < 1 => ~ArgumentMissing(c, 1) /\ ArgumentIfAny(c, 1) = Blank
    BY <1>5, ArgumentTaken, Zenon
  <2>2. Len(a) = 1 => ArgumentMissing(c, 1)
    BY <1>5, ArgumentTaken, ZenonT(60)
  <2>3. Len(a) = 2 => ~ArgumentMissing(c, 1) /\ ArgumentIfAny(c, 1) = a[2]
    <3>1. PICK q : q = 1 + 1 /\ q = 2
      BY <1>5
    <3>2. Len(a) = q => ~ArgumentMissing(c, 1) /\ ArgumentIfAny(c, 1) = a[q]
      BY <1>5, <3>1, ArgumentTaken, Zenon
    <3> QED BY <3>1, <3>2
  <2> QED BY <2>1, <2>2, <2>3
<1>7. CASE a = <<>>
  <2>1. Len(a) = 0
    BY <1>7
  <2>2. Meant("confirm", a) = {Send("Confirm", Blank, Blank, FALSE)}
    BY <1>7, <2>1 DEF Meant
  <2>3. confirmValid(c) /\ confirmRun(c) = Send("Confirm", Blank, Blank, FALSE)
    <3>1. NumArgs(c) = 1 /\ ~ArgumentMissing(c, 1) /\ ArgumentIfAny(c, 1) = Blank
      BY <1>1, <1>6, <2>1
    <3> QED BY <3>1 DEF confirmValid, confirmRun
  <2> QED BY <1>3, <2>2, <2>3 DEF AsMeant
<1>8. CASE a # <<>>
  <2>1. removeTrailingEmptyArgument(c) = c
    BY <1>8, NothingRemoved
  <2>2. NumArgs(c) # 1 /\ Len(a) # 0
    BY <1>1, <1>8
  <2>3. confirmValid(c) <=> validateArgumentIfAny(c, 1, "persist-id")
    BY <2>1, <2>2 DEF confirmValid
  <2>4. /\ Len(a) = 1 \/ Len(a) = 2 =>
             (validateArgumentIfAny(c, 1, "persist-id") <=> HasPrefix("persist-id", a[1]))
        /\ Len(a) > 2 => ~validateArgumentIfAny(c, 1, "persist-id")
    BY <1>5, ArgumentValid, Zenon
  <2>5. CASE Len(a) = 2 /\ HasPrefix("persist-id", a[1])
    <3>1. Meant("confirm", a) = {Send("ConfirmPersistId", a[2], Blank, FALSE)}
      BY <1>8, <2>5 DEF Meant
    <3>2. confirmValid(c) /\ confirmRun(c) = Send("ConfirmPersistId", a[2], Blank, FALSE)
      <4>1. a[2] # Blank
        BY <2>5, RanFields
      <4>2. ~ArgumentMissing(c, 1) /\ ArgumentIfAny(c, 1) = a[2]
        BY <1>6, <2>5
      <4>3. confirmRun(c) = Send("ConfirmPersistId", a[2], Blank, FALSE)
        BY <4>1, <4>2 DEF confirmRun
      <4> QED BY <2>3, <2>4, <2>5, <4>3
    <3> QED BY <1>3, <3>1, <3>2 DEF AsMeant
  <2>6. CASE ~(Len(a) = 2 /\ HasPrefix("persist-id", a[1]))
    <3>1. Meant("confirm", a) = {}
      BY <1>8, <2>6, Zenon DEF Meant
    <3>2. Len(a) = 1 => confirmRun(c) = Refused
      BY <1>6 DEF confirmRun
    <3>3. Len(a) = 1 \/ Len(a) = 2 \/ Len(a) > 2
      BY <1>1, <2>2, OneTwoMore, Zenon
    <3>4. Len(a) # 1 => ~confirmValid(c)
      BY <2>3, <2>4, <2>6, <3>3, Zenon
    <3> QED BY <1>3, <3>1, <3>2, <3>4 DEF AsMeant
  <2> QED BY <2>5, <2>6
<1> QED BY <1>7, <1>8


LEMMA OneTwoThreeMore ==
  ASSUME NEW n \in Nat, n # 0
  PROVE  n = 1 \/ n = 2 \/ n = 3 \/ n > 3
OBVIOUS

LEMMA CommitConfirmAsMeant ==
  ASSUME NEW c, NEW a, Ran(c, "commit-confirm", a)
  PROVE  AsMeant(c, "commit-confirm", a)
<1>1. /\ a \in Seq(Word) /\ Len(a) \in Nat /\ NumArgs(c) = Len(a) + 1 /\ Arg(c, 0) = "commit-confirm"
      /\ \A i \in 1..Len(a) : Arg(c, i) = a[i]
  BY RanFields
<1>2. Valid(c) <=> commitConfValid(c)
  BY <1>1 DEF Valid, PathCommand, SingleCommand
<1>3. Requested(c) = IF commitConfValid(c) THEN commitConfRun(c) ELSE Refused
  BY <1>1, <1>2 DEF Requested
<1>4. CASE a = <<>>
  <2>1. ~commitConfValid(c)
    BY <1>1, <1>4 DEF commitConfValid
  <2>2. Meant("commit-confirm", a) = {}
    BY <1>4 DEF Meant
  <2> QED BY <1>3, <2>1, <2>2 DEF AsMeant
<1>5. CASE a # <<>>
  <2> DEFINE timed == IsNumber(a[1]) /\ Number[a[1]] > 0
             rest == CommentOf(Tail(a), FALSE)
  <2>1. /\ Len(a) > 0 /\ Len(a) # 0 /\ Head(a) = a[1] /\ Arg(c, 1) = a[1]
        /\ Tail(a) \in Seq(Word) /\ Len(Tail(a)) = Len(a) - 1
    BY <1>1, <1>5
  <2>2. removeTrailingEmptyArgument(c) = c
    BY <1>5, NothingRemoved
  <2>3. commitConfValid(c) <=> timed /\ validateArgumentIfAny(c, 2, "comment")
    BY <1>1, <2>1, <2>2 DEF commitConfValid
  <2>4. Meant("commit-confirm", a) =
          IF timed THEN {Send("CommitConfirm", a[1], t, FALSE) : t \in rest} ELSE {}
    BY <1>5, <2>1 DEF Meant
  <2> HIDE DEF timed, rest
  <2>5. PICK q : q = 2 + 1 /\ q = 3 /\ 2 \in Nat /\ 2 > 0
    OBVIOUS
  <2>6. CASE Len(a) = 1
    <3>1. Len(Tail(a)) = 0 /\ Len(a) < 2
      BY <2>1, <2>6
    <3>2. Tail(a) = <<>>
      BY <2>1, <3>1, NoWords
    <3>3. rest = {Blank}
      BY <2>1, <3>2, CommentMeant, Zenon DEF rest
    <3>4. validateArgumentIfAny(c, 2, "comment")
      BY <2>5, <3>1, ArgumentValid, Zenon
    <3>5. ~ArgumentMissing(c, 2) /\ ArgumentIfAny(c, 2) = Blank
      BY <2>5, <3>1, ArgumentTaken, Zenon
    <3>6. commitConfRun(c) = Send("CommitConfirm", a[1], Blank, FALSE)
      BY <2>1, <3>5 DEF commitConfRun
    <3> QED BY <1>3, <2>3, <2>4, <3>3, <3>4, <3>6 DEF AsMeant
  <2>7. CASE Len(a) = 2
    <3>1. Len(Tail(a)) = 1 /\ Len(Tail(a)) # 0 /\ Len(Tail(a)) # 2
      BY <2>1, <2>7
    <3>2. Tail(a) # <<>> /\ Len(Tail(a)) # 2
      BY <2>1, <3>1, NoWords, Zenon
    <3>3. rest = {}
      BY <2>1, <3>2, CommentMeant, Zenon DEF rest
    <3>4. ArgumentMissing(c, 2)
      BY <2>5, <2>7, ArgumentTaken, Zenon
    <3>5. commitConfRun(c) = Refused
      BY <3>4 DEF commitConfRun
    <3> QED BY <1>3, <2>4, <3>3, <3>5 DEF AsMeant
  <2>8. CASE Len(a) = 3
    <3>1. Len(Tail(a)) = 2 /\ Tail(a)[1] = a[2] /\ Tail(a)[2] = a[3]
      BY <1>1, <2>1, <2>8
    <3>2. Len(a) = q
      BY <2>5, <2>8
    <3>3. validateArgumentIfAny(c, 2, "comment") <=> HasPrefix("comment", a[2])
      BY <2>5, <3>2, ArgumentValid, Zenon
    <3>4. ~ArgumentMissing(c, 2) /\ ArgumentIfAny(c, 2) = a[q]
      BY <2>5, <3>2, ArgumentTaken, ZenonT(60)
    <3>5. commitConfRun(c) = Send("CommitConfirm", a[1], a[3], FALSE)
      BY <2>1, <2>5, <3>4 DEF commitConfRun
    <3>6. HasPrefix("comment", a[2]) => rest = {a[3]}
      <4>1. HasPrefix("comment", Tail(a)[1]) => rest = {Tail(a)[2]}
        BY <2>1, <3>1, CommentMeant, Zenon DEF rest
      <4> QED BY <3>1, <4>1
    <3>7. ~HasPrefix("comment", a[2]) => rest = {}
      <4>1. ~HasPrefix("comment", Tail(a)[1]) => rest = {}
        BY <2>1, <3>1, CommentMeant, Zenon DEF rest
      <4> QED BY <3>1, <4>1
    <3> QED BY <1>3, <2>3, <2>4, <3>3, <3>5, <3>6, <3>7 DEF AsMeant
  <2>9. CASE Len(a) > 3
    <3>1. Tail(a) # <<>> /\ Len(Tail(a)) # 2
      BY <1>1, <2>1, <2>9
    <3>2. rest = {}
      BY <2>1, <3>1, CommentMeant, Zenon DEF rest
    <3>3. Len(a) > q
      BY <2>5, <2>9
    <3>4. ~validateArgumentIfAny(c, 2, "comment")
      BY <2>5, <3>3, ArgumentValid, Zenon
    <3> QED BY <1>3, <2>3, <2>4, <3>2, <3>4 DEF AsMeant
  <2>10. Len(a) = 1 \/ Len(a) = 2 \/ Len(a) = 3 \/ Len(a) > 3
    BY <1>1, <2>1, OneTwoThreeMore, Zenon
  <2> QED BY <2>6, <2>7, <2>8, <2>9, <2>10
<1> QED BY <1>4, <1>5

LEMMA RollbackAsMeant ==
  ASSUME NEW c, NEW a, Ran(c, "rollback", a)
  PROVE  AsMeant(c, "rollback", a)
<1>1. /\ a \in Seq(Word) /\ Len(a) \in Nat /\ NumArgs(c) = Len(a) + 1 /\ Arg(c, 0) = "rollback"
      /\ \A i \in 1..Len(a) : Arg(c, i) = a[i]
  BY RanFields
<1>2. Valid(c) <=> rollbackValid(c)
  BY <1>1 DEF Valid, PathCommand, SingleCommand
<1>3. Requested(c) = IF rollbackValid(c) THEN rollbackRun(c) ELSE Refused
  BY <1>1, <1>2 DEF Requested
<1>4. CASE a = <<>>
  <2>1. rollbackRun(c) = Refused
    BY <1>1, <1>4 DEF rollbackRun
  <2>2. Meant("rollback", a) = {}
    BY <1>4 DEF Meant
  <2> QED BY <1>3, <2>1, <2>2 DEF AsMeant
<1>5. CASE a # <<>>
  <2> DEFINE rest == CommentOf(Tail(a), TRUE)
  <2>1. /\ Len(a) > 0 /\ Len(a) # 0 /\ Head(a) = a[1] /\ Arg(c, 1) = a[1]
        /\ Tail(a) \in Seq(Word) /\ Len(Tail(a)) = Len(a) - 1
    BY <1>1, <1>5
  <2>2. removeTrailingEmptyArgument(c) = c
    BY <1>5, NothingRemoved
  <2>3. Meant("rollback", a) = {Send("Rollback", a[1], t, FALSE) : t \in rest}
    BY <1>5, <2>1 DEF Meant
  <2> HIDE DEF rest
  <2>4. PICK q : q = 2 + 1 /\ q = 3 /\ 2 \in Nat /\ 2 > 0
    OBVIOUS
  <2>5. Len(a) > 1 => (rollbackValid(c) <=> validateArgumentIfAny(c, 2, "comment"))
    BY <1>1, <2>2 DEF rollbackValid
  <2>6. CASE Len(a) = 1
    <3>1. Len(Tail(a)) = 0 /\ NumArgs(c) = 2
      BY <1>1, <2>1, <2>6
    <3>2. Tail(a) = <<>>
      BY <2>1, <3>1, NoWords
    <3>3. rest = {Blank}
      BY <2>1, <3>2, CommentMeant, Zenon DEF rest
    <3>4. rollbackValid(c) /\ rollbackRun(c) = Send("Rollback", a[1], Blank, FALSE)
      <4>1. NumArgs(c) <= 2 /\ NumArgs(c) # 1 /\ ~(NumArgs(c) >= 4)
        BY <3>1
      <4> QED BY <2>1, <4>1, Zenon DEF rollbackValid, rollbackRun
    <3> QED BY <1>3, <2>3, <3>3, <3>4 DEF AsMeant
  <2>7. CASE Len(a) = 2
    <3>1. Len(Tail(a)) = 1 /\ Len(Tail(a)) # 0 /\ Len(Tail(a)) # 2 /\ Len(a) > 1
      BY <2>1, <2>7, SMTT(30)
    <3>2. Tail(a) # <<>> /\ Len(Tail(a)) # 2
      BY <2>1, <3>1, NoWords, Zenon
    <3>3. rest = {}
      BY <2>1, <3>2, CommentMeant, Zenon DEF rest
    <3>4. validateArgumentIfAny(c, 2, "comment") <=> HasPrefix("comment", a[2])
      BY <2>4, <2>7, ArgumentValid, Zenon
    <3>5. HasPrefix("comment", a[2]) => Lenient("rollback", a)
      BY <2>7 DEF Lenient
    <3> QED BY <1>3, <2>3, <2>5, <3>1, <3>3, <3>4, <3>5 DEF AsMeant
  <2>8. CASE Len(a) = 3
    <3>1. Len(Tail(a)) = 2 /\ Tail(a)[1] = a[2] /\ Tail(a)[2] = a[3] /\ Len(a) > 1
      BY <1>1, <2>1, <2>8
    <3>2. Len(a) = q
      BY <2>4, <2>8
    <3>3. validateArgumentIfAny(c, 2, "comment") <=> HasPrefix("comment", a[2])
      BY <2>4, <3>2, ArgumentValid, Zenon
    <3>4. CASE a[2] = "comment"
      <4>1. HasPrefix("comment", a[2])
        BY <3>4, PathAssumption, CliAssumption DEF HasPrefix
      <4>2. rest = {Tail(a)[2]}
        BY <2>1, <3>1, <3>4, CommentMeant, Zenon DEF rest
      <4>3. Arg(c, 2) = a[2] /\ Arg(c, 3) = a[3] /\ NumArgs(c) = 4
        BY <1>1, <2>8
      <4>4. rollbackRun(c) = Send("Rollback", a[1], a[3], FALSE)
        <5>1. NumArgs(c) # 1 /\ NumArgs(c) >= 4
          BY <4>3
        <5> QED BY <2>1, <3>4, <4>3, <5>1, Zenon DEF rollbackRun
      <4> QED BY <1>3, <2>3, <2>5, <3>1, <3>3, <4>1, <4>2, <4>4 DEF AsMeant
    <3>5. CASE a[2] # "comment"
      <4>1. Tail(a)[1] # "comment"
        BY <3>1, <3>5
      <4>2. rest = {}
        BY <2>1, <3>1, <4>1, CommentMeant, Zenon DEF rest
      <4>3. HasPrefix("comment", a[2]) => Lenient("rollback", a)
        BY <2>8 DEF Lenient
      <4> QED BY <1>3, <2>3, <2>5, <3>1, <3>3, <4>2, <4>3 DEF AsMeant
    <3> QED BY <3>4, <3>5
  <2>9. CASE Len(a) > 3
    <3>0. Len(Tail(a)) # 0 /\ Len(Tail(a)) # 2 /\ Len(a) > 1
      BY <1>1, <2>1, <2>9
    <3>1. Tail(a) # <<>> /\ Len(Tail(a)) # 2 /\ Len(a) > 1
      BY <2>1, <3>0, NoWords, Zenon
    <3>2. rest = {}
      BY <2>1, <3>1, CommentMeant, Zenon DEF rest
    <3>3. Len(a) > q
      BY <2>4, <2>9
    <3>4. ~validateArgumentIfAny(c, 2, "comment")
      BY <2>4, <3>3, ArgumentValid, Zenon
    <3> QED BY <1>3, <2>3, <2>5, <3>1, <3>2, <3>4 DEF AsMeant
  <2>10. Len(a) = 1 \/ Len(a) = 2 \/ Len(a) = 3 \/ Len(a) > 3
    BY <1>1, <2>1, OneTwoThreeMore, Zenon
  <2> QED BY <2>6, <2>7, <2>8, <2>9, <2>10
<1> QED BY <1>4, <1>5

-----------------------------------------------------------------------------
\* cancel-commit.

\* A word abbreviates one keyword at most.
LEMMA OneKeyword ==
  ASSUME NEW w \in Word, w # Blank, NEW k \in Keyword, NEW l \in Keyword,
         HasPrefix(k, w), HasPrefix(l, w)
  PROVE  k = l
<1>1. SUFFICES ASSUME k # l PROVE FALSE
  OBVIOUS
<1>2. k \in {"comment", "force", "persist-id"} /\ l \in {"comment", "force", "persist-id"}
  BY DEF Keyword, NeedArg, AtStart
<1>3. PrefixesOf[k] \cap PrefixesOf[l] = {Blank}
  BY <1>1, <1>2, CliAssumption
<1> QED BY <1>3 DEF HasPrefix

LEMMA KeywordsFound ==
  ASSUME NEW c, NEW cmd, NEW a, Ran(c, cmd, a), NEW i \in Nat, NEW k, NEW w
  PROVE  k \in matchKeyword(c, i, w) <=> k \in Keyword /\ (k \notin AtStart \/ i = 0) /\ HasPrefix(k, w)
<1>1. c.idx # i + 1
  BY RanFields
<1> QED BY <1>1 DEF matchKeyword

\* A word that is an argument, and one that is a keyword.
LEMMA ArgumentRead ==
  ASSUME NEW c, NEW i \in Nat, NEW w \in Word, w = Arg(c, i + 1), NEW d, DefsOK(d), d.ok, d.needarg,
         NEW v, v = validateWord(c, i, d)
  PROVE  DefsOK(v) /\ v.ok /\ ~v.needarg /\ v.pos = d.pos /\ v.arg = [d.arg EXCEPT ![d.match] = w]
<1>1. d.ok \in BOOLEAN /\ d.needarg \in BOOLEAN /\ d \in Defs
  BY DEF Defs, DefsOK
<1>2. v = [d EXCEPT !.needarg = FALSE, !.arg[d.match] = w, !.argpresent = @ \cup {d.match}]
  BY <1>1 DEF validateWord
<1>3. v.ok /\ ~v.needarg /\ v.pos = d.pos /\ v.arg = [d.arg EXCEPT ![d.match] = w]
  BY <1>1, <1>2 DEF Defs
<1>4. DefsOK(v)
  BY WordParsed
<1> QED BY <1>3, <1>4

LEMMA KeywordRead ==
  ASSUME NEW c, NEW cmd, NEW a, Ran(c, cmd, a), NEW i \in Nat, NEW w \in Word, w = Arg(c, i + 1), w # Blank,
         NEW d, DefsOK(d), d.ok, ~d.needarg, NEW k \in Keyword, k \notin AtStart \/ i = 0, HasPrefix(k, w),
         NEW v, v = validateWord(c, i, d)
  PROVE  /\ DefsOK(v) /\ v.ok /\ v.arg = d.arg /\ v.pos = [d.pos EXCEPT ![k] = i + 1]
         /\ k \in NeedArg => v.needarg /\ v.match = k
         /\ k \notin NeedArg => ~v.needarg
<1> DEFINE found == matchKeyword(c, i, w)
           x == CHOOSE x \in found : TRUE
<1>1. d.ok \in BOOLEAN /\ d.needarg \in BOOLEAN /\ d \in Defs
  BY DEF Defs, DefsOK
<1>2. k \in found
  BY KeywordsFound
<1>3. x \in found
  BY <1>2
<1>4. x \in Keyword /\ HasPrefix(x, w)
  BY <1>3, KeywordsFound
<1>5. x = k
  BY <1>4, OneKeyword
<1>6. v = [d EXCEPT !.match = IF x \in NeedArg THEN x ELSE Blank, !.needarg = x \in NeedArg, !.pos[x] = i + 1]
  BY <1>1, <1>2 DEF validateWord
<1> HIDE DEF found, x
<1>7. v.ok /\ v.arg = d.arg /\ v.pos = [d.pos EXCEPT ![k] = i + 1]
  BY <1>1, <1>5, <1>6 DEF Defs
<1>8. k \in NeedArg => v.needarg /\ v.match = k
  BY <1>1, <1>5, <1>6 DEF Defs
<1>9. k \notin NeedArg => ~v.needarg
  BY <1>1, <1>5, <1>6 DEF Defs
<1>10. DefsOK(v)
  BY WordParsed
<1> QED BY <1>7, <1>8, <1>9, <1>10

LEMMA KeywordNeeded ==
  ASSUME NEW c, NEW cmd, NEW a, Ran(c, cmd, a), NEW i \in Nat, NEW w \in Word, w = Arg(c, i + 1),
         NEW d, DefsOK(d), d.ok, ~d.needarg, validateWord(c, i, d).ok
  PROVE  \E k \in Keyword : (k \notin AtStart \/ i = 0) /\ HasPrefix(k, w)
<1> DEFINE found == matchKeyword(c, i, w)
<1>1. d.ok \in BOOLEAN /\ d.needarg \in BOOLEAN /\ d \in Defs
  BY DEF Defs, DefsOK
<1>2. found = {} => validateWord(c, i, d) = [d EXCEPT !.ok = FALSE]
  BY <1>1 DEF validateWord
<1> HIDE DEF found
<1>3. found # {}
  BY <1>1, <1>2 DEF Defs
<1>4. PICK k : k \in found
  BY <1>3
<1> QED BY <1>4, KeywordsFound DEF found

\* What the words read so far ask for, and the argument that is to follow.
Says(d, p, t, fl) ==
  /\ DefsOK(d) /\ d.ok /\ ~d.needarg
  /\ d.arg["persist-id"] = p /\ d.arg["comment"] = t /\ (d.pos["force"] # 0 <=> fl)
Awaits(d, k, p, t, fl) ==
  /\ DefsOK(d) /\ d.ok /\ d.needarg /\ d.match = k
  /\ d.arg["persist-id"] = p /\ d.arg["comment"] = t /\ (d.pos["force"] # 0 <=> fl)

LEMMA SaysThenAwaits ==
  ASSUME NEW c, NEW cmd, NEW a, Ran(c, cmd, a), NEW i \in Nat, NEW w \in Word, w = Arg(c, i + 1), w # Blank,
         NEW d, NEW p, NEW t, NEW fl, Says(d, p, t, fl), NEW k \in NeedArg, k \notin AtStart \/ i = 0,
         HasPrefix(k, w), NEW v, v = validateWord(c, i, d)
  PROVE  Awaits(v, k, p, t, fl)
<1>1. DefsOK(d) /\ d.ok /\ ~d.needarg /\ k \in Keyword /\ d.pos \in [Keyword -> Nat]
  BY DEF Says, Keyword, DefsOK, Defs
<1>2. /\ DefsOK(v) /\ v.ok /\ v.arg = d.arg /\ v.needarg /\ v.match = k
      /\ v.pos = [d.pos EXCEPT ![k] = i + 1]
  BY <1>1, KeywordRead
<1>3. k # "force"
  BY DEF NeedArg
<1>4. v.pos["force"] = d.pos["force"]
  BY <1>1, <1>2, <1>3 DEF Keyword, AtStart
<1> QED BY <1>2, <1>4 DEF Says, Awaits

LEMMA SaysForce ==
  ASSUME NEW c, NEW cmd, NEW a, Ran(c, cmd, a), NEW w \in Word, w = Arg(c, 0 + 1), w # Blank,
         NEW d, NEW p, NEW t, NEW fl, Says(d, p, t, fl), HasPrefix("force", w),
         NEW v, v = validateWord(c, 0, d)
  PROVE  Says(v, p, t, TRUE)
<1>1. /\ DefsOK(d) /\ d.ok /\ ~d.needarg /\ d.pos \in [Keyword -> Nat]
      /\ "force" \in Keyword /\ "force" \notin NeedArg
  BY DEF Says, Keyword, DefsOK, Defs, NeedArg, AtStart
<1>2. PICK i \in Nat : i = 0
  OBVIOUS
<1>3. w = Arg(c, i + 1) /\ v = validateWord(c, i, d)
  BY <1>2
<1>4. /\ DefsOK(v) /\ v.ok /\ v.arg = d.arg /\ ~v.needarg /\ v.pos = [d.pos EXCEPT !["force"] = i + 1]
  BY <1>1, <1>2, <1>3, KeywordRead
<1>5. v.pos["force"] # 0
  BY <1>1, <1>2, <1>4
<1> QED BY <1>4, <1>5 DEF Says

LEMMA AwaitsThenSays ==
  ASSUME NEW c, NEW i \in Nat, NEW w \in Word, w = Arg(c, i + 1),
         NEW d, NEW k, NEW p, NEW t, NEW fl, Awaits(d, k, p, t, fl), NEW v, v = validateWord(c, i, d)
  PROVE  /\ k = "comment" => Says(v, p, w, fl)
         /\ k = "persist-id" => Says(v, w, t, fl)
<1>1. DefsOK(d) /\ d.ok /\ d.needarg /\ d.match = k /\ d.arg \in [Keyword -> Word]
  BY DEF Awaits, DefsOK, Defs
<1>2. DefsOK(v) /\ v.ok /\ ~v.needarg /\ v.pos = d.pos /\ v.arg = [d.arg EXCEPT ![k] = w]
  BY <1>1, ArgumentRead
<1>3. "comment" \in Keyword /\ "persist-id" \in Keyword
  BY DEF Keyword, NeedArg
<1>4. k = "comment" => v.arg["comment"] = w /\ v.arg["persist-id"] = d.arg["persist-id"]
  BY <1>1, <1>2, <1>3
<1>5. k = "persist-id" => v.arg["persist-id"] = w /\ v.arg["comment"] = d.arg["comment"]
  BY <1>1, <1>2, <1>3
<1> QED BY <1>2, <1>4, <1>5 DEF Says, Awaits

LEMMA SaysNothing == Says(NoDefs, Blank, Blank, FALSE)
<1>1. "comment" \in Keyword /\ "persist-id" \in Keyword /\ "force" \in Keyword
  BY DEF Keyword, NeedArg, AtStart
<1> QED BY <1>1, NoDefsTyped DEF Says, NoDefs

\* No word of a line that is accepted was refused.
LEMMA AcceptedThroughout ==
  ASSUME NEW c, c.args \in Seq(Word), NEW n \in Nat, n < Len(c.args), NEW f, Parsed(f, n, c), f[n].ok
  PROVE  \A i \in 0..n : f[i].ok
<1> DEFINE Bad == {k \in Nat : k <= n /\ ~f[n - k].ok}
<1> SUFFICES ASSUME NEW i \in 0..n, ~f[i].ok PROVE FALSE
  OBVIOUS
<1>1. n - i \in Bad
  <2>1. n - i \in Nat /\ n - i <= n /\ n - (n - i) = i
    OBVIOUS
  <2> QED BY <2>1
<1>2. PICK b \in Bad : \A k \in Bad : b <= k
  BY <1>1, LeastNumber
<1>3. b # 0
  <2>1. n - 0 = n
    OBVIOUS
  <2> QED BY <1>2, <2>1
<1>4. PICK a \in Nat : a = n - b /\ a < n /\ ~f[a].ok
  BY <1>2, <1>3
<1>5. b - 1 \in Nat /\ b - 1 \notin Bad /\ b - 1 <= n /\ n - (b - 1) = a + 1
  <2>1. b \in Nat /\ b <= n
    BY <1>2
  <2>2. b - 1 \in Nat /\ ~(b <= b - 1) /\ b - 1 <= n /\ n - (b - 1) = a + 1
    BY <1>3, <1>4, <2>1
  <2>3. b - 1 \notin Bad
    BY <1>2, <2>2
  <2> HIDE DEF Bad
  <2> QED BY <2>2, <2>3
<1>6. f[a + 1].ok
  BY <1>5
<1>7. f[a + 1] = validateWord(c, a, f[a])
  BY <1>4, ParsedStep
<1>8. DefsOK(f[a])
  <2>1. a \in 0..n
    BY <1>4
  <2> QED BY <2>1, ParsedTyped
<1>9. Arg(c, a + 1) \in Word
  BY <1>4 DEF Arg
<1>10. ~validateWord(c, a, f[a]).ok
  BY <1>4, <1>8, <1>9, WordParsed
<1> QED BY <1>6, <1>7, <1>10

\* After the first argument only "comment" is a keyword.
LEMMA OnlyComment ==
  ASSUME NEW c, NEW cmd, NEW a, Ran(c, cmd, a), NEW i \in Nat, NEW w \in Word, w = Arg(c, i + 1), w # Blank,
         i = 0 => HasPrefix("comment", w), NEW d, DefsOK(d), d.ok, ~d.needarg,
         NEW v, v = validateWord(c, i, d), v.ok
  PROVE  HasPrefix("comment", w) /\ v.needarg
<1>1. "comment" \in Keyword /\ "comment" \notin AtStart /\ "comment" \in NeedArg
  BY DEF Keyword, NeedArg, AtStart
<1>2. HasPrefix("comment", w)
  <2>1. PICK k \in Keyword : (k \notin AtStart \/ i = 0) /\ HasPrefix(k, w)
    BY KeywordNeeded
  <2>2. k \notin AtStart => k = "comment"
    BY DEF Keyword, NeedArg, AtStart
  <2> QED BY <2>1, <2>2
<1> QED BY <1>1, <1>2, KeywordRead, ZenonT(60)

Comments(a, s) == \A m \in 1..(Len(a) - s) : m % 2 = 1 => HasPrefix("comment", a[s + m])

\* From word s on, every other word is that keyword.
LEMMA CommentsFollow ==
  ASSUME NEW c, NEW cmd, NEW a, Ran(c, cmd, a), NEW n \in Nat, n = Len(a), NEW f, Parsed(f, n, c), f[n].ok,
         NEW s \in Nat, s <= n, ~f[s].needarg, s = 0 => n = 0 \/ HasPrefix("comment", a[1])
  PROVE  Comments(a, s)
<1>1. c.args \in Seq(Word) /\ Len(c.args) = n + 1 /\ n < Len(c.args)
  BY DEF Ran
<1>2. \A i \in 0..n : f[i].ok /\ DefsOK(f[i])
  BY <1>1, AcceptedThroughout, ParsedTyped
<1>3. ASSUME NEW i \in Nat, s <= i, i < n, ~f[i].needarg
      PROVE  HasPrefix("comment", a[i + 1]) /\ f[i + 1].needarg
  <2>1. PICK w \in Word : w = a[i + 1] /\ w = Arg(c, i + 1) /\ w # Blank
    BY <1>3, RanFields
  <2>2. f[i + 1] = validateWord(c, i, f[i])
    BY <1>3, ParsedStep
  <2>3. i \in 0..n /\ i + 1 \in 0..n
    BY <1>3
  <2>4. i = 0 => HasPrefix("comment", w)
    <3>1. i = 0 => s = 0 /\ n # 0 /\ i + 1 = 1
      BY <1>3
    <3> QED BY <2>1, <3>1
  <2>5. f[i].ok /\ DefsOK(f[i]) /\ f[i + 1].ok
    BY <1>2, <2>3
  <2>6. HasPrefix("comment", w) /\ f[i + 1].needarg
    BY <1>3, <2>1, <2>2, <2>4, <2>5, OnlyComment
  <2> QED BY <2>1, <2>6
<1>4. ASSUME NEW i \in Nat, s <= i, i < n, f[i].needarg
      PROVE  ~f[i + 1].needarg
  <2>1. PICK w \in Word : w = Arg(c, i + 1)
    BY <1>4, RanFields
  <2>2. f[i + 1] = validateWord(c, i, f[i])
    BY <1>4, ParsedStep
  <2>3. i \in 0..n
    BY <1>4
  <2>4. f[i].ok /\ DefsOK(f[i])
    BY <1>2, <2>3
  <2>5. PICK d, v : d = f[i] /\ v = f[i + 1]
    OBVIOUS
  <2>6. DefsOK(d) /\ d.ok /\ d.needarg /\ v = validateWord(c, i, d)
    BY <1>4, <2>2, <2>4, <2>5
  <2>7. ~v.needarg
    BY <2>1, <2>6, ArgumentRead
  <2> QED BY <2>5, <2>7
<1> DEFINE Bad == {m \in Nat : s + m <= n /\ ~(f[s + m].needarg <=> m % 2 = 1)}
<1>5. Bad = {}
  <2> SUFFICES ASSUME Bad # {} PROVE FALSE
    OBVIOUS
  <2>1. PICK b \in Bad : \A m \in Bad : b <= m
    BY LeastNumber
  <2>2. b # 0
    <3>1. s + 0 = s /\ 0 % 2 # 1
      OBVIOUS
    <3> QED BY <2>1, <3>1
  <2>3. PICK e \in Nat : e = b - 1 /\ e \notin Bad /\ s + e < n /\ s + b = (s + e) + 1
    <3>1. b \in Nat /\ s + b <= n
      BY <2>1
    <3>2. b - 1 \in Nat /\ ~(b <= b - 1) /\ s + (b - 1) < n /\ s + b = (s + (b - 1)) + 1
      BY <2>2, <3>1
    <3>3. b - 1 \notin Bad
      BY <2>1, <3>2
    <3> HIDE DEF Bad
    <3> QED BY <3>2, <3>3
  <2>4. f[s + e].needarg <=> e % 2 = 1
    BY <2>3
  <2>5. PICK i \in Nat : i = s + e /\ s <= i /\ i < n
    BY <2>3
  <2>6. CASE e % 2 = 1
    <3>1. b % 2 # 1
      BY <2>1, <2>3, <2>6
    <3>2. ~f[i + 1].needarg
      BY <1>4, <2>4, <2>5, <2>6
    <3> QED BY <2>1, <2>3, <2>5, <3>1, <3>2
  <2>7. CASE e % 2 # 1
    <3>1. b % 2 = 1
      BY <2>1, <2>3, <2>7
    <3>2. f[i + 1].needarg
      BY <1>3, <2>4, <2>5, <2>7
    <3> QED BY <2>1, <2>3, <2>5, <3>1, <3>2
  <2> QED BY <2>6, <2>7
<1>6. ASSUME NEW m \in 1..(n - s), m % 2 = 1
      PROVE  HasPrefix("comment", a[s + m])
  <2>1. PICK e \in Nat : e = m - 1 /\ s + e <= n /\ e % 2 # 1
    BY <1>6
  <2>2. PICK i \in Nat : i = s + e /\ s <= i /\ i < n /\ i + 1 = s + m
    BY <2>1
  <2>3. ~f[i].needarg
    BY <1>5, <2>1, <2>2
  <2>4. HasPrefix("comment", a[i + 1])
    BY <1>3, <2>2, <2>3
  <2> QED BY <2>2, <2>4
<1> QED BY <1>6 DEF Comments

\* The request of the words read.
Request(d) ==
  IF d.ok THEN Send("CancelCommit", d.arg["persist-id"], d.arg["comment"], d.pos["force"] # 0) ELSE Refused

Reading(c, a, n, f) ==
  /\ Ran(c, "cancel-commit", a) /\ n \in Nat /\ n = Len(a) /\ Parsed(f, n, c)
  /\ Requested(c) = Request(f[n])

LEMMA CancelRead ==
  ASSUME NEW c, NEW a, Ran(c, "cancel-commit", a), NEW n, n = Len(a)
  PROVE  \E f : Reading(c, a, n, f)
<1>1. /\ a \in Seq(Word) /\ n \in Nat /\ NumArgs(c) = n + 1 /\ Arg(c, 0) = "cancel-commit"
  BY RanFields
<1>2. removeTrailingEmptyArgument(c) = c
  <2>1. CASE a # <<>>
    BY <2>1, NothingRemoved
  <2>2. CASE a = <<>>
    <3>1. Last(c.args) = "cancel-commit"
      BY <2>2 DEF Ran, Last
    <3>2. "cancel-commit" # Blank
      BY Zenon DEF Blank
    <3> QED BY <3>1, <3>2 DEF removeTrailingEmptyArgument
  <2> QED BY <2>1, <2>2
<1>3. Len(c.args) = n + 1
  BY DEF Ran
<1>4. PICK f : Parsed(f, n, c) /\ processCancelCommitCmd(c) = f[n]
  BY <1>1, <1>2, <1>3, ParsedOf
<1>5. Valid(c) <=> cancelcommitValid(c)
  BY <1>1 DEF Valid, PathCommand, SingleCommand
<1>6. cancelcommitValid(c) <=> f[n].ok
  <2>1. CASE n = 0
    <3>1. f[n] = NoDefs
      BY <1>4, <2>1 DEF Parsed
    <3> QED BY <1>1, <2>1, <3>1, NoDefsTyped DEF cancelcommitValid
  <2>2. CASE n # 0
    <3>1. NumArgs(c) # 1
      BY <1>1, <2>2
    <3> QED BY <1>4, <3>1 DEF cancelcommitValid
  <2> QED BY <2>1, <2>2
<1>7. Requested(c) = IF cancelcommitValid(c) THEN cancelcommitRun(c) ELSE Refused
  BY <1>1, <1>5 DEF Requested
<1>8. Requested(c) = Request(f[n])
  BY <1>4, <1>6, <1>7 DEF cancelcommitRun, Request
<1> QED BY <1>1, <1>4, <1>8 DEF Reading

LEMMA RequestOf ==
  ASSUME NEW d, NEW p, NEW t
  PROVE  /\ Says(d, p, t, FALSE) => Request(d) = Send("CancelCommit", p, t, FALSE)
         /\ Says(d, p, t, TRUE) => Request(d) = Send("CancelCommit", p, t, TRUE)
<1>1. ASSUME Says(d, p, t, FALSE) PROVE Request(d) = Send("CancelCommit", p, t, FALSE)
  <2>1. (d.pos["force"] # 0) = FALSE
    BY <1>1 DEF Says
  <2> QED BY <1>1, <2>1, Zenon DEF Says, Request
<1>2. ASSUME Says(d, p, t, TRUE) PROVE Request(d) = Send("CancelCommit", p, t, TRUE)
  <2>1. (d.pos["force"] # 0) = TRUE
    BY <1>2 DEF Says
  <2> QED BY <1>2, <2>1, Zenon DEF Says, Request
<1> QED BY <1>1, <1>2

LEMMA WordRead ==
  ASSUME NEW c, NEW a, NEW n, NEW f, Reading(c, a, n, f), NEW i \in Nat, i < n, NEW b, b = i + 1
  PROVE  \E w \in Word : /\ w = a[b] /\ w = Arg(c, i + 1) /\ w # Blank
                          /\ f[b] = validateWord(c, i, f[i])
<1>1. Ran(c, "cancel-commit", a) /\ n \in Nat /\ n = Len(a) /\ Parsed(f, n, c)
  BY DEF Reading
<1>2. b \in 1..Len(a)
  BY <1>1
<1>3. Arg(c, b) = a[b] /\ a[b] # Blank /\ a[b] \in Word
  BY <1>1, <1>2, RanFields
<1>4. f[i + 1] = validateWord(c, i, f[i])
  BY <1>1, ParsedStep
<1> QED BY <1>3, <1>4

LEMMA ReadsKeyword ==
  ASSUME NEW c, NEW a, NEW n, NEW f, Reading(c, a, n, f), NEW i \in Nat, i < n, NEW b, b = i + 1,
         NEW p, NEW t, NEW fl, Says(f[i], p, t, fl), NEW k \in NeedArg, k \notin AtStart \/ i = 0,
         HasPrefix(k, a[b])
  PROVE  Awaits(f[b], k, p, t, fl)
<1>1. PICK w \in Word : w = a[b] /\ w = Arg(c, i + 1) /\ w # Blank /\ f[b] = validateWord(c, i, f[i])
  BY WordRead
<1>2. Ran(c, "cancel-commit", a) /\ HasPrefix(k, w)
  BY <1>1 DEF Reading
<1> QED BY <1>1, <1>2, SaysThenAwaits

LEMMA ReadsForce ==
  ASSUME NEW c, NEW a, NEW n, NEW f, Reading(c, a, n, f), n > 0, HasPrefix("force", a[1])
  PROVE  Says(f[1], Blank, Blank, TRUE)
<1>1. PICK i \in Nat, b \in Nat : i = 0 /\ b = i + 1 /\ b = 1
  OBVIOUS
<1>2. PICK w \in Word : w = a[b] /\ w = Arg(c, i + 1) /\ w # Blank /\ f[b] = validateWord(c, i, f[i])
  BY <1>1, WordRead
<1>3. Ran(c, "cancel-commit", a) /\ HasPrefix("force", w) /\ f[0] = NoDefs
  BY <1>1, <1>2 DEF Reading, Parsed
<1> QED BY <1>1, <1>2, <1>3, SaysNothing, SaysForce

LEMMA ReadsArgument ==
  ASSUME NEW c, NEW a, NEW n, NEW f, Reading(c, a, n, f), NEW i \in Nat, i < n, NEW b, b = i + 1,
         NEW k, NEW p, NEW t, NEW fl, Awaits(f[i], k, p, t, fl)
  PROVE  /\ k = "comment" => Says(f[b], p, a[b], fl)
         /\ k = "persist-id" => Says(f[b], a[b], t, fl)
<1>1. PICK w \in Word : w = a[b] /\ w = Arg(c, i + 1) /\ w # Blank /\ f[b] = validateWord(c, i, f[i])
  BY WordRead
<1>2. /\ k = "comment" => Says(f[b], p, w, fl)
      /\ k = "persist-id" => Says(f[b], w, t, fl)
  BY <1>1, AwaitsThenSays
<1> QED BY <1>1, <1>2

\* What the line means: with no, with "force" or with "persist-id" first.
MeantPlain(a) == {Send("CancelCommit", Blank, t, FALSE) : t \in CommentOf(a, FALSE)}
MeantForce(a) ==
  IF a # <<>> /\ HasPrefix("force", a[1])
  THEN {Send("CancelCommit", Blank, t, TRUE) : t \in CommentOf(Tail(a), FALSE)} ELSE {}
MeantPersist(a) ==
  IF Len(a) > 1 /\ HasPrefix("persist-id", a[1])
  THEN {Send("CancelCommit", a[2], t, FALSE) : t \in CommentOf(SubSeq(a, 3, Len(a)), FALSE)} ELSE {}

LEMMA CancelMeant ==
  ASSUME NEW a
  PROVE  Meant("cancel-commit", a) = MeantPlain(a) \cup MeantForce(a) \cup MeantPersist(a)
BY DEF Meant, MeantPlain, MeantForce, MeantPersist

\* A line that is accepted and means nothing is a meant one followed by comments.
LEMMA CancelLenient ==
  ASSUME NEW c, NEW a, NEW n, NEW f, Reading(c, a, n, f), Meant("cancel-commit", a) = {},
         NEW s \in Nat, s <= n, ~f[s].needarg, s = 0 => HasPrefix("comment", a[1]),
         Meant("cancel-commit", SubSeq(a, 1, s)) # {}
  PROVE  AsMeant(c, "cancel-commit", a)
<1>1. Ran(c, "cancel-commit", a) /\ n \in Nat /\ n = Len(a) /\ Parsed(f, n, c) /\ Requested(c) = Request(f[n])
  BY DEF Reading
<1>2. CASE ~f[n].ok
  BY <1>1, <1>2 DEF Request, AsMeant
<1>3. CASE f[n].ok
  <2>1. Comments(a, s)
    BY <1>1, <1>3, CommentsFollow
  <2>2. s \in 0..Len(a)
    BY <1>1
  <2>3. Lenient("cancel-commit", a)
    BY <2>1, <2>2 DEF Lenient, Comments
  <2> QED BY <2>3 DEF AsMeant
<1> QED BY <1>2, <1>3

LEMMA TailOfOne ==
  ASSUME NEW b \in Seq(Word), Len(b) = 1
  PROVE  b # <<>> /\ Tail(b) = <<>> /\ Tail(b) \in Seq(Word)
<1>1. b # <<>>
  OBVIOUS
<1>2. Tail(b) \in Seq(Word) /\ Len(Tail(b)) = 0
  BY <1>1
<1>3. PICK t \in Seq(Word) : t = Tail(b) /\ Len(t) = 0
  BY <1>2
<1>4. t = <<>>
  BY <1>3, NoWords
<1> QED BY <1>1, <1>3, <1>4

LEMMA FromThird ==
  ASSUME NEW a \in Seq(Word), NEW n \in Nat, n = Len(a), n > 1
  PROVE  /\ SubSeq(a, 3, n) \in Seq(Word) /\ Len(SubSeq(a, 3, n)) = n - 2
         /\ \A i \in 1..(n - 2) : SubSeq(a, 3, n)[i] = a[i + 2]
<1>1. \A i \in 3..n : i \in 1..Len(a)
  OBVIOUS
<1>2. SubSeq(a, 3, n) \in Seq(Word) /\ Len(SubSeq(a, 3, n)) = n - 2
  BY <1>1
<1>3. \A i \in 1..(n - 2) : SubSeq(a, 3, n)[i] = a[i + 2]
  BY <1>1
<1> QED BY <1>2, <1>3

LEMMA FirstKeyword ==
  ASSUME NEW c, NEW a, NEW n, NEW f, Reading(c, a, n, f), n > 0
  PROVE  /\ a \in Seq(Word) /\ a # <<>> /\ n \in Nat /\ n = Len(a) /\ f[0] = NoDefs
         /\ \A k, l \in Keyword : HasPrefix(k, a[1]) /\ HasPrefix(l, a[1]) => k = l
         /\ "comment" \in Keyword /\ "force" \in Keyword /\ "persist-id" \in Keyword
<1>1. Ran(c, "cancel-commit", a) /\ n \in Nat /\ n = Len(a) /\ Parsed(f, n, c)
  BY DEF Reading
<1>2. a \in Seq(Word) /\ a # <<>> /\ 1 \in 1..Len(a)
  BY <1>1, RanFields
<1>3. a[1] \in Word /\ a[1] # Blank
  BY <1>1, <1>2, RanFields
<1>4. f[0] = NoDefs
  BY <1>1 DEF Parsed
<1>5. "comment" \in Keyword /\ "force" \in Keyword /\ "persist-id" \in Keyword
  BY DEF Keyword, NeedArg, AtStart
<1> QED BY <1>1, <1>2, <1>3, <1>4, <1>5, OneKeyword

\* cancel-commit comment <text>
LEMMA CancelComment ==
  ASSUME NEW c, NEW a, NEW n, NEW f, Reading(c, a, n, f), n > 0, HasPrefix("comment", a[1])
  PROVE  AsMeant(c, "cancel-commit", a)
<1>1. /\ a \in Seq(Word) /\ a # <<>> /\ n \in Nat /\ n = Len(a) /\ f[0] = NoDefs
      /\ ~HasPrefix("force", a[1]) /\ ~HasPrefix("persist-id", a[1])
  BY FirstKeyword
<1>2. MeantForce(a) = {} /\ MeantPersist(a) = {}
  BY <1>1 DEF MeantForce, MeantPersist
<1>3. Meant("cancel-commit", a) = MeantPlain(a)
  BY <1>2, CancelMeant
<1>4. PICK zero \in Nat, one \in Nat, two \in Nat :
        zero = 0 /\ one = zero + 1 /\ one = 1 /\ two = one + 1 /\ two = 2
  OBVIOUS
<1>5. Awaits(f[one], "comment", Blank, Blank, FALSE)
  <2>1. Says(f[zero], Blank, Blank, FALSE) /\ zero < n /\ HasPrefix("comment", a[one])
    BY <1>1, <1>4, SaysNothing
  <2>2. "comment" \in NeedArg /\ ("comment" \notin AtStart \/ zero = 0)
    BY <1>4 DEF NeedArg
  <2> QED BY <1>4, <2>1, <2>2, ReadsKeyword
<1>6. CASE n = 2
  <2>1. Says(f[two], Blank, a[two], FALSE)
    <3>1. one < n
      BY <1>4, <1>6
    <3> QED BY <1>4, <1>5, <3>1, ReadsArgument
  <2>2. Requested(c) = Send("CancelCommit", Blank, a[2], FALSE)
    BY <1>4, <1>6, <2>1, RequestOf DEF Reading
  <2>3. CommentOf(a, FALSE) = {a[2]}
    BY <1>1, <1>6, CommentMeant, Zenon
  <2> QED BY <1>3, <2>2, <2>3 DEF AsMeant, MeantPlain
<1>7. CASE n # 2
  <2>1. CommentOf(a, FALSE) = {}
    BY <1>1, <1>7, CommentMeant, Zenon
  <2>2. Meant("cancel-commit", a) = {}
    BY <1>3, <2>1 DEF MeantPlain
  <2>3. ~f[0].needarg
    BY <1>1, SaysNothing DEF Says
  <2>4. Meant("cancel-commit", SubSeq(a, 1, 0)) # {}
    <3>1. SubSeq(a, 1, 0) = <<>>
      BY <1>1
    <3>2. CommentOf(<<>>, FALSE) = {Blank}
      BY <3>1 DEF CommentOf
    <3>3. MeantPlain(<<>>) # {}
      BY <3>2 DEF MeantPlain
    <3> QED BY <3>1, <3>3, CancelMeant
  <2> QED BY <1>1, <2>2, <2>3, <2>4, CancelLenient
<1> QED BY <1>6, <1>7

\* cancel-commit force [comment <text>]
LEMMA CancelForce ==
  ASSUME NEW c, NEW a, NEW n, NEW f, Reading(c, a, n, f), n > 0, HasPrefix("force", a[1])
  PROVE  AsMeant(c, "cancel-commit", a)
<1>1. /\ a \in Seq(Word) /\ a # <<>> /\ n \in Nat /\ n = Len(a) /\ f[0] = NoDefs
      /\ ~HasPrefix("comment", a[1]) /\ ~HasPrefix("persist-id", a[1])
  BY FirstKeyword
<1> DEFINE rest == CommentOf(Tail(a), FALSE)
<1>2. MeantPlain(a) = {} /\ MeantPersist(a) = {}
  <2>1. CommentOf(a, FALSE) = {}
    BY <1>1, CommentMeant, Zenon
  <2> QED BY <1>1, <2>1 DEF MeantPlain, MeantPersist
<1>3. Meant("cancel-commit", a) = {Send("CancelCommit", Blank, t, TRUE) : t \in rest}
  <2>1. MeantForce(a) = {Send("CancelCommit", Blank, t, TRUE) : t \in rest}
    BY <1>1 DEF MeantForce
  <2> HIDE DEF rest
  <2> QED BY <1>2, <2>1, CancelMeant
<1> HIDE DEF rest
<1>4. PICK one \in Nat, two \in Nat, three \in Nat :
        one = 1 /\ two = one + 1 /\ two = 2 /\ three = two + 1 /\ three = 3
  OBVIOUS
<1>5. Says(f[1], Blank, Blank, TRUE)
  BY ReadsForce
<1>6. Tail(a) \in Seq(Word) /\ Len(Tail(a)) = n - 1
  BY <1>1
<1>7. CASE n = 1
  <2>1. Len(Tail(a)) = 0
    BY <1>6, <1>7
  <2>2. Tail(a) = <<>>
    BY <1>6, <2>1, NoWords
  <2>3. rest = {Blank}
    BY <1>6, <2>2, CommentMeant, Zenon DEF rest
  <2>4. Requested(c) = Send("CancelCommit", Blank, Blank, TRUE)
    BY <1>5, <1>7, RequestOf DEF Reading
  <2> QED BY <1>3, <2>3, <2>4 DEF AsMeant
<1>8. CASE n = 3 /\ HasPrefix("comment", a[2])
  <2>1. Awaits(f[two], "comment", Blank, Blank, TRUE)
    <3>0. one < n /\ HasPrefix("comment", a[two])
      BY <1>4, <1>8
    <3>1. Says(f[one], Blank, Blank, TRUE) /\ one < n /\ HasPrefix("comment", a[two])
      BY <1>4, <1>5, <3>0, Zenon
    <3>2. "comment" \in NeedArg /\ ("comment" \notin AtStart \/ one = 0)
      BY DEF NeedArg, AtStart
    <3> QED BY <1>4, <3>1, <3>2, ReadsKeyword
  <2>2. two < n
    BY <1>4, <1>8
  <2>3. Says(f[three], Blank, a[three], TRUE)
    BY <1>4, <2>1, <2>2, ReadsArgument
  <2>4. Requested(c) = Send("CancelCommit", Blank, a[3], TRUE)
    BY <1>4, <1>8, <2>3, RequestOf DEF Reading
  <2>5. Len(Tail(a)) = 2 /\ Tail(a)[1] = a[2] /\ Tail(a)[2] = a[3]
    BY <1>1, <1>6, <1>8
  <2>6. HasPrefix("comment", Tail(a)[1])
    BY <1>8, <2>5
  <2>7. rest = {Tail(a)[2]}
    BY <1>6, <2>5, <2>6, CommentMeant, Zenon DEF rest
  <2> QED BY <1>3, <2>4, <2>5, <2>7 DEF AsMeant
<1>9. CASE n # 1 /\ ~(n = 3 /\ HasPrefix("comment", a[2]))
  <2>1. rest = {}
    <3>1. Len(Tail(a)) # 0
      BY <1>1, <1>6, <1>9
    <3>2. Tail(a) # <<>>
      BY <1>6, <3>1, NoWords
    <3>3. CASE n = 3
      <4>1. Len(Tail(a)) = 2 /\ Tail(a)[1] = a[2]
        BY <1>1, <1>6, <3>3
      <4>2. ~HasPrefix("comment", Tail(a)[1])
        BY <1>9, <3>3, <4>1
      <4> QED BY <1>6, <4>1, <4>2, CommentMeant, Zenon DEF rest
    <3>4. CASE n # 3
      <4>1. Len(Tail(a)) # 2
        BY <1>1, <1>6, <3>4
      <4> QED BY <1>6, <3>2, <4>1, CommentMeant, Zenon DEF rest
    <3> QED BY <3>3, <3>4
  <2>2. Meant("cancel-commit", a) = {}
    BY <1>3, <2>1
  <2>3. ~f[one].needarg /\ one <= n /\ one # 0
    BY <1>1, <1>4, <1>5 DEF Says
  <2>4. Meant("cancel-commit", SubSeq(a, 1, one)) # {}
    <3> DEFINE b == SubSeq(a, 1, one)
    <3>1. b \in Seq(Word) /\ Len(b) = 1 /\ b[1] = a[1]
      BY <1>1, <1>4
    <3> HIDE DEF b
    <3>2. b # <<>> /\ Tail(b) = <<>> /\ Tail(b) \in Seq(Word)
      BY <3>1, TailOfOne
    <3>3. Tail(b) = <<>>
      BY <3>2
    <3>4. CommentOf(Tail(b), FALSE) = {Blank}
      BY <3>2, <3>3, CommentMeant, Zenon
    <3>5. MeantForce(b) # {}
      BY <3>1, <3>2, <3>4 DEF MeantForce
    <3>6. Meant("cancel-commit", b) # {}
      BY <3>5, CancelMeant
    <3> QED BY <3>6 DEF b
  <2> QED BY <2>2, <2>3, <2>4, CancelLenient
<1> QED BY <1>7, <1>8, <1>9

\* cancel-commit persist-id <text> [comment <text>]
LEMMA CancelPersist ==
  ASSUME NEW c, NEW a, NEW n, NEW f, Reading(c, a, n, f), n > 0, HasPrefix("persist-id", a[1])
  PROVE  AsMeant(c, "cancel-commit", a)
<1>1. /\ a \in Seq(Word) /\ a # <<>> /\ n \in Nat /\ n = Len(a) /\ f[0] = NoDefs
      /\ ~HasPrefix("comment", a[1]) /\ ~HasPrefix("force", a[1])
  BY FirstKeyword
<1> DEFINE rest == CommentOf(SubSeq(a, 3, n), FALSE)
<1>2. MeantPlain(a) = {} /\ MeantForce(a) = {}
  <2>1. CommentOf(a, FALSE) = {}
    BY <1>1, CommentMeant, Zenon
  <2> QED BY <1>1, <2>1 DEF MeantPlain, MeantForce
<1>3. CASE n = 1
  <2>1. Lenient("cancel-commit", a)
    BY <1>1, <1>3 DEF Lenient
  <2>2. MeantPersist(a) = {}
    BY <1>1, <1>3 DEF MeantPersist
  <2>3. Meant("cancel-commit", a) = {}
    BY <1>2, <2>2, CancelMeant
  <2> QED BY <2>1, <2>3 DEF AsMeant
<1>4. CASE n > 1
  <2>1. Meant("cancel-commit", a) = {Send("CancelCommit", a[2], t, FALSE) : t \in rest}
    <3>1. MeantPersist(a) = {Send("CancelCommit", a[2], t, FALSE) : t \in rest}
      BY <1>1, <1>4 DEF MeantPersist
    <3> HIDE DEF rest
    <3> QED BY <1>2, <3>1, CancelMeant
  <2> HIDE DEF rest
  <2>2. PICK zero \in Nat, one \in Nat, two \in Nat, three \in Nat, four \in Nat :
          /\ zero = 0 /\ one = zero + 1 /\ one = 1 /\ two = one + 1 /\ two = 2
          /\ three = two + 1 /\ three = 3 /\ four = three + 1 /\ four = 4
    OBVIOUS
  <2>3. Awaits(f[one], "persist-id", Blank, Blank, FALSE)
    <3>1. Says(f[zero], Blank, Blank, FALSE) /\ zero < n /\ HasPrefix("persist-id", a[one])
      BY <1>1, <2>2, SaysNothing
    <3>2. "persist-id" \in NeedArg /\ ("persist-id" \notin AtStart \/ zero = 0)
      BY <2>2 DEF NeedArg
    <3> QED BY <2>2, <3>1, <3>2, ReadsKeyword
  <2>4. Says(f[two], a[two], Blank, FALSE)
    <3>1. one < n
      BY <1>4, <2>2
    <3> QED BY <2>2, <2>3, <3>1, ReadsArgument
  <2>5. PICK r \in Seq(Word) : r = SubSeq(a, 3, n) /\ Len(r) = n - 2 /\ \A i \in 1..(n - 2) : r[i] = a[i + 2]
    <3>1. /\ SubSeq(a, 3, n) \in Seq(Word) /\ Len(SubSeq(a, 3, n)) = n - 2
          /\ \A i \in 1..(n - 2) : SubSeq(a, 3, n)[i] = a[i + 2]
      BY <1>1, <1>4, FromThird
    <3> QED BY <3>1
  <2>6. CASE n = 2
    <3>1. Len(r) = 0
      BY <2>5, <2>6
    <3>2. r = <<>>
      BY <3>1, NoWords
    <3>3. rest = {Blank}
      BY <2>5, <3>2, CommentMeant, Zenon DEF rest
    <3>4. Requested(c) = Send("CancelCommit", a[2], Blank, FALSE)
      BY <2>2, <2>4, <2>6, RequestOf DEF Reading
    <3> QED BY <2>1, <3>3, <3>4 DEF AsMeant
  <2>7. CASE n = 4 /\ HasPrefix("comment", a[3])
    <3>1. Awaits(f[three], "comment", a[two], Blank, FALSE)
      <4>1. two < n /\ HasPrefix("comment", a[three])
        BY <2>2, <2>7
      <4>2. "comment" \in NeedArg /\ ("comment" \notin AtStart \/ two = 0)
        BY DEF NeedArg, AtStart
      <4> QED BY <2>2, <2>4, <4>1, <4>2, ReadsKeyword
    <3>2. three < n
      BY <2>2, <2>7
    <3>3. Says(f[four], a[two], a[four], FALSE)
      BY <2>2, <3>1, <3>2, ReadsArgument
    <3>4. Requested(c) = Send("CancelCommit", a[2], a[4], FALSE)
      BY <2>2, <2>7, <3>3, RequestOf DEF Reading
    <3>5. Len(r) = 2 /\ r[1] = a[3] /\ r[2] = a[4]
      BY <2>5, <2>7
    <3>6. HasPrefix("comment", r[1])
      BY <2>7, <3>5
    <3>7. rest = {r[2]}
      BY <2>5, <3>5, <3>6, CommentMeant, Zenon DEF rest
    <3> QED BY <2>1, <3>4, <3>5, <3>7 DEF AsMeant
  <2>8. CASE n # 2 /\ ~(n = 4 /\ HasPrefix("comment", a[3]))
    <3>1. rest = {}
      <4>1. Len(r) # 0
        BY <1>1, <1>4, <2>5, <2>8
      <4>2. r # <<>>
        BY <4>1, NoWords
      <4>3. CASE n = 4
        <5>1. Len(r) = 2 /\ r[1] = a[3]
          BY <2>5, <4>3
        <5>2. ~HasPrefix("comment", r[1])
          BY <2>8, <4>3, <5>1
        <5> QED BY <2>5, <5>1, <5>2, CommentMeant, Zenon DEF rest
      <4>4. CASE n # 4
        <5>1. Len(r) # 2
          BY <1>1, <2>5, <4>4
        <5> QED BY <2>5, <4>2, <5>1, CommentMeant, Zenon DEF rest
      <4> QED BY <4>3, <4>4
    <3>2. Meant("cancel-commit", a) = {}
      BY <2>1, <3>1
    <3>3. ~f[two].needarg /\ two <= n /\ two # 0
      BY <1>1, <1>4, <2>2, <2>4 DEF Says
    <3>4. Meant("cancel-commit", SubSeq(a, 1, two)) # {}
      <4> DEFINE b == SubSeq(a, 1, two)
      <4>1. b \in Seq(Word) /\ Len(b) = 2 /\ b[1] = a[1]
        BY <1>1, <1>4, <2>2
      <4> HIDE DEF b
      <4>2. SubSeq(b, 3, Len(b)) = <<>> /\ <<>> \in Seq(Word) /\ Len(b) > 1
        BY <4>1
      <4>3. CommentOf(SubSeq(b, 3, Len(b)), FALSE) = {Blank}
        BY <4>2, CommentMeant, Zenon
      <4>4. MeantPersist(b) # {}
        <5>1. HasPrefix("persist-id", b[1])
          BY <4>1
        <5>2. Send("CancelCommit", b[2], Blank, FALSE) \in MeantPersist(b)
          BY <4>2, <4>3, <5>1 DEF MeantPersist
        <5> QED BY <5>2
      <4>5. Meant("cancel-commit", b) # {}
        BY <4>4, CancelMeant
      <4> QED BY <4>5 DEF b
    <3> QED BY <3>2, <3>3, <3>4, CancelLenient
  <2> QED BY <2>6, <2>7, <2>8
<1>5. n = 1 \/ n > 1
  BY <1>1
<1> QED BY <1>3, <1>4, <1>5

LEMMA CancelAsMeant ==
  ASSUME NEW c, NEW a, Ran(c, "cancel-commit", a)
  PROVE  AsMeant(c, "cancel-commit", a)
<1>1. PICK n : n = Len(a) /\ n \in Nat
  BY RanFields
<1>2. PICK f : Reading(c, a, n, f)
  BY <1>1, CancelRead
<1>3. CASE n = 0
  <2>1. f[n] = NoDefs /\ a \in Seq(Word)
    BY <1>2, <1>3 DEF Reading, Parsed, Ran
  <2>2. Requested(c) = Send("CancelCommit", Blank, Blank, FALSE)
    BY <1>2, <2>1, SaysNothing, RequestOf DEF Reading
  <2>3. a = <<>>
    BY <1>1, <1>3, <2>1, NoWords
  <2>4. CommentOf(a, FALSE) = {Blank}
    BY <2>1, <2>3, CommentMeant, Zenon
  <2>5. Send("CancelCommit", Blank, Blank, FALSE) \in MeantPlain(a)
    BY <2>4 DEF MeantPlain
  <2> QED BY <2>2, <2>5, CancelMeant DEF AsMeant
<1>4. CASE n > 0 /\ \E k \in Keyword : HasPrefix(k, a[1])
  <2>1. HasPrefix("comment", a[1]) \/ HasPrefix("force", a[1]) \/ HasPrefix("persist-id", a[1])
    BY <1>4 DEF Keyword, NeedArg, AtStart
  <2> QED BY <1>2, <1>4, <2>1, CancelComment, CancelForce, CancelPersist
<1>5. CASE n > 0 /\ ~\E k \in Keyword : HasPrefix(k, a[1])
  <2>1. /\ a \in Seq(Word) /\ a # <<>> /\ f[0] = NoDefs
        /\ ~HasPrefix("comment", a[1]) /\ ~HasPrefix("force", a[1]) /\ ~HasPrefix("persist-id", a[1])
    BY <1>2, <1>5, FirstKeyword
  <2>2. CommentOf(a, FALSE) = {}
    BY <2>1, CommentMeant, Zenon
  <2>3. MeantPlain(a) = {} /\ MeantForce(a) = {} /\ MeantPersist(a) = {}
    BY <2>1, <2>2 DEF MeantPlain, MeantForce, MeantPersist
  <2>4. Meant("cancel-commit", a) = {}
    BY <2>3, CancelMeant
  <2>5. ~f[n].ok
    <3> SUFFICES ASSUME f[n].ok PROVE FALSE
      OBVIOUS
    <3>1. c.args \in Seq(Word) /\ n < Len(c.args) /\ Parsed(f, n, c)
      BY <1>1, <1>2 DEF Reading, Ran
    <3>2. \A i \in 0..n : f[i].ok
      BY <1>1, <3>1, AcceptedThroughout
    <3>3. PICK i \in Nat, b \in Nat : i = 0 /\ b = i + 1 /\ b = 1
      OBVIOUS
    <3>4. PICK w \in Word : w = a[b] /\ w = Arg(c, i + 1) /\ f[b] = validateWord(c, i, f[i])
      BY <1>2, <1>5, <3>3, WordRead
    <3>5. f[b].ok
      BY <1>1, <1>5, <3>2, <3>3
    <3>6. DefsOK(f[i]) /\ f[i].ok /\ ~f[i].needarg
      BY <2>1, <3>3, SaysNothing DEF Says
    <3>7. \E k \in Keyword : (k \notin AtStart \/ i = 0) /\ HasPrefix(k, w)
      BY <3>4, <3>5, <3>6, KeywordNeeded
    <3> QED BY <1>5, <3>3, <3>4, <3>7
  <2>6. Requested(c) = Refused
    BY <1>2, <2>5 DEF Reading, Request
  <2> QED BY <2>4, <2>6 DEF AsMeant
<1>6. n = 0 \/ n > 0
  BY <1>1
<1> QED BY <1>3, <1>4, <1>5, <1>6

LEMMA RanLine ==
  ASSUME line \in Seq(Word), line # <<>>, Blank \notin ToSet(line), NEW c, c = RunContext(line)
  PROVE  Ran(c, Arg(c, 0), Tail(c.args))
<1> DEFINE cmd == ExpandCommand(Head(line))
           t == Tail(line)
           args == <<cmd>> \o t
<1>1. cmd \in Word
  BY CommandFound, LineAssumption, PathAssumption
<1>2. c = [args |-> args, idx |-> 0, prefix |-> "__noncomp__"]
  BY DEF RunContext, Context
<1>3. t \in Seq(Word) /\ Len(line) \in Nat /\ Len(t) = Len(line) - 1 /\ \A i \in 1..Len(t) : t[i] = line[i + 1]
  OBVIOUS
<1>4. \A i \in 1..Len(t) : t[i] # Blank
  <2> SUFFICES ASSUME NEW i \in 1..Len(t) PROVE line[i + 1] # Blank
    BY <1>3
  <2>1. i + 1 \in DOMAIN line
    BY <1>3
  <2> QED BY <2>1 DEF ToSet
<1> HIDE DEF cmd, t
<1>5. /\ args \in Seq(Word) /\ Len(args) = Len(t) + 1 /\ args[1] = cmd
      /\ \A i \in 1..Len(t) : args[i + 1] = t[i]
  BY <1>1, <1>3
<1>6. Tail(args) = t
  BY <1>1, <1>3
<1> HIDE DEF args
<1>7. c.args = args
  BY <1>2
<1>8. Arg(c, 0) = cmd
  BY <1>5, <1>7 DEF Arg
<1> QED BY <1>2, <1>3, <1>4, <1>5, <1>6, <1>7, <1>8 DEF Ran

\* The commands that commit, confirm, cancel and roll back send the request that their
\* words stand for, and send none for words that stand for nothing, but for the named
\* leniencies: for lines of every length and every vocabulary in which a word that is
\* not empty abbreviates one keyword at most.
THEOREM LinesRunAsMeant == Spec => []RunsAsMeant
<1>1. Inv => RunsAsMeant
  <2> SUFFICES ASSUME line \in Seq(Word), line # <<>>, Blank \notin ToSet(line), NEW c, c = RunContext(line),
                      NEW cmd, cmd = Arg(c, 0), NEW a, a = Tail(c.args),
                      cmd \in {"commit", "commit-confirm", "rollback", "confirm", "cancel-commit"}
               PROVE  AsMeant(c, cmd, a)
    BY DEF RunsAsMeant, AsMeant, Inv, LineOK
  <2>1. Ran(c, cmd, a)
    BY RanLine
  <2> QED BY <2>1, CommitAsMeant, CommitConfirmAsMeant, RollbackAsMeant, ConfirmAsMeant, CancelAsMeant
<1> QED BY <1>1, InvAlways, PTL

=============================================================================
