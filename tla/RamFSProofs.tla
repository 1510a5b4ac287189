----------------------------- MODULE RamFSProofs -----------------------------
(***************************************************************************)
(* The RAM filesystem keeps its tree, for every size of the heap, every    *)
(* set of paths, names and lengths: theorems of Spec of RamFS.tla, from    *)
(* the lemmas of RamListProofs.tla about its lists.                        *)
(*                                                                         *)
(* The inductive invariant (Inv) holds of the pointers at every loop turn  *)
(* of rm and copy, where the tree is half gone or half made: each          *)
(* activation of recursiveDestroy stands at the first child its folder has *)
(* left, and each activation of cloneNode holds a copy nobody points at,   *)
(* with its list ending at lastCopy.                                       *)
(***************************************************************************)
EXTENDS RamListProofs, SequenceTheorems

-----------------------------------------------------------------------------
(* Stacks. *)

\* An activation more on the stack.
LEMMA Pushed ==
  ASSUME NEW S, NEW s \in Seq(S), NEW a \in S
  PROVE  /\ <<a>> \o s \in Seq(S) /\ Len(<<a>> \o s) = Len(s) + 1
         /\ DOMAIN (<<a>> \o s) = 1 .. Len(s) + 1
         /\ (<<a>> \o s)[1] = a
         /\ \A k \in 1 .. Len(s) + 1 : k > 1 => (<<a>> \o s)[k] = s[k - 1]
<1>1. <<a>> \in Seq(S) /\ Len(<<a>>) = 1 /\ <<a>>[1] = a /\ Len(s) \in Nat
  OBVIOUS
<1>2. /\ <<a>> \o s \in Seq(S) /\ Len(<<a>> \o s) = 1 + Len(s)
      /\ \A k \in 1 .. 1 + Len(s) :
           (<<a>> \o s)[k] = IF k <= 1 THEN <<a>>[k] ELSE s[k - 1]
  BY <1>1, ConcatProperties
<1>3. DOMAIN (<<a>> \o s) = 1 .. Len(<<a>> \o s)
  BY <1>2, LenProperties
<1>4. 1 \in 1 .. 1 + Len(s) /\ 1 + Len(s) = Len(s) + 1
  BY <1>1
<1>5. \A k \in 1 .. Len(s) + 1 : k > 1 => ~(k <= 1)
  BY <1>1
<1>6. (<<a>> \o s)[1] = a
  BY <1>1, <1>2, <1>4
<1>7. \A k \in 1 .. Len(s) + 1 : k > 1 => (<<a>> \o s)[k] = s[k - 1]
  BY <1>2, <1>4, <1>5
<1> QED BY <1>2, <1>3, <1>4, <1>6, <1>7

\* What is under the innermost activation.
LEMMA Popped ==
  ASSUME NEW S, NEW s \in Seq(S), s # <<>>
  PROVE  /\ Tail(s) \in Seq(S) /\ Len(s) \in Nat /\ Len(s) > 0 /\ DOMAIN s = 1 .. Len(s)
         /\ Len(Tail(s)) = Len(s) - 1 /\ Head(s) = s[1]
         /\ DOMAIN Tail(s) = 1 .. Len(s) - 1
         /\ \A k \in 1 .. Len(s) - 1 : Tail(s)[k] = s[k + 1]
         /\ \A k \in DOMAIN s : s[k] \in S
<1>1. /\ Tail(s) \in Seq(S) /\ Len(Tail(s)) = Len(s) - 1
      /\ \A k \in 1 .. Len(Tail(s)) : Tail(s)[k] = s[k + 1]
      /\ Head(s) = s[1]
  BY HeadTailProperties
<1>2. Len(s) \in Nat /\ Len(s) > 0 /\ DOMAIN s = 1 .. Len(s) /\ \A k \in DOMAIN s : s[k] \in S
  BY EmptySeq, LenProperties, ElementOfSeq
<1>3. DOMAIN Tail(s) = 1 .. Len(Tail(s))
  BY <1>1, LenProperties
<1> QED BY <1>1, <1>2, <1>3

\* The innermost activation goes on.
LEMMA Replaced ==
  ASSUME NEW S, NEW s \in Seq(S), s # <<>>, NEW a \in S
  PROVE  /\ <<a>> \o Tail(s) \in Seq(S) /\ Len(<<a>> \o Tail(s)) = Len(s)
         /\ DOMAIN (<<a>> \o Tail(s)) = 1 .. Len(s)
         /\ (<<a>> \o Tail(s))[1] = a
         /\ \A k \in 1 .. Len(s) : k > 1 => (<<a>> \o Tail(s))[k] = s[k]
<1> DEFINE t == Tail(s)
<1>1. /\ t \in Seq(S) /\ Len(s) \in Nat /\ Len(t) = Len(s) - 1
      /\ \A k \in 1 .. Len(s) - 1 : t[k] = s[k + 1]
  BY Popped
<1> HIDE DEF t
<1>2. /\ <<a>> \o t \in Seq(S) /\ Len(<<a>> \o t) = Len(t) + 1
      /\ DOMAIN (<<a>> \o t) = 1 .. Len(t) + 1
      /\ (<<a>> \o t)[1] = a
      /\ \A k \in 1 .. Len(t) + 1 : k > 1 => (<<a>> \o t)[k] = t[k - 1]
  BY <1>1, Pushed
<1>3. Len(t) + 1 = Len(s)
  BY <1>1
<1>4. ASSUME NEW k \in 1 .. Len(s), k > 1 PROVE (<<a>> \o t)[k] = s[k]
  <2>1. k - 1 \in 1 .. Len(s) - 1 /\ (k - 1) + 1 = k
    BY <1>1, <1>4
  <2>2. (<<a>> \o t)[k] = t[k - 1]
    BY <1>2, <1>3, <1>4
  <2> QED BY <1>1, <2>1, <2>2
<1> QED BY <1>2, <1>3, <1>4 DEF t

\* The innermost activation goes on and calls.
LEMMA Called ==
  ASSUME NEW S, NEW s \in Seq(S), s # <<>>, NEW a \in S, NEW b \in S
  PROVE  LET t == <<a, b>> \o Tail(s)
         IN  /\ t \in Seq(S) /\ Len(t) = Len(s) + 1 /\ DOMAIN t = 1 .. Len(s) + 1
             /\ t[1] = a /\ t[2] = b
             /\ \A k \in 1 .. Len(s) + 1 : k > 2 => t[k] = s[k - 1]
<1> DEFINE u == Tail(s)
           t == <<a, b>> \o u
<1>1. /\ u \in Seq(S) /\ Len(s) \in Nat /\ Len(s) > 0 /\ Len(u) = Len(s) - 1
      /\ \A k \in 1 .. Len(s) - 1 : u[k] = s[k + 1]
  BY Popped
<1>2. <<a, b>> \in Seq(S) /\ Len(<<a, b>>) = 2 /\ <<a, b>>[1] = a /\ <<a, b>>[2] = b
  OBVIOUS
<1> HIDE DEF u
<1>3. /\ t \in Seq(S) /\ Len(t) = 2 + Len(u)
      /\ \A k \in 1 .. 2 + Len(u) : t[k] = IF k <= 2 THEN <<a, b>>[k] ELSE u[k - 2]
  BY <1>1, <1>2, ConcatProperties
<1>4. DOMAIN t = 1 .. Len(t)
  BY <1>3, LenProperties
<1> HIDE DEF t
<1>5. 2 + Len(u) = Len(s) + 1 /\ 1 \in 1 .. 2 + Len(u) /\ 2 \in 1 .. 2 + Len(u)
  BY <1>1
<1>6. t[1] = a /\ t[2] = b
  BY <1>2, <1>3, <1>5
<1>7. ASSUME NEW k \in 1 .. Len(s) + 1, k > 2 PROVE t[k] = s[k - 1]
  <2>1. ~(k <= 2) /\ k - 2 \in 1 .. Len(s) - 1 /\ (k - 2) + 1 = k - 1
    BY <1>1, <1>7
  <2>2. t[k] = u[k - 2]
    BY <1>3, <1>5, <2>1
  <2> QED BY <1>1, <2>1, <2>2
<1> QED BY <1>3, <1>4, <1>5, <1>6, <1>7 DEF t, u

\* The innermost activation returns, and the one under it goes on.
LEMMA Returned ==
  ASSUME NEW S, NEW s \in Seq(S), Len(s) > 1, NEW a \in S
  PROVE  LET t == <<a>> \o SubSeq(s, 3, Len(s))
         IN  /\ t \in Seq(S) /\ Len(t) = Len(s) - 1 /\ DOMAIN t = 1 .. Len(s) - 1
             /\ t[1] = a
             /\ \A k \in 1 .. Len(s) - 1 : k > 1 => t[k] = s[k + 1]
<1> DEFINE u == SubSeq(s, 3, Len(s))
           t == <<a>> \o u
<1>1. Len(s) \in Nat
  OBVIOUS
<1>2. /\ u \in Seq(S) /\ Len(u) = Len(s) - 2
      /\ \A k \in 1 .. Len(s) - 2 : u[k] = s[3 + k - 1]
  <2>1. \A k \in 3 .. Len(s) : s[k] \in S
    BY <1>1
  <2>2. /\ u \in Seq(S) /\ Len(u) = IF 3 <= Len(s) THEN Len(s) - 3 + 1 ELSE 0
        /\ \A k \in 1 .. Len(s) - 3 + 1 : u[k] = s[3 + k - 1]
    BY <1>1, <2>1, SubSeqProperties
  <2>3. \A n \in Nat : n > 1 => n - 3 + 1 = n - 2 /\ (3 <= n \/ n - 2 = 0)
    OBVIOUS
  <2>4. Len(s) - 3 + 1 = Len(s) - 2 /\ (3 <= Len(s) \/ Len(s) - 2 = 0)
    BY <1>1, <2>3
  <2> HIDE DEF u
  <2> QED BY <2>2, <2>4
<1> HIDE DEF u
<1>3. /\ t \in Seq(S) /\ Len(t) = Len(u) + 1
      /\ DOMAIN t = 1 .. Len(u) + 1
      /\ t[1] = a
      /\ \A k \in 1 .. Len(u) + 1 : k > 1 => t[k] = u[k - 1]
  BY <1>2, Pushed
<1> HIDE DEF t
<1>4. Len(u) + 1 = Len(s) - 1
  BY <1>1, <1>2
<1>5. ASSUME NEW k \in 1 .. Len(s) - 1, k > 1 PROVE t[k] = s[k + 1]
  <2>1. k - 1 \in 1 .. Len(s) - 2 /\ 3 + (k - 1) - 1 = k + 1
    BY <1>1, <1>5
  <2>2. t[k] = u[k - 1]
    BY <1>3, <1>4, <1>5
  <2> QED BY <1>2, <2>1, <2>2
<1> QED BY <1>3, <1>4, <1>5 DEF t, u

-----------------------------------------------------------------------------
(* The inductive invariant. *)

\* `size` tells what `data` holds.
Sizes(nd) == \A n \in DOMAIN nd : nd[n].data # NoData => nd[n].size = nd[n].data

\* The names the code gives: "." and ".." are none, unless rename is told so.
ProperNames == {name \in Names : name \in {".", ".."} => name \in NewNames}

Named(nd) == \A n \in DOMAIN nd : nd[n].name \in ProperNames

\* The root is a folder that nobody points at.
RootOk(nd) ==
  /\ Root \in DOMAIN nd /\ nd[Root].type = "Folder" /\ nd[Root].parent = NULL
  /\ ~Pointed(nd, Root)

\* Only nodes of the tree have children, but for those in loose.
Rooted(nd, loose) == \A p \in DOMAIN nd : nd[p].first # NULL => Placed(nd, p) \/ p \in loose

\* cur is a folder of the tree, or freed.
FolderOk(nd, cur) ==
  cur \in Ids /\ (cur \in DOMAIN nd => Placed(nd, cur) /\ nd[cur].type = "Folder")

\* All that holds of the nodes at every step.
World(nd, loose, cur, age) ==
  /\ Typed(nd) /\ Forest(nd, age) /\ RootOk(nd) /\ Sizes(nd) /\ Named(nd)
  /\ Rooted(nd, loose) /\ FolderOk(nd, cur)

\* The copies under way.
Copies == IF pc = "clone" THEN {stack[k].copy : k \in DOMAIN stack} ELSE {}

Control ==
  /\ pc \in {"idle", "destroy", "clone"} /\ wild \in BOOLEAN
  /\ pc = "idle" => stack = <<>>
  /\ kept \subseteq Ids /\ dest.name \in ProperNames
  /\ pc = "clone" => current \in DOMAIN node

Activations == [dir : Ids, last : Ids \cup {NULL}]

\* Every activation of recursiveDestroy stands at the first child that is
\* left; the ones below the innermost wait for that child to go.
DestroyOk(age) ==
  pc = "destroy" =>
    /\ stack \in Seq(Activations) /\ stack # <<>>
    /\ \A k \in DOMAIN stack :
         /\ stack[k].dir \in DOMAIN node /\ Placed(node, stack[k].dir)
         /\ node[stack[k].dir].type = "Folder"
    /\ stack[1].last = node[stack[1].dir].first
    /\ \A k \in DOMAIN stack : k > 1 =>
         /\ node[stack[k].dir].first = stack[k - 1].dir
         /\ stack[k].last = node[stack[k - 1].dir].next
    /\ \A j, k \in DOMAIN stack : j < k => age[stack[k].dir] < age[stack[j].dir]

\* What rm has still to free is the folder it was given and, with each node,
\* its children.
Removing ==
  pc = "destroy" =>
    LET gone == DOMAIN node \ kept
    IN  /\ kept \subseteq DOMAIN node
        /\ \A k \in DOMAIN stack : stack[k].dir \in gone
        /\ \A i \in gone : i # stack[Len(stack)].dir => Pointed(node, i) /\ node[i].parent \in gone
        /\ \A i \in DOMAIN node : Pointed(node, i) /\ node[i].parent \in gone => i \in gone

Clones == [copy : Ids, child : Ids \cup {NULL}, lastCopy : Ids \cup {NULL}]

\* An activation of cloneNode holds a copy nobody points at, and the last node
\* of its list.
CopyOk(nd, a) ==
  /\ a.copy \in DOMAIN nd /\ ~Placed(nd, a.copy)
  /\ a.child # NULL => a.child \in DOMAIN nd /\ Pointed(nd, a.child)
  /\ a.child # NULL \/ a.lastCopy # NULL => nd[a.copy].type = "Folder"
  /\ a.lastCopy = NULL <=> nd[a.copy].first = NULL
  /\ a.lastCopy # NULL => ChildOf(nd, a.lastCopy, a.copy) /\ nd[a.lastCopy].next = NULL

ClonesOk(age) ==
  pc = "clone" =>
    /\ stack \in Seq(Clones) /\ stack # <<>>
    /\ \A k \in DOMAIN stack : CopyOk(node, stack[k])
    /\ \A k \in DOMAIN stack : k > 1 =>
         /\ node[stack[k - 1].copy].parent = stack[k].copy
         /\ stack[k].child # NULL
         /\ stack[k].lastCopy # NULL => age[stack[k].lastCopy] < age[stack[k - 1].copy]
    /\ \A j, k \in DOMAIN stack : j < k => age[stack[k].copy] < age[stack[j].copy]

\* The folder copy puts its result into is in the tree, and what it holds is
\* older than the result.
DestOk(age) ==
  pc = "clone" =>
    LET c == stack[Len(stack)].copy
    IN  /\ dest.parent \in DOMAIN node /\ Placed(node, dest.parent)
        /\ node[dest.parent].type = "Folder"
        /\ node[c].parent = dest.parent /\ age[dest.parent] < age[c]
        /\ \A i \in DOMAIN node : ChildOf(node, i, dest.parent) =>
             age[i] < age[c] /\ node[i].name # dest.name

\* A copy has the name of what it is a copy of, and its children the names of
\* nodes before the one that is copied now.
NamesCopied(age) ==
  pc = "clone" =>
    /\ \A k \in DOMAIN stack : k > 1 => node[stack[k - 1].copy].name = node[stack[k].child].name
    /\ \A k \in DOMAIN stack : stack[k].child # NULL =>
         \A i \in DOMAIN node : ChildOf(node, i, stack[k].copy) =>
           \E j \in DOMAIN node :
             /\ ChildOf(node, j, node[stack[k].child].parent)
             /\ age[j] < age[stack[k].child] /\ node[j].name = node[i].name

IInv(age) ==
  /\ Control /\ World(node, Copies, current, age)
  /\ DestroyOk(age) /\ Removing /\ ClonesOk(age) /\ DestOk(age) /\ NamesCopied(age)

\* There is a time at which each node was made such that all of it holds.
Inv == \E age \in [Ids -> Nat] : IInv(age)

-----------------------------------------------------------------------------
(* The nodes alone. *)

\* The empty string and the root's name are names.
LEMMA RootNode ==
  /\ NewNode("/", "Folder", NULL, NoData, 0) \in Node
  /\ "" \in ProperNames /\ "/" \in ProperNames
<1>1. "/" \in Names /\ "" \in Names
  BY DEF Names
<1>2. MAX_LENGTH \in Nat
  BY RamFSAssumption
<1>3. 0 \in 0 .. MAX_LENGTH
  BY <1>2
<1>4. "" \in ProperNames /\ "/" \in ProperNames
  BY <1>1 DEF ProperNames
<1> QED BY <1>1, <1>3, <1>4 DEF NewNode, Node, Types, NoData, NULL

\* The tree the system starts with.
LEMMA NewTreeWorld ==
  ASSUME NEW age \in [Ids -> Nat]
  PROVE  World(NewTree, {}, Root, age)
<1>1. /\ DOMAIN NewTree = {Root} /\ NewTree[Root].first = NULL /\ NewTree[Root].next = NULL
      /\ NewTree[Root].type = "Folder" /\ NewTree[Root].parent = NULL
      /\ NewTree[Root].data = NoData /\ NewTree[Root].name = "/"
  BY DEF NewTree, NewNode
<1>2. Root \in Ids /\ NULL # Root
  BY NullIsNoId
<1>3. Typed(NewTree)
  <2>1. NewTree \in [{Root} -> Node]
    BY RootNode DEF NewTree
  <2> QED BY <1>1, <1>2, <2>1 DEF Typed
<1>4. ~Pointed(NewTree, Root)
  BY <1>1, <1>2 DEF Pointed
<1>5. Forest(NewTree, age)
  BY <1>1, <1>2 DEF Forest, FirstOk, NextOk, PointedOnce
<1>6. Named(NewTree)
  BY <1>1, RootNode DEF Named
<1> QED BY <1>1, <1>2, <1>3, <1>4, <1>5, <1>6 DEF World, RootOk, Sizes, Rooted, FolderOk, Placed

\* The ages once i was made.
Aged(age, i, now) == [age EXCEPT ![i] = now]

\* A node more, with nothing below it.
LEMMA AddWorld ==
  ASSUME NEW nd, NEW loose, NEW cur, NEW age, World(nd, loose, cur, age), cur \in DOMAIN nd,
         NEW i \in Ids, i \notin DOMAIN nd,
         NEW r \in Node, r.first = NULL, r.next = NULL,
         r.data # NoData => r.size = r.data, r.name \in ProperNames,
         NEW now \in Nat
  PROVE  /\ World(Add(nd, i, r), loose, cur, Aged(age, i, now))
         /\ Added(nd, Add(nd, i, r), i) /\ Add(nd, i, r)[i] = r
         /\ \A j \in DOMAIN nd : Add(nd, i, r)[j] = nd[j]
         /\ \A j \in DOMAIN Add(nd, i, r) : Pointed(Add(nd, i, r), j) <=> Pointed(nd, j)
         /\ ~Pointed(Add(nd, i, r), i)
<1> DEFINE nd2 == Add(nd, i, r)
           age2 == [age EXCEPT ![i] = now]
<1>1. /\ Typed(nd) /\ Forest(nd, age) /\ RootOk(nd) /\ Sizes(nd) /\ Named(nd)
      /\ Rooted(nd, loose) /\ FolderOk(nd, cur)
  BY DEF World
<1>2. /\ Typed(nd2) /\ Added(nd, nd2, i) /\ nd2[i] = r
      /\ \A j \in DOMAIN nd : nd2[j] = nd[j]
  BY <1>1, AddAdds
<1> HIDE DEF nd2
<1>3. /\ Forest(nd2, age2)
      /\ \A j \in DOMAIN nd2 : Pointed(nd2, j) <=> Pointed(nd, j)
      /\ ~Pointed(nd2, i)
  BY <1>1, <1>2, AddKeepsForest
<1>4. DOMAIN nd2 = DOMAIN nd \cup {i}
  BY <1>2 DEF Added
<1>5. RootOk(nd2)
  BY <1>1, <1>2, <1>3, <1>4 DEF RootOk
<1>6. Sizes(nd2)
  BY <1>1, <1>2, <1>4 DEF Sizes
<1>7. Rooted(nd2, loose)
  BY <1>1, <1>2, <1>3, <1>4 DEF Rooted, Placed
<1>8. FolderOk(nd2, cur)
  BY <1>1, <1>2, <1>3, <1>4 DEF FolderOk, Placed
<1>9. Named(nd2)
  BY <1>1, <1>2, <1>4 DEF Named
<1>10. World(nd2, loose, cur, age2)
  <2> HIDE DEF age2
  <2> QED BY <1>2, <1>3, <1>5, <1>6, <1>7, <1>8, <1>9 DEF World
<1> QED BY <1>2, <1>3, <1>10 DEF nd2, Aged

\* A node put in its place.
LEMMA LinkWorld ==
  ASSUME NEW nd, NEW nd2, NEW loose, NEW cur, NEW age, World(nd, loose, cur, age),
         NEW p \in DOMAIN nd, NEW l, NEW c \in DOMAIN nd, Typed(nd2), Linked(nd, nd2, p, l, c),
         nd[p].type = "Folder", Placed(nd, p) \/ p \in loose,
         nd[c].parent = p, ~Placed(nd, c), age[p] < age[c],
         nd[p].first # NULL => ChildOf(nd, l, p) /\ nd[l].next = NULL /\ age[l] < age[c]
  PROVE  /\ World(nd2, loose \ {c}, cur, age)
         /\ \A i \in DOMAIN nd2 : Pointed(nd2, i) <=> Pointed(nd, i) \/ i = c
<1>1. /\ Typed(nd) /\ Forest(nd, age) /\ RootOk(nd) /\ Sizes(nd) /\ Named(nd)
      /\ Rooted(nd, loose) /\ FolderOk(nd, cur)
  BY DEF World
<1>2. c # Root /\ ~Pointed(nd, c)
  BY DEF Placed
<1>3. /\ Forest(nd2, age)
      /\ \A i \in DOMAIN nd2 : Pointed(nd2, i) <=> Pointed(nd, i) \/ i = c
  BY <1>1, <1>2, LinkKeepsForest
<1>4. /\ DOMAIN nd2 = DOMAIN nd
      /\ \A i \in DOMAIN nd : /\ nd2[i].type = nd[i].type /\ nd2[i].parent = nd[i].parent
                              /\ nd2[i].data = nd[i].data /\ nd2[i].size = nd[i].size
                              /\ nd2[i].name = nd[i].name
      /\ \A i \in DOMAIN nd : nd2[i].first = IF i = p /\ nd[p].first = NULL THEN c ELSE nd[i].first
  BY DEF Linked, Same
<1>5. RootOk(nd2)
  BY <1>1, <1>2, <1>3, <1>4 DEF RootOk
<1>6. Sizes(nd2)
  BY <1>1, <1>4 DEF Sizes
<1>7. Rooted(nd2, loose \ {c})
  <2> SUFFICES ASSUME NEW i \in DOMAIN nd2, nd2[i].first # NULL
               PROVE  Placed(nd2, i) \/ i \in loose \ {c}
    BY DEF Rooted
  <2>1. i \in DOMAIN nd /\ (Placed(nd, i) \/ i \in loose)
    BY <1>1, <1>4 DEF Rooted
  <2> QED BY <1>3, <2>1 DEF Placed
<1>8. FolderOk(nd2, cur)
  BY <1>1, <1>3, <1>4 DEF FolderOk, Placed
<1>9. Named(nd2)
  BY <1>1, <1>4 DEF Named
<1> QED BY <1>3, <1>5, <1>6, <1>7, <1>8, <1>9 DEF World

\* A node without children taken out.
LEMMA RemoveWorld ==
  ASSUME NEW nd, NEW nd2, NEW loose, NEW cur, NEW age, World(nd, loose, cur, age),
         NEW n \in DOMAIN nd, n # Root, nd[n].first = NULL, Typed(nd2), Removed(nd, nd2, n)
  PROVE  /\ World(nd2, loose, cur, age)
         /\ \A i \in DOMAIN nd2 : Pointed(nd2, i) <=> Pointed(nd, i)
<1>1. /\ Typed(nd) /\ Forest(nd, age) /\ RootOk(nd) /\ Sizes(nd) /\ Named(nd)
      /\ Rooted(nd, loose) /\ FolderOk(nd, cur)
  BY DEF World
<1>2. /\ Forest(nd2, age)
      /\ \A i \in DOMAIN nd2 : Pointed(nd2, i) <=> Pointed(nd, i)
  BY <1>1, RemoveKeepsForest
<1>3. /\ DOMAIN nd2 = DOMAIN nd \ {n}
      /\ \A i \in DOMAIN nd2 : /\ nd2[i].type = nd[i].type /\ nd2[i].parent = nd[i].parent
                               /\ nd2[i].data = nd[i].data /\ nd2[i].size = nd[i].size
                               /\ nd2[i].name = nd[i].name
      /\ \A i \in DOMAIN nd2 : nd2[i].first = IF nd[i].first = n THEN nd[n].next ELSE nd[i].first
  BY DEF Removed, Same
<1>4. RootOk(nd2)
  BY <1>1, <1>2, <1>3 DEF RootOk
<1>5. Sizes(nd2)
  BY <1>1, <1>3 DEF Sizes
<1>6. Rooted(nd2, loose)
  <2> SUFFICES ASSUME NEW i \in DOMAIN nd2, nd2[i].first # NULL
               PROVE  Placed(nd2, i) \/ i \in loose
    BY DEF Rooted
  <2>1. nd[i].first # NULL /\ i \in DOMAIN nd
    BY <1>1, <1>3, ForestPointers
  <2> QED BY <1>1, <1>2, <2>1 DEF Rooted, Placed
<1>7. FolderOk(nd2, cur)
  BY <1>1, <1>2, <1>3 DEF FolderOk, Placed
<1>8. Named(nd2)
  BY <1>1, <1>3 DEF Named
<1> QED BY <1>2, <1>4, <1>5, <1>6, <1>7, <1>8 DEF World

\* A name or a content changed.
LEMMA RelabelWorld ==
  ASSUME NEW nd, NEW nd2, NEW loose, NEW cur, NEW age, World(nd, loose, cur, age),
         SameLists(nd, nd2), Typed(nd2), Sizes(nd2), Named(nd2)
  PROVE  /\ World(nd2, loose, cur, age)
         /\ \A i \in DOMAIN nd2 : Pointed(nd2, i) <=> Pointed(nd, i)
<1>1. Typed(nd) /\ Forest(nd, age) /\ RootOk(nd) /\ Rooted(nd, loose) /\ FolderOk(nd, cur)
  BY DEF World
<1>2. /\ Forest(nd2, age)
      /\ \A i \in DOMAIN nd2 : Pointed(nd2, i) <=> Pointed(nd, i)
  BY <1>1, RelabelKeepsForest
<1>3. RootOk(nd2)
  BY <1>1, <1>2 DEF RootOk, SameLists
<1>4. Rooted(nd2, loose)
  BY <1>1, <1>2 DEF Rooted, Placed, SameLists
<1>5. FolderOk(nd2, cur)
  BY <1>1, <1>2 DEF FolderOk, Placed, SameLists
<1> QED BY <1>2, <1>3, <1>4, <1>5 DEF World

-----------------------------------------------------------------------------
(* Paths. *)

\* f are the nodes on the way.
Walks(f, comps, n, inFolders) ==
  /\ f[0] = n
  /\ \A k \in 1 .. Len(comps) :
       f[k] = IF f[k - 1] = NULL THEN NULL
              ELSE IF inFolders THEN FolderStep(f[k - 1], comps[k])
                   ELSE PathStep(f[k - 1], comps[k])

\* The recursion of Walk, unfolded: it stays where its steps stay.
LEMMA WalkSteps ==
  ASSUME NEW comps, Len(comps) \in Nat, NEW D, NULL \in D, NEW n \in D, NEW inFolders,
         \A m \in D \ {NULL} : \A c :
           (IF inFolders THEN FolderStep(m, c) ELSE PathStep(m, c)) \in D
  PROVE  \E f : /\ Walk(comps, n, inFolders) = f[Len(comps)]
                /\ Walks(f, comps, n, inFolders)
                /\ \A k \in 0 .. Len(comps) : f[k] \in D
<1> DEFINE N == Len(comps)
           Step(k, m) == IF m = NULL THEN NULL
                         ELSE IF inFolders THEN FolderStep(m, comps[k]) ELSE PathStep(m, comps[k])
           g == [k \in Nat |-> [m \in D |-> Step(k, m)]]
           Follow(f) == [k \in 0 .. Len(comps) |->
                           IF k = 0 THEN n
                           ELSE LET m == f[k - 1]
                                IN  IF m = NULL THEN NULL
                                    ELSE IF inFolders THEN FolderStep(m, comps[k])
                                         ELSE PathStep(m, comps[k])]
<1>1. \A k : \A m \in D : Step(k, m) \in D
  OBVIOUS
<1> HIDE DEF Step
<1>2. /\ N \in Nat /\ 0 \in 0 .. N /\ N \in 0 .. N
      /\ \A k \in 1 .. N : k \in Nat /\ k \in 0 .. N /\ k - 1 \in 0 .. N /\ k # 0
      /\ \A k \in 0 .. N : k = 0 \/ k \in 1 .. N
  OBVIOUS
<1>3. PICK h \in [0 .. N -> D] : Iterates(h, g, n, N)
  <2>1. g \in [Nat -> [D -> D]]
    BY <1>1
  <2> HIDE DEF g, N
  <2> QED BY <1>2, <2>1, IterationExists
<1>4. h[0] = n /\ \A k \in 1 .. N : h[k] = Step(k, h[k - 1])
  <2>1. h[0] = n /\ \A k \in 1 .. N : h[k] = g[k][h[k - 1]]
    BY <1>3 DEF Iterates
  <2>2. ASSUME NEW k \in 1 .. N PROVE g[k][h[k - 1]] = Step(k, h[k - 1])
    <3>1. h[k - 1] \in D /\ k \in Nat
      BY <1>2
    <3> QED BY <3>1
  <2> HIDE DEF g, N
  <2> QED BY <2>1, <2>2
<1>5. \A f : Follow(f) = [k \in 0 .. N |-> IF k = 0 THEN n ELSE Step(k, f[k - 1])]
  BY DEF Step
<1>6. h = Follow(h)
  <2>1. \A k \in 0 .. N : h[k] = IF k = 0 THEN n ELSE Step(k, h[k - 1])
    <3> HIDE DEF N
    <3> QED BY <1>2, <1>4
  <2>2. h = [k \in 0 .. N |-> h[k]]
    OBVIOUS
  <2>3. h = [k \in 0 .. N |-> IF k = 0 THEN n ELSE Step(k, h[k - 1])]
    <3> HIDE DEF N
    <3> QED BY <2>1, <2>2
  <2> HIDE DEF Follow, N
  <2> QED BY <1>5, <2>3, Zenon
<1>7. PICK f : f = Follow(f) /\ Walk(comps, n, inFolders) = f[N]
  <2>1. Walk(comps, n, inFolders) = (CHOOSE f : f = Follow(f))[N]
    BY DEF Walk
  <2> HIDE DEF Follow
  <2> QED BY <1>6, <2>1
<1>8. f[0] = n /\ \A k \in 1 .. N : f[k] = Step(k, f[k - 1])
  <2>1. \A k \in 0 .. N : Follow(f)[k] = IF k = 0 THEN n ELSE Step(k, f[k - 1])
    <3> HIDE DEF Follow
    <3> QED BY <1>5
  <2> HIDE DEF Follow
  <2>2. \A k \in 0 .. N : f[k] = IF k = 0 THEN n ELSE Step(k, f[k - 1])
    BY <1>7, <2>1, Zenon
  <2> HIDE DEF N
  <2> QED BY <1>2, <2>2
<1>9. \A k \in 0 .. N : f[k] \in D
  <2> DEFINE Bad == {k \in 0 .. N : f[k] \notin D}
  <2> HIDE DEF N
  <2>1. SUFFICES ASSUME Bad # {} PROVE FALSE
    OBVIOUS
  <2>2. PICK x \in Bad : \A k \in Bad : x <= k
    <3>1. Bad \subseteq Nat
      BY <1>2
    <3> HIDE DEF Bad
    <3> QED BY <2>1, <3>1, Least
  <2>3. x # 0 /\ x \in 0 .. N /\ f[x] \notin D
    BY <1>8
  <2>4. x \in 1 .. N /\ x - 1 \in 0 .. N /\ ~(x <= x - 1)
    BY <1>2, <2>3
  <2>5. f[x - 1] \in D
    <3>1. x - 1 \notin Bad
      <4> HIDE DEF Bad
      <4> QED BY <2>2, <2>4
    <3> QED BY <2>4, <3>1
  <2>6. f[x] \in D
    <3> HIDE DEF Bad
    <3> QED BY <1>1, <1>8, <2>4, <2>5
  <2> QED BY <2>3, <2>6
<1>10. Walks(f, comps, n, inFolders)
  BY <1>8 DEF Step, Walks
<1> HIDE DEF Follow
<1> QED BY <1>7, <1>8, <1>9, <1>10

\* A walk stays in a set its steps stay in.
LEMMA WalkStays ==
  ASSUME NEW comps, Len(comps) \in Nat, NEW D, NULL \in D, NEW n \in D, NEW inFolders,
         \A m \in D \ {NULL} : \A c :
           (IF inFolders THEN FolderStep(m, c) ELSE PathStep(m, c)) \in D
  PROVE  Walk(comps, n, inFolders) \in D
<1>1. PICK f : /\ Walk(comps, n, inFolders) = f[Len(comps)]
               /\ \A k \in 0 .. Len(comps) : f[k] \in D
  BY WalkSteps
<1>2. Len(comps) \in 0 .. Len(comps)
  OBVIOUS
<1> QED BY <1>1, <1>2


\* The nodes a path can lead to.
TreeNodes == {i \in DOMAIN node : Placed(node, i)}

\* A component leads from a node of the tree to one, or nowhere.
LEMMA PathStepStays ==
  ASSUME NEW age, World(node, {}, current, age), NEW m \in TreeNodes, NEW c
  PROVE  PathStep(m, c) \in TreeNodes \cup {NULL}
<1>1. /\ Typed(node) /\ Forest(node, age) /\ RootOk(node) /\ Rooted(node, {})
      /\ m \in DOMAIN node /\ Placed(node, m)
  BY DEF World, TreeNodes
<1>2. Up(m) \in TreeNodes
  <2>1. CASE node[m].parent = NULL
    BY <2>1 DEF Up
  <2>2. CASE node[m].parent # NULL
    <3>1. m # Root /\ Pointed(node, m)
      BY <1>1, <2>2 DEF RootOk, Placed
    <3>2. node[m].parent \in DOMAIN node /\ node[node[m].parent].first # NULL
      BY <1>1, <3>1, ParentIsOlder
    <3>3. Placed(node, node[m].parent)
      BY <1>1, <3>2 DEF Rooted
    <3> QED BY <2>2, <3>2, <3>3 DEF Up, TreeNodes
  <2> QED BY <2>1, <2>2
<1>3. FindNode(node, c, m) \in TreeNodes \cup {NULL}
  <2>1. FindNode(node, c, m) # NULL => ChildOf(node, FindNode(node, c, m), m)
    BY <1>1, FindNodeFinds
  <2> QED BY <2>1 DEF ChildOf, TreeNodes, Placed
<1>4. PathStep(m, c) \in {m, Up(m), FindNode(node, c, m)}
  <2>1. CASE c \in {".", ""}
    BY <2>1 DEF PathStep
  <2>2. CASE c \notin {".", ""} /\ c = ".."
    BY <2>2 DEF PathStep
  <2>3. CASE c \notin {".", ""} /\ c # ".."
    BY <2>3 DEF PathStep
  <2> QED BY <2>1, <2>2, <2>3
<1> QED BY <1>2, <1>3, <1>4

\* A path leads to a node of the tree or nowhere.
LEMMA ResolveStays ==
  ASSUME NEW age, World(node, {}, current, age), current \in DOMAIN node,
         NEW path \in Paths
  PROVE  /\ Resolve(path) # NULL => Resolve(path) \in DOMAIN node /\ Placed(node, Resolve(path))
<1>1. Len(path.comps) \in Nat
  BY RamFSAssumption
<1>2. Start(path) \in TreeNodes
  BY DEF Start, World, RootOk, FolderOk, Placed, TreeNodes
<1> DEFINE D == TreeNodes \cup {NULL}
<1>3. \A m \in D \ {NULL} : \A c : (IF FALSE THEN FolderStep(m, c) ELSE PathStep(m, c)) \in D
  <2>1. \A m \in TreeNodes : \A c : PathStep(m, c) \in D
    BY PathStepStays
  <2> QED BY <2>1
<1>4. NULL \in D /\ Start(path) \in D
  BY <1>2
<1> HIDE DEF D
<1>5. Walk(path.comps, Start(path), FALSE) \in D
  BY <1>1, <1>3, <1>4, WalkStays
<1> QED BY <1>5 DEF D, Resolve, TreeNodes

\* The parent a path has is a folder of the tree, and its last component is a
\* name.
LEMMA ResolveParentStays ==
  ASSUME NEW age, World(node, {}, current, age), current \in DOMAIN node,
         NEW path \in Paths, ResolveParent(path) # NoParent
  PROVE  /\ ResolveParent(path).parent \in DOMAIN node
         /\ Placed(node, ResolveParent(path).parent)
         /\ node[ResolveParent(path).parent].type = "Folder"
         /\ ResolveParent(path).name \in ProperNames
<1> DEFINE comps == path.comps
           last == Len(comps)
           D == {i \in TreeNodes : node[i].type = "Folder"} \cup {NULL}
           front == SubSeq(comps, 1, last - 1)
           p == Walk(front, Start(path), TRUE)
           r == ResolveParent(path)
<1>1. comps \in Seq(STRING) /\ last \in Nat /\ DOMAIN comps = 1 .. last
  BY RamFSAssumption
<1>2. Start(path) \in D /\ NULL \in D /\ Root \in DOMAIN node
      /\ node[Root].type = "Folder" /\ Placed(node, Root)
  BY DEF Start, World, RootOk, FolderOk, Placed, TreeNodes
<1>3. \A m \in D \ {NULL} : \A c : FolderStep(m, c) \in D
  <2> TAKE m \in D \ {NULL}
  <2> TAKE c
  <2>1. m \in TreeNodes
    OBVIOUS
  <2>2. PathStep(m, c) \in TreeNodes \cup {NULL}
    BY <2>1, PathStepStays
  <2> QED BY <2>2 DEF FolderStep
<1>4. last > 0 => p \in D
  <2> SUFFICES ASSUME last > 0 PROVE p \in D
    OBVIOUS
  <2>1. Len(front) \in Nat
    <3>1. \A k \in 1 .. last - 1 : comps[k] \in STRING
      <4>1. \A k \in 1 .. last - 1 : k \in 1 .. last
        BY <1>1
      <4> QED BY <1>1, <4>1, ElementOfSeq
    <3>2. front \in Seq(STRING)
      <4>1. last - 1 \in Int /\ 1 \in Int
        BY <1>1
      <4> QED BY <3>1, <4>1, SubSeqProperties
    <3> QED BY <3>2, LenProperties
  <2>2. \A m \in D \ {NULL} : \A c : (IF TRUE THEN FolderStep(m, c) ELSE PathStep(m, c)) \in D
    BY <1>3
  <2> HIDE DEF D, front
  <2> QED BY <1>2, <2>1, <2>2, WalkStays
<1>5. \/ last = 0 /\ path.abs /\ r = [parent |-> Root, name |-> ""]
      \/ /\ last > 0 /\ p # NULL /\ comps[last] \notin {".", ".."}
         /\ r = [parent |-> p, name |-> comps[last]]
      \/ r = NoParent
  <2> HIDE DEF p
  <2>1. r = CASE last = 0 /\ path.abs -> [parent |-> Root, name |-> ""]
              [] last > 0 /\ comps[last] \notin {".", ".."} /\ p # NULL ->
                   [parent |-> p, name |-> comps[last]]
              [] OTHER -> NoParent
    BY DEF ResolveParent, p
  <2> HIDE DEF r, last, comps
  <2>2. CASE last = 0 /\ path.abs
    <3>1. ~(last > 0)
      BY <2>2
    <3> QED BY <2>1, <2>2, <3>1
  <2>3. CASE ~(last = 0 /\ path.abs) /\ last > 0 /\ comps[last] \notin {".", ".."} /\ p # NULL
    BY <2>1, <2>3
  <2>4. CASE /\ ~(last = 0 /\ path.abs)
             /\ ~(last > 0 /\ comps[last] \notin {".", ".."} /\ p # NULL)
    BY <2>1, <2>4
  <2> QED BY <2>2, <2>3, <2>4
<1> DEFINE Fine == /\ r.parent \in DOMAIN node /\ Placed(node, r.parent)
                   /\ node[r.parent].type = "Folder" /\ r.name \in ProperNames
<1>6. CASE last = 0 /\ path.abs /\ r = [parent |-> Root, name |-> ""]
  <2> HIDE DEF r, last
  <2>0. r = [parent |-> Root, name |-> ""]
    BY <1>6, Zenon
  <2>1. r.parent = Root /\ r.name = ""
    BY <2>0
  <2>2. Fine
    BY <1>2, <2>1, RootNode
  <2> QED BY <2>2 DEF r
<1>7. CASE /\ last > 0 /\ p # NULL /\ comps[last] \notin {".", ".."}
           /\ r = [parent |-> p, name |-> comps[last]]
  <2>1. p \in TreeNodes /\ node[p].type = "Folder"
    BY <1>4, <1>7
  <2>2. comps[last] \in ProperNames
    <3>1. last \in DOMAIN comps
      BY <1>1, <1>7
    <3>2. comps[last] \in Range(comps)
      BY <3>1 DEF Range
    <3>3. \A x \in Range(comps) : x \in UNION {Range(q.comps) : q \in Paths}
      OBVIOUS
    <3>4. comps[last] \in Names
      BY <3>2, <3>3 DEF Names
    <3> QED BY <1>7, <3>4 DEF ProperNames
  <2>3. r.parent = p /\ r.name = comps[last]
    BY <1>7
  <2> HIDE DEF r, p
  <2>4. Fine
    BY <2>1, <2>2, <2>3 DEF TreeNodes
  <2> QED BY <2>4 DEF r
<1> QED BY <1>5, <1>6, <1>7

-----------------------------------------------------------------------------
(* The commands that are one step. *)

\* No two nodes of a list have the same name.
Distinct(nd) ==
  \A a, b \in DOMAIN nd :
    Pointed(nd, a) /\ Pointed(nd, b) /\ nd[a].parent = nd[b].parent /\ nd[a].name = nd[b].name
      => a = b

\* With no command under way the invariant is about the nodes alone.
LEMMA Settled ==
  ASSUME NEW age \in [Ids -> Nat], World(node', {}, current', age),
         pc' = "idle", stack' = <<>>, wild' \in BOOLEAN, kept' \subseteq Ids, dest'.name \in ProperNames
  PROVE  IInv(age)'
<1>1. Control'
  BY DEF Control
<1>2. Copies' = {}
  BY DEF Copies
<1>3. World(node', Copies', current', age)
  BY <1>2
<1>4. DestroyOk(age)' /\ Removing' /\ ClonesOk(age)' /\ DestOk(age)' /\ NamesCopied(age)'
  BY DEF DestroyOk, Removing, ClonesOk, DestOk, NamesCopied
<1> QED BY <1>1, <1>3, <1>4 DEF IInv

\* What a command starts from.
LEMMA Prompt ==
  ASSUME NEW age \in [Ids -> Nat], IInv(age), Ready
  PROVE  /\ World(node, {}, current, age) /\ current \in DOMAIN node
         /\ pc = "idle" /\ stack = <<>> /\ wild = FALSE
         /\ kept \subseteq Ids /\ dest.name \in ProperNames
<1>1. pc = "idle" /\ current \in DOMAIN node /\ ~wild
  BY DEF Ready
<1>2. Copies = {}
  BY <1>1 DEF Copies
<1> QED BY <1>1, <1>2 DEF IInv, Control

\* A command that leaves the control alone.
LEMMA StaysSettled ==
  ASSUME NEW age \in [Ids -> Nat], IInv(age), Ready, NotRecursive, UNCHANGED wild,
         NEW age2 \in [Ids -> Nat], World(node', {}, current', age2)
  PROVE  IInv(age2)' /\ Inv'
<1>1. pc = "idle" /\ stack = <<>> /\ wild = FALSE /\ kept \subseteq Ids /\ dest.name \in ProperNames
  BY Prompt
<1>2. IInv(age2)'
  BY <1>1, Settled DEF NotRecursive
<1> QED BY <1>2 DEF Inv

\* Init, and the memory the model forgets.
LEMMA WildKeeps ==
  ASSUME GoesWild
  PROVE  Inv' /\ Distinct(node')
<1>1. /\ node' = NewTree /\ current' = Root /\ pc' = "idle" /\ stack' = <<>>
      /\ wild' = TRUE /\ kept' = {} /\ dest' = NoParent
  BY DEF GoesWild
<1>2. dest'.name \in ProperNames
  BY <1>1, RootNode DEF NoParent
<1>3. PICK age : age = [i \in Ids |-> 0]
  OBVIOUS
<1>4. age \in [Ids -> Nat]
  BY <1>3
<1>5. World(node', {}, current', age)
  BY <1>1, <1>4, NewTreeWorld
<1>6. IInv(age)'
  BY <1>1, <1>2, <1>4, <1>5, Settled
<1>7. Distinct(node')
  <2>1. DOMAIN NewTree = {Root}
    BY DEF NewTree
  <2> QED BY <1>1, <2>1 DEF Distinct
<1> QED BY <1>4, <1>6, <1>7 DEF Inv

\* A new node is a node.
LEMMA NewNodeIsNode ==
  ASSUME NEW n \in ProperNames, NEW t \in Types, NEW p \in Ids
  PROVE  LET r == NewNode(n, t, p, NoData, 0)
         IN  /\ r \in Node /\ r.first = NULL /\ r.next = NULL /\ r.data = NoData
             /\ r.parent = p /\ r.name = n /\ r.type = t
<1>1. 0 \in 0 .. MAX_LENGTH
  <2>1. MAX_LENGTH \in Nat
    BY RamFSAssumption
  <2> QED BY <2>1
<1> QED BY <1>1 DEF NewNode, Node, ProperNames

\* mkdir and create link the node they have made, or leave it beside the tree.
LEMMA MakeNodeKeeps ==
  ASSUME NEW age \in [Ids -> Nat], IInv(age), NEW path \in Paths, NEW t \in Types,
         MakeNode(path, t)
  PROVE  Inv' /\ (Distinct(node) => Distinct(node'))
<1> DEFINE r == ResolveParent(path)
           i == Fresh(node)
           p == r.parent
           rec == NewNode(r.name, t, p, NoData, 0)
           nd == Add(node, i, rec)
<1>1. /\ Ready /\ r # NoParent /\ ~Full(node) /\ NotRecursive /\ UNCHANGED <<current, wild>>
      /\ node' = IF FindNode(node, r.name, p) = NULL THEN AppendChild(nd, p, i) ELSE nd
  BY DEF MakeNode
<1>2. World(node, {}, current, age) /\ current \in DOMAIN node
  BY <1>1, Prompt
<1>3. Typed(node) /\ Forest(node, age) /\ DOMAIN node \subseteq Ids
  BY <1>2 DEF World, Typed
<1>4. p \in DOMAIN node /\ Placed(node, p) /\ node[p].type = "Folder" /\ r.name \in ProperNames
  BY <1>1, <1>2, ResolveParentStays
<1>5. i \in Ids /\ i \notin DOMAIN node /\ i # NULL
  BY <1>1, <1>3, FreshIsFree
<1>6. PICK now \in Nat : \A j \in Ids : age[j] < now
  BY NowExists
<1> DEFINE age2 == Aged(age, i, now)
<1>7. /\ rec \in Node /\ rec.first = NULL /\ rec.next = NULL /\ rec.data = NoData
      /\ rec.parent = p /\ rec.name = r.name /\ rec.type = t /\ rec.name \in ProperNames
  <2>1. p \in Ids
    BY <1>3, <1>4
  <2> HIDE DEF p
  <2> QED BY <1>4, <2>1, NewNodeIsNode
<1> HIDE DEF rec, i, r
<1>8. /\ World(nd, {}, current, age2) /\ Added(node, nd, i) /\ nd[i] = rec
      /\ \A j \in DOMAIN node : nd[j] = node[j]
      /\ \A j \in DOMAIN nd : Pointed(nd, j) <=> Pointed(node, j)
      /\ ~Pointed(nd, i)
  <2>1. rec.data # NoData => rec.size = rec.data
    BY <1>7
  <2> HIDE DEF p
  <2> QED BY <1>2, <1>5, <1>6, <1>7, <2>1, AddWorld
<1>9. age2 \in [Ids -> Nat] /\ age2[i] = now /\ \A j \in DOMAIN node : age2[j] < now
  BY <1>3, <1>5, <1>6 DEF Aged
<1>10. DOMAIN nd = DOMAIN node \cup {i}
  BY <1>8 DEF Added
<1> HIDE DEF nd, age2, p
<1>11. Distinct(node) => Distinct(nd)
  BY <1>8, <1>10 DEF Distinct
<1>12. CASE FindNode(node, r.name, p) # NULL
  <2>1. node' = nd /\ current' = current
    BY <1>1, <1>12 DEF p, nd
  <2>2. World(node', {}, current', age2)
    BY <1>8, <2>1
  <2>3. Inv'
    BY <1>1, <1>9, <2>2, StaysSettled
  <2> QED BY <1>11, <2>1, <2>3
<1>13. CASE FindNode(node, r.name, p) = NULL
  <2>1. node' = AppendChild(nd, p, i) /\ current' = current
    BY <1>1, <1>13 DEF p, nd
  <2>2. Typed(nd) /\ Forest(nd, age2) /\ p \in DOMAIN nd /\ i \in DOMAIN nd
    BY <1>4, <1>8, <1>10 DEF World
  <2>3. Typed(node') /\ \E l \in Ids \cup {NULL} :
             /\ Linked(nd, node', p, l, i)
             /\ nd[p].first # NULL => ChildOf(nd, l, p) /\ nd[l].next = NULL
    BY <2>1, <2>2, AppendLinks
  <2>4. PICK l \in Ids \cup {NULL} :
             /\ Linked(nd, node', p, l, i)
             /\ nd[p].first # NULL => ChildOf(nd, l, p) /\ nd[l].next = NULL
    BY <2>3
  <2>5. nd[p].first # NULL => age2[l] < age2[i]
    <3> SUFFICES ASSUME nd[p].first # NULL PROVE age2[l] < age2[i]
      OBVIOUS
    <3>1. l \in DOMAIN nd /\ Pointed(nd, l)
      BY <2>4 DEF ChildOf
    <3>2. l \in DOMAIN node
      BY <1>8, <1>10, <3>1
    <3> QED BY <1>9, <3>2
  <2>6. nd[p].type = "Folder" /\ nd[i].parent = p /\ age2[p] < age2[i] /\ Placed(nd, p)
    <3>1. nd[p] = node[p] /\ age2[p] < age2[i]
      BY <1>4, <1>8, <1>9
    <3>2. Placed(nd, p)
      BY <1>4, <1>8, <1>10 DEF Placed
    <3> QED BY <1>4, <1>7, <1>8, <3>1, <3>2
  <2>7. ~Placed(nd, i)
    <3>1. i # Root
      BY <1>2, <1>5 DEF World, RootOk
    <3> QED BY <1>8, <3>1 DEF Placed
  <2>8. /\ World(node', {} \ {i}, current, age2)
        /\ \A j \in DOMAIN node' : Pointed(node', j) <=> Pointed(nd, j) \/ j = i
    BY <1>8, <2>2, <2>3, <2>4, <2>5, <2>6, <2>7, LinkWorld
  <2>9. World(node', {}, current', age2)
    BY <2>1, <2>8
  <2>10. Inv'
    BY <1>1, <1>9, <2>9, StaysSettled
  <2>11. ASSUME Distinct(node) PROVE Distinct(node')
    <3>1. /\ DOMAIN node' = DOMAIN nd
          /\ \A j \in DOMAIN nd : node'[j].name = nd[j].name /\ node'[j].parent = nd[j].parent
      BY <2>4 DEF Linked, Same
    <3>2. \A j \in DOMAIN node : ChildOf(node, j, p) => node[j].name # r.name
      BY <1>3, <1>4, <1>13, FindNodeFinds
    <3>3. \A j \in DOMAIN nd : Pointed(nd, j) /\ nd[j].parent = p => nd[j].name # r.name
      BY <1>8, <1>10, <3>2 DEF ChildOf
    <3>4. nd[i].parent = p /\ nd[i].name = r.name
      BY <1>7, <1>8
    <3>5. Distinct(nd)
      BY <1>11, <2>11
    <3> SUFFICES ASSUME NEW a \in DOMAIN nd, NEW b \in DOMAIN nd,
                        Pointed(node', a), Pointed(node', b),
                        nd[a].parent = nd[b].parent, nd[a].name = nd[b].name
                 PROVE  a = b
      BY <3>1 DEF Distinct
    <3>6. (Pointed(nd, a) \/ a = i) /\ (Pointed(nd, b) \/ b = i)
      BY <2>8, <3>1
    <3> QED BY <3>3, <3>4, <3>5, <3>6 DEF Distinct
  <2> QED BY <2>10, <2>11
<1> QED BY <1>12, <1>13

\* The node n replaced by r.
WithNode(nd, n, r) == [nd EXCEPT ![n] = r]

\* A node with another name or content, in the same place.
LEMMA RelabelNode ==
  ASSUME NEW nd, NEW loose, NEW cur, NEW age, World(nd, loose, cur, age),
         NEW n \in DOMAIN nd, NEW r \in Node,
         r.parent = nd[n].parent, r.type = nd[n].type,
         r.first = nd[n].first, r.next = nd[n].next,
         r.data # NoData => r.size = r.data, r.name \in ProperNames
  PROVE  /\ World(WithNode(nd, n, r), loose, cur, age)
         /\ DOMAIN WithNode(nd, n, r) = DOMAIN nd /\ WithNode(nd, n, r)[n] = r
         /\ \A i \in DOMAIN nd : i # n => WithNode(nd, n, r)[i] = nd[i]
         /\ \A i \in DOMAIN nd : Pointed(WithNode(nd, n, r), i) <=> Pointed(nd, i)
<1> DEFINE nd2 == WithNode(nd, n, r)
<1>1. Typed(nd) /\ Sizes(nd) /\ Named(nd)
  BY DEF World
<1>2. /\ DOMAIN nd2 = DOMAIN nd /\ nd2[n] = r
      /\ \A i \in DOMAIN nd : i # n => nd2[i] = nd[i]
      /\ nd2 \in [DOMAIN nd -> Node]
  BY <1>1 DEF Typed, WithNode
<1> HIDE DEF nd2
<1>3. SameLists(nd, nd2)
  BY <1>2 DEF SameLists
<1>4. Typed(nd2)
  BY <1>1, <1>2 DEF Typed
<1>5. Sizes(nd2)
  BY <1>1, <1>2 DEF Sizes
<1>6. Named(nd2)
  BY <1>1, <1>2 DEF Named
<1>7. /\ World(nd2, loose, cur, age)
      /\ \A i \in DOMAIN nd2 : Pointed(nd2, i) <=> Pointed(nd, i)
  BY <1>3, <1>4, <1>5, <1>6, RelabelWorld
<1> QED BY <1>2, <1>7 DEF nd2

\* The node a path leads to gets another content.
LEMMA ContentKeeps ==
  ASSUME NEW age \in [Ids -> Nat], IInv(age), Ready, NotRecursive, UNCHANGED <<current, wild>>,
         NEW n \in DOMAIN node, NEW r \in Node,
         r.parent = node[n].parent, r.type = node[n].type, r.name = node[n].name,
         r.first = node[n].first, r.next = node[n].next,
         r.data # NoData => r.size = r.data,
         node' = WithNode(node, n, r)
  PROVE  Inv' /\ (Distinct(node) => Distinct(node'))
<1> DEFINE nd2 == WithNode(node, n, r)
<1>1. World(node, {}, current, age) /\ r.name \in ProperNames
  BY Prompt DEF World, Named
<1>2. /\ World(nd2, {}, current, age)
      /\ DOMAIN nd2 = DOMAIN node /\ nd2[n] = r
      /\ \A i \in DOMAIN node : i # n => nd2[i] = node[i]
      /\ \A i \in DOMAIN node : Pointed(nd2, i) <=> Pointed(node, i)
  BY <1>1, RelabelNode
<1> HIDE DEF nd2
<1>3. Distinct(node) => Distinct(nd2)
  <2>1. \A i \in DOMAIN node : nd2[i].parent = node[i].parent /\ nd2[i].name = node[i].name
    BY <1>2
  <2> QED BY <1>2, <2>1 DEF Distinct
<1>4. World(node', {}, current', age)
  BY <1>2 DEF nd2
<1>5. Inv'
  BY <1>4, StaysSettled
<1> QED BY <1>3, <1>5 DEF nd2

\* write with "true".
LEMMA OverwriteKeeps ==
  ASSUME NEW age \in [Ids -> Nat], IInv(age), NEW path \in Paths, NEW l \in Lengths,
         NEW ok \in BOOLEAN, Overwrite(path, l, ok)
  PROVE  Inv' /\ (Distinct(node) => Distinct(node'))
<1> DEFINE n == Resolve(path)
           r == [node[n] EXCEPT !.data = l, !.size = l]
           q == [node[n] EXCEPT !.data = NoData]
<1>1. /\ Ready /\ n # NULL /\ Writable(n, l) /\ NotRecursive /\ UNCHANGED <<current, wild>>
      /\ node' = IF ok THEN [node EXCEPT ![n].data = l, ![n].size = l]
                 ELSE [node EXCEPT ![n].data = NoData]
  BY DEF Overwrite
<1>2. World(node, {}, current, age) /\ current \in DOMAIN node
  BY <1>1, Prompt
<1>3. n \in DOMAIN node
  BY <1>1, <1>2, ResolveStays
<1>4. Typed(node) /\ node[n] \in Node
  BY <1>2, <1>3, Fields DEF World
<1>5. l \in 0 .. MAX_LENGTH
  <2>1. l \in Nat /\ MAX_LENGTH \in Nat
    BY RamFSAssumption
  <2> QED BY <1>1, <2>1 DEF Writable
<1> HIDE DEF n
<1>6. CASE ok
  <2>1. /\ r \in Node /\ r.data = l /\ r.size = l
        /\ r.parent = node[n].parent /\ r.type = node[n].type /\ r.name = node[n].name
        /\ r.first = node[n].first /\ r.next = node[n].next
    BY <1>4, <1>5 DEF Node
  <2>2. node' = [node EXCEPT ![n].data = l, ![n].size = l]
    BY <1>1, <1>6
  <2>3. [node EXCEPT ![n].data = l, ![n].size = l] = WithNode(node, n, r)
    BY <1>3, <1>4 DEF WithNode, Typed
  <2>4. node' = WithNode(node, n, r) /\ (r.data # NoData => r.size = r.data)
    BY <2>1, <2>2, <2>3
  <2> HIDE DEF r
  <2> QED BY <1>1, <1>3, <2>1, <2>4, ContentKeeps
<1>7. CASE ~ok
  <2>1. /\ q \in Node /\ q.data = NoData
        /\ q.parent = node[n].parent /\ q.type = node[n].type /\ q.name = node[n].name
        /\ q.first = node[n].first /\ q.next = node[n].next
    BY <1>4 DEF Node
  <2>2. node' = [node EXCEPT ![n].data = NoData]
    BY <1>1, <1>7
  <2>3. [node EXCEPT ![n].data = NoData] = WithNode(node, n, q)
    BY <1>3, <1>4 DEF WithNode, Typed
  <2>4. node' = WithNode(node, n, q) /\ (q.data # NoData => q.size = q.data)
    BY <2>1, <2>2, <2>3
  <2> HIDE DEF q
  <2> QED BY <1>1, <1>3, <2>1, <2>4, ContentKeeps
<1> QED BY <1>6, <1>7

\* write without.
LEMMA AppendToKeeps ==
  ASSUME NEW age \in [Ids -> Nat], IInv(age), NEW path \in Paths, NEW l \in Lengths,
         AppendTo(path, l)
  PROVE  Inv' /\ (Distinct(node) => Distinct(node'))
<1> DEFINE n == Resolve(path)
           old == IF node[n].data = NoData THEN 0 ELSE node[n].data
           m == old + l
           r == [node[n] EXCEPT !.data = m, !.size = m]
<1>1. /\ Ready /\ n # NULL /\ Writable(n, m) /\ NotRecursive /\ UNCHANGED <<current, wild>>
      /\ node' = [node EXCEPT ![n].data = m, ![n].size = m]
  BY DEF AppendTo
<1>2. World(node, {}, current, age) /\ current \in DOMAIN node
  BY <1>1, Prompt
<1>3. n \in DOMAIN node
  BY <1>1, <1>2, ResolveStays
<1>4. Typed(node) /\ node[n] \in Node /\ node[n].data \in {NoData} \cup 0 .. MAX_LENGTH
  BY <1>2, <1>3, Fields DEF World
<1> HIDE DEF n
<1>5. m \in 0 .. MAX_LENGTH
  <2>1. l \in Nat /\ MAX_LENGTH \in Nat
    BY RamFSAssumption
  <2>2. old \in Nat
    BY <1>4, <2>1
  <2> HIDE DEF old
  <2>3. m \in Nat
    BY <2>1, <2>2
  <2> HIDE DEF m
  <2> QED BY <1>1, <2>1, <2>3 DEF Writable
<1> HIDE DEF old, m
<1>6. /\ r \in Node /\ r.data = m /\ r.size = m
      /\ r.parent = node[n].parent /\ r.type = node[n].type /\ r.name = node[n].name
      /\ r.first = node[n].first /\ r.next = node[n].next
  BY <1>4, <1>5 DEF Node
<1>7. [node EXCEPT ![n].data = m, ![n].size = m] = WithNode(node, n, r)
  BY <1>3, <1>4 DEF WithNode, Typed
<1>8. node' = WithNode(node, n, r) /\ (r.data # NoData => r.size = r.data)
  BY <1>1, <1>6, <1>7
<1> HIDE DEF r
<1> QED BY <1>1, <1>3, <1>6, <1>8, ContentKeeps

\* rename.
LEMMA RenameKeeps ==
  ASSUME NEW age \in [Ids -> Nat], IInv(age), NEW path \in Paths, NEW name \in NewNames,
         Rename(path, name)
  PROVE  Inv'
<1> DEFINE n == Resolve(path)
           r == [node[n] EXCEPT !.name = name]
<1>1. /\ Ready /\ n # NULL /\ NotRecursive /\ UNCHANGED <<current, wild>>
      /\ node' = IF n = Root THEN node ELSE [node EXCEPT ![n].name = name]
  BY DEF Rename
<1>2. World(node, {}, current, age) /\ current \in DOMAIN node
  BY <1>1, Prompt
<1>3. n \in DOMAIN node
  BY <1>1, <1>2, ResolveStays
<1>4. Typed(node) /\ node[n] \in Node /\ Sizes(node)
  BY <1>2, <1>3, Fields DEF World
<1> HIDE DEF n
<1>5. CASE n = Root
  <2>1. World(node', {}, current', age)
    BY <1>1, <1>2, <1>5
  <2> QED BY <1>1, <2>1, StaysSettled
<1>6. CASE n # Root
  <2>1. name \in Names /\ name \in ProperNames
    BY DEF Names, ProperNames
  <2>2. /\ r \in Node /\ r.name = name /\ r.data = node[n].data /\ r.size = node[n].size
        /\ r.parent = node[n].parent /\ r.type = node[n].type
        /\ r.first = node[n].first /\ r.next = node[n].next
    BY <1>4, <2>1 DEF Node
  <2>3. [node EXCEPT ![n].name = name] = WithNode(node, n, r)
    BY <1>3, <1>4 DEF WithNode, Typed
  <2>4. node' = WithNode(node, n, r) /\ (r.data # NoData => r.size = r.data)
    BY <1>1, <1>3, <1>4, <1>6, <2>2, <2>3 DEF Sizes
  <2> HIDE DEF r
  <2>5. r.name \in ProperNames
    BY <2>1, <2>2
  <2>6. World(WithNode(node, n, r), {}, current, age)
    BY <1>2, <1>3, <2>2, <2>4, <2>5, RelabelNode
  <2>7. World(node', {}, current', age)
    BY <1>1, <2>4, <2>6
  <2> QED BY <1>1, <2>7, StaysSettled
<1> QED BY <1>5, <1>6

\* cd goes to folders only.
LEMMA CdKeeps ==
  ASSUME NEW age \in [Ids -> Nat], IInv(age), NEW path \in Paths, Cd(path)
  PROVE  Inv' /\ (Distinct(node) => Distinct(node'))
<1> DEFINE n == Resolve(path)
<1>1. /\ Ready /\ n # NULL /\ NotRecursive /\ node' = node /\ UNCHANGED wild
      /\ node[n].type = "Folder" /\ current' = n
  BY DEF Cd
<1>2. World(node, {}, current, age) /\ current \in DOMAIN node
  BY <1>1, Prompt
<1>3. n \in DOMAIN node /\ Placed(node, n) /\ n \in Ids
  BY <1>1, <1>2, ResolveStays DEF World, Typed
<1> HIDE DEF n
<1>4. World(node', {}, current', age)
  BY <1>1, <1>2, <1>3 DEF World, FolderOk
<1>5. Inv'
  BY <1>1, <1>4, StaysSettled
<1> QED BY <1>1, <1>5

\* Destroying a node keeps the names of a list apart.
LEMMA RemoveKeepsDistinct ==
  ASSUME NEW nd, NEW nd2, NEW n, Removed(nd, nd2, n), Distinct(nd),
         \A i \in DOMAIN nd2 : Pointed(nd2, i) <=> Pointed(nd, i)
  PROVE  Distinct(nd2)
<1>1. /\ DOMAIN nd2 = DOMAIN nd \ {n}
      /\ \A i \in DOMAIN nd2 : nd2[i].parent = nd[i].parent /\ nd2[i].name = nd[i].name
  BY DEF Removed, Same
<1> QED BY <1>1 DEF Distinct

\* rm on a file and rmdir on an empty folder.
LEMMA RemoveOneKeeps ==
  ASSUME NEW age \in [Ids -> Nat], IInv(age), NEW path \in Paths, RemoveOne(path)
  PROVE  Inv' /\ (Distinct(node) => Distinct(node'))
<1> DEFINE n == Resolve(path)
<1>1. /\ Ready /\ n # NULL /\ n # Root /\ NotRecursive /\ UNCHANGED <<current, wild>>
      /\ node[n].type = "File" \/ node[n].first = NULL
      /\ node' = Destroy(node, n)
  BY DEF RemoveOne
<1>2. World(node, {}, current, age) /\ current \in DOMAIN node
  BY <1>1, Prompt
<1>3. n \in DOMAIN node /\ Placed(node, n)
  BY <1>1, <1>2, ResolveStays
<1>4. Typed(node) /\ Forest(node, age)
  BY <1>2 DEF World
<1> HIDE DEF n
<1>5. Pointed(node, n) /\ node[n].first = NULL
  BY <1>1, <1>3, <1>4 DEF Placed, Forest, FirstOk
<1>6. Typed(node') /\ Removed(node, node', n)
  BY <1>1, <1>3, <1>4, <1>5, DestroyRemoves
<1>7. /\ World(node', {}, current, age)
      /\ \A i \in DOMAIN node' : Pointed(node', i) <=> Pointed(node, i)
  BY <1>1, <1>2, <1>3, <1>5, <1>6, RemoveWorld
<1>8. World(node', {}, current', age)
  BY <1>1, <1>7
<1>9. Inv'
  BY <1>1, <1>8, StaysSettled
<1>10. Distinct(node) => Distinct(node')
  BY <1>6, <1>7, RemoveKeepsDistinct
<1> QED BY <1>9, <1>10

-----------------------------------------------------------------------------
(* rm on a folder. *)

\* What the loop of recursiveDestroy keeps is enough between its turns.
LEMMA StaysDestroying ==
  ASSUME NEW age \in [Ids -> Nat], IInv(age), pc' = "destroy", UNCHANGED wild,
         kept' \subseteq Ids, dest'.name \in ProperNames,
         World(node', {}, current', age), DestroyOk(age)', Removing'
  PROVE  Inv'
<1>1. wild' \in BOOLEAN
  BY DEF IInv, Control
<1>2. Control'
  BY <1>1 DEF Control
<1>3. Copies' = {}
  BY DEF Copies
<1>4. World(node', Copies', current', age)
  BY <1>3
<1>5. ClonesOk(age)' /\ DestOk(age)' /\ NamesCopied(age)'
  BY DEF ClonesOk, DestOk, NamesCopied
<1>6. IInv(age)'
  BY <1>2, <1>4, <1>5 DEF IInv
<1> QED BY <1>6 DEF Inv

\* What a turn of recursiveDestroy starts from.
LEMMA Turn ==
  ASSUME NEW age \in [Ids -> Nat], IInv(age), Destroying
  PROVE  /\ World(node, {}, current, age) /\ Typed(node) /\ Forest(node, age) /\ RootOk(node)
         /\ pc = "destroy" /\ kept \subseteq Ids /\ dest.name \in ProperNames
         /\ stack \in Seq(Activations) /\ stack # <<>>
         /\ DestroyOk(age) /\ Removing
<1>1. pc = "destroy"
  BY DEF Destroying
<1>2. Copies = {}
  BY <1>1 DEF Copies
<1>3. World(node, {}, current, age)
  BY <1>2 DEF IInv
<1> QED BY <1>1, <1>3 DEF IInv, Control, World, DestroyOk

\* What is still to be freed once a node without children is.
LEMMA RemovingStays ==
  ASSUME NEW age, Forest(node, age), Removing, pc = "destroy", kept' = kept,
         NEW n \in DOMAIN node, n \notin kept, node[n].first = NULL,
         Removed(node, node', n),
         \A i \in DOMAIN node' : Pointed(node', i) <=> Pointed(node, i),
         stack'[Len(stack')].dir = stack[Len(stack)].dir,
         \A k \in DOMAIN stack' : stack'[k].dir \in DOMAIN node \ kept /\ stack'[k].dir # n
  PROVE  Removing'
<1> DEFINE gone == DOMAIN node \ kept
           gone2 == DOMAIN node' \ kept
           bottom == stack[Len(stack)].dir
<1>1. /\ kept \subseteq DOMAIN node
      /\ \A i \in gone : i # bottom => Pointed(node, i) /\ node[i].parent \in gone
      /\ \A i \in DOMAIN node : Pointed(node, i) /\ node[i].parent \in gone => i \in gone
  BY DEF Removing
<1>2. /\ DOMAIN node' = DOMAIN node \ {n}
      /\ \A i \in DOMAIN node' : node'[i].parent = node[i].parent
  BY DEF Removed, Same
<1>3. \A i \in DOMAIN node : Pointed(node, i) => node[i].parent # n
  BY ParentIsOlder
<1>4. gone2 = gone \ {n}
  BY <1>2
<1> HIDE DEF gone, bottom
<1>5. kept' \subseteq DOMAIN node' /\ gone2 = DOMAIN node' \ kept'
  BY <1>1, <1>2
<1>6. \A k \in DOMAIN stack' : stack'[k].dir \in gone2
  BY <1>4 DEF gone
<1> HIDE DEF gone2
<1>7. ASSUME NEW i \in gone2, i # bottom
      PROVE  Pointed(node', i) /\ node'[i].parent \in gone2
  <2>1. i \in DOMAIN node' /\ i \in DOMAIN node /\ i \in gone
    BY <1>2, <1>4, <1>7 DEF gone
  <2>2. Pointed(node, i) /\ node[i].parent \in gone
    BY <1>1, <1>7, <2>1
  <2> QED BY <1>2, <1>3, <1>4, <2>1, <2>2
<1>8. ASSUME NEW i \in DOMAIN node', Pointed(node', i), node'[i].parent \in gone2
      PROVE  i \in gone2
  <2>1. i \in DOMAIN node /\ i # n /\ Pointed(node, i) /\ node[i].parent \in gone
    BY <1>2, <1>4, <1>8
  <2> QED BY <1>1, <1>4, <2>1
<1>9. bottom = stack'[Len(stack')].dir
  BY DEF bottom
<1> QED BY <1>5, <1>6, <1>7, <1>8, <1>9 DEF Removing

\* rm <folder> r begins: what it has to free is the subtree.
LEMMA RemoveTreeKeeps ==
  ASSUME NEW age \in [Ids -> Nat], IInv(age), NEW path \in Paths, RemoveTree(path)
  PROVE  Inv' /\ (Distinct(node) => Distinct(node'))
<1> DEFINE n == Resolve(path)
           a == Activation(n)
<1>1. /\ Ready /\ n # NULL /\ node[n].type = "Folder"
      /\ pc' = "destroy" /\ stack' = <<a>>
      /\ kept' = DOMAIN node \ Subtree(node, n)
      /\ UNCHANGED <<node, current, dest, wild>>
  BY DEF RemoveTree
<1>2. World(node, {}, current, age) /\ current \in DOMAIN node /\ dest.name \in ProperNames
  BY <1>1, Prompt
<1>3. n \in DOMAIN node /\ Placed(node, n)
  BY <1>1, <1>2, ResolveStays
<1>4. Typed(node) /\ Forest(node, age) /\ DOMAIN node \subseteq Ids
  BY <1>2 DEF World, Typed
<1> HIDE DEF n
<1>5. a.dir = n /\ a.last = node[n].first /\ a \in Activations
  BY <1>3, <1>4, Fields DEF Activation, Activations
<1>6. /\ n \in Subtree(node, n) /\ Subtree(node, n) \subseteq DOMAIN node
      /\ \A i \in Subtree(node, n) : i # n => Pointed(node, i) /\ node[i].parent \in Subtree(node, n)
      /\ \A i \in DOMAIN node : Pointed(node, i) /\ node[i].parent \in Subtree(node, n)
           => i \in Subtree(node, n)
  BY <1>3, <1>4, SubtreeClosed
<1> DEFINE gone == DOMAIN node' \ kept'
<1>7. gone = Subtree(node, n) /\ kept' \subseteq DOMAIN node' /\ kept' \subseteq Ids
  BY <1>1, <1>4, <1>6
<1> HIDE DEF a
<1>8. /\ stack' \in Seq(Activations) /\ Len(stack') = 1 /\ DOMAIN stack' = {1} /\ stack'[1] = a
      /\ stack' # <<>>
  BY <1>1, <1>5
<1>9. DestroyOk(age)'
  BY <1>1, <1>3, <1>5, <1>8 DEF DestroyOk
<1>10. Removing'
  <2>1. \A k \in DOMAIN stack' : stack'[k].dir \in gone
    BY <1>5, <1>6, <1>7, <1>8
  <2>2. stack'[Len(stack')].dir = n
    BY <1>5, <1>8
  <2>3. \A i \in gone : i # n => Pointed(node', i) /\ node'[i].parent \in gone
    BY <1>1, <1>6, <1>7
  <2>4. \A i \in DOMAIN node' : Pointed(node', i) /\ node'[i].parent \in gone => i \in gone
    BY <1>1, <1>6, <1>7
  <2> QED BY <1>7, <2>1, <2>2, <2>3, <2>4 DEF Removing
<1>11. World(node', {}, current', age) /\ dest'.name \in ProperNames
  BY <1>1, <1>2
<1>12. Inv'
  BY <1>1, <1>7, <1>9, <1>10, <1>11, StaysDestroying
<1> QED BY <1>1, <1>12

\* A file among the children is freed, and the loop stands at the next child.
LEMMA DestroyFileKeeps ==
  ASSUME NEW age \in [Ids -> Nat], IInv(age), DestroyFile
  PROVE  Inv' /\ (Distinct(node) => Distinct(node'))
<1> DEFINE child == Head(stack).last
           top == stack[1]
           dir == top.dir
           N == Len(stack)
<1>1. /\ Destroying /\ child # NULL /\ node[child].type = "File"
      /\ node' = Destroy(node, child) /\ stack' = <<Advanced>> \o Tail(stack)
      /\ UNCHANGED <<current, pc, dest, kept, wild>>
  BY DEF DestroyFile
<1>2. /\ World(node, {}, current, age) /\ Typed(node) /\ Forest(node, age) /\ RootOk(node)
      /\ pc = "destroy" /\ kept \subseteq Ids /\ dest.name \in ProperNames
      /\ stack \in Seq(Activations) /\ stack # <<>>
      /\ DestroyOk(age) /\ Removing
  BY <1>1, Turn
<1>3. /\ N \in Nat /\ N > 0 /\ DOMAIN stack = 1 .. N /\ Head(stack) = top
      /\ \A k \in DOMAIN stack : stack[k] \in Activations
  BY <1>2, Popped
<1>4. /\ \A k \in DOMAIN stack :
           /\ stack[k].dir \in DOMAIN node /\ Placed(node, stack[k].dir)
           /\ node[stack[k].dir].type = "Folder"
      /\ top.last = node[dir].first
      /\ \A k \in DOMAIN stack : k > 1 =>
           /\ node[stack[k].dir].first = stack[k - 1].dir
           /\ stack[k].last = node[stack[k - 1].dir].next
      /\ \A j, k \in DOMAIN stack : j < k => age[stack[k].dir] < age[stack[j].dir]
  BY <1>2 DEF DestroyOk
<1>5. 1 \in DOMAIN stack /\ N \in DOMAIN stack
  BY <1>3
<1>6. top \in Activations /\ dir \in DOMAIN node /\ child = node[dir].first
  BY <1>3, <1>4, <1>5
<1> HIDE DEF child
<1>7. child \in DOMAIN node /\ node[child].parent = dir /\ Pointed(node, child)
  <2>1. child \in DOMAIN node /\ node[child].parent = dir
    BY <1>1, <1>2, <1>6 DEF Forest, FirstOk
  <2> QED BY <1>6, <2>1 DEF Pointed
<1>8. node[child].first = NULL /\ child # Root
  BY <1>1, <1>2, <1>7 DEF Forest, FirstOk, RootOk
<1>9. Typed(node') /\ Removed(node, node', child)
  BY <1>1, <1>2, <1>7, DestroyRemoves
<1>10. /\ World(node', {}, current, age)
       /\ \A i \in DOMAIN node' : Pointed(node', i) <=> Pointed(node, i)
  BY <1>2, <1>7, <1>8, <1>9, RemoveWorld
<1>11. /\ DOMAIN node' = DOMAIN node \ {child}
       /\ \A i \in DOMAIN node' :
            /\ node'[i].type = node[i].type
            /\ node'[i].first = IF node[i].first = child THEN node[child].next ELSE node[i].first
            /\ node'[i].next = IF node[i].next = child THEN node[child].next ELSE node[i].next
  BY <1>9 DEF Removed, Same
<1>12. \A k \in DOMAIN stack : stack[k].dir # child
  BY <1>1, <1>4
<1>13. \A i \in DOMAIN node : node[i].next # child
  BY <1>1, <1>2, <1>6 DEF Forest, PointedOnce
<1>14. Advanced \in Activations /\ Advanced.dir = dir /\ Advanced.last = node[child].next
  BY <1>2, <1>3, <1>6, <1>7, Fields DEF Advanced, Activations, child
<1> HIDE DEF top, dir, N
<1>15. /\ stack' \in Seq(Activations) /\ Len(stack') = N /\ DOMAIN stack' = 1 .. N
       /\ stack'[1] = Advanced
       /\ \A k \in 1 .. N : k > 1 => stack'[k] = stack[k]
  BY <1>1, <1>2, <1>14, Replaced DEF N
<1>16. \A k \in DOMAIN stack : stack'[k].dir = stack[k].dir
  BY <1>3, <1>14, <1>15 DEF top, dir
<1>17. DestroyOk(age)'
  <2>1. stack' # <<>>
    BY <1>3, <1>15, EmptySeq
  <2>2. \A k \in DOMAIN stack' :
          /\ stack'[k].dir \in DOMAIN node' /\ Placed(node', stack'[k].dir)
          /\ node'[stack'[k].dir].type = "Folder"
    BY <1>3, <1>4, <1>10, <1>11, <1>12, <1>15, <1>16 DEF Placed
  <2>3. stack'[1].last = node'[stack'[1].dir].first
    BY <1>5, <1>6, <1>11, <1>12, <1>14, <1>15, <1>16 DEF dir, top
  <2>4. ASSUME NEW k \in DOMAIN stack', k > 1
        PROVE  /\ node'[stack'[k].dir].first = stack'[k - 1].dir
               /\ stack'[k].last = node'[stack'[k - 1].dir].next
    <3>1. k \in DOMAIN stack /\ k - 1 \in DOMAIN stack
      BY <1>3, <1>15, <2>4
    <3>2. node[stack[k].dir].first = stack[k - 1].dir /\ stack[k].last = node[stack[k - 1].dir].next
      BY <1>4, <2>4, <3>1
    <3>3. stack[k].dir \in DOMAIN node' /\ stack[k - 1].dir \in DOMAIN node'
      BY <1>4, <1>11, <1>12, <3>1
    <3>4. stack'[k].last = stack[k].last
      BY <1>15, <2>4
    <3>5. node'[stack[k].dir].first = stack[k - 1].dir
      BY <1>11, <1>12, <3>1, <3>2, <3>3
    <3>6. node'[stack[k - 1].dir].next = node[stack[k - 1].dir].next
      BY <1>11, <1>13, <3>3
    <3> QED BY <1>16, <3>1, <3>2, <3>4, <3>5, <3>6
  <2>5. \A j, k \in DOMAIN stack' : j < k => age[stack'[k].dir] < age[stack'[j].dir]
    BY <1>3, <1>4, <1>15, <1>16
  <2> QED BY <1>15, <2>1, <2>2, <2>3, <2>4, <2>5 DEF DestroyOk
<1>18. Removing'
  <2>1. \A k \in DOMAIN stack : stack[k].dir \in DOMAIN node \ kept
    BY <1>2 DEF Removing
  <2>2. child \notin kept
    <3>1. dir \in DOMAIN node \ kept
      BY <1>5, <2>1 DEF dir, top
    <3>2. child \in DOMAIN node \ kept
      BY <1>2, <1>7, <3>1 DEF Removing
    <3> QED BY <3>2
  <2>3. \A k \in DOMAIN stack' : stack'[k].dir \in DOMAIN node \ kept /\ stack'[k].dir # child
    BY <1>3, <1>12, <1>15, <1>16, <2>1
  <2>4. stack'[Len(stack')].dir = stack[Len(stack)].dir
    BY <1>5, <1>15, <1>16 DEF N
  <2>5. kept' = kept
    BY <1>1
  <2> QED BY <1>2, <1>7, <1>8, <1>9, <1>10, <2>2, <2>3, <2>4, <2>5, RemovingStays
<1>19. /\ World(node', {}, current', age) /\ pc' = "destroy" /\ kept' \subseteq Ids
       /\ dest'.name \in ProperNames /\ UNCHANGED wild
  BY <1>1, <1>2, <1>10
<1>20. Inv'
  BY <1>17, <1>18, <1>19, StaysDestroying
<1>21. Distinct(node) => Distinct(node')
  BY <1>9, <1>10, RemoveKeepsDistinct
<1> QED BY <1>20, <1>21

\* A folder among the children: the loop waits for its own activation.
LEMMA EnterFolderKeeps ==
  ASSUME NEW age \in [Ids -> Nat], IInv(age), EnterFolder
  PROVE  Inv' /\ (Distinct(node) => Distinct(node'))
<1> DEFINE child == Head(stack).last
           top == stack[1]
           dir == top.dir
           N == Len(stack)
           a == Activation(child)
<1>1. /\ Destroying /\ child # NULL /\ node[child].type = "Folder"
      /\ stack' = <<a, Advanced>> \o Tail(stack)
      /\ UNCHANGED <<node, current, pc, dest, kept, wild>>
  BY DEF EnterFolder
<1>2. /\ World(node, {}, current, age) /\ Typed(node) /\ Forest(node, age) /\ RootOk(node)
      /\ pc = "destroy" /\ kept \subseteq Ids /\ dest.name \in ProperNames
      /\ stack \in Seq(Activations) /\ stack # <<>>
      /\ DestroyOk(age) /\ Removing
  BY <1>1, Turn
<1>3. /\ N \in Nat /\ N > 0 /\ DOMAIN stack = 1 .. N /\ Head(stack) = top
      /\ \A k \in DOMAIN stack : stack[k] \in Activations
  BY <1>2, Popped
<1>4. /\ \A k \in DOMAIN stack :
           /\ stack[k].dir \in DOMAIN node /\ Placed(node, stack[k].dir)
           /\ node[stack[k].dir].type = "Folder"
      /\ top.last = node[dir].first
      /\ \A k \in DOMAIN stack : k > 1 =>
           /\ node[stack[k].dir].first = stack[k - 1].dir
           /\ stack[k].last = node[stack[k - 1].dir].next
      /\ \A j, k \in DOMAIN stack : j < k => age[stack[k].dir] < age[stack[j].dir]
  BY <1>2 DEF DestroyOk
<1>5. 1 \in DOMAIN stack /\ N \in DOMAIN stack
  BY <1>3
<1>6. top \in Activations /\ dir \in DOMAIN node /\ child = node[dir].first
  BY <1>3, <1>4, <1>5
<1> HIDE DEF child
<1>7. /\ child \in DOMAIN node /\ node[child].parent = dir /\ Pointed(node, child)
      /\ age[dir] < age[child]
  <2>1. child \in DOMAIN node /\ node[child].parent = dir /\ age[dir] < age[child]
    BY <1>1, <1>2, <1>6 DEF Forest, FirstOk
  <2> QED BY <1>6, <2>1 DEF Pointed
<1>8. a \in Activations /\ a.dir = child /\ a.last = node[child].first
  BY <1>2, <1>7, Fields DEF Activation, Activations, Typed
<1>9. Advanced \in Activations /\ Advanced.dir = dir /\ Advanced.last = node[child].next
  BY <1>2, <1>3, <1>6, <1>7, Fields DEF Advanced, Activations, child
<1> HIDE DEF top, dir, N, a
<1>10. /\ stack' \in Seq(Activations) /\ Len(stack') = N + 1 /\ DOMAIN stack' = 1 .. N + 1
       /\ stack'[1] = a /\ stack'[2] = Advanced
       /\ \A k \in 1 .. N + 1 : k > 2 => stack'[k] = stack[k - 1]
  BY <1>1, <1>2, <1>8, <1>9, Called DEF N
<1>11. \A k \in DOMAIN stack' : k > 1 => k - 1 \in DOMAIN stack /\ stack'[k].dir = stack[k - 1].dir
  <2> SUFFICES ASSUME NEW k \in DOMAIN stack', k > 1
               PROVE  k - 1 \in DOMAIN stack /\ stack'[k].dir = stack[k - 1].dir
    OBVIOUS
  <2>1. k - 1 \in DOMAIN stack /\ (k > 2 \/ k = 2)
    BY <1>3, <1>10
  <2>2. CASE k = 2
    BY <1>9, <1>10, <2>1, <2>2 DEF dir, top
  <2>3. CASE k > 2
    BY <1>10, <2>1, <2>3
  <2> QED BY <2>1, <2>2, <2>3
<1>12. stack'[1].dir = child /\ 1 \in DOMAIN stack' /\ \A k \in DOMAIN stack' : k = 1 \/ k > 1
  BY <1>3, <1>8, <1>10
<1>13. DestroyOk(age)'
  <2>1. stack' # <<>>
    BY <1>3, <1>10, EmptySeq
  <2>2. ASSUME NEW k \in DOMAIN stack'
        PROVE  /\ stack'[k].dir \in DOMAIN node /\ Placed(node, stack'[k].dir)
               /\ node[stack'[k].dir].type = "Folder"
    <3>1. CASE k = 1
      BY <1>1, <1>7, <1>12, <3>1 DEF Placed
    <3>2. CASE k > 1
      BY <1>4, <1>11, <3>2
    <3> QED BY <1>12, <3>1, <3>2
  <2>3. stack'[1].last = node[stack'[1].dir].first
    BY <1>8, <1>10, <1>12
  <2>4. ASSUME NEW k \in DOMAIN stack', k > 1
        PROVE  /\ node[stack'[k].dir].first = stack'[k - 1].dir
               /\ stack'[k].last = node[stack'[k - 1].dir].next
    <3>1. k - 1 \in DOMAIN stack /\ k - 1 \in DOMAIN stack' /\ (k = 2 \/ (k > 2 /\ k - 1 > 1))
      BY <1>3, <1>10, <2>4
    <3>2. CASE k = 2
      BY <1>6, <1>9, <1>10, <1>11, <1>12, <2>4, <3>2 DEF dir, top
    <3>3. CASE k > 2 /\ k - 1 > 1
      <4>1. stack'[k] = stack[k - 1]
        BY <1>10, <3>3
      <4>2. stack'[k - 1].dir = stack[(k - 1) - 1].dir
        BY <1>11, <3>1, <3>3
      <4>3. /\ node[stack[k - 1].dir].first = stack[(k - 1) - 1].dir
            /\ stack[k - 1].last = node[stack[(k - 1) - 1].dir].next
        BY <1>4, <3>1, <3>3
      <4> QED BY <4>1, <4>2, <4>3
    <3> QED BY <3>1, <3>2, <3>3
  <2>5. ASSUME NEW j \in DOMAIN stack', NEW k \in DOMAIN stack', j < k
        PROVE  age[stack'[k].dir] < age[stack'[j].dir]
    <3>1. k > 1 /\ k - 1 \in DOMAIN stack /\ stack'[k].dir = stack[k - 1].dir
      BY <1>3, <1>10, <1>11, <2>5
    <3>2. CASE j = 1
      <4>1. k - 1 = 1 \/ 1 < k - 1
        BY <1>10, <2>5, <3>2
      <4>2. age[stack[k - 1].dir] <= age[dir]
        <5>1. \A i \in DOMAIN node : age[i] \in Nat
          BY <1>2, ForestPointers
        <5>2. age[stack[k - 1].dir] = age[dir] \/ age[stack[k - 1].dir] < age[dir]
          BY <1>4, <1>5, <3>1, <4>1 DEF dir, top
        <5>3. age[dir] \in Nat /\ age[stack[k - 1].dir] \in Nat
          BY <1>4, <1>6, <3>1, <5>1
        <5> QED BY <5>2, <5>3
      <4>3. age[dir] \in Nat /\ age[stack[k - 1].dir] \in Nat /\ age[child] \in Nat
        BY <1>2, <1>4, <1>6, <1>7, <3>1, ForestPointers
      <4> QED BY <1>7, <1>12, <3>1, <3>2, <4>2, <4>3
    <3>3. CASE j > 1
      <4>1. j - 1 \in DOMAIN stack /\ stack'[j].dir = stack[j - 1].dir
        BY <1>11, <3>3
      <4>2. j - 1 < k - 1
        BY <1>10, <2>5
      <4> QED BY <1>4, <3>1, <4>1, <4>2
    <3> QED BY <1>12, <3>2, <3>3
  <2> QED BY <1>1, <1>10, <2>1, <2>2, <2>3, <2>4, <2>5 DEF DestroyOk
<1>14. Removing'
  <2>1. \A k \in DOMAIN stack : stack[k].dir \in DOMAIN node \ kept
    BY <1>2 DEF Removing
  <2>2. child \in DOMAIN node \ kept
    <3>1. dir \in DOMAIN node \ kept
      BY <1>5, <2>1 DEF dir, top
    <3> QED BY <1>2, <1>7, <3>1 DEF Removing
  <2>3. \A k \in DOMAIN stack' : stack'[k].dir \in DOMAIN node \ kept
    BY <1>11, <1>12, <2>1, <2>2
  <2>4. stack'[Len(stack')].dir = stack[Len(stack)].dir
    <3>1. N + 1 \in DOMAIN stack' /\ N + 1 > 1 /\ (N + 1) - 1 = N
      BY <1>3, <1>10
    <3> QED BY <1>10, <1>11, <3>1 DEF N
  <2> QED BY <1>1, <1>2, <2>3, <2>4 DEF Removing
<1>15. /\ World(node', {}, current', age) /\ pc' = "destroy" /\ kept' \subseteq Ids
       /\ dest'.name \in ProperNames /\ UNCHANGED wild
  BY <1>1, <1>2
<1>16. Inv'
  BY <1>13, <1>14, <1>15, StaysDestroying
<1> QED BY <1>1, <1>16

\* The folder goes when its list is empty, and its activation returns.  When
\* that was the last one, all that had to go is gone.
LEMMA DestroyFolderKeeps ==
  ASSUME NEW age \in [Ids -> Nat], IInv(age), DestroyFolder
  PROVE  /\ Inv' /\ (Distinct(node) => Distinct(node'))
         /\ pc' = "idle" => DOMAIN node' = kept
<1> DEFINE top == stack[1]
           n == top.dir
           N == Len(stack)
           gone == DOMAIN node \ kept
<1>1. /\ Destroying /\ Head(stack).last = NULL /\ Head(stack).dir # Root
      /\ node' = Destroy(node, Head(stack).dir) /\ stack' = Tail(stack)
      /\ IF Tail(stack) = <<>> THEN pc' = "idle" /\ kept' = {} ELSE UNCHANGED <<pc, kept>>
      /\ UNCHANGED <<current, dest, wild>>
  BY DEF DestroyFolder
<1>2. /\ World(node, {}, current, age) /\ Typed(node) /\ Forest(node, age) /\ RootOk(node)
      /\ pc = "destroy" /\ kept \subseteq Ids /\ dest.name \in ProperNames
      /\ stack \in Seq(Activations) /\ stack # <<>>
      /\ DestroyOk(age) /\ Removing
  BY <1>1, Turn
<1>3. /\ N \in Nat /\ N > 0 /\ DOMAIN stack = 1 .. N /\ Head(stack) = top
      /\ \A k \in DOMAIN stack : stack[k] \in Activations
  BY <1>2, Popped
<1>4. /\ \A k \in DOMAIN stack :
           /\ stack[k].dir \in DOMAIN node /\ Placed(node, stack[k].dir)
           /\ node[stack[k].dir].type = "Folder"
      /\ top.last = node[n].first
      /\ \A k \in DOMAIN stack : k > 1 =>
           /\ node[stack[k].dir].first = stack[k - 1].dir
           /\ stack[k].last = node[stack[k - 1].dir].next
      /\ \A j, k \in DOMAIN stack : j < k => age[stack[k].dir] < age[stack[j].dir]
  BY <1>2 DEF DestroyOk
<1>5. 1 \in DOMAIN stack /\ N \in DOMAIN stack
  BY <1>3
<1>6. n \in DOMAIN node /\ node[n].first = NULL /\ n # Root /\ Pointed(node, n)
  BY <1>1, <1>3, <1>4, <1>5 DEF Placed
<1>7. /\ kept \subseteq DOMAIN node
      /\ \A k \in DOMAIN stack : stack[k].dir \in gone
      /\ \A i \in gone : i # stack[N].dir => Pointed(node, i) /\ node[i].parent \in gone
      /\ n \in gone
  BY <1>2, <1>5 DEF Removing
<1>8. Typed(node') /\ Removed(node, node', n)
  BY <1>1, <1>2, <1>3, <1>6, DestroyRemoves
<1>9. /\ World(node', {}, current, age)
      /\ \A i \in DOMAIN node' : Pointed(node', i) <=> Pointed(node, i)
  BY <1>2, <1>6, <1>8, RemoveWorld
<1>10. /\ DOMAIN node' = DOMAIN node \ {n}
       /\ \A i \in DOMAIN node' :
            /\ node'[i].type = node[i].type
            /\ node'[i].first = IF node[i].first = n THEN node[n].next ELSE node[i].first
            /\ node'[i].next = IF node[i].next = n THEN node[n].next ELSE node[i].next
  BY <1>8 DEF Removed, Same
<1>11. Distinct(node) => Distinct(node')
  BY <1>8, <1>9, RemoveKeepsDistinct
<1>12. /\ stack' \in Seq(Activations) /\ Len(stack') = N - 1
       /\ DOMAIN stack' = 1 .. N - 1 /\ \A k \in 1 .. N - 1 : stack'[k] = stack[k + 1]
  BY <1>1, <1>2, Popped
<1> HIDE DEF n, top, N, gone
<1>13. CASE Tail(stack) = <<>>
  <2>1. N = 1
    <3>1. Len(stack') = 0
      BY <1>1, <1>13
    <3> QED BY <1>3, <1>12, <3>1
  <2>2. gone = {n}
    <3> DEFINE others == {i \in gone : i # n}
               ages == {age[i] : i \in others}
    <3>1. SUFFICES ASSUME others # {} PROVE FALSE
      BY <1>7
    <3>2. age \in [Ids -> Nat] /\ gone \subseteq DOMAIN node /\ DOMAIN node \subseteq Ids
      BY <1>2 DEF Typed, gone
    <3>3. ages \subseteq Nat /\ ages # {}
      BY <3>1, <3>2
    <3> HIDE DEF ages
    <3>4. PICK least \in ages : \A x \in ages : least <= x
      BY <3>3, Least
    <3>5. PICK i \in others : least = age[i]
      BY <3>4 DEF ages
    <3>6. Pointed(node, i) /\ node[i].parent \in gone
      BY <1>7, <2>1, <3>5 DEF n, top
    <3>7. i \in DOMAIN node
      BY <3>2, <3>5
    <3>8. node[i].parent # n /\ age[node[i].parent] < age[i]
      BY <1>2, <1>6, <3>6, <3>7, ParentIsOlder
    <3>9. age[node[i].parent] \in ages
      BY <3>6, <3>8 DEF ages
    <3>10. age[i] <= age[node[i].parent]
      BY <3>4, <3>5, <3>9
    <3>11. age[i] \in Nat /\ age[node[i].parent] \in Nat
      BY <3>2, <3>6, <3>7
    <3> QED BY <3>8, <3>10, <3>11
  <2>3. DOMAIN node' = kept
    BY <1>7, <1>10, <2>2 DEF gone
  <2>4. /\ World(node', {}, current', age) /\ pc' = "idle" /\ stack' = <<>>
        /\ wild' \in BOOLEAN /\ kept' \subseteq Ids /\ dest'.name \in ProperNames
    BY <1>1, <1>2, <1>9, <1>13 DEF IInv, Control
  <2>5. IInv(age)'
    BY <2>4, Settled
  <2> QED BY <1>11, <2>3, <2>5 DEF Inv
<1>14. CASE Tail(stack) # <<>>
  <2>1. pc' = "destroy" /\ kept' = kept /\ pc' # "idle"
    BY <1>1, <1>2, <1>14
  <2>2. N > 1
    <3>1. Len(stack') # 0
      BY <1>1, <1>12, <1>14, EmptySeq
    <3> QED BY <1>3, <1>12, <3>1
  <2>3. \A k \in DOMAIN stack' : k + 1 \in DOMAIN stack /\ stack'[k] = stack[k + 1]
    BY <1>3, <1>12
  <2>4. \A k \in DOMAIN stack : k > 1 => stack[k].dir # n
    <3> SUFFICES ASSUME NEW k \in DOMAIN stack, k > 1 PROVE stack[k].dir # n
      OBVIOUS
    <3>1. age[stack[k].dir] < age[n]
      BY <1>4, <1>5 DEF n, top
    <3>2. age[n] \in Nat
      BY <1>2, <1>6, ForestPointers
    <3> QED BY <3>1, <3>2
  <2>5. 1 \in DOMAIN stack' /\ 2 \in DOMAIN stack /\ node[stack[2].dir].first = n
        /\ stack[2].last = node[n].next
    <3>1. 1 \in DOMAIN stack' /\ 2 \in DOMAIN stack /\ 2 > 1 /\ 2 - 1 = 1
      BY <1>3, <1>12, <2>2
    <3>2. /\ node[stack[2].dir].first = stack[2 - 1].dir
          /\ stack[2].last = node[stack[2 - 1].dir].next
      BY <1>4, <3>1
    <3> QED BY <3>1, <3>2 DEF n, top
  <2>6. \A i \in DOMAIN node : node[i].next # n
    <3>1. n # NULL /\ stack[2].dir \in DOMAIN node
      BY <1>2, <1>4, <1>6, <2>5, ForestPointers
    <3> QED BY <1>2, <2>5, <3>1 DEF Forest, PointedOnce
  <2>7. DestroyOk(age)'
    <3>1. stack' # <<>>
      BY <1>1, <1>14
    <3>2. \A k \in DOMAIN stack : k > 1 =>
            /\ stack[k].dir \in DOMAIN node' /\ Placed(node', stack[k].dir)
            /\ node'[stack[k].dir].type = "Folder"
      BY <1>4, <1>9, <1>10, <2>4 DEF Placed
    <3>3. \A k \in DOMAIN stack' :
            /\ stack'[k].dir \in DOMAIN node' /\ Placed(node', stack'[k].dir)
            /\ node'[stack'[k].dir].type = "Folder"
      <4>1. \A k \in DOMAIN stack' : k + 1 > 1
        BY <1>12
      <4> QED BY <2>3, <3>2, <4>1
    <3>4. stack'[1].last = node'[stack'[1].dir].first
      <4>1. stack'[1] = stack[2]
        BY <2>3, <2>5
      <4>2. stack[2].dir \in DOMAIN node'
        BY <2>5, <3>2
      <4> QED BY <1>10, <2>5, <4>1, <4>2
    <3>5. ASSUME NEW k \in DOMAIN stack', k > 1
          PROVE  /\ node'[stack'[k].dir].first = stack'[k - 1].dir
                 /\ stack'[k].last = node'[stack'[k - 1].dir].next
      <4>1. /\ k \in DOMAIN stack /\ k - 1 \in DOMAIN stack' /\ k + 1 \in DOMAIN stack
            /\ k + 1 > 1 /\ (k + 1) - 1 = k /\ (k - 1) + 1 = k
        BY <1>3, <1>12, <3>5
      <4>2. stack'[k] = stack[k + 1] /\ stack'[k - 1] = stack[k]
        BY <2>3, <3>5, <4>1
      <4>3. node[stack[k + 1].dir].first = stack[k].dir /\ stack[k + 1].last = node[stack[k].dir].next
        BY <1>4, <4>1
      <4>4. stack[k].dir \in DOMAIN node' /\ stack[k + 1].dir \in DOMAIN node'
        BY <3>2, <3>5, <4>1
      <4>5. stack[k].dir # n /\ stack[k].dir \in DOMAIN node
        BY <1>4, <2>4, <3>5, <4>1
      <4>6. node'[stack[k + 1].dir].first = stack[k].dir
        BY <1>10, <4>3, <4>4, <4>5
      <4>7. node'[stack[k].dir].next = node[stack[k].dir].next
        BY <1>10, <2>6, <4>4, <4>5
      <4> QED BY <4>2, <4>3, <4>6, <4>7
    <3>6. ASSUME NEW j \in DOMAIN stack', NEW k \in DOMAIN stack', j < k
          PROVE  age[stack'[k].dir] < age[stack'[j].dir]
      <4>1. j + 1 \in DOMAIN stack /\ k + 1 \in DOMAIN stack /\ j + 1 < k + 1
        BY <1>12, <2>3, <3>6
      <4> QED BY <1>4, <2>3, <4>1
    <3> QED BY <1>12, <3>1, <3>3, <3>4, <3>5, <3>6 DEF DestroyOk
  <2>8. Removing'
    <3>1. \A k \in DOMAIN stack' : stack'[k].dir \in DOMAIN node \ kept /\ stack'[k].dir # n
      <4>1. \A k \in DOMAIN stack' : k + 1 > 1
        BY <1>12
      <4> QED BY <1>7, <2>3, <2>4, <4>1 DEF gone
    <3>2. stack'[Len(stack')].dir = stack[Len(stack)].dir
      <4>1. N - 1 \in DOMAIN stack' /\ (N - 1) + 1 = N
        BY <1>3, <1>12, <2>2
      <4> QED BY <1>12, <2>3, <4>1 DEF N
    <3>3. n \notin kept
      BY <1>7 DEF gone
    <3> QED BY <1>2, <1>6, <1>8, <1>9, <2>1, <3>1, <3>2, <3>3, RemovingStays
  <2>9. /\ World(node', {}, current', age) /\ kept' \subseteq Ids
        /\ dest'.name \in ProperNames /\ UNCHANGED wild
    BY <1>1, <1>2, <1>9, <2>1
  <2>10. Inv'
    BY <2>1, <2>7, <2>8, <2>9, StaysDestroying
  <2> QED BY <1>11, <2>1, <2>10
<1> QED BY <1>13, <1>14

-----------------------------------------------------------------------------
(* copy. *)

\* More copies may have children.
LEMMA MoreLoose ==
  ASSUME NEW nd, NEW loose, NEW loose2, NEW cur, NEW age, World(nd, loose, cur, age),
         loose \subseteq loose2
  PROVE  World(nd, loose2, cur, age)
  BY DEF World, Rooted

\* A node linked under a name its list has not keeps the names apart.
LEMMA LinkKeepsDistinct ==
  ASSUME NEW nd, NEW nd2, NEW p, NEW l, NEW c \in DOMAIN nd, Linked(nd, nd2, p, l, c),
         \A i \in DOMAIN nd2 : Pointed(nd2, i) <=> Pointed(nd, i) \/ i = c,
         Distinct(nd), nd[c].parent = p,
         \A i \in DOMAIN nd : ChildOf(nd, i, p) => nd[i].name # nd[c].name
  PROVE  Distinct(nd2)
<1>1. /\ DOMAIN nd2 = DOMAIN nd
      /\ \A j \in DOMAIN nd : nd2[j].name = nd[j].name /\ nd2[j].parent = nd[j].parent
  BY DEF Linked, Same
<1> SUFFICES ASSUME NEW a \in DOMAIN nd, NEW b \in DOMAIN nd,
                    Pointed(nd2, a), Pointed(nd2, b),
                    nd[a].parent = nd[b].parent, nd[a].name = nd[b].name
             PROVE  a = b
  BY <1>1 DEF Distinct
<1>2. (Pointed(nd, a) \/ a = c) /\ (Pointed(nd, b) \/ b = c)
  BY <1>1
<1> QED BY <1>2 DEF Distinct, ChildOf

\* What the loop of cloneNode keeps is enough between its turns.
LEMMA StaysCopying ==
  ASSUME NEW age \in [Ids -> Nat], pc' = "clone", wild' \in BOOLEAN, kept' \subseteq Ids,
         dest'.name \in ProperNames, current' \in DOMAIN node',
         World(node', Copies', current', age),
         ClonesOk(age)', DestOk(age)', NamesCopied(age)'
  PROVE  Inv'
<1>1. Control'
  BY DEF Control
<1>2. DestroyOk(age)' /\ Removing'
  BY DEF DestroyOk, Removing
<1>3. IInv(age)'
  BY <1>1, <1>2 DEF IInv
<1> QED BY <1>3 DEF Inv

\* What a turn of cloneNode starts from.
LEMMA CopyTurn ==
  ASSUME NEW age \in [Ids -> Nat], IInv(age), Copying
  PROVE  /\ World(node, Copies, current, age) /\ Typed(node) /\ Forest(node, age)
         /\ RootOk(node) /\ Sizes(node) /\ Named(node)
         /\ pc = "clone" /\ kept \subseteq Ids /\ dest.name \in ProperNames /\ wild \in BOOLEAN
         /\ current \in DOMAIN node
         /\ stack \in Seq(Clones) /\ stack # <<>>
         /\ ClonesOk(age) /\ DestOk(age) /\ NamesCopied(age)
<1>1. pc = "clone"
  BY DEF Copying
<1> QED BY <1>1 DEF IInv, Control, World, ClonesOk

\* cloneNode makes a node with the name, type and content of another.
LEMMA CloneIsNode ==
  ASSUME NEW nd, Typed(nd), Sizes(nd), Named(nd), NEW n \in DOMAIN nd, NEW p \in Ids, NEW ok \in BOOLEAN
  PROVE  LET r == CloneOf(nd, n, p, ok)
         IN  /\ r \in Node /\ r.first = NULL /\ r.next = NULL /\ r.parent = p
             /\ r.name = nd[n].name /\ r.type = nd[n].type
             /\ r.data # NoData => r.size = r.data
             /\ r.name \in ProperNames
<1> DEFINE a == nd[n]
           r == CloneOf(nd, n, p, ok)
<1>1. /\ a.name \in Names /\ a.type \in Types
      /\ a.data \in {NoData} \cup 0 .. MAX_LENGTH /\ a.size \in 0 .. MAX_LENGTH
  BY Fields
<1>2. a.data # NoData => a.size = a.data
  BY DEF Sizes
<1>3. r = [name |-> a.name, type |-> a.type, parent |-> p, first |-> NULL, next |-> NULL,
           data |-> IF ok THEN a.data ELSE NoData, size |-> a.size]
  BY DEF CloneOf, NewNode
<1> HIDE DEF a, r
<1>4. /\ r.first = NULL /\ r.next = NULL /\ r.parent = p /\ r.name = a.name /\ r.type = a.type
      /\ r.data = (IF ok THEN a.data ELSE NoData) /\ r.size = a.size
  BY <1>3
<1>5. r \in Node
  BY <1>1, <1>3 DEF Node
<1>6. r.data # NoData => r.size = r.data
  BY <1>2, <1>4
<1>7. r.name \in ProperNames
  BY <1>4 DEF Named, a
<1> QED BY <1>4, <1>5, <1>6, <1>7 DEF a, r

\* A node more changes nothing for the activations there are.
LEMMA AddKeepsCopyOk ==
  ASSUME NEW nd, NEW nd2, NEW i, DOMAIN nd2 = DOMAIN nd \cup {i},
         \A j \in DOMAIN nd : nd2[j] = nd[j],
         \A j \in DOMAIN nd2 : Pointed(nd2, j) <=> Pointed(nd, j),
         NEW a, CopyOk(nd, a)
  PROVE  CopyOk(nd2, a)
  BY DEF CopyOk, Placed, ChildOf

\* An activation of cloneNode begins: it has a copy without children.
LEMMA CloneBegins ==
  ASSUME NEW age, Typed(node), Forest(node, age), NEW n \in DOMAIN node, NEW c \in Ids,
         NEW nd2, NEW age2, Forest(nd2, age2),
         DOMAIN nd2 = DOMAIN node \cup {c}, c # Root,
         \A j \in DOMAIN nd2 : Pointed(nd2, j) <=> Pointed(node, j), ~Pointed(nd2, c),
         nd2[c].type = node[n].type, nd2[c].first = NULL
  PROVE  /\ Cloning(n, c) \in Clones /\ Cloning(n, c).copy = c
         /\ CopyOk(nd2, Cloning(n, c))
         /\ \A i \in DOMAIN nd2 : ~ChildOf(nd2, i, c)
<1> DEFINE a == Cloning(n, c)
           ch == IF node[n].type = "Folder" THEN node[n].first ELSE NULL
<1>1. a = [copy |-> c, child |-> ch, lastCopy |-> NULL]
  BY DEF Cloning
<1>2. ch \in Ids \cup {NULL}
  BY Fields
<1>3. ch # NULL => ch \in DOMAIN node /\ Pointed(node, ch) /\ node[n].type = "Folder"
  BY DEF Forest, FirstOk, Pointed
<1> HIDE DEF a, ch
<1>4. a.copy = c /\ a.child = ch /\ a.lastCopy = NULL /\ a \in Clones
  BY <1>1, <1>2 DEF Clones
<1>5. CopyOk(nd2, a)
  BY <1>3, <1>4 DEF CopyOk, Placed
<1>6. \A i \in DOMAIN nd2 : ~ChildOf(nd2, i, c)
  BY ParentIsOlder DEF ChildOf
<1> QED BY <1>4, <1>5, <1>6 DEF a

\* copy begins.
LEMMA CopyKeeps ==
  ASSUME NEW age \in [Ids -> Nat], IInv(age), NEW path \in Paths, NEW to \in Paths,
         NEW ok \in BOOLEAN, Copy(path, to, ok)
  PROVE  Inv' /\ (Distinct(node) => Distinct(node'))
<1> DEFINE r == ResolveParent(to)
           p == r.parent
           n == Resolve(path)
           c == Fresh(node)
           rec == CloneOf(node, n, p, ok)
           nd == Add(node, c, rec)
           a == Cloning(n, c)
<1>1. /\ Ready /\ r # NoParent /\ n # NULL /\ FindNode(node, r.name, p) = NULL
      /\ ~Full(node) /\ dest' = r /\ node' = Add(node, c, CloneOf(node, n, dest'.parent, ok))
      /\ pc' = "clone" /\ stack' = <<a>> /\ UNCHANGED <<current, kept, wild>>
  BY DEF Copy, CopyTarget
<1>2. World(node, {}, current, age) /\ current \in DOMAIN node /\ wild = FALSE /\ kept \subseteq Ids
  BY <1>1, Prompt
<1>3. Typed(node) /\ Forest(node, age) /\ DOMAIN node \subseteq Ids /\ Sizes(node) /\ Named(node)
      /\ Root \in DOMAIN node
  BY <1>2 DEF World, Typed, RootOk
<1>4. p \in DOMAIN node /\ Placed(node, p) /\ node[p].type = "Folder" /\ r.name \in ProperNames
  BY <1>1, <1>2, ResolveParentStays
<1>5. n \in DOMAIN node
  BY <1>1, <1>2, ResolveStays
<1>6. c \in Ids /\ c \notin DOMAIN node /\ c # NULL /\ c # Root
  BY <1>1, <1>3, FreshIsFree
<1>7. PICK now \in Nat : \A j \in Ids : age[j] < now
  BY NowExists
<1>0. PICK age2 : age2 = Aged(age, c, now)
  OBVIOUS
<1>8. node' = nd
  BY <1>1
<1>9. \A k \in DOMAIN node : ChildOf(node, k, p) => node[k].name # r.name
  BY <1>1, <1>3, <1>4, FindNodeFinds
<1> HIDE DEF n, r, c
<1>10. /\ rec \in Node /\ rec.first = NULL /\ rec.next = NULL /\ rec.parent = p
       /\ rec.name = node[n].name /\ rec.name \in ProperNames /\ rec.type = node[n].type
       /\ rec.data # NoData => rec.size = rec.data
  <2>1. p \in Ids
    BY <1>3, <1>4
  <2> HIDE DEF p
  <2> QED BY <1>3, <1>5, <2>1, CloneIsNode
<1> HIDE DEF p, rec
<1>11. /\ World(nd, {}, current, age2) /\ Added(node, nd, c) /\ nd[c] = rec
       /\ \A j \in DOMAIN node : nd[j] = node[j]
       /\ \A j \in DOMAIN nd : Pointed(nd, j) <=> Pointed(node, j)
       /\ ~Pointed(nd, c)
  BY <1>0, <1>2, <1>6, <1>7, <1>10, AddWorld
<1>12. age2 \in [Ids -> Nat] /\ age2[c] = now /\ \A j \in DOMAIN node : age2[j] < now
  BY <1>0, <1>3, <1>6, <1>7 DEF Aged
<1>13. DOMAIN nd = DOMAIN node \cup {c} /\ Forest(nd, age2)
  BY <1>11 DEF Added, World
<1> HIDE DEF nd
<1>14. /\ a \in Clones /\ a.copy = c /\ CopyOk(nd, a)
       /\ \A i \in DOMAIN nd : ~ChildOf(nd, i, c)
  BY <1>3, <1>5, <1>6, <1>10, <1>11, <1>13, CloneBegins
<1> HIDE DEF a
<1>15. /\ stack' \in Seq(Clones) /\ Len(stack') = 1 /\ DOMAIN stack' = {1} /\ stack'[1] = a
       /\ stack' # <<>>
  BY <1>1, <1>14
<1>16. World(node', Copies', current', age2)
  <2>1. World(nd, Copies', current, age2)
    BY <1>11, MoreLoose
  <2> QED BY <1>1, <1>8, <2>1
<1>17. ClonesOk(age2)'
  BY <1>8, <1>14, <1>15 DEF ClonesOk
<1>18. DestOk(age2)'
  <2>1. stack'[Len(stack')].copy = c
    BY <1>14, <1>15
  <2>2. dest'.parent = p /\ dest'.name = r.name
    BY <1>1 DEF p
  <2>3. p \in DOMAIN nd /\ Placed(nd, p) /\ nd[p].type = "Folder" /\ nd[c].parent = p
        /\ age2[p] < age2[c]
    BY <1>4, <1>10, <1>11, <1>12, <1>13 DEF Placed
  <2>4. \A i \in DOMAIN nd : ChildOf(nd, i, p) => age2[i] < age2[c] /\ nd[i].name # r.name
    BY <1>9, <1>11, <1>12, <1>13 DEF ChildOf
  <2> QED BY <1>8, <2>1, <2>2, <2>3, <2>4 DEF DestOk
<1>19. NamesCopied(age2)'
  BY <1>8, <1>14, <1>15 DEF NamesCopied
<1>20. /\ pc' = "clone" /\ wild' \in BOOLEAN /\ kept' \subseteq Ids
       /\ dest'.name \in ProperNames /\ current' \in DOMAIN node'
  BY <1>1, <1>2, <1>4, <1>8, <1>13
<1>21. Inv'
  BY <1>12, <1>16, <1>17, <1>18, <1>19, <1>20, StaysCopying
<1>22. Distinct(node) => Distinct(node')
  BY <1>8, <1>11, <1>13 DEF Distinct
<1> QED BY <1>21, <1>22

\* cloneNode calls itself for a child.
LEMMA CloneChildKeeps ==
  ASSUME NEW age \in [Ids -> Nat], IInv(age), NEW ok \in BOOLEAN, CloneChild(ok)
  PROVE  Inv' /\ (Distinct(node) => Distinct(node'))
<1> DEFINE top == stack[1]
           n == top.child
           p == top.copy
           c == Fresh(node)
           rec == CloneOf(node, n, p, ok)
           nd == Add(node, c, rec)
           a == Cloning(n, c)
           N == Len(stack)
<1>1. /\ Copying /\ Head(stack).child # NULL /\ ~Full(node)
      /\ node' = Add(node, c, CloneOf(node, Head(stack).child, Head(stack).copy, ok))
      /\ stack' = <<Cloning(Head(stack).child, c)>> \o stack
      /\ UNCHANGED <<current, pc, dest, kept, wild>>
  BY DEF CloneChild
<1>2. /\ World(node, Copies, current, age) /\ Typed(node) /\ Forest(node, age)
      /\ RootOk(node) /\ Sizes(node) /\ Named(node)
      /\ pc = "clone" /\ kept \subseteq Ids /\ dest.name \in ProperNames /\ wild \in BOOLEAN
      /\ current \in DOMAIN node
      /\ stack \in Seq(Clones) /\ stack # <<>>
      /\ ClonesOk(age) /\ DestOk(age) /\ NamesCopied(age)
  BY <1>1, CopyTurn
<1>3. /\ N \in Nat /\ N > 0 /\ DOMAIN stack = 1 .. N /\ Head(stack) = top
  BY <1>2, Popped
<1>4. /\ \A k \in DOMAIN stack : CopyOk(node, stack[k])
      /\ \A k \in DOMAIN stack : k > 1 =>
           /\ node[stack[k - 1].copy].parent = stack[k].copy
           /\ stack[k].child # NULL
           /\ stack[k].lastCopy # NULL => age[stack[k].lastCopy] < age[stack[k - 1].copy]
      /\ \A j, k \in DOMAIN stack : j < k => age[stack[k].copy] < age[stack[j].copy]
  BY <1>2 DEF ClonesOk
<1>5. 1 \in DOMAIN stack /\ N \in DOMAIN stack
  BY <1>3
<1>6. n # NULL /\ n \in DOMAIN node /\ p \in DOMAIN node
  BY <1>1, <1>3, <1>4, <1>5 DEF CopyOk
<1>7. DOMAIN node \subseteq Ids /\ Root \in DOMAIN node
  BY <1>2 DEF Typed, RootOk
<1>8. c \in Ids /\ c \notin DOMAIN node /\ c # NULL /\ c # Root
  BY <1>1, <1>7, FreshIsFree
<1>9. PICK now \in Nat : \A j \in Ids : age[j] < now
  BY NowExists
<1>10. PICK age2 : age2 = Aged(age, c, now)
  OBVIOUS
<1>11. node' = nd /\ stack' = <<a>> \o stack
  BY <1>1, <1>3
<1> HIDE DEF n, p, c
<1>12. /\ rec \in Node /\ rec.first = NULL /\ rec.next = NULL /\ rec.parent = p
       /\ rec.name = node[n].name /\ rec.name \in ProperNames /\ rec.type = node[n].type
       /\ rec.data # NoData => rec.size = rec.data
  <2>1. p \in Ids
    BY <1>6, <1>7
  <2> QED BY <1>2, <1>6, <2>1, CloneIsNode
<1> HIDE DEF rec
<1>13. /\ World(nd, Copies, current, age2) /\ Added(node, nd, c) /\ nd[c] = rec
       /\ \A j \in DOMAIN node : nd[j] = node[j]
       /\ \A j \in DOMAIN nd : Pointed(nd, j) <=> Pointed(node, j)
       /\ ~Pointed(nd, c)
  BY <1>2, <1>8, <1>9, <1>10, <1>12, AddWorld
<1>14. /\ age2 \in [Ids -> Nat] /\ age2[c] = now /\ \A j \in DOMAIN node : age2[j] < now
       /\ \A j \in DOMAIN node : age2[j] = age[j]
  BY <1>7, <1>8, <1>9, <1>10 DEF Aged
<1>15. DOMAIN nd = DOMAIN node \cup {c} /\ Forest(nd, age2)
  BY <1>13 DEF Added, World
<1> HIDE DEF nd
<1>16. /\ a \in Clones /\ a.copy = c /\ CopyOk(nd, a)
       /\ \A i \in DOMAIN nd : ~ChildOf(nd, i, c)
  BY <1>2, <1>6, <1>8, <1>12, <1>13, <1>15, CloneBegins
<1> HIDE DEF a, top, N
<1>17. /\ stack' \in Seq(Clones) /\ Len(stack') = N + 1 /\ DOMAIN stack' = 1 .. N + 1
       /\ stack'[1] = a
       /\ \A k \in 1 .. N + 1 : k > 1 => stack'[k] = stack[k - 1]
  BY <1>2, <1>11, <1>16, Pushed DEF N
<1>18. /\ \A k \in DOMAIN stack' : k > 1 => k - 1 \in DOMAIN stack /\ stack'[k] = stack[k - 1]
       /\ \A k \in DOMAIN stack' : k = 1 \/ k > 1
       /\ 1 \in DOMAIN stack'
  BY <1>3, <1>17
<1>19. World(node', Copies', current', age2)
  <2>1. Copies \subseteq Copies'
    <3> SUFFICES ASSUME NEW x \in Copies PROVE x \in Copies'
      OBVIOUS
    <3>1. PICK k \in DOMAIN stack : x = stack[k].copy
      BY <1>2 DEF Copies
    <3>2. k + 1 \in DOMAIN stack' /\ stack'[k + 1] = stack[k]
      BY <1>3, <1>17, <3>1
    <3> QED BY <1>1, <1>2, <3>1, <3>2 DEF Copies
  <2>2. World(nd, Copies', current, age2)
    BY <1>13, <2>1, MoreLoose
  <2> QED BY <1>1, <1>11, <2>2
<1>20. \A i \in DOMAIN nd : \A q : ChildOf(nd, i, q) => ChildOf(node, i, q)
  BY <1>13, <1>15 DEF ChildOf
<1>21. \A i \in DOMAIN node : \A q : ChildOf(node, i, q) => ChildOf(nd, i, q)
  BY <1>13, <1>15 DEF ChildOf
<1>22. \A k \in DOMAIN stack : CopyOk(nd, stack[k])
  BY <1>4, <1>13, <1>15, AddKeepsCopyOk
<1>23. \A k \in DOMAIN stack : stack[k].copy \in DOMAIN node
  BY <1>4 DEF CopyOk
<1>24. ClonesOk(age2)'
  <2>1. stack' # <<>>
    BY <1>3, <1>17, EmptySeq
  <2>2. \A k \in DOMAIN stack' : CopyOk(nd, stack'[k])
    BY <1>16, <1>17, <1>18, <1>22
  <2>3. ASSUME NEW k \in DOMAIN stack', k > 1
        PROVE  /\ nd[stack'[k - 1].copy].parent = stack'[k].copy
               /\ stack'[k].child # NULL
               /\ stack'[k].lastCopy # NULL => age2[stack'[k].lastCopy] < age2[stack'[k - 1].copy]
    <3>1. /\ k - 1 \in DOMAIN stack /\ k - 1 \in DOMAIN stack' /\ stack'[k] = stack[k - 1]
          /\ k = 2 \/ k - 1 > 1
      BY <1>3, <1>17, <1>18, <2>3
    <3>2. stack[k - 1].lastCopy # NULL => stack[k - 1].lastCopy \in DOMAIN node
      BY <1>4, <3>1 DEF CopyOk, ChildOf
    <3>3. CASE k = 2
      <4>1. stack'[k] = top /\ stack'[k - 1].copy = c /\ nd[c].parent = p
        BY <1>12, <1>13, <1>16, <1>17, <3>1, <3>3 DEF top
      <4>2. top.lastCopy # NULL => age2[top.lastCopy] < age2[c]
        BY <1>14, <3>1, <3>2, <4>1
      <4> QED BY <1>6, <4>1, <4>2 DEF p, n
    <3>4. CASE k - 1 > 1
      <4>1. stack'[k - 1] = stack[(k - 1) - 1] /\ (k - 1) - 1 \in DOMAIN stack
        BY <1>18, <3>1, <3>4
      <4>2. /\ node[stack[(k - 1) - 1].copy].parent = stack[k - 1].copy
            /\ stack[k - 1].child # NULL
            /\ stack[k - 1].lastCopy # NULL =>
                 age[stack[k - 1].lastCopy] < age[stack[(k - 1) - 1].copy]
        BY <1>4, <3>1, <3>4
      <4>3. stack[(k - 1) - 1].copy \in DOMAIN node
        BY <1>23, <4>1
      <4> QED BY <1>13, <1>14, <3>1, <3>2, <4>1, <4>2, <4>3
    <3> QED BY <3>1, <3>3, <3>4
  <2>4. ASSUME NEW j \in DOMAIN stack', NEW k \in DOMAIN stack', j < k
        PROVE  age2[stack'[k].copy] < age2[stack'[j].copy]
    <3>1. k > 1 /\ k - 1 \in DOMAIN stack /\ stack'[k] = stack[k - 1] /\ stack[k - 1].copy \in DOMAIN node
      BY <1>17, <1>18, <1>23, <2>4
    <3>2. CASE j = 1
      BY <1>14, <1>16, <1>17, <3>1, <3>2
    <3>3. CASE j > 1
      <4>1. j - 1 \in DOMAIN stack /\ stack'[j] = stack[j - 1] /\ stack[j - 1].copy \in DOMAIN node
        BY <1>18, <1>23, <3>3
      <4>2. j - 1 < k - 1
        BY <1>17, <2>4
      <4>3. age[stack[k - 1].copy] < age[stack[j - 1].copy]
        BY <1>4, <3>1, <4>1, <4>2
      <4> QED BY <1>14, <3>1, <4>1, <4>3
    <3> QED BY <1>18, <3>2, <3>3
  <2> QED BY <1>11, <1>17, <2>1, <2>2, <2>3, <2>4 DEF ClonesOk
<1>25. stack'[Len(stack')] = stack[N]
  <2>1. N + 1 \in DOMAIN stack' /\ N + 1 > 1 /\ (N + 1) - 1 = N
    BY <1>3, <1>17
  <2> QED BY <1>17, <1>18, <2>1
<1>26. DestOk(age2)'
  <2>1. LET b == stack[N].copy
        IN  /\ dest.parent \in DOMAIN node /\ Placed(node, dest.parent)
            /\ node[dest.parent].type = "Folder"
            /\ node[b].parent = dest.parent /\ age[dest.parent] < age[b]
            /\ \A i \in DOMAIN node : ChildOf(node, i, dest.parent) =>
                 age[i] < age[b] /\ node[i].name # dest.name
    BY <1>2 DEF DestOk, N
  <2> DEFINE b == stack[N].copy
             q == dest.parent
  <2>2. b \in DOMAIN node
    BY <1>5, <1>23
  <2>3. q \in DOMAIN nd /\ Placed(nd, q) /\ nd[q].type = "Folder" /\ nd[b].parent = q
        /\ age2[q] < age2[b]
    BY <1>13, <1>14, <1>15, <2>1, <2>2 DEF Placed
  <2>4. \A i \in DOMAIN nd : ChildOf(nd, i, q) => age2[i] < age2[b] /\ nd[i].name # dest.name
    <3> SUFFICES ASSUME NEW i \in DOMAIN nd, ChildOf(nd, i, q)
                 PROVE  age2[i] < age2[b] /\ nd[i].name # dest.name
      OBVIOUS
    <3>1. ChildOf(node, i, q) /\ i \in DOMAIN node
      BY <1>20 DEF ChildOf
    <3>2. age[i] < age[b] /\ node[i].name # dest.name
      BY <2>1, <3>1
    <3> QED BY <1>13, <1>14, <2>2, <3>1, <3>2
  <2>5. dest' = dest
    BY <1>1
  <2> QED BY <1>11, <1>25, <2>3, <2>4, <2>5 DEF DestOk
<1>27. NamesCopied(age2)'
  <2>1. /\ \A k \in DOMAIN stack : k > 1 => node[stack[k - 1].copy].name = node[stack[k].child].name
        /\ \A k \in DOMAIN stack : stack[k].child # NULL =>
             \A i \in DOMAIN node : ChildOf(node, i, stack[k].copy) =>
               \E j \in DOMAIN node :
                 /\ ChildOf(node, j, node[stack[k].child].parent)
                 /\ age[j] < age[stack[k].child] /\ node[j].name = node[i].name
    BY <1>2 DEF NamesCopied
  <2>2. \A k \in DOMAIN stack : stack[k].child # NULL => stack[k].child \in DOMAIN node
    BY <1>4 DEF CopyOk
  <2>3. ASSUME NEW k \in DOMAIN stack', k > 1
        PROVE  nd[stack'[k - 1].copy].name = nd[stack'[k].child].name
    <3>1. /\ k - 1 \in DOMAIN stack /\ k - 1 \in DOMAIN stack' /\ stack'[k] = stack[k - 1]
          /\ k = 2 \/ k - 1 > 1
      BY <1>3, <1>17, <1>18, <2>3
    <3>2. CASE k = 2
      <4>1. stack'[k] = top /\ stack'[k - 1].copy = c
        BY <1>16, <1>17, <3>1, <3>2 DEF top
      <4> QED BY <1>6, <1>12, <1>13, <4>1 DEF n
    <3>3. CASE k - 1 > 1
      <4>1. stack'[k - 1] = stack[(k - 1) - 1] /\ (k - 1) - 1 \in DOMAIN stack
        BY <1>18, <3>1, <3>3
      <4>2. node[stack[(k - 1) - 1].copy].name = node[stack[k - 1].child].name
            /\ stack[k - 1].child # NULL
        BY <1>4, <2>1, <3>1, <3>3
      <4>3. stack[(k - 1) - 1].copy \in DOMAIN node /\ stack[k - 1].child \in DOMAIN node
        BY <1>23, <2>2, <3>1, <4>1, <4>2
      <4> QED BY <1>13, <3>1, <4>1, <4>2, <4>3
    <3> QED BY <3>1, <3>2, <3>3
  <2>4. ASSUME NEW k \in DOMAIN stack', stack'[k].child # NULL,
               NEW i \in DOMAIN nd, ChildOf(nd, i, stack'[k].copy)
        PROVE  \E j \in DOMAIN nd :
                 /\ ChildOf(nd, j, nd[stack'[k].child].parent)
                 /\ age2[j] < age2[stack'[k].child] /\ nd[j].name = nd[i].name
    <3>1. CASE k = 1
      BY <1>16, <1>17, <2>4, <3>1
    <3>2. CASE k > 1
      <4>1. k - 1 \in DOMAIN stack /\ stack'[k] = stack[k - 1]
        BY <1>18, <3>2
      <4>2. ChildOf(node, i, stack[k - 1].copy) /\ i \in DOMAIN node
        BY <1>20, <2>4, <4>1 DEF ChildOf
      <4>3. PICK j \in DOMAIN node :
                 /\ ChildOf(node, j, node[stack[k - 1].child].parent)
                 /\ age[j] < age[stack[k - 1].child] /\ node[j].name = node[i].name
        BY <2>1, <2>4, <4>1, <4>2
      <4>4. stack[k - 1].child \in DOMAIN node
        BY <2>2, <2>4, <4>1
      <4>5. j \in DOMAIN nd /\ ChildOf(nd, j, nd[stack[k - 1].child].parent)
        BY <1>13, <1>15, <1>21, <4>3, <4>4
      <4>6. age2[j] < age2[stack[k - 1].child] /\ nd[j].name = nd[i].name
        BY <1>13, <1>14, <4>2, <4>3, <4>4
      <4> QED BY <4>1, <4>5, <4>6
    <3> QED BY <1>18, <3>1, <3>2
  <2>5. \A k \in DOMAIN stack' : k > 1 =>
          node'[stack'[k - 1].copy].name = node'[stack'[k].child].name
    BY <1>11, <2>3
  <2>6. node' = nd
    BY <1>11
  <2>7. \A k \in DOMAIN stack' : stack'[k].child # NULL =>
          \A i \in DOMAIN node' : ChildOf(node', i, stack'[k].copy) =>
            \E j \in DOMAIN node' :
              /\ ChildOf(node', j, node'[stack'[k].child].parent)
              /\ age2[j] < age2[stack'[k].child] /\ node'[j].name = node'[i].name
    BY <2>4, <2>6
  <2> QED BY <2>5, <2>7 DEF NamesCopied
<1>28. /\ pc' = "clone" /\ wild' \in BOOLEAN /\ kept' \subseteq Ids
       /\ dest'.name \in ProperNames /\ current' \in DOMAIN node'
  BY <1>1, <1>2, <1>11, <1>15
<1>29. Inv'
  BY <1>14, <1>19, <1>24, <1>26, <1>27, <1>28, StaysCopying
<1>30. Distinct(node) => Distinct(node')
  BY <1>11, <1>13, <1>15 DEF Distinct
<1> QED BY <1>29, <1>30

\* The copy of a child is linked behind lastCopy, which is the last of its
\* list: no walk to the end is needed.
LEMMA CloneReturnsKeeps ==
  ASSUME NEW age \in [Ids -> Nat], IInv(age), CloneReturns
  PROVE  /\ Inv' /\ (Distinct(node) => Distinct(node'))
         /\ Linked(node, node', stack[2].copy, stack[2].lastCopy, stack[1].copy)
<1> DEFINE c == stack[1].copy
           up == stack[2]
           p == up.copy
           l == up.lastCopy
           m == up.child
           a == [up EXCEPT !.child = node[@].next, !.lastCopy = c]
           N == Len(stack)
<1>1. /\ Copying /\ Head(stack).child = NULL /\ Len(stack) > 1
      /\ node' = IF node[up.copy].first = NULL
                 THEN [node EXCEPT ![up.copy].first = Head(stack).copy]
                 ELSE [node EXCEPT ![up.lastCopy].next = Head(stack).copy]
      /\ stack' = <<[up EXCEPT !.child = node[@].next, !.lastCopy = Head(stack).copy]>>
                    \o SubSeq(stack, 3, Len(stack))
      /\ UNCHANGED <<current, pc, dest, kept, wild>>
  BY DEF CloneReturns
<1>2. /\ World(node, Copies, current, age) /\ Typed(node) /\ Forest(node, age)
      /\ RootOk(node) /\ Sizes(node) /\ Named(node)
      /\ pc = "clone" /\ kept \subseteq Ids /\ dest.name \in ProperNames /\ wild \in BOOLEAN
      /\ current \in DOMAIN node
      /\ stack \in Seq(Clones) /\ stack # <<>>
      /\ ClonesOk(age) /\ DestOk(age) /\ NamesCopied(age)
  BY <1>1, CopyTurn
<1>3. /\ N \in Nat /\ N > 1 /\ DOMAIN stack = 1 .. N /\ Head(stack) = stack[1]
      /\ \A k \in DOMAIN stack : stack[k] \in Clones
  BY <1>1, <1>2, Popped
<1>4. /\ \A k \in DOMAIN stack : CopyOk(node, stack[k])
      /\ \A k \in DOMAIN stack : k > 1 =>
           /\ node[stack[k - 1].copy].parent = stack[k].copy
           /\ stack[k].child # NULL
           /\ stack[k].lastCopy # NULL => age[stack[k].lastCopy] < age[stack[k - 1].copy]
      /\ \A j, k \in DOMAIN stack : j < k => age[stack[k].copy] < age[stack[j].copy]
  BY <1>2 DEF ClonesOk
<1>5. 1 \in DOMAIN stack /\ 2 \in DOMAIN stack /\ N \in DOMAIN stack /\ 2 > 1 /\ 2 - 1 = 1
  BY <1>3
<1>6. /\ c \in DOMAIN node /\ ~Placed(node, c) /\ p \in DOMAIN node /\ ~Placed(node, p)
      /\ m # NULL /\ m \in DOMAIN node /\ Pointed(node, m) /\ node[p].type = "Folder"
      /\ l = NULL <=> node[p].first = NULL
      /\ l # NULL => ChildOf(node, l, p) /\ node[l].next = NULL /\ age[l] < age[c]
      /\ node[c].parent = p /\ age[p] < age[c]
  <2>1. CopyOk(node, stack[1]) /\ CopyOk(node, up)
    BY <1>4, <1>5
  <2>2. m # NULL /\ node[c].parent = p /\ (l # NULL => age[l] < age[c])
    BY <1>4, <1>5
  <2>3. age[p] < age[c]
    BY <1>4, <1>5
  <2> QED BY <2>1, <2>2, <2>3 DEF CopyOk
<1>7. /\ DOMAIN node \subseteq Ids /\ NULL \notin DOMAIN node
      /\ \A i \in DOMAIN node : age[i] \in Nat
  BY <1>2, ForestPointers DEF Typed
<1>8. p # c /\ c # NULL /\ up \in Clones
  BY <1>3, <1>5, <1>6, <1>7
<1>9. node' = (IF node[p].first = NULL THEN WithFirst(node, p, c) ELSE WithNext(node, l, c))
      /\ stack' = <<a>> \o SubSeq(stack, 3, Len(stack))
  BY <1>1, <1>3 DEF WithFirst, WithNext
<1>10. a \in Clones /\ a.copy = p /\ a.child = node[m].next /\ a.lastCopy = c
  <2>1. node[m].next \in Ids \cup {NULL} /\ c \in Ids
    BY <1>2, <1>6, <1>7, Fields
  <2> HIDE DEF c
  <2> QED BY <1>8, <2>1 DEF Clones
<1> HIDE DEF c, p, l, m, a
<1>11. Typed(node') /\ Linked(node, node', p, l, c)
  <2>1. CASE node[p].first = NULL
    <3>1. node' = WithFirst(node, p, c)
      BY <1>9, <2>1
    <3>2. LET nd2 == WithFirst(node, p, c)
          IN  /\ Typed(nd2) /\ DOMAIN nd2 = DOMAIN node
              /\ \A i \in DOMAIN node :
                   /\ Same(node, nd2, i) /\ nd2[i].next = node[i].next
                   /\ nd2[i].first = IF i = p THEN c ELSE node[i].first
      <4>1. Typed(node) /\ c \in Ids /\ p \in DOMAIN node
        BY <1>2, <1>6, <1>7
      <4> QED BY <4>1, SetFirst
    <3>3. /\ Typed(node') /\ DOMAIN node' = DOMAIN node
          /\ \A i \in DOMAIN node :
               /\ Same(node, node', i) /\ node'[i].next = node[i].next
               /\ node'[i].first = IF i = p THEN c ELSE node[i].first
      BY <3>1, <3>2
    <3> QED BY <2>1, <3>3 DEF Linked
  <2>2. CASE node[p].first # NULL
    <3>1. node' = WithNext(node, l, c) /\ l \in DOMAIN node
      BY <1>6, <1>9, <2>2 DEF ChildOf
    <3>2. LET nd2 == WithNext(node, l, c)
          IN  /\ Typed(nd2) /\ DOMAIN nd2 = DOMAIN node
              /\ \A i \in DOMAIN node :
                   /\ Same(node, nd2, i) /\ nd2[i].first = node[i].first
                   /\ nd2[i].next = IF i = l THEN c ELSE node[i].next
      <4>1. Typed(node) /\ c \in Ids /\ l \in DOMAIN node
        BY <1>2, <1>6, <1>7, <3>1
      <4> QED BY <4>1, SetNext
    <3>3. /\ Typed(node') /\ DOMAIN node' = DOMAIN node
          /\ \A i \in DOMAIN node :
               /\ Same(node, node', i) /\ node'[i].first = node[i].first
               /\ node'[i].next = IF i = l THEN c ELSE node[i].next
      BY <3>1, <3>2
    <3> QED BY <2>2, <3>3 DEF Linked
  <2> QED BY <2>1, <2>2
<1>12. /\ World(node', Copies \ {c}, current, age)
       /\ \A i \in DOMAIN node' : Pointed(node', i) <=> Pointed(node, i) \/ i = c
  <2>1. p \in Copies
    BY <1>2, <1>5 DEF Copies, p
  <2>2. World(node, Copies, current, age) /\ Typed(node') /\ Linked(node, node', p, l, c)
    BY <1>2, <1>11
  <2>3. /\ c \in DOMAIN node /\ p \in DOMAIN node /\ node[p].type = "Folder"
        /\ node[c].parent = p /\ ~Placed(node, c) /\ age[p] < age[c]
    BY <1>6
  <2>4. node[p].first # NULL => ChildOf(node, l, p) /\ node[l].next = NULL /\ age[l] < age[c]
    BY <1>6
  <2> QED BY <2>1, <2>2, <2>3, <2>4, LinkWorld
<1>13. /\ DOMAIN node' = DOMAIN node
       /\ \A i \in DOMAIN node : /\ node'[i].parent = node[i].parent
                                 /\ node'[i].type = node[i].type /\ node'[i].name = node[i].name
       /\ \A i \in DOMAIN node :
            node'[i].first = IF i = p /\ node[p].first = NULL THEN c ELSE node[i].first
       /\ \A i \in DOMAIN node :
            node'[i].next = IF i = l /\ node[p].first # NULL THEN c ELSE node[i].next
  BY <1>11 DEF Linked, Same
<1> HIDE DEF up, N
<1>14. /\ stack' \in Seq(Clones) /\ Len(stack') = N - 1 /\ DOMAIN stack' = 1 .. N - 1
       /\ stack'[1] = a
       /\ \A k \in 1 .. N - 1 : k > 1 => stack'[k] = stack[k + 1]
  BY <1>1, <1>2, <1>9, <1>10, Returned DEF N
<1>15. /\ \A k \in DOMAIN stack' : k + 1 \in DOMAIN stack /\ k + 1 > 1 /\ (k + 1) - 1 = k
                                   /\ stack'[k].copy = stack[k + 1].copy
       /\ \A k \in DOMAIN stack' : k = 1 \/ k > 1
       /\ 1 \in DOMAIN stack'
  <2>1. \A k \in DOMAIN stack' : k + 1 \in DOMAIN stack /\ k + 1 > 1 /\ (k + 1) - 1 = k
                                 /\ (k = 1 \/ k > 1)
    BY <1>3, <1>14
  <2>2. 1 \in DOMAIN stack' /\ 1 + 1 = 2
    BY <1>3, <1>14
  <2>3. \A k \in DOMAIN stack' : stack'[k].copy = stack[k + 1].copy
    BY <1>10, <1>14, <2>1, <2>2 DEF p, up
  <2> QED BY <2>1, <2>2, <2>3
<1>16. \A k \in DOMAIN stack : stack[k].copy \in DOMAIN node /\ ~Placed(node, stack[k].copy)
  BY <1>4 DEF CopyOk
<1>17. \A k \in DOMAIN stack : k > 1 => stack[k].copy # c
  <2> SUFFICES ASSUME NEW k \in DOMAIN stack, k > 1 PROVE stack[k].copy # c
    OBVIOUS
  <2>1. age[stack[k].copy] < age[c]
    BY <1>4, <1>5 DEF c
  <2> QED BY <1>6, <1>7, <2>1
<1>18. \A k \in DOMAIN stack : k > 2 => stack[k].copy # p
  <2> SUFFICES ASSUME NEW k \in DOMAIN stack, k > 2 PROVE stack[k].copy # p
    OBVIOUS
  <2>1. age[stack[k].copy] < age[p]
    BY <1>4, <1>5 DEF p, up
  <2> QED BY <1>6, <1>7, <2>1
<1>19. World(node', Copies', current', age)
  <2>1. Copies \ {c} \subseteq Copies'
    <3> SUFFICES ASSUME NEW x \in Copies, x # c PROVE x \in Copies'
      OBVIOUS
    <3>1. PICK k \in DOMAIN stack : x = stack[k].copy
      BY <1>2 DEF Copies
    <3>2. k # 1
      BY <3>1 DEF c
    <3>3. k - 1 \in DOMAIN stack' /\ (k - 1) + 1 = k
      BY <1>3, <1>14, <3>1, <3>2
    <3>4. stack'[k - 1].copy = x
      BY <1>15, <3>1, <3>3
    <3> QED BY <1>1, <1>2, <3>3, <3>4 DEF Copies
  <2>2. World(node', Copies', current, age)
    BY <1>12, <2>1, MoreLoose
  <2> QED BY <1>1, <2>2
<1>20. \A i \in DOMAIN node : \A q : ChildOf(node, i, q) => ChildOf(node', i, q)
  BY <1>12, <1>13 DEF ChildOf
<1>21. \A i \in DOMAIN node : \A q : ChildOf(node', i, q) => ChildOf(node, i, q) \/ (i = c /\ q = p)
  BY <1>6, <1>12, <1>13 DEF ChildOf
<1>22. node[c].next = NULL /\ ~Pointed(node, c) /\ c # l
  <2>1. ~Pointed(node, c)
    BY <1>6 DEF Placed
  <2>2. node[c].next = NULL
    BY <1>2, <1>6, <2>1, LooseHasNoNext
  <2>3. c # l
    BY <1>6, <1>8, <2>1 DEF ChildOf
  <2> QED BY <2>1, <2>2, <2>3
<1>23. \A k \in DOMAIN stack' : ~Placed(node', stack'[k].copy) /\ stack'[k].copy \in DOMAIN node'
  BY <1>12, <1>13, <1>15, <1>16, <1>17 DEF Placed
<1>24. node[m].next # NULL =>
         /\ node[m].next \in DOMAIN node /\ Pointed(node, node[m].next)
         /\ node[node[m].next].parent = node[m].parent /\ age[m] < age[node[m].next]
  BY <1>2, <1>6 DEF Forest, NextOk, Pointed
<1>25. CopyOk(node', a)
  <2>1. a.copy \in DOMAIN node' /\ ~Placed(node', a.copy)
    BY <1>14, <1>15, <1>23
  <2>2. a.child # NULL => a.child \in DOMAIN node' /\ Pointed(node', a.child)
    BY <1>10, <1>12, <1>13, <1>24
  <2>3. node'[a.copy].type = "Folder"
    BY <1>6, <1>10, <1>13
  <2>4. a.lastCopy # NULL /\ node'[a.copy].first # NULL
    BY <1>6, <1>8, <1>10, <1>13
  <2>5. ChildOf(node', a.lastCopy, a.copy) /\ node'[a.lastCopy].next = NULL
    BY <1>6, <1>10, <1>12, <1>13, <1>22 DEF ChildOf
  <2> QED BY <2>1, <2>2, <2>3, <2>4, <2>5 DEF CopyOk
<1>26. ClonesOk(age)'
  <2>1. stack' # <<>>
    <3>1. N - 1 # 0
      BY <1>3
    <3> QED BY <1>14, <3>1, EmptySeq
  <2>2. ASSUME NEW k \in DOMAIN stack' PROVE CopyOk(node', stack'[k])
    <3>1. CASE k = 1
      BY <1>14, <1>25, <3>1
    <3>2. CASE k > 1
      <4> DEFINE b == stack[k + 1]
      <4>1. stack'[k] = b /\ k + 1 \in DOMAIN stack /\ k + 1 > 2
        BY <1>14, <1>15, <3>2
      <4>2. CopyOk(node, b) /\ b.copy # p
        BY <1>4, <1>18, <4>1
      <4>3. ~Placed(node', b.copy) /\ b.copy \in DOMAIN node'
        BY <1>23, <4>1
      <4> HIDE DEF b
      <4>4. b.child # NULL => b.child \in DOMAIN node' /\ Pointed(node', b.child)
        BY <1>12, <1>13, <4>2 DEF CopyOk
      <4>5. node'[b.copy].type = node[b.copy].type /\ node'[b.copy].first = node[b.copy].first
        BY <1>13, <4>2, <4>3
      <4>6. b.lastCopy # NULL => ChildOf(node', b.lastCopy, b.copy) /\ node'[b.lastCopy].next = NULL
        <5> SUFFICES ASSUME b.lastCopy # NULL
                     PROVE  ChildOf(node', b.lastCopy, b.copy) /\ node'[b.lastCopy].next = NULL
          OBVIOUS
        <5>1. ChildOf(node, b.lastCopy, b.copy) /\ node[b.lastCopy].next = NULL
          BY <4>2 DEF CopyOk
        <5>2. b.lastCopy # l \/ node[p].first = NULL
          BY <1>6, <4>2, <5>1 DEF ChildOf
        <5>3. b.lastCopy \in DOMAIN node
          BY <5>1 DEF ChildOf
        <5> QED BY <1>13, <1>20, <5>1, <5>2, <5>3
      <4>7. CopyOk(node', b)
        BY <4>2, <4>3, <4>4, <4>5, <4>6 DEF CopyOk
      <4> QED BY <4>1, <4>7
    <3> QED BY <1>15, <3>1, <3>2
  <2>3. ASSUME NEW k \in DOMAIN stack', k > 1
        PROVE  /\ node'[stack'[k - 1].copy].parent = stack'[k].copy
               /\ stack'[k].child # NULL
               /\ stack'[k].lastCopy # NULL => age[stack'[k].lastCopy] < age[stack'[k - 1].copy]
    <3>1. k - 1 \in DOMAIN stack' /\ (k - 1) + 1 = k /\ k \in DOMAIN stack
      BY <1>3, <1>14, <2>3
    <3>2. stack'[k] = stack[k + 1] /\ stack'[k - 1].copy = stack[k].copy
      BY <1>14, <1>15, <2>3, <3>1
    <3>3. k + 1 \in DOMAIN stack /\ k + 1 > 1 /\ (k + 1) - 1 = k
      BY <1>15
    <3>4. /\ node[stack[k].copy].parent = stack[k + 1].copy
          /\ stack[k + 1].child # NULL
          /\ stack[k + 1].lastCopy # NULL => age[stack[k + 1].lastCopy] < age[stack[k].copy]
      BY <1>4, <3>3
    <3> QED BY <1>13, <1>16, <3>1, <3>2, <3>4
  <2>4. ASSUME NEW j \in DOMAIN stack', NEW k \in DOMAIN stack', j < k
        PROVE  age[stack'[k].copy] < age[stack'[j].copy]
    <3>1. j + 1 \in DOMAIN stack /\ k + 1 \in DOMAIN stack /\ j + 1 < k + 1
      BY <1>14, <1>15, <2>4
    <3> QED BY <1>4, <1>15, <3>1
  <2> QED BY <1>14, <2>1, <2>2, <2>3, <2>4 DEF ClonesOk
<1>27. DestOk(age)'
  <2> DEFINE b == stack[N].copy
             q == dest.parent
  <2>1. /\ q \in DOMAIN node /\ Placed(node, q)
        /\ node[q].type = "Folder" /\ node[b].parent = q /\ age[q] < age[b]
        /\ \A i \in DOMAIN node : ChildOf(node, i, q) => age[i] < age[b] /\ node[i].name # dest.name
    BY <1>2 DEF DestOk, N
  <2>2. b \in DOMAIN node
    BY <1>5, <1>16
  <2>3. stack'[Len(stack')].copy = b
    <3>1. N - 1 \in DOMAIN stack' /\ (N - 1) + 1 = N
      BY <1>3, <1>14
    <3> QED BY <1>14, <1>15, <3>1
  <2>4. dest' = dest
    BY <1>1
  <2>5. q # p
    BY <1>6, <2>1
  <2> HIDE DEF b, q
  <2>6. q \in DOMAIN node' /\ Placed(node', q) /\ node'[q].type = "Folder" /\ node'[b].parent = q
    BY <1>12, <1>13, <2>1, <2>2 DEF Placed
  <2>7. \A i \in DOMAIN node' : ChildOf(node', i, q) => age[i] < age[b] /\ node'[i].name # dest.name
    BY <1>13, <1>21, <2>1, <2>5
  <2> QED BY <2>1, <2>3, <2>4, <2>6, <2>7 DEF DestOk, q
<1>28. /\ \A k \in DOMAIN stack : k > 1 => node[stack[k - 1].copy].name = node[stack[k].child].name
       /\ \A k \in DOMAIN stack : stack[k].child # NULL =>
            \A i \in DOMAIN node : ChildOf(node, i, stack[k].copy) =>
              \E j \in DOMAIN node :
                /\ ChildOf(node, j, node[stack[k].child].parent)
                /\ age[j] < age[stack[k].child] /\ node[j].name = node[i].name
  BY <1>2 DEF NamesCopied
<1>29. /\ node[c].name = node[m].name
       /\ \A i \in DOMAIN node : ChildOf(node, i, p) =>
            \E j \in DOMAIN node : /\ ChildOf(node, j, node[m].parent)
                                   /\ age[j] < age[m] /\ node[j].name = node[i].name
  <2>1. node[c].name = node[m].name
    BY <1>5, <1>28 DEF c, m, up
  <2>2. \A i \in DOMAIN node : ChildOf(node, i, p) =>
          \E j \in DOMAIN node : /\ ChildOf(node, j, node[m].parent)
                                 /\ age[j] < age[m] /\ node[j].name = node[i].name
    BY <1>5, <1>6, <1>28 DEF m, p, up
  <2> QED BY <2>1, <2>2
<1>30. NamesCopied(age)'
  <2>1. ASSUME NEW k \in DOMAIN stack', k > 1
        PROVE  node'[stack'[k - 1].copy].name = node'[stack'[k].child].name
    <3>1. k - 1 \in DOMAIN stack' /\ (k - 1) + 1 = k /\ k \in DOMAIN stack
      BY <1>3, <1>14, <2>1
    <3>2. stack'[k] = stack[k + 1] /\ stack'[k - 1].copy = stack[k].copy
      BY <1>14, <1>15, <2>1, <3>1
    <3>3. k + 1 \in DOMAIN stack /\ k + 1 > 1 /\ (k + 1) - 1 = k
      BY <1>15
    <3>4. node[stack[k].copy].name = node[stack[k + 1].child].name
      BY <1>28, <3>3
    <3>5. stack[k + 1].child \in DOMAIN node /\ stack[k].copy \in DOMAIN node
      BY <1>4, <1>16, <3>1, <3>3 DEF CopyOk
    <3> QED BY <1>13, <3>2, <3>4, <3>5
  <2>2. ASSUME NEW k \in DOMAIN stack', stack'[k].child # NULL,
               NEW i \in DOMAIN node', ChildOf(node', i, stack'[k].copy)
        PROVE  \E j \in DOMAIN node' :
                 /\ ChildOf(node', j, node'[stack'[k].child].parent)
                 /\ age[j] < age[stack'[k].child] /\ node'[j].name = node'[i].name
    <3>1. CASE k = 1
      <4> DEFINE ch == node[m].next
      <4>1. stack'[k].copy = p /\ stack'[k].child = ch /\ ch # NULL
        BY <1>10, <1>14, <2>2, <3>1
      <4>2. ch \in DOMAIN node /\ node[ch].parent = node[m].parent /\ age[m] < age[ch]
        BY <1>24, <4>1
      <4> HIDE DEF ch
      <4>3. ChildOf(node, i, p) \/ i = c
        BY <1>13, <1>21, <2>2, <4>1
      <4>4. PICK j \in DOMAIN node : /\ ChildOf(node, j, node[m].parent)
                                     /\ j = m \/ age[j] < age[m]
                                     /\ node[j].name = node[i].name
        <5>1. CASE ChildOf(node, i, p)
          BY <1>13, <1>29, <5>1
        <5>2. CASE i = c
          <6>1. ChildOf(node, m, node[m].parent)
            BY <1>6 DEF ChildOf
          <6> QED BY <1>6, <1>29, <5>2, <6>1
        <5> QED BY <4>3, <5>1, <5>2
      <4>5. age[j] < age[ch]
        <5>1. age[j] \in Nat /\ age[m] \in Nat /\ age[ch] \in Nat
          BY <1>6, <1>7, <4>2, <4>4
        <5> QED BY <4>2, <4>4, <5>1
      <4>6. ChildOf(node', j, node'[ch].parent)
        BY <1>13, <1>20, <4>2, <4>4
      <4>7. node'[j].name = node'[i].name
        BY <1>13, <4>4
      <4> QED BY <1>13, <4>1, <4>5, <4>6, <4>7
    <3>2. CASE k > 1
      <4>1. stack'[k] = stack[k + 1] /\ k + 1 \in DOMAIN stack /\ k + 1 > 2
        BY <1>14, <1>15, <3>2
      <4>2. stack[k + 1].copy # p
        BY <1>18, <4>1
      <4>3. ChildOf(node, i, stack[k + 1].copy)
        BY <1>13, <1>21, <2>2, <4>1, <4>2
      <4>4. PICK j \in DOMAIN node :
                 /\ ChildOf(node, j, node[stack[k + 1].child].parent)
                 /\ age[j] < age[stack[k + 1].child] /\ node[j].name = node[i].name
        BY <1>13, <1>28, <2>2, <4>1, <4>3
      <4>5. stack[k + 1].child \in DOMAIN node
        BY <1>4, <2>2, <4>1 DEF CopyOk
      <4>6. ChildOf(node', j, node'[stack[k + 1].child].parent)
        BY <1>13, <1>20, <4>4, <4>5
      <4> QED BY <1>13, <4>1, <4>4, <4>6
    <3> QED BY <1>15, <3>1, <3>2
  <2> QED BY <2>1, <2>2 DEF NamesCopied
<1>31. /\ pc' = "clone" /\ wild' \in BOOLEAN /\ kept' \subseteq Ids
       /\ dest'.name \in ProperNames /\ current' \in DOMAIN node'
  BY <1>1, <1>2, <1>13
<1>32. Inv'
  BY <1>19, <1>26, <1>27, <1>30, <1>31, StaysCopying
<1>33. ASSUME Distinct(node) PROVE Distinct(node')
  <2>1. ASSUME NEW i \in DOMAIN node, ChildOf(node, i, p) PROVE node[i].name # node[c].name
    <3>1. PICK j \in DOMAIN node : /\ ChildOf(node, j, node[m].parent)
                                   /\ age[j] < age[m] /\ node[j].name = node[i].name
      BY <1>29, <2>1
    <3>2. j # m
      BY <1>6, <1>7, <3>1
    <3>3. node[j].name # node[m].name
      BY <1>6, <1>33, <3>1, <3>2 DEF Distinct, ChildOf
    <3> QED BY <1>29, <3>1, <3>3
  <2>2. c \in DOMAIN node /\ node[c].parent = p /\ Linked(node, node', p, l, c)
    BY <1>6, <1>11
  <2>3. \A i \in DOMAIN node' : Pointed(node', i) <=> Pointed(node, i) \/ i = c
    BY <1>12
  <2> QED BY <1>33, <2>1, <2>2, <2>3, LinkKeepsDistinct
<1> QED BY <1>11, <1>32, <1>33 DEF c, p, l, up

\* nd2 is nd with c, by a new name, behind the children of p.
PutInto(nd, nd2, p, name, c) ==
  /\ DOMAIN nd2 = DOMAIN nd
  /\ \A i \in DOMAIN nd :
       /\ nd2[i].type = nd[i].type /\ nd2[i].size = nd[i].size /\ nd2[i].parent = nd[i].parent
       /\ nd2[i].name = IF i = c THEN name ELSE nd[i].name
       /\ i # p => nd2[i].first = nd[i].first
       /\ ~ChildOf(nd, i, p) => nd2[i].next = nd[i].next
       /\ ChildOf(nd2, i, p) <=> ChildOf(nd, i, p) \/ i = c

\* The copy is complete and is put in its place.
LEMMA CopyDoneKeeps ==
  ASSUME NEW age \in [Ids -> Nat], IInv(age), CopyDone
  PROVE  /\ Inv' /\ (Distinct(node) => Distinct(node'))
         /\ PutInto(node, node', dest.parent, dest.name, stack[1].copy)
<1> DEFINE c == stack[1].copy
           p == dest.parent
           r == [node[c] EXCEPT !.name = dest.name]
           nd == WithNode(node, c, r)
<1>1. /\ Copying /\ Len(stack) = 1
      /\ node' = AppendChild([node EXCEPT ![Head(stack).copy].name = dest.name],
                             dest.parent, Head(stack).copy)
      /\ pc' = "idle" /\ stack' = <<>> /\ dest' = NoParent
      /\ UNCHANGED <<current, kept, wild>>
  BY DEF CopyDone
<1>2. /\ World(node, Copies, current, age) /\ Typed(node) /\ Forest(node, age)
      /\ RootOk(node) /\ Sizes(node) /\ Named(node)
      /\ pc = "clone" /\ kept \subseteq Ids /\ dest.name \in ProperNames /\ wild \in BOOLEAN
      /\ stack \in Seq(Clones) /\ stack # <<>>
      /\ ClonesOk(age) /\ DestOk(age)
  BY <1>1, CopyTurn
<1>3. DOMAIN stack = {1} /\ Head(stack) = stack[1]
  <2>1. DOMAIN stack = 1 .. Len(stack) /\ Head(stack) = stack[1]
    BY <1>2, Popped
  <2> QED BY <1>1, <2>1
<1>4. c \in DOMAIN node /\ ~Placed(node, c)
  BY <1>2, <1>3 DEF ClonesOk, CopyOk
<1>5. /\ p \in DOMAIN node /\ Placed(node, p) /\ node[p].type = "Folder"
      /\ node[c].parent = p /\ age[p] < age[c]
      /\ \A i \in DOMAIN node : ChildOf(node, i, p) => age[i] < age[c] /\ node[i].name # dest.name
  BY <1>1, <1>2 DEF DestOk
<1>6. Copies = {c}
  BY <1>2, <1>3 DEF Copies
<1>7. node' = AppendChild([node EXCEPT ![c].name = dest.name], p, c)
  BY <1>1, <1>3
<1> HIDE DEF c, p
<1>8. node[c] \in Node
  BY <1>2, <1>4, Fields
<1>9. /\ r \in Node /\ r.name = dest.name /\ r.name \in ProperNames
      /\ r.data = node[c].data /\ r.size = node[c].size
      /\ r.parent = node[c].parent /\ r.type = node[c].type
      /\ r.first = node[c].first /\ r.next = node[c].next
  BY <1>2, <1>8 DEF Node, ProperNames
<1>10. [node EXCEPT ![c].name = dest.name] = nd
  BY <1>2, <1>4 DEF WithNode, Typed
<1>11. r.data # NoData => r.size = r.data
  BY <1>2, <1>4, <1>9 DEF Sizes
<1> HIDE DEF r
<1>12. /\ World(nd, {c}, current, age)
       /\ DOMAIN nd = DOMAIN node /\ nd[c] = r
       /\ \A i \in DOMAIN node : i # c => nd[i] = node[i]
       /\ \A i \in DOMAIN node : Pointed(nd, i) <=> Pointed(node, i)
  <2>1. World(node, {c}, current, age)
    BY <1>2, <1>6
  <2> QED BY <1>4, <1>9, <1>11, <2>1, RelabelNode
<1> HIDE DEF nd
<1>13. /\ c \in DOMAIN nd /\ p \in DOMAIN nd /\ nd[c].parent = p /\ nd[c].name = dest.name
       /\ ~Placed(nd, c) /\ Placed(nd, p) /\ p # c /\ nd[p].type = "Folder"
  <2>1. p # c
    BY <1>4, <1>5
  <2>2. nd[c].parent = p /\ nd[c].name = dest.name /\ nd[p].type = "Folder"
    BY <1>5, <1>9, <1>12, <2>1
  <2>3. ~Placed(nd, c) /\ Placed(nd, p)
    BY <1>4, <1>5, <1>12 DEF Placed
  <2> QED BY <1>4, <1>5, <1>12, <2>1, <2>2, <2>3
<1>14. Typed(nd) /\ Forest(nd, age)
  BY <1>12 DEF World
<1>15. node' = AppendChild(nd, p, c)
  BY <1>7, <1>10
<1>16. Typed(node') /\ \E l \in Ids \cup {NULL} :
         /\ Linked(nd, node', p, l, c)
         /\ nd[p].first # NULL => ChildOf(nd, l, p) /\ nd[l].next = NULL
  BY <1>13, <1>14, <1>15, AppendLinks
<1>17. PICK l \in Ids \cup {NULL} :
         /\ Linked(nd, node', p, l, c)
         /\ nd[p].first # NULL => ChildOf(nd, l, p) /\ nd[l].next = NULL
  BY <1>16
<1>18. \A i \in DOMAIN nd : ChildOf(nd, i, p) =>
         i \in DOMAIN node /\ i # c /\ ChildOf(node, i, p)
  BY <1>12, <1>13 DEF ChildOf, Placed
<1>19. nd[p].first # NULL => ChildOf(nd, l, p) /\ nd[l].next = NULL /\ age[l] < age[c]
  BY <1>5, <1>17, <1>18 DEF ChildOf
<1>20. /\ World(node', {c} \ {c}, current, age)
       /\ \A i \in DOMAIN node' : Pointed(node', i) <=> Pointed(nd, i) \/ i = c
  <2>1. World(nd, {c}, current, age) /\ Typed(node') /\ Linked(nd, node', p, l, c)
    BY <1>12, <1>16, <1>17
  <2>2. age[p] < age[c]
    BY <1>5
  <2> QED BY <1>13, <1>19, <2>1, <2>2, LinkWorld
<1>21. /\ World(node', {}, current', age) /\ pc' = "idle" /\ stack' = <<>>
       /\ wild' \in BOOLEAN /\ kept' \subseteq Ids /\ dest'.name \in ProperNames
  <2>1. {c} \ {c} = {}
    OBVIOUS
  <2>2. World(node', {}, current', age)
    BY <1>1, <1>20, <2>1
  <2>3. dest'.name \in ProperNames
    BY <1>1, RootNode DEF NoParent
  <2> QED BY <1>1, <1>2, <2>2, <2>3
<1>22. Inv'
  <2>1. IInv(age)'
    BY <1>21, Settled
  <2> QED BY <2>1 DEF Inv
<1>23. ASSUME Distinct(node) PROVE Distinct(node')
  <2>1. Distinct(nd)
    <3>1. \A i \in DOMAIN nd : Pointed(nd, i) => i \in DOMAIN node /\ Pointed(node, i) /\ nd[i] = node[i]
      BY <1>12, <1>13 DEF Placed
    <3> QED BY <1>23, <3>1 DEF Distinct
  <2>2. \A i \in DOMAIN nd : ChildOf(nd, i, p) => nd[i].name # nd[c].name
    BY <1>5, <1>12, <1>13, <1>18
  <2>3. Linked(nd, node', p, l, c) /\ c \in DOMAIN nd /\ nd[c].parent = p
    BY <1>13, <1>17
  <2> QED BY <1>20, <2>1, <2>2, <2>3, LinkKeepsDistinct
<1>24. PutInto(node, node', p, dest.name, c)
  <2>1. /\ DOMAIN nd = DOMAIN node /\ nd[c].name = dest.name /\ nd[c].first = node[c].first
        /\ nd[c].next = node[c].next /\ nd[c].type = node[c].type /\ nd[c].size = node[c].size
        /\ nd[c].parent = p /\ node[c].parent = p
        /\ \A i \in DOMAIN node : i # c => nd[i] = node[i]
    BY <1>5, <1>9, <1>12, <1>13
  <2>2. /\ DOMAIN node' = DOMAIN nd
        /\ \A i \in DOMAIN nd : Same(nd, node', i)
        /\ \A i \in DOMAIN nd :
             node'[i].first = IF i = p /\ nd[p].first = NULL THEN c ELSE nd[i].first
        /\ \A i \in DOMAIN nd :
             node'[i].next = IF i = l /\ nd[p].first # NULL THEN c ELSE nd[i].next
    BY <1>17 DEF Linked
  <2>3. \A i \in DOMAIN node :
          /\ node'[i].type = node[i].type /\ node'[i].size = node[i].size
          /\ node'[i].parent = node[i].parent
          /\ node'[i].name = (IF i = c THEN dest.name ELSE node[i].name)
    BY <2>1, <2>2 DEF Same
  <2>4. \A i \in DOMAIN node : i # p => node'[i].first = node[i].first
    BY <2>1, <2>2
  <2>5. \A i \in DOMAIN node : ~ChildOf(node, i, p) => node'[i].next = node[i].next
    BY <1>17, <1>18, <2>1, <2>2
  <2>6. \A i \in DOMAIN node : ChildOf(node', i, p) <=> ChildOf(node, i, p) \/ i = c
    BY <1>12, <1>20, <2>1, <2>2, <2>3 DEF ChildOf
  <2> QED BY <2>1, <2>2, <2>3, <2>4, <2>5, <2>6 DEF PutInto
<1> QED BY <1>22, <1>23, <1>24 DEF c, p

-----------------------------------------------------------------------------
(* All steps. *)

\* The invariant holds at first.
LEMMA InitInv == Init => Inv
<1> SUFFICES ASSUME Init PROVE Inv
  OBVIOUS
<1>1. /\ node = NewTree /\ current = Root /\ pc = "idle" /\ stack = <<>> /\ dest = NoParent
      /\ kept = {} /\ wild = FALSE
  BY DEF Init
<1>2. PICK age : age = [i \in Ids |-> 0]
  OBVIOUS
<1>3. age \in [Ids -> Nat]
  BY <1>2
<1>4. Control
  BY <1>1, RootNode DEF Control, NoParent
<1>5. World(node, Copies, current, age)
  <2>1. Copies = {}
    BY <1>1 DEF Copies
  <2>2. World(node, {}, current, age)
    BY <1>1, <1>3, NewTreeWorld
  <2> QED BY <2>1, <2>2
<1>6. DestroyOk(age) /\ Removing /\ ClonesOk(age) /\ DestOk(age) /\ NamesCopied(age)
  BY <1>1 DEF DestroyOk, Removing, ClonesOk, DestOk, NamesCopied
<1> QED BY <1>3, <1>4, <1>5, <1>6 DEF Inv, IInv

\* Where the model stays, so does the invariant.
LEMMA StutterKeeps ==
  ASSUME Inv, UNCHANGED vars
  PROVE  Inv' /\ (Distinct(node) => Distinct(node'))
<1>1. PICK age \in [Ids -> Nat] : IInv(age)
  BY DEF Inv
<1>2. /\ node' = node /\ current' = current /\ pc' = pc /\ stack' = stack /\ dest' = dest
      /\ kept' = kept /\ wild' = wild
  BY DEF vars
<1>3. Control' /\ DestroyOk(age)' /\ Removing' /\ ClonesOk(age)' /\ DestOk(age)' /\ NamesCopied(age)'
  BY <1>1, <1>2 DEF IInv, Control, DestroyOk, Removing, ClonesOk, DestOk, NamesCopied
<1>4. World(node', Copies', current', age)
  BY <1>1, <1>2 DEF IInv, Copies
<1> QED BY <1>2, <1>3, <1>4 DEF Inv, IInv

\* Every step keeps the invariant, and every step but rename keeps the names of
\* a list apart.
LEMMA NextInv ==
  ASSUME Inv, [Next]_vars
  PROVE  Inv' /\ (Distinct(node) => Distinct(node') \/ Renaming)
<1>1. PICK age \in [Ids -> Nat] : IInv(age)
  BY DEF Inv
<1> DEFINE Good == Inv' /\ (Distinct(node) => Distinct(node') \/ Renaming)
<1>2. ASSUME NEW path \in Paths, NEW t \in Types, MakeNode(path, t) PROVE Good
  BY <1>1, <1>2, MakeNodeKeeps
<1>3. ASSUME NEW path \in Paths, MakeNodeWithoutMemory(path) PROVE Good
  BY <1>3, WildKeeps DEF MakeNodeWithoutMemory
<1>4. ASSUME NEW path \in Paths, Cd(path) PROVE Good
  BY <1>1, <1>4, CdKeeps
<1>5. ASSUME NEW path \in Paths, NEW l \in Lengths, AppendTo(path, l) PROVE Good
  BY <1>1, <1>5, AppendToKeeps
<1>6. ASSUME NEW path \in Paths, NEW l \in Lengths, NEW ok \in BOOLEAN, Overwrite(path, l, ok)
      PROVE  Good
  BY <1>1, <1>6, OverwriteKeeps
<1>7. ASSUME NEW path \in Paths, RemoveOne(path) PROVE Good
  BY <1>1, <1>7, RemoveOneKeeps
<1>8. ASSUME NEW path \in Paths, RemoveRoot(path) PROVE Good
  BY <1>8, WildKeeps DEF RemoveRoot
<1>9. ASSUME NEW path \in Paths, RemoveTree(path) PROVE Good
  BY <1>1, <1>9, RemoveTreeKeeps
<1>10. ASSUME NEW path \in Paths, NEW to \in Paths, CopyWithoutMemory(path, to) PROVE Good
  BY <1>10, WildKeeps DEF CopyWithoutMemory
<1>11. ASSUME NEW path \in Paths, NEW to \in Paths, NEW ok \in BOOLEAN, Copy(path, to, ok)
       PROVE  Good
  BY <1>1, <1>11, CopyKeeps
<1>12. ASSUME Command PROVE Good
  <2> HIDE DEF Good
  <2> QED BY <1>2, <1>3, <1>4, <1>5, <1>6, <1>7, <1>8, <1>9, <1>10, <1>11, <1>12 DEF Command
<1>13. ASSUME Renaming PROVE Good
  <2>1. ASSUME NEW path \in Paths, NEW name \in NewNames, Rename(path, name) PROVE Inv'
    BY <1>1, <2>1, RenameKeeps
  <2>2. ASSUME NEW path \in Paths, NEW name \in LongNames, RenameTooLong(path, name) PROVE Inv'
    BY <2>2, WildKeeps DEF RenameTooLong
  <2>3. Inv'
    BY <1>13, <2>1, <2>2 DEF Renaming
  <2> QED BY <1>13, <2>3
<1>14. ASSUME Running PROVE Good
  <2>1. CASE DestroyFile
    BY <1>1, <2>1, DestroyFileKeeps
  <2>2. CASE EnterFolder
    BY <1>1, <2>2, EnterFolderKeeps
  <2>3. CASE DestroyFolder
    BY <1>1, <2>3, DestroyFolderKeeps
  <2>4. CASE DestroyRoot
    BY <2>4, WildKeeps DEF DestroyRoot
  <2>5. ASSUME NEW ok \in BOOLEAN, CloneChild(ok) PROVE Good
    BY <1>1, <2>5, CloneChildKeeps
  <2>6. CASE CloneWithoutMemory
    BY <2>6, WildKeeps DEF CloneWithoutMemory
  <2>7. CASE CloneReturns
    BY <1>1, <2>7, CloneReturnsKeeps
  <2>8. CASE CopyDone
    BY <1>1, <2>8, CopyDoneKeeps
  <2> HIDE DEF Good
  <2> QED BY <1>14, <2>1, <2>2, <2>3, <2>4, <2>5, <2>6, <2>7, <2>8 DEF Running
<1>15. ASSUME UNCHANGED vars PROVE Good
  BY <1>15, StutterKeeps
<1>16. ASSUME Undefined PROVE Good
  BY <1>15, <1>16 DEF Undefined
<1> HIDE DEF Good
<1>17. Good
  BY <1>12, <1>13, <1>14, <1>15, <1>16 DEF Next
<1> QED BY <1>17 DEF Good

\* The pointers of the RAM filesystem's nodes are those of a forest, and the
\* activations of rm and copy stand where fsnode.cpp needs them to, at every
\* loop turn.
THEOREM RamInductive == Spec => []Inv
<1>1. Init => Inv
  BY InitInv
<1>2. Inv /\ [Next]_vars => Inv'
  BY NextInv
<1> QED BY <1>1, <1>2, PTL DEF Spec

-----------------------------------------------------------------------------
(* What follows. *)

\* Different activations are at nodes of different ages: there are no more of
\* them than nodes.
LEMMA FewActivations ==
  ASSUME NEW n \in Nat, NEW f \in [1 .. n -> Ids], NEW age \in [Ids -> Nat],
         \A j, k \in 1 .. n : j < k => age[f[k]] < age[f[j]]
  PROVE  n <= NODES
<1>1. IsFiniteSet(1 .. n) /\ Cardinality(1 .. n) = n
  BY FS_Interval
<1>2. IsFiniteSet(Ids) /\ Cardinality(Ids) = NODES /\ NODES \in Nat
  BY NullIsNoId, FS_Interval DEF Ids
<1>3. ASSUME NODES < n PROVE FALSE
  <2>1. PICK x \in 1 .. n, y \in 1 .. n : x # y /\ f[x] = f[y]
    BY <1>1, <1>2, <1>3, FS_PigeonHole
  <2>2. age[f[x]] \in Nat /\ (x < y \/ y < x)
    BY <2>1
  <2> QED BY <2>1, <2>2
<1> QED BY <1>2, <1>3

\* Type correctness.
LEMMA InvTypes ==
  ASSUME Inv
  PROVE  TypeOK
<1>1. PICK age \in [Ids -> Nat] : IInv(age)
  BY DEF Inv
<1>2. /\ DOMAIN node \subseteq Ids /\ node \in [DOMAIN node -> Node]
      /\ current \in Ids
      /\ pc \in {"idle", "destroy", "clone"} /\ wild \in BOOLEAN /\ kept \subseteq Ids
  BY <1>1 DEF IInv, Control, World, Typed, FolderOk
<1>3. pc = "idle" <=> stack = <<>>
  BY <1>1 DEF IInv, Control, DestroyOk, ClonesOk
<1>4. Len(stack) <= NODES
  <2>1. CASE pc = "idle"
    BY <1>3, <2>1, NullIsNoId
  <2>2. CASE pc = "destroy"
    <3>1. /\ stack \in Seq(Activations)
          /\ \A j, k \in DOMAIN stack : j < k => age[stack[k].dir] < age[stack[j].dir]
      BY <1>1, <2>2 DEF IInv, DestroyOk
    <3>2. /\ Len(stack) \in Nat /\ DOMAIN stack = 1 .. Len(stack)
          /\ \A k \in DOMAIN stack : stack[k] \in Activations
      BY <3>1, LenProperties, ElementOfSeq
    <3> DEFINE f == [k \in 1 .. Len(stack) |-> stack[k].dir]
    <3>3. f \in [1 .. Len(stack) -> Ids]
      BY <3>2 DEF Activations
    <3>4. \A j, k \in 1 .. Len(stack) : j < k => age[f[k]] < age[f[j]]
      BY <3>1, <3>2
    <3> HIDE DEF f
    <3> QED BY <3>2, <3>3, <3>4, FewActivations
  <2>3. CASE pc = "clone"
    <3>1. /\ stack \in Seq(Clones)
          /\ \A j, k \in DOMAIN stack : j < k => age[stack[k].copy] < age[stack[j].copy]
      BY <1>1, <2>3 DEF IInv, ClonesOk
    <3>2. /\ Len(stack) \in Nat /\ DOMAIN stack = 1 .. Len(stack)
          /\ \A k \in DOMAIN stack : stack[k] \in Clones
      BY <3>1, LenProperties, ElementOfSeq
    <3> DEFINE f == [k \in 1 .. Len(stack) |-> stack[k].copy]
    <3>3. f \in [1 .. Len(stack) -> Ids]
      BY <3>2 DEF Clones
    <3>4. \A j, k \in 1 .. Len(stack) : j < k => age[f[k]] < age[f[j]]
      BY <3>1, <3>2
    <3> HIDE DEF f
    <3> QED BY <3>2, <3>3, <3>4, FewActivations
  <2> QED BY <1>2, <2>1, <2>2, <2>3
<1> QED BY <1>2, <1>3, <1>4 DEF TypeOK

\* Every variable has its type, and recursiveDestroy and cloneNode never have
\* more activations than there are nodes.
THEOREM RamTypes == Spec => []TypeOK
<1>1. Inv => TypeOK
  BY InvTypes
<1> QED BY <1>1, RamInductive, PTL

\* Every list ends, of nodes that are allocated and have its folder as parent,
\* between commands and at every loop turn of rm and copy: no walk of fsnode.cpp
\* goes through a freed node or on for ever, and no node is in two places.
THEOREM ListsSoundAlways == Spec => []ListsSound
<1>1. Inv => ListsSound
  <2> SUFFICES ASSUME Inv PROVE ListsSound
    OBVIOUS
  <2>1. PICK age \in [Ids -> Nat] : IInv(age)
    BY DEF Inv
  <2>2. Forest(node, age) /\ Typed(node)
    BY <2>1 DEF IInv, World
  <2> SUFFICES ASSUME NEW d \in DOMAIN node
               PROVE  /\ Chain(node, node[d].first)[NODES] = NULL
                      /\ Children(node, d) \subseteq DOMAIN node
                      /\ \A c \in Children(node, d) : node[c].parent = d
                      /\ node[d].type = "File" => node[d].first = NULL
    BY DEF ListsSound
  <2>3. Chain(node, node[d].first)[NODES] = NULL
    BY <2>2, ListEnds
  <2>4. Children(node, d) = {i \in DOMAIN node : ChildOf(node, i, d)}
    BY <2>2, ChildrenAre
  <2>5. node[d].type = "File" => node[d].first = NULL
    BY <2>2 DEF Forest, FirstOk
  <2> QED BY <2>3, <2>4, <2>5 DEF ChildOf
<1> QED BY <1>1, RamInductive, PTL

\* A node that has content has its length as its size, whatever write, append
\* and copy did.
THEOREM ContentSizedAlways == Spec => []ContentSized
<1>1. Inv => ContentSized
  BY DEF Inv, IInv, World, Sizes, ContentSized, SizeShown
<1> QED BY <1>1, RamInductive, PTL

-----------------------------------------------------------------------------
(* Sizes and contents. *)

\* Every size is the length of the content.
Shown(nd) == \A n \in DOMAIN nd : SizeShown(nd, n)

\* No node of nd2 is new, or has another content or size than in nd.
KeepsContent(nd, nd2) ==
  /\ DOMAIN nd2 \subseteq DOMAIN nd
  /\ \A i \in DOMAIN nd2 : nd2[i].data = nd[i].data /\ nd2[i].size = nd[i].size

\* Sizes stay right where contents stay.
LEMMA KeptIsShown ==
  ASSUME NEW nd, NEW nd2, Shown(nd), KeepsContent(nd, nd2)
  PROVE  Shown(nd2)
  BY DEF Shown, SizeShown, KeepsContent

\* A node linked into a list keeps all contents.
LEMMA AppendKeepsContent ==
  ASSUME NEW nd, nd \in [DOMAIN nd -> Node], NEW p, NEW c
  PROVE  KeepsContent(nd, AppendChild(nd, p, c))
<1>1. KeepsContent(nd, [nd EXCEPT ![p].first = c])
  BY DEF KeepsContent, Node
<1>2. \A l : KeepsContent(nd, [nd EXCEPT ![l].next = c])
  BY DEF KeepsContent, Node
<1> QED BY <1>1, <1>2, Zenon DEF AppendChild

\* A node destroyed leaves the contents of the others.
LEMMA DestroyKeepsContent ==
  ASSUME NEW nd, nd \in [DOMAIN nd -> Node], NEW n
  PROVE  KeepsContent(nd, Destroy(nd, n))
<1>1. DOMAIN Destroy(nd, n) = DOMAIN nd \ {n}
  BY DEF Destroy
<1>2. ASSUME NEW i \in DOMAIN nd \ {n}
      PROVE  Destroy(nd, n)[i].data = nd[i].data /\ Destroy(nd, n)[i].size = nd[i].size
  <2>1. nd[i] \in Node
    OBVIOUS
  <2>2. \A x : /\ [nd[i] EXCEPT !.first = x].data = nd[i].data
               /\ [nd[i] EXCEPT !.first = x].size = nd[i].size
               /\ [nd[i] EXCEPT !.next = x].data = nd[i].data
               /\ [nd[i] EXCEPT !.next = x].size = nd[i].size
    BY <2>1 DEF Node
  <2>3. \/ Destroy(nd, n)[i] = nd[i]
        \/ \E x : \/ Destroy(nd, n)[i] = [nd[i] EXCEPT !.first = x]
                  \/ Destroy(nd, n)[i] = [nd[i] EXCEPT !.next = x]
    BY DEF Destroy
  <2> QED BY <2>2, <2>3
<1> QED BY <1>1, <1>2 DEF KeepsContent

\* A node added with its size right.
LEMMA AddIsShown ==
  ASSUME NEW nd, Shown(nd), NEW i, NEW r,
         r.size = IF r.data = NoData THEN 0 ELSE r.data
  PROVE  Shown(Add(nd, i, r))
  BY DEF Shown, SizeShown, Add

\* A copy made with its content.
LEMMA CloneIsShown ==
  ASSUME NEW nd, Shown(nd), NEW n \in DOMAIN nd, NEW p
  PROVE  LET r == CloneOf(nd, n, p, TRUE)
         IN  r.size = IF r.data = NoData THEN 0 ELSE r.data
<1>1. nd[n].size = IF nd[n].data = NoData THEN 0 ELSE nd[n].data
  BY DEF Shown, SizeShown
<1> QED BY <1>1 DEF CloneOf, NewNode

\* The commands of one step.
LEMMA CommandShows ==
  ASSUME Inv, Command, Shown(node)
  PROVE  Shown(node') \/ ContentFails
<1>1. PICK age \in [Ids -> Nat] : IInv(age)
  BY DEF Inv
<1>2. node \in [DOMAIN node -> Node]
  BY <1>1 DEF IInv, World, Typed
<1>3. ASSUME GoesWild PROVE Shown(node')
  BY <1>3 DEF GoesWild, NewTree, NewNode, Shown, SizeShown, NoData
<1>4. ASSUME NEW path \in Paths, NEW t \in Types, MakeNode(path, t) PROVE Shown(node')
  <2> DEFINE r == ResolveParent(path)
             i == Fresh(node)
             rec == NewNode(r.name, t, r.parent, NoData, 0)
             nd == Add(node, i, rec)
  <2>1. /\ Ready /\ r # NoParent /\ ~Full(node)
        /\ node' = IF FindNode(node, r.name, r.parent) = NULL
                   THEN AppendChild(nd, r.parent, i) ELSE nd
    BY <1>4 DEF MakeNode
  <2>2. World(node, {}, current, age) /\ current \in DOMAIN node
    BY <1>1, <2>1, Prompt
  <2>3. r.parent \in Ids /\ r.name \in ProperNames
    BY <2>1, <2>2, ResolveParentStays DEF World, Typed
  <2>4. rec \in Node /\ rec.size = IF rec.data = NoData THEN 0 ELSE rec.data
    <3>1. rec \in Node
      BY <2>3, NewNodeIsNode
    <3>2. rec.size = 0 /\ rec.data = NoData
      BY DEF NewNode
    <3> QED BY <3>1, <3>2
  <2> HIDE DEF rec, r, i
  <2>5. Shown(nd)
    BY <2>4, AddIsShown
  <2>6. nd \in [DOMAIN nd -> Node]
    BY <1>2, <2>4 DEF Add
  <2> HIDE DEF nd
  <2>7. Shown(AppendChild(nd, r.parent, i))
    BY <2>5, <2>6, AppendKeepsContent, KeptIsShown
  <2> QED BY <2>1, <2>5, <2>7
<1>5. ASSUME NEW path \in Paths, Cd(path) \/ RemoveTree(path) PROVE Shown(node')
  BY <1>5 DEF Cd, RemoveTree
<1>6. ASSUME NEW path \in Paths, NEW l \in Lengths, AppendTo(path, l) PROVE Shown(node')
  <2> DEFINE n == Resolve(path)
             old == IF node[n].data = NoData THEN 0 ELSE node[n].data
             m == old + l
  <2>1. Ready /\ n # NULL /\ node' = [node EXCEPT ![n].data = m, ![n].size = m]
    BY <1>6 DEF AppendTo
  <2>2. n \in DOMAIN node
    BY <1>1, <2>1, Prompt, ResolveStays
  <2>3. node[n].data \in {NoData} \cup 0 .. MAX_LENGTH /\ l \in Nat /\ MAX_LENGTH \in Nat
    BY <1>2, <2>2, RamFSAssumption DEF Node
  <2> HIDE DEF n
  <2>4. m # NoData
    BY <2>3 DEF NoData
  <2> HIDE DEF m
  <2> QED BY <1>2, <2>1, <2>4 DEF Shown, SizeShown, Node
<1>7. ASSUME NEW path \in Paths, NEW l \in Lengths, NEW ok \in BOOLEAN, Overwrite(path, l, ok)
      PROVE  Shown(node') \/ ContentFails
  <2>1. CASE ~ok
    BY <1>7, <2>1 DEF ContentFails
  <2>2. CASE ok
    <3>1. PICK n : node' = [node EXCEPT ![n].data = l, ![n].size = l]
      BY <1>7, <2>2 DEF Overwrite
    <3>2. l # NoData
      BY RamFSAssumption DEF NoData
    <3> QED BY <1>2, <3>1, <3>2 DEF Shown, SizeShown, Node
  <2> QED BY <2>1, <2>2
<1>8. ASSUME NEW path \in Paths, RemoveOne(path) PROVE Shown(node')
  BY <1>2, <1>8, DestroyKeepsContent, KeptIsShown DEF RemoveOne
<1>9. ASSUME NEW path \in Paths, NEW to \in Paths, NEW ok \in BOOLEAN, Copy(path, to, ok)
      PROVE  Shown(node') \/ ContentFails
  <2>1. CASE ~ok
    BY <1>9, <2>1 DEF ContentFails
  <2>2. CASE ok
    <3> DEFINE n == Resolve(path)
    <3>1. Ready /\ n # NULL /\ node' = Add(node, Fresh(node), CloneOf(node, n, dest'.parent, TRUE))
      BY <1>9, <2>2 DEF Copy, CopyTarget
    <3>2. n \in DOMAIN node
      BY <1>1, <3>1, Prompt, ResolveStays
    <3> HIDE DEF n
    <3> QED BY <3>1, <3>2, CloneIsShown, AddIsShown
  <2> QED BY <2>1, <2>2
<1>10. ASSUME NEW path \in Paths, NEW to \in Paths,
              MakeNodeWithoutMemory(path) \/ RemoveRoot(path) \/ CopyWithoutMemory(path, to)
       PROVE  Shown(node')
  BY <1>3, <1>10 DEF MakeNodeWithoutMemory, RemoveRoot, CopyWithoutMemory
<1> QED BY <1>4, <1>5, <1>6, <1>7, <1>8, <1>9, <1>10 DEF Command

\* rename, and the turns of rm and copy.
LEMMA TurnShows ==
  ASSUME Inv, Renaming \/ Running, Shown(node)
  PROVE  Shown(node') \/ ContentFails
<1>1. PICK age \in [Ids -> Nat] : IInv(age)
  BY DEF Inv
<1>2. node \in [DOMAIN node -> Node]
  BY <1>1 DEF IInv, World, Typed
<1>3. ASSUME GoesWild PROVE Shown(node')
  BY <1>3 DEF GoesWild, NewTree, NewNode, Shown, SizeShown, NoData
<1>4. CASE Renaming
  <2>1. ASSUME NEW path \in Paths, NEW name \in NewNames, Rename(path, name)
        PROVE  Shown(node')
    <3>1. \A n : KeepsContent(node, [node EXCEPT ![n].name = name])
      BY <1>2 DEF KeepsContent, Node
    <3>2. node' = node \/ \E n : node' = [node EXCEPT ![n].name = name]
      BY <2>1 DEF Rename
    <3> QED BY <3>1, <3>2, KeptIsShown
  <2> QED BY <1>3, <1>4, <2>1 DEF Renaming, RenameTooLong
<1>5. ASSUME DestroyFile \/ DestroyFolder PROVE Shown(node')
  BY <1>2, <1>5, DestroyKeepsContent, KeptIsShown DEF DestroyFile, DestroyFolder
<1>6. ASSUME EnterFolder PROVE Shown(node')
  BY <1>6 DEF EnterFolder
<1>7. ASSUME NEW ok \in BOOLEAN, CloneChild(ok) PROVE Shown(node') \/ ContentFails
  <2>1. CASE ~ok
    BY <1>7, <2>1 DEF ContentFails
  <2>2. CASE ok
    <3> DEFINE n == Head(stack).child
    <3>1. /\ Copying /\ n # NULL
          /\ node' = Add(node, Fresh(node), CloneOf(node, n, Head(stack).copy, TRUE))
      BY <1>7, <2>2 DEF CloneChild
    <3>2. n \in DOMAIN node
      BY <1>1, <3>1, CopyTurn, Popped DEF ClonesOk, CopyOk
    <3> HIDE DEF n
    <3> QED BY <3>1, <3>2, CloneIsShown, AddIsShown
  <2> QED BY <2>1, <2>2
<1>8. ASSUME CloneReturns PROVE Shown(node')
  <2>1. PICK p, l, c : \/ node' = [node EXCEPT ![p].first = c]
                       \/ node' = [node EXCEPT ![l].next = c]
    BY <1>8 DEF CloneReturns
  <2>2. KeepsContent(node, node')
    BY <1>2, <2>1 DEF KeepsContent, Node
  <2> QED BY <2>2, KeptIsShown
<1>9. ASSUME CopyDone PROVE Shown(node')
  <2>1. PICK c, p, nd : /\ nd = [node EXCEPT ![c].name = dest.name]
                        /\ node' = AppendChild(nd, p, c)
    BY <1>9 DEF CopyDone
  <2>2. dest.name \in Names
    BY <1>1 DEF IInv, Control, ProperNames
  <2>3. DOMAIN nd = DOMAIN node
    BY <2>1
  <2>4. ASSUME NEW i \in DOMAIN node
        PROVE  nd[i] \in Node /\ nd[i].data = node[i].data /\ nd[i].size = node[i].size
    <3>1. node[i] \in Node
      BY <1>2
    <3>2. nd[i] = node[i] \/ nd[i] = [node[i] EXCEPT !.name = dest.name]
      BY <1>2, <2>1
    <3> QED BY <2>2, <3>1, <3>2 DEF Node
  <2>5. nd = [i \in DOMAIN nd |-> nd[i]]
    BY <2>1
  <2>6. nd \in [DOMAIN nd -> Node] /\ KeepsContent(node, nd)
    BY <2>3, <2>4, <2>5 DEF KeepsContent
  <2>7. Shown(nd) /\ KeepsContent(nd, node')
    BY <2>1, <2>6, AppendKeepsContent, KeptIsShown
  <2> QED BY <2>7, KeptIsShown
<1>10. ASSUME DestroyRoot \/ CloneWithoutMemory PROVE Shown(node')
  BY <1>3, <1>10 DEF DestroyRoot, CloneWithoutMemory
<1>11. CASE Running
  BY <1>5, <1>6, <1>7, <1>8, <1>9, <1>10, <1>11 DEF Running
<1> QED BY <1>4, <1>11

\* Where the size of every node is the length of its content, no step but one
\* that finds no memory for a content changes that: not append, overwrite or
\* copy, and no turn of rm or copy.
THEOREM OnlyFailureMisstatesAlways == Spec => OnlyFailureMisstates
<1> DEFINE A == (\A n \in DOMAIN node : SizeShown(node, n)) =>
                  (\A n \in DOMAIN node' : SizeShown(node', n)) \/ ContentFails
<1>1. Inv /\ [Next]_vars => [A]_vars
  <2> SUFFICES ASSUME Inv, Next, Shown(node) PROVE Shown(node') \/ ContentFails
    BY DEF Shown
  <2>1. CASE Undefined
    BY <2>1 DEF Undefined, vars
  <2> QED BY <2>1, CommandShows, TurnShows DEF Next
<1> QED BY <1>1, RamInductive, PTL DEF Spec, OnlyFailureMisstates

\* rm <folder> r ends with the folder and all that was below it freed, and
\* nothing else.
THEOREM RemovedExactlyAlways == Spec => RemovedExactly
<1> DEFINE A == pc = "destroy" /\ pc' = "idle" /\ ~wild' => DOMAIN node' = kept
<1>1. Inv /\ [Next]_vars => [A]_vars
  <2> SUFFICES ASSUME Inv, Next, pc = "destroy", pc' = "idle", ~wild'
               PROVE  DOMAIN node' = kept
    BY DEF vars
  <2>1. PICK age \in [Ids -> Nat] : IInv(age)
    BY DEF Inv
  <2>2. ~Command /\ ~Renaming
    BY DEF Command, Renaming, MakeNode, MakeNodeWithoutMemory, Cd, AppendTo, Overwrite,
           RemoveOne, RemoveRoot, RemoveTree, CopyWithoutMemory, CopyTarget, Copy,
           Rename, RenameTooLong, Ready
  <2>3. ~Undefined
    BY DEF Undefined, vars
  <2>4. ~DestroyFile /\ ~EnterFolder
    BY DEF DestroyFile, EnterFolder
  <2>5. ~DestroyRoot /\ ~CloneWithoutMemory
    BY DEF DestroyRoot, CloneWithoutMemory, GoesWild
  <2>6. ~CloneReturns /\ ~CopyDone /\ \A ok \in BOOLEAN : ~CloneChild(ok)
    BY DEF CloneReturns, CopyDone, CloneChild, Copying
  <2>7. DestroyFolder
    BY <2>2, <2>3, <2>4, <2>5, <2>6 DEF Next, Running
  <2> QED BY <2>1, <2>7, DestroyFolderKeeps
<1> QED BY <1>1, RamInductive, PTL DEF Spec, RemovedExactly

\* The names of the children, as the code walks them.
Unique(nd) ==
  \A d \in DOMAIN nd : \A a, b \in Children(nd, d) : nd[a].name = nd[b].name => a = b

\* The lists hold all nodes pointed at, so that names are unique when those
\* nodes' are.
LEMMA UniqueIsDistinct ==
  ASSUME NEW nd, NEW age, Forest(nd, age)
  PROVE  Unique(nd) <=> Distinct(nd)
<1>1. \A d \in DOMAIN nd : Children(nd, d) = {i \in DOMAIN nd : ChildOf(nd, i, d)}
  BY ChildrenAre
<1>2. ASSUME Unique(nd) PROVE Distinct(nd)
  <2> SUFFICES ASSUME NEW a \in DOMAIN nd, NEW b \in DOMAIN nd, Pointed(nd, a), Pointed(nd, b),
                      nd[a].parent = nd[b].parent, nd[a].name = nd[b].name
               PROVE  a = b
    BY DEF Distinct
  <2>1. nd[a].parent \in DOMAIN nd /\ a \in Children(nd, nd[a].parent)
    BY PointedIsListed
  <2>2. b \in Children(nd, nd[a].parent)
    BY PointedIsListed
  <2> QED BY <1>2, <2>1, <2>2 DEF Unique
<1>3. ASSUME Distinct(nd) PROVE Unique(nd)
  <2> SUFFICES ASSUME NEW d \in DOMAIN nd, NEW a \in Children(nd, d), NEW b \in Children(nd, d),
                      nd[a].name = nd[b].name
               PROVE  a = b
    BY DEF Unique
  <2>1. ChildOf(nd, a, d) /\ ChildOf(nd, b, d)
    BY <1>1
  <2> QED BY <1>3, <2>1 DEF Distinct, ChildOf
<1> QED BY <1>2, <1>3

\* mkdir, touch and copy look for the name first, and the copies of a folder's
\* children have the names of its children: only rename makes two nodes of a
\* folder have one name.
THEOREM OnlyRenameDuplicatesAlways == Spec => OnlyRenameDuplicates
<1> DEFINE A == NamesUnique /\ ~wild => NamesUnique' \/ Renaming
<1>1. Inv /\ Inv' /\ [Next]_vars => [A]_vars
  <2> SUFFICES ASSUME Inv, Inv', [Next]_vars, NamesUnique
               PROVE  NamesUnique' \/ Renaming
    BY DEF vars
  <2>1. PICK age \in [Ids -> Nat] : Forest(node, age)
    BY DEF Inv, IInv, World
  <2>2. PICK age2 \in [Ids -> Nat] : Forest(node', age2)
    BY DEF Inv, IInv, World
  <2>3. Unique(node)
    BY DEF NamesUnique, Unique
  <2>4. Distinct(node)
    BY <2>1, <2>3, UniqueIsDistinct
  <2>5. Distinct(node') \/ Renaming
    BY <2>4, NextInv
  <2>6. Distinct(node') => Unique(node')
    BY <2>2, UniqueIsDistinct
  <2>7. Unique(node') => NamesUnique'
    BY DEF NamesUnique, Unique
  <2> QED BY <2>5, <2>6, <2>7
<1> QED BY <1>1, RamInductive, PTL DEF Spec, OnlyRenameDuplicates

-----------------------------------------------------------------------------
(* The path of a node. *)

\* What decreases at each step decreases.
LEMMA Descending ==
  ASSUME NEW n \in Nat, NEW f \in [1 .. n -> Ids], NEW age \in [Ids -> Nat],
         \A k \in 2 .. n : age[f[k]] < age[f[k - 1]]
  PROVE  \A j, k \in 1 .. n : j < k => age[f[k]] < age[f[j]]
<1> SUFFICES ASSUME NEW j \in 1 .. n
             PROVE  \A k \in 1 .. n : j < k => age[f[k]] < age[f[j]]
  OBVIOUS
<1> DEFINE Bad == {k \in 1 .. n : j < k /\ ~(age[f[k]] < age[f[j]])}
<1>1. SUFFICES ASSUME Bad # {} PROVE FALSE
  OBVIOUS
<1>2. PICK x \in Bad : \A k \in Bad : x <= k
  <2>1. Bad \subseteq Nat
    OBVIOUS
  <2> HIDE DEF Bad
  <2> QED BY <1>1, <2>1, Least
<1>3. x \in 1 .. n /\ j < x /\ ~(age[f[x]] < age[f[j]])
  OBVIOUS
<1>4. x \in 2 .. n /\ x - 1 \in 1 .. n /\ ~(x <= x - 1) /\ (j < x - 1 \/ j = x - 1)
  BY <1>3
<1>5. age[f[x - 1]] < age[f[j]] \/ j = x - 1
  <2>1. x - 1 \notin Bad
    <3> HIDE DEF Bad
    <3> QED BY <1>2, <1>4
  <2> QED BY <1>4, <2>1
<1>6. age[f[x]] < age[f[x - 1]]
  BY <1>4
<1>7. f[x] \in Ids /\ f[x - 1] \in Ids /\ f[j] \in Ids
  BY <1>3, <1>4
<1>8. age[f[x]] \in Nat /\ age[f[x - 1]] \in Nat /\ age[f[j]] \in Nat
  BY <1>7
<1> HIDE DEF Bad
<1>9. CASE age[f[x - 1]] < age[f[j]]
  BY <1>3, <1>6, <1>8, <1>9
<1>10. CASE j = x - 1
  BY <1>3, <1>6, <1>10
<1> QED BY <1>5, <1>9, <1>10

\* The way up from a node of the tree, which pwd and find go, reaches the
\* root, since each parent is older than its children.
LEMMA WayUp ==
  ASSUME NEW age \in [Ids -> Nat], World(node, {}, current, age), NEW n \in Subtree(node, Root)
  PROVE  \E up : \E depth \in 0 .. NODES :
           /\ up[0] = n /\ up[depth] = Root
           /\ \A k \in 0 .. depth : up[k] \in Subtree(node, Root)
           /\ \A k \in 1 .. depth : up[k - 1] # Root /\ up[k] = node[up[k - 1]].parent
           /\ Depth(n) = depth
           /\ depth <= STACK_SIZE =>
                PathTo(n) = [abs |-> TRUE, comps |-> [k \in 1 .. depth |-> node[up[depth - k]].name]]
<1> DEFINE T == Subtree(node, Root)
           D == T \cup {NULL}
           Parent(i) == IF i = NULL THEN NULL ELSE node[i].parent
           g == [k \in Nat |-> [i \in D |-> Parent(i)]]
           Follow(f) == [k \in 0 .. NODES |->
                           IF k = 0 THEN n
                           ELSE LET i == f[k - 1] IN IF i = NULL THEN NULL ELSE node[i].parent]
<1>1. /\ Forest(node, age) /\ RootOk(node) /\ Root \in DOMAIN node /\ node[Root].parent = NULL
  BY DEF World, RootOk
<1>2. /\ Root \in T /\ T \subseteq DOMAIN node
      /\ \A i \in T : i # Root => Pointed(node, i) /\ node[i].parent \in T
  BY <1>1, SubtreeClosed
<1>3. NULL \notin T
  BY <1>1, <1>2, ForestPointers
<1>4. /\ NODES \in Nat /\ 0 \in 0 .. NODES
      /\ \A k \in 1 .. NODES : k \in Nat /\ k \in 0 .. NODES /\ k - 1 \in 0 .. NODES /\ k # 0
      /\ \A k \in 0 .. NODES : k = 0 \/ k \in 1 .. NODES
  BY NullIsNoId
<1>5. \A i \in D : Parent(i) \in D
  BY <1>1, <1>2, <1>3
<1> HIDE DEF T
<1>6. PICK h \in [0 .. NODES -> D] : Iterates(h, g, n, NODES)
  <2>1. g \in [Nat -> [D -> D]]
    BY <1>5
  <2>2. n \in D
    BY DEF T
  <2> HIDE DEF g, D
  <2> QED BY <1>4, <2>1, <2>2, IterationExists
<1>7. h[0] = n /\ \A k \in 1 .. NODES : h[k] = Parent(h[k - 1])
  <2>1. h[0] = n /\ \A k \in 1 .. NODES : h[k] = g[k][h[k - 1]]
    BY <1>6 DEF Iterates
  <2>2. ASSUME NEW k \in 1 .. NODES PROVE g[k][h[k - 1]] = Parent(h[k - 1])
    <3>1. h[k - 1] \in D /\ k \in Nat
      BY <1>4
    <3> HIDE DEF D, Parent
    <3> QED BY <3>1
  <2> HIDE DEF g, Parent, D
  <2> QED BY <2>1, <2>2
<1>8. \A f : Follow(f) = [k \in 0 .. NODES |-> IF k = 0 THEN n ELSE Parent(f[k - 1])]
  OBVIOUS
<1>9. h = Follow(h)
  <2> HIDE DEF Parent, D
  <2>1. \A k \in 0 .. NODES : h[k] = IF k = 0 THEN n ELSE Parent(h[k - 1])
    BY <1>4, <1>7
  <2>2. h = [k \in 0 .. NODES |-> h[k]]
    OBVIOUS
  <2>3. h = [k \in 0 .. NODES |-> IF k = 0 THEN n ELSE Parent(h[k - 1])]
    BY <2>1, <2>2
  <2> HIDE DEF Follow
  <2> QED BY <1>8, <2>3, Zenon
<1> DEFINE up == CHOOSE f : f = Follow(f)
           depth == CHOOSE k \in 0 .. NODES : up[k] = Root
<1>10. /\ Depth(n) = depth
       /\ depth <= STACK_SIZE =>
            PathTo(n) = [abs |-> TRUE, comps |-> [k \in 1 .. depth |-> node[up[depth - k]].name]]
  <2>1. Ancestor(n) = up
    BY DEF Ancestor
  <2> HIDE DEF up
  <2>2. Depth(n) = depth
    BY <2>1 DEF Depth
  <2> HIDE DEF depth
  <2> QED BY <2>1, <2>2 DEF PathTo
<1>11. up = Follow(up)
  <2> HIDE DEF Follow
  <2> QED BY <1>9
<1> HIDE DEF up
<1>12. up[0] = n /\ \A k \in 1 .. NODES : up[k] = Parent(up[k - 1])
  <2> HIDE DEF Parent
  <2>1. \A k \in 0 .. NODES : Follow(up)[k] = IF k = 0 THEN n ELSE Parent(up[k - 1])
    <3> HIDE DEF Follow
    <3> QED BY <1>8
  <2> HIDE DEF Follow
  <2>2. \A k \in 0 .. NODES : up[k] = IF k = 0 THEN n ELSE Parent(up[k - 1])
    BY <1>11, <2>1, Zenon
  <2> QED BY <1>4, <2>2
<1> HIDE DEF Follow, g
<1>13. \A k \in 0 .. NODES : up[k] \in D
  <2> DEFINE Bad == {k \in 0 .. NODES : up[k] \notin D}
  <2> HIDE DEF D, Parent
  <2>1. SUFFICES ASSUME Bad # {} PROVE FALSE
    OBVIOUS
  <2>2. PICK x \in Bad : \A k \in Bad : x <= k
    <3>1. Bad \subseteq Nat
      BY <1>4
    <3> HIDE DEF Bad
    <3> QED BY <2>1, <3>1, Least
  <2>3. x # 0 /\ x \in 0 .. NODES /\ up[x] \notin D
    BY <1>12 DEF D, T
  <2>4. x \in 1 .. NODES /\ x - 1 \in 0 .. NODES /\ ~(x <= x - 1)
    BY <1>4, <2>3
  <2>5. up[x - 1] \in D
    <3>1. x - 1 \notin Bad
      <4> HIDE DEF Bad
      <4> QED BY <2>2, <2>4
    <3> QED BY <2>4, <3>1
  <2> HIDE DEF Bad
  <2> QED BY <1>5, <1>12, <2>3, <2>4, <2>5
<1>14. \E k \in 0 .. NODES : up[k] = Root
  <2> SUFFICES ASSUME \A k \in 0 .. NODES : up[k] # Root PROVE FALSE
    OBVIOUS
  <2>1. \A k \in 0 .. NODES : up[k] # NULL
    <3> DEFINE Bad == {k \in 0 .. NODES : up[k] = NULL}
    <3>1. SUFFICES ASSUME Bad # {} PROVE FALSE
      OBVIOUS
    <3>2. PICK x \in Bad : \A k \in Bad : x <= k
      <4>1. Bad \subseteq Nat
        BY <1>4
      <4> HIDE DEF Bad
      <4> QED BY <3>1, <4>1, Least
    <3>3. x # 0 /\ x \in 0 .. NODES /\ up[x] = NULL
      BY <1>3, <1>12 DEF T
    <3>4. x \in 1 .. NODES /\ x - 1 \in 0 .. NODES /\ ~(x <= x - 1)
      BY <1>4, <3>3
    <3>5. up[x - 1] # NULL
      <4>1. x - 1 \notin Bad
        <5> HIDE DEF Bad
        <5> QED BY <3>2, <3>4
      <4> QED BY <3>4, <4>1
    <3>6. up[x - 1] \in T /\ up[x - 1] # Root
      BY <1>13, <3>4, <3>5
    <3>7. up[x] = node[up[x - 1]].parent
      BY <1>12, <3>4, <3>5
    <3> QED BY <1>2, <1>3, <3>3, <3>6, <3>7
  <2>2. \A k \in 1 .. NODES : age[up[k]] < age[up[k - 1]]
    <3> SUFFICES ASSUME NEW k \in 1 .. NODES PROVE age[up[k]] < age[up[k - 1]]
      OBVIOUS
    <3>1. up[k - 1] # NULL /\ up[k - 1] \in T /\ up[k - 1] # Root
      BY <1>4, <1>13, <2>1
    <3>2. up[k] = node[up[k - 1]].parent
      BY <1>12, <3>1
    <3>3. up[k - 1] \in DOMAIN node /\ Pointed(node, up[k - 1])
      BY <1>2, <3>1
    <3> QED BY <1>1, <3>2, <3>3, ParentIsOlder
  <2> DEFINE f == [k \in 1 .. NODES + 1 |-> up[k - 1]]
  <2>3. \A k \in 1 .. NODES + 1 : k - 1 \in 0 .. NODES /\ f[k] = up[k - 1]
    BY <1>4
  <2>4. f \in [1 .. NODES + 1 -> Ids]
    <3>1. \A k \in 1 .. NODES + 1 : up[k - 1] \in Ids
      BY <1>1, <1>2, <1>13, <2>1, <2>3 DEF Forest
    <3> QED BY <3>1
  <2>5. \A k \in 2 .. NODES + 1 : age[f[k]] < age[f[k - 1]]
    <3> TAKE k \in 2 .. NODES + 1
    <3>1. k - 1 \in 1 .. NODES /\ k \in 1 .. NODES + 1 /\ k - 1 \in 1 .. NODES + 1
      BY <1>4
    <3>2. f[k] = up[k - 1] /\ f[k - 1] = up[(k - 1) - 1]
      BY <2>3, <3>1
    <3> HIDE DEF f
    <3> QED BY <2>2, <3>1, <3>2
  <2> HIDE DEF f
  <2>6. NODES + 1 \in Nat
    BY <1>4
  <2>7. \A j, k \in 1 .. NODES + 1 : j < k => age[f[k]] < age[f[j]]
    BY <2>4, <2>5, <2>6, Descending
  <2>8. NODES + 1 <= NODES
    BY <2>4, <2>6, <2>7, FewActivations
  <2> QED BY <1>4, <2>8
<1>15. depth \in 0 .. NODES /\ up[depth] = Root
  BY <1>14
<1> HIDE DEF depth
<1>16. depth \in Nat /\ \A k \in 0 .. depth : k \in 0 .. NODES
  BY <1>4, <1>15
<1>17. \A k \in 0 .. depth : up[k] # NULL
  <2> DEFINE Bad == {j \in 0 .. depth : up[depth - j] = NULL}
  <2>1. ASSUME Bad # {} PROVE FALSE
    <3>1. PICK x \in Bad : \A k \in Bad : x <= k
      <4>1. Bad \subseteq Nat
        BY <1>16
      <4> HIDE DEF Bad
      <4> QED BY <2>1, <4>1, Least
    <3>2. x \in 0 .. depth /\ up[depth - x] = NULL
      OBVIOUS
    <3>3. x # 0
      <4>1. depth - 0 = depth
        BY <1>16
      <4> QED BY <1>2, <1>3, <1>15, <3>2, <4>1
    <3>4. /\ x - 1 \in 0 .. depth /\ depth - (x - 1) \in 0 .. NODES /\ depth - (x - 1) # 0
          /\ depth - (x - 1) - 1 = depth - x /\ ~(x <= x - 1)
      BY <1>4, <1>15, <1>16, <3>2, <3>3
    <3>5. up[depth - (x - 1)] = NULL
      BY <1>4, <1>12, <3>2, <3>4
    <3>6. x - 1 \in Bad
      BY <3>4, <3>5
    <3> HIDE DEF Bad
    <3> QED BY <3>1, <3>4, <3>6
  <2>2. \A k \in 0 .. depth : depth - k \in 0 .. depth /\ depth - (depth - k) = k
    BY <1>16
  <2> QED BY <2>1, <2>2
<1>18. \A k \in 0 .. depth : up[k] \in T
  BY <1>13, <1>16, <1>17
<1>19. ASSUME NEW k \in 1 .. depth PROVE up[k - 1] # Root /\ up[k] = node[up[k - 1]].parent
  <2>1. k \in 0 .. depth /\ k - 1 \in 0 .. depth /\ k \in 1 .. NODES
    BY <1>4, <1>16
  <2>2. up[k] = node[up[k - 1]].parent
    BY <1>12, <1>17, <2>1
  <2> QED BY <1>1, <1>17, <2>1, <2>2
<1> QED BY <1>10, <1>12, <1>15, <1>18, <1>19 DEF T

\* A component that names a node, and does not stand for one.
IsName(c) == c \notin {".", "..", ""}

\* A name is looked for.
LEMMA NameIsLookedFor ==
  ASSUME NEW n, NEW c, IsName(c)
  PROVE  PathStep(n, c) = FindNode(node, c, n)
<1>1. c \notin {".", ""} /\ c # ".."
  BY Zenon DEF IsName
<1> QED BY <1>1, Zenon DEF PathStep

\* The names on the way up, walked down again, lead back: each of them is that
\* of one child only.
LEMMA PathBack ==
  ASSUME NEW age \in [Ids -> Nat], World(node, {}, current, age), Distinct(node),
         \A i \in Subtree(node, Root) : IsName(node[i].name),
         NEW n \in Subtree(node, Root), Depth(n) <= STACK_SIZE
  PROVE  Resolve(PathTo(n)) = n
<1> DEFINE T == Subtree(node, Root)
<1>1. /\ Forest(node, age) /\ RootOk(node) /\ Typed(node) /\ Named(node)
      /\ Root \in DOMAIN node /\ node[Root].parent = NULL
  BY DEF World, RootOk
<1>2. /\ Root \in T /\ T \subseteq DOMAIN node
      /\ \A i \in T : i # Root => Pointed(node, i) /\ node[i].parent \in T
  BY <1>1, SubtreeClosed
<1>3. NULL \notin T
  BY <1>1, <1>2, ForestPointers
<1>4. PICK up : \E depth \in 0 .. NODES :
        /\ up[0] = n /\ up[depth] = Root
        /\ \A k \in 0 .. depth : up[k] \in Subtree(node, Root)
        /\ \A k \in 1 .. depth : up[k - 1] # Root /\ up[k] = node[up[k - 1]].parent
        /\ Depth(n) = depth
        /\ depth <= STACK_SIZE =>
             PathTo(n) = [abs |-> TRUE, comps |-> [k \in 1 .. depth |-> node[up[depth - k]].name]]
  BY WayUp
<1>5. PICK depth \in 0 .. NODES :
        /\ up[0] = n /\ up[depth] = Root
        /\ \A k \in 0 .. depth : up[k] \in Subtree(node, Root)
        /\ \A k \in 1 .. depth : up[k - 1] # Root /\ up[k] = node[up[k - 1]].parent
        /\ Depth(n) = depth
        /\ depth <= STACK_SIZE =>
             PathTo(n) = [abs |-> TRUE, comps |-> [k \in 1 .. depth |-> node[up[depth - k]].name]]
  BY <1>4
<1> DEFINE comps == [k \in 1 .. depth |-> node[up[depth - k]].name]
<1>6. depth \in Nat /\ \A k \in 0 .. depth : up[k] \in T /\ depth - k \in 0 .. depth
  BY <1>5, NullIsNoId
<1> HIDE DEF T
<1>7. Len(comps) = depth /\ \A k \in 1 .. depth : comps[k] = node[up[depth - k]].name
  BY <1>6
<1>8. Resolve(PathTo(n)) = Walk(comps, Root, FALSE)
  <2>1. PathTo(n).abs = TRUE /\ PathTo(n).comps = comps
    BY <1>5
  <2> QED BY <2>1 DEF Resolve, Start
<1> HIDE DEF comps
<1>9. PICK f : /\ Walk(comps, Root, FALSE) = f[depth] /\ f[0] = Root
               /\ \A k \in 1 .. depth :
                    f[k] = IF f[k - 1] = NULL THEN NULL ELSE PathStep(f[k - 1], comps[k])
  <2> DEFINE D == TreeNodes \cup {NULL}
           anywhere == FALSE
  <2>1. \A m \in D \ {NULL} : \A c :
          (IF anywhere THEN FolderStep(m, c) ELSE PathStep(m, c)) \in D
    <3>1. \A m \in TreeNodes : \A c : PathStep(m, c) \in D
      BY PathStepStays
    <3> QED BY <3>1
  <2>2. NULL \in D /\ Root \in D
    BY <1>1 DEF TreeNodes, Placed
  <2>3. Len(comps) \in Nat
    BY <1>6, <1>7
  <2> HIDE DEF D, anywhere
  <2>4. PICK f : /\ Walk(comps, Root, anywhere) = f[Len(comps)]
                 /\ Walks(f, comps, Root, anywhere)
    BY <2>1, <2>2, <2>3, WalkSteps
  <2> QED BY <1>7, <2>4 DEF anywhere, Walks
<1>10. ASSUME NEW k \in 1 .. depth, f[k - 1] = up[depth - (k - 1)]
       PROVE  f[k] = up[depth - k]
  <2> DEFINE c == up[depth - k]
             p == up[depth - (k - 1)]
  <2>1. /\ k \in 0 .. depth /\ k - 1 \in 0 .. depth /\ depth - (k - 1) \in 1 .. depth
        /\ (depth - (k - 1)) - 1 = depth - k
    BY <1>6
  <2>2. c \in T /\ p \in T /\ c # Root /\ p = node[c].parent
    BY <1>5, <1>6, <2>1
  <2> HIDE DEF c, p
  <2>3. ChildOf(node, c, p) /\ p \in DOMAIN node /\ p # NULL
    BY <1>2, <1>3, <2>2 DEF ChildOf
  <2>4. f[k] = PathStep(p, node[c].name)
    BY <1>7, <1>9, <1>10, <2>3 DEF c, p
  <2>5. PathStep(p, node[c].name) = FindNode(node, node[c].name, p)
    BY <2>2, NameIsLookedFor DEF T
  <2>6. LET m == FindNode(node, node[c].name, p)
        IN  /\ m # NULL => ChildOf(node, m, p) /\ node[m].name = node[c].name
            /\ m = NULL => \A i \in DOMAIN node : ChildOf(node, i, p) => node[i].name # node[c].name
    BY <1>1, <2>3, FindNodeFinds
  <2>7. FindNode(node, node[c].name, p) = c
    BY <2>3, <2>6 DEF Distinct, ChildOf
  <2> QED BY <2>4, <2>5, <2>7 DEF c
<1>11. \A k \in 0 .. depth : f[k] = up[depth - k]
  <2> DEFINE Bad == {k \in 0 .. depth : f[k] # up[depth - k]}
  <2>1. SUFFICES ASSUME Bad # {} PROVE FALSE
    OBVIOUS
  <2>2. PICK x \in Bad : \A k \in Bad : x <= k
    <3>1. Bad \subseteq Nat
      BY <1>6
    <3> HIDE DEF Bad
    <3> QED BY <2>1, <3>1, Least
  <2>3. x \in 0 .. depth /\ f[x] # up[depth - x]
    OBVIOUS
  <2>4. x # 0
    <3>1. depth - 0 = depth
      BY <1>6
    <3> QED BY <1>5, <1>9, <2>3, <3>1
  <2>5. x \in 1 .. depth /\ x - 1 \in 0 .. depth /\ ~(x <= x - 1)
    BY <1>6, <2>3, <2>4
  <2>6. f[x - 1] = up[depth - (x - 1)]
    <3>1. x - 1 \notin Bad
      <4> HIDE DEF Bad
      <4> QED BY <2>2, <2>5
    <3> QED BY <2>5, <3>1
  <2> QED BY <1>10, <2>3, <2>5, <2>6
<1>12. depth - depth = 0 /\ depth \in 0 .. depth
  BY <1>6
<1> QED BY <1>5, <1>8, <1>9, <1>11, <1>12

\* Where names are unique and none is empty, and rename has not given a node the
\* name "." or "..", the path pwd or find prints of a node the Stack holds the
\* way up of, at most STACK_SIZE folders deep, resolves to that node, whichever
\* folder the shell is in.
THEOREM PathLeadsBackAlways ==
  ASSUME NewNames \cap {".", ".."} = {}
  PROVE  Spec => []PathLeadsBack
<1>1. Inv => PathLeadsBack
  <2> SUFFICES ASSUME Inv, Ready, NamesUnique,
                      \A i \in Subtree(node, Root) : node[i].name # "",
                      NEW n \in Subtree(node, Root), Depth(n) <= STACK_SIZE
               PROVE  Resolve(PathTo(n)) = n
    BY DEF PathLeadsBack
  <2>1. PICK age \in [Ids -> Nat] : IInv(age)
    BY DEF Inv
  <2>2. World(node, {}, current, age)
    BY <2>1 DEF IInv, Copies, Ready
  <2>3. Forest(node, age) /\ Unique(node)
    BY <2>2 DEF World, NamesUnique, Unique
  <2>4. Distinct(node)
    BY <2>3, UniqueIsDistinct
  <2>5. \A i \in Subtree(node, Root) : IsName(node[i].name)
    <3>1. \A i \in Subtree(node, Root) : node[i].name \in ProperNames
      BY <2>2, <2>3, SubtreeClosed DEF World, RootOk, Named
    <3> QED BY <3>1, Zenon DEF ProperNames, IsName
  <2> QED BY <2>2, <2>4, <2>5, PathBack
<1> QED BY <1>1, RamInductive, PTL
=============================================================================
