---------------------------- MODULE RamCopyProofs ----------------------------
(***************************************************************************)
(* What copy makes has the shape of what it copied, for every tree: a      *)
(* theorem of Spec of RamFS.tla on top of the invariant of                 *)
(* RamFSProofs.tla.                                                        *)
(*                                                                         *)
(* The nodes copy has made are in correspondence with originals: every     *)
(* pointer of a finished copy leads to the copy of what its original       *)
(* points at (CopyInv).  Two nodes whose pointers correspond like that     *)
(* have the same shape (SameShape), and what copy does while it runs       *)
(* leaves the originals' shape alone, also when it copies a folder into    *)
(* itself.                                                                 *)
(***************************************************************************)
EXTENDS RamFSProofs

-----------------------------------------------------------------------------
(* Shapes. *)

\* What the shapes of one more level of the tree are.
Level(nd, below) ==
  [i \in DOMAIN nd |->
     <<nd[i].type, nd[i].size,
       [j \in {j \in 0 .. NODES : Chain(nd, nd[i].first)[j] # NULL} |->
          <<nd[Chain(nd, nd[i].first)[j]].name, below[Chain(nd, nd[i].first)[j]]>>]>>]

NoShape(nd) == [i \in DOMAIN nd |-> <<>>]

\* s are the shapes of nd, level by level.
Shapes(s, nd, n) == s[0] = NoShape(nd) /\ \A k \in 1 .. n : s[k] = Level(nd, s[k - 1])

\* There are such.
LEMMA ShapesExist ==
  ASSUME NEW nd, NEW n \in Nat
  PROVE  \E s : s = [k \in 0 .. n |-> s[k]] /\ Shapes(s, nd, n)
<1> DEFINE Fine(s, m) == s = [k \in 0 .. m |-> s[k]] /\ Shapes(s, nd, m)
           Bad == {m \in Nat : ~ \E s : Fine(s, m)}
<1>1. SUFFICES ASSUME Bad # {} PROVE FALSE
  OBVIOUS
<1>2. PICK m \in Bad : \A k \in Bad : m <= k
  <2>1. Bad \subseteq Nat
    OBVIOUS
  <2> HIDE DEF Bad
  <2> QED BY <1>1, <2>1, Least
<1>3. m \in Nat /\ ~ \E s : Fine(s, m)
  OBVIOUS
<1>4. m # 0
  <2> DEFINE s == [k \in 0 .. 0 |-> NoShape(nd)]
  <2>1. Fine(s, 0)
    BY DEF Shapes
  <2> QED BY <1>3, <2>1
<1>5. m - 1 \in Nat /\ ~(m <= m - 1)
  BY <1>3, <1>4
<1>6. PICK f : Fine(f, m - 1)
  <2>1. m - 1 \notin Bad
    <3> HIDE DEF Bad
    <3> QED BY <1>2, <1>5
  <2> QED BY <1>5, <2>1
<1> DEFINE h == [k \in 0 .. m |-> IF k = m THEN Level(nd, f[m - 1]) ELSE f[k]]
<1>7. /\ h[0] = f[0] /\ h[m] = Level(nd, f[m - 1])
      /\ \A k \in 1 .. m : k # m => k \in 1 .. m - 1 /\ h[k] = f[k] 
      /\ \A k \in 1 .. m : h[k - 1] = f[k - 1]
  BY <1>3, <1>5, <1>4
<1>8. h = [k \in 0 .. m |-> h[k]]
  OBVIOUS
<1> HIDE DEF h
<1>9. Shapes(h, nd, m)
  <2>1. \A k \in 1 .. m : h[k] = Level(nd, h[k - 1])
    BY <1>6, <1>7 DEF Shapes
  <2> QED BY <1>6, <1>7, <2>1 DEF Shapes
<1> QED BY <1>3, <1>8, <1>9

\* The recursion of Shape, unfolded.
LEMMA ShapeSteps ==
  ASSUME NEW nd
  PROVE  \E s : Shapes(s, nd, NODES) /\ \A n : Shape(nd, n) = s[NODES][n]
<1> DEFINE Follow(f) ==
             [k \in 0 .. NODES |->
                IF k = 0 THEN [i \in DOMAIN nd |-> <<>>]
                ELSE LET below == f[k - 1]
                     IN  [i \in DOMAIN nd |->
                            LET list == Chain(nd, nd[i].first)
                            IN  <<nd[i].type, nd[i].size,
                                  [j \in {j \in 0 .. NODES : list[j] # NULL} |->
                                     <<nd[list[j]].name, below[list[j]]>>]>>]]
<1>1. /\ NODES \in Nat /\ 0 \in 0 .. NODES
      /\ \A k \in 1 .. NODES : k \in 0 .. NODES /\ k # 0
      /\ \A k \in 0 .. NODES : k = 0 \/ k \in 1 .. NODES
  BY NullIsNoId
<1>2. \A f : Follow(f) = [k \in 0 .. NODES |-> IF k = 0 THEN NoShape(nd) ELSE Level(nd, f[k - 1])]
  BY DEF Level, NoShape
<1>3. PICK h : h = [k \in 0 .. NODES |-> h[k]] /\ Shapes(h, nd, NODES)
  BY <1>1, ShapesExist
<1>4. h = Follow(h)
  <2>1. \A k \in 0 .. NODES : h[k] = IF k = 0 THEN NoShape(nd) ELSE Level(nd, h[k - 1])
    BY <1>1, <1>3 DEF Shapes
  <2>2. [k \in 0 .. NODES |-> h[k]]
          = [k \in 0 .. NODES |-> IF k = 0 THEN NoShape(nd) ELSE Level(nd, h[k - 1])]
    BY <2>1
  <2> HIDE DEF Follow
  <2> QED BY <1>2, <1>3, <2>2, Zenon
<1> DEFINE s == CHOOSE f : f = Follow(f)
<1>5. \A n : Shape(nd, n) = s[NODES][n]
  BY DEF Shape
<1>6. s = Follow(s)
  <2> HIDE DEF Follow
  <2> QED BY <1>4
<1> HIDE DEF s
<1>7. Shapes(s, nd, NODES)
  <2>1. \A k \in 0 .. NODES : Follow(s)[k] = IF k = 0 THEN NoShape(nd) ELSE Level(nd, s[k - 1])
    <3> HIDE DEF Follow
    <3> QED BY <1>2
  <2> HIDE DEF Follow
  <2>2. \A k \in 0 .. NODES : s[k] = IF k = 0 THEN NoShape(nd) ELSE Level(nd, s[k - 1])
    BY <1>6, <2>1, Zenon
  <2> QED BY <1>1, <2>2 DEF Shapes
<1> QED BY <1>5, <1>7

\* The pointers of nd lead to its nodes.
Closed(nd) ==
  /\ NULL \notin DOMAIN nd
  /\ \A i \in DOMAIN nd : /\ nd[i].first \in DOMAIN nd \cup {NULL}
                          /\ nd[i].next \in DOMAIN nd \cup {NULL}

\* What i points at by one pointer corresponds to what j points at by it.
Corresponds(h, K, i, j) == (i = NULL /\ j = NULL) \/ (i \in K /\ h[i] = j)

\* By h each node of M corresponds to a node of nd2, its children, who are in K,
\* to that node's children.
Alike(nd1, nd2, M, K, h) ==
  /\ M \subseteq DOMAIN nd1 /\ K \subseteq M
  /\ \A c \in M : /\ h[c] \in DOMAIN nd2
                  /\ nd1[c].type = nd2[h[c]].type /\ nd1[c].size = nd2[h[c]].size
                  /\ Corresponds(h, K, nd1[c].first, nd2[h[c]].first)
  /\ \A c \in K : /\ nd1[c].name = nd2[h[c]].name
                  /\ Corresponds(h, K, nd1[c].next, nd2[h[c]].next)

\* Lists that start with corresponding nodes correspond.
LEMMA ListsCorrespond ==
  ASSUME NEW nd1, NEW nd2, NEW M, NEW K, NEW h, Closed(nd1), Closed(nd2),
         Alike(nd1, nd2, M, K, h), NEW m1, NEW m2, Corresponds(h, K, m1, m2)
  PROVE  \A k \in 0 .. NODES : Corresponds(h, K, Chain(nd1, m1)[k], Chain(nd2, m2)[k])
<1> DEFINE l1 == Chain(nd1, m1)
           l2 == Chain(nd2, m2)
<1>1. /\ m1 \in DOMAIN nd1 \cup {NULL} /\ m2 \in DOMAIN nd2 \cup {NULL}
  BY DEF Alike, Corresponds
<1>2. /\ l1[0] = m1
      /\ \A k \in 1 .. NODES : l1[k] = IF l1[k - 1] \in DOMAIN nd1 THEN nd1[l1[k - 1]].next ELSE NULL
  <2>1. NULL \notin DOMAIN nd1 /\ \A i \in DOMAIN nd1 : nd1[i].next \in DOMAIN nd1 \cup {NULL}
    BY DEF Closed
  <2> QED BY <1>1, <2>1, ChainSteps
<1>3. /\ l2[0] = m2
      /\ \A k \in 1 .. NODES : l2[k] = IF l2[k - 1] \in DOMAIN nd2 THEN nd2[l2[k - 1]].next ELSE NULL
  <2>1. NULL \notin DOMAIN nd2 /\ \A i \in DOMAIN nd2 : nd2[i].next \in DOMAIN nd2 \cup {NULL}
    BY DEF Closed
  <2> QED BY <1>1, <2>1, ChainSteps
<1> HIDE DEF l1, l2
<1>4. ASSUME NEW k \in 1 .. NODES, Corresponds(h, K, l1[k - 1], l2[k - 1])
      PROVE  Corresponds(h, K, l1[k], l2[k])
  <2>1. CASE l1[k - 1] = NULL /\ l2[k - 1] = NULL
    <3>1. l1[k] = NULL /\ l2[k] = NULL
      BY <1>2, <1>3, <2>1 DEF Closed
    <3> QED BY <3>1 DEF Corresponds
  <2>2. CASE l1[k - 1] \in K /\ h[l1[k - 1]] = l2[k - 1]
    <3>1. l1[k - 1] \in DOMAIN nd1 /\ l2[k - 1] \in DOMAIN nd2
      BY <2>2 DEF Alike
    <3>2. l1[k] = nd1[l1[k - 1]].next /\ l2[k] = nd2[h[l1[k - 1]]].next
      BY <1>2, <1>3, <2>2, <3>1
    <3> QED BY <2>2, <3>2 DEF Alike
  <2> QED BY <1>4, <2>1, <2>2 DEF Corresponds
<1>5. \A k \in 0 .. NODES : Corresponds(h, K, l1[k], l2[k])
  <2> DEFINE Bad == {k \in 0 .. NODES : ~Corresponds(h, K, l1[k], l2[k])}
  <2>1. SUFFICES ASSUME Bad # {} PROVE FALSE
    OBVIOUS
  <2>2. PICK x \in Bad : \A k \in Bad : x <= k
    <3>1. Bad \subseteq Nat
      BY NullIsNoId
    <3> HIDE DEF Bad
    <3> QED BY <2>1, <3>1, Least
  <2>3. x # 0 /\ x \in 0 .. NODES /\ ~Corresponds(h, K, l1[x], l2[x])
    BY <1>2, <1>3
  <2>4. x \in 1 .. NODES /\ x - 1 \in 0 .. NODES /\ ~(x <= x - 1)
    BY <2>3, NullIsNoId
  <2>5. Corresponds(h, K, l1[x - 1], l2[x - 1])
    <3>1. x - 1 \notin Bad
      <4> HIDE DEF Bad
      <4> QED BY <2>2, <2>4
    <3> QED BY <2>4, <3>1
  <2> QED BY <1>4, <2>3, <2>4, <2>5
<1> QED BY <1>5 DEF l1, l2

\* Corresponding nodes have the same shape.
LEMMA SameShape ==
  ASSUME NEW nd1, NEW nd2, NEW M, NEW K, NEW h, Closed(nd1), Closed(nd2),
         Alike(nd1, nd2, M, K, h)
  PROVE  \A c \in M : Shape(nd1, c) = Shape(nd2, h[c])
<1>1. PICK s1 : Shapes(s1, nd1, NODES) /\ \A n : Shape(nd1, n) = s1[NODES][n]
  BY ShapeSteps
<1>2. PICK s2 : Shapes(s2, nd2, NODES) /\ \A n : Shape(nd2, n) = s2[NODES][n]
  BY ShapeSteps
<1> DEFINE Equal(b1, b2) == \A c \in M : b1[c] = b2[h[c]]
<1>3. \A c \in M : c \in DOMAIN nd1 /\ h[c] \in DOMAIN nd2
  BY DEF Alike
<1>4. ASSUME NEW b1, NEW b2, Equal(b1, b2) PROVE Equal(Level(nd1, b1), Level(nd2, b2))
  <2> SUFFICES ASSUME NEW c \in M PROVE Level(nd1, b1)[c] = Level(nd2, b2)[h[c]]
    OBVIOUS
  <2> DEFINE l1 == Chain(nd1, nd1[c].first)
             l2 == Chain(nd2, nd2[h[c]].first)
             f1 == [j \in {j \in 0 .. NODES : l1[j] # NULL} |-> <<nd1[l1[j]].name, b1[l1[j]]>>]
             f2 == [j \in {j \in 0 .. NODES : l2[j] # NULL} |-> <<nd2[l2[j]].name, b2[l2[j]]>>]
  <2>1. Level(nd1, b1)[c] = <<nd1[c].type, nd1[c].size, f1>>
    BY <1>3 DEF Level
  <2>2. Level(nd2, b2)[h[c]] = <<nd2[h[c]].type, nd2[h[c]].size, f2>>
    BY <1>3 DEF Level
  <2>3. Corresponds(h, K, nd1[c].first, nd2[h[c]].first)
        /\ nd1[c].type = nd2[h[c]].type /\ nd1[c].size = nd2[h[c]].size
    BY DEF Alike
  <2>4. \A k \in 0 .. NODES : Corresponds(h, K, l1[k], l2[k])
    BY <2>3, ListsCorrespond
  <2> HIDE DEF l1, l2
  <2>5. \A j \in 0 .. NODES : l1[j] # NULL <=> l2[j] # NULL
    BY <2>4, <1>3 DEF Corresponds, Closed, Alike
  <2>6. \A j \in 0 .. NODES : l1[j] # NULL =>
          nd1[l1[j]].name = nd2[l2[j]].name /\ b1[l1[j]] = b2[l2[j]]
    BY <1>4, <2>4 DEF Corresponds, Alike
  <2>7. f1 = f2
    <3>1. {j \in 0 .. NODES : l1[j] # NULL} = {j \in 0 .. NODES : l2[j] # NULL}
      BY <2>5
    <3> QED BY <2>6, <3>1
  <2> HIDE DEF f1, f2
  <2> QED BY <2>1, <2>2, <2>3, <2>7
<1>5. \A k \in 0 .. NODES : Equal(s1[k], s2[k])
  <2>1. Equal(s1[0], s2[0])
    BY <1>1, <1>2, <1>3 DEF Shapes, NoShape
  <2> DEFINE Bad == {k \in 0 .. NODES : ~Equal(s1[k], s2[k])}
  <2> HIDE DEF Equal
  <2>2. SUFFICES ASSUME Bad # {} PROVE FALSE
    OBVIOUS
  <2>3. PICK x \in Bad : \A k \in Bad : x <= k
    <3>1. Bad \subseteq Nat
      BY NullIsNoId
    <3> HIDE DEF Bad
    <3> QED BY <2>2, <3>1, Least
  <2>4. x # 0 /\ x \in 0 .. NODES /\ ~Equal(s1[x], s2[x])
    BY <2>1
  <2>5. x \in 1 .. NODES /\ x - 1 \in 0 .. NODES /\ ~(x <= x - 1)
    BY <2>4, NullIsNoId
  <2>6. Equal(s1[x - 1], s2[x - 1])
    <3>1. x - 1 \notin Bad
      <4> HIDE DEF Bad
      <4> QED BY <2>3, <2>5
    <3> QED BY <2>5, <3>1
  <2>7. Equal(Level(nd1, s1[x - 1]), Level(nd2, s2[x - 1]))
    BY <1>4, <2>6
  <2> QED BY <1>1, <1>2, <2>4, <2>5, <2>7 DEF Shapes
<1>6. NODES \in 0 .. NODES
  BY NullIsNoId
<1> QED BY <1>1, <1>2, <1>5, <1>6

\* What leaves a set of nodes alone that no pointer leads out of leaves their
\* shapes alone.
LEMMA ShapesStay ==
  ASSUME NEW nd1, NEW nd2, NEW O, Closed(nd1), Closed(nd2),
         O \subseteq DOMAIN nd1, O \subseteq DOMAIN nd2,
         \A i \in O : /\ nd1[i].first \in O \cup {NULL} /\ nd1[i].next \in O \cup {NULL}
                      /\ nd2[i].first = nd1[i].first /\ nd2[i].next = nd1[i].next
                      /\ nd2[i].type = nd1[i].type /\ nd2[i].size = nd1[i].size
                      /\ nd2[i].name = nd1[i].name
  PROVE  \A i \in O : Shape(nd2, i) = Shape(nd1, i)
<1> DEFINE h == [i \in O |-> i]
<1>1. \A i \in O : h[i] = i
  OBVIOUS
<1> HIDE DEF h
<1>2. \A i \in O : /\ Corresponds(h, O, nd1[i].first, nd2[i].first)
                   /\ Corresponds(h, O, nd1[i].next, nd2[i].next)
  BY <1>1 DEF Corresponds
<1>3. Alike(nd1, nd2, O, O, h)
  BY <1>1, <1>2 DEF Alike
<1>4. \A i \in O : Shape(nd1, i) = Shape(nd2, h[i])
  BY <1>3, SameShape
<1> QED BY <1>1, <1>4

\* The pointers of a forest lead to its nodes.
LEMMA ForestIsClosed ==
  ASSUME NEW nd, NEW age, Forest(nd, age)
  PROVE  Closed(nd)
  BY ForestPointers DEF Closed

-----------------------------------------------------------------------------
(* The copies and their originals. *)

\* The copies whose activation runs, and the copy of what the user named.
Started == {stack[k].copy : k \in DOMAIN stack}
Bottom == stack[Len(stack)].copy

FirstCopied(nd, made, orig, c) == Corresponds(orig, made, nd[c].first, nd[orig[c]].first)
NextCopied(nd, made, orig, c) == Corresponds(orig, made, nd[c].next, nd[orig[c]].next)

\* The nodes copy has made look like their originals, and are apart from the
\* nodes there were.
Originals(nd, made, orig, bottom) ==
  /\ made \subseteq DOMAIN nd
  /\ \A c \in made :
       /\ orig[c] \in DOMAIN nd \ made
       /\ nd[c].type = nd[orig[c]].type /\ nd[c].size = nd[orig[c]].size
       /\ nd[c].name = nd[orig[c]].name
       /\ c # bottom => nd[c].parent \in made
  /\ \A i \in DOMAIN nd \ made :
       /\ nd[i].first \in (DOMAIN nd \ made) \cup {NULL}
       /\ nd[i].next \in (DOMAIN nd \ made) \cup {NULL}

\* An activation copies the child after the original of lastCopy.
InStep(nd, made, orig, a) ==
  /\ a.lastCopy = NULL => a.child = nd[orig[a.copy]].first
  /\ a.lastCopy # NULL => /\ a.lastCopy \in made /\ a.child = nd[orig[a.lastCopy]].next
                          /\ FirstCopied(nd, made, orig, a.copy)

\* A copy that is complete has the pointers of its original, but for the last of
\* a list that is not.
Finished(nd, made, orig) ==
  \A c \in made \ Started :
    /\ FirstCopied(nd, made, orig, c)
    /\ NextCopied(nd, made, orig, c) \/ \E k \in DOMAIN stack : stack[k].lastCopy = c

Copied(made, orig) ==
  /\ Originals(node, made, orig, Bottom)
  /\ dest.parent \in DOMAIN node \ made /\ Started \subseteq made
  /\ Finished(node, made, orig)
  /\ \A k \in DOMAIN stack : /\ InStep(node, made, orig, stack[k])
                             /\ k > 1 => stack[k].child = orig[stack[k - 1].copy]
  /\ image = Shape(node, orig[Bottom])

CopyInv == pc = "clone" => \E made, orig : Copied(made, orig)

\* cloneNode begins with the first child, if there is one.
LEMMA CloningFirst ==
  ASSUME NEW age, Typed(node), Forest(node, age), NEW n \in DOMAIN node, NEW c
  PROVE  /\ Cloning(n, c).copy = c /\ Cloning(n, c).lastCopy = NULL
         /\ Cloning(n, c).child = node[n].first
<1>1. node[n].type # "Folder" => node[n].first = NULL
  BY DEF Forest, FirstOk
<1> QED BY <1>1 DEF Cloning

\* The size is that of the original, also where its content found no memory.
LEMMA CloneSize ==
  ASSUME NEW nd, NEW n, NEW p, NEW ok
  PROVE  CloneOf(nd, n, p, ok).size = nd[n].size
  BY DEF CloneOf, NewNode

\* copy starts: there is one copy, of the node named.
LEMMA CopyStarts ==
  ASSUME NEW age \in [Ids -> Nat], IInv(age), Inv', NEW path \in Paths, NEW to \in Paths,
         NEW ok \in BOOLEAN, Copy(path, to, ok)
  PROVE  CopyInv'
<1> DEFINE r == ResolveParent(to)
           p == r.parent
           n == Resolve(path)
           c == Fresh(node)
           rec == CloneOf(node, n, p, ok)
           a == Cloning(n, c)
<1>1. /\ Ready /\ r # NoParent /\ n # NULL /\ ~Full(node)
      /\ dest' = r /\ node' = Add(node, c, CloneOf(node, n, dest'.parent, ok))
      /\ pc' = "clone" /\ stack' = <<a>> /\ image' = Shape(node, n)
  BY DEF Copy, CopyTarget
<1>2. World(node, {}, current, age) /\ current \in DOMAIN node
  BY <1>1, Prompt
<1>3. Typed(node) /\ Forest(node, age) /\ DOMAIN node \subseteq Ids /\ Sizes(node) /\ Named(node)
      /\ Root \in DOMAIN node
  BY <1>2 DEF World, Typed, RootOk
<1>4. p \in DOMAIN node /\ n \in DOMAIN node
  BY <1>1, <1>2, ResolveParentStays, ResolveStays
<1>5. c \in Ids /\ c \notin DOMAIN node
  BY <1>1, <1>3, FreshIsFree
<1>6. PICK age2 : Forest(node', age2)
  BY DEF Inv, IInv, World
<1>7. dest'.parent = p /\ node' = Add(node, c, rec)
  BY <1>1
<1> HIDE DEF n, r, c
<1>8. /\ rec.first = NULL /\ rec.next = NULL /\ rec.parent = p
      /\ rec.name = node[n].name /\ rec.type = node[n].type /\ rec.size = node[n].size
  <2>1. p \in Ids
    BY <1>3, <1>4
  <2> HIDE DEF p
  <2> QED BY <1>3, <1>4, <2>1, CloneIsNode, CloneSize
<1> HIDE DEF p, rec
<1>9. /\ DOMAIN node' = DOMAIN node \cup {c} /\ node'[c] = rec
      /\ \A j \in DOMAIN node : node'[j] = node[j]
  BY <1>5, <1>7 DEF Add
<1>10. a.copy = c /\ a.lastCopy = NULL /\ a.child = node[n].first
  BY <1>3, <1>4, CloningFirst
<1> HIDE DEF a
<1>11. DOMAIN stack' = {1} /\ stack'[1] = a /\ Len(stack') = 1
  BY <1>1
<1>12. Bottom' = c /\ Started' = {c}
  BY <1>10, <1>11 DEF Bottom, Started
<1>0. PICK made, orig : made = {c} /\ orig = [x \in {c} |-> n]
  OBVIOUS
<1>13. orig[c] = n /\ c # n /\ made = {c}
  BY <1>0, <1>4, <1>5
<1>14. DOMAIN node' \ made = DOMAIN node
  BY <1>5, <1>9, <1>13
<1>15. Closed(node) /\ Closed(node')
  BY <1>3, <1>6, ForestIsClosed
<1>16. Originals(node', made, orig, Bottom')
  BY <1>4, <1>8, <1>9, <1>12, <1>13, <1>14, <1>15 DEF Originals, Closed
<1>17. dest'.parent \in DOMAIN node' \ made
  BY <1>4, <1>7, <1>14
<1>18. Finished(node, made, orig)'
  BY <1>12, <1>13 DEF Finished
<1>19. \A k \in DOMAIN stack' : /\ InStep(node', made, orig, stack'[k])
                                /\ k > 1 => stack'[k].child = orig[stack'[k - 1].copy]
  BY <1>4, <1>9, <1>10, <1>11, <1>13 DEF InStep
<1>20. Shape(node', n) = Shape(node, n)
  <2>1. \A i \in DOMAIN node : Shape(node', i) = Shape(node, i)
    <3>1. \A i \in DOMAIN node :
            /\ node[i].first \in DOMAIN node \cup {NULL} /\ node[i].next \in DOMAIN node \cup {NULL}
            /\ node'[i].first = node[i].first /\ node'[i].next = node[i].next
            /\ node'[i].type = node[i].type /\ node'[i].size = node[i].size
            /\ node'[i].name = node[i].name
      BY <1>9, <1>15 DEF Closed
    <3>2. DOMAIN node \subseteq DOMAIN node'
      BY <1>9
    <3> QED BY <1>15, <3>1, <3>2, ShapesStay
  <2> QED BY <1>4, <2>1
<1>21. Copied(made, orig)'
  BY <1>1, <1>12, <1>13, <1>16, <1>17, <1>18, <1>19, <1>20 DEF Copied
<1> QED BY <1>21 DEF CopyInv

\* The next child's copy begins: the correspondence has one node more.
LEMMA CloneChildCopies ==
  ASSUME NEW age \in [Ids -> Nat], IInv(age), Inv', CopyInv, NEW ok \in BOOLEAN, CloneChild(ok)
  PROVE  CopyInv'
<1> DEFINE top == stack[1]
           n == top.child
           p == top.copy
           c == Fresh(node)
           rec == CloneOf(node, n, p, ok)
           a == Cloning(n, c)
           N == Len(stack)
<1>1. /\ Copying /\ Head(stack).child # NULL /\ ~Full(node)
      /\ node' = Add(node, c, CloneOf(node, Head(stack).child, Head(stack).copy, ok))
      /\ stack' = <<Cloning(Head(stack).child, c)>> \o stack
      /\ UNCHANGED <<pc, dest, image>>
  BY DEF CloneChild
<1>2. /\ Typed(node) /\ Forest(node, age) /\ RootOk(node) /\ Sizes(node) /\ Named(node)
      /\ pc = "clone" /\ stack \in Seq(Clones) /\ stack # <<>> /\ ClonesOk(age)
  BY <1>1, CopyTurn
<1>3. /\ N \in Nat /\ N > 0 /\ DOMAIN stack = 1 .. N /\ Head(stack) = top
      /\ 1 \in DOMAIN stack /\ N \in DOMAIN stack
  BY <1>2, Popped
<1>4. \A k \in DOMAIN stack : CopyOk(node, stack[k])
  BY <1>2 DEF ClonesOk
<1>5. n # NULL /\ n \in DOMAIN node /\ p \in DOMAIN node
  BY <1>1, <1>3, <1>4 DEF CopyOk
<1>6. DOMAIN node \subseteq Ids /\ Root \in DOMAIN node
  BY <1>2 DEF Typed, RootOk
<1>7. c \in Ids /\ c \notin DOMAIN node
  BY <1>1, <1>6, FreshIsFree
<1>8. node' = Add(node, c, rec) /\ stack' = <<a>> \o stack
  BY <1>1, <1>3
<1> HIDE DEF n, p, c
<1>9. /\ rec.first = NULL /\ rec.next = NULL /\ rec.parent = p
      /\ rec.name = node[n].name /\ rec.type = node[n].type /\ rec.size = node[n].size
  <2>1. p \in Ids
    BY <1>5, <1>6
  <2> QED BY <1>2, <1>5, <2>1, CloneIsNode, CloneSize
<1> HIDE DEF rec
<1>10. /\ DOMAIN node' = DOMAIN node \cup {c} /\ node'[c] = rec
       /\ \A j \in DOMAIN node : node'[j] = node[j]
  BY <1>7, <1>8 DEF Add
<1>11. a.copy = c /\ a.lastCopy = NULL /\ a.child = node[n].first /\ a \in Clones
  <2>1. a.copy = c /\ a.lastCopy = NULL /\ a.child = node[n].first
    BY <1>2, <1>5, CloningFirst
  <2>2. node[n].first \in Ids \cup {NULL}
    BY <1>2, <1>5, Fields
  <2>3. a = [copy |-> c, child |-> a.child, lastCopy |-> NULL]
    BY DEF Cloning
  <2> HIDE DEF a
  <2> QED BY <1>7, <2>1, <2>2, <2>3 DEF Clones
<1> HIDE DEF a, top, N
<1>12. /\ Len(stack') = N + 1 /\ DOMAIN stack' = 1 .. N + 1 /\ stack'[1] = a
       /\ \A k \in 1 .. N + 1 : k > 1 => stack'[k] = stack[k - 1]
  BY <1>2, <1>8, <1>11, Pushed DEF N
<1>13. /\ \A k \in DOMAIN stack' : k > 1 => k - 1 \in DOMAIN stack /\ stack'[k] = stack[k - 1]
       /\ \A k \in DOMAIN stack' : k = 1 \/ k > 1
       /\ 1 \in DOMAIN stack'
       /\ \A k \in DOMAIN stack : k + 1 \in DOMAIN stack' /\ stack'[k + 1] = stack[k]
  BY <1>3, <1>12
<1>14. Bottom' = Bottom /\ Bottom \in DOMAIN node
  <2>1. N + 1 \in DOMAIN stack' /\ N + 1 > 1 /\ (N + 1) - 1 = N
    BY <1>3, <1>12
  <2>2. stack'[Len(stack')] = stack[N]
    BY <1>12, <1>13, <2>1
  <2> QED BY <1>3, <1>4, <2>2 DEF Bottom, N, CopyOk
<1>15. /\ \A x : x \in Started' <=> x \in Started \/ x = c
       /\ Started \subseteq DOMAIN node
  <2>1. ASSUME NEW x, x \in Started' PROVE x \in Started \/ x = c
    <3>1. PICK k \in DOMAIN stack' : x = stack'[k].copy
      BY <2>1 DEF Started
    <3>2. CASE k = 1
      BY <1>11, <1>12, <3>1, <3>2
    <3>3. CASE k > 1
      <4>1. k - 1 \in DOMAIN stack /\ x = stack[k - 1].copy
        BY <1>13, <3>1, <3>3
      <4> QED BY <4>1 DEF Started
    <3> QED BY <1>13, <3>2, <3>3
  <2>2. c \in Started'
    BY <1>11, <1>12, <1>13 DEF Started
  <2>3. \A x \in Started : x \in Started'
    BY <1>13 DEF Started
  <2> QED BY <1>4, <2>1, <2>2, <2>3 DEF Started, CopyOk
<1>16. PICK made, orig : Copied(made, orig)
  BY <1>2 DEF CopyInv
<1>17. /\ Originals(node, made, orig, Bottom)
       /\ dest.parent \in DOMAIN node \ made /\ Started \subseteq made
       /\ Finished(node, made, orig)
       /\ \A k \in DOMAIN stack : /\ InStep(node, made, orig, stack[k])
                                  /\ k > 1 => stack[k].child = orig[stack[k - 1].copy]
       /\ image = Shape(node, orig[Bottom])
  BY <1>16 DEF Copied
<1>18. PICK made2, orig2 : /\ made2 = made \cup {c}
                           /\ orig2 = [x \in made \cup {c} |-> IF x = c THEN n ELSE orig[x]]
  OBVIOUS
<1>19. /\ made \subseteq DOMAIN node /\ c \notin made
       /\ orig2[c] = n /\ \A x \in made : orig2[x] = orig[x]
       /\ \A x \in made : orig[x] \in DOMAIN node \ made
  BY <1>7, <1>17, <1>18 DEF Originals
<1>20. DOMAIN node' \ made2 = DOMAIN node \ made
  BY <1>7, <1>10, <1>18
<1>21. p \in made /\ p \in Started
  BY <1>3, <1>17 DEF Started, p, top
<1>22. n \in DOMAIN node \ made
  <2>1. InStep(node, made, orig, top)
    BY <1>3, <1>17 DEF top
  <2>2. CASE top.lastCopy = NULL
    <3>1. n = node[orig[p]].first
      BY <2>1, <2>2 DEF InStep, n, p
    <3> QED BY <1>5, <1>17, <1>19, <1>21, <3>1 DEF Originals
  <2>3. CASE top.lastCopy # NULL
    <3>1. top.lastCopy \in made /\ n = node[orig[top.lastCopy]].next
      BY <2>1, <2>3 DEF InStep, n
    <3> QED BY <1>5, <1>17, <1>19, <3>1 DEF Originals
  <2> QED BY <2>2, <2>3
<1>23. \A x \in made :
         /\ FirstCopied(node, made, orig, x) => FirstCopied(node', made2, orig2, x)
         /\ NextCopied(node, made, orig, x) => NextCopied(node', made2, orig2, x)
  <2>1. \A i, j : Corresponds(orig, made, i, j) => Corresponds(orig2, made2, i, j)
    BY <1>18, <1>19 DEF Corresponds
  <2>2. \A x \in made : /\ node'[x] = node[x] /\ orig2[x] = orig[x]
                        /\ node'[orig[x]] = node[orig[x]]
    BY <1>10, <1>19
  <2> QED BY <2>1, <2>2 DEF FirstCopied, NextCopied
<1>24. Originals(node', made2, orig2, Bottom')
  <2>1. made2 \subseteq DOMAIN node'
    BY <1>10, <1>18, <1>19
  <2>2. ASSUME NEW x \in made2
        PROVE  /\ orig2[x] \in DOMAIN node' \ made2
               /\ node'[x].type = node'[orig2[x]].type /\ node'[x].size = node'[orig2[x]].size
               /\ node'[x].name = node'[orig2[x]].name
               /\ x # Bottom' => node'[x].parent \in made2
    <3>1. CASE x = c
      BY <1>9, <1>10, <1>18, <1>19, <1>20, <1>21, <1>22, <3>1
    <3>2. CASE x \in made
      <4>1. orig2[x] = orig[x] /\ orig[x] \in DOMAIN node \ made /\ node'[x] = node[x]
            /\ node'[orig[x]] = node[orig[x]]
        BY <1>10, <1>19, <3>2
      <4>2. /\ node[x].type = node[orig[x]].type /\ node[x].size = node[orig[x]].size
            /\ node[x].name = node[orig[x]].name
            /\ x # Bottom => node[x].parent \in made
        BY <1>17, <3>2 DEF Originals
      <4> QED BY <1>14, <1>18, <1>20, <4>1, <4>2
    <3> QED BY <1>18, <3>1, <3>2
  <2>3. \A i \in DOMAIN node' \ made2 :
          /\ node'[i].first \in (DOMAIN node' \ made2) \cup {NULL}
          /\ node'[i].next \in (DOMAIN node' \ made2) \cup {NULL}
    BY <1>10, <1>17, <1>20 DEF Originals
  <2> QED BY <2>1, <2>2, <2>3 DEF Originals
<1>25. dest'.parent \in DOMAIN node' \ made2 /\ Started' \subseteq made2
  BY <1>1, <1>15, <1>17, <1>18, <1>20
<1>26. Finished(node, made2, orig2)'
  <2> SUFFICES ASSUME NEW x \in made2 \ Started'
               PROVE  /\ FirstCopied(node', made2, orig2, x)
                      /\ NextCopied(node', made2, orig2, x)
                         \/ \E k \in DOMAIN stack' : stack'[k].lastCopy = x
    BY DEF Finished
  <2>1. x \in made \ Started
    BY <1>15, <1>18
  <2>2. /\ FirstCopied(node, made, orig, x)
        /\ NextCopied(node, made, orig, x) \/ \E k \in DOMAIN stack : stack[k].lastCopy = x
    BY <1>17, <2>1 DEF Finished
  <2> QED BY <1>13, <1>23, <2>1, <2>2
<1>27. ASSUME NEW k \in DOMAIN stack'
       PROVE  /\ InStep(node', made2, orig2, stack'[k])
              /\ k > 1 => stack'[k].child = orig2[stack'[k - 1].copy]
  <2>1. CASE k = 1
    <3>1. node'[orig2[c]].first = node[n].first
      BY <1>5, <1>10, <1>19
    <3> QED BY <1>11, <1>12, <2>1, <3>1 DEF InStep
  <2>2. CASE k > 1
    <3>1. k - 1 \in DOMAIN stack /\ stack'[k] = stack[k - 1] /\ k - 1 \in DOMAIN stack'
      BY <1>3, <1>12, <1>13, <2>2
    <3>2. InStep(node, made, orig, stack[k - 1]) /\ stack[k - 1].copy \in made
      BY <1>17, <3>1 DEF Started
    <3>3. InStep(node', made2, orig2, stack[k - 1])
      <4>1. \A x \in made : orig2[x] = orig[x] /\ node'[orig[x]] = node[orig[x]]
        BY <1>10, <1>19
      <4> QED BY <1>18, <1>23, <3>2, <4>1 DEF InStep
    <3>4. stack[k - 1].child = orig2[stack'[k - 1].copy]
      <4>1. CASE k - 1 = 1
        <5>1. stack[k - 1].child = n /\ stack'[k - 1].copy = c
          BY <1>11, <1>12, <4>1 DEF n, top
        <5> QED BY <1>19, <5>1
      <4>2. CASE k - 1 > 1
        <5>1. (k - 1) - 1 \in DOMAIN stack /\ stack'[k - 1] = stack[(k - 1) - 1]
          BY <1>13, <3>1, <4>2
        <5>2. stack[k - 1].child = orig[stack[(k - 1) - 1].copy] /\ stack[(k - 1) - 1].copy \in made
          BY <1>17, <3>1, <4>2, <5>1 DEF Started
        <5> QED BY <1>19, <5>1, <5>2
      <4>3. \A j \in DOMAIN stack : j = 1 \/ j > 1
        BY <1>3
      <4> QED BY <3>1, <4>1, <4>2, <4>3
    <3> QED BY <3>1, <3>3, <3>4
  <2> QED BY <1>13, <2>1, <2>2
<1>28. image' = Shape(node', orig2[Bottom'])
  <2>1. PICK age2 : Forest(node', age2)
    BY DEF Inv, IInv, World
  <2>2. Closed(node) /\ Closed(node')
    BY <1>2, <2>1, ForestIsClosed
  <2> DEFINE O == DOMAIN node \ made
  <2>3. \A i \in O : /\ node[i].first \in O \cup {NULL} /\ node[i].next \in O \cup {NULL}
                     /\ node'[i].first = node[i].first /\ node'[i].next = node[i].next
                     /\ node'[i].type = node[i].type /\ node'[i].size = node[i].size
                     /\ node'[i].name = node[i].name
    BY <1>10, <1>17 DEF Originals
  <2>4. O \subseteq DOMAIN node /\ O \subseteq DOMAIN node'
    BY <1>10
  <2>5. Bottom \in made
    BY <1>3, <1>17 DEF Bottom, Started, N
  <2>6. orig2[Bottom'] = orig[Bottom] /\ orig[Bottom] \in O
    BY <1>14, <1>19, <2>5
  <2> HIDE DEF O
  <2>7. \A i \in O : Shape(node', i) = Shape(node, i)
    BY <2>2, <2>3, <2>4, ShapesStay
  <2> QED BY <1>1, <1>17, <2>6, <2>7
<1>29. Copied(made2, orig2)'
  BY <1>24, <1>25, <1>26, <1>27, <1>28 DEF Copied
<1> QED BY <1>29 DEF CopyInv

\* A copy without a child left to copy has all of its original's list.
LEMMA ListComplete ==
  ASSUME NEW made, NEW orig, Copied(made, orig), NEW k \in DOMAIN stack,
         CopyOk(node, stack[k]), stack[k].child = NULL, NULL \notin made
  PROVE  /\ FirstCopied(node, made, orig, stack[k].copy)
         /\ stack[k].lastCopy # NULL => NextCopied(node, made, orig, stack[k].lastCopy)
<1>1. InStep(node, made, orig, stack[k])
  BY DEF Copied
<1>2. CASE stack[k].lastCopy = NULL
  <2>1. node[stack[k].copy].first = NULL /\ node[orig[stack[k].copy]].first = NULL
    BY <1>1, <1>2 DEF InStep, CopyOk
  <2> QED BY <1>2, <2>1 DEF FirstCopied, Corresponds
<1>3. CASE stack[k].lastCopy # NULL
  <2>1. node[stack[k].lastCopy].next = NULL /\ node[orig[stack[k].lastCopy]].next = NULL
    BY <1>1, <1>3 DEF InStep, CopyOk
  <2> QED BY <1>1, <1>3, <2>1 DEF InStep, NextCopied, Corresponds
<1> QED BY <1>2, <1>3

\* A copy is complete and linked: it is what its original is to its parent or
\* to the child before it.
LEMMA CloneReturnsCopies ==
  ASSUME NEW age \in [Ids -> Nat], IInv(age), Inv', CopyInv, CloneReturns
  PROVE  CopyInv'
<1> DEFINE c == stack[1].copy
           up == stack[2]
           p == up.copy
           l == up.lastCopy
           m == up.child
           a == [up EXCEPT !.child = node[@].next, !.lastCopy = c]
           N == Len(stack)
<1>1. /\ Copying /\ Head(stack).child = NULL /\ Len(stack) > 1
      /\ stack' = <<[up EXCEPT !.child = node[@].next, !.lastCopy = Head(stack).copy]>>
                    \o SubSeq(stack, 3, Len(stack))
      /\ UNCHANGED <<pc, dest, image>>
  BY DEF CloneReturns
<1>2. /\ Typed(node) /\ Forest(node, age) /\ pc = "clone"
      /\ stack \in Seq(Clones) /\ stack # <<>> /\ ClonesOk(age)
  BY <1>1, CopyTurn
<1>3. /\ N \in Nat /\ N > 1 /\ DOMAIN stack = 1 .. N /\ Head(stack) = stack[1]
      /\ \A k \in DOMAIN stack : stack[k] \in Clones
  BY <1>1, <1>2, Popped
<1>4. /\ \A k \in DOMAIN stack : CopyOk(node, stack[k])
      /\ \A k \in DOMAIN stack : k > 1 =>
           node[stack[k - 1].copy].parent = stack[k].copy
      /\ \A j, k \in DOMAIN stack : j < k => age[stack[k].copy] < age[stack[j].copy]
  BY <1>2 DEF ClonesOk
<1>5. 1 \in DOMAIN stack /\ 2 \in DOMAIN stack /\ N \in DOMAIN stack /\ 2 > 1 /\ 2 - 1 = 1
  BY <1>3
<1>6. /\ NULL \notin DOMAIN node
      /\ \A i \in DOMAIN node : age[i] \in Nat
  BY <1>2, ForestPointers DEF Typed
<1>7. \A j, k \in DOMAIN stack : stack[j].copy = stack[k].copy => j = k
  <2> SUFFICES ASSUME NEW j \in DOMAIN stack, NEW k \in DOMAIN stack,
                      stack[j].copy = stack[k].copy, j # k
               PROVE  FALSE
    OBVIOUS
  <2>1. j < k \/ k < j
    BY <1>3
  <2>2. age[stack[j].copy] \in Nat
    BY <1>4, <1>6 DEF CopyOk
  <2> QED BY <1>4, <2>1, <2>2
<1>8. /\ c \in DOMAIN node /\ p \in DOMAIN node /\ p # c /\ c # NULL /\ p # NULL
      /\ ~Pointed(node, c)
      /\ l = NULL <=> node[p].first = NULL
      /\ l # NULL => ChildOf(node, l, p)
  <2>1. CopyOk(node, stack[1]) /\ CopyOk(node, up)
    BY <1>4, <1>5
  <2>2. p # c
    BY <1>5, <1>7
  <2> QED BY <1>6, <2>1, <2>2 DEF CopyOk, Placed
<1>9. stack' = <<a>> \o SubSeq(stack, 3, Len(stack))
  BY <1>1, <1>3
<1>10. a \in Clones /\ a.copy = p /\ a.child = node[m].next /\ a.lastCopy = c
  <2>1. up \in Clones /\ m # NULL /\ m \in DOMAIN node
    BY <1>2, <1>3, <1>5 DEF ClonesOk, CopyOk
  <2>2. node[m].next \in Ids \cup {NULL} /\ c \in Ids
    BY <1>2, <1>8, <2>1, Fields DEF Typed
  <2> HIDE DEF c
  <2> QED BY <2>1, <2>2 DEF Clones
<1>11. Linked(node, node', p, l, c)
  BY CloneReturnsKeeps
<1> HIDE DEF a, c, p, l, m, N
<1>12. /\ DOMAIN node' = DOMAIN node
       /\ \A i \in DOMAIN node : Same(node, node', i)
       /\ \A i \in DOMAIN node :
            node'[i].first = IF i = p /\ node[p].first = NULL THEN c ELSE node[i].first
       /\ \A i \in DOMAIN node :
            node'[i].next = IF i = l /\ node[p].first # NULL THEN c ELSE node[i].next
  BY <1>11 DEF Linked
<1>13. /\ Len(stack') = N - 1 /\ DOMAIN stack' = 1 .. N - 1 /\ stack'[1] = a
       /\ \A k \in 1 .. N - 1 : k > 1 => stack'[k] = stack[k + 1]
  BY <1>2, <1>3, <1>9, <1>10, Returned DEF N
<1>14. /\ \A k \in DOMAIN stack' : k > 1 => k + 1 \in DOMAIN stack /\ k + 1 > 2 /\ stack'[k] = stack[k + 1]
       /\ \A k \in DOMAIN stack' : k = 1 \/ k > 1
       /\ 1 \in DOMAIN stack'
       /\ \A k \in DOMAIN stack : k = 1 \/ k = 2 \/ (k > 2 /\ k - 1 \in DOMAIN stack' /\ stack'[k - 1] = stack[k])
  <2>1. \A k \in DOMAIN stack' : k > 1 => k + 1 \in DOMAIN stack /\ k + 1 > 2 /\ stack'[k] = stack[k + 1]
    BY <1>3, <1>13
  <2>2. \A k \in 1 .. N : k = 1 \/ k = 2 \/ (k > 2 /\ k - 1 \in 1 .. N - 1 /\ k - 1 > 1 /\ (k - 1) + 1 = k)
    BY <1>3
  <2>3. 1 \in 1 .. N - 1 /\ \A k \in 1 .. N - 1 : k = 1 \/ k > 1
    BY <1>3
  <2> QED BY <1>3, <1>13, <2>1, <2>2, <2>3
<1>15. Bottom' = Bottom
  <2>1. CASE N = 2
    <3>1. stack'[Len(stack')] = a /\ stack[Len(stack)] = up
      BY <1>13, <2>1 DEF N
    <3> QED BY <1>10, <3>1 DEF Bottom, p
  <2>2. CASE N # 2
    <3>1. N - 1 \in DOMAIN stack' /\ N - 1 > 1 /\ (N - 1) + 1 = N
      BY <1>3, <1>13, <2>2
    <3>2. stack'[Len(stack')] = stack[N]
      BY <1>13, <1>14, <3>1
    <3> QED BY <3>2 DEF Bottom, N
  <2> QED BY <2>1, <2>2
<1>16. \A x : x \in Started <=> x \in Started' \/ x = c
  <2>1. ASSUME NEW x, x \in Started PROVE x \in Started' \/ x = c
    <3>1. PICK k \in DOMAIN stack : x = stack[k].copy
      BY <2>1 DEF Started
    <3>2. CASE k = 1
      BY <3>1, <3>2 DEF c
    <3>3. CASE k = 2
      <4>1. x = stack'[1].copy
        BY <1>10, <1>13, <3>1, <3>3 DEF p
      <4> QED BY <1>14, <4>1 DEF Started
    <3>4. CASE k > 2 /\ k - 1 \in DOMAIN stack' /\ stack'[k - 1] = stack[k]
      BY <3>1, <3>4 DEF Started
    <3> QED BY <1>14, <3>2, <3>3, <3>4
  <2>2. ASSUME NEW x, x \in Started' PROVE x \in Started
    <3>1. PICK k \in DOMAIN stack' : x = stack'[k].copy
      BY <2>2 DEF Started
    <3>2. CASE k = 1
      BY <1>5, <1>10, <1>13, <3>1, <3>2 DEF Started, p
    <3>3. CASE k > 1
      <4>1. k + 1 \in DOMAIN stack /\ x = stack[k + 1].copy
        BY <1>14, <3>1, <3>3
      <4> QED BY <4>1 DEF Started
    <3> QED BY <1>14, <3>2, <3>3
  <2>3. c \in Started
    BY <1>5 DEF Started, c
  <2> QED BY <2>1, <2>2, <2>3
<1>17. PICK made, orig : Copied(made, orig)
  BY <1>2 DEF CopyInv
<1>18. /\ Originals(node, made, orig, Bottom)
       /\ dest.parent \in DOMAIN node \ made /\ Started \subseteq made
       /\ Finished(node, made, orig)
       /\ \A k \in DOMAIN stack : /\ InStep(node, made, orig, stack[k])
                                  /\ k > 1 => stack[k].child = orig[stack[k - 1].copy]
       /\ image = Shape(node, orig[Bottom])
  BY <1>17 DEF Copied
<1>19. /\ made \subseteq DOMAIN node /\ NULL \notin made
       /\ \A x \in made : orig[x] \in DOMAIN node \ made
       /\ c \in made /\ p \in made /\ p \in Started'
       /\ l # NULL => l \in made
       /\ m = orig[c]
  <2>1. c \in made /\ p \in made
    BY <1>5, <1>18 DEF Started, c, p
  <2>2. p \in Started'
    BY <1>10, <1>13, <1>14 DEF Started
  <2>3. l # NULL => l \in made
    BY <1>5, <1>18 DEF InStep, l
  <2>4. m = orig[c]
    BY <1>5, <1>18 DEF m, c
  <2> QED BY <1>6, <1>18, <2>1, <2>2, <2>3, <2>4 DEF Originals
\* The nodes there were are as they were.
<1>20. \A i \in DOMAIN node \ made :
         /\ node'[i].first = node[i].first /\ node'[i].next = node[i].next
         /\ node'[i].type = node[i].type /\ node'[i].size = node[i].size
         /\ node'[i].name = node[i].name
  BY <1>8, <1>12, <1>19 DEF Same
<1>21. \A x \in made \ {p} : FirstCopied(node, made, orig, x) => FirstCopied(node', made, orig, x)
  <2>1. \A x \in made \ {p} : node'[x].first = node[x].first /\ node'[orig[x]].first = node[orig[x]].first
    BY <1>12, <1>19, <1>20
  <2> QED BY <2>1 DEF FirstCopied
<1>22. \A x \in made : x # l => (NextCopied(node, made, orig, x) => NextCopied(node', made, orig, x))
  <2>1. \A x \in made : x # l => /\ node'[x].next = node[x].next
                                 /\ node'[orig[x]].next = node[orig[x]].next
    BY <1>12, <1>19, <1>20
  <2> QED BY <2>1 DEF NextCopied
<1>23. InStep(node, made, orig, up)
  BY <1>5, <1>18
<1>24. l # NULL => NextCopied(node', made, orig, l)
  <2> SUFFICES ASSUME l # NULL PROVE NextCopied(node', made, orig, l)
    OBVIOUS
  <2>1. node'[l].next = c /\ node'[orig[l]].next = node[orig[l]].next
    BY <1>8, <1>12, <1>19, <1>20
  <2>2. orig[c] = node[orig[l]].next
    BY <1>19, <1>23 DEF InStep, l, m
  <2> QED BY <1>19, <2>1, <2>2 DEF NextCopied, Corresponds
<1>25. FirstCopied(node', made, orig, p)
  <2>1. CASE l = NULL
    <3>1. node'[p].first = c /\ node'[orig[p]].first = node[orig[p]].first
      BY <1>8, <1>12, <1>19, <1>20, <2>1
    <3>2. orig[c] = node[orig[p]].first
      BY <1>19, <1>23, <2>1 DEF InStep, l, m, p
    <3> QED BY <1>19, <3>1, <3>2 DEF FirstCopied, Corresponds
  <2>2. CASE l # NULL
    <3>1. node'[p].first = node[p].first /\ node'[orig[p]].first = node[orig[p]].first
      BY <1>8, <1>12, <1>19, <1>20, <2>2
    <3>2. FirstCopied(node, made, orig, p)
      BY <1>23, <2>2 DEF InStep, l, p
    <3> QED BY <3>1, <3>2 DEF FirstCopied
  <2> QED BY <2>1, <2>2
<1>26. /\ FirstCopied(node, made, orig, c)
       /\ stack[1].lastCopy # NULL => NextCopied(node, made, orig, stack[1].lastCopy)
  <2>1. CopyOk(node, stack[1]) /\ stack[1].child = NULL
    BY <1>1, <1>3, <1>4, <1>5
  <2> QED BY <1>5, <1>17, <1>19, <2>1, ListComplete DEF c
<1>27. Originals(node', made, orig, Bottom')
  <2>1. \A x \in made :
          /\ orig[x] \in DOMAIN node' \ made
          /\ node'[x].type = node'[orig[x]].type /\ node'[x].size = node'[orig[x]].size
          /\ node'[x].name = node'[orig[x]].name
          /\ x # Bottom' => node'[x].parent \in made
    BY <1>12, <1>15, <1>18, <1>19 DEF Originals, Same
  <2>2. \A i \in DOMAIN node' \ made :
          /\ node'[i].first \in (DOMAIN node' \ made) \cup {NULL}
          /\ node'[i].next \in (DOMAIN node' \ made) \cup {NULL}
    BY <1>12, <1>18, <1>20 DEF Originals
  <2> QED BY <1>12, <1>19, <2>1, <2>2 DEF Originals
<1>28. dest'.parent \in DOMAIN node' \ made /\ Started' \subseteq made
  BY <1>1, <1>12, <1>16, <1>18
<1>29. Finished(node, made, orig)'
  <2> SUFFICES ASSUME NEW x \in made \ Started'
               PROVE  /\ FirstCopied(node', made, orig, x)
                      /\ NextCopied(node', made, orig, x)
                         \/ \E k \in DOMAIN stack' : stack'[k].lastCopy = x
    BY DEF Finished
  <2>1. x # p /\ x # NULL
    BY <1>19
  <2>2. CASE x = c
    <3>1. FirstCopied(node', made, orig, x)
      BY <1>21, <1>26, <2>1, <2>2
    <3>2. stack'[1].lastCopy = x
      BY <1>10, <1>13, <2>2
    <3> QED BY <1>14, <3>1, <3>2
  <2>3. CASE x = l
    <3>1. x \in made \ Started \/ x = c
      BY <1>16
    <3>2. FirstCopied(node, made, orig, x)
      BY <1>18, <1>26, <3>1 DEF Finished
    <3> QED BY <1>21, <1>24, <2>1, <2>3, <3>2
  <2>4. CASE x # c /\ x # l
    <3>1. x \in made \ Started
      BY <1>16, <2>4
    <3>2. /\ FirstCopied(node, made, orig, x)
          /\ NextCopied(node, made, orig, x) \/ \E k \in DOMAIN stack : stack[k].lastCopy = x
      BY <1>18, <3>1 DEF Finished
    <3>3. CASE NextCopied(node, made, orig, x)
      BY <1>21, <1>22, <2>1, <2>4, <3>2, <3>3
    <3>4. ASSUME NEW k \in DOMAIN stack, stack[k].lastCopy = x
          PROVE  NextCopied(node', made, orig, x) \/ \E j \in DOMAIN stack' : stack'[j].lastCopy = x
      <4>1. CASE k = 1
        BY <1>22, <1>26, <2>1, <2>4, <3>4, <4>1
      <4>2. CASE k = 2
        BY <2>4, <3>4, <4>2 DEF l
      <4>3. CASE k > 2 /\ k - 1 \in DOMAIN stack' /\ stack'[k - 1] = stack[k]
        BY <3>4, <4>3
      <4> QED BY <1>14, <4>1, <4>2, <4>3
    <3> QED BY <1>21, <2>1, <3>2, <3>3, <3>4
  <2> QED BY <2>2, <2>3, <2>4
<1>30. ASSUME NEW k \in DOMAIN stack'
       PROVE  /\ InStep(node', made, orig, stack'[k])
              /\ k > 1 => stack'[k].child = orig[stack'[k - 1].copy]
  <2>1. CASE k = 1
    <3>1. a.child = node'[orig[c]].next
      BY <1>10, <1>19, <1>20
    <3> QED BY <1>8, <1>10, <1>13, <1>19, <1>25, <2>1, <3>1 DEF InStep
  <2>2. CASE k > 1
    <3>1. k + 1 \in DOMAIN stack /\ k + 1 > 2 /\ stack'[k] = stack[k + 1] /\ (k + 1) - 1 = k
          /\ k + 1 > 1
      BY <1>13, <1>14, <2>2
    <3>2. InStep(node, made, orig, stack[k + 1]) /\ stack[k + 1].copy \in made
      BY <1>18, <3>1 DEF Started
    <3>3. stack[k + 1].copy # p
      BY <1>5, <1>7, <3>1 DEF p
    <3>4. InStep(node', made, orig, stack[k + 1])
      <4>1. \A x \in made : /\ node'[orig[x]].first = node[orig[x]].first
                            /\ node'[orig[x]].next = node[orig[x]].next
        BY <1>19, <1>20
      <4> QED BY <1>21, <3>2, <3>3, <4>1 DEF InStep
    <3>5. stack[k + 1].child = orig[stack[k].copy]
      BY <1>18, <3>1
    <3>6. stack[k].copy = stack'[k - 1].copy
      <4>1. CASE k = 2
        BY <1>10, <1>13, <4>1 DEF p
      <4>2. CASE k # 2
        <5>1. k - 1 \in DOMAIN stack' /\ k - 1 > 1 /\ (k - 1) + 1 = k
          BY <1>3, <1>13, <2>2, <4>2
        <5> QED BY <1>14, <5>1
      <4> QED BY <4>1, <4>2
    <3> QED BY <3>1, <3>4, <3>5, <3>6
  <2> QED BY <1>14, <2>1, <2>2
<1>31. image' = Shape(node', orig[Bottom'])
  <2>1. PICK age2 : Forest(node', age2)
    BY DEF Inv, IInv, World
  <2>2. Closed(node) /\ Closed(node')
    BY <1>2, <2>1, ForestIsClosed
  <2> DEFINE O == DOMAIN node \ made
  <2>3. \A i \in O : /\ node[i].first \in O \cup {NULL} /\ node[i].next \in O \cup {NULL}
                     /\ node'[i].first = node[i].first /\ node'[i].next = node[i].next
                     /\ node'[i].type = node[i].type /\ node'[i].size = node[i].size
                     /\ node'[i].name = node[i].name
    BY <1>18, <1>20 DEF Originals
  <2>4. O \subseteq DOMAIN node /\ O \subseteq DOMAIN node'
    BY <1>12
  <2>5. Bottom \in made
    BY <1>5, <1>18 DEF Bottom, Started, N
  <2>6. orig[Bottom] \in O
    BY <1>19, <2>5
  <2> HIDE DEF O
  <2>7. \A i \in O : Shape(node', i) = Shape(node, i)
    BY <2>2, <2>3, <2>4, ShapesStay
  <2> QED BY <1>1, <1>15, <1>18, <2>6, <2>7
<1>32. Copied(made, orig)'
  BY <1>27, <1>28, <1>29, <1>30, <1>31 DEF Copied
<1> QED BY <1>32 DEF CopyInv

\* At the end every copy corresponds to its original, and the folder the result
\* was put into has it under the name copy was given.
LEMMA CopyDoneExact ==
  ASSUME NEW age \in [Ids -> Nat], IInv(age), Inv', CopyInv, CopyDone
  PROVE  LET c == FindNode(node', dest.name, dest.parent)
         IN  c # NULL /\ Shape(node', c) = image
<1> DEFINE c == stack[1].copy
           p == dest.parent
           found == FindNode(node', dest.name, p)
<1>1. Copying /\ Head(stack).child = NULL /\ Len(stack) = 1
  BY DEF CopyDone
<1>2. /\ Typed(node) /\ Forest(node, age) /\ pc = "clone"
      /\ stack \in Seq(Clones) /\ stack # <<>> /\ ClonesOk(age) /\ DestOk(age)
  BY <1>1, CopyTurn
<1>3. DOMAIN stack = {1} /\ Head(stack) = stack[1]
  <2>1. DOMAIN stack = 1 .. Len(stack) /\ Head(stack) = stack[1]
    BY <1>2, Popped
  <2> QED BY <1>1, <2>1
<1>4. CopyOk(node, stack[1]) /\ NULL \notin DOMAIN node
  BY <1>2, <1>3, ForestPointers DEF ClonesOk
<1>5. c \in DOMAIN node /\ ~Pointed(node, c) /\ c # NULL
  BY <1>4 DEF CopyOk, Placed
<1>6. /\ p \in DOMAIN node
      /\ \A i \in DOMAIN node : ChildOf(node, i, p) => node[i].name # dest.name
  BY <1>1, <1>2 DEF DestOk
<1>7. PutInto(node, node', p, dest.name, c)
  BY CopyDoneKeeps
<1>8. PICK age2 : Forest(node', age2)
  BY DEF Inv, IInv, World
<1>9. Started = {c} /\ Bottom = c
  BY <1>1, <1>3 DEF Started, Bottom
<1> HIDE DEF c
<1>10. PICK made, orig : Copied(made, orig)
  BY <1>2 DEF CopyInv
<1>11. /\ Originals(node, made, orig, c) /\ p \notin made /\ c \in made
       /\ Finished(node, made, orig) /\ image = Shape(node, orig[c])
  BY <1>9, <1>10 DEF Copied
<1>12. /\ FirstCopied(node, made, orig, c)
       /\ stack[1].lastCopy # NULL => NextCopied(node, made, orig, stack[1].lastCopy)
  <2>1. NULL \notin made
    BY <1>4, <1>11 DEF Originals
  <2>2. 1 \in DOMAIN stack /\ stack[1].child = NULL
    BY <1>1, <1>3
  <2> QED BY <1>4, <1>10, <2>1, <2>2, ListComplete DEF c
<1>13. \A x \in made : /\ FirstCopied(node, made, orig, x)
                       /\ x # c => NextCopied(node, made, orig, x)
  <2> SUFFICES ASSUME NEW x \in made, x # c
               PROVE  FirstCopied(node, made, orig, x) /\ NextCopied(node, made, orig, x)
    BY <1>12
  <2>1. /\ FirstCopied(node, made, orig, x)
        /\ NextCopied(node, made, orig, x) \/ \E k \in DOMAIN stack : stack[k].lastCopy = x
    BY <1>9, <1>11 DEF Finished
  <2>2. x # NULL
    BY <1>4, <1>11 DEF Originals
  <2> QED BY <1>3, <1>12, <2>1, <2>2
<1> DEFINE K == made \ {c}
<1>14. Alike(node', node, made, K, orig)
  <2>1. \A x \in made : x \in DOMAIN node /\ x # p /\ orig[x] \in DOMAIN node
    BY <1>11 DEF Originals
  <2>2. \A x \in made : node[x].first # c /\ node[x].next # c
    BY <1>5, <2>1 DEF Pointed
  <2>3. \A x \in made : ~ChildOf(node, x, p)
    BY <1>5, <1>11 DEF ChildOf, Originals
  <2>4. \A x \in made : /\ node'[x].first = node[x].first /\ node'[x].next = node[x].next
                        /\ node'[x].type = node[x].type /\ node'[x].size = node[x].size
                        /\ x # c => node'[x].name = node[x].name
    BY <1>7, <2>1, <2>3 DEF PutInto
  <2>5. \A x \in made : Corresponds(orig, K, node'[x].first, node[orig[x]].first)
    BY <1>13, <2>2, <2>4 DEF FirstCopied, Corresponds
  <2>6. \A x \in K : Corresponds(orig, K, node'[x].next, node[orig[x]].next)
    BY <1>13, <2>2, <2>4 DEF NextCopied, Corresponds
  <2>7. \A x \in made : node'[x].type = node[orig[x]].type /\ node'[x].size = node[orig[x]].size
    BY <1>11, <2>4 DEF Originals
  <2>8. \A x \in K : node'[x].name = node[orig[x]].name
    BY <1>11, <2>4 DEF Originals
  <2>9. made \subseteq DOMAIN node'
    BY <1>7, <2>1 DEF PutInto
  <2> QED BY <2>1, <2>5, <2>6, <2>7, <2>8, <2>9 DEF Alike
<1>15. Shape(node', c) = image
  <2>1. Closed(node) /\ Closed(node')
    BY <1>2, <1>8, ForestIsClosed
  <2> HIDE DEF K
  <2>2. \A x \in made : Shape(node', x) = Shape(node, orig[x])
    BY <1>14, <2>1, SameShape
  <2> QED BY <1>11, <2>2
<1>16. found = c
  <2>1. /\ found # NULL => ChildOf(node', found, p) /\ node'[found].name = dest.name
        /\ found = NULL => \A i \in DOMAIN node' : ChildOf(node', i, p) => node'[i].name # dest.name
    <3>1. p \in DOMAIN node'
      BY <1>6, <1>7 DEF PutInto
    <3> QED BY <1>8, <3>1, FindNodeFinds
  <2> HIDE DEF found
  <2>2. c \in DOMAIN node' /\ ChildOf(node', c, p) /\ node'[c].name = dest.name
    BY <1>5, <1>7 DEF PutInto
  <2>3. found # NULL
    BY <2>1, <2>2
  <2>4. found \in DOMAIN node
    BY <1>7, <2>1, <2>3 DEF PutInto, ChildOf
  <2>5. found # c => ChildOf(node, found, p) /\ node[found].name = dest.name
    BY <1>7, <2>1, <2>3, <2>4 DEF PutInto
  <2> QED BY <1>6, <2>4, <2>5
<1> QED BY <1>5, <1>15, <1>16

-----------------------------------------------------------------------------
(* All steps. *)

\* Only copy starts a copy, and only cloneNode works on it.
LEMMA CopyInvStep ==
  ASSUME Inv, Inv', CopyInv, [Next]_vars
  PROVE  CopyInv'
<1>1. PICK age \in [Ids -> Nat] : IInv(age)
  BY DEF Inv
<1>2. ASSUME UNCHANGED vars PROVE CopyInv'
  <2>1. /\ node' = node /\ stack' = stack /\ dest' = dest /\ image' = image /\ pc' = pc
    BY <1>2 DEF vars
  <2>2. Started' = Started /\ Bottom' = Bottom
    BY <2>1 DEF Started, Bottom
  <2> SUFFICES ASSUME pc = "clone" PROVE CopyInv'
    BY <2>1 DEF CopyInv
  <2>3. PICK made, orig : Copied(made, orig)
    BY DEF CopyInv
  <2>4. Finished(node, made, orig)'
    BY <2>1, <2>2, <2>3 DEF Copied, Finished
  <2>5. /\ Originals(node', made, orig, Bottom')
        /\ dest'.parent \in DOMAIN node' \ made /\ Started' \subseteq made
        /\ \A k \in DOMAIN stack' : /\ InStep(node', made, orig, stack'[k])
                                    /\ k > 1 => stack'[k].child = orig[stack'[k - 1].copy]
        /\ image' = Shape(node', orig[Bottom'])
    BY <2>1, <2>2, <2>3 DEF Copied
  <2>6. Copied(made, orig)'
    BY <2>4, <2>5 DEF Copied
  <2> QED BY <2>6 DEF CopyInv
<1>3. ASSUME pc' # "clone" PROVE CopyInv'
  BY <1>3 DEF CopyInv
<1>4. ASSUME Command PROVE CopyInv'
  <2>1. PICK path \in Paths :
          \/ \E t \in Types : MakeNode(path, t)
          \/ MakeNodeWithoutMemory(path)
          \/ Cd(path)
          \/ \E l \in Lengths : AppendTo(path, l) \/ \E ok \in BOOLEAN : Overwrite(path, l, ok)
          \/ RemoveOne(path) \/ RemoveRoot(path) \/ RemoveTree(path)
          \/ \E to \in Paths : CopyWithoutMemory(path, to) \/ \E ok \in BOOLEAN : Copy(path, to, ok)
    BY <1>4 DEF Command
  <2>2. ASSUME NEW to \in Paths, NEW ok \in BOOLEAN, Copy(path, to, ok) PROVE CopyInv'
    BY <1>1, <2>2, CopyStarts
  <2>3. MakeNodeWithoutMemory(path) \/ RemoveRoot(path) \/ RemoveTree(path)
        \/ (\E to \in Paths : CopyWithoutMemory(path, to)) => pc' # "clone"
    BY DEF MakeNodeWithoutMemory, RemoveRoot, RemoveTree, CopyWithoutMemory, GoesWild
  <2>4. ASSUME \/ \E t \in Types : MakeNode(path, t)
               \/ Cd(path)
               \/ \E l \in Lengths : AppendTo(path, l) \/ \E ok \in BOOLEAN : Overwrite(path, l, ok)
               \/ RemoveOne(path)
        PROVE  pc' # "clone"
    BY <2>4 DEF MakeNode, Cd, AppendTo, Overwrite, RemoveOne, Ready, NotRecursive
  <2> QED BY <1>3, <2>1, <2>2, <2>3, <2>4
<1>5. ASSUME Renaming PROVE CopyInv'
  <2>1. pc' # "clone"
    BY <1>5 DEF Renaming, Rename, RenameTooLong, Ready, NotRecursive, GoesWild
  <2> QED BY <1>3, <2>1
<1>6. ASSUME Running PROVE CopyInv'
  <2>1. ASSUME DestroyFile \/ EnterFolder \/ DestroyFolder \/ DestroyRoot PROVE pc' # "clone"
    BY <2>1 DEF DestroyFile, EnterFolder, DestroyFolder, DestroyRoot, Destroying, GoesWild
  <2>2. ASSUME CloneWithoutMemory \/ CopyDone PROVE pc' # "clone"
    BY <2>2 DEF CloneWithoutMemory, CopyDone, GoesWild
  <2>3. ASSUME NEW ok \in BOOLEAN, CloneChild(ok) PROVE CopyInv'
    BY <1>1, <2>3, CloneChildCopies
  <2>4. ASSUME CloneReturns PROVE CopyInv'
    BY <1>1, <2>4, CloneReturnsCopies
  <2> QED BY <1>3, <1>6, <2>1, <2>2, <2>3, <2>4 DEF Running
<1>7. ASSUME Undefined PROVE CopyInv'
  BY <1>2, <1>7 DEF Undefined
<1> QED BY <1>2, <1>4, <1>5, <1>6, <1>7 DEF Next

\* The copies correspond to their originals at every step of copy.
THEOREM CopyInductive == Spec => []CopyInv
<1>1. Init => CopyInv
  BY DEF Init, CopyInv
<1>2. Inv /\ Inv' /\ CopyInv /\ [Next]_vars => CopyInv'
  BY CopyInvStep
<1> QED BY <1>1, <1>2, RamInductive, PTL DEF Spec

\* copy ends with a node of the new name in the folder it was told, whose shape
\* is the one the original had when copy began: type, size and, in order, the
\* names and shapes of the children, also when a folder is copied into itself.
THEOREM CopyExactAlways == Spec => CopyExact
<1> DEFINE A == pc = "clone" /\ pc' = "idle" /\ ~wild' =>
                  LET c == FindNode(node', dest.name, dest.parent)
                  IN  c # NULL /\ Shape(node', c) = image
<1>1. Inv /\ Inv' /\ CopyInv /\ [Next]_vars => [A]_vars
  <2> SUFFICES ASSUME Inv, Inv', CopyInv, Next, pc = "clone", pc' = "idle", ~wild'
               PROVE  LET c == FindNode(node', dest.name, dest.parent)
                      IN  c # NULL /\ Shape(node', c) = image
    BY DEF vars
  <2>1. PICK age \in [Ids -> Nat] : IInv(age)
    BY DEF Inv
  <2>2. ~Command /\ ~Renaming
    BY DEF Command, Renaming, MakeNode, MakeNodeWithoutMemory, Cd, AppendTo, Overwrite,
           RemoveOne, RemoveRoot, RemoveTree, CopyWithoutMemory, CopyTarget, Copy,
           Rename, RenameTooLong, Ready
  <2>3. ~Undefined
    BY DEF Undefined, vars
  <2>4. ~DestroyFile /\ ~EnterFolder /\ ~DestroyFolder
    BY DEF DestroyFile, EnterFolder, DestroyFolder, Destroying
  <2>5. ~DestroyRoot /\ ~CloneWithoutMemory
    BY DEF DestroyRoot, CloneWithoutMemory, GoesWild
  <2>6. ~CloneReturns /\ \A ok \in BOOLEAN : ~CloneChild(ok)
    BY DEF CloneReturns, CloneChild
  <2>7. CopyDone
    BY <2>2, <2>3, <2>4, <2>5, <2>6 DEF Next, Running
  <2> QED BY <2>1, <2>7, CopyDoneExact
<1> QED BY <1>1, RamInductive, CopyInductive, PTL DEF Spec, CopyExact
=============================================================================
