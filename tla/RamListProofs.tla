---------------------------- MODULE RamListProofs ----------------------------
(***************************************************************************)
(* What the linked lists of RamFS.tla are, for every size of the heap.     *)
(*                                                                         *)
(* The invariant speaks of one pointer at a time: what firstChild and      *)
(* nextSibling point at is allocated, is of the same parent, is pointed at *)
(* once only and was made later.  From that the module derives what the    *)
(* recursive definitions of RamFS compute on such nodes (a list ends and   *)
(* holds exactly the nodes pointed at that have its owner as parent, a     *)
(* search finds a child of that name if there is one, a subtree is closed  *)
(* under children), and how each change of the pointers keeps them so.     *)
(*                                                                         *)
(* The induction theorems of the library cannot be instantiated by the     *)
(* provers.  Induction is by a least counterexample instead (Least).       *)
(***************************************************************************)
EXTENDS RamFS, FiniteSetTheorems, TLAPS

-----------------------------------------------------------------------------
(* Least elements and iteration. *)

\* A set of naturals that is not empty has a least element.
LEMMA Least ==
  ASSUME NEW S, S \subseteq Nat, S # {}
  PROVE  \E m \in S : \A k \in S : m <= k
<1> DEFINE R == {ss \in Nat \X Nat : ss[1] < ss[2]}
<1>1. IsWellFoundedOn(R, Nat)
  BY NatLessThanWellFounded DEF OpToRel
<1> HIDE DEF R
<1>2. PICK m \in S : \A k \in S : ~(<<k, m>> \in R)
  BY <1>1, WFMin, Zenon
<1>3. \A k \in S : ~(k < m)
  BY <1>2 DEF R
<1> QED BY <1>3

\* f goes from a by the steps g[1], g[2], ...
Iterates(f, g, a, n) == f[0] = a /\ \A k \in 1 .. n : f[k] = g[k][f[k - 1]]

\* The function that a recursive definition over 0 .. n describes exists, when
\* its steps stay in a set.
LEMMA IterationExists ==
  ASSUME NEW D, NEW g \in [Nat -> [D -> D]], NEW a \in D, NEW n \in Nat
  PROVE  \E f \in [0 .. n -> D] : Iterates(f, g, a, n)
<1> DEFINE Bad == {m \in Nat : ~ \E f \in [0 .. m -> D] : Iterates(f, g, a, m)}
<1>1. SUFFICES ASSUME Bad # {} PROVE FALSE
  OBVIOUS
<1>2. PICK m \in Bad : \A k \in Bad : m <= k
  <2> HIDE DEF Bad
  <2>1. Bad \subseteq Nat
    BY DEF Bad
  <2> QED BY <1>1, <2>1, Least
<1>3. m # 0
  <2>1. [k \in 0 .. 0 |-> a] \in [0 .. 0 -> D] /\ Iterates([k \in 0 .. 0 |-> a], g, a, 0)
    BY DEF Iterates
  <2> QED BY <2>1
<1>4. m - 1 \in Nat /\ m - 1 \notin Bad
  <2>1. m \in Nat
    OBVIOUS
  <2> HIDE DEF Bad
  <2> QED BY <1>2, <1>3, <2>1
<1>5. PICK f \in [0 .. m - 1 -> D] : Iterates(f, g, a, m - 1)
  BY <1>4
<1> DEFINE h == [k \in 0 .. m |-> IF k = m THEN g[m][f[m - 1]] ELSE f[k]]
<1>6. h \in [0 .. m -> D]
  <2>1. m - 1 \in 0 .. m - 1 /\ m \in Nat
    BY <1>4
  <2>2. g[m][f[m - 1]] \in D
    BY <2>1
  <2>3. \A k \in 0 .. m : k # m => k \in 0 .. m - 1
    BY <2>1
  <2> QED BY <2>2, <2>3
<1>7. Iterates(h, g, a, m)
  <2>1. h[0] = a
    BY <1>3, <1>4, <1>5 DEF Iterates
  <2>2. ASSUME NEW k \in 1 .. m PROVE h[k] = g[k][h[k - 1]]
    <3>1. m \in Nat /\ k - 1 \in 0 .. m /\ k - 1 # m /\ h[k - 1] = f[k - 1]
      BY <1>4
    <3>2. CASE k = m
      BY <3>1, <3>2
    <3>3. CASE k # m
      <4>1. k \in 1 .. m - 1 /\ k \in 0 .. m /\ h[k] = f[k]
        BY <3>1, <3>3
      <4> QED BY <3>1, <4>1, <1>5 DEF Iterates
    <3> QED BY <3>2, <3>3
  <2> HIDE DEF h
  <2> QED BY <2>1, <2>2 DEF Iterates
<1> QED
  <2> HIDE DEF h
  <2> QED BY <1>6, <1>7

-----------------------------------------------------------------------------
(* The pointers. *)

\* nd maps addresses to nodes.
Typed(nd) == DOMAIN nd \subseteq Ids /\ nd \in [DOMAIN nd -> Node]

\* i is in a list: some node has it as firstChild or nextSibling.
Pointed(nd, i) == \E p \in DOMAIN nd : nd[p].first = i \/ nd[p].next = i

\* i is in the tree, or at least in a list.
Placed(nd, i) == i = Root \/ Pointed(nd, i)

ChildOf(nd, i, p) == i \in DOMAIN nd /\ Pointed(nd, i) /\ nd[i].parent = p

\* age tells when a node was made: every list is in the order its nodes were
\* made in, after the folder it belongs to.
FirstOk(nd, age) ==
  \A p \in DOMAIN nd : nd[p].first # NULL =>
    /\ nd[p].first \in DOMAIN nd
    /\ nd[nd[p].first].parent = p
    /\ nd[p].type = "Folder"
    /\ age[p] < age[nd[p].first]

NextOk(nd, age) ==
  \A i \in DOMAIN nd : nd[i].next # NULL =>
    /\ nd[i].next \in DOMAIN nd
    /\ nd[nd[i].next].parent = nd[i].parent
    /\ age[i] < age[nd[i].next]
    /\ Pointed(nd, i)

PointedOnce(nd) ==
  /\ \A i, j \in DOMAIN nd : nd[i].next # NULL /\ nd[i].next = nd[j].next => i = j
  /\ \A i, j \in DOMAIN nd : nd[i].next # NULL => nd[i].next # nd[j].first

Forest(nd, age) ==
  /\ DOMAIN nd \subseteq Ids /\ age \in [Ids -> Nat]
  /\ FirstOk(nd, age) /\ NextOk(nd, age) /\ PointedOnce(nd)

-----------------------------------------------------------------------------
(* Lists. *)

\* NULL is no address.
LEMMA NullIsNoId == NULL \notin Ids /\ Root \in Ids /\ NODES \in Nat /\ NODES > 0
  BY RamFSAssumption DEF NULL, Ids, Root

\* The positions of a list follow the nextSibling pointers.
LEMMA ChainSteps ==
  ASSUME NEW nd, NEW m \in DOMAIN nd \cup {NULL}, NULL \notin DOMAIN nd,
         \A i \in DOMAIN nd : nd[i].next \in DOMAIN nd \cup {NULL}
  PROVE  /\ Chain(nd, m)[0] = m
         /\ \A k \in 0 .. NODES : Chain(nd, m)[k] \in DOMAIN nd \cup {NULL}
         /\ \A k \in 1 .. NODES :
              LET i == Chain(nd, m)[k - 1]
              IN  Chain(nd, m)[k] = IF i \in DOMAIN nd THEN nd[i].next ELSE NULL
<1> DEFINE D == DOMAIN nd \cup {NULL}
           step == [i \in D |-> IF i \in DOMAIN nd THEN nd[i].next ELSE NULL]
           g == [k \in Nat |-> step]
           Follow(f) ==
             [k \in 0 .. NODES |->
                IF k = 0 THEN m
                ELSE LET i == f[k - 1] IN IF i \in DOMAIN nd THEN nd[i].next ELSE NULL]
<1>1. NODES \in Nat
  BY NullIsNoId
<1>2. g \in [Nat -> [D -> D]]
  OBVIOUS
<1>3. PICK h \in [0 .. NODES -> D] : Iterates(h, g, m, NODES)
  <2> HIDE DEF g
  <2>1. m \in D
    OBVIOUS
  <2> HIDE DEF D
  <2> QED BY <1>1, <1>2, <2>1, IterationExists
<1>4. \A k \in 0 .. NODES : k # 0 => k - 1 \in 0 .. NODES /\ k \in 1 .. NODES /\ k \in Nat
  BY <1>1
<1>5. \A k \in 0 .. NODES :
        h[k] = IF k = 0 THEN m
               ELSE IF h[k - 1] \in DOMAIN nd THEN nd[h[k - 1]].next ELSE NULL
  <2>1. ASSUME NEW k \in 0 .. NODES, k # 0
        PROVE  h[k] = IF h[k - 1] \in DOMAIN nd THEN nd[h[k - 1]].next ELSE NULL
    <3>1. k - 1 \in 0 .. NODES /\ k \in 1 .. NODES /\ k \in Nat
      BY <1>4, <2>1
    <3>2. h[k - 1] \in D
      BY <3>1
    <3>3. h[k] = g[k][h[k - 1]]
      BY <1>3, <3>1 DEF Iterates
    <3>4. g[k][h[k - 1]] = step[h[k - 1]]
      BY <3>1
    <3>5. step[h[k - 1]] = IF h[k - 1] \in DOMAIN nd THEN nd[h[k - 1]].next ELSE NULL
      BY <3>2
    <3> HIDE DEF step, g, D
    <3> QED BY <3>3, <3>4, <3>5
  <2>2. h[0] = m
    BY <1>3 DEF Iterates
  <2> QED BY <2>1, <2>2
<1>6. h = Follow(h)
  BY <1>5
<1>7. Chain(nd, m) = CHOOSE f : f = Follow(f)
  BY DEF Chain
<1>8. PICK c : c = Chain(nd, m) /\ c = Follow(c)
  <2> HIDE DEF Follow
  <2> QED BY <1>6, <1>7
<1>9. /\ c[0] = m
      /\ \A k \in 1 .. NODES : c[k] = IF c[k - 1] \in DOMAIN nd THEN nd[c[k - 1]].next ELSE NULL
  <2>1. \A k \in 0 .. NODES :
          Follow(c)[k] = IF k = 0 THEN m
                         ELSE IF c[k - 1] \in DOMAIN nd THEN nd[c[k - 1]].next ELSE NULL
    OBVIOUS
  <2> HIDE DEF Follow
  <2>2. \A k \in 0 .. NODES : c[k] = Follow(c)[k]
    BY <1>8
  <2>3. 0 \in 0 .. NODES /\ \A k \in 1 .. NODES : k \in 0 .. NODES /\ k # 0
    BY <1>1
  <2> QED BY <2>1, <2>2, <2>3
<1>10. \A k \in 0 .. NODES : c[k] \in D
  <2> DEFINE Bad == {k \in 0 .. NODES : c[k] \notin D}
  <2>1. SUFFICES ASSUME Bad # {} PROVE FALSE
    OBVIOUS
  <2>2. PICK x \in Bad : \A k \in Bad : x <= k
    <3>1. Bad \subseteq Nat
      BY <1>1
    <3> HIDE DEF Bad
    <3> QED BY <2>1, <3>1, Least
  <2>3. x # 0 /\ x \in 0 .. NODES
    BY <1>9
  <2>4. x \in 1 .. NODES
    BY <1>4, <2>3
  <2>5. c[x] \in D
    BY <1>9, <2>4
  <2> QED BY <2>5
<1> QED BY <1>8, <1>9, <1>10

\* The pointers of a forest lead to nodes or are NULL, and no node has the
\* address NULL.
LEMMA ForestPointers ==
  ASSUME NEW nd, NEW age, Forest(nd, age)
  PROVE  /\ NULL \notin DOMAIN nd
         /\ \A i \in DOMAIN nd : /\ nd[i].next \in DOMAIN nd \cup {NULL}
                                 /\ nd[i].first \in DOMAIN nd \cup {NULL}
                                 /\ age[i] \in Nat
  BY NullIsNoId DEF Forest, FirstOk, NextOk

\* The list of d's children: its nodes are children of d, in the order of
\* their age, and once it has ended it goes on with NULL.
LEMMA ListOfChildren ==
  ASSUME NEW nd, NEW age, Forest(nd, age), NEW d \in DOMAIN nd
  PROVE  LET list == Chain(nd, nd[d].first)
         IN  /\ list[0] = nd[d].first
             /\ \A k \in 0 .. NODES : list[k] # NULL => ChildOf(nd, list[k], d)
             /\ \A k \in 1 .. NODES : list[k] # NULL =>
                  /\ list[k - 1] # NULL /\ list[k] = nd[list[k - 1]].next
                  /\ age[list[k - 1]] < age[list[k]]
             /\ \A k \in 1 .. NODES : list[k] = NULL /\ list[k - 1] # NULL =>
                  nd[list[k - 1]].next = NULL
<1> DEFINE list == Chain(nd, nd[d].first)
<1>1. /\ NULL \notin DOMAIN nd /\ nd[d].first \in DOMAIN nd \cup {NULL}
      /\ \A i \in DOMAIN nd : nd[i].next \in DOMAIN nd \cup {NULL}
  BY ForestPointers
<1>2. /\ list[0] = nd[d].first
      /\ \A k \in 0 .. NODES : list[k] \in DOMAIN nd \cup {NULL}
      /\ \A k \in 1 .. NODES :
           list[k] = IF list[k - 1] \in DOMAIN nd THEN nd[list[k - 1]].next ELSE NULL
  <2>1. nd[d].first \in DOMAIN nd \cup {NULL}
    BY <1>1
  <2> QED BY <1>1, <2>1, ChainSteps
<1> HIDE DEF list
<1>3. \A k \in 1 .. NODES : k \in 0 .. NODES /\ k - 1 \in 0 .. NODES
  BY NullIsNoId
<1>4. \A k \in 1 .. NODES : list[k] # NULL =>
        /\ list[k - 1] \in DOMAIN nd /\ list[k - 1] # NULL /\ list[k] = nd[list[k - 1]].next
        /\ age[list[k - 1]] < age[list[k]]
        /\ nd[list[k]].parent = nd[list[k - 1]].parent
        /\ list[k] \in DOMAIN nd /\ Pointed(nd, list[k])
  <2> SUFFICES ASSUME NEW k \in 1 .. NODES, list[k] # NULL
               PROVE  /\ list[k - 1] \in DOMAIN nd /\ list[k - 1] # NULL
                      /\ list[k] = nd[list[k - 1]].next
                      /\ age[list[k - 1]] < age[list[k]]
                      /\ nd[list[k]].parent = nd[list[k - 1]].parent
                      /\ list[k] \in DOMAIN nd /\ Pointed(nd, list[k])
    OBVIOUS
  <2>1. list[k - 1] \in DOMAIN nd /\ list[k] = nd[list[k - 1]].next
    BY <1>2
  <2>2. NextOk(nd, age)
    BY DEF Forest
  <2> QED BY <1>1, <2>1, <2>2 DEF NextOk, Pointed
<1>5. \A k \in 1 .. NODES : list[k] = NULL /\ list[k - 1] # NULL => nd[list[k - 1]].next = NULL
  BY <1>2, <1>3
<1>6. \A k \in 0 .. NODES : list[k] # NULL => ChildOf(nd, list[k], d)
  <2> DEFINE Bad == {k \in 0 .. NODES : list[k] # NULL /\ ~ChildOf(nd, list[k], d)}
  <2>1. SUFFICES ASSUME Bad # {} PROVE FALSE
    OBVIOUS
  <2>2. PICK x \in Bad : \A k \in Bad : x <= k
    <3>1. Bad \subseteq Nat
      BY NullIsNoId
    <3> HIDE DEF Bad
    <3> QED BY <2>1, <3>1, Least
  <2>3. x \in 0 .. NODES /\ list[x] # NULL /\ ~ChildOf(nd, list[x], d)
    OBVIOUS
  <2>4. x # 0
    <3>1. FirstOk(nd, age)
      BY DEF Forest
    <3>2. nd[d].first # NULL => ChildOf(nd, nd[d].first, d)
      BY <3>1 DEF FirstOk, ChildOf, Pointed
    <3> QED BY <1>2, <2>3, <3>2
  <2>5. x \in 1 .. NODES /\ x - 1 \in 0 .. NODES
    BY <2>3, <2>4, NullIsNoId
  <2>6. list[x - 1] # NULL /\ list[x] \in DOMAIN nd /\ Pointed(nd, list[x])
        /\ nd[list[x]].parent = nd[list[x - 1]].parent
    BY <1>4, <2>3, <2>5
  <2>7. x - 1 \notin Bad
    <3> HIDE DEF Bad
    <3> QED BY <2>2, <2>5
  <2>8. ChildOf(nd, list[x - 1], d)
    BY <2>5, <2>6, <2>7
  <2> QED BY <2>3, <2>6, <2>8 DEF ChildOf
<1> QED BY <1>2, <1>4, <1>5, <1>6 DEF list

\* No list is longer than the nodes there are: it has ended by NODES.
LEMMA ListEnds ==
  ASSUME NEW nd, NEW age, Forest(nd, age), NEW d \in DOMAIN nd
  PROVE  Chain(nd, nd[d].first)[NODES] = NULL
<1> DEFINE list == Chain(nd, nd[d].first)
<1>1. /\ \A k \in 0 .. NODES : list[k] # NULL => ChildOf(nd, list[k], d)
      /\ \A k \in 1 .. NODES : list[k] # NULL =>
           list[k - 1] # NULL /\ age[list[k - 1]] < age[list[k]]
  BY ListOfChildren
<1> HIDE DEF list
<1>2. SUFFICES ASSUME list[NODES] # NULL PROVE FALSE
  BY DEF list
<1>3. NODES \in Nat /\ 0 \in 0 .. NODES /\ NODES \in 0 .. NODES
  BY NullIsNoId
<1>4. \A k \in 0 .. NODES : list[k] # NULL
  <2> DEFINE Bad == {k \in 0 .. NODES : list[NODES - k] = NULL}
  <2>1. ASSUME Bad # {} PROVE FALSE
    <3>1. PICK x \in Bad : \A k \in Bad : x <= k
      <4>1. Bad \subseteq Nat
        BY <1>3
      <4> HIDE DEF Bad
      <4> QED BY <2>1, <4>1, Least
    <3>2. x \in 0 .. NODES /\ list[NODES - x] = NULL
      OBVIOUS
    <3>3. x # 0
      BY <1>2, <1>3, <3>2
    <3>4. x - 1 \in 0 .. NODES /\ NODES - (x - 1) \in 1 .. NODES /\ NODES - (x - 1) - 1 = NODES - x
      BY <1>3, <3>2, <3>3
    <3>5. list[NODES - (x - 1)] = NULL
      BY <1>1, <3>2, <3>4
    <3>6. x - 1 \in Bad /\ ~(x <= x - 1)
      BY <1>3, <3>2, <3>4, <3>5
    <3> HIDE DEF Bad
    <3> QED BY <3>1, <3>6
  <2>2. \A k \in 0 .. NODES : NODES - k \in 0 .. NODES /\ NODES - (NODES - k) = k
    BY <1>3
  <2> QED BY <2>1, <2>2
<1>5. \A k \in 0 .. NODES : list[k] \in Ids /\ age[list[k]] \in Nat
  BY <1>1, <1>4 DEF ChildOf, Forest
<1>6. \A k \in 0 .. NODES : \A j \in 0 .. NODES : j < k => age[list[j]] < age[list[k]]
  <2> SUFFICES ASSUME NEW j \in 0 .. NODES
               PROVE  \A k \in 0 .. NODES : j < k => age[list[j]] < age[list[k]]
    OBVIOUS
  <2> DEFINE Bad == {k \in 0 .. NODES : j < k /\ ~(age[list[j]] < age[list[k]])}
  <2>1. SUFFICES ASSUME Bad # {} PROVE FALSE
    OBVIOUS
  <2>2. PICK x \in Bad : \A k \in Bad : x <= k
    <3>1. Bad \subseteq Nat
      BY <1>3
    <3> HIDE DEF Bad
    <3> QED BY <2>1, <3>1, Least
  <2>3. x \in 0 .. NODES /\ j < x /\ ~(age[list[j]] < age[list[x]])
    OBVIOUS
  <2>4. x \in 1 .. NODES /\ x - 1 \in 0 .. NODES /\ ~(x <= x - 1) /\ (j < x - 1 \/ j = x - 1)
    BY <1>3, <2>3
  <2>5. age[list[x - 1]] < age[list[x]]
    BY <1>1, <1>4, <2>4
  <2>6. age[list[j]] < age[list[x - 1]] \/ j = x - 1
    <3>1. x - 1 \notin Bad
      <4> HIDE DEF Bad
      <4> QED BY <2>2, <2>4
    <3> QED BY <2>4, <3>1
  <2>7. age[list[j]] \in Nat /\ age[list[x - 1]] \in Nat /\ age[list[x]] \in Nat
    BY <1>5, <2>3, <2>4
  <2> QED BY <2>3, <2>5, <2>6, <2>7
<1> DEFINE f == [k \in 0 .. NODES |-> list[k]]
<1>7. PICK j, k \in 0 .. NODES : j # k /\ f[j] = f[k]
  <2>1. f \in [0 .. NODES -> Ids]
    BY <1>5
  <2>2. IsFiniteSet(0 .. NODES) /\ Cardinality(0 .. NODES) = NODES + 1
    BY <1>3, FS_Interval
  <2>3. IsFiniteSet(Ids) /\ Cardinality(Ids) = NODES
    BY <1>3, NullIsNoId, FS_Interval DEF Ids
  <2>4. Cardinality(Ids) < Cardinality(0 .. NODES)
    BY <1>3, <2>2, <2>3
  <2> HIDE DEF f
  <2> QED BY <2>1, <2>2, <2>3, <2>4, FS_PigeonHole
<1>8. list[j] = list[k] /\ (j < k \/ k < j)
  BY <1>3, <1>7
<1> QED BY <1>5, <1>6, <1>8

\* A node that is pointed at is in the list of its parent, which is allocated.
LEMMA PointedIsListed ==
  ASSUME NEW nd, NEW age, Forest(nd, age), NEW i \in DOMAIN nd, Pointed(nd, i)
  PROVE  nd[i].parent \in DOMAIN nd /\ i \in Children(nd, nd[i].parent)
<1> DEFINE Good(j) == nd[j].parent \in DOMAIN nd /\ j \in Children(nd, nd[j].parent)
           Lost == {j \in DOMAIN nd : Pointed(nd, j) /\ ~Good(j)}
           Bad == {age[j] : j \in Lost}
<1>0. NULL \notin DOMAIN nd /\ \A j \in DOMAIN nd : age[j] \in Nat
  BY ForestPointers
<1>1. SUFFICES ASSUME Bad # {} PROVE FALSE
  OBVIOUS
<1>2. PICK a \in Bad : \A b \in Bad : a <= b
  <2>1. Bad \subseteq Nat
    BY <1>0
  <2> HIDE DEF Bad
  <2> QED BY <1>1, <2>1, Least
<1>3. PICK x \in Lost : a = age[x]
  OBVIOUS
<1>4. x \in DOMAIN nd /\ Pointed(nd, x) /\ ~Good(x) /\ x # NULL
  BY <1>0
<1>5. PICK p \in DOMAIN nd : nd[p].first = x \/ nd[p].next = x
  BY <1>4 DEF Pointed
<1>6. CASE nd[p].first = x
  <2>1. nd[x].parent = p
    BY <1>4, <1>5, <1>6 DEF Forest, FirstOk
  <2>2. Chain(nd, nd[p].first)[0] = x /\ 0 \in 0 .. NODES
    BY <1>5, <1>6, ListOfChildren, NullIsNoId
  <2>3. x \in Children(nd, p)
    BY <1>4, <2>2 DEF Children, Listed
  <2> QED BY <1>4, <1>5, <2>1, <2>3
<1>7. CASE nd[p].next = x
  <2>1. nd[x].parent = nd[p].parent /\ age[p] < age[x] /\ Pointed(nd, p)
    BY <1>4, <1>5, <1>7 DEF Forest, NextOk
  <2>2. Good(p)
    <3> SUFFICES ASSUME p \in Lost PROVE FALSE
      BY <1>5, <2>1
    <3>1. age[p] \in Bad /\ age[p] \in Nat /\ age[x] \in Nat
      BY <1>0
    <3> HIDE DEF Bad
    <3> QED BY <1>2, <1>3, <2>1, <3>1
  <2> DEFINE d == nd[p].parent
             list == Chain(nd, nd[d].first)
  <2>3. d \in DOMAIN nd /\ \E k \in 0 .. NODES : p = list[k]
    BY <2>2 DEF Children, Listed
  <2>4. PICK k \in 0 .. NODES : p = list[k]
    BY <2>3
  <2>5. /\ list[NODES] = NULL
        /\ \A j \in 1 .. NODES : list[j] = NULL /\ list[j - 1] # NULL =>
             nd[list[j - 1]].next = NULL
        /\ \A j \in 1 .. NODES : list[j] # NULL => list[j] = nd[list[j - 1]].next
    BY <2>3, ListEnds, ListOfChildren
  <2> HIDE DEF list
  <2>6. p # NULL /\ k + 1 \in 1 .. NODES /\ (k + 1) - 1 = k /\ k + 1 \in 0 .. NODES
    BY <1>0, <2>4, <2>5, NullIsNoId
  <2>7. list[k + 1] = x
    BY <1>4, <1>7, <2>4, <2>5, <2>6
  <2>8. x \in Children(nd, d)
    BY <1>4, <2>6, <2>7 DEF Children, Listed, list
  <2> QED BY <1>4, <2>1, <2>3, <2>8
<1> QED BY <1>5, <1>6, <1>7

\* The children of d are the nodes pointed at that have d as parent.
LEMMA ChildrenAre ==
  ASSUME NEW nd, NEW age, Forest(nd, age), NEW d \in DOMAIN nd
  PROVE  Children(nd, d) = {i \in DOMAIN nd : ChildOf(nd, i, d)}
<1>1. ASSUME NEW i \in Children(nd, d) PROVE ChildOf(nd, i, d)
  BY <1>1, ListOfChildren DEF Children, Listed
<1>2. ASSUME NEW i \in DOMAIN nd, ChildOf(nd, i, d) PROVE i \in Children(nd, d)
  BY <1>2, PointedIsListed DEF ChildOf
<1> QED BY <1>1, <1>2 DEF ChildOf

\* A parent is older than its children.
LEMMA ParentIsOlder ==
  ASSUME NEW nd, NEW age, Forest(nd, age), NEW i \in DOMAIN nd, Pointed(nd, i)
  PROVE  /\ nd[i].parent \in DOMAIN nd /\ age[nd[i].parent] < age[i]
         /\ nd[nd[i].parent].first # NULL
<1> DEFINE d == nd[i].parent
           list == Chain(nd, nd[d].first)
<1>1. d \in DOMAIN nd /\ i \in Children(nd, d)
  BY PointedIsListed
<1>2. /\ NULL \notin DOMAIN nd /\ \A j \in DOMAIN nd : age[j] \in Nat
      /\ nd[d].first \in DOMAIN nd \cup {NULL}
  BY <1>1, ForestPointers
<1>3. /\ list[0] = nd[d].first
      /\ \A k \in 0 .. NODES : list[k] # NULL => list[k] \in DOMAIN nd
      /\ \A k \in 1 .. NODES : list[k] # NULL =>
           list[k - 1] # NULL /\ age[list[k - 1]] < age[list[k]]
  BY <1>1, ListOfChildren DEF ChildOf
<1> HIDE DEF list
<1>4. \A k \in 0 .. NODES : list[k] # NULL => nd[d].first # NULL /\ age[d] < age[list[k]]
  <2> DEFINE Bad == {k \in 0 .. NODES :
                       list[k] # NULL /\ ~(nd[d].first # NULL /\ age[d] < age[list[k]])}
  <2>1. SUFFICES ASSUME Bad # {} PROVE FALSE
    OBVIOUS
  <2>2. PICK x \in Bad : \A k \in Bad : x <= k
    <3>1. Bad \subseteq Nat
      BY NullIsNoId
    <3> HIDE DEF Bad
    <3> QED BY <2>1, <3>1, Least
  <2>3. x \in 0 .. NODES /\ list[x] # NULL /\ ~(nd[d].first # NULL /\ age[d] < age[list[x]])
    OBVIOUS
  <2>4. x # 0
    BY <1>1, <1>3, <2>3 DEF Forest, FirstOk
  <2>5. x \in 1 .. NODES /\ x - 1 \in 0 .. NODES /\ ~(x <= x - 1)
    BY <2>3, <2>4, NullIsNoId
  <2>6. list[x - 1] # NULL /\ age[list[x - 1]] < age[list[x]]
    BY <1>3, <2>3, <2>5
  <2>7. x - 1 \notin Bad
    <3> HIDE DEF Bad
    <3> QED BY <2>2, <2>5
  <2>8. nd[d].first # NULL /\ age[d] < age[list[x - 1]]
    BY <2>5, <2>6, <2>7
  <2>9. age[d] \in Nat /\ age[list[x - 1]] \in Nat /\ age[list[x]] \in Nat
    BY <1>1, <1>2, <1>3, <2>3, <2>5, <2>6
  <2> QED BY <2>3, <2>6, <2>8, <2>9
<1>5. PICK k \in 0 .. NODES : i = list[k]
  BY <1>1 DEF Children, Listed, list
<1> QED BY <1>1, <1>2, <1>4, <1>5

\* A list that is not empty has a last node: appendChild finds it.
LEMMA LastChild ==
  ASSUME NEW nd, NEW age, Forest(nd, age), NEW d \in DOMAIN nd, nd[d].first # NULL
  PROVE  \E i \in Children(nd, d) : nd[i].next = NULL
<1> DEFINE list == Chain(nd, nd[d].first)
           Ended == {k \in 0 .. NODES : list[k] = NULL}
<1>1. NODES \in 0 .. NODES /\ NODES \in Nat
  BY NullIsNoId
<1>2. Ended # {}
  BY <1>1, ListEnds
<1>3. PICK k \in Ended : \A j \in Ended : k <= j
  <2>1. Ended \subseteq Nat
    BY <1>1
  <2> HIDE DEF Ended
  <2> QED BY <1>2, <2>1, Least
<1>4. k \in 0 .. NODES /\ list[k] = NULL /\ k # 0
  BY ListOfChildren
<1>5. k \in 1 .. NODES /\ k - 1 \in 0 .. NODES /\ ~(k <= k - 1)
  BY <1>1, <1>4
<1>6. list[k - 1] # NULL
  <2>1. k - 1 \notin Ended
    <3> HIDE DEF Ended
    <3> QED BY <1>3, <1>5
  <2> QED BY <1>5, <2>1
<1>7. nd[list[k - 1]].next = NULL
  BY <1>4, <1>5, <1>6, ListOfChildren
<1>8. list[k - 1] \in Children(nd, d)
  BY <1>5, <1>6 DEF Children, Listed
<1> QED BY <1>7, <1>8

\* findNode answers with a child of that name, and with NULL only if there is
\* none.
LEMMA FindNodeFinds ==
  ASSUME NEW nd, NEW age, Forest(nd, age), NEW d \in DOMAIN nd, NEW name
  PROVE  LET m == FindNode(nd, name, d)
         IN  /\ m # NULL => ChildOf(nd, m, d) /\ nd[m].name = name
             /\ m = NULL => \A i \in DOMAIN nd : ChildOf(nd, i, d) => nd[i].name # name
<1> DEFINE list == Chain(nd, nd[d].first)
           hits == {k \in 0 .. NODES : list[k] # NULL /\ nd[list[k]].name = name}
<1>1. \A k \in 0 .. NODES : list[k] # NULL => ChildOf(nd, list[k], d)
  BY ListOfChildren
<1>2. FindNode(nd, name, d) = IF hits = {} THEN NULL
                              ELSE list[CHOOSE k \in hits : \A j \in hits : k <= j]
  BY DEF FindNode
<1>3. CASE hits = {}
  <2>1. \A i \in DOMAIN nd : ChildOf(nd, i, d) => \E k \in 0 .. NODES : i = list[k] /\ i # NULL
    BY ChildrenAre DEF Children, Listed
  <2> QED BY <1>2, <1>3, <2>1
<1>4. CASE hits # {}
  <2>1. \E k \in hits : \A j \in hits : k <= j
    <3>1. hits \subseteq Nat
      BY NullIsNoId
    <3> HIDE DEF hits
    <3> QED BY <1>4, <3>1, Least
  <2>2. PICK k : k = CHOOSE x \in hits : \A j \in hits : x <= j
    OBVIOUS
  <2>3. k \in hits
    <3> HIDE DEF hits
    <3> QED BY <2>1, <2>2
  <2>4. FindNode(nd, name, d) = list[k]
    <3> HIDE DEF hits, list
    <3> QED BY <1>2, <1>4, <2>2
  <2> QED BY <1>1, <2>3, <2>4
<1> QED BY <1>3, <1>4

\* The address a new node gets is free.
LEMMA FreshIsFree ==
  ASSUME NEW nd, DOMAIN nd \subseteq Ids, ~Full(nd)
  PROVE  Fresh(nd) \in Ids /\ Fresh(nd) \notin DOMAIN nd /\ Fresh(nd) # NULL
<1> DEFINE S == Ids \ DOMAIN nd
<1>1. S # {} /\ S \subseteq Nat
  <2>1. DOMAIN nd # Ids
    BY DEF Full
  <2>2. Ids \subseteq Nat
    BY DEF Ids
  <2> QED BY <2>1, <2>2
<1>2. \E m \in S : \A k \in S : m <= k
  <2> HIDE DEF S
  <2> QED BY <1>1, Least
<1>3. Fresh(nd) \in S
  BY <1>2 DEF Fresh
<1> QED BY <1>3, NullIsNoId

\* There is a time after every age.
LEMMA NowExists ==
  ASSUME NEW age \in [Ids -> Nat]
  PROVE  \E now \in Nat : \A i \in Ids : age[i] < now
<1> DEFINE Bounded(n) == \E x \in Nat : \A i \in Ids : i <= n => age[i] < x
           Bad == {n \in Nat : ~Bounded(n)}
<1>1. ASSUME Bad # {} PROVE FALSE
  <2>1. PICK n \in Bad : \A m \in Bad : n <= m
    <3>1. Bad \subseteq Nat
      OBVIOUS
    <3> HIDE DEF Bad
    <3> QED BY <1>1, <3>1, Least
  <2>2. n # 0
    <3>1. \A i \in Ids : ~(i <= 0)
      BY DEF Ids
    <3> QED BY <3>1
  <2>3. n - 1 \in Nat /\ ~(n <= n - 1)
    BY <2>2
  <2>4. Bounded(n - 1)
    <3>1. n - 1 \notin Bad
      <4> HIDE DEF Bad
      <4> QED BY <2>1, <2>3
    <3> QED BY <2>3, <3>1
  <2>5. PICK x \in Nat : \A i \in Ids : i <= n - 1 => age[i] < x
    BY <2>4
  <2>6. \E y \in Nat : x <= y /\ (n \in Ids => age[n] < y)
    <3>1. CASE n \in Ids
      <4>1. age[n] \in Nat
        BY <3>1
      <4>2. x <= x + age[n] + 1 /\ age[n] < x + age[n] + 1 /\ x + age[n] + 1 \in Nat
        BY <4>1
      <4> QED BY <4>2
    <3>2. CASE n \notin Ids
      BY <3>2
    <3> QED BY <3>1, <3>2
  <2>7. PICK y \in Nat : x <= y /\ (n \in Ids => age[n] < y)
    BY <2>6
  <2>8. ASSUME NEW i \in Ids, i <= n PROVE age[i] < y
    <3>1. i \in Nat /\ age[i] \in Nat
      <4>1. i \in Nat
        BY DEF Ids
      <4>2. age[i] \in Nat
        OBVIOUS
      <4> QED BY <4>1, <4>2
    <3>2. CASE i = n
      BY <2>7, <3>2
    <3>3. CASE i # n
      <4>1. i <= n - 1
        BY <2>3, <2>8, <3>1, <3>3
      <4>2. age[i] < x
        BY <2>5, <4>1
      <4> QED BY <2>7, <3>1, <4>2
    <3> QED BY <3>2, <3>3
  <2>9. Bounded(n)
    BY <2>8
  <2> QED BY <2>9
<1>2. Bounded(NODES) /\ \A i \in Ids : i <= NODES
  <2>1. NODES \in Nat
    BY NullIsNoId
  <2>2. \A i \in Ids : i <= NODES
    BY <2>1 DEF Ids
  <2> HIDE DEF Bounded
  <2> QED BY <1>1, <2>1, <2>2
<1> QED BY <1>2

-----------------------------------------------------------------------------
(* What changes the pointers. *)

\* i is as it was but for its place in the lists.
Same(nd, nd2, i) ==
  /\ nd2[i].parent = nd[i].parent /\ nd2[i].type = nd[i].type /\ nd2[i].name = nd[i].name
  /\ nd2[i].data = nd[i].data /\ nd2[i].size = nd[i].size

\* nd2 has the node i more.
Added(nd, nd2, i) ==
  /\ DOMAIN nd2 = DOMAIN nd \cup {i} /\ i \in Ids /\ i \notin DOMAIN nd
  /\ \A j \in DOMAIN nd : /\ Same(nd, nd2, j)
                          /\ nd2[j].first = nd[j].first /\ nd2[j].next = nd[j].next
  /\ nd2[i].first = NULL /\ nd2[i].next = NULL

\* nd2 has c in the list of p: as the only node, or behind l.
Linked(nd, nd2, p, l, c) ==
  /\ DOMAIN nd2 = DOMAIN nd
  /\ \A i \in DOMAIN nd : Same(nd, nd2, i)
  /\ \A i \in DOMAIN nd :
       nd2[i].first = IF i = p /\ nd[p].first = NULL THEN c ELSE nd[i].first
  /\ \A i \in DOMAIN nd :
       nd2[i].next = IF i = l /\ nd[p].first # NULL THEN c ELSE nd[i].next

\* nd2 has not n, and what pointed at n points behind it.
Removed(nd, nd2, n) ==
  /\ DOMAIN nd2 = DOMAIN nd \ {n}
  /\ \A i \in DOMAIN nd2 :
       /\ Same(nd, nd2, i)
       /\ nd2[i].first = IF nd[i].first = n THEN nd[n].next ELSE nd[i].first
       /\ nd2[i].next = IF nd[i].next = n THEN nd[n].next ELSE nd[i].next

\* A node that is not pointed at is the last of no list but its own.
LEMMA LooseHasNoNext ==
  ASSUME NEW nd, NEW age, Forest(nd, age), NEW i \in DOMAIN nd, ~Pointed(nd, i)
  PROVE  nd[i].next = NULL
  BY DEF Forest, NextOk

\* A new node is pointed at by nobody, and younger than all others.
LEMMA AddKeepsForest ==
  ASSUME NEW nd, NEW nd2, NEW age, Forest(nd, age), NEW i, Added(nd, nd2, i),
         NEW now \in Nat
  PROVE  /\ Forest(nd2, [age EXCEPT ![i] = now])
         /\ \A j \in DOMAIN nd2 : Pointed(nd2, j) <=> Pointed(nd, j)
         /\ ~Pointed(nd2, i)
<1> DEFINE age2 == [age EXCEPT ![i] = now]
<1>1. /\ NULL \notin DOMAIN nd /\ NULL \notin DOMAIN nd2
      /\ DOMAIN nd2 = DOMAIN nd \cup {i} /\ i \in Ids /\ i \notin DOMAIN nd
      /\ nd2[i].first = NULL /\ nd2[i].next = NULL
      /\ \A j \in DOMAIN nd : /\ nd2[j].first = nd[j].first /\ nd2[j].next = nd[j].next
                              /\ nd2[j].parent = nd[j].parent /\ nd2[j].type = nd[j].type
      /\ \A j \in DOMAIN nd : /\ nd[j].next \in DOMAIN nd \cup {NULL}
                              /\ nd[j].first \in DOMAIN nd \cup {NULL}
  BY ForestPointers, NullIsNoId DEF Added, Same
<1>2. \A j \in DOMAIN nd2 : Pointed(nd2, j) <=> Pointed(nd, j)
  BY <1>1 DEF Pointed
<1>3. ~Pointed(nd2, i)
  BY <1>1 DEF Pointed
<1>4. /\ age2 \in [Ids -> Nat] /\ DOMAIN nd2 \subseteq Ids
      /\ \A j \in DOMAIN nd : age2[j] = age[j]
  BY <1>1 DEF Forest
<1> HIDE DEF age2
<1>5. FirstOk(nd2, age2)
  <2>1. FirstOk(nd, age)
    BY DEF Forest
  <2> QED BY <1>1, <1>4, <2>1 DEF FirstOk
<1>6. NextOk(nd2, age2)
  <2>1. NextOk(nd, age)
    BY DEF Forest
  <2> QED BY <1>1, <1>2, <1>4, <2>1 DEF NextOk
<1>7. PointedOnce(nd2)
  <2>1. PointedOnce(nd)
    BY DEF Forest
  <2> QED BY <1>1, <2>1 DEF PointedOnce
<1> QED BY <1>2, <1>3, <1>4, <1>5, <1>6, <1>7 DEF Forest, age2

\* A node put in the list of its parent behind the last child.
LEMMA LinkKeepsForest ==
  ASSUME NEW nd, NEW nd2, NEW age, Forest(nd, age),
         NEW p \in DOMAIN nd, NEW l, NEW c \in DOMAIN nd, Linked(nd, nd2, p, l, c),
         nd[p].type = "Folder", nd[c].parent = p, ~Pointed(nd, c), age[p] < age[c],
         nd[p].first # NULL => ChildOf(nd, l, p) /\ nd[l].next = NULL /\ age[l] < age[c]
  PROVE  /\ Forest(nd2, age)
         /\ \A i \in DOMAIN nd2 : Pointed(nd2, i) <=> Pointed(nd, i) \/ i = c
<1>1. /\ NULL \notin DOMAIN nd /\ DOMAIN nd2 = DOMAIN nd /\ DOMAIN nd \subseteq Ids
      /\ \A j \in DOMAIN nd : nd2[j].parent = nd[j].parent /\ nd2[j].type = nd[j].type
      /\ nd[c].next = NULL /\ c # NULL
  BY ForestPointers, LooseHasNoNext DEF Linked, Same, Forest
<1>2. /\ \A i \in DOMAIN nd :
           nd2[i].first = IF i = p /\ nd[p].first = NULL THEN c ELSE nd[i].first
      /\ \A i \in DOMAIN nd :
           nd2[i].next = IF i = l /\ nd[p].first # NULL THEN c ELSE nd[i].next
      /\ nd[p].first # NULL => l \in DOMAIN nd /\ nd[l].next = NULL /\ nd[l].parent = p
                               /\ Pointed(nd, l)
  BY DEF Linked, ChildOf
<1>3. \A i \in DOMAIN nd2 : Pointed(nd2, i) <=> Pointed(nd, i) \/ i = c
  <2> TAKE i \in DOMAIN nd2
  <2>1. i # NULL
    BY <1>1
  <2>2. Pointed(nd, i) => Pointed(nd2, i)
    BY <1>1, <1>2, <2>1 DEF Pointed
  <2>3. Pointed(nd2, c)
    <3>1. CASE nd[p].first = NULL
      BY <1>1, <1>2, <3>1 DEF Pointed
    <3>2. CASE nd[p].first # NULL
      BY <1>1, <1>2, <3>2 DEF Pointed
    <3> QED BY <3>1, <3>2
  <2>4. Pointed(nd2, i) => Pointed(nd, i) \/ i = c
    BY <1>1, <1>2 DEF Pointed
  <2> QED BY <2>2, <2>3, <2>4
<1>4. FirstOk(nd2, age)
  <2>1. FirstOk(nd, age)
    BY DEF Forest
  <2> QED BY <1>1, <1>2, <2>1 DEF FirstOk
<1>5. NextOk(nd2, age)
  <2>1. NextOk(nd, age)
    BY DEF Forest
  <2> QED BY <1>1, <1>2, <1>3, <2>1 DEF NextOk
<1>6. PointedOnce(nd2)
  <2>1. PointedOnce(nd)
    BY DEF Forest
  <2>2. \A i \in DOMAIN nd : nd[i].first # c /\ nd[i].next # c
    BY DEF Pointed
  <2>3. \A i, j \in DOMAIN nd : nd2[i].next # NULL /\ nd2[i].next = nd2[j].next => i = j
    BY <1>1, <1>2, <2>1, <2>2 DEF PointedOnce
  <2>4. \A i, j \in DOMAIN nd : nd2[i].next # NULL => nd2[i].next # nd2[j].first
    BY <1>1, <1>2, <2>1, <2>2 DEF PointedOnce
  <2> QED BY <1>1, <2>3, <2>4 DEF PointedOnce
<1> QED
  <2>1. age \in [Ids -> Nat]
    BY DEF Forest
  <2> QED BY <1>1, <1>3, <1>4, <1>5, <1>6, <2>1 DEF Forest

\* A node without children taken out.
LEMMA RemoveKeepsForest ==
  ASSUME NEW nd, NEW nd2, NEW age, Forest(nd, age), NEW n \in DOMAIN nd,
         nd[n].first = NULL, Removed(nd, nd2, n)
  PROVE  /\ Forest(nd2, age)
         /\ \A i \in DOMAIN nd2 : Pointed(nd2, i) <=> Pointed(nd, i)
<1>1. /\ NULL \notin DOMAIN nd /\ DOMAIN nd2 = DOMAIN nd \ {n} /\ DOMAIN nd \subseteq Ids
      /\ \A j \in DOMAIN nd2 : nd2[j].parent = nd[j].parent /\ nd2[j].type = nd[j].type
      /\ age \in [Ids -> Nat] /\ FirstOk(nd, age) /\ NextOk(nd, age) /\ PointedOnce(nd)
  BY ForestPointers DEF Removed, Same, Forest
<1>2. \A i \in DOMAIN nd2 :
        /\ nd2[i].first = IF nd[i].first = n THEN nd[n].next ELSE nd[i].first
        /\ nd2[i].next = IF nd[i].next = n THEN nd[n].next ELSE nd[i].next
  BY DEF Removed
<1>3. \A i \in DOMAIN nd : age[i] \in Nat
  BY <1>1
<1>4. n # NULL /\ nd[n].next # n
  <2>1. nd[n].next = n => age[n] < age[n]
    BY <1>1 DEF NextOk
  <2> QED BY <1>1, <1>3, <2>1
<1>5. \A i \in DOMAIN nd2 : Pointed(nd2, i) <=> Pointed(nd, i)
  <2> TAKE i \in DOMAIN nd2
  <2>1. i # NULL /\ i \in DOMAIN nd /\ i # n
    BY <1>1
  <2>2. ASSUME Pointed(nd2, i) PROVE Pointed(nd, i)
    BY <1>1, <1>2, <2>1, <2>2 DEF Pointed
  <2>3. ASSUME Pointed(nd, i) PROVE Pointed(nd2, i)
    <3>1. PICK p \in DOMAIN nd : nd[p].first = i \/ nd[p].next = i
      BY <2>3 DEF Pointed
    <3>2. CASE p # n
      BY <1>1, <1>2, <2>1, <3>1, <3>2 DEF Pointed
    <3>3. CASE p = n
      <4>1. nd[n].next = i /\ Pointed(nd, n)
        BY <1>1, <2>1, <3>1, <3>3 DEF NextOk
      <4>2. PICK q \in DOMAIN nd : nd[q].first = n \/ nd[q].next = n
        BY <4>1 DEF Pointed
      <4>3. q # n
        BY <1>4, <4>2
      <4> QED BY <1>1, <1>2, <4>1, <4>2, <4>3 DEF Pointed
    <3> QED BY <3>2, <3>3
  <2> QED BY <2>2, <2>3
<1>6. FirstOk(nd2, age)
  <2> SUFFICES ASSUME NEW p \in DOMAIN nd2, nd2[p].first # NULL
               PROVE  /\ nd2[p].first \in DOMAIN nd2
                      /\ nd2[nd2[p].first].parent = p
                      /\ nd2[p].type = "Folder"
                      /\ age[p] < age[nd2[p].first]
    BY DEF FirstOk
  <2>1. p \in DOMAIN nd
    BY <1>1
  <2>2. CASE nd[p].first = n
    <3>1. nd2[p].first = nd[n].next /\ nd[n].next # n
      BY <1>2, <1>4, <2>2
    <3>2. nd[n].parent = p /\ nd[p].type = "Folder" /\ age[p] < age[n]
      BY <1>1, <1>4, <2>1, <2>2 DEF FirstOk
    <3>3. /\ nd[n].next \in DOMAIN nd /\ nd[nd[n].next].parent = nd[n].parent
          /\ age[n] < age[nd[n].next]
      BY <1>1, <3>1 DEF NextOk
    <3>4. age[p] < age[nd[n].next]
      BY <1>3, <2>1, <3>2, <3>3
    <3> QED BY <1>1, <3>1, <3>2, <3>3, <3>4
  <2>3. CASE nd[p].first # n
    <3>1. nd2[p].first = nd[p].first
      BY <1>2, <2>3
    <3> QED BY <1>1, <2>1, <2>3, <3>1 DEF FirstOk
  <2> QED BY <2>2, <2>3
<1>7. NextOk(nd2, age)
  <2> SUFFICES ASSUME NEW p \in DOMAIN nd2, nd2[p].next # NULL
               PROVE  /\ nd2[p].next \in DOMAIN nd2
                      /\ nd2[nd2[p].next].parent = nd2[p].parent
                      /\ age[p] < age[nd2[p].next]
                      /\ Pointed(nd2, p)
    BY DEF NextOk
  <2>1. p \in DOMAIN nd
    BY <1>1
  <2>2. CASE nd[p].next = n
    <3>1. nd2[p].next = nd[n].next /\ nd[n].next # n
      BY <1>2, <1>4, <2>2
    <3>2. nd[n].parent = nd[p].parent /\ age[p] < age[n] /\ Pointed(nd, p)
      BY <1>1, <1>4, <2>1, <2>2 DEF NextOk
    <3>3. /\ nd[n].next \in DOMAIN nd /\ nd[nd[n].next].parent = nd[n].parent
          /\ age[n] < age[nd[n].next]
      BY <1>1, <3>1 DEF NextOk
    <3>4. age[p] < age[nd[n].next]
      BY <1>3, <2>1, <3>2, <3>3
    <3> QED BY <1>1, <1>5, <3>1, <3>2, <3>3, <3>4
  <2>3. CASE nd[p].next # n
    <3>1. nd2[p].next = nd[p].next
      BY <1>2, <2>3
    <3> QED BY <1>1, <1>5, <2>1, <2>3, <3>1 DEF NextOk
  <2> QED BY <2>2, <2>3
<1>8. PointedOnce(nd2)
  <2>1. \A i, j \in DOMAIN nd2 : nd2[i].next # NULL /\ nd2[i].next = nd2[j].next => i = j
    BY <1>1, <1>2 DEF PointedOnce
  <2>2. \A i, j \in DOMAIN nd2 : nd2[i].next # NULL => nd2[i].next # nd2[j].first
    BY <1>1, <1>2, <1>4 DEF PointedOnce
  <2> QED BY <2>1, <2>2 DEF PointedOnce
<1> QED BY <1>1, <1>5, <1>6, <1>7, <1>8 DEF Forest

\* Neither names nor contents matter to the lists.
SameLists(nd, nd2) ==
  /\ DOMAIN nd2 = DOMAIN nd
  /\ \A i \in DOMAIN nd :
       /\ nd2[i].parent = nd[i].parent /\ nd2[i].type = nd[i].type
       /\ nd2[i].first = nd[i].first /\ nd2[i].next = nd[i].next

\* What changes names and contents only keeps the forest.
LEMMA RelabelKeepsForest ==
  ASSUME NEW nd, NEW nd2, NEW age, Forest(nd, age), SameLists(nd, nd2)
  PROVE  /\ Forest(nd2, age)
         /\ \A i \in DOMAIN nd2 : Pointed(nd2, i) <=> Pointed(nd, i)
<1>1. \A i \in DOMAIN nd2 : Pointed(nd2, i) <=> Pointed(nd, i)
  BY DEF SameLists, Pointed
<1>2. /\ DOMAIN nd \subseteq Ids /\ age \in [Ids -> Nat]
      /\ FirstOk(nd, age) /\ NextOk(nd, age) /\ PointedOnce(nd)
  BY DEF Forest
<1>3. FirstOk(nd2, age)
  BY <1>2 DEF SameLists, FirstOk
<1>4. NextOk(nd2, age)
  BY <1>1, <1>2 DEF SameLists, NextOk
<1>5. PointedOnce(nd2)
  BY <1>2 DEF SameLists, PointedOnce
<1> QED BY <1>1, <1>2, <1>3, <1>4, <1>5 DEF Forest, SameLists

-----------------------------------------------------------------------------
(* The operators of RamFS.tla that change the pointers. *)

\* The fields of a node.
LEMMA Fields ==
  ASSUME NEW nd, Typed(nd), NEW i \in DOMAIN nd
  PROVE  /\ nd[i].name \in Names /\ nd[i].type \in Types
         /\ nd[i].parent \in Ids \cup {NULL}
         /\ nd[i].first \in Ids \cup {NULL} /\ nd[i].next \in Ids \cup {NULL}
         /\ nd[i].data \in {NoData} \cup 0 .. MAX_LENGTH /\ nd[i].size \in 0 .. MAX_LENGTH
         /\ nd[i] \in Node
<1>1. nd[i] \in Node
  BY DEF Typed
<1> QED BY <1>1 DEF Node

\* kmalloc and createNode.
LEMMA AddAdds ==
  ASSUME NEW nd, Typed(nd), NEW i \in Ids, i \notin DOMAIN nd,
         NEW r \in Node, r.first = NULL, r.next = NULL
  PROVE  /\ Typed(Add(nd, i, r)) /\ Added(nd, Add(nd, i, r), i) /\ Add(nd, i, r)[i] = r
         /\ \A j \in DOMAIN nd : Add(nd, i, r)[j] = nd[j]
<1> DEFINE nd2 == Add(nd, i, r)
<1>1. /\ DOMAIN nd2 = DOMAIN nd \cup {i} /\ nd2[i] = r
      /\ \A j \in DOMAIN nd : nd2[j] = nd[j]
  BY DEF Add
<1>2. nd2 \in [DOMAIN nd2 -> Node]
  <2>1. \A j \in DOMAIN nd \cup {i} : (IF j = i THEN r ELSE nd[j]) \in Node
    BY DEF Typed
  <2> QED BY <2>1 DEF Add
<1> HIDE DEF nd2
<1>3. Typed(nd2)
  BY <1>1, <1>2 DEF Typed
<1>4. Added(nd, nd2, i)
  BY <1>1 DEF Added, Same
<1> QED BY <1>1, <1>3, <1>4 DEF nd2

\* One pointer of one node set.
WithFirst(nd, p, c) == [nd EXCEPT ![p].first = c]
WithNext(nd, p, c) == [nd EXCEPT ![p].next = c]

\* A firstChild set changes nothing else.
LEMMA SetFirst ==
  ASSUME NEW nd, Typed(nd), NEW p \in DOMAIN nd, NEW c \in Ids
  PROVE  LET nd2 == WithFirst(nd, p, c)
         IN  /\ Typed(nd2) /\ DOMAIN nd2 = DOMAIN nd
             /\ \A i \in DOMAIN nd :
                  /\ Same(nd, nd2, i) /\ nd2[i].next = nd[i].next
                  /\ nd2[i].first = IF i = p THEN c ELSE nd[i].first
<1> DEFINE nd2 == WithFirst(nd, p, c)
<1>1. DOMAIN nd2 = DOMAIN nd /\ \A i \in DOMAIN nd : i # p => nd2[i] = nd[i]
  BY DEF Typed, WithFirst
<1>2. nd2[p] = [nd[p] EXCEPT !.first = c]
  BY DEF Typed, WithFirst
<1> HIDE DEF nd2
<1>3. nd[p] \in Node
  BY Fields
<1>4. /\ nd2[p] \in Node /\ nd2[p].first = c /\ nd2[p].next = nd[p].next
      /\ nd2[p].name = nd[p].name /\ nd2[p].type = nd[p].type
      /\ nd2[p].parent = nd[p].parent /\ nd2[p].data = nd[p].data /\ nd2[p].size = nd[p].size
  BY <1>2, <1>3 DEF Node
<1>5. nd2 \in [DOMAIN nd2 -> Node]
  <2>1. nd2 = [i \in DOMAIN nd2 |-> nd2[i]]
    BY DEF Typed, WithFirst, nd2
  <2>2. \A i \in DOMAIN nd2 : nd2[i] \in Node
    BY <1>1, <1>4, Fields
  <2> QED BY <2>1, <2>2
<1>6. Typed(nd2)
  BY <1>1, <1>5 DEF Typed
<1>7. \A i \in DOMAIN nd : /\ Same(nd, nd2, i) /\ nd2[i].next = nd[i].next
                           /\ nd2[i].first = IF i = p THEN c ELSE nd[i].first
  BY <1>1, <1>4 DEF Same
<1> QED BY <1>1, <1>6, <1>7 DEF nd2

\* The same of its nextSibling.
LEMMA SetNext ==
  ASSUME NEW nd, Typed(nd), NEW p \in DOMAIN nd, NEW c \in Ids
  PROVE  LET nd2 == WithNext(nd, p, c)
         IN  /\ Typed(nd2) /\ DOMAIN nd2 = DOMAIN nd
             /\ \A i \in DOMAIN nd :
                  /\ Same(nd, nd2, i) /\ nd2[i].first = nd[i].first
                  /\ nd2[i].next = IF i = p THEN c ELSE nd[i].next
<1> DEFINE nd2 == WithNext(nd, p, c)
<1>1. DOMAIN nd2 = DOMAIN nd /\ \A i \in DOMAIN nd : i # p => nd2[i] = nd[i]
  BY DEF Typed, WithNext
<1>2. nd2[p] = [nd[p] EXCEPT !.next = c]
  BY DEF Typed, WithNext
<1> HIDE DEF nd2
<1>3. nd[p] \in Node
  BY Fields
<1>4. /\ nd2[p] \in Node /\ nd2[p].next = c /\ nd2[p].first = nd[p].first
      /\ nd2[p].name = nd[p].name /\ nd2[p].type = nd[p].type
      /\ nd2[p].parent = nd[p].parent /\ nd2[p].data = nd[p].data /\ nd2[p].size = nd[p].size
  BY <1>2, <1>3 DEF Node
<1>5. nd2 \in [DOMAIN nd2 -> Node]
  <2>1. nd2 = [i \in DOMAIN nd2 |-> nd2[i]]
    BY DEF Typed, WithNext, nd2
  <2>2. \A i \in DOMAIN nd2 : nd2[i] \in Node
    BY <1>1, <1>4, Fields
  <2> QED BY <2>1, <2>2
<1>6. Typed(nd2)
  BY <1>1, <1>5 DEF Typed
<1>7. \A i \in DOMAIN nd : /\ Same(nd, nd2, i) /\ nd2[i].first = nd[i].first
                           /\ nd2[i].next = IF i = p THEN c ELSE nd[i].next
  BY <1>1, <1>4 DEF Same
<1> QED BY <1>1, <1>6, <1>7 DEF nd2

\* appendChild links the child, behind the last one if there is one.
LEMMA AppendLinks ==
  ASSUME NEW nd, NEW age, Typed(nd), Forest(nd, age), NEW p \in DOMAIN nd, NEW c \in DOMAIN nd
  PROVE  /\ Typed(AppendChild(nd, p, c))
         /\ \E l \in Ids \cup {NULL} :
              /\ Linked(nd, AppendChild(nd, p, c), p, l, c)
              /\ nd[p].first # NULL => ChildOf(nd, l, p) /\ nd[l].next = NULL
<1> DEFINE nd2 == AppendChild(nd, p, c)
<1>1. c \in Ids
  BY DEF Typed
<1>2. CASE nd[p].first = NULL
  <2>1. nd2 = WithFirst(nd, p, c)
    BY <1>2 DEF AppendChild, WithFirst
  <2> HIDE DEF nd2
  <2>2. /\ Typed(nd2) /\ DOMAIN nd2 = DOMAIN nd
        /\ \A i \in DOMAIN nd :
             /\ Same(nd, nd2, i) /\ nd2[i].next = nd[i].next
             /\ nd2[i].first = IF i = p THEN c ELSE nd[i].first
    BY <1>1, <2>1, SetFirst
  <2>3. Linked(nd, nd2, p, NULL, c)
    BY <1>2, <2>2 DEF Linked
  <2> QED BY <1>2, <2>2, <2>3 DEF nd2
<1>3. CASE nd[p].first # NULL
  <2> DEFINE last == CHOOSE i \in Children(nd, p) : nd[i].next = NULL
  <2>1. \E i \in Children(nd, p) : nd[i].next = NULL
    BY <1>3, LastChild
  <2>2. last \in Children(nd, p) /\ nd[last].next = NULL
    BY <2>1
  <2>3. nd2 = WithNext(nd, last, c)
    BY <1>3 DEF AppendChild, WithNext
  <2> HIDE DEF last, nd2
  <2>4. ChildOf(nd, last, p) /\ last \in DOMAIN nd
    BY <2>2, ChildrenAre DEF ChildOf
  <2>5. /\ Typed(nd2) /\ DOMAIN nd2 = DOMAIN nd
        /\ \A i \in DOMAIN nd :
             /\ Same(nd, nd2, i) /\ nd2[i].first = nd[i].first
             /\ nd2[i].next = IF i = last THEN c ELSE nd[i].next
    BY <1>1, <2>3, <2>4, SetNext
  <2>6. Linked(nd, nd2, p, last, c)
    BY <1>3, <2>5 DEF Linked
  <2>7. last \in Ids
    BY <2>4 DEF Typed
  <2> QED BY <2>2, <2>4, <2>5, <2>6, <2>7 DEF nd2
<1> QED BY <1>2, <1>3

\* destroyNode takes a node out of its list, whatever its place in it.
LEMMA DestroyRemoves ==
  ASSUME NEW nd, NEW age, Typed(nd), Forest(nd, age), NEW n \in DOMAIN nd, Pointed(nd, n)
  PROVE  Typed(Destroy(nd, n)) /\ Removed(nd, Destroy(nd, n), n)
<1> DEFINE p == nd[n].parent
           nd2 == Destroy(nd, n)
           list == Children(nd, p)
<1>1. /\ NULL \notin DOMAIN nd /\ p \in DOMAIN nd
      /\ FirstOk(nd, age) /\ NextOk(nd, age) /\ PointedOnce(nd)
  BY ForestPointers, PointedIsListed DEF Forest
<1>2. list = {i \in DOMAIN nd : ChildOf(nd, i, p)}
  BY <1>1, ChildrenAre
<1>3. nd[n].next \in Ids \cup {NULL} /\ nd[n] \in Node
  BY Fields
<1>4. /\ DOMAIN nd2 = DOMAIN nd \ {n}
      /\ \A i \in DOMAIN nd \ {n} :
           nd2[i] = IF i = p /\ nd[p].first = n THEN [nd[i] EXCEPT !.first = nd[n].next]
                    ELSE IF i \in list /\ nd[i].next = n
                    THEN [nd[i] EXCEPT !.next = nd[n].next]
                    ELSE nd[i]
  BY DEF Destroy
<1>5. nd2 = [i \in DOMAIN nd2 |-> nd2[i]]
  BY DEF Destroy
<1> HIDE DEF nd2, list, p
<1>6. ASSUME NEW i \in DOMAIN nd2
      PROVE  /\ nd2[i] \in Node /\ Same(nd, nd2, i)
             /\ nd2[i].first = IF nd[i].first = n THEN nd[n].next ELSE nd[i].first
             /\ nd2[i].next = IF nd[i].next = n THEN nd[n].next ELSE nd[i].next
  <2>1. i \in DOMAIN nd \ {n} /\ nd[i] \in Node /\ n # NULL
    BY <1>1, <1>4, Fields
  <2>2. nd[i].first = n => i = p
    BY <1>1, <2>1 DEF FirstOk, p
  <2>3. nd[i].next = n => i \in list
    <3>1. nd[i].next = n => nd[i].parent = p /\ Pointed(nd, i)
      BY <1>1, <2>1 DEF NextOk, p
    <3> QED BY <1>2, <2>1, <3>1 DEF ChildOf
  <2>4. nd[i].first = n => nd[i].next # n
    BY <1>1, <2>1 DEF PointedOnce
  <2>5. CASE nd[i].first = n
    <3>1. nd2[i] = [nd[i] EXCEPT !.first = nd[n].next]
      BY <1>4, <2>1, <2>2, <2>5
    <3>2. /\ nd2[i] \in Node /\ Same(nd, nd2, i) /\ nd2[i].first = nd[n].next
          /\ nd2[i].next = nd[i].next
      BY <1>3, <2>1, <3>1 DEF Node, Same
    <3> QED BY <2>4, <2>5, <3>2
  <2>6. CASE nd[i].first # n /\ nd[i].next = n
    <3>1. nd2[i] = [nd[i] EXCEPT !.next = nd[n].next]
      BY <1>4, <2>1, <2>3, <2>6
    <3>2. /\ nd2[i] \in Node /\ Same(nd, nd2, i) /\ nd2[i].next = nd[n].next
          /\ nd2[i].first = nd[i].first
      BY <1>3, <2>1, <3>1 DEF Node, Same
    <3> QED BY <2>6, <3>2
  <2>7. CASE nd[i].first # n /\ nd[i].next # n
    <3>1. nd2[i] = nd[i]
      BY <1>4, <2>1, <2>7
    <3> QED BY <2>1, <2>7, <3>1 DEF Same
  <2> QED BY <2>5, <2>6, <2>7
<1>7. Typed(nd2)
  BY <1>4, <1>5, <1>6 DEF Typed
<1> QED BY <1>4, <1>6, <1>7 DEF Removed, nd2

-----------------------------------------------------------------------------
(* Subtrees. *)

\* What one more round adds to a set of nodes: their children.
Grown(nd, S) == S \cup {i \in DOMAIN nd : Pointed(nd, i) /\ nd[i].parent \in S}

\* The recursion of Subtree, unfolded.
LEMMA SubtreeSteps ==
  ASSUME NEW nd, NEW age, Forest(nd, age), NEW n \in DOMAIN nd
  PROVE  \E f : /\ Subtree(nd, n) = f[NODES] /\ f[0] = {n}
                /\ \A k \in 0 .. NODES : f[k] \subseteq DOMAIN nd
                /\ \A k \in 1 .. NODES : f[k] = Grown(nd, f[k - 1])
<1> DEFINE D == SUBSET DOMAIN nd
           g == [k \in Nat |-> [S \in D |-> Grown(nd, S)]]
           Below(S) == S \cup UNION {Children(nd, d) : d \in S \cap DOMAIN nd}
           Follow(f) == [k \in 0 .. NODES |->
                           IF k = 0 THEN {n}
                           ELSE LET above == f[k - 1]
                                IN  above \cup UNION {Children(nd, d) : d \in above \cap DOMAIN nd}]
<1>1. NODES \in Nat /\ \A k \in 1 .. NODES : k \in Nat /\ k \in 0 .. NODES /\ k - 1 \in 0 .. NODES /\ k # 0
  BY NullIsNoId
<1>2. \A S \in D : Grown(nd, S) \in D
  BY DEF Grown
<1>3. ASSUME NEW S \in D PROVE Below(S) = Grown(nd, S)
  <2>1. \A d \in S \cap DOMAIN nd : Children(nd, d) = {i \in DOMAIN nd : ChildOf(nd, i, d)}
    BY ChildrenAre
  <2>2. \A i : i \in Below(S) <=> i \in S \/ \E d \in S \cap DOMAIN nd : i \in Children(nd, d)
    OBVIOUS
  <2>3. \A i : i \in Below(S) <=> i \in Grown(nd, S)
    <3> HIDE DEF Below
    <3>1. \A i : (\E d \in S \cap DOMAIN nd : i \in Children(nd, d)) <=>
                 i \in DOMAIN nd /\ Pointed(nd, i) /\ nd[i].parent \in S
      BY <2>1 DEF ChildOf
    <3> QED BY <2>2, <3>1 DEF Grown
  <2> HIDE DEF Below
  <2> QED BY <2>3
<1>4. PICK h \in [0 .. NODES -> D] : Iterates(h, g, {n}, NODES)
  <2>1. g \in [Nat -> [D -> D]]
    BY <1>2
  <2>2. {n} \in D
    OBVIOUS
  <2> HIDE DEF g, D
  <2> QED BY <1>1, <2>1, <2>2, IterationExists
<1>5. h[0] = {n} /\ \A k \in 1 .. NODES : h[k - 1] \in D /\ h[k] = Grown(nd, h[k - 1])
  <2>1. h[0] = {n} /\ \A k \in 1 .. NODES : h[k] = g[k][h[k - 1]]
    BY <1>4 DEF Iterates
  <2>2. ASSUME NEW k \in 1 .. NODES PROVE h[k - 1] \in D /\ g[k][h[k - 1]] = Grown(nd, h[k - 1])
    <3>1. h[k - 1] \in D /\ k \in Nat
      BY <1>1
    <3> QED BY <3>1
  <2> HIDE DEF g, D
  <2> QED BY <2>1, <2>2
<1>6. h = Follow(h)
  <2>1. \A k \in 0 .. NODES : h[k] = IF k = 0 THEN {n} ELSE Below(h[k - 1])
    <3>1. \A k \in 0 .. NODES : k = 0 \/ k \in 1 .. NODES
      BY <1>1
    <3>2. \A k \in 1 .. NODES : h[k] = Below(h[k - 1])
      <4> HIDE DEF Below, D
      <4> QED BY <1>3, <1>5
    <3> HIDE DEF Below, D
    <3> QED BY <1>1, <1>5, <3>1, <3>2
  <2> QED BY <2>1
<1>7. \E f : f = Follow(f) /\ Subtree(nd, n) = f[NODES]
  <2>1. Subtree(nd, n) = (CHOOSE f : f = Follow(f))[NODES]
    BY DEF Subtree
  <2> HIDE DEF Follow
  <2> QED BY <1>6, <2>1
<1>8. PICK f : f = Follow(f) /\ Subtree(nd, n) = f[NODES]
  BY <1>7
<1>9. f[0] = {n} /\ \A k \in 1 .. NODES : f[k] = Below(f[k - 1])
  <2>1. \A k \in 0 .. NODES : Follow(f)[k] = IF k = 0 THEN {n} ELSE Below(f[k - 1])
    OBVIOUS
  <2> HIDE DEF Follow, Below
  <2>2. \A k \in 0 .. NODES : f[k] = IF k = 0 THEN {n} ELSE Below(f[k - 1])
    BY <1>8, <2>1, Zenon
  <2>3. 0 \in 0 .. NODES
    BY <1>1
  <2> QED BY <1>1, <2>2, <2>3
<1>10. \A k \in 0 .. NODES : f[k] \in D
  <2> DEFINE Bad == {k \in 0 .. NODES : f[k] \notin D}
  <2>1. SUFFICES ASSUME Bad # {} PROVE FALSE
    OBVIOUS
  <2>2. PICK x \in Bad : \A k \in Bad : x <= k
    <3>1. Bad \subseteq Nat
      BY <1>1
    <3> HIDE DEF Bad
    <3> QED BY <2>1, <3>1, Least
  <2>3. x # 0 /\ x \in 0 .. NODES /\ f[x] \notin D
    BY <1>9
  <2>4. x \in 1 .. NODES /\ x - 1 \in 0 .. NODES /\ ~(x <= x - 1)
    BY <1>1, <2>3
  <2>5. f[x - 1] \in D
    <3>1. x - 1 \notin Bad
      <4> HIDE DEF Bad
      <4> QED BY <2>2, <2>4
    <3> QED BY <2>4, <3>1
  <2>6. f[x] \in D
    <3> HIDE DEF D, Below, Bad
    <3> QED BY <1>2, <1>3, <1>9, <2>4, <2>5
  <2> QED BY <2>3, <2>6
<1>11. \A k \in 1 .. NODES : f[k] = Grown(nd, f[k - 1])
  <2> HIDE DEF D, Below
  <2> QED BY <1>1, <1>3, <1>9, <1>10
<1> QED BY <1>8, <1>9, <1>10, <1>11

\* A subtree is n and, with each of its nodes, the children of it: after NODES
\* rounds nothing can be missing, since each round before added a node.
LEMMA SubtreeClosed ==
  ASSUME NEW nd, NEW age, Forest(nd, age), NEW n \in DOMAIN nd
  PROVE  /\ n \in Subtree(nd, n) /\ Subtree(nd, n) \subseteq DOMAIN nd
         /\ \A i \in Subtree(nd, n) : i # n => Pointed(nd, i) /\ nd[i].parent \in Subtree(nd, n)
         /\ \A i \in DOMAIN nd : Pointed(nd, i) /\ nd[i].parent \in Subtree(nd, n)
              => i \in Subtree(nd, n)
<1>1. PICK f : /\ Subtree(nd, n) = f[NODES] /\ f[0] = {n}
               /\ \A k \in 0 .. NODES : f[k] \subseteq DOMAIN nd
               /\ \A k \in 1 .. NODES : f[k] = Grown(nd, f[k - 1])
  BY SubtreeSteps
<1>2. NODES \in Nat /\ NODES \in 0 .. NODES
  BY NullIsNoId
<1>3. IsFiniteSet(Ids) /\ Cardinality(Ids) = NODES
  BY <1>2, NullIsNoId, FS_Interval DEF Ids
<1>4. \A k \in 0 .. NODES : IsFiniteSet(f[k]) /\ Cardinality(f[k]) \in Nat /\ Cardinality(f[k]) <= NODES
  <2> TAKE k \in 0 .. NODES
  <2>1. f[k] \in SUBSET Ids
    BY <1>1 DEF Forest
  <2>2. IsFiniteSet(f[k]) /\ Cardinality(f[k]) <= Cardinality(Ids)
    BY <1>3, <2>1, FS_Subset
  <2> QED BY <1>3, <2>2, FS_CardinalityType
<1> DEFINE Sound(k) == /\ n \in f[k]
                       /\ \A i \in f[k] : i # n => Pointed(nd, i) /\ nd[i].parent \in f[k]
                       /\ Cardinality(f[k]) >= k + 1 \/ Grown(nd, f[k]) = f[k]
<1>5. Sound(0)
  <2>1. Cardinality({n}) = 1
    BY FS_Singleton
  <2> QED BY <1>1, <2>1
<1>6. ASSUME NEW k \in 1 .. NODES, Sound(k - 1) PROVE Sound(k)
  <2>1. f[k] = Grown(nd, f[k - 1]) /\ k - 1 \in 0 .. NODES /\ k \in 0 .. NODES
    BY <1>1, <1>2
  <2>2. f[k - 1] \subseteq f[k]
    BY <2>1 DEF Grown
  <2>3. n \in f[k] /\ \A i \in f[k] : i # n => Pointed(nd, i) /\ nd[i].parent \in f[k]
    <3>1. /\ n \in f[k - 1]
          /\ \A i \in f[k - 1] : i # n => Pointed(nd, i) /\ nd[i].parent \in f[k - 1]
      BY <1>6
    <3>2. \A i \in f[k] : i \in f[k - 1] \/ (Pointed(nd, i) /\ nd[i].parent \in f[k - 1])
      BY <2>1 DEF Grown
    <3> QED BY <2>2, <3>1, <3>2
  <2>4. CASE Grown(nd, f[k - 1]) = f[k - 1]
    <3>1. f[k] = f[k - 1]
      BY <2>1, <2>4
    <3>2. Grown(nd, f[k]) = f[k]
      BY <2>4, <3>1
    <3> QED BY <2>3, <3>2
  <2>5. CASE Grown(nd, f[k - 1]) # f[k - 1]
    <3>1. Cardinality(f[k - 1]) >= (k - 1) + 1
      BY <1>6, <2>5
    <3>2. f[k] # f[k - 1] /\ f[k - 1] \in SUBSET f[k]
      BY <2>1, <2>2, <2>5
    <3>3. /\ Cardinality(f[k - 1]) <= Cardinality(f[k])
          /\ Cardinality(f[k]) # Cardinality(f[k - 1])
      BY <1>4, <2>1, <3>2, FS_Subset
    <3>4. Cardinality(f[k]) >= k + 1
      <4>1. k \in Nat /\ Cardinality(f[k - 1]) \in Nat /\ Cardinality(f[k]) \in Nat
        BY <1>2, <1>4, <2>1
      <4> QED BY <3>1, <3>3, <4>1
    <3> QED BY <2>3, <3>4
  <2> QED BY <2>4, <2>5
<1>7. \A k \in 0 .. NODES : Sound(k)
  <2> HIDE DEF Sound
  <2> DEFINE Bad == {k \in 0 .. NODES : ~Sound(k)}
  <2>1. SUFFICES ASSUME Bad # {} PROVE FALSE
    OBVIOUS
  <2>2. PICK x \in Bad : \A k \in Bad : x <= k
    <3>1. Bad \subseteq Nat
      BY <1>2
    <3> HIDE DEF Bad
    <3> QED BY <2>1, <3>1, Least
  <2>3. x # 0 /\ x \in 0 .. NODES /\ ~Sound(x)
    BY <1>5
  <2>4. x \in 1 .. NODES /\ x - 1 \in 0 .. NODES /\ ~(x <= x - 1)
    BY <1>2, <2>3
  <2>5. Sound(x - 1)
    <3>1. x - 1 \notin Bad
      <4> HIDE DEF Bad
      <4> QED BY <2>2, <2>4
    <3> QED BY <2>4, <3>1
  <2> QED BY <1>6, <2>3, <2>4, <2>5
<1>8. Sound(NODES) /\ f[NODES] \subseteq DOMAIN nd
  <2> HIDE DEF Sound
  <2> QED BY <1>1, <1>2, <1>7
<1>9. Grown(nd, f[NODES]) = f[NODES]
  BY <1>2, <1>4, <1>8
<1>10. \A i \in DOMAIN nd : Pointed(nd, i) /\ nd[i].parent \in f[NODES] => i \in f[NODES]
  BY <1>9 DEF Grown
<1> QED BY <1>1, <1>8, <1>10
=============================================================================
