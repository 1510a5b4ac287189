------------------------------- MODULE RamFS -------------------------------
(***************************************************************************)
(* The RAM filesystem: the commands of include/fs/ramfs.hpp, the tree they *)
(* keep (src/fs/fsnode.cpp) and the resolution of paths in it              *)
(* (src/fs/fsresolver.cpp).                                                *)
(*                                                                         *)
(* Nodes are kept as the code keeps them, linked by firstChild,            *)
(* nextSibling and parent pointers.  A command is one step, but for the    *)
(* two recursive ones: rm on a folder and copy are taken loop turn by loop *)
(* turn, with the activations of recursiveDestroy and cloneNode on a       *)
(* stack, since the tree is half gone or half made in between.             *)
(*                                                                         *)
(* A path is its components; a component is a name, "." or "..", or "" for *)
(* what a slash after one of those leaves.  A file's content is its length.*)
(***************************************************************************)
EXTENDS Integers, Sequences, FiniteSets, Functions

CONSTANTS
  NODES,        \* how many nodes the heap has room for
  NewNames,     \* the names rename is given, without slash, that FSNode::name holds
  LongNames,    \* names a command line can hold and FSNode::name cannot
  Paths,        \* the paths callers use
  Lengths,      \* the lengths of the strings callers write
  STACK_SIZE,   \* the folders the Stack of pwd and find holds: 64 in the code
  MAX_LENGTH,   \* bound of the model: the longest content
  MAX_WRITTEN,  \* bound of the model: nodes with content
  MAX_LEAKED    \* bound of the model: allocated nodes that are not in the tree

ASSUME RamFSAssumption ==
  /\ NODES \in Nat \ {0}
  /\ \A path \in Paths : path.comps \in Seq(STRING)
  /\ STACK_SIZE \in Nat
  /\ Lengths \subseteq Nat /\ MAX_LENGTH \in Nat /\ MAX_WRITTEN \in Nat /\ MAX_LEAKED \in Nat

VARIABLES
  node,      \* the FSNodes allocated, by address
  current,   \* RamFS::current
  pc,        \* "idle", or the recursive command that runs
  stack,     \* the activations of recursiveDestroy or cloneNode, innermost first
  dest,      \* copy's ParentResult
  kept,      \* history: the nodes the running rm has to leave
  image,     \* history: what the running copy has to look like
  wild       \* history: a write through a null pointer, or past a name

vars == <<node, current, pc, stack, dest, kept, image, wild>>

NULL == 0
NoData == -1       \* FSNode::data is nullptr; a length otherwise

Ids == 1 .. NODES
Root == 1

Types == {"File", "Folder"}

\* kmalloc gives a node the lowest free address.
Full(nd) == DOMAIN nd = Ids
Fresh(nd) == CHOOSE i \in Ids \ DOMAIN nd : \A j \in Ids \ DOMAIN nd : i <= j

-----------------------------------------------------------------------------
(* src/fs/fsnode.cpp *)

\* The sibling list that starts with m, by position; NULL once it has ended.
Chain(nd, m) ==
  LET f[k \in 0 .. NODES] ==
        IF k = 0 THEN m
        ELSE LET i == f[k - 1] IN IF i \in DOMAIN nd THEN nd[i].next ELSE NULL
  IN  f

Listed(nd, m) == {Chain(nd, m)[k] : k \in 0 .. NODES} \ {NULL}

Children(nd, d) == Listed(nd, nd[d].first)

NewNode(n, t, p, d, s) ==
  [name |-> n, type |-> t, parent |-> p, first |-> NULL, next |-> NULL,
   data |-> d, size |-> s]

Add(nd, i, r) == [j \in DOMAIN nd \cup {i} |-> IF j = i THEN r ELSE nd[j]]

\* Mutation: the node before the destroyed one keeps pointing at it.
DestroyUnlinked(nd, n) ==
  LET p == nd[n].parent
  IN  [i \in DOMAIN nd \ {n} |->
         IF i = p /\ nd[p].first = n THEN [nd[i] EXCEPT !.first = nd[n].next]
         ELSE nd[i]]

\* destroyNode: out of its parent's list, and freed.  n has a parent.
Destroy(nd, n) ==
  LET p == nd[n].parent
  IN  [i \in DOMAIN nd \ {n} |->
         IF i = p /\ nd[p].first = n THEN [nd[i] EXCEPT !.first = nd[n].next]
         ELSE IF i \in Children(nd, p) /\ nd[i].next = n
         THEN [nd[i] EXCEPT !.next = nd[n].next]
         ELSE nd[i]]

\* findNode, not recursive: the first child of d with that name.
FindNode(nd, name, d) ==
  LET list == Chain(nd, nd[d].first)
      hits == {k \in 0 .. NODES : list[k] # NULL /\ nd[list[k]].name = name}
  IN  IF hits = {} THEN NULL
      ELSE list[CHOOSE k \in hits : \A j \in hits : k <= j]

AppendChild(nd, p, c) ==
  IF nd[p].first = NULL THEN [nd EXCEPT ![p].first = c]
  ELSE LET last == CHOOSE i \in Children(nd, p) : nd[i].next = NULL
       IN  [nd EXCEPT ![last].next = c]

-----------------------------------------------------------------------------
(* src/fs/fsresolver.cpp *)

Start(path) == IF path.abs THEN Root ELSE current

Up(n) == IF node[n].parent # NULL THEN node[n].parent ELSE n

\* One component of a path, from node n on.
PathStep(n, c) ==
  CASE c \in {".", ""} -> n
    [] c = ".."        -> Up(n)
    [] OTHER           -> FindNode(node, c, n)

\* resolveParent goes on in folders only.
FolderStep(n, c) ==
  LET m == PathStep(n, c)
  IN  IF m # NULL /\ node[m].type = "Folder" THEN m ELSE NULL

\* The node the components lead to from n, or NULL; in folders only if so asked.
Walk(comps, n, inFolders) ==
  LET walk[k \in 0 .. Len(comps)] ==
        IF k = 0 THEN n
        ELSE LET m == walk[k - 1]
             IN  IF m = NULL THEN NULL
                 ELSE IF inFolders THEN FolderStep(m, comps[k]) ELSE PathStep(m, comps[k])
  IN  walk[Len(comps)]

\* Mutation: a leading slash is skipped and forgotten.
ResolveFromCurrent(path) == Walk(path.comps, current, FALSE)

\* resolvePath: the node a path names, or NULL.
Resolve(path) == Walk(path.comps, Start(path), FALSE)

NoParent == [parent |-> NULL, name |-> ""]

\* resolveParent: the folder the last component is in, or to be put in, and
\* that component; NoParent for its err.
ResolveParent(path) ==
  LET last == Len(path.comps)
      p == Walk(SubSeq(path.comps, 1, last - 1), Start(path), TRUE)
  IN  CASE last = 0 /\ path.abs -> [parent |-> Root, name |-> ""]
        [] last > 0 /\ path.comps[last] \notin {".", ".."} /\ p # NULL ->
             [parent |-> p, name |-> path.comps[last]]
        [] OTHER -> NoParent

-----------------------------------------------------------------------------
(* Shapes of subtrees, for the history variables and the properties. *)

Subtree(nd, n) ==
  LET f[k \in 0 .. NODES] ==
        IF k = 0 THEN {n}
        ELSE LET above == f[k - 1]
             IN  above \cup UNION {Children(nd, d) : d \in above \cap DOMAIN nd}
  IN  f[NODES]

\* What the user sees of n: its type, its size and, in order, the names and
\* shapes of its children.
Shape(nd, n) ==
  LET shape[k \in 0 .. NODES] ==
        IF k = 0 THEN [i \in DOMAIN nd |-> <<>>]
        ELSE LET below == shape[k - 1]
             IN  [i \in DOMAIN nd |->
                    LET list == Chain(nd, nd[i].first)
                    IN  <<nd[i].type, nd[i].size,
                          [j \in {j \in 0 .. NODES : list[j] # NULL} |->
                             <<nd[list[j]].name, below[list[j]]>>]>>]
  IN  shape[NODES][n]

-----------------------------------------------------------------------------
NewTree == [i \in {Root} |-> NewNode("/", "Folder", NULL, NoData, 0)]

Init ==
  /\ node = NewTree
  /\ current = Root
  /\ pc = "idle" /\ stack = <<>> /\ dest = NoParent
  /\ kept = {} /\ image = <<>>
  /\ wild = FALSE

\* A command can be given: the prompt has printed current's name.
Ready == pc = "idle" /\ ~wild /\ current \in DOMAIN node

NotRecursive == UNCHANGED <<pc, stack, dest, kept, image>>

\* The code writes where it must not.  What memory holds from then on is
\* undefined, and the model forgets it.
GoesWild ==
  /\ wild' = TRUE
  /\ node' = NewTree /\ current' = Root
  /\ pc' = "idle" /\ stack' = <<>> /\ dest' = NoParent
  /\ kept' = {} /\ image' = <<>>

\* Mutation: the name is not looked for.
MakeNodeBlindly(path, t) ==
  LET r == ResolveParent(path)
      i == Fresh(node)
      nd == Add(node, i, NewNode(r.name, t, r.parent, NoData, 0))
  IN  /\ Ready /\ r # NoParent /\ ~Full(node)
      /\ node' = AppendChild(nd, r.parent, i)
      /\ NotRecursive
      /\ UNCHANGED <<current, wild>>

\* mkdir and create: the node is allocated first, and linked unless its name
\* is taken.
MakeNode(path, t) ==
  LET r == ResolveParent(path)
      i == Fresh(node)
      nd == Add(node, i, NewNode(r.name, t, r.parent, NoData, 0))
  IN  /\ Ready /\ r # NoParent /\ ~Full(node)
      /\ node' = IF FindNode(node, r.name, r.parent) = NULL
                 THEN AppendChild(nd, r.parent, i) ELSE nd
      /\ Cardinality(DOMAIN node' \ Subtree(node', Root)) <= MAX_LEAKED
      /\ NotRecursive
      /\ UNCHANGED <<current, wild>>

\* createNode writes the fields of the node kmalloc could not allocate.
MakeNodeWithoutMemory(path) ==
  /\ Ready /\ ResolveParent(path) # NoParent /\ Full(node)
  /\ GoesWild

\* Mutation: cd does not test what it has resolved.
CdAnywhere(path) ==
  /\ Ready
  /\ current' = Resolve(path)
  /\ NotRecursive
  /\ UNCHANGED <<node, wild>>

Cd(path) ==
  LET n == Resolve(path)
  IN  /\ Ready /\ n # NULL /\ node[n].type = "Folder"
      /\ current' = n
      /\ NotRecursive
      /\ UNCHANGED <<node, wild>>

\* The bounds of the model on contents.
Writable(n, l) ==
  /\ l <= MAX_LENGTH
  /\ Cardinality({i \in DOMAIN node : node[i].data # NoData \/ node[i].size # 0}
                   \cup {n}) <= MAX_WRITTEN

\* Mutation: the size stays that of the old content.
OverwriteOldSize(path, l, ok) ==
  LET n == Resolve(path)
  IN  /\ Ready /\ n # NULL /\ Writable(n, l)
      /\ ok \/ node[n].data < l
      /\ node' = [node EXCEPT ![n].data = IF ok THEN l ELSE NoData]
      /\ NotRecursive
      /\ UNCHANGED <<current, wild>>

\* write with "true": the old content is freed before the new one has a place.
\* Where the old one was the new one fits, if it is not longer.
Overwrite(path, l, ok) ==
  LET n == Resolve(path)
  IN  /\ Ready /\ n # NULL /\ Writable(n, l)
      /\ ok \/ node[n].data < l
      /\ node' = IF ok THEN [node EXCEPT ![n].data = l, ![n].size = l]
                 ELSE [node EXCEPT ![n].data = NoData]
      /\ NotRecursive
      /\ UNCHANGED <<current, wild>>

\* Mutation: the size is that of the string written.
AppendShort(path, l) ==
  LET n == Resolve(path)
      old == IF node[n].data = NoData THEN 0 ELSE node[n].data
  IN  /\ Ready /\ n # NULL /\ Writable(n, old + l)
      /\ node' = [node EXCEPT ![n].data = old + l, ![n].size = l]
      /\ NotRecursive
      /\ UNCHANGED <<current, wild>>

\* write without: when kmalloc fails nothing has changed.
AppendTo(path, l) ==
  LET n == Resolve(path)
      old == IF node[n].data = NoData THEN 0 ELSE node[n].data
  IN  /\ Ready /\ n # NULL /\ Writable(n, old + l)
      /\ node' = [node EXCEPT ![n].data = old + l, ![n].size = old + l]
      /\ NotRecursive
      /\ UNCHANGED <<current, wild>>

\* rename writes the new name over the old one, whatever it is.  (The root's
\* own name is never read but to print it, and is left out.)
Rename(path, name) ==
  LET n == Resolve(path)
  IN  /\ Ready /\ n # NULL
      /\ node' = IF n = Root THEN node ELSE [node EXCEPT ![n].name = name]
      /\ NotRecursive
      /\ UNCHANGED <<current, wild>>

\* strcpy goes past the 32 bytes of the name, over type and firstChild.
RenameTooLong(path, name) ==
  /\ Ready /\ Resolve(path) # NULL
  /\ GoesWild

\* rm on a file, with or without its flag, and rmdir on an empty folder.
RemoveOne(path) ==
  LET n == Resolve(path)
  IN  /\ Ready /\ n \notin {NULL, Root}
      /\ node[n].type = "File" \/ node[n].first = NULL
      /\ node' = Destroy(node, n)
      /\ NotRecursive
      /\ UNCHANGED <<current, wild>>

\* rmdir of the empty root: destroyNode writes through its null parent.
RemoveRoot(path) ==
  /\ Ready /\ Resolve(path) = Root /\ node[Root].first = NULL
  /\ GoesWild

-----------------------------------------------------------------------------
(* rm <folder> r: recursiveDestroy, with its locals folder and last. *)

Activation(n) == [dir |-> n, last |-> node[n].first]

RemoveTree(path) ==
  LET n == Resolve(path)
  IN  /\ Ready /\ n # NULL /\ node[n].type = "Folder"
      /\ pc' = "destroy" /\ stack' = <<Activation(n)>>
      /\ kept' = DOMAIN node \ Subtree(node, n)
      /\ UNCHANGED <<node, current, dest, image, wild>>

Destroying == pc = "destroy" /\ ~wild

\* The innermost activation goes on to the child's saved `next`.
Advanced == [Head(stack) EXCEPT !.last = node[Head(stack).last].next]

DestroyFile ==
  LET child == Head(stack).last
  IN  /\ Destroying /\ child # NULL /\ node[child].type = "File"
      /\ node' = Destroy(node, child)
      /\ stack' = <<Advanced>> \o Tail(stack)
      /\ UNCHANGED <<current, pc, dest, kept, image, wild>>

\* Mutation: a folder among the children is destroyed as if it were a file.
EnterFolderNot ==
  LET child == Head(stack).last
  IN  /\ Destroying /\ child # NULL /\ node[child].type = "Folder"
      /\ node' = Destroy(node, child)
      /\ stack' = <<Advanced>> \o Tail(stack)
      /\ UNCHANGED <<current, pc, dest, kept, image, wild>>

EnterFolder ==
  LET child == Head(stack).last
  IN  /\ Destroying /\ child # NULL /\ node[child].type = "Folder"
      /\ stack' = <<Activation(child), Advanced>> \o Tail(stack)
      /\ UNCHANGED <<node, current, pc, dest, kept, image, wild>>

\* Mutation: the activation does not return.
DestroyFolderStay ==
  LET n == Head(stack).dir
  IN  /\ Destroying /\ Head(stack).last = NULL /\ n # Root
      /\ UNCHANGED vars

\* The children are gone: the folder follows and its activation returns.
DestroyFolder ==
  LET n == Head(stack).dir
  IN  /\ Destroying /\ Head(stack).last = NULL /\ n # Root
      /\ node' = Destroy(node, n)
      /\ stack' = Tail(stack)
      /\ IF Tail(stack) = <<>> THEN pc' = "idle" /\ kept' = {}
         ELSE UNCHANGED <<pc, kept>>
      /\ UNCHANGED <<current, dest, image, wild>>

DestroyRoot ==
  /\ Destroying /\ Head(stack).last = NULL /\ Head(stack).dir = Root
  /\ GoesWild

-----------------------------------------------------------------------------
(* copy: cloneNode, with its locals copy, child and lastCopy. *)

\* createNode inside cloneNode; its content may find no memory.
CloneOf(nd, n, p, ok) ==
  [NewNode(nd[n].name, nd[n].type, p, nd[n].data, nd[n].size)
     EXCEPT !.data = IF ok THEN @ ELSE NoData]

Cloning(n, c) ==
  [copy |-> c, child |-> IF node[n].type = "Folder" THEN node[n].first ELSE NULL,
   lastCopy |-> NULL]

CopyTarget(path, to) ==
  LET r == ResolveParent(to)
  IN  /\ Ready /\ r # NoParent /\ Resolve(path) # NULL
      /\ FindNode(node, r.name, r.parent) = NULL

Copy(path, to, ok) ==
  LET n == Resolve(path)
      c == Fresh(node)
  IN  /\ CopyTarget(path, to) /\ ~Full(node)
      /\ dest' = ResolveParent(to)
      /\ node' = Add(node, c, CloneOf(node, n, dest'.parent, ok))
      /\ pc' = "clone" /\ stack' = <<Cloning(n, c)>>
      /\ image' = Shape(node, n)
      /\ UNCHANGED <<current, kept, wild>>

CopyWithoutMemory(path, to) == CopyTarget(path, to) /\ Full(node) /\ GoesWild

Copying == pc = "clone" /\ ~wild

CloneChild(ok) ==
  LET top == Head(stack)
      c == Fresh(node)
  IN  /\ Copying /\ top.child # NULL /\ ~Full(node)
      /\ node' = Add(node, c, CloneOf(node, top.child, top.copy, ok))
      /\ stack' = <<Cloning(top.child, c)>> \o stack
      /\ UNCHANGED <<current, pc, dest, kept, image, wild>>

CloneWithoutMemory ==
  /\ Copying /\ Head(stack).child # NULL /\ Full(node)
  /\ GoesWild

\* Mutation: every copy is linked as the first child.
CloneReturnsFirst ==
  LET c == Head(stack).copy
      up == stack[2]
  IN  /\ Copying /\ Head(stack).child = NULL /\ Len(stack) > 1
      /\ node' = [node EXCEPT ![up.copy].first = c]
      /\ stack' = <<[up EXCEPT !.child = node[@].next, !.lastCopy = c]>>
                  \o SubSeq(stack, 3, Len(stack))
      /\ UNCHANGED <<current, pc, dest, kept, image, wild>>

\* The copy of a child is complete and is linked behind the one before it.
CloneReturns ==
  LET c == Head(stack).copy
      up == stack[2]
  IN  /\ Copying /\ Head(stack).child = NULL /\ Len(stack) > 1
      /\ node' = IF node[up.copy].first = NULL
                 THEN [node EXCEPT ![up.copy].first = c]
                 ELSE [node EXCEPT ![up.lastCopy].next = c]
      /\ stack' = <<[up EXCEPT !.child = node[@].next, !.lastCopy = c]>>
                  \o SubSeq(stack, 3, Len(stack))
      /\ UNCHANGED <<current, pc, dest, kept, image, wild>>

\* The copy is complete: it gets its name and its place.
CopyDone ==
  LET c == Head(stack).copy
  IN  /\ Copying /\ Head(stack).child = NULL /\ Len(stack) = 1
      /\ node' = AppendChild([node EXCEPT ![c].name = dest.name], dest.parent, c)
      /\ pc' = "idle" /\ stack' = <<>> /\ dest' = NoParent /\ image' = <<>>
      /\ UNCHANGED <<current, kept, wild>>

-----------------------------------------------------------------------------
\* After a write through a null pointer, or with `current` pointing at a freed
\* node, what the C++ does is undefined: the model stays there.
Undefined ==
  /\ wild \/ (pc = "idle" /\ current \notin DOMAIN node)
  /\ UNCHANGED vars

Running ==
  \/ DestroyFile \/ EnterFolder \/ DestroyFolder \/ DestroyRoot
  \/ \E ok \in BOOLEAN : CloneChild(ok)
  \/ CloneWithoutMemory \/ CloneReturns \/ CopyDone

Renaming ==
  \E path \in Paths :
    \/ \E name \in NewNames : Rename(path, name)
    \/ \E name \in LongNames : RenameTooLong(path, name)

Command ==
  \E path \in Paths :
    \/ \E t \in Types : MakeNode(path, t)
    \/ MakeNodeWithoutMemory(path)
    \/ Cd(path)
    \/ \E l \in Lengths : AppendTo(path, l) \/ \E ok \in BOOLEAN : Overwrite(path, l, ok)
    \/ RemoveOne(path) \/ RemoveRoot(path) \/ RemoveTree(path)
    \/ \E to \in Paths : CopyWithoutMemory(path, to) \/ \E ok \in BOOLEAN : Copy(path, to, ok)

Next == Command \/ Renaming \/ Running \/ Undefined

Spec == Init /\ [][Next]_vars

FairSpec == Spec /\ WF_vars(Running)

-----------------------------------------------------------------------------
(* Properties. *)
Names == NewNames \cup {"/", ""} \cup UNION {Range(path.comps) : path \in Paths}

Node == [name : Names, type : Types, parent : Ids \cup {NULL},
         first : Ids \cup {NULL}, next : Ids \cup {NULL},
         data : {NoData} \cup 0 .. MAX_LENGTH, size : 0 .. MAX_LENGTH]

TypeOK ==
  /\ DOMAIN node \subseteq Ids /\ node \in [DOMAIN node -> Node]
  /\ current \in Ids
  /\ pc \in {"idle", "destroy", "clone"} /\ wild \in BOOLEAN
  /\ Len(stack) <= NODES /\ (pc = "idle" <=> stack = <<>>)
  /\ kept \subseteq Ids

\* The lists of the tree are sound between and inside commands: a folder's
\* list ends, holds allocated nodes only, all of them with that folder as
\* parent, and a file has none.  So no walk of fsnode.cpp runs into a freed
\* node or for ever, and no node is in two places.
ListsSound ==
  ~wild =>
    \A d \in DOMAIN node :
      /\ Chain(node, node[d].first)[NODES] = NULL
      /\ Children(node, d) \subseteq DOMAIN node
      /\ \A c \in Children(node, d) : node[c].parent = d
      /\ node[d].type = "File" => node[d].first = NULL

\* The size of n, which `size` prints, is the length of its content, which `cat`
\* shows; "(Empty file)" where there is none.
SizeShown(nd, n) == nd[n].size = IF nd[n].data = NoData THEN 0 ELSE nd[n].data

\* The size of a node that has content is the length of that content, whatever
\* writes and copies it has been through.  A node without content may keep a
\* size that is not its own: see OnlyFailureMisstates.
ContentSized == \A n \in DOMAIN node : node[n].data # NoData => SizeShown(node, n)

\* A command finds no memory for a content: overwriting has freed the old one by
\* then, and the copy of a node is made without.
ContentFails ==
  \/ CloneChild(FALSE)
  \/ \E path \in Paths :
        \/ \E l \in Lengths : Overwrite(path, l, FALSE)
        \/ \E to \in Paths : Copy(path, to, FALSE)

\* As long as the size of every node is the length of its content, no step of a
\* command changes that but one that finds no memory for a content.
OnlyFailureMisstates ==
  [][(\A n \in DOMAIN node : SizeShown(node, n)) =>
       (\A n \in DOMAIN node' : SizeShown(node', n)) \/ ContentFails]_vars

\* rm <folder> r frees the folder and all that is below it, and nothing else.
RemovedExactly ==
  [][pc = "destroy" /\ pc' = "idle" /\ ~wild' => DOMAIN node' = kept]_vars

\* copy ends with a node under its new name that has the shape the original
\* had when it began, even when the original is the folder it is copied into.
CopyExact ==
  [][pc = "clone" /\ pc' = "idle" /\ ~wild' =>
       LET c == FindNode(node', dest.name, dest.parent)
       IN  c # NULL /\ Shape(node', c) = image]_vars

\* No two children of a folder have the same name.
NamesUnique ==
  \A d \in DOMAIN node : \A a, b \in Children(node, d) :
    node[a].name = node[b].name => a = b

\* mkdir, touch and copy keep names unique: only rename can break that.
OnlyRenameDuplicates == [][NamesUnique /\ ~wild => NamesUnique' \/ Renaming]_vars

\* n, its parent, the parent of that and so on, as pwd and find go up; and how
\* many of them are pushed, the root being none.
Ancestor(n) ==
  LET up[k \in 0 .. NODES] ==
        IF k = 0 THEN n
        ELSE LET i == up[k - 1] IN IF i = NULL THEN NULL ELSE node[i].parent
  IN  up

Depth(n) == CHOOSE k \in 0 .. NODES : Ancestor(n)[k] = Root

\* The path pwd and find print of n.  A full Stack ignores what is pushed, so
\* the folders next to the root are the ones left out.
PathTo(n) ==
  LET held == IF Depth(n) <= STACK_SIZE THEN Depth(n) ELSE STACK_SIZE
  IN  [abs |-> TRUE, comps |-> [k \in 1 .. held |-> node[Ancestor(n)[held - k]].name]]

\* Where names are unique and not empty, the path pwd prints leads back to the
\* folder it was printed in, and so does the path find prints of any node, as
\* long as the Stack holds the way up.
PathLeadsBack ==
  Ready /\ NamesUnique /\ (\A n \in Subtree(node, Root) : node[n].name # "") =>
    \A n \in Subtree(node, Root) : Depth(n) <= STACK_SIZE => Resolve(PathTo(n)) = n

\* rm and copy on a folder come to an end.
CommandReturns == pc # "idle" ~> pc = "idle" \/ wild

\* The folder the shell is in exists ("Directory Busy", error.hpp:62).
CurrentExists == pc = "idle" /\ ~wild => current \in DOMAIN node
=============================================================================
