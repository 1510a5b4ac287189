----------------------------- MODULE PfsProofs -----------------------------
(***************************************************************************)
(* Proofs about Pfs.tla, for every size of memory and disk, every content  *)
(* of the disk at the start, all paths and any number of faults.           *)
(*                                                                         *)
(* lba decides where nodes are written, and nothing in the code keeps it   *)
(* away from the superblock: mount starts it at sector 1.  That no node is *)
(* ever written there rests on what a command knows when it comes to       *)
(* write: it has a node in memory only after mount has moved lba on        *)
(* (MemoryInv), every node holds the number of a sector behind sector 1    *)
(* (Tree), and the sectors it has still to write are all of this kind      *)
(* (QueueInv), unless the command is format, or mdir's unset number.       *)
(*                                                                         *)
(* That what create made is found again (FoundInv, at the end) rests on    *)
(* the pointers on the way to it: they are set, and no step sets one anew. *)
(***************************************************************************)
EXTENDS Pfs, SequenceTheorems, FiniteSetTheorems, WellFoundedInduction, TLAPS

\* Nodes are well formed, and parents that were set are in memory.
Tree(nd) ==
  /\ DOMAIN nd \subseteq Ids
  /\ \A i \in DOMAIN nd : nd[i] \in Nodes /\ nd[i].parent \in DOMAIN nd \cup {NULL, UNSET}

\* There are nodes only under a root, and lba is then behind the superblock.
MemoryInv ==
  /\ Tree(node)
  /\ root \in DOMAIN node \cup {NULL}
  /\ lba \in Nat
  /\ root = NULL => DOMAIN node = {}
  /\ root # NULL \/ pc = "root" => lba >= 2
  /\ pc = "super" => lba = 1
  /\ pc \in {"super", "root"} => root = NULL

\* What a command holds at each of its places.
PlaceInv ==
  /\ pc \in {"idle", "super", "root", "load", "chain", "resolve", "find", "append", "write"}
  /\ goal \in {"idle", "find", "append"}
  /\ todo \in Seq(Names)
  /\ at \in DOMAIN node \cup {NULL} /\ tail \in DOMAIN node \cup {NULL}
  /\ pc \in {"load", "chain", "find", "append"} => at # NULL
  /\ pc = "chain" => tail # NULL
  /\ pc \in {"find", "append"} => todo # <<>>
  /\ pc \in {"load", "chain"} /\ goal # "idle" => todo # <<>>

\* What is still to be written, and by which command.
QueueInv ==
  /\ queue \in Seq(Writes)
  /\ pc # "write" => queue = <<>>
  /\ op # "format" =>
       \A k \in 1 .. Len(queue) : queue[k].at >= 2 \/ queue[k].what = Junk

\* What the rest of the variables hold.
OtherInv ==
  /\ disk \in [0 .. SECTORS - 1 -> Contents]
  /\ superblock \in {"null", "invalid", "valid"}
  /\ op \in Resolvers \cup {"none", "format", "mount"}
  /\ made \subseteq Ids \X Ids
  /\ changes \in Nat /\ formatted \in BOOLEAN /\ wild \in BOOLEAN
  /\ faults \subseteq {"read", "lost", "torn", "stray"}

PInv == MemoryInv /\ PlaceInv /\ QueueInv /\ OtherInv

-----------------------------------------------------------------------------
(* Nodes and records. *)

\* The numbers behind the names.
LEMMA Constants ==
  /\ NODES \in Nat \ {0} /\ SECTORS \in Nat /\ SECTORS > 2
  /\ Unset \subseteq Nat
  /\ "/" \in Names /\ \A path \in Paths : path \in Seq(Names)
  /\ Disks \subseteq [0 .. SECTORS - 1 -> Contents]
<1>1. SECTORS \in Nat /\ SECTORS > 2 /\ NODES \in Nat \ {0} /\ Unset \subseteq Nat
  BY PfsAssumption
<1>2. \A image \in Disks : image \in [0 .. SECTORS - 1 -> Contents]
  BY PfsAssumption, Zenon
<1>3. "/" \in Names /\ \A path \in Paths : path \in Seq(Names)
  BY PfsAssumption, Zenon
<1> QED BY <1>1, <1>2, <1>3

\* A record read from the disk becomes a node without a parent.
LEMMA DecodeNode ==
  ASSUME NEW r \in Contents, IsNode(r)
  PROVE  Decode(r) \in Nodes /\ Decode(r).parent = UNSET
<1>1. r \in Records
  BY DEF Contents, IsNode, Blank, Super, Junk
<1> QED BY <1>1 DEF Records, Decode, Nodes, Pointers

\* A node is written as a record.
LEMMA EncodeNode ==
  ASSUME NEW n \in Nodes
  PROVE  Encode(n) \in Records /\ Encode(n) \in Contents /\ IsNode(Encode(n))
  BY DEF Nodes, Records, Encode, Record, Contents, IsNode

\* A well formed node stays so whichever of its fields the code sets.
LEMMA FieldsSet ==
  ASSUME NEW n \in Nodes
  PROVE  /\ \A b \in {"unset", "no", "yes"} : [n EXCEPT !.loaded = b] \in Nodes
         /\ \A q \in Pointers : /\ [n EXCEPT !.child = q] \in Nodes
                                /\ [n EXCEPT !.next = q] \in Nodes
                                /\ [n EXCEPT !.parent = q] \in Nodes
         /\ \A s \in Nat : /\ [n EXCEPT !.sibling_sector = s] \in Nodes
                           /\ [n EXCEPT !.child_sector = s] \in Nodes
                           /\ s >= 2 => [n EXCEPT !.sector = s] \in Nodes
         /\ \A b \in BOOLEAN : [n EXCEPT !.has_children = b] \in Nodes
  BY DEF Nodes

\* One more node.
LEMMA AddTree ==
  ASSUME NEW nd, Tree(nd), NEW i \in Ids, NEW n \in Nodes,
         n.parent \in DOMAIN nd \cup {NULL, UNSET}
  PROVE  Tree(Add(nd, i, n)) /\ DOMAIN Add(nd, i, n) = DOMAIN nd \cup {i}
  BY DEF Tree, Add

\* The same nodes, with other values in their fields.
LEMMA ChangeTree ==
  ASSUME NEW nd, Tree(nd), NEW g, DOMAIN g = DOMAIN nd,
         \A j \in DOMAIN nd : g[j] \in Nodes /\ g[j].parent \in {nd[j].parent, NULL}
  PROVE  Tree(g)
  BY DEF Tree

\* Room is for a node that is not there yet.
LEMMA FreshFree ==
  ASSUME Tree(node), Room
  PROVE  Fresh \in Ids /\ Fresh \notin DOMAIN node
<1>1. \E i \in Ids : i \notin DOMAIN node
  BY DEF Tree, Room
<1> QED BY <1>1 DEF Fresh

-----------------------------------------------------------------------------
(* The invariant. *)

FaultNames == {"read", "lost", "torn", "stray"}

\* The invariant holds on any disk, when nothing is mounted.
LEMMA InitPInv == Init => PInv
<1> SUFFICES ASSUME Init PROVE PInv
  OBVIOUS
<1>1. disk \in [0 .. SECTORS - 1 -> Contents]
  BY Constants DEF Init
<1>2. /\ DOMAIN node = {} /\ todo \in Seq(Names)
      /\ queue = <<>> /\ queue \in Seq(Writes) /\ Len(queue) = 0
  BY DEF Init
<1>3. MemoryInv
  BY <1>2 DEF Init, MemoryInv, Tree
<1>4. PlaceInv
  BY <1>2 DEF Init, PlaceInv
<1>5. QueueInv
  BY <1>2 DEF QueueInv
<1>6. OtherInv
  BY <1>1 DEF Init, OtherInv
<1> QED BY <1>3, <1>4, <1>5, <1>6 DEF PInv

\* Where the program goes wild, nothing is kept of its memory.
LEMMA StraysKeep ==
  ASSUME PInv, Strays, pc # "write", faults' \subseteq FaultNames
  PROVE  PInv'
<1> USE DEF PInv, Strays, Over, Forgets, FaultNames
<1>1. DOMAIN node' = {} /\ todo' \in Seq(Names) /\ made' \subseteq Ids \X Ids
  OBVIOUS
<1>2. MemoryInv' /\ PlaceInv'
  BY <1>1 DEF MemoryInv, PlaceInv, Tree
<1>3. QueueInv' /\ OtherInv'
  BY <1>1 DEF QueueInv, OtherInv
<1> QED BY <1>2, <1>3

\* A command that ends without writing leaves the nodes it has, and may have
\* read pointers of theirs.
LEMMA ReturnKeeps ==
  ASSUME PInv, Return, Tree(node)', DOMAIN node' = DOMAIN node,
         UNCHANGED <<root, lba, superblock>>, pc # "write", pc # "root",
         faults' \subseteq FaultNames
  PROVE  PInv'
<1> USE DEF PInv, Return, Over, FaultNames
<1>1. todo' \in Seq(Names)
  OBVIOUS
<1>2. MemoryInv' /\ PlaceInv'
  BY <1>1 DEF MemoryInv, PlaceInv
<1>3. QueueInv' /\ OtherInv'
  BY DEF QueueInv, OtherInv
<1> QED BY <1>2, <1>3

\* The kinds of fault the model knows.
LEMMA FaultKinds ==
  ASSUME PInv, NEW f \in FaultNames, Fault(f)
  PROVE  faults' \subseteq FaultNames
  BY DEF PInv, OtherInv, Fault, FaultNames

\* Every action that ends in undefined behaviour.
LEMMA WildKeeps ==
  ASSUME PInv,
         \/ ReadRootWild \/ ReadRootFails
         \/ LoadFirstWild \/ LoadFirstFails \/ LoadNextWild
         \/ ResolveUpWild \/ (AtComponent /\ GoWild)
         \/ ListFolderWild \/ FindWild
         \/ CreateWild \/ AppendWild \/ MdirWild
  PROVE  PInv'
<1>1. pc # "write" /\ (GoWild \/ StrayRead)
  BY DEF ReadRootWild, ReadRootFails, LoadFirstWild, LoadFirstFails, LoadNextWild,
         MustLoad, ResolveUpWild, AtComponent, Resolving, ListFolderWild, IsListing,
         FindWild, CreateWild, AtCreate, AppendWild, MdirWild
<1>2. Strays /\ faults' \subseteq FaultNames
  <2>1. CASE GoWild
    BY <2>1 DEF GoWild, PInv, OtherInv, FaultNames
  <2>2. CASE StrayRead
    BY <2>2, FaultKinds DEF StrayRead, FaultNames
  <2> QED BY <1>1, <2>1, <2>2
<1> QED BY <1>1, <1>2, StraysKeep

-----------------------------------------------------------------------------
(* The disk, format and mount. *)

\* A restart leaves the disk and nothing to write.
LEMMA RestartKeeps == ASSUME PInv, Restart PROVE PInv'
<1> USE DEF PInv, Restart, Forgets, Over
<1>1. /\ DOMAIN node' = {} /\ todo' \in Seq(Names) /\ made' \subseteq Ids \X Ids
      /\ queue' \in Seq(Writes) /\ Len(queue') = 0
  OBVIOUS
<1>2. MemoryInv' /\ PlaceInv'
  BY <1>1 DEF MemoryInv, PlaceInv, Tree
<1>3. QueueInv'
  BY <1>1 DEF QueueInv
<1>4. formatted' \in BOOLEAN
  BY DEF OtherInv
<1>5. faults' \subseteq FaultNames
  BY DEF OtherInv, FaultNames
<1>6. OtherInv'
  BY <1>1, <1>4, <1>5 DEF OtherInv, FaultNames
<1> QED BY <1>2, <1>3, <1>6

\* One sector is written, and the rest of the queue is left.
LEMMA WriteKeeps == ASSUME PInv, WriteSector PROVE PInv'
<1> USE DEF PInv
<1>1. /\ queue # <<>> /\ queue \in Seq(Writes) /\ pc = "write" /\ queue' = Tail(queue)
      /\ pc' = IF Len(queue) = 1 THEN "idle" ELSE pc
      /\ UNCHANGED <<node, superblock, root, lba, goal, op, todo, at, tail, made,
                     changes, formatted, wild>>
  BY DEF WriteSector, QueueInv, memory
<1>2. Len(queue) \in Nat /\ Len(queue) >= 1 /\ Head(queue) \in Writes
  BY <1>1
<1>3. /\ queue' \in Seq(Writes) /\ Len(queue') = Len(queue) - 1
      /\ \A k \in 1 .. Len(queue') : queue'[k] = queue[k + 1]
  BY <1>1, <1>2
<1>4. Len(queue') = 0 => queue' = <<>>
  BY <1>3
<1>5. disk' \in [0 .. SECTORS - 1 -> Contents]
  <2>1. CASE UNCHANGED disk
    BY <2>1 DEF OtherInv
  <2>2. CASE disk' = [disk EXCEPT ![Head(queue).at] = Head(queue).what]
    <3>1. Head(queue).what \in Contents
      BY <1>2 DEF Writes
    <3> QED BY <2>2, <3>1 DEF OtherInv
  <2> QED BY <2>1, <2>2 DEF WriteSector
<1>6. faults' \subseteq FaultNames
  BY FaultKinds DEF WriteSector, FaultNames, OtherInv
<1>7. MemoryInv' /\ PlaceInv'
  BY <1>1 DEF MemoryInv, PlaceInv
<1>8. QueueInv'
  <2>1. pc' # "write" => queue' = <<>>
    BY <1>1, <1>2, <1>3, <1>4
  <2>2. op' # "format" => \A k \in 1 .. Len(queue') : queue'[k].at >= 2 \/ queue'[k].what = Junk
    BY <1>1, <1>2, <1>3 DEF QueueInv
  <2> QED BY <1>3, <2>1, <2>2 DEF QueueInv
<1>9. OtherInv'
  BY <1>1, <1>5, <1>6 DEF OtherInv, FaultNames
<1> QED BY <1>7, <1>8, <1>9

\* What format writes as the root is a record.
LEMMA RootRecord == Record("/", "Folder", TRUE, 2, 0, 0) \in Records
<1>1. "/" \in Names /\ "Folder" \in Types /\ 2 \in Nat \ {0, 1} /\ 0 \in Nat
  BY Constants DEF Types
<1> QED BY <1>1 DEF Records, Record

\* The superblock and the root are to be written, and nothing is mounted.
LEMMA FormatKeeps == ASSUME PInv, Format PROVE PInv'
<1> USE DEF PInv, Format, Writing
<1>1. /\ DOMAIN node' = {} /\ todo' \in Seq(Names) /\ made' \subseteq Ids \X Ids
  OBVIOUS
<1>2. queue' \in Seq(Writes)
  <2>a. Record("/", "Folder", TRUE, 2, 0, 0) \in Records
    BY RootRecord
  <2>1. Super \in Contents /\ Record("/", "Folder", TRUE, 2, 0, 0) \in Contents
    BY <2>a DEF Contents
  <2> HIDE DEF Format
  <2>2. /\ [at |-> 1, what |-> Super] \in Writes
        /\ [at |-> 2, what |-> Record("/", "Folder", TRUE, 2, 0, 0)] \in Writes
    BY <2>1 DEF Writes
  <2>3. queue' = <<[at |-> 1, what |-> Super],
                   [at |-> 2, what |-> Record("/", "Folder", TRUE, 2, 0, 0)]>>
    BY DEF Format
  <2> QED BY <2>2, <2>3
<1>3. MemoryInv' /\ PlaceInv'
  BY <1>1 DEF MemoryInv, PlaceInv, Tree
<1>4. QueueInv' /\ OtherInv'
  BY <1>1, <1>2 DEF QueueInv, OtherInv
<1> QED BY <1>3, <1>4

\* Before the root is read there is no node, and lba is 1, then 2.
LEMMA MountKeeps == ASSUME PInv, MountWithoutBuffer \/ Mount \/ ReadSuper \/ ReadSuperFails PROVE PInv'
<1> USE DEF PInv, Idle, history
<1>1. faults' \subseteq FaultNames
  BY FaultKinds DEF MountWithoutBuffer, Mount, ReadSuper, ReadSuperFails, FaultNames, OtherInv
<1>2. MemoryInv' /\ PlaceInv'
  BY DEF MountWithoutBuffer, Mount, ReadSuper, ReadSuperFails, MemoryInv, PlaceInv
<1>3. QueueInv'
  BY DEF MountWithoutBuffer, Mount, ReadSuper, ReadSuperFails, QueueInv
<1>4. OtherInv'
  BY <1>1 DEF MountWithoutBuffer, Mount, ReadSuper, ReadSuperFails, OtherInv, FaultNames
<1> QED BY <1>2, <1>3, <1>4

\* The root is the only node.
LEMMA RootKeeps == ASSUME PInv, ReadRoot PROVE PInv'
<1> USE DEF PInv, ReadRoot, history
<1>1. DOMAIN node = {} /\ root = NULL
  BY DEF MemoryInv
<1>2. Fresh \in Ids /\ Fresh \notin DOMAIN node /\ Fresh # NULL
  <2>1. 1 \in Ids
    BY Constants DEF Ids
  <2>2. Room
    BY <1>1, <2>1 DEF Room
  <2> QED BY <2>2, FreshFree DEF MemoryInv, Ids, NULL
<1>3. disk[2] \in Contents
  BY Constants DEF OtherInv
<1>4. Tree(node') /\ DOMAIN node' = {Fresh}
  <2>1. Decode(disk[2]) \in Nodes /\ Decode(disk[2]).parent = UNSET
    BY <1>3, DecodeNode
  <2> HIDE DEF PInv
  <2>2. Tree(node)
    BY DEF PInv, MemoryInv
  <2>3. node' = Add(node, Fresh, Decode(disk[2]))
    BY DEF ReadRoot
  <2> HIDE DEF ReadRoot
  <2>4. /\ Tree(Add(node, Fresh, Decode(disk[2])))
        /\ DOMAIN Add(node, Fresh, Decode(disk[2])) = DOMAIN node \cup {Fresh}
    BY <1>2, <2>1, <2>2, AddTree
  <2> QED BY <1>1, <2>3, <2>4
<1>5. MemoryInv' /\ PlaceInv'
  BY <1>1, <1>2, <1>4 DEF MemoryInv, PlaceInv
<1>6. QueueInv' /\ OtherInv'
  BY DEF QueueInv, OtherInv
<1> QED BY <1>5, <1>6

-----------------------------------------------------------------------------
(* Loading a folder. *)

\* A step of a command that has nothing to write yet.
LEMMA CommandKeeps ==
  ASSUME PInv, pc # "write", Tree(node'), PlaceInv',
         DOMAIN node \subseteq DOMAIN node', root # NULL \/ UNCHANGED node,
         pc' \notin {"super", "root"}, faults' \subseteq FaultNames,
         UNCHANGED <<disk, superblock, root, lba, op, queue, made, changes, formatted, wild>>
  PROVE  PInv'
<1> USE DEF PInv
<1>1. MemoryInv'
  BY DEF MemoryInv
<1>2. QueueInv'
  BY DEF QueueInv
<1>3. OtherInv'
  BY DEF OtherInv, FaultNames
<1> QED BY <1>1, <1>2, <1>3

\* A node is there only under a root.
LEMMA Rooted == ASSUME PInv, at # NULL \/ DOMAIN node # {} PROVE root # NULL /\ lba \in Nat /\ lba >= 2
  BY DEF PInv, MemoryInv, PlaceInv

\* loadPFSNode comes back to the command, or ends it.
LEMMA LoadReturnKeeps ==
  ASSUME PInv, LoadReturns, pc \in {"load", "chain"}, Tree(node'), DOMAIN node' = DOMAIN node
  PROVE  PInv'
<1> USE DEF PInv, history
<1>1. root # NULL
  BY Rooted DEF PlaceInv
<1>2. faults' \subseteq FaultNames /\ <<>> \in Seq(Names)
  BY DEF LoadReturns, OtherInv, FaultNames
<1>3. PlaceInv' /\ pc' \notin {"super", "root"}
  BY <1>2 DEF LoadReturns, Over, PlaceInv
<1> HIDE DEF PInv
<1> QED BY <1>1, <1>2, <1>3, CommandKeeps DEF LoadReturns

\* What loading changes in a node that is there already.
LEMMA LoadedTree ==
  ASSUME Tree(node), NEW i \in DOMAIN node, NEW b \in {"unset", "no", "yes"}
  PROVE  LET nd == [node EXCEPT ![i].loaded = b]
         IN  Tree(nd) /\ DOMAIN nd = DOMAIN node
<1> DEFINE nd == [node EXCEPT ![i].loaded = b]
<1>1. DOMAIN nd = DOMAIN node
  OBVIOUS
<1>2. ASSUME NEW j \in DOMAIN node PROVE nd[j] \in Nodes /\ nd[j].parent = node[j].parent
  <2>1. node[j] \in Nodes
    BY DEF Tree
  <2>2. nd[j] = IF j = i THEN [node[j] EXCEPT !.loaded = b] ELSE node[j]
    OBVIOUS
  <2>3. [node[j] EXCEPT !.loaded = b] \in Nodes
    BY <2>1, FieldsSet
  <2>4. [node[j] EXCEPT !.loaded = b].parent = node[j].parent
    BY <2>1 DEF Nodes
  <2> QED BY <2>1, <2>2, <2>3, <2>4
<1> HIDE DEF nd
<1>3. Tree(nd)
  BY <1>1, <1>2, ChangeTree
<1> QED BY <1>1, <1>3 DEF nd

\* The folder needs no loading, or there is no buffer for it.
LEMMA LoadSkippedKeeps == ASSUME PInv, LoadSkipped \/ LoadWithoutBuffer PROVE PInv'
<1>1. pc = "load" /\ at \in DOMAIN node /\ Tree(node)
  BY DEF PInv, PlaceInv, MemoryInv, LoadSkipped, LoadWithoutBuffer, MustLoad
<1>2. PICK b \in LoadedByte : node' = [node EXCEPT ![at].loaded = b]
  BY DEF LoadSkipped, LoadWithoutBuffer, MustLoad
<1>3. b \in {"unset", "no", "yes"}
  BY <1>1 DEF LoadedByte, Tree, Nodes
<1>4. Tree(node') /\ DOMAIN node' = DOMAIN node
  BY <1>1, <1>2, <1>3, LoadedTree
<1> QED BY <1>1, <1>4, LoadReturnKeeps DEF LoadSkipped, LoadWithoutBuffer

\* The last child has been decoded.
LEMMA LoadDoneKeeps == ASSUME PInv, LoadDone PROVE PInv'
<1>1. pc = "chain" /\ at \in DOMAIN node /\ Tree(node)
  BY DEF PInv, PlaceInv, MemoryInv, LoadDone
<1>2. node' = [node EXCEPT ![at].loaded = "yes"]
  BY DEF LoadDone
<1>4. Tree(node') /\ DOMAIN node' = DOMAIN node
  BY <1>1, <1>2, LoadedTree
<1> QED BY <1>1, <1>4, LoadReturnKeeps DEF LoadDone

\* The first child is linked to its folder.
LEMMA LoadFirstKeeps == ASSUME PInv, LoadFirst PROVE PInv'
<1> DEFINE r == disk[node[at].child_sector]
           nd == [node EXCEPT ![at].loaded = "no", ![at].child = Fresh]
<1>1. pc = "load" /\ at \in DOMAIN node /\ Tree(node) /\ root # NULL
  BY Rooted DEF PInv, PlaceInv, MemoryInv, LoadFirst, MustLoad
<1>2. Fresh \in Ids /\ Fresh \notin DOMAIN node /\ Fresh # NULL /\ Fresh \in Pointers
  BY <1>1, FreshFree DEF LoadFirst, Ids, NULL, Pointers
<1>3. Decode(r) \in Nodes /\ Decode(r).parent = UNSET
  <2>1. node[at].child_sector \in 0 .. SECTORS - 1
    BY <1>1, Constants DEF Tree, Nodes, LoadFirst, InRange
  <2>2. r \in Contents
    BY <2>1 DEF PInv, OtherInv
  <2> QED BY <2>2, DecodeNode DEF LoadFirst
<1>4. Tree(nd) /\ DOMAIN nd = DOMAIN node
  <2>1. DOMAIN nd = DOMAIN node
    OBVIOUS
  <2>2. ASSUME NEW j \in DOMAIN node PROVE nd[j] \in Nodes /\ nd[j].parent = node[j].parent
    <3>1. node[j] \in Nodes
      BY <1>1 DEF Tree
    <3>2. nd[j] = IF j = at THEN [[node[j] EXCEPT !.loaded = "no"] EXCEPT !.child = Fresh]
                  ELSE node[j]
      BY <3>1 DEF Nodes
    <3>3. [[node[j] EXCEPT !.loaded = "no"] EXCEPT !.child = Fresh] \in Nodes
      BY <3>1, <1>2, FieldsSet
    <3>4. [[node[j] EXCEPT !.loaded = "no"] EXCEPT !.child = Fresh].parent = node[j].parent
      BY <3>1 DEF Nodes
    <3> QED BY <3>1, <3>2, <3>3, <3>4
  <2> HIDE DEF nd
  <2> QED BY <1>1, <2>1, <2>2, ChangeTree
<1>5. node' = Add(nd, Fresh, Decode(r))
  BY DEF LoadFirst
<1> HIDE DEF nd, r
<1>6. Tree(node') /\ DOMAIN node' = DOMAIN node \cup {Fresh}
  <2>1. Tree(Add(nd, Fresh, Decode(r))) /\ DOMAIN Add(nd, Fresh, Decode(r)) = DOMAIN nd \cup {Fresh}
    BY <1>2, <1>3, <1>4, AddTree
  <2> QED BY <1>4, <1>5, <2>1
<1>7. PlaceInv' /\ pc' \notin {"super", "root"} /\ faults' \subseteq FaultNames
  BY <1>1, <1>2, <1>6 DEF PInv, LoadFirst, PlaceInv, OtherInv, FaultNames, history
<1> QED BY <1>1, <1>6, <1>7, CommandKeeps DEF LoadFirst, history

\* One more child is linked to the one before.
LEMMA LoadAfterKeeps ==
  ASSUME PInv, NEW r \in Contents, IsNode(r), pc = "chain", Room, LoadAfter(r),
         faults' \subseteq FaultNames
  PROVE  PInv'
<1> DEFINE nd == [node EXCEPT ![tail].next = Fresh]
<1>1. tail \in DOMAIN node /\ Tree(node) /\ root # NULL
  BY Rooted DEF PInv, PlaceInv, MemoryInv
<1>2. Fresh \in Ids /\ Fresh \notin DOMAIN node /\ Fresh # NULL /\ Fresh \in Pointers
  BY <1>1, FreshFree DEF Ids, NULL, Pointers
<1>3. Decode(r) \in Nodes /\ Decode(r).parent = UNSET
  BY DecodeNode
<1>4. Tree(nd) /\ DOMAIN nd = DOMAIN node
  <2>1. DOMAIN nd = DOMAIN node
    OBVIOUS
  <2>2. ASSUME NEW j \in DOMAIN node PROVE nd[j] \in Nodes /\ nd[j].parent = node[j].parent
    <3>1. node[j] \in Nodes
      BY <1>1 DEF Tree
    <3>2. nd[j] = IF j = tail THEN [node[j] EXCEPT !.next = Fresh] ELSE node[j]
      OBVIOUS
    <3>3. [node[j] EXCEPT !.next = Fresh] \in Nodes
      BY <3>1, <1>2, FieldsSet
    <3>4. [node[j] EXCEPT !.next = Fresh].parent = node[j].parent
      BY <3>1 DEF Nodes
    <3> QED BY <3>1, <3>2, <3>3, <3>4
  <2> HIDE DEF nd
  <2> QED BY <1>1, <2>1, <2>2, ChangeTree
<1>5. node' = Add(nd, Fresh, Decode(r))
  BY DEF LoadAfter
<1> HIDE DEF nd
<1>6. Tree(node') /\ DOMAIN node' = DOMAIN node \cup {Fresh}
  <2>1. Tree(Add(nd, Fresh, Decode(r))) /\ DOMAIN Add(nd, Fresh, Decode(r)) = DOMAIN nd \cup {Fresh}
    BY <1>2, <1>3, <1>4, AddTree
  <2> QED BY <1>4, <1>5, <2>1
<1>7. PlaceInv' /\ pc' \notin {"super", "root"}
  BY <1>1, <1>2, <1>6 DEF PInv, LoadAfter, PlaceInv
<1> QED BY <1>1, <1>6, <1>7, CommandKeeps DEF LoadAfter

\* The next child is read, or the one before once more.
LEMMA LoadNextKeeps == ASSUME PInv, LoadNext \/ LoadNextFails PROVE PInv'
<1>1. tail \in DOMAIN node /\ Tree(node) /\ pc = "chain" /\ Room
  BY DEF PInv, PlaceInv, MemoryInv, LoadNext, LoadNextFails
<1>2. node[tail] \in Nodes
  BY <1>1 DEF Tree
<1>3. CASE LoadNext
  <2>1. NextSector \in 0 .. SECTORS - 1
    BY <1>2, <1>3, Constants DEF Nodes, LoadNext, InRange, NextSector
  <2>2. disk[NextSector] \in Contents /\ faults' \subseteq FaultNames
    BY <1>3, <2>1 DEF PInv, OtherInv, LoadNext, FaultNames
  <2> QED BY <1>1, <1>3, <2>2, LoadAfterKeeps DEF LoadNext
<1>4. CASE LoadNextFails
  <2>1. Encode(node[tail]) \in Contents /\ IsNode(Encode(node[tail]))
    BY <1>2, EncodeNode
  <2>2. faults' \subseteq FaultNames
    BY <1>4, FaultKinds DEF LoadNextFails, FaultNames
  <2> QED BY <1>1, <1>4, <2>1, <2>2, LoadAfterKeeps DEF LoadNextFails
<1> QED BY <1>3, <1>4

-----------------------------------------------------------------------------
(* Resolving a path. *)

\* A command begins at the root, or at null.
LEMMA StartKeeps == ASSUME PInv, Open \/ Ls \/ Create \/ Mdir PROVE PInv'
<1> USE DEF PInv
<1>1. /\ pc = "idle" /\ pc' = "resolve" /\ at' = root
      /\ op' \in Resolvers
      /\ UNCHANGED <<disk, node, superblock, root, lba, goal, tail, queue,
                     made, changes, formatted, faults, wild>>
  BY DEF Open, Ls, Create, Mdir, Start, Idle, Resolvers, memory, history
<1>2. todo' \in Seq(Names)
  BY Constants DEF Open, Ls, Create, Mdir, Start
<1>3. MemoryInv'
  BY <1>1 DEF MemoryInv
<1>4. PlaceInv'
  BY <1>1, <1>2 DEF PlaceInv, MemoryInv
<1>5. QueueInv' /\ OtherInv'
  BY <1>1 DEF QueueInv, OtherInv
<1> QED BY <1>3, <1>4, <1>5

\* A command ends with a message and changes nothing.
LEMMA EndKeeps ==
  ASSUME PInv, Return, UNCHANGED <<memory, faults>>, pc \in {"resolve", "find"}
  PROVE  PInv'
<1>1. Tree(node)' /\ DOMAIN node' = DOMAIN node /\ UNCHANGED <<root, lba, superblock>>
  BY DEF PInv, MemoryInv, memory
<1>2. faults' \subseteq FaultNames
  BY DEF PInv, OtherInv, FaultNames
<1> QED BY <1>1, <1>2, ReturnKeeps

\* The command moves to another node, or stays at the one it is at.
LEMMA StepKeeps ==
  ASSUME PInv, NEW n \in DOMAIN node \cup {NULL}, Step(n), todo # <<>>,
         pc \in {"resolve", "find"}, Tree(node'), DOMAIN node' = DOMAIN node,
         root # NULL \/ UNCHANGED node
  PROVE  PInv'
<1>1. Tail(todo) \in Seq(Names)
  BY DEF PInv, PlaceInv
<1>2. PlaceInv' /\ pc' \notin {"super", "root"}
  BY <1>1 DEF PInv, PlaceInv, Step
<1>3. faults' \subseteq FaultNames
  BY DEF PInv, OtherInv, FaultNames, Step, history
<1> QED BY <1>2, <1>3, CommandKeeps DEF Step, history

\* A parent pointer read as null stays null.
LEMMA ResolveUpKeeps == ASSUME PInv, ResolveUp PROVE PInv'
<1>1. /\ at \in DOMAIN node /\ Tree(node) /\ root # NULL
      /\ pc = "resolve" /\ todo # <<>>
  BY Rooted DEF PInv, PlaceInv, MemoryInv, ResolveUp, Resolving
<1>2. CASE node[at].parent \in Ids
  <2>1. node[at].parent \in DOMAIN node
    BY <1>1, <1>2 DEF Tree, Ids, NULL, UNSET
  <2>2. Step(node[at].parent) /\ Tree(node') /\ DOMAIN node' = DOMAIN node
    BY <1>1, <1>2 DEF ResolveUp
  <2> QED BY <1>1, <2>1, <2>2, StepKeeps
<1>3. CASE node[at].parent \notin Ids
  <2>1. Step(at) /\ node' = [node EXCEPT ![at].parent = NULL]
    BY <1>3 DEF ResolveUp
  <2>2. DOMAIN node' = DOMAIN node
    BY <2>1
  <2>3. ASSUME NEW j \in DOMAIN node
        PROVE  node'[j] \in Nodes /\ node'[j].parent \in {node[j].parent, NULL}
    <3>1. node[j] \in Nodes
      BY <1>1 DEF Tree
    <3>2. node'[j] = IF j = at THEN [node[j] EXCEPT !.parent = NULL] ELSE node[j]
      BY <2>1
    <3>3. [node[j] EXCEPT !.parent = NULL] \in Nodes
      BY <3>1, FieldsSet DEF Pointers
    <3>4. [node[j] EXCEPT !.parent = NULL].parent = NULL
      BY <3>1 DEF Nodes
    <3> QED BY <3>1, <3>2, <3>3, <3>4
  <2>4. Tree(node')
    BY <1>1, <2>2, <2>3, ChangeTree
  <2> QED BY <1>1, <2>1, <2>2, <2>4, StepKeeps
<1> QED BY <1>2, <1>3

\* The steps that leave the nodes alone.
LEMMA ResolveKeeps ==
  ASSUME PInv, ResolveEnds \/ ResolveHere \/ ResolveName \/ ResolveNothing \/ NoParent
  PROVE  PInv'
<1>1. CASE ResolveEnds \/ NoParent
  BY <1>1, EndKeeps DEF ResolveEnds, NoParent, Resolving
<1>2. CASE ResolveHere
  BY <1>2, StepKeeps DEF PInv, MemoryInv, PlaceInv, ResolveHere, Resolving
<1>3. CASE ResolveName
  <2>1. PlaceInv' /\ pc' \notin {"super", "root"} /\ Tree(node') /\ faults' \subseteq FaultNames
    BY <1>3 DEF PInv, MemoryInv, PlaceInv, OtherInv, ResolveName, AtComponent, Resolving,
                memory, history, FaultNames
  <2> QED BY <1>3, <2>1, CommandKeeps DEF ResolveName, AtComponent, Resolving, memory, history
<1>4. CASE ResolveNothing
  BY <1>4, EndKeeps, WildKeeps DEF ResolveNothing, AtComponent, Resolving
<1> QED BY <1>1, <1>2, <1>3, <1>4

\* Pointers that are read while they are unset become null.
LEMMA SettledTree ==
  ASSUME Tree(node), NEW d \in DOMAIN node
  PROVE  Tree(Settled(d)) /\ DOMAIN Settled(d) = DOMAIN node
<1>1. DOMAIN Settled(d) = DOMAIN node
  BY DEF Settled
<1>2. ASSUME NEW j \in DOMAIN node
      PROVE  Settled(d)[j] \in Nodes /\ Settled(d)[j].parent = node[j].parent
  <2>1. node[j] \in Nodes
    BY DEF Tree
  <2>2. Settled(d)[j] \in {[node[j] EXCEPT !.child = NULL], [node[j] EXCEPT !.next = NULL], node[j]}
    BY DEF Settled
  <2>3. [node[j] EXCEPT !.child = NULL] \in Nodes /\ [node[j] EXCEPT !.next = NULL] \in Nodes
    BY <2>1, FieldsSet DEF Pointers
  <2>4. /\ [node[j] EXCEPT !.child = NULL].parent = node[j].parent
        /\ [node[j] EXCEPT !.next = NULL].parent = node[j].parent
    BY <2>1 DEF Nodes
  <2> QED BY <2>1, <2>2, <2>3, <2>4
<1> QED BY <1>1, <1>2, ChangeTree

\* ls walks along a list.
LEMMA ListKeeps == ASSUME PInv, ListFolder PROVE PInv'
<1>1. at \in DOMAIN node /\ Tree(node) /\ pc = "resolve"
  BY DEF PInv, PlaceInv, MemoryInv, ListFolder, IsListing
<1>2. Tree(node') /\ DOMAIN node' = DOMAIN node
  BY <1>1, SettledTree DEF ListFolder
<1>3. faults' \subseteq FaultNames
  BY DEF PInv, OtherInv, FaultNames, ListFolder
<1> QED BY <1>1, <1>2, <1>3, ReturnKeeps DEF ListFolder

\* The name sought is found, or it is not.
LEMMA FindKeeps == ASSUME PInv, FindHit \/ FindMiss PROVE PInv'
<1>1. at \in DOMAIN node /\ Tree(node) /\ pc = "find" /\ todo # <<>> /\ root # NULL
  BY Rooted DEF PInv, PlaceInv, MemoryInv, FindHit, FindMiss
<1>2. CASE FindHit
  <2>1. PICK i \in Sought : IF AtName \/ (op \in Makers /\ node[i].type # "Folder")
                            THEN Return /\ UNCHANGED faults ELSE Step(i)
    BY <1>2 DEF FindHit
  <2>2. i \in DOMAIN node
    BY DEF Sought, Named, Children
  <2>3. UNCHANGED memory
    BY <1>2 DEF FindHit, memory
  <2>4. Tree(node') /\ DOMAIN node' = DOMAIN node
    BY <1>1, <2>3 DEF memory
  <2> QED BY <1>1, <2>1, <2>2, <2>3, <2>4, EndKeeps, StepKeeps
<1>3. CASE FindMiss
  <2>1. Tree(node') /\ DOMAIN node' = DOMAIN node
    BY <1>1, <1>3, SettledTree DEF FindMiss
  <2>2. faults' \subseteq FaultNames /\ <<>> \in Seq(Names)
    BY <1>3 DEF PInv, OtherInv, FaultNames, FindMiss, history
  <2>3. PlaceInv' /\ pc' \notin {"super", "root"}
    <3>1. \/ pc' = "append" /\ UNCHANGED <<goal, todo, at, tail>>
          \/ Over
      BY <1>3 DEF FindMiss
    <3>2. CASE pc' = "append" /\ UNCHANGED <<goal, todo, at, tail>>
      BY <1>1, <2>1, <3>2 DEF PInv, PlaceInv
    <3>3. CASE Over
      BY <1>1, <2>1, <2>2, <3>3 DEF PInv, PlaceInv, Over
    <3> QED BY <3>1, <3>2, <3>3
  <2> QED BY <1>1, <1>3, <2>1, <2>2, <2>3, CommandKeeps DEF FindMiss, history
<1> QED BY <1>2, <1>3

-----------------------------------------------------------------------------
(* Making files and folders. *)

\* What a write to a sector behind the superblock is.
LEMMA WriteBehind ==
  ASSUME NEW s \in Nat, s >= 2, NEW n \in Nodes
  PROVE  [at |-> s, what |-> Encode(n)] \in Writes
  BY EncodeNode DEF Writes

\* A command that makes a node ends with a queue of writes.
LEMMA WritingKeeps ==
  ASSUME PInv, Writing, Tree(node'), DOMAIN node \subseteq DOMAIN node',
         root # NULL, lba' \in Nat, lba' >= 2,
         queue' \in Seq(Writes),
         \A k \in 1 .. Len(queue') : queue'[k].at >= 2 \/ queue'[k].what = Junk,
         made' \subseteq Ids \X Ids, changes' = changes + 1, formatted' = FALSE,
         wild' \in BOOLEAN, faults' \subseteq FaultNames,
         UNCHANGED <<disk, superblock, root, op>>
  PROVE  PInv'
<1> USE DEF PInv
<1>1. <<>> \in Seq(Names)
  OBVIOUS
<1>2. MemoryInv' /\ PlaceInv'
  BY <1>1 DEF MemoryInv, PlaceInv, Writing
<1>3. QueueInv'
  BY DEF QueueInv, Writing
<1>a. changes' \in Nat
  BY DEF OtherInv
<1>b. formatted' \in BOOLEAN
  OBVIOUS
<1>4. changes' \in Nat /\ formatted' \in BOOLEAN
  BY <1>a, <1>b
<1>5. /\ disk' \in [0 .. SECTORS - 1 -> Contents]
      /\ superblock' \in {"null", "invalid", "valid"}
      /\ op' \in Resolvers \cup {"none", "format", "mount"}
  BY DEF OtherInv
<1>6. OtherInv'
  BY <1>4, <1>5 DEF OtherInv, FaultNames
<1> QED BY <1>2, <1>3, <1>6

\* The parent and the file get sectors from lba on.
LEMMA WriteBothKeeps ==
  ASSUME PInv, NEW nd, Tree(nd), DOMAIN node \subseteq DOMAIN nd,
         at \in DOMAIN nd, NEW new \in DOMAIN nd, new # at, root # NULL,
         NEW before \in Seq(Writes), \A k \in 1 .. Len(before) : before[k].at >= 2,
         WriteBoth(nd, new, before)
  PROVE  PInv'
<1>1. /\ lba \in Nat /\ lba >= 2 /\ at \in Ids /\ new \in Ids
      /\ lba + 1 \in Nat /\ lba + 1 >= 2
  BY DEF PInv, MemoryInv, Tree
<1>2. DOMAIN node' = DOMAIN nd
  BY DEF WriteBoth
<1>3. ASSUME NEW j \in DOMAIN nd PROVE node'[j] \in Nodes /\ node'[j].parent = nd[j].parent
  <2>1. nd[j] \in Nodes
    BY DEF Tree
  <2>2. node'[j] = IF j = at THEN [nd[j] EXCEPT !.sector = lba]
                   ELSE IF j = new THEN [nd[j] EXCEPT !.sector = lba + 1] ELSE nd[j]
    BY DEF WriteBoth
  <2>3. [nd[j] EXCEPT !.sector = lba] \in Nodes /\ [nd[j] EXCEPT !.sector = lba + 1] \in Nodes
    BY <2>1, <1>1, FieldsSet
  <2>4. /\ [nd[j] EXCEPT !.sector = lba].parent = nd[j].parent
        /\ [nd[j] EXCEPT !.sector = lba + 1].parent = nd[j].parent
    BY <2>1 DEF Nodes
  <2> QED BY <2>1, <2>2, <2>3, <2>4
<1>4. Tree(node')
  BY <1>2, <1>3, ChangeTree
<1> DEFINE two == <<[at |-> lba, what |-> Encode(node'[at])],
                    [at |-> lba + 1, what |-> Encode(node'[new])]>>
<1>5. /\ [at |-> lba, what |-> Encode(node'[at])] \in Writes
      /\ [at |-> lba + 1, what |-> Encode(node'[new])] \in Writes
  BY <1>1, <1>3, WriteBehind
<1>6. two \in Seq(Writes) /\ Len(two) = 2 /\ \A k \in 1 .. Len(two) : two[k].at >= 2
  BY <1>1, <1>5
<1>7. queue' = before \o two
  BY DEF WriteBoth
<1> HIDE DEF two
<1>8. queue' \in Seq(Writes) /\ \A k \in 1 .. Len(queue') : queue'[k].at >= 2
  <2> DEFINE all == before \o two
  <2>1. /\ all \in Seq(Writes) /\ Len(all) = Len(before) + 2
        /\ \A k \in 1 .. Len(before) + 2 :
             all[k] = IF k <= Len(before) THEN before[k] ELSE two[k - Len(before)]
    <3>1. two \in Seq(Writes) /\ Len(two) = 2
      BY <1>6
    <3>2. /\ before \o two \in Seq(Writes) /\ Len(before \o two) = Len(before) + Len(two)
          /\ \A k \in 1 .. Len(before) + Len(two) :
               (before \o two)[k] = IF k <= Len(before) THEN before[k] ELSE two[k - Len(before)]
      BY <3>1, ConcatProperties, Zenon
    <3> QED BY <3>1, <3>2
  <2>2. queue' = all
    BY <1>7
  <2> HIDE DEF all
  <2> QED BY <1>6, <2>1, <2>2
<1>9. made' \subseteq Ids \X Ids
  BY <1>1 DEF WriteBoth, PInv, OtherInv
<1>10. wild' \in BOOLEAN /\ faults' \subseteq FaultNames /\ lba' = lba + 2
  BY DEF WriteBoth, PInv, OtherInv, FaultNames
<1>11. /\ Writing /\ formatted' = FALSE /\ changes' = changes + 1
       /\ UNCHANGED <<disk, superblock, root, op>>
  BY DEF WriteBoth
<1>12. lba' \in Nat /\ lba' >= 2
  BY <1>1, <1>10
<1> HIDE DEF WriteBoth
<1> QED BY <1>2, <1>4, <1>8, <1>9, <1>10, <1>11, <1>12, WritingKeeps

\* The file that create makes is well formed.
LEMMA NewFileNode ==
  ASSUME NEW n \in Names, lba \in Nat, lba >= 2
  PROVE  NewFile(n) \in Nodes /\ NewFile(n).parent = NULL
  BY DEF NewFile, Nodes, Types, Pointers

\* The name that create and mdir are given.
LEMMA NewName == ASSUME PInv, todo # <<>> PROVE Head(todo) \in Names
  BY DEF PInv, PlaceInv

\* The first child of a folder.
LEMMA CreateFirstKeeps == ASSUME PInv, CreateFirst PROVE PInv'
<1> DEFINE nd == [node EXCEPT ![at].child = Fresh]
           n == NewFile(Head(todo))
<1>1. at \in DOMAIN node /\ Tree(node) /\ root # NULL /\ todo # <<>> /\ lba \in Nat /\ lba >= 2
  BY Rooted DEF PInv, PlaceInv, MemoryInv, CreateFirst, AtCreate, Resolving
<1>2. Fresh \in Ids /\ Fresh \notin DOMAIN node /\ Fresh \in Pointers
  BY <1>1, FreshFree DEF CreateFirst, Pointers
<1>3. n \in Nodes /\ n.parent = NULL
  BY <1>1, NewName, NewFileNode
<1>4. Tree(nd) /\ DOMAIN nd = DOMAIN node
  <2>1. DOMAIN nd = DOMAIN node
    OBVIOUS
  <2>2. ASSUME NEW j \in DOMAIN node PROVE nd[j] \in Nodes /\ nd[j].parent = node[j].parent
    <3>1. node[j] \in Nodes
      BY <1>1 DEF Tree
    <3>2. nd[j] = IF j = at THEN [node[j] EXCEPT !.child = Fresh] ELSE node[j]
      OBVIOUS
    <3>3. [node[j] EXCEPT !.child = Fresh] \in Nodes
      BY <3>1, <1>2, FieldsSet
    <3>4. [node[j] EXCEPT !.child = Fresh].parent = node[j].parent
      BY <3>1 DEF Nodes
    <3> QED BY <3>1, <3>2, <3>3, <3>4
  <2> HIDE DEF nd
  <2> QED BY <1>1, <2>1, <2>2, ChangeTree
<1>5. WriteBoth(Add(nd, Fresh, n), Fresh, <<>>)
  BY DEF CreateFirst
<1> HIDE DEF nd, n
<1> DEFINE all == Add(nd, Fresh, n)
<1>6. Tree(all) /\ DOMAIN all = DOMAIN node \cup {Fresh}
  <2>1. n.parent \in DOMAIN nd \cup {NULL, UNSET}
    BY <1>3
  <2>2. Tree(all) /\ DOMAIN all = DOMAIN nd \cup {Fresh}
    BY <1>2, <1>3, <1>4, <2>1, AddTree
  <2> QED BY <1>4, <2>2
<1> HIDE DEF all
<1>7. /\ DOMAIN node \subseteq DOMAIN all /\ at \in DOMAIN all
      /\ Fresh \in DOMAIN all /\ Fresh # at
  BY <1>1, <1>2, <1>6
<1>8. <<>> \in Seq(Writes) /\ \A k \in 1 .. Len(<<>>) : <<>>[k].at >= 2
  OBVIOUS
<1>9. WriteBoth(all, Fresh, <<>>)
  BY <1>5 DEF all
<1> QED BY <1>1, <1>6, <1>7, <1>8, <1>9, WriteBothKeeps

\* The name of the new file is looked for first; or the list is loaded for mdir.
LEMMA LooksKeeps == ASSUME PInv, CreateMore \/ MdirLoads PROVE PInv'
<1>1. /\ at \in DOMAIN node /\ at # NULL /\ Tree(node) /\ root # NULL
      /\ pc = "resolve" /\ todo # <<>>
  BY Rooted DEF PInv, PlaceInv, MemoryInv, CreateMore, AtCreate, MdirLoads, AtMdir, Resolving
<1>2. Tree(node') /\ DOMAIN node' = DOMAIN node
  <2>1. CASE UNCHANGED node
    BY <1>1, <2>1
  <2>2. CASE node' = [node EXCEPT ![at].child = ASTRAY]
    <3>1. DOMAIN node' = DOMAIN node
      BY <2>2
    <3>2. ASSUME NEW j \in DOMAIN node
          PROVE  node'[j] \in Nodes /\ node'[j].parent = node[j].parent
      <4>1. node[j] \in Nodes
        BY <1>1 DEF Tree
      <4>2. node'[j] = IF j = at THEN [node[j] EXCEPT !.child = ASTRAY] ELSE node[j]
        BY <2>2
      <4>3. [node[j] EXCEPT !.child = ASTRAY] \in Nodes
        BY <4>1, FieldsSet DEF Pointers
      <4>4. [node[j] EXCEPT !.child = ASTRAY].parent = node[j].parent
        BY <4>1 DEF Nodes
      <4> QED BY <4>1, <4>2, <4>3, <4>4
    <3> QED BY <1>1, <3>1, <3>2, ChangeTree
  <2> QED BY <2>1, <2>2 DEF CreateMore, MdirLoads, memory
<1>3. faults' \subseteq FaultNames
  BY DEF PInv, OtherInv, FaultNames, CreateMore, MdirLoads, history
<1>4. PlaceInv' /\ pc' \notin {"super", "root"}
  <2>1. /\ pc' = "load" /\ goal' \in {"find", "append"}
        /\ UNCHANGED <<todo, at, tail>>
    BY DEF CreateMore, MdirLoads
  <2> QED BY <1>1, <1>2, <2>1 DEF PInv, PlaceInv
<1> QED BY <1>1, <1>2, <1>3, <1>4, CommandKeeps DEF CreateMore, MdirLoads, memory, history

\* A file behind the last child of the folder: four sectors are written.
LEMMA CreateAppendKeeps == ASSUME PInv, CreateAppend PROVE PInv'
<1>1. /\ at \in DOMAIN node /\ Tree(node) /\ root # NULL /\ todo # <<>>
      /\ lba \in Nat /\ lba >= 2
  BY Rooted DEF PInv, PlaceInv, MemoryInv, CreateAppend
<1>2. Fresh \in Ids /\ Fresh \notin DOMAIN node /\ Fresh \in Pointers
  BY <1>1, FreshFree DEF CreateAppend, Pointers
<1> DEFINE linked(last) ==
             [node EXCEPT ![last].next = Fresh, ![last].sibling_sector = lba]
           file == [NewFile(Head(todo)) EXCEPT !.parent = at, !.next = NULL]
           before(last) ==
             <<[at |-> node[last].sector, what |-> Encode(linked(last)[last])],
               [at |-> lba, what |-> Encode(file)]>>
           all(last) == Add(linked(last), Fresh, file)
<1>3. PICK last \in Children(at) : WriteBoth(all(last), Fresh, before(last))
  BY DEF CreateAppend
<1>4. last \in DOMAIN node
  BY DEF Children
<1>5. file \in Nodes /\ file.parent = at
  <2>1. NewFile(Head(todo)) \in Nodes
    BY <1>1, NewName, NewFileNode
  <2>2. at \in Pointers
    BY <1>1 DEF Tree, Pointers
  <2> QED BY <2>1, <2>2 DEF Nodes, Pointers
<1>6. /\ DOMAIN linked(last) = DOMAIN node /\ Tree(linked(last))
      /\ linked(last)[last] \in Nodes
  <2> DEFINE nd == linked(last)
  <2>1. DOMAIN nd = DOMAIN node
    OBVIOUS
  <2>2. ASSUME NEW j \in DOMAIN node PROVE nd[j] \in Nodes /\ nd[j].parent = node[j].parent
    <3>1. node[j] \in Nodes
      BY <1>1 DEF Tree
    <3>2. nd[j] = IF j = last
                  THEN [[node[j] EXCEPT !.next = Fresh] EXCEPT !.sibling_sector = lba]
                  ELSE node[j]
      BY <3>1 DEF Nodes
    <3>3. [[node[j] EXCEPT !.next = Fresh] EXCEPT !.sibling_sector = lba] \in Nodes
      BY <3>1, <1>1, <1>2, FieldsSet
    <3>4. [[node[j] EXCEPT !.next = Fresh] EXCEPT !.sibling_sector = lba].parent = node[j].parent
      BY <3>1 DEF Nodes
    <3> QED BY <3>1, <3>2, <3>3, <3>4
  <2> HIDE DEF nd
  <2>3. Tree(nd)
    BY <1>1, <2>1, <2>2, ChangeTree
  <2>4. nd[last] \in Nodes
    BY <1>4, <2>2
  <2> QED BY <2>1, <2>3, <2>4 DEF nd
<1>7. before(last) \in Seq(Writes) /\ \A k \in 1 .. Len(before(last)) : before(last)[k].at >= 2
  <2>1. node[last].sector \in Nat /\ node[last].sector >= 2
    BY <1>1, <1>4 DEF Tree, Nodes
  <2>2. /\ [at |-> node[last].sector, what |-> Encode(linked(last)[last])] \in Writes
        /\ [at |-> lba, what |-> Encode(file)] \in Writes
    <3> HIDE DEF linked, file
    <3> QED BY <1>1, <1>5, <1>6, <2>1, WriteBehind
  <2> HIDE DEF linked, file
  <2>3. before(last)[1].at >= 2 /\ before(last)[2].at >= 2 /\ Len(before(last)) = 2
    BY <1>1, <2>1
  <2> QED BY <2>2, <2>3
<1> HIDE DEF linked, file, before
<1>8. Tree(all(last)) /\ DOMAIN all(last) = DOMAIN node \cup {Fresh}
  <2>1. file.parent \in DOMAIN linked(last) \cup {NULL, UNSET}
    BY <1>1, <1>5, <1>6
  <2>2. Tree(all(last)) /\ DOMAIN all(last) = DOMAIN linked(last) \cup {Fresh}
    BY <1>2, <1>5, <1>6, <2>1, AddTree
  <2> QED BY <1>6, <2>2
<1> HIDE DEF all
<1>9. /\ DOMAIN node \subseteq DOMAIN all(last) /\ at \in DOMAIN all(last)
      /\ Fresh \in DOMAIN all(last) /\ Fresh # at
  BY <1>1, <1>2, <1>8
<1> QED BY <1>1, <1>3, <1>7, <1>8, <1>9, WriteBothKeeps

\* mdir writes one sector behind the superblock, and one anywhere.
LEMMA WriteUnsetKeeps ==
  ASSUME PInv, NEW nd, Tree(nd), DOMAIN nd = DOMAIN node,
         at \in DOMAIN node, todo # <<>>, root # NULL, Room,
         NEW i \in DOMAIN node, NEW g \in Unset,
         WriteUnset(nd, i, g), wild' \in BOOLEAN
  PROVE  PInv'
<1>1. lba \in Nat /\ lba >= 2 /\ Tree(node) /\ g \in Nat
  BY Constants DEF PInv, MemoryInv
<1>2. Fresh \in Ids /\ Fresh \notin DOMAIN node
  BY <1>1, FreshFree
<1> DEFINE n == NewFolder(Head(todo))
<1>3. n \in Nodes /\ n.parent = at
  <2>1. at \in Pointers
    BY <1>1 DEF Tree, Pointers
  <2>2. Head(todo) \in Names
    BY NewName
  <2> QED BY <1>1, <2>1, <2>2 DEF NewFolder, Nodes, Types, Pointers
<1> HIDE DEF n
<1>4. Tree(node') /\ DOMAIN node' = DOMAIN node \cup {Fresh}
  <2>1. n.parent \in DOMAIN nd \cup {NULL, UNSET}
    BY <1>3
  <2>2. Tree(Add(nd, Fresh, n)) /\ DOMAIN Add(nd, Fresh, n) = DOMAIN nd \cup {Fresh}
    BY <1>2, <1>3, <2>1, AddTree
  <2>3. node' = Add(nd, Fresh, n)
    BY DEF WriteUnset, n
  <2> QED BY <2>2, <2>3
<1> DEFINE first == [at |-> nd[i].sector, what |-> Encode(nd[i])]
           second == [at |-> g, what |-> Junk]
<1>5. first \in Writes /\ first.at >= 2
  <2>1. nd[i] \in Nodes /\ nd[i].sector \in Nat /\ nd[i].sector >= 2
    BY DEF Tree, Nodes
  <2> QED BY <2>1, WriteBehind
<1>6. second \in Writes /\ second.what = Junk
  <2>1. Junk \in Contents
    BY DEF Contents
  <2> QED BY <1>1, <2>1 DEF Writes
<1>7. queue' = <<first, second>>
  BY DEF WriteUnset
<1> HIDE DEF first, second
<1>8. /\ queue' \in Seq(Writes)
      /\ \A k \in 1 .. Len(queue') : queue'[k].at >= 2 \/ queue'[k].what = Junk
  BY <1>5, <1>6, <1>7
<1>9. /\ Writing /\ formatted' = FALSE /\ changes' = changes + 1
      /\ UNCHANGED <<disk, superblock, root, op, lba, made>>
  BY DEF WriteUnset
<1>10. faults' \subseteq FaultNames /\ made' \subseteq Ids \X Ids
  BY DEF WriteUnset, PInv, OtherInv, FaultNames
<1> QED BY <1>1, <1>4, <1>8, <1>9, <1>10, WritingKeeps

\* A folder as the first child.
LEMMA MdirFirstKeeps == ASSUME PInv, MdirFirst PROVE PInv'
<1>1. /\ at \in DOMAIN node /\ Tree(node) /\ root # NULL /\ todo # <<>> /\ Room
      /\ wild' \in BOOLEAN
  <2>1. wild' \in BOOLEAN
    BY DEF MdirFirst
  <2> QED BY <2>1, Rooted DEF PInv, PlaceInv, MemoryInv, MdirFirst
<1>2. Fresh \in Pointers
  BY <1>1, FreshFree DEF Pointers
<1>3. PICK g \in Unset :
        WriteUnset([node EXCEPT ![at].child = Fresh, ![at].has_children = TRUE,
                                ![at].child_sector = g], at, g)
  BY DEF MdirFirst
<1> DEFINE nd == [node EXCEPT ![at].child = Fresh, ![at].has_children = TRUE,
                              ![at].child_sector = g]
<1>4. DOMAIN nd = DOMAIN node
  OBVIOUS
<1>5. ASSUME NEW j \in DOMAIN node PROVE nd[j] \in Nodes /\ nd[j].parent = node[j].parent
  <2>1. node[j] \in Nodes /\ g \in Nat
    BY <1>1, Constants DEF Tree
  <2> DEFINE c == [node[j] EXCEPT !.child = Fresh]
             h == [c EXCEPT !.has_children = TRUE]
             d == [h EXCEPT !.child_sector = g]
  <2>2. nd[j] = IF j = at THEN d ELSE node[j]
    BY <2>1 DEF Nodes
  <2>3. c \in Nodes /\ c.parent = node[j].parent
    BY <2>1, <1>2 DEF Nodes
  <2>4. h \in Nodes /\ h.parent = c.parent
    <3> HIDE DEF c
    <3> QED BY <2>3 DEF Nodes
  <2>5. d \in Nodes /\ d.parent = h.parent
    <3> HIDE DEF h
    <3> QED BY <2>1, <2>4 DEF Nodes
  <2> HIDE DEF c, h, d, nd
  <2> QED BY <2>1, <2>2, <2>3, <2>4, <2>5
<1>6. WriteUnset(nd, at, g)
  BY <1>3
<1> HIDE DEF nd
<1>7. Tree(nd)
  BY <1>1, <1>4, <1>5, ChangeTree
<1> QED BY <1>1, <1>4, <1>6, <1>7, WriteUnsetKeeps

\* A folder behind the last child.
LEMMA MdirAppendKeeps == ASSUME PInv, MdirAppend PROVE PInv'
<1>1. /\ at \in DOMAIN node /\ Tree(node) /\ root # NULL /\ todo # <<>> /\ Room
      /\ wild' \in BOOLEAN
  BY Rooted DEF PInv, PlaceInv, MemoryInv, OtherInv, MdirAppend
<1>2. Fresh \in Pointers
  BY <1>1, FreshFree DEF Pointers
<1>3. PICK last \in Children(at), g \in Unset :
        WriteUnset([node EXCEPT ![last].next = Fresh, ![last].sibling_sector = g], last, g)
  BY DEF MdirAppend
<1> DEFINE nd == [node EXCEPT ![last].next = Fresh, ![last].sibling_sector = g]
<1>4. DOMAIN nd = DOMAIN node /\ last \in DOMAIN node
  BY DEF Children
<1>5. ASSUME NEW j \in DOMAIN node PROVE nd[j] \in Nodes /\ nd[j].parent = node[j].parent
  <2>1. node[j] \in Nodes /\ g \in Nat
    BY <1>1, Constants DEF Tree
  <2>2. nd[j] = IF j = last
                THEN [[node[j] EXCEPT !.next = Fresh] EXCEPT !.sibling_sector = g]
                ELSE node[j]
    BY <2>1 DEF Nodes
  <2>3. [[node[j] EXCEPT !.next = Fresh] EXCEPT !.sibling_sector = g] \in Nodes
    BY <2>1, <1>2, FieldsSet
  <2>4. [[node[j] EXCEPT !.next = Fresh] EXCEPT !.sibling_sector = g].parent = node[j].parent
    BY <2>1 DEF Nodes
  <2> QED BY <2>1, <2>2, <2>3, <2>4
<1>6. WriteUnset(nd, last, g)
  BY <1>3
<1> HIDE DEF nd
<1>7. Tree(nd)
  BY <1>1, <1>4, <1>5, ChangeTree
<1> QED BY <1>1, <1>4, <1>6, <1>7, WriteUnsetKeeps

-----------------------------------------------------------------------------
(* The theorems. *)

\* Every step keeps the invariant.
LEMMA NextPInv == PInv /\ [Next]_vars => PInv'
<1> SUFFICES ASSUME PInv, [Next]_vars PROVE PInv'
  OBVIOUS
<1>1. CASE Format \/ WriteSector \/ Restart
  BY <1>1, FormatKeeps, WriteKeeps, RestartKeeps
<1>2. CASE Mounting
  BY <1>2, MountKeeps, RootKeeps, WildKeeps DEF Mounting
<1>3. CASE Loading
  BY <1>3, LoadSkippedKeeps, LoadFirstKeeps, LoadNextKeeps, LoadDoneKeeps, WildKeeps DEF Loading
<1>4. CASE Resolve
  BY <1>4, StartKeeps, ResolveKeeps, ResolveUpKeeps, ListKeeps, FindKeeps, WildKeeps DEF Resolve
<1>5. CASE Making
  BY <1>5, CreateFirstKeeps, LooksKeeps, CreateAppendKeeps, MdirFirstKeeps, MdirAppendKeeps,
     WildKeeps DEF Making
<1>6. CASE UNCHANGED vars
  BY <1>6 DEF vars, memory, control, history, PInv, MemoryInv, PlaceInv, QueueInv, OtherInv
<1> QED BY <1>1, <1>2, <1>3, <1>4, <1>5, <1>6 DEF Next

\* What every command knows at each of its steps, whatever is on the disk and
\* whatever fails.
THEOREM PfsInductive == Spec => []PInv
  BY InitPInv, NextPInv, PTL DEF Spec

\* Every variable keeps its type: no node is ever given the sector of the
\* superblock, and nothing else is ever written to a sector than a superblock
\* or a node.
THEOREM PfsTypes == Spec => []TypeOK
<1>1. PInv => TypeOK
  <2> SUFFICES ASSUME PInv PROVE TypeOK
    OBVIOUS
  <2>1. Tree(node) /\ MemoryInv /\ PlaceInv /\ QueueInv /\ OtherInv
    BY DEF PInv, MemoryInv
  <2>2. at \in Ids \cup {NULL} /\ tail \in Ids \cup {NULL}
    BY <2>1 DEF PlaceInv, Tree
  <2> QED BY <2>1, <2>2 DEF TypeOK, MemoryInv, PlaceInv, QueueInv, OtherInv, Tree
<1> QED BY <1>1, PfsInductive, PTL

\* A mounted filesystem never writes a node over its own superblock: only
\* format does, and mdir where it writes to the number it has not set.
THEOREM SuperblockStays == Spec => SuperblockKept
<1>1. PInv /\ [Next]_vars =>
        [disk'[1] # disk[1] => op = "format" \/ Head(queue).what = Junk]_vars
  <2> SUFFICES ASSUME PInv, Next, disk'[1] # disk[1], op # "format"
               PROVE  Head(queue).what = Junk
    BY DEF vars
  <2>1. WriteSector
    BY DEF Next, Mounting, Loading, Resolve, Making, Format, Restart,
           MountWithoutBuffer, Mount, ReadSuper, ReadSuperFails, ReadRoot, ReadRootWild, ReadRootFails,
           LoadSkipped, LoadWithoutBuffer, LoadFirst, LoadFirstWild, LoadFirstFails, LoadNext, LoadNextWild,
           LoadNextFails, LoadDone, LoadReturns, LoadAfter,
           Open, Ls, Create, Mdir, Start, ResolveEnds, ResolveHere, ResolveUp, ResolveUpWild,
           ResolveName, ResolveNothing, NoParent, ListFolder, ListFolderWild, FindHit, FindMiss,
           FindWild, Step, Return, CreateFirst, CreateMore, CreateWild, CreateAppend, AppendWild,
           MdirLoads, MdirFirst, MdirAppend, MdirWild, WriteBoth, WriteUnset,
           GoWild, StrayRead, Strays
  <2>2. queue \in Seq(Writes) /\ queue # <<>>
    BY <2>1 DEF WriteSector, PInv, QueueInv
  <2>3. Head(queue) = queue[1] /\ 1 \in 1 .. Len(queue)
    BY <2>2
  <2>4. Head(queue).at >= 2 \/ Head(queue).what = Junk
    BY <2>3 DEF PInv, QueueInv
  <2>5. CASE Head(queue).at >= 2
    <3>1. Head(queue).at # 1
      BY <2>5
    <3>2. disk'[1] = disk[1]
      BY <2>1, <3>1, Constants DEF WriteSector, PInv, OtherInv
    <3> QED BY <3>2
  <2> QED BY <2>4, <2>5
<1> QED BY <1>1, PfsInductive, PTL DEF Spec, SuperblockKept

-----------------------------------------------------------------------------
(***************************************************************************)
(* The root of the persistent filesystem stays a folder, and every node on *)
(* the disk says where it is, for every size of memory and disk, all paths *)
(* and any number of faults.                                               *)
(*                                                                         *)
(* mount moves lba to sector 2, the root's own, and create writes two to   *)
(* four sectors from there on, a file's among them.  What the root's       *)
(* sector holds in the end is the last of these writes that goes there     *)
(* (RootInv), and that it is a folder's rests on what is in memory: a      *)
(* command makes nodes in folders only, and a node that holds number 2 is  *)
(* a folder (FoldersInv).  Since nodes are read from the disk, the latter  *)
(* rests in turn on every record's number being its place (OwnInv).        *)
(***************************************************************************)

\* No write was lost or torn, and mdir has not written.
Good == faults \subseteq {"read"}

OwnInv ==
  /\ RecordsInPlace
  /\ \A k \in 1 .. Len(queue) : IsNode(queue[k].what) => queue[k].what.sector = queue[k].at

\* A node at the root's sector, and one that is a parent, is a folder.
Folders(nd) ==
  \A i \in DOMAIN nd :
    /\ nd[i].sector = 2 => nd[i].type = "Folder"
    /\ nd[i].parent \in DOMAIN nd => nd[nd[i].parent].type = "Folder"

\* The same, whatever x holds as its own sector.
FoldersBut(nd, x) ==
  \A i \in DOMAIN nd :
    /\ i # x /\ nd[i].sector = 2 => nd[i].type = "Folder"
    /\ nd[i].parent \in DOMAIN nd => nd[nd[i].parent].type = "Folder"

FoldersInv ==
  Good =>
    /\ Folders(node)
    /\ root # NULL => node[root].type = "Folder"
    /\ op \in Makers /\ at # NULL => node[at].type = "Folder"
    /\ root # NULL \/ pc = "root" => disk[1] = Super

FormatInv ==
  /\ op = "format" /\ queue # <<>> => root = NULL
  /\ Good => \A k \in 1 .. Len(queue) : queue[k].what # Junk

\* There is a superblock, or there will be one.
Formatted == disk[1] = Super \/ (op = "format" /\ queue # <<>>)

\* Of the writes that go to the root's sector the last is a folder's.
RootInv ==
  Good /\ Formatted =>
    /\ IsFolder(disk[2]) \/ \E k \in 1 .. Len(queue) : queue[k].at = 2
    /\ \A k \in 1 .. Len(queue) :
         queue[k].at = 2 =>
           IsFolder(queue[k].what) \/ \E j \in k + 1 .. Len(queue) : queue[j].at = 2

RInv == OwnInv /\ FoldersInv /\ FormatInv /\ RootInv

-----------------------------------------------------------------------------
(* Nodes. *)

\* The same nodes, with other pointers: no type and no sector has changed.
Same(nd, g) ==
  /\ DOMAIN g = DOMAIN nd
  /\ \A j \in DOMAIN nd : /\ g[j].type = nd[j].type /\ g[j].sector = nd[j].sector
                          /\ g[j].parent \in {nd[j].parent, NULL}

\* null is no node.
LEMMA NullOut ==
  ASSUME NEW nd, Tree(nd)
  PROVE  NULL \notin DOMAIN nd /\ UNSET \notin DOMAIN nd
  BY DEF Tree, Ids, NULL, UNSET

\* Other pointers make no other folders.
LEMMA SameFolders ==
  ASSUME NEW nd, Tree(nd), Folders(nd), NEW g, Same(nd, g)
  PROVE  Folders(g)
  BY NullOut DEF Folders, Same

\* One more node, which nothing points at as its parent.
LEMMA AddBut ==
  ASSUME NEW nd, Tree(nd), Folders(nd), NEW i \in Ids, i \notin DOMAIN nd, NEW n,
         n.parent \in {NULL, UNSET} \/ (n.parent \in DOMAIN nd /\ nd[n.parent].type = "Folder")
  PROVE  FoldersBut(Add(nd, i, n), i) /\ Add(nd, i, n)[i] = n
<1> DEFINE g == Add(nd, i, n)
<1>1. /\ DOMAIN g = DOMAIN nd \cup {i} /\ g[i] = n
      /\ \A j \in DOMAIN nd : g[j] = nd[j]
  BY DEF Add
<1>2. \A j \in DOMAIN nd : nd[j].parent \in DOMAIN nd \cup {NULL, UNSET}
  BY DEF Tree
<1>3. i # NULL /\ i # UNSET
  BY DEF Ids, NULL, UNSET
<1> HIDE DEF g
<1>4. ASSUME NEW j \in DOMAIN nd
      PROVE  /\ g[j].sector = 2 => g[j].type = "Folder"
             /\ g[j].parent \in DOMAIN g => g[g[j].parent].type = "Folder"
  BY <1>1, <1>2, <1>3 DEF Folders
<1>5. g[i].parent \in DOMAIN g => g[g[i].parent].type = "Folder"
  BY <1>1, <1>3, NullOut
<1>6. FoldersBut(g, i)
  BY <1>1, <1>4, <1>5 DEF FoldersBut
<1> QED BY <1>1, <1>6 DEF g

\* The same, of a node that may be anywhere.
LEMMA AddFolders ==
  ASSUME NEW nd, Tree(nd), Folders(nd), NEW i \in Ids, i \notin DOMAIN nd, NEW n,
         n.sector = 2 => n.type = "Folder",
         n.parent \in {NULL, UNSET} \/ (n.parent \in DOMAIN nd /\ nd[n.parent].type = "Folder")
  PROVE  Folders(Add(nd, i, n))
<1> DEFINE g == Add(nd, i, n)
<1>1. FoldersBut(g, i) /\ g[i] = n
  BY AddBut
<1> HIDE DEF g
<1>2. Folders(g)
  BY <1>1 DEF Folders, FoldersBut
<1> QED BY <1>2 DEF g

\* Pointers may be set in a node.
LEMMA PointerSame ==
  ASSUME Tree(node), NEW i \in DOMAIN node, NEW g, DOMAIN g = DOMAIN node,
         \A j \in DOMAIN node : j # i => g[j] = node[j],
         g[i].type = node[i].type, g[i].sector = node[i].sector,
         g[i].parent \in {node[i].parent, NULL}
  PROVE  Same(node, g)
  BY DEF Same

\* The list that a walk has settled.
LEMMA SettledSame ==
  ASSUME Tree(node), NEW d \in DOMAIN node
  PROVE  Same(node, Settled(d))
<1>1. DOMAIN Settled(d) = DOMAIN node
  BY DEF Settled
<1>2. ASSUME NEW j \in DOMAIN node
      PROVE  /\ Settled(d)[j].type = node[j].type /\ Settled(d)[j].sector = node[j].sector
             /\ Settled(d)[j].parent = node[j].parent
  <2>1. node[j] \in Nodes
    BY DEF Tree
  <2>2. Settled(d)[j] \in {[node[j] EXCEPT !.child = NULL], [node[j] EXCEPT !.next = NULL], node[j]}
    BY DEF Settled
  <2> QED BY <2>1, <2>2 DEF Nodes
<1> QED BY <1>1, <1>2 DEF Same

-----------------------------------------------------------------------------
(* Steps that write nothing. *)

\* Nothing is written and nothing is to be.
LEMMA QuietKeeps ==
  ASSUME RInv, UNCHANGED <<disk, queue>>, queue = <<>>, Good' => Good
  PROVE  OwnInv' /\ RootInv' /\ FormatInv'
<1>1. Len(queue) = 0
  OBVIOUS
<1>2. OwnInv'
  BY DEF RInv, OwnInv, RecordsInPlace
<1>3. RootInv'
  BY <1>1 DEF RInv, RootInv, Formatted
<1>4. FormatInv'
  BY <1>1 DEF FormatInv
<1> QED BY <1>2, <1>3, <1>4

\* A step of a command that keeps types, sectors and parents.
LEMMA SameKeeps ==
  ASSUME PInv, RInv, UNCHANGED <<disk, queue, root>>, queue = <<>>,
         faults \subseteq faults', Same(node, node'),
         pc' = "root" => disk[1] = Super,
         Good /\ op' \in Makers /\ at' # NULL => at' \in DOMAIN node /\ node[at'].type = "Folder"
  PROVE  RInv'
<1>1. Good' => Good
  BY DEF Good
<1>2. ASSUME Good' PROVE FoldersInv'
  <2>1. FoldersInv /\ Good /\ Folders(node) /\ Tree(node)
    BY <1>1, <1>2 DEF RInv, FoldersInv, PInv, MemoryInv
  <2>2. Folders(node')
    BY <2>1, SameFolders
  <2>3. root' # NULL => node'[root'].type = "Folder"
    BY <2>1 DEF FoldersInv, Same, PInv, MemoryInv
  <2>4. op' \in Makers /\ at' # NULL => node'[at'].type = "Folder"
    BY <2>1 DEF Same
  <2>5. root' # NULL \/ pc' = "root" => disk'[1] = Super
    BY <2>1 DEF FoldersInv
  <2> QED BY <2>2, <2>3, <2>4, <2>5 DEF FoldersInv
<1>3. FoldersInv'
  BY <1>2 DEF FoldersInv
<1> QED BY <1>1, <1>3, QuietKeeps DEF RInv

\* Where the program goes wild there are no nodes.
LEMMA WildRoot ==
  ASSUME PInv, RInv,
         \/ ReadRootWild \/ ReadRootFails
         \/ LoadFirstWild \/ LoadFirstFails \/ LoadNextWild
         \/ ResolveUpWild \/ (AtComponent /\ GoWild)
         \/ ListFolderWild \/ FindWild
         \/ CreateWild \/ AppendWild \/ MdirWild
  PROVE  RInv'
<1>1. pc # "write" /\ (GoWild \/ StrayRead)
  BY DEF ReadRootWild, ReadRootFails, LoadFirstWild, LoadFirstFails, LoadNextWild,
         MustLoad, ResolveUpWild, AtComponent, Resolving, ListFolderWild, IsListing,
         FindWild, CreateWild, AtCreate, AppendWild, MdirWild
<1>2. Strays /\ queue = <<>> /\ faults \subseteq faults'
  BY <1>1 DEF GoWild, StrayRead, Fault, PInv, QueueInv
<1>3. /\ DOMAIN node' = {} /\ root' = NULL /\ at' = NULL /\ pc' = "idle"
      /\ UNCHANGED <<disk, queue>>
  BY <1>2 DEF Strays, Over, Forgets
<1>4. Good' => Good
  BY <1>2 DEF Good
<1>5. FoldersInv'
  BY <1>3 DEF FoldersInv, Folders
<1> QED BY <1>2, <1>3, <1>4, <1>5, QuietKeeps DEF RInv

\* A restart forgets the nodes; what was still to be written is torn off.
LEMMA RestartRoot == ASSUME PInv, RInv, Restart PROVE RInv'
<1>1. /\ DOMAIN node' = {} /\ root' = NULL /\ at' = NULL /\ pc' = "idle"
      /\ UNCHANGED disk /\ queue' = <<>> /\ op' = "none"
  BY DEF Restart, Over, Forgets
<1>2. Good' => Good /\ queue = <<>>
  BY DEF Good, Restart
<1>3. FoldersInv'
  BY <1>1 DEF FoldersInv, Folders
<1>4. Len(queue') = 0
  BY <1>1
<1>5. OwnInv' /\ FormatInv'
  BY <1>1, <1>4 DEF RInv, OwnInv, RecordsInPlace, FormatInv
<1>6. RootInv'
  BY <1>1, <1>2, <1>4 DEF RInv, RootInv, Formatted
<1> QED BY <1>3, <1>5, <1>6 DEF RInv

\* The second sector format writes is a folder at the root's place.
LEMMA FormatRoot == ASSUME PInv, RInv, Format PROVE RInv'
<1> DEFINE r == Record("/", "Folder", TRUE, 2, 0, 0)
<1>1. /\ DOMAIN node' = {} /\ root' = NULL /\ at' = NULL /\ pc' = "write"
      /\ UNCHANGED disk
      /\ queue' = <<[at |-> 1, what |-> Super], [at |-> 2, what |-> r]>>
  BY DEF Format, Writing
<1>2. IsFolder(r) /\ r.sector = 2 /\ r # Junk /\ Super # Junk /\ ~IsNode(Super)
  BY DEF Record, IsFolder, IsNode, Junk, Super
<1> HIDE DEF r
<1>3. /\ Len(queue') = 2
      /\ queue'[1].at = 1 /\ queue'[1].what = Super
      /\ queue'[2].at = 2 /\ queue'[2].what = r
  BY <1>1
<1>4. \A k \in 1 .. Len(queue') : k = 1 \/ k = 2
  BY <1>3
<1>5. OwnInv'
  BY <1>1, <1>2, <1>3, <1>4 DEF RInv, OwnInv, RecordsInPlace
<1>6. FoldersInv'
  BY <1>1 DEF FoldersInv, Folders
<1>7. FormatInv'
  BY <1>1, <1>2, <1>3, <1>4 DEF FormatInv
<1>8. RootInv'
  <2>1. \E k \in 1 .. Len(queue') : queue'[k].at = 2
    BY <1>3
  <2>2. ASSUME NEW k \in 1 .. Len(queue'), queue'[k].at = 2 PROVE IsFolder(queue'[k].what)
    BY <1>2, <1>3, <1>4, <2>2
  <2> QED BY <2>1, <2>2 DEF RootInv
<1> QED BY <1>5, <1>6, <1>7, <1>8 DEF RInv

\* One sector is written.
LEMMA WriteRoot == ASSUME PInv, RInv, WriteSector PROVE RInv'
<1>1. /\ queue # <<>> /\ queue \in Seq(Writes) /\ pc = "write" /\ queue' = Tail(queue)
      /\ pc' # "root" /\ UNCHANGED <<node, root, op, at>>
  BY DEF WriteSector, PInv, QueueInv, memory
<1>2. Len(queue) \in Nat /\ Len(queue) >= 1 /\ Head(queue) = queue[1]
  BY <1>1
<1>3. /\ Len(queue') = Len(queue) - 1
      /\ \A k \in 1 .. Len(queue') : queue'[k] = queue[k + 1]
  BY <1>1, <1>2
<1> DEFINE w == queue[1]
<1>4. w \in Writes /\ w.at \in Nat
  <2>1. 1 \in 1 .. Len(queue)
    BY <1>2
  <2>2. queue[1] \in Writes
    BY <1>1, <2>1, ElementOfSeq
  <2>3. queue[1].at \in Nat
    BY <2>2 DEF Writes
  <2> QED BY <2>2, <2>3
<1>5. \/ InRange(w.at) /\ faults' = faults /\ disk' = [disk EXCEPT ![w.at] = w.what]
      \/ "lost" \in faults' /\ disk' = disk
  <2>1. w = Head(queue)
    BY <1>2
  <2> HIDE DEF w
  <2>2. \/ InRange(w.at) /\ disk' = [disk EXCEPT ![w.at] = w.what] /\ faults' = faults
        \/ (Fault("lost") \/ faults' = faults \cup {"lost"}) /\ disk' = disk
    BY <2>1 DEF WriteSector
  <2> QED BY <2>2 DEF Fault
<1>6. /\ disk \in [0 .. SECTORS - 1 -> Contents] /\ SECTORS \in Nat /\ SECTORS > 2
      /\ op # "format" => \A k \in 1 .. Len(queue) : queue[k].at >= 2 \/ queue[k].what = Junk
  BY Constants DEF PInv, OtherInv, QueueInv
<1>7. /\ DOMAIN disk' = 0 .. SECTORS - 1
      /\ \A s \in 0 .. SECTORS - 1 : disk'[s] = disk[s] \/ (s = w.at /\ disk'[s] = w.what)
  BY <1>5, <1>6
<1>8. Good' => /\ Good /\ InRange(w.at) /\ w.at \in 0 .. SECTORS - 1
               /\ disk'[w.at] = w.what
               /\ \A s \in 0 .. SECTORS - 1 : s # w.at => disk'[s] = disk[s]
  <2> HIDE DEF w
  <2> SUFFICES ASSUME Good'
               PROVE  /\ Good /\ InRange(w.at) /\ w.at \in 0 .. SECTORS - 1
                      /\ disk'[w.at] = w.what
                      /\ \A s \in 0 .. SECTORS - 1 : s # w.at => disk'[s] = disk[s]
    OBVIOUS
  <2>1. InRange(w.at) /\ faults' = faults /\ disk' = [disk EXCEPT ![w.at] = w.what]
    BY <1>5 DEF Good
  <2>2. w.at \in 0 .. SECTORS - 1
    BY <1>4, <1>6, <2>1 DEF InRange
  <2>3. DOMAIN disk = 0 .. SECTORS - 1
    BY <1>6
  <2>4. /\ disk'[w.at] = w.what
        /\ \A s \in 0 .. SECTORS - 1 : s # w.at => disk'[s] = disk[s]
    BY <2>1, <2>2, <2>3
  <2> QED BY <2>1, <2>2, <2>4 DEF Good
<1> HIDE DEF w
<1>9. OwnInv'
  <2>1. \A s \in 0 .. SECTORS - 1 : IsNode(disk'[s]) => disk'[s].sector = s
    BY <1>2, <1>7 DEF RInv, OwnInv, RecordsInPlace, w
  <2>2. \A k \in 1 .. Len(queue') : IsNode(queue'[k].what) => queue'[k].what.sector = queue'[k].at
    BY <1>2, <1>3 DEF RInv, OwnInv
  <2> QED BY <2>1, <2>2 DEF OwnInv, RecordsInPlace
<1>10. FormatInv'
  <2>1. Good' => \A k \in 1 .. Len(queue') : queue'[k].what # Junk
    BY <1>2, <1>3, <1>8 DEF RInv, FormatInv
  <2> QED BY <1>1, <2>1 DEF RInv, FormatInv
<1>11. Good' /\ disk'[1] = Super => disk[1] = Super \/ op = "format"
  <2> SUFFICES ASSUME Good', disk'[1] = Super, disk[1] # Super, op # "format" PROVE FALSE
    OBVIOUS
  <2>1. w.at = 1 /\ w.what = Super
    BY <1>6, <1>7
  <2>2. w.at >= 2 \/ w.what = Junk
    BY <1>2, <1>6 DEF w
  <2> QED BY <2>1, <2>2 DEF Super, Junk
<1>12. Good' /\ disk[1] = Super /\ op # "format" => disk'[1] = Super
  <2> SUFFICES ASSUME Good', disk[1] = Super, op # "format" PROVE disk'[1] = Super
    OBVIOUS
  <2>1. w.what # Junk
    BY <1>2, <1>8 DEF RInv, FormatInv, w
  <2>2. w.at >= 2
    BY <1>2, <1>6, <2>1 DEF w
  <2> QED BY <1>6, <1>8, <2>2
<1>13. FoldersInv'
  <2> SUFFICES ASSUME Good' PROVE FoldersInv'
    BY DEF FoldersInv
  <2>1. Good /\ FoldersInv /\ FormatInv
    BY <1>8 DEF RInv
  <2>2. root # NULL => disk[1] = Super /\ op # "format"
    BY <1>1, <2>1 DEF FoldersInv, FormatInv
  <2> QED BY <1>1, <1>12, <2>1, <2>2 DEF FoldersInv
<1>14. RootInv'
  <2> SUFFICES ASSUME Good', Formatted'
               PROVE  /\ IsFolder(disk'[2]) \/ \E k \in 1 .. Len(queue') : queue'[k].at = 2
                      /\ \A k \in 1 .. Len(queue') : queue'[k].at = 2 =>
                           \/ IsFolder(queue'[k].what)
                           \/ \E j \in k + 1 .. Len(queue') : queue'[j].at = 2
    BY DEF RootInv
  <2>1. Good /\ Formatted
    BY <1>1, <1>8, <1>11 DEF Formatted
  <2>2. /\ IsFolder(disk[2]) \/ \E k \in 1 .. Len(queue) : queue[k].at = 2
        /\ \A k \in 1 .. Len(queue) : queue[k].at = 2 =>
             IsFolder(queue[k].what) \/ \E j \in k + 1 .. Len(queue) : queue[j].at = 2
    BY <2>1 DEF RInv, RootInv
  <2>3. ASSUME NEW j \in 2 .. Len(queue), queue[j].at = 2
        PROVE  j - 1 \in 1 .. Len(queue') /\ queue'[j - 1].at = 2
    <3>1. j - 1 \in 1 .. Len(queue') /\ (j - 1) + 1 = j
      BY <1>2, <1>3
    <3> QED BY <1>3, <2>3, <3>1
  <2>4. IsFolder(disk'[2]) \/ \E k \in 1 .. Len(queue') : queue'[k].at = 2
    <3>1. CASE w.at = 2
      <4>1. IsFolder(w.what) \/ \E j \in 2 .. Len(queue) : queue[j].at = 2
        BY <1>2, <2>2, <3>1 DEF w
      <4>2. disk'[2] = w.what
        BY <1>8, <3>1
      <4> QED BY <2>3, <4>1, <4>2
    <3>2. CASE w.at # 2
      <4>1. disk'[2] = disk[2]
        BY <1>6, <1>8, <3>2
      <4>2. ASSUME NEW k \in 1 .. Len(queue), queue[k].at = 2 PROVE k \in 2 .. Len(queue)
        BY <1>2, <3>2, <4>2 DEF w
      <4> QED BY <2>2, <2>3, <4>1, <4>2
    <3> QED BY <3>1, <3>2
  <2>5. ASSUME NEW k \in 1 .. Len(queue'), queue'[k].at = 2
        PROVE  IsFolder(queue'[k].what) \/ \E j \in k + 1 .. Len(queue') : queue'[j].at = 2
    <3>1. queue'[k] = queue[k + 1] /\ k + 1 \in 1 .. Len(queue)
      BY <1>2, <1>3
    <3>2. IsFolder(queue[k + 1].what) \/ \E j \in (k + 1) + 1 .. Len(queue) : queue[j].at = 2
      BY <2>2, <2>5, <3>1
    <3>3. ASSUME NEW j \in (k + 1) + 1 .. Len(queue), queue[j].at = 2
          PROVE  j - 1 \in k + 1 .. Len(queue') /\ queue'[j - 1].at = 2
      <4>1. j \in 2 .. Len(queue) /\ j - 1 \in k + 1 .. Len(queue')
        BY <1>2, <1>3, <3>1
      <4> QED BY <2>3, <3>3, <4>1
    <3> QED BY <3>1, <3>2, <3>3
  <2> QED BY <2>4, <2>5
<1> QED BY <1>9, <1>10, <1>13, <1>14 DEF RInv

-----------------------------------------------------------------------------
(* Mounting and loading. *)

\* Nothing is to be written but where pc says so.
LEMMA NothingQueued == ASSUME PInv, pc # "write" PROVE queue = <<>>
  BY DEF PInv, QueueInv

\* Nodes that are left alone.
LEMMA SameSelf == ASSUME PInv, UNCHANGED node PROVE Same(node, node')
  BY DEF Same

\* What a maker is at is a folder, and stays so while it is there.
LEMMA AtFolder ==
  ASSUME PInv, RInv, Good, op \in Makers, at # NULL
  PROVE  at \in DOMAIN node /\ node[at].type = "Folder"
  BY DEF PInv, PlaceInv, RInv, FoldersInv

\* The root is looked for only behind a superblock.
LEMMA MountRoot == ASSUME PInv, RInv, MountWithoutBuffer \/ Mount \/ ReadSuper \/ ReadSuperFails PROVE RInv'
<1>1. /\ queue = <<>> /\ UNCHANGED <<disk, queue, root, node>>
  BY NothingQueued DEF MountWithoutBuffer, Mount, ReadSuper, ReadSuperFails, Idle
<1>2. faults \subseteq faults'
  BY DEF MountWithoutBuffer, Mount, ReadSuper, ReadSuperFails, Fault, history
<1>3. pc' = "root" => disk[1] = Super
  BY DEF MountWithoutBuffer, Mount, ReadSuper, ReadSuperFails, Idle, PInv, MemoryInv
<1>4. op' \in Makers => op' = op /\ at' = at
  BY DEF MountWithoutBuffer, Mount, ReadSuper, ReadSuperFails, Makers
<1>5. Same(node, node')
  BY <1>1, SameSelf
<1> QED BY <1>1, <1>2, <1>3, <1>4, <1>5, AtFolder, SameKeeps

\* The sector of the root is a folder's when a command reads it.
LEMMA DecodedFolder ==
  ASSUME PInv, RInv, Good, queue = <<>>, root # NULL \/ pc = "root",
         NEW s \in 0 .. SECTORS - 1, IsNode(disk[s])
  PROVE  Decode(disk[s]).sector = 2 => Decode(disk[s]).type = "Folder"
<1>1. disk[s].sector = s
  BY DEF RInv, OwnInv, RecordsInPlace
<1>2. disk[1] = Super /\ Len(queue) = 0
  BY DEF RInv, FoldersInv
<1>3. IsFolder(disk[2])
  BY <1>2 DEF RInv, RootInv, Formatted
<1> QED BY <1>1, <1>3 DEF IsFolder, Decode

\* The first node is the root, and a folder.
LEMMA ReadRootRoot == ASSUME PInv, RInv, ReadRoot PROVE RInv'
<1>1. queue = <<>> /\ pc = "root"
  BY NothingQueued DEF ReadRoot
<1>2. /\ root' = Fresh /\ at' = Fresh /\ pc' = "load"
      /\ node' = Add(node, Fresh, Decode(disk[2]))
      /\ UNCHANGED <<disk, queue, op, faults>>
  BY DEF ReadRoot, history
<1>3. DOMAIN node = {} /\ Tree(node) /\ Fresh \in Ids /\ Fresh \notin DOMAIN node
  <2>1. DOMAIN node = {} /\ Tree(node)
    BY <1>1 DEF PInv, MemoryInv
  <2>2. 1 \in Ids
    BY Constants DEF Ids
  <2>3. Room
    BY <2>1, <2>2 DEF Room
  <2> QED BY <2>1, <2>3, FreshFree
<1>4. ASSUME Good' PROVE FoldersInv'
  <2>1. Good /\ disk[1] = Super /\ Len(queue) = 0
    BY <1>1, <1>2, <1>4 DEF Good, RInv, FoldersInv
  <2>2. IsFolder(disk[2])
    BY <2>1 DEF RInv, RootInv, Formatted
  <2>3. Decode(disk[2]).type = "Folder" /\ Decode(disk[2]).parent = UNSET
    BY <2>2 DEF IsFolder, Decode
  <2>4. Folders(node)
    BY <1>3 DEF Folders
  <2>5. Folders(Add(node, Fresh, Decode(disk[2])))
    BY <1>3, <2>3, <2>4, AddFolders
  <2>6. node'[Fresh].type = "Folder"
    BY <1>2, <2>3 DEF Add
  <2> QED BY <1>2, <2>1, <2>5, <2>6 DEF FoldersInv
<1>5. FoldersInv'
  BY <1>4 DEF FoldersInv
<1>6. Good' => Good
  BY <1>2 DEF Good
<1> QED BY <1>1, <1>2, <1>5, <1>6, QuietKeeps DEF RInv

\* A node is decoded and linked.
LEMMA AddKeeps ==
  ASSUME PInv, RInv, queue = <<>>, UNCHANGED <<disk, queue, root, op, at>>,
         faults \subseteq faults', pc' # "root",
         NEW nd, Tree(nd), Same(node, nd), NEW i \in Ids, i \notin DOMAIN node, NEW n,
         Good => (n.sector = 2 => n.type = "Folder"), n.parent = UNSET,
         node' = Add(nd, i, n)
  PROVE  RInv'
<1>1. Good' => Good
  BY DEF Good
<1>2. ASSUME Good' PROVE FoldersInv'
  <2>1. FoldersInv /\ Good /\ Folders(node) /\ Tree(node)
    BY <1>1, <1>2 DEF RInv, FoldersInv, PInv, MemoryInv
  <2>2. Folders(nd) /\ i \notin DOMAIN nd
    BY <2>1, SameFolders DEF Same
  <2>3. Folders(Add(nd, i, n))
    BY <2>1, <2>2, AddFolders
  <2>4. ASSUME NEW j \in DOMAIN node PROVE node'[j].type = node[j].type
    BY <2>4 DEF Add, Same
  <2>5. root' # NULL => node'[root'].type = "Folder"
    BY <2>1, <2>4 DEF FoldersInv, PInv, MemoryInv
  <2>6. op' \in Makers /\ at' # NULL => node'[at'].type = "Folder"
    BY <2>1, <2>4 DEF FoldersInv, PInv, PlaceInv
  <2>7. root' # NULL \/ pc' = "root" => disk'[1] = Super
    BY <2>1 DEF FoldersInv
  <2> QED BY <2>3, <2>5, <2>6, <2>7 DEF FoldersInv
<1>3. FoldersInv'
  BY <1>2 DEF FoldersInv
<1> QED BY <1>1, <1>3, QuietKeeps DEF RInv

\* loadPFSNode comes back to the command, or ends it.
LEMMA LoadReturnRoot ==
  ASSUME PInv, RInv, LoadReturns, pc \in {"load", "chain"},
         NEW b, node' = [node EXCEPT ![at].loaded = b]
  PROVE  RInv'
<1>1. at \in DOMAIN node /\ Tree(node) /\ node[at] \in Nodes
  BY DEF PInv, PlaceInv, MemoryInv, Tree
<1>2. Same(node, node')
  <2>1. /\ DOMAIN node' = DOMAIN node
        /\ \A j \in DOMAIN node : j # at => node'[j] = node[j]
        /\ node'[at] = [node[at] EXCEPT !.loaded = b]
    BY <1>1
  <2>2. /\ node'[at].type = node[at].type /\ node'[at].sector = node[at].sector
        /\ node'[at].parent = node[at].parent
    BY <1>1, <2>1 DEF Nodes
  <2> QED BY <1>1, <2>1, <2>2, PointerSame
<1>3. queue = <<>> /\ UNCHANGED <<disk, queue, root, op, faults>>
  BY NothingQueued DEF LoadReturns, history
<1>4. pc' # "root" /\ at' \in {at, NULL}
  BY DEF LoadReturns, Over, PInv, PlaceInv
<1> QED BY <1>2, <1>3, <1>4, AtFolder, SameKeeps

\* The folder needs no loading, there is no buffer for it, or its last child
\* has been decoded.
LEMMA LoadRoot == ASSUME PInv, RInv, LoadSkipped \/ LoadWithoutBuffer \/ LoadDone PROVE RInv'
<1>1. LoadReturns /\ pc \in {"load", "chain"}
  BY DEF LoadSkipped, LoadWithoutBuffer, MustLoad, LoadDone
<1>2. PICK b \in LoadedByte \cup {"yes"} : node' = [node EXCEPT ![at].loaded = b]
  BY DEF LoadSkipped, LoadWithoutBuffer, MustLoad, LoadDone
<1> QED BY <1>1, <1>2, LoadReturnRoot

\* The first child is linked to its folder.
LEMMA LoadFirstRoot == ASSUME PInv, RInv, LoadFirst PROVE RInv'
<1> DEFINE r == disk[node[at].child_sector]
           nd == [node EXCEPT ![at].loaded = "no", ![at].child = Fresh]
<1>1. pc = "load" /\ at \in DOMAIN node /\ Tree(node) /\ root # NULL /\ queue = <<>>
  BY Rooted, NothingQueued DEF PInv, PlaceInv, MemoryInv, LoadFirst, MustLoad
<1>2. Fresh \in Ids /\ Fresh \notin DOMAIN node /\ Fresh \in Pointers
  BY <1>1, FreshFree DEF LoadFirst, Pointers
<1>3. node[at].child_sector \in 0 .. SECTORS - 1 /\ IsNode(r)
  BY <1>1, Constants DEF Tree, Nodes, LoadFirst, InRange
<1>4. Good => (Decode(r).sector = 2 => Decode(r).type = "Folder")
  BY <1>1, <1>3, DecodedFolder
<1>5. DOMAIN nd = DOMAIN node
  OBVIOUS
<1>6. ASSUME NEW j \in DOMAIN node
      PROVE  /\ nd[j] \in Nodes /\ nd[j].parent = node[j].parent
             /\ nd[j].type = node[j].type /\ nd[j].sector = node[j].sector
  <2>1. node[j] \in Nodes
    BY <1>1 DEF Tree
  <2>2. nd[j] = IF j = at THEN [[node[j] EXCEPT !.loaded = "no"] EXCEPT !.child = Fresh]
                ELSE node[j]
    BY <2>1 DEF Nodes
  <2> HIDE DEF nd
  <2> QED BY <1>2, <2>1, <2>2 DEF Nodes
<1>7. node' = Add(nd, Fresh, Decode(r)) /\ Decode(r).parent = UNSET
  BY DEF LoadFirst, Decode
<1> HIDE DEF nd, r
<1>8. Tree(nd)
  BY <1>1, <1>5, <1>6, ChangeTree
<1>9. Same(node, nd)
  BY <1>5, <1>6 DEF Same
<1>10. UNCHANGED <<disk, queue, root, op, at, faults>> /\ pc' # "root"
  BY DEF LoadFirst, history
<1> QED BY <1>1, <1>2, <1>4, <1>7, <1>8, <1>9, <1>10, AddKeeps

\* The next child, or the one before once more.
LEMMA LoadNextRoot == ASSUME PInv, RInv, LoadNext \/ LoadNextFails PROVE RInv'
<1> DEFINE nd == [node EXCEPT ![tail].next = Fresh]
<1>1. /\ pc = "chain" /\ tail \in DOMAIN node /\ Tree(node) /\ root # NULL /\ queue = <<>>
      /\ Room
  BY Rooted, NothingQueued DEF PInv, PlaceInv, MemoryInv, LoadNext, LoadNextFails
<1>2. Fresh \in Ids /\ Fresh \notin DOMAIN node /\ Fresh \in Pointers
  BY <1>1, FreshFree DEF Pointers
<1>3. PICK r : /\ LoadAfter(r)
               /\ Good => (Decode(r).sector = 2 => Decode(r).type = "Folder")
  <2>1. CASE LoadNext
    <3>1. NextSector \in 0 .. SECTORS - 1 /\ IsNode(disk[NextSector])
      BY <1>1, <2>1, Constants DEF Tree, Nodes, LoadNext, InRange, NextSector
    <3>2. Good => (Decode(disk[NextSector]).sector = 2 => Decode(disk[NextSector]).type = "Folder")
      BY <1>1, <3>1, DecodedFolder
    <3> QED BY <2>1, <3>2 DEF LoadNext
  <2>2. CASE LoadNextFails
    <3>1. Good => (node[tail].sector = 2 => node[tail].type = "Folder")
      BY <1>1 DEF RInv, FoldersInv, Folders
    <3>2. /\ Decode(Encode(node[tail])).sector = node[tail].sector
          /\ Decode(Encode(node[tail])).type = node[tail].type
      BY DEF Decode, Encode, Record
    <3> QED BY <2>2, <3>1, <3>2 DEF LoadNextFails
  <2> QED BY <2>1, <2>2
<1>4. DOMAIN nd = DOMAIN node
  OBVIOUS
<1>5. ASSUME NEW j \in DOMAIN node
      PROVE  /\ nd[j] \in Nodes /\ nd[j].parent = node[j].parent
             /\ nd[j].type = node[j].type /\ nd[j].sector = node[j].sector
  <2>1. node[j] \in Nodes
    BY <1>1 DEF Tree
  <2>2. nd[j] = IF j = tail THEN [node[j] EXCEPT !.next = Fresh] ELSE node[j]
    OBVIOUS
  <2> HIDE DEF nd
  <2> QED BY <1>2, <2>1, <2>2 DEF Nodes
<1>6. /\ node' = Add(nd, Fresh, Decode(r)) /\ Decode(r).parent = UNSET
      /\ UNCHANGED <<disk, queue, root, op, at>> /\ pc' # "root"
  BY <1>1, <1>3 DEF LoadAfter, Decode
<1>7. faults \subseteq faults'
  BY DEF LoadNext, LoadNextFails, Fault
<1> HIDE DEF nd
<1>8. Tree(nd)
  BY <1>1, <1>4, <1>5, ChangeTree
<1>9. Same(node, nd)
  BY <1>4, <1>5 DEF Same
<1> QED BY <1>1, <1>2, <1>3, <1>6, <1>7, <1>8, <1>9, AddKeeps

-----------------------------------------------------------------------------
(* Resolving a path. *)

\* The nodes are left alone, and a maker is at a folder.
LEMMA StayRoot ==
  ASSUME PInv, RInv, pc # "write", UNCHANGED <<disk, queue, root, node, faults>>,
         pc' # "root",
         Good /\ op' \in Makers /\ at' # NULL => at' \in DOMAIN node /\ node[at'].type = "Folder"
  PROVE  RInv'
<1>1. queue = <<>> /\ Same(node, node')
  BY NothingQueued, SameSelf
<1> QED BY <1>1, SameKeeps

\* Every command starts at the root.
LEMMA StartRoot == ASSUME PInv, RInv, Open \/ Ls \/ Create \/ Mdir PROVE RInv'
<1>1. /\ pc # "write" /\ pc' # "root" /\ at' = root
      /\ UNCHANGED <<disk, queue, root, node, faults>>
  BY DEF Open, Ls, Create, Mdir, Start, Idle, memory, history
<1>2. Good /\ at' # NULL => at' \in DOMAIN node /\ node[at'].type = "Folder"
  BY <1>1 DEF RInv, FoldersInv, PInv, MemoryInv
<1> QED BY <1>1, <1>2, StayRoot

\* The command ends with a message.
LEMMA ReturnRoot ==
  ASSUME PInv, RInv, pc # "write", Return, UNCHANGED <<node, root, faults>>
  PROVE  RInv'
<1>1. /\ pc' # "root" /\ at' = NULL
      /\ UNCHANGED <<disk, queue, root, node, faults>>
  BY DEF Return, Over
<1> QED BY <1>1, StayRoot

\* The steps that leave the nodes alone.
LEMMA ResolveRoot ==
  ASSUME PInv, RInv, ResolveEnds \/ ResolveHere \/ ResolveName \/ ResolveNothing \/ NoParent
  PROVE  RInv'
<1>1. CASE ResolveEnds \/ NoParent
  BY <1>1, ReturnRoot DEF ResolveEnds, NoParent, Resolving, memory
<1>2. CASE ResolveHere \/ ResolveName
  <2>1. /\ pc # "write" /\ pc' # "root" /\ at' = at /\ op' = op
        /\ UNCHANGED <<disk, queue, root, node, faults>>
    BY <1>2 DEF ResolveHere, ResolveName, AtComponent, Resolving, Step, memory, history
  <2> QED BY <2>1, AtFolder, StayRoot
<1>3. CASE ResolveNothing
  <2>1. AtComponent /\ pc # "write"
    BY <1>3 DEF ResolveNothing, AtComponent, Resolving
  <2>2. CASE op \in Makers
    BY <1>3, <2>1, <2>2, ReturnRoot DEF ResolveNothing, memory
  <2>3. CASE op \notin Makers
    BY <1>3, <2>1, <2>3, WildRoot DEF ResolveNothing
  <2> QED BY <2>2, <2>3
<1> QED BY <1>1, <1>2, <1>3

\* A parent is a folder.
LEMMA ResolveUpRoot == ASSUME PInv, RInv, ResolveUp PROVE RInv'
<1>1. /\ at \in DOMAIN node /\ Tree(node) /\ node[at] \in Nodes
      /\ pc = "resolve" /\ queue = <<>>
  BY NothingQueued DEF PInv, PlaceInv, MemoryInv, Tree, ResolveUp, Resolving
<1>2. CASE node[at].parent \in Ids
  <2>1. node[at].parent \in DOMAIN node
    BY <1>1, <1>2 DEF Tree, Ids, NULL, UNSET
  <2>2. Good => node[node[at].parent].type = "Folder"
    BY <1>1, <2>1 DEF RInv, FoldersInv, Folders
  <2>3. /\ at' = node[at].parent /\ pc' # "root"
        /\ UNCHANGED <<disk, queue, root, node, faults>>
    BY <1>2 DEF ResolveUp, Step, history
  <2> QED BY <1>1, <2>1, <2>2, <2>3, StayRoot
<1>3. CASE node[at].parent \notin Ids
  <2>1. /\ at' = at /\ pc' # "root" /\ op' = op /\ node' = [node EXCEPT ![at].parent = NULL]
        /\ UNCHANGED <<disk, queue, root, faults>>
    BY <1>3 DEF ResolveUp, Step, history
  <2>2. /\ DOMAIN node' = DOMAIN node
        /\ \A j \in DOMAIN node : j # at => node'[j] = node[j]
        /\ node'[at] = [node[at] EXCEPT !.parent = NULL]
    BY <1>1, <2>1
  <2>3. /\ node'[at].type = node[at].type /\ node'[at].sector = node[at].sector
        /\ node'[at].parent \in {node[at].parent, NULL}
    BY <1>1, <2>2 DEF Nodes
  <2>4. Same(node, node')
    BY <1>1, <2>2, <2>3, PointerSame
  <2> QED BY <1>1, <2>1, <2>4, AtFolder, SameKeeps
<1> QED BY <1>2, <1>3

\* ls walks along a list.
LEMMA ListRoot == ASSUME PInv, RInv, ListFolder PROVE RInv'
<1>1. /\ at \in DOMAIN node /\ Tree(node) /\ queue = <<>>
  BY NothingQueued DEF PInv, PlaceInv, MemoryInv, ListFolder, IsListing
<1>2. /\ node' = Settled(at) /\ at' = NULL /\ pc' # "root"
      /\ UNCHANGED <<disk, queue, root, faults>>
  BY DEF ListFolder, Return, Over
<1>3. Same(node, node')
  BY <1>1, <1>2, SettledSame
<1> QED BY <1>1, <1>2, <1>3, SameKeeps

\* A maker goes on in folders only.
LEMMA FindRoot == ASSUME PInv, RInv, FindHit \/ FindMiss PROVE RInv'
<1>1. at \in DOMAIN node /\ Tree(node) /\ pc = "find" /\ queue = <<>>
  BY NothingQueued DEF PInv, PlaceInv, MemoryInv, FindHit, FindMiss
<1>2. CASE FindHit
  <2>1. PICK i \in Sought : IF AtName \/ (op \in Makers /\ node[i].type # "Folder")
                            THEN Return /\ UNCHANGED faults ELSE Step(i)
    BY <1>2 DEF FindHit
  <2>2. i \in DOMAIN node /\ UNCHANGED <<node, root>>
    BY <1>2 DEF FindHit, Sought, Named, Children
  <2>3. CASE Return /\ UNCHANGED faults
    BY <1>1, <2>2, <2>3, ReturnRoot
  <2>4. CASE Step(i) /\ (op \in Makers => node[i].type = "Folder")
    <3>1. /\ at' = i /\ pc' # "root" /\ op' = op
          /\ UNCHANGED <<disk, queue, root, node, faults>>
      BY <2>2, <2>4 DEF Step, history
    <3> QED BY <1>1, <2>2, <2>4, <3>1, StayRoot
  <2> QED BY <2>1, <2>3, <2>4
<1>3. CASE FindMiss
  <2>1. Same(node, node')
    BY <1>1, <1>3, SettledSame DEF FindMiss
  <2>2. /\ at' \in {at, NULL} /\ pc' # "root" /\ op' = op
        /\ UNCHANGED <<disk, queue, root, faults>>
    <3>1. (pc' = "append" /\ at' = at) \/ Over
      BY <1>3 DEF FindMiss
    <3>2. at' \in {at, NULL} /\ pc' # "root"
      BY <3>1 DEF Over
    <3> QED BY <1>3, <3>2 DEF FindMiss, history
  <2> QED BY <1>1, <2>1, <2>2, AtFolder, SameKeeps
<1> QED BY <1>2, <1>3

\* A maker looks for the name, or loads the list, in the folder it is at.
LEMMA LooksRoot == ASSUME PInv, RInv, CreateMore \/ MdirLoads PROVE RInv'
<1>1. /\ at \in DOMAIN node /\ Tree(node) /\ node[at] \in Nodes /\ queue = <<>>
  BY NothingQueued DEF PInv, PlaceInv, MemoryInv, Tree, CreateMore, AtCreate, MdirLoads, AtMdir,
                       Resolving
<1>2. /\ at' = at /\ pc' # "root" /\ op' = op
      /\ UNCHANGED <<disk, queue, root, faults>>
      /\ node' = node \/ node' = [node EXCEPT ![at].child = ASTRAY]
  BY DEF CreateMore, MdirLoads, memory, history
<1>3. Same(node, node')
  <2>1. CASE node' = node
    BY <2>1, SameSelf
  <2>2. CASE node' = [node EXCEPT ![at].child = ASTRAY]
    <3>1. /\ DOMAIN node' = DOMAIN node
          /\ \A j \in DOMAIN node : j # at => node'[j] = node[j]
          /\ node'[at] = [node[at] EXCEPT !.child = ASTRAY]
      BY <1>1, <2>2
    <3>2. /\ node'[at].type = node[at].type /\ node'[at].sector = node[at].sector
          /\ node'[at].parent = node[at].parent
      BY <1>1, <3>1 DEF Nodes
    <3> QED BY <1>1, <3>1, <3>2, PointerSame
  <2> QED BY <1>2, <2>1, <2>2
<1> QED BY <1>1, <1>2, <1>3, AtFolder, SameKeeps

-----------------------------------------------------------------------------
(* Making files and folders. *)

\* create ends with its writes: of those to the root's sector the last is the
\* parent's, and the file's is behind it.
LEMMA WriteBothRoot ==
  ASSUME PInv, RInv, queue = <<>>, op # "format", NEW nd, Tree(nd),
         at \in DOMAIN nd, NEW new \in DOMAIN nd, new # at,
         root \in DOMAIN nd, lba \in Nat, lba >= 2,
         Good => FoldersBut(nd, new) /\ nd[at].type = "Folder" /\ nd[root].type = "Folder",
         root # NULL, NEW before \in Seq(Writes),
         \A k \in 1 .. Len(before) : before[k].what.sector = before[k].at /\ before[k].what # Junk,
         Good => \A k \in 1 .. Len(before) :
                   before[k].at = 2 => IsFolder(before[k].what) \/ lba = 2,
         WriteBoth(nd, new, before)
  PROVE  RInv'
<1> DEFINE one == [at |-> lba, what |-> Encode(node'[at])]
           other == [at |-> lba + 1, what |-> Encode(node'[new])]
           two == <<one, other>>
           b == Len(before)
<1>1. /\ UNCHANGED <<disk, root, op, faults>> /\ at' = NULL /\ pc' = "write"
      /\ queue' = before \o two
      /\ node' = [nd EXCEPT ![at].sector = lba, ![new].sector = lba + 1]
  BY DEF WriteBoth, Writing
<1>2. /\ DOMAIN node' = DOMAIN nd
      /\ \A j \in DOMAIN nd : nd[j] \in Nodes
      /\ \A j \in DOMAIN nd :
           node'[j] = IF j = at THEN [nd[j] EXCEPT !.sector = lba]
                      ELSE IF j = new THEN [nd[j] EXCEPT !.sector = lba + 1] ELSE nd[j]
  BY <1>1 DEF Tree
<1>3. ASSUME NEW j \in DOMAIN nd
      PROVE  /\ node'[j].type = nd[j].type /\ node'[j].parent = nd[j].parent
             /\ node'[j].sector = IF j = at THEN lba ELSE IF j = new THEN lba + 1
                                  ELSE nd[j].sector
             /\ node'[j] \in Nodes
  <2>1. nd[j] \in Nodes
    BY <1>2
  <2>2. node'[j] = IF j = at THEN [nd[j] EXCEPT !.sector = lba]
                   ELSE IF j = new THEN [nd[j] EXCEPT !.sector = lba + 1] ELSE nd[j]
    BY <1>2
  <2>3. [nd[j] EXCEPT !.sector = lba] \in Nodes /\ [nd[j] EXCEPT !.sector = lba + 1] \in Nodes
    <3>1. lba + 1 \in Nat /\ lba + 1 >= 2
      OBVIOUS
    <3> QED BY <2>1, <3>1, FieldsSet
  <2>4. /\ [nd[j] EXCEPT !.sector = lba].parent = nd[j].parent
        /\ [nd[j] EXCEPT !.sector = lba].type = nd[j].type
        /\ [nd[j] EXCEPT !.sector = lba].sector = lba
        /\ [nd[j] EXCEPT !.sector = lba + 1].parent = nd[j].parent
        /\ [nd[j] EXCEPT !.sector = lba + 1].type = nd[j].type
        /\ [nd[j] EXCEPT !.sector = lba + 1].sector = lba + 1
    BY <2>1 DEF Nodes
  <2>5. CASE j = at
    BY <2>2, <2>3, <2>4, <2>5
  <2>6. CASE j # at
    BY <2>1, <2>2, <2>3, <2>4, <2>6
  <2> QED BY <2>5, <2>6
<1>4. Good' <=> Good
  BY <1>1 DEF Good
<1>5. FoldersInv'
  <2> SUFFICES ASSUME Good' PROVE FoldersInv'
    BY DEF FoldersInv
  <2>1. Good /\ FoldersBut(nd, new) /\ nd[at].type = "Folder" /\ nd[root].type = "Folder"
    BY <1>4
  <2>2. ASSUME NEW j \in DOMAIN nd
        PROVE  /\ node'[j].sector = 2 => node'[j].type = "Folder"
               /\ node'[j].parent \in DOMAIN nd => node'[node'[j].parent].type = "Folder"
    <3>1. node'[j].sector = 2 => node'[j].type = "Folder"
      <4>1. CASE j = at
        BY <1>3, <2>1, <4>1
      <4>2. CASE j = new
        BY <1>3, <4>2
      <4>3. CASE j # at /\ j # new
        BY <1>3, <2>1, <4>3 DEF FoldersBut
      <4> QED BY <4>1, <4>2, <4>3
    <3>2. node'[j].parent \in DOMAIN nd => node'[node'[j].parent].type = "Folder"
      BY <1>3, <2>1 DEF FoldersBut
    <3> QED BY <3>1, <3>2
  <2>3. Folders(node')
    BY <1>2, <2>2 DEF Folders
  <2>4. disk[1] = Super /\ node'[root].type = "Folder"
    BY <1>3, <2>1 DEF RInv, FoldersInv
  <2> QED BY <1>1, <2>3, <2>4 DEF FoldersInv
<1>6. /\ one.at = lba /\ IsNode(one.what) /\ one.what.sector = lba
      /\ one.what.type = nd[at].type
      /\ other.at = lba + 1 /\ IsNode(other.what) /\ other.what.sector = lba + 1
      /\ one.what # Junk /\ other.what # Junk
  BY <1>3 DEF Encode, Record, IsNode, Junk
<1>7. two \in Seq(Writes) /\ Len(two) = 2 /\ two[1] = one /\ two[2] = other
  <2>1. one \in Writes /\ other \in Writes
    BY <1>3, WriteBehind
  <2> HIDE DEF one, other
  <2> QED BY <2>1
<1> HIDE DEF one, other, two
<1>8. /\ Len(queue') = b + 2 /\ b \in Nat
      /\ \A k \in 1 .. b : queue'[k] = before[k]
      /\ queue'[b + 1] = one /\ queue'[b + 2] = other
  <2>1. /\ Len(before \o two) = Len(before) + Len(two)
        /\ \A k \in 1 .. Len(before) + Len(two) :
             (before \o two)[k] = IF k <= Len(before) THEN before[k] ELSE two[k - Len(before)]
    BY <1>7, ConcatProperties, Zenon
  <2> DEFINE all == before \o two
  <2>2. queue' = all
    BY <1>1
  <2>3. /\ Len(all) = b + 2
        /\ \A k \in 1 .. b + 2 : all[k] = IF k <= b THEN before[k] ELSE two[k - b]
    BY <1>7, <2>1
  <2>4. b \in Nat
    OBVIOUS
  <2> HIDE DEF all, b
  <2>5. ASSUME NEW k \in 1 .. b PROVE all[k] = before[k]
    BY <2>3, <2>4
  <2>6. all[b + 1] = two[1] /\ all[b + 2] = two[2]
    BY <2>3, <2>4
  <2> QED BY <1>7, <2>2, <2>3, <2>4, <2>5, <2>6
<1>9. \A k \in 1 .. b : before[k].what.sector = before[k].at /\ before[k].what # Junk
  OBVIOUS
<1>10. Good => \A k \in 1 .. b : before[k].at = 2 => IsFolder(before[k].what) \/ lba = 2
  OBVIOUS
<1> HIDE DEF b
<1>11. \A k \in 1 .. Len(queue') : k \in 1 .. b \/ k = b + 1 \/ k = b + 2
  BY <1>8
<1>12. OwnInv'
  <2>1. ASSUME NEW k \in 1 .. Len(queue') PROVE queue'[k].what.sector = queue'[k].at
    BY <1>6, <1>8, <1>9, <1>11
  <2> QED BY <1>1, <2>1 DEF RInv, OwnInv, RecordsInPlace
<1>13. FormatInv'
  <2>1. ASSUME NEW k \in 1 .. Len(queue') PROVE queue'[k].what # Junk
    BY <1>6, <1>8, <1>9, <1>11
  <2> QED BY <1>1, <2>1 DEF FormatInv
<1>14. RootInv'
  <2> SUFFICES ASSUME Good', Formatted'
               PROVE  /\ IsFolder(disk'[2])
                      /\ \A k \in 1 .. Len(queue') : queue'[k].at = 2 =>
                           \/ IsFolder(queue'[k].what)
                           \/ \E j \in k + 1 .. Len(queue') : queue'[j].at = 2
    BY DEF RootInv
  <2>1. IsFolder(disk'[2])
    <3>1. disk[1] = Super /\ Len(queue) = 0 /\ Good
      BY <1>1, <1>4 DEF Formatted
    <3> QED BY <1>1, <3>1 DEF RInv, RootInv, Formatted
  <2>2. ASSUME NEW k \in 1 .. Len(queue'), queue'[k].at = 2
        PROVE  IsFolder(queue'[k].what) \/ \E j \in k + 1 .. Len(queue') : queue'[j].at = 2
    <3>1. CASE k \in 1 .. b
      <4>1. IsFolder(queue'[k].what) \/ lba = 2
        BY <1>4, <1>8, <1>10, <2>2, <3>1
      <4>2. CASE lba = 2
        <5>1. b + 1 \in k + 1 .. Len(queue') /\ queue'[b + 1].at = 2
          BY <1>6, <1>8, <3>1, <4>2
        <5> QED BY <5>1
      <4> QED BY <4>1, <4>2
    <3>2. CASE k = b + 1
      BY <1>4, <1>6, <1>8, <3>2 DEF IsFolder
    <3>3. CASE k = b + 2
      BY <1>6, <1>8, <2>2, <3>3
    <3> QED BY <1>11, <3>1, <3>2, <3>3
  <2> QED BY <2>1, <2>2
<1> QED BY <1>5, <1>12, <1>13, <1>14 DEF RInv

\* The first child of a folder is written behind it.
LEMMA CreateFirstRoot == ASSUME PInv, RInv, CreateFirst PROVE RInv'
<1> DEFINE nd == [node EXCEPT ![at].child = Fresh]
           n == NewFile(Head(todo))
<1>1. /\ at \in DOMAIN node /\ Tree(node) /\ root \in DOMAIN node /\ root # NULL
      /\ lba \in Nat /\ lba >= 2 /\ queue = <<>> /\ op = "create" /\ todo # <<>> /\ at # NULL
  BY Rooted, NothingQueued
  DEF PInv, PlaceInv, MemoryInv, CreateFirst, AtCreate, Resolving
<1>2. Fresh \in Ids /\ Fresh \notin DOMAIN node /\ Fresh \in Pointers
  BY <1>1, FreshFree DEF CreateFirst, Pointers
<1>3. n \in Nodes /\ n.parent = NULL
  BY <1>1, NewName, NewFileNode
<1>4. DOMAIN nd = DOMAIN node
  OBVIOUS
<1>5. ASSUME NEW j \in DOMAIN node
      PROVE  /\ nd[j] \in Nodes /\ nd[j].parent = node[j].parent
             /\ nd[j].type = node[j].type /\ nd[j].sector = node[j].sector
  <2>1. node[j] \in Nodes
    BY <1>1 DEF Tree
  <2>2. nd[j] = IF j = at THEN [node[j] EXCEPT !.child = Fresh] ELSE node[j]
    OBVIOUS
  <2> HIDE DEF nd
  <2> QED BY <1>2, <2>1, <2>2 DEF Nodes
<1>6. WriteBoth(Add(nd, Fresh, n), Fresh, <<>>)
  BY DEF CreateFirst
<1> HIDE DEF nd, n
<1>7. Tree(nd) /\ Same(node, nd)
  BY <1>1, <1>4, <1>5, ChangeTree DEF Same
<1> DEFINE all == Add(nd, Fresh, n)
<1>8. Tree(all) /\ DOMAIN all = DOMAIN node \cup {Fresh}
  <2>1. n.parent \in DOMAIN nd \cup {NULL, UNSET}
    BY <1>3
  <2>2. Tree(all) /\ DOMAIN all = DOMAIN nd \cup {Fresh}
    BY <1>2, <1>3, <1>7, <2>1, AddTree
  <2> QED BY <1>4, <2>2
<1>9. ASSUME NEW j \in DOMAIN node PROVE all[j].type = node[j].type
  BY <1>2, <1>4, <1>5, <1>9 DEF Add
<1>10. Good => FoldersBut(all, Fresh)
  <2> SUFFICES ASSUME Good PROVE FoldersBut(all, Fresh)
    OBVIOUS
  <2>1. Folders(nd)
    BY <1>1, <1>7, SameFolders DEF RInv, FoldersInv
  <2>2. Fresh \notin DOMAIN nd
    BY <1>2, <1>4
  <2> QED BY <1>2, <1>3, <1>7, <2>1, <2>2, AddBut
<1> HIDE DEF all
<1>11. Good => all[at].type = "Folder" /\ all[root].type = "Folder"
  BY <1>1, <1>9 DEF RInv, FoldersInv, Makers
<1>12. /\ <<>> \in Seq(Writes)
       /\ \A k \in 1 .. Len(<<>>) : <<>>[k].what.sector = <<>>[k].at /\ <<>>[k].what # Junk
       /\ \A k \in 1 .. Len(<<>>) : <<>>[k].at = 2 => IsFolder(<<>>[k].what) \/ lba = 2
  OBVIOUS
<1>13. /\ op # "format" /\ at \in DOMAIN all /\ Fresh \in DOMAIN all /\ Fresh # at
       /\ root \in DOMAIN all /\ WriteBoth(all, Fresh, <<>>)
  BY <1>1, <1>2, <1>6, <1>8 DEF all
<1> QED BY <1>1, <1>8, <1>10, <1>11, <1>12, <1>13, WriteBothRoot

\* A file behind the last child: the sibling is written where it is, and the
\* file where the parent goes after it.
LEMMA CreateAppendRoot == ASSUME PInv, RInv, CreateAppend PROVE RInv'
<1>1. /\ at \in DOMAIN node /\ Tree(node) /\ root \in DOMAIN node /\ root # NULL
      /\ lba \in Nat /\ lba >= 2 /\ queue = <<>> /\ op = "create" /\ todo # <<>> /\ at # NULL
  BY Rooted, NothingQueued DEF PInv, PlaceInv, MemoryInv, CreateAppend
<1>2. Fresh \in Ids /\ Fresh \notin DOMAIN node /\ Fresh \in Pointers
  BY <1>1, FreshFree DEF CreateAppend, Pointers
<1> DEFINE linked(last) ==
             [node EXCEPT ![last].next = Fresh, ![last].sibling_sector = lba]
           file == [NewFile(Head(todo)) EXCEPT !.parent = at, !.next = NULL]
           first(last) == [at |-> node[last].sector, what |-> Encode(linked(last)[last])]
           second == [at |-> lba, what |-> Encode(file)]
           before(last) == <<first(last), second>>
           all(last) == Add(linked(last), Fresh, file)
<1>3. PICK last \in Children(at) : WriteBoth(all(last), Fresh, before(last))
  BY DEF CreateAppend
<1>4. last \in DOMAIN node
  BY DEF Children
<1>5. file \in Nodes /\ file.parent = at /\ file.sector = lba
  <2>1. NewFile(Head(todo)) \in Nodes /\ NewFile(Head(todo)).sector = lba
    BY <1>1, NewName, NewFileNode DEF NewFile
  <2>2. at \in Pointers
    BY <1>1 DEF Tree, Pointers
  <2> QED BY <2>1, <2>2 DEF Nodes, Pointers
<1> DEFINE nd == linked(last)
<1>6. DOMAIN nd = DOMAIN node
  OBVIOUS
<1>7. ASSUME NEW j \in DOMAIN node
      PROVE  /\ nd[j] \in Nodes /\ nd[j].parent = node[j].parent
             /\ nd[j].type = node[j].type /\ nd[j].sector = node[j].sector
  <2>1. node[j] \in Nodes
    BY <1>1 DEF Tree
  <2> DEFINE c == [node[j] EXCEPT !.next = Fresh]
             d == [c EXCEPT !.sibling_sector = lba]
  <2>2. nd[j] = IF j = last THEN d ELSE node[j]
    BY <2>1 DEF Nodes
  <2>3. /\ c \in Nodes /\ c.parent = node[j].parent
        /\ c.type = node[j].type /\ c.sector = node[j].sector
    BY <1>2, <2>1 DEF Nodes
  <2>4. d \in Nodes /\ d.parent = c.parent /\ d.type = c.type /\ d.sector = c.sector
    <3> HIDE DEF c
    <3> QED BY <1>1, <2>3 DEF Nodes
  <2> HIDE DEF c, d, nd
  <2> QED BY <2>1, <2>2, <2>3, <2>4
<1> HIDE DEF file
<1>8. before(last) = <<first(last), second>> /\ all(last) = Add(nd, Fresh, file)
  OBVIOUS
<1> DEFINE bef == before(last)
           f == first(last)
           every == all(last)
<1>9. f = [at |-> node[last].sector, what |-> Encode(nd[last])]
  OBVIOUS
<1> HIDE DEF nd, linked
<1>10. Tree(nd) /\ Same(node, nd) /\ nd[last] \in Nodes /\ Fresh \notin DOMAIN nd
  BY <1>1, <1>2, <1>4, <1>6, <1>7, ChangeTree DEF Same
<1>11. /\ f \in Writes /\ f.what.sector = f.at /\ f.what # Junk
       /\ f.at = node[last].sector /\ f.what.type = node[last].type /\ IsNode(f.what)
  <2>1. node[last].sector \in Nat /\ node[last].sector >= 2
    BY <1>1, <1>4 DEF Tree, Nodes
  <2>2. [at |-> node[last].sector, what |-> Encode(nd[last])] \in Writes
    BY <1>10, <2>1, WriteBehind
  <2> HIDE DEF f
  <2> QED BY <1>4, <1>7, <1>9, <2>2 DEF Encode, Record, Junk, IsNode
<1>12. second \in Writes /\ second.what.sector = second.at /\ second.what # Junk /\ second.at = lba
  <2>1. second \in Writes
    BY <1>1, <1>5, WriteBehind
  <2> QED BY <1>5, <2>1 DEF Encode, Record, Junk
<1> HIDE DEF first, second, f
<1>13. bef = <<f, second>>
  BY <1>8 DEF f
<1> HIDE DEF bef, before
<1>14. /\ bef \in Seq(Writes) /\ Len(bef) = 2 /\ bef[1] = f /\ bef[2] = second
  BY <1>11, <1>12, <1>13
<1>15. \A k \in 1 .. Len(bef) : bef[k].what.sector = bef[k].at /\ bef[k].what # Junk
  BY <1>11, <1>12, <1>14
<1>16. Good => Folders(node) /\ node[at].type = "Folder" /\ node[root].type = "Folder"
  BY <1>1 DEF RInv, FoldersInv, Makers
<1>17. Good => \A k \in 1 .. Len(bef) : bef[k].at = 2 => IsFolder(bef[k].what) \/ lba = 2
  <2> SUFFICES ASSUME Good, NEW k \in 1 .. Len(bef), bef[k].at = 2
               PROVE  IsFolder(bef[k].what) \/ lba = 2
    OBVIOUS
  <2>1. CASE k = 1
    BY <1>4, <1>11, <1>14, <1>16, <2>1 DEF IsFolder, Folders
  <2>2. CASE k = 2
    BY <1>12, <1>14, <2>2
  <2> QED BY <1>14, <2>1, <2>2
<1>18. every = Add(nd, Fresh, file) /\ WriteBoth(every, Fresh, bef)
  BY <1>3, <1>8 DEF bef
<1> HIDE DEF every, all
<1>19. Tree(every) /\ DOMAIN every = DOMAIN node \cup {Fresh}
  <2>1. file.parent \in DOMAIN nd \cup {NULL, UNSET}
    BY <1>1, <1>5, <1>6
  <2>2. Tree(Add(nd, Fresh, file)) /\ DOMAIN Add(nd, Fresh, file) = DOMAIN nd \cup {Fresh}
    BY <1>2, <1>5, <1>10, <2>1, AddTree
  <2> QED BY <1>6, <1>18, <2>2
<1>20. ASSUME NEW j \in DOMAIN node PROVE every[j].type = node[j].type
  BY <1>2, <1>6, <1>7, <1>18, <1>20 DEF Add
<1>21. Good => FoldersBut(every, Fresh)
  <2> SUFFICES ASSUME Good PROVE FoldersBut(every, Fresh)
    OBVIOUS
  <2>1. Folders(nd)
    BY <1>1, <1>10, <1>16, SameFolders
  <2>2. file.parent \in DOMAIN nd /\ nd[file.parent].type = "Folder"
    BY <1>1, <1>5, <1>6, <1>7, <1>16
  <2>3. FoldersBut(Add(nd, Fresh, file), Fresh)
    BY <1>2, <1>10, <2>1, <2>2, AddBut
  <2> QED BY <1>18, <2>3
<1>22. Good => every[at].type = "Folder" /\ every[root].type = "Folder"
  BY <1>1, <1>16, <1>20
<1>23. /\ op # "format" /\ at \in DOMAIN every /\ Fresh \in DOMAIN every /\ Fresh # at
       /\ root \in DOMAIN every
  BY <1>1, <1>2, <1>19
<1> QED BY <1>1, <1>14, <1>15, <1>17, <1>18, <1>19, <1>21, <1>22, <1>23, WriteBothRoot

\* mdir writes its folder's record in place; of the junk it writes as well
\* nothing is promised.
LEMMA MdirRoot == ASSUME PInv, RInv, MdirFirst \/ MdirAppend PROVE RInv'
<1>1. /\ at \in DOMAIN node /\ Tree(node) /\ op = "mdir"
  BY DEF PInv, PlaceInv, MemoryInv, MdirFirst, MdirAppend
<1>2. PICK nd, i, g : /\ WriteUnset(nd, i, g)
                      /\ \/ i = at /\ nd = [node EXCEPT ![at].child = Fresh,
                                              ![at].has_children = TRUE, ![at].child_sector = g]
                         \/ /\ i \in DOMAIN node
                            /\ nd = [node EXCEPT ![i].next = Fresh, ![i].sibling_sector = g]
  <2>1. CASE MdirFirst
    BY <2>1 DEF MdirFirst
  <2>2. CASE MdirAppend
    BY <2>2 DEF MdirAppend, Children
  <2> QED BY <2>1, <2>2
<1> DEFINE first == [at |-> nd[i].sector, what |-> Encode(nd[i])]
           second == [at |-> g, what |-> Junk]
<1>3. /\ queue' = <<first, second>> /\ "stray" \in faults'
      /\ UNCHANGED <<disk, op>>
  BY <1>2 DEF WriteUnset
<1>4. first.what.sector = first.at /\ ~IsNode(second.what)
  BY DEF Encode, Record, IsNode, Junk
<1> HIDE DEF first, second
<1>5. ~Good'
  BY <1>3 DEF Good
<1>6. Len(queue') = 2 /\ queue'[1] = first /\ queue'[2] = second
  BY <1>3
<1>7. \A k \in 1 .. Len(queue') : IsNode(queue'[k].what) => queue'[k].what.sector = queue'[k].at
  <2> SUFFICES ASSUME NEW k \in 1 .. Len(queue'), IsNode(queue'[k].what)
               PROVE  queue'[k].what.sector = queue'[k].at
    OBVIOUS
  <2>1. k = 1 \/ k = 2
    BY <1>6
  <2> QED BY <1>4, <1>6, <2>1
<1>8. OwnInv'
  BY <1>3, <1>7 DEF RInv, OwnInv, RecordsInPlace
<1>9. FoldersInv' /\ FormatInv' /\ RootInv'
  BY <1>1, <1>3, <1>5 DEF FoldersInv, FormatInv, RootInv
<1> QED BY <1>8, <1>9 DEF RInv

-----------------------------------------------------------------------------
(* The theorems. *)

\* A disk that is put in is as this program writes disks, or blank.
LEMMA InitRInv == Init => RInv
<1> SUFFICES ASSUME Init PROVE RInv
  OBVIOUS
<1>1. /\ \A s \in 0 .. SECTORS - 1 : IsNode(disk[s]) => disk[s].sector = s
      /\ disk[1] = Super => IsFolder(disk[2])
  <2>1. disk \in Disks
    BY DEF Init
  <2> QED BY <2>1, DisksAssumption, Zenon
<1>2. Len(queue) = 0 /\ queue = <<>> /\ DOMAIN node = {} /\ root = NULL /\ pc = "idle" /\ at = NULL
  BY DEF Init
<1>3. OwnInv /\ FormatInv /\ RootInv
  BY <1>1, <1>2 DEF OwnInv, RecordsInPlace, FormatInv, RootInv, Formatted
<1>4. FoldersInv
  BY <1>2 DEF FoldersInv, Folders
<1> QED BY <1>3, <1>4 DEF RInv

\* Every step keeps the invariant.
LEMMA NextRInv == PInv /\ RInv /\ [Next]_vars => RInv'
<1> SUFFICES ASSUME PInv, RInv, [Next]_vars PROVE RInv'
  OBVIOUS
<1>1. CASE Format \/ WriteSector \/ Restart
  BY <1>1, FormatRoot, WriteRoot, RestartRoot
<1>2. CASE Mounting
  BY <1>2, MountRoot, ReadRootRoot, WildRoot DEF Mounting
<1>3. CASE Loading
  BY <1>3, LoadRoot, LoadFirstRoot, LoadNextRoot, WildRoot DEF Loading
<1>4. CASE Resolve
  BY <1>4, StartRoot, ResolveRoot, ResolveUpRoot, ListRoot, FindRoot, WildRoot DEF Resolve
<1>5. CASE Making
  BY <1>5, CreateFirstRoot, LooksRoot, CreateAppendRoot, MdirRoot, WildRoot DEF Making
<1>6. CASE UNCHANGED vars
  <2>1. /\ UNCHANGED <<disk, queue, faults>>
        /\ UNCHANGED <<node, root, op, at, pc>>
    BY <1>6 DEF vars, memory, control, history
  <2> QED BY <2>1 DEF RInv, OwnInv, RecordsInPlace, FoldersInv, Folders, FormatInv, RootInv,
                      Formatted, Good
<1> QED BY <1>1, <1>2, <1>3, <1>4, <1>5, <1>6 DEF Next

\* What the disk, the queue and the nodes in memory have in common, at every
\* step of every command.
THEOREM RootInductive == Spec => []RInv
  BY PfsInductive, InitRInv, NextRInv, PTL DEF Spec

\* Whatever commands run and whatever fails, every node on the disk says where
\* it is.
THEOREM RecordsStay == Spec => []RecordsInPlace
<1>1. RInv => RecordsInPlace
  BY DEF RInv, OwnInv
<1> QED BY <1>1, RootInductive, PTL

\* A disk with a superblock has a folder as its root, so that it can be mounted
\* again: however many files create has written, wherever lba was.
THEOREM RootStays == Spec => []RootSectorIsFolder
<1>1. RInv => RootSectorIsFolder
  <2> SUFFICES ASSUME RInv, disk[1] = Super, queue = <<>>, Good PROVE IsFolder(disk[2])
    BY DEF RootSectorIsFolder, Good
  <2>1. Len(queue) = 0
    OBVIOUS
  <2> QED BY <2>1 DEF RInv, RootInv, Formatted
<1> QED BY <1>1, RootInductive, PTL

-----------------------------------------------------------------------------
(* Lists.  What create has linked stays where it is: every pointer on the  *)
(* way to a file that was made is set, and what is set is never set anew,  *)
(* but for the first child of a folder whose list is loaded, and the list  *)
(* of a folder in which a file was made in sight of it is not.             *)

\* A set of naturals that is not empty has a least element.
LEMMA Least ==
  ASSUME NEW S, S \subseteq Nat, S # {}
  PROVE  \E m \in S : \A k \in S : m <= k
<1> DEFINE R == {ss \in Nat \X Nat : ss[1] < ss[2]}
<1>1. IsWellFoundedOn(R, Nat)
  BY NatLessThanWellFounded DEF OpToRel
<1> HIDE DEF R
<1>2. PICK m \in S : \A k \in S : ~(<<k, m>> \in R)
  BY <1>1, WFMin, Zenon
<1>3. \A k \in S : ~(k < m)
  BY <1>2 DEF R
<1> QED BY <1>3

\* f goes from a by the steps g[1], g[2], ...
Iterates(f, g, a, n) == f[0] = a /\ \A k \in 1 .. n : f[k] = g[k][f[k - 1]]

\* The function that a recursive definition over 0 .. n describes exists, when
\* its steps stay in a set.
LEMMA IterationExists ==
  ASSUME NEW D, NEW g \in [Nat -> [D -> D]], NEW a \in D, NEW n \in Nat
  PROVE  \E f \in [0 .. n -> D] : Iterates(f, g, a, n)
<1> DEFINE Bad == {m \in Nat : ~ \E f \in [0 .. m -> D] : Iterates(f, g, a, m)}
<1>1. SUFFICES ASSUME Bad # {} PROVE FALSE
  OBVIOUS
<1>2. PICK m \in Bad : \A k \in Bad : m <= k
  <2> HIDE DEF Bad
  <2>1. Bad \subseteq Nat
    BY DEF Bad
  <2> QED BY <1>1, <2>1, Least
<1>3. m # 0
  <2>1. [k \in 0 .. 0 |-> a] \in [0 .. 0 -> D] /\ Iterates([k \in 0 .. 0 |-> a], g, a, 0)
    BY DEF Iterates
  <2> QED BY <2>1
<1>4. m - 1 \in Nat /\ m - 1 \notin Bad
  <2>1. m \in Nat
    OBVIOUS
  <2> HIDE DEF Bad
  <2> QED BY <1>2, <1>3, <2>1
<1>5. PICK f \in [0 .. m - 1 -> D] : Iterates(f, g, a, m - 1)
  BY <1>4
<1> DEFINE h == [k \in 0 .. m |-> IF k = m THEN g[m][f[m - 1]] ELSE f[k]]
<1>6. h \in [0 .. m -> D]
  <2>1. m - 1 \in 0 .. m - 1 /\ m \in Nat
    BY <1>4
  <2>2. g[m][f[m - 1]] \in D
    BY <2>1
  <2>3. \A k \in 0 .. m : k # m => k \in 0 .. m - 1
    BY <2>1
  <2> QED BY <2>2, <2>3
<1>7. Iterates(h, g, a, m)
  <2>1. h[0] = a
    BY <1>3, <1>4, <1>5 DEF Iterates
  <2>2. ASSUME NEW k \in 1 .. m PROVE h[k] = g[k][h[k - 1]]
    <3>1. m \in Nat /\ k - 1 \in 0 .. m /\ k - 1 # m /\ h[k - 1] = f[k - 1]
      BY <1>4
    <3>2. CASE k = m
      BY <3>1, <3>2
    <3>3. CASE k # m
      <4>1. k \in 1 .. m - 1 /\ k \in 0 .. m /\ h[k] = f[k]
        BY <3>1, <3>3
      <4> QED BY <3>1, <4>1, <1>5 DEF Iterates
    <3> QED BY <3>2, <3>3
  <2> HIDE DEF h
  <2> QED BY <2>1, <2>2 DEF Iterates
<1> QED
  <2> HIDE DEF h
  <2> QED BY <1>6, <1>7

\* Chain, of any nodes.
List(nd, d) ==
  LET f[k \in 0 .. NODES] ==
        IF k = 0 THEN nd[d].child
        ELSE IF f[k - 1] \in DOMAIN nd THEN nd[f[k - 1]].next ELSE NULL
  IN  f

\* Its positions follow the pointers.
LEMMA ListSteps ==
  ASSUME NEW nd, NEW d
  PROVE  /\ List(nd, d)[0] = nd[d].child
         /\ \A k \in 1 .. NODES :
              List(nd, d)[k] = IF List(nd, d)[k - 1] \in DOMAIN nd
                               THEN nd[List(nd, d)[k - 1]].next ELSE NULL
<1> DEFINE D == {nd[d].child, NULL} \cup {nd[i].next : i \in DOMAIN nd}
           step == [i \in D |-> IF i \in DOMAIN nd THEN nd[i].next ELSE NULL]
           g == [k \in Nat |-> step]
           Follow(f) ==
             [k \in 0 .. NODES |->
                IF k = 0 THEN nd[d].child
                ELSE IF f[k - 1] \in DOMAIN nd THEN nd[f[k - 1]].next ELSE NULL]
<1>1. NODES \in Nat
  BY Constants
<1>2. g \in [Nat -> [D -> D]]
  OBVIOUS
<1>3. PICK h \in [0 .. NODES -> D] : Iterates(h, g, nd[d].child, NODES)
  <2> HIDE DEF g
  <2>1. nd[d].child \in D
    OBVIOUS
  <2> HIDE DEF D
  <2> QED BY <1>1, <1>2, <2>1, IterationExists
<1>4. ASSUME NEW k \in 0 .. NODES, k # 0
      PROVE  /\ k - 1 \in 0 .. NODES /\ k \in 1 .. NODES
             /\ h[k] = IF h[k - 1] \in DOMAIN nd THEN nd[h[k - 1]].next ELSE NULL
  <2>1. k - 1 \in 0 .. NODES /\ k \in 1 .. NODES /\ k \in Nat
    BY <1>1, <1>4
  <2>2. h[k - 1] \in D
    <3> HIDE DEF D
    <3> QED BY <2>1
  <2>3. h[k] = g[k][h[k - 1]]
    <3> HIDE DEF g, D
    <3> QED BY <1>3, <2>1 DEF Iterates
  <2>4. g[k][h[k - 1]] = step[h[k - 1]]
    <3> HIDE DEF step, D
    <3> QED BY <2>1
  <2>5. step[h[k - 1]] = IF h[k - 1] \in DOMAIN nd THEN nd[h[k - 1]].next ELSE NULL
    <3> HIDE DEF D
    <3> QED BY <2>2
  <2> QED BY <2>1, <2>3, <2>4, <2>5
<1>5. h = Follow(h)
  <2>1. h[0] = nd[d].child
    BY <1>3 DEF Iterates
  <2>2. \A k \in 0 .. NODES : h[k] = Follow(h)[k]
    BY <1>4, <2>1
  <2>3. h = [k \in 0 .. NODES |-> h[k]]
    BY <1>3
  <2> QED BY <2>2, <2>3
<1>6. \E f : f = Follow(f)
  BY <1>5
<1>7. List(nd, d) = CHOOSE f : f = Follow(f)
  BY DEF List
<1> HIDE DEF D, step, g
<1>8. List(nd, d) = Follow(List(nd, d))
  <2> HIDE DEF Follow
  <2> QED BY <1>6, <1>7
<1>9. 0 \in 0 .. NODES
  BY <1>1
<1>10. List(nd, d)[0] = nd[d].child
  BY <1>8, <1>9
<1>11. ASSUME NEW k \in 1 .. NODES
       PROVE  List(nd, d)[k] = IF List(nd, d)[k - 1] \in DOMAIN nd
                               THEN nd[List(nd, d)[k - 1]].next ELSE NULL
  <2>1. k \in 0 .. NODES /\ k # 0
    BY <1>1
  <2> QED BY <1>8, <2>1
<1> QED BY <1>10, <1>11

\* What comes before a node of a list are nodes.
LEMMA ListBefore ==
  ASSUME NEW nd, NULL \notin DOMAIN nd, NEW d, NEW k \in 0 .. NODES, List(nd, d)[k] \in DOMAIN nd,
         NEW j \in 0 .. k
  PROVE  List(nd, d)[j] \in DOMAIN nd
<1> DEFINE Bad == {m \in 0 .. k : List(nd, d)[k - m] \notin DOMAIN nd}
<1>1. NODES \in Nat /\ k \in Nat /\ k <= NODES
  BY Constants
<1>2. ASSUME Bad # {} PROVE FALSE
  <2>1. PICK m \in Bad : \A n \in Bad : m <= n
    <3>1. Bad \subseteq Nat
      BY <1>1
    <3> HIDE DEF Bad
    <3> QED BY <1>2, <3>1, Least
  <2>2. m \in 0 .. k /\ List(nd, d)[k - m] \notin DOMAIN nd
    OBVIOUS
  <2>3. m # 0
    BY <1>1, <2>2
  <2>4. m - 1 \in 0 .. k /\ ~(m <= m - 1)
    BY <1>1, <2>2, <2>3
  <2>5. List(nd, d)[k - (m - 1)] \in DOMAIN nd
    BY <2>1, <2>4
  <2>6. k - (m - 1) \in 1 .. NODES /\ k - (m - 1) - 1 = k - m
    BY <1>1, <2>2, <2>3
  <2>7. List(nd, d)[k - (m - 1)] = NULL
    BY <2>2, <2>6, ListSteps
  <2> QED BY <2>5, <2>7
<1>3. k - j \in 0 .. k /\ k - (k - j) = j
  BY <1>1
<1> QED BY <1>2, <1>3

\* Only pointers to no node are set anew in g, and no names.
Grows(nd, g) ==
  /\ DOMAIN nd \subseteq DOMAIN g
  /\ \A i \in DOMAIN nd : /\ g[i].name = nd[i].name
                          /\ nd[i].next \in DOMAIN nd => g[i].next = nd[i].next

\* The beginning of a list stays.
LEMMA ListGrows ==
  ASSUME NEW nd, NULL \notin DOMAIN nd, NEW g, Grows(nd, g), NEW d,
         nd[d].child \in DOMAIN nd => g[d].child = nd[d].child,
         NEW k \in 0 .. NODES, List(nd, d)[k] \in DOMAIN nd
  PROVE  List(g, d)[k] = List(nd, d)[k]
<1> DEFINE Bad == {m \in 0 .. k : List(g, d)[m] # List(nd, d)[m]}
<1>1. NODES \in Nat /\ k \in Nat /\ k <= NODES
  BY Constants
<1>2. ASSUME Bad # {} PROVE FALSE
  <2>1. PICK m \in Bad : \A n \in Bad : m <= n
    <3>1. Bad \subseteq Nat
      BY <1>1
    <3> HIDE DEF Bad
    <3> QED BY <1>2, <3>1, Least
  <2>2. m \in 0 .. k /\ List(g, d)[m] # List(nd, d)[m] /\ List(nd, d)[m] \in DOMAIN nd
    BY ListBefore
  <2>3. m # 0
    <3>1. ASSUME m = 0 PROVE FALSE
      <4>1. List(nd, d)[0] \in DOMAIN nd /\ List(g, d)[0] # List(nd, d)[0]
        BY <2>2, <3>1
      <4> QED BY <4>1, ListSteps
    <3> QED BY <3>1
  <2>4. m - 1 \in 0 .. k /\ ~(m <= m - 1) /\ m \in 1 .. NODES
    BY <1>1, <2>2, <2>3
  <2>5. PICK i : i = List(nd, d)[m - 1]
    OBVIOUS
  <2>6. List(g, d)[m - 1] = i /\ i \in DOMAIN nd
    BY <2>1, <2>4, <2>5, ListBefore
  <2>7. List(nd, d)[m] = nd[i].next
    BY <2>4, <2>5, <2>6, ListSteps
  <2>8. List(g, d)[m] = g[i].next
    BY <2>4, <2>6, ListSteps DEF Grows
  <2> QED BY <2>2, <2>6, <2>7, <2>8 DEF Grows
<1>3. k \in 0 .. k
  BY <1>1
<1> QED BY <1>2, <1>3

\* A list with an end does not meet itself, so it ends at one of the positions
\* that Chain knows.
LEMMA ListEnds ==
  ASSUME NEW nd, DOMAIN nd \subseteq Ids, NEW d, NEW k \in 0 .. NODES,
         List(nd, d)[k] \in DOMAIN nd, nd[List(nd, d)[k]].next = NULL
  PROVE  k + 1 \in 1 .. NODES
<1>1. NODES \in Nat /\ k \in Nat /\ NULL \notin DOMAIN nd
  BY Constants DEF Ids, NULL
<1> SUFFICES ASSUME k = NODES PROVE FALSE
  BY <1>1
<1>2. PICK f : f = [j \in 0 .. NODES |-> List(nd, d)[j]]
  OBVIOUS
<1>3. ASSUME NEW j \in 0 .. NODES
      PROVE  List(nd, d)[j] \in DOMAIN nd /\ List(nd, d)[j] \in Ids
  <2>1. j \in 0 .. k
    OBVIOUS
  <2>2. List(nd, d)[j] \in DOMAIN nd
    BY <1>1, <2>1, ListBefore
  <2> QED BY <2>2
<1>4. PICK x, y \in 0 .. NODES : x # y /\ f[x] = f[y]
  <2>1. f \in [0 .. NODES -> 1 .. NODES]
    BY <1>2, <1>3 DEF Ids
  <2>2. /\ IsFiniteSet(0 .. NODES) /\ IsFiniteSet(1 .. NODES)
        /\ Cardinality(0 .. NODES) = NODES + 1 /\ Cardinality(1 .. NODES) = NODES
    BY <1>1, FS_Interval
  <2>3. Cardinality(1 .. NODES) < Cardinality(0 .. NODES)
    BY <1>1, <2>2
  <2> QED BY <2>1, <2>2, <2>3, FS_PigeonHole
<1>5. PICK a, b \in 0 .. NODES : a < b /\ List(nd, d)[a] = List(nd, d)[b]
  <2>1. List(nd, d)[x] = List(nd, d)[y] /\ x \in Nat /\ y \in Nat
    BY <1>1, <1>2, <1>4
  <2>2. CASE x < y
    BY <2>1, <2>2
  <2>3. CASE y < x
    BY <2>1, <2>3
  <2> QED BY <1>4, <2>1, <2>2, <2>3
<1>6. a \in Nat /\ b \in Nat /\ b <= NODES
  BY <1>1
<1> DEFINE Bad == {t \in 0 .. NODES - b : List(nd, d)[a + t] # List(nd, d)[b + t]}
<1>7. ASSUME Bad # {} PROVE FALSE
  <2>1. PICK t \in Bad : \A n \in Bad : t <= n
    <3>1. Bad \subseteq Nat
      BY <1>6
    <3> HIDE DEF Bad
    <3> QED BY <1>7, <3>1, Least
  <2>2. t \in 0 .. NODES - b /\ List(nd, d)[a + t] # List(nd, d)[b + t]
    OBVIOUS
  <2>3. t # 0
    BY <1>5, <1>6, <2>2
  <2>4. t - 1 \in 0 .. NODES - b /\ ~(t <= t - 1)
    BY <1>1, <1>6, <2>2, <2>3
  <2>5. List(nd, d)[a + (t - 1)] = List(nd, d)[b + (t - 1)]
    BY <2>1, <2>4
  <2>6. /\ a + t \in 1 .. NODES /\ b + t \in 1 .. NODES
        /\ a + t - 1 = a + (t - 1) /\ b + t - 1 = b + (t - 1)
    BY <1>1, <1>5, <1>6, <2>2, <2>3
  <2>7. List(nd, d)[a + t] = List(nd, d)[b + t]
    BY <2>5, <2>6, ListSteps
  <2> QED BY <2>2, <2>7
<1>8. NODES - b \in 0 .. NODES - b /\ b + (NODES - b) = NODES
  BY <1>1, <1>6
<1>9. List(nd, d)[a + (NODES - b)] = List(nd, d)[NODES]
  BY <1>7, <1>8
<1>10. /\ a + (NODES - b) + 1 \in 1 .. NODES
       /\ a + (NODES - b) + 1 - 1 = a + (NODES - b)
  BY <1>1, <1>5, <1>6
<1>11. List(nd, d)[a + (NODES - b) + 1] = NULL
  BY <1>9, <1>10, ListSteps
<1>12. List(nd, d)[a + (NODES - b) + 1] \in DOMAIN nd
  BY <1>1, <1>3, <1>10
<1> QED BY <1>1, <1>11, <1>12

-----------------------------------------------------------------------------
(* The invariant. *)

\* No load will replace d's list.
InMemory(nd, d) == nd[d].loaded = "yes" \/ ~nd[d].has_children

\* No node before i in the list of d has the name of i.
FoundIn(nd, d, i) ==
  \E k \in 0 .. NODES :
    /\ List(nd, d)[k] = i
    /\ \A j \in 0 .. k - 1 :
         List(nd, d)[j] \in DOMAIN nd /\ nd[List(nd, d)[j]].name # nd[i].name

MadeOk(nd, files) ==
  \A m \in files : /\ m[1] \in DOMAIN nd /\ m[2] \in DOMAIN nd
                   /\ InMemory(nd, m[1]) /\ FoundIn(nd, m[1], m[2])

\* create appends to a list in which the name was not found; a load appends to
\* the node decoded last, and only mdir goes from a load to its append.
FoundInv ==
  /\ MadeOk(node, made)
  /\ pc = "chain" => node[tail].next = UNSET
  /\ pc = "append" /\ op = "create" =>
       \A k \in 0 .. NODES :
         List(node, at)[k] \in DOMAIN node => node[List(node, at)[k]].name # Head(todo)
  /\ pc \in {"idle", "super", "root", "write"} => goal = "idle"
  /\ goal = "append" => op = "mdir"

\* A folder that has a list in memory, for good, keeps its first child.
FirstKept(nd, g) ==
  \A i \in DOMAIN nd :
    InMemory(nd, i) /\ nd[i].child \in DOMAIN nd =>
      g[i].child = nd[i].child /\ InMemory(g, i)

\* What was made is found in nodes that grow.
LEMMA MadeGrows ==
  ASSUME NEW nd, NULL \notin DOMAIN nd, NEW g, Grows(nd, g), FirstKept(nd, g),
         NEW files, MadeOk(nd, files)
  PROVE  MadeOk(g, files)
<1> SUFFICES ASSUME NEW m \in files
             PROVE  /\ m[1] \in DOMAIN g /\ m[2] \in DOMAIN g
                    /\ InMemory(g, m[1]) /\ FoundIn(g, m[1], m[2])
  BY DEF MadeOk
<1>1. PICK d, i : d = m[1] /\ i = m[2]
  OBVIOUS
<1>2. d \in DOMAIN nd /\ i \in DOMAIN nd /\ InMemory(nd, d) /\ FoundIn(nd, d, i)
  BY <1>1 DEF MadeOk
<1>3. PICK k \in 0 .. NODES :
        /\ List(nd, d)[k] = i
        /\ \A j \in 0 .. k - 1 :
             List(nd, d)[j] \in DOMAIN nd /\ nd[List(nd, d)[j]].name # nd[i].name
  BY <1>2 DEF FoundIn
<1>4. NODES \in Nat /\ k \in Nat /\ 0 \in 0 .. k
  BY Constants
<1>5. List(nd, d)[0] \in DOMAIN nd
  BY <1>2, <1>3, <1>4, ListBefore
<1>6. nd[d].child \in DOMAIN nd
  BY <1>5, ListSteps
<1>7. g[d].child = nd[d].child /\ InMemory(g, d)
  BY <1>2, <1>6 DEF FirstKept
<1>8. List(g, d)[k] = i
  BY <1>2, <1>3, <1>7, ListGrows
<1>9. ASSUME NEW j \in 0 .. k - 1
      PROVE  List(g, d)[j] \in DOMAIN g /\ g[List(g, d)[j]].name # g[i].name
  <2>1. j \in 0 .. NODES
    BY <1>4
  <2>2. PICK x : x = List(nd, d)[j]
    OBVIOUS
  <2>3. x \in DOMAIN nd /\ nd[x].name # nd[i].name
    BY <1>3, <2>2
  <2>4. List(g, d)[j] = x
    BY <1>7, <2>1, <2>2, <2>3, ListGrows
  <2> QED BY <1>2, <2>3, <2>4 DEF Grows
<1>10. FoundIn(g, d, i)
  BY <1>8, <1>9 DEF FoundIn
<1> QED BY <1>1, <1>2, <1>7, <1>10 DEF Grows

\* A step that makes no file.
LEMMA FoundKeeps ==
  ASSUME PInv, FoundInv, Grows(node, node'), FirstKept(node, node'),
         made' \subseteq made, pc' = "chain" => node'[tail'].next = UNSET,
         pc' = "append" => op' # "create",
         pc' \in {"idle", "super", "root", "write"} => goal' = "idle",
         goal' = "append" => op' = "mdir"
  PROVE  FoundInv'
<1>1. NULL \notin DOMAIN node
  BY NullOut DEF PInv, MemoryInv
<1>2. MadeOk(node, made')
  BY DEF FoundInv, MadeOk
<1>3. MadeOk(node', made')
  BY <1>1, <1>2, MadeGrows
<1> QED BY <1>3 DEF FoundInv

\* A step that forgets the nodes.
LEMMA FoundForgets ==
  ASSUME made' = {}, pc' \in {"idle", "write"}, goal' = "idle"
  PROVE  FoundInv'
<1>1. MadeOk(node', made')
  BY DEF MadeOk
<1> QED BY <1>1 DEF FoundInv

\* A step that leaves the nodes.
LEMMA FoundStays ==
  ASSUME PInv, FoundInv, UNCHANGED <<node, made>>, pc' \notin {"chain", "append"},
         pc' \in {"idle", "super", "root", "write"} => goal' = "idle",
         goal' = "append" => op' = "mdir"
  PROVE  FoundInv'
<1>1. Grows(node, node') /\ FirstKept(node, node')
  BY DEF Grows, FirstKept, InMemory
<1> QED BY <1>1, FoundKeeps

-----------------------------------------------------------------------------
(* Steps that make no file. *)

\* Where the nodes are forgotten, so is what was made.
LEMMA ForgetFound ==
  ASSUME \/ Format \/ Restart \/ ReadRootWild \/ ReadRootFails
         \/ LoadFirstWild \/ LoadFirstFails \/ LoadNextWild
         \/ ResolveUpWild \/ (AtComponent /\ GoWild)
         \/ ListFolderWild \/ FindWild
         \/ CreateWild \/ AppendWild \/ MdirWild
  PROVE  FoundInv'
<1>1. Format \/ Restart \/ Strays
  BY DEF ReadRootWild, ReadRootFails, LoadFirstWild, LoadFirstFails, LoadNextWild,
         ResolveUpWild, ListFolderWild, FindWild, CreateWild, AppendWild, MdirWild,
         GoWild, StrayRead
<1>2. made' = {} /\ pc' \in {"idle", "write"} /\ goal' = "idle"
  BY <1>1 DEF Format, Restart, Strays, Writing, Over
<1> QED BY <1>2, FoundForgets

\* The disk is written and read, and the command begins.
LEMMA WriteFound ==
  ASSUME PInv, FoundInv,
         WriteSector \/ MountWithoutBuffer \/ Mount \/ ReadSuper \/ ReadSuperFails \/ Open \/ Ls \/ Create \/ Mdir
  PROVE  FoundInv'
<1>1. UNCHANGED <<node, made, goal>>
  BY DEF WriteSector, MountWithoutBuffer, Mount, ReadSuper, ReadSuperFails, Open, Ls, Create, Mdir, Start,
         memory, history
<1>2. pc \in {"idle", "super", "write"}
  BY DEF PInv, QueueInv, WriteSector, MountWithoutBuffer, Mount, ReadSuper, ReadSuperFails, Open, Ls, Create, Mdir,
         Start, Idle
<1>3. goal = "idle"
  BY <1>2 DEF FoundInv
<1>4. pc' \in {"idle", "super", "root", "write", "resolve"}
  BY <1>2 DEF WriteSector, MountWithoutBuffer, Mount, ReadSuper, ReadSuperFails, Open, Ls, Create, Mdir, Start
<1> QED BY <1>1, <1>3, <1>4, FoundStays

\* Steps on the way along a path that leave the nodes.
LEMMA ResolveFound ==
  ASSUME PInv, FoundInv,
         \/ ResolveEnds \/ ResolveHere \/ ResolveName \/ NoParent \/ FindHit \/ MdirLoads
         \/ (AtComponent /\ Return /\ UNCHANGED <<memory, faults>>)
  PROVE  FoundInv'
<1>1. UNCHANGED <<node, made, op>>
  BY DEF ResolveEnds, ResolveHere, ResolveName, NoParent, FindHit, MdirLoads, Return, Step,
         memory, history
<1>2. /\ pc' \in {"idle", "resolve", "load"}
      /\ pc' = "idle" => goal' = "idle"
      /\ goal' \in {"idle", "find", goal} \/ (goal' = "append" /\ op = "mdir")
  BY DEF ResolveEnds, ResolveHere, ResolveName, NoParent, FindHit, MdirLoads, AtMdir, Return,
         Over, Step
<1>3. goal' = "append" => op' = "mdir"
  BY <1>1, <1>2 DEF FoundInv
<1> QED BY <1>1, <1>2, <1>3, FoundStays

\* Of the nodes there were only i changes, and in it no pointer to a node.
OnlyGrows(nd, g, i) ==
  /\ DOMAIN nd \subseteq DOMAIN g /\ i \in DOMAIN nd
  /\ \A j \in DOMAIN nd : j # i => g[j] = nd[j]
  /\ g[i].name = nd[i].name
  /\ nd[i].next \in DOMAIN nd => g[i].next = nd[i].next
  /\ InMemory(nd, i) /\ nd[i].child \in DOMAIN nd =>
       g[i].child = nd[i].child /\ InMemory(g, i)

\* That lets the nodes grow.
LEMMA OneGrows ==
  ASSUME NEW nd, NEW g, NEW i, OnlyGrows(nd, g, i)
  PROVE  Grows(nd, g) /\ FirstKept(nd, g)
<1>1. Grows(nd, g)
  BY DEF Grows, OnlyGrows
<1>2. ASSUME NEW j \in DOMAIN nd, InMemory(nd, j), nd[j].child \in DOMAIN nd
      PROVE  g[j].child = nd[j].child /\ InMemory(g, j)
  BY <1>2 DEF InMemory, OnlyGrows
<1> QED BY <1>1, <1>2 DEF FirstKept

\* A parent that is not in memory is read as null.
LEMMA ResolveUpFound == ASSUME PInv, FoundInv, ResolveUp PROVE FoundInv'
<1>1. at \in DOMAIN node /\ node[at] \in Nodes
  BY DEF PInv, PlaceInv, MemoryInv, Tree, ResolveUp
<1>2. /\ node' \in {node, [node EXCEPT ![at].parent = NULL]}
      /\ UNCHANGED <<made, op, goal>> /\ pc' = "resolve"
  BY DEF ResolveUp, Step, history
<1>3. Grows(node, node') /\ FirstKept(node, node')
  <2>1. CASE node' = node
    BY <2>1 DEF Grows, FirstKept, InMemory
  <2>2. CASE node' = [node EXCEPT ![at].parent = NULL]
    <3>1. /\ DOMAIN node' = DOMAIN node
          /\ \A j \in DOMAIN node : j # at => node'[j] = node[j]
          /\ node'[at] = [node[at] EXCEPT !.parent = NULL]
      BY <1>1, <2>2
    <3>2. /\ node'[at].name = node[at].name /\ node'[at].next = node[at].next
          /\ node'[at].child = node[at].child /\ node'[at].loaded = node[at].loaded
          /\ node'[at].has_children = node[at].has_children
      BY <1>1, <3>1 DEF Nodes
    <3>3. InMemory(node, at) => InMemory(node', at)
      BY <3>2 DEF InMemory
    <3>4. OnlyGrows(node, node', at)
      BY <1>1, <3>1, <3>2, <3>3 DEF OnlyGrows
    <3> QED BY <3>4, OneGrows
  <2> QED BY <1>2, <2>1, <2>2
<1>4. goal' = "append" => op' = "mdir"
  BY <1>2 DEF FoundInv
<1> QED BY <1>2, <1>3, <1>4, FoundKeeps

\* A load that is over goes where it was to go.
LEMMA LoadReturnFound ==
  ASSUME PInv, FoundInv, pc \in {"load", "chain"}, LoadReturns,
         Grows(node, node'), FirstKept(node, node')
  PROVE  FoundInv'
<1>1. UNCHANGED <<made, op>>
  BY DEF LoadReturns, history
<1>2. /\ (pc' = "idle" /\ goal' = "idle") \/ (pc' = goal /\ goal' = goal /\ goal # "idle")
      /\ goal \in {"idle", "find", "append"}
  BY DEF LoadReturns, Over, PInv, PlaceInv
<1>3. pc' # "chain" /\ (pc' = "append" => op' # "create") /\ (goal' = "append" => op' = "mdir")
  BY <1>1, <1>2 DEF FoundInv
<1>4. pc' \in {"idle", "super", "root", "write"} => goal' = "idle"
  BY <1>2
<1> QED BY <1>1, <1>3, <1>4, FoundKeeps

\* The folder's list is there, or is taken to be, or it is not and stays away.
LEMMA LoadedFound ==
  ASSUME PInv, FoundInv, LoadSkipped \/ LoadWithoutBuffer \/ LoadDone
  PROVE  FoundInv'
<1>1. at \in DOMAIN node /\ node[at] \in Nodes
  BY DEF PInv, PlaceInv, MemoryInv, Tree, LoadSkipped, LoadWithoutBuffer, MustLoad, LoadDone
<1>2. PICK b : /\ node' = [node EXCEPT ![at].loaded = b]
               /\ b = "yes" \/ ~node[at].has_children \/ ~InMemory(node, at)
  BY DEF LoadSkipped, LoadWithoutBuffer, MustLoad, LoadedByte, InMemory, LoadDone
<1>3. /\ DOMAIN node' = DOMAIN node
      /\ \A j \in DOMAIN node : j # at => node'[j] = node[j]
      /\ node'[at] = [node[at] EXCEPT !.loaded = b]
  BY <1>1, <1>2
<1>4. /\ node'[at].name = node[at].name /\ node'[at].next = node[at].next
      /\ node'[at].child = node[at].child /\ node'[at].loaded = b
      /\ node'[at].has_children = node[at].has_children
  BY <1>1, <1>3 DEF Nodes
<1>5. InMemory(node, at) => InMemory(node', at)
  BY <1>2, <1>4 DEF InMemory
<1>6. Grows(node, node') /\ FirstKept(node, node')
  <2>1. OnlyGrows(node, node', at)
    BY <1>1, <1>3, <1>4, <1>5 DEF OnlyGrows
  <2> QED BY <2>1, OneGrows
<1>7. pc \in {"load", "chain"} /\ LoadReturns
  BY DEF LoadSkipped, LoadWithoutBuffer, MustLoad, LoadDone
<1> QED BY <1>6, <1>7, LoadReturnFound

\* The root is decoded into an empty memory.
LEMMA ReadRootFound == ASSUME PInv, FoundInv, ReadRoot PROVE FoundInv'
<1>1. DOMAIN node = {}
  BY DEF PInv, MemoryInv, ReadRoot
<1>2. Grows(node, node') /\ FirstKept(node, node')
  BY <1>1 DEF Grows, FirstKept
<1>3. UNCHANGED made /\ pc' = "load" /\ goal' = "idle"
  BY DEF ReadRoot, history
<1> QED BY <1>2, <1>3, FoundKeeps

\* Only the list of a folder that is not in memory gets a new first child.
LEMMA LoadFirstFound == ASSUME PInv, FoundInv, LoadFirst PROVE FoundInv'
<1>1. at \in DOMAIN node /\ node[at] \in Nodes /\ Tree(node) /\ Room
  BY DEF PInv, PlaceInv, MemoryInv, Tree, LoadFirst, MustLoad
<1>2. Fresh \notin DOMAIN node
  BY <1>1, FreshFree
<1>3. ~InMemory(node, at)
  BY DEF LoadFirst, MustLoad, LoadedByte, InMemory
<1>4. PICK r : node' = Add([node EXCEPT ![at].loaded = "no", ![at].child = Fresh],
                           Fresh, Decode(r))
  BY DEF LoadFirst
<1>5. /\ DOMAIN node' = DOMAIN node \cup {Fresh} /\ node'[Fresh] = Decode(r)
      /\ \A j \in DOMAIN node : j # at => node'[j] = node[j]
      /\ node'[at] = [[node[at] EXCEPT !.loaded = "no"] EXCEPT !.child = Fresh]
  BY <1>1, <1>2, <1>4 DEF Add
<1>6. node'[at].name = node[at].name /\ node'[at].next = node[at].next
  BY <1>1, <1>5 DEF Nodes
<1>7. Grows(node, node') /\ FirstKept(node, node')
  <2>1. OnlyGrows(node, node', at)
    BY <1>1, <1>3, <1>5, <1>6 DEF OnlyGrows
  <2> QED BY <2>1, OneGrows
<1>8. node'[tail'].next = UNSET /\ pc' = "chain" /\ UNCHANGED <<made, op, goal>>
  <2>1. tail' = Fresh /\ pc' = "chain" /\ UNCHANGED <<made, op, goal>>
    BY DEF LoadFirst, history
  <2>2. Decode(r).next = UNSET
    BY DEF Decode
  <2> QED BY <1>5, <2>1, <2>2
<1>9. goal' = "append" => op' = "mdir"
  BY <1>8 DEF FoundInv
<1> QED BY <1>7, <1>8, <1>9, FoundKeeps

\* What is decoded goes behind a node that has none behind it.
LEMMA LoadNextFound == ASSUME PInv, FoundInv, LoadNext \/ LoadNextFails PROVE FoundInv'
<1>1. pc = "chain" /\ Room /\ tail \in DOMAIN node /\ node[tail] \in Nodes /\ Tree(node)
  BY DEF PInv, PlaceInv, MemoryInv, Tree, LoadNext, LoadNextFails
<1>2. Fresh \notin DOMAIN node /\ UNSET \notin DOMAIN node
  BY <1>1, FreshFree, NullOut
<1>3. node[tail].next = UNSET
  BY <1>1 DEF FoundInv
<1>4. PICK r : LoadAfter(r)
  BY DEF LoadNext, LoadNextFails
<1>5. node' = Add([node EXCEPT ![tail].next = Fresh], Fresh, Decode(r))
  BY <1>4 DEF LoadAfter
<1>6. /\ DOMAIN node' = DOMAIN node \cup {Fresh} /\ node'[Fresh] = Decode(r)
      /\ \A j \in DOMAIN node : j # tail => node'[j] = node[j]
      /\ node'[tail] = [node[tail] EXCEPT !.next = Fresh]
  BY <1>1, <1>2, <1>5 DEF Add
<1>7. /\ node'[tail].name = node[tail].name /\ node'[tail].child = node[tail].child
      /\ node'[tail].loaded = node[tail].loaded
      /\ node'[tail].has_children = node[tail].has_children
  BY <1>1, <1>6 DEF Nodes
<1>8. InMemory(node, tail) => InMemory(node', tail)
  BY <1>7 DEF InMemory
<1>9. Grows(node, node') /\ FirstKept(node, node')
  <2>1. OnlyGrows(node, node', tail)
    BY <1>1, <1>2, <1>3, <1>6, <1>7, <1>8 DEF OnlyGrows
  <2> QED BY <2>1, OneGrows
<1>10. node'[tail'].next = UNSET /\ UNCHANGED <<pc, made, op, goal>>
  BY <1>4, <1>6 DEF LoadAfter, Decode
<1>11. goal' = "append" => op' = "mdir"
  BY <1>10 DEF FoundInv
<1> QED BY <1>1, <1>9, <1>10, <1>11, FoundKeeps

\* Walking along a list settles pointers that were never set; those to nodes are
\* the same before and after.
LEMMA SettledGrows ==
  ASSUME Tree(node), NEW d \in DOMAIN node
  PROVE  /\ DOMAIN Settled(d) = DOMAIN node
         /\ \A j \in DOMAIN node : Settled(d)[j].name = node[j].name
         /\ Grows(node, Settled(d)) /\ FirstKept(node, Settled(d))
         /\ Grows(Settled(d), node)
         /\ Settled(d)[d].child \in DOMAIN node => node[d].child = Settled(d)[d].child
<1>1. DOMAIN Settled(d) = DOMAIN node
  BY DEF Settled
<1>2. NULL \notin DOMAIN node /\ UNSET \notin DOMAIN node
  BY NullOut
<1>3. ASSUME NEW j \in DOMAIN node
      PROVE  /\ Settled(d)[j].name = node[j].name
             /\ Settled(d)[j].loaded = node[j].loaded
             /\ Settled(d)[j].has_children = node[j].has_children
             /\ Settled(d)[j].next \in DOMAIN node \/ node[j].next \in DOMAIN node =>
                  Settled(d)[j].next = node[j].next
             /\ Settled(d)[j].child \in DOMAIN node \/ node[j].child \in DOMAIN node =>
                  Settled(d)[j].child = node[j].child
  <2>1. node[j] \in Nodes
    BY DEF Tree
  <2>2. \/ Settled(d)[j] = node[j]
        \/ node[j].child = UNSET /\ Settled(d)[j] = [node[j] EXCEPT !.child = NULL]
        \/ node[j].next = UNSET /\ Settled(d)[j] = [node[j] EXCEPT !.next = NULL]
    BY DEF Settled
  <2>3. CASE Settled(d)[j] = node[j]
    BY <2>3
  <2>4. CASE node[j].child = UNSET /\ Settled(d)[j] = [node[j] EXCEPT !.child = NULL]
    <3>1. /\ Settled(d)[j].name = node[j].name
          /\ Settled(d)[j].loaded = node[j].loaded
          /\ Settled(d)[j].has_children = node[j].has_children
          /\ Settled(d)[j].next = node[j].next /\ Settled(d)[j].child = NULL
      BY <2>1, <2>4 DEF Nodes
    <3> QED BY <1>2, <2>4, <3>1
  <2>5. CASE node[j].next = UNSET /\ Settled(d)[j] = [node[j] EXCEPT !.next = NULL]
    <3>1. /\ Settled(d)[j].name = node[j].name
          /\ Settled(d)[j].loaded = node[j].loaded
          /\ Settled(d)[j].has_children = node[j].has_children
          /\ Settled(d)[j].child = node[j].child /\ Settled(d)[j].next = NULL
      BY <2>1, <2>5 DEF Nodes
    <3> QED BY <1>2, <2>5, <3>1
  <2> QED BY <2>2, <2>3, <2>4, <2>5
<1>4. PICK g : g = Settled(d)
  OBVIOUS
<1>5. Grows(node, g) /\ Grows(g, node)
  BY <1>1, <1>3, <1>4 DEF Grows
<1>6. FirstKept(node, g)
  BY <1>3, <1>4 DEF FirstKept, InMemory
<1> QED BY <1>1, <1>3, <1>4, <1>5, <1>6

\* ls settles the list it goes along.
LEMMA ListFound == ASSUME PInv, FoundInv, ListFolder PROVE FoundInv'
<1>1. at \in DOMAIN node /\ Tree(node)
  BY DEF PInv, PlaceInv, MemoryInv, ListFolder, IsListing
<1>2. /\ node' = Settled(at) /\ UNCHANGED made /\ pc' = "idle" /\ goal' = "idle"
  BY DEF ListFolder, Return, Over
<1>3. Grows(node, node') /\ FirstKept(node, node')
  BY <1>1, <1>2, SettledGrows
<1> QED BY <1>2, <1>3, FoundKeeps

\* Chain is a list of the nodes as they are.
LEMMA ChainList == \A d : Chain(d) = List(node, d)
  BY DEF Chain, List

\* Where a name is not found no node of the list has it.
LEMMA MissFound == ASSUME PInv, FoundInv, FindMiss PROVE FoundInv'
<1>1. at \in DOMAIN node /\ Tree(node)
  BY DEF PInv, PlaceInv, MemoryInv, FindMiss
<1>2. /\ node' = Settled(at) /\ UNCHANGED <<made, op>>
      /\ \/ pc' = "append" /\ UNCHANGED <<goal, todo, at>>
         \/ pc' = "idle" /\ goal' = "idle"
  BY DEF FindMiss, Over, history
<1>3. Grows(node, node') /\ FirstKept(node, node')
  BY <1>1, <1>2, SettledGrows
<1>4. goal' = "append" => op' = "mdir"
  BY <1>2 DEF FoundInv
<1>5. CASE pc' = "idle" /\ goal' = "idle"
  BY <1>2, <1>3, <1>5, FoundKeeps
<1>6. CASE pc' = "append" /\ UNCHANGED <<goal, todo, at>>
  <2>1. NULL \notin DOMAIN node
    BY <1>1, NullOut
  <2>2. MadeOk(node', made')
    BY <1>2, <1>3, <2>1, MadeGrows DEF FoundInv
  <2>3. ASSUME NEW k \in 0 .. NODES, List(node', at)[k] \in DOMAIN node'
        PROVE  node'[List(node', at)[k]].name # Head(todo)
    <3>1. PICK g, x : g = node' /\ x = List(g, at)[k]
      OBVIOUS
    <3>2. /\ DOMAIN g = DOMAIN node /\ Grows(g, node) /\ g[x].name = node[x].name
          /\ g[at].child \in DOMAIN g => node[at].child = g[at].child
      BY <1>1, <1>2, <2>3, <3>1, SettledGrows
    <3>3. x \in DOMAIN node /\ NULL \notin DOMAIN g
      BY <2>1, <2>3, <3>1, <3>2
    <3>4. List(node, at)[k] = x
      BY <3>1, <3>2, <3>3, ListGrows
    <3>5. x \in Children(at)
      BY <3>3, <3>4, ChainList DEF Children
    <3>6. node[x].name # Head(todo)
      BY <3>5 DEF FindMiss, Sought, Named
    <3> QED BY <3>1, <3>2, <3>6
  <2>4. (pc = "append" /\ op = "create" =>
           \A k \in 0 .. NODES :
             List(node, at)[k] \in DOMAIN node => node[List(node, at)[k]].name # Head(todo))'
    BY <1>6, <2>3
  <2> QED BY <1>4, <1>6, <2>2, <2>4 DEF FoundInv
<1> QED BY <1>2, <1>5, <1>6

\* A pointer never set is taken for one to a child: then the folder had none.
LEMMA LooksFound == ASSUME PInv, FoundInv, CreateMore PROVE FoundInv'
<1>1. at \in DOMAIN node /\ node[at] \in Nodes /\ Tree(node)
  BY DEF PInv, PlaceInv, MemoryInv, Tree, CreateMore, AtCreate
<1>2. UNSET \notin DOMAIN node
  BY <1>1, NullOut
<1>3. /\ \/ node' = node
         \/ node[at].child = UNSET /\ node' = [node EXCEPT ![at].child = ASTRAY]
      /\ UNCHANGED <<made, op>> /\ pc' = "load" /\ goal' = "find"
  BY DEF CreateMore, history
<1>4. Grows(node, node') /\ FirstKept(node, node')
  <2>1. CASE node' = node
    BY <2>1 DEF Grows, FirstKept, InMemory
  <2>2. CASE node[at].child = UNSET /\ node' = [node EXCEPT ![at].child = ASTRAY]
    <3>1. /\ DOMAIN node' = DOMAIN node
          /\ \A j \in DOMAIN node : j # at => node'[j] = node[j]
          /\ node'[at] = [node[at] EXCEPT !.child = ASTRAY]
      BY <1>1, <2>2
    <3>2. node'[at].name = node[at].name /\ node'[at].next = node[at].next
      BY <1>1, <3>1 DEF Nodes
    <3>3. OnlyGrows(node, node', at)
      BY <1>1, <1>2, <2>2, <3>1, <3>2 DEF OnlyGrows
    <3> QED BY <3>3, OneGrows
  <2> QED BY <1>3, <2>1, <2>2
<1> QED BY <1>3, <1>4, FoundKeeps

\* The first folder mdir makes in a folder that has no child in memory.
LEMMA MdirFirstFound == ASSUME PInv, FoundInv, MdirFirst PROVE FoundInv'
<1>1. at \in DOMAIN node /\ node[at] \in Nodes /\ Tree(node) /\ Room
  BY DEF PInv, PlaceInv, MemoryInv, Tree, MdirFirst
<1>2. Fresh \notin DOMAIN node /\ node[at].child \notin DOMAIN node
  BY <1>1, FreshFree, NullOut DEF MdirFirst
<1>3. PICK g, n : node' = Add([node EXCEPT ![at].child = Fresh, ![at].has_children = TRUE,
                                          ![at].child_sector = g], Fresh, n)
  BY DEF MdirFirst, WriteUnset
<1>4. /\ DOMAIN node' = DOMAIN node \cup {Fresh}
      /\ \A j \in DOMAIN node : j # at => node'[j] = node[j]
      /\ node'[at] = [[[node[at] EXCEPT !.child = Fresh] EXCEPT !.has_children = TRUE]
                        EXCEPT !.child_sector = g]
  BY <1>1, <1>2, <1>3 DEF Add
<1>5. node'[at].name = node[at].name /\ node'[at].next = node[at].next
  BY <1>1, <1>4 DEF Nodes
<1>6. Grows(node, node') /\ FirstKept(node, node')
  <2>1. OnlyGrows(node, node', at)
    BY <1>1, <1>2, <1>4, <1>5 DEF OnlyGrows
  <2> QED BY <2>1, OneGrows
<1>7. UNCHANGED made /\ pc' = "write" /\ goal' = "idle"
  BY DEF MdirFirst, WriteUnset, Writing
<1> QED BY <1>6, <1>7, FoundKeeps

\* The others go behind the last child.
LEMMA MdirAppendFound == ASSUME PInv, FoundInv, MdirAppend PROVE FoundInv'
<1>1. Tree(node) /\ Room
  BY DEF PInv, MemoryInv, MdirAppend
<1>2. PICK last \in Children(at), g \in Unset :
        /\ node[last].next \in {NULL, UNSET}
        /\ WriteUnset([node EXCEPT ![last].next = Fresh, ![last].sibling_sector = g], last, g)
  BY DEF MdirAppend
<1> PICK nd : nd = [node EXCEPT ![last].next = Fresh, ![last].sibling_sector = g]
  OBVIOUS
<1> PICK n : n = NewFolder(Head(todo))
  OBVIOUS
<1>added. node' = Add(nd, Fresh, n)
  <2>1. WriteUnset(nd, last, g)
    BY <1>2
  <2> QED BY <2>1 DEF WriteUnset
<1>3. /\ last \in DOMAIN node /\ node[last] \in Nodes /\ Fresh \notin DOMAIN node
      /\ node[last].next \notin DOMAIN node
  BY <1>1, <1>2, FreshFree, NullOut DEF Children, Tree
<1>4. /\ DOMAIN node' = DOMAIN node \cup {Fresh}
      /\ \A j \in DOMAIN node : j # last => node'[j] = node[j]
      /\ node'[last] = [[node[last] EXCEPT !.next = Fresh] EXCEPT !.sibling_sector = g]
  BY <1>added, <1>3 DEF Add
<1>5. /\ node'[last].name = node[last].name /\ node'[last].child = node[last].child
      /\ node'[last].loaded = node[last].loaded
      /\ node'[last].has_children = node[last].has_children
  BY <1>3, <1>4 DEF Nodes
<1>6. InMemory(node, last) => InMemory(node', last)
  BY <1>5 DEF InMemory
<1>7. Grows(node, node') /\ FirstKept(node, node')
  <2>1. OnlyGrows(node, node', last)
    BY <1>3, <1>4, <1>5, <1>6 DEF OnlyGrows
  <2> QED BY <2>1, OneGrows
<1>8. UNCHANGED made /\ pc' = "write" /\ goal' = "idle"
  BY DEF MdirAppend, WriteUnset, Writing
<1> QED BY <1>7, <1>8, FoundKeeps

-----------------------------------------------------------------------------
(* The file that create makes. *)

\* The two sectors create gives do not change the lists.
LEMMA SectorsGrow ==
  ASSUME NEW nd, \A j \in DOMAIN nd : nd[j] \in Nodes, NEW new, NEW before,
         WriteBoth(nd, new, before)
  PROVE  /\ DOMAIN node' = DOMAIN nd
         /\ \A j \in DOMAIN nd : /\ node'[j].name = nd[j].name /\ node'[j].next = nd[j].next
                                 /\ node'[j].child = nd[j].child
                                 /\ node'[j].loaded = nd[j].loaded
                                 /\ node'[j].has_children = nd[j].has_children
         /\ made' = IF InMemory(node, at) THEN made \cup {<<at, new>>} ELSE made
         /\ pc' = "write" /\ goal' = "idle"
<1>1. /\ node' = [nd EXCEPT ![at].sector = lba, ![new].sector = lba + 1]
      /\ made' = IF ListInMemory THEN made \cup {<<at, new>>} ELSE made
      /\ pc' = "write" /\ goal' = "idle"
  BY DEF WriteBoth, Writing
<1>2. ListInMemory <=> InMemory(node, at)
  BY DEF ListInMemory, InMemory
<1>3. ASSUME NEW j \in DOMAIN nd
      PROVE  /\ node'[j].name = nd[j].name /\ node'[j].next = nd[j].next
             /\ node'[j].child = nd[j].child
             /\ node'[j].loaded = nd[j].loaded
             /\ node'[j].has_children = nd[j].has_children
  <2> DEFINE a == IF j = at THEN [nd[j] EXCEPT !.sector = lba] ELSE nd[j]
             b == IF j = new THEN [a EXCEPT !.sector = lba + 1] ELSE a
  <2>1. nd[j] \in Nodes
    OBVIOUS
  <2>2. node'[j] = b
    BY <1>1
  <2>3. /\ a.name = nd[j].name /\ a.next = nd[j].next /\ a.child = nd[j].child
        /\ a.loaded = nd[j].loaded /\ a.has_children = nd[j].has_children
        /\ DOMAIN a = DOMAIN nd[j]
    BY <2>1 DEF Nodes
  <2>4. /\ b.name = a.name /\ b.next = a.next /\ b.child = a.child
        /\ b.loaded = a.loaded /\ b.has_children = a.has_children
    <3>1. DOMAIN nd[j] = {"name", "type", "has_children", "loaded", "sector", "child_sector",
                          "sibling_sector", "parent", "child", "next"}
      BY <2>1 DEF Nodes
    <3> HIDE DEF a
    <3> QED BY <2>3, <3>1
  <2> HIDE DEF a, b
  <2> QED BY <2>2, <2>3, <2>4
<1> QED BY <1>1, <1>2, <1>3

\* What was made is found still, and so is the file made now.
LEMMA MakesFound ==
  ASSUME Grows(node, node'), FirstKept(node, node'), PInv, FoundInv,
         NEW d, NEW i, made' \subseteq made \cup {<<d, i>>},
         <<d, i>> \in made' =>
           d \in DOMAIN node' /\ i \in DOMAIN node' /\ InMemory(node', d) /\ FoundIn(node', d, i),
         pc' = "write", goal' = "idle"
  PROVE  FoundInv'
<1>1. NULL \notin DOMAIN node
  BY NullOut DEF PInv, MemoryInv
<1>2. MadeOk(node', made)
  BY <1>1, MadeGrows DEF FoundInv
<1>3. MadeOk(node', made')
  BY <1>2 DEF MadeOk
<1> QED BY <1>3 DEF FoundInv

\* The first file of a folder without a child in memory is the first it has.
LEMMA CreateFirstFound == ASSUME PInv, FoundInv, CreateFirst PROVE FoundInv'
<1>1. /\ at \in DOMAIN node /\ node[at] \in Nodes /\ Tree(node) /\ Room /\ todo # <<>>
      /\ root # NULL /\ lba \in Nat /\ lba >= 2
  BY Rooted DEF PInv, PlaceInv, MemoryInv, Tree, CreateFirst, AtCreate, Resolving
<1>2. /\ Fresh \notin DOMAIN node /\ Fresh \in Ids /\ Fresh \in Pointers
      /\ node[at].child \notin DOMAIN node
  BY <1>1, FreshFree, NullOut DEF CreateFirst, Pointers
<1>3. PICK nd : /\ nd = Add([node EXCEPT ![at].child = Fresh], Fresh, NewFile(Head(todo)))
                /\ WriteBoth(nd, Fresh, <<>>)
  BY DEF CreateFirst
<1>4. /\ DOMAIN nd = DOMAIN node \cup {Fresh}
      /\ \A j \in DOMAIN node : j # at => nd[j] = node[j]
      /\ nd[at] = [node[at] EXCEPT !.child = Fresh]
      /\ nd[Fresh] = NewFile(Head(todo))
  BY <1>1, <1>2, <1>3 DEF Add
<1>5. nd[Fresh] \in Nodes /\ nd[at] \in Nodes
  <2>1. Head(todo) \in Names
    BY <1>1, NewName
  <2>2. NewFile(Head(todo)) \in Nodes
    BY <1>1, <2>1, NewFileNode
  <2>3. [node[at] EXCEPT !.child = Fresh] \in Nodes
    BY <1>1, <1>2, FieldsSet
  <2> QED BY <1>4, <2>2, <2>3
<1>6. \A j \in DOMAIN nd : nd[j] \in Nodes
  BY <1>1, <1>4, <1>5 DEF Tree
<1>7. /\ nd[at].name = node[at].name /\ nd[at].next = node[at].next /\ nd[at].child = Fresh
      /\ nd[at].loaded = node[at].loaded /\ nd[at].has_children = node[at].has_children
  BY <1>1, <1>4 DEF Nodes
<1>8. /\ DOMAIN node' = DOMAIN nd
      /\ \A j \in DOMAIN nd : /\ node'[j].name = nd[j].name /\ node'[j].next = nd[j].next
                              /\ node'[j].child = nd[j].child
                              /\ node'[j].loaded = nd[j].loaded
                              /\ node'[j].has_children = nd[j].has_children
      /\ made' = IF InMemory(node, at) THEN made \cup {<<at, Fresh>>} ELSE made
      /\ pc' = "write" /\ goal' = "idle"
  BY <1>3, <1>6, SectorsGrow
<1>9. Grows(node, node')
  <2>1. ASSUME NEW j \in DOMAIN node
        PROVE  j \in DOMAIN node' /\ node'[j].name = node[j].name /\ node'[j].next = node[j].next
    <3>1. CASE j = at
      BY <1>4, <1>7, <1>8, <3>1
    <3>2. CASE j # at
      BY <1>4, <1>8, <3>2
    <3> QED BY <3>1, <3>2
  <2> QED BY <2>1 DEF Grows
<1>10. FirstKept(node, node')
  BY <1>1, <1>2, <1>4, <1>7, <1>8 DEF FirstKept, InMemory
<1>11. FoundIn(node', at, Fresh)
  <2>1. List(node', at)[0] = Fresh
    BY <1>1, <1>4, <1>7, <1>8, ListSteps
  <2>2. 0 \in 0 .. NODES /\ \A j \in 0 .. 0 - 1 : FALSE
    BY Constants
  <2> QED BY <2>1, <2>2 DEF FoundIn
<1>12. made' \subseteq made \cup {<<at, Fresh>>}
  BY <1>8
<1>13. <<at, Fresh>> \in made' => InMemory(node, at)
  <2>1. <<at, Fresh>> \notin made
    BY <1>2 DEF FoundInv, MadeOk
  <2> QED BY <1>8, <2>1
<1>14. InMemory(node, at) => InMemory(node', at)
  BY <1>1, <1>4, <1>7, <1>8 DEF InMemory
<1> QED BY <1>1, <1>4, <1>8, <1>9, <1>10, <1>11, <1>12, <1>13, <1>14, MakesFound

\* A file behind the last child comes after all that were looked through.
LEMMA CreateAppendFound == ASSUME PInv, FoundInv, CreateAppend PROVE FoundInv'
<1>1. /\ at \in DOMAIN node /\ Tree(node) /\ Room /\ todo # <<>>
      /\ root # NULL /\ lba \in Nat /\ lba >= 2
  BY Rooted DEF PInv, PlaceInv, MemoryInv, CreateAppend
<1>2. /\ Fresh \notin DOMAIN node /\ Fresh \in Ids /\ Fresh \in Pointers
      /\ NULL \notin DOMAIN node
  BY <1>1, FreshFree, NullOut DEF Pointers
<1>3. PICK file : file = [NewFile(Head(todo)) EXCEPT !.parent = at, !.next = NULL]
  OBVIOUS
<1>4. PICK last, nd, before :
        /\ last \in Children(at) /\ LastChild(last)
        /\ nd = Add([node EXCEPT ![last].next = Fresh, ![last].sibling_sector = lba], Fresh, file)
        /\ WriteBoth(nd, Fresh, before)
  BY <1>3 DEF CreateAppend
<1>5. last \in DOMAIN node /\ node[last] \in Nodes /\ node[last].next = NULL
  BY <1>1, <1>4 DEF LastChild, Children, Tree
<1>6. /\ DOMAIN nd = DOMAIN node \cup {Fresh} /\ nd[Fresh] = file
      /\ \A j \in DOMAIN node : j # last => nd[j] = node[j]
      /\ nd[last] = [[node[last] EXCEPT !.next = Fresh] EXCEPT !.sibling_sector = lba]
  BY <1>2, <1>4, <1>5 DEF Add
<1>7. /\ nd[last].name = node[last].name /\ nd[last].child = node[last].child
      /\ nd[last].loaded = node[last].loaded /\ nd[last].next = Fresh
      /\ nd[last].has_children = node[last].has_children
  BY <1>5, <1>6 DEF Nodes
<1>8. file \in Nodes /\ file.name = Head(todo)
  <2>1. /\ NewFile(Head(todo)) \in Nodes /\ NewFile(Head(todo)).name = Head(todo)
        /\ at \in Pointers /\ NULL \in Pointers
    BY <1>1, NewName, NewFileNode DEF NewFile, Tree, Pointers
  <2>2. PICK f : f = NewFile(Head(todo))
    OBVIOUS
  <2>3. /\ [f EXCEPT !.parent = at] \in Nodes
        /\ [f EXCEPT !.parent = at].name = f.name
    BY <2>1, <2>2 DEF Nodes
  <2>4. PICK g : g = [f EXCEPT !.parent = at]
    OBVIOUS
  <2>5. [g EXCEPT !.next = NULL] \in Nodes /\ [g EXCEPT !.next = NULL].name = g.name
    BY <2>1, <2>3, <2>4 DEF Nodes
  <2> QED BY <1>3, <2>1, <2>2, <2>3, <2>4, <2>5
<1>9. \A j \in DOMAIN nd : nd[j] \in Nodes
  <2>1. nd[last] \in Nodes
    <3>1. PICK f : f = [node[last] EXCEPT !.next = Fresh]
      OBVIOUS
    <3>2. f \in Nodes
      BY <1>2, <1>5, <3>1, FieldsSet
    <3>3. [f EXCEPT !.sibling_sector = lba] \in Nodes
      BY <1>1, <3>2, FieldsSet
    <3> QED BY <1>6, <3>1, <3>3
  <2> QED BY <1>1, <1>6, <1>8, <2>1 DEF Tree
<1>10. /\ DOMAIN node' = DOMAIN nd
       /\ \A j \in DOMAIN nd : /\ node'[j].name = nd[j].name /\ node'[j].next = nd[j].next
                               /\ node'[j].child = nd[j].child
                               /\ node'[j].loaded = nd[j].loaded
                               /\ node'[j].has_children = nd[j].has_children
       /\ made' = IF InMemory(node, at) THEN made \cup {<<at, Fresh>>} ELSE made
       /\ pc' = "write" /\ goal' = "idle"
  BY <1>4, <1>9, SectorsGrow
<1>11. ASSUME NEW j \in DOMAIN node
       PROVE  /\ node'[j].name = node[j].name /\ node'[j].child = node[j].child
              /\ node[j].next \in DOMAIN node => node'[j].next = node[j].next
              /\ InMemory(node, j) => InMemory(node', j)
  <2>1. CASE j = last
    <3>1. /\ node'[j].name = node[j].name /\ node'[j].child = node[j].child
          /\ node'[j].loaded = node[j].loaded /\ node'[j].has_children = node[j].has_children
      BY <1>6, <1>7, <1>10, <2>1
    <3>2. node[j].next \notin DOMAIN node
      BY <1>2, <1>5, <2>1
    <3> QED BY <3>1, <3>2 DEF InMemory
  <2>2. CASE j # last
    <3>1. /\ node'[j].name = node[j].name /\ node'[j].child = node[j].child
          /\ node'[j].next = node[j].next
          /\ node'[j].loaded = node[j].loaded /\ node'[j].has_children = node[j].has_children
      BY <1>6, <1>10, <2>2
    <3> QED BY <3>1 DEF InMemory
  <2> QED BY <2>1, <2>2
<1>12. Grows(node, node') /\ FirstKept(node, node')
  BY <1>6, <1>10, <1>11 DEF Grows, FirstKept
<1>13. FoundIn(node', at, Fresh)
  <2>1. PICK g : g = node'
    OBVIOUS
  <2>2. PICK k \in 0 .. NODES : List(node, at)[k] = last
    BY <1>4, ChainList DEF Children
  <2>3. k + 1 \in 1 .. NODES /\ k \in Nat /\ NODES \in Nat /\ k + 1 - 1 = k
    BY <1>1, <1>5, <2>2, ListEnds, Constants DEF Tree
  <2>4. ASSUME NEW j \in 0 .. k
        PROVE  /\ List(g, at)[j] \in DOMAIN g /\ List(g, at)[j] = List(node, at)[j]
               /\ g[List(g, at)[j]].name # Head(todo)
    <3>1. j \in 0 .. NODES /\ List(node, at)[j] \in DOMAIN node
      BY <1>2, <1>5, <2>2, <2>3, ListBefore
    <3>2. node[List(node, at)[j]].name # Head(todo)
      BY <3>1 DEF FoundInv, CreateAppend
    <3>3. Grows(node, g) /\ g[at].child = node[at].child
      BY <1>1, <1>11, <1>12, <2>1
    <3>4. List(g, at)[j] = List(node, at)[j]
      BY <1>2, <3>1, <3>3, ListGrows
    <3> QED BY <3>1, <3>2, <3>3, <3>4 DEF Grows
  <2>5. List(g, at)[k] = last
    BY <2>2, <2>3, <2>4
  <2>6. List(g, at)[k + 1] = Fresh
    <3>1. last \in DOMAIN g /\ g[last].next = Fresh
      BY <1>5, <1>6, <1>7, <1>10, <2>1
    <3> QED BY <2>3, <2>5, <3>1, ListSteps
  <2>7. g[Fresh].name = Head(todo)
    BY <1>6, <1>8, <1>10, <2>1
  <2>8. k + 1 \in 0 .. NODES /\ \A j \in 0 .. k + 1 - 1 : j \in 0 .. k
    BY <2>3
  <2>9. FoundIn(g, at, Fresh)
    BY <2>4, <2>6, <2>7, <2>8 DEF FoundIn
  <2> QED BY <2>1, <2>9
<1>14. made' \subseteq made \cup {<<at, Fresh>>}
  BY <1>10
<1>15. <<at, Fresh>> \in made' => InMemory(node, at)
  <2>1. <<at, Fresh>> \notin made
    BY <1>2 DEF FoundInv, MadeOk
  <2> QED BY <1>10, <2>1
<1>16. at \in DOMAIN node' /\ Fresh \in DOMAIN node'
  BY <1>1, <1>6, <1>10
<1> QED BY <1>1, <1>10, <1>11, <1>12, <1>13, <1>14, <1>15, <1>16, MakesFound

-----------------------------------------------------------------------------
(* The theorem. *)

\* Every step keeps what was made where it can be found.
LEMMA NextFound == PInv /\ FoundInv /\ [Next]_vars => FoundInv'
<1> SUFFICES ASSUME PInv, FoundInv, [Next]_vars PROVE FoundInv'
  OBVIOUS
<1>1. CASE Format \/ WriteSector \/ Restart
  BY <1>1, ForgetFound, WriteFound
<1>2. CASE Mounting
  BY <1>2, WriteFound, ReadRootFound, ForgetFound DEF Mounting
<1>3. CASE Loading
  BY <1>3, LoadedFound, LoadFirstFound, LoadNextFound, ForgetFound DEF Loading
<1>4. CASE Resolve
  <2>1. ResolveNothing => (AtComponent /\ GoWild)
                          \/ (AtComponent /\ Return /\ UNCHANGED <<memory, faults>>)
    BY DEF ResolveNothing
  <2> QED BY <1>4, <2>1, WriteFound, ResolveFound, ResolveUpFound, ListFound, MissFound,
             ForgetFound DEF Resolve
<1>5. CASE Making
  BY <1>5, CreateFirstFound, LooksFound, CreateAppendFound, MdirFirstFound, MdirAppendFound,
     ResolveFound, ForgetFound DEF Making
<1>6. CASE UNCHANGED vars
  BY <1>6 DEF vars, memory, control, history, FoundInv
<1> QED BY <1>1, <1>2, <1>3, <1>4, <1>5, <1>6 DEF Next

\* A file that create made in a folder whose list it could see is found there
\* from then on, for every size of memory and disk, however many are created,
\* loaded and looked up, and whatever fails.
THEOREM CreatedFoundAlways == Spec => []CreatedFound
<1>1. Init => FoundInv
  BY DEF Init, FoundInv, MadeOk
<1>2. PInv /\ FoundInv => CreatedFound
  <2> SUFFICES ASSUME PInv, FoundInv, NEW m \in made
               PROVE  /\ m[2] \in Named(m[1], node[m[2]].name)
                      /\ FirstOf(m[1], m[2], Named(m[1], node[m[2]].name))
    BY DEF CreatedFound
  <2>1. PICK d, i : d = m[1] /\ i = m[2]
    OBVIOUS
  <2>2. i \in DOMAIN node /\ FoundIn(node, d, i)
    BY <2>1 DEF FoundInv, MadeOk
  <2>3. PICK k \in 0 .. NODES :
          /\ Chain(d)[k] = i
          /\ \A j \in 0 .. k - 1 :
               Chain(d)[j] \in DOMAIN node /\ node[Chain(d)[j]].name # node[i].name
    BY <2>2, ChainList DEF FoundIn
  <2>4. i \in Named(d, node[i].name)
    BY <2>2, <2>3 DEF Named, Children
  <2>5. FirstOf(d, i, Named(d, node[i].name))
    BY <2>3 DEF FirstOf, Named
  <2> QED BY <2>1, <2>4, <2>5
<1> QED BY <1>1, <1>2, NextFound, PfsInductive, PTL DEF Spec
=============================================================================
