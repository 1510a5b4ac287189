-------------------------------- MODULE Pfs --------------------------------
(***************************************************************************)
(* The persistent filesystem: the commands of src/fs/pfs.cpp, the PFS half *)
(* of src/fs/fsnode.cpp and of src/fs/fsresolver.cpp, the tree they keep   *)
(* in memory and the records they keep on the disk.                        *)
(*                                                                         *)
(* A command resolves a path component by component, and on the way loads  *)
(* into memory the children of the folders it passes, sector by sector.    *)
(* What it changes on the disk it writes last, as a queue of sectors.      *)
(*                                                                         *)
(* Covered: reads and writes that fail (read28 and write28 report nothing) *)
(* and a restart at any point, which leaves the disk and nothing else.     *)
(* Fields of a node that the code never sets hold what the memory held:    *)
(* they are "unset" until they are first read, and then take a value.      *)
(* Where a value that makes no sense is used the program goes wild, and    *)
(* nothing is said of what it does from there to the next restart.         *)
(*                                                                         *)
(* `current` is left out, since it always equals `root`; so are the fields *)
(* nothing reads: file_size, extension, mode and parent_sector.  Memory    *)
(* the code loses track of (a node whose name was taken) is not counted.   *)
(***************************************************************************)
EXTENDS Integers, Sequences, FiniteSets

CONSTANTS
  NODES,      \* how many nodes the memory has room for
  SECTORS,    \* how many sectors the disk has
  Disks,      \* what the disk may hold when the machine is first started
  Names,      \* the names of nodes and the components of paths
  Paths,      \* the paths callers use, as their components
  Unset,      \* the sector numbers that unset memory may hold
  MAX_CHANGES,  \* bound of the model: how often create and mdir write
  MAX_FAULTS    \* bound of the model: the kinds of fault that happen together

VARIABLES
  disk,        \* the content of each sector
  node,        \* the PFSNodes in memory, by address
  superblock,  \* PFS::superblock: "null", or whether its magic was right
  root, lba,   \* PFS::root, PFS::lba
  pc,          \* what the processor is at
  goal,        \* where it goes on when loadPFSNode returns
  op,          \* the command that runs, or ran last
  todo,        \* the components of its path still to be resolved
  at,          \* the node they start from
  tail,        \* the node loadPFSNode decoded last
  queue,       \* the sectors the command has still to write
  made,        \* history: <<folder, file>> of each create that returned well
  changes,     \* history: how often create and mdir have written
  formatted,   \* history: the last command that wrote was format
  faults,      \* history: what went wrong since the last format
  wild         \* history: undefined behaviour has been met

memory == <<node, superblock, root, lba>>
control == <<pc, goal, op, todo, at, tail, queue>>
history == <<made, changes, formatted, faults, wild>>
vars == <<disk, memory, control, history>>

Ids == 1 .. NODES

NULL == 0
UNSET == -1     \* a pointer that was never set and never read
ASTRAY == -2    \* one that was read, and is not null

-----------------------------------------------------------------------------
(* What a sector holds. *)

Types == {"File", "Folder"}

Blank == [kind |-> "blank"]
Super == [kind |-> "super"]   \* encodeSuperblock, with root_lba = 2
Junk  == [kind |-> "junk"]    \* a node encoded before its fields were set

Record(n, t, h, s, c, b) ==
  [kind |-> "node", name |-> n, type |-> t, has_children |-> h,
   sector |-> s, child_sector |-> c, sibling_sector |-> b]

Records ==
  [kind : {"node"}, name : Names, type : Types, has_children : BOOLEAN,
   sector : Nat \ {0, 1}, child_sector : Nat, sibling_sector : Nat]

Contents == {Blank, Super, Junk} \cup Records

IsNode(content) == content.kind = "node"

ASSUME PfsAssumption ==
  /\ NODES \in Nat \ {0}
  /\ SECTORS \in Nat \ {0, 1, 2}
  /\ Unset \subseteq Nat /\ MAX_CHANGES \in Nat /\ MAX_FAULTS \in Nat
  \* "" is refused; the path "/" is <<"">>
  /\ "/" \in Names /\ \A path \in Paths : path \in Seq(Names) /\ path # <<>>
  /\ \A image \in Disks : image \in [0 .. SECTORS - 1 -> Contents]

IsFolder(content) == IsNode(content) /\ content.type = "Folder"

\* What a disk that is put in may hold: the nodes on it were written as this
\* program writes them, and where there is a superblock there is a root.
ASSUME DisksAssumption ==
  \A image \in Disks :
    /\ \A s \in 0 .. SECTORS - 1 : IsNode(image[s]) => image[s].sector = s
    /\ image[1] = Super => IsFolder(image[2])

\* encodePFSNode
Encode(n) ==
  Record(n.name, n.type, n.has_children, n.sector, n.child_sector, n.sibling_sector)

\* decodePFSNode: the pointers and children_loaded are left as they were.
Decode(r) ==
  [name |-> r.name, type |-> r.type, has_children |-> r.has_children, loaded |-> "unset",
   sector |-> r.sector, child_sector |-> r.child_sector,
   sibling_sector |-> r.sibling_sector,
   parent |-> UNSET, child |-> UNSET, next |-> UNSET]

\* The file create makes: createPFSNode, with a null parent.
NewFile(n) ==
  [name |-> n, type |-> "File", has_children |-> TRUE, loaded |-> "no",
   sector |-> lba, child_sector |-> 0, sibling_sector |-> 0,
   parent |-> NULL, child |-> UNSET, next |-> UNSET]

-----------------------------------------------------------------------------
(* The nodes in memory. *)

\* kmalloc gives a node a free address; without one, the program writes
\* through null.
Room == DOMAIN node # Ids
Fresh == CHOOSE i \in Ids : i \notin DOMAIN node

Add(nd, i, n) == [j \in DOMAIN nd \cup {i} |-> IF j = i THEN n ELSE nd[j]]

\* The list of d's children, by position; it ends at a pointer to no node.
Chain(d) ==
  LET f[k \in 0 .. NODES] ==
        IF k = 0 THEN node[d].child
        ELSE IF f[k - 1] \in DOMAIN node THEN node[f[k - 1]].next ELSE NULL
  IN  f

Children(d) == {i \in DOMAIN node : \E k \in 0 .. NODES : Chain(d)[k] = i}

Named(d, name) == {i \in Children(d) : node[i].name = name}

\* i comes before all of S in the list of d.
FirstOf(d, i, S) ==
  \E k \in 0 .. NODES : Chain(d)[k] = i /\ \A j \in 0 .. k - 1 : Chain(d)[j] \notin S

-----------------------------------------------------------------------------
Idle == pc = "idle" /\ ~wild

\* Locals are gone when the command is over.
Over ==
  /\ pc' = "idle" /\ goal' = "idle" /\ todo' = <<>> /\ at' = NULL /\ tail' = NULL

Forgets == node' = <<>> /\ superblock' = "null" /\ root' = NULL /\ lba' = 0

\* From here on memory may hold anything; it is left out.
Strays ==
  /\ wild' = TRUE
  /\ Over /\ Forgets /\ made' = {}
  /\ UNCHANGED <<disk, op, queue, changes, formatted>>

GoWild == Strays /\ UNCHANGED faults

Fault(f) == Cardinality(faults \cup {f}) <= MAX_FAULTS /\ faults' = faults \cup {f}

\* A read fails, and the buffer it was to fill is decoded all the same.
StrayRead == Strays /\ Fault("read")

\* The command is over, with an error message or without.
Return ==
  /\ Over
  /\ UNCHANGED <<disk, op, queue, made, changes, formatted, wild>>

\* All that is left to the command is to write its queue.
Writing ==
  /\ pc' = "write" /\ goal' = "idle" /\ todo' = <<>> /\ at' = NULL /\ tail' = NULL

\* PFS::init, on a disk of any of the contents given.
Init ==
  /\ disk \in Disks
  /\ node = <<>> /\ superblock = "null" /\ root = NULL /\ lba = 0
  /\ pc = "idle" /\ goal = "idle" /\ op = "none" /\ todo = <<>> /\ at = NULL /\ tail = NULL
  /\ queue = <<>>
  /\ made = {} /\ changes = 0 /\ formatted = FALSE /\ faults = {} /\ wild = FALSE

\* The machine is restarted, whatever it was at; sectors not yet written are lost.
Restart ==
  /\ Forgets /\ Over
  /\ op' = "none" /\ queue' = <<>>
  /\ made' = {} /\ wild' = FALSE
  /\ faults' = IF queue = <<>> THEN faults ELSE faults \cup {"torn"}
  /\ formatted' = (formatted /\ queue = <<>>)
  /\ UNCHANGED <<disk, changes>>

-----------------------------------------------------------------------------
(* The disk. *)

InRange(s) == s < SECTORS

\* write28 of the next sector of the queue.  It may fail and says nothing.
WriteSector ==
  /\ queue # <<>>
  /\ LET w == Head(queue)
     IN  \/ /\ InRange(w.at)
            /\ disk' = [disk EXCEPT ![w.at] = w.what]
            /\ UNCHANGED faults
         \/ /\ IF InRange(w.at) THEN Fault("lost") ELSE faults' = faults \cup {"lost"}
            /\ UNCHANGED disk
  /\ queue' = Tail(queue)
  /\ pc' = IF Len(queue) = 1 THEN "idle" ELSE pc
  /\ UNCHANGED <<memory, goal, op, todo, at, tail, made, changes, formatted, wild>>

\* PFS::format.  The tree that was mounted is dropped, not freed.
Format ==
  /\ Idle
  /\ queue' = <<[at |-> 1, what |-> Super],
                [at |-> 2, what |-> Record("/", "Folder", TRUE, 2, 0, 0)]>>
  /\ node' = <<>> /\ superblock' = "null" /\ root' = NULL /\ lba' = 4
  /\ Writing /\ op' = "format"
  /\ made' = {} /\ formatted' = TRUE /\ faults' = {}
  /\ UNCHANGED <<disk, changes, wild>>

-----------------------------------------------------------------------------
(* PFS::mount.  When a root is in memory it only says so. *)

\* kmalloc has no buffer to give.
MountWithoutBuffer ==
  /\ Idle /\ root = NULL
  /\ lba' = 1 /\ op' = "mount"
  /\ UNCHANGED <<disk, node, superblock, root, pc, goal, todo, at, tail, queue, history>>

Mount ==
  /\ Idle /\ root = NULL
  /\ lba' = 1
  /\ pc' = "super" /\ op' = "mount"
  /\ UNCHANGED <<disk, node, superblock, root, goal, todo, at, tail, queue, history>>

\* Mutation: lba is not moved on from the superblock.
ReadSuperStays ==
  /\ pc = "super"
  /\ IF disk[lba] = Super
     THEN superblock' = "valid" /\ pc' = "root"
     ELSE superblock' = "invalid" /\ pc' = "idle"
  /\ UNCHANGED <<disk, node, root, lba, goal, op, todo, at, tail, queue, history>>

\* The sector read is, or is not, a superblock.
ReadSuper ==
  /\ pc = "super"
  /\ IF disk[lba] = Super
     THEN superblock' = "valid" /\ lba' = lba + 1 /\ pc' = "root"
     ELSE superblock' = "invalid" /\ pc' = "idle" /\ UNCHANGED lba
  /\ UNCHANGED <<disk, node, root, goal, op, todo, at, tail, queue, history>>

\* The read fails: the buffer is no superblock.
ReadSuperFails ==
  /\ pc = "super"
  /\ superblock' = "invalid" /\ pc' = "idle"
  /\ Fault("read")
  /\ UNCHANGED <<disk, node, root, lba, goal, op, todo, at, tail, queue, made, changes, formatted, wild>>

\* The root is decoded, and its children are loaded next.
ReadRoot ==
  /\ pc = "root" /\ IsNode(disk[2])
  /\ root' = Fresh /\ node' = Add(node, Fresh, Decode(disk[2]))
  /\ at' = Fresh /\ pc' = "load" /\ goal' = "idle"
  /\ UNCHANGED <<disk, superblock, lba, op, todo, tail, queue, history>>

\* What was read is no node.  Its name is copied for as long as a length says
\* that was never written: on a blank sector, 0 - 1 = 2^32 - 1 bytes.
ReadRootWild ==
  /\ pc = "root" /\ ~IsNode(disk[2])
  /\ GoWild

\* The read fails: the buffer still holds the superblock, which is no node.
ReadRootFails ==
  /\ pc = "root"
  /\ StrayRead

-----------------------------------------------------------------------------
(* loadPFSNode on `at`. *)

\* children_loaded, when unset, is whatever the memory held.
LoadedByte == IF node[at].loaded = "unset" THEN {"yes", "no"} ELSE {node[at].loaded}

LoadReturns ==
  /\ IF goal = "idle" THEN Over ELSE pc' = goal /\ tail' = NULL /\ UNCHANGED <<goal, todo, at>>
  /\ UNCHANGED <<disk, superblock, root, lba, op, queue, history>>

\* The list is, or seems to be, in memory already, or the folder has none.
LoadSkipped ==
  /\ pc = "load"
  /\ \E b \in LoadedByte :
       /\ b = "yes" \/ ~node[at].has_children
       /\ node' = [node EXCEPT ![at].loaded = b]
  /\ LoadReturns

MustLoad == pc = "load" /\ "no" \in LoadedByte /\ node[at].has_children

\* kmalloc has no buffer to give: the list stays as it is.
LoadWithoutBuffer ==
  /\ MustLoad
  /\ node' = [node EXCEPT ![at].loaded = "no"]
  /\ LoadReturns

\* The first child is decoded.
LoadFirst ==
  /\ MustLoad /\ Room
  /\ InRange(node[at].child_sector) /\ IsNode(disk[node[at].child_sector])
  /\ node' = Add([node EXCEPT ![at].loaded = "no", ![at].child = Fresh],
                 Fresh, Decode(disk[node[at].child_sector]))
  /\ tail' = Fresh /\ pc' = "chain"
  /\ UNCHANGED <<disk, superblock, root, lba, goal, op, todo, at, queue, history>>

\* There is no memory for it, or no node in the sector.
LoadFirstWild ==
  /\ MustLoad
  /\ \/ ~Room
     \/ InRange(node[at].child_sector) /\ ~IsNode(disk[node[at].child_sector])
  /\ GoWild

\* The read fails: a buffer nobody filled is decoded.  It may hold what is left
\* of an older sector, or of anything else that was freed.
LoadFirstFails ==
  /\ MustLoad
  /\ StrayRead

NextSector == node[tail].sibling_sector

\* Decode r behind the node decoded last.
LoadAfter(r) ==
  /\ node' = Add([node EXCEPT ![tail].next = Fresh], Fresh, Decode(r))
  /\ tail' = Fresh
  /\ UNCHANGED <<disk, superblock, root, lba, pc, goal, op, todo, at, queue,
                 made, changes, formatted, wild>>

LoadNext ==
  /\ pc = "chain" /\ NextSector # 0 /\ Room
  /\ InRange(NextSector) /\ IsNode(disk[NextSector])
  /\ LoadAfter(disk[NextSector])
  /\ UNCHANGED faults

LoadNextWild ==
  /\ pc = "chain" /\ NextSector # 0
  /\ \/ ~Room
     \/ InRange(NextSector) /\ ~IsNode(disk[NextSector])
  /\ GoWild

\* The read fails: the buffer still holds the sector before, decoded once more.
LoadNextFails ==
  /\ pc = "chain" /\ NextSector # 0 /\ Room
  /\ LoadAfter(Encode(node[tail]))
  /\ Fault("read")

LoadDone ==
  /\ pc = "chain" /\ NextSector = 0
  /\ node' = [node EXCEPT ![at].loaded = "yes"]
  /\ LoadReturns

-----------------------------------------------------------------------------
(* resolvePFSPath and resolvePFSParent, one component of `todo` at a time. *)

Resolvers == {"open", "ls", "create", "mdir"}
Makers == {"create", "mdir"}

Start(o) ==
  /\ Idle
  /\ op' = o
  /\ \E path \in Paths : todo' = path
  /\ at' = root /\ pc' = "resolve"
  /\ UNCHANGED <<disk, memory, goal, tail, queue, history>>

Open == Start("open")
Ls == Start("ls")
Create == changes < MAX_CHANGES /\ Start("create")
Mdir == changes < MAX_CHANGES /\ Start("mdir")

Resolving == pc = "resolve" /\ todo # <<>>

Here == {".", ""}    \* "" is what "/" alone leaves

\* The name a maker is to give, where its path ends in one.
AtName == op \in Makers /\ Len(todo) = 1 /\ Head(todo) \notin {".", ".."}

IsListing ==
  /\ pc = "resolve" /\ todo = <<>>
  /\ op = "ls" /\ IF at = NULL THEN FALSE ELSE node[at].type = "Folder"

\* open and ls are given the node; create and mdir an error.
ResolveEnds ==
  /\ pc = "resolve" /\ todo = <<>> /\ ~IsListing
  /\ Return /\ UNCHANGED <<memory, faults>>

Step(n) ==
  /\ at' = n /\ todo' = Tail(todo) /\ pc' = "resolve"
  /\ UNCHANGED <<disk, superblock, root, lba, goal, op, tail, queue, history>>

ResolveHere ==
  /\ Resolving /\ Head(todo) \in Here /\ ~AtName
  /\ Step(at) /\ UNCHANGED node

\* A parent pointer that is unset is read as null, for good, or leads astray.
ResolveUp ==
  /\ Resolving /\ Head(todo) = ".." /\ at # NULL
  /\ IF node[at].parent \in Ids
     THEN Step(node[at].parent) /\ UNCHANGED node
     ELSE Step(at) /\ node' = [node EXCEPT ![at].parent = NULL]

ResolveUpWild ==
  /\ Resolving /\ Head(todo) = ".."
  /\ IF at = NULL THEN TRUE ELSE node[at].parent = UNSET
  /\ GoWild

AtComponent == Resolving /\ Head(todo) \notin Here \cup {".."} /\ ~AtName

\* The folder's list is loaded before the name is looked for in it.
ResolveName ==
  /\ AtComponent /\ at # NULL
  /\ pc' = "load" /\ goal' = "find"
  /\ UNCHANGED <<disk, memory, op, todo, at, tail, queue, history>>

\* Without a root, resolvePFSParent finds nothing; resolvePFSPath asks null
\* for its type first.
ResolveNothing ==
  /\ AtComponent /\ at = NULL
  /\ IF op \in Makers THEN Return /\ UNCHANGED <<memory, faults>> ELSE GoWild

\* create and mdir are told that the parent does not exist.
NoParent ==
  /\ Resolving /\ AtName /\ at = NULL
  /\ Return /\ UNCHANGED <<memory, faults>>

\* The pointers a walk along d's list reads, each null for good if it was unset.
Settled(d) ==
  [i \in DOMAIN node |->
     IF i = d /\ node[i].child = UNSET THEN [node[i] EXCEPT !.child = NULL]
     ELSE IF i \in Children(d) /\ node[i].next = UNSET
     THEN [node[i] EXCEPT !.next = NULL]
     ELSE node[i]]

\* The walk reaches a pointer that can lead anywhere.
ListStrays(d) ==
  \/ node[d].child \in {UNSET, ASTRAY}
  \/ \E i \in Children(d) : node[i].next = UNSET

\* ls goes through the list of a folder, without loading it.
ListFolder ==
  /\ IsListing /\ node[at].child # ASTRAY
  /\ node' = Settled(at)
  /\ Return /\ UNCHANGED <<superblock, root, lba, faults>>

ListFolderWild ==
  /\ IsListing /\ ListStrays(at)
  /\ GoWild

-----------------------------------------------------------------------------
(* findPFSNode in `at`, not recursive, once the list is loaded. *)

Sought == Named(at, Head(todo))

\* A component is found; resolvePFSParent goes on in folders only, and create
\* is not to make what is there.
FindHit ==
  /\ pc = "find"
  /\ \E i \in Sought :
       /\ FirstOf(at, i, Sought)
       /\ IF AtName \/ (op \in Makers /\ node[i].type # "Folder")
          THEN Return /\ UNCHANGED faults ELSE Step(i)
  /\ UNCHANGED <<node, superblock, root, lba>>

FindMiss ==
  /\ pc = "find" /\ Sought = {} /\ node[at].child # ASTRAY
  /\ node' = Settled(at)
  /\ IF AtName THEN pc' = "append" /\ UNCHANGED <<goal, todo, at, tail>> ELSE Over
  /\ UNCHANGED <<disk, superblock, root, lba, op, queue, history>>

FindWild ==
  /\ pc = "find" /\ Sought = {} /\ ListStrays(at)
  /\ GoWild

-----------------------------------------------------------------------------
(* PFS::create, once it has the parent, in `at`. *)

\* The list that create saw was the whole list of the folder.
ListInMemory == node[at].loaded = "yes" \/ ~node[at].has_children

\* Mutation: the new file is written before its parent.
WriteFileFirst(nd, new, before) ==
  /\ node' = [nd EXCEPT ![at].sector = lba + 1, ![new].sector = lba]
  /\ queue' = before \o <<[at |-> lba, what |-> Encode(node'[new])],
                          [at |-> lba + 1, what |-> Encode(node'[at])]>>
  /\ lba' = lba + 2
  /\ made' = IF ListInMemory THEN made \cup {<<at, new>>} ELSE made
  /\ Writing /\ formatted' = FALSE /\ changes' = changes + 1
  /\ UNCHANGED <<disk, superblock, root, op, faults, wild>>

\* Mutation: the nodes are encoded before they are given their sectors.
WriteBothStale(nd, new, before) ==
  /\ node' = [nd EXCEPT ![at].sector = lba, ![new].sector = lba + 1]
  /\ queue' = before \o <<[at |-> lba, what |-> Encode(nd[at])],
                          [at |-> lba + 1, what |-> Encode(nd[new])]>>
  /\ lba' = lba + 2
  /\ made' = IF ListInMemory THEN made \cup {<<at, new>>} ELSE made
  /\ Writing /\ formatted' = FALSE /\ changes' = changes + 1
  /\ UNCHANGED <<disk, superblock, root, op, faults, wild>>

\* create ends with the writes given, the parent's and the new file's.
WriteBoth(nd, new, before) ==
  /\ node' = [nd EXCEPT ![at].sector = lba, ![new].sector = lba + 1]
  /\ queue' = before \o <<[at |-> lba, what |-> Encode(node'[at])],
                          [at |-> lba + 1, what |-> Encode(node'[new])]>>
  /\ lba' = lba + 2
  /\ made' = IF ListInMemory THEN made \cup {<<at, new>>} ELSE made
  /\ Writing /\ formatted' = FALSE /\ changes' = changes + 1
  /\ UNCHANGED <<disk, superblock, root, op, faults, wild>>

AtCreate == Resolving /\ AtName /\ op = "create" /\ at # NULL

\* The parent has no child in memory: the file becomes it.  The list is not
\* loaded first, and the parent's record does not tell of the child.
CreateFirst ==
  /\ AtCreate /\ node[at].child \in {NULL, UNSET} /\ Room
  /\ WriteBoth(Add([node EXCEPT ![at].child = Fresh], Fresh, NewFile(Head(todo))),
               Fresh, <<>>)

\* Mutation: the name is not looked for.
CreateMoreUnsearched ==
  /\ AtCreate /\ node[at].child # NULL /\ Room
  /\ IF node[at].child = UNSET
     THEN node' = [node EXCEPT ![at].child = ASTRAY] ELSE UNCHANGED node
  /\ pc' = "load" /\ goal' = "append"
  /\ UNCHANGED <<disk, superblock, root, lba, op, todo, at, tail, queue, history>>

\* It has one, or a pointer that was never set says so: the name is looked for.
CreateMore ==
  /\ AtCreate /\ node[at].child # NULL /\ Room
  /\ IF node[at].child = UNSET
     THEN node' = [node EXCEPT ![at].child = ASTRAY] ELSE UNCHANGED node
  /\ pc' = "load" /\ goal' = "find"
  /\ UNCHANGED <<disk, superblock, root, lba, op, todo, at, tail, queue, history>>

\* The node could not be allocated.
CreateWild == AtCreate /\ ~Room /\ GoWild

LastChild(i) == i \in Children(at) /\ node[i].next = NULL

\* appendPFSChild, then the two writes of create.
CreateAppend ==
  /\ pc = "append" /\ op = "create" /\ Room
  /\ \E last \in Children(at) :
       /\ LastChild(last)
       /\ LET linked == [node EXCEPT ![last].next = Fresh, ![last].sibling_sector = lba]
              file == [NewFile(Head(todo)) EXCEPT !.parent = at, !.next = NULL]
          IN  WriteBoth(Add(linked, Fresh, file), Fresh,
                        <<[at |-> node[last].sector, what |-> Encode(linked[last])],
                          [at |-> lba, what |-> Encode(file)]>>)

AppendWild == pc = "append" /\ ~Room /\ GoWild

-----------------------------------------------------------------------------
(* PFS::mdir, once it has the parent, in `at`.  createPFSNode appends the new *)
(* node before it sets the node's name, sector and type.                     *)

AtMdir == Resolving /\ AtName /\ op = "mdir" /\ at # NULL

MdirLoads ==
  /\ AtMdir
  /\ pc' = "load" /\ goal' = "append"
  /\ UNCHANGED <<disk, memory, op, todo, at, tail, queue, history>>

\* The folder as it is once createPFSNode has returned.
NewFolder(n) ==
  [name |-> n, type |-> "Folder", has_children |-> FALSE, loaded |-> "no",
   sector |-> lba, child_sector |-> 0, sibling_sector |-> 0,
   parent |-> at, child |-> UNSET, next |-> NULL]

\* Two sectors are written, one of them wherever the unset sector number says.
\* Then findPFSNode finds the node that was just linked, and mdir reports that
\* the folder exists already.
WriteUnset(nd, i, g) ==
  /\ node' = Add(nd, Fresh, NewFolder(Head(todo)))
  /\ queue' = <<[at |-> nd[i].sector, what |-> Encode(nd[i])], [at |-> g, what |-> Junk]>>
  /\ Writing /\ formatted' = FALSE /\ changes' = changes + 1
  /\ faults' = faults \cup {"stray"}
  /\ UNCHANGED <<disk, superblock, root, lba, op, made>>

\* The first child.  When the list was not marked as loaded, findPFSNode loads
\* it from the sector just written, which holds no node.
MdirFirst ==
  /\ pc = "append" /\ op = "mdir" /\ Room
  /\ node[at].child \in {NULL, UNSET}
  /\ \E g \in Unset :
       WriteUnset([node EXCEPT ![at].child = Fresh, ![at].has_children = TRUE,
                               ![at].child_sector = g], at, g)
  /\ wild' = (node[at].loaded = "no")

MdirAppend ==
  /\ pc = "append" /\ op = "mdir" /\ Room
  /\ \E last \in Children(at), g \in Unset :
       /\ node[last].next \in {NULL, UNSET}
       /\ WriteUnset([node EXCEPT ![last].next = Fresh, ![last].sibling_sector = g], last, g)
  /\ UNCHANGED wild

\* A pointer on the way to the end of the list can lead anywhere.
MdirWild ==
  /\ pc = "append" /\ op = "mdir" /\ ListStrays(at)
  /\ GoWild

-----------------------------------------------------------------------------
Loading ==
  \/ LoadSkipped \/ LoadWithoutBuffer
  \/ LoadFirst \/ LoadFirstWild \/ LoadFirstFails
  \/ LoadNext \/ LoadNextWild \/ LoadNextFails \/ LoadDone

Mounting ==
  \/ MountWithoutBuffer \/ Mount \/ ReadSuper \/ ReadSuperFails \/ ReadRoot \/ ReadRootWild \/ ReadRootFails

Resolve ==
  \/ Open \/ Ls \/ Create \/ Mdir
  \/ ResolveEnds \/ ResolveHere \/ ResolveUp \/ ResolveUpWild
  \/ ResolveName \/ ResolveNothing \/ NoParent
  \/ ListFolder \/ ListFolderWild \/ FindHit \/ FindMiss \/ FindWild

Making ==
  \/ CreateFirst \/ CreateMore \/ CreateWild \/ CreateAppend \/ AppendWild
  \/ MdirLoads \/ MdirFirst \/ MdirAppend \/ MdirWild

Next == Format \/ WriteSector \/ Restart \/ Mounting \/ Loading \/ Resolve \/ Making

Spec == Init /\ [][Next]_vars

-----------------------------------------------------------------------------
(* Properties. *)

Pointers == Ids \cup {NULL, UNSET, ASTRAY}

Nodes ==
  [name : Names, type : Types, has_children : BOOLEAN, loaded : {"unset", "no", "yes"},
   sector : Nat \ {0, 1}, child_sector : Nat, sibling_sector : Nat,
   parent : Pointers, child : Pointers, next : Pointers]

Writes == [at : Nat, what : Contents]

TypeOK ==
  /\ disk \in [0 .. SECTORS - 1 -> Contents]
  /\ DOMAIN node \subseteq Ids /\ \A i \in DOMAIN node : node[i] \in Nodes
  /\ superblock \in {"null", "invalid", "valid"}
  /\ root \in DOMAIN node \cup {NULL} /\ lba \in Nat
  /\ pc \in {"idle", "super", "root", "load", "chain", "resolve", "find", "append", "write"}
  /\ goal \in {"idle", "find", "append"}
  /\ op \in Resolvers \cup {"none", "format", "mount"}
  /\ todo \in Seq(Names)
  /\ at \in Ids \cup {NULL} /\ tail \in Ids \cup {NULL}
  /\ queue \in Seq(Writes)
  /\ made \subseteq Ids \X Ids
  /\ changes \in Nat /\ formatted \in BOOLEAN /\ wild \in BOOLEAN
  /\ faults \subseteq {"read", "lost", "torn", "stray"}

\* A file that create made in a folder whose list it could see is found under
\* its name from then on, whatever is created, loaded and looked up after it:
\* no later load replaces the list, and no other node of that name precedes it.
CreatedFound ==
  pc = "idle" /\ ~wild =>
    \A m \in made : LET same == Named(m[1], node[m[2]].name)
                    IN  m[2] \in same /\ FirstOf(m[1], m[2], same)

\* Sector 2, which the superblock names as the root, holds a folder whenever no
\* command is writing, although create writes files there on its way: unless a
\* write was lost, the machine went down between two writes, or mdir wrote.
RootSectorIsFolder ==
  disk[1] = Super /\ queue = <<>> /\ faults \subseteq {"read"} =>
    IsFolder(disk[2])

\* Every node on the disk says in which sector it is, though every write of a
\* node moves it, and writes fail.  It says nothing of the sectors that parents
\* and siblings name.
RecordsInPlace ==
  \A s \in 0 .. SECTORS - 1 : IsNode(disk[s]) => disk[s].sector = s

\* No command but format, and no node however it was moved, is written over the
\* superblock, but for the sector number that mdir never sets.
SuperblockKept ==
  [][disk'[1] # disk[1] => op = "format" \/ Head(queue).what = Junk]_vars

\* shell/commands.hpp, of format: "Formats the device to get a PFS ready".  A disk
\* that was formatted, and no write or read of which failed, can be mounted.
FormatMakesReady ==
  formatted /\ faults = {} /\ op = "mount" => ~wild
=============================================================================
