# PerseOS in TLA+

A verification project for PerseOS, a 32-bit x86 kernel in C++ with a heap, a disk
driver, a text console, a shell, a RAM filesystem and a disk filesystem. The modules are
translated from the code; the README, comments and error texts of the repository are used
only as statements of what the program is meant to do.

Every module begins with a comment saying what it models and what it leaves out. History
variables, which the program does not have, are marked `history` where they are declared.
Definitions commented `Mutation:` are deliberately wrong variants of the definition after
them; they show that a property can fail, and no specification uses them.

## 1. The system

| Component | State | Operations |
|---|---|---|
| Kernel heap (`src/memory.cpp`) | the list of block headers behind `firstBlock` | `kmalloc`, `kfree`, `krealloc`, `heap_init` |
| Page allocator (`src/paging/paging.cpp`) | a bitmap of 16384 pages; a page table that maps 1024 | `paging_init`, `pmm_init`, `pmm_alloc_page`; `pmm_free_page` has no caller |
| Timer and interrupts (`src/timer`, `src/io`, `src/idt`) | `globalTime`, `localTimer`, the interrupt flag | tick, dispatch of IRQ 0 and 1 |
| ATA driver (`drivers/ATA/ATA.hpp`) | `device_found`, `identity_buf`; in the drive: status, command, address registers | `init`, `read28`, `write28` |
| Console (`drivers/vga`, `drivers/keyboard`) | cursor, 80x25 cells, `inputBuffer`, `input_length` | `putchar`, `eraseLast`, `clean_screen`, `readKey` |
| Shell (`shell/`) | the callback, `is_ramfs` | `shell_execute`, `cmd_cutter`, `tokenize`, the commands |
| RAM filesystem (`fs/ramfs.hpp`, `fs/fsnode.cpp`, `fs/fsresolver.cpp`) | the tree of `FSNode`s, `current` | mkdir, touch, cd, write, rm, rmdir, rename, copy, and commands that only read |
| Persistent filesystem (`fs/pfs.cpp`, `fs/fsnode.cpp`) | superblock, `PFSNode` tree, `lba`, the sectors | format, mount, create, mdir, open, ls, cat |
| Strings, `Stack` (`include/stack.hpp`) | a `Stack` of 64 folders inside `pwd` and `find` | conversions, byte copies; `push`, `pop` |
| Error reporting, exceptions, boot assembly | none that others read | |

**Who runs when.** There is one processor and no scheduler. `kernel_main` sets the machine
up, executes `sti`, creates the RAM filesystem, looks for a disk, prints its welcome,
installs `shell_execute` as the callback of Enter, prints the first prompt and loops for
ever. From `sti` on, the timer and the keyboard interrupt it. Every command runs *inside
the keyboard interrupt*, and interrupt gates keep all other interrupts off: commands are
atomic towards each other and towards the boot code, and **the timer does not advance while
a command runs**. What the boot code and the keyboard interrupt share is the console; the
heap is not shared, because before the callback is installed no key allocates, and after it
the boot code does not.

**How components interact.** Shell commands call the filesystems; these allocate nodes and
contents from the heap; the heap takes pages from the page allocator; the persistent
filesystem reads and writes sectors through the driver, which polls the drive and measures
its waits with `localTimer`. All are plain calls. The only shared state changed by two
activities is `x` and `y` of `vga.cpp`, and `inputBuffer` is written by keys only.

**What is hard.** The heap: any sequence of calls, walks in progress over a list that splits
and merges. The driver: a drive that answers early, late, never, with an error, or is still
busy with the command before; a timer that sometimes stands still. The console: keys in the
middle of the boot code's `putchar`, 16-bit arithmetic at the edges of the grid. The RAM
filesystem: recursion over a tree that is being destroyed or copied, `current` and other
pointers to nodes that commands free. The disk filesystem: two sectors that must change
together, a sector counter that moves, reads that fail silently.

`PROJECT.json` lists each hazard at its line, with the properties that cover it.

## 2. Modules

| Module | Models | State and actions in the code |
|---|---|---|
| `Allocator` | what callers of the heap are promised | abstract: `live` pointers with sizes; Grant, Resize, Release; `broken` |
| `Heap` | `memory.cpp` and the page allocator | `hdr` = the headers by address, `bitmap` = the pages taken, `cur`, `last` = the loops' cursors, `pc` = which loop. `KMalloc`, `KFree`, `Realloc*` start a call, `SearchHit`/`SearchMiss`/`Coalesce*` are one loop turn each, `GrowLinked`/`GrowOrphan`/`NoPage` the ends of an unsuccessful search; `NoPage` is `nullptr` (`OutOfMemory`), or a page fault when the page taken is not mapped (`GrowUnmapped`) |
| `HeapProofs` | theorems about `Heap` | |
| `Ata` | `ATA.hpp` from `sti` on, timer, drive | `pc` = the statement the processor is at, `masked` = interrupts off, `sr`, `cmd`, `reg` = the drive's status, command, address. One action per statement that touches a port (`OutPort` for those of `setLBAbits`); one loop turn of the two polling loops, the 256 words of a transfer and the set-up of IDENTIFY per step |
| `AtaProofs` | theorems about `Ata` | |
| `Console` | `vga.cpp`, `keyboard.cpp`, `shell_init`, `shell_execute`'s effect on line and screen | `x`, `y`, `cell`, `buffer`, `length`. `at` and `text` are the boot code inside `putchar`, statement by statement; each `Key*` is one run of `readKey` |
| `RamFS` | `ramfs.hpp`, `fsnode.cpp`, `fsresolver.cpp` (RAM half) | `node` = the `FSNode`s with their `first`, `next` and `parent` pointers, `current`; one action per command and outcome; `recursiveDestroy` and `cloneNode` loop turn by loop turn with a `stack` of activations |
| `Pfs` | `pfs.cpp`, and the PFS half of `fsnode.cpp` and `fsresolver.cpp` | `disk` = the sectors, `node` = the `PFSNode`s in memory, `superblock`, `root`, `lba` = the fields of `PFS`. A path is resolved a component per step (`Resolve*`), a folder loaded a sector per step (`Load*`), and what a command writes waits in `queue` and goes to the disk a sector per step (`WriteSector`). `Restart` may come between any two steps |
| `Shell` | `cmd_cutter`, `tokenize`, `intToString` | `args`, `argv`, `i`, `token`, `inQuotes` = the `ParsedCommand` and the locals of `tokenize`; one action per branch of its loops, one character per step; one digit per step in `intToString` |
| `ConsoleProofs`, `PfsProofs`, `ShellProofs` | theorems about these | |
| `RamListProofs` | what the linked lists of `RamFS` are: what its recursive definitions compute on them, and what each change of a pointer does to them | |
| `RamFSProofs`, `RamCopyProofs` | theorems about `RamFS`; the second, on top of the first, about the shape of what `copy` makes | |
| `MCHeap`, `MCAta`, `MCConsole`, `MCRamFS`, `MCPfs`, `MCShell` | instances for TLC | |

`Heap` implements `Allocator` through `Abs` (a block is mapped to the pointer its owner was
given, `b + HEADER_SIZE`, and `torn` to `broken`).

**Abstractions.** Heap: bytes of payload are not modelled, who owns them is; callers never ask
for 0 bytes, and `krealloc` has no caller in the tree (it is modelled all the same). Ata:
contents of sectors are not modelled; which command and which sector a transfer belongs to is.
The sector count is the same for every access and left out; IDENTIFY is set up in one step,
because the drive has no command to be busy with before it. The drive is external: a drive
that is busy or has data pending ignores registers and commands, an absent one reads 0, a
floating bus reads all ones. Console: colours are left out, a key is a character or a key
without one; the scrolling loop is one statement. RamFS: a path is a sequence of components, a
content is its length, names given to `rename` have no slash, the root's own name is not kept.
What pwd and find print of a node is the path `PathTo`, with what their `Stack` drops left out
of it. Pfs: a record is what `encodePFSNode` puts into a sector, without the fields nothing
reads (`file_size`, `extension`, `mode`, `parent_sector`); `current` always equals `root` and
is left out; nodes nothing points at any more are not counted against the memory; `kmalloc`
may refuse mount and a load their sector buffer at any time (`MountWithoutBuffer`,
`LoadWithoutBuffer`), the buffers of `encodePFSNode` and `decodeSuperblock` are taken to be
there. The empty path, which every command refuses at once, is not among the paths; "/" is the
one component "". A field of a node that the code has not set holds what the memory held: it
is `unset`, and takes a value when it is first read. A failed `read28` leaves the buffer as it
was and a failed `write28` the sector, since neither function reports anything: mount's buffer
then holds the sector read before, that of a list read on the previous node, but at the first
read of a list it holds whatever the heap left in it, an old record perhaps, and decoding that
is `wild`. Shell: letters that play no part in the parsing are a few; which command runs is
left out, but for a number it may print.

**How `Pfs` and `Ata` compose.** `Pfs` takes of the driver that a transfer either happens on
the sector asked for or not at all, and that the caller is not told which. The runs
`ata_sector` and `ata_wait` show where the driver breaks even that: the second of two writes
can go to the sector of the first, or to one that is neither, or never end. `Pfs` says what
the filesystem would do on a driver that keeps it.

**Undefined behaviour.** Where the code writes through a null pointer, past a buffer, a block
or a name, to an unmapped page, or goes on with a heap whose bytes have two owners or with a
freed `current`, nothing is known of what follows. The modules record the event (`wild`,
`torn`) and stutter, `Pfs` until the next restart; the invariants speak of the behaviour up to
it. Which events these are is part of section 3, because a reader should not take silence
about them for absence.

## 3. What the runs show

Passing runs:

| Run | Bounds | Shows |
|---|---|---|
| `heap` | 2 pages of 80 bytes and one past the map, requests of 1, 40, 72 | every sequence of calls keeps `Tiled`, `UsedIffOwned`, `Aligned`, `CopyFits`; `kmalloc` gives up or grows only when nothing fits; `kfree` leaves no two free neighbours; every call returns, up to a page fault or the first torn block; `Allocator` is implemented, with the mapped pages as its memory |
| `ata` | timeout of 2 ticks, sectors 0 and 257 and one out of range, three kinds of bus | a drive is found only when identified; no access is given up with an answer under way; transfers serve the running command; boot gets past the disk |
| `console` | 2x2 grid, buffer of 3, one character, two outputs and `clear` | the shell gets what was typed; the screen shows it; only backspace leaves the grid |
| `ramfs` | 3 nodes, a `Stack` of 2, 7 paths, content up to 2, 1 leaked node | the size of a content is its length; only a content that finds no memory leaves a size without it; paths printed of nodes no deeper than the `Stack` lead back; only rename makes two children of one name |
| `ramfs_tree` | 6 nodes, 3 paths | rm r and copy: lists sound at every loop turn, exactly the subtree removed, exactly the shape copied, both end |
| `pfs` | 6 nodes, 6 sectors, 3 disks, 4 paths, 2 changes, 1 kind of fault | only format writes the superblock; every node on the disk holds the number of its sector; a file created in a folder whose list is in memory is found from then on; sector 2 holds a folder when no command is writing, through failing reads, for as long as since the format no write was lost, no restart fell between two writes and mdir wrote nothing |
| `shell` | rows of 2 characters, 3 of them; lines of up to 9; ints of 8 bits | the arguments are those the line means; a missing quote is reported exactly when there is one; every line is served; every number is printed as it is |

Why the bounds are enough. *Heap*: a request of 40 leaves exactly the smallest block a split
can make, 1 is rounded up, 72 fits in no page but in two merged ones; two pages are the
fewest that let the heap grow, merge across pages and run out. The third page lies past the map, as 15360 of 16384
do in the code. So the exit for a full page allocator is not reached, here as in the code; it
changes nothing, and `HeapProofs` covers it. The arithmetic (header,
threshold, rounding) is the code's own, only the page is smaller; `HeapProofs` removes these
bounds. *Ata*: two ticks allow a tick before, between and after two polls; the sectors
differ in two of the four parts of an address, so a mixture of both is neither, and the bound
on sectors is the real one; `AtaProofs` removes these bounds. *Console*: with a prompt of one cell, two characters wrap, a third
scrolls, a backspace crosses a row, and the buffer fills; the cursor is a real 16-bit number.
`MAX_COLUMN` stops keys without a character, which never fill the buffer, from moving the
cursor for ever. *RamFS*: six nodes hold a folder with two children and its copy; `MAX_LEAKED`
bounds the nodes `mkdir` loses when a name is taken, `MAX_WRITTEN` and `MAX_LENGTH` contents. In `ramfs` the `Stack` holds
the longest way up that three nodes have, as 64 does in practice.
*Pfs*: the filled disk has a folder in the root, a file beside it and one below it, so lists
of one and two are loaded at two levels, and six nodes leave room for a file in each. Six
sectors put the last records of it out of range. `MAX_CHANGES` is how often create and mdir
write (two, so that the second meets what the first did), `MAX_FAULTS` how many kinds of
fault (a failed read, a lost write, a restart between two writes, a stray sector number) may
happen together; a fault may happen any number of times. `Unset` are the sector numbers
memory that was never set may hold: the superblock's, and one that is out of range.
*Shell*: `MCLines` holds every line of seven letters, spaces and quotes behind a command, so
arguments that are empty, full, too long and too many, quotes in any place, and lines too
long for `args`. The sizes are smaller than in `commands.hpp`; `INT_MAX` of 127 is the
largest int of eight bits, with the digits and the sign it needs.

Every safety property of these runs is also a theorem for all values of the constants
(section 4), so for them a run is the cheap way to find out that they hold, and what shows
that they can fail; only liveness rests on the bounds.

Fairness. `Heap` and `RamFS`: weak fairness of the running call's own steps, since a command
holds the processor with interrupts off. `Ata`: weak fairness of the processor and of the
timer's tick; the tick is enabled only while interrupts are. Nothing is assumed of the drive,
except in `ata_wait`, where it is assumed to finish what it has begun, which makes the
counterexample stronger. `Shell`: weak fairness of the parser's own steps (`Turn`), for the
same reason as `Heap`. `Pfs` states no liveness: its loops end only if the records on the disk
form no circle, which nothing checks. Nothing is assumed of the user.

Runs that end in a counterexample, each a disagreement between the code and what the
repository says of it (the quotes are in `PROJECT.json`):

| Run | Property | What happens |
|---|---|---|
| `heap_tear` | `FreeBytesUnowned` | the last block is free and too small: `kmalloc` enlarges it by a page and hands out that page (`memory.cpp:92-95`) |
| `ata_wait` | `WaitEnds` | a command sent to a drive still busy with the last flush is ignored, and the wait for it has no timeout because the timer is stopped |
| `ata_sector` | `WriteReachesSector` | the address of a second write is ignored by the busy drive, or its first parts are: the data goes to the sector of the first write, or to one whose number is made of both |
| `ramfs_current` | `CurrentExists` | rmdir or rm r of the folder the shell is in leaves `current` at freed memory |
| `pfs_ready` | `FormatMakesReady` | the root that format writes says it has children (`pfs.cpp:26`); the next mount decodes sector 0 as the first of them |

Found on the way and modelled, but without a run of their own:

* *Console.* A line that ends at the end of a row, and a backspace, put the cursor into
  column 65535 (`vga.cpp:83`); a character typed and erased before boot prints anything takes
  the row to 65535, and boot's first character faults; the 257th character of a line is
  written behind the buffer.
* *Heap.* `paging_init` maps 1024 pages, `pmm_alloc_page` hands out 16384: when the map is used
  up, `kmalloc` faults on the header of its new block and the machine halts; the exit for "Out
  of physical memory" (`memory.cpp:81`), which every caller tests for, is not reached. A
  request larger than a page less its header gets a block of one page (`memory.cpp:87`) and is
  written past it; appending to a file reaches such sizes (`ramfs.hpp:271`).
* *RamFS.* `rename` makes duplicate names (`OnlyRenameDuplicates` shows that nothing else
  does). When the content of a file is overwritten and the new one finds no memory, or when a
  copy's content finds none, the size stays: `size` prints it, `cat` prints "(Empty file)"
  (`OnlyFailureMisstates` shows that nothing else makes them differ; it takes a `kmalloc` that
  returns `nullptr`). More than 64 folders deep, `pwd` and `find` print a path without the
  folders next to the root, because a full `Stack` ignores what is pushed (`PathLeadsBack`
  leaves such nodes out). Names longer than a node's name field; `createNode` without memory; rmdir and rm r of
  the root.
* *Shell.* When a quoted argument is too long for its row, the quote that closes it no longer
  ends the argument, and a quote that opens while the rest is skipped is not seen as one:
  `TokensAgree` and `MissingQuoteTold` except what follows such an argument. A command word of
  32 characters, arguments of 224, a 16th argument and the least int are written or computed
  out of bounds (`wild`). A missing quote is raised with a null text (`commands.cpp:46`),
  and `string::empty()` is `length - 1`, true of every string but those of one character, so
  the text given with an error is hardly ever printed.
* *Pfs.* mdir never succeeds: `createPFSNode` links the new node itself, mdir then finds it
  and says that the folder exists, after a record with no name has gone to a sector whose
  number was never set. create in a folder whose list is not loaded is lost at the next load
  of that folder (`CreatedFound` is about the others). create does not enter the child into
  its parent's record, so a created file cannot be reached after the next mount, although the
  README of the repository speaks of a "permanent hard disk filesystem". mount sets `lba` to
  2, so the first records written after it overwrite those that are there. A sibling's record
  on the disk names the sector that the parent's copy goes to. ls does not load the folder it
  lists. A read that fails in the middle of a list decodes the sector before it once more.
  create, mdir and open are members of `PFS` that no command calls yet; format, mount and ls
  are commands.

Seen in the code but not modelled: `pmm_init` keeps only the pages below 1 MiB from the heap,
while `linker.ld` puts the kernel at 1 MiB, so the heap's first pages are the kernel's own
(`paging.cpp:28`); after a mount that failed, `is_ramfs` is false all the same
(`commands.hpp:57-60`).

## 4. What is proved

`HeapProofs`, for every page size and header size that are multiples of 8, every number of
pages, as many of them mapped as may be, and every set of positive request sizes (`PageAssumption`, `PmmAssumption`,
`RequestsAssumption`):

* `Inductive`: `IInv` holds in every reachable state. The invariants themselves are not
  inductive: that the list tiles the heap does not survive a step of a walk unless the walk's
  cursors are known to be on the list. `IInv` adds `PagesInOrder` (the bitmap is an initial
  segment, so a new page starts where the heap ends), `SearchInv` (`cur` and `last` are
  neighbours on the list, everything before `cur` does not fit) and `CoalesceInv` (everything
  before `cur` is merged).
* `TypeCorrect`, `TiledAlways`, `OwnershipExact`, `CopyInBounds` follow from it;
  `SearchComplete` and `CoalesceComplete` are action properties, from `SearchInv` and
  `CoalesceInv` at the walk's end; `AlignedAlways` has an invariant of its own on addresses
  and sizes modulo 8.
* `HeapImplementsAllocator`: `Spec => ImplementsAllocator`. Each action maps to Grant, Resize,
  Release, Break or a stutter; that a granted region meets no other is tiling plus ownership, and that it is mapped is the
  guard of the two actions that grow the list.

`AtaProofs`, for every timeout, sector bound and set of sectors (`AtaAssumption`):

* `DriverInductive`: `AInv` holds. It ties the drive's command to the place of the processor
  (`AccessInv`), interrupts to being outside a command (`WaitInv`, which is where a stopped
  timer enters the argument) and the local `status` to the drive (`IdentifyInv`).
* `IdentifiedAlways`, `NoAnswerOutlivesAccess`, `TransfersServed` follow from it. The second
  holds *because* the timer is stopped during commands, and `ata_wait` shows the price.

* `TypesKept`: `TypeOK`; that no access runs on a sector out of range is part of it.

`ConsoleProofs`, for every grid, buffer size and set of characters (`ConsoleAssumption`, which
asks for a grid and a buffer small against 2^16, so that no line is long enough for
backspaces to take the 16-bit cursor once around; 80x25 and 256 are):

* `BufferHoldsLine`: `LineInv`, which ties `buffer` up to `length` to what was typed and not
  erased. It is independent of the cursor, so nothing about the screen is needed.
* `LineReaches`: `LineGiven`, since Enter ends the string where the line ends.
* `ConsoleTypes`: `TypeOK`, from `ScreenInv`, which also says that the boot code inside
  `putchar` has a character to print.
* `OnlyEraseLeavesGridAlways`: `OnlyEraseLeavesGrid`, for outputs of any length.
* `EchoAlways`: `EchoMatches`. The property is about a line within one row, but rows are wrapped,
  scrolled and erased on the way to it; `EchoInv` sees the grid as one row of cells and says
  that the cells before the cursor are those of the line (`Matched`), which scrolling shifts
  and wrapping leaves alone. After a backspace at the left edge the cursor is far from the
  grid, and what is typed from there on is not on the screen (`Lost`). `EarlyInv` keeps lines
  begun during boot apart.

`PfsProofs`, for every number of nodes and sectors, every disk content, every set of paths and
of unset sector numbers (`PfsAssumption`):

* `PfsInductive`: `PInv`. `TypeOK` is not inductive: that a load decodes into a node of the
  right type needs that `at` and `tail` are nodes in memory at the places where a command uses
  them (`PlaceInv`), and that no node ever gets the superblock's number needs that `lba` has
  been moved on before there is a node at all (`MemoryInv`, with `Tree`: nodes are well formed,
  and there are some only under a root). `QueueInv` says that every sector a command will
  write is 2 or above, or is written by format, or holds the junk of mdir. `OtherInv` is the
  types of the rest.
* `PfsTypes` and `SuperblockStays` follow from it.
* `RootInductive`: `RInv`, under an assumption about the disk that is put in as well
  (`DisksAssumption`: its nodes hold the numbers of their sectors, and behind a superblock
  there is a folder in sector 2, as this program writes them). mount sets `lba` to the root's
  own sector, so the first create writes its parent there, and a create that appends writes
  the new *file* there first and the parent over it. `RootInv` says what survives this: of the
  writes that still go to sector 2 the last is a folder's. That needs to know that makers are
  at folders and that a node which holds number 2 is one (`FoldersInv`), and because nodes are
  read from the disk, that their number is their place (`OwnInv`). `FormatInv` keeps format's
  writes apart from those of a mounted tree.
* `RecordsStay` (`RecordsInPlace`, through any fault) and `RootStays` (`RootSectorIsFolder`)
  follow from it. The second is about histories in which, since the format, nothing but reads
  failed: a lost write, a restart between two writes and the sector number mdir never sets
  can each leave sector 2 without a folder, and the code has no recovery.
* `CreatedFoundAlways`: `CreatedFound`, on top of `PInv`. `FoundInv` says that from a folder
  with its list in memory every pointer on the way to a file that was made is set, and that no
  node before it has its name. Its other half is about a create that runs: what it has looked
  through does not have the name, so a file behind the last child comes after all of that. A
  step changes a pointer only where none was set (`Grows`), except for the first child of a
  folder whose list is being loaded, and a folder in which a file was made is none
  (`FirstKept`). The model follows a list for `NODES` steps; that a list with an end is not
  longer is the pigeonhole argument of `ListEnds`.

`ShellProofs`, for every line, every size of the arrays and every int (`ShellAssumption`):

* `ShellInductive`: `SInv`, which is `TypeOK` and that `argv` has a free row whenever a token
  is under way (`RowInv`); `ArgumentsFit` is `TypeOK`: each argument and its end fit a row.
* `TokensAgreeAlways` and `MissingQuoteToldAlways`: the meaning of a line is defined from the
  line alone (which characters are quoted, where arguments begin). `ParseInv` says that the
  parser, at its position, has the arguments that begin before it and knows whether it is
  inside quotes (`Synced`), until it meets an argument too long for its row, which then has
  its row or will have it (`Overrun`).
* `DigitsTellAlways`: `DigitsTell`. Dividing goes downwards and the value of digits is summed
  upwards, so `DividedInv` keeps all the values between, from the number to what is left of
  it; `RoomInv` says that what is left is small enough for the room left. The buffer is
  assumed to hold a sign, the digits of the largest int and the final 0, as the 12 bytes in
  `string.cpp` do.

`RamFSProofs`, for every number of nodes, every set of paths, names and lengths
(`RamFSAssumption`), at every loop turn of rm and copy:

* `RamInductive`: `Inv`, that there is a time `age` at which each node was made such that
  `IInv(age)` holds. That lists end is not inductive, since it speaks of whole lists while a
  step changes one pointer. `IInv` speaks of one pointer at a time: what `firstChild` and
  `nextSibling` point at is allocated, has the right parent, is pointed at once only and was
  made later. Beyond that it says what the running command is at. `DestroyOk`: every
  activation of `recursiveDestroy` stands at the first child its folder has left. `Removing`:
  what has still to be freed is the folder and what is below it. `ClonesOk`: every activation
  of `cloneNode` holds a copy nobody points at yet, with its list ending at `lastCopy`.
  `DestOk` and `NamesCopied`: the place the copy will take is still free when it is taken, and
  the names in each copied list are those of the original.
* `RamTypes` (`TypeOK`: there are never more activations than nodes), `ContentSizedAlways`,
  `OnlyFailureMisstatesAlways`, `ListsSoundAlways`, `RemovedExactlyAlways` and
  `OnlyRenameDuplicatesAlways` follow from it. The first two are about sizes: that of a content
  is its length always; that of a node without content is 0 until an allocation for a content
  fails.
* `PathLeadsBackAlways`: `PathLeadsBack`, for a `Stack` of every size and the nodes it can hold
  the way up of, under the hypothesis that rename is not given "." or "..". The code does not test for that, and the path printed for such a node leads
  elsewhere. No other command can give these names, since in a path they are steps.

`RamCopyProofs`, under the same assumption:

* `CopyInductive`: `CopyInv`. While copy runs, the nodes made so far correspond to originals,
  and each finished pointer leads to the copy of what its original points at (`Copied`); the
  originals keep their shape, also when a folder is copied into itself, because the copy is
  linked in only when it is complete.
* `CopyExactAlways`: `CopyExact`, since two nodes whose pointers correspond like that have the
  same shape (`SameShape`).

Induction is not available in the form the library offers it (its induction theorems take an
operator as parameter, which the provers cannot instantiate). Where a proof needs it, for a
text that is printed, a list, a path, a shape or the digits of a number, the module argues by
a least counterexample: a set of naturals that is not empty has a least element (`Least`),
from the library's theorem that `<` is well founded.

Only model-checked: liveness (`CallReturns`, `BootReturns`, `CommandReturns`, `LineServed`),
since reasoning from fairness needs ENABLED, which the prover does not treat. Every other
property of the passing runs is a theorem.

## 5. What is left

The plan was: `Heap` with `Allocator`, then `Ata`, `Console`, `RamFS`, `Pfs`, `Shell`, in the
order of what can go wrong most; each with its run first and its proofs after it. All of it is
done. What could still be added: an abstract tree that both filesystems implement, once `mdir`
of the disk filesystem works; the composition of `Pfs` with `Ata` itself instead of with what
it promises.

Not modelled, and why:

* page tables, CR0 and CR3: the set-up before anything runs concurrently. How many pages
  `paging_init` maps is `MAPPED`;
* the exception handlers: every exception prints and halts;
* boot assembly, GDT, PIC and IDT encoding: straight-line set-up;
* error records (`error.hpp`): they are formatted and printed, nothing reads them;
* strings but for `intToString`;
* the dispatch of commands (a table lookup by name) and the commands that only print;
  `is_ramfs`, which only ls reads;
* `globalTime`, which is only printed;
* `freePFSNode` and `pmm_free_page`, which have no caller.

## 6. Running it

    tlc -config heap.cfg MCHeap.tla          # likewise the other pairs in PROJECT.json
    tlapm HeapProofs.tla                     # and the other modules named *Proofs
