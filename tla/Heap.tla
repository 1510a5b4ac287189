-------------------------------- MODULE Heap --------------------------------
(***************************************************************************)
(* The kernel heap (src/memory.cpp, include/memory.hpp) on top of the      *)
(* page allocator (src/paging/paging.cpp, include/paging/paging.hpp).      *)
(*                                                                         *)
(* The loops of kmalloc and kfree are modelled one iteration a step, with  *)
(* the code's own cursors `current` and `last`, so that what holds in the  *)
(* middle of a walk is part of the invariants.  One call runs at a time:   *)
(* interrupts enter the heap only once the boot code has stopped using it. *)
(*                                                                         *)
(* Memory is the set of headers on the list; payload bytes are abstracted. *)
(* Addresses are natural numbers and nullptr is 0, as in the code.         *)
(***************************************************************************)
EXTENDS Integers

CONSTANTS
  PAGE_SIZE,      \* 4096 in the code
  HEADER_SIZE,    \* sizeof(BlockHeader) rounded up to 8: 16 in the code
  RESERVED,       \* pages pmm_init keeps from the heap: 256 in the code
  TOTAL,          \* pages pmm_init knows of: 16384 in the code
  MAPPED,         \* pages paging_init maps: 1024 in the code
  Requests        \* the sizes callers ask for

ASSUME PageAssumption ==
  /\ PAGE_SIZE \in Nat /\ PAGE_SIZE % 8 = 0
  /\ HEADER_SIZE \in Nat \ {0} /\ HEADER_SIZE % 8 = 0
  /\ PAGE_SIZE > HEADER_SIZE

ASSUME PmmAssumption ==
  /\ RESERVED \in Nat \ {0} /\ TOTAL \in Nat
  /\ MAPPED \in Nat /\ RESERVED < MAPPED /\ MAPPED <= TOTAL

ASSUME RequestsAssumption == Requests \subseteq Nat \ {0}

VARIABLES
  bitmap,   \* pages whose bit is set in the page allocator's bitmap
  hdr,      \* the block headers, by address
  live,     \* history: bytes asked for, by block handed out and not freed
  pc,       \* where the running call is, "idle" when no call runs
  ask,      \* the running kmalloc's argument
  cur,      \* the running loop's `current`
  last,     \* kmalloc's `last`
  old,      \* the block krealloc is moving away from, or NULL
  torn      \* history: some owner's bytes are no longer its own, or a page fault
            \* has halted the machine

vars == <<bitmap, hdr, live, pc, ask, cur, last, old, torn>>

NULL == 0

PageAddr(p) == p * PAGE_SIZE

\* The page loop of pmm_alloc_page: the lowest page whose bit is clear, or
\* TOTAL when the loop runs to its end.
FirstClear ==
  CHOOSE i \in 0 .. TOTAL : i \notin bitmap /\ \A j \in 0 .. (i - 1) : j \in bitmap

\* `firstBlock` is assigned once, by heap_init, from the first page that
\* pmm_init leaves clear.
FirstBlock == PageAddr(RESERVED)

\* Mutation: no rounding.
AlignNot(n) == n

Align(n) == ((n + 7) \div 8) * 8

\* One past the last payload byte of block b, as its header in h has it.
End(h, b) == b + HEADER_SIZE + h[b].size

\* The part of memory h after block b has been cut to n bytes when the rest
\* can hold a header and 8 bytes; the rest becomes a free block after it.
Split(h, b, n) ==
  LET rest == b + HEADER_SIZE + n
  IN  IF h[b].size >= n + HEADER_SIZE + 8
      THEN [a \in DOMAIN h \cup {rest} |->
              IF a = b    THEN [size |-> n, free |-> h[b].free, next |-> rest]
              ELSE IF a = rest
                          THEN [size |-> h[b].size - n - HEADER_SIZE,
                                free |-> TRUE, next |-> h[b].next]
              ELSE h[a]]
      ELSE h

\* Mutation: the block handed out stays marked free.
AllocateStillFree(h, b, n) == Split(h, b, n)

AllocateFromBlock(h, b, n) == [Split(h, b, n) EXCEPT ![b].free = FALSE]

\* Mutation: the swallowed header is not counted.
MergeWithoutHeader(h, b) ==
  LET gone == h[b].next
  IN  [a \in DOMAIN h \ {gone} |->
         IF a = b THEN [h[b] EXCEPT !.size = @ + h[gone].size, !.next = h[gone].next]
         ELSE h[a]]

\* Block b has taken in its list successor.
Merge(h, b) ==
  LET gone == h[b].next
  IN  [a \in DOMAIN h \ {gone} |->
         IF a = b THEN [h[b] EXCEPT !.size = @ + HEADER_SIZE + h[gone].size,
                                    !.next = h[gone].next]
         ELSE h[a]]

Without(f, x) == [a \in DOMAIN f \ {x} |-> f[a]]

\* Mutations: an exact fit is refused; the size is not looked at.
FitsStrictly(b) == hdr[b].free /\ hdr[b].size > Align(ask)
FitsAny(b) == hdr[b].free

Fits(b) == hdr[b].free /\ hdr[b].size >= Align(ask)

-----------------------------------------------------------------------------
\* The state heap_init leaves after pmm_init: one page, one free block.
Init ==
  /\ bitmap = 0 .. RESERVED
  /\ hdr = [a \in {FirstBlock} |->
              [size |-> PAGE_SIZE - HEADER_SIZE, free |-> TRUE, next |-> NULL]]
  /\ live = [b \in {} |-> 0]
  /\ pc = "idle" /\ ask = 0 /\ cur = NULL /\ last = NULL /\ old = NULL
  /\ torn = FALSE

\* A call starts the search of kmalloc(n) on behalf of krealloc(b) (b # NULL)
\* or of a caller.
StartSearch(n, b) ==
  /\ pc' = "search" /\ ask' = n /\ cur' = FirstBlock /\ last' = NULL /\ old' = b
  /\ UNCHANGED <<bitmap, hdr, live, torn>>

Idle == pc' = "idle" /\ ask' = 0 /\ cur' = NULL /\ last' = NULL /\ old' = NULL

\* kmalloc returns block b: to its caller, or into krealloc's memcpy.
ReturnBlock(b) ==
  /\ live' = [a \in DOMAIN live \cup {b} |-> IF a = b THEN ask ELSE live[a]]
  /\ IF old = NULL
     THEN Idle
     ELSE pc' = "copy" /\ cur' = b /\ last' = NULL /\ UNCHANGED <<ask, old>>

KMalloc(n) == pc = "idle" /\ ~torn /\ StartSearch(n, NULL)

SearchHit ==
  /\ pc = "search" /\ ~torn /\ cur # NULL
  /\ Fits(cur)
  /\ hdr' = AllocateFromBlock(hdr, cur, Align(ask))
  /\ ReturnBlock(cur)
  /\ UNCHANGED <<bitmap, torn>>

SearchMiss ==
  /\ pc = "search" /\ ~torn /\ cur # NULL
  /\ ~Fits(cur)
  /\ last' = cur /\ cur' = hdr[cur].next
  /\ UNCHANGED <<bitmap, hdr, live, pc, ask, old, torn>>

\* pmm_alloc_page returns 0: kmalloc returns nullptr, and so does krealloc.
OutOfMemory ==
  /\ pc = "search" /\ ~torn /\ cur = NULL
  /\ FirstClear = TOTAL
  /\ Idle
  /\ UNCHANGED <<bitmap, hdr, live, torn>>

\* kmalloc takes one page and makes a block of it, whatever size was asked.
NewPageBlock(h) ==
  [a \in DOMAIN h \cup {PageAddr(FirstClear)} |->
     IF a = PageAddr(FirstClear)
     THEN [size |-> PAGE_SIZE - HEADER_SIZE, free |-> TRUE, next |-> NULL]
     ELSE h[a]]

\* Mutation: one page more than there is, as `i <= total_pages` would take.
GrowPastEnd ==
  /\ pc = "search" /\ ~torn /\ cur = NULL
  /\ FirstClear <= TOTAL
  /\ ~hdr[last].free
  /\ LET b == PageAddr(FirstClear)
         h == [NewPageBlock(hdr) EXCEPT ![last].next = b]
     IN  hdr' = AllocateFromBlock(h, b, Align(ask)) /\ ReturnBlock(b)
  /\ bitmap' = bitmap \cup {FirstClear}
  /\ torn' = (Align(ask) > PAGE_SIZE - HEADER_SIZE)

\* The list ends in a used block: the new block is linked behind it.
GrowLinked ==
  /\ pc = "search" /\ ~torn /\ cur = NULL
  /\ FirstClear < MAPPED
  /\ ~hdr[last].free
  /\ LET b == PageAddr(FirstClear)
         h == [NewPageBlock(hdr) EXCEPT ![last].next = b]
     IN  hdr' = AllocateFromBlock(h, b, Align(ask)) /\ ReturnBlock(b)
  /\ bitmap' = bitmap \cup {FirstClear}
  /\ torn' = (Align(ask) > PAGE_SIZE - HEADER_SIZE)

\* The list ends in a free block: the code adds the page to that block's
\* size, and hands the page out without linking it.
GrowOrphan ==
  /\ pc = "search" /\ ~torn /\ cur = NULL
  /\ FirstClear < MAPPED
  /\ hdr[last].free
  /\ LET b == PageAddr(FirstClear)
         h == [NewPageBlock(hdr) EXCEPT ![last].size = @ + HEADER_SIZE + PAGE_SIZE]
     IN  hdr' = AllocateFromBlock(h, b, Align(ask)) /\ ReturnBlock(b)
  /\ bitmap' = bitmap \cup {FirstClear}
  /\ torn' = TRUE

\* The page taken is not mapped: the first write to the new header faults, and
\* isr_handler halts the machine with kmalloc under way.
GrowUnmapped ==
  /\ pc = "search" /\ ~torn /\ cur = NULL
  /\ FirstClear < TOTAL /\ FirstClear >= MAPPED
  /\ bitmap' = bitmap \cup {FirstClear}
  /\ torn' = TRUE
  /\ UNCHANGED <<hdr, live, pc, ask, cur, last, old>>

\* No page is left that can be used.
NoPage == IF FirstClear = TOTAL THEN OutOfMemory ELSE GrowUnmapped

-----------------------------------------------------------------------------
\* kfree(ptr): the header is marked, then the whole list is walked.
StartFree(b) ==
  /\ hdr' = [hdr EXCEPT ![b].free = TRUE]
  /\ live' = Without(live, b)
  /\ pc' = "coalesce" /\ cur' = FirstBlock /\ last' = NULL /\ ask' = 0 /\ old' = NULL
  /\ UNCHANGED <<bitmap, torn>>

\* Also krealloc(ptr, 0), which is kfree(ptr).
KFree(b) == pc = "idle" /\ ~torn /\ StartFree(b)

\* Mutation: the walk goes on after a merge, as without the `continue`.
CoalesceMergeAndStep ==
  /\ pc = "coalesce" /\ ~torn /\ cur # NULL
  /\ hdr[cur].next # NULL
  /\ hdr[cur].free /\ hdr[hdr[cur].next].free
  /\ hdr' = Merge(hdr, cur)
  /\ cur' = hdr'[cur].next
  /\ UNCHANGED <<bitmap, live, pc, ask, last, old, torn>>

CoalesceMerge ==
  /\ pc = "coalesce" /\ ~torn /\ cur # NULL
  /\ hdr[cur].next # NULL
  /\ hdr[cur].free /\ hdr[hdr[cur].next].free
  /\ hdr' = Merge(hdr, cur)
  /\ UNCHANGED <<bitmap, live, pc, ask, cur, last, old, torn>>

\* Mutation: the walk does not move.
CoalesceStay ==
  /\ pc = "coalesce" /\ ~torn /\ cur # NULL
  /\ hdr[cur].next # NULL
  /\ ~(hdr[cur].free /\ hdr[hdr[cur].next].free)
  /\ UNCHANGED vars

CoalesceStep ==
  /\ pc = "coalesce" /\ ~torn /\ cur # NULL
  /\ hdr[cur].next # NULL
  /\ ~(hdr[cur].free /\ hdr[hdr[cur].next].free)
  /\ cur' = hdr[cur].next
  /\ UNCHANGED <<bitmap, hdr, live, pc, ask, last, old, torn>>

CoalesceDone ==
  /\ pc = "coalesce" /\ ~torn
  /\ ~(cur # NULL /\ hdr[cur].next # NULL)
  /\ Idle
  /\ UNCHANGED <<bitmap, hdr, live, torn>>

-----------------------------------------------------------------------------
\* krealloc(ptr, n) on a live block, n # 0: it fits where it is...
ReallocInPlace(b, n) ==
  /\ pc = "idle" /\ ~torn
  /\ Align(n) <= hdr[b].size
  /\ hdr' = Split(hdr, b, Align(n))
  /\ live' = [live EXCEPT ![b] = n]
  /\ UNCHANGED <<bitmap, pc, ask, cur, last, old, torn>>

CanAbsorb(b, n) ==
  /\ hdr[b].next # NULL
  /\ hdr[hdr[b].next].free
  /\ hdr[b].size + HEADER_SIZE + hdr[hdr[b].next].size >= n

\* ... or with its free successor ...
ReallocAbsorb(b, n) ==
  /\ pc = "idle" /\ ~torn
  /\ Align(n) > hdr[b].size
  /\ CanAbsorb(b, n)
  /\ hdr' = Merge(hdr, b)
  /\ live' = [live EXCEPT ![b] = n]
  /\ UNCHANGED <<bitmap, pc, ask, cur, last, old, torn>>

\* Mutation: the test of line 159 is missing and every block is moved.
ReallocMoveAlways(b, n) ==
  /\ pc = "idle" /\ ~torn
  /\ ~CanAbsorb(b, n)
  /\ StartSearch(n, b)

\* ... or has to move.
ReallocMove(b, n) ==
  /\ pc = "idle" /\ ~torn
  /\ Align(n) > hdr[b].size
  /\ ~CanAbsorb(b, n)
  /\ StartSearch(n, b)

\* memcpy(new_ptr, ptr, current->size), then kfree(ptr).
ReallocCopy == pc = "copy" /\ ~torn /\ StartFree(old)

-----------------------------------------------------------------------------
\* What the C++ does with a torn heap is undefined, and a halted machine does
\* nothing: the model stays there.
Undefined == torn /\ UNCHANGED vars

\* The steps of the running call; the processor takes them one by one.
Running ==
  \/ SearchHit \/ SearchMiss \/ GrowLinked \/ GrowOrphan \/ NoPage
  \/ CoalesceMerge \/ CoalesceStep \/ CoalesceDone
  \/ ReallocCopy

Next ==
  \/ \E n \in Requests : KMalloc(n)
  \/ \E b \in DOMAIN live : KFree(b)
  \/ \E b \in DOMAIN live, n \in Requests :
        ReallocInPlace(b, n) \/ ReallocAbsorb(b, n) \/ ReallocMove(b, n)
  \/ Running
  \/ Undefined

Spec == Init /\ [][Next]_vars

FairSpec == Spec /\ WF_vars(Running)

-----------------------------------------------------------------------------
(***************************************************************************)
(* Properties.                                                             *)
(***************************************************************************)
Pcs == {"idle", "search", "copy", "coalesce"}

Header == [size : Nat, free : BOOLEAN, next : Nat]

\* The variables have the types the C++ declares for them, and the history
\* variable `live` speaks of requests only.
TypeOK ==
  /\ bitmap \subseteq 0 .. (TOTAL - 1)
  /\ DOMAIN hdr \subseteq Nat /\ hdr \in [DOMAIN hdr -> Header]
  /\ DOMAIN live \subseteq Nat /\ live \in [DOMAIN live -> Requests]
  /\ pc \in Pcs /\ ask \in Requests \cup {0}
  /\ cur \in Nat /\ last \in Nat /\ old \in Nat
  /\ torn \in BOOLEAN

HeapEnd == PageAddr(FirstClear)

\* The blocks of h cover the bytes from the first page up to e, one after the
\* other, and `next` follows them.
Tiles(h, e) ==
  /\ FirstBlock \in DOMAIN h
  /\ \A b \in DOMAIN h :
       /\ FirstBlock <= b /\ End(h, b) <= e
       /\ IF End(h, b) = e THEN h[b].next = NULL
          ELSE h[b].next = End(h, b) /\ End(h, b) \in DOMAIN h
  /\ \A a, b \in DOMAIN h : a < b => End(h, a) <= b

\* The list the walks of memory.cpp follow through `next` is the heap: in
\* address order, block after block with neither gap nor overlap, from the
\* first page to the end of the last page taken.  No memory is ever lost to
\* the list, and merging list neighbours merges memory neighbours.
Tiled == ~torn => Tiles(hdr, HeapEnd)

\* A block is marked used exactly while a caller owns it, and is at least as
\* large as its owner asked for: the free bit of allocateFromBlock, kfree and
\* krealloc is never stale, so no block is handed out twice or lost.
UsedIffOwned ==
  ~torn =>
    /\ DOMAIN live = {b \in DOMAIN hdr : ~hdr[b].free}
    /\ \A b \in DOMAIN live : live[b] <= hdr[b].size

\* "Align every allocation to 8 bytes" (memory.cpp:37), through every split,
\* merge and resize.
Aligned == ~torn => \A b \in DOMAIN live : (b + HEADER_SIZE) % 8 = 0

\* While krealloc copies, the old block is still its caller's and the whole
\* of it, current->size bytes, goes into the new one.
CopyFits ==
  pc = "copy" /\ ~torn =>
    /\ {old, cur} \subseteq DOMAIN live /\ old # cur
    /\ hdr[old].size <= hdr[cur].size

\* kmalloc takes a page, mapped or not, or returns nullptr, only when no block
\* of the heap is free and large enough: its walk has missed none.
NoBlockMissed ==
  [][GrowLinked \/ GrowOrphan \/ NoPage =>
       \A b \in DOMAIN hdr : hdr[b].free => hdr[b].size < Align(ask)]_vars

\* When kfree (or krealloc's kfree) returns, no two list neighbours are both
\* free, whatever splits of earlier calls have left behind.
CoalescedOnReturn ==
  [][CoalesceDone =>
       \A b \in DOMAIN hdr :
         hdr[b].free /\ hdr[b].next # NULL => ~hdr[hdr[b].next].free]_vars

\* Every call of the heap returns: no walk goes round in circles.
CallReturns == pc # "idle" ~> pc = "idle" \/ torn

\* The blocks of f by the pointer their owner was given.
ByPointer(f) ==
  [p \in {b + HEADER_SIZE : b \in DOMAIN f} |-> f[p - HEADER_SIZE]]

\* The heap keeps the promise of Allocator.tla until it is torn, out of the
\* memory that is mapped.
Abs == INSTANCE Allocator WITH
         Memory  <- FirstBlock .. (PageAddr(MAPPED) - 1),
         Lengths <- Requests,
         live    <- ByPointer(live),
         broken  <- torn

ImplementsAllocator == Abs!Spec

\* What the list is for ("Is this current free and large enough?",
\* memory.cpp:64): the bytes of a block marked free belong to nobody.
FreeBytesUnowned ==
  \A f \in DOMAIN hdr : hdr[f].free =>
    \A b \in DOMAIN live : b >= End(hdr, f) \/ f >= b + HEADER_SIZE + live[b]
=============================================================================
