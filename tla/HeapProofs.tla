----------------------------- MODULE HeapProofs -----------------------------
(***************************************************************************)
(* Proofs about Heap.tla, for every page size, header size, number of      *)
(* pages and set of requests that its assumptions allow.                   *)
(*                                                                         *)
(* The lemmas on the operators come first: what cutting a block, merging   *)
(* two blocks and adding a page do to a list that tiles the heap.  IInv    *)
(* then adds to the checked invariants what the running call knows of the  *)
(* list at each of its steps, which is what makes them inductive.          *)
(***************************************************************************)
EXTENDS Heap, TLAPS

Headers(h) == DOMAIN h \subseteq Nat /\ h \in [DOMAIN h -> Header]

-----------------------------------------------------------------------------
(***************************************************************************)
(* Arithmetic.                                                             *)
(***************************************************************************)

\* Page addresses (the product of paging.cpp:37) are natural numbers, one
\* page apart, and increase with the page.
LEMMA PageAddrType == \A p \in Nat : PageAddr(p) \in Nat
  BY PageAssumption DEF PageAddr

\* The next page begins where a page ends.
LEMMA PageAddrNext == \A p \in Nat : PageAddr(p + 1) = PageAddr(p) + PAGE_SIZE
  BY PageAssumption DEF PageAddr

\* A later page is at a higher address.
LEMMA PageAddrMonotone ==
  ASSUME NEW p \in Nat, NEW q \in Nat, p <= q
  PROVE  PageAddr(p) <= PageAddr(q)
<1>1. PICK d \in Nat : q = p + d
  <2>1. q - p \in Nat /\ q = p + (q - p)
    OBVIOUS
  <2> QED BY <2>1
<1>2. PageAddr(q) = PageAddr(p) + d * PAGE_SIZE
  BY <1>1, PageAssumption DEF PageAddr
<1>3. d * PAGE_SIZE \in Nat
  BY PageAssumption
<1> QED BY <1>2, <1>3, PageAddrType

\* firstBlock is a real address: never nullptr.
LEMMA FirstBlockPositive == FirstBlock \in Nat /\ FirstBlock > NULL
<1>1. PageAddr(1) <= FirstBlock
  BY PageAddrMonotone, PmmAssumption DEF FirstBlock
<1>2. PageAddr(1) = PAGE_SIZE
  BY PageAssumption DEF PageAddr
<1> QED BY <1>1, <1>2, PageAddrType, PageAssumption, PmmAssumption DEF FirstBlock, NULL

\* The rounding of kmalloc never loses a byte.
LEMMA AlignUp == \A n \in Nat : Align(n) \in Nat /\ n <= Align(n) /\ Align(n) % 8 = 0
  BY DEF Align

\* FirstClear as a function of the bitmap.
FirstClearIn(B) ==
  CHOOSE i \in 0 .. TOTAL : i \notin B /\ \A j \in 0 .. (i - 1) : j \in B

\* The page loop of pmm_alloc_page stops at the number of pages taken when
\* these are the lowest ones.
LEMMA FirstClearIs ==
  ASSUME NEW k \in 0 .. TOTAL
  PROVE  FirstClearIn(0 .. (k - 1)) = k
<1> DEFINE B == 0 .. (k - 1)
<1> DEFINE P(i) == i \notin B /\ \A j \in 0 .. (i - 1) : j \in B
<1>1. P(k)
  BY PmmAssumption
<1>2. \A i \in 0 .. TOTAL : P(i) => i = k
  <2> SUFFICES ASSUME NEW i \in 0 .. TOTAL, P(i), i # k PROVE FALSE
    OBVIOUS
  <2>1. i >= k
    BY PmmAssumption
  <2>2. k \in 0 .. (i - 1)
    BY <2>1, PmmAssumption
  <2>3. k \in B
    BY <2>2
  <2> QED BY <2>3, PmmAssumption
<1> DEFINE c == FirstClearIn(B)
<1>3. c \in 0 .. TOTAL /\ P(c)
  BY <1>1 DEF FirstClearIn
<1> QED BY <1>2, <1>3

-----------------------------------------------------------------------------
(***************************************************************************)
(* The list.                                                               *)
(***************************************************************************)

\* Marking blocks free or used moves no block: a list that differs in its
\* free bits only tiles the same bytes.
LEMMA FreeBitsKeepTiling ==
  ASSUME NEW h, NEW g, NEW e, Tiles(h, e),
         DOMAIN g = DOMAIN h,
         \A a \in DOMAIN h : g[a].size = h[a].size /\ g[a].next = h[a].next
  PROVE  Tiles(g, e)
<1>1. \A a \in DOMAIN h : End(g, a) = End(h, a)
  BY DEF End
<1> QED BY <1>1 DEF Tiles

\* Where a block of a tiling ends another begins, unless it is the last.
LEMMA TilingOrder ==
  ASSUME NEW h, Headers(h), NEW e \in Nat, Tiles(h, e), NEW b \in DOMAIN h
  PROVE  /\ End(h, b) \in Nat /\ End(h, b) > b /\ End(h, b) <= e
         /\ b \in Nat /\ b # NULL /\ FirstBlock <= b
         /\ h[b].next = NULL <=> End(h, b) = e
         /\ h[b].next # NULL => /\ h[b].next = End(h, b)
                                /\ h[b].next \in DOMAIN h
         /\ \A a \in DOMAIN h : a # b => End(h, a) # End(h, b)
         /\ \A a \in DOMAIN h : a < End(h, b) => a <= b
<1>1. h[b].size \in Nat /\ b \in Nat /\ End(h, b) \in Nat /\ End(h, b) > b
  BY PageAssumption DEF Headers, Header, End
<1>2. FirstBlock <= b /\ b # NULL /\ End(h, b) # NULL /\ End(h, b) <= e
  BY <1>1, FirstBlockPositive DEF Tiles, NULL
<1>3. \A a \in DOMAIN h : a \in Nat /\ End(h, a) \in Nat /\ End(h, a) > a
  BY PageAssumption DEF Headers, Header, End
<1>4. \A a \in DOMAIN h : a # b => End(h, a) # End(h, b)
  <2> SUFFICES ASSUME NEW a \in DOMAIN h, a # b PROVE End(h, a) # End(h, b)
    OBVIOUS
  <2>1. a < b \/ b < a
    BY <1>1, <1>3
  <2>2. End(h, a) <= b \/ End(h, b) <= a
    BY <2>1 DEF Tiles
  <2> QED BY <2>2, <1>1, <1>3
<1>5. \A a \in DOMAIN h : a < End(h, b) => a <= b
  <2> SUFFICES ASSUME NEW a \in DOMAIN h, a < End(h, b), ~(a <= b) PROVE FALSE
    OBVIOUS
  <2>1. b < a
    BY <1>1, <1>3
  <2>2. End(h, b) <= a
    BY <2>1 DEF Tiles
  <2> QED BY <2>2, <1>1, <1>3
<1> QED BY <1>1, <1>2, <1>4, <1>5 DEF Tiles

\* allocateFromBlock's cut, also made in place by krealloc: nothing but the
\* block cut changes, the remainder is free, and the list still tiles.
LEMMA SplitKeepsTiling ==
  ASSUME NEW h, Headers(h), NEW e \in Nat, Tiles(h, e),
         NEW b \in DOMAIN h, NEW n \in Nat, n <= h[b].size
  PROVE  LET s == Split(h, b, n)
         IN  /\ Headers(s) /\ Tiles(s, e)
             /\ DOMAIN h \subseteq DOMAIN s
             /\ \A a \in DOMAIN h \ {b} : s[a] = h[a]
             /\ \A a \in DOMAIN s \ DOMAIN h : s[a].free
             /\ s[b].free = h[b].free
             /\ n <= s[b].size /\ s[b].size <= h[b].size
<1> DEFINE s == Split(h, b, n)
           rest == b + HEADER_SIZE + n
<1>0. /\ h[b] \in Header /\ h[b].size \in Nat /\ h[b].free \in BOOLEAN
      /\ h[b].next \in Nat /\ b \in Nat /\ HEADER_SIZE \in Nat
      /\ HEADER_SIZE > 0
  BY PageAssumption DEF Headers, Header
<1>1. CASE ~(h[b].size >= n + HEADER_SIZE + 8)
  BY <1>0, <1>1 DEF Split, Headers
<1>2. CASE h[b].size >= n + HEADER_SIZE + 8
  <2> DEFINE d == h[b].size - n - HEADER_SIZE
  <2>1. s = [a \in DOMAIN h \cup {rest} |->
              IF a = b THEN [size |-> n, free |-> h[b].free, next |-> rest]
              ELSE IF a = rest
                   THEN [size |-> d, free |-> TRUE, next |-> h[b].next]
              ELSE h[a]]
    BY <1>2 DEF Split
  <2>2. rest \in Nat /\ rest > b /\ d \in Nat
    BY <1>0, <1>2
  <2>3. rest < End(h, b)
    BY <1>0, <1>2 DEF End
  <2>4. rest \notin DOMAIN h
    BY <2>2, <2>3, TilingOrder
  <2>5. /\ DOMAIN s = DOMAIN h \cup {rest}
        /\ s[b] = [size |-> n, free |-> h[b].free, next |-> rest]
        /\ s[rest] = [size |-> d, free |-> TRUE, next |-> h[b].next]
        /\ \A a \in DOMAIN h \ {b} : s[a] = h[a]
    BY <2>1, <2>2, <2>4
  <2>6. Headers(s)
    <3>1. \A a \in DOMAIN s : s[a] \in Header
      <4> TAKE a \in DOMAIN s
      <4>1. CASE a = b
        BY <4>1, <2>5, <2>2, <1>0 DEF Header
      <4>2. CASE a = rest
        BY <4>2, <2>5, <2>2, <1>0 DEF Header
      <4>3. CASE a \in DOMAIN h \ {b}
        BY <4>3, <2>5 DEF Headers
      <4> QED BY <4>1, <4>2, <4>3, <2>5
    <3>2. s = [a \in DOMAIN s |-> s[a]]
      BY <2>1
    <3> QED BY <3>1, <3>2, <2>5, <2>2 DEF Headers
  <2>7. /\ End(s, b) = rest
        /\ End(s, rest) = End(h, b)
        /\ \A a \in DOMAIN h \ {b} : End(s, a) = End(h, a)
    BY <2>5, <2>2, <1>0 DEF End
  <2>8. Tiles(s, e)
    <3>0. \A a \in DOMAIN h : a \in Nat /\ End(h, a) \in Nat /\ End(h, a) <= e
                             /\ a < End(h, a) /\ FirstBlock <= a
      BY TilingOrder
    <3>1. FirstBlock \in DOMAIN s
      BY <2>5 DEF Tiles
    <3>2. \A a \in DOMAIN s :
            /\ FirstBlock <= a /\ End(s, a) <= e
            /\ IF End(s, a) = e THEN s[a].next = NULL
               ELSE s[a].next = End(s, a) /\ End(s, a) \in DOMAIN s
      <4> TAKE a \in DOMAIN s
      <4>1. CASE a = b
        BY <4>1, <3>0, <2>3, <2>5, <2>7, <2>2
      <4>2. CASE a = rest
        <5>1. FirstBlock <= rest
          BY <3>0, <2>2, FirstBlockPositive
        <5>2. IF End(h, b) = e THEN h[b].next = NULL
              ELSE h[b].next = End(h, b) /\ End(h, b) \in DOMAIN h
          BY DEF Tiles
        <5> QED BY <4>2, <5>1, <5>2, <3>0, <2>5, <2>7
      <4>3. CASE a \in DOMAIN h \ {b}
        BY <4>3, <2>5, <2>7 DEF Tiles
      <4> QED BY <4>1, <4>2, <4>3, <2>5
    <3>3. \A a, c \in DOMAIN s : a < c => End(s, a) <= c
      <4> SUFFICES ASSUME NEW a \in DOMAIN s, NEW c \in DOMAIN s, a < c
                   PROVE  End(s, a) <= c
        OBVIOUS
      <4>1. \A x, y \in DOMAIN h : x < y => End(h, x) <= y
        BY DEF Tiles
      <4>2. CASE a \in DOMAIN h \ {b} /\ c \in DOMAIN h
        BY <4>1, <4>2, <2>7
      <4>3. CASE a \in DOMAIN h \ {b} /\ c = rest
        <5>1. a <= b
          BY <4>3, <2>3, <2>2, <3>0, TilingOrder
        <5>2. End(h, a) <= b
          BY <5>1, <4>1, <4>3, <3>0, <1>0
        <5> QED BY <5>2, <4>3, <2>7, <2>2, <3>0
      <4>4. CASE a = b /\ c \in DOMAIN h
        BY <4>1, <4>4, <2>7, <2>3, <2>2, <3>0
      <4>5. CASE a = b /\ c = rest
        BY <4>5, <2>7, <2>2
      <4>6. CASE a = rest /\ c \in DOMAIN h
        <5>1. b < c
          BY <4>6, <2>2, <3>0
        <5> QED BY <5>1, <4>1, <4>6, <2>7
      <4>7. CASE a = rest /\ c = rest
        BY <4>7, <2>2
      <4> QED BY <4>2, <4>3, <4>4, <4>5, <4>6, <4>7, <2>5
    <3> QED BY <3>1, <3>2, <3>3 DEF Tiles
  <2>9. /\ DOMAIN h \subseteq DOMAIN s
        /\ \A a \in DOMAIN s \ DOMAIN h : s[a].free
        /\ s[b].free = h[b].free
        /\ n <= s[b].size /\ s[b].size <= h[b].size
    BY <2>5
  <2> QED BY <2>5, <2>6, <2>8, <2>9
<1> QED BY <1>1, <1>2

\* Whatever a split does to the list, it leaves headers.
LEMMA AllocateKeepsHeaders ==
  ASSUME NEW h, Headers(h), NEW b \in DOMAIN h, NEW n \in Nat
  PROVE  Headers(AllocateFromBlock(h, b, n))
<1> DEFINE s == Split(h, b, n)
           rest == b + HEADER_SIZE + n
<1>0. /\ h[b] \in Header /\ h[b].size \in Nat /\ h[b].free \in BOOLEAN
      /\ h[b].next \in Nat /\ b \in Nat /\ HEADER_SIZE \in Nat /\ rest \in Nat
  BY PageAssumption DEF Headers, Header
<1>1. Headers(s) /\ b \in DOMAIN s
  <2>1. CASE ~(h[b].size >= n + HEADER_SIZE + 8)
    BY <2>1 DEF Split
  <2>2. CASE h[b].size >= n + HEADER_SIZE + 8
    <3> DEFINE d == h[b].size - n - HEADER_SIZE
    <3>1. d \in Nat
      BY <1>0, <2>2
    <3>2. s = [a \in DOMAIN h \cup {rest} |->
                IF a = b THEN [size |-> n, free |-> h[b].free, next |-> rest]
                ELSE IF a = rest
                     THEN [size |-> d, free |-> TRUE, next |-> h[b].next]
                ELSE h[a]]
      BY <2>2 DEF Split
    <3>3. \A a \in DOMAIN h \cup {rest} : s[a] \in Header
      BY <3>1, <3>2, <1>0 DEF Headers, Header
    <3> QED BY <3>2, <3>3, <1>0 DEF Headers
  <2> QED BY <2>1, <2>2
<1>2. AllocateFromBlock(h, b, n) = [s EXCEPT ![b].free = FALSE]
  BY DEF AllocateFromBlock
<1> HIDE DEF s
<1> QED BY <1>1, <1>2 DEF Headers, Header

\* allocateFromBlock on a block that is large enough.
LEMMA AllocateKeepsTiling ==
  ASSUME NEW h, Headers(h), NEW e \in Nat, Tiles(h, e),
         NEW b \in DOMAIN h, NEW n \in Nat, n <= h[b].size
  PROVE  LET s == AllocateFromBlock(h, b, n)
         IN  /\ Headers(s) /\ Tiles(s, e)
             /\ DOMAIN h \subseteq DOMAIN s
             /\ \A a \in DOMAIN h \ {b} : s[a] = h[a]
             /\ \A a \in DOMAIN s \ DOMAIN h : s[a].free
             /\ ~s[b].free /\ n <= s[b].size
<1> DEFINE t == Split(h, b, n)
           s == AllocateFromBlock(h, b, n)
<1>1. /\ Headers(t) /\ Tiles(t, e) /\ DOMAIN h \subseteq DOMAIN t
      /\ \A a \in DOMAIN h \ {b} : t[a] = h[a]
      /\ \A a \in DOMAIN t \ DOMAIN h : t[a].free
      /\ n <= t[b].size
  BY SplitKeepsTiling
<1>2. s = [t EXCEPT ![b].free = FALSE]
  BY DEF AllocateFromBlock
<1> HIDE DEF t, s
<1>3. /\ DOMAIN s = DOMAIN t
      /\ \A a \in DOMAIN t \ {b} : s[a] = t[a]
      /\ s[b].size = t[b].size /\ s[b].next = t[b].next /\ ~s[b].free
  BY <1>1, <1>2 DEF Headers, Header
<1>4. Tiles(s, e)
  <2>1. \A a \in DOMAIN t : s[a].size = t[a].size /\ s[a].next = t[a].next
    BY <1>3
  <2> QED BY <2>1, <1>1, <1>3, FreeBitsKeepTiling
<1>5. Headers(s)
  BY AllocateKeepsHeaders DEF s
<1>6. /\ DOMAIN h \subseteq DOMAIN s
      /\ \A a \in DOMAIN h \ {b} : s[a] = h[a]
      /\ \A a \in DOMAIN s \ DOMAIN h : s[a].free
      /\ ~s[b].free /\ n <= s[b].size
  BY <1>1, <1>3
<1> QED BY <1>4, <1>5, <1>6 DEF s

\* Taking in the list successor, in kfree's walk and in krealloc.
LEMMA MergeKeepsTiling ==
  ASSUME NEW h, Headers(h), NEW e \in Nat, Tiles(h, e),
         NEW b \in DOMAIN h, NEW g, g = h[b].next, g # NULL,
         NEW m, m = Merge(h, b)
  PROVE  /\ Headers(m) /\ Tiles(m, e)
         /\ g \in DOMAIN h /\ g > b
         /\ DOMAIN m = DOMAIN h \ {g}
         /\ \A a \in DOMAIN h \ {b, g} : m[a] = h[a]
         /\ m[b].free = h[b].free /\ m[b].next = h[g].next
         /\ m[b].size = h[b].size + HEADER_SIZE + h[g].size
<1>0. /\ \A a \in DOMAIN h : /\ h[a] \in Header /\ h[a].size \in Nat
                             /\ h[a].free \in BOOLEAN /\ h[a].next \in Nat
                             /\ a \in Nat
      /\ HEADER_SIZE \in Nat
  BY PageAssumption DEF Headers, Header
<1>1. g \in DOMAIN h /\ g = End(h, b) /\ g > b
  BY TilingOrder
<1>2. m = [a \in DOMAIN h \ {g} |->
             IF a = b THEN [h[b] EXCEPT !.size = @ + HEADER_SIZE + h[g].size,
                                        !.next = h[g].next]
             ELSE h[a]]
  BY DEF Merge
<1>3. /\ DOMAIN m = DOMAIN h \ {g}
      /\ \A a \in DOMAIN h \ {b, g} : m[a] = h[a]
      /\ m[b] = [size |-> h[b].size + HEADER_SIZE + h[g].size,
                 free |-> h[b].free, next |-> h[g].next]
  <2>1. b \in DOMAIN h \ {g}
    BY <1>0, <1>1
  <2>2. m[b] = [h[b] EXCEPT !.size = @ + HEADER_SIZE + h[g].size,
                            !.next = h[g].next]
    BY <2>1, <1>2
  <2>3. h[b] = [size |-> h[b].size, free |-> h[b].free, next |-> h[b].next]
    BY <1>0 DEF Header
  <2> QED BY <2>1, <2>2, <2>3, <1>2
<1>4. Headers(m)
  <2>1. \A a \in DOMAIN m : m[a] \in Header
    BY <1>0, <1>1, <1>3 DEF Header
  <2>2. m = [a \in DOMAIN m |-> m[a]]
    BY <1>2
  <2> QED BY <2>1, <2>2, <1>3, <1>0 DEF Headers
<1>5. /\ End(m, b) = End(h, g)
      /\ \A a \in DOMAIN h \ {b, g} : End(m, a) = End(h, a)
  BY <1>0, <1>1, <1>3 DEF End
<1>6. Tiles(m, e)
  <2>0. \A a \in DOMAIN h : a \in Nat /\ End(h, a) \in Nat /\ End(h, a) <= e
                           /\ a < End(h, a) /\ FirstBlock <= a
    BY TilingOrder
  <2>1. FirstBlock \in DOMAIN m
    BY <1>1, <1>3, <2>0, FirstBlockPositive DEF Tiles
  <2>2. \A a \in DOMAIN m :
          /\ FirstBlock <= a /\ End(m, a) <= e
          /\ IF End(m, a) = e THEN m[a].next = NULL
             ELSE m[a].next = End(m, a) /\ End(m, a) \in DOMAIN m
    <3> TAKE a \in DOMAIN m
    <3>1. CASE a = b
      <4>1. /\ FirstBlock <= b /\ End(h, g) <= e
            /\ IF End(h, g) = e THEN h[g].next = NULL
               ELSE h[g].next = End(h, g) /\ End(h, g) \in DOMAIN h
        BY <1>1 DEF Tiles
      <4>2. End(h, g) # g
        BY <1>1, <2>0
      <4> QED BY <3>1, <4>1, <4>2, <1>3, <1>5
    <3>2. CASE a \in DOMAIN h \ {b, g}
      <4>1. /\ FirstBlock <= a /\ End(h, a) <= e
            /\ IF End(h, a) = e THEN h[a].next = NULL
               ELSE h[a].next = End(h, a) /\ End(h, a) \in DOMAIN h
        BY <3>2 DEF Tiles
      <4>2. End(h, a) # g
        BY <3>2, <1>1, TilingOrder
      <4> QED BY <3>2, <4>1, <4>2, <1>3, <1>5
    <3> QED BY <3>1, <3>2, <1>3
  <2>3. \A a, c \in DOMAIN m : a < c => End(m, a) <= c
    <3> SUFFICES ASSUME NEW a \in DOMAIN m, NEW c \in DOMAIN m, a < c
                 PROVE  End(m, a) <= c
      OBVIOUS
    <3>1. \A x, y \in DOMAIN h : x < y => End(h, x) <= y
      BY DEF Tiles
    <3>2. CASE a = b
      <4>1. g <= c
        BY <3>1, <3>2, <1>1, <1>3
      <4>2. g < c
        BY <4>1, <1>1, <1>3, <2>0
      <4> QED BY <3>1, <3>2, <4>2, <1>1, <1>3, <1>5
    <3>3. CASE a # b
      BY <3>1, <3>3, <1>3, <1>5
    <3> QED BY <3>2, <3>3
  <2> QED BY <2>1, <2>2, <2>3 DEF Tiles
<1>7. /\ m[b].free = h[b].free /\ m[b].next = h[g].next
      /\ m[b].size = h[b].size + HEADER_SIZE + h[g].size
  BY <1>3
<1> QED BY <1>1, <1>3, <1>4, <1>6, <1>7

\* The list after kmalloc has linked the page at PageAddr(k), as one free
\* block, behind the last block l.
Linked(h, k, l) ==
  [a \in DOMAIN h \cup {PageAddr(k)} |->
     IF a = PageAddr(k)
     THEN [size |-> PAGE_SIZE - HEADER_SIZE, free |-> TRUE, next |-> NULL]
     ELSE IF a = l THEN [h[l] EXCEPT !.next = PageAddr(k)]
     ELSE h[a]]

\* expandHeap: the block of a new page, linked after the last one, goes on
\* tiling the heap where the blocks before it end.
LEMMA LinkKeepsTiling ==
  ASSUME NEW h, Headers(h), NEW k \in Nat, Tiles(h, PageAddr(k)),
         NEW l \in DOMAIN h, h[l].next = NULL
  PROVE  LET g == Linked(h, k, l)
             b == PageAddr(k)
         IN  /\ Headers(g) /\ Tiles(g, PageAddr(k + 1))
             /\ b \notin DOMAIN h /\ DOMAIN g = DOMAIN h \cup {b}
             /\ g[b] = [size |-> PAGE_SIZE - HEADER_SIZE, free |-> TRUE,
                        next |-> NULL]
             /\ \A a \in DOMAIN h : /\ g[a].size = h[a].size
                                    /\ g[a].free = h[a].free
<1> DEFINE g == Linked(h, k, l)
           b == PageAddr(k)
           e == PageAddr(k + 1)
<1>0. /\ \A a \in DOMAIN h : /\ h[a] \in Header /\ h[a].size \in Nat
                             /\ h[a].free \in BOOLEAN /\ h[a].next \in Nat
                             /\ a \in Nat
      /\ HEADER_SIZE \in Nat /\ HEADER_SIZE > 0 /\ PAGE_SIZE \in Nat
      /\ PAGE_SIZE - HEADER_SIZE \in Nat
      /\ b \in Nat /\ e \in Nat /\ e = b + PAGE_SIZE
  BY PageAssumption, PageAddrType, PageAddrNext DEF Headers, Header
<1> HIDE DEF b, e
<1>1. \A a \in DOMAIN h : /\ End(h, a) \in Nat /\ End(h, a) <= b /\ a < End(h, a)
                         /\ FirstBlock <= a /\ a < b
  <2>1. \A a \in DOMAIN h : /\ End(h, a) \in Nat /\ End(h, a) <= b
                           /\ a < End(h, a) /\ FirstBlock <= a
    BY <1>0, TilingOrder DEF b
  <2> QED BY <2>1, <1>0
<1>2. b \notin DOMAIN h
  BY <1>1, <1>0
<1>3. /\ g = [a \in DOMAIN h \cup {b} |->
               IF a = b
               THEN [size |-> PAGE_SIZE - HEADER_SIZE, free |-> TRUE, next |-> NULL]
               ELSE IF a = l THEN [h[l] EXCEPT !.next = b]
               ELSE h[a]]
  BY DEF Linked, b
<1>4. /\ DOMAIN g = DOMAIN h \cup {b}
      /\ g[b] = [size |-> PAGE_SIZE - HEADER_SIZE, free |-> TRUE, next |-> NULL]
      /\ g[l] = [size |-> h[l].size, free |-> h[l].free, next |-> b]
      /\ \A a \in DOMAIN h \ {l} : g[a] = h[a]
  BY <1>0, <1>2, <1>3 DEF Header
<1>5. Headers(g)
  <2>1. \A a \in DOMAIN g : g[a] \in Header
    <3> TAKE a \in DOMAIN g
    <3>1. CASE a = b
      BY <3>1, <1>0, <1>4 DEF Header, NULL
    <3>2. CASE a = l
      BY <3>2, <1>0, <1>4 DEF Header
    <3>3. CASE a \in DOMAIN h \ {l}
      BY <3>3, <1>0, <1>4
    <3> QED BY <3>1, <3>2, <3>3, <1>4
  <2>2. g = [a \in DOMAIN g |-> g[a]]
    BY <1>3
  <2> QED BY <2>1, <2>2, <1>4, <1>0 DEF Headers
<1> HIDE DEF g
<1>6. End(h, l) = b
  BY TilingOrder, <1>0 DEF b
<1>7. \A a \in DOMAIN h : g[a].size = h[a].size /\ g[a].free = h[a].free
  BY <1>4
<1>8. End(g, b) = e /\ \A a \in DOMAIN h : End(g, a) = End(h, a)
  BY <1>0, <1>4, <1>7 DEF End
<1>9. Tiles(g, e)
  <2>1. FirstBlock \in DOMAIN g /\ FirstBlock \in DOMAIN h
    BY <1>4 DEF Tiles
  <2>2. FirstBlock \in Nat /\ FirstBlock < b
    BY <2>1, <1>0, <1>1
  <2>3. \A a \in DOMAIN g :
          /\ FirstBlock <= a /\ End(g, a) <= e
          /\ IF End(g, a) = e THEN g[a].next = NULL
             ELSE g[a].next = End(g, a) /\ End(g, a) \in DOMAIN g
    <3> TAKE a \in DOMAIN g
    <3>1. CASE a = b
      BY <3>1, <2>2, <1>4, <1>8, <1>0
    <3>2. CASE a \in DOMAIN h
      <4>1. End(h, a) <= b /\ FirstBlock <= a /\ End(h, a) \in Nat
        BY <3>2, <1>1
      <4>2. End(h, a) <= e /\ End(h, a) # e
        BY <4>1, <1>0, PageAssumption
      <4>3. CASE a = l
        BY <4>3, <4>1, <4>2, <1>4, <1>6, <1>8, <3>2
      <4>4. CASE a # l
        <5>1. End(h, a) # b
          BY <3>2, <4>4, <1>6, <1>0, TilingOrder DEF b
        <5>2. h[a].next = End(h, a) /\ End(h, a) \in DOMAIN h
          BY <3>2, <5>1 DEF Tiles, b
        <5> QED BY <5>2, <4>1, <4>2, <4>4, <3>2, <1>4, <1>8
      <4> QED BY <4>3, <4>4
    <3> QED BY <3>1, <3>2, <1>4
  <2>4. \A a, c \in DOMAIN g : a < c => End(g, a) <= c
    <3> SUFFICES ASSUME NEW a \in DOMAIN g, NEW c \in DOMAIN g, a < c
                 PROVE  End(g, a) <= c
      OBVIOUS
    <3>1. CASE a \in DOMAIN h /\ c \in DOMAIN h
      BY <3>1, <1>8 DEF Tiles
    <3>2. CASE a \in DOMAIN h /\ c = b
      BY <3>2, <1>8, <1>1
    <3>3. CASE a = b
      BY <3>3, <1>0, <1>1, <1>4
    <3> QED BY <3>1, <3>2, <3>3, <1>4
  <2> QED BY <2>1, <2>3, <2>4 DEF Tiles
<1> QED BY <1>2, <1>4, <1>5, <1>7, <1>9 DEF g, b, e

-----------------------------------------------------------------------------
(***************************************************************************)
(* The inductive invariant.                                                *)
(***************************************************************************)

\* pmm_alloc_page takes the pages in order.
PagesInOrder ==
  /\ FirstClear \in RESERVED + 1 .. TOTAL
  /\ bitmap = 0 .. (FirstClear - 1)

\* What kmalloc's walk knows: every block behind it does not fit, and past
\* the end of the list `last` is its last block.
SearchInv ==
  pc = "search" /\ ~torn =>
    /\ ask \in Requests
    /\ IF cur = NULL THEN last \in DOMAIN hdr /\ hdr[last].next = NULL
       ELSE cur \in DOMAIN hdr
    /\ \A b \in DOMAIN hdr : cur = NULL \/ b < cur => ~Fits(b)
    /\ old # NULL => old \in DOMAIN live /\ hdr[old].size < Align(ask)

NeighboursBothFree(b) ==
  hdr[b].next # NULL /\ hdr[b].free /\ hdr[hdr[b].next].free

\* What kfree's walk knows: no block behind it is to be merged.
CoalesceInv ==
  pc = "coalesce" /\ ~torn =>
    /\ cur \in DOMAIN hdr
    /\ \A b \in DOMAIN hdr : b < cur => ~NeighboursBothFree(b)

IInv ==
  /\ TypeOK /\ PagesInOrder /\ Tiled /\ UsedIffOwned
  /\ SearchInv /\ CopyFits /\ CoalesceInv

\* The facts every step starts from.
LEMMA HeapFacts ==
  ASSUME IInv
  PROVE  /\ Headers(hdr) /\ HeapEnd \in Nat
         /\ FirstClear \in Nat /\ FirstClear > 0
         /\ ~torn => Tiles(hdr, HeapEnd)
         /\ HEADER_SIZE \in Nat /\ PAGE_SIZE \in Nat
         /\ \A n \in Requests : n \in Nat /\ n > 0 /\ Align(n) \in Nat
                                /\ n <= Align(n)
  BY PageAddrType, AlignUp, PageAssumption, PmmAssumption, RequestsAssumption
     DEF IInv, TypeOK, PagesInOrder, Tiled, Headers, HeapEnd

\* The heap ends where it did while no page is allocated.
LEMMA SamePages ==
  ASSUME bitmap' = bitmap
  PROVE  FirstClear' = FirstClear /\ HeapEnd' = HeapEnd
  BY DEF FirstClear, HeapEnd

\* initHeap leaves one free block, which tiles the one page there is.
LEMMA InitIInv == Init => IInv
<1> SUFFICES ASSUME Init PROVE IInv
  OBVIOUS
<1>1. FirstClear = RESERVED + 1
  <2>1. FirstClear = FirstClearIn(bitmap)
    BY DEF FirstClear, FirstClearIn
  <2>2. bitmap = 0 .. ((RESERVED + 1) - 1)
    BY PmmAssumption DEF Init
  <2>3. RESERVED + 1 \in 0 .. TOTAL
    BY PmmAssumption
  <2> HIDE DEF Init
  <2> QED BY <2>1, <2>2, <2>3, FirstClearIs
<1>2. /\ FirstBlock \in Nat /\ FirstBlock > 0
      /\ HeapEnd = FirstBlock + PAGE_SIZE
  BY <1>1, PageAddrNext, FirstBlockPositive, PmmAssumption
     DEF HeapEnd, FirstBlock, NULL
<1>3. /\ DOMAIN hdr = {FirstBlock}
      /\ hdr[FirstBlock] = [size |-> PAGE_SIZE - HEADER_SIZE, free |-> TRUE,
                            next |-> NULL]
  BY DEF Init
<1>4. TypeOK
  <2>1. hdr \in [{FirstBlock} -> Header]
    BY <1>3, PageAssumption DEF Init, Header, NULL
  <2>2. bitmap \subseteq 0 .. (TOTAL - 1)
    BY PmmAssumption DEF Init
  <2> QED BY <1>2, <1>3, <2>1, <2>2 DEF Init, TypeOK, Pcs, NULL
<1>5. PagesInOrder
  BY <1>1, PmmAssumption DEF Init, PagesInOrder
<1>6. Tiled
  BY <1>2, <1>3, PageAssumption DEF Tiled, Tiles, End
<1>7. UsedIffOwned
  BY <1>3 DEF Init, UsedIffOwned
<1> QED BY <1>4, <1>5, <1>6, <1>7
        DEF Init, IInv, SearchInv, CopyFits, CoalesceInv

\* kmalloc(n), for its caller or for krealloc(b), enters its loop.
LEMMA StartSearchIInv ==
  ASSUME IInv, NEW n \in Requests, NEW b \in DOMAIN live \cup {NULL}, ~torn,
         b # NULL => hdr[b].size < Align(n),
         StartSearch(n, b)
  PROVE  IInv'
<1> USE DEF StartSearch
<1>1. TypeOK'
  BY FirstBlockPositive DEF IInv, TypeOK, Pcs, NULL
<1>2. PagesInOrder' /\ Tiled'
  BY SamePages DEF IInv, PagesInOrder, Tiled
<1>3. UsedIffOwned'
  BY DEF IInv, UsedIffOwned
<1>4. SearchInv'
  <2>1. FirstBlock \in DOMAIN hdr /\ FirstBlock # NULL
    BY FirstBlockPositive DEF IInv, Tiled, Tiles, NULL
  <2>2. \A a \in DOMAIN hdr : ~(a < FirstBlock)
    <3>1. \A a \in DOMAIN hdr : a \in Nat /\ FirstBlock <= a
      BY DEF IInv, TypeOK, Tiled, Tiles
    <3> QED BY <3>1, FirstBlockPositive
  <2> QED BY <2>1, <2>2 DEF SearchInv
<1> QED BY <1>1, <1>2, <1>3, <1>4 DEF IInv, CopyFits, CoalesceInv

\* The block of kmalloc's walk fits.
LEMMA SearchHitIInv == ASSUME IInv, SearchHit PROVE IInv'
<1> DEFINE s == AllocateFromBlock(hdr, cur, Align(ask))
<1>1. /\ pc = "search" /\ ~torn /\ cur # NULL /\ Fits(cur)
      /\ hdr' = s /\ bitmap' = bitmap /\ torn' = torn /\ ReturnBlock(cur)
  BY DEF SearchHit
<1>2. ask \in Requests /\ cur \in DOMAIN hdr
  BY <1>1 DEF IInv, SearchInv
<1>3. Align(ask) \in Nat /\ Align(ask) <= hdr[cur].size /\ ask <= Align(ask)
      /\ ask \in Nat /\ cur \in Nat /\ hdr[cur].free
  <2>1. hdr[cur].size \in Nat /\ cur \in Nat
    BY <1>2 DEF IInv, TypeOK, Header
  <2> QED BY <1>1, <1>2, <2>1, HeapFacts DEF Fits
<1>4. /\ Headers(s) /\ Tiles(s, HeapEnd)
      /\ DOMAIN hdr \subseteq DOMAIN s
      /\ \A a \in DOMAIN hdr \ {cur} : s[a] = hdr[a]
      /\ \A a \in DOMAIN s \ DOMAIN hdr : s[a].free
      /\ ~s[cur].free /\ Align(ask) <= s[cur].size
  BY <1>1, <1>2, <1>3, HeapFacts, AllocateKeepsTiling
<1> HIDE DEF s
<1>5. live' = [a \in DOMAIN live \cup {cur} |-> IF a = cur THEN ask ELSE live[a]]
  BY <1>1 DEF ReturnBlock
<1>6. /\ pc' \in {"idle", "copy"} /\ ask' \in Requests \cup {0}
      /\ cur' \in Nat /\ last' \in Nat /\ old' \in Nat
      /\ pc' = "copy" => old # NULL /\ old' = old /\ cur' = cur
  BY <1>1, <1>2, <1>3 DEF ReturnBlock, Idle, IInv, TypeOK, NULL
<1>7. TypeOK'
  BY <1>1, <1>2, <1>3, <1>4, <1>5, <1>6 DEF IInv, TypeOK, Headers, Pcs
<1>8. PagesInOrder' /\ Tiled'
  BY <1>1, <1>4, SamePages DEF IInv, PagesInOrder, Tiled
<1>9. UsedIffOwned'
  <2>1. DOMAIN live = {a \in DOMAIN hdr : ~hdr[a].free}
        /\ \A a \in DOMAIN live : live[a] <= hdr[a].size
    BY <1>1 DEF IInv, UsedIffOwned
  <2>2. DOMAIN live' = {a \in DOMAIN s : ~s[a].free}
    BY <1>2, <1>4, <1>5, <2>1
  <2>3. ASSUME NEW a \in DOMAIN live' PROVE live'[a] <= s[a].size
    <3>1. CASE a = cur
      <4>1. s[cur].size \in Nat
        BY <1>2, <1>4 DEF Headers, Header
      <4> QED BY <3>1, <4>1, <1>3, <1>4, <1>5
    <3>2. CASE a # cur
      BY <3>2, <1>4, <1>5, <2>1
    <3> QED BY <3>1, <3>2
  <2> QED BY <2>2, <2>3, <1>1 DEF UsedIffOwned
<1>10. CopyFits'
  <2> SUFFICES ASSUME pc' = "copy"
               PROVE  /\ {old, cur} \subseteq DOMAIN live' /\ old # cur
                      /\ s[old].size <= s[cur].size
    BY <1>1, <1>6 DEF CopyFits
  <2>1. old \in DOMAIN live /\ hdr[old].size < Align(ask)
    BY <1>1, <1>6 DEF IInv, SearchInv
  <2>2. old \in DOMAIN hdr /\ ~hdr[old].free
    BY <1>1, <2>1 DEF IInv, UsedIffOwned
  <2>3. hdr[old].size \in Nat /\ s[cur].size \in Nat
    BY <1>2, <1>4, <2>2 DEF IInv, TypeOK, Headers, Header
  <2> QED BY <2>1, <2>2, <2>3, <1>3, <1>4, <1>5
<1> QED BY <1>6, <1>7, <1>8, <1>9, <1>10 DEF IInv, SearchInv, CoalesceInv

\* The block of kmalloc's walk does not fit.
LEMMA SearchMissIInv == ASSUME IInv, SearchMiss PROVE IInv'
<1>1. /\ pc = "search" /\ ~torn /\ cur # NULL /\ ~Fits(cur)
      /\ last' = cur /\ cur' = hdr[cur].next
      /\ UNCHANGED <<bitmap, hdr, live, pc, ask, old, torn>>
  BY DEF SearchMiss
<1>2. cur \in DOMAIN hdr
  BY <1>1 DEF IInv, SearchInv
<1>3. TypeOK'
  BY <1>1, <1>2 DEF IInv, TypeOK, Header
<1>4. PagesInOrder' /\ Tiled'
  BY <1>1, SamePages DEF IInv, PagesInOrder, Tiled
<1>5. UsedIffOwned'
  BY <1>1 DEF IInv, UsedIffOwned
<1>6. SearchInv'
  <2>1. cur' # NULL => cur' \in DOMAIN hdr /\ cur' = End(hdr, cur)
    BY <1>1, <1>2, HeapFacts, TilingOrder
  <2>2. \A b \in DOMAIN hdr : cur' = NULL \/ b < cur' => b <= cur
    <3> SUFFICES ASSUME NEW b \in DOMAIN hdr, cur' = NULL \/ b < cur'
                 PROVE  b <= cur
      OBVIOUS
    <3>1. b < End(hdr, cur)
      <4>1. b < End(hdr, b) /\ End(hdr, b) <= HeapEnd /\ b \in Nat
            /\ End(hdr, b) \in Nat
        BY <1>1, HeapFacts, TilingOrder
      <4>2. CASE cur' = NULL
        <5>1. End(hdr, cur) = HeapEnd
          BY <1>1, <1>2, <4>2, HeapFacts, TilingOrder
        <5> QED BY <4>1, <5>1, HeapFacts
      <4>3. CASE cur' # NULL
        BY <4>3, <2>1
      <4> QED BY <4>2, <4>3
    <3> QED BY <3>1, <1>1, <1>2, HeapFacts, TilingOrder
  <2>3. \A b \in DOMAIN hdr : b <= cur => ~Fits(b)
    <3>1. \A b \in DOMAIN hdr : b < cur => ~Fits(b)
      BY <1>1 DEF IInv, SearchInv
    <3>2. \A b \in DOMAIN hdr : b \in Nat /\ cur \in Nat
      BY <1>2 DEF IInv, TypeOK
    <3>3. \A b \in DOMAIN hdr : b <= cur => b < cur \/ b = cur
      BY <3>2
    <3> QED BY <3>1, <3>3, <1>1
  <2>4. \A b : Fits(b)' <=> Fits(b)
    BY <1>1 DEF Fits
  <2>5. \A b \in DOMAIN hdr : cur' = NULL \/ b < cur' => ~Fits(b)'
    BY <2>2, <2>3, <2>4
  <2>6. IF cur' = NULL THEN last' \in DOMAIN hdr /\ hdr[last'].next = NULL
        ELSE cur' \in DOMAIN hdr
    BY <1>1, <1>2, <2>1
  <2>7. ask \in Requests
        /\ (old # NULL => old \in DOMAIN live /\ hdr[old].size < Align(ask))
    BY <1>1 DEF IInv, SearchInv
  <2> QED BY <2>5, <2>6, <2>7, <1>1 DEF SearchInv
<1> QED BY <1>1, <1>3, <1>4, <1>5, <1>6 DEF IInv, CopyFits, CoalesceInv

\* A call returns and leaves the heap as it is.
LEMMA ReturnIInv ==
  ASSUME IInv, Idle, UNCHANGED <<bitmap, hdr, live, torn>>
  PROVE  IInv'
<1>1. TypeOK'
  BY DEF IInv, TypeOK, Idle, Pcs, NULL
<1>2. PagesInOrder' /\ Tiled'
  BY SamePages DEF IInv, PagesInOrder, Tiled
<1>3. UsedIffOwned'
  BY DEF IInv, UsedIffOwned
<1> QED BY <1>1, <1>2, <1>3
        DEF IInv, Idle, SearchInv, CopyFits, CoalesceInv

\* Taking the page after the last one taken.
LEMMA TakePage ==
  ASSUME IInv, FirstClear < TOTAL, bitmap' = bitmap \cup {FirstClear}
  PROVE  /\ FirstClear' = FirstClear + 1 /\ PagesInOrder'
         /\ bitmap' \subseteq 0 .. (TOTAL - 1)
         /\ HeapEnd' = PageAddr(FirstClear + 1)
<1>1. /\ FirstClear \in RESERVED + 1 .. TOTAL
      /\ bitmap = 0 .. (FirstClear - 1)
  BY DEF IInv, PagesInOrder
<1> DEFINE k == FirstClear + 1
<1>2. bitmap' = 0 .. (k - 1) /\ k \in 0 .. TOTAL /\ k \in RESERVED + 1 .. TOTAL
  BY <1>1, PmmAssumption
<1>3. FirstClear' = FirstClearIn(bitmap')
  BY DEF FirstClear, FirstClearIn
<1> HIDE DEF k
<1>4. FirstClear' = k
  BY <1>2, <1>3, FirstClearIs
<1> QED BY <1>2, <1>4, PmmAssumption DEF PagesInOrder, HeapEnd, k

\* The variables other than hdr keep their types when kmalloc returns a block.
LEMMA ReturnBlockTypes ==
  ASSUME IInv, NEW b \in Nat, ReturnBlock(b), ask \in Requests,
         bitmap' \subseteq 0 .. (TOTAL - 1), Headers(hdr'), torn' \in BOOLEAN
  PROVE  TypeOK' /\ pc' \in {"idle", "copy"}
<1>1. live' = [a \in DOMAIN live \cup {b} |-> IF a = b THEN ask ELSE live[a]]
  BY DEF ReturnBlock
<1>2. live' \in [DOMAIN live' -> Requests] /\ DOMAIN live' \subseteq Nat
  BY <1>1 DEF IInv, TypeOK
<1>3. /\ pc' \in {"idle", "copy"} /\ ask' \in Requests \cup {0}
      /\ cur' \in Nat /\ last' \in Nat /\ old' \in Nat
  BY DEF ReturnBlock, Idle, IInv, TypeOK, NULL
<1> QED BY <1>2, <1>3 DEF TypeOK, Headers, Pcs

\* kmalloc takes a page and links it behind the last block.
LEMMA GrowLinkedIInv == ASSUME IInv, GrowLinked PROVE IInv'
<1> DEFINE b == PageAddr(FirstClear)
           h == [NewPageBlock(hdr) EXCEPT ![last].next = b]
           s == AllocateFromBlock(h, b, Align(ask))
           g == Linked(hdr, FirstClear, last)
<1>0. FirstClear < MAPPED => FirstClear < TOTAL
  BY PmmAssumption DEF IInv, PagesInOrder
<1>1. /\ pc = "search" /\ ~torn /\ cur = NULL /\ FirstClear < TOTAL
      /\ ~hdr[last].free /\ hdr' = s /\ ReturnBlock(b)
      /\ bitmap' = bitmap \cup {FirstClear}
      /\ torn' = (Align(ask) > PAGE_SIZE - HEADER_SIZE)
  BY <1>0 DEF GrowLinked
<1>2. ask \in Requests /\ last \in DOMAIN hdr /\ hdr[last].next = NULL
  BY <1>1 DEF IInv, SearchInv
<1>3. /\ Headers(hdr) /\ HeapEnd \in Nat /\ Tiles(hdr, HeapEnd)
      /\ FirstClear \in Nat /\ HeapEnd = b
      /\ HEADER_SIZE \in Nat /\ PAGE_SIZE \in Nat
      /\ ask \in Nat /\ Align(ask) \in Nat /\ ask <= Align(ask)
  BY <1>1, <1>2, HeapFacts DEF HeapEnd
<1>4. /\ Headers(g) /\ Tiles(g, PageAddr(FirstClear + 1))
      /\ b \notin DOMAIN hdr /\ DOMAIN g = DOMAIN hdr \cup {b}
      /\ g[b] = [size |-> PAGE_SIZE - HEADER_SIZE, free |-> TRUE, next |-> NULL]
      /\ \A a \in DOMAIN hdr : g[a].size = hdr[a].size /\ g[a].free = hdr[a].free
  <2>1. Tiles(hdr, PageAddr(FirstClear)) /\ Headers(hdr) /\ FirstClear \in Nat
    BY <1>3
  <2> QED BY <1>2, <2>1, LinkKeepsTiling
<1>5. h = g
  <2> DEFINE n == NewPageBlock(hdr)
  <2>1. last # b /\ last \in DOMAIN hdr
    BY <1>2, <1>4
  <2>2. /\ n = [a \in DOMAIN hdr \cup {b} |->
                 IF a = b
                 THEN [size |-> PAGE_SIZE - HEADER_SIZE, free |-> TRUE,
                       next |-> NULL]
                 ELSE hdr[a]]
        /\ g = [a \in DOMAIN hdr \cup {b} |->
                 IF a = b
                 THEN [size |-> PAGE_SIZE - HEADER_SIZE, free |-> TRUE,
                       next |-> NULL]
                 ELSE IF a = last THEN [hdr[last] EXCEPT !.next = b]
                 ELSE hdr[a]]
    BY DEF NewPageBlock, Linked
  <2> HIDE DEF n, g, b
  <2>3. n[last] = hdr[last]
    BY <2>1, <2>2
  <2>4. h = [a \in DOMAIN hdr \cup {b} |->
               IF a = last THEN [n[last] EXCEPT !.next = b] ELSE n[a]]
    BY <2>2 DEF n
  <2>5. \A a \in DOMAIN hdr \cup {b} : h[a] = g[a]
    <3> TAKE a \in DOMAIN hdr \cup {b}
    <3>1. CASE a = last
      BY <3>1, <2>1, <2>2, <2>3, <2>4
    <3>2. CASE a # last
      BY <3>2, <2>2, <2>4
    <3> QED BY <3>1, <3>2
  <2> QED BY <2>2, <2>4, <2>5
<1>6. /\ HeapEnd' = PageAddr(FirstClear + 1) /\ HeapEnd' \in Nat
      /\ PagesInOrder' /\ bitmap' \subseteq 0 .. (TOTAL - 1)
  BY <1>1, <1>3, TakePage, PageAddrType
<1> HIDE DEF b, h, g
<1>7. b \in Nat /\ b \in DOMAIN g
  BY <1>3, <1>4
<1>8. Headers(s)
  BY <1>3, <1>4, <1>5, <1>7, AllocateKeepsHeaders
<1> HIDE DEF s
<1>9. TypeOK' /\ pc' \in {"idle", "copy"}
  BY <1>1, <1>2, <1>6, <1>7, <1>8, ReturnBlockTypes
<1>10. CASE torn'
  BY <1>6, <1>9, <1>10
     DEF IInv, Tiled, UsedIffOwned, SearchInv, CopyFits, CoalesceInv
<1>11. CASE ~torn'
  <2>0. ~(Align(ask) > PAGE_SIZE - HEADER_SIZE)
    BY <1>1, <1>11, Zenon
  <2>1. Align(ask) <= g[b].size
    <3>1. g[b].size = PAGE_SIZE - HEADER_SIZE
      BY <1>4
    <3> QED BY <2>0, <3>1, <1>3
  <2>2. /\ Tiles(s, HeapEnd') /\ DOMAIN g \subseteq DOMAIN s
        /\ \A a \in DOMAIN g \ {b} : s[a] = g[a]
        /\ \A a \in DOMAIN s \ DOMAIN g : s[a].free
        /\ ~s[b].free /\ Align(ask) <= s[b].size
    BY <2>1, <1>3, <1>4, <1>5, <1>6, <1>7, AllocateKeepsTiling DEF s
  <2>3. live' = [a \in DOMAIN live \cup {b} |-> IF a = b THEN ask ELSE live[a]]
    BY <1>1 DEF ReturnBlock
  <2>4. DOMAIN live = {a \in DOMAIN hdr : ~hdr[a].free}
        /\ \A a \in DOMAIN live : live[a] <= hdr[a].size
    BY <1>1 DEF IInv, UsedIffOwned
  <2>5. UsedIffOwned'
    <3>1. DOMAIN live' = {a \in DOMAIN s : ~s[a].free}
      BY <1>4, <1>7, <2>2, <2>3, <2>4
    <3>2. ASSUME NEW a \in DOMAIN live' PROVE live'[a] <= s[a].size
      <4>1. CASE a = b
        <5>1. s[b].size \in Nat
          BY <1>7, <1>8, <2>2 DEF Headers, Header
        <5> QED BY <4>1, <5>1, <1>3, <2>2, <2>3
      <4>2. CASE a # b
        BY <4>2, <1>4, <2>2, <2>3, <2>4
      <4> QED BY <4>1, <4>2
    <3> QED BY <3>1, <3>2, <1>1 DEF UsedIffOwned
  <2>6. CopyFits'
    <3> SUFFICES ASSUME pc' = "copy"
                 PROVE  /\ {old', cur'} \subseteq DOMAIN live' /\ old' # cur'
                        /\ s[old'].size <= s[cur'].size
      BY <1>1 DEF CopyFits
    <3>1. old # NULL /\ old' = old /\ cur' = b
      BY <1>1 DEF ReturnBlock, Idle
    <3>2. old \in DOMAIN live /\ hdr[old].size < Align(ask)
      BY <1>1, <3>1 DEF IInv, SearchInv
    <3>3. old \in DOMAIN hdr /\ old # b
      BY <1>4, <2>4, <3>2
    <3>4. s[old].size = hdr[old].size
      BY <1>4, <2>2, <3>3
    <3>5. hdr[old].size \in Nat /\ s[b].size \in Nat
      BY <1>3, <1>7, <1>8, <2>2, <3>3 DEF Headers, Header
    <3> QED BY <1>3, <2>2, <2>3, <3>1, <3>2, <3>3, <3>4, <3>5
  <2>7. Tiled'
    BY <1>1, <2>2 DEF Tiled
  <2> QED BY <1>6, <1>9, <2>5, <2>6, <2>7 DEF IInv, SearchInv, CoalesceInv
<1> QED BY <1>10, <1>11

\* kmalloc takes a page when the last block is free: types survive, the
\* invariants stop there.
LEMMA GrowOrphanIInv == ASSUME IInv, GrowOrphan PROVE IInv'
<1> DEFINE b == PageAddr(FirstClear)
           n == NewPageBlock(hdr)
           h == [n EXCEPT ![last].size = @ + HEADER_SIZE + PAGE_SIZE]
           s == AllocateFromBlock(h, b, Align(ask))
<1>0. FirstClear < MAPPED => FirstClear < TOTAL
  BY PmmAssumption DEF IInv, PagesInOrder
<1>1. /\ pc = "search" /\ ~torn /\ cur = NULL /\ FirstClear < TOTAL
      /\ hdr' = s /\ ReturnBlock(b)
      /\ bitmap' = bitmap \cup {FirstClear} /\ torn' = TRUE
  BY <1>0 DEF GrowOrphan
<1>2. ask \in Requests /\ last \in DOMAIN hdr /\ b \in Nat /\ Headers(hdr)
      /\ HEADER_SIZE \in Nat /\ PAGE_SIZE \in Nat /\ Align(ask) \in Nat
  BY <1>1, HeapFacts DEF IInv, SearchInv, HeapEnd
<1>3. Headers(n) /\ b \in DOMAIN n /\ last \in DOMAIN n
  <2>1. DOMAIN n = DOMAIN hdr \cup {b} /\ n = [a \in DOMAIN n |-> n[a]]
    BY DEF NewPageBlock
  <2>2. ASSUME NEW a \in DOMAIN n PROVE n[a] \in Header
    <3>1. CASE a = b
      BY <3>1, <1>2, PageAssumption DEF NewPageBlock, Header, NULL
    <3>2. CASE a # b
      BY <3>2, <1>2, <2>1 DEF NewPageBlock, Headers
    <3> QED BY <3>1, <3>2
  <2> QED BY <1>2, <2>1, <2>2 DEF Headers
<1> HIDE DEF b, n
<1>4. Headers(h) /\ b \in DOMAIN h
  BY <1>2, <1>3 DEF Headers, Header
<1> HIDE DEF h
<1>5. Headers(s)
  BY <1>2, <1>4, AllocateKeepsHeaders
<1> HIDE DEF s
<1>6. PagesInOrder' /\ bitmap' \subseteq 0 .. (TOTAL - 1)
  BY <1>1, TakePage
<1>7. TypeOK' /\ pc' \in {"idle", "copy"}
  BY <1>1, <1>2, <1>5, <1>6, ReturnBlockTypes
<1> QED BY <1>1, <1>6, <1>7
        DEF IInv, Tiled, UsedIffOwned, SearchInv, CopyFits, CoalesceInv

\* kmalloc takes a page that is not mapped: nothing but the bitmap changes.
LEMMA GrowUnmappedIInv == ASSUME IInv, GrowUnmapped PROVE IInv'
<1>1. /\ FirstClear < TOTAL /\ bitmap' = bitmap \cup {FirstClear} /\ torn' = TRUE
      /\ UNCHANGED <<hdr, live, pc, ask, cur, last, old>>
  BY DEF GrowUnmapped
<1>2. PagesInOrder' /\ bitmap' \subseteq 0 .. (TOTAL - 1)
  BY <1>1, TakePage
<1>3. TypeOK'
  BY <1>1, <1>2 DEF IInv, TypeOK
<1> QED BY <1>1, <1>2, <1>3
        DEF IInv, Tiled, UsedIffOwned, SearchInv, CopyFits, CoalesceInv

\* kfree marks a block that a caller owns and enters its walk.
LEMMA StartFreeIInv ==
  ASSUME IInv, ~torn, NEW b \in DOMAIN live, StartFree(b)
  PROVE  IInv'
<1>1. /\ hdr' = [hdr EXCEPT ![b].free = TRUE]
      /\ live' = [a \in DOMAIN live \ {b} |-> live[a]]
      /\ pc' = "coalesce" /\ cur' = FirstBlock /\ last' = NULL /\ ask' = 0
      /\ old' = NULL /\ UNCHANGED <<bitmap, torn>>
  BY DEF StartFree, Without
<1>2. /\ DOMAIN live = {a \in DOMAIN hdr : ~hdr[a].free}
      /\ \A a \in DOMAIN live : live[a] <= hdr[a].size
  BY DEF IInv, UsedIffOwned
<1>3. /\ b \in DOMAIN hdr /\ hdr[b] \in Header
      /\ DOMAIN hdr' = DOMAIN hdr
      /\ hdr'[b].free /\ hdr'[b].size = hdr[b].size /\ hdr'[b].next = hdr[b].next
      /\ \A a \in DOMAIN hdr \ {b} : hdr'[a] = hdr[a]
  BY <1>1, <1>2 DEF IInv, TypeOK, Header
<1>4. Headers(hdr')
  BY <1>1, <1>3 DEF IInv, TypeOK, Headers, Header
<1>5. TypeOK'
  <2>1. live' \in [DOMAIN live' -> Requests] /\ DOMAIN live' \subseteq Nat
    BY <1>1 DEF IInv, TypeOK
  <2> QED BY <1>1, <1>4, <2>1, FirstBlockPositive
          DEF IInv, TypeOK, Headers, Pcs, NULL
<1>6. PagesInOrder' /\ HeapEnd' = HeapEnd
  BY <1>1, SamePages DEF IInv, PagesInOrder
<1>7. Tiles(hdr', HeapEnd)
  <2>1. \A a \in DOMAIN hdr :
          hdr'[a].size = hdr[a].size /\ hdr'[a].next = hdr[a].next
    BY <1>3
  <2> QED BY <2>1, <1>3, FreeBitsKeepTiling DEF IInv, Tiled
<1>8. UsedIffOwned'
  <2>1. DOMAIN live' = {a \in DOMAIN hdr' : ~hdr'[a].free}
    BY <1>1, <1>2, <1>3
  <2>2. \A a \in DOMAIN live' : live'[a] <= hdr'[a].size
    BY <1>1, <1>2, <1>3
  <2> QED BY <2>1, <2>2 DEF UsedIffOwned
<1>9. CoalesceInv'
  <2>1. \A a \in DOMAIN hdr' : ~(a < FirstBlock)
    <3>1. \A a \in DOMAIN hdr' : a \in Nat /\ FirstBlock <= a
      BY <1>4, <1>7 DEF Headers, Tiles
    <3> QED BY <3>1, FirstBlockPositive
  <2>2. FirstBlock \in DOMAIN hdr'
    BY <1>7 DEF Tiles
  <2> QED BY <1>1, <2>1, <2>2 DEF CoalesceInv
<1> QED BY <1>1, <1>5, <1>6, <1>7, <1>8, <1>9
        DEF IInv, Tiled, SearchInv, CopyFits

\* krealloc frees the block it has copied.
LEMMA ReallocCopyIInv == ASSUME IInv, ReallocCopy PROVE IInv'
<1>1. pc = "copy" /\ ~torn /\ StartFree(old)
  BY DEF ReallocCopy
<1>2. old \in DOMAIN live
  BY <1>1 DEF IInv, CopyFits
<1> QED BY <1>1, <1>2, StartFreeIInv

\* A merge of block b with its successor, whoever owns b: what it leaves to
\* prove are the sizes of the owners' requests and the running call's facts.
LEMMA MergeFacts ==
  ASSUME IInv, ~torn, NEW b \in DOMAIN hdr, hdr[b].next # NULL,
         hdr[hdr[b].next].free,
         hdr' = Merge(hdr, b), UNCHANGED <<bitmap, torn>>
  PROVE  LET g == hdr[b].next
         IN  /\ Headers(hdr') /\ PagesInOrder' /\ Tiled'
             /\ g \in DOMAIN hdr /\ g > b /\ DOMAIN hdr' = DOMAIN hdr \ {g}
             /\ \A a \in DOMAIN hdr \ {b, g} : hdr'[a] = hdr[a]
             /\ hdr'[b].free = hdr[b].free /\ hdr'[b].next = hdr[g].next
             /\ hdr'[b].size = hdr[b].size + HEADER_SIZE + hdr[g].size
             /\ {a \in DOMAIN hdr' : ~hdr'[a].free} = {a \in DOMAIN hdr : ~hdr[a].free}
<1> DEFINE g == hdr[b].next
<1>1. Headers(hdr) /\ HeapEnd \in Nat /\ Tiles(hdr, HeapEnd)
  BY HeapFacts
<1>2. /\ Headers(hdr') /\ Tiles(hdr', HeapEnd)
      /\ g \in DOMAIN hdr /\ g > b /\ DOMAIN hdr' = DOMAIN hdr \ {g}
      /\ \A a \in DOMAIN hdr \ {b, g} : hdr'[a] = hdr[a]
      /\ hdr'[b].free = hdr[b].free /\ hdr'[b].next = hdr[g].next
      /\ hdr'[b].size = hdr[b].size + HEADER_SIZE + hdr[g].size
  BY <1>1, MergeKeepsTiling
<1>3. PagesInOrder' /\ Tiled'
  BY <1>2, SamePages DEF IInv, PagesInOrder, Tiled
<1>4. {a \in DOMAIN hdr' : ~hdr'[a].free} = {a \in DOMAIN hdr : ~hdr[a].free}
  <2>1. \A a \in DOMAIN hdr' : hdr'[a].free = hdr[a].free
    BY <1>2
  <2> HIDE DEF g
  <2>2. hdr[g].free
    BY DEF g
  <2> QED BY <1>2, <2>1, <2>2
<1> QED BY <1>2, <1>3, <1>4

\* kfree's walk merges.
LEMMA CoalesceMergeIInv == ASSUME IInv, CoalesceMerge PROVE IInv'
<1> DEFINE g == hdr[cur].next
<1>1. /\ pc = "coalesce" /\ ~torn /\ g # NULL
      /\ hdr[cur].free /\ hdr[g].free /\ hdr' = Merge(hdr, cur)
      /\ UNCHANGED <<bitmap, live, pc, ask, cur, last, old, torn>>
  BY DEF CoalesceMerge
<1>2. cur \in DOMAIN hdr
  BY <1>1 DEF IInv, CoalesceInv
<1>3. /\ Headers(hdr') /\ PagesInOrder' /\ Tiled'
      /\ g \in DOMAIN hdr /\ g > cur /\ DOMAIN hdr' = DOMAIN hdr \ {g}
      /\ \A a \in DOMAIN hdr \ {cur, g} : hdr'[a] = hdr[a]
      /\ hdr'[cur].free = hdr[cur].free /\ hdr'[cur].next = hdr[g].next
      /\ {a \in DOMAIN hdr' : ~hdr'[a].free} = {a \in DOMAIN hdr : ~hdr[a].free}
  BY <1>1, <1>2, MergeFacts
<1>4. cur \in Nat /\ g \in Nat
  BY <1>2, <1>3 DEF IInv, TypeOK
<1>5. TypeOK'
  BY <1>1, <1>3 DEF IInv, TypeOK, Headers
<1>6. UsedIffOwned'
  <2>1. /\ DOMAIN live = {a \in DOMAIN hdr : ~hdr[a].free}
        /\ \A a \in DOMAIN live : live[a] <= hdr[a].size
    BY <1>1 DEF IInv, UsedIffOwned
  <2>2. cur \notin DOMAIN live /\ g \notin DOMAIN live
    BY <1>1, <2>1
  <2> HIDE DEF g
  <2>3. \A a \in DOMAIN live : hdr'[a] = hdr[a]
    BY <1>3, <2>1, <2>2
  <2> QED BY <1>1, <1>3, <2>1, <2>3 DEF UsedIffOwned
<1>7. CoalesceInv'
  <2>1. cur \in DOMAIN hdr'
    BY <1>2, <1>3, <1>4
  <2>2. \A a \in DOMAIN hdr : a < cur => ~NeighboursBothFree(a)
    BY <1>1 DEF IInv, CoalesceInv
  <2>3. ASSUME NEW a \in DOMAIN hdr', a < cur PROVE ~NeighboursBothFree(a)'
    <3>1. a \in DOMAIN hdr \ {cur, g}
      BY <2>3, <1>3, <1>4
    <3>2. hdr'[a] = hdr[a] /\ ~NeighboursBothFree(a)
      BY <3>1, <2>2, <2>3, <1>3
    <3>3. hdr[a].next # NULL => hdr[a].next \in DOMAIN hdr /\ hdr[a].next # g
      <4>1. /\ Headers(hdr) /\ HeapEnd \in Nat /\ Tiles(hdr, HeapEnd)
        BY <1>1, HeapFacts
      <4>2. hdr[a].next # NULL => /\ hdr[a].next = End(hdr, a)
                                  /\ hdr[a].next \in DOMAIN hdr
        BY <3>1, <4>1, TilingOrder
      <4>3. g = End(hdr, cur) /\ End(hdr, a) # End(hdr, cur)
        BY <1>1, <1>2, <3>1, <4>1, TilingOrder
      <4> QED BY <4>2, <4>3
    <3>4. hdr[a].next # NULL => hdr'[hdr[a].next].free = hdr[hdr[a].next].free
      BY <3>3, <1>3
    <3> QED BY <3>2, <3>4 DEF NeighboursBothFree
  <2> QED BY <1>1, <2>1, <2>3 DEF CoalesceInv
<1> QED BY <1>1, <1>3, <1>5, <1>6, <1>7 DEF IInv, SearchInv, CopyFits

\* kfree's walk moves on.
LEMMA CoalesceStepIInv == ASSUME IInv, CoalesceStep PROVE IInv'
<1>1. /\ pc = "coalesce" /\ ~torn /\ hdr[cur].next # NULL
      /\ ~(hdr[cur].free /\ hdr[hdr[cur].next].free)
      /\ cur' = hdr[cur].next
      /\ UNCHANGED <<bitmap, hdr, live, pc, ask, last, old, torn>>
  BY DEF CoalesceStep
<1>2. cur \in DOMAIN hdr
  BY <1>1 DEF IInv, CoalesceInv
<1>3. Headers(hdr) /\ HeapEnd \in Nat /\ Tiles(hdr, HeapEnd)
  BY <1>1, HeapFacts
<1>4. cur' = End(hdr, cur) /\ cur' \in DOMAIN hdr /\ cur' \in Nat
  BY <1>1, <1>2, <1>3, TilingOrder
<1>5. TypeOK'
  BY <1>1, <1>4 DEF IInv, TypeOK
<1>6. PagesInOrder' /\ Tiled'
  BY <1>1, SamePages DEF IInv, PagesInOrder, Tiled
<1>7. UsedIffOwned'
  BY <1>1 DEF IInv, UsedIffOwned
<1>8. CoalesceInv'
  <2>1. \A a \in DOMAIN hdr : a < cur => ~NeighboursBothFree(a)
    BY <1>1 DEF IInv, CoalesceInv
  <2>2. ~NeighboursBothFree(cur)
    BY <1>1 DEF NeighboursBothFree
  <2>3. \A a \in DOMAIN hdr : a < cur' => a < cur \/ a = cur
    <3>1. \A a \in DOMAIN hdr : a < End(hdr, cur) => a <= cur
      BY <1>2, <1>3, TilingOrder
    <3>2. \A a \in DOMAIN hdr : a \in Nat /\ cur \in Nat
      BY <1>2, <1>3 DEF Headers
    <3> QED BY <1>4, <3>1, <3>2
  <2>4. \A a : NeighboursBothFree(a)' <=> NeighboursBothFree(a)
    BY <1>1 DEF NeighboursBothFree
  <2>5. \A a \in DOMAIN hdr : a < cur' => ~NeighboursBothFree(a)'
    BY <2>1, <2>2, <2>3, <2>4
  <2> QED BY <1>1, <1>4, <2>5 DEF CoalesceInv
<1> QED BY <1>1, <1>5, <1>6, <1>7, <1>8 DEF IInv, SearchInv, CopyFits

\* krealloc shortens a block, or leaves it.
LEMMA ReallocInPlaceIInv ==
  ASSUME IInv, NEW b \in DOMAIN live, NEW n \in Requests, ReallocInPlace(b, n)
  PROVE  IInv'
<1> DEFINE s == Split(hdr, b, Align(n))
<1>1. /\ pc = "idle" /\ ~torn /\ Align(n) <= hdr[b].size
      /\ hdr' = s /\ live' = [live EXCEPT ![b] = n]
      /\ UNCHANGED <<bitmap, pc, ask, cur, last, old, torn>>
  BY DEF ReallocInPlace
<1>2. /\ DOMAIN live = {a \in DOMAIN hdr : ~hdr[a].free}
      /\ \A a \in DOMAIN live : live[a] <= hdr[a].size
  BY <1>1 DEF IInv, UsedIffOwned
<1>3. b \in DOMAIN hdr /\ ~hdr[b].free
  BY <1>2
<1>4. /\ Headers(s) /\ Tiles(s, HeapEnd)
      /\ DOMAIN hdr \subseteq DOMAIN s
      /\ \A a \in DOMAIN hdr \ {b} : s[a] = hdr[a]
      /\ \A a \in DOMAIN s \ DOMAIN hdr : s[a].free
      /\ s[b].free = hdr[b].free /\ Align(n) <= s[b].size
  BY <1>1, <1>3, HeapFacts, SplitKeepsTiling
<1> HIDE DEF s
<1>5. /\ live' \in [DOMAIN live -> Requests] /\ live'[b] = n
      /\ \A a \in DOMAIN live \ {b} : live'[a] = live[a]
  BY <1>1 DEF IInv, TypeOK
<1>6. TypeOK'
  BY <1>1, <1>4, <1>5 DEF IInv, TypeOK, Headers
<1>7. PagesInOrder' /\ Tiled'
  BY <1>1, <1>4, SamePages DEF IInv, PagesInOrder, Tiled
<1>8. UsedIffOwned'
  <2>1. DOMAIN live' = {a \in DOMAIN s : ~s[a].free}
    BY <1>2, <1>3, <1>4, <1>5
  <2>2. ASSUME NEW a \in DOMAIN live' PROVE live'[a] <= s[a].size
    <3>1. n <= Align(n) /\ n \in Nat /\ Align(n) \in Nat /\ s[b].size \in Nat
      BY <1>3, <1>4, HeapFacts DEF Headers, Header
    <3>2. CASE a = b
      BY <3>1, <3>2, <1>4, <1>5
    <3>3. CASE a # b
      BY <3>3, <1>2, <1>4, <1>5
    <3> QED BY <3>2, <3>3
  <2> QED BY <1>1, <2>1, <2>2 DEF UsedIffOwned
<1> QED BY <1>1, <1>6, <1>7, <1>8 DEF IInv, SearchInv, CopyFits, CoalesceInv

\* krealloc takes in the free successor.
LEMMA ReallocAbsorbIInv ==
  ASSUME IInv, NEW b \in DOMAIN live, NEW n \in Requests, ReallocAbsorb(b, n)
  PROVE  IInv'
<1> DEFINE g == hdr[b].next
<1>1. /\ pc = "idle" /\ ~torn /\ g # NULL /\ hdr[g].free
      /\ hdr[b].size + HEADER_SIZE + hdr[g].size >= n
      /\ hdr' = Merge(hdr, b) /\ live' = [live EXCEPT ![b] = n]
      /\ UNCHANGED <<bitmap, pc, ask, cur, last, old, torn>>
  BY DEF ReallocAbsorb, CanAbsorb
<1>2. /\ DOMAIN live = {a \in DOMAIN hdr : ~hdr[a].free}
      /\ \A a \in DOMAIN live : live[a] <= hdr[a].size
  BY <1>1 DEF IInv, UsedIffOwned
<1>3. b \in DOMAIN hdr /\ ~hdr[b].free
  BY <1>2
<1>4. /\ Headers(hdr') /\ PagesInOrder' /\ Tiled'
      /\ g \in DOMAIN hdr /\ DOMAIN hdr' = DOMAIN hdr \ {g}
      /\ \A a \in DOMAIN hdr \ {b, g} : hdr'[a] = hdr[a]
      /\ hdr'[b].size = hdr[b].size + HEADER_SIZE + hdr[g].size
      /\ {a \in DOMAIN hdr' : ~hdr'[a].free} = {a \in DOMAIN hdr : ~hdr[a].free}
  BY <1>1, <1>3, MergeFacts
<1>5. /\ live' \in [DOMAIN live -> Requests] /\ live'[b] = n
      /\ \A a \in DOMAIN live \ {b} : live'[a] = live[a]
  BY <1>1 DEF IInv, TypeOK
<1>6. TypeOK'
  BY <1>1, <1>4, <1>5 DEF IInv, TypeOK, Headers
<1>7. UsedIffOwned'
  <2> HIDE DEF g
  <2>1. ASSUME NEW a \in DOMAIN live' PROVE live'[a] <= hdr'[a].size
    <3>1. CASE a = b
      BY <3>1, <1>1, <1>4, <1>5
    <3>2. CASE a # b
      <4>1. a \in DOMAIN hdr \ {b, g}
        BY <3>2, <1>1, <1>2, <1>5, <2>1
      <4> QED BY <4>1, <3>2, <1>2, <1>4, <1>5
    <3> QED BY <3>1, <3>2
  <2>2. DOMAIN live' = {a \in DOMAIN hdr' : ~hdr'[a].free}
    BY <1>2, <1>4, <1>5
  <2> QED BY <2>1, <2>2, <1>1 DEF UsedIffOwned
<1> QED BY <1>1, <1>4, <1>6, <1>7 DEF IInv, SearchInv, CopyFits, CoalesceInv

\* krealloc has to move the block.
LEMMA ReallocMoveIInv ==
  ASSUME IInv, NEW b \in DOMAIN live, NEW n \in Requests, ReallocMove(b, n)
  PROVE  IInv'
<1>1. pc = "idle" /\ ~torn /\ Align(n) > hdr[b].size /\ StartSearch(n, b)
  BY DEF ReallocMove
<1>2. b \in DOMAIN hdr
  BY <1>1 DEF IInv, UsedIffOwned
<1>3. hdr[b].size \in Nat /\ Align(n) \in Nat
  BY <1>2, HeapFacts DEF Headers, Header
<1>4. b # NULL => hdr[b].size < Align(n)
  BY <1>1, <1>3
<1> QED BY <1>1, <1>4, StartSearchIInv

\* Every step of kmalloc, kfree and krealloc keeps the inductive invariant.
LEMMA NextIInv == IInv /\ [Next]_vars => IInv'
<1> SUFFICES ASSUME IInv, [Next]_vars PROVE IInv'
  OBVIOUS
<1>1. ASSUME NEW n \in Requests, KMalloc(n) PROVE IInv'
  <2>1. pc = "idle" /\ ~torn /\ StartSearch(n, NULL)
    BY <1>1 DEF KMalloc
  <2> QED BY <2>1, StartSearchIInv
<1>2. ASSUME NEW b \in DOMAIN live, KFree(b) PROVE IInv'
  BY <1>2, StartFreeIInv DEF KFree
<1>3. ASSUME NEW b \in DOMAIN live, NEW n \in Requests, ReallocInPlace(b, n)
      PROVE  IInv'
  BY <1>3, ReallocInPlaceIInv
<1>4. ASSUME NEW b \in DOMAIN live, NEW n \in Requests, ReallocAbsorb(b, n)
      PROVE  IInv'
  BY <1>4, ReallocAbsorbIInv
<1>5. ASSUME NEW b \in DOMAIN live, NEW n \in Requests, ReallocMove(b, n)
      PROVE  IInv'
  BY <1>5, ReallocMoveIInv
<1>6. CASE SearchHit
  BY <1>6, SearchHitIInv
<1>7. CASE SearchMiss
  BY <1>7, SearchMissIInv
<1>8. CASE OutOfMemory
  BY <1>8, ReturnIInv DEF OutOfMemory
<1>9. CASE GrowLinked
  BY <1>9, GrowLinkedIInv
<1>10. CASE GrowOrphan
  BY <1>10, GrowOrphanIInv
<1>11. CASE CoalesceMerge
  BY <1>11, CoalesceMergeIInv
<1>12. CASE CoalesceStep
  BY <1>12, CoalesceStepIInv
<1>13. CASE CoalesceDone
  BY <1>13, ReturnIInv DEF CoalesceDone
<1>14. CASE ReallocCopy
  BY <1>14, ReallocCopyIInv
<1>15. CASE UNCHANGED vars
  <2> USE <1>15 DEF vars
  <2>1. TypeOK'
    BY DEF IInv, TypeOK
  <2>2. PagesInOrder' /\ Tiled'
    BY SamePages DEF IInv, PagesInOrder, Tiled
  <2>3. UsedIffOwned' /\ CopyFits'
    BY DEF IInv, UsedIffOwned, CopyFits
  <2>4. \A b : /\ Fits(b)' <=> Fits(b)
               /\ NeighboursBothFree(b)' <=> NeighboursBothFree(b)
    BY DEF Fits, NeighboursBothFree
  <2>5. SearchInv'
    BY <2>4 DEF IInv, SearchInv
  <2>6. CoalesceInv'
    BY <2>4 DEF IInv, CoalesceInv
  <2> QED BY <2>1, <2>2, <2>3, <2>5, <2>6 DEF IInv
<1>16. CASE GrowUnmapped
  BY <1>16, GrowUnmappedIInv
<1> QED BY <1>1, <1>2, <1>3, <1>4, <1>5, <1>6, <1>7, <1>8, <1>9, <1>10,
           <1>11, <1>12, <1>13, <1>14, <1>15, <1>16 DEF Next, Running, NoPage, Undefined

-----------------------------------------------------------------------------
(***************************************************************************)
(* The theorems.                                                           *)
(***************************************************************************)

\* The inductive invariant holds in every state of every behaviour.
THEOREM Inductive == Spec => []IInv
  BY InitIInv, NextIInv, PTL DEF Spec

\* Every variable keeps its type, in the states of a torn heap too, and the
\* page bitmap never names a page past the last one (paging.cpp:34).
THEOREM TypeCorrect == Spec => []TypeOK
<1>1. IInv => TypeOK
  BY DEF IInv
<1> QED BY <1>1, Inductive, PTL

\* The list walked by kmalloc and kfree covers the heap's pages without gap or
\* overlap, whatever calls have been made (memory.cpp:17-26, 96-99, 130-136).
THEOREM TiledAlways == Spec => []Tiled
<1>1. IInv => Tiled
  BY DEF IInv
<1> QED BY <1>1, Inductive, PTL

\* A block is marked used exactly while it is owned, and holds what its owner
\* asked for (memory.cpp:29, 123).
THEOREM OwnershipExact == Spec => []UsedIffOwned
<1>1. IInv => UsedIffOwned
  BY DEF IInv
<1> QED BY <1>1, Inductive, PTL

\* krealloc's memcpy stays inside the new block (memory.cpp:188).
THEOREM CopyInBounds == Spec => []CopyFits
<1>1. IInv => CopyFits
  BY DEF IInv
<1> QED BY <1>1, Inductive, PTL

\* kmalloc takes a page or fails only when no block fits (memory.cpp:62-83).
THEOREM SearchComplete == Spec => NoBlockMissed
<1>1. ASSUME IInv, GrowLinked \/ GrowOrphan \/ NoPage
      PROVE  \A b \in DOMAIN hdr : hdr[b].free => hdr[b].size < Align(ask)
  <2>1. pc = "search" /\ ~torn /\ cur = NULL
    BY <1>1 DEF GrowLinked, GrowOrphan, NoPage, GrowUnmapped, OutOfMemory
  <2>2. ask \in Requests /\ \A b \in DOMAIN hdr : ~Fits(b)
    BY <1>1, <2>1 DEF IInv, SearchInv
  <2>3. Align(ask) \in Nat /\ \A b \in DOMAIN hdr : hdr[b].size \in Nat
    BY <1>1, <2>2, HeapFacts DEF Headers, Header
  <2> QED BY <2>2, <2>3 DEF Fits
<1>2. IInv => [GrowLinked \/ GrowOrphan \/ NoPage =>
                 \A b \in DOMAIN hdr : hdr[b].free => hdr[b].size < Align(ask)]_vars
  BY <1>1
<1> QED BY <1>2, Inductive, PTL DEF NoBlockMissed

\* kfree leaves no two free neighbours (memory.cpp:125-142).
THEOREM CoalesceComplete == Spec => CoalescedOnReturn
<1>1. ASSUME IInv, CoalesceDone
      PROVE  \A b \in DOMAIN hdr :
               hdr[b].free /\ hdr[b].next # NULL => ~hdr[hdr[b].next].free
  <2>1. pc = "coalesce" /\ ~torn /\ (cur = NULL \/ hdr[cur].next = NULL)
    BY <1>1 DEF CoalesceDone
  <2>2. Headers(hdr) /\ HeapEnd \in Nat /\ Tiles(hdr, HeapEnd)
    BY <1>1, <2>1, HeapFacts
  <2>3. cur \in DOMAIN hdr /\ \A b \in DOMAIN hdr : b < cur => ~NeighboursBothFree(b)
    BY <1>1, <2>1 DEF IInv, CoalesceInv
  <2>4. hdr[cur].next = NULL /\ End(hdr, cur) = HeapEnd
    BY <2>1, <2>2, <2>3, TilingOrder
  <2>5. \A b \in DOMAIN hdr : b < cur \/ b = cur
    <3> TAKE b \in DOMAIN hdr
    <3>1. b < End(hdr, b) /\ End(hdr, b) <= HeapEnd /\ End(hdr, b) \in Nat
          /\ b \in Nat /\ cur \in Nat
      BY <2>2, <2>3, TilingOrder
    <3>2. b < End(hdr, cur)
      BY <3>1, <2>2, <2>4
    <3>3. b <= cur
      BY <3>2, <2>2, <2>3, TilingOrder
    <3> QED BY <3>1, <3>3
  <2> QED BY <2>3, <2>4, <2>5 DEF NeighboursBothFree
<1>2. IInv => [CoalesceDone =>
                 \A b \in DOMAIN hdr :
                   hdr[b].free /\ hdr[b].next # NULL => ~hdr[hdr[b].next].free]_vars
  BY <1>1
<1> QED BY <1>2, Inductive, PTL DEF CoalescedOnReturn

-----------------------------------------------------------------------------
(***************************************************************************)
(* Alignment.                                                              *)
(***************************************************************************)

\* Every block of h starts at a multiple of 8 and has such a size.
Multiples(h) == \A b \in DOMAIN h : b % 8 = 0 /\ h[b].size % 8 = 0

AlignedInv == ~torn => Multiples(hdr)

\* Pages begin at multiples of 8.
LEMMA PageAddrAligned == \A p \in Nat : PageAddr(p) % 8 = 0
<1> TAKE p \in Nat
<1>1. PICK k \in Nat : PAGE_SIZE = 8 * k
  <2>1. PAGE_SIZE \div 8 \in Nat /\ PAGE_SIZE = 8 * (PAGE_SIZE \div 8)
    BY PageAssumption
  <2> QED BY <2>1
<1>2. p * k \in Nat /\ PageAddr(p) = 8 * (p * k)
  BY <1>1 DEF PageAddr
<1> HIDE DEF PageAddr
<1>3. \A x \in Nat : (8 * x) % 8 = 0
  OBVIOUS
<1> QED BY <1>2, <1>3

\* Sums and differences of multiples of 8 are multiples of 8.
LEMMA Multiples8 ==
  ASSUME NEW x \in Nat, NEW y \in Nat, NEW z \in Nat,
         x % 8 = 0, y % 8 = 0, z % 8 = 0
  PROVE  (x + y + z) % 8 = 0 /\ (x - y - z) % 8 = 0
  OBVIOUS

\* splitBlock leaves headers and sizes multiples of 8, given such a size.
LEMMA SplitAligned ==
  ASSUME NEW h, Headers(h), Multiples(h), NEW b \in DOMAIN h,
         NEW n \in Nat, n % 8 = 0
  PROVE  Multiples(Split(h, b, n)) /\ Multiples(AllocateFromBlock(h, b, n))
<1> DEFINE s == Split(h, b, n)
           rest == b + HEADER_SIZE + n
<1>0. h[b].size \in Nat /\ b \in Nat /\ HEADER_SIZE \in Nat
  BY PageAssumption DEF Headers, Header
<1>m. HEADER_SIZE % 8 = 0 /\ b % 8 = 0 /\ h[b].size % 8 = 0
  BY PageAssumption DEF Multiples
<1>1. Multiples(s) /\ Headers(s)
  <2>1. CASE ~(h[b].size >= n + HEADER_SIZE + 8)
    BY <2>1 DEF Split
  <2>2. CASE h[b].size >= n + HEADER_SIZE + 8
    <3> DEFINE d == h[b].size - n - HEADER_SIZE
    <3>1. d % 8 = 0 /\ rest % 8 = 0
      BY <1>0, <1>m, Multiples8
    <3>2. s = [a \in DOMAIN h \cup {rest} |->
                IF a = b THEN [size |-> n, free |-> h[b].free, next |-> rest]
                ELSE IF a = rest
                     THEN [size |-> d, free |-> TRUE, next |-> h[b].next]
                ELSE h[a]]
      BY <2>2 DEF Split
    <3>3. Headers(s)
      <4>1. d \in Nat /\ rest \in Nat
        BY <1>0, <2>2
      <4>2. \A a \in DOMAIN h \cup {rest} : s[a] \in Header
        BY <1>0, <3>2, <4>1 DEF Headers, Header
      <4> QED BY <3>2, <4>1, <4>2 DEF Headers
    <3> HIDE DEF rest, d
    <3> QED BY <3>1, <3>2, <3>3 DEF Multiples
  <2> QED BY <2>1, <2>2
<1>2. AllocateFromBlock(h, b, n) = [s EXCEPT ![b].free = FALSE]
  BY DEF AllocateFromBlock
<1> HIDE DEF s
<1>3. Multiples(AllocateFromBlock(h, b, n))
  BY <1>1, <1>2 DEF Multiples, Headers, Header
<1> QED BY <1>1, <1>3 DEF s

\* Every step keeps headers and sizes multiples of 8.
LEMMA NextAligned == IInv /\ AlignedInv /\ [Next]_vars => AlignedInv'
<1> SUFFICES ASSUME IInv, AlignedInv, [Next]_vars, ~torn' PROVE Multiples(hdr')
  BY DEF AlignedInv
<1>1. CASE hdr' = hdr /\ torn' = torn
  BY <1>1 DEF AlignedInv
<1>2. CASE SearchHit
  <2>1. /\ ~torn /\ cur \in DOMAIN hdr /\ ask \in Requests
        /\ hdr' = AllocateFromBlock(hdr, cur, Align(ask))
    BY <1>2 DEF SearchHit, IInv, SearchInv
  <2>2. Align(ask) \in Nat /\ Align(ask) % 8 = 0
    BY <2>1, HeapFacts, AlignUp
  <2> QED BY <2>1, <2>2, HeapFacts, SplitAligned DEF AlignedInv
<1>3. CASE GrowLinked
  <2> DEFINE b == PageAddr(FirstClear)
             n == NewPageBlock(hdr)
             h == [n EXCEPT ![last].next = b]
  <2>1. /\ ~torn /\ ask \in Requests /\ last \in DOMAIN hdr
        /\ hdr' = AllocateFromBlock(h, b, Align(ask))
    BY <1>3 DEF GrowLinked, IInv, SearchInv
  <2>2. Align(ask) \in Nat /\ Align(ask) % 8 = 0 /\ b \in Nat /\ b % 8 = 0
    BY <2>1, HeapFacts, AlignUp, PageAddrAligned DEF HeapEnd
  <2>3. Headers(n) /\ Multiples(n) /\ b \in DOMAIN n /\ last \in DOMAIN n
    <3>1. /\ DOMAIN n = DOMAIN hdr \cup {b} /\ n = [a \in DOMAIN n |-> n[a]]
          /\ n[b] = [size |-> PAGE_SIZE - HEADER_SIZE, free |-> TRUE, next |-> NULL]
          /\ \A a \in DOMAIN hdr \ {b} : n[a] = hdr[a]
      BY DEF NewPageBlock
    <3> HIDE DEF n, b
    <3>2. n[b] \in Header /\ n[b].size % 8 = 0
      BY <3>1, PageAssumption DEF Header, NULL
    <3>3. Headers(hdr) /\ Multiples(hdr)
      BY <2>1, HeapFacts DEF AlignedInv
    <3>4. \A a \in DOMAIN n : n[a] \in Header /\ a \in Nat /\ a % 8 = 0
                              /\ n[a].size % 8 = 0
      <4> TAKE a \in DOMAIN n
      <4>1. CASE a = b
        BY <4>1, <3>2, <2>2
      <4>2. CASE a # b
        BY <4>2, <3>1, <3>3 DEF Headers, Multiples
      <4> QED BY <4>1, <4>2
    <3> QED BY <3>1, <3>4, <2>1 DEF Headers, Multiples
  <2> HIDE DEF b, n
  <2>4. Headers(h) /\ Multiples(h) /\ b \in DOMAIN h
    BY <2>2, <2>3 DEF Headers, Header, Multiples
  <2> QED BY <2>1, <2>2, <2>4, SplitAligned
<1>4. ASSUME NEW b \in DOMAIN live, StartFree(b), ~torn PROVE Multiples(hdr')
  <2>1. b \in DOMAIN hdr /\ hdr' = [hdr EXCEPT ![b].free = TRUE] /\ Multiples(hdr)
    BY <1>4 DEF StartFree, IInv, UsedIffOwned, AlignedInv
  <2> QED BY <2>1, HeapFacts DEF Multiples, Headers, Header
<1>5. ASSUME NEW b \in DOMAIN hdr, ~torn, hdr[b].next # NULL, hdr' = Merge(hdr, b)
      PROVE  Multiples(hdr')
  <2> DEFINE g == hdr[b].next
             m == Merge(hdr, b)
  <2>1. /\ g \in DOMAIN hdr /\ DOMAIN m = DOMAIN hdr \ {g}
        /\ \A a \in DOMAIN hdr \ {b, g} : m[a] = hdr[a]
        /\ m[b].size = hdr[b].size + HEADER_SIZE + hdr[g].size
    <3>1. Headers(hdr) /\ HeapEnd \in Nat /\ Tiles(hdr, HeapEnd)
      BY <1>5, HeapFacts
    <3> QED BY <3>1, <1>5, MergeKeepsTiling
  <2>2. /\ hdr[b].size \in Nat /\ hdr[g].size \in Nat /\ HEADER_SIZE \in Nat
        /\ hdr[b].size % 8 = 0 /\ hdr[g].size % 8 = 0 /\ HEADER_SIZE % 8 = 0
    <3>1. hdr[b].size \in Nat /\ hdr[g].size \in Nat /\ HEADER_SIZE \in Nat
      BY <2>1, HeapFacts DEF Headers, Header
    <3>2. hdr[b].size % 8 = 0 /\ hdr[g].size % 8 = 0
      BY <1>5, <2>1 DEF AlignedInv, Multiples
    <3> QED BY <3>1, <3>2, PageAssumption
  <2> HIDE DEF g, m
  <2>3. m[b].size % 8 = 0
    BY <2>1, <2>2, Multiples8
  <2>4. Multiples(hdr) /\ hdr' = m
    BY <1>5 DEF AlignedInv, m
  <2> QED BY <2>1, <2>3, <2>4 DEF Multiples
<1>6. CASE CoalesceMerge
  <2>1. cur \in DOMAIN hdr /\ ~torn /\ hdr[cur].next # NULL /\ hdr' = Merge(hdr, cur)
    BY <1>6 DEF CoalesceMerge, IInv, CoalesceInv
  <2> QED BY <2>1, <1>5
<1>7. CASE ReallocCopy
  <2>1. ~torn /\ StartFree(old) /\ old \in DOMAIN live
    BY <1>7 DEF ReallocCopy, IInv, CopyFits
  <2> QED BY <2>1, <1>4
<1>8. ASSUME NEW b \in DOMAIN live, KFree(b) PROVE Multiples(hdr')
  BY <1>4, <1>8 DEF KFree
<1>9. ASSUME NEW b \in DOMAIN live, NEW n \in Requests, ReallocInPlace(b, n)
      PROVE  Multiples(hdr')
  <2>1. ~torn /\ b \in DOMAIN hdr /\ hdr' = Split(hdr, b, Align(n))
    BY <1>9 DEF ReallocInPlace, IInv, UsedIffOwned
  <2>2. Align(n) \in Nat /\ Align(n) % 8 = 0
    BY HeapFacts, AlignUp
  <2> QED BY <2>1, <2>2, HeapFacts, SplitAligned DEF AlignedInv
<1>10. ASSUME NEW b \in DOMAIN live, NEW n \in Requests, ReallocAbsorb(b, n)
       PROVE  Multiples(hdr')
  <2>1. ~torn /\ b \in DOMAIN hdr /\ hdr[b].next # NULL /\ hdr' = Merge(hdr, b)
    BY <1>10 DEF ReallocAbsorb, CanAbsorb, IInv, UsedIffOwned
  <2> QED BY <2>1, <1>5
<1>11. ~GrowOrphan /\ ~GrowUnmapped
  BY DEF GrowOrphan, GrowUnmapped
<1>12. ASSUME NEW n \in Requests, KMalloc(n) PROVE Multiples(hdr')
  BY <1>1, <1>12 DEF KMalloc, StartSearch
<1>13. ASSUME NEW b \in DOMAIN live, NEW n \in Requests, ReallocMove(b, n)
       PROVE  Multiples(hdr')
  BY <1>1, <1>13 DEF ReallocMove, StartSearch
<1>14. CASE SearchMiss \/ OutOfMemory \/ CoalesceStep \/ CoalesceDone
            \/ UNCHANGED vars
  BY <1>1, <1>14 DEF SearchMiss, OutOfMemory, CoalesceStep, CoalesceDone, vars
<1> QED BY <1>2, <1>3, <1>6, <1>7, <1>8, <1>9, <1>10, <1>11, <1>12, <1>13,
           <1>14 DEF Next, Running, NoPage, Undefined

\* "Align every allocation to 8 bytes" (memory.cpp:37) holds of the addresses
\* handed out, as heap and page sizes are multiples of 8.
THEOREM AlignedAlways == Spec => []Aligned
<1>1. Init => AlignedInv
  <2> SUFFICES ASSUME Init PROVE Multiples(hdr)
    BY DEF AlignedInv
  <2>1. /\ DOMAIN hdr = {FirstBlock}
        /\ hdr[FirstBlock] = [size |-> PAGE_SIZE - HEADER_SIZE, free |-> TRUE,
                              next |-> NULL]
    BY DEF Init
  <2>2. FirstBlock % 8 = 0 /\ (PAGE_SIZE - HEADER_SIZE) % 8 = 0
    BY PageAddrAligned, PageAssumption, PmmAssumption DEF FirstBlock
  <2> QED BY <2>1, <2>2 DEF Multiples
<1>2. IInv /\ AlignedInv => Aligned
  <2> SUFFICES ASSUME IInv, AlignedInv, ~torn, NEW b \in DOMAIN live
               PROVE  (b + HEADER_SIZE) % 8 = 0
    BY DEF Aligned
  <2>1. b \in DOMAIN hdr /\ b \in Nat
    BY DEF IInv, UsedIffOwned, TypeOK
  <2>2. b % 8 = 0
    BY <2>1 DEF AlignedInv, Multiples
  <2> QED BY <2>1, <2>2, PageAssumption
<1> QED BY <1>1, <1>2, Inductive, NextAligned, PTL DEF Spec

-----------------------------------------------------------------------------
(***************************************************************************)
(* The heap implements Allocator.tla.                                      *)
(***************************************************************************)

\* ByPointer only renames the owners.
LEMMA ByPointerFacts ==
  ASSUME NEW f, DOMAIN f \subseteq Nat
  PROVE  /\ DOMAIN ByPointer(f) = {b + HEADER_SIZE : b \in DOMAIN f}
         /\ \A b \in DOMAIN f : /\ b + HEADER_SIZE \in DOMAIN ByPointer(f)
                                /\ ByPointer(f)[b + HEADER_SIZE] = f[b]
         /\ \A q \in DOMAIN ByPointer(f) :
              \E b \in DOMAIN f : q = b + HEADER_SIZE /\ ByPointer(f)[q] = f[b]
<1>0. HEADER_SIZE \in Nat
  BY PageAssumption
<1>1. DOMAIN ByPointer(f) = {b + HEADER_SIZE : b \in DOMAIN f}
  BY DEF ByPointer
<1>2. \A b \in DOMAIN f : /\ b + HEADER_SIZE \in DOMAIN ByPointer(f)
                         /\ (b + HEADER_SIZE) - HEADER_SIZE = b
  BY <1>0, <1>1
<1>3. \A b \in DOMAIN f : ByPointer(f)[b + HEADER_SIZE] = f[b]
  BY <1>2 DEF ByPointer
<1>4. ASSUME NEW q \in DOMAIN ByPointer(f)
      PROVE  \E b \in DOMAIN f : q = b + HEADER_SIZE /\ ByPointer(f)[q] = f[b]
  <2>1. PICK b \in DOMAIN f : q = b + HEADER_SIZE
    BY <1>1
  <2> QED BY <2>1, <1>3
<1> QED BY <1>1, <1>2, <1>3, <1>4

\* What makes a function the renaming of another.
LEMMA ByPointerIs ==
  ASSUME NEW g, DOMAIN g \subseteq Nat, NEW R, R = [q \in DOMAIN R |-> R[q]],
         DOMAIN R = {a + HEADER_SIZE : a \in DOMAIN g},
         \A a \in DOMAIN g : R[a + HEADER_SIZE] = g[a]
  PROVE  ByPointer(g) = R
<1>0. HEADER_SIZE \in Nat
  BY PageAssumption
<1>1. \A q \in DOMAIN R : R[q] = g[q - HEADER_SIZE]
  <2> TAKE q \in DOMAIN R
  <2>1. PICK a \in DOMAIN g : q = a + HEADER_SIZE
    OBVIOUS
  <2>2. a = q - HEADER_SIZE
    BY <1>0, <2>1
  <2>3. R[a + HEADER_SIZE] = g[a]
    OBVIOUS
  <2> QED BY <2>1, <2>2, <2>3
<1>2. R = [q \in {a + HEADER_SIZE : a \in DOMAIN g} |-> g[q - HEADER_SIZE]]
  BY <1>1
<1> QED BY <1>2 DEF ByPointer

\* Function f with b mapped to n, whether f knew b or not.
With(f, b, n) == [a \in DOMAIN f \cup {b} |-> IF a = b THEN n ELSE f[a]]

\* A new owner in the heap is a new owner in the abstract allocator.
LEMMA ByPointerAdd ==
  ASSUME NEW f, DOMAIN f \subseteq Nat, NEW b \in Nat, NEW n
  PROVE  ByPointer(With(f, b, n)) = With(ByPointer(f), b + HEADER_SIZE, n)
<1> DEFINE g == With(f, b, n)
           F == ByPointer(f)
           R == With(F, b + HEADER_SIZE, n)
<1>0. HEADER_SIZE \in Nat
  BY PageAssumption
<1>1. DOMAIN g = DOMAIN f \cup {b} /\ DOMAIN g \subseteq Nat
      /\ g[b] = n /\ \A a \in DOMAIN f \ {b} : g[a] = f[a]
  BY DEF With
<1>2. /\ DOMAIN F = {a + HEADER_SIZE : a \in DOMAIN f}
      /\ \A a \in DOMAIN f : F[a + HEADER_SIZE] = f[a]
  BY ByPointerFacts
<1> HIDE DEF g, F
<1>3. R = [q \in DOMAIN R |-> R[q]] /\ DOMAIN R = DOMAIN F \cup {b + HEADER_SIZE}
  BY DEF With
<1>4. DOMAIN R = {a + HEADER_SIZE : a \in DOMAIN g}
  <2> HIDE DEF R
  <2> QED BY <1>1, <1>2, <1>3
<1>5. \A a \in DOMAIN g : R[a + HEADER_SIZE] = g[a]
  <2> TAKE a \in DOMAIN g
  <2>1. CASE a = b
    BY <1>1, <2>1 DEF With
  <2>2. CASE a # b
    <3>1. a \in DOMAIN f /\ a + HEADER_SIZE # b + HEADER_SIZE
      BY <1>0, <1>1, <2>2
    <3>2. a + HEADER_SIZE \in DOMAIN F
      BY <1>2, <3>1
    <3>3. R[a + HEADER_SIZE] = F[a + HEADER_SIZE]
      BY <3>1, <3>2 DEF With
    <3> QED BY <1>1, <1>2, <2>2, <3>1, <3>3
  <2> QED BY <2>1, <2>2
<1> HIDE DEF R
<1>6. ByPointer(g) = R
  BY <1>1, <1>3, <1>4, <1>5, ByPointerIs
<1> QED BY <1>6 DEF g, R, F

\* An owner gone from the heap is gone from the abstract allocator.
LEMMA ByPointerRemove ==
  ASSUME NEW f, DOMAIN f \subseteq Nat, NEW b \in DOMAIN f,
         NEW g, DOMAIN g = DOMAIN f \ {b},
         \A a \in DOMAIN f \ {b} : g[a] = f[a]
  PROVE  ByPointer(g) =
           [q \in DOMAIN ByPointer(f) \ {b + HEADER_SIZE} |-> ByPointer(f)[q]]
<1> DEFINE p == b + HEADER_SIZE
           F == ByPointer(f)
           R == [q \in DOMAIN F \ {p} |-> F[q]]
<1>0. HEADER_SIZE \in Nat
  BY PageAssumption
<1>1. DOMAIN g = DOMAIN f \ {b} /\ DOMAIN g \subseteq Nat
      /\ \A a \in DOMAIN f \ {b} : g[a] = f[a]
  OBVIOUS
<1>2. /\ DOMAIN F = {a + HEADER_SIZE : a \in DOMAIN f}
      /\ \A a \in DOMAIN f : F[a + HEADER_SIZE] = f[a]
  BY ByPointerFacts
<1>3. \A a \in DOMAIN f : a + HEADER_SIZE = p => a = b
  BY <1>0
<1> HIDE DEF F
<1>4. R = [q \in DOMAIN R |-> R[q]] /\ DOMAIN R = DOMAIN F \ {p}
  OBVIOUS
<1>5. \A a \in DOMAIN g : a + HEADER_SIZE \in DOMAIN F \ {p}
  BY <1>1, <1>2, <1>3
<1>6. DOMAIN R = {a + HEADER_SIZE : a \in DOMAIN g}
  <2>1. p = b + HEADER_SIZE
    OBVIOUS
  <2> HIDE DEF R, p
  <2> QED BY <1>1, <1>2, <1>4, <1>5, <2>1
<1>7. \A a \in DOMAIN g : R[a + HEADER_SIZE] = g[a]
  <2> TAKE a \in DOMAIN g
  <2>1. R[a + HEADER_SIZE] = F[a + HEADER_SIZE]
    BY <1>5
  <2> QED BY <1>1, <1>2, <2>1
<1> HIDE DEF R
<1>8. ByPointer(g) = R
  BY <1>1, <1>4, <1>6, <1>7, ByPointerIs
<1> QED BY <1>8 DEF R, F

\* A new length for an owner is one for it in the abstract allocator.
LEMMA ByPointerSet ==
  ASSUME NEW f, DOMAIN f \subseteq Nat, NEW b \in DOMAIN f, NEW n,
         NEW g, DOMAIN g = DOMAIN f, g[b] = n,
         \A a \in DOMAIN f \ {b} : g[a] = f[a]
  PROVE  ByPointer(g) = [ByPointer(f) EXCEPT ![b + HEADER_SIZE] = n]
<1> DEFINE p == b + HEADER_SIZE
           F == ByPointer(f)
           R == [F EXCEPT ![p] = n]
<1>0. HEADER_SIZE \in Nat
  BY PageAssumption
<1>1. DOMAIN g = DOMAIN f /\ g[b] = n /\ \A a \in DOMAIN f \ {b} : g[a] = f[a]
  OBVIOUS
<1>2. /\ DOMAIN F = {a + HEADER_SIZE : a \in DOMAIN f}
      /\ \A a \in DOMAIN f : F[a + HEADER_SIZE] = f[a]
      /\ \A a \in DOMAIN f : a + HEADER_SIZE \in DOMAIN F
  BY ByPointerFacts
<1>3. \A a \in DOMAIN f : a + HEADER_SIZE = p => a = b
  BY <1>0
<1> HIDE DEF F
<1>4. R = [q \in DOMAIN R |-> R[q]] /\ DOMAIN R = DOMAIN F
  OBVIOUS
<1>5. DOMAIN R = {a + HEADER_SIZE : a \in DOMAIN g}
  <2> HIDE DEF R
  <2> QED BY <1>1, <1>2, <1>4
<1>6. \A a \in DOMAIN g : R[a + HEADER_SIZE] = g[a]
  <2> TAKE a \in DOMAIN g
  <2>1. a + HEADER_SIZE \in DOMAIN F
    BY <1>1, <1>2
  <2>2. CASE a = b
    BY <1>1, <2>1, <2>2
  <2>3. CASE a # b
    <3>1. R[a + HEADER_SIZE] = F[a + HEADER_SIZE]
      BY <1>1, <1>3, <2>1, <2>3
    <3> QED BY <1>1, <1>2, <2>3, <3>1
  <2> QED BY <2>2, <2>3
<1>7. DOMAIN g \subseteq Nat
  BY <1>1
<1> HIDE DEF R
<1>8. ByPointer(g) = R
  BY <1>4, <1>5, <1>6, <1>7, ByPointerIs
<1> QED BY <1>8 DEF R, F, p

\* Blocks of a tiling give their owners disjoint regions inside the heap.
LEMMA RegionsDisjoint ==
  ASSUME NEW h, Headers(h), NEW e \in Nat, Tiles(h, e),
         NEW b \in DOMAIN h, NEW n \in Nat, n > 0, n <= h[b].size
  PROVE  /\ Abs!Region(b + HEADER_SIZE, n) \subseteq FirstBlock .. (e - 1)
         /\ b + HEADER_SIZE \in FirstBlock .. (e - 1)
         /\ \A c \in DOMAIN h \ {b}, m \in Nat : m <= h[c].size =>
              Abs!Region(b + HEADER_SIZE, n) \cap Abs!Region(c + HEADER_SIZE, m) = {}
<1>0. HEADER_SIZE \in Nat /\ FirstBlock \in Nat
      /\ \A a \in DOMAIN h : a \in Nat /\ h[a].size \in Nat
                            /\ End(h, a) = a + HEADER_SIZE + h[a].size
  BY PageAssumption, FirstBlockPositive DEF Headers, Header, End
<1>1. FirstBlock <= b /\ End(h, b) <= e
  BY TilingOrder
<1>2. ASSUME NEW c \in DOMAIN h \ {b}, NEW m \in Nat, m <= h[c].size,
             NEW x \in Abs!Region(b + HEADER_SIZE, n) \cap
                       Abs!Region(c + HEADER_SIZE, m)
      PROVE  FALSE
  <2>1. End(h, b) <= c \/ End(h, c) <= b
    <3>1. b < c \/ c < b
      BY <1>0
    <3> QED BY <3>1 DEF Tiles
  <2>2. /\ x \in Int /\ b + HEADER_SIZE <= x /\ x < b + HEADER_SIZE + n
        /\ c + HEADER_SIZE <= x /\ x < c + HEADER_SIZE + m
    BY <1>0, <1>2 DEF Abs!Region
  <2> QED BY <1>0, <1>2, <2>1, <2>2
<1>3. /\ Abs!Region(b + HEADER_SIZE, n) \subseteq FirstBlock .. (e - 1)
      /\ b + HEADER_SIZE \in FirstBlock .. (e - 1)
  BY <1>0, <1>1 DEF Abs!Region
<1>4. \A c \in DOMAIN h \ {b}, m \in Nat : m <= h[c].size =>
        Abs!Region(b + HEADER_SIZE, n) \cap Abs!Region(c + HEADER_SIZE, m) = {}
  BY <1>2
<1> QED BY <1>3, <1>4

\* As long as the heap is whole, every page it has taken is mapped.
Mapped == ~torn => FirstClear <= MAPPED

\* Only a linked page makes a whole heap longer, and that page is mapped.
LEMMA NextMapped == IInv /\ Mapped /\ [Next]_vars => Mapped'
<1> SUFFICES ASSUME IInv, Mapped, [Next]_vars PROVE Mapped'
  OBVIOUS
<1>1. CASE bitmap' = bitmap /\ torn' = torn
  BY <1>1, SamePages DEF Mapped
<1>2. CASE torn'
  BY <1>2 DEF Mapped
<1>3. CASE GrowLinked
  <2>1. FirstClear < MAPPED /\ bitmap' = bitmap \cup {FirstClear}
    BY <1>3 DEF GrowLinked
  <2>2. FirstClear < TOTAL /\ FirstClear \in Nat /\ MAPPED \in Nat
    BY <2>1, PmmAssumption DEF IInv, PagesInOrder
  <2>3. FirstClear' = FirstClear + 1
    BY <2>1, <2>2, TakePage
  <2> QED BY <2>1, <2>2, <2>3 DEF Mapped
<1>4. CASE GrowOrphan \/ GrowUnmapped
  BY <1>2, <1>4 DEF GrowOrphan, GrowUnmapped
<1>5. CASE SearchHit \/ SearchMiss \/ OutOfMemory \/ CoalesceMerge \/ CoalesceStep
           \/ CoalesceDone \/ ReallocCopy \/ Undefined \/ UNCHANGED vars
  BY <1>1, <1>5 DEF SearchHit, SearchMiss, OutOfMemory, CoalesceMerge, CoalesceStep,
       CoalesceDone, ReallocCopy, StartFree, Undefined, vars
<1>6. ASSUME NEW b \in DOMAIN live, NEW n \in Requests,
             KMalloc(n) \/ KFree(b) \/ ReallocInPlace(b, n)
               \/ ReallocAbsorb(b, n) \/ ReallocMove(b, n)
      PROVE  Mapped'
  BY <1>1, <1>6 DEF KMalloc, KFree, ReallocInPlace, ReallocAbsorb, ReallocMove,
       StartSearch, StartFree
<1>7. ASSUME NEW n \in Requests, KMalloc(n) PROVE Mapped'
  BY <1>1, <1>7 DEF KMalloc, StartSearch
<1>8. ASSUME NEW b \in DOMAIN live, KFree(b) PROVE Mapped'
  BY <1>1, <1>8 DEF KFree, StartFree
<1> QED BY <1>3, <1>4, <1>5, <1>6, <1>7, <1>8 DEF Next, Running, NoPage

\* What a step that gives n bytes of block b to its owner has to show of the
\* state after it is in the invariant.
LEMMA GrantableAfter ==
  ASSUME IInv, IInv', Mapped', ~torn', NEW b \in DOMAIN live', NEW n \in Requests,
         live'[b] = n, \A a \in DOMAIN live \ {b} : a \in DOMAIN live'
                                                    /\ live'[a] = live[a]
  PROVE  /\ b + HEADER_SIZE \in FirstBlock .. (PageAddr(MAPPED) - 1)
         /\ Abs!Grantable(b + HEADER_SIZE, n)
<1> DEFINE p == b + HEADER_SIZE
           e == HeapEnd'
           A == ByPointer(live)
<1>1. /\ Headers(hdr') /\ Tiles(hdr', e) /\ e \in Nat
      /\ DOMAIN live' \subseteq DOMAIN hdr'
      /\ \A a \in DOMAIN live' : live'[a] <= hdr'[a].size /\ live'[a] \in Nat
  <2>1. Headers(hdr') /\ Tiled' /\ UsedIffOwned'
        /\ \A a \in DOMAIN live' : live'[a] \in Requests
    BY DEF IInv, TypeOK, Headers
  <2>2. FirstClear' \in Nat
    BY PmmAssumption DEF IInv, PagesInOrder
  <2>3. e \in Nat
    BY <2>2, PageAddrType DEF HeapEnd
  <2> QED BY <2>1, <2>3, RequestsAssumption DEF Tiled, UsedIffOwned
<1>2. e <= PageAddr(MAPPED) /\ PageAddr(MAPPED) \in Nat /\ FirstBlock \in Nat
  <2>1. FirstClear' \in Nat /\ FirstClear' <= MAPPED /\ MAPPED \in Nat
    BY PmmAssumption DEF IInv, PagesInOrder, Mapped
  <2> QED BY <2>1, PageAddrMonotone, PageAddrType, FirstBlockPositive DEF HeapEnd
<1> HIDE DEF e
<1>3. n \in Nat /\ n > 0 /\ n <= hdr'[b].size /\ b \in DOMAIN hdr'
  BY <1>1, RequestsAssumption
<1>4. /\ Abs!Region(p, n) \subseteq FirstBlock .. (e - 1)
      /\ p \in FirstBlock .. (e - 1)
      /\ \A c \in DOMAIN hdr' \ {b}, m \in Nat : m <= hdr'[c].size =>
           Abs!Region(p, n) \cap Abs!Region(c + HEADER_SIZE, m) = {}
  BY <1>1, <1>3, RegionsDisjoint
<1>5. FirstBlock .. (e - 1) \subseteq FirstBlock .. (PageAddr(MAPPED) - 1)
  BY <1>1, <1>2
<1>6. ASSUME NEW q \in DOMAIN A \ {p}
      PROVE  Abs!Region(p, n) \cap Abs!Region(q, A[q]) = {}
  <2>0. DOMAIN live \subseteq Nat
    BY DEF IInv, TypeOK
  <2>1. PICK c \in DOMAIN live : q = c + HEADER_SIZE /\ A[q] = live[c]
    BY <2>0, ByPointerFacts
  <2>2. A[q] = live[c]
    BY <2>1
  <2>3. c # b
    BY <1>6, <2>1
  <2>4. c \in DOMAIN hdr' \ {b} /\ live[c] \in Nat /\ live[c] <= hdr'[c].size
    BY <1>1, <2>3
  <2> QED BY <1>4, <2>1, <2>2, <2>4
<1>7. /\ Abs!Region(p, n) \subseteq FirstBlock .. (PageAddr(MAPPED) - 1)
      /\ p \in FirstBlock .. (PageAddr(MAPPED) - 1)
  BY <1>4, <1>5
<1> QED BY <1>6, <1>7 DEF Abs!Grantable

\* A block nobody owned gets its owner: a Grant of the abstract allocator.
LEMMA GrantStep ==
  ASSUME IInv, IInv', Mapped', ~torn, ~torn', NEW b \in Nat, NEW n \in Requests,
         b \notin DOMAIN live,
         live' = [a \in DOMAIN live \cup {b} |-> IF a = b THEN n ELSE live[a]]
  PROVE  Abs!Next
<1> DEFINE p == b + HEADER_SIZE
           A == ByPointer(live)
<1>0. HEADER_SIZE \in Nat /\ DOMAIN live \subseteq Nat
  BY PageAssumption DEF IInv, TypeOK
<1>1. ByPointer(live)' = [q \in DOMAIN A \cup {p} |-> IF q = p THEN n ELSE A[q]]
  <2>1. live' = With(live, b, n)
    BY DEF With
  <2>2. ByPointer(With(live, b, n)) = With(A, p, n)
    BY <1>0, ByPointerAdd
  <2>3. ByPointer(live') = With(A, p, n)
    BY <2>1, <2>2
  <2> QED BY <2>3 DEF ByPointer, With
<1>2. p \notin DOMAIN A
  <2> SUFFICES ASSUME p \in DOMAIN A PROVE FALSE
    OBVIOUS
  <2>1. PICK a \in DOMAIN live : p = a + HEADER_SIZE
    BY <1>0, ByPointerFacts
  <2> QED BY <1>0, <2>1
<1>3. p \in FirstBlock .. (PageAddr(MAPPED) - 1) /\ Abs!Grantable(p, n)
  <2>1. /\ b \in DOMAIN live' /\ live'[b] = n
        /\ \A a \in DOMAIN live \ {b} : a \in DOMAIN live' /\ live'[a] = live[a]
    OBVIOUS
  <2> QED BY <2>1, GrantableAfter
<1>4. Abs!Grant(p, n)
  <2>1. torn' = torn
    BY DEF IInv, TypeOK
  <2> QED BY <1>1, <1>2, <1>3, <2>1 DEF Abs!Grant
<1> HIDE DEF p
<1> QED BY <1>3, <1>4 DEF Abs!Next

\* An owner's block is resized where it is.
LEMMA ResizeStep ==
  ASSUME IInv, IInv', Mapped', ~torn, ~torn', NEW b \in DOMAIN live, NEW n \in Requests,
         live' = [live EXCEPT ![b] = n]
  PROVE  Abs!Next
<1> DEFINE p == b + HEADER_SIZE
<1>0. HEADER_SIZE \in Nat /\ DOMAIN live \subseteq Nat
  BY PageAssumption DEF IInv, TypeOK
<1>1. ByPointer(live)' = [ByPointer(live) EXCEPT ![p] = n]
  <2>1. ByPointer(live') = [ByPointer(live) EXCEPT ![p] = n]
    BY <1>0, ByPointerSet
  <2> QED BY <2>1 DEF ByPointer
<1>2. p \in DOMAIN ByPointer(live)
  BY <1>0, ByPointerFacts
<1>3. p \in FirstBlock .. (PageAddr(MAPPED) - 1) /\ Abs!Grantable(p, n)
  <2>1. /\ b \in DOMAIN live' /\ live'[b] = n
        /\ \A a \in DOMAIN live \ {b} : a \in DOMAIN live' /\ live'[a] = live[a]
    OBVIOUS
  <2> QED BY <2>1, GrantableAfter
<1>4. Abs!Resize(p, n)
  <2>1. torn' = torn
    BY DEF IInv, TypeOK
  <2> QED BY <1>1, <1>2, <1>3, <2>1 DEF Abs!Resize
<1> HIDE DEF p
<1> QED BY <1>3, <1>4 DEF Abs!Next

\* kfree, alone or at the end of krealloc.
LEMMA ReleaseStep ==
  ASSUME IInv, NEW b \in DOMAIN live, StartFree(b)
  PROVE  Abs!Next
<1> DEFINE p == b + HEADER_SIZE
           A == ByPointer(live)
<1>0. HEADER_SIZE \in Nat /\ DOMAIN live \subseteq Nat
  BY PageAssumption DEF IInv, TypeOK
<1>1. live' = [a \in DOMAIN live \ {b} |-> live[a]] /\ torn' = torn
  BY DEF StartFree, Without
<1>2. ByPointer(live)' = [q \in DOMAIN A \ {p} |-> A[q]]
  <2>1. ByPointer(live') = [q \in DOMAIN A \ {p} |-> A[q]]
    BY <1>0, <1>1, ByPointerRemove
  <2> QED BY <2>1 DEF ByPointer
<1>3. p \in DOMAIN A
  BY <1>0, ByPointerFacts
<1>4. Abs!Release(p)
  BY <1>1, <1>2, <1>3 DEF Abs!Release
<1> HIDE DEF p
<1> QED BY <1>3, <1>4 DEF Abs!Next

\* A step that changes neither an owner nor the heap's health is a stutter.
LEMMA QuietStep ==
  ASSUME live' = live, torn' = torn PROVE UNCHANGED Abs!vars
BY DEF Abs!vars, ByPointer

\* Every step of the heap is a step of the abstract allocator, or a stutter.
LEMMA StepImplements ==
  ASSUME IInv, IInv', Mapped', [Next]_vars PROVE [Abs!Next]_(Abs!vars)
<1>1. CASE UNCHANGED vars
  <2>1. live' = live /\ torn' = torn
    BY <1>1 DEF vars
  <2> QED BY <2>1, QuietStep
<1>2. ASSUME NEW n \in Requests, KMalloc(n) PROVE [Abs!Next]_(Abs!vars)
  <2>1. live' = live /\ torn' = torn
    BY <1>2 DEF KMalloc, StartSearch
  <2> QED BY <2>1, QuietStep
<1>3. ASSUME NEW b \in DOMAIN live, KFree(b) PROVE [Abs!Next]_(Abs!vars)
  BY <1>3, ReleaseStep DEF KFree
<1>4. ASSUME NEW b \in DOMAIN live, NEW n \in Requests, ReallocInPlace(b, n)
      PROVE  [Abs!Next]_(Abs!vars)
  <2>1. live' = [live EXCEPT ![b] = n] /\ ~torn /\ ~torn'
    BY <1>4 DEF ReallocInPlace
  <2> QED BY <2>1, ResizeStep
<1>5. ASSUME NEW b \in DOMAIN live, NEW n \in Requests, ReallocAbsorb(b, n)
      PROVE  [Abs!Next]_(Abs!vars)
  <2>1. live' = [live EXCEPT ![b] = n] /\ ~torn /\ ~torn'
    BY <1>5 DEF ReallocAbsorb
  <2> QED BY <2>1, ResizeStep
<1>6. ASSUME NEW b \in DOMAIN live, NEW n \in Requests, ReallocMove(b, n)
      PROVE  [Abs!Next]_(Abs!vars)
  <2>1. live' = live /\ torn' = torn
    BY <1>6 DEF ReallocMove, StartSearch
  <2> QED BY <2>1, QuietStep
<1>7. CASE SearchHit
  <2>1. /\ pc = "search" /\ ~torn /\ ~torn' /\ cur # NULL /\ hdr[cur].free
        /\ live' = [a \in DOMAIN live \cup {cur} |-> IF a = cur THEN ask ELSE live[a]]
    BY <1>7 DEF SearchHit, Fits, ReturnBlock
  <2>2. ask \in Requests /\ cur \in Nat
    BY <2>1 DEF IInv, SearchInv, TypeOK
  <2>3. cur \notin DOMAIN live
    BY <2>1 DEF IInv, UsedIffOwned
  <2> QED BY <2>1, <2>2, <2>3, GrantStep
<1>8. CASE GrowLinked
  <2> DEFINE b == PageAddr(FirstClear)
  <2>1. /\ pc = "search" /\ ~torn /\ cur = NULL
        /\ live' = [a \in DOMAIN live \cup {b} |-> IF a = b THEN ask ELSE live[a]]
    BY <1>8 DEF GrowLinked, ReturnBlock
  <2>2. ask \in Requests
    BY <2>1 DEF IInv, SearchInv
  <2>3. b \in Nat /\ b \notin DOMAIN live
    <3>1. FirstClear \in Nat
      BY PmmAssumption DEF IInv, PagesInOrder
    <3>2. b \in Nat /\ HeapEnd = b
      BY <3>1, PageAddrType DEF HeapEnd
    <3>3. Headers(hdr) /\ Tiles(hdr, HeapEnd)
      BY <2>1, HeapFacts
    <3>4. \A a \in DOMAIN hdr : a < End(hdr, a) /\ End(hdr, a) <= HeapEnd
                                /\ a \in Nat /\ End(hdr, a) \in Nat
      BY <3>2, <3>3, TilingOrder
    <3>5. DOMAIN live \subseteq DOMAIN hdr
      BY <2>1 DEF IInv, UsedIffOwned
    <3> HIDE DEF b
    <3> QED BY <3>2, <3>4, <3>5
  <2> HIDE DEF b
  <2>4. CASE torn'
    BY <2>1, <2>4 DEF Abs!Break, Abs!Next
  <2>5. CASE ~torn'
    BY <2>1, <2>2, <2>3, <2>5, GrantStep
  <2> QED BY <2>4, <2>5
<1>9. CASE GrowOrphan \/ GrowUnmapped
  <2>1. ~torn /\ torn'
    BY <1>9 DEF GrowOrphan, GrowUnmapped
  <2> QED BY <2>1 DEF Abs!Break, Abs!Next
<1>10. CASE ReallocCopy
  <2>1. StartFree(old) /\ pc = "copy" /\ ~torn
    BY <1>10 DEF ReallocCopy
  <2>2. old \in DOMAIN live
    BY <2>1 DEF IInv, CopyFits
  <2> QED BY <2>1, <2>2, ReleaseStep
<1>11. CASE SearchMiss \/ OutOfMemory \/ CoalesceMerge \/ CoalesceStep
            \/ CoalesceDone \/ Undefined
  <2>1. live' = live /\ torn' = torn
    BY <1>11 DEF SearchMiss, OutOfMemory, CoalesceMerge, CoalesceStep,
                 CoalesceDone, Undefined, vars
  <2> QED BY <2>1, QuietStep
<1> QED BY <1>1, <1>2, <1>3, <1>4, <1>5, <1>6, <1>7, <1>8, <1>9, <1>10, <1>11
        DEF Next, Running, NoPage

\* The kernel heap does what Allocator.tla promises, for every page size,
\* amount of memory and set of requests: a pointer kmalloc or krealloc returns
\* gives its caller bytes of the heap that no other caller holds, until the
\* step that tears the heap, and that step is kmalloc's taking of a page.
THEOREM HeapImplementsAllocator == Spec => ImplementsAllocator
<1>1. Init => Abs!Init
  BY DEF Init, Abs!Init, ByPointer
<1>2. IInv /\ IInv' /\ Mapped' /\ [Next]_vars => [Abs!Next]_(Abs!vars)
  BY StepImplements
<1>3. Init => Mapped
  <2> SUFFICES ASSUME Init PROVE Mapped
    OBVIOUS
  <2>1. FirstClear = FirstClearIn(0 .. ((RESERVED + 1) - 1))
    BY PmmAssumption DEF Init, FirstClear, FirstClearIn
  <2>2. RESERVED + 1 \in 0 .. TOTAL /\ RESERVED + 1 <= MAPPED
    BY PmmAssumption
  <2>3. FirstClear = RESERVED + 1
    BY <2>1, <2>2, FirstClearIs
  <2> QED BY <2>2, <2>3 DEF Mapped
<1> QED BY <1>1, <1>2, <1>3, Inductive, NextMapped, PTL DEF Spec, ImplementsAllocator, Abs!Spec
=============================================================================
