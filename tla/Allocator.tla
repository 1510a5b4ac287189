----------------------------- MODULE Allocator -----------------------------
(***************************************************************************)
(* What kmalloc, kfree and krealloc of src/memory.cpp promise their        *)
(* callers, with no word on headers, lists or pages: every pointer handed  *)
(* out is the first byte of a region of at least the size asked for that   *)
(* lies inside the memory the allocator owns and that no other live        *)
(* pointer shares.  Heap.tla is shown to implement this module.            *)
(*                                                                         *)
(* `broken` marks the one way out: once it is set the allocator promises   *)
(* nothing any more.  Heap.tla maps to it the steps of kmalloc after which *)
(* two owners share bytes.                                                 *)
(***************************************************************************)
EXTENDS Integers

CONSTANTS
  Memory,   \* the bytes the allocator may hand out, a set of addresses
  Lengths   \* the sizes a caller may ask for

VARIABLES
  live,     \* the size asked for, of every pointer handed out and not freed
  broken    \* TRUE once the allocator has broken its promise

vars == <<live, broken>>

\* The bytes the owner of pointer p may use when it asked for n of them.
Region(p, n) == p .. (p + n - 1)

\* A caller may be given p with n bytes: the bytes exist and nobody else,
\* apart from p's present owner, holds one of them.
Grantable(p, n) ==
  /\ Region(p, n) \subseteq Memory
  /\ \A q \in DOMAIN live \ {p} : Region(p, n) \cap Region(q, live[q]) = {}

Init ==
  /\ live = [p \in {} |-> 0]
  /\ broken = FALSE

Grant(p, n) ==
  /\ p \notin DOMAIN live
  /\ live' = [q \in DOMAIN live \cup {p} |-> IF q = p THEN n ELSE live[q]]
  /\ Grantable(p, n)
  /\ UNCHANGED broken

Resize(p, n) ==
  /\ p \in DOMAIN live
  /\ live' = [live EXCEPT ![p] = n]
  /\ Grantable(p, n)
  /\ UNCHANGED broken

Release(p) ==
  /\ p \in DOMAIN live
  /\ live' = [q \in DOMAIN live \ {p} |-> live[q]]
  /\ UNCHANGED broken

Break == ~broken /\ broken'

Next ==
  \/ \E p \in Memory, n \in Lengths : Grant(p, n) \/ Resize(p, n)
  \/ \E p \in DOMAIN live : Release(p)
  \/ Break

Spec == Init /\ [][Next]_vars
=============================================================================
