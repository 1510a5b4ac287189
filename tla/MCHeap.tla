------------------------------- MODULE MCHeap -------------------------------
(***************************************************************************)
(* The instance of Heap.tla that TLC checks.  Sizes are scaled down, not   *)
(* the arithmetic: a page of 80 bytes leaves 64 for its first block, the   *)
(* header keeps its 16 bytes and the split threshold its 8.  A request of  *)
(* 1 is rounded up; 40 leaves exactly the smallest block a split can make  *)
(* in a fresh page; 72 is a request no page can hold but two merged pages  *)
(* can.                                                                    *)
(***************************************************************************)
EXTENDS Heap

MCRequests == {1, 40, 72}
=============================================================================
