------------------------------- MODULE MCHeap -------------------------------
(***************************************************************************)
(* A heap that holds up to six blocks of the smallest size.                *)
(***************************************************************************)
EXTENDS LwipHeap

\* Less than the smallest block; more, in steps; all of the heap; and
\* the largest mem_size_t, which rounds up to 0.
MCRequests == {9, 14, 20, 40, 112, 255}
=============================================================================
