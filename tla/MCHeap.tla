------------------------------- MODULE MCHeap -------------------------------
(* Heap with small pages *)
EXTENDS Heap

=============================================================================
