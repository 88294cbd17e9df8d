-------------------------------- MODULE MCHeap --------------------------------
(* Instances of Heap for TLC; the values are in the .cfg files.            *)
EXTENDS Heap
=============================================================================
