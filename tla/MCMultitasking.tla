---------------------------- MODULE MCMultitasking ----------------------------
(* Instances of Multitasking for TLC; the values are in the .cfg files.    *)
EXTENDS Multitasking
=============================================================================
