---------------------------- MODULE MCMultitask ----------------------------
(* Instances of Multitask for TLC: two-byte blocks, stacks of one block.    *)
EXTENDS Multitask

\* A program of one block and one of two.
MCImages == {2, 3}
=============================================================================
