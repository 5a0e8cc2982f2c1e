------------------------------ MODULE MCMemory ------------------------------
(* Instances of Memory for TLC: four-byte blocks with two-byte table entries *)
(* in a six-bit (eight-bit in the overrun run) address space.                *)
EXTENDS Memory

\* Sizes at the block boundaries, up to the whole pool.
MCRequests == {0, 1, 4, 5, 12, 16}
MCArrays == {<<0, 3>>, <<2, 3>>, <<16, 5>>}

\* Sizes larger than the pool, and one that wraps in the ceiling division.
MCOversize == {5, 16, 17, 126}
=============================================================================
