----------------------------- MODULE BlockTable -----------------------------
(***************************************************************************)
(* The block table of the memory manager (kernel/memory.c) as pure         *)
(* operators: how malloc searches and marks the table, how free clears it. *)
(* Memory is the manager itself; Multitask and CoreFS call these operators *)
(* where the code calls malloc, realloc and free.                          *)
(*                                                                         *)
(* A table maps a block number to the record the code keeps for it: the    *)
(* flag "allocated", and "count", the length of the run of blocks that the *)
(* block is the first of (0 when it is the first of none).                 *)
(***************************************************************************)
EXTENDS Integers, FiniteSets

CONSTANTS BLKSIZE,   \* bytes in a block (MEMORY_BLKSIZE)
          BlockC,    \* number of blocks (memory_BlockC)
          WORD       \* size_t arithmetic is modulo WORD

\* memory_init panics when there is no block, and the pool lies below the
\* last block of the address space.
ASSUME BlockTableAssumption ==
  /\ BLKSIZE \in Nat \ {0}
  /\ BlockC \in Nat \ {0}
  /\ WORD \in Nat
  /\ (BlockC + 1) * BLKSIZE <= WORD

Blocks == 0 .. (BlockC - 1)

Table == [Blocks -> [count : 0 .. BlockC, allocated : BOOLEAN]]

ClearBlock == [count |-> 0, allocated |-> FALSE]

EmptyTable == [i \in Blocks |-> ClearBlock]

\* The n blocks from block b on.
Run(b, n) == b .. (b + n - 1)

\* Number of blocks that hold size bytes; the addition wraps.
BlocksFor(size) == ((size + BLKSIZE - 1) % WORD) \div BLKSIZE

(***************************************************************************)
(* The search.  The loop's last start, BlockC - n, wraps when n > BlockC:  *)
(* the loop then also tries runs that end outside the table, where it      *)
(* reads whatever memory holds.                                            *)
(***************************************************************************)
\* Mutant: the loop runs to the last block whatever the length.
LastStart_ToLastBlock(n) == BlockC - 1

LastStart(n) == (BlockC - n) % WORD

Inside(b, n) == b + n <= BlockC

\* No block of the table in the run is allocated.
FreeRun(tab, b, n) == \A j \in Run(b, n) \cap Blocks : ~ tab[j].allocated

Fits(tab, b, n) == Inside(b, n) /\ FreeRun(tab, b, n)

\* The starts the first-fit search can end at: the first run that fits or,
\* failing that, a run reaching outside the table whose blocks outside it
\* happen to read as free.
Starts(tab, n) ==
  {b \in 0 .. LastStart(n) : /\ FreeRun(tab, b, n)
                             /\ \A a \in 0 .. (b - 1) : ~ Fits(tab, a, n)}

\* The search can end without a start.
NoStart(tab, n) == \A b \in 0 .. LastStart(n) : ~ Fits(tab, b, n)

\* Mutant: the run's length is stored in bytes.
Mark_LengthInBytes(tab, b, n) ==
  [i \in Blocks |->
     IF i = b THEN [count |-> n * BLKSIZE, allocated |-> n > 0 \/ tab[i].allocated]
     ELSE IF i \in Run(b, n) THEN [count |-> 0, allocated |-> TRUE]
     ELSE tab[i]]

\* The table after the run of n blocks at b is handed out.
Mark(tab, b, n) ==
  [i \in Blocks |->
     IF i = b THEN [count |-> n, allocated |-> n > 0 \/ tab[i].allocated]
     ELSE IF i \in Run(b, n) THEN [count |-> 0, allocated |-> TRUE]
     ELSE tab[i]]

\* Mutant: only the first block of the run is cleared.
Unmark_FirstBlockOnly(tab, num) ==
  [i \in Blocks |-> IF i = num /\ tab[num].count > 0 THEN ClearBlock ELSE tab[i]]

\* The table after free of block num: a block that starts no run is ignored.
Unmark(tab, num) ==
  [i \in Blocks |-> IF i \in Run(num, tab[num].count) THEN ClearBlock ELSE tab[i]]

-----------------------------------------------------------------------------
(* What the table says of the pool. *)

Heads(tab) == {b \in Blocks : tab[b].count > 0}

\* The runs that are handed out, each with its first block and its length.
Regions(tab) == {[base |-> b, len |-> tab[b].count] : b \in Heads(tab)}

Allocated(tab) == {i \in Blocks : tab[i].allocated}

(***************************************************************************)
(* A table is sound when the runs lie in the table, their blocks are       *)
(* allocated, no two of them meet, and every allocated block is in one.    *)
(***************************************************************************)
RunsAllocated(tab) ==
  \A b \in Heads(tab) : \A j \in Run(b, tab[b].count) : j \in Blocks /\ tab[j].allocated

RunsDisjoint(tab) ==
  \A b \in Heads(tab) : \A j \in Run(b, tab[b].count) : j = b \/ tab[j].count = 0

RunsCover(tab) ==
  \A i \in Allocated(tab) : \E b \in Heads(tab) : i \in Run(b, tab[b].count)

TableSound(tab) == RunsAllocated(tab) /\ RunsDisjoint(tab) /\ RunsCover(tab)
=============================================================================
