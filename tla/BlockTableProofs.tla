-------------------------- MODULE BlockTableProofs --------------------------
(***************************************************************************)
(* What marking and clearing runs does to a sound block table, for every   *)
(* table size.                                                             *)
(***************************************************************************)
EXTENDS BlockTable, WellFoundedInduction, TLAPS

\* The table a run is taken from and given back to stays a table.
LEMMA MarkType ==
  ASSUME NEW tab \in Table, NEW b \in Nat, NEW n \in 0 .. BlockC
  PROVE  Mark(tab, b, n) \in Table
  <1>1. ASSUME NEW i \in Blocks
        PROVE  Mark(tab, b, n)[i] \in [count : 0 .. BlockC, allocated : BOOLEAN]
    <2>1. tab[i] \in [count : 0 .. BlockC, allocated : BOOLEAN]
      BY DEF Table
    <2>2. CASE i = b
      BY <2>1, <2>2 DEF Mark
    <2>3. CASE i # b /\ i \in Run(b, n)
      BY <2>1, <2>3, BlockTableAssumption DEF Mark
    <2>4. CASE i # b /\ i \notin Run(b, n)
      BY <2>1, <2>4 DEF Mark
    <2> QED BY <2>2, <2>3, <2>4
  <1> QED BY <1>1 DEF Mark, Table

LEMMA UnmarkType ==
  ASSUME NEW tab \in Table, NEW num \in Blocks
  PROVE  Unmark(tab, num) \in Table
  <1>1. ClearBlock \in [count : 0 .. BlockC, allocated : BOOLEAN]
    BY BlockTableAssumption DEF ClearBlock
  <1> QED BY <1>1 DEF Unmark, Table

\* What the fields of a marked table are.
LEMMA MarkFields ==
  ASSUME NEW tab \in Table, NEW b \in Nat, NEW n \in Nat \ {0}, NEW i \in Blocks
  PROVE  /\ Mark(tab, b, n)[i].count =
              IF i = b THEN n ELSE IF i \in Run(b, n) THEN 0 ELSE tab[i].count
         /\ Mark(tab, b, n)[i].allocated <=> (i \in Run(b, n) \/ tab[i].allocated)
  <1>1. i = b => i \in Run(b, n)
    BY DEF Run, Blocks
  <1>2. tab[i].allocated \in BOOLEAN
    BY DEF Table
  <1>3. n > 0
    OBVIOUS
  <1>4. CASE i = b
    BY <1>1, <1>3, <1>4 DEF Mark
  <1>5. CASE i # b
    BY <1>2, <1>5 DEF Mark
  <1> QED BY <1>4, <1>5

LEMMA UnmarkFields ==
  ASSUME NEW tab \in Table, NEW num \in Blocks, NEW i \in Blocks
  PROVE  /\ Unmark(tab, num)[i].count =
              IF i \in Run(num, tab[num].count) THEN 0 ELSE tab[i].count
         /\ Unmark(tab, num)[i].allocated <=>
              (i \notin Run(num, tab[num].count) /\ tab[i].allocated)
  <1>1. tab[i].allocated \in BOOLEAN
    BY DEF Table
  <1> QED BY <1>1 DEF Unmark, ClearBlock

LEMMA TableFields ==
  ASSUME NEW tab \in Table, NEW i \in Blocks
  PROVE  tab[i].count \in Nat /\ tab[i].allocated \in BOOLEAN /\ i \in Nat
  BY BlockTableAssumption DEF Table, Blocks

\* Handing out a run of free blocks keeps the table sound and adds exactly
\* the blocks of the run: the heads are the old ones and the run's first
\* block, and no other record changes.
LEMMA MarkSound ==
  ASSUME NEW tab \in Table, NEW b \in Nat, NEW n \in Nat \ {0},
         TableSound(tab), Fits(tab, b, n)
  PROVE  /\ TableSound(Mark(tab, b, n))
         /\ b \in Blocks
         /\ Heads(Mark(tab, b, n)) = Heads(tab) \cup {b}
         /\ Allocated(Mark(tab, b, n)) = Allocated(tab) \cup Run(b, n)
         /\ \A i \in Blocks \ Run(b, n) : Mark(tab, b, n)[i] = tab[i]
  <1> DEFINE new == Mark(tab, b, n)
  <1>1. Run(b, n) \subseteq Blocks /\ b \in Blocks /\ b \in Run(b, n)
    BY BlockTableAssumption DEF Fits, Inside, Run, Blocks
  <1>2. \A j \in Run(b, n) : ~ tab[j].allocated
    BY <1>1 DEF Fits, FreeRun
  <1>3. \A j \in Run(b, n) : tab[j].count = 0
    <2> SUFFICES ASSUME NEW j \in Run(b, n), tab[j].count # 0 PROVE FALSE
      OBVIOUS
    <2>0. j \in Blocks /\ tab[j].count \in Nat /\ j \in Nat
      BY <1>1, TableFields
    <2>1. j \in Heads(tab)
      BY <2>0 DEF Heads
    <2>2. j \in Run(j, tab[j].count)
      BY <2>0 DEF Run
    <2> QED BY <2>1, <2>2, <1>2 DEF TableSound, RunsAllocated
  <1>4. Heads(new) = Heads(tab) \cup {b}
    <2>1. \A i \in Blocks : new[i].count > 0 <=> i = b \/ tab[i].count > 0
      <3> TAKE i \in Blocks
      <3>1. CASE i = b
        BY <3>1, MarkFields
      <3>2. CASE i # b /\ i \in Run(b, n)
        BY <3>2, <1>3, MarkFields
      <3>3. CASE i # b /\ i \notin Run(b, n)
        BY <3>3, MarkFields
      <3> QED BY <3>1, <3>2, <3>3
    <2> HIDE DEF new
    <2> QED BY <2>1, <1>1 DEF Heads
  <1>5. Allocated(new) = Allocated(tab) \cup Run(b, n)
    BY <1>1, MarkFields DEF Allocated
  <1>6. \A i \in Blocks \ Run(b, n) : new[i] = tab[i]
    BY <1>1 DEF Mark
  <1>7. new[b].count = n
    BY <1>1, MarkFields
  <1>8. \A h \in Heads(tab) : h # b /\ h \in Blocks /\ new[h].count = tab[h].count
    BY <1>1, <1>3, MarkFields, TableFields DEF Heads
  <1>9. \A h \in Heads(tab) : Run(h, tab[h].count) \cap Run(b, n) = {}
    BY <1>2 DEF TableSound, RunsAllocated
  <1>10. RunsAllocated(new)
    <2> SUFFICES ASSUME NEW h \in Heads(new), NEW j \in Run(h, new[h].count)
                 PROVE  j \in Blocks /\ new[j].allocated
      BY DEF RunsAllocated
    <2>1. CASE h = b
      BY <2>1, <1>1, <1>7, MarkFields
    <2>2. CASE h \in Heads(tab)
      BY <2>2, <1>8, MarkFields DEF TableSound, RunsAllocated
    <2> QED BY <2>1, <2>2, <1>4
  <1>11. RunsDisjoint(new)
    <2> SUFFICES ASSUME NEW h \in Heads(new), NEW j \in Run(h, new[h].count), j # h
                 PROVE  new[j].count = 0
      BY DEF RunsDisjoint
    <2>1. CASE h = b
      <3>1. j \in Run(b, n) /\ j \in Blocks /\ j # b
        BY <2>1, <1>1, <1>7
      <3> QED BY <3>1, MarkFields
    <2>2. CASE h \in Heads(tab)
      <3>1. j \in Run(h, tab[h].count)
        BY <2>2, <1>8
      <3>2. j \in Blocks /\ tab[j].count = 0 /\ j \notin Run(b, n)
        BY <3>1, <2>2, <1>9 DEF TableSound, RunsDisjoint, RunsAllocated
      <3> QED BY <3>2, <1>6
    <2> QED BY <2>1, <2>2, <1>4
  <1>12. RunsCover(new)
    <2> SUFFICES ASSUME NEW i \in Allocated(new)
                 PROVE  \E h \in Heads(new) : i \in Run(h, new[h].count)
      BY DEF RunsCover
    <2>1. CASE i \in Run(b, n)
      BY <2>1, <1>4, <1>7
    <2>2. CASE i \in Allocated(tab)
      BY <2>2, <1>4, <1>8 DEF TableSound, RunsCover
    <2> QED BY <2>1, <2>2, <1>5
  <1> QED BY <1>1, <1>4, <1>5, <1>6, <1>10, <1>11, <1>12 DEF TableSound

\* Giving back a run keeps the table sound and takes out exactly its blocks;
\* an address that starts no run changes nothing.
LEMMA UnmarkSound ==
  ASSUME NEW tab \in Table, NEW num \in Blocks, TableSound(tab)
  PROVE  /\ TableSound(Unmark(tab, num))
         /\ Heads(Unmark(tab, num)) = Heads(tab) \ {num}
         /\ Allocated(Unmark(tab, num)) = Allocated(tab) \ Run(num, tab[num].count)
         /\ \A i \in Blocks \ Run(num, tab[num].count) : Unmark(tab, num)[i] = tab[i]
  <1> DEFINE new == Unmark(tab, num)
             run == Run(num, tab[num].count)
  <1>1. \A i \in Blocks \ run : new[i] = tab[i]
    BY DEF Unmark
  <1>2. CASE tab[num].count = 0
    <2>1. run = {}
      BY <1>2, TableFields DEF Run
    <2>2. new = tab
      BY <2>1, <1>1 DEF Unmark, Table
    <2>3. num \notin Heads(tab)
      BY <1>2 DEF Heads
    <2> QED BY <1>1, <2>1, <2>2, <2>3
  <1>3. CASE tab[num].count # 0
    <2>1. num \in Heads(tab) /\ num \in run
      BY <1>3, TableFields DEF Heads, Run
    <2>2. run \subseteq Blocks
      BY <2>1 DEF TableSound, RunsAllocated
    <2>3. \A j \in run : j = num \/ tab[j].count = 0
      BY <2>1 DEF TableSound, RunsDisjoint
    <2>4. Heads(new) = Heads(tab) \ {num}
      BY <2>1, <2>3, UnmarkFields DEF Heads
    <2>5. Allocated(new) = Allocated(tab) \ run
      BY UnmarkFields DEF Allocated
    <2>6. \A h \in Heads(new) : h \in Blocks /\ h \notin run /\ new[h].count = tab[h].count
      BY <2>4, <2>1, <2>3, UnmarkFields, TableFields DEF Heads
    <2>7. ASSUME NEW h \in Heads(new) PROVE Run(h, tab[h].count) \cap run = {}
      <3> SUFFICES ASSUME NEW j \in Run(h, tab[h].count), j \in run PROVE FALSE
        OBVIOUS
      <3>1. h \in Heads(tab) /\ h # num /\ h \notin run /\ h \in Nat /\ num \in Nat
        BY <2>4, <2>6, TableFields
      <3>2. num \notin Run(h, tab[h].count)
        BY <3>1, <2>1, <1>3 DEF TableSound, RunsDisjoint
      <3>3. tab[num].count \in Nat /\ tab[h].count \in Nat
        BY <2>6, TableFields
      <3> QED BY <3>1, <3>2, <3>3 DEF Run
    <2>8. RunsAllocated(new)
      <3> SUFFICES ASSUME NEW h \in Heads(new), NEW j \in Run(h, new[h].count)
                   PROVE  j \in Blocks /\ new[j].allocated
        BY DEF RunsAllocated
      <3>1. h \in Heads(tab) /\ j \in Run(h, tab[h].count)
        BY <2>4, <2>6
      <3>2. j \in Blocks /\ tab[j].allocated /\ j \notin run
        BY <3>1, <2>7 DEF TableSound, RunsAllocated
      <3> QED BY <3>2, UnmarkFields
    <2>9. RunsDisjoint(new)
      <3> SUFFICES ASSUME NEW h \in Heads(new), NEW j \in Run(h, new[h].count), j # h
                   PROVE  new[j].count = 0
        BY DEF RunsDisjoint
      <3>1. h \in Heads(tab) /\ j \in Run(h, tab[h].count)
        BY <2>4, <2>6
      <3>2. j \in Blocks /\ tab[j].count = 0
        BY <3>1 DEF TableSound, RunsAllocated, RunsDisjoint
      <3> QED BY <3>2, UnmarkFields
    <2>10. RunsCover(new)
      <3> SUFFICES ASSUME NEW i \in Allocated(new)
                   PROVE  \E h \in Heads(new) : i \in Run(h, new[h].count)
        BY DEF RunsCover
      <3>1. i \in Allocated(tab) /\ i \notin run
        BY <2>5
      <3>2. PICK h \in Heads(tab) : i \in Run(h, tab[h].count)
        BY <3>1 DEF TableSound, RunsCover
      <3>3. h \in Heads(new)
        BY <3>1, <3>2, <2>4
      <3> QED BY <3>2, <3>3, <2>6
    <2> QED BY <1>1, <2>4, <2>5, <2>8, <2>9, <2>10 DEF TableSound
  <1> QED BY <1>2, <1>3

\* A request of at most BlockC blocks ends at a start whose run fits.
LEMMA StartsFit ==
  ASSUME NEW tab \in Table, NEW n \in 1 .. BlockC, NEW b \in Starts(tab, n)
  PROVE  b \in Nat /\ Fits(tab, b, n)
  <1>1. (BlockC - n) % WORD = BlockC - n
    <2>1. BlockC - n \in Nat /\ BlockC \in Nat /\ BLKSIZE \in Nat \ {0} /\ WORD \in Nat
      BY BlockTableAssumption
    <2>2. BlockC < WORD
      <3>1. (BlockC + 1) * BLKSIZE >= BlockC + 1
        BY <2>1
      <3> QED BY <3>1, <2>1, BlockTableAssumption
    <2> QED BY <2>1, <2>2
  <1>2. b \in Nat /\ b <= BlockC - n
    BY <1>1, BlockTableAssumption DEF Starts, LastStart
  <1> QED BY <1>2, BlockTableAssumption DEF Starts, Fits, Inside

\* Handing out a run adds its region to the table's, giving one back takes
\* its region out.
LEMMA MarkRegions ==
  ASSUME NEW tab \in Table, NEW b \in Nat, NEW n \in Nat \ {0},
         TableSound(tab), Fits(tab, b, n)
  PROVE  /\ Regions(Mark(tab, b, n)) = Regions(tab) \cup {[base |-> b, len |-> n]}
         /\ b \notin Heads(tab)
  <1> DEFINE new == Mark(tab, b, n)
  <1>1. b \in Blocks /\ Heads(new) = Heads(tab) \cup {b}
    BY MarkSound
  <1>2. new[b].count = n
    BY <1>1, MarkFields
  <1>3. \A h \in Heads(tab) : h \in Blocks /\ h \notin Run(b, n)
    <2> SUFFICES ASSUME NEW h \in Heads(tab), h \in Run(b, n) PROVE FALSE
      BY DEF Heads
    <2>1. h \in Blocks /\ h \in Run(h, tab[h].count)
      BY TableFields DEF Heads, Run
    <2>2. tab[h].allocated
      BY <2>1 DEF TableSound, RunsAllocated
    <2> QED BY <2>1, <2>2 DEF Fits, FreeRun
  <1>4. \A h \in Heads(tab) : new[h].count = tab[h].count
    BY <1>3, MarkSound
  <1>5. b \in Run(b, n)
    BY DEF Run
  <1> HIDE DEF new
  <1>6. Regions(new) = Regions(tab) \cup {[base |-> b, len |-> n]}
    BY <1>1, <1>2, <1>4 DEF Regions
  <1> QED BY <1>3, <1>5, <1>6 DEF new

LEMMA UnmarkRegions ==
  ASSUME NEW tab \in Table, NEW num \in Blocks, TableSound(tab)
  PROVE  Regions(Unmark(tab, num)) = Regions(tab) \ {[base |-> num, len |-> tab[num].count]}
  <1> DEFINE new == Unmark(tab, num)
  <1>1. Heads(new) = Heads(tab) \ {num}
    BY UnmarkSound
  <1>2. \A h \in Heads(tab) \ {num} : new[h].count = tab[h].count
    <2> TAKE h \in Heads(tab) \ {num}
    <2>1. h \in Blocks /\ tab[h].count > 0 /\ tab[num].count \in Nat /\ num \in Nat
      BY TableFields DEF Heads
    <2>2. h \notin Run(num, tab[num].count)
      <3> SUFFICES ASSUME h \in Run(num, tab[num].count) PROVE FALSE
        OBVIOUS
      <3>1. num \in Heads(tab)
        BY <2>1 DEF Run, Heads
      <3> QED BY <2>1, <3>1 DEF TableSound, RunsDisjoint
    <2> QED BY <2>1, <2>2, UnmarkSound
  <1> HIDE DEF new
  <1>3. Regions(new) = Regions(tab) \ {[base |-> num, len |-> tab[num].count]}
    BY <1>1, <1>2 DEF Regions
  <1> QED BY <1>3 DEF new

-----------------------------------------------------------------------------
(* What the callers of malloc and free rely on. *)

\* A nonempty set of naturals has a least element.
LEMMA NatLeast ==
  ASSUME NEW S \in SUBSET Nat, S # {}
  PROVE  \E x \in S : \A y \in S : x <= y
  <1> DEFINE R == OpToRel(<, Nat)
  <1>1. \E x \in S : \A y \in S : ~ (<<y, x>> \in R)
    BY NatLessThanWellFounded, WFMin
  <1>2. \A x, y \in Nat : y < x => <<y, x>> \in R
    BY DEF OpToRel
  <1> HIDE DEF R
  <1>3. PICK x \in S : \A y \in S : ~ (<<y, x>> \in R)
    BY <1>1
  <1>4. \A y \in S : x <= y
    <2> TAKE y \in S
    <2>1. x \in Nat /\ y \in Nat /\ ~ (y < x)
      BY <1>2, <1>3
    <2> QED BY <2>1
  <1> QED BY <1>4

LEMMA WordPositive == WORD > 0
  <1>1. BlockC \in Nat \ {0} /\ BLKSIZE \in Nat \ {0} /\ WORD \in Nat
    BY BlockTableAssumption
  <1>2. (BlockC + 1) * BLKSIZE > 0
    BY <1>1
  <1> QED BY <1>1, <1>2, BlockTableAssumption

\* The number of blocks of a request that the pool could hold.
LEMMA DivBlocks ==
  ASSUME NEW size \in 1 .. (BlockC * BLKSIZE)
  PROVE  BlocksFor(size) \in 1 .. BlockC
  <1> DEFINE a == size + BLKSIZE - 1
             q == a \div BLKSIZE
  <1>1. /\ BLKSIZE \in Nat \ {0} /\ BlockC \in Nat \ {0} /\ WORD \in Nat
        /\ (BlockC + 1) * BLKSIZE = BlockC * BLKSIZE + BLKSIZE
        /\ BlockC * BLKSIZE \in Nat
    BY BlockTableAssumption
  <1>2. a \in Nat /\ a < (BlockC + 1) * BLKSIZE /\ a >= BLKSIZE
    BY <1>1
  <1>3. a % WORD = a
    BY <1>1, <1>2, BlockTableAssumption
  <1>4. BlocksFor(size) = q
    BY <1>3 DEF BlocksFor
  <1>5. q \in Nat /\ a >= BLKSIZE * q /\ a < BLKSIZE * q + BLKSIZE
    <2> HIDE DEF a
    <2> QED BY <1>1, <1>2
  <1> HIDE DEF a, q
  <1>6. q >= 1
    <2> SUFFICES ASSUME q = 0 PROVE FALSE
      BY <1>5
    <2> QED BY <1>1, <1>2, <1>5
  <1>7. q < BlockC + 1
    <2> SUFFICES ASSUME q >= BlockC + 1 PROVE FALSE
      BY <1>1, <1>5
    <2>1. BLKSIZE * q >= BLKSIZE * (BlockC + 1)
      BY <1>1, <1>5
    <2> QED BY <1>1, <1>2, <1>5, <2>1
  <1> QED BY <1>1, <1>4, <1>5, <1>6, <1>7

\* What malloc of n blocks does to a sound table.
LEMMA Granted ==
  ASSUME NEW tab \in Table, TableSound(tab), NEW n \in 1 .. BlockC, NEW b \in Starts(tab, n)
  PROVE  /\ Mark(tab, b, n) \in Table
         /\ TableSound(Mark(tab, b, n))
         /\ b \in Blocks /\ b \notin Heads(tab)
         /\ Heads(Mark(tab, b, n)) = Heads(tab) \cup {b}
         /\ Mark(tab, b, n)[b].count = n
         /\ \A h \in Heads(tab) : Mark(tab, b, n)[h].count = tab[h].count
  <1>1. b \in Nat /\ Fits(tab, b, n)
    BY StartsFit
  <1>2. n \in Nat \ {0} /\ n \in 0 .. BlockC
    BY BlockTableAssumption
  <1>3. /\ TableSound(Mark(tab, b, n)) /\ b \in Blocks
        /\ Heads(Mark(tab, b, n)) = Heads(tab) \cup {b}
        /\ \A i \in Blocks \ Run(b, n) : Mark(tab, b, n)[i] = tab[i]
    BY <1>1, <1>2, MarkSound
  <1>4. \A h \in Heads(tab) : h \in Blocks /\ tab[h].allocated
    <2> TAKE h \in Heads(tab)
    <2>1. h \in Blocks /\ tab[h].count > 0 /\ h \in Nat /\ tab[h].count \in Nat
      BY TableFields DEF Heads
    <2>2. h \in Run(h, tab[h].count)
      BY <2>1 DEF Run
    <2> QED BY <2>1, <2>2 DEF TableSound, RunsAllocated
  <1>5. \A j \in Run(b, n) : j \in Blocks => ~ tab[j].allocated
    BY <1>1 DEF Fits, FreeRun
  <1>6. b \in Run(b, n)
    BY <1>1, <1>2 DEF Run
  <1>7. b \notin Heads(tab)
    BY <1>4, <1>5, <1>6, <1>3
  <1>8. \A h \in Heads(tab) : Mark(tab, b, n)[h].count = tab[h].count
    BY <1>3, <1>4, <1>5
  <1>9. Mark(tab, b, n)[b].count = n
    BY <1>1, <1>2, <1>3, MarkFields
  <1> QED BY <1>1, <1>2, <1>3, <1>7, <1>8, <1>9, MarkType

\* What free of a region's first block does to a sound table.
LEMMA Released ==
  ASSUME NEW tab \in Table, TableSound(tab), NEW h \in Heads(tab)
  PROVE  /\ Unmark(tab, h) \in Table
         /\ TableSound(Unmark(tab, h))
         /\ Heads(Unmark(tab, h)) = Heads(tab) \ {h}
         /\ \A i \in Heads(tab) \ {h} : Unmark(tab, h)[i].count = tab[i].count
  <1>1. h \in Blocks
    BY DEF Heads
  <1>2. \A i \in Heads(tab) \ {h} : i \in Blocks /\ i \notin Run(h, tab[h].count)
    BY TableFields DEF Heads, TableSound, RunsDisjoint
  <1> QED BY <1>1, <1>2, UnmarkType, UnmarkSound

\* A pool whose first n blocks somebody holds, and one that nobody uses.
LEMMA FirstBlocksHeld ==
  /\ EmptyTable \in Table /\ TableSound(EmptyTable) /\ Heads(EmptyTable) = {}
  /\ \A n \in 1 .. BlockC : /\ Mark(EmptyTable, 0, n) \in Table
                            /\ TableSound(Mark(EmptyTable, 0, n))
                            /\ Heads(Mark(EmptyTable, 0, n)) = {0}
                            /\ Mark(EmptyTable, 0, n)[0].count = n
  <1>1. EmptyTable \in Table /\ TableSound(EmptyTable) /\ Heads(EmptyTable) = {}
    BY BlockTableAssumption
       DEF EmptyTable, ClearBlock, Table, TableSound, RunsAllocated, RunsDisjoint,
           RunsCover, Heads, Allocated
  <1>2. ASSUME NEW n \in 1 .. BlockC
        PROVE  /\ Mark(EmptyTable, 0, n) \in Table
               /\ TableSound(Mark(EmptyTable, 0, n))
               /\ Heads(Mark(EmptyTable, 0, n)) = {0}
               /\ Mark(EmptyTable, 0, n)[0].count = n
    <2>1. FreeRun(EmptyTable, 0, n)
      BY DEF FreeRun, EmptyTable, ClearBlock
    <2>2. LastStart(n) \in Nat
      BY BlockTableAssumption, WordPositive DEF LastStart
    <2>3. 0 \in Starts(EmptyTable, n)
      BY <2>1, <2>2 DEF Starts
    <2> QED BY <1>1, <2>3, Granted
  <1> QED BY <1>1, <1>2
=============================================================================
