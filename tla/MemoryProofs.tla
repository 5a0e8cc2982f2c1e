---------------------------- MODULE MemoryProofs ----------------------------
(***************************************************************************)
(* Theorems about the memory manager, for every pool size, block size and  *)
(* set of requests that the pool could hold.                               *)
(***************************************************************************)
EXTENDS Memory, BlockTableProofs, FiniteSetTheorems

LEMMA DivMod ==
  ASSUME NEW a \in Nat, NEW d \in Nat \ {0}
  PROVE  /\ a \div d \in Nat /\ a % d \in Nat
         /\ a = d * (a \div d) + (a % d)
         /\ a % d < d
  OBVIOUS

LEMMA DivBound ==
  ASSUME NEW a \in Nat, NEW d \in Nat \ {0}, NEW q \in Nat, a < q * d
  PROVE  a \div d \in Nat /\ a \div d < q
  <1>1. a \div d \in Nat /\ a >= d * (a \div d)
    BY DivMod
  <1>2. SUFFICES ASSUME a \div d >= q PROVE FALSE
    BY <1>1
  <1>3. d * (a \div d) >= d * q
    BY <1>1, <1>2
  <1> QED BY <1>1, <1>3

\* A multiple of d that is not above a is not above its quotient either.
LEMMA DivLower ==
  ASSUME NEW a \in Nat, NEW d \in Nat \ {0}, a >= d
  PROVE  a \div d >= 1
  <1>1. a \div d \in Nat /\ a < d * (a \div d) + d
    BY DivMod
  <1>2. SUFFICES ASSUME a \div d = 0 PROVE FALSE
    BY <1>1
  <1> QED BY <1>1, <1>2

LEMMA MultipleMod ==
  ASSUME NEW d \in Nat \ {0}, NEW k \in Nat
  PROVE  (d * k) % d = 0
  <1> DEFINE q == (d * k) \div d
             r == (d * k) % d
  <1>1. d * k \in Nat
    OBVIOUS
  <1>2. q \in Nat /\ r \in Nat /\ d * k = d * q + r /\ r < d
    BY <1>1, DivMod
  <1> HIDE DEF q, r
  <1>3. CASE k <= q
    <2>1. d * k <= d * q
      BY <1>2, <1>3
    <2> QED BY <1>1, <1>2, <2>1 DEF r
  <1>4. CASE k >= q + 1
    <2>1. d * k >= d * (q + 1) /\ d * (q + 1) = d * q + d
      BY <1>2, <1>4
    <2> QED BY <1>1, <1>2, <2>1
  <1> QED BY <1>2, <1>3, <1>4

\* The block table, the pool after it and their alignment: the table ends
\* before the pool starts, the pool ends within the field, and blocks are
\* aligned to the block size (memory_init, memory.c:137-148).
THEOREM PoolLayout ==
  /\ KernelTop + BlockC * HDRSIZE <= memory_Space
  /\ memory_Limit <= KernelTop + FieldSize
  /\ memory_Space % BLKSIZE = 0
  <1> DEFINE x == KernelTop + BlockC * HDRSIZE + BLKSIZE
             u == BLKSIZE + HDRSIZE
  <1>1. /\ BLKSIZE \in Nat \ {0} /\ HDRSIZE \in Nat \ {0} /\ KernelTop \in Nat
        /\ BlockC \in Nat \ {0} /\ FieldSize \in Nat
    BY BlockTableAssumption, MemoryAssumption
  <1>2. x \in Nat /\ u \in Nat \ {0} /\ BlockC * HDRSIZE \in Nat
    BY <1>1
  <1>3. x % BLKSIZE \in Nat /\ x % BLKSIZE < BLKSIZE
    BY <1>1, <1>2, DivMod
  <1>4. memory_Space = x - (x % BLKSIZE)
    BY DEF memory_Space, RoundDown
  <1>5. KernelTop + BlockC * HDRSIZE <= memory_Space
    BY <1>1, <1>2, <1>3, <1>4
  <1>6. FieldSize >= u * (BlockC + 1)
    <2>1. FieldSize \div u \in Nat /\ FieldSize >= u * (FieldSize \div u)
      <3> HIDE DEF u
      <3> QED BY <1>1, <1>2, DivMod
    <2>2. FieldSize \div u = BlockC + 1
      BY <2>1, <1>1, MemoryAssumption DEF SupBlkC
    <2> QED BY <2>1, <2>2
  <1>7. u * (BlockC + 1) = BlockC * BLKSIZE + BlockC * HDRSIZE + BLKSIZE + HDRSIZE
    BY <1>1
  <1>8. memory_Limit <= KernelTop + FieldSize
    <2>1. memory_Limit = memory_Space + BlockC * BLKSIZE /\ BlockC * BLKSIZE \in Nat
      BY <1>1 DEF memory_Limit
    <2>2. memory_Space <= x /\ memory_Space \in Int
      BY <1>2, <1>3, <1>4
    <2> QED BY <1>1, <1>2, <1>6, <1>7, <2>1, <2>2
  <1>9. memory_Space % BLKSIZE = 0
    <2>1. x \div BLKSIZE \in Nat /\ memory_Space = BLKSIZE * (x \div BLKSIZE)
      BY <1>1, <1>2, <1>4, DivMod
    <2> QED BY <1>1, <2>1, MultipleMod
  <1> QED BY <1>5, <1>8, <1>9

LEMMA PoolTypes ==
  memory_Space \in Nat /\ memory_Space > 0 /\ memory_Limit \in Nat
  <1>1. /\ KernelTop \in Nat \ {0} /\ BlockC * HDRSIZE \in Nat /\ BLKSIZE \in Nat \ {0}
        /\ BlockC * BLKSIZE \in Nat
    BY BlockTableAssumption, MemoryAssumption
  <1>2. memory_Space \in Int
    BY <1>1 DEF memory_Space, RoundDown
  <1>3. memory_Space > 0
    BY <1>1, <1>2, PoolLayout
  <1> QED BY <1>1, <1>2, <1>3 DEF memory_Limit

\* An address of the pool lies in a block of the table.
LEMMA BlockOfInTable ==
  ASSUME NEW addr \in Int, InPool(addr)
  PROVE  BlockOf(addr) \in Blocks
  <1>1. addr - memory_Space \in Nat /\ addr - memory_Space < BlockC * BLKSIZE
    BY PoolTypes, BlockTableAssumption DEF InPool, memory_Limit
  <1>2. BlockOf(addr) \in Nat /\ BlockOf(addr) < BlockC
    BY <1>1, DivBound, BlockTableAssumption DEF BlockOf
  <1> QED BY <1>2, BlockTableAssumption DEF Blocks

\* A request the pool could hold asks for at most BlockC blocks, and for at
\* least one unless it is for nothing.
LEMMA BlocksForBound ==
  ASSUME NEW size \in Nat, size <= BlockC * BLKSIZE
  PROVE  BlocksFor(size) \in 0 .. BlockC /\ (size # 0 => BlocksFor(size) \in 1 .. BlockC)
  <1> DEFINE a == size + BLKSIZE - 1
  <1>1. /\ BLKSIZE \in Nat \ {0} /\ BlockC \in Nat \ {0} /\ WORD \in Nat
        /\ (BlockC + 1) * BLKSIZE = BlockC * BLKSIZE + BLKSIZE
        /\ BlockC * BLKSIZE \in Nat
    BY BlockTableAssumption
  <1>2. a \in Nat /\ a < (BlockC + 1) * BLKSIZE
    BY <1>1
  <1>3. a % WORD = a
    BY <1>1, <1>2, BlockTableAssumption
  <1>4. a \div BLKSIZE \in Nat /\ a \div BLKSIZE < BlockC + 1
    <2>1. BlockC + 1 \in Nat
      BY <1>1
    <2> HIDE DEF a
    <2> QED BY <1>1, <1>2, <2>1, DivBound
  <1>5. size # 0 => a >= BLKSIZE
    BY <1>1
  <1>6. size # 0 => a \div BLKSIZE >= 1
    <2> HIDE DEF a
    <2> QED BY <1>1, <1>2, <1>5, DivLower
  <1>7. BlocksFor(size) = a \div BLKSIZE
    BY <1>3 DEF BlocksFor
  <1> HIDE DEF a
  <1> QED BY <1>1, <1>4, <1>6, <1>7

-----------------------------------------------------------------------------
(* The inductive invariant: with the typing and the soundness of the table *)
(* every granted run lies in the table, so that the table stays sound.     *)

MemoryInv == TypeOK /\ TableInv /\ StaysInside

\* The run malloc finds for a request the pool could hold.
LEMMA GrantSound ==
  ASSUME MemoryInv, NEW size \in Nat, size <= BlockC * BLKSIZE, NEW b \in Bases(size)
  PROVE  /\ memory_InitLock
         /\ BlocksFor(size) \in 1 .. BlockC
         /\ b \in Blocks
         /\ Fits(memory_BlockV, b, BlocksFor(size))
         /\ Marked(size, b) \in Table
         /\ TableSound(Marked(size, b))
         /\ Heads(Marked(size, b)) = Heads(memory_BlockV) \cup {b}
  <1>1. memory_InitLock /\ size # 0 /\ b \in Starts(memory_BlockV, BlocksFor(size))
    BY DEF Bases
  <1>2. BlocksFor(size) \in 1 .. BlockC
    BY <1>1, BlocksForBound
  <1>3. memory_BlockV \in Table /\ TableSound(memory_BlockV)
    BY <1>1 DEF MemoryInv, TypeOK, TableInv
  <1>4. b \in Nat /\ Fits(memory_BlockV, b, BlocksFor(size))
    BY <1>1, <1>2, <1>3, StartsFit
  <1>5. BlocksFor(size) \in Nat \ {0} /\ BlocksFor(size) \in 0 .. BlockC
    BY <1>2, BlockTableAssumption
  <1>6. Marked(size, b) \in Table
    BY <1>3, <1>4, <1>5, MarkType DEF Marked
  <1>7. b \in Blocks /\ TableSound(Marked(size, b))
        /\ Heads(Marked(size, b)) = Heads(memory_BlockV) \cup {b}
    BY <1>3, <1>4, <1>5, MarkSound DEF Marked
  <1> QED BY <1>1, <1>2, <1>4, <1>6, <1>7

LEMMA HandKeeps ==
  ASSUME MemoryInv, NEW size \in Nat, size <= BlockC * BLKSIZE, NEW b \in Bases(size),
         NEW op \in Ops, Hand(op, size, b),
         memory_BlockV' \in Table, TableSound(memory_BlockV'),
         content' \in [Blocks -> Val]
  PROVE  MemoryInv'
  <1>1. BlocksFor(size) \in 0 .. BlockC /\ b \in Blocks /\ Inside(b, BlocksFor(size))
    BY GrantSound, BlockTableAssumption DEF Fits
  <1>2. answer' \in [op : Ops, n : 0 .. BlockC, ret : {NULL} \cup {AddrOf(i) : i \in Blocks}]
    BY <1>1 DEF Hand
  <1>3. outside' = FALSE /\ memory_InitLock' = memory_InitLock
    BY <1>1 DEF Hand
  <1> QED BY <1>2, <1>3 DEF MemoryInv, TypeOK, TableInv, StaysInside

LEMMA RefuseKeeps ==
  ASSUME MemoryInv, NEW size \in Nat, size <= BlockC * BLKSIZE, NEW op \in Ops,
         Refuse(op, size)
  PROVE  MemoryInv'
  <1>1. BlocksFor(size) \in 0 .. BlockC
    BY BlocksForBound
  <1>2. answer' \in [op : Ops, n : 0 .. BlockC, ret : {NULL} \cup {AddrOf(i) : i \in Blocks}]
    BY <1>1 DEF Refuse
  <1> QED BY <1>2 DEF Refuse, MemoryInv, TypeOK, TableInv, StaysInside

LEMMA AddressesAreNumbers ==
  Addresses \subseteq Int /\ \A b \in Blocks : AddrOf(b) \in Int
  <1>1. BLKSIZE \in Nat /\ BlockC \in Nat
    BY BlockTableAssumption
  <1>2. \A b \in Blocks : b \in Int /\ b * BLKSIZE \in Int
    BY <1>1 DEF Blocks
  <1>3. \A b \in Blocks : AddrOf(b) \in Int
    BY <1>2, PoolTypes DEF AddrOf
  <1> QED BY <1>1, <1>3, PoolTypes DEF Addresses, NULL

LEMMA Step ==
  ASSUME SaneRequests
  PROVE  MemoryInv /\ [Next]_vars => MemoryInv'
  <1> SUFFICES ASSUME MemoryInv, [Next]_vars PROVE MemoryInv'
    OBVIOUS
  <1> USE DEF Ops
  <1>0. \A size \in Requests : size \in Nat /\ size <= BlockC * BLKSIZE
    BY MemoryAssumption DEF SaneRequests
  <1>1. CASE memory_init
    <2>1. EmptyTable \in Table
      BY BlockTableAssumption DEF EmptyTable, Table, ClearBlock
    <2>2. TableSound(EmptyTable)
      BY DEF EmptyTable, ClearBlock, TableSound, RunsAllocated, RunsDisjoint, RunsCover,
             Heads, Allocated
    <2> QED BY <1>1, <2>1, <2>2 DEF memory_init, MemoryInv, TypeOK, TableInv, StaysInside
  <1>2. ASSUME NEW size \in Requests, malloc(size) PROVE MemoryInv'
    <2>1. CASE Refuse("malloc", size)
      BY <1>0, <2>1, RefuseKeeps
    <2>2. ASSUME NEW b \in Bases(size), memory_BlockV' = Marked(size, b),
                 Hand("malloc", size, b), UNCHANGED content
          PROVE  MemoryInv'
      <3>1. memory_BlockV' \in Table /\ TableSound(memory_BlockV')
        BY <1>0, <2>2, GrantSound
      <3>2. content' \in [Blocks -> Val]
        BY <2>2 DEF MemoryInv, TypeOK
      <3> QED BY <1>0, <2>2, <3>1, <3>2, HandKeeps
    <2> QED BY <1>2, <2>1, <2>2 DEF malloc
  <1>3. ASSUME NEW a \in Arrays, calloc(a[1], a[2]) PROVE MemoryInv'
    <2> DEFINE bytes == (a[1] * a[2]) % WORD
    <2>1. bytes \in Nat /\ bytes <= BlockC * BLKSIZE
      <3>1. a[1] \in Nat /\ a[2] \in Nat
        BY MemoryAssumption, BlockTableAssumption
      <3>2. a[1] * a[2] \in Nat /\ WORD \in Nat \ {0}
        BY <3>1, BlockTableAssumption, MemoryAssumption
      <3>3. bytes \in Nat
        BY <3>2, DivMod
      <3> QED BY <3>3 DEF SaneRequests
    <2> HIDE DEF bytes
    <2>2. CASE Refuse("calloc", bytes)
      BY <2>1, <2>2, RefuseKeeps
    <2>3. ASSUME NEW b \in Bases(bytes), memory_BlockV' = Marked(bytes, b),
                 Hand("calloc", bytes, b),
                 content' = [i \in Blocks |->
                               IF i \in Run(b, BlocksFor(bytes)) THEN Zero ELSE content[i]]
          PROVE  MemoryInv'
      <3>1. memory_BlockV' \in Table /\ TableSound(memory_BlockV')
        BY <2>1, <2>3, GrantSound
      <3>2. content' \in [Blocks -> Val]
        BY <2>3, MemoryAssumption DEF MemoryInv, TypeOK
      <3> QED BY <2>1, <2>3, <3>1, <3>2, HandKeeps
    <2> QED BY <1>3, <2>2, <2>3 DEF calloc, bytes
  <1>4. ASSUME NEW size \in Requests,
               NEW blk \in Owned \cup {a \in Addresses : ~ InPool(a)},
               realloc(blk, size)
        PROVE  MemoryInv'
    <2>1. CASE /\ answer' = [op |-> "reject", n |-> 0, ret |-> NULL]
               /\ UNCHANGED <<memory_InitLock, memory_BlockV, content, outside>>
      <3>1. answer' \in [op : Ops, n : 0 .. BlockC, ret : {NULL} \cup {AddrOf(i) : i \in Blocks}]
        BY <2>1, BlockTableAssumption
      <3> QED BY <2>1, <3>1 DEF MemoryInv, TypeOK, TableInv, StaysInside
    <2>2. CASE Refuse("realloc", size)
      BY <1>0, <2>2, RefuseKeeps
    <2>3. ASSUME InPool(blk), NEW b \in Bases(size),
                 memory_BlockV' = Unmark(Marked(size, b), BlockOf(blk)),
                 Hand("realloc", size, b),
                 content' \in Copied(BlockOf(blk), b, BlocksFor(size))
          PROVE  MemoryInv'
      <3>1. BlockOf(blk) \in Blocks
        BY <2>3, BlockOfInTable, AddressesAreNumbers DEF Owned, Heads
      <3>2. memory_BlockV' \in Table /\ TableSound(memory_BlockV')
        BY <1>0, <2>3, <3>1, GrantSound, UnmarkType, UnmarkSound
      <3>3. content' \in [Blocks -> Val]
        BY <2>3 DEF Copied
      <3> QED BY <1>0, <2>3, <3>2, <3>3, HandKeeps
    <2> QED BY <1>4, <2>1, <2>2, <2>3 DEF realloc
  <1>5. ASSUME NEW blk \in Addresses, free(blk) PROVE MemoryInv'
    <2>1. CASE memory_InitLock /\ InPool(blk)
      <3>1. BlockOf(blk) \in Blocks
        BY <2>1, BlockOfInTable, AddressesAreNumbers
      <3>2. memory_BlockV' \in Table /\ TableSound(memory_BlockV')
        BY <1>5, <2>1, <3>1, UnmarkType, UnmarkSound
           DEF free, MemoryInv, TypeOK, TableInv
      <3> QED BY <1>5, <3>2 DEF free, MemoryInv, TypeOK, TableInv, StaysInside
    <2>2. CASE ~ (memory_InitLock /\ InPool(blk))
      BY <1>5, <2>2 DEF free, MemoryInv, TypeOK, TableInv, StaysInside
    <2> QED BY <2>1, <2>2
  <1>6. ASSUME NEW i \in Blocks, NEW v \in Val, Store(i, v) PROVE MemoryInv'
    BY <1>6 DEF Store, MemoryInv, TypeOK, TableInv, StaysInside
  <1>7. CASE UNCHANGED vars
    BY <1>7 DEF vars, MemoryInv, TypeOK, TableInv, StaysInside
  <1> QED BY <1>1, <1>2, <1>3, <1>4, <1>5, <1>6, <1>7 DEF Next, Call

LEMMA InitInv == Init => MemoryInv
  <1> SUFFICES ASSUME Init PROVE MemoryInv
    OBVIOUS
  <1>1. memory_BlockV \in Table
    <2>1. {ClearBlock, [count |-> BlockC, allocated |-> TRUE]}
            \subseteq [count : 0 .. BlockC, allocated : BOOLEAN]
      BY BlockTableAssumption DEF ClearBlock
    <2> QED BY <2>1 DEF Init, Table
  <1>2. answer \in [op : Ops, n : 0 .. BlockC, ret : {NULL} \cup {AddrOf(i) : i \in Blocks}]
    BY BlockTableAssumption DEF Init, Ops
  <1>3. content \in [Blocks -> Val]
    BY MemoryAssumption DEF Init
  <1> QED BY <1>1, <1>2, <1>3 DEF Init, MemoryInv, TypeOK, TableInv, StaysInside

\* Whatever is requested, resized and freed, the state stays well typed, the
\* regions handed out stay disjoint and make up exactly the allocated blocks,
\* and malloc never leaves the block table: as long as no request is for more
\* than the pool (malloc, calloc, realloc and free, memory.c:30-114).
THEOREM TableAlwaysSound ==
  ASSUME SaneRequests
  PROVE  Spec => [](TypeOK /\ TableInv /\ StaysInside)
  <1>1. Init => MemoryInv
    BY InitInv
  <1>2. MemoryInv /\ [Next]_vars => MemoryInv'
    BY Step
  <1>3. MemoryInv => TypeOK /\ TableInv /\ StaysInside
    BY DEF MemoryInv
  <1> QED BY <1>1, <1>2, <1>3, PTL DEF Spec

\* Every variable of memory.c keeps its type, so that no count in the table
\* wraps (memory.c:36-50): the first of the three by itself.
THEOREM AlwaysTyped ==
  ASSUME SaneRequests PROVE Spec => []TypeOK
  BY TableAlwaysSound, PTL

\* The regions malloc handed out never meet and make up exactly the allocated
\* blocks (memory.c:43-50, 67-74).
THEOREM RegionsAlwaysDisjoint ==
  ASSUME SaneRequests PROVE Spec => []TableInv
  BY TableAlwaysSound, PTL

\* malloc and calloc never write past the table (memory.c:41-50).
THEOREM AlwaysInside ==
  ASSUME SaneRequests PROVE Spec => []StaysInside
  BY TableAlwaysSound, PTL

-----------------------------------------------------------------------------
(* mavail *)

\* In a sound table the lengths of the regions add up to the number of
\* allocated blocks: every allocated block belongs to exactly one region.
LEMMA HoldingsCount ==
  ASSUME NEW tab \in Table, TableSound(tab)
  PROVE  Cardinality(Holdings(tab)) = Cardinality(Allocated(tab))
  <1> DEFINE P == Holdings(tab)
             A == Allocated(tab)
             f == [x \in P |-> x[2]]
  <1>1. \A x \in P : /\ x = <<x[1], x[2]>>
                     /\ x[1] \in Heads(tab) /\ x[2] \in Run(x[1], tab[x[1]].count)
    BY DEF Holdings
  <1>2. \A b \in Heads(tab) : \A j \in Run(b, tab[b].count) : <<b, j>> \in P
    BY DEF Holdings
  <1>3. IsFiniteSet(A)
    <2>1. IsFiniteSet(Blocks)
      BY FS_Interval, BlockTableAssumption DEF Blocks
    <2> QED BY <2>1, FS_Subset DEF Allocated
  <1>4. f \in [P -> A]
    BY <1>1 DEF TableSound, RunsAllocated, Allocated
  <1>5. \A x, y \in P : f[x] = f[y] => x = y
    <2> SUFFICES ASSUME NEW x \in P, NEW y \in P, x[2] = y[2] PROVE x = y
      OBVIOUS
    <2> DEFINE b == x[1]
               c == y[1]
               j == x[2]
    <2>1. /\ b \in Heads(tab) /\ j \in Run(b, tab[b].count)
          /\ c \in Heads(tab) /\ j \in Run(c, tab[c].count)
          /\ x = <<b, j>> /\ y = <<c, j>>
      BY <1>1
    <2> HIDE DEF b, c, j
    <2>2. b \in Nat /\ c \in Nat /\ tab[b].count \in Nat /\ tab[c].count \in Nat
      BY <2>1, TableFields DEF Heads
    <2>3. tab[b].count > 0 /\ tab[c].count > 0
      BY <2>1 DEF Heads
    <2>4. b \in Run(c, tab[c].count) \/ c \in Run(b, tab[b].count)
      BY <2>1, <2>2 DEF Run
    <2>5. b = c
      BY <2>1, <2>2, <2>3, <2>4 DEF TableSound, RunsDisjoint
    <2> QED BY <2>1, <2>5
  <1>6. \A j \in A : \E x \in P : f[x] = j
    <2> SUFFICES ASSUME NEW j \in A PROVE \E x \in P : f[x] = j
      OBVIOUS
    <2>1. PICK b \in Heads(tab) : j \in Run(b, tab[b].count)
      BY DEF TableSound, RunsCover
    <2>2. <<b, j>> \in P
      BY <1>2, <2>1
    <2> QED BY <2>2
  <1> HIDE DEF f, P, A
  <1>7. f \in Injection(P, A) /\ f \in Surjection(P, A)
    BY <1>4, <1>5, <1>6 DEF Injection, IsInjective, Surjection
  <1>8. Cardinality(P) = Cardinality(A)
    BY <1>3, <1>7, FS_Injection
  <1> QED BY <1>8 DEF P, A

LEMMA FreeCount ==
  ASSUME NEW S \in SUBSET Blocks
  PROVE  Cardinality(Blocks \ S) = BlockC - Cardinality(S)
  <1>1. IsFiniteSet(Blocks) /\ Cardinality(Blocks) = BlockC /\ BlockC \in Nat
    BY FS_Interval, BlockTableAssumption DEF Blocks
  <1>2. IsFiniteSet(S) /\ IsFiniteSet(Blocks \ S)
    BY <1>1, FS_Subset
  <1>3. Cardinality(S) \in Nat /\ Cardinality(Blocks \ S) \in Nat
    BY <1>2, FS_CardinalityType
  <1>4. Cardinality(S \cup (Blocks \ S)) =
          Cardinality(S) + Cardinality(Blocks \ S) - Cardinality(S \cap (Blocks \ S))
    BY <1>2, FS_Union
  <1>5. S \cup (Blocks \ S) = Blocks /\ S \cap (Blocks \ S) = {} /\ Cardinality({}) = 0
    BY FS_EmptySet
  <1>6. Cardinality(Blocks) = Cardinality(S) + Cardinality(Blocks \ S) - 0
    BY <1>4, <1>5, Zenon
  <1> QED BY <1>1, <1>3, <1>6

\* mavail reports exactly what the regions leave of the pool, however often
\* memory was taken, resized and given back (memory.c:116-128).
THEOREM MavailAlwaysExact ==
  ASSUME SaneRequests PROVE Spec => []MavailExact
  <1>1. MemoryInv => MavailExact
    <2> SUFFICES ASSUME MemoryInv, memory_InitLock
                 PROVE  mavail = (BlockC - Cardinality(Holdings(memory_BlockV))) * BLKSIZE
      BY DEF MavailExact
    <2>1. memory_BlockV \in Table /\ TableSound(memory_BlockV)
      BY DEF MemoryInv, TypeOK, TableInv
    <2>2. Cardinality(Holdings(memory_BlockV)) = Cardinality(Allocated(memory_BlockV))
      BY <2>1, HoldingsCount
    <2>3. Cardinality(Blocks \ Allocated(memory_BlockV))
            = BlockC - Cardinality(Allocated(memory_BlockV))
      BY FreeCount DEF Allocated
    <2> QED BY <2>2, <2>3 DEF mavail
  <1> QED BY <1>1, TableAlwaysSound, PTL DEF MemoryInv

-----------------------------------------------------------------------------
(* The manager implements the heap *)

\* The regions of a sound table use its allocated blocks, so that a vacant
\* start of the heap is a run that fits.
LEMMA UsedAllocated ==
  ASSUME NEW tab \in Table, TableSound(tab)
  PROVE  H!Used(Regions(tab)) = Allocated(tab)
  <1>1. ASSUME NEW i \in H!Used(Regions(tab)) PROVE i \in Allocated(tab)
    <2>1. PICK r \in Regions(tab) : i \in H!BlocksOf(r)
      BY DEF H!Used
    <2>2. PICK b \in Heads(tab) : r = [base |-> b, len |-> tab[b].count]
      BY DEF Regions
    <2>3. i \in Run(b, tab[b].count)
      BY <2>1, <2>2 DEF H!BlocksOf, H!Range, Run
    <2> QED BY <2>3 DEF TableSound, RunsAllocated, Allocated
  <1>2. ASSUME NEW i \in Allocated(tab) PROVE i \in H!Used(Regions(tab))
    <2>1. PICK b \in Heads(tab) : i \in Run(b, tab[b].count)
      BY DEF TableSound, RunsCover
    <2> DEFINE r == [base |-> b, len |-> tab[b].count]
    <2>2. r \in Regions(tab)
      BY DEF Regions
    <2>3. i \in H!BlocksOf(r)
      BY <2>1 DEF H!BlocksOf, H!Range, Run
    <2> HIDE DEF r
    <2> QED BY <2>2, <2>3 DEF H!Used
  <1> QED BY <1>1, <1>2

LEMMA VacantFits ==
  ASSUME MemoryInv, memory_InitLock, NEW n \in 1 .. BlockC
  PROVE  H!Vacant(n) = {b \in Blocks : Fits(memory_BlockV, b, n)}
  <1>1. memory_BlockV \in Table /\ TableSound(memory_BlockV)
    BY DEF MemoryInv, TypeOK, TableInv
  <1>2. H!Used(Regions(memory_BlockV)) = Allocated(memory_BlockV)
    BY <1>1, UsedAllocated
  <1>3. H!Vacant(n) = {b \in Blocks : Run(b, n) \subseteq Blocks \ Allocated(memory_BlockV)}
    BY <1>2 DEF H!Vacant, H!Pool, H!Range, Run, Blocks
  <1>4. ASSUME NEW b \in Blocks
        PROVE  Run(b, n) \subseteq Blocks \ Allocated(memory_BlockV) <=> Fits(memory_BlockV, b, n)
    <2>1. b \in Nat /\ n \in Nat /\ n > 0 /\ BlockC \in Nat
      BY BlockTableAssumption DEF Blocks
    <2>2. Run(b, n) \subseteq Blocks <=> Inside(b, n)
      <3>1. Inside(b, n) => Run(b, n) \subseteq Blocks
        BY <2>1 DEF Run, Blocks, Inside
      <3>2. b + n - 1 \in Run(b, n)
        BY <2>1 DEF Run
      <3>3. b + n - 1 \in Blocks => Inside(b, n)
        BY <2>1 DEF Blocks, Inside
      <3> QED BY <3>1, <3>2, <3>3
    <2>3. Run(b, n) \subseteq Blocks =>
            (Run(b, n) \cap Allocated(memory_BlockV) = {} <=> FreeRun(memory_BlockV, b, n))
      BY <1>1, TableFields DEF FreeRun, Allocated
    <2> QED BY <2>2, <2>3 DEF Fits
  <1> QED BY <1>3, <1>4

\* The search that ends without a start has tried every run that fits.
LEMMA NoStartNoneFits ==
  ASSUME NEW tab \in Table, NEW n \in 1 .. BlockC, NoStart(tab, n), NEW b \in Blocks
  PROVE  ~ Fits(tab, b, n)
  <1>1. LastStart(n) = BlockC - n
    <2>1. BlockC - n \in Nat /\ BlockC \in Nat /\ BLKSIZE \in Nat \ {0} /\ WORD \in Nat
      BY BlockTableAssumption
    <2>2. BlockC < WORD
      <3>1. (BlockC + 1) * BLKSIZE >= BlockC + 1
        BY <2>1
      <3> QED BY <3>1, <2>1, BlockTableAssumption
    <2> QED BY <2>1, <2>2 DEF LastStart
  <1>2. b \in Nat /\ BlockC \in Nat /\ n \in Nat
    BY BlockTableAssumption DEF Blocks
  <1>3. Inside(b, n) => b \in 0 .. LastStart(n)
    BY <1>1, <1>2 DEF Inside
  <1> QED BY <1>3 DEF Fits, NoStart

\* Nothing asked for is no block.
LEMMA BlocksForNothing == BlocksFor(0) = 0
  <1>1. BLKSIZE \in Nat \ {0} /\ BLKSIZE - 1 \in Nat /\ BLKSIZE - 1 < BLKSIZE /\ WORD \in Nat
    BY BlockTableAssumption
  <1>2. BLKSIZE - 1 < WORD
    <2>1. (BlockC + 1) * BLKSIZE >= BLKSIZE
      BY <1>1, BlockTableAssumption
    <2> QED BY <1>1, <2>1, BlockTableAssumption
  <1>3. (0 + BLKSIZE - 1) % WORD = BLKSIZE - 1
    BY <1>1, <1>2
  <1>4. (BLKSIZE - 1) \div BLKSIZE < 1 /\ (BLKSIZE - 1) \div BLKSIZE \in Nat
    BY <1>1, DivBound
  <1> QED BY <1>3, <1>4 DEF BlocksFor

\* A block's address leads back to it.
LEMMA BlockOfAddr ==
  ASSUME NEW b \in Blocks
  PROVE  /\ BlockOf(AddrOf(b)) = b /\ AddrOf(b) # NULL /\ InPool(AddrOf(b))
  <1>1. b \in Nat /\ b < BlockC /\ BLKSIZE \in Nat \ {0} /\ BlockC \in Nat
    BY BlockTableAssumption DEF Blocks
  <1>2. b * BLKSIZE \in Nat /\ AddrOf(b) = memory_Space + b * BLKSIZE
    BY <1>1 DEF AddrOf
  <1>3. (b * BLKSIZE) \div BLKSIZE = b
    <2>1. b * BLKSIZE = BLKSIZE * b
      BY <1>1
    <2>2. (BLKSIZE * b) % BLKSIZE = 0
      BY <1>1, MultipleMod
    <2>3. BLKSIZE * b = BLKSIZE * ((BLKSIZE * b) \div BLKSIZE) /\ (BLKSIZE * b) \div BLKSIZE \in Nat
      <3>1. BLKSIZE * b \in Nat
        BY <1>1
      <3> QED BY <1>1, <2>2, <3>1, DivMod
    <2>4. ASSUME NEW q \in Nat, BLKSIZE * b = BLKSIZE * q PROVE q = b
      <3>1. q > b => BLKSIZE * q > BLKSIZE * b
        BY <1>1
      <3>2. q < b => BLKSIZE * q < BLKSIZE * b
        BY <1>1
      <3> QED BY <1>1, <2>4, <3>1, <3>2
    <2> QED BY <2>1, <2>3, <2>4
  <1>4. AddrOf(b) - memory_Space = b * BLKSIZE
    BY <1>2, PoolTypes
  <1>5. b * BLKSIZE < BlockC * BLKSIZE
    BY <1>1
  <1> QED BY <1>2, <1>3, <1>4, <1>5, <1>1, PoolTypes DEF BlockOf, NULL, InPool, memory_Limit

\* The heap's answer and regions that a state of the manager stands for.
HeapAnswer == [op |-> answer.op, n |-> answer.n,
               at |-> IF answer.ret = NULL THEN NULL - 1 ELSE BlockOf(answer.ret)]
HeapRegions == IF memory_InitLock THEN Regions(memory_BlockV) ELSE {}

LEMMA HandAnswers ==
  ASSUME NEW op, NEW size, NEW b \in Blocks, Hand(op, size, b)
  PROVE  HeapAnswer' = [op |-> op, n |-> BlocksFor(size), at |-> b]
  BY BlockOfAddr DEF Hand, HeapAnswer

LEMMA RefuseRefines ==
  ASSUME MemoryInv, NEW size \in Nat, size <= BlockC * BLKSIZE, NEW op, Refuse(op, size)
  PROVE  H!Refuse(op, BlocksFor(size))
  <1>1. HeapAnswer' = [op |-> op, n |-> BlocksFor(size), at |-> NULL - 1]
    BY DEF Refuse, HeapAnswer
  <1>2. UNCHANGED <<memory_InitLock, HeapRegions, content>>
    BY DEF Refuse, HeapRegions
  <1>3. ~ memory_InitLock \/ BlocksFor(size) = 0 \/ H!Vacant(BlocksFor(size)) = {}
    <2>1. CASE ~ memory_InitLock \/ size = 0
      BY <2>1, BlocksForNothing
    <2>2. CASE memory_InitLock /\ size # 0 /\ NoStart(memory_BlockV, BlocksFor(size))
      <3>1. BlocksFor(size) \in 1 .. BlockC
        BY <2>2, BlocksForBound
      <3>2. memory_BlockV \in Table
        BY DEF MemoryInv, TypeOK
      <3>3. \A b \in Blocks : ~ Fits(memory_BlockV, b, BlocksFor(size))
        BY <2>2, <3>1, <3>2, NoStartNoneFits
      <3> QED BY <2>2, <3>1, <3>3, VacantFits
    <2> QED BY <2>1, <2>2 DEF Refuse, Refused
  <1> QED BY <1>1, <1>2, <1>3 DEF H!Refuse, H!Answer, HeapAnswer, HeapRegions

\* What a grant is to the heap: a vacant start, and one region more before
\* the old one is given back.
LEMMA GrantRefines ==
  ASSUME MemoryInv, NEW size \in Nat, size <= BlockC * BLKSIZE, NEW b \in Bases(size)
  PROVE  /\ BlocksFor(size) \in 1 .. BlockC
         /\ b \in H!Vacant(BlocksFor(size))
         /\ Regions(Marked(size, b)) = HeapRegions \cup {[base |-> b, len |-> BlocksFor(size)]}
         /\ b \notin Heads(memory_BlockV)
         /\ H!Used(HeapRegions) = Allocated(memory_BlockV)
         /\ Run(b, BlocksFor(size)) \cap Allocated(memory_BlockV) = {}
  <1>1. /\ memory_InitLock /\ BlocksFor(size) \in 1 .. BlockC /\ b \in Blocks
        /\ Fits(memory_BlockV, b, BlocksFor(size))
    BY GrantSound
  <1>2. memory_BlockV \in Table /\ TableSound(memory_BlockV)
    BY <1>1 DEF MemoryInv, TypeOK, TableInv
  <1>3. b \in Nat /\ BlocksFor(size) \in Nat \ {0}
    BY <1>1, BlockTableAssumption DEF Blocks
  <1>4. b \in H!Vacant(BlocksFor(size))
    BY <1>1, VacantFits
  <1>5. /\ Regions(Marked(size, b)) = Regions(memory_BlockV) \cup {[base |-> b, len |-> BlocksFor(size)]}
        /\ b \notin Heads(memory_BlockV)
    BY <1>1, <1>2, <1>3, MarkRegions DEF Marked
  <1>6. Run(b, BlocksFor(size)) \cap Allocated(memory_BlockV) = {}
    BY <1>1 DEF Fits, FreeRun, Allocated
  <1> QED BY <1>1, <1>2, <1>4, <1>5, <1>6, UsedAllocated DEF HeapRegions

LEMMA AllocRefines ==
  ASSUME MemoryInv, NEW size \in Nat, size <= BlockC * BLKSIZE, NEW b \in Bases(size),
         NEW op, Hand(op, size, b), memory_BlockV' = Marked(size, b),
         content' \in [Blocks -> Val],
         \A i \in Blocks \ Run(b, BlocksFor(size)) : content'[i] = content[i],
         op = "calloc" => \A i \in Run(b, BlocksFor(size)) : content'[i] = Zero
  PROVE  H!Alloc(op, BlocksFor(size))
  <1> DEFINE n == BlocksFor(size)
  <1>1. /\ n \in 1 .. BlockC /\ b \in H!Vacant(n)
        /\ Regions(memory_BlockV') = HeapRegions \cup {[base |-> b, len |-> n]}
        /\ H!Used(HeapRegions) = Allocated(memory_BlockV)
        /\ Run(b, n) \cap Allocated(memory_BlockV) = {}
    BY GrantRefines
  <1>2. memory_InitLock /\ memory_InitLock' /\ b \in Blocks /\ n > 0 /\ memory_InitLock' = memory_InitLock
    BY GrantSound DEF Hand
  <1>3. HeapAnswer' = [op |-> op, n |-> n, at |-> b]
    BY <1>2, HandAnswers
  <1>4. HeapRegions' = HeapRegions \cup {[base |-> b, len |-> n]}
    BY <1>1, <1>2 DEF HeapRegions
  <1>5. \A i \in H!Used(HeapRegions) : content'[i] = content[i]
    BY <1>1 DEF Allocated
  <1>6. H!Pool = Blocks /\ H!Range(b, n) = Run(b, n)
    BY DEF H!Pool, Blocks, H!Range, Run
  <1> HIDE DEF n
  <1>7. \E c \in H!Vacant(n) :
          /\ HeapRegions' = HeapRegions \cup {[base |-> c, len |-> n]}
          /\ HeapAnswer' = H!Answer(op, n, c)
          /\ op = "calloc" => \A i \in H!Range(c, n) : content'[i] = Zero
    BY <1>1, <1>3, <1>4, <1>6 DEF H!Answer, n
  <1>8. H!Alloc(op, n)
    BY <1>2, <1>5, <1>6, <1>7 DEF H!Alloc, H!Keeps, HeapRegions, HeapAnswer
  <1> QED BY <1>8 DEF n

LEMMA ResizeRefines ==
  ASSUME MemoryInv, NEW size \in Nat, size <= BlockC * BLKSIZE, NEW b \in Bases(size),
         NEW h \in Heads(memory_BlockV),
         Hand("realloc", size, b), memory_BlockV' = Unmark(Marked(size, b), h),
         content' \in Copied(h, b, BlocksFor(size))
  PROVE  H!Resize(BlocksFor(size))
  <1> DEFINE n == BlocksFor(size)
             len == memory_BlockV[h].count
             r == [base |-> h, len |-> len]
             s == [base |-> b, len |-> n]
  <1>1. /\ n \in 1 .. BlockC /\ b \in H!Vacant(n)
        /\ Regions(Marked(size, b)) = HeapRegions \cup {s}
        /\ b \notin Heads(memory_BlockV)
        /\ H!Used(HeapRegions) = Allocated(memory_BlockV)
        /\ Run(b, n) \cap Allocated(memory_BlockV) = {}
    BY GrantRefines
  <1>2. /\ memory_InitLock /\ memory_InitLock' = memory_InitLock /\ b \in Blocks /\ n > 0
        /\ Marked(size, b) \in Table /\ TableSound(Marked(size, b))
        /\ Fits(memory_BlockV, b, n)
    BY GrantSound DEF Hand
  <1>3. memory_BlockV \in Table /\ TableSound(memory_BlockV)
    BY <1>2 DEF MemoryInv, TypeOK, TableInv
  <1>4. h \in Blocks /\ len \in Nat /\ h \in Nat /\ h # b
    BY <1>1, <1>3, TableFields DEF Heads
  <1>5. Marked(size, b)[h].count = len
    <2>1. r \in HeapRegions
      BY <1>2 DEF HeapRegions, Regions
    <2>2. r \in Regions(Marked(size, b))
      BY <1>1, <2>1
    <2>3. PICK g \in Heads(Marked(size, b)) : r = [base |-> g, len |-> Marked(size, b)[g].count]
      BY <2>2 DEF Regions
    <2> QED BY <2>3
  <1>6. HeapRegions' = (HeapRegions \ {r}) \cup {s}
    <2>1. Regions(memory_BlockV') = Regions(Marked(size, b)) \ {r}
      BY <1>2, <1>4, <1>5, UnmarkRegions
    <2>2. r # s
      BY <1>4
    <2> QED BY <1>1, <1>2, <2>1, <2>2 DEF HeapRegions
  <1>7. r \in HeapRegions
    BY <1>2 DEF HeapRegions, Regions
  <1>8. HeapAnswer' = [op |-> "realloc", n |-> n, at |-> b]
    BY <1>2, HandAnswers
  <1>9. \A j \in H!Range(0, n) : j < len => content'[b + j] = content[h + j]
    <2> TAKE j \in H!Range(0, n)
    <2>0. j \in 0 .. (n - 1) /\ n \in Nat /\ b \in Nat
      BY <1>1, <1>2, BlockTableAssumption DEF H!Range, Blocks
    <2> HAVE j < len
    <2>1. b + j \in Run(b, n) /\ b + j \in Blocks
      <3>1. b + j \in Run(b, n)
        BY <2>0 DEF Run
      <3>2. Run(b, n) \subseteq Blocks
        BY <1>2, <2>0, BlockTableAssumption DEF Fits, Inside, Run, Blocks
      <3> QED BY <3>1, <3>2
    <2>2. h + j \in Run(h, len)
      BY <1>4, <2>0 DEF Run
    <2>3. h + j \in Blocks
      BY <1>3, <2>2 DEF TableSound, RunsAllocated
    <2>4. h + ((b + j) - b) = h + j
      BY <1>4, <2>0
    <2> HIDE DEF n, len
    <2> QED BY <2>1, <2>3, <2>4 DEF Copied, n
  <1>10. content' \in [Blocks -> Val] /\ \A i \in Blocks \ Run(b, n) : content'[i] = content[i]
    BY DEF Copied
  <1>11. \A i \in H!Used(HeapRegions) : content'[i] = content[i]
    BY <1>1, <1>10 DEF Allocated
  <1>12. H!Pool = Blocks
    BY DEF H!Pool, Blocks
  <1>13. r.base = h /\ r.len = len
    OBVIOUS
  <1> HIDE DEF n, len, r
  <1>14. \E q \in HeapRegions, c \in H!Vacant(n) :
           /\ HeapRegions' = (HeapRegions \ {q}) \cup {[base |-> c, len |-> n]}
           /\ HeapAnswer' = H!Answer("realloc", n, c)
           /\ \A j \in H!Range(0, n) : j < q.len => content'[c + j] = content[q.base + j]
    <2>1. /\ HeapRegions' = (HeapRegions \ {r}) \cup {[base |-> b, len |-> n]}
          /\ HeapAnswer' = H!Answer("realloc", n, b)
          /\ \A j \in H!Range(0, n) : j < r.len => content'[b + j] = content[r.base + j]
      BY <1>6, <1>8, <1>9, <1>13 DEF H!Answer
    <2> QED BY <1>1, <1>7, <2>1
  <1>15. H!Resize(n)
    BY <1>2, <1>10, <1>11, <1>12, <1>14 DEF H!Resize, H!Keeps, HeapRegions, HeapAnswer
  <1> QED BY <1>15 DEF n

LEMMA FreeRefines ==
  ASSUME MemoryInv, NEW blk \in Int, free(blk)
  PROVE  (\E r \in HeapRegions : H!Release(r)) \/ UNCHANGED H!vars
  <1>1. UNCHANGED <<memory_InitLock, content, HeapAnswer>>
    BY DEF free, HeapAnswer
  <1>2. CASE memory_InitLock /\ InPool(blk)
    <2> DEFINE num == BlockOf(blk)
               r == [base |-> num, len |-> memory_BlockV[num].count]
    <2>1. num \in Blocks
      BY <1>2, BlockOfInTable
    <2>2. memory_BlockV \in Table /\ TableSound(memory_BlockV)
      BY <1>2 DEF MemoryInv, TypeOK, TableInv
    <2>3. HeapRegions' = HeapRegions \ {r}
      <3>1. memory_BlockV' = Unmark(memory_BlockV, num)
        BY <1>2 DEF free
      <3> QED BY <1>1, <1>2, <2>1, <2>2, <3>1, UnmarkRegions DEF HeapRegions
    <2> HIDE DEF r
    <2>4. CASE r \in HeapRegions
      BY <1>1, <2>3, <2>4 DEF H!Release, HeapRegions, HeapAnswer
    <2>5. CASE r \notin HeapRegions
      <3>1. HeapRegions' = HeapRegions
        BY <2>3, <2>5
      <3> QED BY <1>1, <3>1 DEF H!vars, HeapRegions, HeapAnswer
    <2> QED BY <2>4, <2>5
  <1>3. CASE ~ (memory_InitLock /\ InPool(blk))
    <2>1. HeapRegions' = HeapRegions
      BY <1>1, <1>3 DEF free, HeapRegions
    <2> QED BY <1>1, <2>1 DEF H!vars, HeapRegions, HeapAnswer
  <1> QED BY <1>2, <1>3

LEMMA StoreRefines ==
  ASSUME MemoryInv, NEW i \in Blocks, NEW v \in Val, Store(i, v)
  PROVE  H!Store
  <1>1. memory_InitLock /\ memory_BlockV \in Table /\ TableSound(memory_BlockV)
    BY DEF Store, MemoryInv, TypeOK, TableInv
  <1>2. i \in H!Used(HeapRegions)
    <2>1. H!Used(Regions(memory_BlockV)) = Allocated(memory_BlockV)
      BY <1>1, UsedAllocated
    <2> QED BY <1>1, <2>1 DEF Store, HeapRegions, Allocated
  <1>3. content' = [content EXCEPT ![i] = v] /\ UNCHANGED <<memory_InitLock, HeapRegions, HeapAnswer>>
    BY DEF Store, HeapRegions, HeapAnswer
  <1> QED BY <1>2, <1>3 DEF H!Store, HeapRegions, HeapAnswer

LEMMA StepRefines ==
  ASSUME SaneRequests
  PROVE  MemoryInv /\ [Next]_vars => [H!Next]_(H!vars)
  <1> SUFFICES ASSUME MemoryInv, [Next]_vars PROVE H!Next \/ UNCHANGED H!vars
    OBVIOUS
  <1>0. \A size \in Requests : size \in Nat /\ size <= BlockC * BLKSIZE
    BY MemoryAssumption DEF SaneRequests
  <1>01. \A size \in Nat : size <= BlockC * BLKSIZE => BlocksFor(size) \in 0 .. BlockC
    BY BlocksForBound
  <1>1. CASE memory_init
    <2>1. Regions(EmptyTable) = {}
      BY DEF Regions, Heads, EmptyTable, ClearBlock
    <2>2. HeapRegions' = {} /\ HeapRegions = {} /\ UNCHANGED <<content, HeapAnswer>>
      BY <1>1, <2>1 DEF memory_init, HeapRegions, HeapAnswer
    <2>3. H!Start
      BY <1>1, <2>2 DEF memory_init, H!Start, HeapRegions, HeapAnswer
    <2> QED BY <2>3 DEF H!Next
  <1>2. ASSUME NEW size \in Requests, malloc(size) PROVE H!Next
    <2>1. CASE Refuse("malloc", size)
      BY <1>0, <1>01, <2>1, RefuseRefines DEF H!Next
    <2>2. ASSUME NEW b \in Bases(size), memory_BlockV' = Marked(size, b),
                 Hand("malloc", size, b), UNCHANGED content
          PROVE  H!Next
      <3>1. content' \in [Blocks -> Val]
        BY <2>2 DEF MemoryInv, TypeOK
      <3>2. H!Alloc("malloc", BlocksFor(size))
        BY <1>0, <2>2, <3>1, AllocRefines
      <3> QED BY <1>0, <1>01, <3>2 DEF H!Next
    <2> QED BY <1>2, <2>1, <2>2 DEF malloc
  <1>3. ASSUME NEW a \in Arrays, calloc(a[1], a[2]) PROVE H!Next
    <2> DEFINE bytes == (a[1] * a[2]) % WORD
    <2>1. bytes \in Nat /\ bytes <= BlockC * BLKSIZE
      <3>1. a[1] \in Nat /\ a[2] \in Nat
        BY MemoryAssumption, BlockTableAssumption
      <3>2. a[1] * a[2] \in Nat /\ WORD \in Nat \ {0}
        BY <3>1, BlockTableAssumption, MemoryAssumption
      <3>3. bytes \in Nat
        BY <3>2, DivMod
      <3> QED BY <3>3 DEF SaneRequests
    <2> HIDE DEF bytes
    <2>2. CASE Refuse("calloc", bytes)
      BY <1>01, <2>1, <2>2, RefuseRefines DEF H!Next
    <2>3. ASSUME NEW b \in Bases(bytes), memory_BlockV' = Marked(bytes, b),
                 Hand("calloc", bytes, b),
                 content' = [i \in Blocks |->
                               IF i \in Run(b, BlocksFor(bytes)) THEN Zero ELSE content[i]]
          PROVE  H!Next
      <3>1. content' \in [Blocks -> Val]
        BY <2>3, MemoryAssumption DEF MemoryInv, TypeOK
      <3>2. Run(b, BlocksFor(bytes)) \subseteq Blocks
        <4>1. b \in Blocks /\ BlocksFor(bytes) \in 1 .. BlockC /\ Inside(b, BlocksFor(bytes))
          BY <2>1, <2>3, GrantSound DEF Fits
        <4> QED BY <4>1, BlockTableAssumption DEF Run, Blocks, Inside
      <3>3. H!Alloc("calloc", BlocksFor(bytes))
        BY <2>1, <2>3, <3>1, <3>2, AllocRefines
      <3> QED BY <1>01, <2>1, <3>3 DEF H!Next
    <2> QED BY <1>3, <2>2, <2>3 DEF calloc, bytes
  <1>4. ASSUME NEW size \in Requests,
               NEW blk \in Owned \cup {a \in Addresses : ~ InPool(a)},
               realloc(blk, size)
        PROVE  H!Next
    <2>1. CASE /\ answer' = [op |-> "reject", n |-> 0, ret |-> NULL]
               /\ UNCHANGED <<memory_InitLock, memory_BlockV, content, outside>>
      <3>1. HeapAnswer' = [op |-> "reject", n |-> 0, at |-> NULL - 1]
            /\ UNCHANGED <<memory_InitLock, HeapRegions, content>>
        BY <2>1 DEF HeapAnswer, HeapRegions
      <3>2. H!Reject
        BY <3>1 DEF H!Reject, H!Answer, HeapAnswer, HeapRegions
      <3> QED BY <3>2 DEF H!Next
    <2>2. CASE Refuse("realloc", size)
      BY <1>0, <1>01, <2>2, RefuseRefines DEF H!Next
    <2>3. ASSUME InPool(blk), NEW b \in Bases(size),
                 memory_BlockV' = Unmark(Marked(size, b), BlockOf(blk)),
                 Hand("realloc", size, b),
                 content' \in Copied(BlockOf(blk), b, BlocksFor(size))
          PROVE  H!Next
      <3>1. PICK h \in Heads(memory_BlockV) : blk = AddrOf(h)
        BY <2>3 DEF Owned
      <3>2. BlockOf(blk) = h
        BY <3>1, BlockOfAddr DEF Heads
      <3>3. H!Resize(BlocksFor(size))
        BY <1>0, <2>3, <3>2, ResizeRefines
      <3> QED BY <1>0, <1>01, <3>3 DEF H!Next
    <2> QED BY <1>4, <2>1, <2>2, <2>3 DEF realloc
  <1>5. ASSUME NEW blk \in Addresses, free(blk) PROVE H!Next \/ UNCHANGED H!vars
    <2>1. (\E r \in HeapRegions : H!Release(r)) \/ UNCHANGED H!vars
      BY <1>5, AddressesAreNumbers, FreeRefines
    <2> QED BY <2>1 DEF H!Next, HeapRegions
  <1>6. ASSUME NEW i \in Blocks, NEW v \in Val, Store(i, v) PROVE H!Next
    BY <1>6, StoreRefines DEF H!Next
  <1>7. CASE UNCHANGED vars
    BY <1>7 DEF vars, H!vars
  <1> QED BY <1>1, <1>2, <1>3, <1>4, <1>5, <1>6, <1>7 DEF Next, Call

\* The memory manager implements the heap of disjoint regions: for every pool
\* and every request the pool could hold, malloc, calloc and realloc refuse
\* only when no vacant run is long enough, a granted region meets no other,
\* contents survive the calls of other owners, a resize keeps the common
\* prefix, and a failed one changes nothing (memory.c:30-114).
THEOREM MemoryImplementsHeap ==
  ASSUME SaneRequests PROVE Spec => ImplementsHeap
  <1>1. Init => MemoryInv
    BY InitInv
  <1>2. Init => H!Init
    <2> SUFFICES ASSUME Init PROVE H!Init
      OBVIOUS
    <2>1. HeapRegions = {} /\ HeapAnswer = [op |-> "none", n |-> 0, at |-> NULL - 1]
      BY DEF Init, HeapRegions, HeapAnswer
    <2>2. content \in [Blocks -> Val] /\ H!Pool = Blocks
      BY MemoryAssumption DEF Init, H!Pool, Blocks
    <2> QED BY <2>1, <2>2 DEF Init, H!Init, H!Answer, HeapRegions, HeapAnswer
  <1>3. MemoryInv /\ [Next]_vars => MemoryInv'
    BY Step
  <1>4. MemoryInv /\ [Next]_vars => [H!Next]_(H!vars)
    BY StepRefines
  <1> QED BY <1>1, <1>2, <1>3, <1>4, PTL DEF Spec, ImplementsHeap, H!Spec
=============================================================================
