------------------------------- MODULE Memory -------------------------------
(***************************************************************************)
(* The memory manager, kernel/memory.c: memory_init, malloc, calloc,       *)
(* realloc, free and mavail over the block table of module BlockTable.     *)
(* Every call runs to its end before another one starts: multitasking is   *)
(* cooperative and none of these functions yields.                         *)
(***************************************************************************)
EXTENDS BlockTable

CONSTANTS
  HDRSIZE,      \* sizeof(memory_Block_t)
  KernelTop,    \* &kernel_Limit + kernel_OSModuleSize: where the pool's field starts
  FieldSize,    \* the size memory_init is given
  Requests,     \* sizes that callers ask malloc and realloc for
  Arrays,       \* <<nmemb, size>> pairs that callers ask calloc for
  Val, Zero     \* block contents

\* memory_init's computation of the number of blocks.
SupBlkC ==
  LET n == FieldSize \div (BLKSIZE + HDRSIZE) IN IF n > 0 THEN n - 1 ELSE 0

\* The field lies in the address space, and memory_BlockC is what
\* memory_init computes.
ASSUME MemoryAssumption ==
  /\ HDRSIZE \in Nat \ {0}
  /\ KernelTop \in Nat \ {0}
  /\ FieldSize \in Nat
  /\ BlockC = SupBlkC
  /\ KernelTop + FieldSize + BLKSIZE <= WORD
  /\ Requests \subseteq 0 .. (WORD - 1)
  /\ Arrays \subseteq (0 .. (WORD - 1)) \X (0 .. (WORD - 1))
  /\ Zero \in Val

RoundDown(x) == x - (x % BLKSIZE)

memory_Space == RoundDown(KernelTop + BlockC * HDRSIZE + BLKSIZE)
memory_Limit == memory_Space + BlockC * BLKSIZE

NULL == 0

\* The address of block b, and the block an address of the pool lies in.
AddrOf(b) == memory_Space + b * BLKSIZE
BlockOf(addr) == (addr - memory_Space) \div BLKSIZE

InPool(addr) == addr # NULL /\ memory_Space <= addr /\ addr < memory_Limit

VARIABLES
  memory_InitLock,
  memory_BlockV,
  content,        \* the first byte of every block of the pool
  outside,        \* malloc has written past the end of the table
  answer          \* the last request, in blocks, and the address returned

vars == <<memory_InitLock, memory_BlockV, content, outside, answer>>

Ops == {"none", "malloc", "calloc", "realloc", "reject"}

TypeOK ==
  /\ memory_InitLock \in BOOLEAN
  /\ memory_BlockV \in Table
  /\ content \in [Blocks -> Val]
  /\ outside \in BOOLEAN
  /\ answer \in [op : Ops, n : 0 .. BlockC, ret : {NULL} \cup {AddrOf(b) : b \in Blocks}]

\* The table is not cleared before memory_init: it holds what RAM holds.
Init ==
  /\ memory_InitLock = FALSE
  /\ memory_BlockV \in [Blocks -> {ClearBlock, [count |-> BlockC, allocated |-> TRUE]}]
  /\ content = [i \in Blocks |-> Zero]
  /\ outside = FALSE
  /\ answer = [op |-> "none", n |-> 0, ret |-> NULL]

-----------------------------------------------------------------------------

memory_init ==
  /\ ~ memory_InitLock
  /\ memory_InitLock' = TRUE
  /\ memory_BlockV' = EmptyTable
  /\ UNCHANGED <<content, outside, answer>>

\* malloc(size) returns NULL ...
Refused(size) ==
  \/ ~ memory_InitLock
  \/ size = 0
  \/ NoStart(memory_BlockV, BlocksFor(size))

\* ... or the run it found, marked in the table.
Bases(size) ==
  IF memory_InitLock /\ size # 0 THEN Starts(memory_BlockV, BlocksFor(size)) ELSE {}

Marked(size, b) == Mark(memory_BlockV, b, BlocksFor(size))

Refuse(op, size) ==
  /\ Refused(size)
  /\ answer' = [op |-> op, n |-> BlocksFor(size), ret |-> NULL]
  /\ UNCHANGED <<memory_InitLock, memory_BlockV, content, outside>>

Hand(op, size, b) ==
  /\ answer' = [op |-> op, n |-> BlocksFor(size), ret |-> AddrOf(b)]
  /\ outside' = ~ Inside(b, BlocksFor(size))
  /\ UNCHANGED memory_InitLock

malloc(size) ==
  \/ Refuse("malloc", size)
  \/ \E b \in Bases(size) :
       /\ memory_BlockV' = Marked(size, b)
       /\ Hand("malloc", size, b)
       /\ UNCHANGED content

\* The product is computed in size_t, so the test against UINT_MAX that
\* follows it never fails.
calloc(nmemb, size) ==
  LET bytes == (nmemb * size) % WORD IN
  \/ Refuse("calloc", bytes)
  \/ \E b \in Bases(bytes) :
       /\ memory_BlockV' = Marked(bytes, b)
       /\ Hand("calloc", bytes, b)
       /\ content' = [i \in Blocks |->
                        IF i \in Run(b, BlocksFor(bytes)) THEN Zero ELSE content[i]]

\* What the copy of size bytes from block num to block b leaves in the pool;
\* it reads past the old region when the new one is longer, and may read
\* past the pool, where it finds any value.
Copied(num, b, n) ==
  {c \in [Blocks -> Val] :
     \A i \in Blocks :
       IF i \notin Run(b, n) THEN c[i] = content[i]
       ELSE num + (i - b) \in Blocks => c[i] = content[num + (i - b)]}

\* Mutant: the old region is given back before the new one is taken.
realloc_FreeFirst(blk, size) ==
  \/ /\ ~ memory_InitLock \/ ~ InPool(blk)
     /\ answer' = [op |-> "reject", n |-> 0, ret |-> NULL]
     /\ UNCHANGED <<memory_InitLock, memory_BlockV, content, outside>>
  \/ /\ memory_InitLock /\ InPool(blk) /\ size # 0
     /\ LET tab == Unmark(memory_BlockV, BlockOf(blk))
            n == BlocksFor(size) IN
        \E b \in Starts(tab, n) :
          /\ memory_BlockV' = Mark(tab, b, n)
          /\ Hand("realloc", size, b)
          /\ content' \in Copied(BlockOf(blk), b, n)

realloc(blk, size) ==
  \/ /\ ~ memory_InitLock \/ ~ InPool(blk)
     /\ answer' = [op |-> "reject", n |-> 0, ret |-> NULL]
     /\ UNCHANGED <<memory_InitLock, memory_BlockV, content, outside>>
  \/ /\ memory_InitLock /\ InPool(blk)
     /\ \/ Refuse("realloc", size)
        \/ \E b \in Bases(size) :
             /\ memory_BlockV' = Unmark(Marked(size, b), BlockOf(blk))
             /\ Hand("realloc", size, b)
             /\ content' \in Copied(BlockOf(blk), b, BlocksFor(size))

free(blk) ==
  /\ memory_BlockV' = IF memory_InitLock /\ InPool(blk)
                      THEN Unmark(memory_BlockV, BlockOf(blk))
                      ELSE memory_BlockV
  /\ UNCHANGED <<memory_InitLock, content, outside, answer>>

\* Mutant: counts the blocks that start no run as available.
mavail_ByCount ==
  IF memory_InitLock THEN Cardinality(Blocks \ Heads(memory_BlockV)) * BLKSIZE ELSE 0

mavail ==
  IF memory_InitLock THEN Cardinality(Blocks \ Allocated(memory_BlockV)) * BLKSIZE ELSE 0

-----------------------------------------------------------------------------
(* The callers.  free is called with any address; realloc with the address *)
(* of a region the caller holds (its only call, in fs_writeFile, passes a  *)
(* file system entry) or with one outside the pool; an owner writes to the *)
(* blocks of its own region.                                               *)

\* Both ends of every block, and addresses outside the pool.
Addresses ==
  {NULL, memory_Space - 1, memory_Limit}
    \cup {AddrOf(b) + o : b \in Blocks, o \in {0, BLKSIZE - 1}}

Owned == {AddrOf(b) : b \in Heads(memory_BlockV)}

Store(i, v) ==
  /\ memory_InitLock
  /\ memory_BlockV[i].allocated
  /\ content' = [content EXCEPT ![i] = v]
  /\ UNCHANGED <<memory_InitLock, memory_BlockV, outside, answer>>

Call ==
  \/ memory_init
  \/ \E size \in Requests : malloc(size)
  \/ \E a \in Arrays : calloc(a[1], a[2])
  \/ \E size \in Requests, blk \in Owned \cup {a \in Addresses : ~ InPool(a)} :
       realloc(blk, size)
  \/ \E blk \in Addresses : free(blk)
  \/ \E i \in Blocks, v \in Val : Store(i, v)

\* Nothing is said of the machine once the table has been overrun.
Next == ~ outside /\ Call

Spec == Init /\ [][Next]_vars

-----------------------------------------------------------------------------
(* Properties. *)

\* Every request is for at most what the whole pool holds.
SaneRequests ==
  /\ \A size \in Requests : size <= BlockC * BLKSIZE
  /\ \A a \in Arrays : (a[1] * a[2]) % WORD <= BlockC * BLKSIZE

\* Once memory_init has run, the block table describes disjoint regions that
\* make up exactly the allocated blocks, whatever is requested, resized and
\* freed, double and interior frees included.
TableInv == memory_InitLock => TableSound(memory_BlockV)

\* malloc stays inside the block table.
StaysInside == ~ outside

\* The blocks of every region, each with the region it is counted for: as
\* many as the lengths of the regions add up to.
Holdings(tab) == UNION {{b} \X Run(b, tab[b].count) : b \in Heads(tab)}

\* mavail reports exactly the bytes that are left when every region's length
\* is taken off the pool: nothing leaks and nothing is counted twice.
MavailExact ==
  memory_InitLock => mavail = (BlockC - Cardinality(Holdings(memory_BlockV))) * BLKSIZE

\* The manager implements the heap of disjoint regions: a request is refused
\* only when no vacant run is long enough, a granted region overlaps no
\* other, contents survive every other owner's calls, a resize keeps the
\* common prefix, and a failed resize leaves the old region alone.
H == INSTANCE Heap WITH
       PoolSize <- BlockC,
       Nil <- NULL - 1,
       up <- memory_InitLock,
       regions <- IF memory_InitLock THEN Regions(memory_BlockV) ELSE {},
       answer <- [op |-> answer.op, n |-> answer.n,
                  at |-> IF answer.ret = NULL THEN NULL - 1 ELSE BlockOf(answer.ret)]

ImplementsHeap == H!Spec

\* "If not found, returns null" (memory.c:28): when no run of the table fits
\* the request, malloc returns NULL.
NullIfNotFound ==
  [][\A size \in Requests \ {0} :
       /\ memory_InitLock
       /\ malloc(size)
       /\ \A b \in Blocks : ~ Fits(memory_BlockV, b, (size + BLKSIZE - 1) \div BLKSIZE)
       => answer'.ret = NULL]_vars
=============================================================================
