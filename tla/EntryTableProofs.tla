-------------------------- MODULE EntryTableProofs --------------------------
(***************************************************************************)
(* What the functions of the core file system do to a store: for every     *)
(* size of the entry table and of the pool, and every set of entries.      *)
(* CoreFSProofs and IOCallProofs rest on these lemmas.                     *)
(***************************************************************************)
EXTENDS EntryTable, BlockTableProofs

-----------------------------------------------------------------------------
(* Looking up *)

LEMMA NullApart == NULL \notin Nat /\ NULL \notin Blocks
  BY BlockTableAssumption DEF NULL, Blocks

\* The first index of a set, if there is one.
LEMMA FirstIn ==
  ASSUME NEW S \in SUBSET Nat
  PROVE  /\ S = {} => First(S) = NULL
         /\ S # {} => First(S) \in S /\ First(S) # NULL
  <1>1. ASSUME S # {} PROVE First(S) \in S
    <2>1. \E x \in S : \A y \in S : x <= y
      BY <1>1, NatLeast
    <2> QED BY <1>1, <2>1 DEF First
  <1> QED BY <1>1, NullApart DEF First

LEMMA IndexesNat == Indexes \in SUBSET Nat /\ Slots \in SUBSET Nat
  BY DEF Indexes, Slots

\* fs_index finds an entry of that name exactly if there is one.
LEMMA IndexFound ==
  ASSUME NEW st, NEW p
  PROVE  /\ Exists(st, p) => fs_index(st, p) \in Live(st) /\ Ent(st, fs_index(st, p)).name = p
         /\ Exists(st, p) <=> \E i \in Live(st) : Ent(st, i).name = p
  <1> DEFINE S == {i \in Live(st) : Ent(st, i).name = p}
  <1>1. S \in SUBSET Nat
    BY IndexesNat DEF Live
  <1>2. /\ S = {} => First(S) = NULL
        /\ S # {} => First(S) \in S /\ First(S) # NULL
    BY <1>1, FirstIn
  <1> QED BY <1>2 DEF Exists, fs_index

-----------------------------------------------------------------------------
(* Memory *)

\* malloc of a size that the pool could hold.
LEMMA MallocSpec ==
  ASSUME NEW tab \in Table, TableSound(tab), NEW size \in 1 .. (BlockC * BLKSIZE)
  PROVE  LET b == MallocAt(tab, size)
             n == BlocksFor(size)
             new == Malloced(tab, size)
         IN /\ b = NULL => new = tab
            /\ b # NULL => /\ new \in Table /\ TableSound(new)
                           /\ b \in Starts(tab, n)
                           /\ b \in Blocks /\ b \notin Heads(tab)
                           /\ Heads(new) = Heads(tab) \cup {b}
                           /\ new[b].count = n
                           /\ \A h \in Heads(tab) : new[h].count = tab[h].count
  <1> DEFINE b == MallocAt(tab, size)
             n == BlocksFor(size)
  <1>1. n \in 1 .. BlockC
    BY DivBlocks
  <1>2. size # 0
    BY BlockTableAssumption
  <1>3. b # NULL => b \in Starts(tab, n)
    BY <1>2 DEF MallocAt
  <1>4. b # NULL => Malloced(tab, size) = Mark(tab, b, n)
    BY DEF Malloced
  <1>5. b = NULL => Malloced(tab, size) = tab
    BY DEF Malloced
  <1> HIDE DEF b, n
  <1>6. b # NULL => /\ Mark(tab, b, n) \in Table
                    /\ TableSound(Mark(tab, b, n))
                    /\ b \in Blocks /\ b \notin Heads(tab)
                    /\ Heads(Mark(tab, b, n)) = Heads(tab) \cup {b}
                    /\ Mark(tab, b, n)[b].count = n
                    /\ \A h \in Heads(tab) : Mark(tab, b, n)[h].count = tab[h].count
    BY <1>1, <1>3, Granted
  <1> QED BY <1>3, <1>4, <1>5, <1>6 DEF b, n

\* Clearing the runs of several regions at once.
LEMMA ClearedSound ==
  ASSUME NEW tab \in Table, TableSound(tab), NEW G \in SUBSET Heads(tab)
  PROVE  LET new == [b \in Blocks |-> IF b \in UNION {Run(h, tab[h].count) : h \in G}
                                      THEN ClearBlock ELSE tab[b]]
         IN /\ new \in Table /\ TableSound(new)
            /\ Heads(new) = Heads(tab) \ G
            /\ \A h \in Heads(tab) \ G : new[h].count = tab[h].count
  <1> DEFINE gone == UNION {Run(h, tab[h].count) : h \in G}
             new == [b \in Blocks |-> IF b \in gone THEN ClearBlock ELSE tab[b]]
  <1>1. ClearBlock \in [count : 0 .. BlockC, allocated : BOOLEAN]
        /\ ClearBlock.count = 0 /\ ~ ClearBlock.allocated
    BY BlockTableAssumption DEF ClearBlock
  <1>2. new \in Table
    BY <1>1 DEF Table
  <1>3. \A b : b \in gone <=> \E h \in G : b \in Run(h, tab[h].count)
    OBVIOUS
  <1>4. \A b \in Blocks : /\ b \in gone => new[b].count = 0 /\ ~ new[b].allocated
                          /\ b \notin gone => new[b] = tab[b]
    BY <1>1
  <1> HIDE DEF gone, new
  <1>5. \A h \in Heads(tab) : /\ h \in Blocks /\ h \in Nat /\ tab[h].count \in Nat \ {0}
                              /\ h \in Run(h, tab[h].count)
    <2> TAKE h \in Heads(tab)
    <2>1. h \in Blocks /\ tab[h].count > 0
      BY DEF Heads
    <2>2. h \in Nat /\ tab[h].count \in Nat
      BY <2>1, TableFields
    <2> QED BY <2>1, <2>2 DEF Run
  \* A head lies in the run of a cleared region only as its first block.
  <1>6. \A h \in Heads(tab) : h \in gone <=> h \in G
    <2> TAKE h \in Heads(tab)
    <2>1. h \in G => h \in gone
      BY <1>3, <1>5
    <2>2. ASSUME h \in gone PROVE h \in G
      <3>1. PICK g \in G : h \in Run(g, tab[g].count)
        BY <1>3, <2>2
      <3>2. h = g \/ tab[h].count = 0
        BY <3>1 DEF TableSound, RunsDisjoint
      <3> QED BY <1>5, <3>2
    <2> QED BY <2>1, <2>2
  <1>7. Heads(new) = Heads(tab) \ G
    BY <1>2, <1>4, <1>6, TableFields DEF Heads
  <1>8. \A h \in Heads(tab) \ G : new[h] = tab[h]
    BY <1>4, <1>5, <1>6
  \* No two runs meet.
  <1>9. ASSUME NEW h \in Heads(tab) \ G, NEW j \in Run(h, tab[h].count) PROVE j \notin gone
    <2> SUFFICES ASSUME j \in gone PROVE FALSE
      OBVIOUS
    <2>1. PICK g \in G : j \in Run(g, tab[g].count)
      BY <1>3
    <2>2. /\ g \in Nat /\ h \in Nat /\ g # h /\ j \in Nat
          /\ tab[g].count \in Nat /\ tab[h].count \in Nat
          /\ j \in g .. (g + tab[g].count - 1) /\ j \in h .. (h + tab[h].count - 1)
      BY <1>5, <1>9, <2>1 DEF Run
    <2>3. CASE g < h
      <3>1. h \in Run(g, tab[g].count)
        BY <2>2, <2>3 DEF Run
      <3>2. tab[h].count = 0
        BY <2>2, <3>1 DEF TableSound, RunsDisjoint
      <3> QED BY <1>5, <3>2
    <2>4. CASE h < g
      <3>1. g \in Run(h, tab[h].count)
        BY <2>2, <2>4 DEF Run
      <3>2. tab[g].count = 0
        BY <2>2, <3>1 DEF TableSound, RunsDisjoint
      <3> QED BY <1>5, <3>2
    <2> QED BY <2>2, <2>3, <2>4
  <1>10. RunsAllocated(new)
    <2> SUFFICES ASSUME NEW h \in Heads(tab) \ G, NEW j \in Run(h, tab[h].count)
                 PROVE  j \in Blocks /\ new[j].allocated
      BY <1>7, <1>8 DEF RunsAllocated
    <2>1. j \in Blocks /\ tab[j].allocated
      BY DEF TableSound, RunsAllocated
    <2> QED BY <1>4, <1>9, <2>1
  <1>11. RunsDisjoint(new)
    <2> SUFFICES ASSUME NEW h \in Heads(tab) \ G, NEW j \in Run(h, tab[h].count)
                 PROVE  j = h \/ new[j].count = 0
      BY <1>7, <1>8 DEF RunsDisjoint
    <2>1. j \in Blocks /\ (j = h \/ tab[j].count = 0)
      BY DEF TableSound, RunsAllocated, RunsDisjoint
    <2> QED BY <1>4, <1>9, <2>1
  <1>12. RunsCover(new)
    <2> SUFFICES ASSUME NEW i \in Blocks, new[i].allocated
                 PROVE  \E h \in Heads(tab) \ G : i \in Run(h, tab[h].count)
      BY <1>7, <1>8 DEF RunsCover, Allocated
    <2>1. i \notin gone /\ tab[i].allocated
      BY <1>4
    <2>2. PICK h \in Heads(tab) : i \in Run(h, tab[h].count)
      BY <2>1 DEF TableSound, RunsCover, Allocated
    <2> QED BY <1>3, <2>1, <2>2
  <1> QED BY <1>2, <1>7, <1>8, <1>10, <1>11, <1>12 DEF TableSound, new, gone
-----------------------------------------------------------------------------
(***************************************************************************)
(* A store whose entries, members of E, own their regions.  D is the data  *)
(* that mount slots may hold; K are the first blocks of the regions that   *)
(* belong to no entry.                                                     *)
(***************************************************************************)
Stores(E, D) ==
  [EntryV : [Indexes -> Blocks \cup {NULL}], mem : [Blocks -> E \cup {Junk}],
   tab : Table, MountV : [Slots -> D \cup {Junk}]]

Owned(st, E, D, K) ==
  /\ st \in Stores(E, D)
  /\ TableSound(st.tab)
  /\ K \subseteq Blocks
  /\ \A i \in Live(st) : Ent(st, i) \in E /\ st.EntryV[i] \notin K
  /\ \A i, j \in Live(st) : i # j => st.EntryV[i] # st.EntryV[j]
  /\ Heads(st.tab) = {st.EntryV[i] : i \in Live(st)} \cup K

\* Blocks of the region of entry i.
Extent(st, i) == st.tab[st.EntryV[i]].count

\* Entry i is where it was and what it was.
Kept(st, new, i) ==
  /\ new.EntryV[i] = st.EntryV[i]
  /\ Ent(new, i) = Ent(st, i)
  /\ Extent(new, i) = Extent(st, i)

LEMMA StoreFields ==
  ASSUME NEW E, NEW D, NEW K, NEW st, Owned(st, E, D, K)
  PROVE  /\ st.EntryV \in [Indexes -> Blocks \cup {NULL}]
         /\ st.mem \in [Blocks -> E \cup {Junk}]
         /\ st.tab \in Table
         /\ st.MountV \in [Slots -> D \cup {Junk}]
         /\ TableSound(st.tab)
         /\ K \subseteq Blocks
         /\ \A i \in Live(st) : /\ i \in Indexes /\ st.EntryV[i] \in Blocks
                                /\ st.EntryV[i] \in Heads(st.tab)
  BY DEF Owned, Stores, Live

\* An entry is added at an index that was empty.
Added(st, new, i, ent, n) ==
  /\ i \in Indexes \ Live(st)
  /\ Live(new) = Live(st) \cup {i}
  /\ Ent(new, i) = ent
  /\ Extent(new, i) = n
  /\ \A j \in Live(st) : Kept(st, new, j)
  /\ new.MountV = st.MountV

LEMMA PlaceEffect ==
  ASSUME NEW E, NEW D, NEW K, NEW st, Owned(st, E, D, K), NEW i \in Indexes \ Live(st),
         NEW n \in 1 .. (BlockC * BLKSIZE), NEW ent \in E,
         MallocAt(st.tab, n) # NULL
  PROVE  LET b == MallocAt(st.tab, n)
             new == [st EXCEPT !.EntryV[i] = b, !.mem[b] = ent, !.tab = Malloced(@, n)]
         IN Owned(new, E, D, K) /\ Added(st, new, i, ent, BlocksFor(n))
  <1> DEFINE b == MallocAt(st.tab, n)
             ntab == Malloced(st.tab, n)
             new == [st EXCEPT !.EntryV[i] = b, !.mem[b] = ent, !.tab = Malloced(@, n)]
  <1>4. /\ st.tab \in Table /\ TableSound(st.tab)
        /\ st.EntryV \in [Indexes -> Blocks \cup {NULL}]
        /\ st.mem \in [Blocks -> E \cup {Junk}]
        /\ \A j \in Live(st) : /\ j \in Indexes /\ st.EntryV[j] \in Blocks
                               /\ st.EntryV[j] \in Heads(st.tab)
    BY StoreFields
  <1>5. /\ ntab \in Table /\ TableSound(ntab)
        /\ b \in Blocks /\ b \notin Heads(st.tab)
        /\ Heads(ntab) = Heads(st.tab) \cup {b}
        /\ ntab[b].count = BlocksFor(n)
        /\ \A h \in Heads(st.tab) : ntab[h].count = st.tab[h].count
    BY <1>4, MallocSpec
  <1>6. /\ new.EntryV = [st.EntryV EXCEPT ![i] = b]
        /\ new.mem = [st.mem EXCEPT ![b] = ent]
        /\ new.tab = ntab
        /\ new.MountV = st.MountV
        /\ new \in Stores(E, D)
    BY <1>4, <1>5 DEF Owned, Stores
  <1> HIDE DEF new, ntab, b
  <1>7. /\ new.EntryV[i] = b
        /\ \A j \in Indexes \ {i} : new.EntryV[j] = st.EntryV[j]
        /\ new.mem[b] = ent
        /\ \A c \in Blocks \ {b} : new.mem[c] = st.mem[c]
    BY <1>4, <1>5, <1>6
  <1>8. Live(new) = Live(st) \cup {i} /\ i \notin Live(st)
    BY <1>5, <1>7, NullApart DEF Live
  <1>9. \A j \in Live(st) : /\ j \in Indexes \ {i} /\ st.EntryV[j] \in Blocks \ {b}
                            /\ st.EntryV[j] \in Heads(st.tab)
    BY <1>4, <1>5
  <1>10. \A j \in Live(st) : Kept(st, new, j)
    BY <1>5, <1>6, <1>7, <1>9 DEF Kept, Ent, Extent
  <1>11. Added(st, new, i, ent, BlocksFor(n))
    BY <1>5, <1>6, <1>7, <1>8, <1>10 DEF Added, Ent, Extent
  <1>12. Owned(new, E, D, K)
    <2>1. \A j \in Live(new) : Ent(new, j) \in E /\ new.EntryV[j] \notin K
      <3>1. b \notin K
        BY <1>5 DEF Owned
      <3> QED BY <1>7, <1>8, <1>10, <3>1 DEF Owned, Kept, Ent
    <2>2. \A j, k \in Live(new) : j # k => new.EntryV[j] # new.EntryV[k]
      BY <1>7, <1>8, <1>9 DEF Owned
    <2>3. {new.EntryV[j] : j \in Live(new)} = {st.EntryV[j] : j \in Live(st)} \cup {b}
      BY <1>7, <1>8, <1>9
    <2>4. Heads(new.tab) = {new.EntryV[j] : j \in Live(new)} \cup K
      BY <1>5, <1>6, <2>3 DEF Owned
    <2> QED BY <1>5, <1>6, <2>1, <2>2, <2>4 DEF Owned
  <1> QED BY <1>11, <1>12 DEF new, b

LEMMA NewEntryEffect ==
  ASSUME NEW E, NEW D, NEW K, NEW st, Owned(st, E, D, K), NEW size \in Nat,
         BLKSIZE + size <= BlockC * BLKSIZE, NEW ent \in E
  PROVE  LET r == NewEntry(st, size, ent) IN
         \/ r = Reply(st, OUTOFMEMORY)
         \/ /\ r.sts = SUCCESS
            /\ Owned(r.st, E, D, K)
            /\ \E i \in Indexes : Added(st, r.st, i, ent, BlocksFor(BLKSIZE + size))
  <1> DEFINE r == NewEntry(st, size, ent)
             i == First(Indexes \ Live(st))
             n == BLKSIZE + size
             b == MallocAt(st.tab, n)
             new == [st EXCEPT !.EntryV[i] = b, !.mem[b] = ent, !.tab = Malloced(@, n)]
  <1>1. CASE i = NULL \/ b = NULL
    BY <1>1 DEF NewEntry
  <1>2. CASE i # NULL /\ b # NULL
    <2>1. r = Reply(new, SUCCESS)
      BY <1>2 DEF NewEntry
    <2>2. i \in Indexes \ Live(st)
      <3>1. Indexes \ Live(st) \in SUBSET Nat
        BY IndexesNat
      <3> HIDE DEF i
      <3>2. Indexes \ Live(st) # {} => First(Indexes \ Live(st)) \in Indexes \ Live(st)
        BY <3>1, FirstIn
      <3>3. Indexes \ Live(st) = {} => First(Indexes \ Live(st)) = NULL
        BY <3>1, FirstIn
      <3> QED BY <1>2, <3>2, <3>3 DEF i
    <2>3. n \in 1 .. (BlockC * BLKSIZE)
      BY BlockTableAssumption
    <2> HIDE DEF n, i
    <2>4. Owned(new, E, D, K) /\ Added(st, new, i, ent, BlocksFor(n))
      BY <1>2, <2>2, <2>3, PlaceEffect
    <2> HIDE DEF new
    <2> QED BY <2>1, <2>2, <2>4 DEF Reply, n
  <1> QED BY <1>1, <1>2

\* A region that belongs to no entry is taken.
LEMMA HoldEffect ==
  ASSUME NEW E, NEW D, NEW K, NEW st, Owned(st, E, D, K), NEW n \in 1 .. (BlockC * BLKSIZE),
         MallocAt(st.tab, n) # NULL
  PROVE  LET new == [st EXCEPT !.tab = Malloced(@, n)]
             b == MallocAt(st.tab, n)
         IN /\ Owned(new, E, D, K \cup {b}) /\ b \notin K
            /\ Live(new) = Live(st)
            /\ \A j \in Live(st) : Kept(st, new, j)
            /\ new.MountV = st.MountV
  <1> DEFINE new == [st EXCEPT !.tab = Malloced(@, n)]
             b == MallocAt(st.tab, n)
             ntab == Malloced(st.tab, n)
  <1>1. /\ st.tab \in Table /\ TableSound(st.tab)
        /\ \A j \in Live(st) : /\ j \in Indexes /\ st.EntryV[j] \in Blocks
                               /\ st.EntryV[j] \in Heads(st.tab)
    BY StoreFields
  <1>2. /\ ntab \in Table /\ TableSound(ntab)
        /\ b \in Blocks /\ b \notin Heads(st.tab)
        /\ Heads(ntab) = Heads(st.tab) \cup {b}
        /\ \A h \in Heads(st.tab) : ntab[h].count = st.tab[h].count
    BY <1>1, MallocSpec
  <1>3. /\ new.EntryV = st.EntryV /\ new.mem = st.mem /\ new.tab = ntab
        /\ new.MountV = st.MountV /\ new \in Stores(E, D)
    BY <1>2 DEF Owned, Stores
  <1> HIDE DEF new, b, ntab
  <1>4. Live(new) = Live(st) /\ \A j \in Live(st) : Kept(st, new, j)
    BY <1>1, <1>2, <1>3 DEF Live, Kept, Ent, Extent
  <1>5. b \notin K /\ \A j \in Live(st) : st.EntryV[j] # b
    BY <1>1, <1>2 DEF Owned
  <1>6. Owned(new, E, D, K \cup {b})
    BY <1>2, <1>3, <1>4, <1>5 DEF Owned, Kept
  <1> QED BY <1>3, <1>4, <1>5, <1>6 DEF new, b

\* Such a region is given back.
LEMMA UnholdEffect ==
  ASSUME NEW E, NEW D, NEW K, NEW st, Owned(st, E, D, K), NEW b \in K
  PROVE  LET new == [st EXCEPT !.tab = Unmark(@, b)]
         IN /\ Owned(new, E, D, K \ {b})
            /\ Live(new) = Live(st)
            /\ \A j \in Live(st) : Kept(st, new, j)
            /\ new.MountV = st.MountV
  <1> DEFINE new == [st EXCEPT !.tab = Unmark(@, b)]
             ntab == Unmark(st.tab, b)
  <1>1. /\ st.tab \in Table /\ TableSound(st.tab) /\ b \in Heads(st.tab)
        /\ \A j \in Live(st) : /\ j \in Indexes /\ st.EntryV[j] \in Blocks
                               /\ st.EntryV[j] \in Heads(st.tab) \ {b}
    BY StoreFields DEF Owned
  <1>2. /\ ntab \in Table /\ TableSound(ntab)
        /\ Heads(ntab) = Heads(st.tab) \ {b}
        /\ \A h \in Heads(st.tab) \ {b} : ntab[h].count = st.tab[h].count
    BY <1>1, Released
  <1>3. /\ new.EntryV = st.EntryV /\ new.mem = st.mem /\ new.tab = ntab
        /\ new.MountV = st.MountV /\ new \in Stores(E, D)
    BY <1>2 DEF Owned, Stores
  <1> HIDE DEF new, ntab
  <1>4. Live(new) = Live(st) /\ \A j \in Live(st) : Kept(st, new, j)
    BY <1>1, <1>2, <1>3 DEF Live, Kept, Ent, Extent
  <1>5. Owned(new, E, D, K \ {b})
    BY <1>1, <1>2, <1>3, <1>4 DEF Owned, Kept
  <1> QED BY <1>3, <1>4, <1>5 DEF new

\* Entry i becomes ent, in a region of n blocks.
Changed(st, new, i, ent, n) ==
  /\ Live(new) = Live(st)
  /\ Ent(new, i) = ent
  /\ Extent(new, i) = n
  /\ \A j \in Live(st) \ {i} : Kept(st, new, j)
  /\ new.MountV = st.MountV

LEMMA RewriteEffect ==
  ASSUME NEW E, NEW D, NEW K, NEW st, Owned(st, E, D, K), NEW i \in Live(st),
         NEW buf, Len(buf) \in Nat, BLKSIZE + Len(buf) <= BlockC * BLKSIZE,
         [Ent(st, i) EXCEPT !.size = Len(buf), !.data = buf] \in E
  PROVE  LET r == Rewrite(st, i, buf) IN
         \/ r = Reply(st, OUTOFMEMORY)
         \/ /\ r.sts = SUCCESS
            /\ Owned(r.st, E, D, K)
            /\ Changed(st, r.st, i, [Ent(st, i) EXCEPT !.size = Len(buf), !.data = buf],
                       BlocksFor(BLKSIZE + Len(buf)))
  <1> DEFINE r == Rewrite(st, i, buf)
             n == BLKSIZE + Len(buf)
             old == st.EntryV[i]
             b == MallocAt(st.tab, n)
             mtab == Malloced(st.tab, n)
             ntab == Unmark(mtab, old)
             ent == [Ent(st, i) EXCEPT !.size = Len(buf), !.data = buf]
             new == [st EXCEPT !.EntryV[i] = b,
                               !.mem = [@ EXCEPT ![b] = [st.mem[old] EXCEPT !.size = Len(buf),
                                                                            !.data = buf],
                                                 ![old] = Junk],
                               !.tab = Unmark(Malloced(@, n), old)]
  <1>1. CASE b = NULL
    BY <1>1 DEF Rewrite
  <1>2. CASE b # NULL
    <2>1. r = Reply(new, SUCCESS)
      BY <1>2 DEF Rewrite
    <2>3. n \in 1 .. (BlockC * BLKSIZE)
      BY BlockTableAssumption
    <2> HIDE DEF n
    <2>4. /\ st.tab \in Table /\ TableSound(st.tab)
          /\ st.EntryV \in [Indexes -> Blocks \cup {NULL}]
          /\ st.mem \in [Blocks -> E \cup {Junk}]
          /\ \A j \in Live(st) : /\ j \in Indexes /\ st.EntryV[j] \in Blocks
                                 /\ st.EntryV[j] \in Heads(st.tab)
          /\ i \in Indexes /\ old \in Blocks /\ old \in Heads(st.tab)
      BY StoreFields
    <2>5. /\ mtab \in Table /\ TableSound(mtab)
          /\ b \in Blocks /\ b \notin Heads(st.tab)
          /\ Heads(mtab) = Heads(st.tab) \cup {b}
          /\ mtab[b].count = BlocksFor(n)
          /\ \A h \in Heads(st.tab) : mtab[h].count = st.tab[h].count
      BY <1>2, <2>3, <2>4, MallocSpec
    <2> HIDE DEF mtab, b
    <2>6. /\ ntab \in Table /\ TableSound(ntab)
          /\ Heads(ntab) = (Heads(st.tab) \cup {b}) \ {old}
          /\ \A h \in (Heads(st.tab) \cup {b}) \ {old} : ntab[h].count = mtab[h].count
          /\ b # old
      BY <2>4, <2>5, Released
    <2>7. /\ new.EntryV = [st.EntryV EXCEPT ![i] = b]
          /\ new.mem = [st.mem EXCEPT ![b] = ent, ![old] = Junk]
          /\ new.tab = ntab
          /\ new.MountV = st.MountV
          /\ new \in Stores(E, D)
      <3>1. ent = [st.mem[old] EXCEPT !.size = Len(buf), !.data = buf] /\ ent \in E
        BY DEF Ent
      <3> HIDE DEF ent, ntab
      <3>2. new = [st EXCEPT !.EntryV[i] = b, !.mem = [@ EXCEPT ![b] = ent, ![old] = Junk],
                             !.tab = ntab]
        BY <3>1 DEF ntab, mtab
      <3> HIDE DEF new
      <3> QED BY <2>4, <2>5, <2>6, <3>1, <3>2 DEF Owned, Stores
    <2> HIDE DEF new, ntab, ent
    <2>8. /\ new.EntryV[i] = b
          /\ \A j \in Indexes \ {i} : new.EntryV[j] = st.EntryV[j]
          /\ new.mem[b] = ent
          /\ \A c \in Blocks \ {b, old} : new.mem[c] = st.mem[c]
      BY <2>4, <2>5, <2>6, <2>7
    <2>9. Live(new) = Live(st)
      BY <2>4, <2>5, <2>8, NullApart DEF Live
    <2>10. \A j \in Live(st) \ {i} : /\ j \in Indexes \ {i} /\ st.EntryV[j] \in Blocks \ {b, old}
                                     /\ st.EntryV[j] \in Heads(st.tab) \ {old}
      <3>1. \A j \in Live(st) \ {i} : st.EntryV[j] # old
        BY DEF Owned
      <3> QED BY <2>4, <2>5, <3>1
    <2>11. \A j \in Live(st) \ {i} : Kept(st, new, j)
      BY <2>5, <2>6, <2>7, <2>8, <2>10 DEF Kept, Ent, Extent
    <2>12. Ent(new, i) = ent /\ Extent(new, i) = BlocksFor(n)
      BY <2>5, <2>6, <2>7, <2>8 DEF Ent, Extent
    <2>13. Owned(new, E, D, K)
      <3>1. \A j \in Live(new) : Ent(new, j) \in E /\ new.EntryV[j] \notin K
        <4>1. b \notin K
          BY <2>5 DEF Owned
        <4>2. ent \in E
          BY DEF ent
        <4> QED BY <2>8, <2>9, <2>11, <2>12, <4>1, <4>2 DEF Owned, Kept
      <3>2. \A j, k \in Live(new) : j # k => new.EntryV[j] # new.EntryV[k]
        BY <2>8, <2>9, <2>10 DEF Owned
      <3>3. {new.EntryV[j] : j \in Live(new)} = ({st.EntryV[j] : j \in Live(st)} \ {old}) \cup {b}
        BY <2>8, <2>9, <2>10
      <3>4. old \notin K
        BY DEF Owned
      <3>5. Heads(new.tab) = {new.EntryV[j] : j \in Live(new)} \cup K
        BY <2>5, <2>6, <2>7, <3>3, <3>4 DEF Owned
      <3> QED BY <2>6, <2>7, <3>1, <3>2, <3>5 DEF Owned
    <2>14. Changed(st, new, i, ent, BlocksFor(n))
      BY <2>7, <2>9, <2>11, <2>12 DEF Changed
    <2> QED BY <2>1, <2>13, <2>14 DEF Reply, n, ent
  <1> QED BY <1>1, <1>2

\* The header of entry i is written over where it is.
LEMMA OverwriteEffect ==
  ASSUME NEW E, NEW D, NEW K, NEW st, Owned(st, E, D, K), NEW i \in Live(st), NEW ent \in E
  PROVE  LET new == [st EXCEPT !.mem[st.EntryV[i]] = ent] IN
         Owned(new, E, D, K) /\ Changed(st, new, i, ent, Extent(st, i))
  <1> DEFINE b == st.EntryV[i]
             new == [st EXCEPT !.mem[b] = ent]
  <1>1. /\ st.EntryV \in [Indexes -> Blocks \cup {NULL}]
        /\ st.mem \in [Blocks -> E \cup {Junk}]
        /\ i \in Indexes /\ b \in Blocks
        /\ \A j \in Live(st) : j \in Indexes /\ st.EntryV[j] \in Blocks
    BY StoreFields
  <1>2. /\ new.EntryV = st.EntryV /\ new.tab = st.tab /\ new.MountV = st.MountV
        /\ new.mem = [st.mem EXCEPT ![b] = ent]
        /\ new \in Stores(E, D)
    BY <1>1 DEF Owned, Stores
  <1> HIDE DEF new
  <1>3. Live(new) = Live(st)
    BY <1>2 DEF Live
  <1>4. \A j \in Live(st) \ {i} : st.EntryV[j] # b
    BY DEF Owned
  <1>5. \A j \in Live(st) \ {i} : Kept(st, new, j)
    BY <1>1, <1>2, <1>4 DEF Kept, Ent, Extent
  <1>6. Ent(new, i) = ent /\ Extent(new, i) = Extent(st, i)
    BY <1>1, <1>2 DEF Ent, Extent
  <1>7. \A j \in Live(new) : Ent(new, j) \in E
    BY <1>3, <1>5, <1>6 DEF Owned, Kept
  <1>8. Owned(new, E, D, K)
    BY <1>2, <1>3, <1>7 DEF Owned
  <1>9. Changed(st, new, i, ent, Extent(st, i))
    BY <1>2, <1>3, <1>5, <1>6 DEF Changed
  <1> QED BY <1>8, <1>9 DEF new

\* A mount slot is written.
LEMMA SlotEffect ==
  ASSUME NEW E, NEW D, NEW K, NEW st, Owned(st, E, D, K), NEW s \in Slots, NEW d \in D
  PROVE  LET new == [st EXCEPT !.MountV[s] = d] IN
         /\ Owned(new, E, D, K)
         /\ Live(new) = Live(st)
         /\ new.EntryV = st.EntryV /\ new.mem = st.mem /\ new.tab = st.tab
         /\ new.MountV = [st.MountV EXCEPT ![s] = d]
  <1> DEFINE new == [st EXCEPT !.MountV[s] = d]
  <1>1. /\ new.EntryV = st.EntryV /\ new.mem = st.mem /\ new.tab = st.tab
        /\ new.MountV = [st.MountV EXCEPT ![s] = d] /\ new \in Stores(E, D)
    BY DEF Owned, Stores
  <1> HIDE DEF new
  <1>2. Live(new) = Live(st) /\ \A i \in Live(st) : Ent(new, i) = Ent(st, i)
    BY <1>1 DEF Live, Ent
  <1>3. Owned(new, E, D, K)
    BY <1>1, <1>2 DEF Owned
  <1> QED BY <1>1, <1>2, <1>3 DEF new

\* The entries in is go, with their regions.
LEMMA FreedEffect ==
  ASSUME NEW E, NEW D, NEW K, NEW st, Owned(st, E, D, K), NEW is \in SUBSET Live(st)
  PROVE  LET new == Freed(st, is) IN
         /\ Owned(new, E, D, K)
         /\ Live(new) = Live(st) \ is
         /\ \A j \in Live(new) : Kept(st, new, j)
         /\ new.MountV = st.MountV
  <1> DEFINE gone == {st.EntryV[i] : i \in is}
             blocks == UNION {Run(b, st.tab[b].count) : b \in gone}
             ntab == [b \in Blocks |-> IF b \in blocks THEN ClearBlock ELSE st.tab[b]]
             new == Freed(st, is)
  <1>1. /\ st.tab \in Table /\ TableSound(st.tab)
        /\ st.EntryV \in [Indexes -> Blocks \cup {NULL}]
        /\ st.mem \in [Blocks -> E \cup {Junk}]
        /\ \A j \in Live(st) : /\ j \in Indexes /\ st.EntryV[j] \in Blocks
                               /\ st.EntryV[j] \in Heads(st.tab)
    BY StoreFields
  <1>2. gone \in SUBSET Heads(st.tab)
    BY <1>1
  <1> HIDE DEF gone
  <1>3. /\ ntab \in Table /\ TableSound(ntab)
        /\ Heads(ntab) = Heads(st.tab) \ gone
        /\ \A h \in Heads(st.tab) \ gone : ntab[h].count = st.tab[h].count
    BY <1>1, <1>2, ClearedSound
  <1> HIDE DEF ntab
  <1>4. /\ new.EntryV = [i \in Indexes |-> IF i \in is THEN NULL ELSE st.EntryV[i]]
        /\ new.mem = [b \in Blocks |-> IF b \in gone THEN Junk ELSE st.mem[b]]
        /\ new.tab = ntab
        /\ new.MountV = st.MountV
        /\ new \in Stores(E, D)
    <2>1. new = [st EXCEPT !.EntryV = [i \in Indexes |-> IF i \in is THEN NULL ELSE st.EntryV[i]],
                           !.mem = [b \in Blocks |-> IF b \in gone THEN Junk ELSE st.mem[b]],
                           !.tab = ntab]
      BY DEF Freed, ntab, gone
    <2> HIDE DEF new
    <2>2. st \in Stores(E, D)
      BY DEF Owned
    <2>3. [i \in Indexes |-> IF i \in is THEN NULL ELSE st.EntryV[i]]
            \in [Indexes -> Blocks \cup {NULL}]
      BY <1>1
    <2>4. [b \in Blocks |-> IF b \in gone THEN Junk ELSE st.mem[b]] \in [Blocks -> E \cup {Junk}]
      BY <1>1
    <2> QED BY <1>3, <2>1, <2>2, <2>3, <2>4 DEF Stores
  <1> HIDE DEF new
  <1>5. Live(new) = Live(st) \ is
    BY <1>4 DEF Live
  <1>6. \A j \in Live(st) \ is : st.EntryV[j] \notin gone
    BY DEF Owned, gone
  <1>7. \A j \in Live(new) : /\ j \in Live(st) /\ j \in Indexes /\ j \notin is
                             /\ st.EntryV[j] \in Blocks
                             /\ st.EntryV[j] \in Heads(st.tab) \ gone
    BY <1>1, <1>5, <1>6
  <1>8. \A j \in Live(new) : Kept(st, new, j)
    BY <1>3, <1>4, <1>7 DEF Kept, Ent, Extent
  <1>9. \A j \in Live(new) : Ent(new, j) \in E /\ new.EntryV[j] = st.EntryV[j]
    BY <1>7, <1>8 DEF Owned, Kept
  <1>10. {new.EntryV[j] : j \in Live(new)} = {st.EntryV[j] : j \in Live(st)} \ gone
    <2>1. {new.EntryV[j] : j \in Live(new)} \subseteq {st.EntryV[j] : j \in Live(st)} \ gone
      BY <1>7, <1>9
    <2>2. ASSUME NEW j \in Live(st), st.EntryV[j] \notin gone
          PROVE  st.EntryV[j] \in {new.EntryV[k] : k \in Live(new)}
      <3>1. j \in Live(new)
        BY <1>5, <2>2 DEF gone
      <3> QED BY <1>9, <3>1
    <2> QED BY <2>1, <2>2
  <1>11. gone \cap K = {}
    BY DEF gone, Owned
  <1>12. Heads(new.tab) = {new.EntryV[j] : j \in Live(new)} \cup K
    BY <1>3, <1>4, <1>10, <1>11 DEF Owned
  <1>13. Owned(new, E, D, K)
    BY <1>3, <1>4, <1>7, <1>9, <1>12 DEF Owned
  <1> QED BY <1>4, <1>5, <1>8, <1>13 DEF new
=============================================================================
