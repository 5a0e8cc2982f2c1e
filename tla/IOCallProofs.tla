---------------------------- MODULE IOCallProofs ----------------------------
(***************************************************************************)
(* Theorems about the I/O calls: for every size of the pool, of the entry  *)
(* table and of the descriptor table, every set of processes, files and    *)
(* keys.  The devices are fed with bytes of a set F[p] for device p, so    *)
(* that InputProofs can use the same lemmas for what the PS/2 controller   *)
(* delivers.                                                               *)
(***************************************************************************)
EXTENDS IOCall, EntryTableProofs, SequenceTheorems

FileBytes == Procs \cup {Zero}

Bytes(F) == FileBytes \cup F[Keyboard] \cup F[Mouse]

Entries(F) ==
  [name : FileNames, type : {"FILE", "DIR"}, ftype : {"FILE", "CHARDEV"}, size : Nat,
   data : Seq(Bytes(F)), mountslot : {NULL}]

\* A device is a file of one block, whose queue lies in it behind its length.
DeviceOK(F, e) ==
  /\ e.type = "FILE" /\ e.name \in Devices /\ e.size = BLKSIZE
  /\ U32 + Len(e.data) <= BLKSIZE
  /\ e.data \in Seq(F[e.name])

FileOK(e) == Len(e.data) = e.size /\ e.data \in Seq(FileBytes)

\* Entry e in a region of n blocks.
EntryOK(F, e, n) ==
  /\ n = BlocksFor(BLKSIZE + e.size)
  /\ BLKSIZE + e.size <= BlockC * BLKSIZE
  /\ IF e.ftype = "CHARDEV" THEN DeviceOK(F, e) ELSE FileOK(e)

Unique(st) == \A i, j \in Live(st) : Ent(st, i).name = Ent(st, j).name => i = j

RootFirst(st) == 0 \in Live(st) /\ Ent(st, 0).name = Root

Good(st, F, K) ==
  /\ Owned(st, Entries(F), {}, K)
  /\ Unique(st)
  /\ RootFirst(st)
  /\ \A i \in Live(st) : EntryOK(F, Ent(st, i), Extent(st, i))

\* Every entry is still there, and unchanged unless it is p's.
Spares(st, new, p) ==
  \A i \in Live(st) : /\ i \in Live(new)
                      /\ Ent(new, i).name = Ent(st, i).name
                      /\ Ent(st, i).name # p => Ent(new, i) = Ent(st, i)

DevicesThere(st) == \A p \in Devices : Exists(st, p) /\ fs_stat(st, p).ftype = "CHARDEV"

Ready(st, F, K) == Good(st, F, K) /\ DevicesThere(st)

\* At most descriptor 0 is in use, by an entry that is there, and its
\* position is not beyond the end of a file.
DescsOK(st, fdv) ==
  /\ fdv \in [Descs -> [entry : Indexes, flags : SUBSET Flags, ptr : Nat]]
  /\ \A k \in Descs \ {0} : fdv[k] = NoDesc
  /\ fdv[0].entry # 0 => /\ fdv[0].entry \in Live(st)
                         /\ Ent(st, fdv[0].entry).ftype = "FILE" =>
                              fdv[0].ptr <= Ent(st, fdv[0].entry).size

\* What the drivers of this module feed.
Fed == [p \in Devices |-> IF p = Keyboard THEN Keys ELSE Range(Packet)]

\* The part of the invariant that needs no history.
StoreInv(F) ==
  /\ phase \in {"boot", "run", "panic"}
  /\ \E K \in {{}, {0}} : Good(fs, F, K)
  /\ DescsOK(fs, iocall_FileDesc)
  /\ holds \in [Procs -> Indexes \cup {NULL}]
  /\ phase = "boot" => /\ fs.EntryV = [i \in Indexes |-> IF i = 0 THEN fs.EntryV[0] ELSE NULL]
                       /\ iocall_FileDesc = ClearDescs
  /\ phase = "run" => DevicesThere(fs)
  /\ phase # "run" => \A i \in Live(fs) : Ent(fs, i).ftype = "CHARDEV" => Ent(fs, i).data = <<>>

HistoryInv(F) ==
  /\ accepted \in [Devices -> Seq(Bytes(F))]
  /\ taken \in [Devices -> Seq(Bytes(F))]
  /\ phase = "boot" => accepted = taken
  /\ DeviceFIFO

IOCallInv(F) == StoreInv(F) /\ HistoryInv(F)
-----------------------------------------------------------------------------
(* Memory *)

\* The blocks of a request hold it.
LEMMA BlocksHold ==
  ASSUME NEW size \in 1 .. (BlockC * BLKSIZE)
  PROVE  size <= BlocksFor(size) * BLKSIZE
  <1> DEFINE a == size + BLKSIZE - 1
             q == a \div BLKSIZE
  <1>1. /\ BLKSIZE \in Nat \ {0} /\ BlockC \in Nat \ {0} /\ WORD \in Nat
        /\ (BlockC + 1) * BLKSIZE = BlockC * BLKSIZE + BLKSIZE
        /\ BlockC * BLKSIZE \in Nat
    BY BlockTableAssumption
  <1>2. a \in Nat /\ a < (BlockC + 1) * BLKSIZE
    BY <1>1
  <1>3. a % WORD = a
    BY <1>1, <1>2, BlockTableAssumption
  <1>4. BlocksFor(size) = q
    BY <1>3 DEF BlocksFor
  <1>5. q \in Nat /\ a < BLKSIZE * q + BLKSIZE
    <2> HIDE DEF a
    <2> QED BY <1>1, <1>2
  <1>6. BLKSIZE * q = q * BLKSIZE
    <2> HIDE DEF q
    <2> QED BY <1>1, <1>5
  <1> HIDE DEF q
  <1> QED BY <1>1, <1>4, <1>5, <1>6

\* Where another region is in use, a request that succeeds leaves room for
\* a header as far as the size of the pool goes.
LEMMA RoomBesides ==
  ASSUME NEW tab \in Table, TableSound(tab), NEW h \in Heads(tab),
         NEW size \in 1 .. (BlockC * BLKSIZE), MallocAt(tab, size) # NULL
  PROVE  BLKSIZE + size <= BlockC * BLKSIZE
  <1> DEFINE b == MallocAt(tab, size)
             n == BlocksFor(size)
  <1>1. n \in 1 .. BlockC /\ size <= n * BLKSIZE
    BY DivBlocks, BlocksHold
  <1>2. b \in Starts(tab, n)
    BY MallocSpec
  <1> HIDE DEF b, n
  <1>3. b \in Nat /\ Fits(tab, b, n)
    BY <1>1, <1>2, StartsFit
  <1>4. h \in Blocks /\ h \in Nat /\ h < BlockC /\ BlockC \in Nat /\ BLKSIZE \in Nat \ {0}
    BY BlockTableAssumption DEF Heads, Blocks
  <1>5. tab[h].allocated
    <2>1. tab[h].count \in Nat /\ tab[h].count > 0
      BY <1>4, TableFields DEF Heads
    <2>2. h \in Run(h, tab[h].count)
      BY <1>4, <2>1 DEF Run
    <2> QED BY <2>2 DEF TableSound, RunsAllocated
  <1>6. h \notin Run(b, n)
    BY <1>3, <1>4, <1>5 DEF Fits, FreeRun
  <1>7. n <= BlockC - 1
    BY <1>1, <1>3, <1>4, <1>6 DEF Run, Fits, Inside
  <1>8. n * BLKSIZE <= (BlockC - 1) * BLKSIZE
    BY <1>1, <1>4, <1>7
  <1>9. (BlockC - 1) * BLKSIZE = BlockC * BLKSIZE - BLKSIZE
    BY <1>4
  <1> QED BY <1>1, <1>4, <1>8, <1>9

-----------------------------------------------------------------------------
(* The store *)

LEMMA GoodFields ==
  ASSUME NEW F, NEW K, NEW st, Good(st, F, K)
  PROVE  /\ Owned(st, Entries(F), {}, K)
         /\ Live(st) \subseteq Indexes
         /\ \A i \in Live(st) : /\ Ent(st, i) \in Entries(F)
                                 /\ EntryOK(F, Ent(st, i), Extent(st, i))
  BY DEF Good, Owned, Live

\* The entry of a name is the one fs_index finds.
LEMMA StatFound ==
  ASSUME NEW F, NEW K, NEW st, Good(st, F, K), NEW i \in Live(st)
  PROVE  /\ Exists(st, Ent(st, i).name)
         /\ fs_index(st, Ent(st, i).name) = i
         /\ fs_stat(st, Ent(st, i).name) = Ent(st, i)
  <1> DEFINE p == Ent(st, i).name
  <1>1. Exists(st, p)
    BY IndexFound
  <1>2. fs_index(st, p) \in Live(st) /\ Ent(st, fs_index(st, p)).name = p
    BY <1>1, IndexFound
  <1>3. fs_index(st, p) = i
    BY <1>2 DEF Good, Unique
  <1> QED BY <1>1, <1>3 DEF fs_stat

\* And a name that exists has an entry.
LEMMA StatExists ==
  ASSUME NEW F, NEW K, NEW st, Good(st, F, K), NEW p, Exists(st, p)
  PROVE  /\ fs_index(st, p) \in Live(st)
         /\ fs_stat(st, p) = Ent(st, fs_index(st, p))
         /\ fs_stat(st, p).name = p
         /\ fs_stat(st, p) \in Entries(F)
  BY IndexFound, GoodFields DEF fs_stat

LEMMA SparesStat ==
  ASSUME NEW F, NEW K, NEW L, NEW st, NEW new, NEW p, Good(st, F, K), Good(new, F, L),
         Spares(st, new, p), NEW q, Exists(st, q)
  PROVE  /\ Exists(new, q) /\ fs_index(new, q) = fs_index(st, q)
         /\ q # p => fs_stat(new, q) = fs_stat(st, q)
  <1> DEFINE i == fs_index(st, q)
  <1>1. i \in Live(st) /\ Ent(st, i).name = q /\ fs_stat(st, q) = Ent(st, i)
    BY IndexFound DEF fs_stat
  <1> HIDE DEF i
  <1>2. /\ i \in Live(new) /\ Ent(new, i).name = q
        /\ q # p => Ent(new, i) = Ent(st, i)
    BY <1>1 DEF Spares
  <1>3. Exists(new, q) /\ fs_index(new, q) = i /\ fs_stat(new, q) = Ent(new, i)
    BY <1>2, StatFound
  <1> QED BY <1>1, <1>2, <1>3 DEF i

LEMMA SparesTwice ==
  ASSUME NEW st, NEW mid, NEW new, NEW p, Spares(st, mid, p), Spares(mid, new, p)
  PROVE  Spares(st, new, p)
  BY DEF Spares

LEMMA SparesSelf ==
  ASSUME NEW st, NEW p PROVE Spares(st, st, p)
  BY DEF Spares

LEMMA AddGood ==
  ASSUME NEW F, NEW K, NEW st, NEW new, NEW i, NEW ent, NEW n, Good(st, F, K),
         Owned(new, Entries(F), {}, K), Added(st, new, i, ent, n), EntryOK(F, ent, n),
         ~ Exists(st, ent.name)
  PROVE  Good(new, F, K) /\ Spares(st, new, ent.name)
  <1>1. \A j \in Live(st) : Ent(st, j).name # ent.name
    BY IndexFound
  <1>2. \A j \in Live(st) : /\ j \in Live(new) /\ j # i
                            /\ Ent(new, j) = Ent(st, j) /\ Extent(new, j) = Extent(st, j)
    BY DEF Added, Kept
  <1>3. Unique(new)
    BY <1>1, <1>2 DEF Good, Unique, Added
  <1>4. RootFirst(new)
    BY <1>2 DEF Good, RootFirst
  <1>5. \A j \in Live(new) : EntryOK(F, Ent(new, j), Extent(new, j))
    BY <1>2 DEF Good, Added
  <1> QED BY <1>2, <1>3, <1>4, <1>5 DEF Good, Spares

LEMMA ChangeGood ==
  ASSUME NEW F, NEW K, NEW st, NEW new, NEW i \in Live(st), NEW ent, NEW n, Good(st, F, K),
         Owned(new, Entries(F), {}, K), Changed(st, new, i, ent, n), EntryOK(F, ent, n),
         ent.name = Ent(st, i).name
  PROVE  Good(new, F, K) /\ Spares(st, new, ent.name)
  <1>1. \A j \in Live(st) \ {i} : /\ Ent(new, j) = Ent(st, j)
                                  /\ Extent(new, j) = Extent(st, j)
    BY DEF Changed, Kept
  <1>2. Live(new) = Live(st) /\ Ent(new, i) = ent /\ Extent(new, i) = n
    BY DEF Changed
  <1>3. \A j \in Live(st) : Ent(new, j).name = Ent(st, j).name
    BY <1>1, <1>2
  <1>4. Unique(new)
    BY <1>2, <1>3 DEF Good, Unique
  <1>5. RootFirst(new)
    BY <1>2, <1>3 DEF Good, RootFirst
  <1>6. \A j \in Live(new) : EntryOK(F, Ent(new, j), Extent(new, j))
    BY <1>1, <1>2 DEF Good
  <1> QED BY <1>1, <1>2, <1>3, <1>4, <1>5, <1>6 DEF Good, Spares

\* The entries stay what they are while regions of others come and go.
LEMMA SameGood ==
  ASSUME NEW F, NEW K, NEW L, NEW st, NEW new, Good(st, F, K),
         Owned(new, Entries(F), {}, L), Live(new) = Live(st),
         \A j \in Live(st) : Kept(st, new, j), NEW p
  PROVE  Good(new, F, L) /\ Spares(st, new, p)
  <1>1. \A j \in Live(st) : Ent(new, j) = Ent(st, j) /\ Extent(new, j) = Extent(st, j)
    BY DEF Kept
  <1> QED BY <1>1 DEF Good, Unique, RootFirst, Spares

LEMMA FreshFile ==
  ASSUME NEW F, NEW p \in FileNames, NEW buf \in Seq(FileBytes),
         BLKSIZE + Len(buf) <= BlockC * BLKSIZE
  PROVE  /\ FileEntry(p, buf) \in Entries(F)
         /\ FileEntry(p, buf).name = p
         /\ EntryOK(F, FileEntry(p, buf), BlocksFor(BLKSIZE + Len(buf)))
  <1>1. buf \in Seq(Bytes(F)) /\ Len(buf) \in Nat
    BY DEF Bytes
  <1>2. FileEntry(p, buf) \in Entries(F)
    BY <1>1 DEF FileEntry, Entries
  <1>3. EntryOK(F, FileEntry(p, buf), BlocksFor(BLKSIZE + Len(buf)))
    BY DEF EntryOK, FileOK, FileEntry
  <1> QED BY <1>2, <1>3 DEF FileEntry

\* A file with new contents.
Refilled(e, buf) == [e EXCEPT !.size = Len(buf), !.data = buf]

LEMMA RefilledFile ==
  ASSUME NEW F, NEW e \in Entries(F), e.ftype # "CHARDEV", NEW buf \in Seq(FileBytes),
         BLKSIZE + Len(buf) <= BlockC * BLKSIZE
  PROVE  /\ Refilled(e, buf) \in Entries(F)
         /\ Refilled(e, buf).name = e.name /\ Refilled(e, buf).type = e.type
         /\ Refilled(e, buf).ftype = e.ftype /\ Refilled(e, buf).size = Len(buf)
         /\ EntryOK(F, Refilled(e, buf), BlocksFor(BLKSIZE + Len(buf)))
  <1>1. buf \in Seq(Bytes(F)) /\ Len(buf) \in Nat
    BY DEF Bytes
  <1>2. /\ Refilled(e, buf) \in Entries(F)
        /\ Refilled(e, buf).name = e.name /\ Refilled(e, buf).type = e.type
        /\ Refilled(e, buf).ftype = e.ftype
        /\ Refilled(e, buf).size = Len(buf) /\ Refilled(e, buf).data = buf
    BY <1>1 DEF Refilled, Entries
  <1>3. EntryOK(F, Refilled(e, buf), BlocksFor(BLKSIZE + Len(buf)))
    BY <1>2 DEF EntryOK, FileOK
  <1> QED BY <1>2, <1>3

LEMMA ReplyFields ==
  ASSUME NEW st, NEW sts PROVE Reply(st, sts).st = st /\ Reply(st, sts).sts = sts
  BY DEF Reply

LEMMA Failures ==
  /\ OUTOFMEMORY # SUCCESS /\ FAILURE # SUCCESS /\ DIREXISTS # SUCCESS
  /\ PATHNOTFOUND # SUCCESS /\ ALREADYEXISTS # SUCCESS /\ FILEEXISTS # SUCCESS
  BY DEF OUTOFMEMORY, FAILURE, DIREXISTS, PATHNOTFOUND, ALREADYEXISTS, FILEEXISTS, SUCCESS

\* What fs_createDir and fs_writeFile do when they add an entry.
LEMMA NewEntryGood ==
  ASSUME NEW F, NEW K, NEW st, Good(st, F, K), NEW size \in Nat,
         BLKSIZE + size <= BlockC * BLKSIZE, NEW ent \in Entries(F),
         EntryOK(F, ent, BlocksFor(BLKSIZE + size)), ~ Exists(st, ent.name)
  PROVE  LET r == NewEntry(st, size, ent) IN
         \/ r.sts # SUCCESS /\ r.st = st
         \/ /\ r.sts = SUCCESS /\ Good(r.st, F, K)
            /\ Spares(st, r.st, ent.name)
            /\ Exists(r.st, ent.name) /\ fs_stat(r.st, ent.name) = ent
            /\ \A j \in Live(r.st) : j \in Live(st) \/ Ent(r.st, j) = ent
  <1> DEFINE r == NewEntry(st, size, ent)
  <1>1. Owned(st, Entries(F), {}, K)
    BY DEF Good
  <1>2. \/ r = Reply(st, OUTOFMEMORY)
        \/ /\ r.sts = SUCCESS
           /\ Owned(r.st, Entries(F), {}, K)
           /\ \E i \in Indexes : Added(st, r.st, i, ent, BlocksFor(BLKSIZE + size))
    BY <1>1, NewEntryEffect
  <1> HIDE DEF r
  <1>3. CASE r = Reply(st, OUTOFMEMORY)
    BY <1>3, ReplyFields, Failures DEF r
  <1>4. CASE /\ r.sts = SUCCESS
             /\ Owned(r.st, Entries(F), {}, K)
             /\ \E i \in Indexes : Added(st, r.st, i, ent, BlocksFor(BLKSIZE + size))
    <2>1. PICK i \in Indexes : Added(st, r.st, i, ent, BlocksFor(BLKSIZE + size))
      BY <1>4
    <2>2. Good(r.st, F, K) /\ Spares(st, r.st, ent.name)
      BY <1>4, <2>1, AddGood
    <2>3. i \in Live(r.st) /\ Ent(r.st, i) = ent /\ Live(r.st) = Live(st) \cup {i}
      BY <2>1 DEF Added
    <2>4. Exists(r.st, ent.name) /\ fs_stat(r.st, ent.name) = ent
      BY <2>2, <2>3, StatFound
    <2> QED BY <1>4, <2>2, <2>3, <2>4 DEF r
  <1> QED BY <1>2, <1>3, <1>4

\* fs_writeFile of a path that is no device: all or nothing, and no other
\* entry is touched.
LEMMA WriteFileGood ==
  ASSUME NEW F, NEW K, NEW st, Good(st, F, K), NEW p \in FileNames,
         NEW buf \in Seq(FileBytes), BLKSIZE + Len(buf) <= BlockC * BLKSIZE,
         Exists(st, p) => fs_stat(st, p).ftype # "CHARDEV"
  PROVE  LET r == fs_writeFile(st, p, buf) IN
         \/ r.sts # SUCCESS /\ r.st = st
         \/ /\ r.sts = SUCCESS /\ Good(r.st, F, K) /\ Spares(st, r.st, p)
            /\ Exists(r.st, p)
            /\ fs_stat(r.st, p) = IF Exists(st, p) THEN Refilled(fs_stat(st, p), buf)
                                  ELSE FileEntry(p, buf)
            /\ \A j \in Live(r.st) : j \in Live(st) \/ Ent(r.st, j).name = p
  <1> DEFINE r == fs_writeFile(st, p, buf)
             i == fs_index(st, p)
  <1>0. Len(buf) \in Nat
    OBVIOUS
  <1>1. CASE p.dir
    BY <1>1, ReplyFields, Failures DEF fs_writeFile
  <1>2. CASE ~ p.dir /\ Exists(st, AsDir(p))
    BY <1>2, ReplyFields, Failures DEF fs_writeFile
  <1>3. CASE ~ p.dir /\ ~ Exists(st, AsDir(p)) /\ Exists(st, p)
    <2>1. r = Rewrite(st, i, buf)
      BY <1>3 DEF fs_writeFile
    <2>2. /\ i \in Live(st) /\ Ent(st, i) = fs_stat(st, p) /\ Ent(st, i).name = p
          /\ Ent(st, i) \in Entries(F)
      BY <1>3, StatExists
    <2>3. /\ Refilled(Ent(st, i), buf) \in Entries(F)
          /\ Refilled(Ent(st, i), buf).name = p
          /\ EntryOK(F, Refilled(Ent(st, i), buf), BlocksFor(BLKSIZE + Len(buf)))
      BY <1>3, <2>2, RefilledFile
    <2>4. Owned(st, Entries(F), {}, K)
      BY DEF Good
    <2> HIDE DEF r, i
    <2>5. \/ r = Reply(st, OUTOFMEMORY)
          \/ /\ r.sts = SUCCESS
             /\ Owned(r.st, Entries(F), {}, K)
             /\ Changed(st, r.st, i, Refilled(Ent(st, i), buf), BlocksFor(BLKSIZE + Len(buf)))
      <3> DEFINE ent == [Ent(st, i) EXCEPT !.size = Len(buf), !.data = buf]
      <3>1. ent \in Entries(F) /\ ent = Refilled(Ent(st, i), buf)
        BY <2>3 DEF Refilled
      <3>2. LET q == Rewrite(st, i, buf) IN
            \/ q = Reply(st, OUTOFMEMORY)
            \/ /\ q.sts = SUCCESS
               /\ Owned(q.st, Entries(F), {}, K)
               /\ Changed(st, q.st, i, ent, BlocksFor(BLKSIZE + Len(buf)))
        BY <1>0, <2>2, <2>4, <3>1, RewriteEffect
      <3> HIDE DEF ent
      <3> QED BY <2>1, <3>1, <3>2
    <2>6. CASE r = Reply(st, OUTOFMEMORY)
      BY <2>6, ReplyFields, Failures DEF r
    <2>7. CASE /\ r.sts = SUCCESS
               /\ Owned(r.st, Entries(F), {}, K)
               /\ Changed(st, r.st, i, Refilled(Ent(st, i), buf), BlocksFor(BLKSIZE + Len(buf)))
      <3> DEFINE ent == Refilled(Ent(st, i), buf)
      <3>0. ent.name = Ent(st, i).name /\ ent.name = p
        BY <2>2, <2>3
      <3>a. EntryOK(F, ent, BlocksFor(BLKSIZE + Len(buf)))
        BY <2>3
      <3> HIDE DEF ent
      <3>b. Good(r.st, F, K) /\ Spares(st, r.st, ent.name)
        BY <2>2, <2>7, <3>0, <3>a, ChangeGood DEF ent
      <3>1. Good(r.st, F, K) /\ Spares(st, r.st, p)
        BY <3>0, <3>b
      <3>2. i \in Live(r.st) /\ Ent(r.st, i) = Refilled(Ent(st, i), buf)
        BY <2>2, <2>7 DEF Changed
      <3>3. Exists(r.st, p) /\ fs_stat(r.st, p) = Refilled(fs_stat(st, p), buf)
        BY <2>2, <2>3, <3>1, <3>2, StatFound
      <3>4. Live(r.st) = Live(st)
        BY <2>7 DEF Changed
      <3> QED BY <1>3, <2>7, <3>1, <3>3, <3>4 DEF r
    <2> QED BY <2>5, <2>6, <2>7
  <1>4. CASE ~ p.dir /\ ~ Exists(st, AsDir(p)) /\ ~ Exists(st, p) /\ ~ ParentsFound(st, p)
    BY <1>4, ReplyFields, Failures DEF fs_writeFile
  <1>5. CASE ~ p.dir /\ ~ Exists(st, AsDir(p)) /\ ~ Exists(st, p) /\ ParentsFound(st, p)
    <2>1. r = NewEntry(st, Len(buf), FileEntry(p, buf))
      BY <1>5 DEF fs_writeFile
    <2>2. /\ FileEntry(p, buf) \in Entries(F) /\ FileEntry(p, buf).name = p
          /\ EntryOK(F, FileEntry(p, buf), BlocksFor(BLKSIZE + Len(buf)))
      BY FreshFile
    <2> HIDE DEF r
    <2>3. \/ r.sts # SUCCESS /\ r.st = st
          \/ /\ r.sts = SUCCESS /\ Good(r.st, F, K)
             /\ Spares(st, r.st, p)
             /\ Exists(r.st, p) /\ fs_stat(r.st, p) = FileEntry(p, buf)
             /\ \A j \in Live(r.st) : j \in Live(st) \/ Ent(r.st, j).name = p
      <3> DEFINE ent == FileEntry(p, buf)
      <3>1. LET q == NewEntry(st, Len(buf), ent) IN
            \/ q.sts # SUCCESS /\ q.st = st
            \/ /\ q.sts = SUCCESS /\ Good(q.st, F, K)
               /\ Spares(st, q.st, ent.name)
               /\ Exists(q.st, ent.name) /\ fs_stat(q.st, ent.name) = ent
               /\ \A j \in Live(q.st) : j \in Live(st) \/ Ent(q.st, j) = ent
        <4> HIDE DEF ent
        <4> QED BY <1>0, <1>5, <2>2, NewEntryGood DEF ent
      <3> QED BY <2>1, <2>2, <3>1
    <2> QED BY <1>5, <2>3 DEF r
  <1> QED BY <1>1, <1>2, <1>3, <1>4, <1>5

-----------------------------------------------------------------------------
(* open *)

LEMMA ReturnFields ==
  ASSUME NEW st, NEW fdv, NEW ret, NEW bytes
  PROVE  /\ Return(st, fdv, ret, bytes).st = st
         /\ Return(st, fdv, ret, bytes).fdv = fdv
         /\ Return(st, fdv, ret, bytes).ret = ret
         /\ Return(st, fdv, ret, bytes).bytes = bytes
  BY DEF Return

LEMMA DescType ==
  /\ 0 \in Descs
  /\ ClearDescs \in [Descs -> [entry : Indexes, flags : SUBSET Flags, ptr : Nat]]
  /\ \A k \in Descs : ClearDescs[k] = NoDesc /\ ClearDescs[k].entry = 0
  /\ 0 \in Indexes
  BY IOCallAssumption DEF Descs, ClearDescs, NoDesc, Indexes, TYPEFD

\* The descriptor that open hands out is always the first.
LEMMA FirstDesc == First({i \in Descs : ClearDescs[i].entry = 0}) = 0
  <1> DEFINE S == {i \in Descs : ClearDescs[i].entry = 0}
  <1>1. S = Descs /\ 0 \in S /\ S \in SUBSET Nat /\ \A j \in S : 0 <= j
    BY DescType DEF Descs
  <1> HIDE DEF S
  <1>2. \A i \in S : (\A j \in S : i <= j) => i = 0
    BY <1>1
  <1>3. \E i \in S : \A j \in S : i <= j
    BY <1>1
  <1>4. First(S) = CHOOSE i \in S : \A j \in S : i <= j
    BY <1>1 DEF First
  <1> QED BY <1>2, <1>3, <1>4 DEF S

LEMMA IndexType ==
  ASSUME NEW st, NEW p PROVE fs_index(st, p) \in Indexes \cup {NULL}
  <1> DEFINE S == {i \in Live(st) : Ent(st, i).name = p}
  <1>1. S \in SUBSET Nat /\ S \subseteq Indexes
    BY IndexesNat DEF Live
  <1>2. First(S) = NULL \/ First(S) \in S
    BY <1>1, FirstIn
  <1> QED BY <1>1, <1>2 DEF fs_index

\* A character device is one of the two.
LEMMA DeviceNames ==
  ASSUME NEW F, NEW K, NEW st, Good(st, F, K), NEW p, p \notin Devices, Exists(st, p)
  PROVE  fs_stat(st, p).ftype # "CHARDEV"
  <1>1. fs_index(st, p) \in Live(st) /\ fs_stat(st, p) = Ent(st, fs_index(st, p))
        /\ fs_stat(st, p).name = p
    BY StatExists
  <1>2. EntryOK(F, fs_stat(st, p), Extent(st, fs_index(st, p)))
    BY <1>1 DEF Good
  <1> QED BY <1>1, <1>2 DEF EntryOK, DeviceOK

\* Changes to files other than the devices leave these alone.
LEMMA DevicesSpared ==
  ASSUME NEW F, NEW K, NEW L, NEW st, NEW new, NEW p, p \notin Devices,
         Ready(st, F, K), Good(new, F, L), Spares(st, new, p)
  PROVE  /\ Ready(new, F, L)
         /\ \A d \in Devices : Queue(new, d) = Queue(st, d)
  <1>1. \A d \in Devices : /\ Exists(st, d) /\ fs_stat(st, d).ftype = "CHARDEV"
                           /\ Exists(new, d) /\ fs_stat(new, d) = fs_stat(st, d)
    BY SparesStat DEF Ready, DevicesThere
  <1> QED BY <1>1 DEF Ready, DevicesThere, Queue

\* What open's change of the store is: nothing, a new empty file, or an
\* old one emptied.
LEMMA EmptyWrite ==
  ASSUME NEW F, NEW K, NEW st, Good(st, F, K), NEW p \in FileNames,
         Exists(st, p) => fs_stat(st, p).ftype # "CHARDEV"
  PROVE  LET w == fs_writeFile(st, p, <<>>) IN
         /\ Good(w.st, F, K) /\ Spares(st, w.st, p)
         /\ w.sts # SUCCESS => w.st = st
         /\ w.sts = SUCCESS => Exists(w.st, p)
  <1> DEFINE w == fs_writeFile(st, p, <<>>)
  <1>1. <<>> \in Seq(FileBytes) /\ Len(<<>>) = 0
    OBVIOUS
  <1>2. BLKSIZE + Len(<<>>) <= BlockC * BLKSIZE
    <2>1. BLKSIZE + 0 <= BlockC * BLKSIZE
      BY BlockTableAssumption
    <2> QED BY <1>1, <2>1
  <1>3. \/ w.sts # SUCCESS /\ w.st = st
        \/ /\ w.sts = SUCCESS /\ Good(w.st, F, K) /\ Spares(st, w.st, p)
           /\ Exists(w.st, p)
           /\ fs_stat(w.st, p) = IF Exists(st, p) THEN Refilled(fs_stat(st, p), <<>>)
                                 ELSE FileEntry(p, <<>>)
    <2> DEFINE buf == <<>>
    <2>1. buf \in Seq(FileBytes) /\ BLKSIZE + Len(buf) <= BlockC * BLKSIZE
      BY <1>1, <1>2
    <2> HIDE DEF buf
    <2>2. LET r == fs_writeFile(st, p, buf) IN
          \/ r.sts # SUCCESS /\ r.st = st
          \/ /\ r.sts = SUCCESS /\ Good(r.st, F, K) /\ Spares(st, r.st, p)
             /\ Exists(r.st, p)
             /\ fs_stat(r.st, p) = IF Exists(st, p) THEN Refilled(fs_stat(st, p), buf)
                                   ELSE FileEntry(p, buf)
      BY <2>1, WriteFileGood
    <2> QED BY <2>2 DEF buf
  <1> HIDE DEF w
  <1> QED BY <1>3, SparesSelf DEF w

\* The descriptors after an open that succeeds.
Given(i, flags) == [ClearDescs EXCEPT ![0].entry = i, ![0].flags = flags]

LEMMA GivenFields ==
  ASSUME NEW i \in Indexes, NEW flags \in SUBSET Flags
  PROVE  /\ Given(i, flags) \in [Descs -> [entry : Indexes, flags : SUBSET Flags, ptr : Nat]]
         /\ \A k \in Descs \ {0} : Given(i, flags)[k] = NoDesc
         /\ Given(i, flags)[0] = [entry |-> i, flags |-> flags, ptr |-> 0]
  <1> DEFINE one == [ClearDescs EXCEPT ![0].entry = i]
             D == [entry : Indexes, flags : SUBSET Flags, ptr : Nat]
  <1>1. ClearDescs \in [Descs -> D] /\ 0 \in Descs
    BY DescType
  <1>2. ClearDescs[0] = [entry |-> 0, flags |-> {}, ptr |-> 0]
    BY DescType DEF NoDesc
  <1>3. one = [ClearDescs EXCEPT ![0] = [entry |-> i, flags |-> {}, ptr |-> 0]]
    <2>1. [ClearDescs[0] EXCEPT !.entry = i] = [entry |-> i, flags |-> {}, ptr |-> 0]
      BY <1>2
    <2>2. one = [ClearDescs EXCEPT ![0] = [ClearDescs[0] EXCEPT !.entry = i]]
      OBVIOUS
    <2> QED BY <2>1, <2>2
  <1> HIDE DEF one
  <1>4. Given(i, flags) = [one EXCEPT ![0].flags = flags]
    BY DEF Given, one
  <1>5. one[0] = [entry |-> i, flags |-> {}, ptr |-> 0] /\ DOMAIN one = Descs
    BY <1>1, <1>3
  <1>6. Given(i, flags) = [one EXCEPT ![0] = [entry |-> i, flags |-> flags, ptr |-> 0]]
    <2>1. [one[0] EXCEPT !.flags = flags] = [entry |-> i, flags |-> flags, ptr |-> 0]
      BY <1>5
    <2>2. Given(i, flags) = [one EXCEPT ![0] = [one[0] EXCEPT !.flags = flags]]
      BY <1>4
    <2> QED BY <2>1, <2>2
  <1>7. Given(i, flags) = [ClearDescs EXCEPT ![0] = [entry |-> i, flags |-> flags, ptr |-> 0]]
    BY <1>1, <1>3, <1>6
  <1> QED BY <1>1, <1>7, DescType

LEMMA ClearOK ==
  ASSUME NEW st PROVE DescsOK(st, ClearDescs)
  BY DescType DEF DescsOK

LEMMA GivenOK ==
  ASSUME NEW F, NEW K, NEW st, Good(st, F, K), NEW i \in Live(st), NEW flags \in SUBSET Flags
  PROVE  DescsOK(st, Given(i, flags))
  <1>1. i \in Indexes /\ Ent(st, i).size \in Nat
    BY GoodFields DEF Entries
  <1>2. /\ Given(i, flags) \in [Descs -> [entry : Indexes, flags : SUBSET Flags, ptr : Nat]]
        /\ \A k \in Descs \ {0} : Given(i, flags)[k] = NoDesc
        /\ Given(i, flags)[0] = [entry |-> i, flags |-> flags, ptr |-> 0]
    BY <1>1, GivenFields
  <1>3. Given(i, flags)[0].entry = i /\ Given(i, flags)[0].ptr = 0
    BY <1>2
  <1>4. Given(i, flags)[0].ptr <= Ent(st, i).size
    BY <1>1, <1>3
  <1> QED BY <1>2, <1>3, <1>4 DEF DescsOK

LEMMA OpenEffect ==
  ASSUME NEW F, NEW K, NEW st, Ready(st, F, K), NEW fdv, NEW path \in FileNames,
         NEW flags \in SUBSET Flags, O_TRUNC \in flags => path \notin Devices,
         NEW force \in BOOLEAN
  PROVE  LET r == open(st, fdv, path, flags, force) IN
         /\ Ready(r.st, F, K)
         /\ \A p \in Devices : Queue(r.st, p) = Queue(st, p)
         /\ DescsOK(r.st, r.fdv)
  <1> DEFINE new == ~ Exists(st, path)
             w == fs_writeFile(st, path, <<>>)
             made == IF new THEN w.st ELSE st
             ent == fs_stat(made, path)
             trunc == fs_writeFile(made, path, <<>>)
             cut == IF O_TRUNC \in flags /\ ~ new THEN trunc.st ELSE made
             found == First({i \in Descs : ClearDescs[i].entry = 0})
             fails ==
               \/ new /\ (O_CREAT \notin flags \/ w.sts # SUCCESS)
               \/ ~ new /\ fs_index(st, path) = FS_ROOTDIR
               \/ ent.type # "FILE"
               \/ ~ force /\ ent.ftype = "CHARDEV" /\ DeviceRefuses(flags)
               \/ O_EXCL \in flags /\ ~ new
               \/ O_TRUNC \in flags /\ ~ new /\ trunc.sts # SUCCESS
             failsLate ==
               \/ ~ force /\ O_APPEND \in flags /\ O_RDONLY \in flags /\ O_RDWR \notin flags
               \/ found = NULL
             r == open(st, fdv, path, flags, force)
             after == [ClearDescs EXCEPT ![found].entry = fs_index(made, path),
                                         ![found].flags = flags]
  <1>1. r = IF fails THEN Return(IF O_CREAT \in flags THEN made ELSE st, ClearDescs, -1, <<>>)
            ELSE IF failsLate THEN Return(cut, ClearDescs, -1, <<>>)
            ELSE Return(cut, after, TYPEFD + found, <<>>)
    BY DEF open, iocall_Initialized
  <1>2. after = Given(fs_index(made, path), flags)
    BY FirstDesc DEF Given
  <1>3. Good(st, F, K) /\ Spares(st, st, path)
    BY SparesSelf DEF Ready
  <1>4. Good(made, F, K) /\ Spares(st, made, path)
    <2>1. CASE new
      BY <1>3, <2>1, EmptyWrite
    <2> QED BY <1>3, <2>1
  <1>5. path \in Devices => made = st /\ cut = st
    BY DEF Ready, DevicesThere
  <1>6. Good(cut, F, K) /\ Spares(made, cut, path)
    <2>1. CASE O_TRUNC \in flags /\ ~ new
      <3>1. made = st /\ fs_stat(st, path).ftype # "CHARDEV"
        BY <1>3, <2>1, DeviceNames
      <3> QED BY <1>3, <2>1, <3>1, EmptyWrite
    <2>2. CASE ~ (O_TRUNC \in flags /\ ~ new)
      BY <1>4, <2>2, SparesSelf
    <2> QED BY <2>1, <2>2
  <1> HIDE DEF new, w, cut, trunc, found, fails, failsLate, r, after
  <1>7. Spares(st, cut, path)
    BY <1>4, <1>6, SparesTwice
  <1>8. \A s \in {st, made, cut} : Ready(s, F, K) /\ \A p \in Devices : Queue(s, p) = Queue(st, p)
    <2>1. CASE path \in Devices
      BY <1>5, <2>1
    <2>2. CASE path \notin Devices
      BY <1>3, <1>4, <1>6, <1>7, <2>2, DevicesSpared
    <2> QED BY <2>1, <2>2
  <1>9. CASE fails
    <2>1. r.st \in {st, made} /\ r.fdv = ClearDescs
      BY <1>1, <1>9 DEF Return
    <2> QED BY <1>8, <2>1, ClearOK DEF r
  <1>10. CASE ~ fails /\ failsLate
    <2>1. r.st = cut /\ r.fdv = ClearDescs
      BY <1>1, <1>10 DEF Return
    <2> QED BY <1>8, <2>1, ClearOK DEF r
  <1>11. CASE ~ fails /\ ~ failsLate
    <2>1. r.st = cut /\ r.fdv = Given(fs_index(made, path), flags)
      BY <1>1, <1>2, <1>11 DEF Return
    <2>2. Exists(made, path)
      <3>1. CASE new
        <4>1. w.sts = SUCCESS /\ ~ Exists(st, path)
          BY <1>11, <3>1 DEF fails, new
        <4>2. Exists(w.st, path)
          BY <1>3, <4>1, EmptyWrite DEF w
        <4> QED BY <3>1, <4>2
      <3>2. CASE ~ new
        BY <3>2 DEF new
      <3> QED BY <3>1, <3>2
    <2>3. fs_index(made, path) \in Live(cut)
      <3>1. fs_index(made, path) \in Live(made)
        BY <2>2, IndexFound
      <3> QED BY <1>6, <3>1 DEF Spares
    <2>4. DescsOK(cut, Given(fs_index(made, path), flags))
      BY <1>6, <2>3, GivenOK
    <2> QED BY <1>8, <2>1, <2>4 DEF r
  <1> QED BY <1>9, <1>10, <1>11

-----------------------------------------------------------------------------
(* Devices *)

LEMMA RootNoDevice == Root \notin Devices
  BY IOCallAssumption DEF Root, Devices

LEMMA DeviceAt ==
  ASSUME NEW F, NEW K, NEW st, Ready(st, F, K), NEW p \in Devices
  PROVE  LET i == fs_index(st, p) IN
         /\ i \in Live(st) /\ i \in Indexes /\ i # 0
         /\ Ent(st, i) \in Entries(F)
         /\ Ent(st, i).name = p /\ Ent(st, i).type = "FILE" /\ Ent(st, i).ftype = "CHARDEV"
         /\ Ent(st, i).size = BLKSIZE
         /\ Ent(st, i).data = Queue(st, p)
         /\ Queue(st, p) \in Seq(F[p])
         /\ U32 + Len(Queue(st, p)) <= BLKSIZE
         /\ EntryOK(F, Ent(st, i), Extent(st, i))
  <1> DEFINE i == fs_index(st, p)
  <1>1. Good(st, F, K) /\ Exists(st, p) /\ fs_stat(st, p).ftype = "CHARDEV"
    BY DEF Ready, DevicesThere
  <1>2. i \in Live(st) /\ Ent(st, i) = fs_stat(st, p) /\ Ent(st, i).name = p
        /\ Ent(st, i) \in Entries(F)
    BY <1>1, StatExists
  <1> HIDE DEF i
  <1>3. i \in Indexes /\ EntryOK(F, Ent(st, i), Extent(st, i))
    BY <1>1, <1>2, GoodFields
  <1>4. Ent(st, i).data = Queue(st, p)
    BY <1>2 DEF Queue
  <1>5. i # 0
    BY <1>1, <1>2, RootNoDevice DEF Good, RootFirst
  <1>6. DeviceOK(F, Ent(st, i))
    BY <1>1, <1>2, <1>3 DEF EntryOK
  <1> QED BY <1>1, <1>2, <1>3, <1>4, <1>5, <1>6 DEF DeviceOK, i

\* An entry whose name is a device's is the device.
LEMMA DeviceIs ==
  ASSUME NEW F, NEW K, NEW st, Ready(st, F, K), NEW i \in Live(st), Ent(st, i).name \in Devices
  PROVE  i = fs_index(st, Ent(st, i).name) /\ Ent(st, i).ftype = "CHARDEV"
  BY StatFound DEF Ready, DevicesThere

\* A position moves.
LEMMA PtrMoved ==
  ASSUME NEW fdv \in [Descs -> [entry : Indexes, flags : SUBSET Flags, ptr : Nat]],
         NEW n \in Nat
  PROVE  LET new == [fdv EXCEPT ![0].ptr = @ + n] IN
         /\ new \in [Descs -> [entry : Indexes, flags : SUBSET Flags, ptr : Nat]]
         /\ new[0].entry = fdv[0].entry /\ new[0].ptr = fdv[0].ptr + n
         /\ \A k \in Descs \ {0} : new[k] = fdv[k]
  <1> DEFINE d == [fdv[0] EXCEPT !.ptr = @ + n]
             new == [fdv EXCEPT ![0].ptr = @ + n]
  <1>1. 0 \in Descs
    BY DescType
  <1>2. fdv[0] \in [entry : Indexes, flags : SUBSET Flags, ptr : Nat]
    BY <1>1
  <1>3. /\ d \in [entry : Indexes, flags : SUBSET Flags, ptr : Nat]
        /\ d.entry = fdv[0].entry /\ d.ptr = fdv[0].ptr + n
    BY <1>2
  <1>4. new = [fdv EXCEPT ![0] = d]
    OBVIOUS
  <1> HIDE DEF d, new
  <1> QED BY <1>1, <1>3, <1>4 DEF new

\* The queue of a device is replaced.
LEMMA QueueEffect ==
  ASSUME NEW F, NEW K, NEW st, Ready(st, F, K), NEW p \in Devices,
         NEW q \in Seq(F[p]), U32 + Len(q) <= BLKSIZE
  PROVE  LET b == st.EntryV[fs_index(st, p)]
             new == [st EXCEPT !.mem[b].data = q]
         IN /\ Ready(new, F, K)
            /\ Queue(new, p) = q
            /\ \A d \in Devices \ {p} : Queue(new, d) = Queue(st, d)
            /\ \A fdv : DescsOK(st, fdv) => DescsOK(new, fdv)
  <1> DEFINE i == fs_index(st, p)
             b == st.EntryV[i]
             e == Ent(st, i)
             ent == [e EXCEPT !.data = q]
             new == [st EXCEPT !.mem[b].data = q]
  <1>1. /\ i \in Live(st) /\ e \in Entries(F)
        /\ e.name = p /\ e.type = "FILE" /\ e.ftype = "CHARDEV" /\ e.size = BLKSIZE
        /\ EntryOK(F, e, Extent(st, i))
    BY DeviceAt
  <1>2. Good(st, F, K) /\ Owned(st, Entries(F), {}, K)
    BY DEF Ready, Good
  <1>3. q \in Seq(Bytes(F))
    BY DEF Bytes, Devices
  <1> HIDE DEF i, e
  <1>4. /\ ent \in Entries(F)
        /\ ent.name = p /\ ent.type = "FILE" /\ ent.ftype = "CHARDEV" /\ ent.size = BLKSIZE
        /\ ent.data = q
    BY <1>1, <1>3 DEF Entries
  <1>5. EntryOK(F, ent, Extent(st, i))
    BY <1>1, <1>4 DEF EntryOK, DeviceOK
  <1>6. new = [st EXCEPT !.mem[b] = ent]
    BY DEF e, Ent
  <1> HIDE DEF new, ent
  <1>7. Owned(new, Entries(F), {}, K) /\ Changed(st, new, i, ent, Extent(st, i))
    BY <1>1, <1>2, <1>4, <1>6, OverwriteEffect
  <1>8. ent.name = Ent(st, i).name
    BY <1>1, <1>4 DEF e
  <1>9. Good(new, F, K) /\ Spares(st, new, ent.name)
    BY <1>1, <1>2, <1>5, <1>7, <1>8, ChangeGood
  <1>10. i \in Live(new) /\ Ent(new, i) = ent
    BY <1>1, <1>7 DEF Changed
  <1>11. Exists(new, p) /\ fs_stat(new, p) = ent
    BY <1>4, <1>9, <1>10, StatFound
  <1>12. \A d \in Devices \ {p} : Exists(new, d) /\ fs_stat(new, d) = fs_stat(st, d)
    BY <1>2, <1>4, <1>9, SparesStat DEF Ready, DevicesThere
  <1>13. Ready(new, F, K)
    BY <1>4, <1>9, <1>11, <1>12 DEF Ready, DevicesThere
  <1>14. ASSUME NEW fdv, DescsOK(st, fdv) PROVE DescsOK(new, fdv)
    <2>1. CASE fdv[0].entry = 0
      BY <1>14, <2>1 DEF DescsOK
    <2>2. CASE fdv[0].entry # 0
      <3> DEFINE k == fdv[0].entry
      <3>1. k \in Live(st) /\ (Ent(st, k).ftype = "FILE" => fdv[0].ptr <= Ent(st, k).size)
        BY <1>14, <2>2 DEF DescsOK
      <3>2. k \in Live(new) /\ (k # i => Ent(new, k) = Ent(st, k))
        BY <1>7, <3>1 DEF Changed, Kept
      <3>3. k = i => Ent(new, k).ftype # "FILE"
        BY <1>4, <1>10
      <3> QED BY <1>14, <3>1, <3>2, <3>3 DEF DescsOK
    <2> QED BY <2>1, <2>2
  <1> QED BY <1>4, <1>11, <1>12, <1>13, <1>14 DEF Queue, new, i

\* A device always opens for its driver and for the kernel's loop.
LEMMA OpenDevice ==
  ASSUME NEW F, NEW K, NEW st, Ready(st, F, K), NEW fdv, NEW p \in Devices
  PROVE  /\ open(st, fdv, p, {O_WRONLY}, TRUE) =
              Return(st, Given(fs_index(st, p), {O_WRONLY}), TYPEFD, <<>>)
         /\ open(st, fdv, p, {O_RDONLY}, FALSE) =
              Return(st, Given(fs_index(st, p), {O_RDONLY}), TYPEFD, <<>>)
  <1>1. /\ Exists(st, p) /\ fs_index(st, p) # FS_ROOTDIR
        /\ fs_stat(st, p).type = "FILE"
    BY DeviceAt DEF Ready, DevicesThere, FS_ROOTDIR, fs_stat
  <1>2. \A flags \in {{O_WRONLY}, {O_RDONLY}} :
          O_EXCL \notin flags /\ O_TRUNC \notin flags /\ O_APPEND \notin flags
    BY DEF O_EXCL, O_TRUNC, O_APPEND, O_WRONLY, O_RDONLY
  <1>3. ~ DeviceRefuses({O_RDONLY})
    BY DEF DeviceRefuses, devperm, O_WRONLY, O_RDONLY, O_RDWR
  <1>4. First({i \in Descs : ClearDescs[i].entry = 0}) = 0 /\ 0 # NULL /\ TYPEFD + 0 = TYPEFD
    BY FirstDesc DEF NULL, TYPEFD
  <1>5. open(st, fdv, p, {O_WRONLY}, TRUE) =
          Return(st, Given(fs_index(st, p), {O_WRONLY}), TYPEFD, <<>>)
    BY <1>1, <1>2, <1>4 DEF open, iocall_Initialized, Given
  <1>6. open(st, fdv, p, {O_RDONLY}, FALSE) =
          Return(st, Given(fs_index(st, p), {O_RDONLY}), TYPEFD, <<>>)
    BY <1>1, <1>2, <1>3, <1>4 DEF open, iocall_Initialized, Given
  <1> QED BY <1>5, <1>6

-----------------------------------------------------------------------------
(* read *)

LEMMA LeastOf ==
  ASSUME NEW m \in Nat, NEW n \in Nat
  PROVE  Least(m, n) \in Nat /\ Least(m, n) <= m /\ Least(m, n) <= n
         /\ Least(m, n) \in {m, n}
  BY DEF Least

\* The first m of the bytes go, the others stay.
LEMMA Split ==
  ASSUME NEW S, NEW q \in Seq(S), NEW m \in 0 .. Len(q)
  PROVE  /\ SubSeq(q, 1, m) \in Seq(S) /\ Len(SubSeq(q, 1, m)) = m
         /\ SubSeq(q, m + 1, Len(q)) \in Seq(S)
         /\ Len(SubSeq(q, m + 1, Len(q))) = Len(q) - m
         /\ \A i \in 1 .. m : SubSeq(q, 1, m)[i] = q[i]
         /\ \A i \in 1 .. (Len(q) - m) : SubSeq(q, m + 1, Len(q))[i] = q[i + m]
         /\ SubSeq(q, 1, m) \o SubSeq(q, m + 1, Len(q)) = q
  <1>0. Len(q) \in Nat /\ m \in Nat /\ m <= Len(q) /\ m + 1 \in Int /\ \A i \in 1 .. Len(q) : q[i] \in S
    BY ElementOfSeq
  <1>1. \A i \in 1 .. m : q[i] \in S
    BY <1>0
  <1>2. /\ SubSeq(q, 1, m) \in Seq(S)
        /\ Len(SubSeq(q, 1, m)) = IF 1 <= m THEN m - 1 + 1 ELSE 0
        /\ \A i \in 1 .. (m - 1 + 1) : SubSeq(q, 1, m)[i] = q[1 + i - 1]
    BY <1>0, <1>1, SubSeqProperties
  <1>3. \A i \in (m + 1) .. Len(q) : q[i] \in S
    BY <1>0
  <1>4. /\ SubSeq(q, m + 1, Len(q)) \in Seq(S)
        /\ Len(SubSeq(q, m + 1, Len(q))) = IF m + 1 <= Len(q) THEN Len(q) - (m + 1) + 1 ELSE 0
        /\ \A i \in 1 .. (Len(q) - (m + 1) + 1) : SubSeq(q, m + 1, Len(q))[i] = q[(m + 1) + i - 1]
    BY <1>0, <1>3, SubSeqProperties
  <1>5. SubSeq(q, 1, m) \o SubSeq(q, m + 1, Len(q)) = SubSeq(q, 1, Len(q))
    <2>1. 1 \in 1 .. (Len(q) + 1) /\ m \in (1 - 1) .. Len(q) /\ Len(q) \in m .. Len(q)
      BY <1>0
    <2> QED BY <2>1, ConcatAdjacentSubSeq
  <1>6. SubSeq(q, 1, Len(q)) = q
    BY SubSeqFull
  <1>7. Len(SubSeq(q, 1, m)) = m /\ \A i \in 1 .. m : SubSeq(q, 1, m)[i] = q[i]
    BY <1>0, <1>2
  <1>8. /\ Len(SubSeq(q, m + 1, Len(q))) = Len(q) - m
        /\ \A i \in 1 .. (Len(q) - m) : SubSeq(q, m + 1, Len(q))[i] = q[i + m]
    <2>1. \A i \in 1 .. (Len(q) - m) : i \in 1 .. (Len(q) - (m + 1) + 1) /\ (m + 1) + i - 1 = i + m
      BY <1>0
    <2> QED BY <1>0, <1>4, <2>1
  <1> QED BY <1>2, <1>4, <1>5, <1>6, <1>7, <1>8

\* A read took bytes out of queue q and left rest: none, or as many as it
\* asked for or there were.
Dequeued(q, rest, bytes, count) ==
  \E m \in {0, Least(count, Len(q))} :
    bytes = SubSeq(q, 1, m) /\ rest = SubSeq(q, m + 1, Len(q))

LEMMA NoneTaken ==
  ASSUME NEW S, NEW q \in Seq(S), NEW count
  PROVE  Dequeued(q, q, <<>>, count)
  <1>1. SubSeq(q, 1, 0) = <<>>
    BY SubSeqEmpty
  <1>2. SubSeq(q, 0 + 1, Len(q)) = q
    BY SubSeqFull
  <1> QED BY <1>1, <1>2 DEF Dequeued

\* The name behind descriptor 0.
Named(st, fdv) == IF fdv[0].entry = 0 THEN Root ELSE Ent(st, fdv[0].entry).name

\* What r, the result of a read of up to count bytes from device p, must be.
TakesFrom(F, K, st, fdv, p, count, r) ==
  LET q == Queue(st, p)
      m == Least(count, Len(q))
  IN /\ Ready(r.st, F, K)
     /\ r.fdv = fdv
     /\ DescsOK(st, fdv) => DescsOK(r.st, fdv)
     /\ r.bytes = SubSeq(q, 1, m)
     /\ Queue(r.st, p) = SubSeq(q, m + 1, Len(q))
     /\ \A d \in Devices \ {p} : Queue(r.st, d) = Queue(st, d)

\* A read of a device.
LEMMA ReadQueue ==
  ASSUME NEW F, NEW K, NEW st, Ready(st, F, K), NEW fdv, NEW p \in Devices,
         fdv[0].entry = fs_index(st, p), MayRead(fdv[0].flags), NEW count \in Nat
  PROVE  TakesFrom(F, K, st, fdv, p, count, read(st, fdv, TYPEFD, count, FALSE))
  <1> DEFINE r == read(st, fdv, TYPEFD, count, FALSE)
             q == Queue(st, p)
             m == Least(count, Len(q))
             i == fs_index(st, p)
             b == st.EntryV[i]
             new == [st EXCEPT !.mem[b].data = SubSeq(q, m + 1, Len(q))]
  <1>1. /\ i \in Live(st) /\ i # 0
        /\ Ent(st, i).type = "FILE" /\ Ent(st, i).ftype = "CHARDEV"
        /\ Ent(st, i).data = q
        /\ q \in Seq(F[p]) /\ U32 + Len(q) <= BLKSIZE
    BY DeviceAt
  <1>2. Usable(st, fdv[0])
    BY <1>1 DEF Usable, Live
  <1>3. TYPEFD - TYPEFD = 0 /\ MayRead(devperm)
    BY DEF TYPEFD, MayRead, devperm, O_RDONLY, O_RDWR
  <1>4. new = [st EXCEPT !.mem[st.EntryV[fdv[0].entry]].data = SubSeq(@, m + 1, Len(@))]
    BY <1>1 DEF Ent
  <1>5. r = Return(new, fdv, m, SubSeq(q, 1, m))
    <2> HIDE DEF m, q, new, i
    <2>1. Ent(st, fdv[0].entry).data = q /\ Ent(st, fdv[0].entry).ftype = "CHARDEV"
      BY <1>1 DEF i
    <2>2. Least(count, Len(Ent(st, fdv[0].entry).data)) = m
      BY <2>1 DEF m
    <2> QED BY <1>2, <1>3, <1>4, <2>1, <2>2 DEF read
  <1> HIDE DEF q
  <1>a. Len(q) \in Nat
    BY <1>1
  <1>6. Len(q) \in Nat /\ m \in Nat /\ m <= Len(q) /\ m \in 0 .. Len(q)
    <2>1. m \in Nat /\ m <= Len(q)
      BY <1>a, LeastOf
    <2> QED BY <1>a, <2>1
  <1> HIDE DEF m
  <1>7. /\ SubSeq(q, m + 1, Len(q)) \in Seq(F[p])
        /\ Len(SubSeq(q, m + 1, Len(q))) = Len(q) - m
    BY <1>1, <1>6, Split
  <1>8. U32 + Len(SubSeq(q, m + 1, Len(q))) <= BLKSIZE
    BY <1>1, <1>6, <1>7, IOCallAssumption, BlockTableAssumption
  <1>9. /\ Ready(new, F, K)
        /\ Queue(new, p) = SubSeq(q, m + 1, Len(q))
        /\ \A d \in Devices \ {p} : Queue(new, d) = Queue(st, d)
        /\ \A v : DescsOK(st, v) => DescsOK(new, v)
    BY <1>7, <1>8, QueueEffect
  <1> HIDE DEF r, new
  <1>10. r.st = new /\ r.fdv = fdv /\ r.bytes = SubSeq(q, 1, m)
    BY <1>5 DEF Return
  <1>11. TakesFrom(F, K, st, fdv, p, count, r)
    BY <1>9, <1>10 DEF TakesFrom, m, q
  <1> QED BY <1>11 DEF r

\* What r, the result of a read of up to count bytes, must be.
HandsOut(F, K, st, fdv, count, r) ==
  /\ Ready(r.st, F, K)
  /\ DescsOK(r.st, r.fdv)
  /\ \A p \in Devices : IF p = Named(st, fdv)
                        THEN Dequeued(Queue(st, p), Queue(r.st, p), r.bytes, count)
                        ELSE Queue(r.st, p) = Queue(st, p)

LEMMA ReadEffect ==
  ASSUME NEW F, NEW K, NEW st, Ready(st, F, K), NEW fdv, DescsOK(st, fdv),
         NEW fd, NEW count \in Nat
  PROVE  HandsOut(F, K, st, fdv, count, read(st, fdv, fd, count, FALSE))
  <1> DEFINE r == read(st, fdv, fd, count, FALSE)
             i == fdv[0].entry
             e == Ent(st, i)
  <1>0. TYPEFD - TYPEFD = 0 /\ 0 \in Descs
    BY DescType DEF TYPEFD
  <1>1. \A p \in Devices : Dequeued(Queue(st, p), Queue(st, p), <<>>, count)
    BY DeviceAt, NoneTaken
  <1>2. ASSUME r.st = st, r.fdv = fdv, r.bytes = <<>>
        PROVE  HandsOut(F, K, st, fdv, count, r)
    BY <1>1, <1>2 DEF HandsOut
  <1>3. CASE fd # TYPEFD \/ ~ Usable(st, fdv[0]) \/ ~ MayRead(fdv[0].flags)
    <2>1. r = Return(st, fdv, -1, <<>>)
      BY <1>0, <1>3 DEF read
    <2>2. r.st = st /\ r.fdv = fdv /\ r.bytes = <<>>
      <3> HIDE DEF r
      <3> QED BY <2>1, ReturnFields
    <2> QED BY <1>2, <2>2
  <1>4. CASE fd = TYPEFD /\ Usable(st, fdv[0]) /\ MayRead(fdv[0].flags)
    <2>1. i # 0 /\ i \in Live(st) /\ (e.ftype = "FILE" => fdv[0].ptr <= e.size)
      BY <1>4 DEF Usable, DescsOK
    <2>2. e \in Entries(F) /\ EntryOK(F, e, Extent(st, i)) /\ Good(st, F, K)
      BY <2>1, GoodFields DEF Ready
    <2>3. e.ftype \in {"FILE", "CHARDEV"} /\ e.size \in Nat
      BY <2>2 DEF Entries
    <2>4. fdv \in [Descs -> [entry : Indexes, flags : SUBSET Flags, ptr : Nat]]
      BY DEF DescsOK
    <2>5. fdv[0].ptr \in Nat
      BY <1>0, <2>4
    <2>6. CASE e.ftype = "FILE"
      <3>0. e.name \notin Devices
        BY <2>1, <2>6, DeviceIs
      <3>1. Named(st, fdv) = e.name
        BY <2>1 DEF Named
      <3>2. CASE fdv[0].ptr >= e.size
        <4>1. r = Return(st, fdv, 0, <<>>)
          BY <1>0, <1>4, <2>6, <3>2 DEF read
        <4>2. r.st = st /\ r.fdv = fdv /\ r.bytes = <<>>
          <5> HIDE DEF r
          <5> QED BY <4>1, ReturnFields
        <4> QED BY <1>2, <4>2
      <3>3. CASE ~ (fdv[0].ptr >= e.size)
        <4> DEFINE n == Least(count, e.size - fdv[0].ptr)
                   v == [fdv EXCEPT ![0].ptr = @ + n]
        <4>1. r = Return(st, v, n, SubSeq(e.data, fdv[0].ptr + 1, fdv[0].ptr + n))
          BY <1>0, <1>4, <2>6, <3>3 DEF read
        <4>2. r.st = st /\ r.fdv = v
          <5> HIDE DEF r, v, n
          <5> QED BY <4>1, ReturnFields
        <4>3. n \in Nat /\ fdv[0].ptr + n <= e.size
          <5>1. e.size - fdv[0].ptr \in Nat
            BY <2>1, <2>3, <2>5, <2>6
          <5>2. n \in Nat /\ n <= e.size - fdv[0].ptr
            BY <5>1, LeastOf
          <5> QED BY <2>3, <2>5, <5>2
        <4> HIDE DEF n
        <4>4. /\ v \in [Descs -> [entry : Indexes, flags : SUBSET Flags, ptr : Nat]]
              /\ v[0].entry = fdv[0].entry /\ v[0].ptr = fdv[0].ptr + n
              /\ \A k \in Descs \ {0} : v[k] = fdv[k]
          BY <2>4, <4>3, PtrMoved
        <4> HIDE DEF v, r, e
        <4>5. DescsOK(st, v)
          BY <2>1, <4>3, <4>4 DEF DescsOK, e
        <4> QED BY <3>0, <3>1, <4>2, <4>5 DEF r, HandsOut
      <3> QED BY <3>2, <3>3
    <2>7. CASE e.ftype = "CHARDEV"
      <3>1. e.name \in Devices
        BY <2>2, <2>7 DEF EntryOK, DeviceOK
      <3>2. i = fs_index(st, e.name) /\ Named(st, fdv) = e.name
        BY <2>1, <3>1, DeviceIs DEF Named
      <3> DEFINE p == e.name
                 q == Queue(st, p)
                 m == Least(count, Len(q))
      <3> HIDE DEF e
      <3>3. /\ Ready(r.st, F, K)
            /\ r.fdv = fdv
            /\ DescsOK(st, fdv) => DescsOK(r.st, fdv)
            /\ r.bytes = SubSeq(q, 1, m)
            /\ Queue(r.st, p) = SubSeq(q, m + 1, Len(q))
            /\ \A d \in Devices \ {p} : Queue(r.st, d) = Queue(st, d)
        <4>1. TakesFrom(F, K, st, fdv, p, count, read(st, fdv, TYPEFD, count, FALSE))
          <5>1. MayRead(fdv[0].flags) /\ p \in Devices /\ fdv[0].entry = fs_index(st, p)
            BY <1>4, <3>1, <3>2
          <5> HIDE DEF p
          <5> QED BY <5>1, ReadQueue
        <4>2. TakesFrom(F, K, st, fdv, p, count, r)
          BY <1>4, <4>1
        <4> HIDE DEF r, p
        <4> QED BY <4>2 DEF TakesFrom
      <3>4. Dequeued(q, Queue(r.st, p), r.bytes, count)
        BY <3>3 DEF Dequeued
      <3> QED BY <3>2, <3>3, <3>4 DEF HandsOut
    <2> QED BY <2>3, <2>6, <2>7
  <1> QED BY <1>3, <1>4

-----------------------------------------------------------------------------
(* write *)

LEMMA OverlayIs ==
  ASSUME NEW S, Zero \in S, NEW data \in Seq(S), NEW ptr \in 0 .. Len(data), NEW buf \in Seq(S)
  PROVE  LET new == Overlay(data, ptr, buf) IN
         /\ new \in Seq(S)
         /\ Len(new) \in Nat
         /\ Len(new) <= Len(data) + Len(buf)
         /\ ptr + Len(buf) <= Len(new)
  <1> DEFINE limit == IF Len(data) >= ptr + Len(buf) THEN Len(data) ELSE ptr + Len(buf)
             Byte(i) == IF i \in (ptr + 1) .. (ptr + Len(buf)) THEN buf[i - ptr]
                        ELSE IF i \in DOMAIN data THEN data[i] ELSE Zero
             new == [i \in 1 .. limit |-> Byte(i)]
  <1>1. Len(data) \in Nat /\ Len(buf) \in Nat /\ ptr \in Nat /\ DOMAIN data = 1 .. Len(data)
    OBVIOUS
  <1>2. limit \in Nat /\ limit <= Len(data) + Len(buf) /\ ptr + Len(buf) <= limit
    BY <1>1
  <1>3. \A i \in 1 .. limit : Byte(i) \in S
    <2> TAKE i \in 1 .. limit
    <2>1. CASE i \in (ptr + 1) .. (ptr + Len(buf))
      <3>1. i - ptr \in 1 .. Len(buf)
        BY <1>1, <2>1
      <3> QED BY <2>1, <3>1, ElementOfSeq
    <2>2. CASE i \notin (ptr + 1) .. (ptr + Len(buf)) /\ i \in DOMAIN data
      BY <1>1, <2>2, ElementOfSeq
    <2> QED BY <2>1, <2>2
  <1> HIDE DEF Byte, limit
  <1>4. new \in [1 .. limit -> S]
    BY <1>3
  <1> HIDE DEF new
  <1>5. new \in Seq(S) /\ Len(new) = limit
    BY <1>2, <1>4
  <1>6. Overlay(data, ptr, buf) = new
    BY DEF Overlay, new, limit, Byte
  <1> QED BY <1>1, <1>2, <1>5, <1>6

LEMMA HoldGood ==
  ASSUME NEW F, NEW K, NEW st, Good(st, F, K), NEW n \in 1 .. (BlockC * BLKSIZE),
         MallocAt(st.tab, n) # NULL
  PROVE  LET h == [st EXCEPT !.tab = Malloced(@, n)]
             b == MallocAt(st.tab, n)
         IN /\ Good(h, F, K \cup {b}) /\ b \notin K
            /\ Live(h) = Live(st)
            /\ \A j \in Live(st) : Kept(st, h, j)
  <1> DEFINE h == [st EXCEPT !.tab = Malloced(@, n)]
             b == MallocAt(st.tab, n)
  <1>0. Owned(st, Entries(F), {}, K)
    BY DEF Good
  <1>1. /\ Owned(h, Entries(F), {}, K \cup {b}) /\ b \notin K
        /\ Live(h) = Live(st)
        /\ \A j \in Live(st) : Kept(st, h, j)
    <2>1. Owned(h, Entries(F), {}, K \cup {b}) /\ b \notin K
      BY <1>0, HoldEffect
    <2>2. \A j \in Live(st) : Kept(st, h, j)
      BY <1>0, HoldEffect
    <2>3. h.EntryV = st.EntryV
      BY <1>0 DEF Owned, Stores
    <2> QED BY <2>1, <2>2, <2>3 DEF Live
  <1> HIDE DEF h, b
  <1>2. Good(h, F, K \cup {b})
    BY <1>1, SameGood
  <1> QED BY <1>1, <1>2 DEF h, b

\* The buffer around fs_writeFile: taken, used and given back.
LEMMA BufferedWrite ==
  ASSUME NEW F, NEW K, NEW st, Good(st, F, K), NEW i \in Live(st), Ent(st, i).ftype # "CHARDEV",
         NEW data \in Seq(FileBytes), Len(data) <= BlockC * BLKSIZE, Len(data) # 0,
         MallocAt(st.tab, Len(data)) # NULL
  PROVE  LET b == MallocAt(st.tab, Len(data))
             w == fs_writeFile([st EXCEPT !.tab = Malloced(@, Len(data))], Ent(st, i).name, data)
             after == [w.st EXCEPT !.tab = Unmark(@, b)]
         IN /\ Good(after, F, K)
            /\ Spares(st, after, Ent(st, i).name)
            /\ w.sts # SUCCESS => Ent(after, i) = Ent(st, i)
            /\ w.sts = SUCCESS => Ent(after, i).size = Len(data)
  <1> DEFINE n == Len(data)
             p == Ent(st, i).name
             b == MallocAt(st.tab, n)
             h == [st EXCEPT !.tab = Malloced(@, n)]
             w == fs_writeFile(h, p, data)
             after == [w.st EXCEPT !.tab = Unmark(@, b)]
  <1>1. n \in 1 .. (BlockC * BLKSIZE)
    BY BlockTableAssumption
  <1>2. Owned(st, Entries(F), {}, K) /\ Ent(st, i) \in Entries(F) /\ p \in FileNames
    BY GoodFields DEF Entries
  <1>3. BLKSIZE + n <= BlockC * BLKSIZE
    <2>1. st.tab \in Table /\ TableSound(st.tab) /\ st.EntryV[i] \in Heads(st.tab)
      BY <1>2, StoreFields
    <2> QED BY <1>1, <2>1, RoomBesides
  <1>a. MallocAt(st.tab, n) # NULL
    OBVIOUS
  <1> HIDE DEF n
  <1>4. /\ Good(h, F, K \cup {b}) /\ b \notin K
        /\ Live(h) = Live(st)
        /\ \A j \in Live(st) : Kept(st, h, j)
    BY <1>1, <1>a, HoldGood
  <1> HIDE DEF h, b, p
  <1>5. Good(h, F, K \cup {b}) /\ Spares(st, h, p)
    BY <1>4 DEF Spares, Kept
  <1>6. /\ i \in Live(h) /\ Ent(h, i) = Ent(st, i) /\ Ent(h, i).name = p
    BY <1>4 DEF Kept, p
  <1>7. Exists(h, p) /\ fs_stat(h, p) = Ent(st, i) /\ fs_index(h, p) = i
    BY <1>5, <1>6, StatFound
  <1>8. \/ w.sts # SUCCESS /\ w.st = h
        \/ /\ w.sts = SUCCESS /\ Good(w.st, F, K \cup {b}) /\ Spares(h, w.st, p)
           /\ Exists(w.st, p)
           /\ fs_stat(w.st, p) = IF Exists(h, p) THEN Refilled(fs_stat(h, p), data)
                                 ELSE FileEntry(p, data)
    BY <1>2, <1>3, <1>5, <1>7, WriteFileGood DEF n
  <1>9. Refilled(Ent(st, i), data).size = n
    BY <1>2, <1>3, RefilledFile DEF n
  <1> HIDE DEF w
  <1>10. /\ Good(w.st, F, K \cup {b}) /\ Spares(h, w.st, p)
         /\ i \in Live(w.st)
         /\ w.sts # SUCCESS => Ent(w.st, i) = Ent(st, i)
         /\ w.sts = SUCCESS => Ent(w.st, i).size = n
    <2>1. CASE w.sts # SUCCESS /\ w.st = h
      BY <1>5, <1>6, <2>1, SparesSelf
    <2>2. CASE /\ w.sts = SUCCESS /\ Good(w.st, F, K \cup {b}) /\ Spares(h, w.st, p)
               /\ Exists(w.st, p)
               /\ fs_stat(w.st, p) = IF Exists(h, p) THEN Refilled(fs_stat(h, p), data)
                                     ELSE FileEntry(p, data)
      <3>1. i \in Live(w.st) /\ Ent(w.st, i).name = p
        BY <1>6, <2>2 DEF Spares
      <3>2. fs_stat(w.st, p) = Ent(w.st, i)
        BY <2>2, <3>1, StatFound
      <3>3. Ent(w.st, i) = Refilled(Ent(st, i), data)
        BY <1>7, <2>2, <3>2
      <3> QED BY <1>9, <2>2, <3>1, <3>3
    <2> QED BY <1>8, <2>1, <2>2
  <1>11. Owned(w.st, Entries(F), {}, K \cup {b})
    BY <1>10 DEF Good
  <1>12. /\ Owned(after, Entries(F), {}, (K \cup {b}) \ {b})
         /\ Live(after) = Live(w.st)
         /\ \A j \in Live(w.st) : Kept(w.st, after, j)
    <2>1. b \in K \cup {b}
      OBVIOUS
    <2> DEFINE L == K \cup {b}
    <2> HIDE DEF L
    <2>2. Owned(w.st, Entries(F), {}, L) /\ b \in L
      BY <1>11, <2>1 DEF L
    <2>3. /\ Owned(after, Entries(F), {}, L \ {b})
          /\ Live(after) = Live(w.st)
          /\ \A j \in Live(w.st) : Kept(w.st, after, j)
      BY <2>2, UnholdEffect
    <2> QED BY <2>3 DEF L
  <1>13. (K \cup {b}) \ {b} = K
    BY <1>4
  <1> HIDE DEF after
  <1>14. Good(after, F, K) /\ Spares(w.st, after, p)
    BY <1>10, <1>12, <1>13, SameGood
  <1>15. Ent(after, i) = Ent(w.st, i)
    BY <1>10, <1>12 DEF Kept
  <1>16. Spares(st, after, p)
    <2>1. Spares(st, w.st, p)
      BY <1>5, <1>10, SparesTwice
    <2> QED BY <1>14, <2>1, SparesTwice
  <1> QED BY <1>10, <1>14, <1>15, <1>16 DEF after, w, h, b, p, n

LEMMA WriteThroughEffect ==
  ASSUME NEW F, NEW K, NEW st, Ready(st, F, K), NEW fdv, DescsOK(st, fdv),
         fdv[0].entry # 0, Ent(st, fdv[0].entry).ftype = "FILE",
         NEW buf \in Seq(FileBytes), Len(buf) <= BLKSIZE
  PROVE  LET r == WriteThrough(st, fdv, 0, buf) IN
         /\ Ready(r.st, F, K)
         /\ DescsOK(r.st, r.fdv)
         /\ \A d \in Devices : Queue(r.st, d) = Queue(st, d)
  <1> DEFINE r == WriteThrough(st, fdv, 0, buf)
             i == fdv[0].entry
             e == Ent(st, i)
             data == Overlay(e.data, fdv[0].ptr, buf)
             b == MallocAt(st.tab, Len(data))
             w == fs_writeFile([st EXCEPT !.tab = Malloced(@, Len(data))], e.name, data)
             after == [w.st EXCEPT !.tab = Unmark(@, b)]
  <1>1. Good(st, F, K) /\ i \in Live(st) /\ e.ftype = "FILE" /\ fdv[0].ptr <= e.size
    BY DEF Ready, DescsOK
  <1>2. e \in Entries(F) /\ EntryOK(F, e, Extent(st, i))
    BY <1>1, GoodFields
  <1>3. /\ e.data \in Seq(FileBytes) /\ Len(e.data) = e.size
        /\ BLKSIZE + e.size <= BlockC * BLKSIZE
    BY <1>1, <1>2 DEF EntryOK, FileOK
  <1>4. /\ fdv \in [Descs -> [entry : Indexes, flags : SUBSET Flags, ptr : Nat]]
        /\ \A k \in Descs \ {0} : fdv[k] = NoDesc
        /\ fdv[0].ptr \in Nat
    BY DescType DEF DescsOK
  <1>5. /\ data \in Seq(FileBytes) /\ Len(data) \in Nat
        /\ Len(data) <= Len(e.data) + Len(buf)
        /\ fdv[0].ptr + Len(buf) <= Len(data)
    <2>1. Len(e.data) \in Nat
      BY <1>3
    <2>2. fdv[0].ptr \in 0 .. Len(e.data) /\ Zero \in FileBytes
      BY <1>1, <1>3, <1>4, <2>1 DEF FileBytes
    <2> QED BY <1>3, <2>2, OverlayIs
  <1>6. Len(data) <= BlockC * BLKSIZE
    BY <1>3, <1>5, BlockTableAssumption
  <1>7. r = IF b = NULL THEN Return(st, fdv, -1, <<>>)
            ELSE IF w.sts # SUCCESS THEN Return(after, fdv, -1, <<>>)
            ELSE Return(after, [fdv EXCEPT ![0].ptr = @ + Len(buf)], Len(buf), <<>>)
    BY DEF WriteThrough
  <1>8. e.name \notin Devices
    BY <1>1, DeviceIs
  <1>9. Len(data) = 0 => b = NULL
    BY DEF MallocAt
  <1> HIDE DEF data, r, e, w, after, b
  <1>10. CASE b = NULL
    <2>1. r.st = st /\ r.fdv = fdv
      BY <1>7, <1>10 DEF Return
    <2> QED BY <2>1 DEF r
  <1>11. CASE b # NULL
    <2>1. /\ Good(after, F, K)
          /\ Spares(st, after, e.name)
          /\ w.sts # SUCCESS => Ent(after, i) = e
          /\ w.sts = SUCCESS => Ent(after, i).size = Len(data)
      BY <1>1, <1>5, <1>6, <1>9, <1>11, BufferedWrite DEF e, w, after, b
    <2>2. Ready(after, F, K) /\ \A d \in Devices : Queue(after, d) = Queue(st, d)
      BY <1>8, <2>1, DevicesSpared
    <2>3. i \in Live(after)
      BY <1>1, <2>1 DEF Spares
    <2>4. CASE w.sts # SUCCESS
      <3>1. r.st = after /\ r.fdv = fdv
        BY <1>7, <1>11, <2>4 DEF Return
      <3>2. DescsOK(after, fdv)
        BY <1>1, <1>4, <2>1, <2>3, <2>4 DEF DescsOK
      <3> QED BY <2>2, <3>1, <3>2 DEF r
    <2>5. CASE w.sts = SUCCESS
      <3> DEFINE v == [fdv EXCEPT ![0].ptr = @ + Len(buf)]
      <3>1. r.st = after /\ r.fdv = v
        BY <1>7, <1>11, <2>5 DEF Return
      <3>2. /\ v \in [Descs -> [entry : Indexes, flags : SUBSET Flags, ptr : Nat]]
            /\ v[0].entry = fdv[0].entry /\ v[0].ptr = fdv[0].ptr + Len(buf)
            /\ \A k \in Descs \ {0} : v[k] = fdv[k]
        <4>1. Len(buf) \in Nat
          OBVIOUS
        <4> QED BY <1>4, <4>1, PtrMoved
      <3> HIDE DEF v
      <3>3. DescsOK(after, v)
        BY <1>4, <1>5, <2>1, <2>3, <2>5, <3>2 DEF DescsOK
      <3> QED BY <2>2, <3>1, <3>3 DEF r
    <2> QED BY <2>4, <2>5
  <1> QED BY <1>10, <1>11

\* A process writes files, and never a device.
LEMMA WriteEffect ==
  ASSUME NEW F, NEW K, NEW st, Ready(st, F, K), NEW fdv, DescsOK(st, fdv),
         NEW buf \in Seq(FileBytes), Len(buf) <= BLKSIZE
  PROVE  LET r == write(st, fdv, TYPEFD, buf, FALSE) IN
         /\ Ready(r.st, F, K)
         /\ DescsOK(r.st, r.fdv)
         /\ \A d \in Devices : Queue(r.st, d) = Queue(st, d)
         /\ Named(st, fdv) \in Devices => r.ret = -1
  <1> DEFINE r == write(st, fdv, TYPEFD, buf, FALSE)
             i == fdv[0].entry
             e == Ent(st, i)
  <1>1. TYPEFD - TYPEFD = 0 /\ 0 \in Descs /\ ~ MayWrite(devperm)
    BY DescType DEF TYPEFD, MayWrite, devperm, O_RDONLY, O_WRONLY, O_RDWR
  <1>2. CASE ~ Usable(st, fdv[0]) \/ ~ MayWrite(fdv[0].flags) \/ e.ftype # "FILE"
    <2>1. r = Return(st, fdv, -1, <<>>)
      BY <1>1, <1>2 DEF write
    <2> HIDE DEF r
    <2>2. r.st = st /\ r.fdv = fdv /\ r.ret = -1
      BY <2>1, ReturnFields
    <2> QED BY <2>2 DEF r
  <1>3. CASE Usable(st, fdv[0]) /\ MayWrite(fdv[0].flags) /\ e.ftype = "FILE"
    <2>1. r = WriteThrough(st, fdv, 0, buf)
      BY <1>1, <1>3 DEF write
    <2>2. i # 0 /\ i \in Live(st)
      BY <1>3 DEF Usable, DescsOK
    <2>3. Named(st, fdv) \notin Devices
      BY <1>3, <2>2, DeviceIs DEF Named
    <2> HIDE DEF r
    <2>4. /\ Ready(r.st, F, K)
          /\ DescsOK(r.st, r.fdv)
          /\ \A d \in Devices : Queue(r.st, d) = Queue(st, d)
      BY <1>3, <2>1, <2>2, WriteThroughEffect
    <2> QED BY <2>3, <2>4 DEF r
  <1> QED BY <1>2, <1>3

\* As much of bytes as device p has room for.
Fitting(st, p, bytes) == Least(Len(bytes), BLKSIZE - U32 - Len(Queue(st, p)))

LEMMA FittingIs ==
  ASSUME NEW F, NEW K, NEW st, Ready(st, F, K), NEW p \in Devices, NEW bytes \in Seq(F[p])
  PROVE  LET c == Fitting(st, p, bytes)
             q == Queue(st, p) \o SubSeq(bytes, 1, c)
         IN /\ c \in 0 .. Len(bytes)
            /\ c <= BLKSIZE - U32 - Len(Queue(st, p))
            /\ SubSeq(bytes, 1, c) \in Seq(F[p]) /\ Len(SubSeq(bytes, 1, c)) = c
            /\ q \in Seq(F[p]) /\ Len(q) = Len(Queue(st, p)) + c
            /\ U32 + Len(q) <= BLKSIZE
  <1> DEFINE c == Fitting(st, p, bytes)
             old == Queue(st, p)
             room == BLKSIZE - U32 - Len(old)
             q == old \o SubSeq(bytes, 1, c)
  <1>1. old \in Seq(F[p]) /\ U32 + Len(old) <= BLKSIZE
    BY DeviceAt
  <1> HIDE DEF old
  <1>2. Len(old) \in Nat /\ Len(bytes) \in Nat /\ BLKSIZE \in Nat /\ U32 \in Nat
    BY <1>1, IOCallAssumption, BlockTableAssumption
  <1>3. room \in Nat
    BY <1>1, <1>2
  <1>4. c = Least(Len(bytes), room)
    BY DEF Fitting, old
  <1>5. c \in Nat /\ c <= Len(bytes) /\ c <= room
    <2> HIDE DEF c, room
    <2> QED BY <1>2, <1>3, <1>4, LeastOf
  <1> HIDE DEF c
  <1>6. c \in 0 .. Len(bytes)
    BY <1>2, <1>5
  <1>7. SubSeq(bytes, 1, c) \in Seq(F[p]) /\ Len(SubSeq(bytes, 1, c)) = c
    BY <1>6, Split
  <1>8. q \in Seq(F[p]) /\ Len(q) = Len(old) + Len(SubSeq(bytes, 1, c))
    BY <1>1, <1>7, ConcatProperties
  <1>9. U32 + Len(q) <= BLKSIZE /\ Len(q) = Len(old) + c
    BY <1>2, <1>5, <1>7, <1>8
  <1> QED BY <1>5, <1>6, <1>7, <1>8, <1>9 DEF c, old

\* What key_send and mouse_send do: new and fdv are the store and the
\* descriptors that they leave.
Puts(F, K, st, p, bytes, new, fdv) ==
  /\ Ready(new, F, K)
  /\ DescsOK(new, fdv)
  /\ Queue(new, p) = Queue(st, p) \o SubSeq(bytes, 1, Fitting(st, p, bytes))
  /\ \A d \in Devices \ {p} : Queue(new, d) = Queue(st, d)

Sent(F, K, st, p, bytes, w, c) ==
  Puts(F, K, st, p, bytes, c.st, c.fdv) /\ w.ret = Fitting(st, p, bytes)

LEMMA SendEffect ==
  ASSUME NEW F, NEW K, NEW st, Ready(st, F, K), NEW fdv, NEW p \in Devices,
         NEW bytes \in Seq(F[p])
  PROVE  LET o == open(st, fdv, p, {O_WRONLY}, TRUE)
             w == write(o.st, o.fdv, o.ret, bytes, TRUE)
             c == close(w.st, w.fdv, o.ret)
         IN Sent(F, K, st, p, bytes, w, c)
  <1> DEFINE o == open(st, fdv, p, {O_WRONLY}, TRUE)
             i == fs_index(st, p)
             v == Given(i, {O_WRONLY})
             w == write(o.st, o.fdv, o.ret, bytes, TRUE)
             b == st.EntryV[i]
             n == Fitting(st, p, bytes)
             q == Queue(st, p) \o SubSeq(bytes, 1, n)
             new == [st EXCEPT !.mem[b].data = q]
             c == close(w.st, w.fdv, o.ret)
  <1>1. o = Return(st, v, TYPEFD, <<>>)
    BY OpenDevice
  <1>2. o.st = st /\ o.fdv = v /\ o.ret = TYPEFD
    <2> HIDE DEF o, v
    <2> QED BY <1>1, ReturnFields
  <1>3. /\ i \in Live(st) /\ i \in Indexes /\ i # 0
        /\ Ent(st, i).type = "FILE" /\ Ent(st, i).ftype = "CHARDEV" /\ Ent(st, i).size = BLKSIZE
        /\ Ent(st, i).data = Queue(st, p)
    BY DeviceAt
  <1>4. {O_WRONLY} \in SUBSET Flags
    BY DEF Flags
  <1>5. /\ v \in [Descs -> [entry : Indexes, flags : SUBSET Flags, ptr : Nat]]
        /\ \A k \in Descs \ {0} : v[k] = NoDesc
        /\ v[0] = [entry |-> i, flags |-> {O_WRONLY}, ptr |-> 0]
    <2> HIDE DEF i
    <2> QED BY <1>3, <1>4, GivenFields
  <1>6. v[0].entry = i
    <2> HIDE DEF v
    <2> QED BY <1>5
  <1>7. DescsOK(st, v)
    <2> HIDE DEF i
    <2> QED BY <1>3, <1>4, GivenOK DEF Ready
  <1>8. TYPEFD - TYPEFD = 0 /\ 0 \in Descs /\ TYPEFD \in Descs \ {0}
    BY DescType, IOCallAssumption DEF TYPEFD, Descs
  <1>9. Usable(st, v[0])
    <2> HIDE DEF v, i
    <2> QED BY <1>3, <1>6 DEF Usable, Live
  <1>10. w = Enqueue(st, v, 0, bytes)
    <2> HIDE DEF v, i, o
    <2> QED BY <1>2, <1>3, <1>6, <1>8, <1>9 DEF write
  <1>11. Least(Len(bytes), Room(st.mem[b])) = n
    BY <1>3 DEF Room, Fitting, Ent
  <1>12. w = Return(new, v, n, <<>>)
    <2>1. st.EntryV[v[0].entry] = b
      BY <1>6
    <2>2. st.mem[b].data = Queue(st, p)
      BY <1>3 DEF Ent
    <2>3. new = [st EXCEPT !.mem[b].data = @ \o SubSeq(bytes, 1, n)]
      BY <2>2
    <2> HIDE DEF v, n, b, w, new
    <2> QED BY <1>10, <1>11, <2>1, <2>3 DEF Enqueue
  <1>13. w.st = new /\ w.fdv = v /\ w.ret = n
    <2> HIDE DEF w, v, new, n
    <2> QED BY <1>12, ReturnFields
  <1>14. c = Return(new, v, -1, <<>>)
    <2>1. v[TYPEFD].entry = 0
      <3> HIDE DEF v
      <3> QED BY <1>5, <1>8 DEF NoDesc
    <2> HIDE DEF w, v, new, o
    <2> QED BY <1>2, <1>13, <2>1 DEF close
  <1>15. c.st = new /\ c.fdv = v
    <2> HIDE DEF c, v, new
    <2> QED BY <1>14, ReturnFields
  <1>16. q \in Seq(F[p]) /\ U32 + Len(q) <= BLKSIZE
    BY FittingIs
  <1> HIDE DEF q, n
  <1>17. /\ Ready(new, F, K)
         /\ Queue(new, p) = q
         /\ \A d \in Devices \ {p} : Queue(new, d) = Queue(st, d)
         /\ \A f : DescsOK(st, f) => DescsOK(new, f)
    BY <1>16, QueueEffect
  <1> HIDE DEF new, v
  <1>18. DescsOK(new, v)
    BY <1>7, <1>17
  <1>19. Puts(F, K, st, p, bytes, new, v)
    BY <1>17, <1>18 DEF Puts, q, n
  <1> HIDE DEF c, w
  <1> QED BY <1>13, <1>15, <1>19 DEF c, w, n, Sent

-----------------------------------------------------------------------------
(* The kernel's loop *)

\* Up to n bytes leave queue q.
Took(q, rest, bytes, n) ==
  LET m == Least(n, Len(q)) IN bytes = SubSeq(q, 1, m) /\ rest = SubSeq(q, m + 1, Len(q))

LEMMA TookSplits ==
  ASSUME NEW S, NEW q \in Seq(S), NEW rest, NEW bytes, NEW n \in Nat, Took(q, rest, bytes, n)
  PROVE  bytes \in Seq(S) /\ rest \in Seq(S) /\ q = bytes \o rest
         /\ Len(rest) = Len(q) - Least(n, Len(q))
  <1> DEFINE m == Least(n, Len(q))
  <1>1. Len(q) \in Nat
    OBVIOUS
  <1>2. m \in Nat /\ m <= Len(q)
    BY <1>1, LeastOf
  <1>3. bytes = SubSeq(q, 1, m) /\ rest = SubSeq(q, m + 1, Len(q))
    BY DEF Took
  <1> HIDE DEF m
  <1>4. m \in 0 .. Len(q)
    BY <1>1, <1>2
  <1>5. /\ SubSeq(q, 1, m) \in Seq(S)
        /\ SubSeq(q, m + 1, Len(q)) \in Seq(S)
        /\ Len(SubSeq(q, m + 1, Len(q))) = Len(q) - m
        /\ SubSeq(q, 1, m) \o SubSeq(q, m + 1, Len(q)) = q
    BY <1>4, Split
  <1> QED BY <1>3, <1>5 DEF m

\* What r, the result of opening device p and reading up to n bytes, must be.
ReadsOut(F, K, st, p, n, r) ==
  /\ Ready(r.st, F, K) /\ DescsOK(r.st, r.fdv)
  /\ Took(Queue(st, p), Queue(r.st, p), r.bytes, n)
  /\ \A d \in Devices \ {p} : Queue(r.st, d) = Queue(st, d)

LEMMA OpenAndRead ==
  ASSUME NEW F, NEW K, NEW st, Ready(st, F, K), NEW fdv, NEW p \in Devices, NEW n \in Nat
  PROVE  LET o == open(st, fdv, p, {O_RDONLY}, FALSE)
             r == read(o.st, o.fdv, o.ret, n, FALSE)
         IN ReadsOut(F, K, st, p, n, r)
  <1> DEFINE o == open(st, fdv, p, {O_RDONLY}, FALSE)
             r == read(o.st, o.fdv, o.ret, n, FALSE)
             i == fs_index(st, p)
             v == Given(i, {O_RDONLY})
  <1>1. o = Return(st, v, TYPEFD, <<>>)
    BY OpenDevice
  <1>2. o.st = st /\ o.fdv = v /\ o.ret = TYPEFD
    <2> HIDE DEF o, v
    <2> QED BY <1>1, ReturnFields
  <1>3. i \in Live(st) /\ i \in Indexes
    BY DeviceAt
  <1>4. {O_RDONLY} \in SUBSET Flags /\ MayRead({O_RDONLY})
    BY DEF Flags, MayRead
  <1>5. v[0] = [entry |-> i, flags |-> {O_RDONLY}, ptr |-> 0]
    <2> HIDE DEF i
    <2> QED BY <1>3, <1>4, GivenFields
  <1>6. v[0].entry = i /\ v[0].flags = {O_RDONLY}
    <2> HIDE DEF v
    <2> QED BY <1>5
  <1>7. DescsOK(st, v)
    <2> HIDE DEF i
    <2> QED BY <1>3, <1>4, GivenOK DEF Ready
  <1>8. r = read(st, v, TYPEFD, n, FALSE)
    <2> HIDE DEF o, v
    <2> QED BY <1>2
  <1>9. TakesFrom(F, K, st, v, p, n, read(st, v, TYPEFD, n, FALSE))
    <2>1. v[0].entry = fs_index(st, p) /\ MayRead(v[0].flags)
      BY <1>4, <1>6
    <2> HIDE DEF v
    <2> QED BY <2>1, ReadQueue
  <1> HIDE DEF r, v
  <1>10. TakesFrom(F, K, st, v, p, n, r)
    BY <1>8, <1>9
  <1> QED BY <1>7, <1>10 DEF TakesFrom, Took, ReadsOut, r

\* What r1 and r2, the results of the loop's reads, must be.
Looped(F, K, st, r1, r2) ==
  /\ Ready(r2.st, F, K) /\ DescsOK(r2.st, r2.fdv)
  /\ Took(Queue(st, Keyboard), Queue(r2.st, Keyboard), r1.bytes, 1)
  /\ Took(Queue(st, Mouse), Queue(r2.st, Mouse), r2.bytes, Len(Packet))

LEMMA LoopEffect ==
  ASSUME NEW F, NEW K, NEW st, Ready(st, F, K), NEW fdv
  PROVE  LET o1 == open(st, fdv, Keyboard, {O_RDONLY}, FALSE)
             r1 == read(o1.st, o1.fdv, o1.ret, 1, FALSE)
             o2 == open(r1.st, r1.fdv, Mouse, {O_RDONLY}, FALSE)
             r2 == read(o2.st, o2.fdv, o2.ret, Len(Packet), FALSE)
         IN Looped(F, K, st, r1, r2)
  <1> DEFINE o1 == open(st, fdv, Keyboard, {O_RDONLY}, FALSE)
             r1 == read(o1.st, o1.fdv, o1.ret, 1, FALSE)
             o2 == open(r1.st, r1.fdv, Mouse, {O_RDONLY}, FALSE)
             r2 == read(o2.st, o2.fdv, o2.ret, Len(Packet), FALSE)
  <1>1. /\ Keyboard \in Devices \ {Mouse} /\ Mouse \in Devices \ {Keyboard}
        /\ Len(Packet) \in Nat /\ 1 \in Nat
    BY IOCallAssumption DEF Devices
  <1>2. /\ Ready(r1.st, F, K)
        /\ Took(Queue(st, Keyboard), Queue(r1.st, Keyboard), r1.bytes, 1)
        /\ \A d \in Devices \ {Keyboard} : Queue(r1.st, d) = Queue(st, d)
    <2>1. ReadsOut(F, K, st, Keyboard, 1, r1)
      BY <1>1, OpenAndRead
    <2> HIDE DEF r1
    <2> QED BY <2>1 DEF ReadsOut
  <1> HIDE DEF r1
  <1>3. /\ Ready(r2.st, F, K) /\ DescsOK(r2.st, r2.fdv)
        /\ Took(Queue(r1.st, Mouse), Queue(r2.st, Mouse), r2.bytes, Len(Packet))
        /\ \A d \in Devices \ {Mouse} : Queue(r2.st, d) = Queue(r1.st, d)
    <2>1. ReadsOut(F, K, r1.st, Mouse, Len(Packet), r2)
      BY <1>1, <1>2, OpenAndRead
    <2> HIDE DEF r2
    <2> QED BY <2>1 DEF ReadsOut
  <1> HIDE DEF r2
  <1>4. Queue(r2.st, Keyboard) = Queue(r1.st, Keyboard) /\ Queue(r1.st, Mouse) = Queue(st, Mouse)
    BY <1>1, <1>2, <1>3
  <1>5. /\ Took(Queue(st, Keyboard), Queue(r2.st, Keyboard), r1.bytes, 1)
        /\ Took(Queue(st, Mouse), Queue(r2.st, Mouse), r2.bytes, Len(Packet))
    BY <1>2, <1>3, <1>4
  <1> QED BY <1>3, <1>5 DEF r2, r1, Looped

-----------------------------------------------------------------------------
(* Boot *)

\* What the initialisation has made so far: entries named in N, and
\* devices that are empty.
Fresh(st, F, K, N) ==
  /\ Good(st, F, K)
  /\ \A i \in Live(st) : /\ Ent(st, i).name \in N
                         /\ Ent(st, i).ftype = "CHARDEV" => Ent(st, i).data = <<>>

LEMMA HeaderBlocks == BlocksFor(BLKSIZE + 0) = 1 /\ BLKSIZE + 0 <= BlockC * BLKSIZE
  <1> DEFINE a == BLKSIZE + BLKSIZE - 1
             q == a \div BLKSIZE
  <1>1. BLKSIZE \in Nat \ {0} /\ BlockC \in Nat \ {0} /\ WORD \in Nat
        /\ (BlockC + 1) * BLKSIZE <= WORD
    BY BlockTableAssumption
  <1>2. BlockC * BLKSIZE >= BLKSIZE /\ BlockC * BLKSIZE \in Nat
        /\ (BlockC + 1) * BLKSIZE = BlockC * BLKSIZE + BLKSIZE
    BY <1>1
  <1>3. a \in Nat /\ a < WORD
    BY <1>1, <1>2
  <1>4. a % WORD = a
    BY <1>1, <1>3
  <1>5. BlocksFor(BLKSIZE + 0) = q
    <2>1. (BLKSIZE + 0) + BLKSIZE - 1 = a
      BY <1>1
    <2> QED BY <1>4, <2>1 DEF BlocksFor
  <1>6. q \in Nat /\ a >= BLKSIZE * q /\ a < BLKSIZE * q + BLKSIZE
    <2> HIDE DEF a
    <2> QED BY <1>1, <1>3
  <1> HIDE DEF q
  <1>7. q # 0
    BY <1>1, <1>6
  <1>8. q < 2
    <2> SUFFICES ASSUME q >= 2 PROVE FALSE
      BY <1>6
    <2>1. BLKSIZE * q >= BLKSIZE * 2
      BY <1>1, <1>6
    <2> QED BY <1>1, <1>6, <2>1
  <1> QED BY <1>1, <1>2, <1>5, <1>6, <1>7, <1>8

LEMMA FreshDir ==
  ASSUME NEW F, NEW p \in FileNames
  PROVE  /\ DirEntry(p) \in Entries(F) /\ DirEntry(p).name = p
         /\ DirEntry(p).ftype # "CHARDEV"
         /\ EntryOK(F, DirEntry(p), BlocksFor(BLKSIZE + 0))
  <1>1. /\ DirEntry(p) \in Entries(F) /\ DirEntry(p).name = p /\ DirEntry(p).ftype = "FILE"
        /\ DirEntry(p).size = 0 /\ DirEntry(p).data = <<>>
    BY DEF DirEntry, Entries
  <1>2. FileOK(DirEntry(p))
    BY <1>1 DEF FileOK
  <1>3. EntryOK(F, DirEntry(p), BlocksFor(BLKSIZE + 0))
    BY <1>1, <1>2, HeaderBlocks DEF EntryOK
  <1> QED BY <1>1, <1>3

LEMMA BootTable ==
  ASSUME NEW n \in Blocks
  PROVE  LET tab == Mark(IF n = 0 THEN EmptyTable ELSE Mark(EmptyTable, 0, n), n, 1)
         IN /\ tab \in Table /\ TableSound(tab)
            /\ Heads(tab) = {0, n} /\ tab[n].count = 1
  <1> DEFINE old == IF n = 0 THEN EmptyTable ELSE Mark(EmptyTable, 0, n)
             tab == Mark(old, n, 1)
  <1>1. n \in Nat /\ n < BlockC /\ BlockC \in Nat
    BY BlockTableAssumption DEF Blocks
  <1>2. EmptyTable \in Table /\ \A i \in Blocks : ~ EmptyTable[i].allocated
    BY FirstBlocksHeld DEF EmptyTable, ClearBlock
  <1>3. /\ old \in Table /\ TableSound(old) /\ Heads(old) = IF n = 0 THEN {} ELSE {0}
    BY <1>1, FirstBlocksHeld
  <1>4. ~ old[n].allocated
    <2>1. CASE n = 0
      BY <1>2, <2>1
    <2>2. CASE n # 0
      <3>1. n \notin Run(0, n) /\ n \in Nat \ {0}
        BY <1>1, <2>2 DEF Run
      <3>2. Mark(EmptyTable, 0, n)[n].allocated <=> (n \in Run(0, n) \/ EmptyTable[n].allocated)
        BY <1>2, <3>1, MarkFields
      <3> QED BY <1>2, <2>2, <3>1, <3>2
    <2> QED BY <2>1, <2>2
  <1> HIDE DEF old
  <1>5. Fits(old, n, 1)
    BY <1>1, <1>4 DEF Fits, Inside, FreeRun, Run
  <1>6. tab \in Table
    BY <1>1, <1>3, MarkType
  <1>7. TableSound(tab) /\ Heads(tab) = Heads(old) \cup {n}
    BY <1>1, <1>3, <1>5, MarkSound
  <1>8. tab[n].count = 1
    BY <1>1, <1>3, MarkFields
  <1> QED BY <1>3, <1>6, <1>7, <1>8 DEF old

LEMMA BootGood ==
  ASSUME NEW F, NEW n \in Held
  PROVE  \E K \in {{}, {0}} : Fresh(BootStore(n), F, K, {Root})
  <1> DEFINE st == BootStore(n)
             K == IF n = 0 THEN {} ELSE {0}
  <1>1. n \in Blocks /\ n # NULL /\ FS_ROOTDIR = 0 /\ 0 \in Indexes /\ n \in Nat
    BY IOCallAssumption, DescType, NullApart DEF Blocks, FS_ROOTDIR
  <1>2. /\ DirEntry(Root) \in Entries(F) /\ DirEntry(Root).name = Root
        /\ DirEntry(Root).ftype # "CHARDEV"
        /\ EntryOK(F, DirEntry(Root), BlocksFor(BLKSIZE + 0))
    BY FreshDir DEF FileNames
  <1>3. /\ st.tab \in Table /\ TableSound(st.tab)
        /\ Heads(st.tab) = {0, n} /\ st.tab[n].count = 1
    BY <1>1, BootTable DEF BootStore
  <1>4. /\ st.EntryV = [i \in Indexes |-> IF i = 0 THEN n ELSE NULL]
        /\ st.mem = [b \in Blocks |-> IF b = n THEN DirEntry(Root) ELSE Junk]
        /\ st.MountV = [i \in Slots |-> Junk]
    BY <1>1 DEF BootStore
  <1>5. st \in Stores(Entries(F), {})
    <2>1. st.EntryV \in [Indexes -> Blocks \cup {NULL}]
      BY <1>1, <1>4
    <2>2. st.mem \in [Blocks -> Entries(F) \cup {Junk}]
      BY <1>2, <1>4
    <2>3. st.MountV \in [Slots -> {} \cup {Junk}]
      BY <1>4
    <2>4. st = [EntryV |-> st.EntryV, mem |-> st.mem, tab |-> st.tab, MountV |-> st.MountV]
      BY DEF BootStore
    <2> HIDE DEF st
    <2> QED BY <1>3, <2>1, <2>2, <2>3, <2>4 DEF Stores
  <1> HIDE DEF st
  <1>6. Live(st) = {0} /\ st.EntryV[0] = n
    BY <1>1, <1>4 DEF Live
  <1>7. Ent(st, 0) = DirEntry(Root) /\ Extent(st, 0) = 1
    BY <1>1, <1>3, <1>4, <1>6 DEF Ent, Extent
  <1>8. /\ K \in {{}, {0}} /\ K \subseteq Blocks /\ n \notin K
        /\ {0, n} = {n} \cup K
    BY <1>1, BlockTableAssumption DEF Blocks
  <1>9. {st.EntryV[i] : i \in Live(st)} = {n}
    BY <1>6
  <1> HIDE DEF K
  <1>10. Owned(st, Entries(F), {}, K)
    BY <1>2, <1>3, <1>5, <1>6, <1>7, <1>8, <1>9 DEF Owned
  <1>11. Good(st, F, K)
    BY <1>2, <1>6, <1>7, <1>10, HeaderBlocks DEF Good, Unique, RootFirst
  <1>12. Fresh(st, F, K, {Root})
    BY <1>2, <1>6, <1>7, <1>11 DEF Fresh
  <1> QED BY <1>8, <1>12 DEF st

LEMMA CreateDirFresh ==
  ASSUME NEW F, NEW K, NEW N, NEW st, Fresh(st, F, K, N), NEW p \in FileNames
  PROVE  LET r == fs_createDir(st, p) IN
         /\ Fresh(r.st, F, K, N \cup {p})
         /\ r.sts = SUCCESS => ~ Exists(st, p) /\ Exists(r.st, p)
  <1> DEFINE r == fs_createDir(st, p)
             ent == DirEntry(p)
             q == NewEntry(st, 0, ent)
  <1>1. Fresh(st, F, K, N \cup {p}) /\ Good(st, F, K)
    BY DEF Fresh
  <1>2. \/ r.sts # SUCCESS /\ r.st = st
        \/ r = q /\ ~ Exists(st, p)
    <2>1. CASE ~ p.dir
      BY <2>1, ReplyFields, Failures DEF fs_createDir
    <2>2. CASE p.dir /\ FileInTheWay(st, p)
      BY <2>2, ReplyFields, Failures DEF fs_createDir
    <2>3. CASE p.dir /\ ~ FileInTheWay(st, p) /\ Exists(st, p)
      BY <2>3, ReplyFields, Failures DEF fs_createDir
    <2>4. CASE p.dir /\ ~ FileInTheWay(st, p) /\ ~ Exists(st, p) /\ ~ ParentsFound(st, p)
      BY <2>4, ReplyFields, Failures DEF fs_createDir
    <2>5. CASE p.dir /\ ~ FileInTheWay(st, p) /\ ~ Exists(st, p) /\ ParentsFound(st, p)
      BY <2>5 DEF fs_createDir
    <2> QED BY <2>1, <2>2, <2>3, <2>4, <2>5
  <1>3. CASE r.sts # SUCCESS /\ r.st = st
    <2> HIDE DEF r
    <2> QED BY <1>1, <1>3 DEF r
  <1>4. CASE r = q /\ ~ Exists(st, p)
    <2>1. /\ ent \in Entries(F) /\ ent.name = p /\ ent.ftype # "CHARDEV"
          /\ EntryOK(F, ent, BlocksFor(BLKSIZE + 0))
      BY FreshDir
    <2>2. 0 \in Nat /\ BLKSIZE + 0 <= BlockC * BLKSIZE
      BY HeaderBlocks
    <2> HIDE DEF ent
    <2>3. \/ q.sts # SUCCESS /\ q.st = st
          \/ /\ q.sts = SUCCESS /\ Good(q.st, F, K)
             /\ Spares(st, q.st, ent.name)
             /\ Exists(q.st, ent.name) /\ fs_stat(q.st, ent.name) = ent
             /\ \A j \in Live(q.st) : j \in Live(st) \/ Ent(q.st, j) = ent
      BY <1>1, <1>4, <2>1, <2>2, NewEntryGood
    <2> HIDE DEF r, q
    <2>4. CASE q.sts # SUCCESS /\ q.st = st
      BY <1>1, <1>4, <2>4 DEF r
    <2>5. CASE /\ q.sts = SUCCESS /\ Good(q.st, F, K)
               /\ Spares(st, q.st, ent.name)
               /\ Exists(q.st, ent.name) /\ fs_stat(q.st, ent.name) = ent
               /\ \A j \in Live(q.st) : j \in Live(st) \/ Ent(q.st, j) = ent
      <3>1. \A j \in Live(st) : Ent(st, j).name # p
        BY <1>4, IndexFound
      <3>2. \A j \in Live(q.st) : Ent(q.st, j) = ent \/ (j \in Live(st) /\ Ent(q.st, j) = Ent(st, j))
        BY <2>1, <2>5, <3>1 DEF Spares
      <3>3. \A j \in Live(q.st) : /\ Ent(q.st, j).name \in N \cup {p}
                                  /\ Ent(q.st, j).ftype = "CHARDEV" => Ent(q.st, j).data = <<>>
        BY <2>1, <3>2 DEF Fresh
      <3>4. Fresh(q.st, F, K, N \cup {p})
        BY <2>5, <3>3 DEF Fresh
      <3> QED BY <1>4, <2>1, <2>5, <3>4 DEF r
    <2> QED BY <2>3, <2>4, <2>5
  <1> QED BY <1>2, <1>3, <1>4

LEMMA ZeroesAre ==
  LET z == [i \in 1 .. BLKSIZE |-> Zero] IN z \in Seq(FileBytes) /\ Len(z) = BLKSIZE
  <1> DEFINE z == [i \in 1 .. BLKSIZE |-> Zero]
  <1>1. BLKSIZE \in Nat
    BY BlockTableAssumption
  <1>2. z \in [1 .. BLKSIZE -> FileBytes]
    BY DEF FileBytes
  <1> HIDE DEF z
  <1>3. z \in Seq(FileBytes) /\ Len(z) = BLKSIZE
    BY <1>1, <1>2
  <1> QED BY <1>3 DEF z

\* A file as it becomes a device.
AsDevice(e) == [e EXCEPT !.ftype = "CHARDEV", !.data = <<>>]

\* What r, the result of making device p after r0, must be.
MakesDevice(F, K, N, p, r0, r) ==
  /\ Fresh(r.st, F, K, N \cup {p})
  /\ r.sts = SUCCESS => /\ r0.sts = SUCCESS /\ Spares(r0.st, r.st, p)
                        /\ Exists(r.st, p) /\ fs_stat(r.st, p).ftype = "CHARDEV"

LEMMA DeviceFileFresh ==
  ASSUME NEW F, NEW K, NEW N, NEW r0, Fresh(r0.st, F, K, N), NEW p \in Devices, p \notin N,
         r0.sts = SUCCESS => BLKSIZE + BLKSIZE <= BlockC * BLKSIZE
  PROVE  MakesDevice(F, K, N, p, r0, DeviceFile(r0, p))
  <1> DEFINE st == r0.st
             r == DeviceFile(r0, p)
             z == [i \in 1 .. BLKSIZE |-> Zero]
             w == fs_writeFile(st, p, z)
             i == fs_index(w.st, p)
             b == w.st.EntryV[i]
             new == [w.st EXCEPT !.mem[b].ftype = "CHARDEV", !.mem[b].data = <<>>]
             ent == AsDevice(FileEntry(p, z))
  <1>0. Fresh(st, F, K, N)
    OBVIOUS
  <1> HIDE DEF st
  <1>1. Fresh(st, F, K, N \cup {p}) /\ Good(st, F, K)
    BY <1>0 DEF Fresh
  <1>2. ~ Exists(st, p) /\ \A j \in Live(st) : Ent(st, j).name # p
    BY <1>0, IndexFound DEF Fresh
  <1>3. p \in FileNames
    BY DEF FileNames, Devices
  <1>4. CASE r0.sts # SUCCESS
    <2>1. r.st = st /\ r.sts # SUCCESS
      BY <1>4 DEF DeviceFile, st
    <2> HIDE DEF r
    <2> QED BY <1>1, <2>1 DEF r, st, MakesDevice
  <1>5. CASE r0.sts = SUCCESS
    <2>1. z \in Seq(FileBytes) /\ Len(z) = BLKSIZE /\ BLKSIZE + Len(z) <= BlockC * BLKSIZE
      BY <1>5, ZeroesAre
    <2> HIDE DEF z
    <2>2. \/ w.sts # SUCCESS /\ w.st = st
          \/ /\ w.sts = SUCCESS /\ Good(w.st, F, K) /\ Spares(st, w.st, p)
             /\ Exists(w.st, p)
             /\ fs_stat(w.st, p) = IF Exists(st, p) THEN Refilled(fs_stat(st, p), z)
                                   ELSE FileEntry(p, z)
             /\ \A j \in Live(w.st) : j \in Live(st) \/ Ent(w.st, j).name = p
      BY <1>1, <1>2, <1>3, <2>1, WriteFileGood
    <2>3. r = IF w.sts # SUCCESS THEN w ELSE Reply(new, SUCCESS)
      BY <1>5 DEF DeviceFile, z, st
    <2>4. CASE w.sts # SUCCESS /\ w.st = st
      <3>1. r.st = st /\ r.sts # SUCCESS
        <4> HIDE DEF r, w, new
        <4> QED BY <2>3, <2>4
      <3> HIDE DEF r
      <3> QED BY <1>1, <3>1 DEF r, st, MakesDevice
    <2>5. CASE /\ w.sts = SUCCESS /\ Good(w.st, F, K) /\ Spares(st, w.st, p)
               /\ Exists(w.st, p)
               /\ fs_stat(w.st, p) = IF Exists(st, p) THEN Refilled(fs_stat(st, p), z)
                                     ELSE FileEntry(p, z)
               /\ \A j \in Live(w.st) : j \in Live(st) \/ Ent(w.st, j).name = p
      <3> HIDE DEF w
      <3>1. i \in Live(w.st) /\ Ent(w.st, i) = FileEntry(p, z) /\ Ent(w.st, i).name = p
        BY <1>2, <2>5, StatExists
      <3>2. /\ ent \in Entries(F) /\ ent.name = p /\ ent.ftype = "CHARDEV" /\ ent.data = <<>>
            /\ ent.type = "FILE" /\ ent.size = BLKSIZE
        <4>1. FileEntry(p, z) \in Entries(F) /\ FileEntry(p, z).name = p
              /\ FileEntry(p, z).type = "FILE" /\ FileEntry(p, z).size = BLKSIZE
          BY <1>3, <2>1, FreshFile DEF FileEntry
        <4>2. <<>> \in Seq(Bytes(F))
          OBVIOUS
        <4> QED BY <4>1, <4>2 DEF AsDevice, Entries
      <3>3. Extent(w.st, i) = BlocksFor(BLKSIZE + BLKSIZE)
        <4>1. EntryOK(F, FileEntry(p, z), Extent(w.st, i))
          BY <2>5, <3>1 DEF Good
        <4>2. FileEntry(p, z).size = BLKSIZE
          BY <2>1 DEF FileEntry
        <4> QED BY <4>1, <4>2 DEF EntryOK
      <3>4. EntryOK(F, ent, Extent(w.st, i))
        <4>1. <<>> \in Seq(F[p]) /\ Len(<<>>) = 0 /\ U32 + 0 <= BLKSIZE
          BY IOCallAssumption, BlockTableAssumption
        <4> HIDE DEF ent
        <4>2. DeviceOK(F, ent)
          BY <3>2, <4>1 DEF DeviceOK
        <4> QED BY <1>5, <3>2, <3>3, <4>2 DEF EntryOK
      <3>5. new = [w.st EXCEPT !.mem[b] = ent]
        BY <3>1 DEF AsDevice, Ent
      <3> HIDE DEF new, ent, i
      <3>6. Owned(new, Entries(F), {}, K) /\ Changed(w.st, new, i, ent, Extent(w.st, i))
        <4>1. Owned(w.st, Entries(F), {}, K)
          BY <2>5 DEF Good
        <4> QED BY <3>1, <3>2, <3>5, <4>1, OverwriteEffect
      <3>7. ent.name = Ent(w.st, i).name
        BY <3>1, <3>2
      <3>8. Good(new, F, K) /\ Spares(w.st, new, ent.name)
        BY <2>5, <3>1, <3>4, <3>6, <3>7, ChangeGood
      <3>9. Spares(st, new, p)
        BY <2>5, <3>2, <3>8, SparesTwice
      <3>10. i \in Live(new) /\ Ent(new, i) = ent /\ Live(new) = Live(w.st)
        BY <3>1, <3>6 DEF Changed
      <3>11. Exists(new, p) /\ fs_stat(new, p).ftype = "CHARDEV"
        BY <3>2, <3>8, <3>10, StatFound
      <3>12. \A j \in Live(new) : j = i \/ (j \in Live(st) /\ Ent(new, j) = Ent(st, j))
        <4> SUFFICES ASSUME NEW j \in Live(new), j # i
                     PROVE  j \in Live(st) /\ Ent(new, j) = Ent(st, j)
          OBVIOUS
        <4>1. j \in Live(w.st) /\ Ent(w.st, j).name # p
          BY <2>5, <3>1, <3>10 DEF Good, Unique
        <4>2. j \in Live(st)
          BY <2>5, <4>1
        <4> QED BY <1>2, <3>9, <4>2 DEF Spares
      <3>13. Fresh(new, F, K, N \cup {p})
        <4>1. \A j \in Live(new) : /\ Ent(new, j).name \in N \cup {p}
                                   /\ Ent(new, j).ftype = "CHARDEV" => Ent(new, j).data = <<>>
          BY <1>0, <3>2, <3>10, <3>12 DEF Fresh
        <4> QED BY <3>8, <4>1 DEF Fresh
      <3>14. r.st = new /\ r.sts = SUCCESS
        <4> HIDE DEF r
        <4> QED BY <2>3, <2>5, ReplyFields
      <3> HIDE DEF r
      <3> QED BY <1>5, <3>9, <3>11, <3>13, <3>14 DEF r, st, MakesDevice
    <2> QED BY <2>2, <2>4, <2>5
  <1> QED BY <1>4, <1>5

\* Two entries take two blocks at least, which a file of one block needs.
LEMMA TwoEntries ==
  ASSUME NEW F, NEW K, NEW st, Good(st, F, K), NEW i \in Live(st), NEW j \in Live(st), i # j
  PROVE  BLKSIZE + BLKSIZE <= BlockC * BLKSIZE
  <1>1. Owned(st, Entries(F), {}, K)
    BY GoodFields
  <1>2. st.EntryV \in [Indexes -> Blocks \cup {NULL}]
    BY <1>1, StoreFields
  <1>3. st.EntryV[i] \in Blocks /\ st.EntryV[j] \in Blocks
    BY <1>2 DEF Live
  <1>4. st.EntryV[i] # st.EntryV[j]
    BY <1>1 DEF Owned
  <1>5. BLKSIZE \in Nat /\ BlockC \in Nat
    BY BlockTableAssumption
  <1>6. BlockC >= 2
    BY <1>3, <1>4, <1>5 DEF Blocks
  <1>7. BlockC * BLKSIZE >= 2 * BLKSIZE
    BY <1>5, <1>6
  <1> QED BY <1>5, <1>7

\* The initialisation of the devices: both are there and empty, or what was
\* made before the failure stays.
LEMMA DevicesMade ==
  ASSUME NEW F, NEW K, NEW st, Fresh(st, F, K, {Root})
  PROVE  LET d == fs_createDir(st, Dev)
             k == DeviceFile(d, Keyboard)
             m == DeviceFile(k, Mouse)
         IN /\ Good(m.st, F, K)
            /\ \A i \in Live(m.st) : Ent(m.st, i).ftype = "CHARDEV" => Ent(m.st, i).data = <<>>
            /\ m.sts = SUCCESS => DevicesThere(m.st)
  <1> DEFINE d == fs_createDir(st, Dev)
             k == DeviceFile(d, Keyboard)
             m == DeviceFile(k, Mouse)
  <1>1. /\ Dev \in FileNames /\ Keyboard \in Devices /\ Mouse \in Devices /\ Keyboard # Mouse
        /\ Keyboard \notin {Root} \cup {Dev} /\ Mouse \notin ({Root} \cup {Dev}) \cup {Keyboard}
    BY IOCallAssumption DEF FileNames, Devices, Root
  <1>2. /\ Fresh(d.st, F, K, {Root} \cup {Dev})
        /\ d.sts = SUCCESS => ~ Exists(st, Dev) /\ Exists(d.st, Dev)
    BY <1>1, CreateDirFresh
  <1> HIDE DEF d
  <1>3. d.sts = SUCCESS => BLKSIZE + BLKSIZE <= BlockC * BLKSIZE
    <2> SUFFICES ASSUME d.sts = SUCCESS
                 PROVE  BLKSIZE + BLKSIZE <= BlockC * BLKSIZE
      OBVIOUS
    <2>1. Good(d.st, F, K) /\ Good(st, F, K)
      BY <1>2 DEF Fresh
    <2>2. fs_index(d.st, Dev) \in Live(d.st) /\ Ent(d.st, fs_index(d.st, Dev)).name = Dev
      BY <1>2, <2>1, StatExists
    <2>3. 0 \in Live(d.st) /\ Ent(d.st, 0).name = Root /\ 0 \in Live(st) /\ Ent(st, 0).name = Root
      BY <2>1 DEF Good, RootFirst
    <2>4. Dev # Root
      <3>1. Exists(st, Root)
        BY <2>1, <2>3, StatFound
      <3> QED BY <1>2, <3>1
    <2> QED BY <2>1, <2>2, <2>3, <2>4, TwoEntries
  <1>4. /\ Fresh(k.st, F, K, ({Root} \cup {Dev}) \cup {Keyboard})
        /\ k.sts = SUCCESS => /\ d.sts = SUCCESS /\ Spares(d.st, k.st, Keyboard)
                              /\ Exists(k.st, Keyboard) /\ fs_stat(k.st, Keyboard).ftype = "CHARDEV"
    <2>1. MakesDevice(F, K, {Root} \cup {Dev}, Keyboard, d, k)
      BY <1>1, <1>2, <1>3, DeviceFileFresh
    <2> HIDE DEF k
    <2> QED BY <2>1 DEF MakesDevice
  <1> HIDE DEF k
  <1>5. /\ Fresh(m.st, F, K, (({Root} \cup {Dev}) \cup {Keyboard}) \cup {Mouse})
        /\ m.sts = SUCCESS => /\ k.sts = SUCCESS /\ Spares(k.st, m.st, Mouse)
                              /\ Exists(m.st, Mouse) /\ fs_stat(m.st, Mouse).ftype = "CHARDEV"
    <2>1. MakesDevice(F, K, ({Root} \cup {Dev}) \cup {Keyboard}, Mouse, k, m)
      BY <1>1, <1>3, <1>4, DeviceFileFresh
    <2> HIDE DEF m
    <2> QED BY <2>1 DEF MakesDevice
  <1> HIDE DEF m
  <1>6. m.sts = SUCCESS => DevicesThere(m.st)
    <2> SUFFICES ASSUME m.sts = SUCCESS
                 PROVE  DevicesThere(m.st)
      OBVIOUS
    <2>1. Good(k.st, F, K) /\ Good(m.st, F, K)
      BY <1>4, <1>5 DEF Fresh
    <2>2. Exists(m.st, Keyboard) /\ fs_stat(m.st, Keyboard) = fs_stat(k.st, Keyboard)
      BY <1>1, <1>4, <1>5, <2>1, SparesStat
    <2> QED BY <1>4, <1>5, <2>2 DEF DevicesThere, Devices
  <1>7. /\ Good(m.st, F, K)
        /\ \A i \in Live(m.st) : Ent(m.st, i).ftype = "CHARDEV" => Ent(m.st, i).data = <<>>
    BY <1>5 DEF Fresh
  <1> QED BY <1>6, <1>7 DEF m, k, d


-----------------------------------------------------------------------------
(* Steps *)

\* What is asked of processes: no write is longer than a block, so that no
\* request for memory exceeds the pool, and none truncates a device, which
\* would make it a device without room (iocall.c:202-207).
SaneCalls ==
  /\ \A count \in Counts : count <= BLKSIZE
  /\ \A o \in Opens : O_TRUNC \in o[2] => o[1] \notin Devices

LEMMA FedBytes ==
  /\ Keyboard \in Devices /\ Mouse \in Devices /\ Keyboard # Mouse
  /\ Fed[Keyboard] = Keys /\ Fed[Mouse] = Range(Packet)
  /\ \A F : \A p \in Devices : F[p] \subseteq Bytes(F)
  BY IOCallAssumption DEF Fed, Devices, Bytes

\* A step of the running system leaves a ready store.
LEMMA StoreStep ==
  ASSUME NEW F, StoreInv(F), phase = "run", phase' = phase,
         NEW K \in {{}, {0}}, Ready(fs', F, K), DescsOK(fs', iocall_FileDesc'),
         holds' \in [Procs -> Indexes \cup {NULL}]
  PROVE  StoreInv(F)'
  BY DEF StoreInv, Ready

\* The store that a step of the running system finds.
LEMMA Running ==
  ASSUME NEW F, StoreInv(F), phase = "run"
  PROVE  \E K \in {{}, {0}} : Ready(fs, F, K) /\ DescsOK(fs, iocall_FileDesc)
  BY DEF StoreInv, Ready

LEMMA QueueTypes ==
  ASSUME NEW F, NEW K, NEW st, Ready(st, F, K), NEW p \in Devices
  PROVE  Queue(st, p) \in Seq(F[p]) /\ Queue(st, p) \in Seq(Bytes(F))
  <1>1. Queue(st, p) \in Seq(F[p])
    BY DeviceAt
  <1>2. F[p] \subseteq Bytes(F)
    BY FedBytes
  <1> QED BY <1>1, <1>2

Associative(a, b, c) == (a \o b) \o c = a \o (b \o c)

LEMMA Associates ==
  ASSUME NEW S, NEW a \in Seq(S), NEW b \in Seq(S), NEW c \in Seq(S)
  PROVE  Associative(a, b, c)
  BY ConcatAssociative DEF Associative

\* Behind t, queue q with put added is out followed by rest.
Moved(t, q, put, out, rest) ==
  q \o put = out \o rest => (t \o q) \o put = (t \o out) \o rest

LEMMA Regroup ==
  ASSUME NEW S, NEW t \in Seq(S), NEW q \in Seq(S), NEW put \in Seq(S), NEW out \in Seq(S),
         NEW rest \in Seq(S)
  PROVE  Moved(t, q, put, out, rest)
  <1>1. Associative(t, q, put) /\ Associative(t, out, rest)
    BY Associates
  <1> QED BY <1>1 DEF Moved, Associative

\* What leaves a queue is handed out and what joins it has been accepted.
LEMMA HistoryStep ==
  ASSUME NEW F, HistoryInv(F), phase = "run", phase' = phase,
         NEW K, NEW L, Ready(fs, F, K), Ready(fs', F, L), NEW out, NEW put,
         \A p \in Devices : out[p] \in Seq(Bytes(F)) /\ put[p] \in Seq(Bytes(F)),
         taken' = [p \in Devices |-> taken[p] \o out[p]],
         accepted' = [p \in Devices |-> accepted[p] \o put[p]],
         \A p \in Devices : Queue(fs, p) \o put[p] = out[p] \o Queue(fs', p)
  PROVE  HistoryInv(F)'
  <1> DEFINE S == Bytes(F)
  <1>1. ASSUME NEW p \in Devices
        PROVE  /\ taken'[p] = taken[p] \o out[p] /\ taken'[p] \in Seq(S)
               /\ accepted'[p] = accepted[p] \o put[p] /\ accepted'[p] \in Seq(S)
               /\ accepted'[p] = taken'[p] \o Queue(fs', p)
    <2>1. /\ taken[p] \in Seq(S) /\ accepted[p] \in Seq(S)
          /\ accepted[p] = taken[p] \o Queue(fs, p)
      BY DEF HistoryInv, DeviceFIFO
    <2>2. Queue(fs, p) \in Seq(S) /\ Queue(fs', p) \in Seq(S)
      BY QueueTypes
    <2>3. out[p] \in Seq(S) /\ put[p] \in Seq(S)
      OBVIOUS
    <2> HIDE DEF S
    <2>4. taken'[p] = taken[p] \o out[p] /\ accepted'[p] = accepted[p] \o put[p]
      OBVIOUS
    <2>5. taken[p] \o out[p] \in Seq(S) /\ accepted[p] \o put[p] \in Seq(S)
      BY <2>1, <2>3, ConcatProperties
    <2>6. Queue(fs, p) \o put[p] = out[p] \o Queue(fs', p)
      OBVIOUS
    <2>7. (taken[p] \o Queue(fs, p)) \o put[p] = (taken[p] \o out[p]) \o Queue(fs', p)
      <3> DEFINE t == taken[p]
                 q == Queue(fs, p)
                 a == put[p]
                 b == out[p]
                 rest == Queue(fs', p)
      <3>1. t \in Seq(S) /\ q \in Seq(S) /\ a \in Seq(S) /\ b \in Seq(S) /\ rest \in Seq(S)
        BY <2>1, <2>2, <2>3
      <3>2. q \o a = b \o rest
        BY <2>6
      <3> HIDE DEF t, q, a, b, rest
      <3>3. Moved(t, q, a, b, rest)
        BY <3>1, Regroup
      <3>4. (t \o q) \o a = (t \o b) \o rest
        BY <3>2, <3>3 DEF Moved
      <3> QED BY <3>4 DEF t, q, a, b, rest
    <2> QED BY <2>1, <2>4, <2>5, <2>7 DEF S
  <1>2. taken' \in [Devices -> Seq(S)] /\ accepted' \in [Devices -> Seq(S)]
    BY <1>1
  <1>3. DeviceFIFO'
    BY <1>1 DEF DeviceFIFO, Queue
  <1> QED BY <1>2, <1>3 DEF HistoryInv

\* A step that changes no queue.
LEMMA HistorySame ==
  ASSUME NEW F, HistoryInv(F), phase = "run", UNCHANGED <<phase, accepted, taken>>,
         \A p \in Devices : Queue(fs', p) = Queue(fs, p)
  PROVE  HistoryInv(F)'
  <1>1. DeviceFIFO'
    BY DEF HistoryInv, DeviceFIFO, Queue
  <1> QED BY <1>1 DEF HistoryInv

\* What SubSeq takes of a sequence is none or some of it.
LEMMA TakenPart ==
  ASSUME NEW S, NEW q \in Seq(S), NEW rest, NEW bytes, NEW count \in Nat,
         Dequeued(q, rest, bytes, count)
  PROVE  bytes \in Seq(S) /\ rest \in Seq(S) /\ q = bytes \o rest
  <1>1. Len(q) \in Nat
    OBVIOUS
  <1>2. Least(count, Len(q)) \in 0 .. Len(q)
    BY <1>1, LeastOf
  <1>3. PICK m \in {0, Least(count, Len(q))} :
          bytes = SubSeq(q, 1, m) /\ rest = SubSeq(q, m + 1, Len(q))
    BY DEF Dequeued
  <1>4. m \in 0 .. Len(q)
    BY <1>1, <1>2, <1>3
  <1> QED BY <1>3, <1>4, Split


LEMMA StepInit == ASSUME NEW F, Init PROVE IOCallInv(F)
  <1>1. PICK n \in Held : fs = BootStore(n)
    BY DEF Init
  <1>2. \E K \in {{}, {0}} : Fresh(BootStore(n), F, K, {Root})
    BY BootGood
  <1>3. PICK K \in {{}, {0}} : Fresh(fs, F, K, {Root})
    BY <1>1, <1>2
  <1>4. fs.EntryV = [i \in Indexes |-> IF i = 0 THEN fs.EntryV[0] ELSE NULL]
    <2>1. fs.EntryV = [i \in Indexes |-> IF i = 0 THEN n ELSE NULL]
      BY <1>1 DEF BootStore, FS_ROOTDIR
    <2>2. fs.EntryV[0] = n
      BY <2>1, DescType
    <2> QED BY <2>1, <2>2
  <1>5. DescsOK(fs, iocall_FileDesc)
    BY DescType DEF Init, DescsOK
  <1>6. StoreInv(F)
    <2>1. /\ phase = "boot" /\ holds \in [Procs -> Indexes \cup {NULL}]
          /\ iocall_FileDesc = ClearDescs
      BY DEF Init
    <2> QED BY <1>3, <1>4, <1>5, <2>1 DEF StoreInv, Fresh
  <1>7. HistoryInv(F)
    <2>1. <<>> \in Seq(Bytes(F))
      OBVIOUS
    <2> QED BY <2>1 DEF Init, HistoryInv, DeviceFIFO
  <1> QED BY <1>6, <1>7 DEF IOCallInv

LEMMA StepInitDevices ==
  ASSUME NEW F, IOCallInv(F), InitDevices PROVE IOCallInv(F)'
  <1> DEFINE d == fs_createDir(fs, Dev)
             k == DeviceFile(d, Keyboard)
             m == DeviceFile(k, Mouse)
  <1>1. /\ phase = "boot" /\ fs' = m.st /\ phase' = IF m.sts = SUCCESS THEN "run" ELSE "panic"
        /\ UNCHANGED <<iocall_FileDesc, accepted, taken, holds>>
    BY DEF InitDevices
  <1>2. PICK K \in {{}, {0}} : Good(fs, F, K)
    BY DEF IOCallInv, StoreInv
  <1>3. Fresh(fs, F, K, {Root})
    <2>1. Live(fs) = {0}
      <3>1. fs.EntryV = [i \in Indexes |-> IF i = 0 THEN fs.EntryV[0] ELSE NULL]
        BY <1>1 DEF IOCallInv, StoreInv
      <3>2. Live(fs) \subseteq {0}
        BY <3>1 DEF Live
      <3> QED BY <1>2, <3>2 DEF Good, RootFirst
    <2>2. Ent(fs, 0).name = Root
      BY <1>2 DEF Good, RootFirst
    <2> QED BY <1>1, <1>2, <2>1, <2>2 DEF Fresh, IOCallInv, StoreInv
  <1>4. /\ Good(m.st, F, K)
        /\ \A i \in Live(m.st) : Ent(m.st, i).ftype = "CHARDEV" => Ent(m.st, i).data = <<>>
        /\ m.sts = SUCCESS => DevicesThere(m.st)
    BY <1>3, DevicesMade
  <1> HIDE DEF m
  <1>5. DescsOK(fs', iocall_FileDesc')
    BY <1>1, DescType DEF IOCallInv, StoreInv, DescsOK
  <1>6. StoreInv(F)'
    <2>1. phase' \in {"run", "panic"} /\ (phase' = "run" => m.sts = SUCCESS)
      BY <1>1
    <2> QED BY <1>1, <1>4, <1>5, <2>1 DEF IOCallInv, StoreInv
  <1>7. ASSUME phase' = "run", NEW p \in Devices
        PROVE  accepted'[p] = taken'[p] \o Queue(fs', p)
    <2>1. m.sts = SUCCESS /\ Exists(fs', p) /\ fs_stat(fs', p).ftype = "CHARDEV"
      BY <1>1, <1>4, <1>7 DEF DevicesThere
    <2>2. Queue(fs', p) = <<>>
      BY <1>1, <1>4, <2>1, StatExists DEF Queue
    <2>3. accepted[p] = taken[p] /\ taken[p] \in Seq(Bytes(F))
      BY <1>1 DEF IOCallInv, HistoryInv
    <2>4. taken[p] \o <<>> = taken[p]
      BY <2>3, ConcatEmptySeq
    <2> QED BY <1>1, <2>2, <2>3, <2>4
  <1>8. DeviceFIFO'
    BY <1>7 DEF DeviceFIFO, Queue
  <1>9. HistoryInv(F)'
    BY <1>1, <1>8 DEF IOCallInv, HistoryInv
  <1> QED BY <1>6, <1>9 DEF IOCallInv

\* The devices start empty.
LEMMA NewDevicesEmpty ==
  ASSUME NEW F, IOCallInv(F), InitDevices, phase' = "run", NEW p \in Devices
  PROVE  Queue(fs', p) = <<>>
  <1> DEFINE t == taken'[p]
             q == Queue(fs', p)
  <1>1. IOCallInv(F)'
    BY StepInitDevices
  <1>2. accepted'[p] = t \o q /\ t \in Seq(Bytes(F))
    BY <1>1 DEF IOCallInv, HistoryInv, DeviceFIFO, Queue
  <1>3. accepted'[p] = t
    BY DEF InitDevices, IOCallInv, HistoryInv
  <1>4. PICK K \in {{}, {0}} : Ready(fs', F, K)
    BY <1>1 DEF IOCallInv, StoreInv, Ready
  <1>5. q \in Seq(Bytes(F))
    BY <1>4, QueueTypes
  <1> HIDE DEF t, q
  <1>6. t \o q = t /\ t \in Seq(Bytes(F)) /\ q \in Seq(Bytes(F))
    BY <1>2, <1>3, <1>5
  <1>7. q = <<>>
    BY <1>6, ConcatEqualIffEmpty
  <1> QED BY <1>7 DEF q

\* key_send and mouse_send: as much as fits joins the device's queue.
LEMMA StepSend ==
  ASSUME NEW F, IOCallInv(F), NEW path \in Devices, NEW bytes \in Seq(F[path]), Send(path, bytes)
  PROVE  IOCallInv(F)'
  <1> DEFINE o == open(fs, iocall_FileDesc, path, {O_WRONLY}, TRUE)
             w == write(o.st, o.fdv, o.ret, bytes, TRUE)
             c == close(w.st, w.fdv, o.ret)
             n == Fitting(fs, path, bytes)
             part == SubSeq(bytes, 1, n)
             put == [Nothing EXCEPT ![path] = SubSeq(bytes, 1, w.ret)]
  <1>1. /\ phase = "run" /\ fs' = c.st /\ iocall_FileDesc' = c.fdv
        /\ Ghosts(Nothing, put) /\ UNCHANGED <<phase, holds>>
    BY DEF Send
  <1>2. PICK K \in {{}, {0}} : Ready(fs, F, K)
    BY <1>1, Running DEF IOCallInv
  <1>3. Puts(F, K, fs, path, bytes, c.st, c.fdv) /\ w.ret = n
    <2>1. Sent(F, K, fs, path, bytes, w, c)
      BY <1>2, SendEffect
    <2> HIDE DEF w, c
    <2> QED BY <2>1 DEF Sent
  <1> HIDE DEF c, w
  <1>4. put = [p \in Devices |-> IF p = path THEN part ELSE <<>>]
    BY <1>3 DEF Nothing
  <1>5. part \in Seq(F[path])
    BY <1>2, FittingIs
  <1>6. part \in Seq(Bytes(F))
    <2>1. F[path] \subseteq Bytes(F)
      BY FedBytes
    <2> HIDE DEF part
    <2> QED BY <1>5, <2>1
  <1> HIDE DEF put, part
  <1>7. StoreInv(F)'
    <2>1. Ready(fs', F, K) /\ DescsOK(fs', iocall_FileDesc')
      BY <1>1, <1>3 DEF Puts
    <2> QED BY <1>1, <2>1, StoreStep DEF IOCallInv, StoreInv
  <1>8. ASSUME NEW p \in Devices
        PROVE  Nothing[p] \in Seq(Bytes(F)) /\ put[p] \in Seq(Bytes(F))
               /\ Queue(fs, p) \o put[p] = Nothing[p] \o Queue(fs', p)
    <2>1. Nothing[p] = <<>> /\ <<>> \in Seq(Bytes(F))
      BY DEF Nothing
    <2>2. put[p] = IF p = path THEN part ELSE <<>>
      BY <1>4
    <2>3. Queue(fs', p) = IF p = path THEN Queue(fs, p) \o part ELSE Queue(fs, p)
      BY <1>1, <1>3 DEF Puts, part, n
    <2>4. Queue(fs, p) \in Seq(Bytes(F))
      BY <1>2, QueueTypes
    <2>5. Queue(fs, p) \o part \in Seq(Bytes(F))
      BY <1>6, <2>4, ConcatProperties
    <2>6. <<>> \o Queue(fs', p) = Queue(fs', p) /\ Queue(fs, p) \o <<>> = Queue(fs, p)
      BY <2>3, <2>4, <2>5, ConcatEmptySeq
    <2>7. put[p] \in Seq(Bytes(F))
      BY <1>6, <2>1, <2>2
    <2>8. Queue(fs, p) \o put[p] = Queue(fs', p)
      BY <2>2, <2>3, <2>6
    <2> QED BY <2>1, <2>6, <2>7, <2>8
  <1>9. HistoryInv(F)'
    <2>1. Ready(fs', F, K)
      BY <1>1, <1>3 DEF Puts
    <2>2. /\ taken' = [p \in Devices |-> taken[p] \o Nothing[p]]
          /\ accepted' = [p \in Devices |-> accepted[p] \o put[p]]
      BY <1>1 DEF Ghosts
    <2> QED BY <1>1, <1>2, <1>8, <2>1, <2>2, HistoryStep DEF IOCallInv
  <1> QED BY <1>7, <1>9 DEF IOCallInv


\* One pass of the loop takes a byte and a packet at most.
LEMMA StepLoop ==
  ASSUME NEW F, IOCallInv(F), KernelLoop PROVE IOCallInv(F)'
  <1> DEFINE o1 == open(fs, iocall_FileDesc, Keyboard, {O_RDONLY}, FALSE)
             r1 == read(o1.st, o1.fdv, o1.ret, 1, FALSE)
             o2 == open(r1.st, r1.fdv, Mouse, {O_RDONLY}, FALSE)
             r2 == read(o2.st, o2.fdv, o2.ret, Len(Packet), FALSE)
             out == [Nothing EXCEPT ![Keyboard] = r1.bytes, ![Mouse] = r2.bytes]
  <1>1. /\ phase = "run" /\ fs' = r2.st /\ iocall_FileDesc' = r2.fdv
        /\ Ghosts(out, Nothing) /\ UNCHANGED <<phase, holds>>
    BY DEF KernelLoop
  <1>2. PICK K \in {{}, {0}} : Ready(fs, F, K)
    BY <1>1, Running DEF IOCallInv
  <1>3. Looped(F, K, fs, r1, r2)
    BY <1>2, LoopEffect
  <1> HIDE DEF r1, r2
  <1>4. /\ Ready(fs', F, K) /\ DescsOK(fs', iocall_FileDesc')
        /\ Took(Queue(fs, Keyboard), Queue(fs', Keyboard), r1.bytes, 1)
        /\ Took(Queue(fs, Mouse), Queue(fs', Mouse), r2.bytes, Len(Packet))
    BY <1>1, <1>3 DEF Looped
  <1>5. out = [p \in Devices |-> IF p = Keyboard THEN r1.bytes ELSE r2.bytes]
    BY FedBytes DEF Nothing, Devices
  <1> HIDE DEF out
  <1>6. StoreInv(F)'
    BY <1>1, <1>4, StoreStep DEF IOCallInv, StoreInv
  <1>7. ASSUME NEW p \in Devices
        PROVE  out[p] \in Seq(Bytes(F)) /\ Nothing[p] \in Seq(Bytes(F))
               /\ Queue(fs, p) \o Nothing[p] = out[p] \o Queue(fs', p)
    <2> DEFINE n == IF p = Keyboard THEN 1 ELSE Len(Packet)
               q == Queue(fs, p)
               S == Bytes(F)
    <2>1. n \in Nat
      BY IOCallAssumption
    <2>2. Took(q, Queue(fs', p), out[p], n)
      BY <1>4, <1>5 DEF Devices
    <2>3. q \in Seq(S)
      BY <1>2, QueueTypes
    <2> HIDE DEF n, q, S
    <2>4. out[p] \in Seq(S) /\ q = out[p] \o Queue(fs', p)
      BY <2>1, <2>2, <2>3, TookSplits
    <2>5. Nothing[p] = <<>> /\ <<>> \in Seq(S)
      BY DEF Nothing
    <2>6. q \o <<>> = q
      BY <2>3, ConcatEmptySeq
    <2> QED BY <2>4, <2>5, <2>6 DEF q, S
  <1>8. HistoryInv(F)'
    <2>1. /\ taken' = [p \in Devices |-> taken[p] \o out[p]]
          /\ accepted' = [p \in Devices |-> accepted[p] \o Nothing[p]]
      BY <1>1 DEF Ghosts
    <2> QED BY <1>1, <1>2, <1>4, <1>7, <2>1, HistoryStep DEF IOCallInv
  <1> QED BY <1>6, <1>8 DEF IOCallInv

LEMMA StepOpen ==
  ASSUME IOCallInv(Fed), SaneCalls, NEW proc \in Procs, NEW o \in Opens, Open(proc, o[1], o[2])
  PROVE  IOCallInv(Fed)'
  <1> DEFINE path == o[1]
             flags == o[2]
             r == open(fs, iocall_FileDesc, path, flags, FALSE)
  <1>1. /\ phase = "run" /\ fs' = r.st /\ iocall_FileDesc' = r.fdv /\ UNCHANGED phase
        /\ holds' = [holds EXCEPT ![proc] = IF r.ret = -1 THEN @ ELSE fs_index(r.st, path)]
        /\ UNCHANGED <<accepted, taken>>
    BY DEF Open, Step
  <1>2. PICK K \in {{}, {0}} : Ready(fs, Fed, K)
    BY <1>1, Running DEF IOCallInv
  <1>3. /\ path \in FileNames /\ flags \in SUBSET Flags
        /\ O_TRUNC \in flags => path \notin Devices
    BY IOCallAssumption DEF SaneCalls, FileNames
  <1> HIDE DEF path, flags
  <1>4. /\ Ready(r.st, Fed, K)
        /\ \A p \in Devices : Queue(r.st, p) = Queue(fs, p)
        /\ DescsOK(r.st, r.fdv)
    BY <1>2, <1>3, OpenEffect
  <1>5. fs_index(r.st, path) \in Indexes \cup {NULL}
    <2> HIDE DEF r
    <2> QED BY <1>4, IndexType DEF Ready
  <1> HIDE DEF r
  <1>6. holds' \in [Procs -> Indexes \cup {NULL}]
    BY <1>1, <1>5 DEF IOCallInv, StoreInv
  <1>7. StoreInv(Fed)'
    BY <1>1, <1>4, <1>6, StoreStep DEF IOCallInv
  <1>8. HistoryInv(Fed)'
    BY <1>1, <1>4, HistorySame DEF IOCallInv
  <1> QED BY <1>7, <1>8 DEF IOCallInv

LEMMA StepRead ==
  ASSUME IOCallInv(Fed), NEW proc \in Procs, NEW count \in Counts, Read(proc, count)
  PROVE  IOCallInv(Fed)'
  <1> DEFINE r == read(fs, iocall_FileDesc, TYPEFD, count, FALSE)
             out == [p \in Devices |-> IF p = Target THEN r.bytes ELSE <<>>]
  <1>1. /\ phase = "run" /\ fs' = r.st /\ iocall_FileDesc' = r.fdv /\ UNCHANGED <<phase, holds>>
        /\ Ghosts(out, Nothing)
    BY DEF Read, Step
  <1>2. PICK K \in {{}, {0}} : Ready(fs, Fed, K) /\ DescsOK(fs, iocall_FileDesc)
    BY <1>1, Running DEF IOCallInv
  <1>3. count \in Nat
    BY IOCallAssumption
  <1>4. HandsOut(Fed, K, fs, iocall_FileDesc, count, r)
    BY <1>2, <1>3, ReadEffect
  <1> HIDE DEF r
  <1>5. /\ Ready(fs', Fed, K) /\ DescsOK(fs', iocall_FileDesc')
        /\ \A p \in Devices : IF p = Target
                              THEN Dequeued(Queue(fs, p), Queue(fs', p), r.bytes, count)
                              ELSE Queue(fs', p) = Queue(fs, p)
    BY <1>1, <1>4 DEF HandsOut, Named, Target
  <1>6. StoreInv(Fed)'
    BY <1>1, <1>5, StoreStep DEF IOCallInv, StoreInv
  <1>7. ASSUME NEW p \in Devices
        PROVE  out[p] \in Seq(Bytes(Fed)) /\ Nothing[p] \in Seq(Bytes(Fed))
               /\ Queue(fs, p) \o Nothing[p] = out[p] \o Queue(fs', p)
    <2> DEFINE q == Queue(fs, p)
               S == Bytes(Fed)
    <2>1. q \in Seq(S)
      BY <1>2, QueueTypes
    <2>2. Nothing[p] = <<>> /\ <<>> \in Seq(S)
      BY DEF Nothing
    <2>3. out[p] = IF p = Target THEN r.bytes ELSE <<>>
      OBVIOUS
    <2> HIDE DEF q, S, out
    <2>4. q \o <<>> = q /\ <<>> \o q = q
      BY <2>1, ConcatEmptySeq
    <2>5. CASE p = Target
      <3>1. Dequeued(q, Queue(fs', p), out[p], count)
        BY <1>5, <2>3, <2>5 DEF q
      <3>2. out[p] \in Seq(S) /\ q = out[p] \o Queue(fs', p)
        BY <1>3, <2>1, <3>1, TakenPart
      <3> QED BY <2>2, <2>4, <3>2 DEF q, S
    <2>6. CASE p # Target
      <3>1. Queue(fs', p) = q /\ out[p] = <<>>
        BY <1>5, <2>3, <2>6 DEF q
      <3> QED BY <2>2, <2>4, <3>1 DEF q, S
    <2> QED BY <2>5, <2>6
  <1> HIDE DEF out
  <1>8. HistoryInv(Fed)'
    <2>1. /\ taken' = [p \in Devices |-> taken[p] \o out[p]]
          /\ accepted' = [p \in Devices |-> accepted[p] \o Nothing[p]]
      BY <1>1 DEF Ghosts
    <2> QED BY <1>1, <1>2, <1>5, <1>7, <2>1, HistoryStep DEF IOCallInv
  <1> QED BY <1>6, <1>8 DEF IOCallInv


LEMMA StepWrite ==
  ASSUME IOCallInv(Fed), SaneCalls, NEW proc \in Procs, NEW count \in Counts, Write(proc, count)
  PROVE  IOCallInv(Fed)'
  <1> DEFINE buf == [i \in 1 .. count |-> proc]
             r == write(fs, iocall_FileDesc, TYPEFD, buf, FALSE)
             put == [p \in Devices |-> IF p = Target /\ r.ret > 0
                                       THEN [i \in 1 .. r.ret |-> proc] ELSE <<>>]
  <1>1. /\ phase = "run" /\ fs' = r.st /\ iocall_FileDesc' = r.fdv /\ UNCHANGED <<phase, holds>>
        /\ Ghosts(Nothing, put)
    BY DEF Write, Step
  <1>2. PICK K \in {{}, {0}} : Ready(fs, Fed, K) /\ DescsOK(fs, iocall_FileDesc)
    BY <1>1, Running DEF IOCallInv
  <1>3. count \in Nat /\ count <= BLKSIZE
    BY IOCallAssumption DEF SaneCalls
  <1>4. buf \in Seq(FileBytes) /\ Len(buf) <= BLKSIZE
    <2>1. buf \in [1 .. count -> FileBytes]
      BY DEF FileBytes
    <2> HIDE DEF buf
    <2> QED BY <1>3, <2>1
  <1> HIDE DEF buf
  <1>5. /\ Ready(r.st, Fed, K)
        /\ DescsOK(r.st, r.fdv)
        /\ \A d \in Devices : Queue(r.st, d) = Queue(fs, d)
        /\ Named(fs, iocall_FileDesc) \in Devices => r.ret = -1
    BY <1>2, <1>4, WriteEffect
  <1> HIDE DEF r
  <1>6. put = Nothing
    <2>1. \A p \in Devices : ~ (p = Target /\ r.ret > 0)
      BY <1>5 DEF Named, Target
    <2> QED BY <2>1 DEF Nothing
  <1> HIDE DEF put
  <1>7. StoreInv(Fed)'
    BY <1>1, <1>5, StoreStep DEF IOCallInv, StoreInv
  <1>8. UNCHANGED <<accepted, taken>>
    <2>1. /\ taken' = [p \in Devices |-> taken[p] \o <<>>]
          /\ accepted' = [p \in Devices |-> accepted[p] \o <<>>]
      BY <1>1, <1>6 DEF Ghosts, Nothing
    <2>2. /\ taken \in [Devices -> Seq(Bytes(Fed))]
          /\ accepted \in [Devices -> Seq(Bytes(Fed))]
      BY DEF IOCallInv, HistoryInv
    <2>3. \A p \in Devices : taken[p] \o <<>> = taken[p] /\ accepted[p] \o <<>> = accepted[p]
      BY <2>2, ConcatEmptySeq
    <2> QED BY <2>1, <2>2, <2>3
  <1>9. HistoryInv(Fed)'
    BY <1>1, <1>5, <1>8, HistorySame DEF IOCallInv
  <1> QED BY <1>7, <1>9 DEF IOCallInv

\* close takes the descriptor itself for the index, and nobody ever uses
\* the one at index TYPEFD.
LEMMA StepClose ==
  ASSUME IOCallInv(Fed), NEW proc \in Procs, Close(proc)
  PROVE  IOCallInv(Fed)'
  <1> DEFINE r == close(fs, iocall_FileDesc, TYPEFD)
  <1>1. /\ phase = "run" /\ fs' = r.st /\ iocall_FileDesc' = r.fdv /\ UNCHANGED phase
        /\ holds' = [holds EXCEPT ![proc] = NULL] /\ UNCHANGED <<accepted, taken>>
    BY DEF Close, Step
  <1>2. PICK K \in {{}, {0}} : Ready(fs, Fed, K) /\ DescsOK(fs, iocall_FileDesc)
    BY <1>1, Running DEF IOCallInv
  <1>3. r = Return(fs, iocall_FileDesc, -1, <<>>)
    <2>1. TYPEFD \in Descs \ {0}
      BY IOCallAssumption DEF TYPEFD, Descs
    <2>2. iocall_FileDesc[TYPEFD].entry = 0
      BY <1>2, <2>1 DEF DescsOK, NoDesc
    <2> QED BY <2>2 DEF close
  <1>4. r.st = fs /\ r.fdv = iocall_FileDesc
    <2> HIDE DEF r
    <2> QED BY <1>3, ReturnFields
  <1> HIDE DEF r
  <1>5. holds' \in [Procs -> Indexes \cup {NULL}]
    BY <1>1 DEF IOCallInv, StoreInv
  <1>6. StoreInv(Fed)'
    BY <1>1, <1>2, <1>4, <1>5, StoreStep DEF IOCallInv
  <1>7. HistoryInv(Fed)'
    BY <1>1, <1>4, HistorySame DEF IOCallInv
  <1> QED BY <1>6, <1>7 DEF IOCallInv

LEMMA StepSame ==
  ASSUME NEW F, IOCallInv(F), UNCHANGED vars PROVE IOCallInv(F)'
  <1>1. DeviceFIFO'
    BY DEF IOCallInv, HistoryInv, DeviceFIFO, vars
  <1> QED BY <1>1 DEF IOCallInv, StoreInv, HistoryInv, vars

LEMMA StepNext ==
  ASSUME SaneCalls, IOCallInv(Fed), [Next]_vars PROVE IOCallInv(Fed)'
  <1>1. CASE InitDevices
    BY <1>1, StepInitDevices
  <1>2. ASSUME NEW key \in Keys, key_send(key) PROVE IOCallInv(Fed)'
    <2>1. Keyboard \in Devices /\ <<key>> \in Seq(Fed[Keyboard])
      BY FedBytes
    <2> QED BY <1>2, <2>1, StepSend DEF key_send
  <1>3. CASE mouse_send(Packet)
    <2>1. Mouse \in Devices /\ Packet \in Seq(Fed[Mouse])
      BY FedBytes, IOCallAssumption
    <2> QED BY <1>3, <2>1, StepSend DEF mouse_send
  <1>4. CASE KernelLoop
    BY <1>4, StepLoop
  <1>5. ASSUME NEW proc \in Procs, NEW o \in Opens, Open(proc, o[1], o[2]) PROVE IOCallInv(Fed)'
    BY <1>5, StepOpen
  <1>6. ASSUME NEW proc \in Procs, NEW count \in Counts, Read(proc, count) PROVE IOCallInv(Fed)'
    BY <1>6, StepRead
  <1>7. ASSUME NEW proc \in Procs, NEW count \in Counts, Write(proc, count) PROVE IOCallInv(Fed)'
    BY <1>7, StepWrite
  <1>8. ASSUME NEW proc \in Procs, Close(proc) PROVE IOCallInv(Fed)'
    BY <1>8, StepClose
  <1>9. CASE Halt
    BY <1>9, StepSame DEF Halt
  <1>10. CASE UNCHANGED vars
    BY <1>10, StepSame
  <1> QED BY <1>1, <1>2, <1>3, <1>4, <1>5, <1>6, <1>7, <1>8, <1>9, <1>10 DEF Next

LEMMA IOCallAlways == ASSUME SaneCalls PROVE Spec => []IOCallInv(Fed)
  <1>1. IOCallInv(Fed) /\ [Next]_vars => IOCallInv(Fed)'
    BY StepNext
  <1>2. Init => IOCallInv(Fed)
    BY StepInit
  <1> QED BY <1>1, <1>2, PTL DEF Spec


-----------------------------------------------------------------------------
(* Theorems *)

\* The store, the block table and the descriptors stay sound: write gives
\* its buffer back on every path, a file has the blocks its size needs, and
\* the queue of a device stays within its file, behind its length
\* (iocall.c:88-217).
THEOREM StoreAlwaysSound == ASSUME SaneCalls PROVE Spec => []StoreSound
  <1>1. IOCallInv(Fed) => StoreSound
    <2> SUFFICES ASSUME IOCallInv(Fed) PROVE StoreSound
      OBVIOUS
    <2>1. PICK K \in {{}, {0}} : Good(fs, Fed, K)
      BY DEF IOCallInv, StoreInv
    <2>2. Owned(fs, Entries(Fed), {}, K)
      BY <2>1, GoodFields
    <2>3. /\ fs.EntryV \in [Indexes -> Blocks \cup {NULL}]
          /\ fs.mem \in [Blocks -> Entries(Fed) \cup {Junk}]
          /\ fs.tab \in Table /\ TableSound(fs.tab)
      BY <2>2, StoreFields
    <2>4. \A b \in Blocks : fs.mem[b] = Junk \/ fs.mem[b].name \in FileNames
      BY <2>3 DEF Entries
    <2>5. TypeOK
      BY <2>3, <2>4 DEF TypeOK, IOCallInv, StoreInv, DescsOK
    <2>6. Heads(fs.tab) \ {0} = {fs.EntryV[i] : i \in Live(fs)} \ {0}
      <3> DEFINE H == {fs.EntryV[i] : i \in Live(fs)}
      <3>1. Heads(fs.tab) = H \cup K
        BY <2>2 DEF Owned
      <3> HIDE DEF H
      <3>2. Heads(fs.tab) \ {0} = H \ {0}
        BY <3>1
      <3> QED BY <3>2 DEF H
    <2>7. ASSUME NEW i \in Live(fs)
          PROVE  LET e == Ent(fs, i) IN
                 /\ fs.tab[fs.EntryV[i]].count = BlocksFor(BLKSIZE + e.size)
                 /\ IF e.ftype = "CHARDEV" THEN U32 + Len(e.data) <= e.size ELSE Len(e.data) = e.size
      <3>1. EntryOK(Fed, Ent(fs, i), Extent(fs, i))
        BY <2>1, GoodFields
      <3> QED BY <3>1 DEF EntryOK, DeviceOK, FileOK, Extent
    <2> QED BY <2>3, <2>5, <2>6, <2>7 DEF StoreSound
  <1> QED BY <1>1, IOCallAlways, PTL

\* No process gets a byte into a device, and no driver's byte gets into a
\* file or into the other device, although every open leaves descriptor
\* TYPEFD to whoever uses it next (iocall.c:105-108, 156-159, 180-182).
THEOREM BytesAlwaysApart == ASSUME SaneCalls PROVE Spec => []BytesApart
  <1>1. IOCallInv(Fed) => BytesApart
    <2> SUFFICES ASSUME IOCallInv(Fed), NEW i \in Live(fs)
                 PROVE  LET e == Ent(fs, i) IN
                        Range(e.data) \subseteq
                          (CASE e.name = Keyboard /\ phase = "run" -> Keys
                             [] e.name = Mouse /\ phase = "run" -> Range(Packet)
                             [] OTHER -> Procs \cup {Zero})
      BY DEF BytesApart
    <2> DEFINE e == Ent(fs, i)
    <2>1. PICK K \in {{}, {0}} : Good(fs, Fed, K)
      BY DEF IOCallInv, StoreInv
    <2>2. EntryOK(Fed, e, Extent(fs, i))
      BY <2>1, GoodFields
    <2>3. \A S : e.data \in Seq(S) => Range(e.data) \subseteq S
      BY DEF Range
    <2>4. e.name \in Devices /\ phase = "run" => e.ftype = "CHARDEV"
      <3>1. fs_stat(fs, e.name) = e
        BY <2>1, StatFound
      <3> QED BY <3>1 DEF IOCallInv, StoreInv, DevicesThere
    <2>5. phase # "run" /\ e.ftype = "CHARDEV" => e.data = <<>>
      BY DEF IOCallInv, StoreInv
    <2> HIDE DEF e
    <2>6. CASE e.name = Keyboard /\ phase = "run"
      <3>1. e.data \in Seq(Keys)
        BY <2>2, <2>4, <2>6, FedBytes DEF EntryOK, DeviceOK
      <3> QED BY <2>3, <2>6, <3>1, FedBytes, Zenon DEF e
    <2>7. CASE e.name = Mouse /\ phase = "run"
      <3>1. e.data \in Seq(Range(Packet))
        BY <2>2, <2>4, <2>7, FedBytes DEF EntryOK, DeviceOK
      <3>2. e.name # Keyboard
        BY <2>7, FedBytes
      <3> QED BY <2>3, <2>7, <3>1, <3>2, Zenon DEF e
    <2>8. CASE ~ (e.name = Keyboard /\ phase = "run") /\ ~ (e.name = Mouse /\ phase = "run")
      <3>1. CASE e.ftype = "CHARDEV"
        <4>1. phase # "run"
          BY <2>2, <2>8, <3>1 DEF EntryOK, DeviceOK, Devices
        <4>2. e.data \in Seq(FileBytes)
          <5>1. e.data = <<>> /\ <<>> \in Seq(FileBytes)
            BY <2>5, <3>1, <4>1
          <5> QED BY <5>1
        <4> QED BY <2>3, <2>8, <4>2, Zenon DEF e, FileBytes
      <3>2. CASE e.ftype # "CHARDEV"
        <4>1. e.data \in Seq(FileBytes)
          BY <2>2, <3>2 DEF EntryOK, FileOK
        <4> QED BY <2>3, <2>8, <4>1, Zenon DEF e, FileBytes
      <3> QED BY <3>1, <3>2
    <2> QED BY <2>6, <2>7, <2>8
  <1> QED BY <1>1, IOCallAlways, PTL

\* A device hands out what it took in, in that order and each byte once, to
\* whoever reads it, whatever drivers, the loop and processes do in between
\* (iocall.c:109-119, 160-166).
THEOREM DevicesAlwaysFIFO == ASSUME SaneCalls PROVE Spec => []DeviceFIFO
  <1>1. IOCallInv(Fed) => DeviceFIFO
    BY DEF IOCallInv, HistoryInv
  <1> QED BY <1>1, IOCallAlways, PTL


-----------------------------------------------------------------------------
(* Packets *)

\* The mouse sends packets of three bytes (mouse.c:9), a device has room for
\* a number of whole ones, as 4096 - 4 bytes do, and nobody reads a part.
WholePackets ==
  /\ Len(Packet) = 3
  /\ (BLKSIZE - U32) % 3 = 0
  /\ \A count \in Counts : count % 3 = 0

Whole(q) ==
  /\ Len(q) % 3 = 0
  /\ \A i \in 1 .. Len(q) : q[i] = Packet[((i - 1) % 3) + 1]

LEMMA Thirds ==
  ASSUME NEW a \in Nat, NEW b \in Nat, b % 3 = 0
  PROVE  (a + b) % 3 = a % 3 /\ (b <= a => (a - b) % 3 = a % 3)
  OBVIOUS

LEMMA WholeTail ==
  ASSUME NEW S, NEW q \in Seq(S), Whole(q), NEW m \in 0 .. Len(q), m % 3 = 0
  PROVE  Whole(SubSeq(q, m + 1, Len(q)))
  <1> DEFINE t == SubSeq(q, m + 1, Len(q))
  <1>1. Len(t) = Len(q) - m /\ \A i \in 1 .. (Len(q) - m) : t[i] = q[i + m]
    BY Split
  <1> HIDE DEF t
  <1>2. Len(q) \in Nat /\ m \in Nat /\ m <= Len(q)
    OBVIOUS
  <1>3. Len(t) % 3 = 0
    BY <1>1, <1>2, Thirds DEF Whole
  <1>4. \A i \in 1 .. Len(t) : t[i] = Packet[((i - 1) % 3) + 1]
    <2> SUFFICES ASSUME NEW i \in 1 .. Len(t)
                 PROVE  t[i] = Packet[((i - 1) % 3) + 1]
      OBVIOUS
    <2>1. i \in Nat /\ i >= 1 /\ i \in 1 .. (Len(q) - m) /\ i + m \in 1 .. Len(q)
      BY <1>1, <1>2
    <2>2. ((i + m) - 1) % 3 = (i - 1) % 3
      BY <1>2, <2>1
    <2>3. q[i + m] = Packet[(((i + m) - 1) % 3) + 1]
      BY <2>1 DEF Whole
    <2> QED BY <1>1, <2>1, <2>2, <2>3
  <1> QED BY <1>3, <1>4 DEF Whole, t

LEMMA WholeJoined ==
  ASSUME NEW S, NEW q \in Seq(S), Whole(q), NEW more \in Seq(S), Whole(more)
  PROVE  Whole(q \o more)
  <1> DEFINE t == q \o more
  <1>1. /\ Len(t) = Len(q) + Len(more)
        /\ \A i \in 1 .. Len(q) + Len(more) : t[i] = IF i <= Len(q) THEN q[i] ELSE more[i - Len(q)]
    BY ConcatProperties
  <1> HIDE DEF t
  <1>2. Len(q) \in Nat /\ Len(more) \in Nat /\ Len(q) % 3 = 0 /\ Len(more) % 3 = 0
    BY DEF Whole
  <1>3. Len(t) % 3 = 0
    BY <1>1, <1>2
  <1>4. \A i \in 1 .. Len(t) : t[i] = Packet[((i - 1) % 3) + 1]
    <2> SUFFICES ASSUME NEW i \in 1 .. Len(t)
                 PROVE  t[i] = Packet[((i - 1) % 3) + 1]
      OBVIOUS
    <2>1. CASE i <= Len(q)
      BY <1>1, <1>2, <2>1 DEF Whole
    <2>2. CASE i > Len(q)
      <3>1. i \in Nat /\ i - Len(q) \in 1 .. Len(more) /\ t[i] = more[i - Len(q)]
        BY <1>1, <1>2, <2>2
      <3>2. ((i - Len(q)) - 1) % 3 = (i - 1) % 3
        <4>1. i - 1 \in Nat /\ Len(q) <= i - 1 /\ (i - 1) - Len(q) = (i - Len(q)) - 1
          BY <1>2, <2>2, <3>1
        <4> QED BY <1>2, <4>1, Thirds
      <3>3. more[i - Len(q)] = Packet[(((i - Len(q)) - 1) % 3) + 1]
        BY <3>1 DEF Whole
      <3> QED BY <3>1, <3>2, <3>3
    <2>3. i \in Nat
      BY <1>1, <1>2
    <2> QED BY <1>2, <2>1, <2>2, <2>3
  <1> QED BY <1>3, <1>4 DEF Whole, t

LEMMA WholeNone == Whole(<<>>)
  BY DEF Whole

LEMMA WholeOne ==
  ASSUME WholePackets PROVE Whole(Packet)
  <1>1. \A i \in 1 .. 3 : ((i - 1) % 3) + 1 = i
    OBVIOUS
  <1> QED BY <1>1 DEF Whole, WholePackets

\* A read of the mouse, or the loop's, takes whole packets.
LEMMA WholeDequeued ==
  ASSUME NEW S, NEW q \in Seq(S), Whole(q), NEW rest, NEW bytes, NEW count \in Nat,
         count % 3 = 0, Dequeued(q, rest, bytes, count)
  PROVE  Whole(rest)
  <1>1. Len(q) \in Nat /\ Len(q) % 3 = 0
    BY DEF Whole
  <1>2. Least(count, Len(q)) \in 0 .. Len(q) /\ Least(count, Len(q)) % 3 = 0
    <2>1. Least(count, Len(q)) \in {count, Len(q)}
      BY DEF Least
    <2>2. Least(count, Len(q)) \in Nat /\ Least(count, Len(q)) <= Len(q)
      BY <1>1, LeastOf
    <2> QED BY <1>1, <2>1, <2>2
  <1>3. PICK m \in {0, Least(count, Len(q))} : rest = SubSeq(q, m + 1, Len(q))
    BY DEF Dequeued
  <1>4. m \in 0 .. Len(q) /\ m % 3 = 0
    BY <1>1, <1>2, <1>3
  <1> QED BY <1>3, <1>4, WholeTail

\* A packet fits or is dropped whole.
LEMMA WholeFitting ==
  ASSUME WholePackets, NEW K, NEW st, Ready(st, Fed, K), Whole(Queue(st, Mouse))
  PROVE  Whole(Queue(st, Mouse) \o SubSeq(Packet, 1, Fitting(st, Mouse, Packet)))
  <1> DEFINE q == Queue(st, Mouse)
             c == Fitting(st, Mouse, Packet)
             S == Fed[Mouse]
  <1>1. Mouse \in Devices /\ Packet \in Seq(S)
    BY FedBytes, IOCallAssumption
  <1>2. q \in Seq(S) /\ U32 + Len(q) <= BLKSIZE
    BY <1>1, DeviceAt
  <1>3. c = Least(3, BLKSIZE - U32 - Len(q))
    BY DEF Fitting, WholePackets
  <1>4. Len(q) \in Nat /\ Len(q) % 3 = 0
    BY <1>2 DEF Whole
  <1> HIDE DEF q, c, S
  <1>5. c \in {0, 3}
    <2> DEFINE room == BLKSIZE - U32
               left == room - Len(q)
    <2>0. BLKSIZE \in Nat /\ U32 \in Nat
      BY IOCallAssumption, BlockTableAssumption
    <2>1. room \in Nat /\ room % 3 = 0 /\ left \in Nat
      BY <1>2, <1>4, <2>0 DEF WholePackets
    <2>2. left % 3 = 0
      <3> HIDE DEF room
      <3> QED BY <1>4, <2>1
    <2>3. c = Least(3, left)
      BY <1>3
    <2> HIDE DEF left
    <2> QED BY <2>1, <2>2, <2>3 DEF Least
  <1>6. CASE c = 0
    <2>1. SubSeq(Packet, 1, 0) = <<>> /\ q \o <<>> = q
      BY <1>1, <1>2, SubSeqEmpty, ConcatEmptySeq
    <2> QED BY <1>6, <2>1 DEF q, c
  <1>7. CASE c = 3
    <2>1. SubSeq(Packet, 1, Len(Packet)) = Packet
      BY <1>1, SubSeqFull
    <2>2. SubSeq(Packet, 1, c) = Packet
      BY <1>7, <2>1 DEF WholePackets
    <2>3. Whole(q \o Packet)
      <3>1. Whole(q) /\ Whole(Packet)
        BY WholeOne DEF q
      <3> QED BY <1>1, <1>2, <3>1, WholeJoined
    <2> QED BY <2>2, <2>3 DEF q, c
  <1> QED BY <1>5, <1>6, <1>7


\* No step puts a part of a packet into the mouse's queue or leaves one there.
LEMMA StepPackets ==
  ASSUME SaneCalls, WholePackets, IOCallInv(Fed), [Next]_vars,
         phase = "run" => Whole(Queue(fs, Mouse)), phase' = "run"
  PROVE  Whole(Queue(fs', Mouse))
  <1> DEFINE q == Queue(fs, Mouse)
  <1>m. Mouse \in Devices /\ Keyboard \in Devices /\ Keyboard # Mouse
        /\ Len(Packet) = 3 /\ Packet \in Seq(Fed[Mouse])
    BY FedBytes, IOCallAssumption DEF WholePackets
  <1>r. ASSUME phase = "run"
        PROVE  \E K \in {{}, {0}} : /\ Ready(fs, Fed, K) /\ DescsOK(fs, iocall_FileDesc)
                                    /\ q \in Seq(Fed[Mouse]) /\ Whole(q)
    BY <1>m, <1>r, Running, DeviceAt DEF IOCallInv
  <1>1. CASE InitDevices
    <2>1. Queue(fs', Mouse) = <<>>
      BY <1>m, <1>1, NewDevicesEmpty
    <2> QED BY <2>1, WholeNone
  <1>2. ASSUME NEW key \in Keys, key_send(key) PROVE Whole(Queue(fs', Mouse))
    <2> DEFINE b == <<key>>
               o == open(fs, iocall_FileDesc, Keyboard, {O_WRONLY}, TRUE)
               w == write(o.st, o.fdv, o.ret, b, TRUE)
               c == close(w.st, w.fdv, o.ret)
    <2>1. phase = "run" /\ fs' = c.st
      BY <1>2 DEF key_send, Send
    <2>2. PICK K \in {{}, {0}} : Ready(fs, Fed, K) /\ Whole(q)
      BY <1>r, <2>1
    <2>3. b \in Seq(Fed[Keyboard])
      BY FedBytes
    <2> HIDE DEF b
    <2>4. Sent(Fed, K, fs, Keyboard, b, w, c)
      BY <1>m, <2>2, <2>3, SendEffect
    <2> HIDE DEF w, c
    <2>5. Queue(fs', Mouse) = q
      BY <1>m, <2>1, <2>4 DEF Sent, Puts
    <2> QED BY <2>2, <2>5
  <1>3. CASE mouse_send(Packet)
    <2> DEFINE o == open(fs, iocall_FileDesc, Mouse, {O_WRONLY}, TRUE)
               w == write(o.st, o.fdv, o.ret, Packet, TRUE)
               c == close(w.st, w.fdv, o.ret)
    <2>1. phase = "run" /\ fs' = c.st
      BY <1>3 DEF mouse_send, Send
    <2>2. PICK K \in {{}, {0}} : Ready(fs, Fed, K) /\ Whole(q)
      BY <1>r, <2>1
    <2>3. Sent(Fed, K, fs, Mouse, Packet, w, c)
      BY <1>m, <2>2, SendEffect
    <2> HIDE DEF w, c
    <2>4. Queue(fs', Mouse) = q \o SubSeq(Packet, 1, Fitting(fs, Mouse, Packet))
      BY <2>1, <2>3 DEF Sent, Puts
    <2> QED BY <2>2, <2>4, WholeFitting
  <1>4. CASE KernelLoop
    <2> DEFINE o1 == open(fs, iocall_FileDesc, Keyboard, {O_RDONLY}, FALSE)
               r1 == read(o1.st, o1.fdv, o1.ret, 1, FALSE)
               o2 == open(r1.st, r1.fdv, Mouse, {O_RDONLY}, FALSE)
               r2 == read(o2.st, o2.fdv, o2.ret, Len(Packet), FALSE)
    <2>1. phase = "run" /\ fs' = r2.st
      BY <1>4 DEF KernelLoop
    <2>2. PICK K \in {{}, {0}} : Ready(fs, Fed, K) /\ Whole(q) /\ q \in Seq(Fed[Mouse])
      BY <1>r, <2>1
    <2>3. Looped(Fed, K, fs, r1, r2)
      BY <2>2, LoopEffect
    <2> HIDE DEF r1, r2
    <2>4. Dequeued(q, Queue(fs', Mouse), r2.bytes, 3)
      BY <1>m, <2>1, <2>3 DEF Looped, Took, Dequeued
    <2>5. 3 \in Nat /\ 3 % 3 = 0
      OBVIOUS
    <2> HIDE DEF q
    <2> QED BY <2>2, <2>4, <2>5, WholeDequeued
  <1>5. ASSUME NEW proc \in Procs, NEW o \in Opens, Open(proc, o[1], o[2])
        PROVE  Whole(Queue(fs', Mouse))
    <2> DEFINE path == o[1]
               flags == o[2]
               r == open(fs, iocall_FileDesc, path, flags, FALSE)
    <2>1. phase = "run" /\ fs' = r.st
      BY <1>5 DEF Open, Step
    <2>2. PICK K \in {{}, {0}} : Ready(fs, Fed, K) /\ Whole(q)
      BY <1>r, <2>1
    <2>3. /\ path \in FileNames /\ flags \in SUBSET Flags
          /\ O_TRUNC \in flags => path \notin Devices
      BY IOCallAssumption DEF SaneCalls, FileNames
    <2> HIDE DEF path, flags
    <2>4. /\ Ready(r.st, Fed, K)
          /\ \A p \in Devices : Queue(r.st, p) = Queue(fs, p)
          /\ DescsOK(r.st, r.fdv)
      BY <2>2, <2>3, OpenEffect
    <2> HIDE DEF r
    <2> QED BY <1>m, <2>1, <2>2, <2>4
  <1>6. ASSUME NEW proc \in Procs, NEW count \in Counts, Read(proc, count)
        PROVE  Whole(Queue(fs', Mouse))
    <2> DEFINE r == read(fs, iocall_FileDesc, TYPEFD, count, FALSE)
    <2>1. phase = "run" /\ fs' = r.st
      BY <1>6 DEF Read, Step
    <2>2. PICK K \in {{}, {0}} : /\ Ready(fs, Fed, K) /\ DescsOK(fs, iocall_FileDesc)
                                 /\ Whole(q) /\ q \in Seq(Fed[Mouse])
      BY <1>r, <2>1
    <2>3. count \in Nat /\ count % 3 = 0
      BY IOCallAssumption DEF WholePackets
    <2>4. HandsOut(Fed, K, fs, iocall_FileDesc, count, r)
      BY <2>2, <2>3, ReadEffect
    <2> HIDE DEF r
    <2>5. Dequeued(q, Queue(fs', Mouse), r.bytes, count) \/ Queue(fs', Mouse) = q
      BY <1>m, <2>1, <2>4 DEF HandsOut
    <2> HIDE DEF q
    <2> QED BY <2>2, <2>3, <2>5, WholeDequeued
  <1>7. ASSUME NEW proc \in Procs, NEW count \in Counts, Write(proc, count)
        PROVE  Whole(Queue(fs', Mouse))
    <2> DEFINE buf == [i \in 1 .. count |-> proc]
               r == write(fs, iocall_FileDesc, TYPEFD, buf, FALSE)
    <2>1. phase = "run" /\ fs' = r.st
      BY <1>7 DEF Write, Step
    <2>2. PICK K \in {{}, {0}} : Ready(fs, Fed, K) /\ DescsOK(fs, iocall_FileDesc) /\ Whole(q)
      BY <1>r, <2>1
    <2>3. buf \in Seq(FileBytes) /\ Len(buf) <= BLKSIZE
      <3>1. buf \in [1 .. count -> FileBytes] /\ count \in Nat /\ count <= BLKSIZE
        BY IOCallAssumption DEF FileBytes, SaneCalls
      <3> HIDE DEF buf
      <3> QED BY <3>1
    <2> HIDE DEF buf
    <2>4. /\ Ready(r.st, Fed, K)
          /\ DescsOK(r.st, r.fdv)
          /\ \A d \in Devices : Queue(r.st, d) = Queue(fs, d)
          /\ Named(fs, iocall_FileDesc) \in Devices => r.ret = -1
      BY <2>2, <2>3, WriteEffect
    <2> HIDE DEF r
    <2> QED BY <1>m, <2>1, <2>2, <2>4
  <1>8. ASSUME NEW proc \in Procs, Close(proc) PROVE Whole(Queue(fs', Mouse))
    <2>1. phase = "run" /\ fs' = fs
      BY <1>8 DEF Close, Step, close, Return
    <2> QED BY <1>r, <2>1
  <1>9. CASE Halt
    BY <1>9, <1>r DEF Halt, vars
  <1>10. CASE UNCHANGED vars
    BY <1>10, <1>r DEF vars
  <1> QED BY <1>1, <1>2, <1>3, <1>4, <1>5, <1>6, <1>7, <1>8, <1>9, <1>10 DEF Next

PacketsInv == IOCallInv(Fed) /\ (phase = "run" => Whole(Queue(fs, Mouse)))

\* The mouse's queue is a sequence of whole packets, although a device that
\* is full takes only part of what it is given: packets never shift, as long
\* as everybody reads whole ones (mouse.c:9, iocall.c:111, 163).
THEOREM PacketsAlwaysWhole ==
  ASSUME SaneCalls, WholePackets PROVE Spec => []PacketsWhole
  <1>1. Init => PacketsInv
    BY StepInit DEF Init, PacketsInv
  <1>2. PacketsInv /\ [Next]_vars => PacketsInv'
    <2> SUFFICES ASSUME PacketsInv, [Next]_vars PROVE PacketsInv'
      OBVIOUS
    <2>1. IOCallInv(Fed)'
      BY StepNext DEF PacketsInv
    <2>2. phase' = "run" => Whole(Queue(fs', Mouse))
      BY StepPackets DEF PacketsInv
    <2> QED BY <2>1, <2>2 DEF PacketsInv, Whole, Queue
  <1>3. PacketsInv => PacketsWhole
    <2> SUFFICES ASSUME PacketsInv, phase = "run"
                 PROVE  LET q == Queue(fs, Mouse) IN
                        /\ Len(q) % Len(Packet) = 0
                        /\ \A i \in DOMAIN q : q[i] = Packet[((i - 1) % Len(Packet)) + 1]
      BY DEF PacketsWhole
    <2> DEFINE q == Queue(fs, Mouse)
    <2>1. Whole(q) /\ Len(Packet) = 3
      BY DEF PacketsInv, WholePackets
    <2>2. DOMAIN q = 1 .. Len(q)
      <3>1. PICK K \in {{}, {0}} : Ready(fs, Fed, K)
        BY Running DEF PacketsInv, IOCallInv
      <3>2. q \in Seq(Bytes(Fed))
        BY <3>1, FedBytes, QueueTypes
      <3> HIDE DEF q
      <3> QED BY <3>2
    <2> HIDE DEF q
    <2> QED BY <2>1, <2>2 DEF Whole, q
  <1> QED BY <1>1, <1>2, <1>3, PTL DEF Spec
=============================================================================
