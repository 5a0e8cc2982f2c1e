---------------------------- MODULE CoreFSProofs ----------------------------
(***************************************************************************)
(* What the core file system keeps, for every size of the entry table, the *)
(* mount table and the pool, every set of paths and every archive: the     *)
(* safety invariants of CoreFS, which TLC checks on a small instance.      *)
(***************************************************************************)
EXTENDS CoreFS, EntryTableProofs

-----------------------------------------------------------------------------
(***************************************************************************)
(* The inductive invariant, as a predicate of a store.  K are the first    *)
(* blocks of the regions that belong to no entry.                          *)
(***************************************************************************)

\* Every region is as long as its entry needs.
Sized(st) ==
  \A i \in Live(st) :
    LET e == Ent(st, i) IN
    /\ Extent(st, i) = BlocksFor(BLKSIZE + (IF e.type = "FILE" THEN Len(e.data) ELSE 0))
    /\ e.ftype = "FILE" => e.size = Len(e.data)

\* The entries form a tree.
NamesDiffer(st) ==
  \A i, j \in Live(st) : i # j => Ent(st, i).name.names # Ent(st, j).name.names

Shaped(st) ==
  /\ NamesDiffer(st)
  /\ \A i \in Live(st) : Ent(st, i).name.dir <=> Ent(st, i).type = "DIR"
  /\ \A i \in Live(st) : ParentsFound(st, Ent(st, i).name)

\* A file is mounted by a slot in use of its own; no other entry has a slot.
SlotOf(st, i) ==
  LET e == Ent(st, i) IN
  \/ e.ftype = "FILE" /\ e.mountslot = NULL
  \/ /\ e.ftype = "MOUNTED" /\ e.type = "FILE"
     /\ e.mountslot \in Slots
     /\ st.MountV[e.mountslot] # Junk
     /\ [name |-> e.name, data |-> st.MountV[e.mountslot]] \in Members

SlotsHeld(st) ==
  /\ \A i \in Live(st) : SlotOf(st, i)
  /\ \A i, j \in Live(st) :
       i # j /\ Ent(st, i).ftype = "MOUNTED" => Ent(st, j).mountslot # Ent(st, i).mountslot

Good(st, K) == Owned(st, Entries, Data, K) /\ Sized(st) /\ Shaped(st) /\ SlotsHeld(st)

-----------------------------------------------------------------------------
(* Paths *)

PathSet == [names : Seq(Names), dir : BOOLEAN]

LEMMA PathFields ==
  ASSUME NEW p \in PathSet
  PROVE  /\ p.names \in Seq(Names) /\ Len(p.names) \in Nat /\ p.dir \in BOOLEAN
         /\ AsDir(p) = [names |-> p.names, dir |-> TRUE]
         /\ AsFile(p) = [names |-> p.names, dir |-> FALSE]
         /\ p = [names |-> p.names, dir |-> p.dir]
  <1>1. p.names \in Seq(Names) /\ p.dir \in BOOLEAN /\ p = [names |-> p.names, dir |-> p.dir]
    BY DEF PathSet
  <1>2. \A n, d, e : [[names |-> n, dir |-> d] EXCEPT !.dir = e] = [names |-> n, dir |-> e]
    OBVIOUS
  <1>3. PICK n, d : p = [names |-> n, dir |-> d] /\ n = p.names
    BY <1>1
  <1>4. ASSUME NEW e PROVE [p EXCEPT !.dir = e] = [names |-> p.names, dir |-> e]
    <2>1. [p EXCEPT !.dir = e] = [[names |-> n, dir |-> d] EXCEPT !.dir = e]
      BY <1>3, Zenon
    <2>2. [[names |-> n, dir |-> d] EXCEPT !.dir = e] = [names |-> n, dir |-> e]
      BY <1>2, Zenon
    <2>3. [p EXCEPT !.dir = e] = [names |-> n, dir |-> e]
      BY <2>1, <2>2, Zenon
    <2> QED BY <1>3, <2>3, Zenon
  <1>5. AsDir(p) = [names |-> p.names, dir |-> TRUE]
    BY <1>4, Zenon DEF AsDir
  <1>6. AsFile(p) = [names |-> p.names, dir |-> FALSE]
    BY <1>4, Zenon DEF AsFile
  <1> QED BY <1>1, <1>5, <1>6

LEMMA ParentFields ==
  ASSUME NEW q \in PathSet, NEW d \in Parents(q)
  PROVE  /\ d \in PathSet /\ d.dir
         /\ Len(d.names) < Len(q.names)
         /\ d.names = SubSeq(q.names, 1, Len(d.names))
  <1>1. PICK i \in 1 .. (Len(q.names) - 1) :
            d = [names |-> SubSeq(q.names, 1, i), dir |-> TRUE]
    BY DEF Parents
  <1>2. q.names \in Seq(Names) /\ Len(q.names) \in Nat
    BY PathFields
  <1>3. SubSeq(q.names, 1, i) \in Seq(Names) /\ Len(SubSeq(q.names, 1, i)) = i
    BY <1>2
  <1> QED BY <1>1, <1>2, <1>3 DEF PathSet

\* An entry lies within each directory on the way to it, and within those
\* that this one lies within.
LEMMA ParentWithin ==
  ASSUME NEW q \in PathSet, NEW d \in Parents(q)
  PROVE  /\ Within(d, q)
         /\ \A p \in PathSet : Within(p, d) => Within(p, q)
  <1>1. /\ d \in PathSet /\ d.dir
        /\ Len(d.names) < Len(q.names)
        /\ d.names = SubSeq(q.names, 1, Len(d.names))
    BY ParentFields
  <1>2. q.names \in Seq(Names) /\ d.names \in Seq(Names)
        /\ Len(q.names) \in Nat /\ Len(d.names) \in Nat
    BY <1>1, PathFields
  <1>3. Within(d, q)
    <2>1. SubSeq(d.names, 1, Len(d.names)) = d.names
      BY <1>2
    <2>2. d.names # q.names
      BY <1>1, <1>2
    <2> QED BY <1>1, <1>2, <2>1, <2>2 DEF Within, IsPrefix
  <1>4. ASSUME NEW p \in PathSet, Within(p, d) PROVE Within(p, q)
    <2>1. p.names \in Seq(Names) /\ Len(p.names) \in Nat
      BY PathFields
    <2>2. /\ Len(p.names) <= Len(d.names)
          /\ SubSeq(p.names, 1, Len(p.names)) = SubSeq(d.names, 1, Len(p.names))
      BY <1>4 DEF Within, IsPrefix
    <2>3. SubSeq(d.names, 1, Len(p.names)) = SubSeq(q.names, 1, Len(p.names))
      <3> DEFINE n == Len(p.names)
                 m == Len(d.names)
      <3>1. n \in 0 .. m /\ m \in 0 .. Len(q.names)
        BY <1>1, <1>2, <2>1, <2>2
      <3>2. \A i \in 1 .. m : d.names[i] = q.names[i]
        BY <1>1, <1>2
      <3> HIDE DEF n, m
      <3>3. Len(d.names) = m
        BY DEF m
      <3>4. SubSeq(d.names, 1, n) \in Seq(Names) /\ SubSeq(q.names, 1, n) \in Seq(Names)
        BY <1>2, <3>1, <3>3
      <3>5. Len(SubSeq(d.names, 1, n)) = n /\ Len(SubSeq(q.names, 1, n)) = n
        BY <1>2, <3>1, <3>3
      <3>6. \A i \in 1 .. n : SubSeq(d.names, 1, n)[i] = SubSeq(q.names, 1, n)[i]
        BY <1>2, <3>1, <3>2, <3>3
      <3> QED BY <3>4, <3>5, <3>6 DEF n
    <2>4. p.names # q.names
      BY <1>1, <1>2, <2>1, <2>2
    <2> QED BY <1>1, <1>2, <2>1, <2>2, <2>3, <2>4 DEF Within, IsPrefix
  <1> QED BY <1>3, <1>4

-----------------------------------------------------------------------------
(* What keeps a store good *)

LEMMA EntryFields ==
  ASSUME NEW e \in Entries
  PROVE  /\ e.name \in Paths /\ e.name \in PathSet
         /\ e.type \in {"DIR", "FILE"} /\ e.ftype \in {"FILE", "MOUNTED"}
         /\ e.data \in Data /\ Len(e.data) \in Nat
         /\ e.mountslot \in Slots \cup {NULL}
  BY CoreFSAssumption DEF Entries, PathSet

LEMMA GoodFields ==
  ASSUME NEW K, NEW st, Good(st, K)
  PROVE  /\ Owned(st, Entries, Data, K)
         /\ \A i \in Live(st) : Ent(st, i) \in Entries /\ Ent(st, i).name \in PathSet
  BY EntryFields DEF Good, Owned

\* An entry is added whose name is free.
LEMMA AddGood ==
  ASSUME NEW K, NEW st, Good(st, K), NEW new, Owned(new, Entries, Data, K),
         NEW i, NEW ent \in Entries,
         Added(st, new, i, ent, BlocksFor(BLKSIZE + (IF ent.type = "FILE" THEN Len(ent.data) ELSE 0))),
         ent.ftype = "FILE", ent.mountslot = NULL, ent.size = Len(ent.data),
         ent.name.dir <=> ent.type = "DIR",
         \A j \in Live(st) : Ent(st, j).name.names # ent.name.names,
         ParentsFound(st, ent.name)
  PROVE  Good(new, K)
  <1>1. /\ Live(new) = Live(st) \cup {i} /\ i \notin Live(st)
        /\ Ent(new, i) = ent
        /\ \A j \in Live(st) : Ent(new, j) = Ent(st, j) /\ Extent(new, j) = Extent(st, j)
        /\ new.MountV = st.MountV
    BY DEF Added, Kept
  <1>2. Sized(new)
    <2> SUFFICES ASSUME NEW j \in Live(new)
                 PROVE  LET e == Ent(new, j) IN
                        /\ Extent(new, j) = BlocksFor(BLKSIZE + (IF e.type = "FILE" THEN Len(e.data) ELSE 0))
                        /\ e.ftype = "FILE" => e.size = Len(e.data)
      BY DEF Sized
    <2>1. CASE j = i
      BY <1>1, <2>1 DEF Added
    <2>2. CASE j \in Live(st)
      BY <1>1, <2>2 DEF Good, Sized
    <2> QED BY <1>1, <2>1, <2>2
  <1>3. \A p : Exists(st, p) => Exists(new, p)
    <2> SUFFICES ASSUME NEW p, Exists(st, p) PROVE Exists(new, p)
      OBVIOUS
    <2>1. \E j \in Live(st) : Ent(st, j).name = p
      BY IndexFound
    <2>2. \E j \in Live(new) : Ent(new, j).name = p
      BY <1>1, <2>1
    <2> QED BY <2>2, IndexFound
  <1>4. Shaped(new)
    <2>1. NamesDiffer(new)
      BY <1>1 DEF Good, Shaped, NamesDiffer
    <2>2. \A j \in Live(new) : Ent(new, j).name.dir <=> Ent(new, j).type = "DIR"
      BY <1>1 DEF Good, Shaped
    <2>3. \A j \in Live(new) : ParentsFound(new, Ent(new, j).name)
      BY <1>1, <1>3 DEF Good, Shaped, ParentsFound
    <2> QED BY <2>1, <2>2, <2>3 DEF Shaped
  <1>5. SlotsHeld(new)
    <2>1. \A j \in Live(new) : SlotOf(new, j)
      BY <1>1 DEF Good, SlotsHeld, SlotOf
    <2>2. NULL \notin Slots
      BY NullApart, IndexesNat
    <2>3. ASSUME NEW j \in Live(new), NEW k \in Live(new), j # k, Ent(new, j).ftype = "MOUNTED"
          PROVE  Ent(new, k).mountslot # Ent(new, j).mountslot
      <3>1. j \in Live(st) /\ Ent(new, j).mountslot \in Slots
        BY <1>1, <2>1, <2>3 DEF SlotOf
      <3>2. CASE k = i
        BY <1>1, <2>2, <3>1, <3>2
      <3>3. CASE k \in Live(st)
        BY <1>1, <2>3, <3>1, <3>3 DEF Good, SlotsHeld
      <3> QED BY <1>1, <3>2, <3>3
    <2> QED BY <2>1, <2>3 DEF SlotsHeld
  <1> QED BY <1>2, <1>4, <1>5 DEF Good

\* Entries are removed, and with each directory all that lies in it.
LEMMA RemoveGood ==
  ASSUME NEW K, NEW st, Good(st, K), NEW is \in SUBSET Live(st),
         \A i \in is : \A j \in Live(st) \ is : Ent(st, i).name \notin Parents(Ent(st, j).name)
  PROVE  Good(Freed(st, is), K)
  <1> DEFINE new == Freed(st, is)
  <1>1. /\ Owned(new, Entries, Data, K)
        /\ Live(new) = Live(st) \ is
        /\ \A j \in Live(new) : Kept(st, new, j)
        /\ new.MountV = st.MountV
    BY FreedEffect DEF Good
  <1> HIDE DEF new
  <1>2. \A j \in Live(new) : /\ j \in Live(st) /\ Ent(new, j) = Ent(st, j)
                             /\ Extent(new, j) = Extent(st, j)
    BY <1>1 DEF Kept
  <1>3. Sized(new)
    BY <1>2 DEF Good, Sized
  <1>4. ASSUME NEW j \in Live(new), NEW d \in Parents(Ent(new, j).name) PROVE Exists(new, d)
    <2>1. Exists(st, d)
      BY <1>2 DEF Good, Shaped, ParentsFound
    <2>2. PICK i \in Live(st) : Ent(st, i).name = d
      BY <2>1, IndexFound
    <2>3. i \in Live(new)
      BY <1>1, <1>2, <2>2
    <2>4. Ent(new, i).name = d
      BY <1>2, <2>2, <2>3
    <2> QED BY <2>3, <2>4, IndexFound
  <1>5. Shaped(new)
    <2>1. NamesDiffer(new)
      BY <1>2 DEF Good, Shaped, NamesDiffer
    <2>2. \A j \in Live(new) : Ent(new, j).name.dir <=> Ent(new, j).type = "DIR"
      BY <1>2 DEF Good, Shaped
    <2> QED BY <1>4, <2>1, <2>2 DEF Shaped, ParentsFound
  <1>6. SlotsHeld(new)
    BY <1>1, <1>2 DEF Good, SlotsHeld, SlotOf
  <1> QED BY <1>1, <1>3, <1>5, <1>6 DEF Good, new

\* The data of file i are replaced.
Rewritten(r, st, i, buf) ==
  /\ r.sts = SUCCESS
  /\ r.st.MountV = st.MountV
  /\ Live(r.st) = Live(st)
  /\ Ent(r.st, i) = [Ent(st, i) EXCEPT !.size = Len(buf), !.data = buf]
  /\ \A j \in Live(st) \ {i} : Ent(r.st, j) = Ent(st, j)

LEMMA RewriteGood ==
  ASSUME NEW K, NEW st, Good(st, K), NEW i \in Live(st), NEW buf \in Data,
         BLKSIZE + Len(buf) <= BlockC * BLKSIZE, Ent(st, i).type = "FILE"
  PROVE  LET r == Rewrite(st, i, buf) IN
         r = Reply(st, OUTOFMEMORY) \/ (Good(r.st, K) /\ Rewritten(r, st, i, buf))
  <1> DEFINE r == Rewrite(st, i, buf)
             old == Ent(st, i)
             ent == [old EXCEPT !.size = Len(buf), !.data = buf]
  <1>1. old \in Entries
    BY GoodFields
  <1>2. /\ ent \in Entries /\ ent.name = old.name /\ ent.type = old.type
        /\ ent.ftype = old.ftype /\ ent.mountslot = old.mountslot
        /\ ent.size = Len(buf) /\ ent.data = buf
    <2>1. Len(buf) \in Nat
      BY CoreFSAssumption
    <2> HIDE DEF old
    <2> QED BY <1>1, <2>1 DEF Entries
  <1>3. Len(buf) \in Nat
    BY CoreFSAssumption
  <1>4. \/ r = Reply(st, OUTOFMEMORY)
        \/ /\ r.sts = SUCCESS
           /\ Owned(r.st, Entries, Data, K)
           /\ Changed(st, r.st, i, ent, BlocksFor(BLKSIZE + Len(buf)))
    BY <1>2, <1>3, RewriteEffect DEF Good
  <1>5. ASSUME r.sts = SUCCESS, Owned(r.st, Entries, Data, K),
               Changed(st, r.st, i, ent, BlocksFor(BLKSIZE + Len(buf)))
        PROVE  Good(r.st, K)
    <2> DEFINE new == r.st
    <2> HIDE DEF r, ent, old
    <2>1. /\ Live(new) = Live(st)
          /\ Ent(new, i) = ent /\ Extent(new, i) = BlocksFor(BLKSIZE + Len(buf))
          /\ \A j \in Live(st) \ {i} : Ent(new, j) = Ent(st, j) /\ Extent(new, j) = Extent(st, j)
          /\ new.MountV = st.MountV
      BY <1>5 DEF Changed, Kept
    <2> HIDE DEF new
    <2>2. \A j \in Live(st) : /\ Ent(new, j).name = Ent(st, j).name
                              /\ Ent(new, j).type = Ent(st, j).type
                              /\ Ent(new, j).ftype = Ent(st, j).ftype
                              /\ Ent(new, j).mountslot = Ent(st, j).mountslot
      BY <1>2, <2>1 DEF old
    <2>3. Sized(new)
      <3> SUFFICES ASSUME NEW j \in Live(new)
                   PROVE  LET e == Ent(new, j) IN
                          /\ Extent(new, j) = BlocksFor(BLKSIZE + (IF e.type = "FILE" THEN Len(e.data) ELSE 0))
                          /\ e.ftype = "FILE" => e.size = Len(e.data)
        BY DEF Sized
      <3>1. CASE j = i
        BY <1>2, <2>1, <3>1 DEF old
      <3>2. CASE j # i
        BY <2>1, <3>2 DEF Good, Sized
      <3> QED BY <3>1, <3>2
    <2>4. \A p : Exists(new, p) <=> Exists(st, p)
      BY <2>1, <2>2, IndexFound
    <2>5. Shaped(new)
      BY <2>1, <2>2, <2>4 DEF Good, Shaped, NamesDiffer, ParentsFound
    <2>6. SlotsHeld(new)
      BY <2>1, <2>2 DEF Good, SlotsHeld, SlotOf
    <2> QED BY <1>5, <2>3, <2>5, <2>6 DEF Good, new
  <1>6. ASSUME r.sts = SUCCESS, Changed(st, r.st, i, ent, BlocksFor(BLKSIZE + Len(buf)))
        PROVE  Rewritten(r, st, i, buf)
    <2> HIDE DEF r
    <2> QED BY <1>6, Zenon DEF Changed, Kept, Rewritten
  <1> QED BY <1>4, <1>5, <1>6

-----------------------------------------------------------------------------
(* The functions *)

LEMMA ReplyFields ==
  ASSUME NEW st, NEW s
  PROVE  Reply(st, s).st = st /\ Reply(st, s).sts = s
  BY DEF Reply

LEMMA StatusesApart ==
  /\ SUCCESS \in Statuses /\ FAILURE \in Statuses /\ ALREADYEXISTS \in Statuses
  /\ OUTOFMEMORY \in Statuses /\ PATHNOTFOUND \in Statuses /\ ENTRYNOTFOUND \in Statuses
  /\ DIRNOTEMPTY \in Statuses /\ FILEEXISTS \in Statuses /\ DIREXISTS \in Statuses
  /\ \A s \in Statuses : s # SUCCESS => s \in Statuses \ {SUCCESS}
  /\ SUCCESS \notin {FAILURE, ALREADYEXISTS, OUTOFMEMORY, PATHNOTFOUND, ENTRYNOTFOUND,
                    DIRNOTEMPTY, FILEEXISTS, DIREXISTS}
  BY DEF Statuses, SUCCESS, FAILURE, ALREADYEXISTS, OUTOFMEMORY, PATHNOTFOUND, ENTRYNOTFOUND,
         DIRNOTEMPTY, FILEEXISTS, DIREXISTS

\* A call that fails leaves the store as it was.
Refused(r, st) == r.st = st /\ r.sts \in Statuses \ {SUCCESS}

\* An entry ent is added to the store, its name was free.
Inserted(r, st, ent) ==
  /\ r.sts = SUCCESS
  /\ r.st.MountV = st.MountV
  /\ ParentsFound(st, ent.name)
  /\ \A j \in Live(st) : Ent(st, j).name.names # ent.name.names
  /\ \E i \in Indexes : /\ Live(r.st) = Live(st) \cup {i} /\ i \notin Live(st)
                        /\ Ent(r.st, i) = ent
                        /\ \A j \in Live(st) : Ent(r.st, j) = Ent(st, j)

LEMMA NewEntryGood ==
  ASSUME NEW K, NEW st, Good(st, K), NEW ent \in Entries, NEW size \in Nat,
         BLKSIZE + size <= BlockC * BLKSIZE,
         size = IF ent.type = "FILE" THEN Len(ent.data) ELSE 0,
         ent.ftype = "FILE", ent.mountslot = NULL, ent.size = Len(ent.data),
         ent.name.dir <=> ent.type = "DIR",
         \A j \in Live(st) : Ent(st, j).name.names # ent.name.names,
         ParentsFound(st, ent.name)
  PROVE  LET r == NewEntry(st, size, ent) IN
         Good(r.st, K) /\ (Refused(r, st) \/ Inserted(r, st, ent))
  <1> DEFINE r == NewEntry(st, size, ent)
  <1>1. \/ r = Reply(st, OUTOFMEMORY)
        \/ /\ r.sts = SUCCESS
           /\ Owned(r.st, Entries, Data, K)
           /\ \E i \in Indexes : Added(st, r.st, i, ent, BlocksFor(BLKSIZE + size))
    BY NewEntryEffect DEF Good
  <1> HIDE DEF r
  <1>2. CASE r = Reply(st, OUTOFMEMORY)
    BY <1>2, ReplyFields, StatusesApart DEF Refused, r
  <1>3. CASE /\ r.sts = SUCCESS
             /\ Owned(r.st, Entries, Data, K)
             /\ \E i \in Indexes : Added(st, r.st, i, ent, BlocksFor(BLKSIZE + size))
    <2>1. PICK i \in Indexes :
            Added(st, r.st, i, ent, BlocksFor(BLKSIZE + (IF ent.type = "FILE" THEN Len(ent.data) ELSE 0)))
      BY <1>3
    <2>2. Good(r.st, K)
      BY <1>3, <2>1, AddGood
    <2>3. Inserted(r, st, ent)
      BY <1>3, <2>1 DEF Inserted, Added, Kept
    <2> QED BY <2>2, <2>3 DEF r
  <1> QED BY <1>1, <1>2, <1>3

\* A path that is a directory's and no file's, or a file's and no
\* directory's, is free if nothing has its text.
LEMMA FreeName ==
  ASSUME NEW K, NEW st, Good(st, K), NEW p \in PathSet,
         ~ Exists(st, AsDir(p)), ~ Exists(st, AsFile(p))
  PROVE  \A j \in Live(st) : Ent(st, j).name.names # p.names
  <1> SUFFICES ASSUME NEW j \in Live(st), Ent(st, j).name.names = p.names PROVE FALSE
    OBVIOUS
  <1> DEFINE q == Ent(st, j).name
  <1>1. q \in PathSet
    BY GoodFields
  <1>2. q.dir \in BOOLEAN /\ q = [names |-> p.names, dir |-> q.dir]
    BY <1>1, PathFields
  <1>3. AsDir(p) = [names |-> p.names, dir |-> TRUE] /\ AsFile(p) = [names |-> p.names, dir |-> FALSE]
    BY PathFields
  <1>4. q = AsDir(p) \/ q = AsFile(p)
    BY <1>2, <1>3
  <1> QED BY <1>4, IndexFound

LEMMA CreateDirGood ==
  ASSUME NEW K, NEW st, Good(st, K), NEW p \in Paths
  PROVE  LET r == fs_createDir(st, p) IN
         Good(r.st, K) /\ (Refused(r, st) \/ (Inserted(r, st, DirEntry(p)) /\ p.dir))
  <1> DEFINE r == fs_createDir(st, p)
  <1>1. p \in PathSet
    BY CoreFSAssumption DEF PathSet
  <1>2. /\ p.names \in Seq(Names) /\ Len(p.names) \in Nat /\ p.dir \in BOOLEAN
        /\ AsDir(p) = [names |-> p.names, dir |-> TRUE]
        /\ AsFile(p) = [names |-> p.names, dir |-> FALSE]
        /\ p = [names |-> p.names, dir |-> p.dir]
    BY <1>1, PathFields
  <1>3. CASE /\ p.dir /\ ~ FileInTheWay(st, p) /\ ~ Exists(st, p) /\ ParentsFound(st, p)
    <2>1. r = NewEntry(st, 0, DirEntry(p))
      BY <1>3 DEF fs_createDir
    <2>2. p = AsDir(p)
      BY <1>2, <1>3
    <2>3. ~ Exists(st, AsFile(p))
      <3> SUFFICES ASSUME Exists(st, AsFile(p)) PROVE FALSE
        OBVIOUS
      <3>1. PICK j \in Live(st) : Ent(st, j).name = AsFile(p)
        BY IndexFound
      <3>2. Ent(st, j).type = "FILE"
        <4>1. ~ Ent(st, j).name.dir /\ Ent(st, j) \in Entries
          BY <1>2, <3>1, GoodFields
        <4> QED BY <4>1, EntryFields DEF Good, Shaped
      <3>3. WithinBare(p, AsFile(p))
        <4>1. AsFile(p).names = p.names
          BY <1>2
        <4>2. Len(p.names) > 0 => p.names[Len(p.names)] \in Names
          BY <1>2
        <4>3. Len(p.names) > 0 => <<p.names[Len(p.names)], p.names[Len(p.names)]>> \in NamePrefix
          BY <4>2, CoreFSAssumption
        <4> QED BY <1>2, <4>1, <4>3 DEF WithinBare
      <3> QED BY <1>3, <3>1, <3>2, <3>3 DEF FileInTheWay
    <2>4. \A j \in Live(st) : Ent(st, j).name.names # p.names
      BY <1>1, <1>3, <2>2, <2>3, FreeName
    <2>5. /\ DirEntry(p) \in Entries /\ DirEntry(p).name = p /\ DirEntry(p).type = "DIR"
          /\ DirEntry(p).ftype = "FILE" /\ DirEntry(p).mountslot = NULL
          /\ DirEntry(p).size = Len(DirEntry(p).data)
      BY DEF DirEntry, Entries, Data
    <2>6. BLKSIZE + 0 <= BlockC * BLKSIZE
      BY BlockTableAssumption
    <2> HIDE DEF r
    <2>7. Good(r.st, K) /\ (Refused(r, st) \/ Inserted(r, st, DirEntry(p)))
      BY <1>3, <2>1, <2>4, <2>5, <2>6, NewEntryGood
    <2> QED BY <1>3, <2>7 DEF r
  <1>4. CASE ~ (p.dir /\ ~ FileInTheWay(st, p) /\ ~ Exists(st, p) /\ ParentsFound(st, p))
    <2>1. \E s \in {FAILURE, FILEEXISTS, ALREADYEXISTS, PATHNOTFOUND} : r = Reply(st, s)
      BY <1>4 DEF fs_createDir
    <2> HIDE DEF r
    <2>2. r.st = st /\ r.sts \in Statuses \ {SUCCESS}
      BY <2>1, ReplyFields, StatusesApart
    <2> QED BY <2>2 DEF Refused, r
  <1> QED BY <1>3, <1>4

LEMMA WriteFileGood ==
  ASSUME NEW K, NEW st, Good(st, K), NEW p \in Paths, NEW buf \in Data,
         BLKSIZE + Len(buf) <= BlockC * BLKSIZE
  PROVE  LET r == fs_writeFile(st, p, buf) IN
         /\ Good(r.st, K)
         /\ \/ Refused(r, st)
            \/ /\ ~ p.dir /\ ~ Exists(st, AsDir(p))
               /\ \/ Inserted(r, st, FileEntry(p, buf))
                  \/ Exists(st, p) /\ Rewritten(r, st, fs_index(st, p), buf)
  <1> DEFINE r == fs_writeFile(st, p, buf)
  <1>1. p \in PathSet /\ Len(buf) \in Nat
    BY CoreFSAssumption DEF PathSet
  <1>2. /\ p.names \in Seq(Names) /\ Len(p.names) \in Nat /\ p.dir \in BOOLEAN
        /\ AsDir(p) = [names |-> p.names, dir |-> TRUE]
        /\ AsFile(p) = [names |-> p.names, dir |-> FALSE]
        /\ p = [names |-> p.names, dir |-> p.dir]
    BY <1>1, PathFields
  <1>3. CASE ~ p.dir /\ ~ Exists(st, AsDir(p)) /\ Exists(st, p)
    <2> DEFINE i == fs_index(st, p)
    <2>1. r = Rewrite(st, i, buf)
      BY <1>3 DEF fs_writeFile
    <2>2. i \in Live(st) /\ Ent(st, i).name = p
      BY <1>3, IndexFound
    <2> HIDE DEF i, r
    <2>3. Ent(st, i).type = "FILE"
      <3>1. ~ Ent(st, i).name.dir /\ Ent(st, i) \in Entries
        BY <1>3, <2>2, GoodFields
      <3> QED BY <2>2, <3>1, EntryFields DEF Good, Shaped
    <2>4. r = Reply(st, OUTOFMEMORY) \/ (Good(r.st, K) /\ Rewritten(r, st, i, buf))
      BY <2>1, <2>2, <2>3, RewriteGood
    <2> QED BY <1>3, <2>4, ReplyFields, StatusesApart DEF Refused, r, i
  <1>4. CASE ~ p.dir /\ ~ Exists(st, AsDir(p)) /\ ~ Exists(st, p) /\ ParentsFound(st, p)
    <2>1. r = NewEntry(st, Len(buf), FileEntry(p, buf))
      BY <1>4 DEF fs_writeFile
    <2>2. p = AsFile(p)
      BY <1>2, <1>4
    <2>3. \A j \in Live(st) : Ent(st, j).name.names # p.names
      BY <1>1, <1>4, <2>2, FreeName
    <2>4. /\ FileEntry(p, buf) \in Entries /\ FileEntry(p, buf).name = p
          /\ FileEntry(p, buf).type = "FILE" /\ FileEntry(p, buf).data = buf
          /\ FileEntry(p, buf).ftype = "FILE" /\ FileEntry(p, buf).mountslot = NULL
          /\ FileEntry(p, buf).size = Len(buf)
      BY <1>1 DEF FileEntry, Entries
    <2> HIDE DEF r
    <2>5. Good(r.st, K) /\ (Refused(r, st) \/ Inserted(r, st, FileEntry(p, buf)))
      BY <1>1, <1>4, <2>1, <2>3, <2>4, NewEntryGood
    <2> QED BY <1>4, <2>5 DEF r
  <1>5. CASE \/ p.dir \/ Exists(st, AsDir(p)) \/ (~ Exists(st, p) /\ ~ ParentsFound(st, p))
    <2>1. \E s \in {FAILURE, DIREXISTS, PATHNOTFOUND} : r = Reply(st, s)
      BY <1>5 DEF fs_writeFile
    <2> QED BY <2>1, ReplyFields, StatusesApart DEF Refused
  <1> QED BY <1>3, <1>4, <1>5

\* The entries in is have gone.
Deleted(r, st, is) ==
  /\ r.sts = SUCCESS
  /\ Live(r.st) = Live(st) \ is
  /\ \A j \in Live(r.st) : Ent(r.st, j) = Ent(st, j)
  /\ r.st.MountV = st.MountV

LEMMA DeletedStore ==
  ASSUME NEW K, NEW st, Good(st, K), NEW is \in SUBSET Live(st)
  PROVE  Deleted(Reply(Freed(st, is), SUCCESS), st, is)
  BY GoodFields, FreedEffect, ReplyFields DEF Deleted, Kept

LEMMA RemoveCallGood ==
  ASSUME NEW K, NEW st, Good(st, K), NEW p \in Paths
  PROVE  LET r == fs_remove(st, p) IN
         /\ Good(r.st, K)
         /\ \/ Refused(r, st)
            \/ /\ p # Root /\ Exists(st, p)
               /\ p.dir => \A i \in Below(st, p) : Ent(st, i).name = p
               /\ Deleted(r, st, {fs_index(st, p)})
  <1> DEFINE r == fs_remove(st, p)
             i == fs_index(st, p)
  <1>1. CASE p # Root /\ Exists(st, p) /\ (p.dir => \A j \in Below(st, p) : Ent(st, j).name = p)
    <2>1. r = Reply(Freed(st, {i}), SUCCESS)
      BY <1>1 DEF fs_remove
    <2>2. i \in Live(st) /\ Ent(st, i).name = p
      BY <1>1, IndexFound
    <2> HIDE DEF i, r
    <2>3. ASSUME NEW j \in Live(st) \ {i}, p \in Parents(Ent(st, j).name) PROVE FALSE
      <3> DEFINE q == Ent(st, j).name
      <3>1. q \in PathSet
        BY GoodFields
      <3> HIDE DEF q
      <3>2. p.dir /\ Within(p, q) /\ Len(p.names) < Len(q.names) /\ p \in PathSet
        BY <2>3, <3>1, ParentFields, ParentWithin DEF q
      <3>3. j \in Below(st, p)
        BY <3>2 DEF Below, q
      <3>4. q = p
        BY <1>1, <3>2, <3>3 DEF q
      <3>5. Len(p.names) \in Nat
        BY <3>2, PathFields
      <3> QED BY <3>2, <3>4, <3>5
    <2>4. Good(Freed(st, {i}), K)
      BY <2>2, <2>3, RemoveGood
    <2>5. Deleted(r, st, {i})
      BY <2>1, <2>2, DeletedStore
    <2> QED BY <1>1, <2>1, <2>4, <2>5, ReplyFields DEF i, r
  <1>2. CASE ~ (p # Root /\ Exists(st, p) /\ (p.dir => \A j \in Below(st, p) : Ent(st, j).name = p))
    <2>1. \E s \in {FAILURE, ENTRYNOTFOUND, DIRNOTEMPTY} : r = Reply(st, s)
      BY <1>2 DEF fs_remove
    <2> QED BY <2>1, ReplyFields, StatusesApart DEF Refused
  <1> QED BY <1>1, <1>2

LEMMA BulkRemoveGood ==
  ASSUME NEW K, NEW st, Good(st, K), NEW p \in Paths
  PROVE  LET r == fs_bulkRemove(st, p) IN
         /\ Good(r.st, K)
         /\ \/ Refused(r, st)
            \/ r = fs_remove(st, p)
            \/ Exists(st, p) /\ p.dir /\ Deleted(r, st, Below(st, p))
  <1> DEFINE r == fs_bulkRemove(st, p)
  <1>1. CASE ~ Exists(st, p)
    BY <1>1, ReplyFields, StatusesApart DEF fs_bulkRemove, Refused
  <1>2. CASE Exists(st, p) /\ fs_stat(st, p).type # "DIR"
    <2>1. r = fs_remove(st, p)
      BY <1>2 DEF fs_bulkRemove
    <2> QED BY <2>1, RemoveCallGood
  <1>3. CASE Exists(st, p) /\ fs_stat(st, p).type = "DIR"
    <2> DEFINE is == Below(st, p)
    <2>1. r = Reply(Freed(st, is), SUCCESS)
      BY <1>3 DEF fs_bulkRemove
    <2>2. is \in SUBSET Live(st)
      BY DEF Below
    <2>3. p.dir
      <3>1. /\ fs_index(st, p) \in Live(st)
            /\ Ent(st, fs_index(st, p)).name = p
            /\ Ent(st, fs_index(st, p)).type = "DIR"
        BY <1>3, IndexFound DEF fs_stat
      <3> QED BY <3>1 DEF Good, Shaped
    <2>4. p \in PathSet
      BY CoreFSAssumption DEF PathSet
    <2>5. ASSUME NEW i \in is, NEW j \in Live(st) \ is, Ent(st, i).name \in Parents(Ent(st, j).name)
          PROVE  FALSE
      <3>1. Within(p, Ent(st, i).name) /\ ~ Within(p, Ent(st, j).name)
        BY DEF Below
      <3>2. Ent(st, j).name \in PathSet
        BY GoodFields
      <3> QED BY <2>4, <2>5, <3>1, <3>2, ParentWithin
    <2> HIDE DEF is, r
    <2>6. Good(Freed(st, is), K)
      BY <2>2, <2>5, RemoveGood
    <2>7. Deleted(r, st, is)
      BY <2>1, <2>2, DeletedStore
    <2> QED BY <1>3, <2>1, <2>3, <2>6, <2>7, ReplyFields DEF is, r
  <1> QED BY <1>1, <1>2, <1>3

-----------------------------------------------------------------------------
(* Mounting an archive *)

LEMMA MemberFields ==
  ASSUME NEW m \in Members
  PROVE  /\ m.name \in Paths /\ m.data \in Data /\ m.data # Junk /\ Len(m.data) \in Nat
         /\ [name |-> m.name, data |-> m.data] = m
  <1>1. m \in [name : Paths \ {Root}, data : Data]
    BY CoreFSAssumption
  <1>2. m.name \in Paths /\ m.data \in Data /\ [name |-> m.name, data |-> m.data] = m
    BY <1>1
  <1> QED BY <1>2, CoreFSAssumption

\* Every file is a mounted one.
NoPlainFile(st) == \A i \in Live(st) : Ent(st, i).type = "FILE" => Ent(st, i).ftype = "MOUNTED"

\* What mounting keeps: no entry goes, and no plain file is left behind.
Grown(r, st) ==
  /\ r.sts \in Statuses
  /\ \A p : Exists(st, p) => Exists(r.st, p)
  /\ r.sts = SUCCESS /\ NoPlainFile(st) => NoPlainFile(r.st)

\* After fs_writeFile the file exists, and what existed before.
LEMMA WrittenExists ==
  ASSUME NEW K, NEW st, Good(st, K), NEW p \in Paths, NEW buf \in Data,
         BLKSIZE + Len(buf) <= BlockC * BLKSIZE
  PROVE  LET r == fs_writeFile(st, p, buf) IN
         /\ r.sts \in Statuses
         /\ \A q : Exists(st, q) => Exists(r.st, q)
         /\ r.sts = SUCCESS =>
              \E i \in Live(r.st) :
                /\ Ent(r.st, i).name = p /\ ~ p.dir
                /\ \A j \in Live(r.st) \ {i} : j \in Live(st) /\ Ent(r.st, j) = Ent(st, j)
  <1> DEFINE r == fs_writeFile(st, p, buf)
  <1>1. /\ Good(r.st, K)
        /\ \/ Refused(r, st)
           \/ /\ ~ p.dir /\ ~ Exists(st, AsDir(p))
              /\ \/ Inserted(r, st, FileEntry(p, buf))
                 \/ Exists(st, p) /\ Rewritten(r, st, fs_index(st, p), buf)
    BY WriteFileGood
  <1> HIDE DEF r
  <1>2. CASE Refused(r, st)
    BY <1>2 DEF Refused, r
  <1>3. CASE ~ p.dir /\ Inserted(r, st, FileEntry(p, buf))
    <2>1. PICK i \in Indexes : /\ Live(r.st) = Live(st) \cup {i} /\ i \notin Live(st)
                              /\ Ent(r.st, i) = FileEntry(p, buf)
                              /\ \A j \in Live(st) : Ent(r.st, j) = Ent(st, j)
      BY <1>3 DEF Inserted
    <2>2. FileEntry(p, buf).name = p
      BY DEF FileEntry
    <2>3. \A q : Exists(st, q) => Exists(r.st, q)
      <3> SUFFICES ASSUME NEW q, Exists(st, q) PROVE Exists(r.st, q)
        OBVIOUS
      <3>1. PICK j \in Live(st) : Ent(st, j).name = q
        BY IndexFound
      <3>2. j \in Live(r.st) /\ Ent(r.st, j).name = q
        BY <2>1, <3>1
      <3> QED BY <3>2, IndexFound
    <2>4. r.sts \in Statuses
      BY <1>3, StatusesApart DEF Inserted
    <2> QED BY <1>3, <2>1, <2>2, <2>3, <2>4 DEF r
  <1>4. CASE ~ p.dir /\ Exists(st, p) /\ Rewritten(r, st, fs_index(st, p), buf)
    <2> DEFINE i == fs_index(st, p)
    <2>1. i \in Live(st) /\ Ent(st, i).name = p /\ Ent(st, i) \in Entries
      BY <1>4, IndexFound, GoodFields
    <2>2. [Ent(st, i) EXCEPT !.size = Len(buf), !.data = buf].name = p
      <3> DEFINE e == Ent(st, i)
      <3>1. e \in Entries /\ e.name = p
        BY <2>1
      <3> HIDE DEF e
      <3> QED BY <3>1 DEF Entries, e
    <2> HIDE DEF i
    <2>3. /\ Live(r.st) = Live(st) /\ Ent(r.st, i).name = p
          /\ \A j \in Live(st) \ {i} : Ent(r.st, j) = Ent(st, j)
      <3>1. Ent(r.st, i) = [Ent(st, i) EXCEPT !.size = Len(buf), !.data = buf]
        BY <1>4, Zenon DEF Rewritten, i
      <3>2. Ent(r.st, i).name = p
        BY <2>2, <3>1, Zenon
      <3>3. Live(r.st) = Live(st) /\ \A j \in Live(st) \ {i} : Ent(r.st, j) = Ent(st, j)
        BY <1>4, Zenon DEF Rewritten, i
      <3> QED BY <3>2, <3>3
    <2>4. \A q : Exists(st, q) => Exists(r.st, q)
      <3> SUFFICES ASSUME NEW q, Exists(st, q) PROVE Exists(r.st, q)
        OBVIOUS
      <3>1. PICK j \in Live(st) : Ent(st, j).name = q
        BY IndexFound
      <3>2. j \in Live(r.st) /\ Ent(r.st, j).name = q
        BY <2>1, <2>3, <3>1
      <3> QED BY <3>2, IndexFound
    <2>5. r.sts \in Statuses
      BY <1>4, StatusesApart, Zenon DEF Rewritten
    <2> QED BY <1>4, <2>1, <2>3, <2>4, <2>5 DEF r
  <1> QED BY <1>1, <1>2, <1>3, <1>4

\* File i is made to show the data of member m through slot s.
Pointed(st, i, m, s) ==
  [st EXCEPT !.MountV[s] = m.data,
             !.mem[st.EntryV[i]] = [@ EXCEPT !.ftype = "MOUNTED", !.mountslot = s,
                                             !.size = Len(m.data)]]

LEMMA PointGood ==
  ASSUME NEW K, NEW st, Good(st, K), NEW i \in Live(st), NEW m \in Members,
         Ent(st, i).name = m.name, ~ m.name.dir,
         NEW s \in Slots, st.MountV[s] = Junk
  PROVE  LET new == Pointed(st, i, m, s)
         IN /\ Good(new, K)
            /\ Live(new) = Live(st)
            /\ Ent(new, i).name = Ent(st, i).name
            /\ Ent(new, i).ftype = "MOUNTED"
            /\ \A j \in Live(st) \ {i} : Ent(new, j) = Ent(st, j)
  <1> DEFINE b == st.EntryV[i]
             old == Ent(st, i)
             ent == [old EXCEPT !.ftype = "MOUNTED", !.mountslot = s, !.size = Len(m.data)]
             mid == [st EXCEPT !.MountV[s] = m.data]
             new == [mid EXCEPT !.mem[mid.EntryV[i]] = ent]
  <1>1. /\ m.name \in Paths /\ m.data \in Data /\ m.data # Junk /\ Len(m.data) \in Nat
        /\ [name |-> m.name, data |-> m.data] = m
    BY MemberFields
  <1>2. old \in Entries /\ Owned(st, Entries, Data, K)
    BY GoodFields
  <1>3. old.type = "FILE"
    BY <1>2, EntryFields DEF Good, Shaped
  <1>4. /\ ent \in Entries /\ ent.name = old.name /\ ent.type = old.type
        /\ ent.data = old.data /\ ent.ftype = "MOUNTED" /\ ent.mountslot = s
    <2> HIDE DEF old
    <2> QED BY <1>1, <1>2 DEF Entries
  <1>5. /\ Owned(mid, Entries, Data, K)
        /\ Live(mid) = Live(st)
        /\ mid.EntryV = st.EntryV /\ mid.mem = st.mem /\ mid.tab = st.tab
        /\ mid.MountV = [st.MountV EXCEPT ![s] = m.data]
    BY <1>1, <1>2, SlotEffect
  <1>6. Pointed(st, i, m, s) = new
    <2>1. ent = [st.mem[b] EXCEPT !.ftype = "MOUNTED", !.mountslot = s, !.size = Len(m.data)]
      BY DEF Ent
    <2>2. [st EXCEPT !.MountV[s] = m.data,
                     !.mem[b] = [@ EXCEPT !.ftype = "MOUNTED", !.mountslot = s,
                                          !.size = Len(m.data)]]
            = [st EXCEPT !.MountV[s] = m.data, !.mem[b] = ent]
      BY <2>1, Zenon
    <2>3. mid.EntryV[i] = b
      BY <1>5
    <2> HIDE DEF ent, b
    <2>4. [st EXCEPT !.MountV[s] = m.data, !.mem[b] = ent] = [mid EXCEPT !.mem[b] = ent]
      BY <1>2 DEF Owned, Stores
    <2>5. [mid EXCEPT !.mem[b] = ent] = new
      BY <2>3
    <2> QED BY <2>2, <2>4, <2>5, Zenon DEF ent, b, Pointed
  <1> HIDE DEF ent, mid
  <1>7. Owned(new, Entries, Data, K) /\ Changed(mid, new, i, ent, Extent(mid, i))
    BY <1>4, <1>5, OverwriteEffect
  <1> HIDE DEF new, old
  <1>8. /\ Live(new) = Live(st)
        /\ Ent(new, i) = ent /\ Extent(new, i) = Extent(st, i)
        /\ \A j \in Live(st) \ {i} : Ent(new, j) = Ent(st, j) /\ Extent(new, j) = Extent(st, j)
        /\ new.MountV = [st.MountV EXCEPT ![s] = m.data]
    BY <1>5, <1>7 DEF Changed, Kept, Ent, Extent
  <1>9. \A j \in Live(st) : /\ Ent(new, j).name = Ent(st, j).name
                            /\ Ent(new, j).type = Ent(st, j).type
                            /\ Ent(new, j).data = Ent(st, j).data
    BY <1>4, <1>8 DEF old
  <1>10. Sized(new)
    <2> SUFFICES ASSUME NEW j \in Live(new)
                 PROVE  LET e == Ent(new, j) IN
                        /\ Extent(new, j) = BlocksFor(BLKSIZE + (IF e.type = "FILE" THEN Len(e.data) ELSE 0))
                        /\ e.ftype = "FILE" => e.size = Len(e.data)
      BY DEF Sized
    <2>1. j \in Live(st) /\ Extent(new, j) = Extent(st, j)
      BY <1>8
    <2>2. Extent(new, j) = BlocksFor(BLKSIZE + (IF Ent(new, j).type = "FILE" THEN Len(Ent(new, j).data) ELSE 0))
      BY <1>9, <2>1 DEF Good, Sized
    <2>3. Ent(new, j).ftype = "FILE" => Ent(new, j).size = Len(Ent(new, j).data)
      BY <1>4, <1>8, <2>1 DEF Good, Sized
    <2> QED BY <2>2, <2>3
  <1>11. \A p : Exists(new, p) <=> Exists(st, p)
    BY <1>8, <1>9, IndexFound
  <1>12. Shaped(new)
    BY <1>8, <1>9, <1>11 DEF Good, Shaped, NamesDiffer, ParentsFound
  <1>13. /\ new.MountV[s] = m.data
         /\ \A t \in Slots : st.MountV[t] # Junk => t # s /\ new.MountV[t] = st.MountV[t]
    <2>1. st.MountV \in [Slots -> Data \cup {Junk}]
      BY <1>2, StoreFields
    <2> QED BY <1>8, <2>1
  <1>14. \A j \in Live(st) \ {i} : Ent(st, j).mountslot # s
    <2>1. NULL \notin Slots
      BY NullApart, IndexesNat
    <2> QED BY <1>13, <2>1 DEF Good, SlotsHeld, SlotOf
  <1>15. SlotsHeld(new)
    <2>1. SlotOf(new, i)
      BY <1>1, <1>3, <1>4, <1>8, <1>13 DEF SlotOf, old
    <2>2. \A j \in Live(st) \ {i} : SlotOf(new, j)
      BY <1>8, <1>13 DEF Good, SlotsHeld, SlotOf
    <2>3. ASSUME NEW j \in Live(st), NEW k \in Live(st), j # k, Ent(new, j).ftype = "MOUNTED"
          PROVE  Ent(new, k).mountslot # Ent(new, j).mountslot
      <3>1. CASE j = i
        BY <1>4, <1>8, <1>14, <2>3, <3>1
      <3>2. CASE k = i
        BY <1>4, <1>8, <1>14, <2>3, <3>2
      <3>3. CASE j # i /\ k # i
        BY <1>8, <2>3, <3>3 DEF Good, SlotsHeld
      <3> QED BY <3>1, <3>2, <3>3
    <2> QED BY <1>8, <2>1, <2>2, <2>3 DEF SlotsHeld
  <1>16. Good(new, K)
    BY <1>7, <1>10, <1>12, <1>15 DEF Good
  <1> QED BY <1>4, <1>6, <1>8, <1>9, <1>16 DEF b

LEMMA MountFileGood ==
  ASSUME NEW K, NEW st, Good(st, K), NEW m \in Members
  PROVE  LET r == MountFile(st, m) IN Good(r.st, K) /\ Grown(r, st)
  <1> DEFINE r == MountFile(st, m)
             w == fs_writeFile(st, m.name, <<>>)
             s == mountmgr_getSlot(w.st)
  <1>1. m.name \in Paths /\ <<>> \in Data /\ BLKSIZE + Len(<<>>) <= BlockC * BLKSIZE
    BY MemberFields, BlockTableAssumption DEF Data
  <1>2. Good(w.st, K)
    BY <1>1, WriteFileGood
  <1>3. /\ w.sts \in Statuses
        /\ \A q : Exists(st, q) => Exists(w.st, q)
        /\ w.sts = SUCCESS =>
              \E i \in Live(w.st) :
                /\ Ent(w.st, i).name = m.name /\ ~ m.name.dir
                /\ \A j \in Live(w.st) \ {i} : j \in Live(st) /\ Ent(w.st, j) = Ent(st, j)
    BY <1>1, <1>2, WrittenExists
  <1>4. CASE w.sts # SUCCESS
    <2>1. r = w
      BY <1>4 DEF MountFile
    <2> HIDE DEF w, r
    <2> QED BY <1>2, <1>3, <1>4, <2>1 DEF Grown, r
  <1>5. CASE w.sts = SUCCESS /\ s = NULL
    <2>1. r = Reply(w.st, FAILURE)
      BY <1>5 DEF MountFile
    <2> HIDE DEF w, r
    <2> QED BY <1>2, <1>3, <2>1, ReplyFields, StatusesApart DEF Grown, r
  <1>6. CASE w.sts = SUCCESS /\ s # NULL
    <2> DEFINE i == fs_index(w.st, m.name)
               new == Pointed(w.st, i, m, s)
    <2>1. r = Reply(new, SUCCESS)
      BY <1>6, Zenon DEF MountFile, Pointed
    <2> HIDE DEF w
    <2>2. PICK k \in Live(w.st) :
                /\ Ent(w.st, k).name = m.name /\ ~ m.name.dir
                /\ \A j \in Live(w.st) \ {k} : j \in Live(st) /\ Ent(w.st, j) = Ent(st, j)
      BY <1>3, <1>6
    <2>3. i \in Live(w.st) /\ Ent(w.st, i).name = m.name
      BY <2>2, IndexFound
    <2>4. i = k
      BY <1>2, <2>2, <2>3 DEF Good, Shaped, NamesDiffer
    <2>5. s \in Slots /\ w.st.MountV[s] = Junk
      <3> DEFINE S == {t \in Slots : w.st.MountV[t] = Junk}
      <3>1. S \in SUBSET Nat
        BY IndexesNat
      <3> HIDE DEF S
      <3>2. /\ S = {} => First(S) = NULL
            /\ S # {} => First(S) \in S
        BY <3>1, FirstIn
      <3>3. s = First(S)
        BY DEF mountmgr_getSlot, S
      <3>4. s \in S
        BY <1>6, <3>2, <3>3
      <3> QED BY <3>4 DEF S
    <2> HIDE DEF i, s
    <2>6. /\ Good(new, K)
          /\ Live(new) = Live(w.st)
          /\ Ent(new, i).name = Ent(w.st, i).name
          /\ Ent(new, i).ftype = "MOUNTED"
          /\ \A j \in Live(w.st) \ {i} : Ent(new, j) = Ent(w.st, j)
      BY <1>2, <2>2, <2>3, <2>5, PointGood
    <2> HIDE DEF new, r
    <2>7. r.st = new /\ r.sts = SUCCESS
      BY <2>1, ReplyFields
    <2>8. \A q : Exists(st, q) => Exists(new, q)
      <3>1. \A j \in Live(w.st) : j \in Live(new) /\ Ent(new, j).name = Ent(w.st, j).name
        BY <2>6
      <3>2. \A q : Exists(w.st, q) => Exists(new, q)
        BY <3>1, IndexFound
      <3> QED BY <1>3, <3>2
    <2>9. NoPlainFile(st) => NoPlainFile(new)
      BY <2>2, <2>4, <2>6 DEF NoPlainFile
    <2> QED BY <2>6, <2>7, <2>8, <2>9, StatusesApart DEF Grown, r
  <1> QED BY <1>4, <1>5, <1>6

LEMMA MountMemberGood ==
  ASSUME NEW K, NEW st, Good(st, K), NEW m \in Members
  PROVE  LET r == Mount(Reply(st, SUCCESS), m) IN Good(r.st, K) /\ Grown(r, st)
  <1> DEFINE r == Mount(Reply(st, SUCCESS), m)
  <1>1. CASE ~ m.name.dir
    <2>1. r = MountFile(st, m)
      BY <1>1, ReplyFields DEF Mount
    <2> QED BY <2>1, MountFileGood
  <1>2. CASE m.name.dir
    <2>1. r = fs_createDir(st, m.name)
      BY <1>2, ReplyFields DEF Mount, MountDir
    <2>2. m.name \in Paths
      BY MemberFields
    <2>3. Good(r.st, K) /\ (Refused(r, st) \/ (Inserted(r, st, DirEntry(m.name)) /\ m.name.dir))
      BY <2>1, <2>2, CreateDirGood
    <2> HIDE DEF r
    <2>4. CASE Refused(r, st)
      BY <2>3, <2>4 DEF Refused, Grown, r
    <2>5. CASE Inserted(r, st, DirEntry(m.name))
      <3>1. PICK i \in Indexes : /\ Live(r.st) = Live(st) \cup {i}
                                /\ Ent(r.st, i) = DirEntry(m.name)
                                /\ \A j \in Live(st) : Ent(r.st, j) = Ent(st, j)
        BY <2>5 DEF Inserted
      <3>2. \A q : Exists(st, q) => Exists(r.st, q)
        BY <3>1, IndexFound
      <3>3. NoPlainFile(st) => NoPlainFile(r.st)
        BY <3>1 DEF NoPlainFile, DirEntry
      <3>4. r.sts \in Statuses
        BY <2>5, StatusesApart DEF Inserted
      <3> QED BY <2>3, <3>2, <3>3, <3>4 DEF Grown, r
    <2> QED BY <2>3, <2>4, <2>5
  <1> QED BY <1>1, <1>2

\* A step that changes no entry.
LEMMA SameGood ==
  ASSUME NEW K, NEW st, Good(st, K), NEW N, NEW new, Owned(new, Entries, Data, N),
         Live(new) = Live(st), \A j \in Live(st) : Kept(st, new, j), new.MountV = st.MountV
  PROVE  Good(new, N) /\ \A p : Exists(new, p) <=> Exists(st, p)
  <1>1. \A j \in Live(st) : Ent(new, j) = Ent(st, j) /\ Extent(new, j) = Extent(st, j)
    BY DEF Kept
  <1>2. \A p : Exists(new, p) <=> Exists(st, p)
    BY <1>1, IndexFound
  <1>3. Sized(new)
    BY <1>1 DEF Good, Sized
  <1>4. Shaped(new)
    BY <1>1, <1>2 DEF Good, Shaped, NamesDiffer, ParentsFound
  <1>5. SlotsHeld(new)
    BY <1>1 DEF Good, SlotsHeld, SlotOf
  <1> QED BY <1>2, <1>3, <1>4, <1>5 DEF Good

LEMMA HoldGood ==
  ASSUME NEW K, NEW st, Good(st, K), NEW n \in 1 .. (BlockC * BLKSIZE), MallocAt(st.tab, n) # NULL
  PROVE  LET new == [st EXCEPT !.tab = Malloced(@, n)]
             b == MallocAt(st.tab, n)
         IN /\ Good(new, K \cup {b}) /\ b \notin K
            /\ Live(new) = Live(st) /\ \A j \in Live(st) : Ent(new, j) = Ent(st, j)
            /\ \A p : Exists(new, p) <=> Exists(st, p)
            /\ new.MountV = st.MountV
  <1> DEFINE new == [st EXCEPT !.tab = Malloced(@, n)]
             b == MallocAt(st.tab, n)
  <1>0. Owned(st, Entries, Data, K)
    BY GoodFields
  <1>1. /\ Owned(new, Entries, Data, K \cup {b}) /\ b \notin K
        /\ Live(new) = Live(st)
        /\ \A j \in Live(st) : Kept(st, new, j)
        /\ new.MountV = st.MountV
    BY <1>0, HoldEffect
  <1> HIDE DEF new, b
  <1>2. Good(new, K \cup {b}) /\ \A p : Exists(new, p) <=> Exists(st, p)
    BY <1>1, SameGood
  <1> QED BY <1>1, <1>2 DEF new, b, Kept

LEMMA UnholdGood ==
  ASSUME NEW K, NEW st, Good(st, K), NEW b \in K
  PROVE  LET new == [st EXCEPT !.tab = Unmark(@, b)]
         IN /\ Good(new, K \ {b})
            /\ Live(new) = Live(st) /\ \A j \in Live(st) : Ent(new, j) = Ent(st, j)
            /\ new.MountV = st.MountV
  <1> DEFINE new == [st EXCEPT !.tab = Unmark(@, b)]
  <1>0. Owned(st, Entries, Data, K)
    BY GoodFields
  <1>1. /\ Owned(new, Entries, Data, K \ {b})
        /\ Live(new) = Live(st)
        /\ \A j \in Live(st) : Kept(st, new, j)
        /\ new.MountV = st.MountV
    BY <1>0, UnholdEffect
  <1> HIDE DEF new
  <1>2. Good(new, K \ {b})
    BY <1>1, SameGood
  <1> QED BY <1>1, <1>2 DEF new, Kept

\* g holds the reply after each of the first L members.
Replies(base, archive, L, g) ==
  g = [n \in 0 .. L |-> IF n = 0 THEN base ELSE Mount(g[n - 1], archive[n])]

LEMMA MountLoop ==
  ASSUME NEW base, NEW archive, NEW L \in Nat
  PROVE  \E g : Replies(base, archive, L, g)
  <1> DEFINE Computed(k) == \E g : Replies(base, archive, k, g)
             S == {k \in Nat : ~ Computed(k)}
  <1>1. ASSUME S # {} PROVE FALSE
    <2>1. PICK k \in S : \A j \in S : k <= j
      <3>1. S \in SUBSET Nat
        OBVIOUS
      <3> HIDE DEF S
      <3> QED BY <1>1, <3>1, NatLeast
    <2>2. CASE k = 0
      <3> DEFINE g == [n \in 0 .. 0 |-> base]
      <3>1. g = [n \in 0 .. 0 |-> IF n = 0 THEN base ELSE Mount(g[n - 1], archive[n])]
        OBVIOUS
      <3>2. Computed(0)
        BY <3>1 DEF Replies
      <3> QED BY <2>1, <2>2, <3>2
    <2>3. CASE k # 0
      <3>1. k \in Nat /\ k - 1 \in Nat /\ k - 1 \notin S
        <4>1. k \in Nat
          BY <2>1
        <4> HIDE DEF S
        <4> QED BY <2>1, <2>3, <4>1
      <3>2. PICK g : g = [n \in 0 .. (k - 1) |-> IF n = 0 THEN base ELSE Mount(g[n - 1], archive[n])]
        BY <3>1 DEF Replies
      <3> DEFINE h == [n \in 0 .. k |-> IF n = k THEN Mount(g[k - 1], archive[k]) ELSE g[n]]
      <3>3. ASSUME NEW n \in 0 .. k
            PROVE  h[n] = IF n = 0 THEN base ELSE Mount(h[n - 1], archive[n])
        <4>1. CASE n = k
          BY <2>3, <3>1, <4>1
        <4>2. CASE n # k
          <5>1. n \in 0 .. (k - 1) /\ h[n] = g[n]
            BY <3>1, <4>2
          <5>2. n # 0 => n - 1 \in 0 .. k /\ n - 1 # k /\ h[n - 1] = g[n - 1]
            BY <3>1, <4>2
          <5>3. g[n] = IF n = 0 THEN base ELSE Mount(g[n - 1], archive[n])
            BY <3>2, <5>1
          <5> HIDE DEF h
          <5> QED BY <5>1, <5>2, <5>3
        <4> QED BY <4>1, <4>2
      <3>4. h = [n \in 0 .. k |-> h[n]]
        OBVIOUS
      <3> HIDE DEF h
      <3>5. h = [n \in 0 .. k |-> IF n = 0 THEN base ELSE Mount(h[n - 1], archive[n])]
        BY <3>3, <3>4
      <3>6. Computed(k)
        BY <3>5 DEF Replies
      <3> QED BY <2>1, <3>6
    <2> QED BY <2>2, <2>3
  <1>2. Computed(L)
    BY <1>1
  <1> QED BY <1>2

LEMMA ArchiveGood ==
  ASSUME NEW K, NEW st, Good(st, K), NEW archive \in Archives
  PROVE  LET r == tarfs_mount(st, archive)
             b == MallocAt(st.tab, PathBytes)
         IN Good(r.st, K \cup ({b} \ {NULL})) /\ Grown(r, st)
  <1> DEFINE r == tarfs_mount(st, archive)
             b == MallocAt(st.tab, PathBytes)
             first == [st EXCEPT !.tab = Malloced(@, PathBytes)]
             base == Reply(first, SUCCESS)
             L == Len(archive)
             N == K \cup {b}
  <1>1. archive \in Seq(Members) /\ L \in Nat /\ \A n \in 1 .. L : archive[n] \in Members
    BY CoreFSAssumption
  <1>2. CASE b = NULL
    <2>1. r = Reply(st, FAILURE)
      BY <1>2 DEF tarfs_mount
    <2>2. K \cup ({b} \ {NULL}) = K
      BY <1>2
    <2>3. Grown(r, st)
      BY <2>1, ReplyFields, StatusesApart DEF Grown
    <2> QED BY <2>1, <2>2, <2>3, ReplyFields
  <1>3. CASE b # NULL
    <2>1. PathBytes \in 1 .. (BlockC * BLKSIZE)
      BY CoreFSAssumption
    <2>2. /\ Good(first, N)
          /\ Live(first) = Live(st) /\ \A j \in Live(st) : Ent(first, j) = Ent(st, j)
          /\ \A p : Exists(first, p) <=> Exists(st, p)
      BY <1>3, <2>1, HoldGood
    <2> DEFINE m == CHOOSE g : Replies(base, archive, L, g)
    <2>3. r = m[L]
      BY <1>3 DEF tarfs_mount, Replies
    <2> HIDE DEF base, L, N, first
    <2>4. m = [n \in 0 .. L |-> IF n = 0 THEN base ELSE Mount(m[n - 1], archive[n])]
      <3>1. \E g : Replies(base, archive, L, g)
        BY <1>1, MountLoop
      <3>2. Replies(base, archive, L, m)
        BY <3>1
      <3> HIDE DEF m
      <3> QED BY <3>2 DEF Replies
    <2> HIDE DEF m, r
    <2> DEFINE Done(q) == Good(q.st, N) /\ Grown(q, st)
    <2>5. Done(m[0])
      <3>1. m[0] = base
        BY <1>1, <2>4
      <3>2. base.st = first /\ base.sts = SUCCESS
        BY ReplyFields DEF base
      <3>3. Grown(base, st)
        BY <2>2, <3>2, StatusesApart DEF Grown, NoPlainFile
      <3> QED BY <2>2, <3>1, <3>2, <3>3
    <2>6. ASSUME NEW n \in 1 .. L, Done(m[n - 1]) PROVE Done(m[n])
      <3> DEFINE q == m[n - 1]
      <3>1. n \in 0 .. L /\ n # 0
        BY <1>1
      <3>2. m[n] = Mount(q, archive[n])
        BY <2>4, <3>1
      <3> HIDE DEF q
      <3>3. Good(q.st, N) /\ Grown(q, st)
        BY <2>6 DEF q
      <3>4. CASE q.sts # SUCCESS
        <4>1. m[n] = q
          BY <3>2, <3>4 DEF Mount
        <4> QED BY <3>3, <4>1
      <3>5. CASE q.sts = SUCCESS
        <4> DEFINE u == Mount(Reply(q.st, SUCCESS), archive[n])
        <4>1. m[n] = u
          BY <3>2, <3>5, ReplyFields DEF Mount
        <4>2. archive[n] \in Members
          BY <1>1
        <4>3. Good(u.st, N) /\ Grown(u, q.st)
          BY <3>3, <4>2, MountMemberGood
        <4> HIDE DEF u
        <4>4. Grown(u, st)
          BY <3>3, <3>5, <4>3 DEF Grown
        <4> QED BY <4>1, <4>3, <4>4
      <3> QED BY <3>4, <3>5
    <2>7. Done(m[L])
      <3> DEFINE S == {n \in 0 .. L : ~ Done(m[n])}
      <3>1. ASSUME S # {} PROVE FALSE
        <4>1. S \in SUBSET Nat
          BY <1>1
        <4>2. PICK n \in S : \A j \in S : n <= j
          <5> HIDE DEF S
          <5> QED BY <3>1, <4>1, NatLeast
        <4> HIDE DEF Done
        <4>3. n # 0 /\ n \in 1 .. L
          BY <1>1, <2>5, <4>2
        <4>4. n - 1 \in 0 .. L /\ n - 1 \notin S
          BY <1>1, <4>2, <4>3
        <4>5. Done(m[n - 1])
          BY <4>4
        <4> QED BY <2>6, <4>2, <4>3, <4>5
      <3> HIDE DEF Done
      <3> QED BY <1>1, <3>1
    <2>8. K \cup ({b} \ {NULL}) = N
      BY <1>3 DEF N
    <2> QED BY <2>3, <2>7, <2>8 DEF r
  <1> QED BY <1>2, <1>3

-----------------------------------------------------------------------------
(***************************************************************************)
(* The inductive invariant.  The store is good, with the regions that the  *)
(* file system keeps and those of the other components as the regions that *)
(* belong to no entry.                                                     *)
(***************************************************************************)
CoreFSInv ==
  /\ Good(fs, kept \cup others)
  /\ kept \cap others = {}
  /\ phase \in {"corefs_init", "mountmgr_init", "tarfs_mount", "run", "panic"}
  /\ sts \in Statuses
  /\ phase = "corefs_init" => Live(fs) = {} /\ kept = {}

LEMMA CoreFSInit == Init => CoreFSInv
  <1> SUFFICES ASSUME Init PROVE CoreFSInv
    OBVIOUS
  <1>1. PICK n \in 0 .. BlockC :
          /\ fs = [EntryV |-> [i \in Indexes |-> NULL],
                   mem |-> [b \in Blocks |-> Junk],
                   tab |-> IF n = 0 THEN EmptyTable ELSE Mark(EmptyTable, 0, n),
                   MountV |-> [s \in Slots |-> Junk]]
          /\ others = IF n = 0 THEN {} ELSE {0}
    BY DEF Init
  <1>2. fs.tab \in Table /\ TableSound(fs.tab) /\ Heads(fs.tab) = others
    <2>1. CASE n = 0
      BY <1>1, <2>1, FirstBlocksHeld
    <2>2. CASE n # 0
      <3>1. n \in 1 .. BlockC
        BY <2>2, BlockTableAssumption
      <3> QED BY <1>1, <2>2, <3>1, FirstBlocksHeld
    <2> QED BY <2>1, <2>2
  <1>3. others \subseteq Blocks
    BY <1>2 DEF Heads
  <1>4. fs \in Stores(Entries, Data) /\ Live(fs) = {}
    <2>1. /\ fs.EntryV = [i \in Indexes |-> NULL]
          /\ fs.mem = [b \in Blocks |-> Junk]
          /\ fs.MountV = [s \in Slots |-> Junk]
          /\ fs = [EntryV |-> fs.EntryV, mem |-> fs.mem, tab |-> fs.tab, MountV |-> fs.MountV]
      BY <1>1
    <2>2. Live(fs) = {}
      BY <2>1 DEF Live
    <2>3. /\ fs.EntryV \in [Indexes -> Blocks \cup {NULL}]
          /\ fs.mem \in [Blocks -> Entries \cup {Junk}]
          /\ fs.MountV \in [Slots -> Data \cup {Junk}]
      BY <2>1
    <2> QED BY <1>2, <2>1, <2>2, <2>3 DEF Stores
  <1>5. kept = {} /\ sts = SUCCESS /\ phase = "corefs_init"
    BY DEF Init
  <1>6. Owned(fs, Entries, Data, kept \cup others)
    BY <1>2, <1>3, <1>4, <1>5 DEF Owned
  <1>7. Good(fs, kept \cup others)
    BY <1>4, <1>6 DEF Good, Sized, Shaped, NamesDiffer, SlotsHeld
  <1> QED BY <1>4, <1>5, <1>7, StatusesApart DEF CoreFSInv

\* corefs_init takes its four regions.  The store then holds the root.
LEMMA InitStep ==
  ASSUME CoreFSInv, corefs_init
  PROVE  /\ CoreFSInv'
         /\ \/ phase' = "panic" /\ UNCHANGED fs
            \/ /\ phase' = "mountmgr_init"
               /\ (Live(fs) = {FS_ROOTDIR})' /\ (Ent(fs, FS_ROOTDIR) = DirEntry(Root))'
  <1> DEFINE t1 == Malloced(fs.tab, EntryVBytes)
             t2 == Malloced(t1, BLKSIZE)
             t3 == Malloced(t2, EntryVBytes)
             a1 == MallocAt(fs.tab, EntryVBytes)
             root == MallocAt(t1, BLKSIZE)
             a3 == MallocAt(t2, EntryVBytes)
             a4 == MallocAt(t3, PathBytes)
             got == {a1, root, a3, a4}
  <1>1. CASE NULL \in got /\ Panic /\ UNCHANGED <<sts, others>>
    <2>1. phase' = "panic" /\ fs' = fs /\ kept' = kept /\ sts' = sts /\ others' = others
      BY <1>1 DEF Panic
    <2>2. CoreFSInv'
      BY <2>1 DEF CoreFSInv
    <2> QED BY <2>1, <2>2
  <1>2. CASE /\ NULL \notin got
             /\ fs' = [fs EXCEPT !.EntryV[FS_ROOTDIR] = root, !.mem[root] = DirEntry(Root),
                                 !.tab = Malloced(t3, PathBytes)]
             /\ kept' = got \ {root}
             /\ phase' = "mountmgr_init"
             /\ UNCHANGED <<sts, others>>
    <2> DEFINE s1 == [fs EXCEPT !.tab = Malloced(@, EntryVBytes)]
               s2 == [s1 EXCEPT !.EntryV[FS_ROOTDIR] = root, !.mem[root] = DirEntry(Root),
                                !.tab = Malloced(@, BLKSIZE)]
               s3 == [s2 EXCEPT !.tab = Malloced(@, EntryVBytes)]
               s4 == [s3 EXCEPT !.tab = Malloced(@, PathBytes)]
    <2>0. /\ a1 # NULL /\ root # NULL /\ a3 # NULL /\ a4 # NULL
          /\ EntryVBytes \in 1 .. (BlockC * BLKSIZE) /\ PathBytes \in 1 .. (BlockC * BLKSIZE)
          /\ BLKSIZE \in 1 .. (BlockC * BLKSIZE)
          /\ FS_ROOTDIR \in Indexes
      <3>1. FS_ROOTDIR \in Indexes
        BY CoreFSAssumption DEF FS_ROOTDIR, Indexes
      <3>2. BLKSIZE \in 1 .. (BlockC * BLKSIZE)
        BY BlockTableAssumption
      <3> QED BY <1>2, <3>1, <3>2, CoreFSAssumption
    <2>1. Good(fs, others) /\ Live(fs) = {} /\ fs \in Stores(Entries, Data)
      BY DEF CoreFSInv, corefs_init, Good, Owned
    <2> HIDE DEF t2, t3, a1, root, a3, a4
    <2>2. Good(s1, others \cup {a1}) /\ a1 \notin others /\ Live(s1) = {}
      BY <2>0, <2>1, HoldGood DEF a1
    <2>3. s1.tab = t1 /\ s1 \in Stores(Entries, Data)
      BY <2>1, <2>2 DEF Stores, Good, Owned
    <2>4. /\ DirEntry(Root) \in Entries /\ DirEntry(Root).name = Root /\ DirEntry(Root).type = "DIR"
          /\ DirEntry(Root).ftype = "FILE" /\ DirEntry(Root).mountslot = NULL
          /\ DirEntry(Root).size = Len(DirEntry(Root).data)
      BY CoreFSAssumption DEF DirEntry, Entries, Data
    <2> HIDE DEF s1, t1
    <2>5. Owned(s2, Entries, Data, others \cup {a1})
          /\ Added(s1, s2, FS_ROOTDIR, DirEntry(Root), BlocksFor(BLKSIZE))
      <3>1. MallocAt(s1.tab, BLKSIZE) = root
        BY <2>3 DEF root
      <3>2. Owned(s1, Entries, Data, others \cup {a1})
        BY <2>2 DEF Good
      <3> QED BY <2>0, <2>2, <2>4, <3>1, <3>2, PlaceEffect
    <2>6. s2.tab = t2 /\ s2.EntryV[FS_ROOTDIR] = root /\ s2 \in Stores(Entries, Data)
      <3>1. s1.EntryV \in [Indexes -> Blocks \cup {NULL}]
        BY <2>3 DEF Stores
      <3>2. s2 \in Stores(Entries, Data)
        BY <2>5 DEF Owned
      <3> QED BY <2>0, <2>3, <3>1, <3>2 DEF Stores, t2
    <2> HIDE DEF s2
    <2>7. Good(s2, others \cup {a1})
      <3>1. BlocksFor(BLKSIZE) =
              BlocksFor(BLKSIZE + (IF DirEntry(Root).type = "FILE" THEN Len(DirEntry(Root).data) ELSE 0))
        BY <2>4, BlockTableAssumption
      <3>2. Parents(Root) = {} /\ Root.dir
        BY DEF Parents, Root
      <3>3. ParentsFound(s1, DirEntry(Root).name)
        BY <2>4, <3>2 DEF ParentsFound
      <3> QED BY <2>2, <2>4, <2>5, <3>1, <3>2, <3>3, AddGood
    <2>71. Live(s2) = {FS_ROOTDIR} /\ Ent(s2, FS_ROOTDIR) = DirEntry(Root)
      BY <2>2, <2>5 DEF Added
    <2>8. /\ Good(s3, (others \cup {a1}) \cup {a3}) /\ a3 \notin others \cup {a1}
          /\ Live(s3) = Live(s2) /\ \A j \in Live(s2) : Ent(s3, j) = Ent(s2, j)
      BY <2>0, <2>6, <2>7, HoldGood DEF a3
    <2>9. s3.tab = t3 /\ s3.EntryV = s2.EntryV /\ s3 \in Stores(Entries, Data)
      BY <2>6, <2>8 DEF Stores, Good, Owned, t3
    <2> HIDE DEF s3
    <2>10. /\ Good(s4, ((others \cup {a1}) \cup {a3}) \cup {a4})
           /\ a4 \notin (others \cup {a1}) \cup {a3}
           /\ Live(s4) = Live(s3) /\ \A j \in Live(s3) : Ent(s4, j) = Ent(s3, j)
      BY <2>0, <2>8, <2>9, HoldGood DEF a4
    <2>11. s4 = fs'
      <3>1. s2 = [fs EXCEPT !.EntryV[FS_ROOTDIR] = root, !.mem[root] = DirEntry(Root), !.tab = t2]
        BY <2>1, <2>3, <2>6 DEF s1, s2, Stores
      <3>2. s4 = [s2 EXCEPT !.tab = Malloced(t3, PathBytes)]
        BY <2>6, <2>9 DEF s3, Stores
      <3>3. [s2 EXCEPT !.tab = Malloced(t3, PathBytes)] =
              [fs EXCEPT !.EntryV[FS_ROOTDIR] = root, !.mem[root] = DirEntry(Root),
                         !.tab = Malloced(t3, PathBytes)]
        BY <2>1, <3>1 DEF Stores
      <3> QED BY <1>2, <3>2, <3>3
    <2>12. root \notin {a1, a3, a4}
      <3> DEFINE K4 == ((others \cup {a1}) \cup {a3}) \cup {a4}
      <3>1. s4.EntryV = s3.EntryV
        BY <2>9 DEF Stores
      <3>2. s4.EntryV[FS_ROOTDIR] = root
        BY <2>6, <2>9, <3>1
      <3> HIDE DEF s4
      <3>3. FS_ROOTDIR \in Live(s4)
        BY <2>0, <3>2 DEF Live
      <3>4. root \notin K4
        BY <2>10, <3>2, <3>3 DEF Good, Owned
      <3> QED BY <3>4
    <2>13. kept' = {a1, a3, a4} /\ others' = others /\ sts' = sts
      BY <1>2, <2>12
    <2>14. ((others \cup {a1}) \cup {a3}) \cup {a4} = kept' \cup others'
      BY <2>13
    <2>15. Good(fs', kept' \cup others')
      BY <2>10, <2>11, <2>14
    <2>16. kept' \cap others' = {}
      BY <2>2, <2>8, <2>10, <2>13
    <2>17. Live(s4) = {FS_ROOTDIR} /\ Ent(s4, FS_ROOTDIR) = DirEntry(Root)
      BY <2>71, <2>8, <2>10
    <2>18. (Live(fs) = {FS_ROOTDIR})' /\ (Ent(fs, FS_ROOTDIR) = DirEntry(Root))'
      <3> HIDE DEF s4
      <3> QED BY <2>11, <2>17 DEF Live, Ent
    <2> QED BY <1>2, <2>13, <2>15, <2>16, <2>18 DEF CoreFSInv
  <1> QED BY <1>1, <1>2 DEF corefs_init

\* A call of a process that leaves a good store and answers a status.
LEMMA CallStep ==
  ASSUME CoreFSInv, NEW r, Call(r), Good(r.st, kept \cup others), r.sts \in Statuses
  PROVE  CoreFSInv'
  BY DEF CoreFSInv, Call

LEMMA CoreFSNext == CoreFSInv /\ [Next]_vars => CoreFSInv'
  <1> SUFFICES ASSUME CoreFSInv, [Next]_vars PROVE CoreFSInv'
    OBVIOUS
  <1> DEFINE K == kept \cup others
  <1>0. Good(fs, K) /\ fs \in Stores(Entries, Data)
    BY DEF CoreFSInv, Good, Owned
  <1>1. CASE corefs_init
    BY <1>1, InitStep
  <1>2. CASE mountmgr_init
    <2> DEFINE b == MallocAt(fs.tab, MountVBytes)
    <2>1. CASE b = NULL
      <3>1. phase' = "panic" /\ fs' = fs /\ kept' = kept /\ sts' = sts /\ others' = others
        BY <1>2, <2>1 DEF mountmgr_init, Panic
      <3> QED BY <3>1 DEF CoreFSInv
    <2>2. CASE b # NULL
      <3>1. /\ fs' = [fs EXCEPT !.tab = Malloced(@, MountVBytes)]
            /\ kept' = kept \cup {b} /\ phase' = "tarfs_mount" /\ sts' = sts /\ others' = others
        BY <1>2, <2>2 DEF mountmgr_init
      <3>2. MountVBytes \in 1 .. (BlockC * BLKSIZE)
        BY CoreFSAssumption
      <3>3. Good(fs', K \cup {b}) /\ b \notin K
        BY <1>0, <2>2, <3>1, <3>2, HoldGood
      <3>4. K \cup {b} = kept' \cup others'
        BY <3>1
      <3>5. Good(fs', kept' \cup others')
        BY <3>3, <3>4
      <3>6. kept' \cap others' = {}
        BY <3>1, <3>3 DEF CoreFSInv
      <3> QED BY <3>1, <3>5, <3>6 DEF CoreFSInv
    <2> QED BY <2>1, <2>2
  <1>3. CASE MountModule
    <2>1. PICK archive \in Archives :
            \/ archive = <<>> /\ phase' = "run" /\ UNCHANGED <<fs, kept, sts>>
            \/ /\ archive # <<>>
               /\ fs' = tarfs_mount(fs, archive).st
               /\ kept' = kept \cup ({MallocAt(fs.tab, PathBytes)} \ {NULL})
               /\ sts' = tarfs_mount(fs, archive).sts
               /\ phase' = IF tarfs_mount(fs, archive).sts = SUCCESS THEN "run" ELSE "panic"
      BY <1>3 DEF MountModule
    <2>2. others' = others
      BY <1>3 DEF MountModule
    <2>3. CASE archive = <<>> /\ phase' = "run" /\ UNCHANGED <<fs, kept, sts>>
      BY <2>2, <2>3 DEF CoreFSInv
    <2>4. CASE /\ fs' = tarfs_mount(fs, archive).st
               /\ kept' = kept \cup ({MallocAt(fs.tab, PathBytes)} \ {NULL})
               /\ sts' = tarfs_mount(fs, archive).sts
               /\ phase' = IF tarfs_mount(fs, archive).sts = SUCCESS THEN "run" ELSE "panic"
      <3> DEFINE b == MallocAt(fs.tab, PathBytes)
                 r == tarfs_mount(fs, archive)
      <3>1. Good(r.st, K \cup ({b} \ {NULL})) /\ Grown(r, fs)
        BY <1>0, ArchiveGood
      <3>2. b \notin K
        <4>1. PathBytes \in 1 .. (BlockC * BLKSIZE)
          BY CoreFSAssumption
        <4>2. b # NULL => b \notin K
          BY <1>0, <4>1, HoldGood
        <4>3. K \subseteq Blocks
          BY <1>0 DEF Good, Owned
        <4> QED BY <4>2, <4>3, NullApart
      <3>3. K \cup ({b} \ {NULL}) = kept' \cup others'
        BY <2>2, <2>4
      <3>4. Good(fs', kept' \cup others')
        BY <2>4, <3>1, <3>3
      <3>5. kept' \cap others' = {}
        BY <2>2, <2>4, <3>2 DEF CoreFSInv
      <3>6. sts' \in Statuses
        BY <2>4, <3>1 DEF Grown
      <3>7. phase' \in {"run", "panic"}
        BY <2>4
      <3> QED BY <3>4, <3>5, <3>6, <3>7 DEF CoreFSInv
    <2> QED BY <2>1, <2>3, <2>4
  <1>4. ASSUME NEW p \in Paths, CreateDir(p) PROVE CoreFSInv'
    <2> DEFINE r == fs_createDir(fs, p)
    <2>1. Good(r.st, K) /\ (Refused(r, fs) \/ (Inserted(r, fs, DirEntry(p)) /\ p.dir))
      BY <1>0, CreateDirGood
    <2>2. Call(r)
      BY <1>4 DEF CreateDir
    <2> HIDE DEF r
    <2>3. r.sts \in Statuses
      BY <2>1, StatusesApart DEF Refused, Inserted
    <2> QED BY <2>1, <2>2, <2>3, CallStep
  <1>5. ASSUME NEW p \in Paths, RemoveEntry(p) PROVE CoreFSInv'
    <2> DEFINE r == fs_remove(fs, p)
    <2>1. Good(r.st, K) /\ r.sts \in Statuses
      BY <1>0, RemoveCallGood, StatusesApart DEF Refused, Deleted
    <2>2. Call(r)
      BY <1>5 DEF RemoveEntry
    <2> HIDE DEF r
    <2> QED BY <2>1, <2>2, CallStep
  <1>6. ASSUME NEW p \in Paths, BulkRemove(p) PROVE CoreFSInv'
    <2> DEFINE r == fs_bulkRemove(fs, p)
    <2>1. fs_remove(fs, p).sts \in Statuses
      BY <1>0, RemoveCallGood, StatusesApart DEF Refused, Deleted
    <2>2. Good(r.st, K) /\ r.sts \in Statuses
      BY <1>0, <2>1, BulkRemoveGood, StatusesApart DEF Refused, Deleted
    <2>3. Call(r)
      BY <1>6 DEF BulkRemove
    <2> HIDE DEF r
    <2> QED BY <2>2, <2>3, CallStep
  <1>7. ASSUME NEW p \in Paths, NEW buf \in Buffers, WriteFile(p, buf) PROVE CoreFSInv'
    <2> DEFINE r == fs_writeFile(fs, p, buf)
    <2>1. buf \in Data /\ BLKSIZE + Len(buf) <= BlockC * BLKSIZE
      BY CoreFSAssumption DEF Data
    <2>2. Good(r.st, K)
      BY <1>0, <2>1, WriteFileGood
    <2>3. r.sts \in Statuses
      BY <1>0, <2>1, WrittenExists
    <2>4. Call(r)
      BY <1>7 DEF WriteFile
    <2> HIDE DEF r
    <2> QED BY <2>2, <2>3, <2>4, CallStep
  <1>8. CASE OtherMalloc
    <2> DEFINE b == MallocAt(fs.tab, BLKSIZE)
    <2>1. /\ phase = "run" /\ others = {} /\ b # NULL
          /\ fs' = [fs EXCEPT !.tab = Malloced(@, BLKSIZE)]
          /\ others' = {b} /\ phase' = phase /\ sts' = sts /\ kept' = kept
      BY <1>8 DEF OtherMalloc
    <2>2. BLKSIZE \in 1 .. (BlockC * BLKSIZE)
      BY BlockTableAssumption
    <2>3. Good(fs', K \cup {b}) /\ b \notin K
      BY <1>0, <2>1, <2>2, HoldGood
    <2>4. K \cup {b} = kept' \cup others'
      BY <2>1
    <2>5. Good(fs', kept' \cup others')
      BY <2>3, <2>4
    <2>6. kept' \cap others' = {}
      BY <2>1, <2>3
    <2> QED BY <2>1, <2>5, <2>6 DEF CoreFSInv
  <1>9. CASE OtherFree
    <2>1. PICK b \in others : /\ fs' = [fs EXCEPT !.tab = Unmark(@, b)]
                              /\ others' = others \ {b}
      BY <1>9 DEF OtherFree
    <2>2. phase = "run" /\ phase' = phase /\ sts' = sts /\ kept' = kept
      BY <1>9 DEF OtherFree
    <2>3. b \in K /\ b \notin kept
      BY DEF CoreFSInv
    <2>4. Good(fs', K \ {b})
      BY <1>0, <2>1, <2>3, UnholdGood
    <2>5. K \ {b} = kept' \cup others'
      BY <2>1, <2>2, <2>3
    <2>6. Good(fs', kept' \cup others')
      BY <2>4, <2>5
    <2>7. kept' \cap others' = {}
      BY <2>1, <2>2 DEF CoreFSInv
    <2> QED BY <2>2, <2>6, <2>7 DEF CoreFSInv
  <1>10. CASE UNCHANGED vars
    BY <1>10 DEF vars, CoreFSInv
  <1>11. CASE Halt
    BY <1>10, <1>11 DEF Halt
  <1> QED BY <1>1, <1>2, <1>3, <1>4, <1>5, <1>6, <1>7, <1>8, <1>9, <1>10, <1>11 DEF Next

LEMMA CoreFSAlways == Spec => []CoreFSInv
  BY CoreFSInit, CoreFSNext, PTL DEF Spec

-----------------------------------------------------------------------------
(* The theorems *)

LEMMA InvTyped == CoreFSInv => TypeOK
  <1> SUFFICES ASSUME CoreFSInv PROVE TypeOK
    OBVIOUS
  <1>1. Owned(fs, Entries, Data, kept \cup others)
    BY DEF CoreFSInv, Good
  <1>2. /\ fs.EntryV \in [Indexes -> Blocks \cup {NULL}]
        /\ fs.mem \in [Blocks -> Entries \cup {Junk}]
        /\ fs.tab \in Table
        /\ fs.MountV \in [Slots -> Data \cup {Junk}]
        /\ kept \cup others \subseteq Blocks
    BY <1>1, StoreFields
  <1> QED BY <1>2 DEF CoreFSInv, TypeOK

\* Every entry keeps a region of its own, as long as its header and data
\* need, whatever sequence of fs_createDir, fs_writeFile (which moves the
\* region), fs_remove, fs_bulkRemove and mounts went before.
THEOREM EntriesAlwaysOwned == Spec => []EntriesOwned
  <1>1. CoreFSInv => EntriesOwned
    <2> SUFFICES ASSUME CoreFSInv PROVE EntriesOwned
      OBVIOUS
    <2>1. TypeOK
      BY InvTyped
    <2>2. Good(fs, kept \cup others)
      BY DEF CoreFSInv
    <2>3. \A i \in Live(fs) : Ent(fs, i) # Junk
      BY <2>2, CoreFSAssumption DEF Good, Owned
    <2>4. \A i \in Live(fs) : \A j \in Live(fs) \ {i} : fs.EntryV[j] # fs.EntryV[i]
      BY <2>2 DEF Good, Owned
    <2>5. Sized(fs)
      BY <2>2 DEF Good
    <2> QED BY <2>1, <2>3, <2>4, <2>5 DEF EntriesOwned, Sized, Extent
  <1> QED BY <1>1, CoreFSAlways, PTL

\* Nothing that malloc handed out is lost: a region belongs to an entry, is
\* one of those corefs_init, mountmgr_init and tarfs_mount keep, or is
\* another component's.
THEOREM StoreAlwaysAccounted == Spec => []MemoryAccounted
  <1>1. CoreFSInv => MemoryAccounted
    BY DEF CoreFSInv, Good, Owned, MemoryAccounted
  <1> QED BY <1>1, CoreFSAlways, PTL

\* The entries always form a tree: the checks of fs_createDir, fs_writeFile
\* and fs_remove are enough, although they compare texts.
THEOREM TreeAlwaysSound == Spec => []TreeInv
  <1>1. CoreFSInv => TreeInv
    <2> SUFFICES ASSUME CoreFSInv, NEW i \in Live(fs)
                 PROVE  LET p == Ent(fs, i).name IN
                        /\ \A j \in Live(fs) \ {i} : Ent(fs, j).name \notin {p, AsFile(p)}
                        /\ p.dir <=> Ent(fs, i).type = "DIR"
                        /\ ParentsFound(fs, p)
      BY DEF TreeInv
    <2> DEFINE p == Ent(fs, i).name
    <2>1. Good(fs, kept \cup others)
      BY DEF CoreFSInv
    <2>2. p \in PathSet
      BY <2>1, GoodFields
    <2>3. AsFile(p).names = p.names
      BY <2>2, PathFields
    <2>4. \A j \in Live(fs) \ {i} : Ent(fs, j).name.names # p.names
      BY <2>1 DEF Good, Shaped, NamesDiffer
    <2>5. (p.dir <=> Ent(fs, i).type = "DIR") /\ ParentsFound(fs, p)
      BY <2>1 DEF Good, Shaped
    <2> HIDE DEF p
    <2>6. \A j \in Live(fs) \ {i} : Ent(fs, j).name \notin {p, AsFile(p)}
      BY <2>3, <2>4
    <2> QED BY <2>5, <2>6 DEF p
  <1> QED BY <1>1, CoreFSAlways, PTL

\* A mounted file shows its archive's data through a slot of its own,
\* however often it is written to, and whatever else is mounted.
THEOREM MountsAlwaysHold == Spec => []MountsHold
  <1>1. CoreFSInv => MountsHold
    <2> SUFFICES ASSUME CoreFSInv, NEW i \in Live(fs), Ent(fs, i).ftype = "MOUNTED"
                 PROVE  /\ [name |-> Ent(fs, i).name, data |-> DataOf(fs, i)] \in Members
                        /\ \A j \in Live(fs) \ {i} : Ent(fs, j).mountslot # Ent(fs, i).mountslot
      BY DEF MountsHold
    <2>1. SlotsHeld(fs)
      BY DEF CoreFSInv, Good
    <2>2. SlotOf(fs, i)
      BY <2>1 DEF SlotsHeld
    <2>3. DataOf(fs, i) = fs.MountV[Ent(fs, i).mountslot]
      BY DEF DataOf
    <2>4. [name |-> Ent(fs, i).name, data |-> DataOf(fs, i)] \in Members
      BY <2>2, <2>3 DEF SlotOf
    <2> QED BY <2>1, <2>4 DEF SlotsHeld
  <1> QED BY <1>1, CoreFSAlways, PTL

-----------------------------------------------------------------------------
(***************************************************************************)
(* The refinement: the calls, seen by fs_stat and fs_readFile, are those   *)
(* of the file tree of FileTree.                                           *)
(***************************************************************************)
NodeOf(st, i) ==
  IF Ent(st, i).type = "DIR" THEN [kind |-> "dir"]
  ELSE [kind |-> IF Ent(st, i).ftype = "MOUNTED" THEN "mounted" ELSE "file",
        data |-> DataOf(st, i)]

TreeOf(st) == [p \in {Ent(st, i).name : i \in Live(st)} |-> NodeOf(st, fs_index(st, p))]

LEMMA TreeAt ==
  ASSUME NEW K, NEW st, Good(st, K)
  PROVE  /\ \A p : p \in DOMAIN TreeOf(st) <=> Exists(st, p)
         /\ \A i \in Live(st) : /\ Ent(st, i).name \in DOMAIN TreeOf(st)
                                /\ TreeOf(st)[Ent(st, i).name] = NodeOf(st, i)
         /\ \A p \in DOMAIN TreeOf(st) : \E i \in Live(st) : Ent(st, i).name = p
         /\ TreeOf(st) = [p \in DOMAIN TreeOf(st) |-> TreeOf(st)[p]]
  <1>1. DOMAIN TreeOf(st) = {Ent(st, i).name : i \in Live(st)}
    BY DEF TreeOf
  <1>2. \A p : p \in DOMAIN TreeOf(st) <=> Exists(st, p)
    BY <1>1, IndexFound
  <1>3. ASSUME NEW i \in Live(st)
        PROVE  /\ Ent(st, i).name \in DOMAIN TreeOf(st)
               /\ TreeOf(st)[Ent(st, i).name] = NodeOf(st, i)
    <2> DEFINE p == Ent(st, i).name
    <2>1. p \in DOMAIN TreeOf(st) /\ Exists(st, p)
      BY <1>1, <1>2
    <2>2. fs_index(st, p) \in Live(st) /\ Ent(st, fs_index(st, p)).name = p
      BY <2>1, IndexFound
    <2>3. fs_index(st, p) = i
      BY <2>2 DEF Good, Shaped, NamesDiffer
    <2> QED BY <2>1, <2>3 DEF TreeOf
  <1>4. TreeOf(st) = [p \in DOMAIN TreeOf(st) |-> TreeOf(st)[p]]
    BY DEF TreeOf
  <1> QED BY <1>1, <1>2, <1>3, <1>4

\* Nothing that a caller sees has changed.
LEMMA TreeSame ==
  ASSUME NEW K, NEW st, Good(st, K), NEW N, NEW new, Good(new, N), Live(new) = Live(st),
         \A j \in Live(st) : Ent(new, j).name = Ent(st, j).name /\ NodeOf(new, j) = NodeOf(st, j)
  PROVE  TreeOf(new) = TreeOf(st)
  <1>1. DOMAIN TreeOf(new) = DOMAIN TreeOf(st)
    BY DEF TreeOf
  <1>2. ASSUME NEW p \in DOMAIN TreeOf(st) PROVE TreeOf(new)[p] = TreeOf(st)[p]
    <2>1. PICK i \in Live(st) : Ent(st, i).name = p
      BY TreeAt
    <2>2. TreeOf(st)[p] = NodeOf(st, i)
      BY <2>1, TreeAt
    <2>3. TreeOf(new)[p] = NodeOf(new, i)
      BY <2>1, TreeAt
    <2> QED BY <2>1, <2>2, <2>3
  <1>3. /\ TreeOf(new) = [p \in DOMAIN TreeOf(new) |-> TreeOf(new)[p]]
        /\ TreeOf(st) = [p \in DOMAIN TreeOf(st) |-> TreeOf(st)[p]]
    BY TreeAt
  <1> QED BY <1>1, <1>2, <1>3

\* Entry i is new or has changed.
LEMMA TreeWith ==
  ASSUME NEW K, NEW st, Good(st, K), NEW N, NEW new, Good(new, N), NEW i \in Live(new),
         Live(new) = Live(st) \cup {i},
         i \in Live(st) => Ent(st, i).name = Ent(new, i).name,
         \A j \in Live(st) \ {i} : Ent(new, j).name = Ent(st, j).name
                                  /\ NodeOf(new, j) = NodeOf(st, j)
  PROVE  TreeOf(new) = T!With(TreeOf(st), Ent(new, i).name, NodeOf(new, i))
  <1> DEFINE p == Ent(new, i).name
             t == T!With(TreeOf(st), p, NodeOf(new, i))
  <1>1. /\ DOMAIN t = DOMAIN TreeOf(st) \cup {p}
        /\ t = [q \in DOMAIN t |-> t[q]]
        /\ t[p] = NodeOf(new, i)
        /\ \A q \in DOMAIN TreeOf(st) : q # p => t[q] = TreeOf(st)[q]
    BY DEF T!With
  <1> HIDE DEF t
  <1>2. DOMAIN TreeOf(new) = DOMAIN t
    <2>1. ASSUME NEW q \in DOMAIN TreeOf(new) PROVE q \in DOMAIN t
      <3>1. PICK j \in Live(new) : Ent(new, j).name = q
        BY TreeAt
      <3>2. CASE j = i
        BY <1>1, <3>1, <3>2
      <3>3. CASE j # i
        <4>1. j \in Live(st) /\ Ent(st, j).name = q
          BY <3>1, <3>3
        <4> QED BY <1>1, <4>1, TreeAt
      <3> QED BY <3>2, <3>3
    <2>2. p \in DOMAIN TreeOf(new)
      BY TreeAt
    <2>3. ASSUME NEW q \in DOMAIN TreeOf(st) PROVE q \in DOMAIN TreeOf(new)
      <3>1. PICK j \in Live(st) : Ent(st, j).name = q
        BY TreeAt
      <3>2. j \in Live(new) /\ Ent(new, j).name = q
        BY <3>1
      <3> QED BY <3>2, TreeAt
    <2> QED BY <1>1, <2>1, <2>2, <2>3
  <1>3. ASSUME NEW q \in DOMAIN TreeOf(new) PROVE TreeOf(new)[q] = t[q]
    <2>1. PICK j \in Live(new) : Ent(new, j).name = q
      BY TreeAt
    <2>2. TreeOf(new)[q] = NodeOf(new, j)
      BY <2>1, TreeAt
    <2>3. CASE j = i
      BY <1>1, <2>1, <2>2, <2>3
    <2>4. CASE j # i
      <3>1. j \in Live(st) /\ Ent(st, j).name = q /\ NodeOf(st, j) = NodeOf(new, j)
        BY <2>1, <2>4
      <3>2. q \in DOMAIN TreeOf(st) /\ TreeOf(st)[q] = NodeOf(st, j)
        BY <3>1, TreeAt
      <3>3. q # p
        BY <2>1, <2>4 DEF Good, Shaped, NamesDiffer
      <3> QED BY <1>1, <2>2, <3>1, <3>2, <3>3
    <2> QED BY <2>3, <2>4
  <1>4. TreeOf(new) = [q \in DOMAIN TreeOf(new) |-> TreeOf(new)[q]]
    BY TreeAt
  <1> QED BY <1>1, <1>2, <1>3, <1>4 DEF t

\* An entry that is kept, with the slots, shows what it showed.
LEMMA NodeKept ==
  ASSUME NEW st, NEW new, NEW j, Ent(new, j) = Ent(st, j), new.MountV = st.MountV
  PROVE  NodeOf(new, j) = NodeOf(st, j)
  BY DEF NodeOf, DataOf

\* The tree of a good store is well formed, its nodes are those of FileTree.
LEMMA TreeWellFormed ==
  ASSUME NEW K, NEW st, Good(st, K)
  PROVE  /\ T!WellFormed(TreeOf(st))
         /\ \A p \in DOMAIN TreeOf(st) : TreeOf(st)[p] \in T!Nodes
         /\ NoPlainFile(st) => \A p \in DOMAIN TreeOf(st) : TreeOf(st)[p].kind # "file"
  <1>1. ASSUME NEW i \in Live(st)
        PROVE  /\ NodeOf(st, i) \in T!Nodes
               /\ NodeOf(st, i) = T!Directory <=> Ent(st, i).name.dir
               /\ NoPlainFile(st) => NodeOf(st, i).kind # "file"
    <2>1. Ent(st, i) \in Entries /\ Ent(st, i).data \in Data /\ Ent(st, i).type \in {"DIR", "FILE"}
      BY GoodFields, EntryFields
    <2>2. Ent(st, i).ftype = "MOUNTED" => DataOf(st, i) \in Data
      <3>1. SlotOf(st, i)
        BY DEF Good, SlotsHeld
      <3>2. Ent(st, i).ftype = "MOUNTED" => [name |-> Ent(st, i).name, data |-> DataOf(st, i)] \in Members
        BY <3>1 DEF SlotOf, DataOf
      <3> QED BY <3>2, MemberFields
    <2>3. DataOf(st, i) \in Data
      BY <2>1, <2>2 DEF DataOf
    <2>4. Ent(st, i).name.dir <=> Ent(st, i).type = "DIR"
      BY DEF Good, Shaped
    <2>5. CASE Ent(st, i).type = "DIR"
      <3>1. NodeOf(st, i) = [kind |-> "dir"]
        BY <2>5 DEF NodeOf
      <3> QED BY <2>4, <2>5, <3>1 DEF T!Nodes, T!Directory
    <2>6. CASE Ent(st, i).type = "FILE"
      <3>1. NodeOf(st, i) = [kind |-> IF Ent(st, i).ftype = "MOUNTED" THEN "mounted" ELSE "file",
                             data |-> DataOf(st, i)]
        BY <2>6 DEF NodeOf
      <3>2. NodeOf(st, i) # [kind |-> "dir"]
        BY <3>1
      <3>3. NodeOf(st, i) = T!Mounted(DataOf(st, i)) \/ NodeOf(st, i) = T!File(DataOf(st, i))
        BY <3>1 DEF T!Mounted, T!File
      <3>4. NoPlainFile(st) => NodeOf(st, i).kind # "file"
        BY <2>6, <3>1 DEF NoPlainFile
      <3>5. NodeOf(st, i) \in T!Nodes
        BY <2>3, <3>3 DEF T!Nodes
      <3> QED BY <2>4, <2>6, <3>2, <3>4, <3>5 DEF T!Directory
    <2> QED BY <2>1, <2>5, <2>6
  <1>2. ASSUME NEW p \in DOMAIN TreeOf(st)
        PROVE  \E i \in Live(st) : Ent(st, i).name = p /\ TreeOf(st)[p] = NodeOf(st, i)
    <2>1. PICK i \in Live(st) : Ent(st, i).name = p
      BY TreeAt
    <2> QED BY <2>1, TreeAt
  <1>3. ASSUME NEW p \in DOMAIN TreeOf(st)
        PROVE  /\ Parents(p) \subseteq DOMAIN TreeOf(st)
               /\ (TreeOf(st)[p] = T!Directory) <=> p.dir
               /\ p.dir => AsFile(p) \notin DOMAIN TreeOf(st)
    <2>1. PICK i \in Live(st) : Ent(st, i).name = p /\ TreeOf(st)[p] = NodeOf(st, i)
      BY <1>2
    <2>2. Parents(p) \subseteq DOMAIN TreeOf(st)
      BY <2>1, TreeAt DEF Good, Shaped, ParentsFound
    <2>3. (TreeOf(st)[p] = T!Directory) <=> p.dir
      BY <1>1, <2>1
    <2>4. ASSUME p.dir, AsFile(p) \in DOMAIN TreeOf(st) PROVE FALSE
      <3>1. PICK j \in Live(st) : Ent(st, j).name = AsFile(p)
        BY <2>4, TreeAt
      <3>2. p \in PathSet
        BY <2>1, GoodFields
      <3>3. AsFile(p).names = p.names /\ ~ AsFile(p).dir
        BY <3>2, PathFields
      <3>4. i # j /\ Ent(st, i).name.names = Ent(st, j).name.names
        BY <2>1, <2>4, <3>1, <3>3
      <3> QED BY <3>4 DEF Good, Shaped, NamesDiffer
    <2> QED BY <2>2, <2>3, <2>4
  <1>4. T!WellFormed(TreeOf(st))
    BY <1>3 DEF T!WellFormed
  <1> QED BY <1>1, <1>2, <1>4

\* Until the module is mounted there are no plain files and no errors.
BootInv ==
  phase \in {"corefs_init", "mountmgr_init", "tarfs_mount"} => sts = SUCCESS /\ NoPlainFile(fs)

LEMMA BootInit == Init => BootInv
  BY CoreFSInit DEF Init, BootInv, CoreFSInv, NoPlainFile

LEMMA BootNext == CoreFSInv /\ BootInv /\ [Next]_vars => BootInv'
  <1> SUFFICES ASSUME CoreFSInv, BootInv, [Next]_vars PROVE BootInv'
    OBVIOUS
  <1>1. CASE corefs_init
    <2>1. phase = "corefs_init" /\ sts' = sts
      BY <1>1 DEF corefs_init
    <2>2. \/ phase' = "panic"
          \/ (Live(fs) = {FS_ROOTDIR})' /\ (Ent(fs, FS_ROOTDIR) = DirEntry(Root))'
      BY <1>1, InitStep
    <2>3. CASE phase' = "panic"
      BY <2>3 DEF BootInv
    <2>4. CASE (Live(fs) = {FS_ROOTDIR})' /\ (Ent(fs, FS_ROOTDIR) = DirEntry(Root))'
      <3>1. NoPlainFile(fs)'
        BY <2>4 DEF NoPlainFile, DirEntry
      <3> QED BY <2>1, <3>1 DEF BootInv
    <2> QED BY <2>2, <2>3, <2>4
  <1>2. CASE mountmgr_init
    <2>1. phase = "mountmgr_init" /\ sts' = sts
      BY <1>2 DEF mountmgr_init
    <2>2. \/ phase' = "panic"
          \/ /\ MallocAt(fs.tab, MountVBytes) # NULL
             /\ fs' = [fs EXCEPT !.tab = Malloced(@, MountVBytes)]
      BY <1>2 DEF mountmgr_init, Panic
    <2>3. CASE phase' = "panic"
      BY <2>3 DEF BootInv
    <2>4. CASE /\ MallocAt(fs.tab, MountVBytes) # NULL
               /\ fs' = [fs EXCEPT !.tab = Malloced(@, MountVBytes)]
      <3>1. MountVBytes \in 1 .. (BlockC * BLKSIZE)
        BY CoreFSAssumption
      <3>2. Good(fs, kept \cup others)
        BY DEF CoreFSInv
      <3>3. Live(fs') = Live(fs) /\ \A j \in Live(fs) : Ent(fs', j) = Ent(fs, j)
        BY <2>4, <3>1, <3>2, HoldGood
      <3> QED BY <2>1, <3>3 DEF BootInv, NoPlainFile
    <2> QED BY <2>2, <2>3, <2>4
  <1>3. CASE MountModule
    BY <1>3 DEF MountModule, BootInv
  <1>4. CASE phase = "run" /\ phase' = phase
    BY <1>4 DEF BootInv
  <1>5. CASE UNCHANGED vars
    BY <1>5 DEF vars, BootInv
  <1>6. \/ corefs_init \/ mountmgr_init \/ MountModule \/ UNCHANGED vars
        \/ phase = "run" /\ phase' = phase
    BY DEF Next, CreateDir, RemoveEntry, BulkRemove, WriteFile, Call, OtherMalloc, OtherFree, Halt
  <1> QED BY <1>1, <1>2, <1>3, <1>4, <1>5, <1>6

\* The refinement mapping, as operators of the store and the phase.
StageOf(ph) == CASE ph = "corefs_init" -> "off"
                 [] ph \in {"mountmgr_init", "tarfs_mount"} -> "boot"
                 [] ph = "run" -> "run"
                 [] ph = "panic" -> "stopped"

LEMMA Stages ==
  /\ StageOf("corefs_init") = "off" /\ StageOf("mountmgr_init") = "boot"
  /\ StageOf("tarfs_mount") = "boot" /\ StageOf("run") = "run" /\ StageOf("panic") = "stopped"
  BY DEF StageOf

LEMMA Mapping ==
  /\ Stage = StageOf(phase) /\ Stage' = StageOf(phase')
  /\ Tree = TreeOf(fs) /\ Tree' = TreeOf(fs')
  <1>1. Stage = StageOf(phase)
    BY Zenon DEF Stage, StageOf
  <1>2. Stage' = StageOf(phase')
    BY Zenon DEF Stage, StageOf
  <1>3. Tree = TreeOf(fs)
    BY DEF Tree, TreeOf, Node, NodeOf
  <1>4. Tree' = TreeOf(fs')
    BY DEF Tree, TreeOf, Node, NodeOf
  <1> QED BY <1>1, <1>2, <1>3, <1>4

\* Steps that callers do not see.
LEMMA TreeStutters ==
  ASSUME StageOf(phase') = StageOf(phase), TreeOf(fs') = TreeOf(fs), sts' = sts
  PROVE  UNCHANGED T!vars
  BY Mapping DEF T!vars

LEMMA StopRefines ==
  ASSUME phase' = "panic", UNCHANGED <<fs, sts>> PROVE T!Next
  BY Mapping, Stages DEF T!Next, T!Stop

\* A call that is refused, or does what the tree's call does.
LEMMA CallRefines ==
  ASSUME phase = "run", UNCHANGED phase,
         \/ sts' # SUCCESS /\ fs' = fs
         \/ sts' = SUCCESS /\ T!Done
  PROVE  T!Next
  BY Mapping, Stages DEF T!Next, T!Call

\* An entry under a free name: what the tree gets, and that the name was free.
LEMMA InsertedTree ==
  ASSUME NEW K, NEW st, Good(st, K), NEW r, Good(r.st, K), NEW ent \in Entries,
         Inserted(r, st, ent)
  PROVE  /\ ent.name \notin DOMAIN TreeOf(st)
         /\ AsFile(ent.name) \notin DOMAIN TreeOf(st)
         /\ AsDir(ent.name) \notin DOMAIN TreeOf(st)
         /\ Parents(ent.name) \subseteq DOMAIN TreeOf(st)
         /\ \E i \in Live(r.st) :
              /\ Ent(r.st, i) = ent
              /\ TreeOf(r.st) = T!With(TreeOf(st), ent.name, NodeOf(r.st, i))
  <1> DEFINE p == ent.name
  <1>1. p \in PathSet
    BY EntryFields
  <1>2. AsFile(p).names = p.names /\ AsDir(p).names = p.names
    BY <1>1, PathFields
  <1>3. \A q : q.names = p.names => q \notin DOMAIN TreeOf(st)
    <2> SUFFICES ASSUME NEW q, q.names = p.names, q \in DOMAIN TreeOf(st) PROVE FALSE
      OBVIOUS
    <2>1. PICK j \in Live(st) : Ent(st, j).name = q
      BY TreeAt
    <2> QED BY <2>1 DEF Inserted
  <1>4. p \notin DOMAIN TreeOf(st) /\ AsFile(p) \notin DOMAIN TreeOf(st)
        /\ AsDir(p) \notin DOMAIN TreeOf(st)
    BY <1>2, <1>3
  <1>5. Parents(p) \subseteq DOMAIN TreeOf(st)
    BY TreeAt DEF Inserted, ParentsFound
  <1>6. PICK i \in Indexes : /\ Live(r.st) = Live(st) \cup {i} /\ i \notin Live(st)
                            /\ Ent(r.st, i) = ent
                            /\ \A j \in Live(st) : Ent(r.st, j) = Ent(st, j)
    BY DEF Inserted
  <1>7. \A j \in Live(st) : NodeOf(r.st, j) = NodeOf(st, j)
    BY <1>6, NodeKept DEF Inserted
  <1> DEFINE new == r.st
  <1>8. Good(new, K) /\ i \in Live(new) /\ Live(new) = Live(st) \cup {i}
    BY <1>6
  <1>9. TreeOf(new) = T!With(TreeOf(st), Ent(new, i).name, NodeOf(new, i))
    <2>1. \A j \in Live(st) \ {i} : Ent(new, j).name = Ent(st, j).name
                                   /\ NodeOf(new, j) = NodeOf(st, j)
      BY <1>6, <1>7
    <2>2. i \in Live(st) => Ent(st, i).name = Ent(new, i).name
      BY <1>6
    <2> HIDE DEF new
    <2> QED BY <1>8, <2>1, <2>2, TreeWith
  <1> QED BY <1>4, <1>5, <1>6, <1>8, <1>9

LEMMA MkdirRefines ==
  ASSUME CoreFSInv, NEW p \in Paths, CreateDir(p) PROVE T!Next
  <1> DEFINE r == fs_createDir(fs, p)
             K == kept \cup others
  <1>1. Good(fs, K)
    BY DEF CoreFSInv
  <1>2. Good(r.st, K) /\ (Refused(r, fs) \/ (Inserted(r, fs, DirEntry(p)) /\ p.dir))
    BY <1>1, CreateDirGood
  <1>3. phase = "run" /\ fs' = r.st /\ sts' = r.sts /\ phase' = phase
    BY DEF CreateDir, Call
  <1> HIDE DEF r, K
  <1>4. CASE Refused(r, fs)
    BY <1>3, <1>4, CallRefines DEF Refused
  <1>5. CASE Inserted(r, fs, DirEntry(p)) /\ p.dir
    <2>1. DirEntry(p) \in Entries /\ DirEntry(p).name = p /\ DirEntry(p).type = "DIR"
      BY DEF DirEntry, Entries, Data
    <2>2. /\ p \notin DOMAIN TreeOf(fs) /\ AsFile(p) \notin DOMAIN TreeOf(fs)
          /\ Parents(p) \subseteq DOMAIN TreeOf(fs)
          /\ \E i \in Live(r.st) : /\ Ent(r.st, i) = DirEntry(p)
                                   /\ TreeOf(r.st) = T!With(TreeOf(fs), p, NodeOf(r.st, i))
      BY <1>1, <1>2, <1>5, <2>1, InsertedTree
    <2>3. TreeOf(r.st) = T!With(TreeOf(fs), p, T!Directory)
      BY <2>1, <2>2 DEF NodeOf, T!Directory
    <2>4. T!Mkdir(p)
      BY <1>3, <1>5, <2>2, <2>3, Mapping DEF T!Mkdir
    <2>5. sts' = SUCCESS
      BY <1>3, <1>5 DEF Inserted
    <2> QED BY <1>3, <2>4, <2>5, CallRefines DEF T!Done
  <1> QED BY <1>2, <1>4, <1>5

LEMMA WriteRefines ==
  ASSUME CoreFSInv, NEW p \in Paths, NEW buf \in Buffers, WriteFile(p, buf) PROVE T!Next
  <1> DEFINE r == fs_writeFile(fs, p, buf)
             K == kept \cup others
  <1>1. Good(fs, K)
    BY DEF CoreFSInv
  <1>2. buf \in Data /\ BLKSIZE + Len(buf) <= BlockC * BLKSIZE /\ Len(buf) \in Nat
    BY CoreFSAssumption DEF Data
  <1>3. /\ Good(r.st, K)
        /\ \/ Refused(r, fs)
           \/ /\ ~ p.dir /\ ~ Exists(fs, AsDir(p))
              /\ \/ Inserted(r, fs, FileEntry(p, buf))
                 \/ Exists(fs, p) /\ Rewritten(r, fs, fs_index(fs, p), buf)
    BY <1>1, <1>2, WriteFileGood
  <1>4. phase = "run" /\ fs' = r.st /\ sts' = r.sts /\ phase' = phase
    BY DEF WriteFile, Call
  <1> HIDE DEF r, K
  <1>5. CASE Refused(r, fs)
    BY <1>4, <1>5, CallRefines DEF Refused
  <1>6. CASE ~ p.dir /\ ~ Exists(fs, AsDir(p)) /\ Inserted(r, fs, FileEntry(p, buf))
    <2>1. /\ FileEntry(p, buf) \in Entries /\ FileEntry(p, buf).name = p
          /\ FileEntry(p, buf).type = "FILE" /\ FileEntry(p, buf).data = buf
          /\ FileEntry(p, buf).ftype = "FILE"
      BY <1>2 DEF FileEntry, Entries
    <2>2. /\ p \notin DOMAIN TreeOf(fs) /\ AsDir(p) \notin DOMAIN TreeOf(fs)
          /\ Parents(p) \subseteq DOMAIN TreeOf(fs)
          /\ \E i \in Live(r.st) : /\ Ent(r.st, i) = FileEntry(p, buf)
                                   /\ TreeOf(r.st) = T!With(TreeOf(fs), p, NodeOf(r.st, i))
      BY <1>1, <1>3, <1>6, <2>1, InsertedTree
    <2>3. TreeOf(r.st) = T!With(TreeOf(fs), p, T!File(buf))
      BY <2>1, <2>2 DEF NodeOf, DataOf, T!File
    <2>4. T!Write(p, buf)
      BY <1>4, <1>6, <2>2, <2>3, Mapping DEF T!Write
    <2>5. sts' = SUCCESS
      BY <1>4, <1>6 DEF Inserted
    <2> QED BY <1>2, <1>4, <2>4, <2>5, CallRefines DEF T!Done
  <1>7. CASE /\ ~ p.dir /\ ~ Exists(fs, AsDir(p)) /\ Exists(fs, p)
             /\ Rewritten(r, fs, fs_index(fs, p), buf)
    <2> DEFINE i == fs_index(fs, p)
               old == Ent(fs, i)
               new == r.st
    <2>1. i \in Live(fs) /\ old.name = p /\ old \in Entries
      BY <1>1, <1>7, IndexFound, GoodFields
    <2>2. old.type = "FILE"
      BY <1>1, <1>7, <2>1, EntryFields DEF Good, Shaped
    <2> HIDE DEF i
    <2>3. /\ r.sts = SUCCESS /\ new.MountV = fs.MountV /\ Live(new) = Live(fs)
          /\ Ent(new, i) = [old EXCEPT !.size = Len(buf), !.data = buf]
          /\ \A j \in Live(fs) \ {i} : Ent(new, j) = Ent(fs, j)
      BY <1>7, Zenon DEF Rewritten, i
    <2> HIDE DEF old
    <2>4. [old EXCEPT !.size = Len(buf), !.data = buf] \in Entries
          /\ [old EXCEPT !.size = Len(buf), !.data = buf].name = p
          /\ [old EXCEPT !.size = Len(buf), !.data = buf].type = "FILE"
          /\ [old EXCEPT !.size = Len(buf), !.data = buf].data = buf
          /\ [old EXCEPT !.size = Len(buf), !.data = buf].ftype = old.ftype
          /\ [old EXCEPT !.size = Len(buf), !.data = buf].mountslot = old.mountslot
      BY <1>2, <2>1, <2>2 DEF Entries
    <2>5. /\ Ent(new, i).name = p /\ Ent(new, i).type = "FILE" /\ Ent(new, i).data = buf
          /\ Ent(new, i).ftype = old.ftype /\ Ent(new, i).mountslot = old.mountslot
      BY <2>3, <2>4, Zenon
    <2>6. \A j \in Live(fs) \ {i} : NodeOf(new, j) = NodeOf(fs, j) /\ Ent(new, j).name = Ent(fs, j).name
      BY <2>3, NodeKept
    <2>7. /\ p \in DOMAIN TreeOf(fs) /\ AsDir(p) \notin DOMAIN TreeOf(fs)
          /\ TreeOf(fs)[p] = NodeOf(fs, i)
      BY <1>1, <1>7, <2>1, TreeAt DEF old
    <2>8. Good(new, K) /\ fs' = new
      BY <1>3, <1>4
    <2> HIDE DEF new
    <2>9. CASE old.ftype = "MOUNTED"
      <3>1. NodeOf(new, i) = NodeOf(fs, i) /\ NodeOf(fs, i).kind = "mounted"
        BY <2>2, <2>3, <2>5, <2>9 DEF NodeOf, DataOf, old
      <3>2. \A j \in Live(fs) : Ent(new, j).name = Ent(fs, j).name /\ NodeOf(new, j) = NodeOf(fs, j)
        BY <2>1, <2>5, <2>6, <3>1 DEF old
      <3>3. Live(new) = Live(fs)
        BY <2>3
      <3>4. TreeOf(new) = TreeOf(fs)
        BY <1>1, <2>8, <3>2, <3>3, TreeSame
      <3>5. T!Write(p, buf)
        BY <1>7, <2>7, <2>8, <3>1, <3>4, Mapping DEF T!Write
      <3>6. sts' = SUCCESS
        BY <1>4, <2>3
      <3> QED BY <1>2, <1>4, <3>5, <3>6, CallRefines DEF T!Done
    <2>10. CASE old.ftype # "MOUNTED"
      <3>1. NodeOf(new, i) = T!File(buf) /\ NodeOf(fs, i).kind # "mounted"
        BY <2>2, <2>5, <2>10 DEF NodeOf, DataOf, old, T!File
      <3>2. i \in Live(new) /\ Live(new) = Live(fs) \cup {i} /\ Ent(fs, i).name = Ent(new, i).name
        BY <2>1, <2>3, <2>5 DEF old
      <3>3. TreeOf(new) = T!With(TreeOf(fs), Ent(new, i).name, NodeOf(new, i))
        BY <1>1, <2>6, <2>8, <3>2, TreeWith
      <3>4. T!Write(p, buf)
        BY <1>7, <2>5, <2>7, <2>8, <3>1, <3>3, Mapping DEF T!Write
      <3>5. sts' = SUCCESS
        BY <1>4, <2>3
      <3> QED BY <1>2, <1>4, <3>4, <3>5, CallRefines DEF T!Done
    <2> QED BY <2>9, <2>10
  <1> QED BY <1>3, <1>5, <1>6, <1>7

\* Entries of the names in S have gone.
LEMMA DeletedTree ==
  ASSUME NEW K, NEW st, Good(st, K), NEW r, Good(r.st, K), NEW is, Deleted(r, st, is),
         NEW S, \A j \in Live(st) : Ent(st, j).name \in S <=> j \in is
  PROVE  TreeOf(r.st) = T!Without(TreeOf(st), S)
  <1> DEFINE new == r.st
  <1>1. /\ Good(new, K) /\ Live(new) = Live(st) \ is
        /\ \A j \in Live(new) : Ent(new, j) = Ent(st, j)
        /\ new.MountV = st.MountV
    BY DEF Deleted
  <1> HIDE DEF new
  <1>2. \A j \in Live(new) : Ent(new, j).name = Ent(st, j).name /\ NodeOf(new, j) = NodeOf(st, j)
    BY <1>1, NodeKept
  <1> DEFINE t == T!Without(TreeOf(st), S)
  <1>3. /\ DOMAIN t = DOMAIN TreeOf(st) \ S
        /\ t = [q \in DOMAIN t |-> t[q]]
        /\ \A q \in DOMAIN t : t[q] = TreeOf(st)[q]
    BY DEF T!Without
  <1> HIDE DEF t
  <1>4. ASSUME NEW q \in DOMAIN TreeOf(new)
        PROVE  q \in DOMAIN t /\ TreeOf(new)[q] = t[q]
    <2>1. PICK j \in Live(new) : Ent(new, j).name = q
      BY <1>1, TreeAt
    <2>2. j \in Live(st) /\ Ent(st, j).name = q /\ q \notin S
      BY <1>1, <1>2, <2>1
    <2>3. q \in DOMAIN TreeOf(st) /\ TreeOf(st)[q] = NodeOf(st, j)
      BY <2>2, TreeAt
    <2>4. TreeOf(new)[q] = NodeOf(new, j)
      BY <1>1, <2>1, TreeAt
    <2> QED BY <1>2, <1>3, <2>1, <2>2, <2>3, <2>4
  <1>5. ASSUME NEW q \in DOMAIN t PROVE q \in DOMAIN TreeOf(new)
    <2>1. q \in DOMAIN TreeOf(st) /\ q \notin S
      BY <1>3
    <2>2. PICK j \in Live(st) : Ent(st, j).name = q
      BY <2>1, TreeAt
    <2>3. j \in Live(new) /\ Ent(new, j).name = q
      BY <1>1, <1>2, <2>1, <2>2
    <2> QED BY <1>1, <2>3, TreeAt
  <1>6. DOMAIN TreeOf(new) = DOMAIN t
    BY <1>4, <1>5
  <1>7. TreeOf(new) = [q \in DOMAIN TreeOf(new) |-> TreeOf(new)[q]]
    BY <1>1, TreeAt
  <1>8. TreeOf(new) = t
    BY <1>3, <1>4, <1>6, <1>7
  <1> QED BY <1>8 DEF t, new

\* fs_remove, called by RemoveEntry and by fs_bulkRemove for a file.
LEMMA RemoveRefines ==
  ASSUME CoreFSInv, NEW p \in Paths, Call(fs_remove(fs, p)) PROVE T!Next
  <1> DEFINE r == fs_remove(fs, p)
             K == kept \cup others
             i == fs_index(fs, p)
  <1>1. Good(fs, K)
    BY DEF CoreFSInv
  <1>2. /\ Good(r.st, K)
        /\ \/ Refused(r, fs)
           \/ /\ p # Root /\ Exists(fs, p)
              /\ p.dir => \A j \in Below(fs, p) : Ent(fs, j).name = p
              /\ Deleted(r, fs, {i})
    BY <1>1, RemoveCallGood
  <1>3. phase = "run" /\ fs' = r.st /\ sts' = r.sts /\ phase' = phase
    BY DEF Call
  <1> HIDE DEF r, K
  <1>4. CASE Refused(r, fs)
    BY <1>3, <1>4, CallRefines DEF Refused
  <1>5. CASE /\ p # Root /\ Exists(fs, p)
             /\ p.dir => \A j \in Below(fs, p) : Ent(fs, j).name = p
             /\ Deleted(r, fs, {i})
    <2>1. i \in Live(fs) /\ Ent(fs, i).name = p
      BY <1>5, IndexFound
    <2> HIDE DEF i
    <2>2. \A j \in Live(fs) : Ent(fs, j).name \in {p} <=> j \in {i}
      BY <1>1, <2>1 DEF Good, Shaped, NamesDiffer
    <2>3. TreeOf(r.st) = T!Without(TreeOf(fs), {p})
      BY <1>1, <1>2, <1>5, <2>2, DeletedTree
    <2>4. p \in DOMAIN TreeOf(fs)
      BY <1>1, <1>5, TreeAt
    <2>5. ASSUME p.dir PROVE T!Subtree(TreeOf(fs), p) = {p}
      <3>1. ASSUME NEW q \in DOMAIN TreeOf(fs), Within(p, q) PROVE q = p
        <4>1. PICK j \in Live(fs) : Ent(fs, j).name = q
          BY <1>1, TreeAt
        <4>2. j \in Below(fs, p)
          BY <3>1, <4>1 DEF Below
        <4> QED BY <1>5, <2>5, <4>1, <4>2
      <3>2. Within(p, p)
        <4>1. p \in PathSet
          BY CoreFSAssumption DEF PathSet
        <4>2. Len(p.names) \in Nat
          BY <4>1, PathFields
        <4> QED BY <2>5, <4>2 DEF Within, IsPrefix
      <3> QED BY <2>4, <3>1, <3>2 DEF T!Subtree
    <2>6. T!Remove(p)
      BY <1>3, <1>5, <2>3, <2>4, <2>5, Mapping DEF T!Remove
    <2>7. sts' = SUCCESS
      BY <1>3, <1>5 DEF Deleted
    <2> QED BY <1>3, <2>6, <2>7, CallRefines DEF T!Done
  <1> QED BY <1>2, <1>4, <1>5

LEMMA BulkRefines ==
  ASSUME CoreFSInv, NEW p \in Paths, BulkRemove(p) PROVE T!Next
  <1> DEFINE r == fs_bulkRemove(fs, p)
             K == kept \cup others
  <1>1. Good(fs, K)
    BY DEF CoreFSInv
  <1>2. /\ Good(r.st, K)
        /\ \/ Refused(r, fs)
           \/ r = fs_remove(fs, p)
           \/ Exists(fs, p) /\ p.dir /\ Deleted(r, fs, Below(fs, p))
    BY <1>1, BulkRemoveGood
  <1>3. phase = "run" /\ fs' = r.st /\ sts' = r.sts /\ phase' = phase /\ Call(r)
    BY DEF BulkRemove, Call
  <1> HIDE DEF r, K
  <1>4. CASE Refused(r, fs)
    BY <1>3, <1>4, CallRefines DEF Refused
  <1>5. CASE r = fs_remove(fs, p)
    BY <1>3, <1>5, RemoveRefines
  <1>6. CASE Exists(fs, p) /\ p.dir /\ Deleted(r, fs, Below(fs, p))
    <2> DEFINE S == T!Subtree(TreeOf(fs), p)
    <2>1. \A j \in Live(fs) : Ent(fs, j).name \in S <=> j \in Below(fs, p)
      BY <1>1, TreeAt DEF T!Subtree, Below
    <2> HIDE DEF S
    <2>2. TreeOf(r.st) = T!Without(TreeOf(fs), S)
      BY <1>1, <1>2, <1>6, <2>1, DeletedTree
    <2>3. p \in DOMAIN TreeOf(fs)
      BY <1>1, <1>6, TreeAt
    <2>4. T!RemoveTree(p)
      BY <1>3, <1>6, <2>2, <2>3, Mapping DEF T!RemoveTree, S
    <2>5. sts' = SUCCESS
      BY <1>3, <1>6 DEF Deleted
    <2> QED BY <1>3, <2>4, <2>5, CallRefines DEF T!Done
  <1> QED BY <1>2, <1>4, <1>5, <1>6

\* A region is taken or given back that is no entry's.
LEMMA RegionStutters ==
  ASSUME CoreFSInv, CoreFSInv', StageOf(phase') = StageOf(phase), sts' = sts,
         Live(fs') = Live(fs), \A j \in Live(fs) : Ent(fs', j) = Ent(fs, j), fs'.MountV = fs.MountV
  PROVE  UNCHANGED T!vars
  <1>1. Good(fs, kept \cup others) /\ Good(fs', kept' \cup others')
    BY DEF CoreFSInv
  <1>2. \A j \in Live(fs) : Ent(fs', j).name = Ent(fs, j).name /\ NodeOf(fs', j) = NodeOf(fs, j)
    BY NodeKept
  <1>3. TreeOf(fs') = TreeOf(fs)
    BY <1>1, <1>2, TreeSame
  <1> QED BY <1>3, TreeStutters

LEMMA LoadRefines ==
  ASSUME CoreFSInv, CoreFSInv', BootInv, MountModule PROVE T!Next
  <1>1. Good(fs, kept \cup others) /\ Good(fs', kept' \cup others')
    BY DEF CoreFSInv
  <1>2. phase = "tarfs_mount" /\ sts = SUCCESS /\ NoPlainFile(fs)
    BY DEF MountModule, BootInv
  <1>3. /\ DOMAIN TreeOf(fs) \subseteq DOMAIN TreeOf(fs')
        /\ sts' = SUCCESS => NoPlainFile(fs')
        /\ phase' = IF sts' = SUCCESS THEN "run" ELSE "panic"
    <2>1. PICK archive \in Archives :
            \/ phase' = "run" /\ fs' = fs /\ sts' = sts
            \/ /\ fs' = tarfs_mount(fs, archive).st
               /\ sts' = tarfs_mount(fs, archive).sts
               /\ phase' = IF tarfs_mount(fs, archive).sts = SUCCESS THEN "run" ELSE "panic"
      BY DEF MountModule
    <2>2. CASE phase' = "run" /\ fs' = fs /\ sts' = sts
      BY <1>2, <2>2
    <2>3. CASE /\ fs' = tarfs_mount(fs, archive).st
               /\ sts' = tarfs_mount(fs, archive).sts
               /\ phase' = IF tarfs_mount(fs, archive).sts = SUCCESS THEN "run" ELSE "panic"
      <3> DEFINE r == tarfs_mount(fs, archive)
      <3>1. Grown(r, fs)
        BY <1>1, ArchiveGood
      <3> HIDE DEF r
      <3>2. fs' = r.st /\ sts' = r.sts
        BY <2>3 DEF r
      <3>3. \A p : Exists(fs, p) => Exists(fs', p)
        BY <3>1, <3>2 DEF Grown
      <3>4. DOMAIN TreeOf(fs) \subseteq DOMAIN TreeOf(fs')
        BY <1>1, <3>3, TreeAt
      <3>5. sts' = SUCCESS => NoPlainFile(fs')
        BY <1>2, <3>1, <3>2 DEF Grown
      <3> QED BY <2>3, <3>4, <3>5
    <2> QED BY <2>1, <2>2, <2>3
  <1>4. /\ T!WellFormed(TreeOf(fs'))
        /\ \A p \in DOMAIN TreeOf(fs') : TreeOf(fs')[p] \in T!Nodes
        /\ NoPlainFile(fs') => \A p \in DOMAIN TreeOf(fs') : TreeOf(fs')[p].kind # "file"
    BY <1>1, TreeWellFormed
  <1>5. T!Load
    BY <1>2, <1>3, <1>4, Mapping, Stages DEF T!Load
  <1> QED BY <1>5 DEF T!Next

LEMMA TreeStep ==
  CoreFSInv /\ BootInv /\ CoreFSInv' /\ [Next]_vars => [T!Next]_(T!vars)
  <1> SUFFICES ASSUME CoreFSInv, BootInv, CoreFSInv', [Next]_vars
               PROVE  T!Next \/ UNCHANGED T!vars
    OBVIOUS
  <1>0. Good(fs, kept \cup others) /\ Good(fs', kept' \cup others')
    BY DEF CoreFSInv
  <1>1. CASE corefs_init
    <2>1. phase = "corefs_init" /\ sts' = sts /\ Live(fs) = {}
      BY <1>1 DEF corefs_init, CoreFSInv
    <2>2. \/ phase' = "panic" /\ UNCHANGED fs
          \/ /\ phase' = "mountmgr_init"
             /\ (Live(fs) = {FS_ROOTDIR})' /\ (Ent(fs, FS_ROOTDIR) = DirEntry(Root))'
      BY <1>1, InitStep
    <2>3. CASE phase' = "panic" /\ UNCHANGED fs
      BY <2>1, <2>3, StopRefines
    <2>4. CASE /\ phase' = "mountmgr_init"
               /\ (Live(fs) = {FS_ROOTDIR})' /\ (Ent(fs, FS_ROOTDIR) = DirEntry(Root))'
      <3>1. /\ Live(fs') = Live(fs) \cup {FS_ROOTDIR} /\ FS_ROOTDIR \in Live(fs')
            /\ FS_ROOTDIR \notin Live(fs) /\ Ent(fs', FS_ROOTDIR) = DirEntry(Root)
        BY <2>1, <2>4
      <3>2. TreeOf(fs') = T!With(TreeOf(fs), Ent(fs', FS_ROOTDIR).name, NodeOf(fs', FS_ROOTDIR))
        BY <1>0, <2>1, <3>1, TreeWith
      <3>3. Ent(fs', FS_ROOTDIR).name = Root /\ NodeOf(fs', FS_ROOTDIR) = T!Directory
        BY <3>1 DEF NodeOf, DirEntry, T!Directory
      <3>4. T!Boot
        BY <2>1, <2>4, <3>2, <3>3, Mapping, Stages DEF T!Boot
      <3> QED BY <3>4 DEF T!Next
    <2> QED BY <2>2, <2>3, <2>4
  <1>2. CASE mountmgr_init
    <2>1. phase = "mountmgr_init" /\ sts' = sts
      BY <1>2 DEF mountmgr_init
    <2>2. CASE phase' = "panic" /\ UNCHANGED fs
      BY <2>1, <2>2, StopRefines
    <2>3. CASE /\ phase' = "tarfs_mount"
               /\ MallocAt(fs.tab, MountVBytes) # NULL
               /\ fs' = [fs EXCEPT !.tab = Malloced(@, MountVBytes)]
      <3>1. MountVBytes \in 1 .. (BlockC * BLKSIZE)
        BY CoreFSAssumption
      <3>2. /\ Live(fs') = Live(fs) /\ \A j \in Live(fs) : Ent(fs', j) = Ent(fs, j)
            /\ fs'.MountV = fs.MountV
        BY <1>0, <2>3, <3>1, HoldGood
      <3> QED BY <2>1, <2>3, <3>2, RegionStutters, Stages
    <2> QED BY <1>2, <2>2, <2>3 DEF mountmgr_init, Panic
  <1>3. CASE MountModule
    BY <1>3, LoadRefines
  <1>4. ASSUME NEW p \in Paths, CreateDir(p) PROVE T!Next
    BY <1>4, MkdirRefines
  <1>5. ASSUME NEW p \in Paths, RemoveEntry(p) PROVE T!Next
    BY <1>5, RemoveRefines DEF RemoveEntry
  <1>6. ASSUME NEW p \in Paths, BulkRemove(p) PROVE T!Next
    BY <1>6, BulkRefines
  <1>7. ASSUME NEW p \in Paths, NEW buf \in Buffers, WriteFile(p, buf) PROVE T!Next
    BY <1>7, WriteRefines
  <1>8. CASE OtherMalloc
    <2>1. /\ MallocAt(fs.tab, BLKSIZE) # NULL /\ phase' = phase /\ sts' = sts
          /\ fs' = [fs EXCEPT !.tab = Malloced(@, BLKSIZE)]
      BY <1>8 DEF OtherMalloc
    <2>2. BLKSIZE \in 1 .. (BlockC * BLKSIZE)
      BY BlockTableAssumption
    <2>3. /\ Live(fs') = Live(fs) /\ \A j \in Live(fs) : Ent(fs', j) = Ent(fs, j)
          /\ fs'.MountV = fs.MountV
      BY <1>0, <2>1, <2>2, HoldGood
    <2> QED BY <2>1, <2>3, RegionStutters
  <1>9. CASE OtherFree
    <2>1. PICK b \in others : fs' = [fs EXCEPT !.tab = Unmark(@, b)]
      BY <1>9 DEF OtherFree
    <2>2. phase' = phase /\ sts' = sts /\ b \in kept \cup others
      BY <1>9 DEF OtherFree
    <2>3. /\ Live(fs') = Live(fs) /\ \A j \in Live(fs) : Ent(fs', j) = Ent(fs, j)
          /\ fs'.MountV = fs.MountV
      <3> DEFINE new == [fs EXCEPT !.tab = Unmark(@, b)]
      <3>1. /\ Good(new, (kept \cup others) \ {b})
            /\ Live(new) = Live(fs) /\ \A j \in Live(fs) : Ent(new, j) = Ent(fs, j)
            /\ new.MountV = fs.MountV
        BY <1>0, <2>2, UnholdGood
      <3> HIDE DEF new
      <3> QED BY <2>1, <3>1 DEF new
    <2> QED BY <2>2, <2>3, RegionStutters
  <1>10. CASE UNCHANGED vars
    <2>1. phase' = phase /\ sts' = sts /\ fs' = fs
      BY <1>10 DEF vars
    <2> QED BY <2>1, TreeStutters
  <1>11. CASE Halt
    BY <1>10, <1>11 DEF Halt
  <1> QED BY <1>1, <1>2, <1>3, <1>4, <1>5, <1>6, <1>7, <1>8, <1>9, <1>10, <1>11 DEF Next

\* The core file system implements the file tree: every fs_createDir,
\* fs_writeFile, fs_remove and fs_bulkRemove does all of what it is for or
\* nothing, also when the entry table, the slots or the memory are used up.
THEOREM CoreFSImplementsTree == Spec => ImplementsTree
  <1>1. Init => T!Init
    <2> SUFFICES ASSUME Init PROVE T!Init
      OBVIOUS
    <2>1. Live(fs) = {}
      BY CoreFSInit DEF CoreFSInv, Init
    <2>2. Tree = <<>>
      BY <2>1, Mapping DEF TreeOf
    <2> QED BY <2>2, Mapping, Stages DEF Init, T!Init
  <1>2. CoreFSInv /\ BootInv /\ CoreFSInv' /\ [Next]_vars => [T!Next]_(T!vars)
    BY TreeStep
  <1>3. Init => BootInv
    BY BootInit
  <1>4. CoreFSInv /\ BootInv /\ [Next]_vars => BootInv'
    BY BootNext
  <1>5. Spec => []CoreFSInv
    BY CoreFSAlways
  <1> QED BY <1>1, <1>2, <1>3, <1>4, <1>5, PTL DEF Spec, ImplementsTree, T!Spec
=============================================================================
