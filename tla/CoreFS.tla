------------------------------- MODULE CoreFS -------------------------------
(***************************************************************************)
(* The core file system at work: it is initialised, the operating system's *)
(* archive is mounted (kernel/kernel.c), and then the processes create,    *)
(* write and remove entries in any order, while the rest of the kernel     *)
(* takes memory from the same pool.                                        *)
(***************************************************************************)
EXTENDS EntryTable

CONSTANTS
  Paths,      \* the paths callers name
  Buffers,    \* what callers write to files
  Archives    \* operating system modules, each the sequence of its members; <<>> is none

Members == UNION {Range(archive) : archive \in Archives}

Data == Buffers \cup {<<>>} \cup {m.data : m \in Members}

Entries ==
  [name : Paths, type : {"DIR", "FILE"}, ftype : {"FILE", "MOUNTED"}, size : Nat,
   data : Data, mountslot : Slots \cup {NULL}]

Names == {pair[1] : pair \in NamePrefix}

\* A path is a sequence of names; what a caller writes fits into the pool.
ASSUME CoreFSAssumption ==
  /\ ENTCOUNT \in Nat \ {0}
  /\ MOUNTLIMIT \in Nat
  /\ {EntryVBytes, PathBytes, MountVBytes} \subseteq 1 .. (BlockC * BLKSIZE)
  /\ \A n \in Names : <<n, n>> \in NamePrefix
  /\ Paths \subseteq [names : Seq(Names), dir : BOOLEAN] /\ Root \in Paths
  /\ \A p \in Paths : p.names = <<>> => p.dir
  /\ \A d \in Data : Len(d) \in Nat
  /\ \A b \in Buffers : BLKSIZE + Len(b) <= BlockC * BLKSIZE
  /\ Members \subseteq [name : Paths \ {Root}, data : Data]
  /\ Archives \subseteq Seq(Members)
  /\ Junk \notin Entries \cup Data

VARIABLES
  fs,        \* the store
  phase,     \* how far the boot is
  sts,       \* the status of the last call
  kept,      \* ghost: first blocks of the regions the file system keeps for ever
  others     \* ghost: first blocks of the regions of other components

vars == <<fs, phase, sts, kept, others>>

TypeOK ==
  /\ fs.EntryV \in [Indexes -> Blocks \cup {NULL}]
  /\ \A b \in Blocks : fs.mem[b] = Junk \/ fs.mem[b] \in Entries
  /\ fs.tab \in Table
  /\ \A s \in Slots : fs.MountV[s] = Junk \/ fs.MountV[s] \in Data
  /\ phase \in {"corefs_init", "mountmgr_init", "tarfs_mount", "run", "panic"}
  /\ sts \in Statuses
  /\ kept \subseteq Blocks /\ others \subseteq Blocks

\* The pool has up to BlockC blocks: those it lacks are held from the start.
Init ==
  /\ \E n \in 0 .. BlockC :
       /\ fs = [EntryV |-> [i \in Indexes |-> NULL],
                mem |-> [b \in Blocks |-> Junk],
                tab |-> IF n = 0 THEN EmptyTable ELSE Mark(EmptyTable, 0, n),
                MountV |-> [s \in Slots |-> Junk]]
       /\ others = IF n = 0 THEN {} ELSE {0}
  /\ phase = "corefs_init"
  /\ sts = SUCCESS
  /\ kept = {}

-----------------------------------------------------------------------------
(* Boot *)

Panic == phase' = "panic" /\ UNCHANGED <<fs, kept>>

\* Four regions: the entry vector, the root directory, the list that
\* fs_readDir returns, and the path buffer.
corefs_init ==
  LET t1 == Malloced(fs.tab, EntryVBytes)
      t2 == Malloced(t1, BLKSIZE)
      t3 == Malloced(t2, EntryVBytes)
      root == MallocAt(t1, BLKSIZE)
      got == {MallocAt(fs.tab, EntryVBytes), root, MallocAt(t2, EntryVBytes), MallocAt(t3, PathBytes)}
  IN /\ phase = "corefs_init"
     /\ \/ /\ NULL \notin got
           /\ fs' = [fs EXCEPT !.EntryV[FS_ROOTDIR] = root, !.mem[root] = DirEntry(Root),
                               !.tab = Malloced(t3, PathBytes)]
           /\ kept' = got \ {root}
           /\ phase' = "mountmgr_init"
        \/ NULL \in got /\ Panic
     /\ UNCHANGED <<sts, others>>

mountmgr_init ==
  LET b == MallocAt(fs.tab, MountVBytes) IN
  /\ phase = "mountmgr_init"
  /\ \/ /\ b # NULL
        /\ fs' = [fs EXCEPT !.tab = Malloced(@, MountVBytes)]
        /\ kept' = kept \cup {b}
        /\ phase' = "tarfs_mount"
     \/ b = NULL /\ Panic
  /\ UNCHANGED <<sts, others>>

\* kernel_main mounts the module if there is one, and panics if that fails.
MountModule ==
  /\ phase = "tarfs_mount"
  /\ \E archive \in Archives :
       LET r == tarfs_mount(fs, archive) IN
       \/ archive = <<>> /\ phase' = "run" /\ UNCHANGED <<fs, kept, sts>>
       \/ /\ archive # <<>>
          /\ fs' = r.st
          /\ kept' = kept \cup ({MallocAt(fs.tab, PathBytes)} \ {NULL})
          /\ sts' = r.sts
          /\ phase' = IF r.sts = SUCCESS THEN "run" ELSE "panic"
  /\ UNCHANGED others

-----------------------------------------------------------------------------
(* Calls of the processes *)

Call(reply) ==
  /\ phase = "run"
  /\ fs' = reply.st
  /\ sts' = reply.sts
  /\ UNCHANGED <<phase, kept, others>>

CreateDir(p) == Call(fs_createDir(fs, p))
WriteFile(p, buf) == Call(fs_writeFile(fs, p, buf))
RemoveEntry(p) == Call(fs_remove(fs, p))
BulkRemove(p) == Call(fs_bulkRemove(fs, p))

\* Another component takes a block, or gives one back.
OtherMalloc ==
  LET b == MallocAt(fs.tab, BLKSIZE) IN
  /\ phase = "run" /\ others = {} /\ b # NULL
  /\ fs' = [fs EXCEPT !.tab = Malloced(@, BLKSIZE)]
  /\ others' = {b}
  /\ UNCHANGED <<phase, sts, kept>>

OtherFree ==
  /\ phase = "run"
  /\ \E b \in others :
       /\ fs' = [fs EXCEPT !.tab = Unmark(@, b)]
       /\ others' = others \ {b}
  /\ UNCHANGED <<phase, sts, kept>>

Halt == phase = "panic" /\ UNCHANGED vars

Next ==
  \/ corefs_init \/ mountmgr_init \/ MountModule
  \/ \E p \in Paths : CreateDir(p) \/ RemoveEntry(p) \/ BulkRemove(p)
  \/ \E p \in Paths, buf \in Buffers : WriteFile(p, buf)
  \/ OtherMalloc \/ OtherFree
  \/ Halt

Spec == Init /\ [][Next]_vars

-----------------------------------------------------------------------------
(* Properties *)

\* Every entry has a region of its own, as long as its header and data
\* need, with its header at the start: however often fs_writeFile moved it
\* by realloc, and whatever was freed and handed out again around it.  A
\* mounted file needs the header only.  The store keeps its types.
EntriesOwned ==
  /\ TypeOK
  /\ \A i \in Live(fs) :
       LET e == Ent(fs, i) IN
       /\ e # Junk
       /\ fs.tab[fs.EntryV[i]].count =
            BlocksFor(BLKSIZE + (IF e.type = "FILE" THEN Len(e.data) ELSE 0))
       /\ e.ftype = "FILE" => e.size = Len(e.data)
       /\ \A j \in Live(fs) \ {i} : fs.EntryV[j] # fs.EntryV[i]

\* Nothing leaks and nothing is lost: the regions handed out are those of
\* the entries, those that corefs_init, mountmgr_init and tarfs_mount keep,
\* and those of the other components.
MemoryAccounted ==
  /\ TableSound(fs.tab)
  /\ Heads(fs.tab) = {fs.EntryV[i] : i \in Live(fs)} \cup kept \cup others

\* No two entries have one name, no name is both a file's and a
\* directory's, and every directory on the way to an entry exists, the root
\* excepted, which fs_bulkRemove may remove.
TreeInv ==
  \A i \in Live(fs) :
    LET p == Ent(fs, i).name IN
    /\ \A j \in Live(fs) \ {i} : Ent(fs, j).name \notin {p, AsFile(p)}
    /\ p.dir <=> Ent(fs, i).type = "DIR"
    /\ ParentsFound(fs, p)

\* A mounted file shows the data its archive has for that name, through a
\* slot that no other file uses.
MountsHold ==
  \A i \in Live(fs) :
    Ent(fs, i).ftype = "MOUNTED" =>
      /\ [name |-> Ent(fs, i).name, data |-> DataOf(fs, i)] \in Members
      /\ \A j \in Live(fs) \ {i} : Ent(fs, j).mountslot # Ent(fs, i).mountslot

\* The tree that a caller sees by fs_stat and fs_readFile.
Node(i) ==
  IF Ent(fs, i).type = "DIR" THEN [kind |-> "dir"]
  ELSE [kind |-> IF Ent(fs, i).ftype = "MOUNTED" THEN "mounted" ELSE "file",
        data |-> DataOf(fs, i)]

Tree == [p \in {Ent(fs, i).name : i \in Live(fs)} |-> Node(fs_index(fs, p))]

Stage == CASE phase = "corefs_init" -> "off"
           [] phase \in {"mountmgr_init", "tarfs_mount"} -> "boot"
           [] phase = "run" -> "run"
           [] phase = "panic" -> "stopped"

T == INSTANCE FileTree WITH stage <- Stage, tree <- Tree, ok <- sts = SUCCESS

\* The file system implements the file tree: every call takes effect as a
\* whole or not at all, also when the entry table or the memory is full.
ImplementsTree == T!Spec

-----------------------------------------------------------------------------
(* What comments of the code say and the code does not do *)

\* "File name exists": FILEEXISTS says that a file has the directory's name.
FileNameExists ==
  [][\A p \in Paths : CreateDir(p) /\ sts' = FILEEXISTS => Exists(fs, AsFile(p))]_vars
=============================================================================
