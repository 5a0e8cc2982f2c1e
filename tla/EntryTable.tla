----------------------------- MODULE EntryTable -----------------------------
(***************************************************************************)
(* The functions of the core file system (kernel/corefs.c), the mount      *)
(* manager (kernel/mountmgr.c) and the tar mounter (fs/tarfs.c), as        *)
(* operators from a store to a store and a status.  None of them yields,   *)
(* so a call is one step; CoreFS and IOCall call them in their actions.    *)
(*                                                                         *)
(* A store holds the variables of corefs.c and mountmgr.c and the memory   *)
(* they live in:                                                           *)
(*   EntryV  entry index -> block of its region, or NULL                   *)
(*   mem     block -> the entry whose header is there, or Junk             *)
(*   tab     the block table of the memory manager                         *)
(*   MountV  mount slot -> data of a file of an archive, or Junk           *)
(* A path is the sequence of its names and whether it ends with a slash.   *)
(***************************************************************************)
EXTENDS BlockTable, SequencesExt

CONSTANTS
  ENTCOUNT,      \* FS_MAX_ENTCOUNT
  MOUNTLIMIT,    \* MOUNTMGR_MOUNTLIMIT
  EntryVBytes,   \* size of fs_EntryV
  PathBytes,     \* FS_MAX_PATHLEN
  MountVBytes,   \* size of mountmgr_MountV
  NamePrefix,    \* <<m, n>>: the text of name m is a prefix of the text of name n
  Junk           \* what memory holds that nobody has written since it was freed

NULL == -1

Indexes == 0 .. (ENTCOUNT - 1)
Slots == 0 .. (MOUNTLIMIT - 1)
FS_ROOTDIR == 0

SUCCESS == 0
FAILURE == -1
ALREADYEXISTS == -3
OUTOFMEMORY == -4
PATHNOTFOUND == -5
ENTRYNOTFOUND == -8
DIRNOTEMPTY == -9
FILEEXISTS == -10
DIREXISTS == -11

Statuses == {SUCCESS, FAILURE, ALREADYEXISTS, OUTOFMEMORY, PATHNOTFOUND,
             ENTRYNOTFOUND, DIRNOTEMPTY, FILEEXISTS, DIREXISTS}

-----------------------------------------------------------------------------
(* Paths *)

Root == [names |-> <<>>, dir |-> TRUE]

AsDir(p) == [p EXCEPT !.dir = TRUE]
AsFile(p) == [p EXCEPT !.dir = FALSE]

\* The directories that p lies in, the root excepted.
Parents(p) == {[names |-> SubSeq(p.names, 1, i), dir |-> TRUE] : i \in 1 .. (Len(p.names) - 1)}

\* ncompare over the whole text of directory d: q is d or lies below it.
Within(d, q) == IsPrefix(d.names, q.names) /\ (d.names = q.names => q.dir)

\* ncompare over the text of d without its last slash: q's text goes on in
\* any way, also within the last name of d.
WithinBare(d, q) ==
  LET n == Len(d.names) IN
  n > 0 => /\ Len(q.names) >= n
           /\ SubSeq(d.names, 1, n - 1) = SubSeq(q.names, 1, n - 1)
           /\ <<d.names[n], q.names[n]>> \in NamePrefix

-----------------------------------------------------------------------------
(* Memory *)

\* The block that malloc(size) hands out.
MallocAt(tab, size) ==
  LET bases == IF size = 0 THEN {} ELSE Starts(tab, BlocksFor(size)) IN
  IF bases = {} THEN NULL ELSE CHOOSE b \in bases : TRUE

Malloced(tab, size) ==
  LET b == MallocAt(tab, size) IN
  IF b = NULL THEN tab ELSE Mark(tab, b, BlocksFor(size))

\* Mutant: the index is cleared and the region is not given back.
Freed_KeepsRegion(st, is) ==
  [st EXCEPT !.EntryV = [i \in Indexes |-> IF i \in is THEN NULL ELSE @[i]]]

\* The store without the entries in is, their regions given back.
Freed(st, is) ==
  LET gone == {st.EntryV[i] : i \in is}
      blocks == UNION {Run(b, st.tab[b].count) : b \in gone}
  IN [st EXCEPT !.EntryV = [i \in Indexes |-> IF i \in is THEN NULL ELSE @[i]],
                !.mem = [b \in Blocks |-> IF b \in gone THEN Junk ELSE @[b]],
                !.tab = [b \in Blocks |-> IF b \in blocks THEN ClearBlock ELSE @[b]]]

-----------------------------------------------------------------------------
(* Looking up *)

Live(st) == {i \in Indexes : st.EntryV[i] # NULL}

Ent(st, i) == st.mem[st.EntryV[i]]

First(S) == IF S = {} THEN NULL ELSE CHOOSE i \in S : \A j \in S : i <= j

fs_index(st, p) == First({i \in Live(st) : Ent(st, i).name = p})

Exists(st, p) == fs_index(st, p) # NULL

fs_stat(st, p) == Ent(st, fs_index(st, p))

\* What fs_readFile finds: the file's own data, or that of the archive.
DataOf(st, i) ==
  IF Ent(st, i).ftype = "MOUNTED" THEN st.MountV[Ent(st, i).mountslot] ELSE Ent(st, i).data

\* The check of every directory on the way to p.
ParentsFound(st, p) == \A d \in Parents(p) : Exists(st, d)

-----------------------------------------------------------------------------
(* Changing the store *)

Reply(st, sts) == [st |-> st, sts |-> sts]

\* The end of fs_createDir and fs_writeFile: the first empty index gets a
\* region for the header and size bytes of data.
NewEntry(st, size, ent) ==
  LET i == First(Indexes \ Live(st))
      b == MallocAt(st.tab, BLKSIZE + size)
  IN IF i = NULL \/ b = NULL THEN Reply(st, OUTOFMEMORY)
     ELSE Reply([st EXCEPT !.EntryV[i] = b, !.mem[b] = ent,
                           !.tab = Malloced(@, BLKSIZE + size)], SUCCESS)

\* size, ftype and mountslot are left unwritten in a directory, and stand for
\* nothing here either: whoever reads them has found the type to be FILE.
\* Only the listing of kernel_main prints the size of a directory as well.
DirEntry(p) ==
  [name |-> p, type |-> "DIR", ftype |-> "FILE", size |-> 0, data |-> <<>>, mountslot |-> NULL]

FileEntry(p, buf) ==
  [name |-> p, type |-> "FILE", ftype |-> "FILE", size |-> Len(buf), data |-> buf,
   mountslot |-> NULL]

\* A file whose text starts with that of the directory, less its last
\* slash, is in the way.
FileInTheWay(st, p) ==
  \E i \in Live(st) : Ent(st, i).type = "FILE" /\ WithinBare(p, Ent(st, i).name)

fs_createDir(st, p) ==
  IF ~ p.dir THEN Reply(st, FAILURE)
  ELSE IF FileInTheWay(st, p) THEN Reply(st, FILEEXISTS)
  ELSE IF Exists(st, p) THEN Reply(st, ALREADYEXISTS)
  ELSE IF ~ ParentsFound(st, p) THEN Reply(st, PATHNOTFOUND)
  ELSE NewEntry(st, 0, DirEntry(p))

\* Mutant: the header that realloc left behind gets the new size.
Rewrite_StaleHeader(st, i, buf) ==
  LET old == st.EntryV[i]
      b == MallocAt(st.tab, BLKSIZE + Len(buf))
  IN IF b = NULL THEN Reply(st, OUTOFMEMORY)
     ELSE Reply([st EXCEPT
            !.EntryV[i] = b,
            !.mem = [@ EXCEPT ![b] = [st.mem[old] EXCEPT !.data = buf],
                              ![old] = [@ EXCEPT !.size = Len(buf)]],
            !.tab = Unmark(Malloced(@, BLKSIZE + Len(buf)), old)], SUCCESS)

\* Mutant: writing a mounted file gives its slot up and leaves it mounted.
Rewrite_DropsSlot(st, i, buf) ==
  LET old == st.EntryV[i]
      b == MallocAt(st.tab, BLKSIZE + Len(buf))
  IN IF b = NULL THEN Reply(st, OUTOFMEMORY)
     ELSE Reply([st EXCEPT
            !.EntryV[i] = b,
            !.mem = [@ EXCEPT ![b] = [st.mem[old] EXCEPT !.size = Len(buf), !.data = buf],
                              ![old] = Junk],
            !.tab = Unmark(Malloced(@, BLKSIZE + Len(buf)), old),
            !.MountV = [s \in Slots |-> IF s = st.mem[old].mountslot THEN Junk ELSE @[s]]],
          SUCCESS)

\* realloc moves the region; header and data are written at the new place.
Rewrite(st, i, buf) ==
  LET old == st.EntryV[i]
      b == MallocAt(st.tab, BLKSIZE + Len(buf))
  IN IF b = NULL THEN Reply(st, OUTOFMEMORY)
     ELSE Reply([st EXCEPT
            !.EntryV[i] = b,
            !.mem = [@ EXCEPT ![b] = [st.mem[old] EXCEPT !.size = Len(buf), !.data = buf],
                              ![old] = Junk],
            !.tab = Unmark(Malloced(@, BLKSIZE + Len(buf)), old)], SUCCESS)

fs_writeFile(st, p, buf) ==
  IF p.dir THEN Reply(st, FAILURE)
  ELSE IF Exists(st, AsDir(p)) THEN Reply(st, DIREXISTS)
  ELSE IF Exists(st, p) THEN Rewrite(st, fs_index(st, p), buf)
  ELSE IF ~ ParentsFound(st, p) THEN Reply(st, PATHNOTFOUND)
  ELSE NewEntry(st, Len(buf), FileEntry(p, buf))

\* Indexes of the entries whose text starts with that of directory p.
Below(st, p) == {i \in Live(st) : Within(p, Ent(st, i).name)}

\* Mutant: a directory goes although it is not empty.
fs_remove_NotEmpty(st, p) ==
  IF p = Root THEN Reply(st, FAILURE)
  ELSE IF ~ Exists(st, p) THEN Reply(st, ENTRYNOTFOUND)
  ELSE Reply(Freed(st, {fs_index(st, p)}), SUCCESS)

fs_remove(st, p) ==
  IF p = Root THEN Reply(st, FAILURE)
  ELSE IF ~ Exists(st, p) THEN Reply(st, ENTRYNOTFOUND)
  ELSE IF p.dir /\ \E i \in Below(st, p) : Ent(st, i).name # p THEN Reply(st, DIRNOTEMPTY)
  ELSE Reply(Freed(st, {fs_index(st, p)}), SUCCESS)

\* Mutant: the last slash is left out of the comparison.
fs_bulkRemove_Bare(st, p) ==
  IF ~ Exists(st, p) THEN Reply(st, PATHNOTFOUND)
  ELSE IF fs_stat(st, p).type # "DIR" THEN fs_remove(st, p)
  ELSE Reply(Freed(st, {i \in Live(st) : WithinBare(p, Ent(st, i).name)}), SUCCESS)

fs_bulkRemove(st, p) ==
  IF ~ Exists(st, p) THEN Reply(st, PATHNOTFOUND)
  ELSE IF fs_stat(st, p).type # "DIR" THEN fs_remove(st, p)
  ELSE Reply(Freed(st, Below(st, p)), SUCCESS)

-----------------------------------------------------------------------------
(* Mounting an archive, a sequence of members [name, data]. *)

mountmgr_getSlot(st) == First({s \in Slots : st.MountV[s] = Junk})

MountDir(st, member) == fs_createDir(st, member.name)

\* The file is created empty and then made to point at the archive's data.
MountFile(st, member) ==
  LET w == fs_writeFile(st, member.name, <<>>)
      slot == mountmgr_getSlot(w.st)
      ent == w.st.EntryV[fs_index(w.st, member.name)]
  IN IF w.sts # SUCCESS THEN w
     ELSE IF slot = NULL THEN Reply(w.st, FAILURE)
     ELSE Reply([w.st EXCEPT
            !.MountV[slot] = member.data,
            !.mem[ent] = [@ EXCEPT !.ftype = "MOUNTED", !.mountslot = slot,
                                   !.size = Len(member.data)]], SUCCESS)

Mount(reply, member) ==
  IF reply.sts # SUCCESS THEN reply
  ELSE IF member.name.dir THEN MountDir(reply.st, member) ELSE MountFile(reply.st, member)

\* The path buffer is allocated first and never freed; the first member
\* that fails ends the mount and leaves what was mounted before.
tarfs_mount(st, archive) ==
  LET mounted[n \in 0 .. Len(archive)] ==
        IF n = 0 THEN Reply([st EXCEPT !.tab = Malloced(@, PathBytes)], SUCCESS)
        ELSE Mount(mounted[n - 1], archive[n])
  IN IF MallocAt(st.tab, PathBytes) = NULL THEN Reply(st, FAILURE)
     ELSE mounted[Len(archive)]
=============================================================================
