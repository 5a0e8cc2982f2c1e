------------------------------- MODULE IOCall -------------------------------
(***************************************************************************)
(* The I/O calls of kernel/iocall.c, the drivers that feed the device      *)
(* files (drv/keyboard.c, drv/mouse.c), the kernel's loop that drains them *)
(* (kernel/kernel.c) and processes that open, read, write and close files. *)
(* Each call runs to its end without a yield; between two calls anybody    *)
(* else may run.                                                           *)
(*                                                                         *)
(* The data of a device file is the sequence of the bytes queued in it:    *)
(* the code keeps their number in a word before them.                      *)
(***************************************************************************)
EXTENDS EntryTable

CONSTANTS
  MAXFD,             \* IOCALL_MAXFD
  U32,               \* sizeof(uint32_t)
  Dev, Keyboard, Mouse,
  Procs,
  Opens,             \* <<path, flags>>: what processes open
  Counts,            \* how many bytes processes read and write
  Keys,              \* key codes
  Packet,            \* the bytes of a mouse packet
  Held,              \* how many blocks other components may hold from the start
  MaxAccepted,       \* bound: keys and mouse packets that devices accept
  Zero               \* the byte that fills a gap in a file

TYPEFD == 3
O_RDONLY == "O_RDONLY"
O_WRONLY == "O_WRONLY"
O_RDWR == "O_RDWR"
O_CREAT == "O_CREAT"
O_EXCL == "O_EXCL"
O_TRUNC == "O_TRUNC"
O_APPEND == "O_APPEND"

Devices == {Keyboard, Mouse}
Flags == {O_RDONLY, O_WRONLY, O_RDWR, O_CREAT, O_EXCL, O_TRUNC, O_APPEND}
DriverBytes == Keys \cup Range(Packet)

\* Processes write a byte of their own: themselves.
ASSUME IOCallAssumption ==
  /\ ENTCOUNT \in Nat \ {0} /\ MAXFD \in Nat /\ MAXFD > TYPEFD /\ U32 \in 1 .. BLKSIZE
  /\ Dev.dir /\ ~ Keyboard.dir /\ ~ Mouse.dir
  /\ Parents(Keyboard) = {Dev} /\ Parents(Mouse) = {Dev} /\ Keyboard # Mouse
  /\ \A o \in Opens : o[2] \subseteq Flags
  /\ Counts \subseteq Nat /\ Packet \in Seq(Range(Packet))
  /\ Held \subseteq 0 .. (BlockC - 1)
  /\ DriverBytes \cap (Procs \cup {Zero}) = {}

VARIABLES
  fs,                  \* the store
  iocall_FileDesc,
  phase,               \* "boot", "run" or "panic"
  accepted, taken,     \* ghost: bytes each device took in and handed out
  holds                \* ghost: what each process has opened and not closed

vars == <<fs, iocall_FileDesc, phase, accepted, taken, holds>>

Descs == 0 .. (MAXFD - 1)

NoDesc == [entry |-> 0, flags |-> {}, ptr |-> 0]
ClearDescs == [i \in Descs |-> NoDesc]

-----------------------------------------------------------------------------
(* The calls, as operators from the store and the descriptors to both, a   *)
(* return value and the bytes a read delivers.                             *)

Return(st, fdv, ret, bytes) == [st |-> st, fdv |-> fdv, ret |-> ret, bytes |-> bytes]

\* Mutant: the device files are made readable and writable.
devperm_ReadWrite == {O_RDWR}

\* The device files are made with devperm = O_RDONLY.
devperm == {O_RDONLY}

\* "iocall_Initialized" is never set: every open clears the descriptors.
iocall_Initialized == FALSE

MayRead(flags) == flags \cap {O_RDONLY, O_RDWR} # {}
MayWrite(flags) == flags \cap {O_WRONLY, O_RDWR} # {}

\* open refuses a device for the direction its permissions leave out.
DeviceRefuses(flags) ==
  /\ O_RDWR \notin flags
  /\ \/ O_RDONLY \in flags /\ O_WRONLY \in devperm
     \/ O_RDONLY \notin flags /\ O_WRONLY \in flags /\ O_RDONLY \in devperm

open(st, fdv, path, flags, force) ==
  LET fdv0 == IF iocall_Initialized THEN fdv ELSE ClearDescs
      new == ~ Exists(st, path)
      w == fs_writeFile(st, path, <<>>)
      made == IF new THEN w.st ELSE st
      ent == fs_stat(made, path)
      trunc == fs_writeFile(made, path, <<>>)
      cut == IF O_TRUNC \in flags /\ ~ new THEN trunc.st ELSE made
      found == First({i \in Descs : fdv0[i].entry = 0})
      fails ==
        \/ new /\ (O_CREAT \notin flags \/ w.sts # SUCCESS)
        \/ ~ new /\ fs_index(st, path) = FS_ROOTDIR
        \/ ent.type # "FILE"
        \/ ~ force /\ ent.ftype = "CHARDEV" /\ DeviceRefuses(flags)
        \/ O_EXCL \in flags /\ ~ new
        \/ O_TRUNC \in flags /\ ~ new /\ trunc.sts # SUCCESS
      failsLate ==
        \/ ~ force /\ O_APPEND \in flags /\ O_RDONLY \in flags /\ O_RDWR \notin flags
        \/ found = NULL
  IN IF fails THEN Return(IF O_CREAT \in flags THEN made ELSE st, fdv0, -1, <<>>)
     ELSE IF failsLate THEN Return(cut, fdv0, -1, <<>>)
     ELSE Return(cut, [fdv0 EXCEPT ![found].entry = fs_index(made, path),
                                   ![found].flags = flags], TYPEFD + found, <<>>)

\* The entry a descriptor names, if it is a file: no entry is index 0, and
\* the entry may be gone.
Usable(st, d) ==
  /\ d.entry # 0 /\ st.EntryV[d.entry] # NULL
  /\ Ent(st, d.entry).type = "FILE"

Least(m, n) == IF m <= n THEN m ELSE n

\* Every caller passes the descriptor open gave it, which is TYPEFD: for
\* another one the index below is negative.
read(st, fdv, fd, count, force) ==
  LET k == TYPEFD - fd
      d == fdv[k]
      ent == Ent(st, d.entry)
      rest == Least(count, ent.size - d.ptr)
      queued == Least(count, Len(ent.data))
      Fail == Return(st, fdv, -1, <<>>)
  IN IF fd # TYPEFD \/ ~ Usable(st, d) \/ (~ force /\ ~ MayRead(d.flags)) THEN Fail
     ELSE IF ent.ftype = "FILE" THEN
       IF d.ptr >= ent.size THEN Return(st, fdv, 0, <<>>)
       ELSE Return(st, [fdv EXCEPT ![k].ptr = @ + rest], rest,
                   SubSeq(ent.data, d.ptr + 1, d.ptr + rest))
     ELSE IF ent.ftype = "CHARDEV" THEN
       IF ~ force /\ ~ MayRead(devperm) THEN Fail
       ELSE Return([st EXCEPT !.mem[st.EntryV[d.entry]].data = SubSeq(@, queued + 1, Len(@))],
                   fdv, queued, SubSeq(ent.data, 1, queued))
     ELSE Fail

\* The file's data with buf laid over it from ptr on; a gap reads as zero.
Overlay(data, ptr, buf) ==
  LET limit == IF Len(data) >= ptr + Len(buf) THEN Len(data) ELSE ptr + Len(buf) IN
  [i \in 1 .. limit |-> IF i \in (ptr + 1) .. (ptr + Len(buf)) THEN buf[i - ptr]
                        ELSE IF i \in DOMAIN data THEN data[i] ELSE Zero]

\* Mutant: the buffer is not freed when fs_writeFile fails.
WriteThrough_KeepsBuffer(st, fdv, k, buf) ==
  LET ent == Ent(st, fdv[k].entry)
      data == Overlay(ent.data, fdv[k].ptr, buf)
      b == MallocAt(st.tab, Len(data))
      w == fs_writeFile([st EXCEPT !.tab = Malloced(@, Len(data))], ent.name, data)
  IN IF b = NULL THEN Return(st, fdv, -1, <<>>)
     ELSE IF w.sts # SUCCESS THEN Return(w.st, fdv, -1, <<>>)
     ELSE Return([w.st EXCEPT !.tab = Unmark(@, b)],
                 [fdv EXCEPT ![k].ptr = @ + Len(buf)], Len(buf), <<>>)

\* The new contents are built in a buffer of their own, which is allocated
\* while fs_writeFile runs and freed after it, also when that fails.
WriteThrough(st, fdv, k, buf) ==
  LET ent == Ent(st, fdv[k].entry)
      data == Overlay(ent.data, fdv[k].ptr, buf)
      b == MallocAt(st.tab, Len(data))
      w == fs_writeFile([st EXCEPT !.tab = Malloced(@, Len(data))], ent.name, data)
      after == [w.st EXCEPT !.tab = Unmark(@, b)]
  IN IF b = NULL THEN Return(st, fdv, -1, <<>>)
     ELSE IF w.sts # SUCCESS THEN Return(after, fdv, -1, <<>>)
     ELSE Return(after, [fdv EXCEPT ![k].ptr = @ + Len(buf)], Len(buf), <<>>)

\* Mutant: one byte is kept free, as in a ring that must tell full from empty.
Room_OneLess(ent) == ent.size - U32 - Len(ent.data) - 1

\* As many bytes as the device's buffer has room for; the rest is dropped.
Room(ent) == ent.size - U32 - Len(ent.data)

\* Mutant: the newest bytes are stored first.
Enqueue_NewestFirst(st, fdv, k, buf) ==
  LET b == st.EntryV[fdv[k].entry]
      c == Least(Len(buf), Room(st.mem[b]))
  IN Return([st EXCEPT !.mem[b].data = SubSeq(buf, 1, c) \o @], fdv, c, <<>>)

Enqueue(st, fdv, k, buf) ==
  LET b == st.EntryV[fdv[k].entry]
      c == Least(Len(buf), Room(st.mem[b]))
  IN Return([st EXCEPT !.mem[b].data = @ \o SubSeq(buf, 1, c)], fdv, c, <<>>)

write(st, fdv, fd, buf, force) ==
  LET k == fd - TYPEFD
      d == fdv[k]
      ent == Ent(st, d.entry)
      Fail == Return(st, fdv, -1, <<>>)
  IN IF k \notin Descs \/ ~ Usable(st, d) \/ (~ force /\ ~ MayWrite(d.flags)) THEN Fail
     ELSE IF ent.ftype = "FILE" THEN WriteThrough(st, fdv, k, buf)
     ELSE IF ent.ftype = "CHARDEV" /\ (force \/ MayWrite(devperm)) THEN Enqueue(st, fdv, k, buf)
     ELSE Fail

\* The descriptor itself is the index, not its distance from TYPEFD.
close(st, fdv, fd) ==
  IF fd \notin Descs \/ fd < TYPEFD \/ fdv[fd].entry = 0 THEN Return(st, fdv, -1, <<>>)
  ELSE Return(st, [fdv EXCEPT ![fd] = NoDesc], 0, <<>>)

-----------------------------------------------------------------------------
(* Boot *)

\* The store as corefs_init leaves it when others hold the first n blocks.
BootStore(n) ==
  [EntryV |-> [i \in Indexes |-> IF i = FS_ROOTDIR THEN n ELSE NULL],
   mem |-> [b \in Blocks |-> IF b = n THEN DirEntry(Root) ELSE Junk],
   tab |-> Mark(IF n = 0 THEN EmptyTable ELSE Mark(EmptyTable, 0, n), n, 1),
   MountV |-> [i \in Slots |-> Junk]]

Init ==
  /\ \E n \in Held : fs = BootStore(n)
  /\ iocall_FileDesc = ClearDescs
  /\ phase = "boot"
  /\ accepted = [p \in Devices |-> <<>>]
  /\ taken = [p \in Devices |-> <<>>]
  /\ holds = [p \in Procs |-> NULL]

\* A file of a block of zeroes that becomes an empty device.
DeviceFile(reply, path) ==
  LET w == fs_writeFile(reply.st, path, [i \in 1 .. BLKSIZE |-> Zero])
      b == w.st.EntryV[fs_index(w.st, path)]
  IN IF reply.sts # SUCCESS THEN reply
     ELSE IF w.sts # SUCCESS THEN w
     ELSE Reply([w.st EXCEPT !.mem[b].ftype = "CHARDEV", !.mem[b].data = <<>>], SUCCESS)

InitDevices ==
  /\ phase = "boot"
  /\ \E d \in {fs_createDir(fs, Dev)} :
     \E k \in {DeviceFile(d, Keyboard)} :
     \E m \in {DeviceFile(k, Mouse)} :
       /\ fs' = m.st
       /\ phase' = IF m.sts = SUCCESS THEN "run" ELSE "panic"
  /\ UNCHANGED <<iocall_FileDesc, accepted, taken, holds>>

-----------------------------------------------------------------------------
(* Drivers and the kernel's loop *)

Queue(st, path) == fs_stat(st, path).data

\* What a step took out of and put into a device.
Ghosts(out, in) ==
  /\ taken' = [p \in Devices |-> taken[p] \o out[p]]
  /\ accepted' = [p \in Devices |-> accepted[p] \o in[p]]
  /\ Len(accepted'[Keyboard]) <= MaxAccepted
  /\ Len(accepted'[Mouse]) <= MaxAccepted * Len(Packet)

Nothing == [p \in Devices |-> <<>>]

\* key_send and mouse_send: open, write, close, with the access override.
Send(path, bytes) ==
  /\ phase = "run"
  /\ \E o \in {open(fs, iocall_FileDesc, path, {O_WRONLY}, TRUE)} :
     \E w \in {write(o.st, o.fdv, o.ret, bytes, TRUE)} :
     \E c \in {close(w.st, w.fdv, o.ret)} :
       /\ fs' = c.st
       /\ iocall_FileDesc' = c.fdv
       /\ Ghosts(Nothing, [Nothing EXCEPT ![path] = SubSeq(bytes, 1, w.ret)])
  /\ UNCHANGED <<phase, holds>>

key_send(key) == Send(Keyboard, <<key>>)
mouse_send(packet) == Send(Mouse, packet)

\* One pass of the loop after i8042_proc: open and read both devices.
KernelLoop ==
  /\ phase = "run"
  /\ \E o1 \in {open(fs, iocall_FileDesc, Keyboard, {O_RDONLY}, FALSE)} :
     \E r1 \in {read(o1.st, o1.fdv, o1.ret, 1, FALSE)} :
     \E o2 \in {open(r1.st, r1.fdv, Mouse, {O_RDONLY}, FALSE)} :
     \E r2 \in {read(o2.st, o2.fdv, o2.ret, Len(Packet), FALSE)} :
       /\ fs' = r2.st
       /\ iocall_FileDesc' = r2.fdv
       /\ Ghosts([Nothing EXCEPT ![Keyboard] = r1.bytes, ![Mouse] = r2.bytes], Nothing)
  /\ UNCHANGED <<phase, holds>>

-----------------------------------------------------------------------------
(* Processes *)

\* The device behind descriptor TYPEFD, if it is one.
Target == IF iocall_FileDesc[0].entry = 0 THEN Root ELSE Ent(fs, iocall_FileDesc[0].entry).name

Step(r) ==
  /\ phase = "run"
  /\ fs' = r.st
  /\ iocall_FileDesc' = r.fdv
  /\ UNCHANGED phase

Open(proc, path, flags) ==
  \E r \in {open(fs, iocall_FileDesc, path, flags, FALSE)} :
  /\ Step(r)
  /\ holds' = [holds EXCEPT ![proc] = IF r.ret = -1 THEN @ ELSE fs_index(r.st, path)]
  /\ UNCHANGED <<accepted, taken>>

Read(proc, count) ==
  \E r \in {read(fs, iocall_FileDesc, TYPEFD, count, FALSE)} :
  /\ holds[proc] # NULL
  /\ Step(r)
  /\ Ghosts([p \in Devices |-> IF p = Target THEN r.bytes ELSE <<>>], Nothing)
  /\ UNCHANGED holds

Write(proc, count) ==
  \E r \in {write(fs, iocall_FileDesc, TYPEFD, [i \in 1 .. count |-> proc], FALSE)} :
  /\ holds[proc] # NULL
  /\ Step(r)
  /\ Ghosts(Nothing, [p \in Devices |-> IF p = Target /\ r.ret > 0
                                         THEN [i \in 1 .. r.ret |-> proc] ELSE <<>>])
  /\ UNCHANGED holds

Close(proc) ==
  \E r \in {close(fs, iocall_FileDesc, TYPEFD)} :
  /\ holds[proc] # NULL
  /\ Step(r)
  /\ holds' = [holds EXCEPT ![proc] = NULL]
  /\ UNCHANGED <<accepted, taken>>

Halt == phase = "panic" /\ UNCHANGED vars

Next ==
  \/ InitDevices
  \/ \E key \in Keys : key_send(key)
  \/ mouse_send(Packet)
  \/ KernelLoop
  \/ \E proc \in Procs :
       \/ \E o \in Opens : Open(proc, o[1], o[2])
       \/ \E count \in Counts : Read(proc, count) \/ Write(proc, count)
       \/ Close(proc)
  \/ Halt

Spec == Init /\ [][Next]_vars

-----------------------------------------------------------------------------
(* Properties *)

FileNames == {o[1] : o \in Opens} \cup {Dev, Keyboard, Mouse, Root}

TypeOK ==
  /\ fs.EntryV \in [Indexes -> Blocks \cup {NULL}]
  /\ \A b \in Blocks : fs.mem[b] = Junk \/ fs.mem[b].name \in FileNames
  /\ fs.tab \in Table
  /\ iocall_FileDesc \in [Descs -> [entry : Indexes, flags : SUBSET Flags, ptr : Nat]]
  /\ phase \in {"boot", "run", "panic"}
  /\ holds \in [Procs -> Indexes \cup {NULL}]

\* A device hands out what it took in, in that order, each byte once, to
\* whoever reads: also when descriptors change hands in between.
DeviceFIFO ==
  phase = "run" => \A p \in Devices : accepted[p] = taken[p] \o Queue(fs, p)

\* Although every open, of a driver too, leaves descriptor TYPEFD to whoever
\* uses it next, no process gets a byte into a device, no driver's byte gets
\* into a file or into the other device: the device permissions see to it.
BytesApart ==
  \A i \in Live(fs) :
    LET e == Ent(fs, i) IN
    Range(e.data) \subseteq
      (CASE e.name = Keyboard /\ phase = "run" -> Keys
         [] e.name = Mouse /\ phase = "run" -> Range(Packet)
         [] OTHER -> Procs \cup {Zero})

\* The buffers that write takes are given back on every path, every entry
\* has the room its size needs, and a device's queue stays within its file; store
\* and descriptors keep their types.
StoreSound ==
  /\ TypeOK
  /\ TableSound(fs.tab)
  /\ Heads(fs.tab) \ {0} = {fs.EntryV[i] : i \in Live(fs)} \ {0}
  /\ \A i \in Live(fs) :
       LET e == Ent(fs, i) IN
       /\ fs.tab[fs.EntryV[i]].count = BlocksFor(BLKSIZE + e.size)
       /\ IF e.ftype = "CHARDEV" THEN U32 + Len(e.data) <= e.size ELSE Len(e.data) = e.size

\* As long as everybody reads whole packets, the mouse's queue is a sequence
\* of whole packets, although a full device takes only part of a write: the
\* room of a device is a multiple of the packet's length.
PacketsWhole ==
  phase = "run" =>
    LET q == Queue(fs, Mouse) IN
    /\ Len(q) % Len(Packet) = 0
    /\ \A i \in DOMAIN q : q[i] = Packet[((i - 1) % Len(Packet)) + 1]

-----------------------------------------------------------------------------
(* What comments of the code say and the code does not do *)

\* "Limit of active file descriptors" is 64: the file a process has opened
\* stays the one behind its descriptor when others open files.
DescriptorStays ==
  \A proc \in Procs : holds[proc] # NULL => iocall_FileDesc[0].entry = holds[proc]

\* O_APPEND: "All writes to file will be appended to end".
AppendsAtEnd ==
  [][\A proc \in Procs, count \in Counts :
       LET e == iocall_FileDesc[0].entry IN
       /\ Write(proc, count)
       /\ O_APPEND \in iocall_FileDesc[0].flags
       /\ fs' # fs
       => Ent(fs', e).data = Ent(fs, e).data \o [i \in 1 .. count |-> proc]]_vars
=============================================================================
