# A TLA+ model of the Deputy kernel

This directory models the Deputy kernel (`src/`), a small 32-bit x86 kernel in C and assembly: a block
memory manager, a cooperative process scheduler, a file system held in RAM with files mounted
from a tar archive, Unix-like I/O calls over it, character devices fed by a PS/2 controller, and
drivers for PCI, ACPI and USB controllers. The modules are translated from the code. TLC checks them
on small instances; TLAPS proves nearly all of the safety properties for every value of the constants.

## The system

There is one CPU, no preemption and no system timer. Code runs until it calls `yield`, directly or
through `delay` and `sleep`. The processes are the kernel's own loop (`kernel_main`), `kernel_idle`,
and whatever was spawned or loaded from an ELF file. All of them share one address space and call
the same functions; `int 0x80` reaches six of these through the system call table, `int 0x9E` is `yield`.

| component | source | state | operations | hard behaviour |
|---|---|---|---|---|
| memory manager | `kernel/memory.c` | `memory_BlockV` (count and flag of every block), `memory_Space`, `memory_Limit` | `memory_init`, `malloc`, `calloc`, `realloc`, `free`, `mavail` | wrapping sizes, double and interior frees, a failing `realloc` |
| multitasking | `kernel/multitask.c`, `multitask_swi.s` | `multitask_ProcV`, `multitask_Focus`, saved registers | `spawn`, `exec`, `kill`, `exit`, `yield`, the sentry | a process is released while it runs on its own stack; stale saved registers; fairness |
| core file system | `kernel/corefs.c` | `fs_EntryV`, one memory region for each entry | `fs_createDir`, `fs_writeFile`, `fs_readFile`, `fs_remove`, `fs_bulkRemove`, `fs_readDir`, `fs_stat`, `fs_index` | names are compared by prefix; entries move in memory when they grow; a full table or a full memory midway |
| mount manager, tarfs | `kernel/mountmgr.c`, `fs/tarfs.c` | `mountmgr_MountV` | `mountmgr_getSlot`, `mountmgr_freeSlot`, `tarfs_mount` | a mount that fails midway; slots of removed files |
| I/O calls | `kernel/iocall.c` | `iocall_FileDesc`, `iocall_ForceAccess` | `open`, `close`, `read`, `write` | a descriptor names an entry index that may be removed and used again; bounded device buffers |
| input drivers | `drv/keyboard.c`, `drv/mouse.c` | none of their own | `key_send`, `mouse_send` | a full buffer cuts a mouse packet; the access override is a global flag |
| PS/2 controller | `hw/i8042.c` | `i8042_InitLock`, port flags; prefix flags and bytes of a packet as locals | `i8042_init`, `i8042_proc` | time-outs inside a packet; keyboard and mouse share one port; what the initialisation leaves unread |
| clock | `kernel/utils.c` | none; `kernel_CPUInfo.frequency` | `date`, `sleep`, `delay`, `utils_rdtsc`, the measurements of `kernel_init` and `kernel_idle` | a time read in pieces; a sleep over the end of a month |
| strings and formatting | `kernel/utils.c` | `utils_RABuffer`, shared by all conversions | `utils_itoa`, `utils_xtoa`, `atoi`, `utils_oct2bin`, `split`, `snprintf`, `printf`, `unit` | wrapping integers, sizes at the limit, one buffer for two results |
| console | `kernel/console.c` | `console_Cursor`, the screen | `console_print`, `console_clear`, `putchar` and its relatives | wrapping and scrolling at the last column and row |
| interrupts | `hw/interrupts.c`, `interrupt_stubs.s` | the gate table and its lock | `interrupts_setGate`, `interrupts_init`, the two handlers | a gate set too early is dropped |
| system calls | `kernel/syscall.c` | `syscall_Table` | `syscall_init`, `syscall_handler` | the table is read before the number is tested |
| ACPI, device bus, drivers | `hw/acpi.c`, `hw/devbus.c`, `kernel/drivers.c` | `acpiTable`, `devbus_InitLock`, `devbus_PCIeBase` | table search, activation, scan, driver choice | a time-out drops tables; a scan without a bus |
| USB | `drv/usb.c` | register pointers, rings, `usb_PortV`, `usb_InitLock` | `usb_init`, `usb_portInit` | six allocations, each of which may fail, and a controller that has been told of the earlier ones |
| boot | `kernel/kernel.c`, `entry.s` | sizes, `kernel_CPUInfo` | `kernel_init`, `kernel_main` | unsigned sizes, an overlapping copy, the order of the initialisations |
| protection | `hw/protect_init.c`, `protect_flush.s` | GDT | `protect_init` | none: constants, once |

The parts call each other as follows. `multitask.c`, `corefs.c`, `mountmgr.c`, `tarfs.c` and `usb.c` take
memory from `memory.c`. `iocall.c` reads and writes `fs_EntryV` directly and calls `corefs.c`. The PS/2
driver decodes bytes and calls `key_send` and `mouse_send`, which open, write and close a device file;
the kernel's loop polls the controller, opens the same device files, reads them and yields.
`exec` reads an ELF file through `corefs.c`. `delay` and `sleep` call `yield` once processes run.

What would make each part correct: regions of memory never meet and none is lost; a process keeps its
stack and its registers until it ends, and gets the CPU again; names of files are unique, every entry
lies in a directory, and a call does all or nothing; bytes of a device come out once and in order, and
nobody but its driver puts one in; a key or packet is decoded once and whole, however the bytes of two
devices mix; the boot ends and leaves every part with the memory, tables and gates the next one relies on;
what is on the screen is the end of what was printed.

## Modules

| module | what it is |
|---|---|
| `BlockTable` | the block table as operators: search, marking, clearing, and what a sound table is |
| `Memory` | `memory.c`: state, one action per function; instances in `MCMemory` |
| `Heap` | what the memory manager promises: disjoint regions with contents |
| `Multitask` | `multitask.c`, `multitask_swi.s` and the loop of `kernel_main`; instances in `MCMultitask` |
| `EntryTable` | `corefs.c`, `mountmgr.c`, `tarfs.c` as operators from a store to a store and a status |
| `CoreFS` | the file system at work: boot, mount, calls of processes; instances in `MCCoreFS` |
| `FileTree` | what the file system promises: a tree, with calls that take effect wholly or not at all |
| `IOCall` | `iocall.c`, the input drivers and the kernel's reading of devices; instances in `MCIOCall` |
| `I8042` | `hw/i8042.c` against a controller with a keyboard and a mouse that send when they like |
| `Input` | `I8042` and `IOCall` on the kernel's one thread: from the devices' bytes to the kernel's loop; instances in `MCInput` |
| `Clock` | the clock of `utils.c`: registers read one by one, `sleep`, `kernel_idle`; instances in `MCClock` |
| `Boot` | `kernel_init` on top of `Clock`, with interrupts, system calls, ACPI, device bus, drivers and USB; instances in `MCBoot` |
| `Text` | the string functions of `utils.c` as operators on character codes and wrapping integers, in the detail that its own properties compare |
| `Console` | the screen and the printing calls; instances in `MCText` |
| `BlockTableProofs`, `EntryTableProofs` | lemmas about the operators of the two tables |
| `MemoryProofs`, `MultitaskProofs`, `CoreFSProofs`, `IOCallProofs`, `InputProofs`, `BootProofs` | the theorems about each component, with their inductive invariants and proofs |

`Multitask` and `EntryTable` extend `BlockTable` and allocate with its operators, so the stacks, the images and
the entries live in the same kind of table that `Memory` checks; `IOCall` and `CoreFS` extend `EntryTable`.
`Memory` implements `Heap`, `CoreFS` implements `FileTree`. `Input` composes `I8042` with `IOCall`, `Boot` extends `Clock`,
`Console` extends `Text`.

How state corresponds. `memory_BlockV` is the array of the same name; an address is a number, and block
`b` starts at `AddrOf(b)`. `multitask_ProcV[p]` is the slot of process `p`, `cpu` the registers of whoever
runs, of which the model keeps the instruction pointer (at its entry, or further on) and the stack
pointer. In a store, `EntryV` is `fs_EntryV` with blocks for pointers, `mem` maps the first block of a
region to the entry whose header is there, and freed memory reads as `Junk`, so that a use after free
shows. A path is the sequence of its names and whether it ends with a slash; `NamePrefix` says which
names begin with which, because the code compares names by prefix. A device file's data is its queue.
Ghost variables (`held`, `left`, `kept`, `others`, `accepted`, `taken`, `holds`) only record history.

In the other modules: `obuf` is the byte the PS/2 controller shows, with the device it is from and (a ghost) the
key or packet it belongs to; `loc` are the locals of `i8042_proc`; `at` and `pc` say where the kernel's thread is.
`now` is the real-time clock in ticks, `counter` the time stamp counter. `hosts` holds what each USB controller has
been told and whether it is under reset, `live` what the driver has allocated, `FreedAt` what each of the seven failing paths of `usb_init` frees. Answers of boot loader, firmware and hardware are chosen where the
code asks for them; a boot that follows a pointer nobody has set ends in the state `wild`, and so may a kernel whose stack a handler has left
with words of its frame. A directory's size, `ftype` and mount slot, which the code leaves unwritten, have values in `DirEntry` that
stand for nothing: every reader finds the type to be a file first, but for the listing that prints sizes (`kernel.c:335`).

One action is one call of the code in `Memory`, `Multitask`, `CoreFS`, `IOCall` and `Console`: none of these functions
yields except `yield` itself, and the processor is never preempted by code that touches this state. In `I8042`, `Clock` and
`Boot` an action is the code between two moments at which the outside may have changed: two reads of a port, two
registers of the clock, two allocations. Sizes are computed modulo `WORD`
(2^32 in the code), since `malloc`'s loop bound and ceiling division wrap.

## Runs

| run | instance | checks |
|---|---|---|
| `memory` | 4 blocks of 4 bytes, requests at every boundary, frees of any address | table soundness, the search stays in the table, `mavail`, refinement of `Heap` |
| `memory_oversize` | requests larger than the pool | violates "If not found, returns null" |
| `multitask` | 3 processes, 6 blocks, any part of them taken at boot | stacks, accounting, registers, no panic, nobody skipped; every process and the kernel run again, a broken stack is fatal |
| `corefs` | 3 entries, 1 mount slot, up to 9 blocks of 2 bytes, 5 paths, 3 modules to boot with | regions, accounting, the tree, mounts, refinement of `FileTree` |
| `corefs_prefix` | no module mounted | violates "File name exists" |
| `iocall` | 1 process, 2 devices of 3 bytes, 2 files, 12 blocks | order of device bytes, whose bytes are where, memory after failed writes, whole mouse packets |
| `iocall_shared` | 2 processes | violates "Limit of active file descriptors" being 64 |
| `iocall_append` | one file opened with `O_APPEND` | violates "All writes to file will be appended to end" |
| `ps2` | 2 keys or packets, with and without prefixes and controller; every answer good, bad or missing | what is decoded is what was sent, nothing is dropped in the files, the initialisation listens to the controller and finds both ports, everything sent is read in the end |
| `clock_sleep` | a calendar of 2 days, any start | violates `sleep`: "for a certain amount of time" |
| `boot` | 2 USB controllers of 2 ports, fields and modules around the kernel's size, 5 ticks a second | frequency, dispatch of every call through its gate, memory layout, the module, USB: memory under DMA, the pointers in use, what a failure loses; the boot ends |
| `text` | 2 rows of 8, 3 calls, 8-bit integers | the screen, every conversion against a reference |

Why the bounds are enough. A pool of four blocks has a region of every length, two neighbours, a hole
between two regions and a full pool. Three processes give a next, a skipped and a wrapped-around one;
six blocks run out. Nine blocks are five that the file system keeps, the root and three or four to fight
over, so that a rewrite finds room, finds a hole too small, or finds none; a region held by others from
the start stands for smaller pools and makes every panic of the boot happen. Two names, one a prefix of
the other, are what prefix comparison can confuse. A device of three bytes holds one mouse packet or
three keys and is full after that; its room is a multiple of the packet's length, as 4092 is of 3.
Two units on the wire are a unit and the one it may be mixed with; after a quiet moment the books start afresh, so longer
histories repeat these. Two controllers are one that fails, on any of seven paths, and one that is tried while the first may still be under reset. Five ticks to a second let a read
of the clock begin, be cut by a tick and end within it; a kernel of two bytes in a field of two or six makes the module fit,
just fit, and not fit. Two rows of eight have a tab stop, a last cell and a line to scroll; eight bits have a smallest integer
and every number of digits that the algorithm distinguishes. `MaxAccepted`, `MaxEvents` and `MaxCalls` bound the history of a
device, the keys and packets sent, and the calls that print; nothing else is bounded but by the instance. The types are part of
`EntriesOwned` in `corefs` and of `StoreSound` in `iocall`; those of `Multitask`, and that no process is frozen, are proved rather than run. The mutants
in `PROJECT.json` show that each property would fail for a plausible slip in the code it is about.

Fairness. `multitask` assumes that a process that runs yields in the end, and that the kernel's boot and
loop go on. Cooperative multitasking asks no less, `kernel_main`'s loop and `kernel_idle` do so, and
without it no process but the one running ever runs. `ps2` assumes that the kernel's
thread goes on, which is what `KernelRuns` of `multitask` shows of its loop, and that a byte a device has begun to
send comes in the end: the loop over prefixes has no time-out, and a keyboard pulled out in the middle of a key does hang
the kernel's loop. Nothing is assumed about when a byte comes. `boot` assumes that the processor runs, the clock ticks, and
a USB controller gets ready, which the code waits for without a time-out (`usb.c:678`). One assumption on the hardware is no fairness: `NoDanglingDMA`
takes it that a controller accesses no memory from the moment HCRST is written, since `usb_init` frees at once (`usb.c:686-734`). The reset itself
(`ResetDone`) ends at any later time or never. `clock_sleep` assumes that the clock
ticks and the idle task runs. Deadlock is checked in every run but `text`, whose calls are bounded by `MaxCalls`; a panic is a
state that stutters.

## Findings

Shown by a run that TLC finds violated:

1. `malloc` grants requests that no run of blocks can hold (`memory.c:41`, `memory.c:35`; run `memory_oversize`).
2. `fs_createDir` takes a longer name for the name of a file in its way (`corefs.c:147`; run `corefs_prefix`).
3. Every `open` clears the descriptor table: one descriptor at most is open in the system (`iocall.c:180`;
   run `iocall_shared`).
4. `O_APPEND` has no effect (`iocall.c:152`; run `iocall_append`).

5. `sleep` counts from the first of the month: one that is under way when the month ends does not return in time, and before
   processes run the boot hangs with it (`utils.c:230`; run `clock_sleep`). After a month of 31 days no later date reaches the
   target and it never returns; after a shorter one it returns weeks later, on a day the shorter month did not have. The
   model's months all have the same length, so there it is never. `BootEnds` names it as an exception.

Part of the models, because the code does it: `fs_bulkRemove("/")` removes the root directory itself, which
`fs_remove` refuses, and index 0 goes to another entry (`corefs.c:371`). A write to a mounted file answers success
and is lost: `fs_readFile` goes on returning the archive's data (`corefs.c:223`); `FileTree` says so of mounted files.
`close` indexes the table with the descriptor itself and frees nothing (`iocall.c:228`). Outside the models:
`O_TRUNC` cuts the file of a device, read-only or not, so that its queue lies outside its region
(`iocall.c:206`); the processes of `IOCall` truncate other files only.

In spite of 3, no process puts a byte into a device (`BytesApart`): `write` tests the permissions of the
device as well as those of the descriptor. But a process that goes on reading through its old descriptor takes
bytes of the mouse: `PacketsWhole` holds as long as everybody reads whole packets.

Seen while modelling, and left to the reader: the index test of `i8042_PortErrorLog` is reversed (`i8042.c:276`); a key pressed
between `i8042.c:251` and `297` is taken for an answer of the controller; `usb_init` frees three regions on each of its late failures
and keeps the port table, the segment table and the event ring (`usb.c:717`, `720`, `734`; `LateLossOnly` says that nothing else is lost);
it does not wait for the reset before it frees (`usb.c:733`); every USB port is entered in the first element of `usb_PortV` (`usb.c:614`);
the scan of the bus runs over an unset structure when there is no bus (`devbus.c:153`); 64-bit addresses are cut
(`devbus.c:103`) and a header without base addresses leaves the caller's structure unwritten (`devbus.c:87`); `syscall_handler` (`syscall.c:28`) and the
default handler (`interrupts.c:109`) return from an interrupt with `ret`, the stub of the double fault begins with `iret` (`interrupt_stubs.s:84`); a printed character above 127 takes the
colour with it (`console.c:81`); `utils_itoa` of the smallest integer (`utils.c:100`) and `snprintf` with size 0
(`utils.c:401`) do not do what they should; `%d` before the text of `unit` in one `printf` destroys it (`utils.c:6`).

## Proofs

Every theorem is about the specification that TLC runs, for all values of the constants that satisfy the
`ASSUME` of its module; TLC evaluates these assumptions on every instance. Four more hypotheses are stated in the
theorems that need them (`SaneRequests`, `SaneCalls`, `WholePackets` and `TPS > 2`, below): the first three exclude what the code is
known not to cope with, the last says that the model's tick is shorter than half a second. The instances of the passing runs satisfy them.

| module | theorem | proves |
|---|---|---|
| `MemoryProofs` | `TableAlwaysSound`, `AlwaysTyped`, `RegionsAlwaysDisjoint`, `AlwaysInside` | `TypeOK`, `TableInv`, `StaysInside` |
| | `MavailAlwaysExact` | `MavailExact` |
| | `PoolLayout` | the pool of `memory_init` lies behind the table, within the field, aligned |
| | `MemoryImplementsHeap` | the refinement of `Heap` |
| `MultitaskProofs` | `ProcessesIsolated`, `StacksAlwaysOwned`, `MemoryAlwaysAccounted`, `ContextsAlwaysIntact` | `StacksOwned`, `MemoryAccounted`, `ContextsIntact`, the types, and that no process is frozen |
| | `SchedulerNeverPanics` | `NoPanicAfterBoot` |
| | `NobodyEverSkipped` | `NobodySkipped` |
| `CoreFSProofs` | `EntriesAlwaysOwned`, `StoreAlwaysAccounted`, `TreeAlwaysSound`, `MountsAlwaysHold` | `EntriesOwned`, `MemoryAccounted`, `TreeInv`, `MountsHold` |
| | `CoreFSImplementsTree` | the refinement of `FileTree` |
| `IOCallProofs` | `StoreAlwaysSound`, `BytesAlwaysApart`, `DevicesAlwaysFIFO`, `PacketsAlwaysWhole` | `StoreSound`, `BytesApart`, `DeviceFIFO`, `PacketsWhole` |
| `InputProofs` | `AnswersAlwaysOwn`, `BothPortsAlwaysFound`, `NothingEverDropped` | `AnswersOwn`, `BothPortsFound`, `NothingDropped` |
| | `UnitsAlwaysExact` | `UnitsExact` |
| `BootProofs` | `CallsAlwaysDispatched`, `MemoryAlwaysApart`, `ModuleAlwaysLoaded` | `CallsDispatched`, `MemoryApart`, `ModuleLoaded` |
| | `NeverDanglingDMA`, `UsbAlwaysReady`, `OnlyLateLoss` | `NoDanglingDMA`, `UsbReady`, `LateLossOnly` |
| | `CalibrationAlwaysExact` | `CalibrationExact` |

**Block table.** Marking a run that fits, and clearing a run, keep a table sound and change the set of regions by
exactly that one; the search for a request no larger than the pool ends inside the table. Assumed is
`BlockTableAssumption`: at least one block, and the pool below the end of the address space.

**Memory.** `SaneRequests` says that no request exceeds the pool; finding 1 shows why it is needed. The inductive invariant
`MemoryInv` is `TypeOK /\ TableInv /\ StaysInside`. `TableInv` alone is not inductive: that `Mark` keeps runs apart needs
the search to stay inside the table, and the arithmetic needs the types. `MavailExact` follows from it by counting. The
refinement maps a state to the regions of its table and what they hold; it is proved call by call, and the one with work
in it is `realloc`, which is a grant, a copy and a release that must together be one `Resize` of `Heap`.

**Multitasking.** `MultitaskInv` is `Good` (a sound table whose regions are exactly the stacks of the live processes and the
blocks held for others, one stack each, nobody frozen), `ContextsIntact`, the types, and that no process exists before
`multitask_init`. `Good` is stated of any process table and block table because `yield`, `exit` and `kill` pass
through intermediate ones: the sentry's kill and the switch of one call are proved one after the other. `NoPanicAfterBoot`
needs `IdleInv` besides: the idle task is alive and its stack pointer, running or saved, is the one it was given, so
that the sentry never finds its stack broken.

**Files.** `EntryTableProofs` says what each function of `corefs.c` does to a store: which entry it adds, moves or
removes, and that a failure gives the region back. `CoreFSInv` is `Good`: types, a sound block table whose regions are
exactly those of the entries and the kept ones, no two entries in one region, regions as long as header and data need, names that
differ, parents that exist, and mounted files with slots of their own. The parts need each other: a rewrite moves the region, which is sound only if no other
entry lies in it, and a removal keeps the tree only because names are unique. `CoreFSAssumption` asks that a name begins
with itself, that only directories have an empty path, and that buffers and tables fit the pool (again finding 1).

**I/O calls.** `IOCallInv(F)` is parameterised by `F`, the bytes that the driver of each device feeds: `Fed` in `IOCall`, all bytes
in `Input`, so that the lemmas serve both. `StoreInv` says that the store is sound, that the one descriptor in use names an entry
that exists and a position within it, that a device is one block with its queue behind its length, and that a queue holds bytes
of its own driver only; `HistoryInv` that what a device took in is what it gave out followed by its queue.
`StoreSound` alone is not inductive, since `write` to a device relies on where the queue lies, and `BytesApart` relies on the
permissions of devices. `SaneCalls` asks that a count does not exceed a block (then the buffer of `write`, behind the
end of a file that fits, is no larger than the pool, which finding 1 requires) and that nobody truncates a device (`iocall.c:202-207`, see Findings). `WholePackets` asks for packets of three bytes,
counts that are multiples of three, and room that is one too, as 4092 is: without each of these a packet shifts.

**Input.** For the initialisation, `OwnInv` says that both ports are off and only the controller's answer is on its way until
the verdict is in; `PortsInv` says, stage by stage of `i8042_init`, which answer is on its way when nothing goes wrong.
`NothingEverDropped` composes the two halves: `DropInv` joins `OwnInv`, `RegsInv` (types of the locals of `i8042_proc`),
`IOCallInv` and `QueuesInv`: outside the moment between feeding and reading every queue is empty, and
within it one holds one key or one packet. `InputAssumption` says that a packet has three bytes, the number the loop reads (`kernel.c:374`).

`UnitsExact` is about the way between. A unit is a key or a packet; the bytes of the n-th unit of a device carry its number,
those of an answer of `i8042_init` carry 0. `Stream(src, us, F, k, j)` says that the bytes `F` are those of the units `us` from
byte `j + 1` of unit `k + 1` on, to the end, possibly after bytes of no unit; the lemmas say what reading its first byte and
sending another unit make of it. The inductive invariant `UnitsInv` says for each device that there are such `k` and `j`
(`Along`): what is in the port and pending is that stream, what was handed on is what the first `k` units mean, and the
locals of `i8042_proc` are those of a driver that has read `j` bytes of the next unit (`Reader`). The loop over prefixes needs the most:
it does not test whether the port has a byte, so it may read a prefix again and again (`i8042.c:210`); `KeyFlags` says that the flags then
stay as they are, because a prefix sets its flag and no prefix is a scan code (`I8042Assumption`). Without
a controller every byte is 255, which is no status of a packet. `Meant`, the meaning of the first `k` units, is a flattened
sequence; that it grows by one unit at a time is proved from the definition of `FlattenSeq` by the least index at which it would not.

**Boot.** `GatesInv` says how far the gates are set, `SizesInv` that no size has wrapped, `UsbInv` what the controller under way
has been told, which regions exactly each controller holds (`HeldTo` up to the allocation it is at, `Lost` after a failure), and that only controllers
given up are under reset, so that the end of a reset disturbs no other. `OnlyLateLoss` rests on `FreedLeaves`, which goes through the seven free lists and
says what each leaves of what had been allocated by then. `ModuleLoaded` is about `ncopy`, a recursive function: the proof
gives its closed form (`Moved`), shows that it satisfies the recursive equation since a copy to a lower address
reads each byte before writing over it, and that no other function does, by the least index at which they would differ.
`BootAssumption` says that kernel, field and modules lie within the address space and modules lie behind the kernel.

`CalibrationExact` holds although `date` reads its registers one by one: a date taken while a second ends may be wrong by an hour or
a day. `CalibrationInv` says why it does no harm. The registers read so far belong to the present second, or the second began with the tick just past (`Torn`);
`sleep` returns at most one tick after its target, and what follows at most another (`Prompt`); so the time stamp is taken
within the first three ticks of a second, and the counter shows the ticks since then, less two at most (`Stamped`). That the
registers give back the seconds they were split from is division by a product, one factor at a time, and the conversion to and
from BCD (`ClockAssumption`: radices of at most two digits, and a start within the month). The end of a month is excepted, as in the run, and with
two ticks to a second "just after" would mean nothing.

**Checked by TLC only.** Liveness is beyond the prover: `EveryoneRuns`, `KernelRuns`, `BrokenStackDies`, `Settles`, `BootEnds`.
So are the properties of `Text` and `Console` (`ShowsTail`, `NumbersRight`, `SplitRight`, `Truncates`, `BufferSurvives`): each compares
two recursions over a text or a number that need an induction over data of its own, through folds with operators as arguments.

## Not modelled

Segment image contents and headers of ELF files (`exec` is modelled by the size of the image it allocates), registers
other than two, time stamps and permissions of files, the list of `fs_readDir` (only `kernel_main` calls it, before any other
process exists), paths that are not absolute, descriptors that `open` did not return, counts that wrap, the 512-byte records of
an archive, `mountmgr_freeSlot` (no caller).

`delay` is not a module: its length depends on a frequency that may be 0 or wrong, so its callers are modelled for waits
of any length. `usb_process` is never started (`kernel.c:323` is commented out). Checksums of tables, bits of registers and
descriptors, `xorcipher` and `xorshift32` (no caller), the GDT, the printed CPU features, the serial port and the text of messages have no property. A format that
ends in a percent sign, which `printf` reads past, is not passed. Sources that nothing calls (`*_old*`, `*_canceled*`, examples,
`fat32*.c`, `ramdisk.c`, `program*.c`) and the data structures of `multiboot.h` are left out.

## Plan

Every safety property of the runs but those of `Text` and `Console` is a theorem. What is left there:
that the cursor stays on the screen and no write misses it (`~ stray`, a part of `ShowsTail`), by induction over the characters
of a call, and lemmas about single conversions, for numbers of one digit more than a shorter one.
