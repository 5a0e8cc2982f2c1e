------------------------------ MODULE Multitask ------------------------------
(***************************************************************************)
(* Cooperative multitasking, kernel/multitask.c, with the part of          *)
(* kernel_main that drives it: the process table, spawn, exec, kill, exit, *)
(* yield with its sentry, and the context switch of multitask_swi.s.       *)
(* Stacks and program images come from the block table of the memory       *)
(* manager.  Every function runs to its end, or to its context switch,     *)
(* without interruption.                                                   *)
(*                                                                         *)
(* A context keeps two of the registers: where the flow of control is, at  *)
(* its entry or further on, and its stack pointer.  Addresses are relative *)
(* to memory_Space; the kernel's own stack lies below the pool.            *)
(***************************************************************************)
EXTENDS BlockTable

CONSTANTS
  PROCLIMIT,      \* slots of the process table; slot 0 stands for the kernel
  STACKSIZE,      \* bytes of a process stack
  PROCTABSIZE,    \* bytes of the process table
  Images          \* bytes of the loadable segments of the programs exec finds

ASSUME MultitaskAssumption ==
  /\ PROCLIMIT \in Nat \ {0, 1}
  /\ STACKSIZE \in 1 .. (BlockC * BLKSIZE)
  /\ PROCTABSIZE \in 1 .. (BlockC * BLKSIZE)
  /\ Images \subseteq 1 .. (BlockC * BLKSIZE)

Pids == 1 .. (PROCLIMIT - 1)

IDLE == 1            \* the first process spawned: kernel_idle

NULL == -1           \* no block
KSTACK == -1         \* a stack pointer into the kernel's boot stack

Eips == {"none", "entry", "body"}

Contexts == [eip : Eips, esp : Int]

NoContext == [eip |-> "none", esp |-> 0]        \* cleared by fill(..., 0, ...)

VARIABLES
  memory_BlockV,
  multitask_InitLock,
  multitask_InStream,
  multitask_Focus,
  multitask_ProcV,      \* [active, freeze, file, stack (its block), context]
  KernelContext,        \* multitask_KernelProc.context
  cpu,                  \* the registers of the running flow of control
  kernel_pc,            \* how far kernel_init and kernel_main are
  panic,
  left,                 \* ghost: the context each flow had when it last gave up the CPU
  held                  \* ghost: blocks taken at boot and by exec for program images

vars == <<memory_BlockV, multitask_InitLock, multitask_InStream, multitask_Focus,
          multitask_ProcV, KernelContext, cpu, kernel_pc, panic, left, held>>

NoProc == [active |-> FALSE, freeze |-> FALSE, file |-> FALSE, stack |-> NULL,
           context |-> NoContext]

TypeOK ==
  /\ memory_BlockV \in Table
  /\ multitask_InitLock \in BOOLEAN
  /\ multitask_InStream \in BOOLEAN
  /\ multitask_Focus \in 0 .. (PROCLIMIT - 1)
  /\ multitask_ProcV \in [Pids -> [active : BOOLEAN, freeze : BOOLEAN, file : BOOLEAN,
                                   stack : Blocks \cup {NULL}, context : Contexts]]
  /\ KernelContext \in Contexts
  /\ cpu \in Contexts
  /\ kernel_pc \in {"multitask_init", "spawn idle", "exec", "loop"}
  /\ panic \in BOOLEAN
  /\ left \in [0 .. (PROCLIMIT - 1) -> Contexts]
  /\ held \in SUBSET Blocks

\* The components initialised before multitasking hold the first blocks,
\* any number of them.
Init ==
  /\ \E n \in 0 .. BlockC :
       /\ memory_BlockV = IF n = 0 THEN EmptyTable ELSE Mark(EmptyTable, 0, n)
       /\ held = IF n = 0 THEN {} ELSE {0}
  /\ multitask_InitLock = FALSE
  /\ multitask_InStream = FALSE
  /\ multitask_Focus = 0
  /\ multitask_ProcV = [p \in Pids |-> NoProc]
  /\ KernelContext = NoContext
  /\ cpu = [eip |-> "body", esp |-> KSTACK]
  /\ kernel_pc = "multitask_init"
  /\ panic = FALSE
  /\ left = [p \in 0 .. (PROCLIMIT - 1) |-> NoContext]

-----------------------------------------------------------------------------
(* Subfunctions over a process table and a block table. *)

StackAddr(b) == b * BLKSIZE

Runnable(procs) == {p \in Pids : procs[p].active /\ ~ procs[p].freeze}

Inactive(procs) == {p \in Pids : ~ procs[p].active}

Least(S) == CHOOSE x \in S : \A y \in S : x <= y

\* Mutant: a full stack's worth of room counts as an underrun.
StackBroken_TopExcluded(proc) ==
  \/ proc.context.esp <= StackAddr(proc.stack)
  \/ proc.context.esp >= StackAddr(proc.stack) + STACKSIZE

\* The saved stack pointer lies outside the process's stack.
StackBroken(proc) ==
  \/ proc.context.esp <= StackAddr(proc.stack)
  \/ proc.context.esp > StackAddr(proc.stack) + STACKSIZE

\* The state spawn gives a slot whose stack starts at block b.
NewProc(b, file) ==
  [active |-> TRUE, freeze |-> FALSE, file |-> file, stack |-> b,
   context |-> [eip |-> "entry", esp |-> StackAddr(b) + STACKSIZE]]

\* Where spawn's malloc can find the stack; none if the table is full.
StackBases(tab) ==
  IF multitask_InitLock /\ Inactive(multitask_ProcV) # {}
  THEN Starts(tab, BlocksFor(STACKSIZE)) ELSE {}

\* spawn, from block table tab on, of a process that starts at its entry.
Spawned(tab, b, file) ==
  LET pid == Least(Inactive(multitask_ProcV)) IN
  /\ memory_BlockV' = Mark(tab, b, BlocksFor(STACKSIZE))
  /\ multitask_ProcV' = [multitask_ProcV EXCEPT ![pid] = NewProc(b, file)]
  /\ left' = [left EXCEPT ![pid] = [eip |-> "entry", esp |-> StackAddr(b) + STACKSIZE]]

\* kill: it fails on a slot that is not active.
CanKill(procs, pid) == pid \in Pids /\ procs[pid].active

\* Mutant: the slot stays active.
KilledProcs_StaysActive(procs, pid) == [procs EXCEPT ![pid].context = NoContext]

KilledProcs(procs, pid) ==
  [procs EXCEPT ![pid].context = NoContext, ![pid].active = FALSE]

\* Mutant: the stack is not freed.
KilledTable_KeepsStack(procs, tab, pid) == tab

KilledTable(procs, tab, pid) == Unmark(tab, procs[pid].stack)

\* Mutant: looks for overruns only.
SentryFires_OverrunOnly(procs, pid) ==
  pid # 0 /\ procs[pid].active /\ procs[pid].context.esp <= StackAddr(procs[pid].stack)

\* sentry: the process table and block table after the check of process pid.
SentryFires(procs, pid) == pid # 0 /\ procs[pid].active /\ StackBroken(procs[pid])

SentryProcs(procs, pid) ==
  IF ~ SentryFires(procs, pid) THEN procs
  ELSE IF CanKill(procs, pid) THEN KilledProcs(procs, pid)
  ELSE [procs EXCEPT ![pid].freeze = TRUE]

SentryTable(procs, tab, pid) ==
  IF SentryFires(procs, pid) /\ CanKill(procs, pid) THEN KilledTable(procs, tab, pid) ELSE tab

\* Mutant: the search starts one slot too high.
NextOf_SkipsOne(procs, pid) ==
  LET above == {p \in Runnable(procs) : IF pid = 0 THEN p > 0 ELSE p > pid + 1}
  IN  IF above = {} THEN 0 ELSE Least(above)

\* Mutant: the search always starts at the first slot.
NextOf_Lowest(procs, pid) ==
  LET others == Runnable(procs) \ {pid} IN IF others = {} THEN 0 ELSE Least(others)

\* Mutant: the search wraps around past the kernel.
NextOf_WrapsPastKernel(procs, pid) ==
  LET above == {p \in Runnable(procs) : p > pid}
      others == Runnable(procs) \ {pid}
  IN  IF above # {} THEN Least(above) ELSE IF others # {} THEN Least(others) ELSE 0

\* The process yield picks after process pid: the next one up, or the
\* kernel; after the kernel the lowest one.
NextOf(procs, pid) ==
  LET above == {p \in Runnable(procs) : p > pid} IN IF above = {} THEN 0 ELSE Least(above)

ContextOf(procs, pid) == IF pid = 0 THEN KernelContext ELSE procs[pid].context

\* Mutant: the registers are saved only for the kernel.
Switch_SavesKernelOnly(procs, old, next) ==
  /\ multitask_Focus' = next
  /\ left' = [left EXCEPT ![old] = cpu]
  /\ cpu' = ContextOf(procs, next)
  /\ multitask_ProcV' = procs
  /\ KernelContext' = IF old = 0 THEN cpu ELSE KernelContext

\* multitask_swi: the registers go to the old flow's context, even when its
\* slot is no longer active, and come from the next one's.
Switch(procs, old, next) ==
  /\ multitask_Focus' = next
  /\ left' = [left EXCEPT ![old] = cpu]
  /\ cpu' = ContextOf(procs, next)
  /\ IF old = 0
     THEN KernelContext' = cpu /\ multitask_ProcV' = procs
     ELSE /\ multitask_ProcV' = [procs EXCEPT ![old].context = cpu]
          /\ UNCHANGED KernelContext

\* yield, from the given tables on.
YieldFrom(procs, tab) ==
  LET old == multitask_Focus
      procs2 == SentryProcs(procs, old)
      next == NextOf(procs2, old)
  IN  /\ multitask_InStream' = TRUE
      /\ memory_BlockV' = SentryTable(procs, tab, old)
      /\ IF next = old    \* only the kernel finds nobody
         THEN /\ panic' = TRUE
              /\ multitask_ProcV' = procs2
              /\ UNCHANGED <<multitask_Focus, left, cpu, KernelContext>>
         ELSE /\ Switch(procs2, old, next)
              /\ UNCHANGED panic
      /\ UNCHANGED <<multitask_InitLock, kernel_pc, held>>

-----------------------------------------------------------------------------
(* The kernel: kernel_init calls multitask_init; kernel_main spawns the    *)
(* idle task, executes the first program and then yields for ever.         *)

Kernel(pc) == ~ panic /\ multitask_Focus = 0 /\ kernel_pc = pc

Panic ==
  /\ panic' = TRUE
  /\ UNCHANGED <<memory_BlockV, multitask_InitLock, multitask_InStream, multitask_Focus,
                 multitask_ProcV, KernelContext, cpu, kernel_pc, left, held>>

multitask_init ==
  /\ Kernel("multitask_init")
  /\ LET bases == Starts(memory_BlockV, BlocksFor(PROCTABSIZE)) IN
     \/ bases = {} /\ Panic
     \/ \E b \in bases :
          /\ memory_BlockV' = Mark(memory_BlockV, b, BlocksFor(PROCTABSIZE))
          /\ held' = held \cup {b}
          /\ multitask_ProcV' = [p \in Pids |-> NoProc]
          /\ multitask_InitLock' = TRUE
          /\ kernel_pc' = "spawn idle"
          /\ UNCHANGED <<multitask_InStream, multitask_Focus, KernelContext, cpu, panic, left>>

SpawnIdle ==
  /\ Kernel("spawn idle")
  /\ \/ StackBases(memory_BlockV) = {} /\ Panic
     \/ /\ \E b \in StackBases(memory_BlockV) : Spawned(memory_BlockV, b, FALSE)
        /\ kernel_pc' = "exec"
        /\ UNCHANGED <<multitask_InitLock, multitask_InStream, multitask_Focus,
                       KernelContext, cpu, panic, held>>

\* exec of a program of size bytes: the image is placed first and given back
\* when spawn fails.  A file that is missing or no program changes nothing.
ExecGranted(size) ==
  \E a \in Starts(memory_BlockV, BlocksFor(size)) :
    LET tab == Mark(memory_BlockV, a, BlocksFor(size)) IN
    \/ /\ \E b \in StackBases(tab) : Spawned(tab, b, TRUE)
       /\ held' = held \cup {a}
    \/ /\ StackBases(tab) = {}
       /\ memory_BlockV' = Unmark(tab, a)
       /\ UNCHANGED <<multitask_ProcV, left, held>>

ExecRefused == UNCHANGED <<memory_BlockV, multitask_ProcV, left, held>>

exec ==
  /\ \/ \E size \in Images : ExecGranted(size)
     \/ ExecRefused
  /\ UNCHANGED <<multitask_InitLock, multitask_InStream, multitask_Focus, KernelContext,
                 cpu, panic>>

\* Its result is ignored.
ExecFirst ==
  /\ Kernel("exec")
  /\ exec
  /\ kernel_pc' = "loop"

KernelYield == Kernel("loop") /\ YieldFrom(multitask_ProcV, memory_BlockV)

-----------------------------------------------------------------------------
(* The processes.  The idle task only yields; any other process may also   *)
(* call spawn, exec, kill and exit.  No code kills itself other than by    *)
(* exit, and none kills the idle task.                                     *)

Running(pid) == ~ panic /\ multitask_Focus = pid

\* The process computes: it leaves its entry and moves its stack pointer,
\* possibly out of its stack.
Compute(pid) ==
  /\ Running(pid)
  /\ \E d \in IF pid = IDLE THEN {STACKSIZE} ELSE {0, 1, STACKSIZE + 1} :
       cpu' = [eip |-> "body", esp |-> StackAddr(multitask_ProcV[pid].stack) + d]
  /\ UNCHANGED <<memory_BlockV, multitask_InitLock, multitask_InStream, multitask_Focus,
                 multitask_ProcV, KernelContext, kernel_pc, panic, left, held>>

yield(pid) == Running(pid) /\ YieldFrom(multitask_ProcV, memory_BlockV)

spawn(pid) ==
  /\ Running(pid) /\ pid # IDLE
  /\ \E b \in StackBases(memory_BlockV) : Spawned(memory_BlockV, b, FALSE)
  /\ UNCHANGED <<multitask_InitLock, multitask_InStream, multitask_Focus, KernelContext,
                 cpu, kernel_pc, panic, held>>

Exec(pid) == Running(pid) /\ pid # IDLE /\ exec /\ UNCHANGED kernel_pc

kill(pid, target) ==
  /\ Running(pid) /\ pid # IDLE /\ target \notin {pid, IDLE}
  /\ CanKill(multitask_ProcV, target)
  /\ multitask_ProcV' = KilledProcs(multitask_ProcV, target)
  /\ memory_BlockV' = KilledTable(multitask_ProcV, memory_BlockV, target)
  /\ UNCHANGED <<multitask_InitLock, multitask_InStream, multitask_Focus, KernelContext,
                 cpu, kernel_pc, panic, left, held>>

exit(pid) ==
  /\ Running(pid) /\ pid # IDLE
  /\ multitask_InitLock /\ multitask_InStream
  /\ YieldFrom(KilledProcs(multitask_ProcV, pid), KilledTable(multitask_ProcV, memory_BlockV, pid))

Process(pid) ==
  \/ Compute(pid)
  \/ yield(pid)
  \/ spawn(pid)
  \/ Exec(pid)
  \/ \E target \in Pids : kill(pid, target)
  \/ exit(pid)

\* PANIC halts the machine.
Halt == panic /\ UNCHANGED vars

Next ==
  \/ multitask_init \/ SpawnIdle \/ ExecFirst \/ KernelYield
  \/ \E pid \in Pids : Process(pid)
  \/ Halt

\* The kernel goes on, and every process yields in the end: cooperative
\* multitasking asks no less of it.
Fairness ==
  /\ WF_vars(multitask_init \/ SpawnIdle \/ ExecFirst)
  /\ WF_vars(KernelYield)
  /\ \A pid \in Pids : WF_vars(yield(pid))

Spec == Init /\ [][Next]_vars

FairSpec == Spec /\ Fairness

-----------------------------------------------------------------------------
(* Properties. *)

Active == {p \in Pids : multitask_ProcV[p].active}

StackBlocks(p) == Run(multitask_ProcV[p].stack, BlocksFor(STACKSIZE))

\* A live process's stack is a region of its own in the memory manager: it is
\* allocated in full, and shares no block with another process's stack or
\* with a block the kernel or a program image holds.
StacksOwned ==
  /\ \A p \in Active : /\ multitask_ProcV[p].stack \in Heads(memory_BlockV)
                       /\ memory_BlockV[multitask_ProcV[p].stack].count = BlocksFor(STACKSIZE)
                       /\ multitask_ProcV[p].stack \notin held
  /\ \A p, q \in Active : p # q => multitask_ProcV[p].stack # multitask_ProcV[q].stack

\* No stack leaks and none is freed twice: the regions in use are those of
\* the kernel, of the images ever loaded and of the live processes.  An image
\* outlives its process: exec's allocation is never given back.
MemoryAccounted ==
  /\ TableSound(memory_BlockV)
  /\ Heads(memory_BlockV) = held \cup {multitask_ProcV[p].stack : p \in Active}

\* A process that is not running will resume with exactly the registers it
\* gave up the CPU with, or at its entry on an empty stack, whatever was
\* spawned, killed and reused in the meantime; and the running flow of
\* control is the kernel's or a live process's.
ContextsIntact ==
  /\ \A p \in Active \ {multitask_Focus} : multitask_ProcV[p].context = left[p]
  /\ multitask_Focus # 0 => multitask_Focus \in Active /\ KernelContext = left[0]

\* The sentry's second line of defence is never needed: kill does not fail on
\* the process it is given, so no process is ever frozen.
NeverFrozen == \A p \in Pids : ~ multitask_ProcV[p].freeze

\* Once the idle task runs the scheduler never finds itself without a process.
NoPanicAfterBoot == kernel_pc \in {"exec", "loop"} => ~ panic

\* A switch from a process goes up the table to the very next live process, or
\* to the kernel when there is none above: nobody is skipped.
NobodySkipped ==
  [][multitask_Focus' # multitask_Focus =>
       LET old == multitask_Focus
           next == multitask_Focus'
           passed == {p \in Pids : p > old /\ (next = 0 \/ p < next)}
       IN  /\ next = 0 \/ next > old
           /\ \A p \in passed : ~ multitask_ProcV'[p].active]_vars

\* Every live process gets the CPU again, and so does the kernel.
EveryoneRuns ==
  \A p \in Pids : multitask_ProcV[p].active ~> (multitask_Focus = p \/ ~ multitask_ProcV[p].active)

KernelRuns == (kernel_pc = "loop" /\ ~ panic) ~> (multitask_Focus = 0)

\* The sentry looks at the stack pointer saved by the switch before, so a
\* process with a broken stack is given the CPU once more; but it does not
\* survive that turn.
BrokenStackDies ==
  \A p \in Pids :
    (multitask_ProcV[p].active /\ StackBroken(multitask_ProcV[p]))
      ~> ~ multitask_ProcV[p].active
=============================================================================
