-------------------------------- MODULE Boot --------------------------------
(***************************************************************************)
(* kernel_init (kernel/kernel.c) up to kernel_main, with the initialisers  *)
(* it calls that no other module has: protection and interrupts, system    *)
(* calls, ACPI, the device bus with its drivers, and the USB host          *)
(* controllers (drv/usb.c).  What firmware and hardware answer is chosen   *)
(* where the code asks.                                                    *)
(***************************************************************************)
EXTENDS Clock, FiniteSetsExt

CONSTANTS
  Vectors,         \* interrupt vectors, less those that are like another
  Numbers,         \* system call numbers that processes use
  Hosts,           \* USB host controllers on the bus, in the order of the scan
  Slots,           \* device slots of a controller
  Physical,        \* kernel_PhysicalSize
  Fields,          \* sizes of the kernel's memory field
  ModuleSizes, ModuleStarts,
  WSIZE            \* size_t arithmetic is modulo WSIZE

Exceptions == 0 .. 31
SYSCALL_INTVECTOR == 128
SYS_YIELD == 158
SYSCALL_ENTCOUNT == 256

\* The kernel lies in its field, modules behind it, and addresses do not wrap.
ASSUME BootAssumption ==
  /\ Vectors \subseteq 0 .. 255 /\ {SYSCALL_INTVECTOR, SYS_YIELD} \subseteq Vectors
  /\ Numbers \subseteq Nat
  /\ Hosts \in Nat /\ Slots \in Nat
  /\ WSIZE \in Nat /\ Physical \in Nat /\ Physical < WSIZE
  /\ Fields \subseteq Nat /\ ModuleSizes \subseteq Nat /\ ModuleStarts \subseteq Nat
  /\ \A f \in Fields : Physical <= f /\ f < WSIZE
  /\ \A n \in ModuleSizes, a \in ModuleStarts : Physical <= a /\ a + n < WSIZE

VARIABLES
  pc,
  tsc,             \* kernel_CPUInfo.has_tsc and its stability: "none", "plain", "stable"
  mem,             \* memory from the kernel's base on: address -> byte
  module,          \* the module as the boot loader left it: [start, bytes], or NoModule
  fieldSize, managed,          \* the field's size; what memory_init is given
  interrupts_InitLock, gates,
  called,          \* what the last system call ran
  acpi,            \* acpiTable: [support, fadt, mcfg : BOOLEAN]
  devbus_InitLock,
  host,            \* the controller under way
  step,            \* the allocation it is at, or past all of them
  hosts,           \* registers of each controller
  live,            \* regions of memory that the USB driver holds
  usb_InitLock,
  usb,             \* the controller that the driver's pointers are about
  usb_PortV        \* the one entry of it that is written: a port, or NoPort

boot == <<mem, module, fieldSize, managed>>
irq == <<interrupts_InitLock, gates, called>>
usbvars == <<host, step, hosts, live, usb_InitLock, usb, usb_PortV>>
bootvars == <<clockvars, pc, tsc, boot, irq, acpi, devbus_InitLock, usbvars>>

NoModule == [start |-> 0, bytes |-> <<>>]
NoHost == 0
NoPort == -1

Go(next) == pc' = next

-----------------------------------------------------------------------------
(* Boot loader, processor and clock *)

Checks ==
  /\ pc = "checks"
  /\ Go("cpu") \/ Go("panic")
  /\ UNCHANGED <<clockvars, tsc, boot, irq, acpi, devbus_InitLock, usbvars>>

\* Mutant: the counter is measured over the first sleep.
Calibrate_Unsynchronised ==
  /\ \/ /\ pc = "cpu"
        /\ \/ tsc' = "stable" /\ Go("second") /\ StampAndSleep
           \/ tsc' \in {"none", "plain"} /\ Go("field") /\ UNCHANGED clockvars
     \/ pc = "second" /\ Measured /\ Go("field") /\ UNCHANGED tsc
     \/ pc = "first" /\ Go("first") /\ UNCHANGED <<clockvars, tsc>>
  /\ UNCHANGED <<boot, irq, acpi, devbus_InitLock, usbvars>>

\* cpuid; a stable counter is measured between the ends of two sleeps.
Calibrate ==
  /\ \/ /\ pc = "cpu"
        /\ \/ tsc' = "stable" /\ Go("first") /\ Sleep /\ UNCHANGED counter
           \/ tsc' \in {"none", "plain"} /\ Go("field") /\ UNCHANGED clockvars
     \/ pc = "first" /\ clk = "returned" /\ StampAndSleep /\ Go("second") /\ UNCHANGED tsc
     \/ pc = "second" /\ Measured /\ Go("field") /\ UNCHANGED tsc
  /\ UNCHANGED <<boot, irq, acpi, devbus_InitLock, usbvars>>

-----------------------------------------------------------------------------
(* Memory field and module *)

FindField ==
  /\ pc = "field"
  /\ \/ fieldSize' \in Fields /\ Go("module")
     \/ fieldSize' = 0 /\ Go("panic")
  /\ UNCHANGED <<clockvars, tsc, mem, module, managed, irq, acpi, devbus_InitLock, usbvars>>

Sub(a, b) == (a - b) % WSIZE

\* Mutant: the copy goes backward.
ncopy_Backward(m, dest, src, len) ==
  LET copied[i \in 0 .. len] ==
        IF i = 0 THEN m
        ELSE [copied[i - 1] EXCEPT ![dest + len - i] = copied[i - 1][src + len - i]]
  IN copied[len]

\* ncopy goes forward, byte by byte: what it reads it may have written.
ncopy(m, dest, src, len) ==
  LET copied[i \in 0 .. len] ==
        IF i = 0 THEN m ELSE [copied[i - 1] EXCEPT ![dest + i - 1] = copied[i - 1][src + i - 1]]
  IN copied[len]

Bytes(m, a, n) == [i \in 1 .. n |-> m[a + i - 1]]

\* Mutant: the kernel's own size is left out.
Fits_WholeField(size) == fieldSize >= size

\* The test is on unsigned sizes.
Fits(size) == Sub(fieldSize, Physical) >= size

\* The hash of a module stands for its bytes: a copy that differs is noticed.
LoadModule ==
  /\ pc = "module"
  /\ \/ module' = NoModule /\ Go("protect") /\ UNCHANGED mem
     \/ \E n \in ModuleSizes, a \in ModuleStarts :
          LET m == [x \in DOMAIN mem |-> IF x \in a .. (a + n - 1) THEN 100 + x ELSE mem[x]]
              loaded == ncopy(m, Physical, a, n)
          IN /\ module' = [start |-> a, bytes |-> Bytes(m, a, n)]
             /\ IF ~ Fits(n) THEN Go("panic") /\ mem' = m
                ELSE /\ mem' = loaded
                     /\ IF Bytes(loaded, Physical, n) = module'.bytes
                        THEN Go("protect") ELSE Go("badmodule")
  /\ UNCHANGED <<clockvars, tsc, fieldSize, managed, irq, acpi, devbus_InitLock, usbvars>>

-----------------------------------------------------------------------------
(* Interrupts and system calls *)

interrupts_setGate(g, num, handler) ==
  IF interrupts_InitLock THEN [g EXCEPT ![num] = handler] ELSE g

DefaultGates == [v \in Vectors |-> IF v \in Exceptions THEN "exception" ELSE "default"]

\* Mutant: the gates are set and the table is not unlocked.
interrupts_init_Locked ==
  /\ pc = "protect"
  /\ gates' = DefaultGates
  /\ Go("memory")
  /\ UNCHANGED <<clockvars, tsc, boot, interrupts_InitLock, called, acpi, devbus_InitLock, usbvars>>

\* protect_init and interrupts_init: every vector gets the default handler,
\* then the exceptions theirs.
interrupts_init ==
  /\ pc = "protect"
  /\ interrupts_InitLock' = TRUE
  /\ gates' = DefaultGates
  /\ Go("memory")
  /\ UNCHANGED <<clockvars, tsc, boot, called, acpi, devbus_InitLock, usbvars>>

\* memory_init, corefs_init, multitask_init and mountmgr_init may panic: the
\* modules Memory, Multitask and CoreFS say when.
OtherInits ==
  /\ pc = "memory"
  /\ managed' = Sub(fieldSize, Physical + Len(module.bytes))
  /\ Go("syscall") \/ Go("panic")
  /\ UNCHANGED <<clockvars, tsc, mem, module, fieldSize, irq, acpi, devbus_InitLock, usbvars>>

syscall_Table == [n \in 1 .. 6 |-> <<"exit", "spawn", "read", "write", "open", "close">>[n]]

syscall_init ==
  /\ pc = "syscall"
  /\ gates' = interrupts_setGate(interrupts_setGate(gates, SYSCALL_INTVECTOR, "syscall_handler"),
                                 SYS_YIELD, "syscall_yieldRouter")
  /\ Go("acpi")
  /\ UNCHANGED <<clockvars, tsc, boot, interrupts_InitLock, called, acpi, devbus_InitLock, usbvars>>

\* The word at an index of the table; past its end, anything.
TableWord(n) ==
  IF n \in DOMAIN syscall_Table THEN {syscall_Table[n]}
  ELSE IF n < SYSCALL_ENTCOUNT THEN {"null"} ELSE {"null", "junk"}

\* The word is read before the number is compared with the table's size.
syscall_handler(n) ==
  \E word \in TableWord(n) :
    called' = IF word = "null" THEN "unchanged"
              ELSE IF n < SYSCALL_ENTCOUNT THEN word ELSE "failed"

DoubleFault == 8

\* The vectors whose handlers come back: the stub of the double fault begins
\* with iret, and the default handler prints and ends with ret.
ComesBack(v) == gates[v] = "default" \/ (gates[v] = "exception" /\ v = DoubleFault)

\* Whatever vector fires in the running kernel: the other exceptions panic.
\* ret leaves the rest of the frame on the stack and iret takes an error code
\* for the address: the code that was interrupted goes on, or goes astray.
Interrupt ==
  /\ pc = "main"
  /\ \E v \in Vectors :
       \/ gates[v] = "exception" /\ ~ ComesBack(v) /\ Go("panic")
       \/ ComesBack(v) /\ (UNCHANGED pc \/ Go("wild"))
  /\ UNCHANGED <<clockvars, tsc, boot, irq, acpi, devbus_InitLock, usbvars>>

\* syscall_handler ends with ret, too: the caller takes the rest of the frame
\* off its stack, or goes astray.
SystemCall ==
  /\ pc = "main"
  /\ \E n \in Numbers : syscall_handler(n)
  /\ UNCHANGED pc \/ Go("wild")
  /\ UNCHANGED <<clockvars, tsc, boot, interrupts_InitLock, gates, acpi, devbus_InitLock, usbvars>>

-----------------------------------------------------------------------------
(* ACPI *)

NoACPI == [support |-> FALSE, fadt |-> FALSE, mcfg |-> FALSE]

\* The first signature found decides: a damaged table, or none for the FADT,
\* is a panic.
acpi_init ==
  /\ pc = "acpi"
  /\ \/ acpi' = NoACPI /\ Go("devbus")
     \/ acpi' = NoACPI /\ Go("panic")
     \/ acpi' = [NoACPI EXCEPT !.support = TRUE] /\ Go("panic")
     \/ acpi' = [NoACPI EXCEPT !.support = TRUE, !.fadt = TRUE] /\ (Go("activate") \/ Go("mcfg"))
  /\ UNCHANGED <<clockvars, tsc, boot, irq, devbus_InitLock, usbvars>>

\* Switching it on is waited for only where the counter is stable; then a
\* time-out drops the tables, otherwise the kernel goes on in any case.
Activate ==
  /\ pc = "activate"
  /\ \/ tsc = "stable" /\ acpi' = NoACPI /\ Go("devbus")
     \/ UNCHANGED acpi /\ Go("mcfg")
  /\ UNCHANGED <<clockvars, tsc, boot, irq, devbus_InitLock, usbvars>>

FindMCFG ==
  /\ pc = "mcfg"
  /\ \E found \in BOOLEAN : acpi' = [acpi EXCEPT !.mcfg = found]
  /\ Go("devbus")
  /\ UNCHANGED <<clockvars, tsc, boot, irq, devbus_InitLock, usbvars>>

-----------------------------------------------------------------------------
(* Device bus and drivers *)

\* Configuration space is reached through memory where there is an MCFG, by
\* ports otherwise.  Without a bus the scan still goes on, over a device
\* structure that nobody has written: the driver may take it for its own and
\* follow a base address that nobody has written either.
devbus_init ==
  /\ pc = "devbus"
  /\ \/ acpi.mcfg /\ Go("panic") /\ devbus_InitLock' = TRUE
     \/ Go("scan") /\ devbus_InitLock' = TRUE
     \/ ~ acpi.mcfg /\ (Go("i8042") \/ Go("wild")) /\ devbus_InitLock' = FALSE
  /\ UNCHANGED <<clockvars, tsc, boot, irq, acpi, usbvars>>

\* Mutant: a second controller is taken although one is in use.
Accepts_Second(interface, bar) == interface = "xHCI" /\ bar # "IO"

\* What usb_init asks of a device before it touches its registers.
Accepts(interface, bar) == ~ usb_InitLock /\ interface = "xHCI" /\ bar # "IO"

\* The list has one driver, for class 0C03; the interface is the driver's affair.
Interfaces == {"xHCI", "other"}

\* What devbus_getBAR leaves in a structure that its caller has not written: a
\* port, the device's address, or a word that is no address of the device (the
\* low half of one above 4 GB, 0 for a reserved type).  Where the header has no
\* base addresses nothing is written, and any of the three is found.
Bars == {"IO", "MM", "stray"}

\* The next device that the scan finds a driver for.
NextDevice ==
  /\ pc = "scan"
  /\ IF host = Hosts THEN Go("i8042") /\ UNCHANGED <<host, usb>>
     ELSE \E interface \in Interfaces, bar \in Bars :
            /\ host' = host + 1
            /\ IF Accepts(interface, bar)
               THEN /\ usb' = host'
                    /\ IF bar = "stray" THEN Go("wild") ELSE Go("cnr")
               ELSE UNCHANGED <<pc, usb>>
  /\ UNCHANGED <<clockvars, tsc, boot, irq, acpi, devbus_InitLock,
                 step, hosts, live, usb_InitLock, usb_PortV>>

-----------------------------------------------------------------------------
(* USB host controller *)

\* What the driver allocates, in this order, and the ones that a controller
\* is told of: DCBAAP (with what the array points to), CRCR, ERSTBA (with the
\* ring that the entry points to).
Allocated == <<"dcbaa", "dcbase", "CmdRing", "PortV", "ERSTent", "EventRing">>
Registers(n) ==
  CASE n = "dcbase" -> {"dcbaa", "dcbase"}
    [] n = "CmdRing" -> {"CmdRing"}
    [] n = "EventRing" -> {"ERSTent", "EventRing"}
    [] OTHER -> {}

Cold == [cnr |-> TRUE, regs |-> {}, running |-> FALSE, reset |-> FALSE]
Owned(h, names) == {h} \X names

\* Mutant: the path of the time-out forgets the command ring.
FreedAt_NotRing(k) ==
  << {}, {"dcbaa"}, {"dcbaa", "dcbase"}, {"dcbaa", "dcbase", "CmdRing"},
     {"ERSTent", "dcbaa", "dcbase", "CmdRing"}, {"EventRing", "dcbaa", "dcbase", "CmdRing"},
     {"dcbaa", "dcbase"} >>[k]

\* What the path of each failure frees: that of the k-th allocation, and of the
\* time-out as the last.  Two of them free the pointer that was just found
\* NULL, which has no effect.
FreedAt(k) ==
  << {}, {"dcbaa"}, {"dcbaa", "dcbase"}, {"dcbaa", "dcbase", "CmdRing"},
     {"ERSTent", "dcbaa", "dcbase", "CmdRing"}, {"EventRing", "dcbaa", "dcbase", "CmdRing"},
     {"dcbaa", "dcbase", "CmdRing"} >>[k]

\* The controller is ready (external), and the driver sees it.
ControllerReady ==
  /\ pc = "cnr" /\ hosts[host].cnr
  /\ hosts' = [hosts EXCEPT ![host].cnr = FALSE]
  /\ UNCHANGED <<clockvars, pc, tsc, boot, irq, acpi, devbus_InitLock,
                 host, step, live, usb_InitLock, usb, usb_PortV>>

WaitReady ==
  /\ pc = "cnr" /\ ~ hosts[host].cnr
  /\ step' = 1
  /\ Go("alloc")
  /\ UNCHANGED <<clockvars, tsc, boot, irq, acpi, devbus_InitLock,
                 host, hosts, live, usb_InitLock, usb, usb_PortV>>

\* One calloc, which may fail, and the registers written after it.  Blocks
\* are aligned, so the code's tests of that never fail.
Allocate ==
  /\ pc = "alloc"
  /\ LET n == Allocated[step] IN
     \/ Go("reset") /\ UNCHANGED <<step, hosts, live>>
     \/ /\ live' = live \union {<<host, n>>}
        /\ hosts' = [hosts EXCEPT ![host].regs = @ \union Registers(n)]
        /\ step' = step + 1
        /\ IF step = Len(Allocated) THEN Go("run") ELSE UNCHANGED pc
  /\ UNCHANGED <<clockvars, tsc, boot, irq, acpi, devbus_InitLock,
                 host, usb_InitLock, usb, usb_PortV>>

\* The run bit; a controller that stays halted is given up.
Run ==
  /\ pc = "run"
  /\ \/ /\ hosts' = [hosts EXCEPT ![host].running = TRUE]
        /\ usb_InitLock' = TRUE /\ Go("ports")
     \/ Go("reset") /\ UNCHANGED <<hosts, usb_InitLock>>
  /\ UNCHANGED <<clockvars, tsc, boot, irq, acpi, devbus_InitLock,
                 host, step, live, usb, usb_PortV>>

\* Mutant: the controller is not reset.
HCReset_None ==
  /\ pc = "reset"
  /\ Go("free")
  /\ UNCHANGED <<clockvars, tsc, boot, irq, acpi, devbus_InitLock, usbvars>>

\* HCRST is set and not waited for.
HCReset ==
  /\ pc = "reset"
  /\ hosts' = [hosts EXCEPT ![host].reset = TRUE]
  /\ Go("free")
  /\ UNCHANGED <<clockvars, tsc, boot, irq, acpi, devbus_InitLock,
                 host, step, live, usb_InitLock, usb, usb_PortV>>

\* The controller has done its reset (external), at any time after it was told
\* to, or never: it has forgotten its registers and is not ready.
ResetDone ==
  /\ \E h \in 1 .. Hosts : hosts[h].reset /\ hosts' = [hosts EXCEPT ![h] = Cold]
  /\ UNCHANGED <<clockvars, pc, tsc, boot, irq, acpi, devbus_InitLock,
                 host, step, live, usb_InitLock, usb, usb_PortV>>

\* Mutant: a controller that failed is tried again.
FreeRegions_Retry ==
  /\ pc = "free"
  /\ live' = live \ Owned(host, FreedAt(step))
  /\ host' = host - 1
  /\ Go("scan")
  /\ UNCHANGED <<clockvars, tsc, boot, irq, acpi, devbus_InitLock,
                 step, hosts, usb_InitLock, usb, usb_PortV>>

\* The free calls of the path taken; what it does not name stays allocated.
FreeRegions ==
  /\ pc = "free"
  /\ live' = live \ Owned(host, FreedAt(step))
  /\ Go("scan")
  /\ UNCHANGED <<clockvars, tsc, boot, irq, acpi, devbus_InitLock,
                 host, step, hosts, usb_InitLock, usb, usb_PortV>>

ScannedPorts == 0 .. Slots - 1

\* usb_portInit on every connected one of the scanned ports: a port that is
\* enabled after its reset is written over the one before.
usb_portInit ==
  /\ pc = "ports"
  /\ \E enabled \in SUBSET ScannedPorts : usb_PortV' = Max(enabled \union {NoPort})
  /\ Go("scan")
  /\ UNCHANGED <<clockvars, tsc, boot, irq, acpi, devbus_InitLock,
                 host, step, hosts, live, usb_InitLock, usb>>

-----------------------------------------------------------------------------
(* The rest of the boot *)

\* i8042_init (module I8042) asks the FADT whether there is a controller;
\* kernel_main follows.
KernelMain ==
  /\ pc = "i8042"
  /\ Go("main") \/ Go("panic")
  /\ UNCHANGED <<clockvars, tsc, boot, irq, acpi, devbus_InitLock, usbvars>>

Ended == {"main", "panic", "badmodule", "wild"}

\* Nothing reads the clock after the measurement.
Time == pc \in {"first", "second"} /\ Tick /\ UNCHANGED <<pc, tsc, boot, irq, acpi, devbus_InitLock, usbvars>>
Sleeping == SleepStep(1) /\ UNCHANGED <<pc, tsc, boot, irq, acpi, devbus_InitLock, usbvars>>

kernel_init ==
  \/ Checks \/ Calibrate \/ Sleeping \/ FindField \/ LoadModule
  \/ interrupts_init \/ OtherInits \/ syscall_init
  \/ acpi_init \/ Activate \/ FindMCFG
  \/ devbus_init \/ NextDevice \/ WaitReady \/ Allocate \/ Run \/ HCReset \/ FreeRegions
  \/ usb_portInit \/ KernelMain

Halt == pc \in Ended \ {"main"} /\ UNCHANGED bootvars

BootNext == kernel_init \/ Time \/ ControllerReady \/ ResetDone \/ Interrupt \/ SystemCall \/ Halt

BootInit ==
  /\ ClockInit
  /\ pc = "checks"
  /\ tsc = "none"
  /\ mem = [x \in 0 .. WSIZE - 1 |-> x]
  /\ module = NoModule
  /\ fieldSize = 0 /\ managed = 0
  /\ interrupts_InitLock = FALSE
  /\ gates = [v \in Vectors |-> "none"]
  /\ called = "nothing"
  /\ acpi = NoACPI
  /\ devbus_InitLock = FALSE
  /\ host = NoHost /\ step = 1
  /\ hosts \in [1 .. Hosts -> {Cold, [Cold EXCEPT !.cnr = FALSE]}]
  /\ live = {}
  /\ usb_InitLock = FALSE /\ usb = NoHost /\ usb_PortV = NoPort

\* The processor runs, the clock goes on, and a controller gets ready.
BootSpec ==
  /\ BootInit /\ [][BootNext]_bootvars
  /\ WF_bootvars(kernel_init) /\ WF_bootvars(Time) /\ WF_bootvars(ControllerReady)

-----------------------------------------------------------------------------
(* Properties *)

\* kernel_init, "Calculate frequency": the counter's ticks in a second, to
\* within the tick that a poll takes and the one from its end to the stamp.
CalibrationExact == frequency # Unset /\ ~ monthEnded => frequency \in TPS - 2 .. TPS + 2

\* The running kernel has its own handler at both vectors of system calls and
\* the exceptions at theirs, as syscall_init comes after the gates are unlocked
\* and defaulted; and whatever the number, and whatever lies behind the table,
\* syscall_handler calls only entries of the table.
CallsDispatched ==
  /\ pc = "main" =>
       \A v \in Vectors :
         gates[v] = CASE v = SYSCALL_INTVECTOR -> "syscall_handler"
                      [] v = SYS_YIELD -> "syscall_yieldRouter"
                      [] v \in Exceptions -> "exception"
                      [] OTHER -> "default"
  /\ called # "junk"

\* Kernel, module and managed memory fill the field and do not overlap; no
\* size has wrapped.
MemoryApart ==
  pc \in {"syscall", "acpi", "main"} => Physical + Len(module.bytes) + managed = fieldSize

\* A module that fits is loaded whole, wherever the boot loader left it, and
\* the kernel below it is not touched.
ModuleLoaded ==
  /\ pc # "badmodule"
  /\ \A x \in 0 .. Physical - 1 : mem[x] = x

\* A controller never works with memory that the heap may give to others.
\* That rests on what the code takes for granted, as it frees at once after
\* HCRST: a controller accesses no memory from the write of that bit on.
NoDanglingDMA == \A h \in 1 .. Hosts : ~ hosts[h].reset => Owned(h, hosts[h].regs) \subseteq live

\* The driver's pointers are those of the controller that runs, and what it
\* uses is allocated.
UsbReady ==
  usb_InitLock => /\ hosts[usb].running
                  /\ Owned(usb, {Allocated[i] : i \in DOMAIN Allocated}) \subseteq live

\* What is lost with a controller that failed, on whichever of the seven paths:
\* the device contexts and the command ring never, and of the port table, the
\* segment table and the event ring a beginning, so nothing at all unless the
\* port table had been allocated.
LateLossOnly ==
  pc \in {"scan", "i8042", "main"} =>
    \A h \in 1 .. Hosts :
      \/ usb_InitLock /\ h = usb
      \/ \E k \in 3 .. 6 : \A i \in 1 .. 6 : (<<h, Allocated[i]>> \in live) <=> (i \in 4 .. k)

\* The boot ends, whatever the hardware answers, as long as a controller gets
\* ready: the one other wait that may not end is sleep at the month's end.
BootEnds == <>(pc \in Ended \/ monthEnded)
=============================================================================
