----------------------------- MODULE BootProofs -----------------------------
(***************************************************************************)
(* Theorems about the boot, for any number of USB controllers, any field,  *)
(* any module and any system call numbers.                                 *)
(***************************************************************************)
EXTENDS Boot, WellFoundedInduction, TLAPS

\* Where kernel_init is: at one controller, or anywhere behind syscall_init.
AtController == {"cnr", "alloc", "run", "reset", "free"}
CallsUp == AtController \cup {"acpi", "activate", "mcfg", "devbus", "scan", "ports", "i8042", "main"}
ModuleUp == CallsUp \cup {"protect", "memory", "syscall"}

CallGates ==
  [DefaultGates EXCEPT ![SYSCALL_INTVECTOR] = "syscall_handler", ![SYS_YIELD] = "syscall_yieldRouter"]

\* The gates are unlocked when syscall_init sets its own.
GatesInv ==
  /\ pc \in {"memory", "syscall"} => interrupts_InitLock /\ gates = DefaultGates
  /\ pc \in CallsUp => gates = CallGates
  /\ called # "junk"

\* No size wraps: the field holds kernel and module, and the rest is managed.
SizesInv ==
  /\ pc \in ModuleUp \cup {"module"} => fieldSize \in Fields
  /\ pc \in ModuleUp => /\ Len(module.bytes) \in Nat
                        /\ Physical + Len(module.bytes) <= fieldSize
  /\ pc \in CallsUp \cup {"syscall"} => managed = fieldSize - (Physical + Len(module.bytes))

Names == {"dcbaa", "dcbase", "CmdRing", "PortV", "ERSTent", "EventRing"}

ControllerStates == [cnr : BOOLEAN, regs : SUBSET Names, running : BOOLEAN, reset : BOOLEAN]

UsbTypes ==
  /\ host \in 0 .. Hosts
  /\ pc \in AtController \cup {"ports"} => host \in 1 .. Hosts
  /\ step \in 1 .. 7
  /\ hosts \in [1 .. Hosts -> ControllerStates]
  /\ live \subseteq (1 .. Hosts) \X Names
  /\ usb_InitLock \in BOOLEAN

\* The driver is at work on one controller at a time, the one its pointers
\* are about, and on none once one runs.
OneAtATime ==
  /\ pc \in AtController => ~ usb_InitLock /\ usb = host
  /\ usb_InitLock => usb \in 1 .. host /\ hosts[usb].running

\* Only controllers that failed are under reset: the end of a reset, whenever
\* it comes, disturbs neither the one under way nor the one that runs.
NotReset ==
  /\ \A h \in 1 .. Hosts : host < h => ~ hosts[h].reset
  /\ pc \in {"cnr", "alloc", "run", "reset"} => ~ hosts[host].reset
  /\ usb_InitLock => ~ hosts[usb].reset

\* A controller holds exactly the regions before the k-th, or what a failure
\* may lose.
HeldTo(h, k) == \A i \in 1 .. 6 : (<<h, Allocated[i]>> \in live) <=> (i < k)
Lost(h) == \E k \in 3 .. 6 : \A i \in 1 .. 6 : (<<h, Allocated[i]>> \in live) <=> (i \in 4 .. k)

\* What has been allocated so far, and what the controller knows of it.
Progress ==
  /\ pc = "cnr" => HeldTo(host, 1)
  /\ pc = "alloc" => step \in 1 .. 6
  /\ pc = "run" => step = 7
  /\ pc \in {"alloc", "run", "reset", "free"} => HeldTo(host, step)
  /\ pc = "free" => hosts[host].reset \/ hosts[host].regs = {}
  /\ usb_InitLock => Owned(usb, Names) \subseteq live

\* What the controllers hold that the driver is not at work on.
Holders ==
  \A h \in 1 .. Hosts :
    /\ host < h => HeldTo(h, 1)
    /\ h <= host => \/ pc \in AtController /\ h = host
                    \/ usb_InitLock /\ h = usb
                    \/ Lost(h)

UsbInv == UsbTypes /\ OneAtATime /\ NotReset /\ Progress /\ NoDanglingDMA /\ Holders

-----------------------------------------------------------------------------
(* Gates and system calls *)

LEMMA CallGatesSet ==
  \A v \in Vectors :
    CallGates[v] = CASE v = SYSCALL_INTVECTOR -> "syscall_handler"
                     [] v = SYS_YIELD -> "syscall_yieldRouter"
                     [] v \in Exceptions -> "exception"
                     [] OTHER -> "default"
  <1>1. SYSCALL_INTVECTOR \in Vectors /\ SYS_YIELD \in Vectors /\ SYSCALL_INTVECTOR # SYS_YIELD
    BY BootAssumption DEF SYSCALL_INTVECTOR, SYS_YIELD
  <1>2. SYSCALL_INTVECTOR \notin Exceptions /\ SYS_YIELD \notin Exceptions
    BY DEF SYSCALL_INTVECTOR, SYS_YIELD, Exceptions
  <1>3. ASSUME NEW v \in Vectors
        PROVE  /\ v = SYSCALL_INTVECTOR => CallGates[v] = "syscall_handler"
               /\ v = SYS_YIELD => CallGates[v] = "syscall_yieldRouter"
               /\ v \in Exceptions => CallGates[v] = "exception"
               /\ v \notin Exceptions \cup {SYSCALL_INTVECTOR, SYS_YIELD} => CallGates[v] = "default"
    BY <1>1, <1>2 DEF CallGates, DefaultGates
  <1> QED BY <1>1, <1>2, <1>3, Zenon

LEMMA GatesStep == GatesInv /\ [BootNext]_bootvars => GatesInv'
  <1> SUFFICES ASSUME GatesInv, [BootNext]_bootvars PROVE GatesInv'
    OBVIOUS
  <1> USE DEF GatesInv, CallsUp, AtController, Go, irq
  <1>1. CASE Checks
    BY <1>1 DEF Checks
  <1>2. CASE Calibrate
    BY <1>2 DEF Calibrate
  <1>3. CASE Sleeping
    BY <1>3 DEF Sleeping
  <1>4. CASE FindField
    BY <1>4 DEF FindField
  <1>5. CASE LoadModule
    BY <1>5 DEF LoadModule
  <1>6. CASE acpi_init
    BY <1>6 DEF acpi_init
  <1>7. CASE Activate
    BY <1>7 DEF Activate
  <1>8. CASE FindMCFG
    BY <1>8 DEF FindMCFG
  <1>9. CASE devbus_init
    BY <1>9 DEF devbus_init
  <1>10. CASE NextDevice
    BY <1>10 DEF NextDevice
  <1>11. CASE WaitReady
    BY <1>11 DEF WaitReady
  <1>12. CASE Allocate
    BY <1>12 DEF Allocate
  <1>13. CASE Run
    BY <1>13 DEF Run
  <1>14. CASE HCReset
    BY <1>14 DEF HCReset
  <1>15. CASE FreeRegions
    BY <1>15 DEF FreeRegions
  <1>16. CASE usb_portInit
    BY <1>16 DEF usb_portInit
  <1>17. CASE KernelMain
    BY <1>17 DEF KernelMain
  <1>18. CASE Time
    BY <1>18 DEF Time
  <1>19. CASE ControllerReady
    BY <1>19 DEF ControllerReady
  <1>90. CASE ResetDone
    BY <1>90 DEF ResetDone
  <1>20. CASE interrupts_init
    BY <1>20 DEF interrupts_init
  <1>21. CASE OtherInits
    BY <1>21 DEF OtherInits
  <1>22. CASE syscall_init
    <2>1. gates' = CallGates
      BY <1>22 DEF syscall_init, interrupts_setGate, CallGates
    <2> QED BY <1>22, <2>1 DEF syscall_init
  <1>23. CASE Interrupt
    BY <1>23 DEF Interrupt
  <1>24. CASE SystemCall
    <2>1. PICK n \in Numbers : syscall_handler(n)
      BY <1>24 DEF SystemCall
    <2>2. n \in Nat
      BY BootAssumption
    <2>3. called' # "junk"
      <3>1. \A i \in 1 .. 6 : syscall_Table[i] # "junk"
        BY DEF syscall_Table
      <3>2. PICK word \in TableWord(n) :
              called' = IF word = "null" THEN "unchanged"
                        ELSE IF n < SYSCALL_ENTCOUNT THEN word ELSE "failed"
        BY <2>1 DEF syscall_handler
      <3>3. DOMAIN syscall_Table = 1 .. 6
        BY DEF syscall_Table
      <3>4. n < SYSCALL_ENTCOUNT => word # "junk"
        BY <2>2, <3>1, <3>3 DEF TableWord
      <3> QED BY <3>2, <3>4
    <2> QED BY <1>24, <2>3 DEF SystemCall
  <1>25. CASE Halt
    BY <1>25 DEF Halt, bootvars
  <1>26. CASE UNCHANGED bootvars
    BY <1>26 DEF bootvars
  <1> QED
    BY <1>1, <1>2, <1>3, <1>4, <1>5, <1>6, <1>7, <1>8, <1>9, <1>10, <1>11, <1>12, <1>13, <1>14, <1>15, <1>16, <1>17, <1>18, <1>19, <1>20, <1>21, <1>22, <1>23, <1>24, <1>25, <1>26, <1>90
       DEF BootNext, kernel_init

\* Whatever the boot meets, the running kernel has its handlers at their
\* vectors, and whatever number a process passes, syscall_handler calls only
\* entries of the table (interrupts.c:134-152, syscall.c:28-85).
THEOREM CallsAlwaysDispatched == BootSpec => []CallsDispatched
  <1>1. BootInit => GatesInv
    BY DEF BootInit, GatesInv, CallsUp, AtController
  <1>2. GatesInv => CallsDispatched
    <2> SUFFICES ASSUME GatesInv PROVE CallsDispatched
      OBVIOUS
    <2>1. pc = "main" => gates = CallGates
      BY DEF GatesInv, CallsUp
    <2>2. called # "junk"
      BY DEF GatesInv
    <2> QED BY <2>1, <2>2, CallGatesSet DEF CallsDispatched
  <1> QED BY <1>1, <1>2, GatesStep, PTL DEF BootSpec

-----------------------------------------------------------------------------
(* Sizes *)

\* A subtraction that does not go below zero does not wrap.
LEMMA SubExact ==
  ASSUME NEW a \in Nat, NEW b \in Nat, b <= a, a < WSIZE
  PROVE  Sub(a, b) = a - b
  <1>1. a - b \in Nat /\ a - b < WSIZE /\ WSIZE \in Nat
    BY BootAssumption
  <1> QED BY <1>1 DEF Sub

LEMMA SizesStep == SizesInv /\ [BootNext]_bootvars => SizesInv'
  <1> SUFFICES ASSUME SizesInv, [BootNext]_bootvars PROVE SizesInv'
    OBVIOUS
  <1> USE DEF SizesInv, ModuleUp, CallsUp, AtController, Go, boot
  <1>1. CASE Checks
    BY <1>1 DEF Checks
  <1>2. CASE Calibrate
    BY <1>2 DEF Calibrate
  <1>3. CASE Sleeping
    BY <1>3 DEF Sleeping
  <1>4. CASE interrupts_init
    BY <1>4 DEF interrupts_init
  <1>5. CASE syscall_init
    BY <1>5 DEF syscall_init
  <1>6. CASE acpi_init
    BY <1>6 DEF acpi_init
  <1>7. CASE Activate
    BY <1>7 DEF Activate
  <1>8. CASE FindMCFG
    BY <1>8 DEF FindMCFG
  <1>9. CASE devbus_init
    BY <1>9 DEF devbus_init
  <1>10. CASE NextDevice
    BY <1>10 DEF NextDevice
  <1>11. CASE WaitReady
    BY <1>11 DEF WaitReady
  <1>12. CASE Allocate
    BY <1>12 DEF Allocate
  <1>13. CASE Run
    BY <1>13 DEF Run
  <1>14. CASE HCReset
    BY <1>14 DEF HCReset
  <1>15. CASE FreeRegions
    BY <1>15 DEF FreeRegions
  <1>16. CASE usb_portInit
    BY <1>16 DEF usb_portInit
  <1>17. CASE KernelMain
    BY <1>17 DEF KernelMain
  <1>18. CASE Time
    BY <1>18 DEF Time
  <1>19. CASE ControllerReady
    BY <1>19 DEF ControllerReady
  <1>90. CASE ResetDone
    BY <1>90 DEF ResetDone
  <1>20. CASE Interrupt
    BY <1>20 DEF Interrupt
  <1>21. CASE SystemCall
    BY <1>21 DEF SystemCall
  <1>22. CASE FindField
    BY <1>22 DEF FindField
  <1>23. CASE LoadModule
    <2>1. pc = "module" /\ fieldSize \in Fields /\ UNCHANGED <<fieldSize, managed>>
      BY <1>23 DEF LoadModule
    <2>2. fieldSize \in Nat /\ Physical \in Nat /\ Physical <= fieldSize /\ fieldSize < WSIZE
      BY <2>1, BootAssumption
    <2>3. CASE module' = NoModule /\ Go("protect")
      BY <2>1, <2>2, <2>3 DEF NoModule
    <2>4. CASE Go("panic") \/ Go("badmodule")
      BY <2>1, <2>4
    <2>5. ASSUME NEW n \in ModuleSizes, NEW m, NEW a,
                 module' = [start |-> a, bytes |-> Bytes(m, a, n)], Fits(n), Go("protect")
          PROVE  SizesInv'
      <3>1. n \in Nat
        BY BootAssumption
      <3>2. Len(module'.bytes) = n
        BY <2>5, <3>1 DEF Bytes
      <3>3. n <= fieldSize - Physical
        BY <2>2, <2>5, SubExact DEF Fits
      <3> QED BY <2>1, <2>2, <2>5, <3>1, <3>2, <3>3
    <2> QED BY <1>23, <2>3, <2>4, <2>5 DEF LoadModule
  <1>24. CASE OtherInits
    <2>1. /\ fieldSize \in Nat /\ Physical \in Nat /\ fieldSize < WSIZE
          /\ Len(module.bytes) \in Nat /\ Physical + Len(module.bytes) <= fieldSize
      BY <1>24, BootAssumption DEF OtherInits
    <2>2. managed' = fieldSize - (Physical + Len(module.bytes))
      <3>1. Physical + Len(module.bytes) \in Nat
        BY <2>1
      <3>2. managed' = Sub(fieldSize, Physical + Len(module.bytes))
        BY <1>24 DEF OtherInits
      <3> QED BY <2>1, <3>1, <3>2, SubExact
    <2> QED BY <1>24, <2>2 DEF OtherInits
  <1>25. CASE Halt
    BY <1>25 DEF Halt, bootvars
  <1>26. CASE UNCHANGED bootvars
    BY <1>26 DEF bootvars
  <1> QED
    BY <1>1, <1>2, <1>3, <1>4, <1>5, <1>6, <1>7, <1>8, <1>9, <1>10, <1>11, <1>12, <1>13, <1>14, <1>15, <1>16, <1>17, <1>18, <1>19, <1>20, <1>21, <1>22, <1>23, <1>24, <1>25, <1>26, <1>90
       DEF BootNext, kernel_init

\* Kernel, module and managed memory fill the field exactly, whatever the
\* sizes of field and module: the unsigned test for room never lets a module
\* through that would make memory_init's size wrap (kernel.c:131-173).
THEOREM MemoryAlwaysApart == BootSpec => []MemoryApart
  <1>1. BootInit => SizesInv
    BY DEF BootInit, SizesInv, ModuleUp, CallsUp, AtController
  <1>2. SizesInv => MemoryApart
    <2> SUFFICES ASSUME SizesInv, pc \in {"syscall", "acpi", "main"}
                 PROVE  Physical + Len(module.bytes) + managed = fieldSize
      BY DEF MemoryApart
    <2>1. /\ fieldSize \in Nat /\ Physical \in Nat /\ Len(module.bytes) \in Nat
          /\ managed = fieldSize - (Physical + Len(module.bytes))
      BY BootAssumption DEF SizesInv, ModuleUp, CallsUp
    <2> QED BY <2>1
  <1> QED BY <1>1, <1>2, SizesStep, PTL DEF BootSpec

-----------------------------------------------------------------------------
(* The module *)

Addresses == 0 .. WSIZE - 1
IsMemory(m) == m = [x \in Addresses |-> m[x]]

\* Memory is whole, and holds the kernel as it was loaded.
LoadInv == IsMemory(mem) /\ ModuleLoaded

\* A nonempty set of naturals has a least element.
LEMMA Least ==
  ASSUME NEW S \in SUBSET Nat, S # {}
  PROVE  \E x \in S : \A y \in S : x <= y
  <1> DEFINE R == OpToRel(<, Nat)
  <1>1. \E x \in S : \A y \in S : ~ (<<y, x>> \in R)
    BY NatLessThanWellFounded, WFMin
  <1>2. \A x, y \in Nat : y < x => <<y, x>> \in R
    BY DEF OpToRel
  <1> HIDE DEF R
  <1>3. PICK x \in S : \A y \in S : ~ (<<y, x>> \in R)
    BY <1>1
  <1>4. ASSUME NEW y \in S PROVE x <= y
    <2>1. x \in Nat /\ y \in Nat /\ ~ (y < x)
      BY <1>2, <1>3
    <2> QED BY <2>1
  <1> QED BY <1>4

\* What memory holds once the first i bytes have been copied forward.
Moved(m, dest, src, i) ==
  [x \in Addresses |-> IF dest <= x /\ x < dest + i THEN m[src + (x - dest)] ELSE m[x]]

\* A copy to a lower address reads every byte before it is written over.
LEMMA NextByte ==
  ASSUME NEW m, NEW dest \in Nat, NEW src \in Nat, NEW len \in Nat, NEW i \in 1 .. len,
         dest <= src, src + len < WSIZE
  PROVE  [Moved(m, dest, src, i - 1) EXCEPT ![dest + i - 1] = Moved(m, dest, src, i - 1)[src + i - 1]]
           = Moved(m, dest, src, i)
  <1>1. WSIZE \in Nat
    BY BootAssumption
  <1>2. src + i - 1 \in Addresses /\ dest + i - 1 \in Addresses
    BY <1>1 DEF Addresses
  <1>3. Moved(m, dest, src, i - 1)[src + i - 1] = m[src + i - 1]
    BY <1>1, <1>2 DEF Moved
  <1>4. src + ((dest + i - 1) - dest) = src + i - 1
    OBVIOUS
  <1>5. ASSUME NEW x \in Addresses
        PROVE  [Moved(m, dest, src, i - 1) EXCEPT ![dest + i - 1] = m[src + i - 1]][x]
                 = Moved(m, dest, src, i)[x]
    <2>1. x \in Int
      BY <1>1 DEF Addresses
    <2>2. CASE x = dest + i - 1
      BY <1>2, <1>4, <2>2 DEF Moved
    <2>3. CASE x # dest + i - 1
      BY <2>1, <2>3 DEF Moved
    <2> QED BY <2>2, <2>3
  <1> QED BY <1>3, <1>5 DEF Moved

LEMMA CopiesForward ==
  ASSUME NEW m, NEW dest \in Nat, NEW src \in Nat, NEW len \in Nat,
         IsMemory(m), dest <= src, src + len < WSIZE
  PROVE  ncopy(m, dest, src, len) = Moved(m, dest, src, len)
  <1> DEFINE Next1(g) == [i \in 0 .. len |->
                IF i = 0 THEN m ELSE [g[i - 1] EXCEPT ![dest + i - 1] = g[i - 1][src + i - 1]]]
             F == [i \in 0 .. len |-> Moved(m, dest, src, i)]
             copied == CHOOSE g : g = Next1(g)
  <1>1. ncopy(m, dest, src, len) = copied[len]
    BY DEF ncopy
  <1>2. Moved(m, dest, src, 0) = m
    <2>1. \A x \in Addresses : x \in Int /\ ~ (dest <= x /\ x < dest + 0)
      BY BootAssumption DEF Addresses
    <2>2. Moved(m, dest, src, 0) = [x \in Addresses |-> m[x]]
      BY <2>1 DEF Moved
    <2> QED BY <2>2 DEF IsMemory
  <1>3. ASSUME NEW i \in 0 .. len PROVE Next1(F)[i] = F[i]
    <2>1. CASE i = 0
      BY <1>2, <2>1
    <2>2. CASE i # 0
      <3>1. i \in 1 .. len /\ i - 1 \in 0 .. len
        BY <2>2
      <3>2. F[i - 1] = Moved(m, dest, src, i - 1) /\ F[i] = Moved(m, dest, src, i)
        BY <3>1
      <3> HIDE DEF F
      <3>3. Next1(F)[i] = [F[i - 1] EXCEPT ![dest + i - 1] = F[i - 1][src + i - 1]]
        BY <2>2
      <3> QED BY <3>1, <3>2, <3>3, NextByte
    <2> QED BY <2>1, <2>2
  <1>4. F = Next1(F)
    BY <1>3
  <1>5. copied = Next1(copied)
    <2> HIDE DEF F
    <2>1. \E g : g = Next1(g)
      BY <1>4
    <2> QED BY <2>1
  <1> HIDE DEF copied
  <1>6. copied[0] = m
    BY <1>5
  <1>7. ASSUME NEW i \in 1 .. len
        PROVE  copied[i] = [copied[i - 1] EXCEPT ![dest + i - 1] = copied[i - 1][src + i - 1]]
    <2>1. i \in 0 .. len /\ i # 0
      OBVIOUS
    <2>2. copied[i] = Next1(copied)[i]
      BY <1>5
    <2> QED BY <2>1, <2>2
  <1> DEFINE wrong == {i \in 0 .. len : copied[i] # Moved(m, dest, src, i)}
  <1>8. wrong = {}
    <2> SUFFICES ASSUME wrong # {} PROVE FALSE
      OBVIOUS
    <2>1. wrong \in SUBSET Nat
      OBVIOUS
    <2> HIDE DEF wrong
    <2>2. PICK i \in wrong : \A j \in wrong : i <= j
      BY <2>1, Least
    <2>3. i \in 0 .. len /\ copied[i] # Moved(m, dest, src, i)
      BY <2>2 DEF wrong
    <2>4. i # 0
      BY <1>2, <1>6, <2>3
    <2>5. i \in 1 .. len /\ i - 1 \in 0 .. len /\ ~ (i <= i - 1)
      BY <2>3, <2>4
    <2>6. copied[i - 1] = Moved(m, dest, src, i - 1)
      BY <2>2, <2>5 DEF wrong
    <2>7. copied[i] = Moved(m, dest, src, i)
      BY <1>7, <2>5, <2>6, NextByte
    <2> QED BY <2>3, <2>7
  <1>9. copied[len] = Moved(m, dest, src, len)
    BY <1>8
  <1> QED BY <1>1, <1>9

\* Wherever the boot loader leaves a module behind the kernel, the copy gives
\* its bytes, and leaves the kernel alone.
LEMMA LoadModuleKeeps == LoadInv /\ LoadModule => LoadInv'
  <1> SUFFICES ASSUME LoadInv, LoadModule PROVE LoadInv'
    OBVIOUS
  <1> USE DEF Go
  <1>1. CASE module' = NoModule /\ Go("protect") /\ UNCHANGED mem
    BY <1>1 DEF LoadInv, ModuleLoaded, IsMemory
  <1>2. ASSUME NEW n \in ModuleSizes, NEW a \in ModuleStarts, NEW m, NEW loaded,
               m = [x \in DOMAIN mem |-> IF x \in a .. (a + n - 1) THEN 100 + x ELSE mem[x]],
               loaded = ncopy(m, Physical, a, n),
               module' = [start |-> a, bytes |-> Bytes(m, a, n)],
               IF ~ Fits(n) THEN Go("panic") /\ mem' = m
               ELSE /\ mem' = loaded
                    /\ IF Bytes(loaded, Physical, n) = module'.bytes
                       THEN Go("protect") ELSE Go("badmodule")
        PROVE  LoadInv'
    <2>1. /\ n \in Nat /\ a \in Nat /\ WSIZE \in Nat /\ Physical \in Nat
          /\ Physical <= a /\ a + n < WSIZE
      BY BootAssumption
    <2>2. DOMAIN mem = Addresses
      BY DEF LoadInv, IsMemory
    <2>3. /\ IsMemory(m)
          /\ \A x \in 0 .. Physical - 1 : x \in Addresses /\ m[x] = x
      <3>1. m = [x \in Addresses |-> IF x \in a .. (a + n - 1) THEN 100 + x ELSE mem[x]]
        BY <1>2, <2>2
      <3>2. \A x \in 0 .. Physical - 1 : x \in Addresses /\ x \notin a .. (a + n - 1) /\ mem[x] = x
        BY <2>1 DEF LoadInv, ModuleLoaded, Addresses
      <3> QED BY <3>1, <3>2 DEF IsMemory
    <2>4. loaded = Moved(m, Physical, a, n)
      BY <1>2, <2>1, <2>3, CopiesForward
    <2>5. /\ IsMemory(loaded)
          /\ \A x \in 0 .. Physical - 1 : loaded[x] = x
      BY <2>1, <2>3, <2>4 DEF Moved, IsMemory
    <2>6. Bytes(loaded, Physical, n) = Bytes(m, a, n)
      <3>1. ASSUME NEW i \in 1 .. n PROVE loaded[Physical + i - 1] = m[a + i - 1]
        <4>1. /\ Physical + i - 1 \in Addresses
              /\ Physical <= Physical + i - 1 /\ Physical + i - 1 < Physical + n
              /\ a + ((Physical + i - 1) - Physical) = a + i - 1
          BY <2>1 DEF Addresses
        <4> QED BY <2>4, <4>1 DEF Moved
      <3> QED BY <3>1 DEF Bytes
    <2>7. module'.bytes = Bytes(m, a, n)
      BY <1>2
    <2>8. pc' # "badmodule" /\ (mem' = m \/ mem' = loaded)
      BY <1>2, <2>6, <2>7
    <2> QED BY <2>3, <2>5, <2>8 DEF LoadInv, ModuleLoaded, IsMemory
  <1> QED BY <1>1, <1>2 DEF LoadModule

LEMMA LoadStep == LoadInv /\ [BootNext]_bootvars => LoadInv'
  <1> SUFFICES ASSUME LoadInv, [BootNext]_bootvars PROVE LoadInv'
    OBVIOUS
  <1>1. CASE LoadModule
    BY <1>1, LoadModuleKeeps
  <1>2. ASSUME UNCHANGED mem, pc' # "badmodule" PROVE LoadInv'
    BY <1>2 DEF LoadInv, ModuleLoaded, IsMemory
  <1>3. pc # "badmodule"
    BY DEF LoadInv, ModuleLoaded
  <1> USE DEF Go, boot
  <1>4. CASE Checks
    BY <1>2, <1>3, <1>4 DEF Checks
  <1>5. CASE Calibrate
    BY <1>2, <1>3, <1>5 DEF Calibrate
  <1>6. CASE Sleeping
    BY <1>2, <1>3, <1>6 DEF Sleeping
  <1>7. CASE FindField
    BY <1>2, <1>3, <1>7 DEF FindField
  <1>8. CASE interrupts_init
    BY <1>2, <1>3, <1>8 DEF interrupts_init
  <1>9. CASE OtherInits
    BY <1>2, <1>3, <1>9 DEF OtherInits
  <1>10. CASE syscall_init
    BY <1>2, <1>3, <1>10 DEF syscall_init
  <1>11. CASE acpi_init
    BY <1>2, <1>3, <1>11 DEF acpi_init
  <1>12. CASE Activate
    BY <1>2, <1>3, <1>12 DEF Activate
  <1>13. CASE FindMCFG
    BY <1>2, <1>3, <1>13 DEF FindMCFG
  <1>14. CASE devbus_init
    BY <1>2, <1>3, <1>14 DEF devbus_init
  <1>15. CASE NextDevice
    BY <1>2, <1>3, <1>15 DEF NextDevice
  <1>16. CASE WaitReady
    BY <1>2, <1>3, <1>16 DEF WaitReady
  <1>17. CASE Allocate
    BY <1>2, <1>3, <1>17 DEF Allocate
  <1>18. CASE Run
    BY <1>2, <1>3, <1>18 DEF Run
  <1>19. CASE HCReset
    BY <1>2, <1>3, <1>19 DEF HCReset
  <1>20. CASE FreeRegions
    BY <1>2, <1>3, <1>20 DEF FreeRegions
  <1>21. CASE usb_portInit
    BY <1>2, <1>3, <1>21 DEF usb_portInit
  <1>22. CASE KernelMain
    BY <1>2, <1>3, <1>22 DEF KernelMain
  <1>23. CASE Time
    BY <1>2, <1>3, <1>23 DEF Time
  <1>24. CASE ControllerReady
    BY <1>2, <1>3, <1>24 DEF ControllerReady
  <1>90. CASE ResetDone
    BY <1>2, <1>3, <1>90 DEF ResetDone
  <1>25. CASE Interrupt
    BY <1>2, <1>3, <1>25 DEF Interrupt
  <1>26. CASE SystemCall
    BY <1>2, <1>3, <1>26 DEF SystemCall
  <1>27. CASE Halt
    BY <1>2, <1>3, <1>27 DEF Halt, bootvars
  <1>28. CASE UNCHANGED bootvars
    BY <1>2, <1>3, <1>28 DEF bootvars
  <1> QED
    BY <1>1, <1>4, <1>5, <1>6, <1>7, <1>8, <1>9, <1>10, <1>11, <1>12, <1>13, <1>14, <1>15, <1>16, <1>17, <1>18, <1>19, <1>20, <1>21, <1>22, <1>23, <1>24, <1>25, <1>26, <1>27, <1>28, <1>90
       DEF BootNext, kernel_init

\* A module that fits is loaded whole wherever the boot loader left it, be it
\* over the place it is copied to, and the copy leaves the kernel alone
\* (kernel.c:146-164, utils.c:291-298): the test of the hash never fails.
THEOREM ModuleAlwaysLoaded == BootSpec => []ModuleLoaded
  <1>1. BootInit => LoadInv
    <2> SUFFICES ASSUME BootInit PROVE LoadInv
      OBVIOUS
    <2>1. mem = [x \in Addresses |-> x] /\ pc # "badmodule"
      BY DEF BootInit, Addresses
    <2>2. 0 .. Physical - 1 \subseteq Addresses
      BY BootAssumption DEF Addresses
    <2> QED BY <2>1, <2>2 DEF LoadInv, ModuleLoaded, IsMemory
  <1>2. LoadInv => ModuleLoaded
    BY DEF LoadInv
  <1> QED BY <1>1, <1>2, LoadStep, PTL DEF BootSpec

-----------------------------------------------------------------------------
(* USB controllers *)

\* Steps that neither enter nor leave a controller and leave the driver alone.
LEMMA UsbIdle ==
  ASSUME UsbInv, UNCHANGED usbvars, pc \notin AtController \cup {"ports"},
         pc' \notin AtController \cup {"ports"}
  PROVE  UsbInv'
  BY DEF UsbInv, usbvars, UsbTypes, OneAtATime, NotReset, Progress, NoDanglingDMA, Holders,
         HeldTo, Lost, AtController

LEMMA UsbSame ==
  ASSUME UsbInv, UNCHANGED <<pc, usbvars>>
  PROVE  UsbInv'
  BY DEF usbvars, UsbInv, UsbTypes, OneAtATime, NotReset, Progress, NoDanglingDMA, Holders, HeldTo, Lost

LEMMA AllocatedNames ==
  /\ \A i \in 1 .. 6 : Allocated[i] \in Names
  /\ \A i, j \in 1 .. 6 : Allocated[i] = Allocated[j] => i = j
  /\ Len(Allocated) = 6
  /\ Names = {Allocated[i] : i \in 1 .. 6}
  /\ Names = {Allocated[i] : i \in DOMAIN Allocated}
  BY DEF Allocated, Names

\* What a controller is told of after an allocation has been made by then.
LEMMA RegistersSoFar ==
  ASSUME NEW k \in 1 .. 6
  PROVE  \A n \in Registers(Allocated[k]) : \E i \in 1 .. k : n = Allocated[i]
  <1>1. k \in {1, 2, 3, 4, 5, 6}
    OBVIOUS
  <1>2. CASE k = 1 BY <1>2 DEF Registers, Allocated
  <1>3. CASE k = 2 BY <1>3 DEF Registers, Allocated
  <1>4. CASE k = 3 BY <1>4 DEF Registers, Allocated
  <1>5. CASE k = 4 BY <1>5 DEF Registers, Allocated
  <1>6. CASE k = 5 BY <1>6 DEF Registers, Allocated
  <1>7. CASE k = 6 BY <1>7 DEF Registers, Allocated
  <1> QED BY <1>1, <1>2, <1>3, <1>4, <1>5, <1>6, <1>7

\* On each of the seven paths, of what has been allocated the path leaves a
\* beginning of the last three regions.
LEMMA FreedLeaves ==
  ASSUME NEW s \in 1 .. 7
  PROVE  \E k \in 3 .. 6 : \A i \in 1 .. 6 :
           (i < s /\ Allocated[i] \notin FreedAt(s)) <=> (i \in 4 .. k)
  <1>1. s \in {1, 2, 3, 4, 5, 6, 7}
    OBVIOUS
  <1>2. \A i \in 1 .. 6 : i \in {1, 2, 3, 4, 5, 6}
    OBVIOUS
  <1>3. 3 \in 3 .. 6 /\ 4 \in 3 .. 6 /\ 5 \in 3 .. 6 /\ 6 \in 3 .. 6
    OBVIOUS
  <1>4. CASE s = 1
    <2>1. \A i \in 1 .. 6 : (i < s /\ Allocated[i] \notin FreedAt(s)) <=> (i \in 4 .. 3)
      BY <1>2, <1>4 DEF FreedAt, Allocated
    <2> QED BY <1>3, <2>1
  <1>5. CASE s = 2
    <2>1. \A i \in 1 .. 6 : (i < s /\ Allocated[i] \notin FreedAt(s)) <=> (i \in 4 .. 3)
      BY <1>2, <1>5 DEF FreedAt, Allocated
    <2> QED BY <1>3, <2>1
  <1>6. CASE s = 3
    <2>1. \A i \in 1 .. 6 : (i < s /\ Allocated[i] \notin FreedAt(s)) <=> (i \in 4 .. 3)
      BY <1>2, <1>6 DEF FreedAt, Allocated
    <2> QED BY <1>3, <2>1
  <1>7. CASE s = 4
    <2>1. \A i \in 1 .. 6 : (i < s /\ Allocated[i] \notin FreedAt(s)) <=> (i \in 4 .. 3)
      BY <1>2, <1>7 DEF FreedAt, Allocated
    <2> QED BY <1>3, <2>1
  <1>8. CASE s = 5
    <2>1. \A i \in 1 .. 6 : (i < s /\ Allocated[i] \notin FreedAt(s)) <=> (i \in 4 .. 4)
      BY <1>2, <1>8 DEF FreedAt, Allocated
    <2> QED BY <1>3, <2>1
  <1>9. CASE s = 6
    <2>1. \A i \in 1 .. 6 : (i < s /\ Allocated[i] \notin FreedAt(s)) <=> (i \in 4 .. 5)
      BY <1>2, <1>9 DEF FreedAt, Allocated
    <2> QED BY <1>3, <2>1
  <1>10. CASE s = 7
    <2>1. \A i \in 1 .. 6 : (i < s /\ Allocated[i] \notin FreedAt(s)) <=> (i \in 4 .. 6)
      BY <1>2, <1>10 DEF FreedAt, Allocated
    <2> QED BY <1>3, <2>1
  <1> QED BY <1>1, <1>4, <1>5, <1>6, <1>7, <1>8, <1>9, <1>10

\* Nothing allocated is nothing lost.
LEMMA NothingLost == ASSUME NEW h, HeldTo(h, 1) PROVE Lost(h)
  <1>1. \A i \in 1 .. 6 : (<<h, Allocated[i]>> \in live) <=> (i \in 4 .. 3)
    BY DEF HeldTo
  <1> QED BY <1>1 DEF Lost

LEMMA NextDeviceKeeps == UsbInv /\ NextDevice => UsbInv'
  <1> SUFFICES ASSUME UsbInv, NextDevice PROVE UsbInv'
    OBVIOUS
  <1> USE DEF AtController
  <1>1. /\ pc = "scan" /\ UNCHANGED <<step, hosts, live, usb_InitLock>>
        /\ Hosts \in Nat /\ host \in 0 .. Hosts
    BY BootAssumption DEF NextDevice, UsbInv, UsbTypes
  <1>2. CASE Go("i8042") /\ UNCHANGED <<host, usb>>
    BY <1>1, <1>2
       DEF Go, UsbInv, UsbTypes, OneAtATime, NotReset, Progress, NoDanglingDMA, Holders, HeldTo, Lost
  <1>3. /\ \A h, k : HeldTo(h, k)' <=> HeldTo(h, k)
        /\ \A h : Lost(h)' <=> Lost(h)
    BY <1>1 DEF HeldTo, Lost
  <1>4. NoDanglingDMA'
    BY <1>1 DEF UsbInv, NoDanglingDMA
  <1>5. ASSUME host # Hosts, host' = host + 1
        PROVE  /\ host' \in 1 .. Hosts /\ host < host' /\ HeldTo(host, 1)' /\ ~ hosts'[host'].reset
               /\ \A h \in 1 .. Hosts : host' < h => ~ hosts'[h].reset
               /\ \A h \in 1 .. Hosts :
                    /\ host' < h => HeldTo(h, 1)'
                    /\ h <= host' => (usb_InitLock /\ h = usb) \/ Lost(h)'
    <2>1. host' \in 1 .. Hosts /\ host < host'
      BY <1>1, <1>5
    <2>2. \A h \in 1 .. Hosts : /\ host' < h => host < h
                                /\ h <= host' => h <= host \/ h = host'
      BY <1>1, <1>5
    <2>3. \A h \in 1 .. Hosts : host < h => ~ hosts[h].reset
      BY DEF UsbInv, NotReset
    <2>4. \A h \in 1 .. Hosts : /\ host < h => HeldTo(h, 1) /\ Lost(h)
                                /\ h <= host => (usb_InitLock /\ h = usb) \/ Lost(h)
      BY <1>1, NothingLost DEF UsbInv, Holders
    <2>5. HeldTo(host, 1)'
      <3>1. PICK g \in 1 .. Hosts : g = host'
        BY <2>1
      <3>2. HeldTo(g, 1)
        BY <2>1, <2>4, <3>1
      <3> QED BY <1>1, <3>1, <3>2 DEF HeldTo
    <2> QED BY <1>1, <1>3, <2>1, <2>2, <2>3, <2>4, <2>5
  <1>6. CASE host # Hosts /\ host' = host + 1 /\ UNCHANGED <<pc, usb>>
    <2>1. UsbTypes'
      BY <1>1, <1>5, <1>6 DEF UsbInv, UsbTypes
    <2>2. OneAtATime' /\ NotReset' /\ Progress'
      BY <1>1, <1>5, <1>6 DEF UsbInv, OneAtATime, NotReset, Progress
    <2>3. Holders'
      BY <1>1, <1>5, <1>6 DEF Holders
    <2> QED BY <1>4, <2>1, <2>2, <2>3 DEF UsbInv
  <1>7. CASE /\ host # Hosts /\ host' = host + 1 /\ ~ usb_InitLock
             /\ usb' = host' /\ (Go("wild") \/ Go("cnr"))
    <2>1. UsbTypes'
      BY <1>1, <1>5, <1>7 DEF Go, UsbInv, UsbTypes
    <2>2. OneAtATime' /\ NotReset' /\ Progress'
      BY <1>1, <1>5, <1>7 DEF Go, OneAtATime, NotReset, Progress
    <2>3. Holders'
      BY <1>1, <1>5, <1>7 DEF Holders
    <2> QED BY <1>4, <2>1, <2>2, <2>3 DEF UsbInv
  <1> QED BY <1>2, <1>6, <1>7 DEF NextDevice, Accepts

LEMMA LiveSame ==
  ASSUME UNCHANGED live
  PROVE  /\ \A h, k : HeldTo(h, k)' <=> HeldTo(h, k)
         /\ \A h : Lost(h)' <=> Lost(h)
  BY DEF HeldTo, Lost

LEMMA ControllerReadyKeeps == UsbInv /\ ControllerReady => UsbInv'
  <1> SUFFICES ASSUME UsbInv, ControllerReady PROVE UsbInv'
    OBVIOUS
  <1>1. /\ pc = "cnr" /\ pc' = "cnr"
        /\ hosts' = [hosts EXCEPT ![host].cnr = FALSE]
        /\ UNCHANGED <<host, step, live, usb_InitLock, usb>>
    BY DEF ControllerReady
  <1>2. host \in 1 .. Hosts /\ ~ usb_InitLock /\ UsbTypes
    BY <1>1 DEF UsbInv, UsbTypes, OneAtATime, AtController
  <1>3. /\ hosts' \in [1 .. Hosts -> ControllerStates]
        /\ \A h \in 1 .. Hosts : hosts'[h].regs = hosts[h].regs /\ (hosts'[h].reset <=> hosts[h].reset)
    BY <1>1, <1>2 DEF UsbTypes, ControllerStates
  <1>4. UsbTypes'
    BY <1>1, <1>2, <1>3 DEF UsbTypes, AtController
  <1>5. OneAtATime' /\ NotReset'
    BY <1>1, <1>2, <1>3 DEF UsbInv, OneAtATime, NotReset, AtController
  <1>6. Progress' /\ Holders'
    BY <1>1, <1>2 DEF UsbInv, Progress, Holders, HeldTo, Lost, AtController
  <1>7. NoDanglingDMA'
    BY <1>1, <1>3 DEF UsbInv, NoDanglingDMA, Owned
  <1> QED BY <1>4, <1>5, <1>6, <1>7 DEF UsbInv

LEMMA WaitReadyKeeps == UsbInv /\ WaitReady => UsbInv'
  <1> SUFFICES ASSUME UsbInv, WaitReady PROVE UsbInv'
    OBVIOUS
  <1>1. /\ pc = "cnr" /\ pc' = "alloc" /\ step' = 1
        /\ UNCHANGED <<host, hosts, live, usb_InitLock, usb>>
    BY DEF WaitReady, Go
  <1>2. UsbTypes' /\ OneAtATime' /\ NotReset' /\ NoDanglingDMA'
    BY <1>1 DEF UsbInv, UsbTypes, OneAtATime, NotReset, NoDanglingDMA, AtController
  <1>3. Progress'
    BY <1>1 DEF UsbInv, Progress, HeldTo
  <1>4. Holders'
    BY <1>1, LiveSame DEF UsbInv, Holders, AtController
  <1> QED BY <1>2, <1>3, <1>4 DEF UsbInv

LEMMA AllocateKeeps == UsbInv /\ Allocate => UsbInv'
  <1> SUFFICES ASSUME UsbInv, Allocate PROVE UsbInv'
    OBVIOUS
  <1> DEFINE n == Allocated[step]
  <1>1. pc = "alloc" /\ UNCHANGED <<host, usb_InitLock, usb>>
    BY DEF Allocate
  <1>2. /\ host \in 1 .. Hosts /\ ~ usb_InitLock /\ usb = host /\ UsbTypes
        /\ step \in 1 .. 6 /\ n \in Names /\ HeldTo(host, step)
    BY <1>1, AllocatedNames DEF UsbInv, UsbTypes, OneAtATime, Progress, AtController
  <1>3. CASE Go("reset") /\ UNCHANGED <<step, hosts, live>>
    BY <1>1, <1>2, <1>3
       DEF Go, UsbInv, UsbTypes, OneAtATime, NotReset, Progress, NoDanglingDMA, Holders,
           HeldTo, Lost, AtController
  <1>4. CASE /\ live' = live \cup {<<host, n>>}
             /\ hosts' = [hosts EXCEPT ![host].regs = @ \cup Registers(n)]
             /\ step' = step + 1
             /\ IF step = Len(Allocated) THEN Go("run") ELSE UNCHANGED pc
    <2>1. HeldTo(host, step)' /\ \A i \in 1 .. 6 : i <= step => <<host, Allocated[i]>> \in live'
      <3>1. \A i \in 1 .. 6 : (<<host, Allocated[i]>> \in live') <=> (i < step \/ i = step)
        BY <1>2, <1>4, AllocatedNames DEF HeldTo
      <3>2. \A i \in 1 .. 6 : (i < step \/ i = step) <=> (i < step + 1)
        BY <1>2
      <3> QED BY <1>1, <1>2, <1>4, <3>1, <3>2 DEF HeldTo
    <2>2. Owned(host, Registers(n)) \subseteq live' /\ Registers(n) \subseteq Names
      <3>1. ASSUME NEW r \in Registers(n)
            PROVE  <<host, r>> \in live' /\ r \in Names
        <4>1. PICK i \in 1 .. step : r = Allocated[i]
          BY <1>2, RegistersSoFar
        <4> QED BY <1>2, <2>1, <4>1, AllocatedNames
      <3>2. \A x \in Owned(host, Registers(n)) : x = <<host, x[2]>> /\ x[2] \in Registers(n)
        BY DEF Owned
      <3> HIDE DEF n
      <3> QED BY <3>1, <3>2
    <2>3. /\ hosts' \in [1 .. Hosts -> ControllerStates]
          /\ \A h \in 1 .. Hosts :
               /\ hosts'[h].regs = IF h = host THEN hosts[h].regs \cup Registers(n) ELSE hosts[h].regs
               /\ hosts'[h].reset <=> hosts[h].reset
      <3> HIDE DEF n
      <3> QED BY <1>2, <1>4, <2>2 DEF UsbTypes, ControllerStates
    <2>4. /\ step' \in 1 .. 7
          /\ step = 6 => pc' = "run" /\ step' = 7
          /\ step # 6 => pc' = "alloc" /\ step' \in 1 .. 6
      BY <1>1, <1>2, <1>4, AllocatedNames DEF Go
    <2>5. UsbTypes'
      BY <1>1, <1>2, <1>4, <2>3, <2>4 DEF UsbTypes, AtController
    <2>6. OneAtATime' /\ NotReset'
      BY <1>1, <1>2, <2>3, <2>4 DEF UsbInv, OneAtATime, NotReset
    <2>7. Progress'
      BY <1>1, <1>2, <2>1, <2>4 DEF Progress
    <2>8. NoDanglingDMA'
      BY <1>4, <2>2, <2>3 DEF UsbInv, NoDanglingDMA, Owned
    <2>9. Holders'
      <3>1. \A h \in 1 .. Hosts : h # host =>
              \A i \in 1 .. 6 : (<<h, Allocated[i]>> \in live') <=> (<<h, Allocated[i]>> \in live)
        BY <1>4
      <3>2. \A h \in 1 .. Hosts : h # host => /\ HeldTo(h, 1)' <=> HeldTo(h, 1)
                                              /\ Lost(h)' <=> Lost(h)
        BY <3>1 DEF HeldTo, Lost
      <3>3. pc' \in AtController
        BY <2>4 DEF AtController
      <3>4. \A h \in 1 .. Hosts : host < h => h # host
        BY <1>2
      <3> QED BY <1>1, <1>2, <3>2, <3>3, <3>4 DEF UsbInv, Holders, AtController
    <2> QED BY <2>5, <2>6, <2>7, <2>8, <2>9 DEF UsbInv
  <1> QED BY <1>3, <1>4 DEF Allocate

LEMMA RunKeeps == UsbInv /\ Run => UsbInv'
  <1> SUFFICES ASSUME UsbInv, Run PROVE UsbInv'
    OBVIOUS
  <1>1. pc = "run" /\ UNCHANGED <<host, step, live, usb>>
    BY DEF Run
  <1>2. /\ host \in 1 .. Hosts /\ ~ usb_InitLock /\ usb = host /\ UsbTypes
        /\ HeldTo(host, 7) /\ ~ hosts[host].reset
    BY <1>1 DEF UsbInv, UsbTypes, OneAtATime, NotReset, Progress, AtController
  <1>3. Owned(host, Names) \subseteq live
    <2>1. \A i \in 1 .. 6 : <<host, Allocated[i]>> \in live
      BY <1>2 DEF HeldTo
    <2> QED BY <2>1, AllocatedNames DEF Owned
  <1>4. CASE Go("reset") /\ UNCHANGED <<hosts, usb_InitLock>>
    BY <1>1, <1>2, <1>4
       DEF Go, UsbInv, UsbTypes, OneAtATime, NotReset, Progress, NoDanglingDMA, Holders,
           HeldTo, Lost, AtController
  <1>5. CASE /\ hosts' = [hosts EXCEPT ![host].running = TRUE]
             /\ usb_InitLock' = TRUE /\ Go("ports")
    <2>1. /\ hosts' \in [1 .. Hosts -> ControllerStates]
          /\ \A h \in 1 .. Hosts : hosts'[h].regs = hosts[h].regs /\ (hosts'[h].reset <=> hosts[h].reset)
          /\ hosts'[host].running
      BY <1>2, <1>5 DEF UsbTypes, ControllerStates
    <2>2. UsbTypes'
      BY <1>1, <1>2, <1>5, <2>1 DEF Go, UsbTypes, AtController
    <2>3. OneAtATime' /\ NotReset'
      BY <1>1, <1>2, <1>5, <2>1 DEF Go, UsbInv, OneAtATime, NotReset, AtController
    <2>4. Progress'
      BY <1>1, <1>2, <1>3, <1>5 DEF Go, Progress, AtController
    <2>5. NoDanglingDMA'
      BY <1>1, <2>1 DEF UsbInv, NoDanglingDMA, Owned
    <2>6. Holders'
      BY <1>1, <1>2, <1>5, LiveSame DEF UsbInv, Holders, AtController
    <2> QED BY <2>2, <2>3, <2>4, <2>5, <2>6 DEF UsbInv
  <1> QED BY <1>4, <1>5 DEF Run

LEMMA HCResetKeeps == UsbInv /\ HCReset => UsbInv'
  <1> SUFFICES ASSUME UsbInv, HCReset PROVE UsbInv'
    OBVIOUS
  <1>1. /\ pc = "reset" /\ pc' = "free" /\ UNCHANGED <<host, step, live, usb, usb_InitLock>>
        /\ hosts' = [hosts EXCEPT ![host].reset = TRUE]
    BY DEF HCReset, Go
  <1>2. /\ host \in 1 .. Hosts /\ ~ usb_InitLock /\ usb = host /\ UsbTypes
        /\ HeldTo(host, step)
    BY <1>1 DEF UsbInv, UsbTypes, OneAtATime, Progress, AtController
  <1>3. /\ hosts' \in [1 .. Hosts -> ControllerStates]
        /\ hosts'[host].reset
        /\ \A h \in (1 .. Hosts) \ {host} : hosts'[h] = hosts[h]
    BY <1>1, <1>2 DEF UsbTypes, ControllerStates
  <1>4. UsbTypes'
    BY <1>1, <1>2, <1>3 DEF UsbTypes, AtController
  <1>5. OneAtATime' /\ NotReset'
    BY <1>1, <1>2, <1>3 DEF UsbInv, OneAtATime, NotReset, AtController
  <1>6. Progress'
    BY <1>1, <1>2, <1>3, LiveSame DEF Progress, HeldTo
  <1>7. NoDanglingDMA'
    BY <1>1, <1>3 DEF UsbInv, NoDanglingDMA, Owned
  <1>8. Holders'
    BY <1>1, LiveSame DEF UsbInv, Holders, AtController
  <1> QED BY <1>4, <1>5, <1>6, <1>7, <1>8 DEF UsbInv

\* The end of a reset meets only a controller that has been given up.
LEMMA ResetDoneKeeps == UsbInv /\ ResetDone => UsbInv'
  <1> SUFFICES ASSUME UsbInv, ResetDone PROVE UsbInv'
    OBVIOUS
  <1>1. UNCHANGED <<pc, host, step, live, usb, usb_InitLock>>
    BY DEF ResetDone
  <1>2. PICK g \in 1 .. Hosts : hosts[g].reset /\ hosts' = [hosts EXCEPT ![g] = Cold]
    BY DEF ResetDone
  <1>3. /\ hosts' \in [1 .. Hosts -> ControllerStates]
        /\ hosts'[g].regs = {} /\ ~ hosts'[g].reset
        /\ \A h \in (1 .. Hosts) \ {g} : hosts'[h] = hosts[h]
    BY <1>2 DEF UsbInv, UsbTypes, ControllerStates, Cold
  <1>4. UsbTypes'
    BY <1>1, <1>3 DEF UsbInv, UsbTypes
  <1>5. usb_InitLock => usb \in (1 .. Hosts) \ {g}
    <2>1. 1 .. host \subseteq 1 .. Hosts
      BY BootAssumption DEF UsbInv, UsbTypes
    <2> QED BY <1>2, <2>1 DEF UsbInv, OneAtATime, NotReset
  <1>6. OneAtATime' /\ NotReset'
    BY <1>1, <1>2, <1>3, <1>5 DEF UsbInv, UsbTypes, OneAtATime, NotReset, AtController
  <1>7. Progress'
    <2>1. pc = "free" => hosts'[host].reset \/ hosts'[host].regs = {}
      BY <1>3 DEF UsbInv, UsbTypes, Progress, AtController
    <2> QED BY <1>1, <2>1 DEF UsbInv, Progress, HeldTo
  <1>8. NoDanglingDMA'
    BY <1>1, <1>3 DEF UsbInv, NoDanglingDMA, Owned
  <1>9. Holders'
    BY <1>1, LiveSame DEF UsbInv, Holders
  <1> QED BY <1>4, <1>6, <1>7, <1>8, <1>9 DEF UsbInv

LEMMA FreeRegionsKeeps == UsbInv /\ FreeRegions => UsbInv'
  <1> SUFFICES ASSUME UsbInv, FreeRegions PROVE UsbInv'
    OBVIOUS
  <1>1. /\ pc = "free" /\ pc' = "scan" /\ UNCHANGED <<host, step, hosts, usb, usb_InitLock>>
        /\ live' = live \ Owned(host, FreedAt(step))
    BY DEF FreeRegions, Go
  <1>2. /\ host \in 1 .. Hosts /\ ~ usb_InitLock /\ usb = host /\ UsbTypes
        /\ step \in 1 .. 7 /\ HeldTo(host, step)
        /\ hosts[host].reset \/ hosts[host].regs = {}
    BY <1>1 DEF UsbInv, UsbTypes, OneAtATime, Progress, AtController
  <1>3. UsbTypes'
    BY <1>1, <1>2 DEF UsbTypes, AtController
  <1>4. OneAtATime' /\ NotReset' /\ Progress'
    BY <1>1, <1>2 DEF UsbInv, OneAtATime, NotReset, Progress, AtController
  <1>5. NoDanglingDMA'
    BY <1>1, <1>2 DEF UsbInv, NoDanglingDMA, Owned
  <1>6. Lost(host)'
    <2>1. \A i \in 1 .. 6 : (<<host, Allocated[i]>> \in live') <=>
                              (i < step /\ Allocated[i] \notin FreedAt(step))
      BY <1>1, <1>2 DEF HeldTo, Owned
    <2>2. PICK k \in 3 .. 6 : \A i \in 1 .. 6 :
            (i < step /\ Allocated[i] \notin FreedAt(step)) <=> (i \in 4 .. k)
      BY <1>2, FreedLeaves
    <2> QED BY <1>1, <2>1, <2>2 DEF Lost
  <1>7. Holders'
    <2>1. \A h \in 1 .. Hosts : h # host =>
            \A i \in 1 .. 6 : (<<h, Allocated[i]>> \in live') <=> (<<h, Allocated[i]>> \in live)
      BY <1>1 DEF Owned
    <2>2. \A h \in 1 .. Hosts : h # host => /\ HeldTo(h, 1)' <=> HeldTo(h, 1)
                                            /\ Lost(h)' <=> Lost(h)
      BY <2>1 DEF HeldTo, Lost
    <2>3. \A h \in 1 .. Hosts : host < h => h # host
      BY <1>2
    <2>4. PICK g \in 1 .. Hosts : g = host
      BY <1>2
    <2>5. Lost(g)'
      BY <1>1, <1>6, <2>4 DEF Lost
    <2> QED BY <1>1, <1>2, <2>2, <2>3, <2>4, <2>5 DEF UsbInv, Holders
  <1> QED BY <1>3, <1>4, <1>5, <1>7 DEF UsbInv

LEMMA usb_portInitKeeps == UsbInv /\ usb_portInit => UsbInv'
  <1> SUFFICES ASSUME UsbInv, usb_portInit PROVE UsbInv'
    OBVIOUS
  <1>1. /\ pc = "ports" /\ pc' = "scan"
        /\ UNCHANGED <<host, step, hosts, live, usb_InitLock, usb>>
    BY DEF usb_portInit, Go
  <1>2. UsbTypes' /\ OneAtATime' /\ NotReset' /\ NoDanglingDMA'
    BY <1>1 DEF UsbInv, UsbTypes, OneAtATime, NotReset, NoDanglingDMA, AtController
  <1>3. Progress'
    BY <1>1 DEF UsbInv, Progress
  <1>4. Holders'
    BY <1>1, LiveSame DEF UsbInv, Holders, AtController
  <1> QED BY <1>2, <1>3, <1>4 DEF UsbInv

LEMMA UsbStep == UsbInv /\ [BootNext]_bootvars => UsbInv'
  <1> SUFFICES ASSUME UsbInv, [BootNext]_bootvars PROVE UsbInv'
    OBVIOUS
  <1>1. CASE Checks
    BY <1>1, UsbIdle DEF Checks, Go, AtController
  <1>2. CASE Calibrate
    BY <1>2, UsbIdle DEF Calibrate, Go, AtController
  <1>3. CASE Sleeping
    BY <1>3, UsbSame DEF Sleeping
  <1>4. CASE FindField
    BY <1>4, UsbIdle DEF FindField, Go, AtController
  <1>5. CASE LoadModule
    BY <1>5, UsbIdle DEF LoadModule, Go, AtController
  <1>6. CASE interrupts_init
    BY <1>6, UsbIdle DEF interrupts_init, Go, AtController
  <1>7. CASE OtherInits
    BY <1>7, UsbIdle DEF OtherInits, Go, AtController
  <1>8. CASE syscall_init
    BY <1>8, UsbIdle DEF syscall_init, Go, AtController
  <1>9. CASE acpi_init
    BY <1>9, UsbIdle DEF acpi_init, Go, AtController
  <1>10. CASE Activate
    BY <1>10, UsbIdle DEF Activate, Go, AtController
  <1>11. CASE FindMCFG
    BY <1>11, UsbIdle DEF FindMCFG, Go, AtController
  <1>12. CASE devbus_init
    BY <1>12, UsbIdle DEF devbus_init, Go, AtController
  <1>13. CASE KernelMain
    BY <1>13, UsbIdle DEF KernelMain, Go, AtController
  <1>14. CASE Time
    BY <1>14, UsbIdle DEF Time, Go, AtController
  <1>15. CASE Interrupt
    BY <1>15, UsbIdle DEF Interrupt, Go, AtController
  <1>16. CASE SystemCall
    BY <1>16, UsbIdle DEF SystemCall, Go, AtController
  <1>17. CASE NextDevice
    BY <1>17, NextDeviceKeeps
  <1>18. CASE ControllerReady
    BY <1>18, ControllerReadyKeeps
  <1>90. CASE ResetDone
    BY <1>90, ResetDoneKeeps
  <1>19. CASE WaitReady
    BY <1>19, WaitReadyKeeps
  <1>20. CASE Allocate
    BY <1>20, AllocateKeeps
  <1>21. CASE Run
    BY <1>21, RunKeeps
  <1>22. CASE HCReset
    BY <1>22, HCResetKeeps
  <1>23. CASE FreeRegions
    BY <1>23, FreeRegionsKeeps
  <1>24. CASE usb_portInit
    BY <1>24, usb_portInitKeeps
  <1>25. CASE Halt
    BY <1>25, UsbIdle DEF Halt, Ended, bootvars, AtController
  <1>26. CASE UNCHANGED bootvars
    BY <1>26, UsbSame DEF bootvars
  <1> QED
    BY <1>1, <1>2, <1>3, <1>4, <1>5, <1>6, <1>7, <1>8, <1>9, <1>10, <1>11, <1>12, <1>13, <1>14, <1>15, <1>16, <1>17, <1>18, <1>19, <1>20, <1>21, <1>22, <1>23, <1>24, <1>25, <1>26, <1>90
       DEF BootNext, kernel_init

LEMMA UsbStart == BootInit => UsbInv
  <1> SUFFICES ASSUME BootInit PROVE UsbInv
    OBVIOUS
  <1>1. {Cold, [Cold EXCEPT !.cnr = FALSE]} \subseteq ControllerStates
    <2>1. Cold \in ControllerStates
      BY DEF Cold, ControllerStates
    <2> QED BY <2>1 DEF ControllerStates
  <1>2. \A h \in 1 .. Hosts : hosts[h].regs = {} /\ ~ hosts[h].reset
    BY DEF BootInit, Cold
  <1>3. /\ hosts \in [1 .. Hosts -> ControllerStates]
        /\ host = 0 /\ step = 1 /\ live = {} /\ usb_InitLock = FALSE /\ pc = "checks"
    BY <1>1 DEF BootInit, NoHost
  <1>4. host \in 0 .. Hosts /\ step \in 1 .. 7 /\ pc \notin AtController \cup {"ports"}
    BY <1>3, BootAssumption DEF AtController
  <1>5. UsbTypes
    BY <1>3, <1>4 DEF UsbTypes
  <1>6. OneAtATime /\ NotReset /\ Progress
    BY <1>2, <1>3 DEF OneAtATime, NotReset, Progress, AtController
  <1>7. Holders
    BY <1>3 DEF Holders, HeldTo
  <1>8. NoDanglingDMA
    BY <1>2 DEF NoDanglingDMA, Owned
  <1> QED BY <1>5, <1>6, <1>7, <1>8 DEF UsbInv

\* A USB controller never works with memory that the driver has given back:
\* each of the failures of usb_init asks for its reset before it frees, and the
\* reset, which nobody waits for, ends at any time (usb.c:684-741).
THEOREM NeverDanglingDMA == BootSpec => []NoDanglingDMA
  <1>1. UsbInv => NoDanglingDMA
    BY DEF UsbInv
  <1> QED BY <1>1, UsbStart, UsbStep, PTL DEF BootSpec

\* Once usb_init has announced a controller, the driver's pointers are about
\* that one, it runs, and all it uses is allocated; no later controller of the
\* bus disturbs that, and no reset of an earlier one (usb.c:664-749).
THEOREM UsbAlwaysReady == BootSpec => []UsbReady
  <1>1. UsbInv => UsbReady
    BY AllocatedNames DEF UsbInv, OneAtATime, Progress, UsbReady
  <1> QED BY <1>1, UsbStart, UsbStep, PTL DEF BootSpec

\* However many controllers fail, each on one of the seven paths of usb_init,
\* none keeps its device contexts or its command ring, and what it does keep
\* is a beginning of port table, segment table and event ring (usb.c:684-741).
THEOREM OnlyLateLoss == BootSpec => []LateLossOnly
  <1>1. UsbInv => LateLossOnly
    <2> SUFFICES ASSUME UsbInv, pc \in {"scan", "i8042", "main"}, NEW h \in 1 .. Hosts,
                        ~ (usb_InitLock /\ h = usb)
                 PROVE  Lost(h)
      BY DEF LateLossOnly, Lost
    <2>1. host < h \/ h <= host
      BY DEF UsbInv, UsbTypes
    <2>2. HeldTo(h, 1) \/ Lost(h)
      BY <2>1 DEF UsbInv, Holders, AtController
    <2> QED BY <2>2, NothingLost
  <1> QED BY <1>1, UsbStart, UsbStep, PTL DEF BootSpec

-----------------------------------------------------------------------------
(* The clock *)

\* The second of the month and the tick within it; the date's fields and its
\* value follow from the second alone.
Sec == now \div TPS
Off == now % TPS
SecsADay == HOURS * MINS * SECS

Field(r, s) ==
  CASE r = 1 -> s % SECS
    [] r = 2 -> (s \div SECS) % MINS
    [] r = 3 -> ((s \div SECS) \div MINS) % HOURS
    [] r = 4 -> 1 + (((s \div SECS) \div MINS) \div HOURS)

ClockTypes ==
  /\ now \in 0 .. Month - 1
  /\ ticked \in BOOLEAN /\ monthEnded \in BOOLEAN
  /\ clk \in {"awake", "start", "poll", "returned"}
  /\ regs \in Seq(Nat) /\ Len(regs) <= 3
  /\ targetTime \in Int /\ counter \in Nat
  /\ pc \notin {"first", "second"} => clk = "awake"
  /\ pc \in {"first", "second"} => clk # "awake"
  /\ ~ Asleep => regs = <<>>

\* What has been read is of one second, unless the second has just ended.
Exact == \A i \in 1 .. Len(regs) : regs[i] = Field(i, Sec)
Torn == ticked /\ Off = 0

\* A poll follows the target by at most a tick, and what is done on return by
\* at most another.
JustAfter == Off <= (IF ticked THEN 2 ELSE 1) /\ (ticked => Off >= 1)
Prompt ==
  /\ clk = "poll" => SecsADay + Sec < targetTime \/ Off <= (IF ticked THEN 1 ELSE 0)
  /\ clk = "returned" => JustAfter

\* The time stamp was taken at one of the first three ticks of a second.
Since(t) == t - 2 <= counter /\ counter <= t
Stamped ==
  pc = "second" =>
    /\ clk = "start" => JustAfter /\ Since(Off)
    /\ clk = "poll" =>
         \/ SecsADay + Sec = targetTime - 1 /\ Since(Off) /\ (ticked => Off >= 1)
         \/ SecsADay + Sec = targetTime /\ Since(TPS + Off) /\ Off <= (IF ticked THEN 1 ELSE 0)
    /\ clk = "returned" => Since(TPS + Off)

CalibrationInv ==
  /\ ClockTypes
  /\ ~ monthEnded => (Torn \/ Exact) /\ Prompt /\ Stamped /\ CalibrationExact

\* Facts of division, each as a predicate that the provers match as a whole.
DividesInto(a, d) ==
  /\ a \div d \in Nat /\ a % d \in 0 .. d - 1
  /\ a = d * (a \div d) + (a % d)

TwoDivisions(a, b, c) == b * c \in Nat \ {0} /\ a \div (b * c) = (a \div b) \div c

LEMMA Quotient ==
  ASSUME NEW a \in Nat, NEW d \in Nat \ {0}
  PROVE  DividesInto(a, d)
  <1>1. /\ a \div d \in Nat /\ a % d \in Nat
        /\ a = d * (a \div d) + (a % d)
        /\ a % d < d
    OBVIOUS
  <1> DEFINE r == a % d
  <1>2. r \in Nat /\ r < d
    BY <1>1
  <1> HIDE DEF r
  <1>3. r \in 0 .. d - 1
    BY <1>2
  <1> QED BY <1>1, <1>3 DEF r, DividesInto

LEMMA QuotientIs ==
  ASSUME NEW d \in Nat \ {0}, NEW q \in Nat, NEW r \in 0 .. d - 1
  PROVE  (d * q + r) \div d = q
  <1> DEFINE a == d * q + r
             p == a \div d
  <1>1. a \in Nat
    OBVIOUS
  <1>2. p \in Nat /\ a % d \in 0 .. d - 1 /\ a = d * p + (a % d)
    BY <1>1, Quotient DEF DividesInto
  <1>3. a < d * (q + 1) /\ a < d * (p + 1) /\ d * q <= a /\ d * p <= a
    BY <1>2
  <1> HIDE DEF a, p
  <1>4. ASSUME NEW u \in Nat, NEW v \in Nat, u < v PROVE d * (u + 1) <= d * v
    <2>1. PICK w \in Nat : v = u + 1 + w
      <3>1. v - u - 1 \in Nat /\ v = u + 1 + (v - u - 1)
        BY <1>4
      <3> QED BY <3>1
    <2>2. d * v = d * (u + 1) + d * w /\ d * w \in Nat
      BY <2>1
    <2>3. d * (u + 1) \in Nat
      OBVIOUS
    <2> QED BY <2>2, <2>3
  <1>5. d * q \in Nat /\ d * p \in Nat /\ d * (q + 1) \in Nat /\ d * (p + 1) \in Nat
    BY <1>2
  <1>6. ~ (p < q)
    BY <1>1, <1>2, <1>3, <1>4, <1>5
  <1>7. ~ (q < p)
    BY <1>1, <1>2, <1>3, <1>4, <1>5
  <1>8. p = q
    BY <1>2, <1>6, <1>7
  <1> QED BY <1>8 DEF p, a

LEMMA DivDiv ==
  ASSUME NEW a \in Nat, NEW b \in Nat \ {0}, NEW c \in Nat \ {0}
  PROVE  TwoDivisions(a, b, c)
  <1> DEFINE q1 == a \div b
             r1 == a % b
             q2 == q1 \div c
             r2 == q1 % c
  <1>1. q1 \in Nat /\ r1 \in 0 .. b - 1 /\ a = b * q1 + r1
    BY Quotient DEF DividesInto
  <1>2. q2 \in Nat /\ r2 \in 0 .. c - 1 /\ q1 = c * q2 + r2
    BY <1>1, Quotient DEF DividesInto
  <1> HIDE DEF q1, r1, q2, r2
  <1>3. b * c \in Nat \ {0}
    OBVIOUS
  <1>4. b * r2 + r1 \in 0 .. (b * c) - 1
    <2>1. PICK w \in Nat : c = r2 + 1 + w
      <3>1. c - r2 - 1 \in Nat /\ c = r2 + 1 + (c - r2 - 1)
        BY <1>2
      <3> QED BY <3>1
    <2>2. b * c = b * r2 + b + b * w /\ b * w \in Nat /\ b * r2 \in Nat
      BY <1>2, <2>1
    <2> QED BY <1>1, <2>2
  <1>5. a = (b * c) * q2 + (b * r2 + r1)
    BY <1>1, <1>2
  <1>6. a \div (b * c) = q2
    BY <1>2, <1>3, <1>4, <1>5, QuotientIs
  <1> QED BY <1>3, <1>6 DEF q2, q1, TwoDivisions

LEMMA BcdBack == ASSUME NEW n \in Nat PROVE utils_bcd2dec(Bcd(n)) = n
  <1> DEFINE q == n \div 10
             r == n % 10
  <1>1. q \in Nat /\ r \in 0 .. 9 /\ n = 10 * q + r
    BY Quotient DEF DividesInto
  <1> HIDE DEF q, r
  <1>2. (16 * q + r) \div 16 = q /\ (16 * q + r) % 16 = r
    BY <1>1
  <1>3. Bcd(n) = 16 * q + r
    BY DEF Bcd, q, r
  <1>4. utils_bcd2dec(16 * q + r) = r + q * 10
    BY <1>2 DEF utils_bcd2dec
  <1> QED BY <1>1, <1>3, <1>4

LEMMA Radices ==
  /\ TPS \in Nat \ {0} /\ SECS \in Nat \ {0} /\ MINS \in Nat \ {0} /\ HOURS \in Nat \ {0}
  /\ DayTicks \in Nat \ {0} /\ Month \in Nat \ {0} /\ SecsADay \in Nat
  <1>1. /\ TPS \in Nat \ {0} /\ SECS \in Nat \ {0} /\ MINS \in Nat \ {0}
        /\ HOURS \in Nat \ {0} /\ DAYS \in Nat \ {0}
    BY ClockAssumption
  <1>2. \A a, b \in Nat \ {0} : a * b \in Nat \ {0}
    OBVIOUS
  <1>3. TPS * SECS \in Nat \ {0}
    BY <1>1, <1>2
  <1>4. (TPS * SECS) * MINS \in Nat \ {0}
    BY <1>1, <1>2, <1>3
  <1>5. DayTicks \in Nat \ {0}
    BY <1>1, <1>2, <1>4 DEF DayTicks
  <1>6. Month \in Nat \ {0}
    BY <1>1, <1>2, <1>5 DEF Month
  <1>7. SecsADay \in Nat
    BY <1>1, <1>2 DEF SecsADay
  <1> QED BY <1>1, <1>5, <1>6, <1>7

\* The registers of the clock hold the fields of its second.
LEMMA RegisterIs ==
  ASSUME now \in Nat, NEW r \in 1 .. 4
  PROVE  Sec \in Nat /\ Field(r, Sec) \in Nat /\ utils_bcd2dec(RTC(r)) = Field(r, Sec)
  <1> USE Radices
  <1> DEFINE q1 == Sec \div SECS
             q2 == q1 \div MINS
             q3 == q2 \div HOURS
  <1>1. Sec \in Nat
    <2>1. DividesInto(now, TPS)
      BY Quotient
    <2> QED BY <2>1 DEF Sec, DividesInto
  <1>2. q1 \in Nat /\ Sec % SECS \in Nat
    <2>1. DividesInto(Sec, SECS)
      BY <1>1, Quotient
    <2> QED BY <2>1 DEF DividesInto
  <1>3. q2 \in Nat /\ q1 % MINS \in Nat
    <2>1. DividesInto(q1, MINS)
      BY <1>2, Quotient
    <2> QED BY <2>1 DEF DividesInto
  <1>4. q3 \in Nat /\ q2 % HOURS \in Nat
    <2>1. DividesInto(q2, HOURS)
      BY <1>3, Quotient
    <2> QED BY <2>1 DEF DividesInto
  <1>5. TPS * SECS \in Nat \ {0} /\ now \div (TPS * SECS) = q1
    <2>1. TwoDivisions(now, TPS, SECS)
      BY DivDiv
    <2> QED BY <2>1 DEF Sec, TwoDivisions
  <1>6. TPS * SECS * MINS \in Nat \ {0} /\ now \div (TPS * SECS * MINS) = q2
    <2> DEFINE b == TPS * SECS
    <2>1. b \in Nat \ {0} /\ now \div b = q1
      BY <1>5
    <2> HIDE DEF b, q1
    <2>2. TwoDivisions(now, b, MINS)
      BY <2>1, DivDiv
    <2> QED BY <2>1, <2>2 DEF b, TwoDivisions
  <1>7. now \div DayTicks = q3
    <2> DEFINE b == TPS * SECS * MINS
    <2>1. b \in Nat \ {0} /\ now \div b = q2
      BY <1>6
    <2> HIDE DEF b, q2
    <2>2. TwoDivisions(now, b, HOURS)
      BY <2>1, DivDiv
    <2> QED BY <2>1, <2>2 DEF b, DayTicks, TwoDivisions
  <1>8. CASE r = 1
    <2>1. RTC(r) = Bcd(Sec % SECS) /\ Field(r, Sec) = Sec % SECS
      BY <1>8 DEF RTC, Field, Sec
    <2> QED BY <1>1, <1>2, <2>1, BcdBack
  <1>9. CASE r = 2
    <2>1. RTC(r) = Bcd(q1 % MINS) /\ Field(r, Sec) = q1 % MINS
      BY <1>5, <1>9 DEF RTC, Field
    <2> QED BY <1>1, <1>3, <2>1, BcdBack
  <1>10. CASE r = 3
    <2>1. RTC(r) = Bcd(q2 % HOURS) /\ Field(r, Sec) = q2 % HOURS
      BY <1>6, <1>10 DEF RTC, Field
    <2> QED BY <1>1, <1>4, <2>1, BcdBack
  <1>11. CASE r = 4
    <2>1. RTC(r) = Bcd(1 + q3) /\ Field(r, Sec) = 1 + q3
      BY <1>7, <1>11 DEF RTC, Field
    <2>2. 1 + q3 \in Nat
      BY <1>4
    <2> QED BY <1>1, <2>1, <2>2, BcdBack
  <1> QED BY <1>8, <1>9, <1>10, <1>11

\* A date read within one second is worth that second, and a day.
LEMMA DateIs ==
  ASSUME NEW s \in Nat
  PROVE  Seconds(<<Field(1, s), Field(2, s), Field(3, s), Field(4, s)>>) = SecsADay + s
  <1> USE Radices
  <1> DEFINE q1 == s \div SECS
             q2 == q1 \div MINS
             q3 == q2 \div HOURS
             r1 == s % SECS
             r2 == q1 % MINS
             r3 == q2 % HOURS
  <1>1. q1 \in Nat /\ r1 \in Nat /\ s = SECS * q1 + r1
    <2>1. DividesInto(s, SECS)
      BY Quotient
    <2> QED BY <2>1 DEF DividesInto
  <1>2. q2 \in Nat /\ r2 \in Nat /\ q1 = MINS * q2 + r2
    <2>1. DividesInto(q1, MINS)
      BY <1>1, Quotient
    <2> QED BY <2>1 DEF DividesInto
  <1>3. q3 \in Nat /\ r3 \in Nat /\ q2 = HOURS * q3 + r3
    <2>1. DividesInto(q2, HOURS)
      BY <1>2, Quotient
    <2> QED BY <2>1 DEF DividesInto
  <1>4. Field(1, s) = r1 /\ Field(2, s) = r2 /\ Field(3, s) = r3 /\ Field(4, s) = 1 + q3
    BY DEF Field
  <1> HIDE DEF q1, q2, q3, r1, r2, r3
  <1>5. s = SECS * (MINS * (HOURS * q3 + r3) + r2) + r1
    BY <1>1, <1>2, <1>3
  <1>6. s = q3 * HOURS * MINS * SECS + r3 * MINS * SECS + r2 * SECS + r1
    BY <1>1, <1>2, <1>3, <1>5
  <1>7. (1 + q3) * HOURS * MINS * SECS = HOURS * MINS * SECS + q3 * HOURS * MINS * SECS
    BY <1>3
  <1>8. Seconds(<<r1, r2, r3, 1 + q3>>)
          = (1 + q3) * HOURS * MINS * SECS + r3 * MINS * SECS + r2 * SECS + r1
    BY DEF Seconds
  <1>9. /\ q3 * HOURS * MINS * SECS \in Int /\ r3 * MINS * SECS \in Int /\ r2 * SECS \in Int
        /\ HOURS * MINS * SECS \in Int
    BY <1>1, <1>2, <1>3
  <1> DEFINE A == q3 * HOURS * MINS * SECS
             B == r3 * MINS * SECS
             C == r2 * SECS
             D == HOURS * MINS * SECS
             E == (1 + q3) * HOURS * MINS * SECS
  <1>10. /\ A \in Int /\ B \in Int /\ C \in Int /\ D \in Int
         /\ s = A + B + C + r1 /\ E = D + A
         /\ Seconds(<<r1, r2, r3, 1 + q3>>) = E + B + C + r1
    BY <1>6, <1>7, <1>8, <1>9
  <1> HIDE DEF A, B, C, D, E
  <1>11. Seconds(<<r1, r2, r3, 1 + q3>>) = D + s
    BY <1>1, <1>10
  <1> QED BY <1>4, <1>11 DEF D, SecsADay


\* The tick within the second, and the second of the month.
LEMMA NowIs ==
  ASSUME now \in Nat
  PROVE  Sec \in Nat /\ Off \in 0 .. TPS - 1 /\ now = TPS * Sec + Off
  <1>1. DividesInto(now, TPS)
    BY Radices, Quotient
  <1> QED BY <1>1 DEF DividesInto, Sec, Off

\* A tick goes on in the second, begins the next one, or ends the month.
TickOn == Off + 1 < TPS /\ Sec' = Sec /\ Off' = Off + 1
TickOver == Off + 1 = TPS /\ Sec' = Sec + 1 /\ Off' = 0
TickEnds == Off + 1 = TPS /\ now' = 0

LEMMA SplitIs ==
  ASSUME NEW n \in Nat, NEW q \in Nat, NEW o \in 0 .. TPS - 1, n = TPS * q + o
  PROVE  n \div TPS = q /\ n % TPS = o
  <1>0. TPS \in Nat \ {0}
    BY Radices
  <1>1. n \div TPS = q
    BY <1>0, QuotientIs
  <1>2. DividesInto(n, TPS)
    BY <1>0, Quotient
  <1>3. n = TPS * q + (n % TPS) /\ n % TPS \in 0 .. TPS - 1
    BY <1>1, <1>2 DEF DividesInto
  <1> DEFINE p == TPS * q
             r == n % TPS
  <1>4. p \in Nat /\ n = p + r /\ n = p + o /\ r \in Int /\ o \in Int
    BY <1>0, <1>3
  <1> HIDE DEF p, r
  <1>5. r = o
    BY <1>4
  <1> QED BY <1>1, <1>5 DEF r

LEMMA MonthIs == \E k \in Nat : Month = TPS * k + TPS
  <1>1. /\ TPS \in Nat \ {0} /\ SECS \in Nat \ {0} /\ MINS \in Nat \ {0}
        /\ HOURS \in Nat \ {0} /\ DAYS \in Nat \ {0}
    BY ClockAssumption
  <1> DEFINE m == SECS * MINS * HOURS * DAYS
  <1>2. \A a, b \in Nat \ {0} : a * b \in Nat \ {0}
    OBVIOUS
  <1>3. SECS * MINS \in Nat \ {0}
    BY <1>1, <1>2
  <1>4. SECS * MINS * HOURS \in Nat \ {0}
    BY <1>1, <1>2, <1>3
  <1>5. m \in Nat \ {0}
    BY <1>1, <1>2, <1>4
  <1>6. Month = TPS * m
    BY <1>1 DEF Month, DayTicks
  <1> HIDE DEF m
  <1>7. m - 1 \in Nat /\ TPS * m = TPS * (m - 1) + TPS
    BY <1>1, <1>5
  <1> QED BY <1>6, <1>7

LEMMA TickTime ==
  ASSUME now \in 0 .. Month - 1, now' = (now + 1) % Month
  PROVE  now' \in 0 .. Month - 1 /\ (TickOn \/ TickOver \/ TickEnds)
  <1>1. TPS \in Nat \ {0} /\ Month \in Nat \ {0} /\ now \in Nat
    BY Radices
  <1>2. Sec \in Nat /\ Off \in 0 .. TPS - 1 /\ now = TPS * Sec + Off
    BY <1>1, NowIs
  <1>3. CASE now + 1 = Month
    <2>1. now' = 0
      BY <1>1, <1>3
    <2>2. PICK k \in Nat : Month = TPS * k + TPS
      BY MonthIs
    <2>3. now = TPS * k + (TPS - 1) /\ TPS - 1 \in 0 .. TPS - 1
      <3> DEFINE p == TPS * k
      <3>1. p \in Nat /\ Month = p + TPS
        BY <1>1, <2>2
      <3> HIDE DEF p
      <3>2. now = p + (TPS - 1)
        BY <1>1, <1>3, <3>1
      <3> QED BY <1>1, <3>2 DEF p
    <2>4. now % TPS = TPS - 1
      BY <1>1, <2>3, SplitIs
    <2>5. Off + 1 = TPS
      BY <1>1, <2>4 DEF Off
    <2> QED BY <1>1, <2>1, <2>5 DEF TickEnds
  <1>4. CASE now + 1 < Month
    <2>1. now' = now + 1
      BY <1>1, <1>4
    <2>2. CASE Off + 1 < TPS
      <3>1. now' = TPS * Sec + (Off + 1) /\ Off + 1 \in 0 .. TPS - 1
        BY <1>1, <1>2, <2>1, <2>2
      <3>2. now' \div TPS = Sec /\ now' % TPS = Off + 1
        BY <1>1, <1>2, <2>1, <3>1, SplitIs
      <3> QED BY <1>1, <1>4, <2>1, <2>2, <3>2 DEF TickOn, Sec, Off
    <2>3. CASE Off + 1 = TPS
      <3>1. now' = TPS * (Sec + 1) + 0 /\ 0 \in 0 .. TPS - 1
        BY <1>1, <1>2, <2>1, <2>3
      <3>2. now' \div TPS = Sec + 1 /\ now' % TPS = 0
        BY <1>1, <1>2, <2>1, <3>1, SplitIs
      <3> QED BY <1>1, <1>4, <2>1, <2>3, <3>2 DEF TickOver, Sec, Off
    <2> QED BY <1>1, <1>2, <2>2, <2>3
  <1> QED BY <1>1, <1>3, <1>4

\* Time goes on: a second that ends while the date is read tears it; one that
\* ends while the stamp is taken does not, as that is soon after another.
LEMMA TimeKeeps == ASSUME TPS > 2, CalibrationInv, Time PROVE CalibrationInv'
  <1>1. /\ ~ ticked /\ ticked' = TRUE /\ now' = (now + 1) % Month
        /\ counter' = IF counter < CounterBound THEN counter + 1 ELSE counter
        /\ monthEnded' = (monthEnded \/ (now' = 0 /\ Asleep))
        /\ UNCHANGED <<clk, regs, targetTime, frequency, pc>>
        /\ pc \in {"first", "second"}
    BY DEF Time, Tick
  <1>2. ClockTypes /\ TPS \in Nat \ {0} /\ SecsADay \in Nat
    BY Radices DEF CalibrationInv
  <1>3. now \in Nat /\ now \in 0 .. Month - 1 /\ counter \in Nat /\ targetTime \in Int
    BY <1>2, Radices DEF ClockTypes
  <1>4. now' \in 0 .. Month - 1 /\ (TickOn \/ TickOver \/ TickEnds)
    BY <1>1, <1>3, TickTime
  <1>5. Sec \in Nat /\ Off \in 0 .. TPS - 1
    BY <1>3, NowIs
  <1>6. CounterBound \in Nat /\ CounterBound >= 3 * TPS
    <2>1. SECS \in Nat /\ SECS >= 1 /\ TPS \in Nat
      BY Radices
    <2>2. PICK w \in Nat : SECS = 1 + w
      <3>1. SECS - 1 \in Nat /\ SECS = 1 + (SECS - 1)
        BY <2>1
      <3> QED BY <3>1
    <2>3. 3 * TPS * SECS = 3 * TPS + 3 * TPS * w /\ 3 * TPS * w \in Nat
      BY <2>1, <2>2
    <2> QED BY <2>1, <2>3 DEF CounterBound
  <1>7. counter' \in Nat
    BY <1>1, <1>3, <1>6
  <1>8. ClockTypes'
    BY <1>1, <1>2, <1>4, <1>7 DEF ClockTypes, Asleep
  <1>9. ASSUME ~ monthEnded'
        PROVE  (Torn \/ Exact)' /\ Prompt' /\ Stamped' /\ CalibrationExact'
    <2>1. ~ monthEnded /\ (TickEnds => ~ Asleep)
      BY <1>1, <1>9 DEF TickEnds
    <2>2. (Torn \/ Exact) /\ Prompt /\ Stamped /\ CalibrationExact
      BY <2>1 DEF CalibrationInv
    <2>3. Exact
      BY <1>1, <2>2 DEF Torn
    <2>4. clk = "returned" => Off <= 1
      BY <1>1, <2>2 DEF Prompt, JustAfter
    <2>5. clk \in {"start", "poll", "returned"}
      BY <1>1, <1>2 DEF ClockTypes
    <2>6. TickOn \/ (TickOver /\ clk # "returned")
      BY <1>2, <1>4, <1>5, <2>1, <2>4, <2>5 DEF TickEnds, TickOver, Asleep
    <2>7. CalibrationExact'
      BY <1>1, <1>9, <2>1, <2>2 DEF CalibrationExact, Unset
    <2>8. CASE TickOn
      <3>1. Off + 1 < TPS /\ Sec' = Sec /\ Off' = Off + 1
        BY <2>8 DEF TickOn
      <3>2. Exact'
        BY <1>1, <2>3, <3>1 DEF Exact
      <3>3. Prompt'
        BY <1>1, <1>2, <1>3, <1>5, <2>2, <3>1 DEF Prompt, JustAfter
      <3>4. Stamped'
        <4>1. ASSUME NEW t \in 0 .. 2 * TPS, Since(t), t < 2 * TPS
              PROVE  counter' = counter + 1 /\ t + 1 - 2 <= counter' /\ counter' <= t + 1
          BY <1>1, <1>2, <1>3, <1>6, <4>1 DEF Since
        <4>2. ASSUME pc = "second", clk = "start"
              PROVE  JustAfter' /\ Since(Off)'
          <5>1. JustAfter /\ Since(Off)
            BY <2>2, <4>2 DEF Stamped
          <5>2. Off \in 0 .. 2 * TPS /\ Off < 2 * TPS
            BY <1>2, <1>5
          <5>3. counter' = counter + 1 /\ Off + 1 - 2 <= counter' /\ counter' <= Off + 1
            BY <4>1, <5>1, <5>2
          <5> QED BY <1>1, <1>2, <1>3, <1>5, <3>1, <5>1, <5>3 DEF JustAfter, Since
        <4>3. ASSUME pc = "second", clk = "poll"
              PROVE  \/ (SecsADay + Sec = targetTime - 1 /\ Since(Off) /\ (ticked => Off >= 1))'
                     \/ (SecsADay + Sec = targetTime /\ Since(TPS + Off) /\ Off <= (IF ticked THEN 1 ELSE 0))'
          <5>1. CASE SecsADay + Sec = targetTime - 1 /\ Since(Off)
            <6>1. Off \in 0 .. 2 * TPS /\ Off < 2 * TPS
              BY <1>2, <1>5
            <6>2. counter' = counter + 1 /\ Off + 1 - 2 <= counter' /\ counter' <= Off + 1
              BY <4>1, <5>1, <6>1
            <6> QED BY <1>1, <1>2, <1>3, <1>5, <3>1, <5>1, <6>2 DEF Since
          <5>2. CASE SecsADay + Sec = targetTime /\ Since(TPS + Off) /\ Off <= 0
            <6>1. TPS + Off \in 0 .. 2 * TPS /\ TPS + Off < 2 * TPS
              BY <1>2, <1>5
            <6>2. counter' = counter + 1 /\ TPS + Off + 1 - 2 <= counter' /\ counter' <= TPS + Off + 1
              BY <4>1, <5>2, <6>1
            <6> QED BY <1>1, <1>2, <1>3, <1>5, <3>1, <5>2, <6>2 DEF Since
          <5> QED BY <1>1, <2>2, <4>3, <5>1, <5>2 DEF Stamped
        <4>4. ASSUME pc = "second", clk = "returned"
              PROVE  Since(TPS + Off)'
          <5>1. Since(TPS + Off)
            BY <2>2, <4>4 DEF Stamped
          <5>2. TPS + Off \in 0 .. 2 * TPS /\ TPS + Off < 2 * TPS
            BY <1>2, <1>5
          <5>3. counter' = counter + 1 /\ TPS + Off + 1 - 2 <= counter' /\ counter' <= TPS + Off + 1
            BY <4>1, <5>1, <5>2
          <5> QED BY <1>2, <1>3, <1>5, <3>1, <5>3 DEF Since
        <4> QED BY <1>1, <4>2, <4>3, <4>4 DEF Stamped
      <3> QED BY <2>7, <3>2, <3>3, <3>4
    <2>9. CASE TickOver /\ clk # "returned"
      <3>1. Off + 1 = TPS /\ Sec' = Sec + 1 /\ Off' = 0
        BY <2>9 DEF TickOver
      <3>2. Torn'
        BY <1>1, <3>1 DEF Torn
      <3>3. Prompt'
        BY <1>1, <2>9, <3>1 DEF Prompt
      <3>4. Stamped'
        <4>1. ASSUME pc = "second" PROVE clk # "start"
          BY <1>1, <1>2, <1>5, <2>2, <3>1, <4>1 DEF Stamped, JustAfter
        <4>2. ASSUME pc = "second", clk = "poll"
              PROVE  (SecsADay + Sec = targetTime /\ Since(TPS + Off) /\ Off <= (IF ticked THEN 1 ELSE 0))'
          <5>1. SecsADay + Sec = targetTime - 1 /\ Since(Off)
            BY <1>1, <1>2, <1>5, <2>2, <3>1, <4>2 DEF Stamped
          <5>2. Off - 2 <= counter /\ counter <= Off
            BY <5>1 DEF Since
          <5>3. counter' = counter + 1
            BY <1>1, <1>2, <1>3, <1>5, <1>6, <3>1, <5>2
          <5>4. TPS + Off' - 2 <= counter' /\ counter' <= TPS + Off'
            BY <1>2, <1>3, <1>5, <3>1, <5>2, <5>3
          <5>5. SecsADay + Sec' = targetTime'
            BY <1>1, <1>2, <1>3, <1>5, <3>1, <5>1
          <5>6. Off' <= (IF ticked' THEN 1 ELSE 0)
            BY <1>1, <3>1
          <5>7. Since(TPS + Off)'
            BY <1>2, <1>7, <3>1, <5>4 DEF Since
          <5> QED BY <5>5, <5>6, <5>7
        <4> QED BY <1>1, <2>9, <4>1, <4>2 DEF Stamped
      <3> QED BY <2>7, <3>2, <3>3, <3>4
    <2> QED BY <2>6, <2>8, <2>9
  <1> QED BY <1>8, <1>9 DEF CalibrationInv

\* What is read within one second is that second's date.
LEMMA ReadKeeps == ASSUME CalibrationInv, ReadRegister, UNCHANGED pc PROVE CalibrationInv'
  <1>1. /\ Asleep /\ Len(regs) < 3
        /\ regs' = Append(regs, utils_bcd2dec(RTC(Len(regs) + 1)))
        /\ UNCHANGED <<now, ticked, clk, targetTime, counter, frequency, monthEnded, pc>>
    BY DEF ReadRegister
  <1>2. ClockTypes /\ regs \in Seq(Nat) /\ Len(regs) \in Nat /\ now \in Nat
    BY Radices DEF CalibrationInv, ClockTypes
  <1> DEFINE r == Len(regs) + 1
  <1>3. r \in 1 .. 4 /\ r <= 3
    BY <1>1, <1>2
  <1>4. Sec \in Nat /\ Field(r, Sec) \in Nat /\ utils_bcd2dec(RTC(r)) = Field(r, Sec)
    BY <1>2, <1>3, RegisterIs
  <1>5. regs' = Append(regs, Field(r, Sec))
    BY <1>1, <1>4
  <1>6. regs' \in Seq(Nat) /\ Len(regs') = r
    BY <1>2, <1>4, <1>5
  <1>7. ClockTypes'
    BY <1>1, <1>2, <1>3, <1>6 DEF ClockTypes, Asleep
  <1>8. Sec' = Sec /\ Off' = Off
    BY <1>1 DEF Sec, Off
  <1>9. Exact => Exact'
    <2> SUFFICES ASSUME Exact, NEW i \in 1 .. Len(regs') PROVE regs'[i] = Field(i, Sec')
      BY <1>8 DEF Exact
    <2>1. CASE i = r
      BY <1>2, <1>5, <1>8, <2>1
    <2>2. CASE i \in 1 .. Len(regs)
      BY <1>2, <1>5, <1>8, <2>2 DEF Exact
    <2> QED BY <1>2, <1>6, <2>1, <2>2
  <1>10. (Torn => Torn') /\ (Prompt => Prompt') /\ (Stamped => Stamped') /\ (CalibrationExact => CalibrationExact')
    BY <1>1, <1>8 DEF Torn, Prompt, JustAfter, Stamped, Since, CalibrationExact, Unset
  <1> QED BY <1>1, <1>7, <1>9, <1>10 DEF CalibrationInv

LEMMA Elements == ASSUME NEW s \in Seq(Nat) PROVE \A i \in 1 .. Len(s) : s[i] \in Nat
  OBVIOUS

LEMMA OneMore ==
  ASSUME NEW s \in Seq(Nat), NEW e \in Nat
  PROVE  /\ Append(s, e) \in Seq(Nat) /\ Len(Append(s, e)) = Len(s) + 1
         /\ Append(s, e)[Len(s) + 1] = e
         /\ \A i \in 1 .. Len(s) : Append(s, e)[i] = s[i]
  OBVIOUS

LEMMA Fourth ==
  ASSUME NEW s \in Seq(Nat), Len(s) = 3, NEW e \in Nat
  PROVE  /\ Append(s, e) \in Seq(Nat) /\ Len(Append(s, e)) = 4 /\ Append(s, e)[4] = e
         /\ \A i \in 1 .. 3 : Append(s, e)[i] = s[i]
  <1>1. /\ Append(s, e) \in Seq(Nat) /\ Len(Append(s, e)) = Len(s) + 1
        /\ Append(s, e)[Len(s) + 1] = e
        /\ \A i \in 1 .. Len(s) : Append(s, e)[i] = s[i]
    BY OneMore, Zenon
  <1>2. Len(s) + 1 = 4
    OBVIOUS
  <1>3. Append(s, e)[4] = e /\ Len(Append(s, e)) = 4
    BY <1>1, <1>2, Zenon
  <1>4. \A i \in 1 .. 3 : Append(s, e)[i] = s[i]
    BY <1>1, Zenon
  <1> QED BY <1>1, <1>3, <1>4, Zenon

\* A target is set and reached by dates that are not torn, or at the very tick
\* that tore them.
LEMMA UseDateKeeps == ASSUME CalibrationInv, UseDate(1), UNCHANGED pc PROVE CalibrationInv'
  <1> DEFINE d == Append(regs, utils_bcd2dec(RTC(4)))
             t == Seconds(d)
  <1>1. /\ Asleep /\ Len(regs) = 3
        /\ regs' = <<>> /\ ticked' = FALSE
        /\ UNCHANGED <<now, counter, frequency, monthEnded, pc>>
    BY DEF UseDate
  <1>2. \/ clk = "start" /\ clk' = "poll" /\ targetTime' = t + 1
        \/ clk = "poll" /\ t >= targetTime /\ clk' = "returned" /\ UNCHANGED targetTime
        \/ clk = "poll" /\ ~ (t >= targetTime) /\ clk' = "poll" /\ UNCHANGED targetTime
    BY DEF UseDate, Asleep
  <1>3. /\ ClockTypes /\ regs \in Seq(Nat) /\ now \in Nat /\ targetTime \in Int
        /\ counter \in Nat /\ TPS \in Nat \ {0} /\ SecsADay \in Nat
        /\ ticked \in BOOLEAN /\ pc \in {"first", "second"}
    BY <1>1, Radices DEF CalibrationInv, ClockTypes, Asleep
  <1>4. Sec \in Nat /\ Off \in 0 .. TPS - 1 /\ Sec' = Sec /\ Off' = Off
    BY <1>1, <1>3, NowIs DEF Sec, Off
  <1>5. utils_bcd2dec(RTC(4)) = Field(4, Sec) /\ Field(4, Sec) \in Nat
    BY <1>3, RegisterIs
  <1>6. d \in Seq(Nat) /\ Len(d) = 4 /\ d[4] = Field(4, Sec) /\ \A i \in 1 .. 3 : d[i] = regs[i]
    <2> DEFINE x == utils_bcd2dec(RTC(4))
    <2>1. x \in Nat
      BY <1>5
    <2> HIDE DEF x
    <2>2. Append(regs, x) \in Seq(Nat) /\ Len(Append(regs, x)) = 4 /\ Append(regs, x)[4] = x
      BY <1>1, <1>3, <2>1, Fourth
    <2>3. ASSUME NEW i \in 1 .. 3 PROVE Append(regs, x)[i] = regs[i]
      BY <1>1, <1>3, <2>1, Fourth
    <2> QED BY <1>5, <2>2, <2>3 DEF x
  <1>7. t \in Int
    <2> HIDE DEF d
    <2>1. d[1] \in Nat /\ d[2] \in Nat /\ d[3] \in Nat /\ d[4] \in Nat
      <3>1. 1 \in 1 .. Len(d) /\ 2 \in 1 .. Len(d) /\ 3 \in 1 .. Len(d) /\ 4 \in 1 .. Len(d)
        BY <1>6
      <3>2. \A i \in 1 .. Len(d) : d[i] \in Nat
        BY <1>6, Elements
      <3> QED BY <3>1, <3>2
    <2>2. HOURS \in Nat /\ MINS \in Nat /\ SECS \in Nat
      BY Radices
    <2> QED BY <2>1, <2>2 DEF Seconds
  <1>8. Exact => t = SecsADay + Sec
    <2> SUFFICES ASSUME Exact PROVE t = SecsADay + Sec
      OBVIOUS
    <2>1. d[1] = Field(1, Sec) /\ d[2] = Field(2, Sec) /\ d[3] = Field(3, Sec) /\ d[4] = Field(4, Sec)
      BY <1>1, <1>6 DEF Exact
    <2> DEFINE f == <<Field(1, Sec), Field(2, Sec), Field(3, Sec), Field(4, Sec)>>
    <2>2. f[1] = Field(1, Sec) /\ f[2] = Field(2, Sec) /\ f[3] = Field(3, Sec) /\ f[4] = Field(4, Sec)
      OBVIOUS
    <2>3. Seconds(f) = SecsADay + Sec
      BY <1>4, DateIs
    <2> HIDE DEF d, f
    <2> QED BY <2>1, <2>2, <2>3 DEF Seconds
  <1> HIDE DEF t, d
  <1>9. ClockTypes'
    <2>1. targetTime' \in Int
      BY <1>2, <1>3, <1>7
    <2>2. regs' \in Seq(Nat) /\ Len(regs') <= 3
      BY <1>1
    <2>3. clk' \in {"poll", "returned"}
      BY <1>2
    <2> QED BY <1>1, <1>3, <2>1, <2>2, <2>3 DEF ClockTypes
  <1>10. ASSUME ~ monthEnded'
         PROVE  Exact' /\ Prompt' /\ Stamped' /\ CalibrationExact'
    <2>1. ~ monthEnded /\ (Torn \/ Exact) /\ Prompt /\ Stamped /\ CalibrationExact
      BY <1>1, <1>10 DEF CalibrationInv
    <2>2. (ticked /\ Off = 0) \/ t = SecsADay + Sec
      BY <1>8, <2>1 DEF Torn
    <2>3. Exact'
      BY <1>1 DEF Exact
    <2>4. CalibrationExact'
      BY <1>1, <2>1 DEF CalibrationExact, Unset
    <2>5. CASE clk = "start"
      <3>1. clk' = "poll" /\ targetTime' = t + 1
        BY <1>2, <2>5
      <3>2. Prompt'
        BY <1>1, <1>3, <1>4, <1>7, <2>2, <3>1 DEF Prompt
      <3>3. ASSUME pc = "second"
            PROVE  SecsADay + Sec' = targetTime' - 1 /\ Since(Off)'
        <4>1. JustAfter /\ Since(Off)
          BY <2>1, <2>5, <3>3 DEF Stamped
        <4>2. t = SecsADay + Sec
          BY <1>4, <2>2, <4>1 DEF JustAfter
        <4> QED BY <1>1, <1>3, <1>4, <3>1, <4>1, <4>2 DEF Since
      <3>4. Stamped'
        BY <1>1, <3>1, <3>3 DEF Stamped
      <3> QED BY <2>3, <2>4, <3>2, <3>4
    <2>6. CASE clk = "poll" /\ t >= targetTime
      <3>1. clk' = "returned" /\ UNCHANGED targetTime
        BY <1>2, <2>6
      <3>2. Off <= 1
        BY <1>3, <1>4, <1>7, <2>1, <2>2, <2>6 DEF Prompt
      <3>3. Prompt'
        BY <1>1, <1>4, <3>1, <3>2 DEF Prompt, JustAfter
      <3>4. ASSUME pc = "second" PROVE Since(TPS + Off)
        BY <1>3, <1>4, <1>7, <2>1, <2>2, <2>6, <3>4 DEF Stamped
      <3>5. Stamped'
        BY <1>1, <1>4, <3>1, <3>4 DEF Stamped, Since
      <3> QED BY <2>3, <2>4, <3>3, <3>5
    <2>7. CASE clk = "poll" /\ ~ (t >= targetTime)
      <3>1. clk' = "poll" /\ UNCHANGED targetTime
        BY <1>2, <2>7
      <3>2. SecsADay + Sec < targetTime \/ Off = 0
        BY <1>3, <1>4, <1>7, <2>2, <2>7
      <3>3. Prompt'
        BY <1>1, <1>4, <3>1, <3>2 DEF Prompt
      <3>4. ASSUME pc = "second"
            PROVE  \/ SecsADay + Sec = targetTime - 1 /\ Since(Off)
                   \/ SecsADay + Sec = targetTime /\ Since(TPS + Off) /\ Off <= 0
        BY <1>3, <1>4, <1>7, <2>1, <2>2, <2>7, <3>4 DEF Stamped
      <3>5. Stamped'
        BY <1>1, <1>4, <3>1, <3>4 DEF Stamped, Since
      <3> QED BY <2>3, <2>4, <3>3, <3>5
    <2> QED BY <1>2, <2>5, <2>6, <2>7
  <1> QED BY <1>9, <1>10 DEF CalibrationInv

\* Steps that leave the clock alone and are not part of the measurement.
LEMMA ClockIdle ==
  ASSUME CalibrationInv, UNCHANGED clockvars,
         pc' = pc \/ (pc \notin {"first", "second"} /\ pc' \notin {"first", "second"})
  PROVE  CalibrationInv'
  <1>1. /\ UNCHANGED <<now, ticked, clk, regs, targetTime, counter, frequency, monthEnded>>
        /\ Sec' = Sec /\ Off' = Off
    BY DEF clockvars, Sec, Off
  <1>2. ClockTypes => ClockTypes'
    BY <1>1 DEF ClockTypes, Asleep
  <1>3. (Torn => Torn') /\ (Exact => Exact')
    BY <1>1 DEF Torn, Exact
  <1>4. (Prompt => Prompt') /\ (CalibrationExact => CalibrationExact')
    BY <1>1 DEF Prompt, JustAfter, CalibrationExact, Unset
  <1>5. Stamped => Stamped'
    BY <1>1 DEF Stamped, JustAfter, Since
  <1> QED BY <1>1, <1>2, <1>3, <1>4, <1>5 DEF CalibrationInv

LEMMA CalibrateKeeps == ASSUME CalibrationInv, Calibrate PROVE CalibrationInv'
  <1>1. ClockTypes /\ now \in Nat /\ TPS \in Nat \ {0} /\ counter \in Nat
    BY Radices DEF CalibrationInv, ClockTypes
  <1>2. Off \in 0 .. TPS - 1
    BY <1>1, NowIs
  <1>3. CASE pc = "cpu" /\ Sleep /\ UNCHANGED counter /\ pc' = "first"
    <2>1. /\ ~ Asleep /\ regs = <<>> /\ clk' = "start"
          /\ UNCHANGED <<now, ticked, regs, targetTime, counter, frequency, monthEnded>>
      BY <1>1, <1>3 DEF Sleep, ClockTypes
    <2>2. ClockTypes'
      BY <1>1, <1>3, <2>1 DEF ClockTypes, Asleep
    <2>3. Exact'
      BY <2>1 DEF Exact
    <2>4. Prompt' /\ Stamped'
      BY <1>3, <2>1 DEF Prompt, Stamped
    <2>5. CalibrationExact => CalibrationExact'
      BY <2>1 DEF CalibrationExact, Unset
    <2> QED BY <2>1, <2>2, <2>3, <2>4, <2>5 DEF CalibrationInv
  <1>4. CASE pc = "cpu" /\ pc' = "field" /\ UNCHANGED clockvars
    BY <1>4, ClockIdle
  <1>5. CASE pc = "first" /\ clk = "returned" /\ StampAndSleep /\ pc' = "second"
    <2>1. /\ ~ Asleep /\ regs = <<>> /\ clk' = "start" /\ counter' = 0
          /\ UNCHANGED <<now, ticked, regs, targetTime, frequency, monthEnded>>
      BY <1>1, <1>5 DEF StampAndSleep, Sleep, ClockTypes
    <2>2. ClockTypes'
      BY <1>1, <1>5, <2>1 DEF ClockTypes, Asleep
    <2>3. Exact' /\ Off' = Off
      BY <2>1 DEF Exact, Off
    <2>4. Prompt'
      BY <2>1 DEF Prompt
    <2>5. ASSUME ~ monthEnded PROVE Stamped' /\ CalibrationExact'
      <3>1. JustAfter /\ CalibrationExact
        BY <1>5, <2>5 DEF CalibrationInv, Prompt
      <3>2. JustAfter' /\ Since(Off)'
        BY <1>1, <1>2, <2>1, <2>3, <3>1 DEF JustAfter, Since
      <3>3. CalibrationExact'
        BY <2>1, <3>1 DEF CalibrationExact, Unset
      <3> QED BY <2>1, <3>2, <3>3 DEF Stamped
    <2> QED BY <2>1, <2>2, <2>3, <2>4, <2>5 DEF CalibrationInv
  <1>6. CASE pc = "second" /\ Measured /\ pc' = "field"
    <2>1. /\ clk = "returned" /\ clk' = "awake" /\ frequency' = counter
          /\ UNCHANGED <<now, ticked, regs, targetTime, counter, monthEnded>>
      BY <1>6 DEF Measured
    <2>2. regs = <<>>
      BY <1>1, <2>1 DEF ClockTypes, Asleep
    <2>3. ClockTypes'
      BY <1>1, <1>6, <2>1 DEF ClockTypes, Asleep
    <2>4. Exact'
      BY <2>1, <2>2 DEF Exact
    <2>5. Prompt' /\ Stamped'
      BY <1>6, <2>1 DEF Prompt, Stamped
    <2>6. ASSUME ~ monthEnded PROVE CalibrationExact'
      <3>1. JustAfter /\ Since(TPS + Off)
        BY <1>6, <2>1, <2>6 DEF CalibrationInv, Prompt, Stamped
      <3>2. Off <= 2
        BY <1>2, <3>1 DEF JustAfter
      <3>3. counter \in TPS - 2 .. TPS + 2
        BY <1>1, <1>2, <3>1, <3>2 DEF Since
      <3> QED BY <2>1, <3>3 DEF CalibrationExact
    <2> QED BY <2>1, <2>3, <2>4, <2>5, <2>6 DEF CalibrationInv
  <1> QED BY <1>3, <1>4, <1>5, <1>6 DEF Calibrate, Go

LEMMA CalibrationStep == ASSUME TPS > 2, CalibrationInv, [BootNext]_bootvars PROVE CalibrationInv'
  <1>1. CASE Time
    BY <1>1, TimeKeeps
  <1>2. CASE Calibrate
    BY <1>2, CalibrateKeeps
  <1>3. CASE Sleeping
    BY <1>3, ReadKeeps, UseDateKeeps DEF Sleeping, SleepStep
  <1>4. CASE Checks
    BY <1>4, ClockIdle DEF Checks, Go
  <1>5. CASE FindField
    BY <1>5, ClockIdle DEF FindField, Go
  <1>6. CASE LoadModule
    BY <1>6, ClockIdle DEF LoadModule, Go
  <1>7. CASE interrupts_init
    BY <1>7, ClockIdle DEF interrupts_init, Go
  <1>8. CASE OtherInits
    BY <1>8, ClockIdle DEF OtherInits, Go
  <1>9. CASE syscall_init
    BY <1>9, ClockIdle DEF syscall_init, Go
  <1>10. CASE acpi_init
    BY <1>10, ClockIdle DEF acpi_init, Go
  <1>11. CASE Activate
    BY <1>11, ClockIdle DEF Activate, Go
  <1>12. CASE FindMCFG
    BY <1>12, ClockIdle DEF FindMCFG, Go
  <1>13. CASE devbus_init
    BY <1>13, ClockIdle DEF devbus_init, Go
  <1>14. CASE NextDevice
    BY <1>14, ClockIdle DEF NextDevice, Go
  <1>15. CASE WaitReady
    BY <1>15, ClockIdle DEF WaitReady, Go
  <1>16. CASE Allocate
    BY <1>16, ClockIdle DEF Allocate, Go
  <1>17. CASE Run
    BY <1>17, ClockIdle DEF Run, Go
  <1>18. CASE HCReset
    BY <1>18, ClockIdle DEF HCReset, Go
  <1>19. CASE FreeRegions
    BY <1>19, ClockIdle DEF FreeRegions, Go
  <1>20. CASE usb_portInit
    BY <1>20, ClockIdle DEF usb_portInit, Go
  <1>21. CASE KernelMain
    BY <1>21, ClockIdle DEF KernelMain, Go
  <1>22. CASE ControllerReady
    BY <1>22, ClockIdle DEF ControllerReady
  <1>90. CASE ResetDone
    BY <1>90, ClockIdle DEF ResetDone
  <1>23. CASE Interrupt
    BY <1>23, ClockIdle DEF Interrupt, Go
  <1>24. CASE SystemCall
    BY <1>24, ClockIdle DEF SystemCall, Go
  <1>25. CASE UNCHANGED bootvars
    BY <1>25, ClockIdle DEF bootvars
  <1>26. CASE Halt
    BY <1>25, <1>26 DEF Halt
  <1> QED
    BY <1>1, <1>2, <1>3, <1>4, <1>5, <1>6, <1>7, <1>8, <1>9, <1>10, <1>11, <1>12, <1>13, <1>14, <1>15, <1>16, <1>17, <1>18, <1>19, <1>20, <1>21, <1>22, <1>23, <1>24, <1>25, <1>26, <1>90
       DEF BootNext, kernel_init

\* The frequency that kernel_init measures is that of the counter, to within
\* two ticks, whenever the kernel starts, however the polls fall, and whichever
\* register was read before a second, minute, hour or day ended and whichever
\* after it: the torn date is compared at that very tick only (kernel.c,
\* "Calculate frequency").  A second has more than two ticks.
THEOREM CalibrationAlwaysExact == ASSUME TPS > 2 PROVE BootSpec => []CalibrationExact
  <1>1. BootInit => CalibrationInv
    <2> SUFFICES ASSUME BootInit PROVE CalibrationInv
      OBVIOUS
    <2>1. /\ now \in Starts /\ ticked = FALSE /\ clk = "awake" /\ regs = <<>> /\ targetTime = 0
          /\ counter = 0 /\ frequency = Unset /\ monthEnded = FALSE /\ pc = "checks"
      BY DEF BootInit, ClockInit
    <2>2. ClockTypes
      <3>1. now \in 0 .. Month - 1
        BY <2>1, ClockAssumption
      <3>2. regs \in Seq(Nat) /\ Len(regs) <= 3
        BY <2>1
      <3>3. targetTime \in Int /\ counter \in Nat
        BY <2>1
      <3>4. ticked \in BOOLEAN /\ monthEnded \in BOOLEAN
        BY <2>1, Zenon
      <3>5. ~ Asleep => regs = <<>>
        BY <2>1
      <3>6. pc \notin {"first", "second"} /\ clk = "awake"
        BY <2>1
      <3> QED BY <3>1, <3>2, <3>3, <3>4, <3>5, <3>6 DEF ClockTypes
    <2>3. Exact /\ Prompt /\ Stamped /\ CalibrationExact
      BY <2>1 DEF Exact, Prompt, Stamped, CalibrationExact
    <2> QED BY <2>2, <2>3 DEF CalibrationInv
  <1>2. CalibrationInv /\ [BootNext]_bootvars => CalibrationInv'
    BY CalibrationStep
  <1>3. CalibrationInv => CalibrationExact
    BY DEF CalibrationInv, CalibrationExact
  <1> QED BY <1>1, <1>2, <1>3, PTL DEF BootSpec
=============================================================================
