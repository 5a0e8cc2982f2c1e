--------------------------- MODULE MultitaskProofs ---------------------------
(***************************************************************************)
(* Theorems about multitasking, for every number of slots, every stack     *)
(* size and every set of program sizes that the pool could hold.           *)
(***************************************************************************)
EXTENDS Multitask, BlockTableProofs

(***************************************************************************)
(* The inductive invariant, over the process table, the block table and    *)
(* the blocks held for other purposes, so that it can be carried through   *)
(* the steps inside yield and exec.                                        *)
(***************************************************************************)
ProcTables ==
  [Pids -> [active : BOOLEAN, freeze : BOOLEAN, file : BOOLEAN,
            stack : Blocks \cup {NULL}, context : Contexts]]

ActiveIn(procs) == {p \in Pids : procs[p].active}

Good(procs, tab, H) ==
  /\ procs \in ProcTables
  /\ tab \in Table
  /\ TableSound(tab)
  /\ H \subseteq Blocks
  /\ \A p \in ActiveIn(procs) : /\ procs[p].stack \in Heads(tab)
                                /\ tab[procs[p].stack].count = BlocksFor(STACKSIZE)
                                /\ procs[p].stack \notin H
  /\ \A p, q \in ActiveIn(procs) : p # q => procs[p].stack # procs[q].stack
  /\ Heads(tab) = H \cup {procs[p].stack : p \in ActiveIn(procs)}
  /\ \A p \in Pids : ~ procs[p].freeze

\* The lowest slot of a nonempty set of slots.
LEMMA LeastIn ==
  ASSUME NEW S \in SUBSET Nat, S # {}
  PROVE  Least(S) \in S /\ \A y \in S : Least(S) <= y
  BY NatLeast DEF Least

LEMMA Sizes ==
  /\ BlocksFor(STACKSIZE) \in 1 .. BlockC
  /\ BlocksFor(PROCTABSIZE) \in 1 .. BlockC
  /\ \A size \in Images : BlocksFor(size) \in 1 .. BlockC
  BY DivBlocks, MultitaskAssumption

\* Taking a region for the kernel or for an image.
LEMMA HoldGood ==
  ASSUME NEW procs, NEW tab, NEW H, Good(procs, tab, H),
         NEW n \in 1 .. BlockC, NEW b \in Starts(tab, n)
  PROVE  Good(procs, Mark(tab, b, n), H \cup {b}) /\ b \notin H
  <1>1. /\ Mark(tab, b, n) \in Table
        /\ TableSound(Mark(tab, b, n))
        /\ b \in Blocks /\ b \notin Heads(tab)
        /\ Heads(Mark(tab, b, n)) = Heads(tab) \cup {b}
        /\ \A h \in Heads(tab) : Mark(tab, b, n)[h].count = tab[h].count
    BY Granted DEF Good
  <1> QED BY <1>1 DEF Good

\* Giving such a region back.
LEMMA UnholdGood ==
  ASSUME NEW procs, NEW tab, NEW H, NEW a, Good(procs, tab, H \cup {a}), a \notin H
  PROVE  Good(procs, Unmark(tab, a), H)
  <1>1. a \in Heads(tab) /\ tab \in Table /\ TableSound(tab)
    BY DEF Good
  <1>2. /\ Unmark(tab, a) \in Table
        /\ TableSound(Unmark(tab, a))
        /\ Heads(Unmark(tab, a)) = Heads(tab) \ {a}
        /\ \A i \in Heads(tab) \ {a} : Unmark(tab, a)[i].count = tab[i].count
    BY <1>1, Released
  <1> QED BY <1>2 DEF Good

\* spawn into a free slot.
LEMMA SpawnGood ==
  ASSUME NEW procs, NEW tab, NEW H, Good(procs, tab, H),
         NEW pid \in Inactive(procs), NEW b \in Starts(tab, BlocksFor(STACKSIZE)),
         NEW file \in BOOLEAN
  PROVE  Good([procs EXCEPT ![pid] = NewProc(b, file)],
              Mark(tab, b, BlocksFor(STACKSIZE)), H)
  <1> DEFINE new == [procs EXCEPT ![pid] = NewProc(b, file)]
             ntab == Mark(tab, b, BlocksFor(STACKSIZE))
  <1>1. /\ ntab \in Table
        /\ TableSound(ntab)
        /\ b \in Blocks /\ b \notin Heads(tab)
        /\ Heads(ntab) = Heads(tab) \cup {b}
        /\ ntab[b].count = BlocksFor(STACKSIZE)
        /\ \A h \in Heads(tab) : ntab[h].count = tab[h].count
    BY Granted, Sizes DEF Good
  <1>2. pid \in Pids /\ ~ procs[pid].active /\ procs \in ProcTables
    BY DEF Inactive, Good
  <1>3. NewProc(b, file) \in [active : BOOLEAN, freeze : BOOLEAN, file : BOOLEAN,
                              stack : Blocks \cup {NULL}, context : Contexts]
    <2>1. b \in Int /\ BLKSIZE \in Int /\ STACKSIZE \in Int
      BY <1>1, BlockTableAssumption, MultitaskAssumption DEF Blocks
    <2>2. StackAddr(b) + STACKSIZE \in Int
      BY <2>1 DEF StackAddr
    <2> QED BY <1>1, <2>2 DEF NewProc, Contexts, Eips
  <1>4. /\ new \in ProcTables
        /\ new[pid] = NewProc(b, file)
        /\ \A p \in Pids \ {pid} : new[p] = procs[p]
    BY <1>2, <1>3 DEF ProcTables
  <1>5. ActiveIn(new) = ActiveIn(procs) \cup {pid} /\ pid \notin ActiveIn(procs)
    BY <1>2, <1>4 DEF ActiveIn, NewProc
  <1>6. new[pid].stack = b /\ ~ new[pid].freeze
    BY <1>4 DEF NewProc
  <1>7. \A p \in ActiveIn(procs) : p \in Pids \ {pid}
    BY <1>5 DEF ActiveIn
  <1> HIDE DEF new, ntab
  <1>8. {new[p].stack : p \in ActiveIn(new)} = {procs[p].stack : p \in ActiveIn(procs)} \cup {b}
    BY <1>4, <1>5, <1>6, <1>7
  <1>9. b \notin H /\ \A p \in ActiveIn(procs) : procs[p].stack # b
    BY <1>1 DEF Good
  <1>10. \A p \in ActiveIn(new) : /\ new[p].stack \in Heads(ntab)
                                  /\ ntab[new[p].stack].count = BlocksFor(STACKSIZE)
                                  /\ new[p].stack \notin H
    BY <1>1, <1>4, <1>5, <1>6, <1>7, <1>9 DEF Good
  <1>11. \A p, q \in ActiveIn(new) : p # q => new[p].stack # new[q].stack
    BY <1>4, <1>5, <1>6, <1>7, <1>9 DEF Good
  <1>12. \A p \in Pids : ~ new[p].freeze
    BY <1>4, <1>6 DEF Good
  <1>13. Heads(ntab) = H \cup {new[p].stack : p \in ActiveIn(new)}
    BY <1>1, <1>8 DEF Good
  <1>14. H \subseteq Blocks
    BY DEF Good
  <1>15. Good(new, ntab, H)
    BY <1>1, <1>4, <1>10, <1>11, <1>12, <1>13, <1>14 DEF Good
  <1> QED BY <1>15 DEF new, ntab

\* kill of an active process.
LEMMA KillGood ==
  ASSUME NEW procs, NEW tab, NEW H, Good(procs, tab, H), NEW pid, CanKill(procs, pid)
  PROVE  Good(KilledProcs(procs, pid), KilledTable(procs, tab, pid), H)
  <1> DEFINE new == KilledProcs(procs, pid)
             s == procs[pid].stack
             ntab == Unmark(tab, s)
  <1>1. pid \in ActiveIn(procs) /\ pid \in Pids
    BY DEF CanKill, ActiveIn
  <1>2. s \in Heads(tab) /\ tab \in Table /\ TableSound(tab)
    BY <1>1 DEF Good
  <1>3. /\ ntab \in Table
        /\ TableSound(ntab)
        /\ Heads(ntab) = Heads(tab) \ {s}
        /\ \A i \in Heads(tab) \ {s} : ntab[i].count = tab[i].count
    BY <1>2, Released
  <1>4. /\ new \in ProcTables
        /\ ~ new[pid].active
        /\ ~ new[pid].freeze
        /\ \A p \in Pids \ {pid} : new[p] = procs[p]
    <2>1. procs \in ProcTables /\ ~ procs[pid].freeze
      BY <1>1 DEF Good
    <2>2. NoContext \in Contexts
      BY DEF NoContext, Contexts, Eips
    <2>3. new[pid] = [procs[pid] EXCEPT !.context = NoContext, !.active = FALSE]
      BY <1>1, <2>1 DEF KilledProcs, ProcTables
    <2>4. procs[pid] \in [active : BOOLEAN, freeze : BOOLEAN, file : BOOLEAN,
                          stack : Blocks \cup {NULL}, context : Contexts]
      BY <1>1, <2>1 DEF ProcTables
    <2>5. /\ new[pid] \in [active : BOOLEAN, freeze : BOOLEAN, file : BOOLEAN,
                           stack : Blocks \cup {NULL}, context : Contexts]
          /\ ~ new[pid].active
          /\ new[pid].freeze = procs[pid].freeze
      BY <2>2, <2>3, <2>4
    <2>6. \A p \in Pids \ {pid} : new[p] = procs[p]
      BY <1>1, <2>1 DEF KilledProcs, ProcTables
    <2>7. new \in ProcTables
      <3>1. new = [p \in Pids |-> new[p]]
        BY <1>1, <2>1 DEF KilledProcs, ProcTables
      <3> HIDE DEF new
      <3> QED BY <2>1, <2>5, <2>6, <3>1 DEF ProcTables
    <2> QED BY <2>1, <2>5, <2>6, <2>7
  <1>5. ActiveIn(new) = ActiveIn(procs) \ {pid}
    BY <1>4 DEF ActiveIn
  <1>6. \A p \in ActiveIn(new) : p \in Pids \ {pid} /\ procs[p].stack # s /\ new[p] = procs[p]
    BY <1>1, <1>4, <1>5 DEF Good, ActiveIn
  <1> HIDE DEF new, ntab
  <1>7. s \notin H
    BY <1>1 DEF Good
  <1>8. {new[p].stack : p \in ActiveIn(new)} = {procs[p].stack : p \in ActiveIn(procs)} \ {s}
    BY <1>1, <1>5, <1>6
  <1>9. Heads(ntab) = H \cup {new[p].stack : p \in ActiveIn(new)}
    BY <1>3, <1>7, <1>8 DEF Good
  <1>10. \A p \in ActiveIn(new) : /\ new[p].stack \in Heads(ntab)
                                  /\ ntab[new[p].stack].count = BlocksFor(STACKSIZE)
                                  /\ new[p].stack \notin H
    BY <1>3, <1>5, <1>6 DEF Good
  <1>11. \A p, q \in ActiveIn(new) : p # q => new[p].stack # new[q].stack
    BY <1>5, <1>6 DEF Good
  <1>12. \A p \in Pids : ~ new[p].freeze
    BY <1>4 DEF Good
  <1>13. Good(new, ntab, H)
    BY <1>3, <1>4, <1>9, <1>10, <1>11, <1>12 DEF Good
  <1> QED BY <1>13 DEF new, ntab, KilledTable

\* The sentry, and the saving of the registers.
LEMMA SentryGood ==
  ASSUME NEW procs, NEW tab, NEW H, Good(procs, tab, H), NEW pid \in 0 .. (PROCLIMIT - 1)
  PROVE  /\ Good(SentryProcs(procs, pid), SentryTable(procs, tab, pid), H)
         /\ \A p \in Pids \ {pid} : SentryProcs(procs, pid)[p] = procs[p]
         /\ pid = 0 => SentryProcs(procs, pid) = procs
         /\ ActiveIn(SentryProcs(procs, pid)) \subseteq ActiveIn(procs)
  <1>1. CASE ~ SentryFires(procs, pid)
    BY <1>1 DEF SentryProcs, SentryTable
  <1>2. CASE SentryFires(procs, pid)
    <2>1. CanKill(procs, pid) /\ pid # 0 /\ pid \in Pids
      BY <1>2, MultitaskAssumption DEF SentryFires, CanKill, Pids
    <2>2. SentryProcs(procs, pid) = KilledProcs(procs, pid)
      BY <1>2, <2>1 DEF SentryProcs
    <2>3. SentryTable(procs, tab, pid) = KilledTable(procs, tab, pid)
      BY <1>2, <2>1 DEF SentryTable
    <2>4. procs \in ProcTables
      BY DEF Good
    <2>5. \A p \in Pids \ {pid} : KilledProcs(procs, pid)[p] = procs[p]
      BY <2>1, <2>4 DEF KilledProcs, ProcTables
    <2>6. ~ KilledProcs(procs, pid)[pid].active
      BY <2>1, <2>4 DEF KilledProcs, ProcTables
    <2>7. ActiveIn(KilledProcs(procs, pid)) \subseteq ActiveIn(procs)
      BY <2>5, <2>6 DEF ActiveIn
    <2> QED BY <2>1, <2>2, <2>3, <2>5, <2>7, KillGood
  <1> QED BY <1>1, <1>2

LEMMA SaveGood ==
  ASSUME NEW procs, NEW tab, NEW H, Good(procs, tab, H), NEW pid \in Pids, NEW c \in Contexts
  PROVE  /\ Good([procs EXCEPT ![pid].context = c], tab, H)
         /\ ActiveIn([procs EXCEPT ![pid].context = c]) = ActiveIn(procs)
  <1> DEFINE new == [procs EXCEPT ![pid].context = c]
  <1>1. procs \in ProcTables
    BY DEF Good
  <1>2. new[pid] = [procs[pid] EXCEPT !.context = c]
    BY <1>1 DEF ProcTables
  <1>3. procs[pid] \in [active : BOOLEAN, freeze : BOOLEAN, file : BOOLEAN,
                        stack : Blocks \cup {NULL}, context : Contexts]
    BY <1>1 DEF ProcTables
  <1>4. /\ new[pid] \in [active : BOOLEAN, freeze : BOOLEAN, file : BOOLEAN,
                         stack : Blocks \cup {NULL}, context : Contexts]
        /\ new[pid].active = procs[pid].active
        /\ new[pid].freeze = procs[pid].freeze
        /\ new[pid].stack = procs[pid].stack
    BY <1>2, <1>3
  <1>5. \A p \in Pids \ {pid} : new[p] = procs[p]
    BY <1>1 DEF ProcTables
  <1>6. new = [p \in Pids |-> new[p]]
    BY <1>1 DEF ProcTables
  <1> HIDE DEF new
  <1>7. new \in ProcTables
    BY <1>1, <1>4, <1>5, <1>6 DEF ProcTables
  <1>8. ActiveIn(new) = ActiveIn(procs)
    BY <1>4, <1>5 DEF ActiveIn
  <1>9. \A p \in Pids : new[p].stack = procs[p].stack /\ new[p].freeze = procs[p].freeze
    BY <1>4, <1>5
  <1>10. \A p \in ActiveIn(procs) : p \in Pids
    BY DEF ActiveIn
  <1>11. {new[p].stack : p \in ActiveIn(new)} = {procs[p].stack : p \in ActiveIn(procs)}
    BY <1>8, <1>9, <1>10
  <1>12. Good(new, tab, H)
    BY <1>7, <1>8, <1>9, <1>10, <1>11 DEF Good
  <1> QED BY <1>8, <1>12 DEF new

LEMMA NextOfActive ==
  ASSUME NEW procs, NEW pid \in 0 .. (PROCLIMIT - 1)
  PROVE  \/ NextOf(procs, pid) = 0
         \/ NextOf(procs, pid) \in ActiveIn(procs) /\ NextOf(procs, pid) > pid
  <1> DEFINE above == {p \in Runnable(procs) : p > pid}
  <1>1. above \in SUBSET Nat
    BY MultitaskAssumption DEF Runnable, Pids
  <1>2. above # {} => Least(above) \in above
    BY <1>1, LeastIn
  <1> QED BY <1>2 DEF NextOf, Runnable, ActiveIn

-----------------------------------------------------------------------------

MultitaskInv ==
  /\ TypeOK
  /\ Good(multitask_ProcV, memory_BlockV, held)
  /\ ContextsIntact
  /\ kernel_pc = "multitask_init" => multitask_ProcV = [p \in Pids |-> NoProc]

\* yield, from tables that are good and whose waiting processes are intact.
LEMMA YieldKeeps ==
  ASSUME MultitaskInv, kernel_pc # "multitask_init",
         NEW procs, NEW tab, Good(procs, tab, held),
         \A p \in ActiveIn(procs) \ {multitask_Focus} : procs[p].context = left[p],
         YieldFrom(procs, tab)
  PROVE  MultitaskInv'
  <1> DEFINE old == multitask_Focus
             procs2 == SentryProcs(procs, old)
             tab2 == SentryTable(procs, tab, old)
             next == NextOf(procs2, old)
  <1>0. /\ old \in 0 .. (PROCLIMIT - 1) /\ cpu \in Contexts /\ KernelContext \in Contexts
        /\ left \in [0 .. (PROCLIMIT - 1) -> Contexts]
        /\ PROCLIMIT \in Nat \ {0, 1}
    BY MultitaskAssumption DEF MultitaskInv, TypeOK
  <1>1. /\ Good(procs2, tab2, held)
        /\ \A p \in Pids \ {old} : procs2[p] = procs[p]
        /\ old = 0 => procs2 = procs
        /\ ActiveIn(procs2) \subseteq ActiveIn(procs)
    BY <1>0, SentryGood
  <1>2. next = 0 \/ (next \in ActiveIn(procs2) /\ next > old)
    BY <1>0, NextOfActive
  <1>3. /\ memory_BlockV' = tab2 /\ held' = held /\ multitask_InStream' = TRUE
        /\ multitask_InitLock' = multitask_InitLock /\ kernel_pc' = kernel_pc
    BY DEF YieldFrom
  <1>4. \A p \in ActiveIn(procs2) \ {old} : p \in Pids \ {old} /\ procs2[p].context = left[p]
    BY <1>1 DEF ActiveIn
  <1>5. CASE next = old
    <2>1. old = 0
      BY <1>0, <1>2, <1>5
    <2>2. /\ panic' = TRUE /\ multitask_ProcV' = procs2 /\ multitask_Focus' = old
          /\ left' = left /\ cpu' = cpu /\ KernelContext' = KernelContext
      BY <1>5 DEF YieldFrom
    <2>3. Good(multitask_ProcV', memory_BlockV', held')
      BY <1>1, <1>3, <2>2
    <2>4. TypeOK'
      BY <1>3, <2>2, <2>3 DEF MultitaskInv, TypeOK, Good, ProcTables
    <2>5. ContextsIntact'
      BY <1>4, <2>1, <2>2 DEF ContextsIntact, Active, ActiveIn
    <2> QED BY <1>3, <2>3, <2>4, <2>5 DEF MultitaskInv
  <1>6. CASE next # old
    <2>1. Switch(procs2, old, next) /\ panic' = panic
      BY <1>6 DEF YieldFrom
    <2>2. /\ multitask_Focus' = next /\ left' = [left EXCEPT ![old] = cpu]
          /\ cpu' = ContextOf(procs2, next)
      BY <2>1 DEF Switch
    <2>3. next \in 0 .. (PROCLIMIT - 1) /\ (next # 0 => next \in Pids)
      BY <1>0, <1>2 DEF ActiveIn, Pids
    <2>4. procs2 \in ProcTables
      BY <1>1 DEF Good
    <2>5. cpu' \in Contexts
      BY <1>0, <2>2, <2>3, <2>4 DEF ContextOf, ProcTables
    <2>6. left' \in [0 .. (PROCLIMIT - 1) -> Contexts]
      BY <1>0, <2>2
    <2>7. CASE old = 0
      <3>1. KernelContext' = cpu /\ multitask_ProcV' = procs2
        BY <2>1, <2>7 DEF Switch
      <3>2. Good(multitask_ProcV', memory_BlockV', held')
        BY <1>1, <1>3, <3>1
      <3>3. TypeOK'
        BY <1>0, <1>3, <2>1, <2>2, <2>3, <2>5, <2>6, <3>1, <3>2
           DEF MultitaskInv, TypeOK, Good, ProcTables
      <3>4. ContextsIntact'
        <4>1. ASSUME NEW p \in ActiveIn(procs2), p # next
              PROVE  procs2[p].context = left'[p]
          BY <1>0, <1>4, <2>2, <2>7, <4>1 DEF ActiveIn, Pids
        <4>2. next # 0 => next \in ActiveIn(procs2)
          BY <1>2
        <4>3. left'[0] = cpu
          BY <1>0, <2>2, <2>7
        <4> QED BY <2>2, <3>1, <4>1, <4>2, <4>3 DEF ContextsIntact, Active, ActiveIn
      <3> QED BY <1>3, <3>2, <3>3, <3>4 DEF MultitaskInv
    <2>8. CASE old # 0
      <3> DEFINE new == [procs2 EXCEPT ![old].context = cpu]
      <3>1. KernelContext' = KernelContext /\ multitask_ProcV' = new
        BY <2>1, <2>8 DEF Switch
      <3>2. old \in Pids
        BY <1>0, <2>8 DEF Pids
      <3>3. Good(new, tab2, held) /\ ActiveIn(new) = ActiveIn(procs2)
        BY <1>0, <1>1, <3>2, SaveGood
      <3>4. /\ new[old].context = cpu
            /\ \A p \in Pids \ {old} : new[p] = procs2[p]
        BY <2>4, <3>2 DEF ProcTables
      <3> HIDE DEF new
      <3>5. TypeOK'
        BY <1>0, <1>3, <2>1, <2>2, <2>3, <2>5, <2>6, <3>1, <3>3
           DEF MultitaskInv, TypeOK, Good, ProcTables
      <3>6. ContextsIntact'
        <4>1. ASSUME NEW p \in ActiveIn(new), p # next
              PROVE  new[p].context = left'[p]
          <5>1. CASE p = old
            BY <1>0, <2>2, <3>4, <5>1
          <5>2. CASE p # old
            <6>1. p \in Pids \ {old} /\ new[p] = procs2[p] /\ procs2[p].context = left[p]
              BY <1>4, <3>3, <3>4, <5>2
            <6>2. left'[p] = left[p]
              BY <1>0, <2>2, <5>2, <6>1 DEF Pids
            <6> QED BY <6>1, <6>2
          <5> QED BY <5>1, <5>2
        <4>2. next # 0 => next \in ActiveIn(new)
          BY <1>2, <3>3
        <4>3. left'[0] = KernelContext
          <5>1. left[0] = KernelContext
            BY <2>8 DEF MultitaskInv, ContextsIntact
          <5> QED BY <1>0, <2>2, <2>8, <5>1
        <4> QED BY <2>2, <3>1, <4>1, <4>2, <4>3 DEF ContextsIntact, Active, ActiveIn
      <3> QED BY <1>3, <3>1, <3>3, <3>5, <3>6 DEF MultitaskInv
    <2> QED BY <2>7, <2>8
  <1> QED BY <1>5, <1>6

\* spawn, from a block table that is good together with the held blocks.
LEMMA SpawnKeeps ==
  ASSUME MultitaskInv, NEW tab, Good(multitask_ProcV, tab, held'),
         NEW b \in StackBases(tab), NEW file \in BOOLEAN, Spawned(tab, b, file),
         kernel_pc' \in {"exec", "loop"} \/ (kernel_pc # "multitask_init" /\ UNCHANGED kernel_pc),
         UNCHANGED <<multitask_InitLock, multitask_InStream, multitask_Focus, KernelContext,
                     cpu, panic>>
  PROVE  MultitaskInv'
  <1> DEFINE pid == Least(Inactive(multitask_ProcV))
             new == [multitask_ProcV EXCEPT ![pid] = NewProc(b, file)]
             c == [eip |-> "entry", esp |-> StackAddr(b) + STACKSIZE]
  <1>1. Inactive(multitask_ProcV) # {} /\ b \in Starts(tab, BlocksFor(STACKSIZE))
    BY DEF StackBases
  <1>2. Inactive(multitask_ProcV) \in SUBSET Nat
    BY MultitaskAssumption DEF Inactive, Pids
  <1>3. pid \in Inactive(multitask_ProcV) /\ pid \in Pids /\ ~ multitask_ProcV[pid].active
    <2>1. pid \in Inactive(multitask_ProcV)
      BY <1>1, <1>2, LeastIn
    <2> QED BY <2>1 DEF Inactive
  <1> HIDE DEF pid
  <1>4. /\ memory_BlockV' = Mark(tab, b, BlocksFor(STACKSIZE))
        /\ multitask_ProcV' = new
        /\ left' = [left EXCEPT ![pid] = c]
    BY DEF Spawned, pid
  <1>5. Good(multitask_ProcV', memory_BlockV', held')
    BY <1>1, <1>3, <1>4, SpawnGood
  <1>6. multitask_ProcV \in ProcTables /\ left \in [0 .. (PROCLIMIT - 1) -> Contexts]
    BY DEF MultitaskInv, TypeOK, ProcTables
  <1>7. /\ new[pid] = NewProc(b, file) /\ new[pid].context = c
        /\ \A p \in Pids \ {pid} : new[p] = multitask_ProcV[p]
    BY <1>3, <1>6 DEF ProcTables, NewProc
  <1>8. pid \in 0 .. (PROCLIMIT - 1)
    BY <1>3, MultitaskAssumption DEF Pids
  <1>9. c \in Contexts
    <2>1. multitask_ProcV' \in ProcTables
      BY <1>5 DEF Good
    <2> QED BY <1>3, <1>4, <1>7, <2>1 DEF ProcTables
  <1>10. /\ left' \in [0 .. (PROCLIMIT - 1) -> Contexts] /\ left'[pid] = c
         /\ \A p \in 0 .. (PROCLIMIT - 1) : p # pid => left'[p] = left[p]
    BY <1>4, <1>6, <1>8, <1>9
  <1>11. TypeOK'
    BY <1>5, <1>10 DEF MultitaskInv, TypeOK, Good, ProcTables
  <1> HIDE DEF new, c
  <1>12. ContextsIntact'
    <2>1. ASSUME NEW p \in Pids, multitask_ProcV'[p].active, p # multitask_Focus
          PROVE  multitask_ProcV'[p].context = left'[p]
      <3>1. CASE p = pid
        BY <1>4, <1>7, <1>10, <3>1
      <3>2. CASE p # pid
        <4>1. multitask_ProcV'[p] = multitask_ProcV[p] /\ left'[p] = left[p]
          BY <1>4, <1>7, <1>10, <3>2, MultitaskAssumption DEF Pids
        <4> QED BY <2>1, <4>1 DEF MultitaskInv, ContextsIntact, Active
      <3> QED BY <3>1, <3>2
    <2>2. ASSUME multitask_Focus # 0
          PROVE  /\ multitask_Focus \in Pids /\ multitask_ProcV'[multitask_Focus].active
                 /\ KernelContext = left'[0]
      <3>1. /\ multitask_Focus \in Pids /\ multitask_ProcV[multitask_Focus].active
            /\ KernelContext = left[0]
        BY <2>2 DEF MultitaskInv, ContextsIntact, Active
      <3>2. multitask_Focus # pid
        BY <1>3, <3>1
      <3>3. left'[0] = left[0]
        BY <1>3, <1>10, MultitaskAssumption DEF Pids
      <3> QED BY <1>4, <1>7, <3>1, <3>2, <3>3
    <2> QED BY <2>1, <2>2 DEF ContextsIntact, Active
  <1> QED BY <1>5, <1>11, <1>12 DEF MultitaskInv

\* exec, whether or not there is room for the image and for the stack.
LEMMA ExecKeeps ==
  ASSUME MultitaskInv, exec,
         kernel_pc' = "loop" \/ (kernel_pc # "multitask_init" /\ UNCHANGED kernel_pc)
  PROVE  MultitaskInv'
  <1> USE DEF exec
  <1>1. CASE ExecRefused
    <2>1. Good(multitask_ProcV', memory_BlockV', held')
      BY <1>1 DEF ExecRefused, MultitaskInv
    <2> QED BY <1>1, <2>1 DEF ExecRefused, MultitaskInv, TypeOK, ContextsIntact, Active
  <1>2. ASSUME NEW size \in Images, ExecGranted(size) PROVE MultitaskInv'
    <2> DEFINE n == BlocksFor(size)
    <2>1. n \in 1 .. BlockC
      BY Sizes
    <2> HIDE DEF n
    <2>2. PICK a \in Starts(memory_BlockV, n) :
            LET tab == Mark(memory_BlockV, a, n) IN
            \/ /\ \E b \in StackBases(tab) : Spawned(tab, b, TRUE)
               /\ held' = held \cup {a}
            \/ /\ StackBases(tab) = {}
               /\ memory_BlockV' = Unmark(tab, a)
               /\ UNCHANGED <<multitask_ProcV, left, held>>
      BY <1>2 DEF ExecGranted, n
    <2> DEFINE tab == Mark(memory_BlockV, a, n)
    <2>3. Good(multitask_ProcV, tab, held \cup {a}) /\ a \notin held
      BY <2>1, HoldGood DEF MultitaskInv
    <2> HIDE DEF tab
    <2>4. CASE \E b \in StackBases(tab) : Spawned(tab, b, TRUE) /\ held' = held \cup {a}
      <3>1. PICK b \in StackBases(tab) : Spawned(tab, b, TRUE) /\ held' = held \cup {a}
        BY <2>4
      <3>2. Good(multitask_ProcV, tab, held')
        BY <2>3, <3>1
      <3> QED BY <3>1, <3>2, SpawnKeeps
    <2>5. CASE memory_BlockV' = Unmark(tab, a) /\ UNCHANGED <<multitask_ProcV, left, held>>
      <3>1. Good(multitask_ProcV', memory_BlockV', held')
        BY <2>3, <2>5, UnholdGood
      <3>2. memory_BlockV' \in Table
        BY <3>1 DEF Good
      <3> QED BY <2>5, <3>1, <3>2 DEF MultitaskInv, TypeOK, ContextsIntact, Active
    <2> QED BY <2>2, <2>4, <2>5 DEF tab
  <1> QED BY <1>1, <1>2

LEMMA RunningActive ==
  ASSUME MultitaskInv, NEW pid \in Pids, Running(pid)
  PROVE  /\ pid # 0 /\ multitask_ProcV[pid].active /\ multitask_Focus = pid
         /\ kernel_pc # "multitask_init"
  <1>1. pid # 0 /\ multitask_Focus = pid /\ multitask_ProcV[pid].active
    BY MultitaskAssumption DEF Running, MultitaskInv, ContextsIntact, Active, Pids
  <1> QED BY <1>1 DEF MultitaskInv, NoProc

LEMMA Step ==
  MultitaskInv /\ [Next]_vars => MultitaskInv'
  <1> SUFFICES ASSUME MultitaskInv, [Next]_vars PROVE MultitaskInv'
    OBVIOUS
  <1>0. /\ Good(multitask_ProcV, memory_BlockV, held)
        /\ \A p \in ActiveIn(multitask_ProcV) \ {multitask_Focus} :
             multitask_ProcV[p].context = left[p]
    BY DEF MultitaskInv, ContextsIntact, Active, ActiveIn
  <1>1. CASE multitask_init
    <2>1. CASE Panic
      <3>1. Good(multitask_ProcV', memory_BlockV', held')
        BY <2>1, <1>0 DEF Panic
      <3> QED BY <2>1, <3>1 DEF Panic, MultitaskInv, TypeOK, ContextsIntact, Active
    <2>2. ASSUME NEW b \in Starts(memory_BlockV, BlocksFor(PROCTABSIZE)),
                 memory_BlockV' = Mark(memory_BlockV, b, BlocksFor(PROCTABSIZE)),
                 held' = held \cup {b},
                 multitask_ProcV' = [p \in Pids |-> NoProc],
                 multitask_InitLock' = TRUE, kernel_pc' = "spawn idle",
                 UNCHANGED <<multitask_InStream, multitask_Focus, KernelContext, cpu, panic, left>>
          PROVE  MultitaskInv'
      <3>1. multitask_ProcV' = multitask_ProcV /\ multitask_Focus = 0
        BY <1>1, <2>2 DEF multitask_init, Kernel, MultitaskInv
      <3>2. Good(multitask_ProcV', memory_BlockV', held')
        BY <1>0, <2>2, <3>1, HoldGood, Sizes
      <3>3. memory_BlockV' \in Table /\ held' \in SUBSET Blocks
        BY <3>2 DEF Good
      <3> QED BY <2>2, <3>1, <3>2, <3>3 DEF MultitaskInv, TypeOK, ContextsIntact, Active
    <2> QED BY <1>1, <2>1, <2>2 DEF multitask_init
  <1>2. CASE SpawnIdle
    <2>1. CASE Panic
      <3>1. Good(multitask_ProcV', memory_BlockV', held')
        BY <2>1, <1>0 DEF Panic
      <3> QED BY <2>1, <3>1 DEF Panic, MultitaskInv, TypeOK, ContextsIntact, Active
    <2>2. ASSUME NEW b \in StackBases(memory_BlockV), Spawned(memory_BlockV, b, FALSE),
                 kernel_pc' = "exec",
                 UNCHANGED <<multitask_InitLock, multitask_InStream, multitask_Focus,
                             KernelContext, cpu, panic, held>>
          PROVE  MultitaskInv'
      <3>1. Good(multitask_ProcV, memory_BlockV, held')
        BY <1>0, <2>2
      <3> QED BY <2>2, <3>1, SpawnKeeps
    <2> QED BY <1>2, <2>1, <2>2 DEF SpawnIdle
  <1>3. CASE ExecFirst
    BY <1>3, ExecKeeps DEF ExecFirst
  <1>4. CASE KernelYield
    <2>1. kernel_pc # "multitask_init"
      BY <1>4 DEF KernelYield, Kernel
    <2> QED BY <1>0, <1>4, <2>1, YieldKeeps DEF KernelYield
  <1>5. ASSUME NEW pid \in Pids, Process(pid) PROVE MultitaskInv'
    <2>0. Running(pid)
      BY <1>5 DEF Process, Compute, yield, spawn, Exec, kill, exit
    <2>1. /\ pid # 0 /\ multitask_ProcV[pid].active /\ multitask_Focus = pid
          /\ kernel_pc # "multitask_init"
      BY <2>0, RunningActive
    <2>2. CASE Compute(pid)
      <3>1. Good(multitask_ProcV', memory_BlockV', held')
        BY <1>0, <2>2 DEF Compute
      <3>2. cpu' \in Contexts
        <4>1. PICK d \in {0, 1, STACKSIZE, STACKSIZE + 1} :
                cpu' = [eip |-> "body", esp |-> StackAddr(multitask_ProcV[pid].stack) + d]
          BY <2>2 DEF Compute
        <4>2. multitask_ProcV[pid].stack \in Int
          <5>1. multitask_ProcV[pid].stack \in Blocks \cup {NULL}
            BY DEF MultitaskInv, TypeOK
          <5>2. Blocks \subseteq Int /\ NULL \in Int
            BY BlockTableAssumption DEF Blocks, NULL
          <5> QED BY <5>1, <5>2
        <4>3. StackAddr(multitask_ProcV[pid].stack) \in Int /\ d \in Int
          BY <4>1, <4>2, BlockTableAssumption, MultitaskAssumption DEF StackAddr
        <4> QED BY <4>1, <4>3 DEF Contexts, Eips
      <3> QED BY <2>2, <3>1, <3>2 DEF Compute, MultitaskInv, TypeOK, ContextsIntact, Active
    <2>3. CASE yield(pid)
      BY <1>0, <2>1, <2>3, YieldKeeps DEF yield
    <2>4. CASE spawn(pid)
      <3>1. PICK b \in StackBases(memory_BlockV) : Spawned(memory_BlockV, b, FALSE)
        BY <2>4 DEF spawn
      <3>2. Good(multitask_ProcV, memory_BlockV, held')
        BY <1>0, <2>4 DEF spawn
      <3> QED BY <2>1, <2>4, <3>1, <3>2, SpawnKeeps DEF spawn
    <2>5. CASE Exec(pid)
      BY <2>1, <2>5, ExecKeeps DEF Exec
    <2>6. ASSUME NEW target \in Pids, kill(pid, target) PROVE MultitaskInv'
      <3> DEFINE new == KilledProcs(multitask_ProcV, target)
      <3>1. /\ CanKill(multitask_ProcV, target) /\ target # pid
            /\ multitask_ProcV' = new
            /\ memory_BlockV' = KilledTable(multitask_ProcV, memory_BlockV, target)
        BY <2>6 DEF kill
      <3>2. Good(multitask_ProcV', memory_BlockV', held')
        BY <1>0, <2>6, <3>1, KillGood DEF kill
      <3>3. multitask_ProcV \in ProcTables
        BY <1>0 DEF Good
      <3>4. /\ \A p \in Pids \ {target} : new[p] = multitask_ProcV[p]
            /\ ~ new[target].active
        BY <3>3 DEF KilledProcs, ProcTables
      <3> HIDE DEF new
      <3>5. TypeOK'
        BY <2>6, <3>2 DEF kill, MultitaskInv, TypeOK, Good, ProcTables
      <3>6. ContextsIntact'
        BY <2>1, <2>6, <3>1, <3>4 DEF kill, MultitaskInv, ContextsIntact, Active
      <3> QED BY <2>1, <2>6, <3>2, <3>5, <3>6 DEF kill, MultitaskInv
    <2>7. CASE exit(pid)
      <3> DEFINE new == KilledProcs(multitask_ProcV, pid)
                 tab == KilledTable(multitask_ProcV, memory_BlockV, pid)
      <3>1. CanKill(multitask_ProcV, pid)
        BY <2>1 DEF CanKill
      <3>2. Good(new, tab, held)
        BY <1>0, <3>1, KillGood
      <3>3. multitask_ProcV \in ProcTables
        BY <1>0 DEF Good
      <3>4. \A p \in Pids \ {pid} : new[p] = multitask_ProcV[p]
        BY <3>3 DEF KilledProcs, ProcTables
      <3>5. YieldFrom(new, tab)
        BY <2>7 DEF exit
      <3> HIDE DEF new, tab
      <3>6. \A p \in ActiveIn(new) \ {multitask_Focus} : new[p].context = left[p]
        BY <1>0, <2>1, <3>4 DEF ActiveIn
      <3> QED BY <2>1, <3>2, <3>5, <3>6, YieldKeeps
    <2> QED BY <1>5, <2>2, <2>3, <2>4, <2>5, <2>6, <2>7 DEF Process
  <1>6. CASE Halt \/ UNCHANGED vars
    <2>1. UNCHANGED vars
      BY <1>6 DEF Halt
    <2>2. Good(multitask_ProcV', memory_BlockV', held')
      BY <1>0, <2>1 DEF vars
    <2> QED BY <2>1, <2>2 DEF vars, MultitaskInv, TypeOK, ContextsIntact, Active
  <1> QED BY <1>1, <1>2, <1>3, <1>4, <1>5, <1>6 DEF Next

\* At the start the earlier components hold one run of blocks and there is no
\* process.
LEMMA Start == Init => MultitaskInv
  <1> SUFFICES ASSUME Init PROVE MultitaskInv
    OBVIOUS
  <1>1. EmptyTable \in Table /\ TableSound(EmptyTable) /\ Heads(EmptyTable) = {}
    BY BlockTableAssumption
       DEF EmptyTable, ClearBlock, Table, TableSound, RunsAllocated, RunsDisjoint,
           RunsCover, Heads, Allocated
  <1>2. PICK n \in 0 .. BlockC :
          /\ memory_BlockV = IF n = 0 THEN EmptyTable ELSE Mark(EmptyTable, 0, n)
          /\ held = IF n = 0 THEN {} ELSE {0}
    BY DEF Init
  <1>3. NoContext \in Contexts /\ cpu \in Contexts
    BY DEF Init, NoContext, Contexts, Eips, KSTACK
  <1>4. multitask_ProcV \in ProcTables /\ ActiveIn(multitask_ProcV) = {}
    BY <1>3 DEF Init, ProcTables, ActiveIn, NoProc
  <1>5. \A p \in Pids : ~ multitask_ProcV[p].freeze
    BY DEF Init, NoProc
  <1>6. Good(multitask_ProcV, EmptyTable, {})
    BY <1>1, <1>4, <1>5 DEF Good
  <1>7. Good(multitask_ProcV, memory_BlockV, held)
    <2>1. CASE n = 0
      BY <1>2, <1>6, <2>1
    <2>2. CASE n # 0
      <3>1. n \in 1 .. BlockC
        BY <2>2, BlockTableAssumption
      <3>2. 0 \in Starts(EmptyTable, n)
        <4>1. FreeRun(EmptyTable, 0, n)
          BY DEF FreeRun, EmptyTable, ClearBlock
        <4>2. LastStart(n) \in Nat
          BY BlockTableAssumption, WordPositive DEF LastStart
        <4> QED BY <4>1, <4>2 DEF Starts
      <3>3. Good(multitask_ProcV, Mark(EmptyTable, 0, n), {} \cup {0})
        BY <1>6, <3>1, <3>2, HoldGood
      <3> QED BY <1>2, <2>2, <3>3
    <2> QED BY <2>1, <2>2
  <1>8. 0 \in 0 .. (PROCLIMIT - 1)
    BY MultitaskAssumption
  <1>9. TypeOK
    BY <1>3, <1>4, <1>7, <1>8 DEF Init, TypeOK, Good, ProcTables
  <1>10. ContextsIntact
    BY <1>4 DEF Init, ContextsIntact, Active, ActiveIn
  <1> QED BY <1>7, <1>9, <1>10 DEF MultitaskInv, Init

\* For any number of processes spawned, executed, killed, exiting and
\* yielding in any order: every live process's stack is its own region of the
\* memory manager, nothing but loaded images outlives a process, no process
\* is frozen, and a process resumes with the registers it stopped with
\* (spawn, exec, kill, yield, exit, multitask.c:89-246).
THEOREM ProcessesIsolated ==
  Spec => [](TypeOK /\ StacksOwned /\ MemoryAccounted /\ ContextsIntact /\ NeverFrozen)
  <1>1. MultitaskInv => TypeOK /\ StacksOwned /\ MemoryAccounted /\ ContextsIntact /\ NeverFrozen
    BY DEF MultitaskInv, Good, StacksOwned, MemoryAccounted, NeverFrozen, Active, ActiveIn
  <1> QED BY <1>1, Start, Step, PTL DEF Spec

\* The same for each of the properties by itself.  A live process's stack is
\* a region of its own (spawn, multitask.c:128-162).
THEOREM StacksAlwaysOwned == Spec => []StacksOwned
  BY ProcessesIsolated, PTL

\* Neither kill, exit and the sentry nor a failing exec leaks a region or
\* frees one twice (multitask.c:89-99, 164-249).
THEOREM MemoryAlwaysAccounted == Spec => []MemoryAccounted
  BY ProcessesIsolated, PTL

\* A switch restores what the switch away from that flow saved
\* (multitask_swi.s).
THEOREM ContextsAlwaysIntact == Spec => []ContextsIntact
  BY ProcessesIsolated, PTL

-----------------------------------------------------------------------------
(***************************************************************************)
(* The idle task.  That the kernel always finds a process needs the idle   *)
(* task to live for ever: it is in the first slot, nobody kills it, and    *)
(* the sentry never does because the stack pointer it is saved with, and   *)
(* the one it runs with, is the top of its stack.                          *)
(***************************************************************************)
IdleTop == StackAddr(multitask_ProcV[IDLE].stack) + STACKSIZE

IdleInv ==
  /\ kernel_pc \in {"multitask_init", "spawn idle"} =>
       multitask_ProcV = [p \in Pids |-> NoProc] /\ multitask_Focus = 0
  /\ kernel_pc \in {"exec", "loop"} =>
       /\ ~ panic
       /\ multitask_ProcV[IDLE].active
       /\ multitask_ProcV[IDLE].context.esp = IdleTop
       /\ multitask_Focus = IDLE => cpu.esp = IdleTop

LEMMA IdleIsPid == IDLE \in Pids /\ IDLE # 0
  BY MultitaskAssumption DEF IDLE, Pids

\* yield, from a table in which the idle task is as it was.
LEMMA YieldKeepsIdle ==
  ASSUME MultitaskInv, IdleInv, kernel_pc \in {"exec", "loop"},
         NEW procs, NEW tab, Good(procs, tab, held),
         procs[IDLE] = multitask_ProcV[IDLE], YieldFrom(procs, tab)
  PROVE  IdleInv'
  <1> DEFINE old == multitask_Focus
             procs2 == SentryProcs(procs, old)
             next == NextOf(procs2, old)
             top == StackAddr(procs[IDLE].stack) + STACKSIZE
  <1>1. /\ procs \in ProcTables /\ old \in 0 .. (PROCLIMIT - 1)
        /\ procs[IDLE].active /\ ~ procs[IDLE].freeze /\ procs[IDLE].context.esp = top
        /\ old = IDLE => cpu.esp = top
    BY IdleIsPid DEF MultitaskInv, IdleInv, IdleTop, TypeOK, Good
  <1>2. procs2[IDLE] = procs[IDLE]
    <2>1. CASE old # IDLE
      BY <1>1, <2>1, IdleIsPid, SentryGood
    <2>2. CASE old = IDLE
      <3>1. procs[IDLE].stack \in Int
        <4>1. procs[IDLE].stack \in Blocks \cup {NULL}
          BY <1>1, IdleIsPid DEF ProcTables
        <4> QED BY <4>1, BlockTableAssumption DEF Blocks, NULL
      <3>2. StackAddr(procs[IDLE].stack) \in Int /\ STACKSIZE \in Nat \ {0}
        BY <3>1, BlockTableAssumption, MultitaskAssumption DEF StackAddr
      <3>3. ~ StackBroken(procs[IDLE])
        BY <1>1, <3>2 DEF StackBroken
      <3> QED BY <2>2, <3>3 DEF SentryProcs, SentryFires
    <2> QED BY <2>1, <2>2
  <1>3. IDLE \in Runnable(procs2)
    BY <1>1, <1>2, IdleIsPid DEF Runnable
  <1>4. next # old
    <2>1. CASE old = 0
      <3> DEFINE above == {p \in Runnable(procs2) : p > old}
      <3>1. above \in SUBSET Nat /\ IDLE \in above
        BY <1>3, <2>1, MultitaskAssumption DEF Runnable, Pids, IDLE
      <3>2. Least(above) \in above
        BY <3>1, LeastIn
      <3>3. next = Least(above)
        BY <3>1 DEF NextOf
      <3>4. next > 0
        BY <2>1, <3>2, <3>3
      <3> QED BY <2>1, <3>4
    <2>2. CASE old # 0
      <3>1. next = 0 \/ next > old
        BY <1>1, NextOfActive
      <3> QED BY <1>1, <2>2, <3>1
    <2> QED BY <2>1, <2>2
  <1>5. Switch(procs2, old, next) /\ panic' = panic /\ kernel_pc' = kernel_pc
    BY <1>4 DEF YieldFrom
  <1> HIDE DEF next, procs2
  <1>6. procs2 \in ProcTables
    BY <1>1, SentryGood DEF Good, procs2
  <1>7. /\ multitask_Focus' = next
        /\ next = IDLE => cpu'.esp = top
    BY <1>1, <1>2, <1>5, IdleIsPid DEF Switch, ContextOf
  <1>8. /\ multitask_ProcV'[IDLE].active
        /\ multitask_ProcV'[IDLE].stack = procs[IDLE].stack
        /\ multitask_ProcV'[IDLE].context.esp = top
    <2>1. CASE old = 0
      BY <1>1, <1>2, <1>5, <2>1 DEF Switch
    <2>2. CASE old # 0
      <3>1. multitask_ProcV' = [procs2 EXCEPT ![old].context = cpu]
        BY <1>5, <2>2 DEF Switch
      <3>2. CASE old = IDLE
        <4>1. procs2[IDLE] \in [active : BOOLEAN, freeze : BOOLEAN, file : BOOLEAN,
                                stack : Blocks \cup {NULL}, context : Contexts]
          BY <1>6, IdleIsPid DEF ProcTables
        <4>2. multitask_ProcV'[IDLE] = [procs2[IDLE] EXCEPT !.context = cpu]
          BY <1>6, <3>1, <3>2, IdleIsPid DEF ProcTables
        <4> QED BY <1>1, <1>2, <3>2, <4>1, <4>2
      <3>3. CASE old # IDLE
        <4>1. multitask_ProcV'[IDLE] = procs2[IDLE]
          BY <1>6, <3>1, <3>3, IdleIsPid DEF ProcTables
        <4> QED BY <1>1, <1>2, <4>1
      <3> QED BY <3>2, <3>3
    <2> QED BY <2>1, <2>2
  <1> QED BY <1>5, <1>7, <1>8 DEF IdleInv, IdleTop

\* spawn does not touch the slot of a live process.
LEMMA SpawnKeepsIdle ==
  ASSUME MultitaskInv, NEW tab, NEW b \in StackBases(tab), NEW file, Spawned(tab, b, file),
         multitask_ProcV[IDLE].active
  PROVE  multitask_ProcV'[IDLE] = multitask_ProcV[IDLE]
  <1> DEFINE pid == Least(Inactive(multitask_ProcV))
  <1>1. Inactive(multitask_ProcV) # {} /\ Inactive(multitask_ProcV) \in SUBSET Nat
    BY MultitaskAssumption DEF StackBases, Inactive, Pids
  <1>2. pid \in Inactive(multitask_ProcV)
    BY <1>1, LeastIn
  <1> HIDE DEF pid
  <1>3. pid # IDLE
    BY <1>2 DEF Inactive
  <1>4. multitask_ProcV \in ProcTables
    BY DEF MultitaskInv, Good
  <1>5. multitask_ProcV' = [multitask_ProcV EXCEPT ![pid] = NewProc(b, file)]
    BY DEF Spawned, pid
  <1> QED BY <1>3, <1>4, <1>5, IdleIsPid DEF ProcTables

LEMMA ExecKeepsIdle ==
  ASSUME MultitaskInv, exec, multitask_ProcV[IDLE].active
  PROVE  multitask_ProcV'[IDLE] = multitask_ProcV[IDLE]
  <1>1. CASE ExecRefused
    BY <1>1 DEF ExecRefused
  <1>2. ASSUME NEW size \in Images, ExecGranted(size)
        PROVE  multitask_ProcV'[IDLE] = multitask_ProcV[IDLE]
    BY <1>2, SpawnKeepsIdle DEF ExecGranted
  <1> QED BY <1>1, <1>2 DEF exec

LEMMA IdleStep ==
  MultitaskInv /\ IdleInv /\ [Next]_vars => IdleInv'
  <1> SUFFICES ASSUME MultitaskInv, IdleInv, [Next]_vars PROVE IdleInv'
    OBVIOUS
  <1>0. Good(multitask_ProcV, memory_BlockV, held)
    BY DEF MultitaskInv
  <1>1. CASE multitask_init
    BY <1>1 DEF multitask_init, Kernel, Panic, IdleInv
  <1>2. CASE SpawnIdle
    <2>1. CASE Panic
      BY <1>2, <2>1 DEF SpawnIdle, Kernel, Panic, IdleInv
    <2>2. ASSUME NEW b \in StackBases(memory_BlockV), Spawned(memory_BlockV, b, FALSE),
                 kernel_pc' = "exec", UNCHANGED <<multitask_Focus, cpu, panic>>
          PROVE  IdleInv'
      <3>1. multitask_ProcV = [p \in Pids |-> NoProc] /\ multitask_Focus = 0 /\ ~ panic
        BY <1>2 DEF SpawnIdle, Kernel, IdleInv
      <3>2. Inactive(multitask_ProcV) = Pids
        BY <3>1 DEF Inactive, NoProc
      <3>3. Least(Pids) = IDLE
        <4>0. Pids \in SUBSET Nat
          BY MultitaskAssumption DEF Pids
        <4>1. Pids # {}
          BY IdleIsPid
        <4>2. Least(Pids) \in Pids /\ Least(Pids) <= IDLE
          BY <4>0, <4>1, IdleIsPid, LeastIn
        <4> QED BY <4>2, MultitaskAssumption DEF Pids, IDLE
      <3>4. multitask_ProcV' = [multitask_ProcV EXCEPT ![IDLE] = NewProc(b, FALSE)]
        BY <2>2, <3>2, <3>3 DEF Spawned
      <3>5. multitask_ProcV'[IDLE] = NewProc(b, FALSE)
        BY <3>1, <3>4, IdleIsPid
      <3> QED BY <2>2, <3>1, <3>5, IdleIsPid DEF IdleInv, IdleTop, NewProc
    <2> QED BY <1>2, <2>1, <2>2 DEF SpawnIdle
  <1>3. CASE ExecFirst
    <2>1. multitask_ProcV'[IDLE] = multitask_ProcV[IDLE]
      BY <1>3, ExecKeepsIdle DEF ExecFirst, Kernel, IdleInv
    <2> QED BY <1>3, <2>1 DEF ExecFirst, Kernel, exec, IdleInv, IdleTop
  <1>4. CASE KernelYield
    BY <1>0, <1>4, YieldKeepsIdle DEF KernelYield, Kernel
  <1>5. ASSUME NEW pid \in Pids, Process(pid) PROVE IdleInv'
    <2>0. Running(pid)
      BY <1>5 DEF Process, Compute, yield, spawn, Exec, kill, exit
    <2>1. /\ pid # 0 /\ multitask_Focus = pid /\ multitask_ProcV[pid].active
          /\ kernel_pc \in {"exec", "loop"}
      BY <2>0, RunningActive DEF IdleInv, MultitaskInv, TypeOK
    <2>2. CASE Compute(pid)
      <3>1. pid = IDLE => cpu'.esp = IdleTop
        BY <2>2 DEF Compute, IdleTop
      <3> QED BY <2>1, <2>2, <3>1 DEF Compute, IdleInv, IdleTop
    <2>3. CASE yield(pid)
      BY <1>0, <2>1, <2>3, YieldKeepsIdle DEF yield
    <2>4. CASE spawn(pid)
      <3>1. multitask_ProcV'[IDLE] = multitask_ProcV[IDLE]
        BY <2>1, <2>4, SpawnKeepsIdle DEF spawn, IdleInv
      <3> QED BY <2>1, <2>4, <3>1 DEF spawn, IdleInv, IdleTop
    <2>5. CASE Exec(pid)
      <3>1. multitask_ProcV'[IDLE] = multitask_ProcV[IDLE]
        BY <2>1, <2>5, ExecKeepsIdle DEF Exec, IdleInv
      <3> QED BY <2>1, <2>5, <3>1 DEF Exec, exec, IdleInv, IdleTop
    <2>6. ASSUME NEW target \in Pids, kill(pid, target) PROVE IdleInv'
      <3>1. multitask_ProcV'[IDLE] = multitask_ProcV[IDLE]
        <4>1. multitask_ProcV \in ProcTables
          BY <1>0 DEF Good
        <4> QED BY <2>6, <4>1, IdleIsPid DEF kill, KilledProcs, ProcTables
      <3> QED BY <2>1, <2>6, <3>1 DEF kill, IdleInv, IdleTop
    <2>7. CASE exit(pid)
      <3> DEFINE new == KilledProcs(multitask_ProcV, pid)
                 tab == KilledTable(multitask_ProcV, memory_BlockV, pid)
      <3>1. Good(new, tab, held)
        BY <1>0, <2>1, KillGood DEF CanKill
      <3>2. new[IDLE] = multitask_ProcV[IDLE]
        <4>1. multitask_ProcV \in ProcTables
          BY <1>0 DEF Good
        <4> QED BY <2>7, <4>1, IdleIsPid DEF exit, KilledProcs, ProcTables
      <3>3. YieldFrom(new, tab)
        BY <2>7 DEF exit
      <3> HIDE DEF new, tab
      <3> QED BY <2>1, <3>1, <3>2, <3>3, YieldKeepsIdle
    <2> QED BY <1>5, <2>2, <2>3, <2>4, <2>5, <2>6, <2>7 DEF Process
  <1>6. CASE Halt \/ UNCHANGED vars
    <2>1. UNCHANGED vars
      BY <1>6 DEF Halt
    <2> QED BY <2>1 DEF vars, IdleInv, IdleTop
  <1> QED BY <1>1, <1>2, <1>3, <1>4, <1>5, <1>6 DEF Next

\* Once kernel_main has spawned the idle task, yield's "No processes to
\* execute" (multitask.c:228) is never reached, whatever the other processes
\* do to themselves and to one another.
THEOREM SchedulerNeverPanics == Spec => []NoPanicAfterBoot
  <1>1. Init => IdleInv
    BY DEF Init, IdleInv
  <1>2. IdleInv => NoPanicAfterBoot
    BY DEF IdleInv, NoPanicAfterBoot
  <1> QED BY <1>1, <1>2, Start, Step, IdleStep, PTL DEF Spec
-----------------------------------------------------------------------------
\* What yield's search finds: no runnable process lies between.
LEMMA NextOfNearest ==
  ASSUME NEW procs, NEW pid \in 0 .. (PROCLIMIT - 1), NEW p \in Runnable(procs), p > pid
  PROVE  NextOf(procs, pid) # 0 /\ NextOf(procs, pid) <= p
  <1> DEFINE above == {q \in Runnable(procs) : q > pid}
  <1>1. above \in SUBSET Nat /\ p \in above
    BY MultitaskAssumption DEF Runnable, Pids
  <1>2. Least(above) \in above /\ Least(above) <= p
    BY <1>1, LeastIn
  <1>3. NextOf(procs, pid) = Least(above)
    BY <1>1 DEF NextOf
  <1>4. Least(above) > pid
    BY <1>2
  <1> HIDE DEF above
  <1>5. Least(above) # 0
    BY <1>4
  <1> QED BY <1>2, <1>3, <1>5

SkipsNobody ==
  multitask_Focus' # multitask_Focus =>
    LET old == multitask_Focus
        next == multitask_Focus'
        passed == {p \in Pids : p > old /\ (next = 0 \/ p < next)}
    IN  /\ next = 0 \/ next > old
        /\ \A p \in passed : ~ multitask_ProcV'[p].active

\* yield, from any good tables.
LEMMA YieldSkipsNobody ==
  ASSUME MultitaskInv, NEW procs, NEW tab, Good(procs, tab, held), YieldFrom(procs, tab)
  PROVE  SkipsNobody
  <1> DEFINE old == multitask_Focus
             procs2 == SentryProcs(procs, old)
             next == NextOf(procs2, old)
  <1>1. old \in 0 .. (PROCLIMIT - 1) /\ cpu \in Contexts
    BY DEF MultitaskInv, TypeOK
  <1>2. CASE next = old
    BY <1>2 DEF YieldFrom, SkipsNobody
  <1>3. CASE next # old
    <2>1. Switch(procs2, old, next)
      BY <1>3 DEF YieldFrom
    <2>2. multitask_Focus' = next
      BY <2>1 DEF Switch
    <2>3. Good(procs2, SentryTable(procs, tab, old), held)
      BY <1>1, SentryGood
    <2>4. next = 0 \/ next > old
      BY <1>1, NextOfActive
    <2>5. ActiveIn(multitask_ProcV') = ActiveIn(procs2)
      <3>1. CASE old = 0
        BY <2>1, <3>1 DEF Switch
      <3>2. CASE old # 0
        <4>1. multitask_ProcV' = [procs2 EXCEPT ![old].context = cpu]
          BY <2>1, <3>2 DEF Switch
        <4>2. old \in Pids
          BY <1>1, <3>2, MultitaskAssumption DEF Pids
        <4> HIDE DEF procs2
        <4> QED BY <1>1, <2>3, <4>1, <4>2, SaveGood
      <3> QED BY <3>1, <3>2
    <2>6. ASSUME NEW p \in Pids, p > old, next = 0 \/ p < next, multitask_ProcV'[p].active
          PROVE  FALSE
      <3>1. p \in ActiveIn(procs2)
        BY <2>5, <2>6 DEF ActiveIn
      <3>2. p \in Runnable(procs2)
        BY <2>3, <3>1 DEF Runnable, ActiveIn, Good
      <3>3. next # 0 /\ next <= p
        BY <1>1, <2>6, <3>2, NextOfNearest
      <3>4. p < next
        BY <2>6, <3>3
      <3>5. next \in Int /\ p \in Int
        <4>1. next \in Pids
          BY <1>1, <3>3, NextOfActive DEF ActiveIn
        <4> QED BY <4>1, MultitaskAssumption DEF Pids
      <3> HIDE DEF next
      <3> QED BY <3>3, <3>4, <3>5
    <2> HIDE DEF next
    <2> QED BY <2>2, <2>4, <2>6 DEF SkipsNobody
  <1> QED BY <1>2, <1>3

\* A switch goes to the next live process up the table, or to the kernel when
\* there is none: the search of yield (multitask.c:221-240) passes nobody by.
THEOREM NobodyEverSkipped == Spec => NobodySkipped
  <1>1. ASSUME MultitaskInv, [Next]_vars PROVE SkipsNobody
    <2>0. Good(multitask_ProcV, memory_BlockV, held)
      BY <1>1 DEF MultitaskInv
    <2>1. CASE KernelYield
      BY <1>1, <2>0, <2>1, YieldSkipsNobody DEF KernelYield
    <2>2. ASSUME NEW pid \in Pids, yield(pid) PROVE SkipsNobody
      BY <1>1, <2>0, <2>2, YieldSkipsNobody DEF yield
    <2>3. ASSUME NEW pid \in Pids, exit(pid) PROVE SkipsNobody
      <3>1. CanKill(multitask_ProcV, pid)
        BY <1>1, <2>3, RunningActive DEF exit, CanKill
      <3>2. Good(KilledProcs(multitask_ProcV, pid),
                 KilledTable(multitask_ProcV, memory_BlockV, pid), held)
        BY <2>0, <3>1, KillGood
      <3> QED BY <1>1, <2>3, <3>2, YieldSkipsNobody DEF exit
    <2>4. CASE multitask_init \/ SpawnIdle \/ ExecFirst
      BY <2>4 DEF multitask_init, SpawnIdle, ExecFirst, exec, Panic, SkipsNobody
    <2>5. ASSUME NEW pid \in Pids,
                 Compute(pid) \/ spawn(pid) \/ Exec(pid) \/ \E target \in Pids : kill(pid, target)
          PROVE  SkipsNobody
      BY <2>5 DEF Compute, spawn, Exec, exec, kill, SkipsNobody
    <2>6. CASE Halt \/ UNCHANGED vars
      <3>1. UNCHANGED vars
        BY <2>6 DEF Halt
      <3> QED BY <3>1 DEF vars, SkipsNobody
    <2> QED BY <1>1, <2>1, <2>2, <2>3, <2>4, <2>5, <2>6 DEF Next, Process
  <1>2. MultitaskInv /\ [Next]_vars =>
          (multitask_Focus' # multitask_Focus =>
             LET old == multitask_Focus
                 next == multitask_Focus'
                 passed == {p \in Pids : p > old /\ (next = 0 \/ p < next)}
             IN  /\ next = 0 \/ next > old
                 /\ \A p \in passed : ~ multitask_ProcV'[p].active)
    BY <1>1 DEF SkipsNobody
  <1> QED BY <1>2, Start, Step, PTL DEF Spec, NobodySkipped
=============================================================================
