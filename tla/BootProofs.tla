----------------------------- MODULE BootProofs -----------------------------
(***************************************************************************)
(* TLAPS proofs about the start of the processors (module Boot), for any   *)
(* number of processors, any table of them and any memory: no two          *)
(* processors share a kernel stack or an APIC window, although each AP     *)
(* takes its own without the kernel lock, through the global variables     *)
(* mpentry_kstack and base; and mem_init, before them, gives out no page   *)
(* twice and writes to none before it is mapped.                           *)
(***************************************************************************)
EXTENDS Boot, FiniteSetTheorems, SequenceTheorems, TLAPS

\* Where an AP has not yet told boot_aps that it is up, and where it has.
Booting == {"reset", "entry", "mp_main", "mapped", "trap_init", "started"}
Up == {"lock", "sched", "done"}

\* The phases of the boot processor: mem_init, then one CPU alone, then boot_aps.
Memory == {"alloc", "page_init", "check_low", "check_alloc", "check_page", "map",
           "check_kern", "lcr3"}
Alone == {"trap_init", "mp_init", "lapic_init", "lock"}
Starting == {"startup1", "startup2", "wait"}
Late == {"boot_aps", "sched", "done"} \cup Starting

Phases == Memory \cup Alone \cup Late \cup {"panic"}

\* Each stack is mapped, with a page below it that is not.
StacksMapped ==
    \A n \in 0 .. NCPU - 1 : /\ kernmap[KSTACKTOP - 2 * n - 1] = PercpuKstack(n)
                             /\ kernmap[KSTACKTOP - 2 * n - 2] = None

\* The kernel's own variables: mmio_map_region's base is beyond what check_page used,
\* and bootcpu and ncpu are what mp_init makes of the table.
KernelInv ==
    /\ phase \in Phases /\ table \in Table \cup {None}
    /\ mmiobase \in Nat /\ mmiobase >= MMIOBASE
    /\ phase \in {"map", "check_kern", "lcr3"} \cup Alone \cup Late => mmiobase >= MMIOBASE + 3
    /\ ncpu \in Nat /\ ncpu <= NCPU /\ ncpu <= MAXENTRY /\ starting \in Nat
    /\ phase \in {"lapic_init", "lock"} \cup Late =>
          IF Lapicaddr THEN bootcpu = BSP ELSE ncpu <= 1
    /\ phase \in {"lock"} \cup Late => (lapic # None <=> Lapicaddr)
    /\ phase \in Memory \cup {"trap_init", "mp_init", "lapic_init"} => lapic = None
    /\ phase \in Memory \cup {"trap_init", "mp_init"} => ncpu = 0
    /\ kernmap = [va \in 0 .. VTOP - 1 |-> kernmap[va]]
    /\ phase \in {"lcr3"} \cup Alone \cup Late => StacksMapped

\* One processor.  Only the one that boot_aps waits for is on its way, so that
\* mpentry_kstack is its own stack, and its window is not yet counted.
ApInv(c) ==
    /\ pc[c] \in ApPc
    /\ pc[c] \in Booting => /\ c = starting /\ mpentry_kstack = c
                            /\ phase \in Starting \cup {"panic"}
    /\ pc[c] # "off" => /\ phase \in Late \cup {"panic"} /\ lapic # None
                        /\ c # BSP /\ c < ncpu /\ bootcpu = BSP
                        /\ c <= starting
                        /\ phase = "boot_aps" => c < starting
    /\ esp[c] \in {None, c}
    /\ \/ tss[c] = None
       \/ c = BSP /\ tss[c] = 0 /\ StacksMapped
       \/ /\ tss[c] = c /\ c < NCPU /\ bootcpu = BSP /\ StacksMapped
          /\ phase \in Late \cup {"panic"}
    /\ window[c] # None => /\ window[c] \in Nat /\ window[c] >= MMIOBASE + 3
                           /\ window[c] < MMIOLIM
                           /\ pc[c] # "mapped" => window[c] < mmiobase
    /\ pc[c] = "mapped" => window[c] = mmiobase
    /\ phase \in Memory => tss[c] = None /\ window[c] = None

\* boot_aps waits for the flag of the processor that it started, and no other sets it.
StatusInv ==
    /\ status \in [0 .. NCPU - 1 -> {"UNUSED", "STARTED"}]
    /\ phase \in Memory \cup {"trap_init", "mp_init"} =>
          \A i \in 0 .. NCPU - 1 : status[i] = "UNUSED"
    /\ \A c \in CPU : c < NCPU /\ status[c] = "STARTED" => c = bootcpu \/ pc[c] \in Up

ApsType ==
    /\ pc \in [CPU -> ApPc]
    /\ esp = [c \in CPU |-> esp[c]] /\ tss = [c \in CPU |-> tss[c]]
    /\ window = [c \in CPU |-> window[c]]

Apart == \A c, d \in CPU : c # d /\ window[c] # None => window[c] # window[d]

Inv == KernelInv /\ ApsType /\ StatusInv /\ (\A c \in CPU : ApInv(c)) /\ Apart

\* The sizes, one by one.
LEMMA Sizes ==
    /\ PT \in Nat /\ PHYSMAP \in Nat /\ NCPU \in Nat /\ 0 < NCPU /\ 2 * NCPU <= PT
    /\ None \notin Nat /\ MAXENTRY \in Nat /\ 0 < MAXENTRY
BY MemInitAssumption, BootAssumption

\* The boot processor's number is a CPU's, and there are at most as many processors
\* as the table has entries.
LEMMA TableCounts ==
    ASSUME NEW t \in Table
    PROVE  /\ Len(t) \in Nat /\ DOMAIN t = 1 .. Len(t) /\ BootEntry(t) \in DOMAIN t
           /\ BootIndex(t) \in CPU /\ BootIndex(t) < NCPU
           /\ \A i \in Nat : ProcsBefore(t, i) \in Nat /\ ProcsBefore(t, i) <= MAXENTRY
<1>1. PICK n \in 1 .. MAXENTRY : t \in [1 .. n -> Kinds]
  BY DEF Table
<1>2. n \in Nat /\ n <= MAXENTRY /\ DOMAIN t = 1 .. n
  BY <1>1, Sizes
<1>3. PICK b \in 1 .. n : t[b] = "boot"
  BY <1>1 DEF Table
<1>4. BootEntry(t) \in 1 .. n
  BY <1>2, <1>3 DEF BootEntry
<1>5. IsFiniteSet(1 .. n) /\ Cardinality(1 .. n) = n
  BY <1>1, <1>2, FS_Interval, Sizes
<1>6. ASSUME NEW i \in Nat
      PROVE  ProcsBefore(t, i) \in Nat /\ ProcsBefore(t, i) <= n
  <2> DEFINE S == {j \in DOMAIN t : j < i /\ t[j] \in {"proc", "boot"}}
  <2>1. S \in SUBSET (1 .. n)
    BY <1>2
  <2>2. IsFiniteSet(S) /\ Cardinality(S) <= n
    BY <2>1, <1>5, FS_Subset
  <2>3. Cardinality(S) \in Nat
    BY <2>2, FS_CardinalityType
  <2>4. QED
    BY <2>2, <2>3 DEF ProcsBefore
<1>7. BootIndex(t) \in Nat /\ BootIndex(t) < n
  <2> DEFINE B == BootEntry(t)
             S == {j \in DOMAIN t : j < B /\ t[j] \in {"proc", "boot"}}
  <2>1. S \in SUBSET ((1 .. n) \ {B})
    BY <1>2, <1>4
  <2>2. IsFiniteSet((1 .. n) \ {B}) /\ Cardinality((1 .. n) \ {B}) = n - 1
    BY <1>4, <1>5, FS_RemoveElement
  <2>3. IsFiniteSet(S) /\ Cardinality(S) <= n - 1
    BY <2>1, <2>2, FS_Subset
  <2>4. Cardinality(S) \in Nat
    BY <2>3, FS_CardinalityType
  <2>5. QED
    BY <2>3, <2>4, <1>2 DEF BootIndex, ProcsBefore
<1>8. BootIndex(t) < NCPU
  BY DEF Table
<1>9. BootIndex(t) \in CPU
  BY <1>2, <1>7, Sizes DEF CPU
<1>10. ASSUME NEW i \in Nat
       PROVE  ProcsBefore(t, i) \in Nat /\ ProcsBefore(t, i) <= MAXENTRY
  <2>1. ProcsBefore(t, i) \in Nat /\ ProcsBefore(t, i) <= n
    BY <1>6
  <2>2. QED
    BY <2>1, <1>2, Sizes
<1>11. Len(t) = n
  BY <1>1, <1>2
<1>12. QED
  BY <1>2, <1>4, <1>8, <1>9, <1>10, <1>11

\* None is no table.
LEMMA BootCpu ==
    ASSUME table \in Table \cup {None}
    PROVE  BSP \in CPU /\ BSP < NCPU
BY TableCounts, Sizes DEF BSP, CPU

LEMMA InvInit == Init => Inv
<1> SUFFICES ASSUME Init PROVE Inv
  OBVIOUS
<1> USE DEF Init, MemInitInit
<1>1. KernelInv
  BY Sizes DEF KernelInv, Phases, Memory, Alone, Late, Starting, MMIOBASE, VTOP, KERNBASE,
               KSTACKTOP
<1>2. ApsType
  BY DEF ApsType, ApPc
<1>3. StatusInv
  <2>1. status \in [0 .. NCPU - 1 -> {"UNUSED", "STARTED"}]
    OBVIOUS
  <2>2. \A i \in 0 .. NCPU - 1 : status[i] = "UNUSED"
    OBVIOUS
  <2>3. \A c \in CPU : c < NCPU => c \in 0 .. NCPU - 1
    BY Sizes DEF CPU
  <2>4. QED
    BY <2>1, <2>2, <2>3 DEF StatusInv
<1>4. \A c \in CPU : ApInv(c)
  BY DEF ApInv, ApPc, Booting
<1>5. Apart
  BY DEF Apart
<1>6. QED
  BY <1>1, <1>2, <1>3, <1>4, <1>5 DEF Inv

----------------------------------------------------------------------------
(* The boot processor *)

\* What mem_init does to the variables of Inv.
LEMMA MemInitEffect ==
    ASSUME KernelInv, MemInitStep
    PROVE  /\ phase \in Memory /\ phase' \in (Memory \ {"alloc"}) \cup {"trap_init", "panic"}
           /\ mmiobase' \in Nat /\ mmiobase' >= MMIOBASE
           /\ phase' \in {"map", "check_kern", "lcr3", "trap_init"} => mmiobase' >= MMIOBASE + 3
           /\ kernmap' = [va \in 0 .. VTOP - 1 |-> kernmap'[va]]
           /\ phase' \in {"lcr3", "trap_init"} => StacksMapped'
<1> USE DEF KernelInv, Memory, Check
<1>1. CASE BootAlloc
  BY <1>1 DEF BootAlloc
<1>2. CASE PageInit
  BY <1>2 DEF PageInit
<1>3. CASE CheckPageFreeListLow
  BY <1>3 DEF CheckPageFreeListLow
<1>4. CASE CheckPageAlloc
  BY <1>4 DEF CheckPageAlloc
<1>5. CASE CheckPage
  <2>1. mmiobase' = mmiobase \/ mmiobase' = mmiobase + 3
    BY <1>5 DEF CheckPage
  <2>2. phase' = "map" => mmiobase' = mmiobase + 3
    BY <1>5 DEF CheckPage
  <2>3. phase = "check_page" /\ phase' \in {"map", "panic"} /\ kernmap' = kernmap
    BY <1>5 DEF CheckPage
  <2>4. MMIOBASE \in Nat
    BY Sizes DEF MMIOBASE
  <2>5. QED
    BY <2>1, <2>2, <2>3, <2>4
<1>6. CASE MapRegions
  <2>1. phase = "map" /\ phase' \in {"check_kern", "panic"} /\ mmiobase' = mmiobase
    BY <1>6 DEF MapRegions
  <2>2. kernmap' = [va \in 0 .. VTOP - 1 |-> kernmap'[va]]
    BY <1>6 DEF MapRegions
  <2>3. QED
    BY <2>1, <2>2
<1>7. CASE CheckKernPgdir
  <2>1. phase = "check_kern" /\ phase' \in {"lcr3", "panic"} /\ mmiobase' = mmiobase
        /\ kernmap' = kernmap
    BY <1>7 DEF CheckKernPgdir, mem
  <2>2. ASSUME phase' = "lcr3", NEW n \in 0 .. NCPU - 1
        PROVE  /\ kernmap[KSTACKTOP - 2 * n - 1] = PercpuKstack(n)
               /\ kernmap[KSTACKTOP - 2 * n - 2] = None
    <3>1. /\ kernmap[KSTACKTOP - (KSTKSIZE + KSTKGAP) * (n + 1) + KSTKGAP] = PercpuKstack(n)
          /\ kernmap[KSTACKTOP - (KSTKSIZE + KSTKGAP) * (n + 1)] = None
      BY <1>7, <2>2 DEF CheckKernPgdir, KernPgdirRight
    <3>2. /\ KSTACKTOP - (KSTKSIZE + KSTKGAP) * (n + 1) + KSTKGAP = KSTACKTOP - 2 * n - 1
          /\ KSTACKTOP - (KSTKSIZE + KSTKGAP) * (n + 1) = KSTACKTOP - 2 * n - 2
      BY SMTT(60), Sizes DEF KSTKSIZE, KSTKGAP, KSTACKTOP
    <3>3. QED
      BY <3>1, <3>2
  <2>3. phase' = "lcr3" => StacksMapped'
    BY <2>1, <2>2 DEF StacksMapped
  <2>4. QED
    BY <2>1, <2>3
<1>8. CASE Lcr3
  <2>1. phase = "lcr3" /\ phase' \in {"trap_init", "panic"} /\ mmiobase' = mmiobase
        /\ kernmap' = kernmap
    BY <1>8 DEF Lcr3
  <2>2. StacksMapped'
    BY <2>1 DEF StacksMapped
  <2>3. QED
    BY <2>1, <2>2
<1>9. QED
  BY <1>1, <1>2, <1>3, <1>4, <1>5, <1>6, <1>7, <1>8 DEF MemInitStep

\* What depends only on the table, and on the map.
LEMMA SameTable ==
    ASSUME table' = table
    PROVE  BSP' = BSP /\ Lapicaddr' = Lapicaddr
BY DEF BSP, Lapicaddr, Ismp

\* While mem_init runs, and up to lapic_init, every AP is off.
LEMMA AllOff ==
    ASSUME Inv, phase \in Memory \cup Alone, NEW c \in CPU
    PROVE  pc[c] = "off"
BY DEF Inv, ApInv, Memory, Alone, Late, Starting

LEMMA MemInitInv ==
    ASSUME Inv, MemInitPhase
    PROVE  Inv'
<1> USE DEF Inv
<1>1. UNCHANGED <<table, ncpu, bootcpu, status, lapic, mpentry, mpentry_kstack, starting, lock>>
      /\ UNCHANGED <<pc, esp, tss, window>>
  BY DEF MemInitPhase, kernel, aps
<1>2. /\ phase \in Memory /\ phase' \in (Memory \ {"alloc"}) \cup {"trap_init", "panic"}
      /\ mmiobase' \in Nat /\ mmiobase' >= MMIOBASE
      /\ phase' \in {"map", "check_kern", "lcr3", "trap_init"} => mmiobase' >= MMIOBASE + 3
      /\ kernmap' = [va \in 0 .. VTOP - 1 |-> kernmap'[va]]
      /\ phase' \in {"lcr3", "trap_init"} => StacksMapped'
  BY MemInitEffect DEF MemInitPhase
<1>3. BSP' = BSP /\ Lapicaddr' = Lapicaddr
  BY <1>1, SameTable
<1>4. KernelInv'
  BY <1>1, <1>2, <1>3 DEF KernelInv, Phases, Memory, Alone, Late, Starting
<1>5. ApsType' /\ Apart'
  BY <1>1 DEF ApsType, Apart
<1>6. StatusInv'
  BY <1>1, <1>2 DEF StatusInv, Memory
<1>7. ASSUME NEW c \in CPU PROVE ApInv(c)'
  <2>1. pc[c] = "off" /\ pc'[c] = "off"
    BY <1>1, <1>2, <1>7, AllOff
  <2>2. tss[c] = None /\ window[c] = None /\ tss'[c] = None /\ window'[c] = None
    BY <1>1, <1>2 DEF ApInv
  <2>3. esp'[c] \in {None, c}
    BY <1>1 DEF ApInv
  <2>4. QED
    BY <2>1, <2>2, <2>3 DEF ApInv, Booting, ApPc
<1>8. QED
  BY <1>4, <1>5, <1>6, <1>7

LEMMA TrapInitInv ==
    ASSUME Inv, TrapInit
    PROVE  Inv'
<1> USE DEF Inv
<1>1. /\ UNCHANGED <<kernmap, mmiobase>> /\ UNCHANGED <<pc, esp, window>>
      /\ UNCHANGED <<table, ncpu, bootcpu, status, lapic, mpentry_kstack, starting>>
      /\ phase = "trap_init" /\ phase' = "mp_init"
  BY DEF TrapInit, kernel, mem
<1>2. BSP' = BSP /\ Lapicaddr' = Lapicaddr
  BY <1>1, SameTable
<1>3. StacksMapped /\ StacksMapped'
  BY <1>1 DEF KernelInv, StacksMapped, Alone
<1>4. tss' = [tss EXCEPT ![BSP] = 0]
  BY <1>1 DEF TrapInit, Cpunum, KernelInv
<1>5. KernelInv'
  BY <1>1, <1>2, <1>3 DEF KernelInv, Phases, Memory, Alone, Late, Starting
<1>6. ApsType' /\ Apart' /\ StatusInv'
  BY <1>1, <1>4 DEF ApsType, Apart, StatusInv, Memory
<1>7. ASSUME NEW c \in CPU PROVE ApInv(c)'
  <2>1. pc[c] = "off" /\ pc'[c] = "off"
    BY <1>1, <1>7, AllOff DEF Alone
  <2>2. tss'[c] = tss[c] \/ (c = BSP /\ tss'[c] = 0)
    BY <1>4 DEF ApsType
  <2>3. QED
    BY <1>1, <1>2, <1>3, <2>1, <2>2 DEF ApInv, Memory, Late, Starting, Booting, ApPc
<1>8. QED
  BY <1>5, <1>6, <1>7

\* A table without unknown entries is read to its end, and the boot processor found.
LEMMA MpInitEffect ==
    ASSUME KernelInv, MpInit
    PROVE  /\ ncpu' \in Nat /\ ncpu' <= NCPU /\ ncpu' <= MAXENTRY
           /\ IF Lapicaddr THEN bootcpu' = BSP ELSE ncpu' <= 1
           /\ \/ status' = status
              \/ bootcpu' \in 0 .. NCPU - 1 /\ status' = [status EXCEPT ![bootcpu'] = "STARTED"]
<1> USE DEF KernelInv
<1>1. CASE table = None
  <2>1. UNCHANGED <<ncpu, bootcpu, status>> /\ ~Lapicaddr /\ ncpu = 0
    BY <1>1 DEF MpInit, Lapicaddr
  <2>2. QED
    BY <2>1, Sizes
<1>2. CASE table # None
  <2> DEFINE boot == IF KnownBefore(table, BootEntry(table)) THEN BootIndex(table) ELSE 0
             n == ProcsBefore(table, Len(table) + 1)
  <2>1. table \in Table
    BY <1>2
  <2>2. n \in Nat /\ n <= MAXENTRY /\ BootIndex(table) \in Nat /\ BootIndex(table) < NCPU
        /\ Len(table) \in Nat /\ BootEntry(table) \in 1 .. Len(table)
    BY <2>1, TableCounts DEF CPU
  <2>3. BSP = BootIndex(table) /\ (Lapicaddr <=> KnownBefore(table, Len(table) + 1))
    BY <1>2 DEF BSP, Lapicaddr, Ismp
  <2>4. /\ bootcpu' = boot /\ status' = [status EXCEPT ![boot] = "STARTED"]
        /\ ncpu' = IF Lapicaddr THEN CountOf(n) ELSE 1
    BY <1>2 DEF MpInit, Lapicaddr
  <2>5. Lapicaddr => KnownBefore(table, BootEntry(table))
    <3>1. ASSUME NEW j \in DOMAIN table, j < BootEntry(table) PROVE j < Len(table) + 1
      BY <2>1, <2>2, <3>1, TableCounts
    <3>2. QED
      BY <2>3, <3>1 DEF KnownBefore
  <2>6. boot \in 0 .. NCPU - 1
    BY SMTT(60), <2>2, Sizes
  <2>7. CountOf(n) \in Nat /\ CountOf(n) <= NCPU /\ CountOf(n) <= MAXENTRY
    BY <2>2, Sizes DEF CountOf
  <2>8. ncpu' \in Nat /\ ncpu' <= NCPU /\ ncpu' <= MAXENTRY /\ (~Lapicaddr => ncpu' <= 1)
    BY <2>4, <2>7, Sizes
  <2>9. Lapicaddr => bootcpu' = BSP
    BY <2>3, <2>4, <2>5
  <2>10. QED
    BY <2>4, <2>6, <2>8, <2>9
<1>3. QED
  BY <1>1, <1>2

LEMMA MpInitInv ==
    ASSUME Inv, MpInit
    PROVE  Inv'
<1> USE DEF Inv
<1>1. /\ UNCHANGED <<kernmap, mmiobase>> /\ UNCHANGED <<pc, esp, tss, window>>
      /\ UNCHANGED <<table, lapic, mpentry_kstack, starting>>
      /\ phase = "mp_init" /\ phase' = "lapic_init"
  BY DEF MpInit, aps, mem
<1>2. BSP' = BSP /\ Lapicaddr' = Lapicaddr
  BY <1>1, SameTable
<1>3. StacksMapped /\ StacksMapped'
  BY <1>1 DEF KernelInv, StacksMapped, Alone
<1>4. /\ ncpu' \in Nat /\ ncpu' <= NCPU /\ ncpu' <= MAXENTRY
      /\ IF Lapicaddr THEN bootcpu' = BSP ELSE ncpu' <= 1
      /\ \/ status' = status
         \/ bootcpu' \in 0 .. NCPU - 1 /\ status' = [status EXCEPT ![bootcpu'] = "STARTED"]
  BY MpInitEffect
<1>5. KernelInv'
  BY <1>1, <1>2, <1>3, <1>4 DEF KernelInv, Phases, Memory, Alone, Late, Starting
<1>6. ApsType' /\ Apart'
  BY <1>1 DEF ApsType, Apart
<1>7. StatusInv'
  <2>1. \A i \in 0 .. NCPU - 1 : status[i] = "UNUSED"
    BY <1>1 DEF StatusInv
  <2>2. \A i \in 0 .. NCPU - 1 : status'[i] = "STARTED" => i = bootcpu'
    BY <1>4, <2>1 DEF StatusInv
  <2>3. status' \in [0 .. NCPU - 1 -> {"UNUSED", "STARTED"}]
    BY <1>4 DEF StatusInv
  <2>4. \A c \in CPU : c < NCPU => c \in 0 .. NCPU - 1
    BY Sizes DEF CPU
  <2>5. QED
    BY <1>1, <2>2, <2>3, <2>4 DEF StatusInv, Memory
<1>8. ASSUME NEW c \in CPU PROVE ApInv(c)'
  <2>1. pc[c] = "off" /\ pc'[c] = "off"
    BY <1>1, <1>8, AllOff DEF Alone
  <2>2. QED
    BY <1>1, <1>2, <1>3, <2>1 DEF ApInv, Memory, Late, Starting, Booting, ApPc
<1>9. QED
  BY <1>5, <1>6, <1>7, <1>8

\* The k-th stack and the gap below it are in the last page table below KERNBASE.
LEMMA StackAddresses ==
    ASSUME NEW p \in Nat, NEW ph \in Nat, NEW k \in Nat, 2 * k <= p,
           NEW n \in 0 .. k - 1, NEW m \in Nat, m + 1 < 4 * p
    PROVE  /\ 5 * p - 2 * n - 1 \in 0 .. 5 * p + ph - 1 /\ 5 * p - 2 * n - 1 # m
           /\ 5 * p - 2 * n - 2 \in 0 .. 5 * p + ph - 1 /\ 5 * p - 2 * n - 2 # m
<1>1. n \in Nat /\ 2 * n + 2 <= p
  OBVIOUS
<1>2. QED
  BY <1>1

\* A page of the MMIO region is mapped; the stacks are not there.
LEMMA StacksKept ==
    ASSUME KernelInv, StacksMapped, MmioFits(1), MmioMap(mmiobase)
    PROVE  /\ StacksMapped' /\ kernmap' = [va \in 0 .. VTOP - 1 |-> kernmap'[va]]
           /\ mmiobase + 1 < MMIOLIM
<1> USE DEF KernelInv
<1>1. mmiobase + 1 < 4 * PT /\ mmiobase \in Nat
  BY DEF MmioFits, MMIOLIM
<1>2. kernmap' = [kernmap EXCEPT ![mmiobase] = <<"lapic", 0>>]
  BY DEF MmioMap
<1>3. ASSUME NEW n \in 0 .. NCPU - 1
      PROVE  /\ 5 * PT - 2 * n - 1 \in 0 .. 5 * PT + PHYSMAP - 1 /\ 5 * PT - 2 * n - 1 # mmiobase
             /\ 5 * PT - 2 * n - 2 \in 0 .. 5 * PT + PHYSMAP - 1 /\ 5 * PT - 2 * n - 2 # mmiobase
  BY <1>1, Sizes, StackAddresses
<1>4. VTOP = 5 * PT + PHYSMAP /\ KSTACKTOP = 5 * PT
  BY DEF VTOP, KERNBASE, KSTACKTOP
<1>5. StacksMapped'
  <2> HIDE DEF KernelInv
  <2>1. DOMAIN kernmap = 0 .. 5 * PT + PHYSMAP - 1
    <3>1. kernmap = [va \in 0 .. VTOP - 1 |-> kernmap[va]]
      BY DEF KernelInv
    <3>2. DOMAIN [va \in 0 .. VTOP - 1 |-> kernmap[va]] = 0 .. VTOP - 1
      OBVIOUS
    <3>3. DOMAIN kernmap = 0 .. VTOP - 1
      BY <3>1, <3>2, Zenon
    <3>4. QED
      BY <3>3, <1>4, Sizes
  <2>2. \A va \in DOMAIN kernmap : va # mmiobase => kernmap'[va] = kernmap[va]
    BY <1>2
  <2>3. ASSUME NEW n \in 0 .. NCPU - 1
        PROVE  /\ kernmap'[KSTACKTOP - 2 * n - 1] = PercpuKstack(n)
               /\ kernmap'[KSTACKTOP - 2 * n - 2] = None
    BY <1>3, <1>4, <2>1, <2>2 DEF StacksMapped
  <2>4. QED
    BY <2>3 DEF StacksMapped, PercpuKstack, KSTACKTOP
<1>6. QED
  BY <1>1, <1>2, <1>5 DEF MMIOLIM

LEMMA BspLapicInitInv ==
    ASSUME Inv, BspLapicInit
    PROVE  Inv'
<1> USE DEF Inv
<1>1. /\ UNCHANGED <<pc, esp, tss, table, ncpu, bootcpu, status, mpentry_kstack, starting>>
      /\ phase = "lapic_init" /\ phase' \in {"lock", "panic"}
  BY DEF BspLapicInit
<1>2. BSP' = BSP /\ Lapicaddr' = Lapicaddr /\ BSP \in CPU
  BY <1>1, SameTable, BootCpu DEF KernelInv
<1>3. StacksMapped /\ lapic = None /\ mmiobase \in Nat /\ mmiobase >= MMIOBASE + 3
      /\ MMIOBASE \in Nat
  BY <1>1, Sizes DEF KernelInv, Alone, MMIOBASE
<1>4. \A c \in CPU : pc[c] = "off" /\ pc'[c] = "off"
  BY <1>1, AllOff DEF Alone
<1>5. StatusInv'
  BY <1>1 DEF StatusInv, Memory
<1>6. CASE window' = window /\ mmiobase' = mmiobase /\ kernmap' = kernmap /\ lapic' = lapic
           /\ (phase' = "lock" => ~Lapicaddr)
  <2>1. StacksMapped'
    BY <1>3, <1>6 DEF StacksMapped
  <2>2. KernelInv'
    BY <1>1, <1>2, <1>3, <1>6, <2>1
       DEF KernelInv, Phases, Memory, Alone, Late, Starting
  <2>3. ApsType' /\ Apart'
    BY <1>1, <1>6 DEF ApsType, Apart
  <2>4. ASSUME NEW c \in CPU PROVE ApInv(c)'
    BY <1>1, <1>2, <1>4, <1>6, <2>1 DEF ApInv, Memory, Late, Starting, Booting, ApPc
  <2>5. QED
    BY <1>5, <2>2, <2>3, <2>4
<1>7. CASE /\ Lapicaddr /\ MmioFits(1) /\ MmioMap(mmiobase) /\ phase' = "lock"
           /\ window' = [window EXCEPT ![BSP] = mmiobase]
           /\ lapic' = mmiobase /\ mmiobase' = mmiobase + 1
  <2>1. StacksMapped' /\ kernmap' = [va \in 0 .. VTOP - 1 |-> kernmap'[va]]
        /\ mmiobase + 1 < MMIOLIM
    BY <1>3, <1>7, StacksKept
  <2>2. KernelInv'
    BY <1>1, <1>2, <1>3, <1>7, <2>1, Sizes
       DEF KernelInv, Phases, Memory, Alone, Late, Starting
  <2>3. \A c \in CPU : window'[c] = IF c = BSP THEN mmiobase ELSE window[c]
    BY <1>2, <1>7 DEF ApsType
  <2>4. \A c \in CPU : window[c] # None => window[c] \in Nat /\ window[c] < mmiobase
    BY <1>4 DEF ApInv
  <2>5. ApsType' /\ Apart'
    <3>1. ApsType'
      BY <1>1, <1>7 DEF ApsType
    <3>2. ASSUME NEW c \in CPU, NEW d \in CPU, c # d, window'[c] # None
          PROVE  window'[c] # window'[d]
      <4>1. CASE c = BSP
        BY <4>1, <3>2, <2>3, <2>4, <1>3, Sizes
      <4>2. CASE d = BSP
        BY <4>2, <3>2, <2>3, <2>4, <1>3, Sizes
      <4>3. CASE c # BSP /\ d # BSP
        BY <4>3, <3>2, <2>3 DEF Apart
      <4>4. QED
        BY <4>1, <4>2, <4>3
    <3>3. QED
      BY <3>1, <3>2 DEF Apart
  <2>6. ASSUME NEW c \in CPU PROVE ApInv(c)'
    <3>1. window'[c] # None => /\ window'[c] \in Nat /\ window'[c] >= MMIOBASE + 3
                               /\ window'[c] < MMIOLIM /\ window'[c] < mmiobase'
      <4>1. CASE c = BSP
        <5>1. window'[c] = mmiobase /\ mmiobase < mmiobase + 1
          BY <4>1, <2>3, <1>3
        <5>2. MMIOLIM \in Nat
          BY Sizes DEF MMIOLIM
        <5>3. QED
          BY <5>1, <5>2, <1>3, <1>7, <2>1
      <4>2. CASE c # BSP
        <5>1. window'[c] = window[c]
          BY <4>2, <2>3
        <5>2. window[c] # None => /\ window[c] \in Nat /\ window[c] >= MMIOBASE + 3
                                  /\ window[c] < MMIOLIM
          BY DEF ApInv
        <5>3. QED
          BY <5>1, <5>2, <2>4, <1>3, <1>7
      <4>3. QED
        BY <4>1, <4>2
    <3>2. QED
      BY <1>1, <1>2, <1>4, <1>7, <2>1, <3>1
         DEF ApInv, Memory, Late, Starting, Booting, ApPc, MMIOBASE, MMIOLIM
  <2>7. QED
    BY <1>5, <2>2, <2>5, <2>6
<1>8. QED
  BY <1>6, <1>7 DEF BspLapicInit

\* The steps that leave the map, the windows and the stacks alone.
LEMMA Quiet ==
    ASSUME Inv, UNCHANGED <<kernmap, mmiobase, table, ncpu, bootcpu, lapic>>,
           UNCHANGED <<tss, window>>
    PROVE  /\ BSP' = BSP /\ Lapicaddr' = Lapicaddr /\ (StacksMapped => StacksMapped')
           /\ Apart'
BY SameTable DEF Inv, StacksMapped, Apart

LEMMA LockKernelInv ==
    ASSUME Inv, LockKernel
    PROVE  Inv'
<1> USE DEF Inv
<1>1. /\ UNCHANGED <<kernmap, mmiobase, table, ncpu, bootcpu, lapic>>
      /\ UNCHANGED <<tss, window>> /\ UNCHANGED <<pc, esp, status>>
      /\ phase = "lock" /\ phase' = "boot_aps" /\ starting' = 0
  BY DEF LockKernel, mem, aps
<1>2. BSP' = BSP /\ Lapicaddr' = Lapicaddr /\ (StacksMapped => StacksMapped') /\ Apart'
  BY <1>1, Quiet
<1>3. KernelInv'
  BY <1>1, <1>2 DEF KernelInv, Phases, Memory, Alone, Late, Starting
<1>4. ApsType' /\ StatusInv'
  BY <1>1 DEF ApsType, StatusInv, Memory
<1>5. ASSUME NEW c \in CPU PROVE ApInv(c)'
  <2>1. pc[c] = "off" /\ pc'[c] = "off"
    BY <1>1, <1>5, AllOff DEF Alone
  <2>2. QED
    BY <1>1, <1>2, <2>1 DEF ApInv, Memory, Late, Starting, Booting, ApPc
<1>6. QED
  BY <1>2, <1>3, <1>4, <1>5

LEMMA BootApInv ==
    ASSUME Inv, BootAp
    PROVE  Inv'
<1> USE DEF Inv
<1>1. /\ UNCHANGED <<kernmap, mmiobase, table, ncpu, bootcpu, lapic>>
      /\ UNCHANGED <<tss, window>> /\ UNCHANGED <<esp, status>>
      /\ phase = "boot_aps"
  BY DEF BootAp, mem
<1>2. BSP' = BSP /\ Lapicaddr' = Lapicaddr /\ (StacksMapped => StacksMapped') /\ Apart'
  BY <1>1, Quiet
<1>3. \A c \in CPU : pc[c] \notin Booting
  BY <1>1 DEF ApInv, Starting
<1>4. CASE /\ UNCHANGED pc /\ phase' \in {"boot_aps", "sched"}
           /\ starting' \in {starting, starting + 1}
  <2>1. starting \in Nat /\ starting' \in Nat
    BY <1>4 DEF KernelInv
  <2>2. KernelInv'
    BY <1>1, <1>2, <1>4, <2>1 DEF KernelInv, Phases, Memory, Alone, Late, Starting
  <2>3. ApsType' /\ StatusInv'
    BY <1>1, <1>4 DEF ApsType, StatusInv, Memory
  <2>4. ASSUME NEW c \in CPU PROVE ApInv(c)'
    <3>1. pc[c] # "off" => c < starting'
      BY <1>1, <1>4, <2>1, Sizes DEF ApInv, CPU
    <3>2. pc[c] # "off" => c <= starting'
      BY <3>1, <2>1, Sizes DEF CPU
    <3>3. QED
      BY <1>1, <1>2, <1>3, <1>4, <3>1, <3>2 DEF ApInv, Memory, Late, Starting
  <2>5. QED
    BY <1>2, <2>2, <2>3, <2>4
<1>5. CASE /\ starting < ncpu /\ starting # Cpunum(BSP) /\ mpentry_kstack' = starting
           /\ pc' = [pc EXCEPT ![starting] = "reset"]
           /\ phase' = "startup1" /\ UNCHANGED starting
  <2>1. lapic # None
    <3>1. starting \in Nat /\ ncpu \in Nat
      BY DEF KernelInv
    <3>2. lapic = None => ncpu <= 1
      BY <1>1 DEF KernelInv, Late
    <3>3. lapic = None => starting # 0
      BY <1>5 DEF Cpunum
    <3>4. QED
      BY <1>5, <3>1, <3>2, <3>3
  <2>2. starting # BSP /\ bootcpu = BSP
    BY <1>1, <1>5, <2>1 DEF KernelInv, Cpunum, Late
  <2>3. starting \in CPU /\ starting \in 0 .. NCPU - 1
    BY <1>5, Sizes DEF KernelInv, CPU
  <2>4. pc[starting] = "off"
    BY <1>1, <2>3, Sizes DEF ApInv, CPU
  <2>5. KernelInv'
    BY <1>1, <1>2, <1>5 DEF KernelInv, Phases, Memory, Alone, Late, Starting
  <2>6. ApsType'
    BY <1>1, <1>5 DEF ApsType, ApPc
  <2>7. \A c \in CPU : pc'[c] = IF c = starting THEN "reset" ELSE pc[c]
    BY <1>5 DEF ApsType
  <2>8. StatusInv'
    <3>1. status[starting] # "STARTED"
      <4>1. starting < NCPU
        BY <2>3, Sizes
      <4>2. QED
        BY <2>2, <2>3, <2>4, <4>1, BootCpu DEF StatusInv, Up
    <3>2. QED
      BY <1>1, <1>5, <2>7, <3>1 DEF StatusInv, Memory
  <2>9. ASSUME NEW c \in CPU PROVE ApInv(c)'
    <3>1. CASE c = starting
      BY <1>1, <1>2, <1>5, <2>1, <2>2, <2>3, <2>7, <3>1, Sizes
         DEF ApInv, Memory, Late, Starting, Booting, ApPc, CPU
    <3>2. CASE c # starting
      BY <1>1, <1>2, <1>3, <1>5, <2>7, <3>2 DEF ApInv, Memory, Late, Starting
    <3>3. QED
      BY <3>1, <3>2
  <2>10. QED
    BY <1>2, <2>5, <2>6, <2>8, <2>9
<1>6. QED
  BY <1>4, <1>5 DEF BootAp

LEMMA StartupInv ==
    ASSUME Inv, Startup
    PROVE  Inv'
<1> USE DEF Inv
<1>1. /\ UNCHANGED <<kernmap, mmiobase, table, ncpu, bootcpu, lapic>>
      /\ UNCHANGED <<tss, window>> /\ UNCHANGED <<esp, status, starting, mpentry_kstack>>
      /\ phase \in {"startup1", "startup2"} /\ phase' \in {"startup2", "wait"}
  BY DEF Startup, mem, kernel
<1>2. BSP' = BSP /\ Lapicaddr' = Lapicaddr /\ (StacksMapped => StacksMapped') /\ Apart'
  BY <1>1, Quiet
<1>3. \/ pc[starting] = "reset" /\ pc' = [pc EXCEPT ![starting] = "entry"]
      \/ pc' = pc
  BY DEF Startup
<1>4. KernelInv'
  BY <1>1, <1>2 DEF KernelInv, Phases, Memory, Alone, Late, Starting
<1>5. ApsType'
  BY <1>1, <1>3 DEF ApsType, ApPc
<1>6. \A c \in CPU : pc'[c] = pc[c] \/ (pc[c] = "reset" /\ pc'[c] = "entry")
  BY <1>3 DEF ApsType
<1>7. StatusInv'
  BY <1>1, <1>6 DEF StatusInv, Memory, Up
<1>8. ASSUME NEW c \in CPU PROVE ApInv(c)'
  BY <1>1, <1>2, <1>6 DEF ApInv, Memory, Late, Starting, Booting, ApPc
<1>9. QED
  BY <1>2, <1>4, <1>5, <1>7, <1>8

\* The processor that boot_aps waits for has told it.
LEMMA WaitInv ==
    ASSUME Inv, Wait
    PROVE  Inv'
<1> USE DEF Inv
<1>1. /\ UNCHANGED <<kernmap, mmiobase, table, ncpu, bootcpu, lapic>>
      /\ UNCHANGED <<tss, window>> /\ UNCHANGED <<pc, esp, status>>
      /\ phase = "wait" /\ phase' = "boot_aps" /\ starting' = starting + 1
      /\ status[starting] = "STARTED"
  BY DEF Wait, mem, aps
<1>2. BSP' = BSP /\ Lapicaddr' = Lapicaddr /\ (StacksMapped => StacksMapped') /\ Apart'
  BY <1>1, Quiet
<1>3. starting \in Nat /\ starting' \in Nat
  BY <1>1 DEF KernelInv
<1>4. KernelInv'
  BY <1>1, <1>2, <1>3 DEF KernelInv, Phases, Memory, Alone, Late, Starting
<1>5. ApsType' /\ StatusInv'
  BY <1>1 DEF ApsType, StatusInv, Memory
<1>6. ASSUME NEW c \in CPU PROVE ApInv(c)'
  <2>1. pc[c] \notin Booting
    <3>1. SUFFICES ASSUME pc[c] \in Booting PROVE FALSE
      OBVIOUS
    <3>2. c = starting /\ c # BSP /\ bootcpu = BSP /\ c < ncpu
      BY <3>1 DEF ApInv, Booting
    <3>3. c < NCPU
      BY <3>2, Sizes DEF KernelInv, CPU
    <3>4. pc[c] \in Up
      BY <1>1, <3>2, <3>3 DEF StatusInv
    <3>5. QED
      BY <3>1, <3>4 DEF Up, Booting
  <2>2. pc[c] # "off" => c < starting' /\ c <= starting'
    BY <1>1, <1>3, Sizes DEF ApInv, CPU
  <2>3. QED
    BY <1>1, <1>2, <2>1, <2>2 DEF ApInv, Memory, Late, Starting
<1>7. QED
  BY <1>2, <1>4, <1>5, <1>6

LEMMA BspSchedInv ==
    ASSUME Inv, BspSched
    PROVE  Inv'
<1> USE DEF Inv
<1>1. /\ UNCHANGED <<kernmap, mmiobase, table, ncpu, bootcpu, lapic>>
      /\ UNCHANGED <<tss, window>> /\ UNCHANGED <<pc, esp, status, starting, mpentry_kstack>>
      /\ phase = "sched" /\ phase' = "done"
  BY DEF BspSched, mem, aps
<1>2. BSP' = BSP /\ Lapicaddr' = Lapicaddr /\ (StacksMapped => StacksMapped') /\ Apart'
  BY <1>1, Quiet
<1>3. KernelInv'
  BY <1>1, <1>2 DEF KernelInv, Phases, Memory, Alone, Late, Starting
<1>4. ApsType' /\ StatusInv'
  BY <1>1 DEF ApsType, StatusInv, Memory
<1>5. ASSUME NEW c \in CPU PROVE ApInv(c)'
  BY <1>1, <1>2 DEF ApInv, Memory, Late, Starting
<1>6. QED
  BY <1>2, <1>3, <1>4, <1>5

----------------------------------------------------------------------------
(* The other processors *)

\* What is true of the processor that takes a step.
LEMMA ApFacts ==
    ASSUME Inv, NEW c \in CPU, NEW label \in ApPc \ {"off"}, ApAt(c, label)
    PROVE  /\ phase \in Late /\ lapic # None /\ c # BSP /\ c < NCPU /\ bootcpu = BSP
           /\ c \in 0 .. NCPU - 1 /\ StacksMapped
           /\ mmiobase \in Nat /\ mmiobase >= MMIOBASE + 3 /\ pc[c] = label
           /\ label \in Booting => /\ phase \in Starting /\ mpentry_kstack = c /\ starting = c
                                  /\ \A d \in CPU : d # c => pc[d] \notin Booting
<1> USE DEF Inv
<1>1. pc[c] = label /\ label # "off" /\ phase # "panic"
  BY DEF ApAt
<1>2. phase \in Late /\ lapic # None /\ c # BSP /\ c < ncpu /\ bootcpu = BSP
  BY <1>1 DEF ApInv
<1>3. c < NCPU /\ c \in 0 .. NCPU - 1
  BY <1>2, Sizes DEF KernelInv, CPU
<1>4. StacksMapped /\ mmiobase \in Nat /\ mmiobase >= MMIOBASE + 3
  BY <1>2 DEF KernelInv
<1>5. ASSUME label \in Booting
      PROVE  /\ phase \in Starting /\ mpentry_kstack = c /\ starting = c
             /\ \A d \in CPU : d # c => pc[d] \notin Booting
  BY <1>1, <1>5 DEF ApInv
<1>6. QED
  BY <1>1, <1>2, <1>3, <1>4, <1>5

\* A step of c that moves it from one place to another, and changes nothing that the
\* kernel's part of the invariant speaks of.
LEMMA ApMoves ==
    ASSUME Inv, NEW c \in CPU, NEW from \in ApPc \ {"off"}, ApAt(c, from),
           NEW to \in ApPc, pc' = [pc EXCEPT ![c] = to],
           UNCHANGED <<kernmap, mmiobase, table, ncpu, bootcpu, lapic>>,
           UNCHANGED <<phase, starting, mpentry_kstack, window>>
    PROVE  /\ KernelInv' /\ Apart' /\ pc' \in [CPU -> ApPc]
           /\ BSP' = BSP /\ StacksMapped'
           /\ \A d \in CPU : pc'[d] = IF d = c THEN to ELSE pc[d]
<1> USE DEF Inv
<1>1. BSP' = BSP /\ Lapicaddr' = Lapicaddr
  BY SameTable
<1>2. StacksMapped'
  BY ApFacts DEF StacksMapped
<1>3. KernelInv'
  BY <1>1, <1>2 DEF KernelInv
<1>4. Apart'
  BY DEF Apart
<1>5. pc' \in [CPU -> ApPc] /\ \A d \in CPU : pc'[d] = IF d = c THEN to ELSE pc[d]
  BY DEF ApsType
<1>6. QED
  BY <1>1, <1>2, <1>3, <1>4, <1>5

LEMMA MpEntryInv ==
    ASSUME Inv, NEW c \in CPU, MpEntry(c)
    PROVE  Inv'
<1> USE DEF Inv
<1>1. /\ UNCHANGED <<kernmap, mmiobase, table, ncpu, bootcpu, lapic>>
      /\ UNCHANGED <<phase, starting, mpentry_kstack, window>> /\ UNCHANGED <<tss, status>>
      /\ ApAt(c, "entry") /\ pc' = [pc EXCEPT ![c] = "mp_main"]
      /\ esp' = [esp EXCEPT ![c] = mpentry_kstack]
  BY DEF MpEntry, mem, kernel
<1>2. "entry" \in ApPc \ {"off"} /\ "mp_main" \in ApPc /\ "entry" \in Booting
  BY DEF ApPc, Booting
<1>3. /\ KernelInv' /\ Apart' /\ pc' \in [CPU -> ApPc] /\ BSP' = BSP /\ StacksMapped'
      /\ \A d \in CPU : pc'[d] = IF d = c THEN "mp_main" ELSE pc[d]
  BY <1>1, <1>2, ApMoves
<1>4. mpentry_kstack = c /\ pc[c] = "entry"
  BY <1>1, <1>2, ApFacts
<1>5. ApsType'
  BY <1>1, <1>3 DEF ApsType
<1>6. StatusInv'
  BY <1>1, <1>3, <1>4 DEF StatusInv, Up
<1>7. ASSUME NEW d \in CPU PROVE ApInv(d)'
  <2>1. esp'[d] \in {None, d}
    BY <1>1, <1>4 DEF ApsType, ApInv
  <2>2. QED
    BY <1>1, <1>3, <1>4, <2>1 DEF ApInv, Booting, ApPc
<1>8. QED
  BY <1>3, <1>5, <1>6, <1>7

LEMMA ApLapicMapInv ==
    ASSUME Inv, NEW c \in CPU, ApLapicMap(c)
    PROVE  Inv'
<1> USE DEF Inv
<1>1. /\ UNCHANGED <<mmiobase, table, ncpu, bootcpu, lapic, starting, mpentry_kstack>>
      /\ UNCHANGED <<esp, tss, status>> /\ ApAt(c, "mp_main")
  BY DEF ApLapicMap, kernel
<1>2. "mp_main" \in ApPc \ {"off"} /\ "mp_main" \in Booting
  BY DEF ApPc, Booting
<1>3. /\ phase \in Starting /\ StacksMapped /\ lapic # None /\ pc[c] = "mp_main"
      /\ mmiobase \in Nat /\ mmiobase >= MMIOBASE + 3
      /\ \A d \in CPU : d # c => pc[d] \notin Booting
  BY <1>1, <1>2, ApFacts
<1>4. BSP' = BSP /\ Lapicaddr' = Lapicaddr
  BY <1>1, SameTable
<1>5. CASE MmioFits(1)
  <2>1. /\ MmioMap(mmiobase) /\ UNCHANGED phase
        /\ window' = [window EXCEPT ![c] = mmiobase] /\ pc' = [pc EXCEPT ![c] = "mapped"]
    BY <1>5 DEF ApLapicMap, MmioReserve
  <2>2. /\ StacksMapped' /\ kernmap' = [va \in 0 .. VTOP - 1 |-> kernmap'[va]]
        /\ mmiobase + 1 < MMIOLIM
    BY <1>3, <1>5, <2>1, StacksKept
  <2>3. KernelInv'
    BY <1>1, <1>4, <2>1, <2>2 DEF KernelInv
  <2>4. /\ \A d \in CPU : pc'[d] = IF d = c THEN "mapped" ELSE pc[d]
        /\ \A d \in CPU : window'[d] = IF d = c THEN mmiobase ELSE window[d]
    BY <2>1 DEF ApsType
  <2>5. \A d \in CPU : d # c /\ window[d] # None => window[d] \in Nat /\ window[d] < mmiobase
    BY <1>3 DEF ApInv, Booting
  <2>6. ApsType' /\ StatusInv'
    BY <1>1, <1>3, <2>1, <2>4 DEF ApsType, StatusInv, Up, ApPc
  <2>7. Apart'
    <3>1. ASSUME NEW d \in CPU, NEW e \in CPU, d # e, window'[d] # None
          PROVE  window'[d] # window'[e]
      <4>1. CASE d = c
        BY <4>1, <3>1, <2>4, <2>5, <1>3, Sizes
      <4>2. CASE e = c
        BY <4>2, <3>1, <2>4, <2>5, <1>3, Sizes
      <4>3. CASE d # c /\ e # c
        BY <4>3, <3>1, <2>4 DEF Apart
      <4>4. QED
        BY <4>1, <4>2, <4>3
    <3>2. QED
      BY <3>1 DEF Apart
  <2>8. ASSUME NEW d \in CPU PROVE ApInv(d)'
    <3>1. CASE d = c
      <4>1. window'[d] = mmiobase /\ mmiobase < MMIOLIM
        BY <3>1, <2>2, <2>4, <1>3, Sizes DEF MMIOLIM
      <4>2. QED
        BY <1>1, <1>3, <1>4, <2>1, <2>2, <2>4, <3>1, <4>1
           DEF ApInv, Booting, ApPc, Memory, Starting
    <3>2. CASE d # c
      BY <1>1, <1>3, <1>4, <2>1, <2>2, <2>4, <3>2 DEF ApInv
    <3>3. QED
      BY <3>1, <3>2
  <2>9. QED
    BY <2>3, <2>6, <2>7, <2>8
<1>6. CASE ~MmioFits(1)
  <2>1. phase' = "panic" /\ UNCHANGED <<kernmap, window, pc>>
    BY <1>6 DEF ApLapicMap, MmioReserve
  <2>2. StacksMapped'
    BY <1>3, <2>1 DEF StacksMapped
  <2>3. KernelInv'
    BY <1>1, <1>4, <2>1 DEF KernelInv, Phases, Memory, Alone, Late, Starting
  <2>4. ApsType' /\ StatusInv' /\ Apart'
    BY <1>1, <2>1 DEF ApsType, StatusInv, Apart, Memory
  <2>5. ASSUME NEW d \in CPU PROVE ApInv(d)'
    BY <1>1, <1>4, <2>1, <2>2 DEF ApInv, Memory
  <2>6. QED
    BY <2>3, <2>4, <2>5
<1>7. QED
  BY <1>5, <1>6

LEMMA ApLapicInitInv ==
    ASSUME Inv, NEW c \in CPU, ApLapicInit(c)
    PROVE  Inv'
<1> USE DEF Inv
<1>1. /\ UNCHANGED <<kernmap, table, ncpu, bootcpu, starting, mpentry_kstack>>
      /\ UNCHANGED <<phase, esp, tss, status, window>> /\ ApAt(c, "mapped")
      /\ mmiobase' = mmiobase + 1 /\ lapic' = window[c]
      /\ pc' = [pc EXCEPT ![c] = "trap_init"]
  BY DEF ApLapicInit, MmioAdvance
<1>2. "mapped" \in ApPc \ {"off"} /\ "mapped" \in Booting
  BY DEF ApPc, Booting
<1>3. /\ phase \in Starting /\ StacksMapped /\ lapic # None /\ pc[c] = "mapped"
      /\ mmiobase \in Nat /\ mmiobase >= MMIOBASE + 3
      /\ \A d \in CPU : d # c => pc[d] \notin Booting
  BY <1>1, <1>2, ApFacts
<1>4. BSP' = BSP /\ Lapicaddr' = Lapicaddr
  BY <1>1, SameTable
<1>5. window[c] = mmiobase /\ lapic' # None
  BY <1>1, <1>3, Sizes DEF ApInv
<1>6. mmiobase' \in Nat /\ mmiobase' >= MMIOBASE + 3 /\ mmiobase' >= MMIOBASE
  BY <1>1, <1>3, Sizes DEF MMIOBASE
<1>7. StacksMapped'
  BY <1>1, <1>3 DEF StacksMapped
<1>8. KernelInv'
  BY <1>1, <1>3, <1>4, <1>5, <1>6, <1>7
     DEF KernelInv, Phases, Memory, Alone, Late, Starting
<1>9. \A d \in CPU : pc'[d] = IF d = c THEN "trap_init" ELSE pc[d]
  BY <1>1 DEF ApsType
<1>10. ApsType' /\ StatusInv' /\ Apart'
  BY <1>1, <1>3, <1>9 DEF ApsType, StatusInv, Apart, Up, ApPc
<1>11. ASSUME NEW d \in CPU PROVE ApInv(d)'
  <2>1. window[d] # None => window[d] < mmiobase'
    <3>1. CASE d = c
      BY <3>1, <1>1, <1>3, <1>5
    <3>2. CASE d # c
      <4>1. window[d] # None => window[d] \in Nat /\ window[d] < mmiobase
        BY <3>2, <1>3 DEF ApInv, Booting
      <4>2. QED
        BY <4>1, <1>1, <1>3
    <3>3. QED
      BY <3>1, <3>2
  <2>2. pc'[d] # "mapped"
    BY <1>3, <1>9 DEF Booting
  <2>3. QED
    BY <1>1, <1>3, <1>4, <1>5, <1>7, <1>9, <2>1, <2>2 DEF ApInv, Booting, ApPc
<1>12. QED
  BY <1>8, <1>10, <1>11

\* Each processor's TSS has its own stack, now that cpunum() asks its own APIC.
LEMMA ApTrapInitInv ==
    ASSUME Inv, NEW c \in CPU, ApTrapInit(c)
    PROVE  Inv'
<1> USE DEF Inv
<1>1. /\ UNCHANGED <<kernmap, mmiobase, table, ncpu, bootcpu, lapic>>
      /\ UNCHANGED <<phase, starting, mpentry_kstack, window>> /\ UNCHANGED <<esp, status>>
      /\ ApAt(c, "trap_init") /\ pc' = [pc EXCEPT ![c] = "started"]
      /\ tss' = [tss EXCEPT ![c] = Cpunum(c)]
  BY DEF ApTrapInit, mem, kernel
<1>2. "trap_init" \in ApPc \ {"off"} /\ "started" \in ApPc /\ "trap_init" \in Booting
  BY DEF ApPc, Booting
<1>3. /\ KernelInv' /\ Apart' /\ pc' \in [CPU -> ApPc] /\ BSP' = BSP /\ StacksMapped'
      /\ \A d \in CPU : pc'[d] = IF d = c THEN "started" ELSE pc[d]
  BY <1>1, <1>2, ApMoves
<1>4. lapic # None /\ pc[c] = "trap_init" /\ c < NCPU /\ bootcpu = BSP /\ phase \in Late
  BY <1>1, <1>2, ApFacts
<1>5. ApsType'
  BY <1>1, <1>3 DEF ApsType
<1>6. StatusInv'
  BY <1>1, <1>3, <1>4 DEF StatusInv, Up
<1>7. ASSUME NEW d \in CPU PROVE ApInv(d)'
  <2>1. tss'[d] = IF d = c THEN c ELSE tss[d]
    BY <1>1, <1>4 DEF ApsType, Cpunum
  <2>2. QED
    BY <1>1, <1>3, <1>4, <2>1 DEF ApInv, Booting, ApPc, Memory, Late, Starting
<1>8. QED
  BY <1>3, <1>5, <1>6, <1>7

\* The flag that it sets is its own.
LEMMA ApStartedInv ==
    ASSUME Inv, NEW c \in CPU, ApStarted(c)
    PROVE  Inv'
<1> USE DEF Inv
<1>1. /\ UNCHANGED <<kernmap, mmiobase, table, ncpu, bootcpu, lapic>>
      /\ UNCHANGED <<phase, starting, mpentry_kstack, window>> /\ UNCHANGED <<esp, tss>>
      /\ ApAt(c, "started") /\ pc' = [pc EXCEPT ![c] = "lock"]
      /\ status' = [status EXCEPT ![Cpunum(c)] = "STARTED"]
  BY DEF ApStarted, mem
<1>2. "started" \in ApPc \ {"off"} /\ "lock" \in ApPc
  BY DEF ApPc
<1>3. /\ KernelInv' /\ Apart' /\ pc' \in [CPU -> ApPc] /\ BSP' = BSP /\ StacksMapped'
      /\ \A d \in CPU : pc'[d] = IF d = c THEN "lock" ELSE pc[d]
  BY <1>1, <1>2, ApMoves
<1>4. Cpunum(c) = c /\ pc[c] = "started" /\ c \in 0 .. NCPU - 1 /\ phase \in Late
  BY <1>1, <1>2, ApFacts DEF Cpunum
<1>5. ApsType'
  BY <1>1, <1>3 DEF ApsType
<1>6. StatusInv'
  <2>1. status' \in [0 .. NCPU - 1 -> {"UNUSED", "STARTED"}]
    BY <1>1 DEF StatusInv
  <2>2. ASSUME NEW d \in CPU, d < NCPU, status'[d] = "STARTED"
        PROVE  d = bootcpu' \/ pc'[d] \in Up
    <3>1. d \in 0 .. NCPU - 1
      BY <2>2, Sizes DEF CPU
    <3>2. CASE d = c
      BY <3>2, <1>3 DEF Up
    <3>3. CASE d # c
      <4>1. status[d] = "STARTED" /\ pc'[d] = pc[d]
        BY <2>2, <3>1, <3>3, <1>1, <1>3, <1>4 DEF StatusInv
      <4>2. QED
        BY <4>1, <2>2, <1>1 DEF StatusInv
    <3>4. QED
      BY <3>2, <3>3
  <2>3. QED
    BY <1>1, <1>4, <2>1, <2>2 DEF StatusInv, Memory, Late, Starting
<1>7. ASSUME NEW d \in CPU PROVE ApInv(d)'
  BY <1>1, <1>3, <1>4 DEF ApInv, Booting, ApPc
<1>8. QED
  BY <1>3, <1>5, <1>6, <1>7

\* Whoever is up stays up.
LEMMA ApUpInv ==
    ASSUME Inv, NEW c \in CPU, ApLock(c) \/ ApSched(c)
    PROVE  Inv'
<1> USE DEF Inv
<1>1. PICK from \in {"lock", "sched"}, to \in {"sched", "done"} :
        /\ UNCHANGED <<kernmap, mmiobase, table, ncpu, bootcpu, lapic>>
        /\ UNCHANGED <<phase, starting, mpentry_kstack, window>> /\ UNCHANGED <<esp, tss, status>>
        /\ ApAt(c, from) /\ pc' = [pc EXCEPT ![c] = to]
  BY DEF ApLock, ApSched, mem
<1>2. from \in ApPc \ {"off"} /\ to \in ApPc
  BY DEF ApPc
<1>3. /\ KernelInv' /\ Apart' /\ pc' \in [CPU -> ApPc] /\ BSP' = BSP /\ StacksMapped'
      /\ \A d \in CPU : pc'[d] = IF d = c THEN to ELSE pc[d]
  BY <1>1, <1>2, ApMoves
<1>4. pc[c] = from
  BY <1>1 DEF ApAt
<1>5. ApsType'
  BY <1>1, <1>3 DEF ApsType
<1>6. StatusInv'
  BY <1>1, <1>3, <1>4 DEF StatusInv, Up
<1>7. ASSUME NEW d \in CPU PROVE ApInv(d)'
  BY <1>1, <1>3, <1>4 DEF ApInv, Booting, ApPc
<1>8. QED
  BY <1>3, <1>5, <1>6, <1>7

----------------------------------------------------------------------------

LEMMA InvStep == Inv /\ [Next]_vars => Inv'
<1> SUFFICES ASSUME Inv, [Next]_vars PROVE Inv'
  OBVIOUS
<1>1. CASE BspStep
  BY <1>1, MemInitInv, TrapInitInv, MpInitInv, BspLapicInitInv, LockKernelInv, BootApInv,
     StartupInv, WaitInv, BspSchedInv DEF BspStep
<1>2. ASSUME NEW c \in CPU, ApStep(c) PROVE Inv'
  BY <1>2, MpEntryInv, ApLapicMapInv, ApLapicInitInv, ApTrapInitInv, ApStartedInv, ApUpInv
     DEF ApStep
<1>3. CASE UNCHANGED vars
  <2>1. /\ UNCHANGED <<kernmap, mmiobase, table, ncpu, bootcpu, lapic>>
        /\ UNCHANGED <<tss, window>>
        /\ UNCHANGED <<pc, esp, status, starting, mpentry_kstack, phase>>
    BY <1>3 DEF vars, mem, kernel, aps
  <2>2. BSP' = BSP /\ Lapicaddr' = Lapicaddr /\ StacksMapped' = StacksMapped /\ Apart'
    BY <2>1, SameTable DEF Inv, StacksMapped, Apart
  <2>3. KernelInv' /\ ApsType' /\ StatusInv'
    BY <2>1, <2>2 DEF Inv, KernelInv, ApsType, StatusInv
  <2>4. ASSUME NEW c \in CPU PROVE ApInv(c)'
    BY <2>1, <2>2 DEF Inv, ApInv
  <2>5. QED
    BY <2>2, <2>3, <2>4 DEF Inv
<1>4. QED
  BY <1>1, <1>2, <1>3 DEF Next

\* Only the processor that boot_aps waits for is between its reset and the flag by
\* which it says that it is up; it is this that makes the unlocked code of mp_main safe.
THEOREM OneAtATime == Spec => []Inv
<1>1. QED
  BY InvInit, InvStep, PTL DEF Spec

\* Every processor that runs lapic_init gets an address of its own from
\* mmio_map_region, inside the MMIO region, though nobody holds a lock.
THEOREM ApicWindowsAreApart == Spec => []WindowsDisjoint
<1>1. Inv => WindowsDisjoint
  BY DEF Inv, ApInv, Apart, WindowsDisjoint
<1>2. QED
  BY <1>1, OneAtATime, PTL

\* Every processor starts and takes its traps on a stack of its own, with a page
\* below it that is not mapped: i386_init's trap_init, mpentry_kstack and the map that
\* check_kern_pgdir has seen.
THEOREM StacksAreOwn == Spec => []OwnStack
<1>1. ASSUME Inv, bootcpu = 0, NEW c \in CPU, NEW d \in CPU, c # d
      PROVE  /\ esp[c] # None => esp[c] # esp[d]
             /\ tss[c] # None => tss[c] # tss[d]
             /\ tss[c] # None =>
                   LET top == KSTACKTOP - tss[c] * (KSTKSIZE + KSTKGAP)
                   IN  kernmap[top - 1] = PercpuKstack(tss[c]) /\ kernmap[top - 2] = None
  <2> USE <1>1 DEF Inv
  <2>1. \A e \in CPU : e \in Nat /\ e # None
    BY Sizes DEF CPU
  <2>2. esp[c] # None => esp[c] # esp[d]
    BY <2>1 DEF ApInv
  <2>3. ASSUME NEW e \in CPU, tss[e] # None
        PROVE  /\ tss[e] \in 0 .. NCPU - 1 /\ StacksMapped
               /\ (e = BSP /\ tss[e] = 0) \/ (BSP = 0 /\ tss[e] = e)
    <3>1. \/ e = BSP /\ tss[e] = 0 /\ StacksMapped
          \/ tss[e] = e /\ e < NCPU /\ BSP = 0 /\ StacksMapped
      BY <2>3 DEF ApInv
    <3>2. e < NCPU => e \in 0 .. NCPU - 1
      BY Sizes DEF CPU
    <3>3. 0 \in 0 .. NCPU - 1
      BY Sizes
    <3>4. QED
      BY <3>1, <3>2, <3>3
  <2>4. tss[c] # None => tss[c] # tss[d]
    <3>1. ASSUME tss[c] # None, tss[d] # None PROVE tss[c] # tss[d]
      BY <2>3, <3>1
    <3>2. QED
      BY <3>1
  <2>5. ASSUME tss[c] # None
        PROVE  LET top == KSTACKTOP - tss[c] * (KSTKSIZE + KSTKGAP)
               IN  kernmap[top - 1] = PercpuKstack(tss[c]) /\ kernmap[top - 2] = None
    <3>1. PICK n \in 0 .. NCPU - 1 : n = tss[c]
      BY <2>3, <2>5
    <3>2. /\ kernmap[KSTACKTOP - 2 * n - 1] = PercpuKstack(n)
          /\ kernmap[KSTACKTOP - 2 * n - 2] = None
      BY <2>3, <2>5 DEF StacksMapped
    <3>3. /\ (KSTACKTOP - n * (KSTKSIZE + KSTKGAP)) - 1 = KSTACKTOP - 2 * n - 1
          /\ (KSTACKTOP - n * (KSTKSIZE + KSTKGAP)) - 2 = KSTACKTOP - 2 * n - 2
      BY Sizes DEF KSTKSIZE, KSTKGAP, KSTACKTOP
    <3>4. QED
      BY <3>1, <3>2, <3>3
  <2>6. QED
    BY <2>2, <2>4, <2>5
<1>2. Inv => OwnStack
  BY <1>1 DEF OwnStack
<1>3. QED
  BY <1>2, OneAtATime, PTL

----------------------------------------------------------------------------
(* Orders *)

\* A ranking that tells the elements of a set apart puts each of them in one place.
LEMMA ArrangedIs ==
    ASSUME NEW S, IsFiniteSet(S), NEW rank \in [S -> 1 .. Cardinality(S)],
           \A x, y \in S : rank[x] = rank[y] => x = y
    PROVE  /\ Cardinality(S) \in Nat
           /\ Arranged(rank) \in [1 .. Cardinality(S) -> S]
           /\ \A k \in 1 .. Cardinality(S) : rank[Arranged(rank)[k]] = k
           /\ \A x \in S : Arranged(rank)[rank[x]] = x
<1> DEFINE n == Cardinality(S)
<1>1. n \in Nat
  BY FS_CardinalityType
<1>2. IsFiniteSet(1 .. n) /\ Cardinality(1 .. n) = n
  BY <1>1, FS_Interval
<1>3. rank \in Injection(S, 1 .. n)
  BY DEF Injection, IsInjective
<1>4. rank \in Surjection(S, 1 .. n)
  BY <1>2, <1>3, FS_Injection
<1>5. \A k \in 1 .. n : \E x \in S : rank[x] = k
  BY <1>4 DEF Surjection
<1>6. Arranged(rank) = [k \in 1 .. n |-> CHOOSE x \in S : rank[x] = k]
  BY DEF Arranged
<1>7. \A k \in 1 .. n : Arranged(rank)[k] \in S /\ rank[Arranged(rank)[k]] = k
  BY <1>5, <1>6
<1>8. QED
  BY <1>1, <1>6, <1>7

\* How many elements of a set of integers are up to x, and from x on, ranks them.
LEMMA RankUp ==
    ASSUME NEW S \in SUBSET Int, IsFiniteSet(S), NEW x \in S
    PROVE  /\ Cardinality({y \in S : y <= x}) \in 1 .. Cardinality(S)
           /\ \A z \in S : Cardinality({y \in S : y <= z}) = Cardinality({y \in S : y <= x}) => z = x
<1> DEFINE U(z) == {y \in S : y <= z}
<1>1. \A z \in S : IsFiniteSet(U(z)) /\ Cardinality(U(z)) \in Nat /\ Cardinality(U(z)) <= Cardinality(S)
  BY FS_Subset, FS_CardinalityType
<1>2. U(x) # {} /\ Cardinality(S) \in Nat
  BY FS_CardinalityType
<1>3. Cardinality(U(x)) # 0
  BY <1>1, <1>2, FS_EmptySet
<1>4. ASSUME NEW v \in S, NEW w \in S, v < w
      PROVE  Cardinality(U(v)) # Cardinality(U(w))
  <2>1. U(v) \in SUBSET U(w) /\ w \in U(w) /\ w \notin U(v)
    <3>1. v \in Int /\ w \in Int /\ \A y \in S : y \in Int
      OBVIOUS
    <3>2. \A y \in S : y <= v => y <= w
      BY <1>4, <3>1
    <3>3. w <= w /\ ~(w <= v)
      BY <1>4, <3>1
    <3>4. QED
      BY <3>2, <3>3
  <2>2. QED
    BY <1>1, <2>1, FS_Subset
<1>5. ASSUME NEW z \in S, Cardinality(U(z)) = Cardinality(U(x))
      PROVE  z = x
  <2>1. ~(z < x) /\ ~(x < z)
    BY <1>4, <1>5
  <2>2. QED
    BY <2>1
<1>6. QED
  BY <1>1, <1>2, <1>3, <1>5

LEMMA RankDown ==
    ASSUME NEW S \in SUBSET Int, IsFiniteSet(S), NEW x \in S
    PROVE  /\ Cardinality({y \in S : y >= x}) \in 1 .. Cardinality(S)
           /\ \A z \in S : Cardinality({y \in S : y >= z}) = Cardinality({y \in S : y >= x}) => z = x
<1> DEFINE U(z) == {y \in S : y >= z}
<1>1. \A z \in S : IsFiniteSet(U(z)) /\ Cardinality(U(z)) \in Nat /\ Cardinality(U(z)) <= Cardinality(S)
  BY FS_Subset, FS_CardinalityType
<1>2. U(x) # {} /\ Cardinality(S) \in Nat
  BY FS_CardinalityType
<1>3. Cardinality(U(x)) # 0
  BY <1>1, <1>2, FS_EmptySet
<1>4. ASSUME NEW v \in S, NEW w \in S, v < w
      PROVE  Cardinality(U(v)) # Cardinality(U(w))
  <2>1. U(w) \in SUBSET U(v) /\ v \in U(v) /\ v \notin U(w)
    <3>1. v \in Int /\ w \in Int /\ \A y \in S : y \in Int
      OBVIOUS
    <3>2. \A y \in S : y >= w => y >= v
      BY <1>4, <3>1
    <3>3. v >= v /\ ~(v >= w)
      BY <1>4, <3>1
    <3>4. QED
      BY <3>2, <3>3
  <2>2. QED
    BY <1>1, <2>1, FS_Subset
<1>5. ASSUME NEW z \in S, Cardinality(U(z)) = Cardinality(U(x))
      PROVE  z = x
  <2>1. ~(z < x) /\ ~(x < z)
    BY <1>4, <1>5
  <2>2. QED
    BY <2>1
<1>6. QED
  BY <1>1, <1>2, <1>3, <1>5

\* No element of a list occurs twice.
Distinct(s) == \A i, j \in DOMAIN s : s[i] = s[j] => i = j

\* page_init's list has every page that is not reserved, once.
LEMMA FreePagesIs ==
    ASSUME NEW n \in Nat, npages = n
    PROVE  /\ FreePages \in Seq(0 .. n - 1) /\ Distinct(FreePages)
           /\ \A p \in 0 .. n - 1 : p \notin Reserved <=> \E i \in DOMAIN FreePages : FreePages[i] = p
<1> DEFINE S == (0 .. n - 1) \ Reserved
           rank == [p \in S |-> Cardinality({q \in S : q >= p})]
           k == Cardinality(S)
<1>1. IsFiniteSet(S) /\ S \in SUBSET Int
  <2>1. 0 \in Int /\ n - 1 \in Int
    OBVIOUS
  <2>2. IsFiniteSet(0 .. n - 1)
    BY <2>1, FS_Interval
  <2>3. S \in SUBSET (0 .. n - 1)
    OBVIOUS
  <2>4. IsFiniteSet(S)
    BY <2>2, <2>3, FS_Subset
  <2>5. QED
    BY <2>4
<1>2. FreePages = Arranged(rank)
  BY DEF FreePages
<1>3. rank \in [S -> 1 .. k] /\ \A x, y \in S : rank[x] = rank[y] => x = y
  BY <1>1, RankDown
<1> HIDE DEF rank
<1>4. /\ k \in Nat /\ FreePages \in [1 .. k -> S]
      /\ \A i \in 1 .. k : rank[FreePages[i]] = i
      /\ \A x \in S : FreePages[rank[x]] = x
  BY ZenonT(60), <1>1, <1>2, <1>3, ArrangedIs
<1>5. FreePages \in Seq(0 .. n - 1) /\ DOMAIN FreePages = 1 .. k
  <2>1. FreePages \in [1 .. k -> 0 .. n - 1]
    BY <1>4
  <2> HIDE DEF k, S
  <2>2. QED
    BY <1>4, <2>1
<1>6. Distinct(FreePages)
  BY ZenonT(60), <1>4, <1>5 DEF Distinct
<1>7. QED
  BY ZenonT(60), <1>3, <1>4, <1>5, <1>6

\* t has elements of s, each from a place of its own.
Rearranged(s, t) ==
    \E from \in [DOMAIN t -> DOMAIN s] :
       /\ \A k \in DOMAIN t : t[k] = s[from[k]]
       /\ \A k, l \in DOMAIN t : from[k] = from[l] => k = l

LEMMA RearrangedDistinct ==
    ASSUME NEW s, NEW t, Rearranged(s, t), Distinct(s)
    PROVE  Distinct(t) /\ \A k \in DOMAIN t : \E i \in DOMAIN s : t[k] = s[i]
  BY DEF Rearranged, Distinct

\* The places of the low elements, and where check_page_free_list puts each element.
LowAt(list) == {i \in DOMAIN list : list[i] < PT}
Place(list) ==
    [i \in DOMAIN list |->
       IF i \in LowAt(list) THEN Cardinality({j \in LowAt(list) : j <= i})
       ELSE Cardinality(LowAt(list))
              + Cardinality({j \in DOMAIN list \ LowAt(list) : j <= i})]

LEMMA LowFirstPlaces ==
    ASSUME NEW list
    PROVE  LowFirst(list) = [k \in DOMAIN list |-> list[Arranged(Place(list))[k]]]
  BY DEF LowFirst, Place, LowAt

\* check_page_free_list only reorders the list, and the low pages come first.
LEMMA LowFirstIs ==
    ASSUME NEW S, NEW list \in Seq(S)
    PROVE  /\ LowFirst(list) \in Seq(S) /\ Len(LowFirst(list)) = Len(list)
           /\ DOMAIN LowFirst(list) = DOMAIN list
           /\ Rearranged(list, LowFirst(list))
           /\ \A k \in DOMAIN list : k <= Cardinality(LowAt(list)) => LowFirst(list)[k] < PT
<1> DEFINE D == DOMAIN list
           L == LowAt(list)
           H == D \ L
           place == Place(list)
           n == Len(list)
           c == Cardinality(L)
<1>1. D = 1 .. n /\ n \in Nat
  OBVIOUS
<1>2. IsFiniteSet(D) /\ Cardinality(D) = n
  BY <1>1, FS_Interval
<1>3. L \in SUBSET D /\ H \in SUBSET D /\ L \cup H = D /\ L \cap H = {}
  BY DEF LowAt
<1>4. IsFiniteSet(L) /\ IsFiniteSet(H) /\ c \in Nat /\ Cardinality(H) \in Nat
  BY <1>2, <1>3, FS_Subset, FS_CardinalityType
<1>5. c + Cardinality(H) = n
  <2>1. Cardinality(L \cup H) = Cardinality(L) + Cardinality(H) - Cardinality(L \cap H)
    BY <1>4, FS_Union
  <2>2. Cardinality(L \cap H) = 0
    BY <1>3, FS_EmptySet
  <2>3. QED
    BY <2>1, <2>2, <1>2, <1>3, <1>4
<1>6. L \in SUBSET Int /\ H \in SUBSET Int
  BY <1>1, <1>3
<1>a. c \in Int /\ n \in Int /\ 0 <= c /\ c <= n
  BY <1>1, <1>4, <1>5
<1> HIDE DEF L, H, n, c, D, place
<1>7. ASSUME NEW i \in L
      PROVE  /\ place[i] \in 1 .. c /\ place[i] = Cardinality({j \in L : j <= i})
  <2>1. i \in DOMAIN list
    BY <1>3 DEF D
  <2>2. place[i] = Cardinality({j \in L : j <= i})
    BY <2>1 DEF Place, L, place
  <2>3. QED
    BY <2>2, <1>4, <1>6, RankUp DEF c
<1>8. ASSUME NEW i \in H
      PROVE  /\ place[i] \in c + 1 .. n
             /\ place[i] = c + Cardinality({j \in H : j <= i})
             /\ Cardinality({j \in H : j <= i}) \in Nat
  <2>1. i \in DOMAIN list /\ i \notin LowAt(list)
    BY <1>3 DEF D, H, L
  <2>2. place[i] = c + Cardinality({j \in H : j <= i})
    BY <2>1 DEF Place, L, H, c, D, place
  <2>3. Cardinality({j \in H : j <= i}) \in 1 .. Cardinality(H)
    BY <1>4, <1>6, RankUp
  <2>4. QED
    BY <2>2, <2>3, <1>1, <1>4, <1>5
<1>b. (\A i \in L : place[i] \in 1 .. c) /\ (\A i \in H : place[i] \in c + 1 .. n)
  BY <1>7, <1>8
<1>9. place \in [D -> 1 .. Cardinality(D)]
  <2>1. DOMAIN place = D /\ place = [i \in D |-> place[i]]
    BY DEF Place, D, place
  <2>2. \A i \in D : place[i] \in 1 .. n
    <3>1. TAKE i \in D
    <3>2. CASE i \in L
      BY <3>2, <1>a, <1>b
    <3>3. CASE i \in H
      BY <3>3, <1>a, <1>b
    <3>4. QED
      BY <3>2, <3>3, <1>3
  <2>3. QED
    BY <2>1, <2>2, <1>2
<1>10. ASSUME NEW x \in D, NEW y \in D, place[x] = place[y]
       PROVE  x = y
  <2>1. CASE x \in L /\ y \in L
    <3>1. Cardinality({j \in L : j <= x}) = Cardinality({j \in L : j <= y})
      BY <2>1, <1>7, <1>10
    <3>2. QED
      BY <2>1, <3>1, <1>4, <1>6, RankUp
  <2>2. CASE x \in H /\ y \in H
    <3>1. Cardinality({j \in H : j <= x}) = Cardinality({j \in H : j <= y})
      BY <2>2, <1>4, <1>8, <1>10
    <3>2. QED
      BY <2>2, <3>1, <1>4, <1>6, RankUp
  <2>3. CASE x \in L /\ y \in H
    BY <2>3, <1>a, <1>b, <1>10
  <2>4. CASE x \in H /\ y \in L
    BY <2>4, <1>a, <1>b, <1>10
  <2>5. QED
    BY <2>1, <2>2, <2>3, <2>4, <1>3
<1> DEFINE from == Arranged(place)
<1>11. /\ from \in [1 .. n -> D] /\ \A k \in 1 .. n : place[from[k]] = k
  BY <1>2, <1>9, <1>10, ArrangedIs
<1>12. LowFirst(list) = [k \in D |-> list[from[k]]]
  BY LowFirstPlaces DEF D, place
<1> HIDE DEF from
<1>13. LowFirst(list) \in [1 .. n -> S]
  BY <1>1, <1>11, <1>12 DEF D
<1>14. LowFirst(list) \in Seq(S) /\ Len(LowFirst(list)) = n /\ DOMAIN LowFirst(list) = D
  BY <1>1, <1>13
<1>15. Rearranged(list, LowFirst(list))
  <2>1. from \in [DOMAIN LowFirst(list) -> DOMAIN list]
    BY <1>1, <1>11, <1>14 DEF D
  <2>2. \A k \in DOMAIN LowFirst(list) : LowFirst(list)[k] = list[from[k]]
    BY <1>12, <1>14
  <2>3. \A k, l \in DOMAIN LowFirst(list) : from[k] = from[l] => k = l
    BY <1>1, <1>11, <1>14
  <2>4. QED
    BY <2>1, <2>2, <2>3 DEF Rearranged
<1>16. ASSUME NEW k \in D, k <= c
       PROVE  LowFirst(list)[k] < PT
  <2>1. k \in 1 .. n /\ from[k] \in D /\ place[from[k]] = k
    BY <1>1, <1>11
  <2>2. from[k] \in L
    <3>1. ASSUME from[k] \in H
          PROVE  FALSE
      <4>1. k \in c + 1 .. n /\ k \in Int
        BY <2>1, <3>1, <1>b
      <4>2. QED
        BY <4>1, <1>a, <1>16
    <3>2. QED
      BY <2>1, <3>1, <1>3
  <2>3. list[from[k]] < PT
    BY <2>2 DEF L, LowAt
  <2>4. QED
    BY <2>3, <1>12
<1>17. QED
  BY <1>14, <1>15, <1>16 DEF D, n, c, L

\* A list whose first three elements are taken off and others put there.
WithFront(x, y, z, list) == <<x, y, z>> \o SubSeq(list, 4, Len(list))

IsFront(S, t, x, y, z, list) ==
    /\ t \in Seq(S) /\ Len(t) = Len(list) /\ t[1] = x /\ t[2] = y /\ t[3] = z
    /\ \A k \in 4 .. Len(list) : t[k] = list[k]

LEMMA FrontIs ==
    ASSUME NEW S, NEW list \in Seq(S), Len(list) >= 3, NEW x \in S, NEW y \in S, NEW z \in S
    PROVE  IsFront(S, WithFront(x, y, z, list), x, y, z, list)
<1> DEFINE n == Len(list)
           a == <<x, y, z>>
           b == SubSeq(list, 4, n)
           ab == a \o b
<1>1. n \in Nat /\ n >= 3
  OBVIOUS
<1>2. a \in Seq(S) /\ Len(a) = 3 /\ a[1] = x /\ a[2] = y /\ a[3] = z
  BY <1>1
<1>3. b \in Seq(S) /\ Len(b) = n - 3 /\ \A i \in 1 .. n - 3 : b[i] = list[i + 3]
  <2>1. 4 \in Int /\ n \in Int /\ \A i \in 4 .. n : list[i] \in S
    BY <1>1
  <2>2. b \in Seq(S) /\ Len(b) = (IF 4 <= n THEN n - 4 + 1 ELSE 0)
        /\ \A i \in 1 .. n - 4 + 1 : b[i] = list[4 + i - 1]
    BY <2>1, SubSeqProperties
  <2>3. /\ n - 4 + 1 = n - 3 /\ (IF 4 <= n THEN n - 4 + 1 ELSE 0) = n - 3
        /\ \A i \in 1 .. n - 3 : 4 + i - 1 = i + 3
    <3>1. n \in Int /\ n >= 3
      BY <1>1
    <3> HIDE DEF n
    <3>2. QED
      BY <3>1
  <2> HIDE DEF b, n
  <2>4. QED
    BY <2>2, <2>3
<1>4. WithFront(x, y, z, list) = ab
  BY DEF WithFront
<1> HIDE DEF a, b, n
<1>5. ab \in Seq(S) /\ Len(ab) = Len(a) + Len(b)
      /\ \A i \in 1 .. Len(a) + Len(b) :
           ab[i] = IF i <= Len(a) THEN a[i] ELSE b[i - Len(a)]
  <2>1. a \in Seq(S) /\ b \in Seq(S)
    BY <1>2, <1>3
  <2>2. QED
    BY <2>1, ConcatProperties, ZenonT(30)
<1> HIDE DEF ab
<1>6. Len(a) + Len(b) = n
  BY <1>1, <1>2, <1>3
<1>7. \A k \in 1 .. n : ab[k] = IF k <= 3 THEN a[k] ELSE b[k - 3]
  BY <1>2, <1>5, <1>6
<1>8. ab[1] = x /\ ab[2] = y /\ ab[3] = z
  BY <1>1, <1>2, <1>7
<1>9. ASSUME NEW k \in 4 .. n
      PROVE  ab[k] = list[k]
  <2>1. k \in 1 .. n /\ ~(k <= 3) /\ k - 3 \in 1 .. n - 3 /\ (k - 3) + 3 = k
    BY <1>1
  <2>2. QED
    BY <2>1, <1>3, <1>7
<1>10. QED
  BY <1>4, <1>5, <1>6, <1>8, <1>9 DEF n, IsFront

\* Three elements of the list put back in another order: a rearrangement.
LEMMA FrontRearranged ==
    ASSUME NEW S, NEW list \in Seq(S), Len(list) >= 3, NEW u \in 1 .. 3, NEW v \in 1 .. 3,
           NEW w \in 1 .. 3, u # v, u # w, v # w
    PROVE  LET t == WithFront(list[u], list[v], list[w], list)
           IN  t \in Seq(S) /\ Len(t) = Len(list) /\ Rearranged(list, t)
<1> DEFINE n == Len(list)
           t == WithFront(list[u], list[v], list[w], list)
           from == [k \in 1 .. n |-> IF k = 1 THEN u ELSE IF k = 2 THEN v ELSE IF k = 3 THEN w ELSE k]
<1>1. n \in Nat /\ n >= 3 /\ DOMAIN list = 1 .. n /\ list[u] \in S /\ list[v] \in S /\ list[w] \in S
  OBVIOUS
<1>2. /\ t \in Seq(S) /\ Len(t) = n /\ t[1] = list[u] /\ t[2] = list[v] /\ t[3] = list[w]
      /\ \A k \in 4 .. n : t[k] = list[k]
  <2>1. IsFront(S, t, list[u], list[v], list[w], list)
    BY <1>1, FrontIs
  <2> HIDE DEF t
  <2>2. QED
    BY <2>1 DEF IsFront
<1> HIDE DEF t, n
<1>3. DOMAIN t = 1 .. n
  BY <1>2
<1>4. from \in [1 .. n -> 1 .. n] /\ \A k, l \in 1 .. n : from[k] = from[l] => k = l
  BY <1>1
<1>5. \A k \in 1 .. n : k = 1 \/ k = 2 \/ k = 3 \/ (k \in 4 .. n /\ k # 1 /\ k # 2 /\ k # 3)
  BY <1>1
<1>6. \A k \in 1 .. n : t[k] = list[from[k]]
  BY <1>2, <1>5
<1> HIDE DEF from
<1>7. Rearranged(list, t)
  BY ZenonT(60), <1>1, <1>3, <1>4, <1>6 DEF Rearranged
<1>8. QED
  BY <1>2, <1>7 DEF t, n

LEMMA SwappedIs ==
    ASSUME NEW S, NEW list \in Seq(S), Len(list) >= 3
    PROVE  /\ Swapped(list) \in Seq(S) /\ Len(Swapped(list)) = Len(list)
           /\ Rearranged(list, Swapped(list))
           /\ Swapped(list)[1] = list[3] /\ Swapped(list)[2] = list[2] /\ Swapped(list)[3] = list[1]
           /\ \A k \in 4 .. Len(list) : Swapped(list)[k] = list[k]
<1>1. Swapped(list) = WithFront(list[3], list[2], list[1], list)
  BY DEF Swapped, WithFront
<1>2. list[1] \in S /\ list[2] \in S /\ list[3] \in S
  OBVIOUS
<1>3. 1 \in 1 .. 3 /\ 2 \in 1 .. 3 /\ 3 \in 1 .. 3
  OBVIOUS
<1>4. IsFront(S, Swapped(list), list[3], list[2], list[1], list)
  BY <1>1, <1>2, FrontIs
<1>5. Rearranged(list, Swapped(list))
  BY <1>1, <1>3, FrontRearranged
<1>6. QED
  BY <1>4, <1>5 DEF IsFront

\* What is left of a list when its first n elements are taken.
LEMMA RestIs ==
    ASSUME NEW S, NEW list \in Seq(S), NEW n \in Nat, n <= Len(list)
    PROVE  LET t == SubSeq(list, n + 1, Len(list))
           IN  /\ t \in Seq(S) /\ Len(t) = Len(list) - n
               /\ \A k \in 1 .. Len(t) : t[k] = list[n + k] /\ n + k \in DOMAIN list
               /\ Rearranged(list, t)
<1> DEFINE m == Len(list)
           t == SubSeq(list, n + 1, m)
           from == [k \in 1 .. m - n |-> n + k]
<1>1. m \in Nat /\ n <= m /\ DOMAIN list = 1 .. m
  OBVIOUS
<1>2. n + 1 \in Int /\ m \in Int /\ \A i \in n + 1 .. m : list[i] \in S
  BY <1>1
<1>3. /\ t \in Seq(S) /\ Len(t) = (IF n + 1 <= m THEN m - (n + 1) + 1 ELSE 0)
      /\ \A i \in 1 .. m - (n + 1) + 1 : t[i] = list[(n + 1) + i - 1]
  BY <1>2, SubSeqProperties
<1> HIDE DEF t, m
<1>4. /\ m - (n + 1) + 1 = m - n /\ (IF n + 1 <= m THEN m - (n + 1) + 1 ELSE 0) = m - n
      /\ \A i \in 1 .. m - n : (n + 1) + i - 1 = n + i /\ n + i \in 1 .. m
  BY <1>1
<1>5. /\ t \in Seq(S) /\ Len(t) = m - n
      /\ \A i \in 1 .. m - n : t[i] = list[n + i] /\ n + i \in DOMAIN list
  BY <1>1, <1>3, <1>4
<1>6. DOMAIN t = 1 .. m - n
  BY <1>5
<1>7. from \in [1 .. m - n -> 1 .. m] /\ \A k, l \in 1 .. m - n : from[k] = from[l] => k = l
  BY <1>1, <1>4
<1>8. Rearranged(list, t)
  <2>1. \A k \in 1 .. m - n : t[k] = list[from[k]]
    BY <1>5
  <2> HIDE DEF from
  <2>2. QED
    BY <1>1, <1>6, <1>7, <2>1 DEF Rearranged
<1>9. QED
  BY <1>5, <1>8 DEF t, m

LEMMA ElementsAreIn ==
    ASSUME NEW S, NEW s \in Seq(S)
    PROVE  \A i \in DOMAIN s : s[i] \in S
OBVIOUS

\* A list without repetition is as long as the set of its elements is large.
LEMMA DistinctCount ==
    ASSUME NEW S, NEW s \in Seq(S), Distinct(s)
    PROVE  Cardinality(ToSet(s)) = Len(s)
<1> DEFINE D == 1 .. Len(s)
           f == [i \in D |-> s[i]]
<1>1. D = DOMAIN s /\ Len(s) \in Nat
  OBVIOUS
<1>2. IsFiniteSet(D) /\ Cardinality(D) = Len(s)
  BY <1>1, FS_Interval
<1>3. ToSet(s) = {s[i] : i \in D}
  BY <1>1 DEF ToSet
<1>4. f \in Surjection(D, ToSet(s))
  BY <1>3 DEF Surjection
<1>5. f \in Injection(D, ToSet(s))
  BY <1>1, <1>4 DEF Surjection, Injection, IsInjective, Distinct
<1>6. QED
  BY <1>2, <1>4, <1>5, FS_Surjection

----------------------------------------------------------------------------
(* Sizes *)

LEMMA PagesNat ==
    ASSUME NEW n \in Nat, NEW per \in Nat, per > 0
    PROVE  Pages(n, per) \in Nat
<1>1. n + per - 1 \in Nat
  OBVIOUS
<1>2. QED
  BY <1>1 DEF Pages

LEMMA MachineSizes ==
    ASSUME NEW n \in Machines
    PROVE  /\ n \in Nat /\ BootEnd(n) \in Nat /\ KEND \in Nat /\ IOPHYSMEM \in Nat /\ MPENTRY \in Nat
           /\ PT \in Nat /\ KEND < BootEnd(n) /\ BootEnd(n) <= PT /\ IOPHYSMEM < KEND
           /\ 0 < MPENTRY /\ MPENTRY < IOPHYSMEM
<1>1. Pages(n, PERPAGE) \in Nat
  BY MemInitAssumption, PagesNat
<1>2. QED
  BY <1>1, MemInitAssumption, EarlyAssumption DEF BootEnd

\* On a machine with more memory than entry_pgdir maps, page_init leaves enough free
\* pages that it does map.
LEMMA LowCount ==
    ASSUME npages \in Machines, npages > PT, nextfree = BootEnd(npages)
    PROVE  LowPages(npages) \in Int /\ LowPages(npages) <= Cardinality(LowAt(FreePages))
<1> DEFINE n == npages
           list == FreePages
           I == 1 .. IOPHYSMEM - 1
           A == I \ {MPENTRY}
           e == BootEnd(n)
           B == e .. PT - 1
           F == {list[i] : i \in LowAt(list)}
<1>1. /\ n \in Nat /\ e \in Nat /\ IOPHYSMEM \in Nat /\ PT \in Nat /\ MPENTRY \in Nat
      /\ IOPHYSMEM < e /\ e <= PT /\ 0 < MPENTRY /\ MPENTRY < IOPHYSMEM /\ PT < n
  BY MachineSizes
<1>2. /\ list \in Seq(0 .. n - 1)
      /\ \A p \in 0 .. n - 1 : p \notin Reserved <=> \E i \in DOMAIN list : list[i] = p
  BY <1>1, FreePagesIs
<1>3. IsFiniteSet(A) /\ Cardinality(A) = IOPHYSMEM - 2
  <2>1. IsFiniteSet(I) /\ Cardinality(I) = IOPHYSMEM - 1
    <3>1. 1 \in Int /\ IOPHYSMEM - 1 \in Int /\ ~(1 > IOPHYSMEM - 1) /\ (IOPHYSMEM - 1) - 1 + 1 = IOPHYSMEM - 1
      BY <1>1
    <3>2. QED
      BY <3>1, FS_Interval
  <2>2. MPENTRY \in I
    BY <1>1
  <2>3. IsFiniteSet(A) /\ Cardinality(A) = Cardinality(I) - 1
    BY <2>1, <2>2, FS_RemoveElement
  <2>4. QED
    BY <2>1, <2>3, <1>1
<1>4. IsFiniteSet(B) /\ Cardinality(B) = PT - e
  <2>1. e \in Int /\ PT - 1 \in Int
    BY <1>1
  <2>2. (IF e > PT - 1 THEN 0 ELSE (PT - 1) - e + 1) = PT - e
    BY <1>1
  <2>3. QED
    BY <2>1, <2>2, FS_Interval
<1>5. Cardinality(A \cup B) = (IOPHYSMEM - 2) + (PT - e)
  <2>1. A \cap B = {}
    BY <1>1
  <2>2. Cardinality(A \cap B) = 0
    BY <2>1, FS_EmptySet
  <2>3. Cardinality(A \cup B) = Cardinality(A) + Cardinality(B) - Cardinality(A \cap B)
    BY <1>3, <1>4, FS_Union
  <2> HIDE DEF A, B, e
  <2>4. QED
    BY <2>2, <2>3, <1>3, <1>4, <1>1
<1>6. A \cup B \in SUBSET F
  <2>1. SUFFICES ASSUME NEW p \in A \cup B PROVE p \in F
    OBVIOUS
  <2>2. p \in 0 .. n - 1 /\ p < PT /\ p \notin Reserved
    BY <1>1, <2>1 DEF Reserved
  <2>3. PICK i \in DOMAIN list : list[i] = p
    BY <1>2, <2>2
  <2>4. QED
    BY <2>2, <2>3 DEF LowAt
<1>7. IsFiniteSet(LowAt(list))
  <2>1. DOMAIN list = 1 .. Len(list) /\ Len(list) \in Nat
    BY <1>2
  <2>2. IsFiniteSet(1 .. Len(list))
    BY <2>1, FS_Interval
  <2>3. LowAt(list) \in SUBSET (1 .. Len(list))
    BY <2>1 DEF LowAt
  <2>4. QED
    BY <2>2, <2>3, FS_Subset
<1>8. IsFiniteSet(F) /\ Cardinality(F) <= Cardinality(LowAt(list))
  <2> DEFINE f == [i \in LowAt(list) |-> list[i]]
  <2>1. f \in Surjection(LowAt(list), F)
    BY DEF Surjection
  <2>2. QED
    BY <2>1, <1>7, FS_Surjection
<1>9. Cardinality(A \cup B) <= Cardinality(F)
  BY <1>6, <1>8, FS_Subset
<1>10. LowPages(n) = (IOPHYSMEM - 2) + (PT - e)
  BY DEF LowPages
<1>11. Cardinality(F) \in Nat /\ Cardinality(LowAt(list)) \in Nat
  BY <1>7, <1>8, FS_CardinalityType
<1> HIDE DEF A, B, F, e, list, n
<1>12. LowPages(n) \in Int /\ LowPages(n) <= Cardinality(LowAt(list))
  BY <1>1, <1>5, <1>8, <1>9, <1>10, <1>11
<1>13. QED
  BY <1>12 DEF n, list

----------------------------------------------------------------------------
(* The free list and the page tables *)

\* No page of the list is reserved, a page table, or on it twice.
FreeInv ==
    /\ free \in Seq(0 .. npages - 1) /\ Distinct(free)
    /\ \A i \in DOMAIN free : free[i] \notin Reserved /\ \A x \in DOMAIN tables : tables[x] # free[i]

\* The first k pages of the list are among those that entry_pgdir maps.
LowUpTo(k) == \A i \in DOMAIN free : i <= k => free[i] < PT

\* entry_pgdir reaches whatever has been written, and what will be.
EarlyInv ==
    /\ touched \subseteq 0 .. PT - 1
    /\ phase = "check_low" => free = FreePages
    /\ phase \in {"check_alloc", "check_page"} /\ npages > PT => LowUpTo(LowPages(npages))
    /\ phase = "map" /\ npages > PT => LowUpTo(LowPages(npages) - 1)

MemInv ==
    /\ npages \in Machines
    /\ IF phase = "alloc" THEN nextfree = KEND ELSE nextfree = BootEnd(npages)
    /\ phase \in {"alloc", "page_init"} => free = <<>> /\ tables = [x \in DOMAIN tables |-> None]
    /\ FreeInv /\ EarlyInv

\* The list may change its order, or lose elements, that become page tables or not.
LEMMA FreeRearranged ==
    ASSUME NEW n, npages = n, npages' = n, nextfree' = nextfree, FreeInv,
           free' \in Seq(0 .. n - 1), Rearranged(free, free'),
           \A x \in DOMAIN tables' : tables'[x] # None =>
              \/ x \in DOMAIN tables /\ tables'[x] = tables[x]
              \/ \A i \in DOMAIN free' : tables'[x] # free'[i],
           None \notin Nat, n \in Nat
    PROVE  FreeInv'
<1>1. Distinct(free') /\ \A k \in DOMAIN free' : \E i \in DOMAIN free : free'[k] = free[i]
  BY RearrangedDistinct DEF FreeInv
<1>2. Reserved' = Reserved
  BY DEF Reserved
<1>3. ASSUME NEW k \in DOMAIN free'
      PROVE  free'[k] \notin Reserved' /\ \A x \in DOMAIN tables' : tables'[x] # free'[k]
  <2>1. PICK i \in DOMAIN free : free'[k] = free[i]
    BY <1>1
  <2>2. free[i] \notin Reserved /\ \A x \in DOMAIN tables : tables[x] # free[i]
    BY DEF FreeInv
  <2>3. free'[k] \in 0 .. n - 1
    OBVIOUS
  <2>4. free'[k] # None
    BY <2>3
  <2>5. QED
    BY <1>2, <2>1, <2>2, <2>4
<1>4. QED
  BY <1>1, <1>3 DEF FreeInv

LEMMA FreeTyped ==
    ASSUME MemInv
    PROVE  /\ npages \in Machines /\ npages \in Nat /\ free \in Seq(0 .. npages - 1) /\ None \notin Nat
           /\ Len(free) \in Nat /\ DOMAIN free = 1 .. Len(free) /\ Distinct(free)
           /\ \A i \in DOMAIN free : free[i] \in Nat /\ free[i] < npages
           /\ PT \in Nat /\ 0 < PT
           /\ npages <= PT => \A i \in DOMAIN free : free[i] < PT
<1>1. npages \in Machines /\ free \in Seq(0 .. npages - 1) /\ Distinct(free)
  BY DEF MemInv, FreeInv
<1>2. npages \in Nat /\ PT \in Nat /\ 0 < PT /\ None \notin Nat
  BY <1>1, MachineSizes, MemInitAssumption
<1>3. \A i \in DOMAIN free : free[i] \in 0 .. npages - 1
  BY <1>1, ElementsAreIn
<1>4. Len(free) \in Nat /\ DOMAIN free = 1 .. Len(free)
  BY <1>1
<1>5. QED
  BY <1>1, <1>2, <1>3, <1>4

LEMMA MemInvInit == Init => MemInv
<1> SUFFICES ASSUME Init PROVE MemInv
  OBVIOUS
<1>1. /\ npages \in Machines /\ nextfree = KEND /\ free = <<>> /\ touched = {} /\ phase = "alloc"
      /\ tables = [x \in 0 .. (VTOP - 1) \div PT |-> None]
  BY DEF Init, MemInitInit
<1>2. free \in Seq(0 .. npages - 1) /\ DOMAIN free = {}
  BY <1>1
<1>3. FreeInv
  BY <1>2 DEF FreeInv, Distinct
<1>4. tables = [x \in DOMAIN tables |-> None]
  BY <1>1
<1>5. QED
  BY <1>1, <1>3, <1>4 DEF MemInv, EarlyInv

LEMMA BootAllocMem ==
    ASSUME MemInv, BootAlloc
    PROVE  MemInv'
<1>1. /\ phase = "alloc" /\ nextfree' = BootEnd(npages) /\ npages' = npages /\ free' = free
      /\ tables' = tables /\ touched' = touched \cup KEND .. BootEnd(npages) - 1
      /\ phase' \in {"page_init", "panic"}
  BY DEF BootAlloc, Check
<1>2. free = <<>> /\ tables = [x \in DOMAIN tables |-> None] /\ npages \in Machines
  BY <1>1 DEF MemInv
<1>3. touched' \subseteq 0 .. PT - 1
  <2>1. KEND .. BootEnd(npages) - 1 \subseteq 0 .. PT - 1
    BY <1>2, MachineSizes
  <2>2. QED
    BY <1>1, <2>1 DEF MemInv, EarlyInv
<1>4. FreeInv'
  <2>1. free' \in Seq(0 .. npages' - 1) /\ DOMAIN free' = {}
    BY <1>1, <1>2
  <2>2. QED
    BY <2>1 DEF FreeInv, Distinct
<1>5. EarlyInv'
  BY <1>1, <1>3 DEF EarlyInv
<1>6. QED
  BY <1>1, <1>2, <1>4, <1>5 DEF MemInv

LEMMA PageInitMem ==
    ASSUME MemInv, PageInit
    PROVE  MemInv'
<1>1. /\ phase = "page_init" /\ phase' = "check_low" /\ free' = FreePages
      /\ UNCHANGED <<npages, nextfree, tables, touched>>
  BY DEF PageInit
<1>2. npages \in Nat /\ None \notin Nat
  BY FreeTyped
<1>3. /\ FreePages \in Seq(0 .. npages - 1) /\ Distinct(FreePages)
      /\ \A p \in 0 .. npages - 1 : p \notin Reserved <=> \E i \in DOMAIN FreePages : FreePages[i] = p
  BY <1>2, FreePagesIs
<1>4. Reserved' = Reserved /\ FreePages' = FreePages
  BY <1>1 DEF Reserved, FreePages
<1>5. FreeInv'
  <2>1. ASSUME NEW i \in DOMAIN FreePages
        PROVE  FreePages[i] \in 0 .. npages - 1 /\ FreePages[i] \notin Reserved
    <3>1. \A j \in DOMAIN FreePages : FreePages[j] \in 0 .. npages - 1
      BY <1>3, ElementsAreIn
    <3>2. FreePages[i] \in 0 .. npages - 1
      BY <3>1
    <3>3. FreePages[i] \notin Reserved
      BY <3>2, <1>3
    <3>4. QED
      BY <3>2, <3>3
  <2>2. \A x \in DOMAIN tables : tables[x] = None
    BY <1>1 DEF MemInv
  <2>3. \A i \in DOMAIN FreePages : FreePages[i] # None
    BY <2>1, <1>2
  <2>4. QED
    BY <1>1, <1>3, <1>4, <2>1, <2>2, <2>3 DEF FreeInv
<1>6. EarlyInv'
  BY <1>1, <1>4 DEF EarlyInv, MemInv
<1>7. QED
  BY <1>1, <1>5, <1>6 DEF MemInv

LEMMA CheckLowMem ==
    ASSUME MemInv, CheckPageFreeListLow
    PROVE  MemInv'
<1>1. /\ phase = "check_low" /\ phase' \in {"check_alloc", "panic"} /\ free' = LowFirst(free)
      /\ UNCHANGED <<npages, nextfree, tables>>
      /\ touched' = touched \cup {p \in ToSet(free) : PDX(p) = 0}
  BY DEF CheckPageFreeListLow, Check
<1>2. /\ npages \in Machines /\ npages \in Nat /\ free \in Seq(0 .. npages - 1) /\ None \notin Nat
      /\ (\A i \in DOMAIN free : free[i] \in Nat) /\ PT \in Nat /\ 0 < PT
      /\ DOMAIN free = 1 .. Len(free) /\ Len(free) \in Nat
  BY FreeTyped
<1>3. /\ free' \in Seq(0 .. npages - 1) /\ Rearranged(free, free') /\ DOMAIN free' = DOMAIN free
      /\ \A k \in DOMAIN free : k <= Cardinality(LowAt(free)) => free'[k] < PT
  BY <1>1, <1>2, LowFirstIs
<1>4. FreeInv'
  BY <1>1, <1>2, <1>3, FreeRearranged DEF MemInv
<1>5. touched' \subseteq 0 .. PT - 1
  <2>1. ASSUME NEW p \in ToSet(free), PDX(p) = 0
        PROVE  p \in 0 .. PT - 1
    <3>1. p \in Nat /\ PT \in Nat /\ 0 < PT
      BY <1>2 DEF ToSet
    <3>2. p \div PT = 0
      BY <2>1 DEF PDX
    <3>3. p < PT
      BY <3>1, <3>2
    <3>4. QED
      BY <3>1, <3>3
  <2>2. QED
    BY <1>1, <2>1 DEF MemInv, EarlyInv
<1>6. ASSUME npages > PT
      PROVE  LowUpTo(LowPages(npages))'
  <2>1. nextfree = BootEnd(npages) /\ free = FreePages
    BY <1>1 DEF MemInv, EarlyInv
  <2>2. LowPages(npages) \in Int /\ LowPages(npages) <= Cardinality(LowAt(free))
    BY <1>2, <1>6, <2>1, LowCount
  <2>3. Cardinality(LowAt(free)) \in Nat
    <3>1. IsFiniteSet(1 .. Len(free))
      BY <1>2, FS_Interval
    <3>2. LowAt(free) \in SUBSET (1 .. Len(free))
      BY <1>2 DEF LowAt
    <3>3. QED
      BY <3>1, <3>2, FS_Subset, FS_CardinalityType
  <2>4. ASSUME NEW i \in DOMAIN free, i <= LowPages(npages)
        PROVE  free'[i] < PT
    <3>1. i \in Int
      BY <1>2
    <3>2. i <= Cardinality(LowAt(free))
      BY <2>2, <2>3, <2>4, <3>1
    <3>3. QED
      BY <3>2, <1>3
  <2>5. QED
    BY <2>4, <1>1, <1>3 DEF LowUpTo, LowPages
<1>7. EarlyInv'
  BY <1>1, <1>5, <1>6 DEF EarlyInv
<1>8. QED
  BY <1>1, <1>2, <1>4, <1>7 DEF MemInv

LEMMA LowPagesIs ==
    ASSUME npages \in Machines
    PROVE  /\ LowPages(npages) \in Int
           /\ IsFiniteSet(MapEntries) /\ Cardinality(MapEntries) \in Nat /\ MapEntries \in SUBSET Int
           /\ npages > PT => LowPages(npages) >= 3 /\ Cardinality(MapEntries) <= LowPages(npages) - 1
<1>1. LowPages(npages) \in Int
  <2>1. IOPHYSMEM \in Int /\ PT \in Int /\ BootEnd(npages) \in Int
    BY MachineSizes
  <2>2. QED
    BY <2>1 DEF LowPages
<1>2. /\ PDX(UENVS) \in Int /\ PDX(UPAGES) \in Int /\ PDX(KSTACKTOP - 1) \in Int
      /\ PDX(VTOP - 1) \in Int
  <2>1. PT \in Nat /\ 0 < PT /\ PHYSMAP \in Nat
    BY MemInitAssumption
  <2>2. /\ UENVS \in Int /\ UPAGES \in Int /\ KSTACKTOP - 1 \in Int /\ VTOP - 1 \in Int
    BY <2>1 DEF UENVS, UPAGES, KSTACKTOP, VTOP, KERNBASE
  <2>3. \A z \in Int : z \div PT \in Int
    BY <2>1
  <2>4. QED
    BY <2>2, <2>3 DEF PDX
<1>3. IsFiniteSet(MapEntries) /\ MapEntries \in SUBSET Int
  <2>1. /\ IsFiniteSet(PDX(UENVS) .. PDX(UPAGES))
        /\ IsFiniteSet(PDX(KSTACKTOP - 1) .. PDX(VTOP - 1))
    BY <1>2, FS_Interval
  <2>2. IsFiniteSet(MapEntries)
    BY <2>1, FS_Union DEF MapEntries
  <2>3. MapEntries \in SUBSET Int
    BY <1>2 DEF MapEntries
  <2>4. QED
    BY <2>2, <2>3
<1>4. Cardinality(MapEntries) \in Nat
  BY <1>3, FS_CardinalityType
<1>5. ASSUME npages > PT
      PROVE  LowPages(npages) >= 3 /\ Cardinality(MapEntries) <= LowPages(npages) - 1
  <2>1. LowPages(npages) >= 3 /\ LowPages(npages) > Cardinality(MapEntries)
    BY <1>5, EarlyAssumption
  <2>2. QED
    BY <1>1, <1>4, <2>1
<1>6. QED
  BY <1>1, <1>3, <1>4, <1>5

\* What is taken from the beginning of the list, where it is known to be low, may be
\* written to.
LEMMA LowTouched ==
    ASSUME MemInv, NEW k \in Int, npages > PT => LowUpTo(k), NEW i \in DOMAIN free,
           npages > PT => i <= k
    PROVE  free[i] \in 0 .. PT - 1
<1>1. PT \in Nat /\ npages \in Nat /\ free[i] \in Nat /\ (npages <= PT => free[i] < PT)
  BY FreeTyped
<1>2. npages > PT => free[i] < PT
  BY DEF LowUpTo
<1>3. QED
  BY <1>1, <1>2

LEMMA CheckAllocMem ==
    ASSUME MemInv, CheckPageAlloc
    PROVE  MemInv'
<1>1. /\ phase = "check_alloc" /\ UNCHANGED <<npages, nextfree, tables, free>>
      /\ touched' = touched \cup IF Len(free) >= 3 THEN {free[3]} ELSE {}
      /\ phase' \in {"check_page", "panic"}
  BY DEF CheckPageAlloc, Check
<1>2. /\ npages \in Machines /\ npages \in Nat /\ DOMAIN free = 1 .. Len(free) /\ Len(free) \in Nat
  BY FreeTyped
<1>3. /\ LowPages(npages) \in Int /\ (npages > PT => LowPages(npages) >= 3)
      /\ (npages > PT => LowUpTo(LowPages(npages)))
  BY <1>1, <1>2, LowPagesIs DEF MemInv, EarlyInv
<1>4. touched' \subseteq 0 .. PT - 1
  <2>1. ASSUME Len(free) >= 3
        PROVE  free[3] \in 0 .. PT - 1
    <3>1. 3 \in DOMAIN free
      BY <2>1, <1>2
    <3>2. npages > PT => 3 <= LowPages(npages)
      BY <1>3
    <3>3. QED
      BY <3>1, <3>2, <1>3, LowTouched
  <2>2. QED
    BY <1>1, <2>1 DEF MemInv, EarlyInv
<1>5. FreeInv'
  BY <1>1 DEF MemInv, FreeInv, Distinct, Reserved
<1>6. npages > PT => LowUpTo(LowPages(npages))'
  BY <1>1, <1>3 DEF LowUpTo, LowPages
<1>7. EarlyInv'
  BY <1>1, <1>4, <1>6 DEF EarlyInv
<1>8. QED
  BY <1>1, <1>5, <1>7 DEF MemInv

\* check_page leaves out the third element of the list, and turns the first two round.
LEMMA TailSwapped ==
    ASSUME NEW S, NEW list \in Seq(S), Len(list) >= 3, Distinct(list)
    PROVE  LET t == Tail(Swapped(list))
           IN  /\ t \in Seq(S) /\ DOMAIN t = 1 .. Len(list) - 1
               /\ Rearranged(list, t)
               /\ \A k \in DOMAIN t : t[k] # list[3]
               /\ t[1] = list[2] /\ t[2] = list[1]
               /\ \A k \in 3 .. Len(list) - 1 : t[k] = list[k + 1]
<1> DEFINE n == Len(list)
           s == Swapped(list)
           t == Tail(s)
           from == [k \in 1 .. n - 1 |-> IF k = 1 THEN 2 ELSE IF k = 2 THEN 1 ELSE k + 1]
<1>1. n \in Nat /\ n >= 3 /\ DOMAIN list = 1 .. n
  OBVIOUS
<1>2. /\ s \in Seq(S) /\ Len(s) = n /\ s[2] = list[2] /\ s[3] = list[1]
      /\ \A k \in 4 .. n : s[k] = list[k]
  BY <1>1, SwappedIs
<1> HIDE DEF s
<1>3. t \in Seq(S) /\ Len(t) = n - 1 /\ \A k \in 1 .. n - 1 : t[k] = s[k + 1]
  <2>1. s # <<>>
    BY <1>1, <1>2
  <2>2. QED
    BY <1>1, <1>2, <2>1
<1> HIDE DEF t, n
<1>4. DOMAIN t = 1 .. n - 1
  BY <1>1, <1>3
<1>5. t[1] = list[2] /\ t[2] = list[1]
  <2>1. 1 \in 1 .. n - 1 /\ 2 \in 1 .. n - 1 /\ 1 + 1 = 2 /\ 2 + 1 = 3
    BY <1>1
  <2>2. t[1] = s[1 + 1] /\ t[2] = s[2 + 1]
    BY <1>3, <2>1
  <2>3. QED
    BY <1>2, <2>1, <2>2
<1>6. ASSUME NEW k \in 3 .. n - 1
      PROVE  t[k] = list[k + 1]
  <2>1. k \in 1 .. n - 1 /\ k + 1 \in 4 .. n
    BY <1>1
  <2>2. QED
    BY <2>1, <1>2, <1>3
<1>7. /\ from \in [1 .. n - 1 -> 1 .. n] /\ (\A k, l \in 1 .. n - 1 : from[k] = from[l] => k = l)
      /\ \A k \in 1 .. n - 1 : from[k] # 3
  BY <1>1
<1>8. ASSUME NEW k \in 1 .. n - 1
      PROVE  t[k] = list[from[k]]
  <2>1. k = 1 \/ k = 2 \/ k \in 3 .. n - 1
    BY <1>1
  <2>2. CASE k = 1
    BY <2>2, <1>5
  <2>3. CASE k = 2
    BY <2>3, <1>5
  <2>4. CASE k \in 3 .. n - 1
    <3>1. from[k] = k + 1
      BY <2>4, <1>1
    <3>2. QED
      BY <2>4, <3>1, <1>6
  <2>5. QED
    BY <2>1, <2>2, <2>3, <2>4
<1> HIDE DEF from
<1>9. Rearranged(list, t)
  BY <1>1, <1>4, <1>7, <1>8 DEF Rearranged
<1>10. ASSUME NEW k \in DOMAIN t
       PROVE  t[k] # list[3]
  <2>1. from[k] \in DOMAIN list /\ 3 \in DOMAIN list /\ from[k] # 3 /\ t[k] = list[from[k]]
    BY <1>1, <1>4, <1>7, <1>8
  <2>2. QED
    BY <2>1 DEF Distinct
<1>11. QED
  BY <1>3, <1>4, <1>5, <1>6, <1>9, <1>10 DEF t, s, n

LEMMA CheckPageMem ==
    ASSUME MemInv, CheckPage
    PROVE  MemInv'
<1>1. /\ phase = "check_page" /\ UNCHANGED <<npages, nextfree>>
      /\ IF Len(free) >= 3
         THEN /\ phase' = "map" /\ free' = Tail(Swapped(free))
              /\ tables' = [tables EXCEPT ![PDX(MMIOBASE)] = free[3]]
              /\ touched' = touched \cup {free[1], free[3]}
         ELSE phase' = "panic" /\ UNCHANGED <<free, tables, touched>>
  BY DEF CheckPage, Check
<1>2. /\ npages \in Machines /\ npages \in Nat /\ free \in Seq(0 .. npages - 1) /\ None \notin Nat
      /\ DOMAIN free = 1 .. Len(free) /\ Len(free) \in Nat /\ Distinct(free)
  BY FreeTyped
<1>3. /\ LowPages(npages) \in Int /\ (npages > PT => LowPages(npages) >= 3)
      /\ (npages > PT => LowUpTo(LowPages(npages)))
  BY <1>1, <1>2, LowPagesIs DEF MemInv, EarlyInv
<1>4. CASE Len(free) >= 3
  <2> DEFINE n == Len(free)
  <2>1. /\ free' \in Seq(0 .. npages - 1) /\ DOMAIN free' = 1 .. n - 1
        /\ Rearranged(free, free')
        /\ \A k \in DOMAIN free' : free'[k] # free[3]
        /\ free'[1] = free[2] /\ free'[2] = free[1]
        /\ \A k \in 3 .. n - 1 : free'[k] = free[k + 1]
    BY ZenonT(60), <1>1, <1>2, <1>4, TailSwapped
  <2>2. /\ 1 \in DOMAIN free /\ 2 \in DOMAIN free /\ 3 \in DOMAIN free
    BY <1>2, <1>4
  <2>3. FreeInv'
    <3>1. ASSUME NEW x \in DOMAIN tables', tables'[x] # None
          PROVE  \/ x \in DOMAIN tables /\ tables'[x] = tables[x]
                 \/ \A i \in DOMAIN free' : tables'[x] # free'[i]
      BY <1>1, <1>4, <2>1
    <3>2. QED
      BY <1>1, <1>2, <2>1, <3>1, FreeRearranged DEF MemInv
  <2>4. touched' \subseteq 0 .. PT - 1
    <3>1. free[1] \in 0 .. PT - 1 /\ free[3] \in 0 .. PT - 1
      <4>1. npages > PT => 1 <= LowPages(npages) /\ 3 <= LowPages(npages)
        BY <1>3
      <4>2. QED
        BY <4>1, <1>3, <2>2, LowTouched
    <3>2. QED
      BY <1>1, <1>4, <3>1 DEF MemInv, EarlyInv
  <2>5. ASSUME npages > PT
        PROVE  LowUpTo(LowPages(npages) - 1)'
    <3> DEFINE l == LowPages(npages)
    <3>1. l \in Int /\ l >= 3 /\ \A i \in DOMAIN free : i <= l => free[i] < PT
      BY <1>3, <2>5 DEF LowUpTo
    <3> HIDE DEF l
    <3>2. ASSUME NEW k \in DOMAIN free', k <= l - 1
          PROVE  free'[k] < PT
      <4>1. k \in 1 .. n - 1 /\ n \in Nat /\ n >= 3
        BY <1>2, <1>4, <2>1
      <4>2. CASE k \in 3 .. n - 1
        <5>1. k + 1 \in DOMAIN free /\ k + 1 <= l
          BY SMTT(60), <3>1, <3>2, <4>1, <1>2
        <5>2. QED
          BY <4>2, <5>1, <3>1, <2>1
      <4>3. CASE k \notin 3 .. n - 1
        <5>1. k = 1 \/ k = 2
          BY <4>1, <4>3
        <5>2. 1 <= l /\ 2 <= l
          BY <3>1
        <5>3. free[1] < PT /\ free[2] < PT
          BY <3>1, <2>2, <5>2
        <5>4. QED
          BY <5>1, <5>3, <2>1
      <4>4. QED
        BY <4>2, <4>3
    <3>3. LowPages(npages)' = l
      BY <1>1 DEF LowPages, l
    <3>4. QED
      BY <3>2, <3>3 DEF LowUpTo
  <2>6. EarlyInv'
    BY <1>1, <1>4, <2>4, <2>5 DEF EarlyInv
  <2>7. QED
    BY <1>1, <1>4, <2>3, <2>6 DEF MemInv
<1>5. CASE ~(Len(free) >= 3)
  <2>1. FreeInv'
    BY <1>1, <1>5 DEF MemInv, FreeInv, Distinct, Reserved
  <2>2. EarlyInv'
    BY <1>1, <1>5 DEF MemInv, EarlyInv
  <2>3. QED
    BY <1>1, <1>5, <2>1, <2>2 DEF MemInv
<1>6. QED
  BY <1>4, <1>5

\* The regions' page tables are the first n of the list, one for each missing entry.
LEMMA MapRegionsMem ==
    ASSUME MemInv, MapRegions
    PROVE  MemInv'
<1> DEFINE new == {x \in MapEntries : tables[x] = None}
           n == Cardinality(new)
           rank(x) == Cardinality({y \in new : y <= x})
<1>1. /\ phase = "map" /\ UNCHANGED <<npages, nextfree>>
      /\ IF Len(free) >= n
         THEN /\ phase' = "check_kern"
              /\ free' = SubSeq(free, n + 1, Len(free))
              /\ tables' = [x \in DOMAIN tables |-> IF x \in new THEN free[rank(x)] ELSE tables[x]]
              /\ touched' = touched \cup {free[j] : j \in 1 .. n}
         ELSE phase' = "panic" /\ UNCHANGED <<free, tables, touched>>
  BY DEF MapRegions, Check
<1>2. /\ npages \in Machines /\ npages \in Nat /\ free \in Seq(0 .. npages - 1) /\ None \notin Nat
      /\ DOMAIN free = 1 .. Len(free) /\ Len(free) \in Nat /\ Distinct(free)
  BY FreeTyped
<1>3. /\ IsFiniteSet(new) /\ new \in SUBSET Int /\ n \in Nat
      /\ n <= Cardinality(MapEntries) /\ Cardinality(MapEntries) \in Nat
  <2>1. IsFiniteSet(MapEntries) /\ MapEntries \in SUBSET Int /\ Cardinality(MapEntries) \in Nat
    BY <1>2, LowPagesIs
  <2>2. new \in SUBSET MapEntries
    OBVIOUS
  <2>3. IsFiniteSet(new) /\ n <= Cardinality(MapEntries)
    BY <2>1, <2>2, FS_Subset
  <2>4. n \in Nat
    BY <2>3, FS_CardinalityType
  <2>5. QED
    BY <2>1, <2>2, <2>3, <2>4
<1>4. \A x \in new : rank(x) \in 1 .. n
  BY <1>3, RankUp
<1>5. CASE Len(free) >= n
  <2>1. n <= Len(free)
    BY <1>2, <1>3, <1>5
  <2>2. /\ free' \in Seq(0 .. npages - 1) /\ DOMAIN free' = 1 .. Len(free')
        /\ \A k \in DOMAIN free' : free'[k] = free[n + k] /\ n + k \in DOMAIN free
        /\ Rearranged(free, free')
    <3> HIDE DEF n
    <3>1. free' = SubSeq(free, n + 1, Len(free))
      BY <1>1, <1>5
    <3>2. /\ free' \in Seq(0 .. npages - 1)
          /\ \A k \in 1 .. Len(free') : free'[k] = free[n + k] /\ n + k \in DOMAIN free
          /\ Rearranged(free, free')
      BY <1>2, <1>3, <2>1, <3>1, RestIs
    <3>3. DOMAIN free' = 1 .. Len(free')
      BY <3>2
    <3>4. QED
      BY <3>2, <3>3
  <2>3. FreeInv'
    <3>1. ASSUME NEW x \in DOMAIN tables', NEW i \in DOMAIN free', x \in new
          PROVE  tables'[x] # free'[i]
      <4>1. tables'[x] = free[rank(x)]
        BY <1>1, <1>5, <3>1
      <4>2. rank(x) \in 1 .. n
        BY <1>4, <3>1
      <4>3. free'[i] = free[n + i] /\ n + i \in DOMAIN free
        BY <2>2
      <4>4. i \in Int /\ 1 <= i
        BY <2>2
      <4> HIDE DEF rank, n
      <4>5. rank(x) \in DOMAIN free /\ rank(x) # n + i
        BY <1>2, <1>3, <2>1, <4>2, <4>4
      <4>6. QED
        BY <4>1, <4>3, <4>5, <1>2 DEF Distinct
    <3>2. ASSUME NEW x \in DOMAIN tables', tables'[x] # None
          PROVE  \/ x \in DOMAIN tables /\ tables'[x] = tables[x]
                 \/ \A i \in DOMAIN free' : tables'[x] # free'[i]
      BY <1>1, <1>5, <3>1
    <3>3. QED
      BY <1>1, <1>2, <2>2, <3>2, FreeRearranged DEF MemInv
  <2>4. touched' \subseteq 0 .. PT - 1
    <3>1. ASSUME NEW j \in 1 .. n
          PROVE  free[j] \in 0 .. PT - 1
      <4>1. j \in DOMAIN free
        BY <1>2, <1>3, <2>1
      <4>2. /\ LowPages(npages) - 1 \in Int
            /\ npages > PT => Cardinality(MapEntries) <= LowPages(npages) - 1
            /\ npages > PT => LowUpTo(LowPages(npages) - 1)
        <5>1. /\ LowPages(npages) \in Int
              /\ npages > PT => Cardinality(MapEntries) <= LowPages(npages) - 1
          BY <1>2, LowPagesIs
        <5>2. LowPages(npages) - 1 \in Int
          BY <5>1
        <5>3. npages > PT => LowUpTo(LowPages(npages) - 1)
          BY <1>1 DEF MemInv, EarlyInv
        <5>4. QED
          BY <5>1, <5>2, <5>3
      <4>3. npages > PT => j <= LowPages(npages) - 1
        <5> DEFINE l == LowPages(npages) - 1
                   m == Cardinality(MapEntries)
        <5>1. l \in Int /\ m \in Nat /\ n \in Nat /\ n <= m /\ j \in 1 .. n /\ (npages > PT => m <= l)
          BY <1>3, <4>2
        <5> HIDE DEF l, m, n
        <5>2. npages > PT => j <= l
          BY <5>1
        <5>3. QED
          BY <5>2 DEF l
      <4>4. QED
        BY <4>1, <4>2, <4>3, LowTouched
    <3>2. QED
      BY <1>1, <1>5, <3>1 DEF MemInv, EarlyInv
  <2>5. EarlyInv'
    BY <1>1, <1>5, <2>4 DEF EarlyInv
  <2>6. QED
    BY <1>1, <1>5, <2>3, <2>5 DEF MemInv
<1>6. CASE ~(Len(free) >= n)
  <2>1. FreeInv'
    BY <1>1, <1>6 DEF MemInv, FreeInv, Distinct, Reserved
  <2>2. EarlyInv'
    BY <1>1, <1>6 DEF MemInv, EarlyInv
  <2>3. QED
    BY <1>1, <1>6, <2>1, <2>2 DEF MemInv
<1>7. QED
  BY <1>5, <1>6

LEMMA CheckKernMem ==
    ASSUME MemInv, CheckKernPgdir
    PROVE  MemInv'
<1>1. /\ phase = "check_kern" /\ phase' \in {"lcr3", "panic"}
      /\ UNCHANGED <<npages, nextfree, free, tables, touched>>
  BY DEF CheckKernPgdir, Check, mem
<1>2. FreeInv'
  BY <1>1 DEF MemInv, FreeInv, Distinct, Reserved
<1>3. QED
  BY <1>1, <1>2 DEF MemInv, EarlyInv

LEMMA Lcr3Mem ==
    ASSUME MemInv, Lcr3
    PROVE  MemInv'
<1>1. /\ phase = "lcr3" /\ phase' \in {"trap_init", "panic"}
      /\ UNCHANGED <<npages, nextfree, tables, touched>>
      /\ free' = IF Len(free) >= 3 THEN WithFront(free[1], free[3], free[2], free) ELSE free
  BY DEF Lcr3, Check, WithFront
<1>2. /\ npages \in Nat /\ free \in Seq(0 .. npages - 1) /\ None \notin Nat
  BY FreeTyped
<1>3. FreeInv'
  <2>1. CASE Len(free) >= 3
    <3>1. 1 \in 1 .. 3 /\ 2 \in 1 .. 3 /\ 3 \in 1 .. 3
      OBVIOUS
    <3>2. free' = WithFront(free[1], free[3], free[2], free)
      BY <1>1, <2>1
    <3>3. free' \in Seq(0 .. npages - 1) /\ Rearranged(free, free')
      BY <1>2, <2>1, <3>1, <3>2, FrontRearranged
    <3>4. QED
      BY <1>1, <1>2, <3>3, FreeRearranged DEF MemInv
  <2>2. CASE ~(Len(free) >= 3)
    BY <1>1, <2>2 DEF MemInv, FreeInv, Distinct, Reserved
  <2>3. QED
    BY <2>1, <2>2
<1>4. QED
  BY <1>1, <1>3 DEF MemInv, EarlyInv

\* After mem_init nothing of this changes.
LEMMA MemElsewhere ==
    ASSUME MemInv, UNCHANGED <<npages, nextfree, free, tables, touched>>,
           phase' = phase \/ (phase \notin Memory /\ phase' \notin Memory)
    PROVE  MemInv'
<1>1. FreeInv'
  BY DEF MemInv, FreeInv, Distinct, Reserved
<1>2. EarlyInv'
  <2>1. FreePages' = FreePages
    BY DEF FreePages, Reserved
  <2>2. LowPages(npages)' = LowPages(npages)
    BY DEF LowPages
  <2>3. CASE phase' = phase
    BY <2>1, <2>2, <2>3 DEF MemInv, EarlyInv, LowUpTo
  <2>4. CASE phase' \notin Memory
    BY <2>4 DEF MemInv, EarlyInv, Memory
  <2>5. QED
    BY <2>3, <2>4
<1>3. QED
  <2>1. CASE phase' = phase
    BY <1>1, <1>2, <2>1 DEF MemInv
  <2>2. CASE phase \notin Memory /\ phase' \notin Memory
    BY <1>1, <1>2, <2>2 DEF MemInv, Memory
  <2>3. QED
    BY <2>1, <2>2

LEMMA MemInvStep == Inv /\ MemInv /\ [Next]_vars => MemInv'
<1> SUFFICES ASSUME Inv, MemInv, [Next]_vars PROVE MemInv'
  OBVIOUS
<1>1. CASE MemInitPhase
  BY <1>1, BootAllocMem, PageInitMem, CheckLowMem, CheckAllocMem, CheckPageMem, MapRegionsMem,
     CheckKernMem, Lcr3Mem DEF MemInitPhase, MemInitStep
<1>2. CASE BspStep /\ ~MemInitPhase
  <2>1. /\ UNCHANGED <<npages, nextfree, free, tables, touched>>
        /\ phase \notin Memory /\ phase' \notin Memory
    BY <1>2 DEF BspStep, TrapInit, MpInit, BspLapicInit, LockKernel, BootAp, Startup, Wait,
                BspSched, mem, Memory
  <2>2. QED
    BY <2>1, MemElsewhere
<1>3. ASSUME NEW c \in CPU, ApStep(c) PROVE MemInv'
  <2>1. UNCHANGED <<npages, nextfree, free, tables, touched>> /\ phase' \in {phase, "panic"}
    BY <1>3 DEF ApStep, MpEntry, ApLapicMap, MmioReserve, ApLapicInit, ApTrapInit, ApStarted,
                ApLock, ApSched, mem
  <2>2. PICK label \in ApPc \ {"off"} : ApAt(c, label)
    BY <1>3 DEF ApStep, MpEntry, ApLapicMap, ApLapicInit, ApTrapInit, ApStarted, ApLock,
                ApSched, ApPc
  <2>3. phase \in Late
    BY <2>2, ApFacts
  <2>4. QED
    BY <2>1, <2>3, MemElsewhere DEF Late, Starting, Memory
<1>4. CASE UNCHANGED vars
  <2>1. UNCHANGED <<npages, nextfree, free, tables, touched>> /\ phase' = phase
    BY <1>4 DEF vars, mem
  <2>2. QED
    BY <2>1, MemElsewhere
<1>5. QED
  BY <1>1, <1>2, <1>3, <1>4 DEF Next, BspStep

----------------------------------------------------------------------------
(* Types *)

Early == {"alloc", "page_init", "check_low", "check_alloc", "check_page"}

\* What TypeOK says beyond Inv and MemInv, and what it takes.
TypeInv ==
    /\ bootcpu \in 0 .. NCPU - 1 /\ mpentry \in BOOLEAN
    /\ lock \in CPU \cup {None} /\ mpentry_kstack \in CPU \cup {None}
    /\ mmiobase <= MMIOLIM /\ (phase \in Early => mmiobase = MMIOBASE)
    /\ lapic # None => lapic \in MMIOBASE .. MMIOLIM - 1
    /\ starting <= NCPU /\ (phase \in Starting => starting < ncpu)

LEMMA Mmio ==
    /\ MMIOBASE \in Nat /\ MMIOLIM \in Nat /\ MMIOBASE + 3 <= MMIOLIM
BY MemInitAssumption DEF MMIOBASE, MMIOLIM

LEMMA TypeInvInit == Init => TypeInv
<1> SUFFICES ASSUME Init PROVE TypeInv
  OBVIOUS
<1>1. /\ bootcpu = 0 /\ mpentry = FALSE /\ lock = None /\ mpentry_kstack = None /\ lapic = None
      /\ mmiobase = MMIOBASE /\ starting = 0 /\ phase = "alloc"
  BY DEF Init, MemInitInit
<1>2. mmiobase <= MMIOLIM
  BY <1>1, Mmio
<1>3. bootcpu \in 0 .. NCPU - 1 /\ starting <= NCPU
  BY <1>1, Sizes
<1>4. mpentry \in BOOLEAN /\ lock \in CPU \cup {None} /\ mpentry_kstack \in CPU \cup {None}
  BY <1>1
<1>5. QED
  BY <1>1, <1>2, <1>3, <1>4 DEF TypeInv, Starting

LEMMA MemInitTypes ==
    ASSUME Inv, TypeInv, MemInitPhase
    PROVE  TypeInv'
<1>1. UNCHANGED <<bootcpu, mpentry, lock, mpentry_kstack, lapic, starting>>
  BY DEF MemInitPhase, kernel
<1>2. phase \in Memory /\ phase' \in Memory \cup {"trap_init", "panic"}
  BY MemInitEffect DEF MemInitPhase, Inv
<1>3. \/ mmiobase' = mmiobase /\ (phase' \in Early => phase \in Early)
      \/ phase \in Early /\ phase' = "map" /\ mmiobase' = mmiobase + 3
  BY DEF MemInitPhase, MemInitStep, BootAlloc, PageInit, CheckPageFreeListLow, CheckPageAlloc,
         CheckPage, MapRegions, CheckKernPgdir, Lcr3, Check, mem, Early
<1>4. mmiobase' <= MMIOLIM /\ (phase' \in Early => mmiobase' = MMIOBASE)
  <2>1. CASE mmiobase' = mmiobase /\ (phase' \in Early => phase \in Early)
    BY <2>1 DEF TypeInv
  <2>2. CASE phase \in Early /\ phase' = "map" /\ mmiobase' = mmiobase + 3
    BY <2>2, Mmio DEF TypeInv, Early
  <2>3. QED
    BY <1>3, <2>1, <2>2
<1>5. QED
  BY <1>1, <1>2, <1>4 DEF TypeInv, Memory, Starting

\* A step of the boot processor after mem_init.
LEMMA BspTypes ==
    ASSUME Inv, TypeInv, BspStep, ~MemInitPhase
    PROVE  TypeInv'
<1> USE DEF TypeInv, Starting, Early
<1>1. mmiobase \in Nat /\ ncpu \in Nat /\ starting \in Nat /\ ncpu <= NCPU /\ ncpu <= MAXENTRY
      /\ NCPU \in Nat /\ MAXENTRY \in Nat
  BY Sizes DEF Inv, KernelInv
<1>2. BSP \in CPU
  BY BootCpu DEF Inv, KernelInv
<1>3. CASE TrapInit
  BY <1>3 DEF TrapInit, mem, kernel
<1>4. CASE MpInit
  <2>1. /\ UNCHANGED <<mmiobase, lapic, mpentry, mpentry_kstack, starting, lock>>
        /\ phase' = "lapic_init" /\ phase = "mp_init"
    BY <1>4 DEF MpInit, mem
  <2>2. bootcpu' \in 0 .. NCPU - 1
    <3>1. CASE table = None
      BY <1>4, <3>1 DEF MpInit
    <3>2. CASE table # None
      <4>1. table \in Table
        BY <3>2 DEF Inv, KernelInv
      <4>2. BootIndex(table) \in CPU /\ BootIndex(table) < NCPU
        BY <4>1, TableCounts
      <4>3. bootcpu' \in {0, BootIndex(table)}
        BY <1>4, <3>2 DEF MpInit
      <4>4. QED
        BY <4>2, <4>3, Sizes DEF CPU
    <3>3. QED
      BY <3>1, <3>2
  <2>3. QED
    BY <2>1, <2>2
<1>5. CASE BspLapicInit
  <2>1. UNCHANGED <<bootcpu, mpentry, mpentry_kstack, starting, lock>>
        /\ phase' \in {"lock", "panic"}
        /\ \/ mmiobase' = mmiobase /\ lapic' = lapic
           \/ mmiobase + 1 < MMIOLIM /\ mmiobase' = mmiobase + 1 /\ lapic' = mmiobase
    BY <1>5 DEF BspLapicInit, MmioFits
  <2>2. mmiobase >= MMIOBASE
    BY DEF Inv, KernelInv
  <2>3. mmiobase' <= MMIOLIM /\ (lapic' # None => lapic' \in MMIOBASE .. MMIOLIM - 1)
    <3>1. CASE mmiobase' = mmiobase /\ lapic' = lapic
      BY <3>1
    <3>2. CASE mmiobase + 1 < MMIOLIM /\ mmiobase' = mmiobase + 1 /\ lapic' = mmiobase
      BY <3>2, <1>1, <2>2, Mmio
    <3>3. QED
      BY <2>1, <3>1, <3>2
  <2>4. QED
    BY <2>1, <2>3
<1>6. CASE LockKernel
  <2>1. UNCHANGED <<bootcpu, lapic, mmiobase, mpentry_kstack>> /\ lock' = BSP /\ mpentry' = TRUE
        /\ starting' = 0 /\ phase' = "boot_aps"
    BY <1>6 DEF LockKernel, mem
  <2>2. QED
    BY <1>1, <1>2, <2>1
<1>7. CASE BootAp
  <2>1. UNCHANGED <<bootcpu, lapic, mpentry, lock, mmiobase, ncpu>> /\ phase = "boot_aps"
    BY <1>7 DEF BootAp, mem
  <2>2. \/ starting < ncpu /\ starting' = starting + 1 /\ phase' = phase
           /\ mpentry_kstack' = mpentry_kstack
        \/ starting < ncpu /\ mpentry_kstack' = starting /\ phase' = "startup1"
           /\ starting' = starting
        \/ phase' = "sched" /\ UNCHANGED <<mpentry_kstack, starting>>
    BY <1>7 DEF BootAp
  <2>3. CASE starting < ncpu /\ starting' = starting + 1 /\ phase' = phase
             /\ mpentry_kstack' = mpentry_kstack
    BY <1>1, <2>1, <2>3
  <2>4. CASE starting < ncpu /\ mpentry_kstack' = starting /\ phase' = "startup1"
             /\ starting' = starting
    <3>1. starting \in CPU
      BY <1>1, <2>4 DEF CPU
    <3>2. QED
      BY <1>1, <2>1, <2>4, <3>1
  <2>5. CASE phase' = "sched" /\ UNCHANGED <<mpentry_kstack, starting>>
    BY <2>1, <2>5
  <2>6. QED
    BY <2>2, <2>3, <2>4, <2>5
<1>8. CASE Startup
  BY <1>8 DEF Startup, mem, kernel
<1>9. CASE Wait
  <2>1. UNCHANGED <<bootcpu, lapic, mpentry, lock, mmiobase, mpentry_kstack>> /\ phase = "wait"
        /\ phase' = "boot_aps" /\ starting' = starting + 1
    BY <1>9 DEF Wait, mem
  <2>2. starting + 1 <= NCPU
    BY <1>1, <2>1
  <2>3. QED
    BY <2>1, <2>2
<1>10. CASE BspSched
  BY <1>10 DEF BspSched, mem
<1>11. QED
  BY <1>3, <1>4, <1>5, <1>6, <1>7, <1>8, <1>9, <1>10 DEF BspStep

LEMMA ApTypes ==
    ASSUME Inv, TypeInv, NEW c \in CPU, ApStep(c)
    PROVE  TypeInv'
<1>1. UNCHANGED <<bootcpu, ncpu, mpentry, mpentry_kstack, starting>> /\ phase' \in {phase, "panic"}
  BY DEF ApStep, MpEntry, ApLapicMap, MmioReserve, ApLapicInit, ApTrapInit, ApStarted,
         ApLock, ApSched, mem, kernel
<1>2. lock' \in {lock, c, None}
  BY DEF ApStep, MpEntry, ApLapicMap, ApLapicInit, ApTrapInit, ApStarted, ApLock, ApSched, kernel
<1>3. mmiobase' <= MMIOLIM /\ (lapic' # None => lapic' \in MMIOBASE .. MMIOLIM - 1)
  <2>1. CASE ApLapicInit(c)
    <3>1. pc[c] = "mapped" /\ mmiobase' = mmiobase + 1 /\ lapic' = window[c]
      BY <2>1 DEF ApLapicInit, MmioAdvance, ApAt
    <3>2. window[c] = mmiobase /\ mmiobase \in Nat /\ mmiobase >= MMIOBASE
      BY <3>1 DEF Inv, KernelInv, ApInv
    <3>3. window[c] < MMIOLIM
      <4>1. window[c] # None
        BY <3>2, Sizes
      <4>2. QED
        BY <4>1 DEF Inv, ApInv
    <3>4. QED
      BY <3>1, <3>2, <3>3, Mmio
  <2>2. CASE ~ApLapicInit(c)
    <3>1. mmiobase' = mmiobase /\ lapic' = lapic
      BY <2>2 DEF ApStep, MpEntry, ApLapicMap, ApTrapInit, ApStarted, ApLock, ApSched, mem, kernel
    <3>2. QED
      BY <3>1 DEF TypeInv
  <2>3. QED
    BY <2>1, <2>2
<1>4. phase \in Late
  <2>1. PICK label \in ApPc \ {"off"} : ApAt(c, label)
    BY DEF ApStep, MpEntry, ApLapicMap, ApLapicInit, ApTrapInit, ApStarted, ApLock,
           ApSched, ApPc
  <2>2. QED
    BY <2>1, ApFacts
<1>5. phase' \notin Early
  BY <1>1, <1>4 DEF Late, Starting, Early
<1>6. QED
  BY <1>1, <1>2, <1>3, <1>5 DEF TypeInv, Starting

LEMMA TypeInvStep == Inv /\ TypeInv /\ [Next]_vars => TypeInv'
<1> SUFFICES ASSUME Inv, TypeInv, [Next]_vars PROVE TypeInv'
  OBVIOUS
<1>1. CASE BspStep
  BY <1>1, MemInitTypes, BspTypes
<1>2. ASSUME NEW c \in CPU, ApStep(c) PROVE TypeInv'
  BY <1>2, ApTypes
<1>3. CASE UNCHANGED vars
  <2>1. /\ UNCHANGED <<bootcpu, mpentry, lock, mpentry_kstack, mmiobase, lapic, starting>>
        /\ phase' = phase /\ ncpu' = ncpu
    BY <1>3 DEF vars, mem, kernel
  <2>2. QED
    BY <2>1 DEF TypeInv
<1>4. QED
  BY <1>1, <1>2, <1>3 DEF Next

LEMMA Typed == Inv /\ MemInv /\ TypeInv => TypeOK
<1> SUFFICES ASSUME Inv, MemInv, TypeInv PROVE TypeOK
  OBVIOUS
<1>1. /\ npages \in Machines /\ free \in Seq(0 .. npages - 1)
      /\ bootcpu \in 0 .. NCPU - 1 /\ mpentry \in BOOLEAN
      /\ lock \in CPU \cup {None} /\ mpentry_kstack \in CPU \cup {None}
      /\ lapic \in {None} \cup MMIOBASE .. MMIOLIM - 1
  BY DEF MemInv, FreeInv, TypeInv
<1>2. ncpu \in 0 .. NCPU /\ starting \in 0 .. NCPU /\ mmiobase \in MMIOBASE .. MMIOLIM
  BY Sizes, Mmio DEF Inv, KernelInv, TypeInv
<1>3. status \in [0 .. NCPU - 1 -> {"UNUSED", "STARTED"}] /\ pc \in [CPU -> ApPc]
  BY DEF Inv, StatusInv, ApsType
<1>4. 0 \in CPU
  BY Sizes DEF CPU
<1>5. ASSUME NEW c \in CPU
      PROVE  /\ esp[c] \in CPU \cup {None} /\ tss[c] \in CPU \cup {None}
             /\ window[c] \in {None} \cup MMIOBASE .. MMIOLIM - 1
  <2>1. esp[c] \in CPU \cup {None} /\ tss[c] \in CPU \cup {None}
    BY <1>4 DEF Inv, ApInv
  <2>2. window[c] # None =>
           window[c] \in Nat /\ window[c] >= MMIOBASE + 3 /\ window[c] < MMIOLIM
    BY DEF Inv, ApInv
  <2>3. window[c] # None => window[c] \in MMIOBASE .. MMIOLIM - 1
    BY <2>2, Mmio
  <2>4. QED
    BY <2>1, <2>3
<1>6. /\ esp \in [CPU -> CPU \cup {None}] /\ tss \in [CPU -> CPU \cup {None}]
      /\ window \in [CPU -> {None} \cup MMIOBASE .. MMIOLIM - 1]
  BY <1>5 DEF Inv, ApsType
<1>7. QED
  BY <1>1, <1>2, <1>3, <1>6 DEF TypeOK

\* Memory is safe while the machine starts, whatever its size and its processors: no
\* page that page_init, boot_alloc or pgdir_walk has put to use is on page_free_list,
\* none is there twice, and mem_init writes to no page before it is mapped, because
\* check_page_free_list(1) has brought the pages that entry_pgdir maps to the front.
THEOREM MemoryIsSafeAtBoot == Spec => []BootInv
<1>1. Spec => [](Inv /\ MemInv /\ TypeInv)
  <2>1. Init => MemInv /\ TypeInv
    BY MemInvInit, TypeInvInit
  <2>2. Inv /\ (MemInv /\ TypeInv) /\ [Next]_vars => (MemInv /\ TypeInv)'
    BY MemInvStep, TypeInvStep
  <2>3. QED
    BY <2>1, <2>2, OneAtATime, PTL DEF Spec
<1>2. MemInv => ReservedNeverFree
  <2>1. SUFFICES ASSUME MemInv
                 PROVE  /\ \A p \in ToSet(free) :
                              /\ p \notin Reserved
                              /\ \A x \in DOMAIN tables : tables[x] # p
                        /\ Cardinality(ToSet(free)) = Len(free)
    BY DEF ReservedNeverFree, Reserved
  <2>2. Cardinality(ToSet(free)) = Len(free)
    BY <2>1, FreeTyped, DistinctCount
  <2>3. QED
    BY <2>1, <2>2 DEF MemInv, FreeInv, ToSet
<1>3. MemInv => EarlyAccessMapped
  BY DEF MemInv, EarlyInv, EarlyAccessMapped, EntryMapped
<1>4. Inv /\ MemInv /\ TypeInv => BootInv
  BY <1>2, <1>3, Typed DEF BootInv
<1>5. QED
  BY <1>1, <1>4, PTL
=============================================================================
