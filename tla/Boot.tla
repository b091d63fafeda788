------------------------------- MODULE Boot --------------------------------
(***************************************************************************)
(* From the first line of i386_init to the scheduler on every CPU: the     *)
(* boot processor sets up memory (MemInit), reads the BIOS's table of      *)
(* processors, maps its local APIC, takes the kernel lock and starts the   *)
(* other processors one by one with an INIT and two STARTUP messages; each *)
(* of them finds its stack in the variable mpentry_kstack and goes through *)
(* mpentry.S and mp_main without the lock.                                 *)
(*                                                                         *)
(* A processor is known by its local APIC's id, which is its place among   *)
(* the processors of the table, as the code takes it to be.                *)
(***************************************************************************)
EXTENDS MemInit, FiniteSets

CONSTANTS MAXENTRY      \* how long a table of processors is looked at

ASSUME BootAssumption == MAXENTRY \in Nat /\ MAXENTRY > 0

\* Entries of the table: processors, the boot processor, buses and the like, and
\* types that the kernel does not know.
Kinds == {"proc", "boot", "bus", "unknown"}

\* How many processors mp_init has counted when it comes to entry i; that many are
\* before the boot processor, so it is its number.
ProcsBefore(t, i) == Cardinality({j \in DOMAIN t : j < i /\ t[j] \in {"proc", "boot"}})
BootEntry(t) == CHOOSE i \in DOMAIN t : t[i] = "boot"
BootIndex(t) == ProcsBefore(t, BootEntry(t))

\* One boot processor, which is among the first NCPU; None is no table at all.
Table == {t \in UNION {[1 .. n -> Kinds] : n \in 1 .. MAXENTRY} :
            /\ \E i \in DOMAIN t : \A j \in DOMAIN t : t[j] = "boot" <=> j = i
            /\ BootIndex(t) < NCPU}

VARIABLES
    table,
    ncpu, bootcpu, status,      \* cpus[]: how many, and the cpu_status of each
    lapic,                      \* where the local APICs are mapped, or None
    mpentry,                    \* mpentry.S has been copied to MPENTRY_PADDR
    mpentry_kstack,
    starting,                   \* boot_aps' loop variable c
    lock,                       \* the owner of kernel_lock, or None
    pc,                         \* where each AP is
    esp, tss, window            \* the stack it runs on, the one in its TSS, and
                                \* where it mapped its APIC

kernel == <<table, ncpu, bootcpu, status, lapic, mpentry, mpentry_kstack, starting, lock>>
aps == <<pc, esp, tss, window>>
vars == <<mem, phase, kernel, aps>>

CPU == 0 .. MAXENTRY - 1
\* The boot processor itself.
BSP == IF table = None THEN 0 ELSE BootIndex(table)

ApPc == {"off", "reset", "entry", "mp_main", "mapped", "trap_init", "started", "lock",
         "sched", "done"}

TypeOK ==
    /\ npages \in Machines /\ ncpu \in 0 .. NCPU /\ bootcpu \in 0 .. NCPU - 1
    /\ status \in [0 .. NCPU - 1 -> {"UNUSED", "STARTED"}]
    /\ lapic \in {None} \cup MMIOBASE .. MMIOLIM - 1 /\ mmiobase \in MMIOBASE .. MMIOLIM
    /\ starting \in 0 .. NCPU /\ lock \in CPU \cup {None}
    /\ mpentry \in BOOLEAN /\ mpentry_kstack \in CPU \cup {None}
    /\ pc \in [CPU -> ApPc] /\ esp \in [CPU -> CPU \cup {None}]
    /\ tss \in [CPU -> CPU \cup {None}]
    /\ window \in [CPU -> {None} \cup MMIOBASE .. MMIOLIM - 1]
    /\ free \in Seq(0 .. npages - 1)

Init ==
    /\ MemInitInit
    /\ table \in Table \cup {None}
    /\ ncpu = 0 /\ bootcpu = 0 /\ status = [c \in 0 .. NCPU - 1 |-> "UNUSED"]
    /\ lapic = None /\ mpentry = FALSE /\ mpentry_kstack = None /\ starting = 0
    /\ lock = None
    /\ pc = [c \in CPU |-> "off"] /\ esp = [c \in CPU |-> None]
    /\ tss = [c \in CPU |-> None] /\ window = [c \in CPU |-> None]

\* cpunum() as processor c sees it: 0 until a local APIC is mapped.
Cpunum(c) == IF lapic = None THEN 0 ELSE c

----------------------------------------------------------------------------
(* The boot processor *)

MemInitPhase == MemInitStep /\ UNCHANGED <<kernel, aps>>

\* trap_init comes before mp_init, when cpunum() is still 0.
TrapInit ==
    /\ phase = "trap_init"
    /\ tss' = [tss EXCEPT ![BSP] = Cpunum(BSP)]
    /\ phase' = "mp_init"
    /\ UNCHANGED <<mem, kernel, pc, esp, window>>

\* mp_init stops at an entry of unknown type, and then wants no MP at all.
KnownBefore(t, i) == \A j \in DOMAIN t : j < i => t[j] # "unknown"
Ismp == KnownBefore(table, Len(table) + 1)

\* How many processors fit the array cpus; the others are disabled.
CountOf(n) == IF n <= NCPU THEN n ELSE NCPU

MpInit ==
    LET boot == IF KnownBefore(table, BootEntry(table)) THEN BootIndex(table) ELSE 0
    IN  /\ phase = "mp_init"
        /\ phase' = "lapic_init"
        /\ IF table = None THEN UNCHANGED <<ncpu, bootcpu, status>>
           ELSE /\ bootcpu' = boot
                /\ ncpu' = IF Ismp THEN CountOf(ProcsBefore(table, Len(table) + 1)) ELSE 1
                /\ status' = [status EXCEPT ![boot] = "STARTED"]
        /\ UNCHANGED <<mem, table, lapic, mpentry, mpentry_kstack, starting, lock, aps>>

\* lapicaddr is 0 when there is no table, or one that the kernel does not accept.
Lapicaddr == table # None /\ Ismp

\* mmio_map_region of one page: reserved and mapped.
MmioReserve(c, next) ==
    IF MmioFits(1)
    THEN /\ MmioMap(mmiobase) /\ window' = [window EXCEPT ![c] = mmiobase]
         /\ pc' = [pc EXCEPT ![c] = next] /\ UNCHANGED phase
    ELSE phase' = "panic" /\ UNCHANGED <<kernmap, window, pc>>

\* ... and counted; the rest of lapic_init programs the caller's own APIC.
MmioAdvance(c) ==
    /\ mmiobase' = mmiobase + 1
    /\ lapic' = window[c]

\* lapic_init and pic_init, with nobody else about.
BspLapicInit ==
    /\ phase = "lapic_init"
    /\ IF Lapicaddr
       THEN IF MmioFits(1)
            THEN /\ MmioMap(mmiobase) /\ window' = [window EXCEPT ![BSP] = mmiobase]
                 /\ lapic' = mmiobase /\ mmiobase' = mmiobase + 1 /\ phase' = "lock"
            ELSE phase' = "panic" /\ UNCHANGED <<kernmap, window, lapic, mmiobase>>
       ELSE phase' = "lock" /\ UNCHANGED <<kernmap, window, lapic, mmiobase>>
    /\ UNCHANGED <<npages, nextfree, envsat, free, tables, touched, table, ncpu, bootcpu,
                   status, mpentry, mpentry_kstack, starting, lock, pc, esp, tss>>

LockKernel ==
    /\ phase = "lock"
    /\ lock' = BSP /\ mpentry' = TRUE /\ starting' = 0 /\ phase' = "boot_aps"
    /\ UNCHANGED <<mem, table, ncpu, bootcpu, status, lapic, mpentry_kstack, aps>>

\* The loop of boot_aps, up to the INIT message.
BootAp ==
    /\ phase = "boot_aps"
    /\ \/ /\ starting < ncpu /\ starting = Cpunum(BSP)
          /\ starting' = starting + 1 /\ UNCHANGED <<mpentry_kstack, pc, phase>>
       \/ /\ starting < ncpu /\ starting # Cpunum(BSP)
          /\ mpentry_kstack' = starting
          /\ pc' = [pc EXCEPT ![starting] = "reset"]
          /\ phase' = "startup1" /\ UNCHANGED starting
       \/ /\ starting >= ncpu
          /\ phase' = "sched" /\ UNCHANGED <<mpentry_kstack, starting, pc>>
    /\ UNCHANGED <<mem, table, ncpu, bootcpu, status, lapic, mpentry, lock, esp, tss, window>>

\* A STARTUP message wakes a processor that an INIT has reset; the second of the
\* two finds it started, unless the first was lost.
Startup ==
    /\ phase \in {"startup1", "startup2"}
    /\ phase' = IF phase = "startup1" THEN "startup2" ELSE "wait"
    /\ \/ pc[starting] = "reset" /\ pc' = [pc EXCEPT ![starting] = "entry"]
       \/ (pc[starting] # "reset" \/ phase = "startup1") /\ UNCHANGED pc
    /\ UNCHANGED <<mem, kernel, esp, tss, window>>

Wait ==
    /\ phase = "wait" /\ status[starting] = "STARTED"
    /\ starting' = starting + 1 /\ phase' = "boot_aps"
    /\ UNCHANGED <<mem, table, ncpu, bootcpu, status, lapic, mpentry, mpentry_kstack,
                   lock, aps>>

\* env_create and sched_yield, which leaves the kernel.
BspSched ==
    /\ phase = "sched" /\ phase' = "done" /\ lock' = None
    /\ UNCHANGED <<mem, table, ncpu, bootcpu, status, lapic, mpentry, mpentry_kstack,
                   starting, aps>>

----------------------------------------------------------------------------
(* The other processors; a panic of one stops them all, sooner or later *)

ApAt(c, label) == pc[c] = label /\ phase # "panic"

\* Mutant of MpEntry: boot_aps is told at once, and not when the APIC is set up.
MpEntryStarted(c) ==
    /\ ApAt(c, "entry") /\ mpentry
    /\ esp' = [esp EXCEPT ![c] = mpentry_kstack]
    /\ pc' = [pc EXCEPT ![c] = "mp_main"]
    /\ status' = [status EXCEPT ![c] = "STARTED"]
    /\ UNCHANGED <<mem, phase, table, ncpu, bootcpu, lapic, mpentry, mpentry_kstack,
                   starting, lock, tss, window>>

\* mpentry.S, from the copied code, on the stack it is told.
MpEntry(c) ==
    /\ ApAt(c, "entry") /\ mpentry
    /\ esp' = [esp EXCEPT ![c] = mpentry_kstack]
    /\ pc' = [pc EXCEPT ![c] = "mp_main"]
    /\ UNCHANGED <<mem, phase, kernel, tss, window>>

\* mp_main: lapic_init, without the lock.
ApLapicMap(c) ==
    /\ ApAt(c, "mp_main")
    /\ MmioReserve(c, "mapped")
    /\ UNCHANGED <<npages, nextfree, envsat, free, tables, mmiobase, touched, kernel, esp, tss>>

ApLapicInit(c) ==
    /\ ApAt(c, "mapped")
    /\ MmioAdvance(c)
    /\ pc' = [pc EXCEPT ![c] = "trap_init"]
    /\ UNCHANGED <<npages, nextfree, envsat, free, tables, kernmap, touched, phase, table,
                   ncpu, bootcpu, status, mpentry, mpentry_kstack, starting, lock, esp, tss, window>>

\* Mutant of ApTrapInit: the TSS is that of CPU 0, as before the kernel knew others.
ApTrapInitZero(c) ==
    /\ ApAt(c, "trap_init")
    /\ tss' = [tss EXCEPT ![c] = 0]
    /\ pc' = [pc EXCEPT ![c] = "started"]
    /\ UNCHANGED <<mem, phase, kernel, esp, window>>

ApTrapInit(c) ==
    /\ ApAt(c, "trap_init")
    /\ tss' = [tss EXCEPT ![c] = Cpunum(c)]
    /\ pc' = [pc EXCEPT ![c] = "started"]
    /\ UNCHANGED <<mem, phase, kernel, esp, window>>

\* Mutant of ApStarted: the lock is taken before boot_aps is told.
ApStartedLocked(c) ==
    /\ ApAt(c, "started") /\ lock = None
    /\ status' = [status EXCEPT ![Cpunum(c)] = "STARTED"]
    /\ pc' = [pc EXCEPT ![c] = "lock"]
    /\ UNCHANGED <<mem, phase, table, ncpu, bootcpu, lapic, mpentry, mpentry_kstack,
                   starting, lock, esp, tss, window>>

ApStarted(c) ==
    /\ ApAt(c, "started")
    /\ status' = [status EXCEPT ![Cpunum(c)] = "STARTED"]
    /\ pc' = [pc EXCEPT ![c] = "lock"]
    /\ UNCHANGED <<mem, phase, table, ncpu, bootcpu, lapic, mpentry, mpentry_kstack,
                   starting, lock, esp, tss, window>>

ApLock(c) ==
    /\ ApAt(c, "lock") /\ lock = None
    /\ lock' = c /\ pc' = [pc EXCEPT ![c] = "sched"]
    /\ UNCHANGED <<mem, phase, table, ncpu, bootcpu, status, lapic, mpentry, mpentry_kstack,
                   starting, esp, tss, window>>

ApSched(c) ==
    /\ ApAt(c, "sched")
    /\ lock' = None /\ pc' = [pc EXCEPT ![c] = "done"]
    /\ UNCHANGED <<mem, phase, table, ncpu, bootcpu, status, lapic, mpentry, mpentry_kstack,
                   starting, esp, tss, window>>

BspStep == \/ MemInitPhase \/ TrapInit \/ MpInit \/ BspLapicInit \/ LockKernel
           \/ BootAp \/ Startup \/ Wait \/ BspSched

ApStep(c) == \/ MpEntry(c) \/ ApLapicMap(c) \/ ApLapicInit(c) \/ ApTrapInit(c)
             \/ ApStarted(c) \/ ApLock(c) \/ ApSched(c)

Next == BspStep \/ \E c \in CPU : ApStep(c)

\* Processors do not stop by themselves, and cli keeps interrupts out.
Spec == Init /\ [][Next]_vars /\ WF_vars(BspStep) /\ \A c \in CPU : WF_vars(ApStep(c))

----------------------------------------------------------------------------
(* Properties *)

\* The page that APs start in, the real-mode page, the I/O hole, the kernel with
\* what boot_alloc gave out, and the page tables are never free, and no page is
\* free twice (pmap.c:306-317), through all the shuffling of the self-checks.
ReservedNeverFree ==
    LET inuse == {0, MPENTRY} \cup IOPHYSMEM .. nextfree - 1
                 \cup {tables[x] : x \in {y \in DOMAIN tables : tables[y] # None}}
    IN  free # <<>> => /\ ToSet(free) \cap inuse = {}
                       /\ Cardinality(ToSet(free)) = Len(free)

\* Until kern_pgdir is loaded only the first PT pages are mapped, and the boot
\* processor writes to no others: it is the check of the free list that brings
\* pages it can reach to the front, before any becomes a page table.
EarlyAccessMapped == touched \subseteq EntryMapped

\* Memory is safe from the first allocation to the last processor: what is in use
\* is not free, and what is not mapped is not touched.
BootInv == TypeOK /\ ReservedNeverFree /\ EarlyAccessMapped

\* No two processors run on the same kernel stack, nor come back to the same one
\* on a trap, and the page below each stack is not mapped -- given that the boot
\* processor is number 0, as its trap_init supposes.
OwnStack ==
    bootcpu = 0 =>
       \A c, d \in CPU : c # d =>
          /\ esp[c] # None => esp[c] # esp[d]
          /\ tss[c] # None => tss[c] # tss[d]
          /\ tss[c] # None =>
                LET top == KSTACKTOP - tss[c] * (KSTKSIZE + KSTKGAP)
                IN  kernmap[top - 1] = PercpuKstack(tss[c]) /\ kernmap[top - 2] = None

\* The unlocked static variable of mmio_map_region: every processor has its APIC at
\* an address of its own, inside the MMIO region.
WindowsDisjoint ==
    \A c, d \in CPU : window[c] # None =>
       /\ window[c] >= MMIOBASE + 3 /\ window[c] < MMIOLIM
       /\ c # d => window[c] # window[d]

\* boot_aps waits for each processor with the kernel lock held, and every one comes
\* to the scheduler all the same, or the kernel has panicked.
BootCompletes ==
    <>(\/ phase = "panic"
       \/ phase = "done" /\ \A c \in CPU : c < ncpu /\ c # Cpunum(BSP) => pc[c] = "done")
=============================================================================
