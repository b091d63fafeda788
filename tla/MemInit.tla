------------------------------ MODULE MemInit ------------------------------
(***************************************************************************)
(* mem_init of kern/pmap.c: how the boot processor, still on the small     *)
(* page table of kern/entrypgdir.c, carves up physical memory, makes the   *)
(* list of free pages and builds kern_pgdir, with the self-checks it makes *)
(* on the way, some of which change the free list or overwrite free pages. *)
(*                                                                         *)
(* Sizes and addresses are in pages, and scaled by the constants.  Virtual *)
(* addresses count from UENVS = UTOP, where kern_pgdir begins.             *)
(***************************************************************************)
EXTENDS Naturals, Sequences, SequencesExt, FiniteSets

CONSTANTS
    PT,                 \* pages that one page table maps: 1024
    PHYSMAP,            \* pages from KERNBASE to the top of memory: 65536
    NCPU,               \* 8
    Machines,           \* numbers of physical pages a machine may have
    MPENTRY,            \* MPENTRY_PADDR: 7
    IOPHYSMEM, EXTPHYSMEM,      \* 160 and 256
    KEND,               \* where the kernel's bss ends
    PERPAGE,            \* PageInfo structures in a page: 512
    ENVPAGES,           \* pages of the array envs
    None

ASSUME MemInitAssumption ==
    /\ {PT, PHYSMAP, NCPU, MPENTRY, IOPHYSMEM, EXTPHYSMEM, KEND, PERPAGE, ENVPAGES} \subseteq Nat
    /\ 0 < MPENTRY /\ MPENTRY < IOPHYSMEM /\ IOPHYSMEM < EXTPHYSMEM /\ EXTPHYSMEM < KEND
    /\ 0 < NCPU /\ 2 * NCPU <= PT /\ 3 <= PT /\ PERPAGE > 0 /\ None \notin Nat
    /\ \A n \in Machines : n \in Nat /\ EXTPHYSMEM < n /\ n <= PHYSMAP

\* inc/memlayout.h, with a kernel stack and the gap below it of a page each.
UENVS == 0
UPAGES == PT
UVPT == 2 * PT
MMIOBASE == 3 * PT
MMIOLIM == 4 * PT
KSTACKTOP == 5 * PT
KERNBASE == KSTACKTOP
VTOP == KERNBASE + PHYSMAP
KSTKSIZE == 1
KSTKGAP == 1

\* The CPUs' stacks are a global array of the kernel.
PercpuKstack(i) == <<"percpu_kstacks", i>>

VARIABLES
    npages,
    nextfree,           \* of boot_alloc, a physical page number
    envsat,             \* where the array envs is
    free,               \* page_free_list
    tables,             \* tables[pdx], the page table's page
    kernmap,            \* kernmap[va], the physical page mapped there
    mmiobase,           \* of mmio_map_region
    touched,            \* physical pages written while entry_pgdir was in use
    phase               \* what the boot processor does next

mem == <<npages, nextfree, envsat, free, tables, kernmap, mmiobase, touched>>

MemInitInit ==
    /\ npages \in Machines
    /\ nextfree = KEND /\ envsat = 0 /\ free = <<>>
    /\ tables = [x \in 0 .. (VTOP - 1) \div PT |-> None]
    /\ kernmap = [va \in 0 .. VTOP - 1 |-> None]
    /\ mmiobase = MMIOBASE /\ touched = {} /\ phase = "alloc"

PDX(va) == va \div PT

\* kern/entrypgdir.c maps the first PT pages of physical memory, and no more.
EntryMapped == 0 .. PT - 1

\* The pages that an array of n elements takes, with per of them in a page.
Pages(n, per) == (n + per - 1) \div per

\* Where boot_alloc has got to after kern_pgdir, pages and envs.
BootEnd(n) == KEND + 1 + Pages(n, PERPAGE) + ENVPAGES

\* The page directory entries of the regions that mem_init maps.
MapEntries == PDX(UENVS) .. PDX(UPAGES) \cup PDX(KSTACKTOP - 1) .. PDX(VTOP - 1)

\* The free pages that entry_pgdir maps, when there are any that it does not map.
LowPages(n) == (IOPHYSMEM - 2) + (PT - BootEnd(n))

\* entry_pgdir maps all that boot_alloc gives out and enough free pages for the
\* tables of kern_pgdir, with the one that check_page leaves behind.
ASSUME EarlyAssumption ==
    \A n \in Machines :
       /\ BootEnd(n) <= PT
       /\ n > PT => LowPages(n) >= 3 /\ LowPages(n) > Cardinality(MapEntries)

\* assert(): the kernel panics.
Check(test, next) == phase' = IF test THEN next ELSE "panic"

----------------------------------------------------------------------------

\* boot_alloc for kern_pgdir, pages and envs, all three cleared.  boot_alloc
\* panics when it passes the end of memory.
BootAlloc ==
    LET end == BootEnd(npages)
    IN  /\ phase = "alloc"
        /\ nextfree' = end /\ envsat' = end - ENVPAGES
        /\ Check(end <= npages, "page_init")
        /\ touched' = touched \cup KEND .. end - 1
        /\ UNCHANGED <<npages, free, tables, kernmap, mmiobase>>

\* page_init: page 0, the hole with everything up to boot_alloc(0), and the page
\* that the APs start in are in use.
Reserved == {0, MPENTRY} \cup IOPHYSMEM .. nextfree - 1

\* The elements of a set in the order of their ranks.
Arranged(rank) == [k \in 1 .. Cardinality(DOMAIN rank) |-> CHOOSE x \in DOMAIN rank : rank[x] = k]

\* Every free page is pushed on the list, so that the last is the first.
FreePages ==
    LET pages == (0 .. npages - 1) \ Reserved
    IN  Arranged([p \in pages |-> Cardinality({q \in pages : q >= p})])

PageInit ==
    /\ phase = "page_init"
    /\ free' = FreePages
    /\ phase' = "check_low"
    /\ UNCHANGED <<npages, nextfree, envsat, tables, kernmap, mmiobase, touched>>

\* The assertions of check_page_free_list about each page, and its two counts.
FreeListReasonable(list) ==
    /\ \A i \in DOMAIN list :
          /\ list[i] \in 0 .. npages - 1
          /\ list[i] \notin {0, IOPHYSMEM, EXTPHYSMEM - 1, EXTPHYSMEM, MPENTRY}
          /\ list[i] >= EXTPHYSMEM => list[i] >= nextfree
    /\ \E i \in DOMAIN list : list[i] < EXTPHYSMEM
    /\ \E i \in DOMAIN list : list[i] >= EXTPHYSMEM

\* Mutant of LowFirst: the list stays in the order of page_init.
LowFirstNot(list) == list

\* Pages that entry_pgdir maps come first; otherwise the order stays.
LowFirst(list) ==
    LET low == {i \in DOMAIN list : list[i] < PT}
        place == [i \in DOMAIN list |->
                    IF i \in low THEN Cardinality({j \in low : j <= i})
                    ELSE Cardinality(low) + Cardinality({j \in DOMAIN list \ low : j <= i})]
        from == Arranged(place)
    IN  [k \in DOMAIN list |-> list[from[k]]]

\* check_page_free_list(1).  It overwrites the pages that it can reach.
CheckPageFreeListLow ==
    /\ phase = "check_low"
    /\ free' = LowFirst(free)
    /\ Check(FreeListReasonable(free), "check_alloc")
    /\ touched' = touched \cup {p \in ToSet(free) : PDX(p) = 0}
    /\ UNCHANGED <<npages, nextfree, envsat, tables, kernmap, mmiobase>>

\* check_page_alloc takes the first three pages off the list and puts them back, one by
\* one, twice over, so that they end where they were.  The third is the first to be
\* taken the second time, and is filled with ones.
CheckPageAlloc ==
    /\ phase = "check_alloc"
    /\ Check(Len(free) >= 3, "check_page")
    /\ touched' = touched \cup IF Len(free) >= 3 THEN {free[3]} ELSE {}
    /\ UNCHANGED <<npages, nextfree, envsat, free, tables, kernmap, mmiobase>>

\* The first three pages are taken off the list and put back one by one.
Swapped(list) == <<list[3], list[2], list[1]>> \o SubSeq(list, 4, Len(list))

\* check_page: the first page serves as a page table for address 0 and comes back,
\* as do the next two; what remains is the page table of the MMIO region and the
\* three pages of it that two calls of mmio_map_region have used up.
CheckPage ==
    /\ phase = "check_page"
    /\ Check(Len(free) >= 3, "map")
    /\ IF Len(free) >= 3
       THEN /\ free' = Tail(Swapped(free))
            /\ tables' = [tables EXCEPT ![PDX(MMIOBASE)] = free[3]]
            /\ touched' = touched \cup {free[1], free[3]}
            /\ mmiobase' = mmiobase + 3
       ELSE UNCHANGED <<free, tables, touched, mmiobase>>
    /\ UNCHANGED <<npages, nextfree, envsat, kernmap>>

Region(va, size, pa) == [va |-> va, size |-> size, pa |-> pa]

\* mem_init_mp: a stack for each CPU, with a gap below it.
StackRegions ==
    [i \in 1 .. NCPU |-> Region(KSTACKTOP - (KSTKSIZE + KSTKGAP) * (i - 1) - KSTKSIZE,
                                KSTKSIZE, PercpuKstack(i - 1))]

\* The calls of boot_map_region in mem_init, then those of mem_init_mp, which
\* replace the boot stack.  (page2pa(pages) is 0: UPAGES shows the first physical
\* pages.)
Regions ==
    <<Region(UPAGES, PT, <<"page", 0>>), Region(UENVS, PT, <<"page", envsat>>),
      Region(KSTACKTOP - KSTKSIZE, KSTKSIZE, <<"bootstack", 0>>),
      Region(KERNBASE, PHYSMAP, <<"page", 0>>)>> \o StackRegions

\* boot_map_region; where two regions overlap, the later call counts.
MapsTo(r, va) == va \in r.va .. r.va + r.size - 1
BootMapRegion(regions, va) ==
    LET i == CHOOSE j \in DOMAIN regions :
                /\ MapsTo(regions[j], va)
                /\ \A k \in DOMAIN regions : MapsTo(regions[k], va) => k <= j
    IN  <<regions[i].pa[1], regions[i].pa[2] + va - regions[i].va>>

\* All of them; pgdir_walk(..., 1) takes the missing page tables from the list.
\* (Which page becomes which table does not matter.)
MapRegions ==
    LET new == {x \in MapEntries : tables[x] = None}
        n == Cardinality(new)
    IN  /\ phase = "map"
        /\ Check(Len(free) >= n, "check_kern")
        /\ IF Len(free) >= n
           THEN /\ free' = SubSeq(free, n + 1, Len(free))
                /\ tables' = [x \in DOMAIN tables |->
                                IF x \in new THEN free[Cardinality({y \in new : y <= x})]
                                ELSE tables[x]]
                /\ touched' = touched \cup {free[j] : j \in 1 .. n}
                /\ kernmap' = [va \in DOMAIN kernmap |->
                                 IF \E i \in DOMAIN Regions : MapsTo(Regions[i], va)
                                 THEN BootMapRegion(Regions, va) ELSE kernmap[va]]
           ELSE UNCHANGED <<free, tables, touched, kernmap>>
        /\ UNCHANGED <<npages, nextfree, envsat, mmiobase>>

\* The assertions of check_kern_pgdir: envs, all of memory, the stacks with the
\* gaps below them, and which page tables there are (UVPT is the directory itself).
KernPgdirRight ==
    /\ \A i \in 0 .. ENVPAGES - 1 : kernmap[UENVS + i] = <<"page", envsat + i>>
    /\ \A i \in 0 .. npages - 1 : kernmap[KERNBASE + i] = <<"page", i>>
    /\ \A n \in 0 .. NCPU - 1 :
          LET base == KSTACKTOP - (KSTKSIZE + KSTKGAP) * (n + 1)
          IN  kernmap[base + KSTKGAP] = PercpuKstack(n) /\ kernmap[base] = None
    /\ \A x \in DOMAIN tables : tables[x] = None <=> x = PDX(UVPT)

CheckKernPgdir ==
    /\ phase = "check_kern"
    /\ Check(KernPgdirRight, "lcr3")
    /\ UNCHANGED mem

\* From here on all of physical memory is mapped.  check_page_free_list(0) and
\* check_page_installed_pgdir; the latter leaves the first three pages turned round.
Lcr3 ==
    /\ phase = "lcr3"
    /\ Check(FreeListReasonable(free) /\ Len(free) >= 3, "trap_init")
    /\ free' = IF Len(free) >= 3
               THEN <<free[1], free[3], free[2]>> \o SubSeq(free, 4, Len(free)) ELSE free
    /\ UNCHANGED <<npages, nextfree, envsat, tables, kernmap, mmiobase, touched>>

MemInitStep ==
    \/ BootAlloc \/ PageInit \/ CheckPageFreeListLow \/ CheckPageAlloc \/ CheckPage
    \/ MapRegions \/ CheckKernPgdir \/ Lcr3

\* mmio_map_region: the pages from va on show the device's page, if there is room.
MmioFits(size) == mmiobase + size < MMIOLIM
MmioMap(va) == kernmap' = [kernmap EXCEPT ![va] = <<"lapic", 0>>]
=============================================================================
