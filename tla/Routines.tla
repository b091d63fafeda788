----------------------------- MODULE Routines -------------------------------
(***************************************************************************)
(* Sequential routines of the kernel and the boot loader: the check of     *)
(* user addresses, the two loaders of ELF images, the search for debugging *)
(* information, and the monitor's command line.  Only TLC uses this module. *)
(***************************************************************************)
EXTENDS Integers, Sequences, FiniteSets, SequencesExt

CONSTANTS
    ADDR,               \* how many addresses there are: 2^32
    PGSIZE,             \* 4096
    ULIM,               \* user programs may use addresses below
    USTACKTOP,          \* where their stacks end
    SECTSIZE,           \* of the disk: 512
    MAXARGS             \* of the monitor: 16

ASSUME RoutinesAssumption ==
    /\ {ADDR, PGSIZE, ULIM, USTACKTOP, SECTSIZE, MAXARGS} \subseteq Nat \ {0}
    /\ \A a \in {ADDR, ULIM, USTACKTOP} : a % PGSIZE = 0
    /\ USTACKTOP <= ULIM /\ ULIM < ADDR

ROUNDDOWN(a, n) == a - (a % n)
ROUNDUP(a, n) == ROUNDDOWN((a + n - 1) % ADDR, n)

----------------------------------------------------------------------------
(* user_mem_check *)

\* Mutant of EndOf: the page with the last byte is left out.
EndOfDown(va, len) == ROUNDDOWN((va + len) % ADDR, PGSIZE)

EndOf(va, len) == ROUNDUP((va + len) % ADDR, PGSIZE)

\* The page tables give page p the permissions pt[p].  The result is -1 when the
\* range may be accessed, and else user_mem_check_addr.
UserMemCheck(pt, va, len, perm) ==
    LET start == ROUNDDOWN(va, PGSIZE)
        bad == {a \in start .. EndOf(va, len) - 1 :
                  a % PGSIZE = 0 /\ (a >= ULIM \/ ~(perm \subseteq pt[a \div PGSIZE]))}
        first == CHOOSE a \in bad : \A b \in bad : a <= b
    IN  IF bad = {} THEN -1 ELSE IF first = start THEN va ELSE first

----------------------------------------------------------------------------
(* Loading *)

\* An image has a header [magic, entry, phs].  A segment [load, at, off, filesz,
\* memsz] is to be at address at; byte off of the image file holds the number off.
\* Memory is a function on addresses; -1 is what nobody has written.
Write(mem, at, n, Byte(_)) ==
    [a \in DOMAIN mem |-> IF at <= a /\ a < at + n THEN Byte(a - at) ELSE mem[a]]

\* readseg of the boot loader: whole sectors.
Readseg(mem, pa, count, off) ==
    LET start == ROUNDDOWN(pa, SECTSIZE)
        sectors == (pa + count - start + SECTSIZE - 1) \div SECTSIZE
        Disk(i) == ROUNDDOWN(off, SECTSIZE) + i
    IN  Write(mem, start, SECTSIZE * sectors, Disk)

Zero(i) == 0

\* Mutant of BootSegment: the rest of a segment is not cleared.
BootSegmentOnly(mem, ph) == Readseg(mem, ph.at, ph.memsz, ph.off)

\* bootmain's loop for one segment.
BootSegment(mem, ph) ==
    Write(Readseg(mem, ph.at, ph.memsz, ph.off), ph.at + ph.filesz, ph.memsz - ph.filesz, Zero)

\* bootmain loads all segments, whatever their type, and jumps to the entry point;
\* it stops when the image is not an ELF file.
Bootmain(mem, elf) ==
    IF elf.magic THEN [mem |-> FoldLeft(BootSegment, mem, elf.phs), jump |-> elf.entry]
    ELSE [mem |-> mem, jump |-> -1]

\* region_alloc: new pages, with nobody knows what in them.  -2 is unmapped.
RegionAlloc(mem, va, len) ==
    Write(mem, ROUNDDOWN(va, PGSIZE), ROUNDUP(va + len, PGSIZE) - ROUNDDOWN(va, PGSIZE),
          LAMBDA i : -1)

\* A store to an address without a page is a fault in the kernel: it panics.
Fits(mem, at, n) == \A a \in at .. at + n - 1 : mem[a] # -2

LoadSegment(s, ph) ==
    LET mem == RegionAlloc(s.mem, ph.at, ph.memsz)
        File(i) == ph.off + i
    IN  IF ~ph.load \/ s.panic THEN s
        ELSE IF ph.memsz < ph.filesz \/ ~Fits(mem, ph.at, ph.memsz) THEN [s EXCEPT !.panic = TRUE]
        ELSE [s EXCEPT !.mem = Write(Write(mem, ph.at, ph.filesz, File), ph.at + ph.filesz,
                                     ph.memsz - ph.filesz, Zero)]

\* load_icode: the segments, a page for the stack, and tf_eip.
LoadIcode(mem, elf) ==
    LET s == FoldLeft(LoadSegment, [mem |-> mem, panic |-> ~elf.magic \/ elf.entry = 0], elf.phs)
    IN  [mem |-> RegionAlloc(s.mem, USTACKTOP - PGSIZE, PGSIZE), panic |-> s.panic,
         eip |-> elf.entry]

----------------------------------------------------------------------------
(* stab_binsearch, with left, right and addr as they are after some rounds *)

\* The nearest stab of the type at or below m, or l - 1.
RECURSIVE DownTo(_, _, _, _), Rounds(_, _, _, _, _, _, _, _)
DownTo(stabs, type, m, l) ==
    IF m >= l /\ stabs[m].type # type THEN DownTo(stabs, type, m - 1, l) ELSE m

\* Mutant of RightBefore: the region ends with the stab, and not before it.
RightBeforeAt(m) == m

\* Where a region ends when stab m is the first beyond it.
RightBefore(m) == m - 1

Rounds(stabs, type, addr, l, r, left, right, any) ==
    LET mid == (l + r) \div 2
        m == DownTo(stabs, type, mid, l)
    IN  IF l > r THEN [left |-> left, right |-> right, any |-> any]
        ELSE IF m < l THEN Rounds(stabs, type, addr, mid + 1, r, left, right, any)
        ELSE IF stabs[m].value < addr
             THEN Rounds(stabs, type, addr, mid + 1, r, m, right, TRUE)
        ELSE IF stabs[m].value > addr
             THEN Rounds(stabs, type, addr, l, m - 1, left, RightBefore(m), TRUE)
        ELSE Rounds(stabs, type, addr + 1, m, r, m, right, TRUE)

StabBinsearch(stabs, left, right, type, addr) ==
    LET s == Rounds(stabs, type, addr, left, right, left, right, FALSE)
        last == DownTo(stabs, type, s.right, s.left + 1)
    IN  IF ~s.any THEN [left |-> s.left, right |-> s.left - 1]
        ELSE [left |-> IF s.right > s.left THEN last ELSE s.right, right |-> s.right]

----------------------------------------------------------------------------
(* runcmd of the monitor; " " is white space *)

RECURSIVE ParseArgs(_, _, _), WordEnd(_, _)
WordEnd(line, i) == IF i <= Len(line) /\ line[i] # " " THEN WordEnd(line, i + 1) ELSE i

TooMany(argc) == argc = MAXARGS - 1

\* argv from position i of the line on, or a refusal.
ParseArgs(line, i, argv) ==
    IF i > Len(line) THEN [ok |-> TRUE, argv |-> argv]
    ELSE IF line[i] = " " THEN ParseArgs(line, i + 1, argv)
    ELSE IF TooMany(Len(argv)) THEN [ok |-> FALSE, argv |-> argv]
    ELSE LET end == WordEnd(line, i)
         IN  ParseArgs(line, end, Append(argv, SubSeq(line, i, end - 1)))
=============================================================================
