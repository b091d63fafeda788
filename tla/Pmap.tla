-------------------------------- MODULE Pmap --------------------------------
(***************************************************************************)
(* Physical pages and two-level page tables: kern/pmap.c, and the callers  *)
(* that change them once the machine is up (env_setup_vm and env_free of   *)
(* kern/env.c, sys_page_alloc, sys_page_map and sys_page_unmap of          *)
(* kern/syscall.c).  All of them run under the big kernel lock from start  *)
(* to finish, so a call is one step, but for env_free, whose loops are one *)
(* step for every page, table and directory they free, with no other call  *)
(* in between.  What is hard is the bookkeeping: a page is a directory, a  *)
(* table, user data or free only by virtue of a 16-bit count, and any call *)
(* may run out of memory half way.                                         *)
(*                                                                         *)
(* A page holds an array of entries.  For a page directory and a page      *)
(* table these are its PDEs and PTEs; for user data they are whatever the  *)
(* program wrote there, which matters once the page is recycled.           *)
(***************************************************************************)
EXTENDS Naturals, Sequences, FiniteSets, Functions, TLC

CONSTANTS
    Env,        \* the environments
    Page,       \* the physical pages that page_init found free
    NIDX,       \* entries of a directory or a table (1024 in the code)
    REFMOD,     \* pp_ref counts modulo this (2^16 in the code)
    NULL

ASSUME PmapAssumption ==
    /\ NIDX \in Nat \ {0} /\ REFMOD \in Nat /\ REFMOD > 1
    /\ IsFiniteSet(Env) /\ IsFiniteSet(Page) /\ NULL \notin Page /\ NULL \notin Env

Index == 1 .. NIDX
Entry == [pp : Page, w : BOOLEAN]       \* a present PTE or PDE: page and PTE_W
VA == Index \X Index                    \* <<PDX(va), PTX(va)>>, below UTOP

ASSUME NoEntryAssumption == NULL \notin Entry

VARIABLES
    pp_ref,         \* pages[p].pp_ref
    page_free_list, \* the list threaded through pp_link
    mem,            \* what each page contains
    env_pgdir,      \* each live environment's page directory, or NULL
    freeing,        \* the environment that env_free is at work on, or NULL
    panicked,       \* an assertion of page_free failed
    ret             \* what the last call returned

vars == <<pp_ref, page_free_list, mem, env_pgdir, freeing, panicked, ret>>

Zeroed == [i \in Index |-> NULL]

TypeOK ==
    /\ pp_ref \in [Page -> 0 .. REFMOD - 1]
    /\ page_free_list \in Seq(Page)
    /\ mem \in [Page -> [Index -> Entry \cup {NULL}]]
    /\ env_pgdir \in [Env -> Page \cup {NULL}] /\ freeing \in Env \cup {NULL}
    /\ panicked \in BOOLEAN
    /\ ret \in {"0", "E_NO_MEM", "E_INVAL"}

Init ==
    /\ pp_ref = [p \in Page |-> 0]
    /\ page_free_list \in {s \in [1 .. Cardinality(Page) -> Page] :
                              IsInjective(s) /\ Range(s) = Page}
    /\ mem = [p \in Page |-> Zeroed]
    /\ env_pgdir = [e \in Env |-> NULL] /\ freeing = NULL
    /\ panicked = FALSE
    /\ ret = "0"

----------------------------------------------------------------------------
(***************************************************************************)
(* The functions of pmap.c map a machine state to a machine state, so that *)
(* a handler composes them in the order in which the code calls them.      *)
(***************************************************************************)
Machine == [ref |-> pp_ref, free |-> page_free_list, mem |-> mem, bad |-> panicked]

Become(m) == /\ pp_ref' = m.ref /\ page_free_list' = m.free
             /\ mem' = m.mem /\ panicked' = m.bad

\* Mutant of PageAlloc: the page is not cleared.
PageAllocDirty(m) == [m EXCEPT !.free = Tail(m.free)]

\* page_alloc(ALLOC_ZERO): the page is Head(m.free); the caller has looked.
PageAlloc(m) == [m EXCEPT !.free = Tail(m.free), !.mem[Head(m.free)] = Zeroed]

\* pp_link is not NULL exactly on the listed pages other than the last.
Linked(m, p) == \E i \in 1 .. Len(m.free) - 1 : m.free[i] = p

PageFree(m, p) == [m EXCEPT !.bad = @ \/ m.ref[p] # 0 \/ Linked(m, p),
                            !.free = <<p>> \o m.free]

PageIncref(m, p) == [m EXCEPT !.ref[p] = (m.ref[p] + 1) % REFMOD]

PageDecref(m, p) ==
    LET r == (m.ref[p] + REFMOD - 1) % REFMOD
        d == [m EXCEPT !.ref[p] = r]
    IN  IF r = 0 THEN PageFree(d, p) ELSE d

\* Mutant of PgdirWalk: the new page table is not counted.
PgdirWalkUncounted(m, dir, va) ==
    IF m.mem[dir][va[1]] # NULL \/ m.free = <<>> THEN m
    ELSE [PageAlloc(m) EXCEPT !.mem[dir][va[1]] = [pp |-> Head(m.free), w |-> TRUE]]

\* pgdir_walk(pgdir, va, create), as the machine it leaves; the page table it
\* found or made is then m.mem[dir][va[1]].pp, and it failed if there is none.
PgdirWalk(m, dir, va) ==
    IF m.mem[dir][va[1]] # NULL \/ m.free = <<>> THEN m
    ELSE LET pt == Head(m.free)
         IN  [PageIncref(PageAlloc(m), pt) EXCEPT
                 !.mem[dir][va[1]] = [pp |-> pt, w |-> TRUE]]

\* The PTE for va, or NULL if it is not present.
PageLookup(m, dir, va) ==
    LET pde == m.mem[dir][va[1]]
    IN  IF pde = NULL THEN NULL ELSE m.mem[pde.pp][va[2]]

SetPte(m, dir, va, pte) == [m EXCEPT !.mem[m.mem[dir][va[1]].pp][va[2]] = pte]

PageRemove(m, dir, va) ==
    LET pte == PageLookup(m, dir, va)
    IN  IF pte = NULL THEN m ELSE SetPte(PageDecref(m, pte.pp), dir, va, NULL)

\* page_insert fails when there is no page table and no memory for one.
InsertFails(m, dir, va) == m.mem[dir][va[1]] = NULL /\ m.free = <<>>

\* page_insert, when it succeeds: the count goes up before the old page goes.
PageInsert(m, dir, p, va, w) ==
    SetPte(PageRemove(PageIncref(PgdirWalk(m, dir, va), p), dir, va),
           dir, va, [pp |-> p, w |-> w])

----------------------------------------------------------------------------
(* kern/env.c *)

Returns(code) == ret' = code

EnvSetupVm(e) ==
    /\ env_pgdir[e] = NULL
    /\ \/ /\ page_free_list = <<>>
          /\ Returns("E_NO_MEM")
          /\ UNCHANGED <<pp_ref, page_free_list, mem, env_pgdir, panicked>>
       \/ /\ page_free_list # <<>>
          /\ Become(PageIncref(PageAlloc(Machine), Head(page_free_list)))
          /\ env_pgdir' = [env_pgdir EXCEPT ![e] = Head(page_free_list)]
          /\ Returns("0")

First(S) == CHOOSE i \in S : \A j \in S : i <= j

\* env_free looks at the directory and at each table in order, and finds the first
\* entry that is still present: a page to unmap, ...
FreePage(e, pdx, present) ==
    /\ present # {}
    /\ Become(PageRemove(Machine, env_pgdir[e], <<pdx, First(present)>>))
    /\ freeing' = e /\ UNCHANGED env_pgdir

\* ... a table with no more pages: its PDE, and the table itself, ...
FreeTable(e, pdx, present) ==
    /\ present = {}
    /\ Become(PageDecref([Machine EXCEPT !.mem[env_pgdir[e]][pdx] = NULL],
                         mem[env_pgdir[e]][pdx].pp))
    /\ freeing' = e /\ UNCHANGED env_pgdir

\* ... or nothing, and the directory goes last.
FreeDirectory(e) ==
    /\ Become(PageDecref(Machine, env_pgdir[e]))
    /\ env_pgdir' = [env_pgdir EXCEPT ![e] = NULL]
    /\ freeing' = NULL

EnvFree(e) ==
    /\ env_pgdir[e] # NULL /\ freeing \in {NULL, e}
    /\ LET tables == {i \in Index : mem[env_pgdir[e]][i] # NULL}
           pdx == First(tables)
           present == {j \in Index : mem[mem[env_pgdir[e]][pdx].pp][j] # NULL}
       IN  \/ tables # {} /\ (FreePage(e, pdx, present) \/ FreeTable(e, pdx, present))
           \/ tables = {} /\ FreeDirectory(e)
    /\ Returns("0")

----------------------------------------------------------------------------
(* kern/syscall.c, for the env e that envid2env accepted and a valid va/perm *)

\* Mutant of SysPageAlloc: the page is not freed when page_insert fails.
SysPageAllocLeaks(e, va, w) ==
    LET pi == Head(page_free_list)
        m  == PageAlloc(Machine)
        dir == env_pgdir[e]
    IN  /\ dir # NULL
        /\ page_free_list # <<>>
        /\ \/ /\ InsertFails(m, dir, va)
              /\ Become(m)
              /\ Returns("E_NO_MEM")
           \/ /\ ~InsertFails(m, dir, va)
              /\ Become(PageInsert(m, dir, pi, va, w))
              /\ Returns("0")
        /\ UNCHANGED env_pgdir

SysPageAlloc(e, va, w) ==
    LET pi == Head(page_free_list)
        m  == PageAlloc(Machine)
        dir == env_pgdir[e]
    IN  /\ dir # NULL
        /\ \/ /\ page_free_list = <<>>
              /\ Returns("E_INVAL")
              /\ UNCHANGED <<pp_ref, page_free_list, mem, panicked>>
           \/ /\ page_free_list # <<>> /\ InsertFails(m, dir, va)
              /\ Become(PageFree(m, pi))
              /\ Returns("E_NO_MEM")
           \/ /\ page_free_list # <<>> /\ ~InsertFails(m, dir, va)
              /\ Become(PageInsert(m, dir, pi, va, w))
              /\ Returns("0")
        /\ UNCHANGED env_pgdir

\* Mutant of MapAllowed: the permissions at srcva are not looked at.
MapAllowedAnyPerm(src, srcva, w) == PageLookup(Machine, env_pgdir[src], srcva) # NULL

\* srcva is mapped, and write access is not asked to a read-only page.
MapAllowed(src, srcva, w) ==
    LET pte == PageLookup(Machine, env_pgdir[src], srcva)
    IN  pte # NULL /\ (w => pte.w)

SysPageMap(src, srcva, dst, dstva, w) ==
    /\ env_pgdir[src] # NULL /\ env_pgdir[dst] # NULL
    /\ \/ /\ MapAllowed(src, srcva, w) => InsertFails(Machine, env_pgdir[dst], dstva)
          /\ Returns("E_INVAL")
          /\ UNCHANGED <<pp_ref, page_free_list, mem, panicked>>
       \/ /\ MapAllowed(src, srcva, w)
          /\ ~InsertFails(Machine, env_pgdir[dst], dstva)
          /\ LET pp == PageLookup(Machine, env_pgdir[src], srcva).pp
             IN  Become(PageInsert(Machine, env_pgdir[dst], pp, dstva, w))
          /\ Returns("0")
    /\ UNCHANGED env_pgdir

SysPageUnmap(e, va) ==
    /\ env_pgdir[e] # NULL
    /\ Become(PageRemove(Machine, env_pgdir[e], va))
    /\ Returns("0")
    /\ UNCHANGED env_pgdir

\* A program fills a page it may write with words that look like page table
\* entries, here for that very page.  It needs no lock for that, and only the
\* environment that is being freed is sure not to run.
UserWrite(e, va) ==
    /\ env_pgdir[e] # NULL /\ e # freeing
    /\ LET pte == PageLookup(Machine, env_pgdir[e], va)
       IN  /\ pte # NULL
           /\ pte.w
           /\ mem' = [mem EXCEPT ![pte.pp] = [i \in Index |-> [pp |-> pte.pp, w |-> TRUE]]]
    /\ Returns("0")
    /\ UNCHANGED <<pp_ref, page_free_list, env_pgdir, freeing, panicked>>

Call ==
    \/ \E e \in Env : EnvSetupVm(e)
    \/ \E e \in Env, va \in VA, w \in BOOLEAN : SysPageAlloc(e, va, w)
    \/ \E src, dst \in Env, srcva, dstva \in VA, w \in BOOLEAN :
          SysPageMap(src, srcva, dst, dstva, w)
    \/ \E e \in Env, va \in VA : SysPageUnmap(e, va)

Next ==
    \/ freeing = NULL /\ Call /\ UNCHANGED freeing
    \/ \E e \in Env : EnvFree(e)
    \/ \E e \in Env, va \in VA : UserWrite(e, va)

Spec == Init /\ [][Next]_vars

\* Which page and which environment is which makes no difference.
Symmetry == Permutations(Page) \cup Permutations(Env)

----------------------------------------------------------------------------
(* Properties *)

\* The places that may refer to a page, and are counted: <<e, 0, 0>> is env_pgdir of
\* e, <<e, i, 0>> its i-th PDE and <<e, i, j>> the j-th PTE of the table there.
Place == Env \X (0 .. NIDX) \X (0 .. NIDX)
IsPte(x) == x[2] # 0 /\ x[3] # 0

PteAt(words, dirs, x) ==
    LET dir == dirs[x[1]]
        pde == words[dir][x[2]]
    IN  IF dir = NULL \/ pde = NULL THEN NULL ELSE words[pde.pp][x[3]]

\* The page that place x refers to, or NULL.
Target(words, dirs, x) ==
    LET dir == dirs[x[1]]
        entry == IF x[3] = 0 THEN words[dir][x[2]] ELSE PteAt(words, dirs, x)
    IN  IF dir = NULL THEN NULL
        ELSE IF x[2] = 0 THEN (IF x[3] = 0 THEN dir ELSE NULL)
        ELSE IF entry = NULL THEN NULL ELSE entry.pp

References(p) == {x \in Place : Target(mem, env_pgdir, x) = p}

\* "pp_ref is the count of pointers (usually in page table entries) to this page"
\* (inc/memlayout.h:182): exactly, through failures, overwrites and env_free.
RefCountExact == \A p \in Page : pp_ref[p] = Cardinality(References(p))

\* The free list is exactly the unreferenced pages, each once: nothing leaks on
\* any error path and nothing is handed out twice.
FreePagesExact ==
    /\ IsInjective(page_free_list)
    /\ Range(page_free_list) = {p \in Page : References(p) = {}}

\* A page that serves as a directory or a table serves in that one place: no
\* program can reach a page table through a mapping of its own.
TablesUnshared ==
    \A p \in Page : (\E x \in References(p) : ~IsPte(x)) => Cardinality(References(p)) = 1

\* The assertions of page_free (pmap.c:382-383) never fire.
NoPanic == ~panicked

\* All memory is accounted for, on every error path: the counts are exact, the free
\* list is, and page_free never finds a page that is still in use.
PmapInv == TypeOK /\ RefCountExact /\ FreePagesExact /\ NoPanic

\* "must not grant write access to a read-only page" (syscall.c:203-204), in the
\* long run: a page in use that nobody can write stays so until it is recycled.
Writable(p) ==
    \E x \in Place : /\ IsPte(x) /\ Target(mem, env_pgdir, x) = p
                     /\ PteAt(mem, env_pgdir, x).w

ReadOnlyStays ==
    [][\A p \in Page : References(p) # {} /\ ~Writable(p) => ~Writable(p)']_vars

\* A call that returns an error has changed nothing a program or the allocator
\* can see.
Mappings == [x \in {y \in Place : IsPte(y)} |-> PteAt(mem, env_pgdir, x)]

ErrorsChangeNothing ==
    [][ret' # "0" => UNCHANGED <<pp_ref, page_free_list, env_pgdir, Mappings>>]_vars
=============================================================================
