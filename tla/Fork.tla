-------------------------------- MODULE Fork --------------------------------
(***************************************************************************)
(* Copy-on-write fork, all of it user code (lib/fork.c, lib/pgfault.c,     *)
(* lib/pfentry.S) over four system calls of kern/syscall.c: environments   *)
(* that share physical pages read-only, take a page fault on the first     *)
(* store to one, and give themselves a private copy from a handler on      *)
(* their exception stack, while fork itself keeps writing the very stack   *)
(* it is duplicating.                                                      *)
(*                                                                         *)
(* A system call is one step (the kernel lock is held throughout, module   *)
(* Kernel); the steps of different environments interleave, as on several  *)
(* CPUs.  Page tables are total functions on the pages a program has; the  *)
(* reference counts that keep a mapped page allocated are those of Pmap.   *)
(***************************************************************************)
EXTENDS Naturals, Sequences, FiniteSets

CONSTANTS
    Env, Root,      \* environments; the first one
    NPAGE, OTHERS,  \* how many physical pages there are, and how many of them
                    \* programs that have nothing to do with Root hold at first
    Value,          \* what a page may hold; 0 is what ALLOC_ZERO leaves
    None

ASSUME ForkAssumption ==
    /\ IsFiniteSet(Env) /\ Root \in Env /\ None \notin Env
    /\ Value \subseteq Nat /\ {0, 1} \subseteq Value /\ None \notin Value
    /\ NPAGE \in Nat /\ OTHERS \in Nat /\ NPAGE >= OTHERS + 4

\* The pages below USTACKTOP in address order, as fork() walks them: PFTEMP, the
\* program text, variables, a page marked PTE_SHARE, the stack.
Walk == <<"pftemp", "text", "data", "share", "stack">>
VA == {Walk[i] : i \in 1 .. Len(Walk)} \cup {"xstack"}

\* Which of them have the same page directory index: PFTEMP is below UTEXT, the
\* program is at UTEXT, and both stacks are at UTOP.
Tables == {{"pftemp"}, {"text", "data", "share"}, {"stack", "xstack"}}

\* Which of the free pages page_alloc returns is immaterial, so a page is named
\* after the mapping it is allocated for, and a number that no page in use has.
Number == 0 .. Cardinality(Env \X VA)
Page == Env \X VA \X Number

\* A page table entry: the page, PTE_W, PTE_COW and PTE_SHARE.
Pte(p, w, cow, sh) == [pg |-> p, w |-> w, cow |-> cow, sh |-> sh]
Entry == [pg : Page, w : BOOLEAN, cow : BOOLEAN, sh : BOOLEAN]

ASSUME NoEntryAssumption == None \notin Entry

VARIABLES
    data,       \* what each physical page in use holds
    pt,         \* pt[e][v], the page tables below UTOP
    others,     \* the pages that unrelated programs hold
    tlb,        \* what the TLB of the CPU that runs e may hold: e's page table as
                \* it was when env_run last loaded cr3 (env.c:550)
    status, upcall,     \* env_status (RUNNABLE also stands for RUNNING) and
                        \* env_pgfault_upcall # 0
    parent,
    handler,    \* e's variable _pgfault_handler # 0
    pc, idx, kid,       \* where e is, its place in fork's walk, the child it builds
    hpc, hva            \* where e's pgfault handler is, and what it handles

memory == <<data, pt, others, tlb>>
envs == <<status, upcall, parent>>
prog == <<handler, pc, idx, kid, hpc, hva>>
vars == <<memory, envs, prog>>

Unmapped == [v \in VA |-> None]

\* Where a program is: its own code, the lines of fork(), the child's first
\* lines, or panic(), whose int3 never returns.
Forking == {"xalloc", "sethandler", "exofork", "walk", "remap", "kidxstack",
            "kidstatus"}
Pc == Forking \cup {"user", "child", "panic", "none"}
HandlerPc == {"none", "map", "alloc", "copy", "ret"}

\* The pages that some page table refers to.
Mapped(tables) ==
    {tables[m[1]][m[2]].pg : m \in {k \in Env \X VA : tables[k[1]][k[2]] # None}}

TypeOK ==
    /\ data \in [Mapped(pt) -> Value]
    /\ pt \in [Env -> [VA -> Entry \cup {None}]]
    /\ tlb \in [Env -> [VA -> Entry \cup {None}]] /\ others \in 0 .. OTHERS
    /\ status \in [Env -> {"FREE", "NOT_RUNNABLE", "RUNNABLE"}]
    /\ upcall \in [Env -> BOOLEAN] /\ handler \in [Env -> BOOLEAN]
    /\ parent \in [Env -> Env \cup {None}] /\ kid \in [Env -> Env \cup {None}]
    /\ pc \in [Env -> Pc] /\ idx \in [Env -> 1 .. Len(Walk)]
    /\ hpc \in [Env -> HandlerPc] /\ hva \in [Env -> VA]

\* env_create has loaded the first program, which allocated itself a page to
\* share.  The contents 1 tell its pages from fresh ones.
Init ==
    LET loaded == {"text", "data", "share", "stack"}
        at == [v \in loaded |-> <<Root, v, 0>>]
    IN  /\ data = [p \in {at[v] : v \in loaded} |-> 1]
        /\ pt = [e \in Env |-> [v \in VA |->
                  IF e = Root /\ v \in loaded
                  THEN Pte(at[v], v # "text", FALSE, v = "share") ELSE None]]
        /\ tlb = pt /\ others = OTHERS
        /\ status = [e \in Env |-> IF e = Root THEN "RUNNABLE" ELSE "FREE"]
        /\ upcall = [e \in Env |-> FALSE] /\ handler = [e \in Env |-> FALSE]
        /\ parent = [e \in Env |-> None] /\ kid = [e \in Env |-> None]
        /\ pc = [e \in Env |-> IF e = Root THEN "user" ELSE "none"]
        /\ idx = [e \in Env |-> 1]
        /\ hpc = [e \in Env |-> "none"] /\ hva = [e \in Env |-> "stack"]

----------------------------------------------------------------------------
(* The kernel *)

NoPage == Cardinality(DOMAIN data) + others >= NPAGE

\* The tables after a kernel call that leaves contents in the pages: a page with
\* no mapping left is free, and one that comes into use is zeroed (ALLOC_ZERO).
Memory(tables, contents) ==
    /\ pt' = tables
    /\ data' = [p \in Mapped(pt') |-> IF p \in DOMAIN data THEN contents[p] ELSE 0]
    /\ UNCHANGED others

\* Mutant of PageInsert: neither tlb_invalidate nor a new cr3.
PageInsertNoFlush(caller, e, va, entry) ==
    Memory([pt EXCEPT ![e][va] = entry], data) /\ UNCHANGED tlb

\* Map entry at va of e on behalf of the caller: the old mapping goes, and the
\* caller leaves the kernel through env_run, which reloads its own cr3.
PageInsert(caller, e, va, entry) ==
    /\ Memory([pt EXCEPT ![e][va] = entry], data)
    /\ tlb' = [tlb EXCEPT ![caller] = pt'[caller]]

\* A page for a missing page table is looked for among the free ones.  A table
\* with a mapping in it is there.
NoTable(e, va) ==
    /\ NoPage
    /\ \E table \in Tables : va \in table /\ \A v \in table : pt[e][v] = None

SysPageMap(caller, src, srcva, dst, dstva, w, cow, sh) ==
    /\ pt[src][srcva] # None
    /\ w => pt[src][srcva].w
    /\ PageInsert(caller, dst, dstva, Pte(pt[src][srcva].pg, w, cow, sh))

\* page_alloc(ALLOC_ZERO) and page_insert.
SysPageAlloc(caller, e, va) ==
    LET number == CHOOSE k \in Number : <<e, va, k>> \notin DOMAIN data
    IN  /\ ~NoPage
        /\ PageInsert(caller, e, va, Pte(<<e, va, number>>, TRUE, FALSE, FALSE))

\* env_destroy: every page below UTOP is unmapped.  A child that e was building
\* stays behind, NOT_RUNNABLE, and nobody may destroy it.  (What is left in the
\* Env and in the variables of a program that is gone is never read: env_alloc
\* and the next program overwrite it.)
EnvDestroy(e) ==
    /\ Memory([pt EXCEPT ![e] = Unmapped], data)
    /\ tlb' = [tlb EXCEPT ![e] = Unmapped]
    /\ status' = [status EXCEPT ![e] = "FREE"]
    /\ upcall' = [upcall EXCEPT ![e] = FALSE]
    /\ parent' = [c \in Env |-> IF c = e \/ parent[c] = e THEN None ELSE parent[c]]
    /\ handler' = [handler EXCEPT ![e] = FALSE]
    /\ pc' = [pc EXCEPT ![e] = "none"] /\ hpc' = [hpc EXCEPT ![e] = "none"]
    /\ idx' = [idx EXCEPT ![e] = 1] /\ kid' = [kid EXCEPT ![e] = None]
    /\ hva' = [hva EXCEPT ![e] = "stack"]

Goto(e, label) == pc' = [pc EXCEPT ![e] = label]
Running(e) == status[e] = "RUNNABLE" /\ pc[e] # "panic" /\ pt[e]["text"] # None
At(e, label) == Running(e) /\ hpc[e] = "none" /\ pc[e] = label

Panic(e) == Goto(e, "panic") /\ UNCHANGED <<memory, envs, handler, idx, kid, hpc, hva>>

----------------------------------------------------------------------------
(* Stores *)

\* The translations the hardware may use for page v.
Translations(e, v) == {pt[e][v], tlb[e][v]}

CanStore(e, v) == \E t \in Translations(e, v) : t # None /\ t.w

Store(e, v, x) ==
    /\ \E t \in Translations(e, v) : t # None /\ t.w /\ data' = [data EXCEPT ![t.pg] = x]
    /\ UNCHANGED <<pt, others, tlb>>

\* Any store by a program, and what fork's own calls and returns do to its stack.
UserStore(e) ==
    /\ \/ At(e, "user") /\ \E v \in {"data", "share", "stack"}, x \in Value : Store(e, v, x)
       \/ \E l \in Forking : At(e, l) /\ \E x \in Value : Store(e, "stack", x)
    /\ UNCHANGED <<envs, prog>>

\* The pages e may be about to store to.
Targets(e) ==
    IF pc[e] = "user" THEN {"data", "share", "stack"}
    ELSE IF pc[e] \in {"sethandler", "child"} THEN {"data", "stack"}
    ELSE {"stack"}

\* A store that the page table refuses: page_fault_handler starts the upcall on
\* the exception stack, or destroys the environment for want of either.
PageFault(e) ==
    /\ Running(e) /\ hpc[e] = "none"
    /\ \E v \in Targets(e) :
          /\ ~CanStore(e, v)
          /\ IF upcall[e] /\ pt[e]["xstack"] # None /\ pt[e]["xstack"].w
             THEN /\ hpc' = [hpc EXCEPT ![e] = "map"] /\ hva' = [hva EXCEPT ![e] = v]
                  /\ tlb' = [tlb EXCEPT ![e] = pt[e]]
                  /\ UNCHANGED <<data, pt, others, envs, handler, pc, idx, kid>>
             ELSE EnvDestroy(e)

\* A child without the page its instructions are on: the upcall, which is there
\* too, faults again and again, until the exception stack is full.
FetchFault(e) ==
    /\ status[e] = "RUNNABLE" /\ pt[e]["text"] = None
    /\ EnvDestroy(e)

----------------------------------------------------------------------------
(* pgfault() and the upcall that runs it *)

\* Line 31 and line 43: only copy-on-write pages are copied.
PgfaultMap(e) ==
    /\ Running(e) /\ hpc[e] = "map"
    /\ LET old == pt[e][hva[e]]
       IN  \/ /\ (old # None => ~old.cow) \/ NoTable(e, "pftemp")
              /\ Panic(e)
           \/ /\ old # None /\ old.cow
              /\ SysPageMap(e, e, hva[e], e, "pftemp", FALSE, FALSE, FALSE)
              /\ hpc' = [hpc EXCEPT ![e] = "alloc"]
              /\ UNCHANGED <<envs, handler, pc, idx, kid, hva>>

PgfaultAlloc(e) ==
    /\ Running(e) /\ hpc[e] = "alloc"
    /\ \/ NoPage /\ Panic(e)
       \/ /\ SysPageAlloc(e, e, hva[e])
          /\ hpc' = [hpc EXCEPT ![e] = "copy"]
          /\ UNCHANGED <<envs, handler, pc, idx, kid, hva>>

\* Lines 47 and 48: nobody else can tell the copy from the unmapping of PFTEMP.
PgfaultCopy(e) ==
    /\ Running(e) /\ hpc[e] = "copy"
    /\ Memory([pt EXCEPT ![e]["pftemp"] = None],
              [data EXCEPT ![pt[e][hva[e]].pg] = data[pt[e]["pftemp"].pg]])
    /\ tlb' = [tlb EXCEPT ![e] = pt'[e]]
    /\ hpc' = [hpc EXCEPT ![e] = "ret"]
    /\ UNCHANGED <<envs, handler, pc, idx, kid, hva>>

\* pfentry.S:72 stores the trap-time eip on the trap-time stack, which may fault
\* in turn; then the store that faulted is tried again.
UpcallReturn(e) ==
    /\ Running(e) /\ hpc[e] = "ret"
    /\ \/ /\ \E x \in Value : Store(e, "stack", x)
          /\ hpc' = [hpc EXCEPT ![e] = "none"] /\ hva' = [hva EXCEPT ![e] = "stack"]
       \/ /\ ~CanStore(e, "stack")
          /\ hpc' = [hpc EXCEPT ![e] = "map"] /\ hva' = [hva EXCEPT ![e] = "stack"]
          /\ tlb' = [tlb EXCEPT ![e] = pt[e]]
          /\ UNCHANGED <<data, pt, others>>
    /\ UNCHANGED <<envs, handler, pc, idx, kid>>

Pgfault(e) ==
    PgfaultMap(e) \/ PgfaultAlloc(e) \/ PgfaultCopy(e) \/ UpcallReturn(e)

----------------------------------------------------------------------------
(* fork() *)

CallFork(e) ==
    /\ At(e, "user")
    /\ Goto(e, IF handler[e] THEN "sethandler" ELSE "xalloc")
    /\ UNCHANGED <<memory, envs, handler, idx, kid, hpc, hva>>

\* set_pgfault_handler, the first time: an exception stack and the upcall.
XstackAlloc(e) ==
    /\ At(e, "xalloc")
    /\ \/ NoPage /\ Panic(e)
       \/ /\ SysPageAlloc(e, e, "xstack")
          /\ upcall' = [upcall EXCEPT ![e] = TRUE]
          /\ Goto(e, "sethandler")
          /\ UNCHANGED <<status, parent, handler, idx, kid, hpc, hva>>

\* _pgfault_handler is a variable, on a page that an earlier fork may share.
SetHandler(e) ==
    /\ At(e, "sethandler")
    /\ \E x \in Value : Store(e, "data", x)
    /\ handler' = [handler EXCEPT ![e] = TRUE]
    /\ Goto(e, "exofork")
    /\ UNCHANGED <<envs, idx, kid, hpc, hva>>

\* The pages e has below USTACKTOP, from the i-th of the walk on.
Ahead(e, i) == {j \in i .. Len(Walk) : pt[e][Walk[j]] # None}

\* The child is NOT_RUNNABLE and returns 0 from the call once it runs; without a
\* free Env, or page for its directory, fork panics.
SysExofork(e) ==
    /\ At(e, "exofork")
    /\ \/ /\ NoPage \/ \A c \in Env : status[c] # "FREE"
          /\ Panic(e)
       \/ /\ \E c \in Env :
                /\ status[c] = "FREE"
                /\ status' = [status EXCEPT ![c] = "NOT_RUNNABLE"]
                /\ upcall' = [upcall EXCEPT ![c] = FALSE]
                /\ parent' = [parent EXCEPT ![c] = e]
                /\ handler' = [handler EXCEPT ![c] = handler[e]]
                /\ pc' = [pc EXCEPT ![e] = "walk", ![c] = "child"]
                /\ kid' = [kid EXCEPT ![e] = c]
          /\ tlb' = [tlb EXCEPT ![e] = pt[e]]
          /\ idx' = [idx EXCEPT ![e] = CHOOSE j \in Ahead(e, 1) : \A k \in Ahead(e, 1) : j <= k]
          /\ UNCHANGED <<data, pt, others, hpc, hva>>

\* Mutant of NextPage: the loop forgets to advance addr.
NextPageStays(e) == idx' = idx /\ Goto(e, "walk")

\* Where the walk goes after the page it is at; pages that are not there are
\* skipped, and the stack is the last.
NextPage(e) ==
    LET rest == Ahead(e, idx[e] + 1)
    IN  /\ idx' = [idx EXCEPT ![e] = IF rest = {} THEN 1
                                     ELSE CHOOSE j \in rest : \A k \in rest : j <= k]
        /\ Goto(e, IF rest = {} THEN "kidxstack" ELSE "walk")

\* duppage(), up to its first sys_page_map.  A failure of the other two is not
\* looked at: the child goes without the page.
Duppage(e) ==
    LET v == Walk[idx[e]]
        own == pt[e][v]
        private == own.w \/ own.cow
    IN  /\ At(e, "walk") /\ own # None
        /\ \/ /\ ~own.sh /\ private
              /\ SysPageMap(e, e, v, kid[e], v, FALSE, TRUE, FALSE)
              /\ Goto(e, "remap") /\ UNCHANGED <<envs, handler, idx, kid, hpc, hva>>
           \/ /\ ~own.sh /\ private /\ NoTable(kid[e], v)
              /\ Panic(e)
           \/ /\ own.sh \/ ~private
              /\ \/ SysPageMap(e, e, v, kid[e], v, own.sh, own.sh, own.sh)
                 \/ ((own.sh /\ ~own.w) \/ NoTable(kid[e], v)) /\ UNCHANGED memory
              /\ NextPage(e) /\ UNCHANGED <<envs, handler, kid, hpc, hva>>

\* Mutant of DuppageOwn: only the child's mapping becomes copy-on-write.
DuppageKidOnly(e) ==
    /\ At(e, "remap")
    /\ UNCHANGED memory
    /\ NextPage(e)
    /\ UNCHANGED <<envs, handler, kid, hpc, hva>>

\* duppage(), its second sys_page_map: our own mapping, whatever it is by now.
DuppageOwn(e) ==
    /\ At(e, "remap")
    /\ SysPageMap(e, e, Walk[idx[e]], e, Walk[idx[e]], FALSE, TRUE, FALSE)
    /\ NextPage(e)
    /\ UNCHANGED <<envs, handler, kid, hpc, hva>>

\* Mutant of KidXstack: the child is left without an upcall.
KidXstackOnly(e) ==
    /\ At(e, "kidxstack")
    /\ SysPageAlloc(e, kid[e], "xstack")
    /\ Goto(e, "kidstatus")
    /\ UNCHANGED <<envs, handler, idx, kid, hpc, hva>>

\* The child's exception stack and its upcall.
KidXstack(e) ==
    /\ At(e, "kidxstack")
    /\ \/ NoPage /\ Panic(e)
       \/ /\ SysPageAlloc(e, kid[e], "xstack")
          /\ upcall' = [upcall EXCEPT ![kid[e]] = TRUE]
          /\ Goto(e, "kidstatus")
          /\ UNCHANGED <<status, parent, handler, idx, kid, hpc, hva>>

\* sys_env_set_status: the child may run, on any CPU, from now on.
KidStatus(e) ==
    /\ At(e, "kidstatus")
    /\ status' = [status EXCEPT ![kid[e]] = "RUNNABLE"]
    /\ tlb' = [tlb EXCEPT ![e] = pt[e], ![kid[e]] = pt[kid[e]]]
    /\ kid' = [kid EXCEPT ![e] = None]
    /\ Goto(e, "user")
    /\ UNCHANGED <<data, pt, others, upcall, parent, handler, idx, hpc, hva>>

\* The child's first statement stores to thisenv.
SetThisenv(e) ==
    /\ At(e, "child")
    /\ \E x \in Value : Store(e, "data", x)
    /\ Goto(e, "user")
    /\ UNCHANGED <<envs, handler, idx, kid, hpc, hva>>

ForkStep(e) ==
    \/ XstackAlloc(e) \/ SetHandler(e) \/ SysExofork(e)
    \/ Duppage(e) \/ DuppageOwn(e)
    \/ KidXstack(e) \/ KidStatus(e) \/ SetThisenv(e)

\* exit(), and a parent that destroys its child, whatever the child is doing.
Exit(e) == At(e, "user") /\ EnvDestroy(e)

Kill(e) == \E p \in Env : /\ At(p, "user") /\ p # e
                          /\ parent[e] = p /\ status[e] = "RUNNABLE"
                          /\ EnvDestroy(e)

\* An unrelated program exits, which frees a page.
OthersExit ==
    /\ others > 0 /\ others' = others - 1
    /\ UNCHANGED <<data, pt, tlb, envs, prog>>

Next ==
    \/ \E e \in Env :
          \/ UserStore(e) \/ PageFault(e) \/ FetchFault(e)
          \/ Pgfault(e) \/ CallFork(e) \/ ForkStep(e) \/ Exit(e) \/ Kill(e)
    \/ OthersExit

Spec == Init /\ [][Next]_vars

\* The scheduler runs every environment again and again (RunnableRuns of Kernel),
\* and one that runs library code comes to the next step of it, or to a fault.
LibraryStep(e) == ForkStep(e) \/ Pgfault(e) \/ (pc[e] # "user" /\ PageFault(e))

FairSpec == Spec /\ \A e \in Env : WF_vars(LibraryStep(e))

----------------------------------------------------------------------------
(* Properties *)

\* No other environment can store to the page e has at v.
Sealed(e, v) ==
    \A f \in Env \ {e}, w \in VA :
       pt[f][w] # None /\ pt[f][w].pg = pt[e][v].pg => ~pt[f][w].w

\* An unstarted child counts as long as someone is building it.
Wanted(e) == status[e] = "RUNNABLE" \/ \E p \in Env : kid[p] = e

\* Where e finds what it had in page v: while the handler has only a fresh page
\* there, the contents are those at PFTEMP.
Source(e, v) == IF hpc[e] = "copy" /\ hva[e] = v THEN "pftemp" ELSE v

Visible(e, v) ==
    /\ Wanted(e) /\ pt[e][Source(e, v)] # None
    /\ status[e] = "RUNNABLE" \/ Sealed(e, Source(e, v))

\* What e would read in page v, or None.
View(e, v) == IF Visible(e, v) THEN data[pt[e][Source(e, v)].pg] ELSE None

Sharers == {e \in Env : pt[e]["share"] # None}

\* The three variables of AddressSpaces.
views == [e \in Env |-> [v \in {"text", "data", "stack"} |-> View(e, v)]]
common == IF Sharers = {} THEN None
          ELSE data[pt[CHOOSE e \in Env : e \in Sharers]["share"].pg]
running == {e \in Env : status[e] = "RUNNABLE"}

Spaces == INSTANCE AddressSpaces WITH
    Private <- {"text", "data", "stack"}, Writable <- {"data", "stack"}, Undef <- None,
    mem <- views, shared <- common, up <- running

\* fork gives the child its own memory (fork.c:88-96): no environment ever sees
\* another's store, though they share pages, fault on them at any moment and fork
\* again in between (the order of the two sys_page_map calls of duppage).
ForkIsolates == Spaces!Spec

\* tlb_invalidate reaches only the caller's CPU (pmap.c:569-575); still no CPU uses
\* a translation that the page table no longer has, because only environments
\* that run nowhere are mapped into by others.
TlbCoherent == \A e \in Env : status[e] = "RUNNABLE" => tlb[e] = pt[e]

\* No environment is destroyed by the kernel for a store it may make: whenever a
\* page of its own is copy-on-write, it has an upcall and an exception stack.
FaultsAreHandled ==
    \A e \in Env : Running(e) =>
       \A v \in {"data", "stack"} :
          /\ pt[e][v] # None
          /\ pt[e][v].w \/ (pt[e][v].cow /\ upcall[e] /\ pt[e]["xstack"] # None
                                         /\ pt[e]["xstack"].w)

\* "Neither user exception stack should ever be marked copy-on-write" (fork.c:101),
\* nor shared; and PFTEMP is only ever in use by one fault.
ScratchIsPrivate ==
    \A e \in Env :
       /\ pt[e]["xstack"] # None =>
             /\ pt[e]["xstack"].w /\ Sealed(e, "xstack")
             /\ \A f \in Env \ {e}, v \in VA :
                   pt[f][v] # None => pt[f][v].pg # pt[e]["xstack"].pg
       /\ Running(e) => (pt[e]["pftemp"] # None <=> hpc[e] \in {"alloc", "copy"})

\* Who is building whom: an unborn child has one parent, which is in fork() or has
\* panicked there, and does nothing itself.
Family(e) ==
    /\ status[e] = "FREE" => pt[e] = Unmapped /\ pc[e] = "none"
    /\ status[e] = "NOT_RUNNABLE" => pc[e] = "child"
    /\ status[e] # "RUNNABLE" =>
          hpc[e] = "none" /\ kid[e] = None /\ pt[e]["pftemp"] = None
    /\ pc[e] \in {"walk", "remap", "kidxstack", "kidstatus"} => kid[e] # None
    /\ kid[e] # None =>
          /\ pc[e] \in {"walk", "remap", "kidxstack", "kidstatus", "panic"}
          /\ status[kid[e]] = "NOT_RUNNABLE"

OneParent == \A e, f \in Env : kid[e] # None /\ kid[e] = kid[f] => e = f

\* Which entries t there may be at v in the page table of e, if the last page
\* that the handler of e was started for is h.
Rights(e, v, t, h) ==
    /\ v = "pftemp" => t.pg[2] = h /\ ~t.w
    /\ v = "text"   => t.pg[2] = v /\ ~t.w /\ ~t.cow /\ ~t.sh
    /\ v = "share"  => t.pg = <<Root, "share", 0>> /\ t.w /\ t.sh
    /\ v = "xstack" => t.pg[1] = e /\ t.pg[2] = v /\ t.w
    /\ v \in {"data", "stack"} => t.pg[2] = v /\ (t.w \/ t.cow) /\ ~t.sh

Mapping(e, v) == pt[e][v] # None => Rights(e, v, pt[e][v], hva[e])

\* Every program that may run has its variables and its stack, and an upcall by
\* the time it may have copy-on-write pages.
Ready(e) ==
    /\ upcall[e] => pt[e]["xstack"] # None
    /\ status[e] = "RUNNABLE" =>
          /\ \A v \in {"data", "stack"} : pt[e][v] # None /\ (pt[e][v].w \/ upcall[e])
          /\ handler[e] \/ pc[e] \in Forking \ {"xalloc"} => upcall[e]

\* What pgfault() has done so far.
Handling(e) ==
    LET t == pt[e][hva[e]]
    IN  /\ hva[e] \in {"data", "share", "stack"}
        /\ status[e] = "RUNNABLE" => (pt[e]["pftemp"] # None <=> hpc[e] \in {"alloc", "copy"})
        /\ hpc[e] = "map" => t = None \/ ~t.w
        /\ hpc[e] \in {"alloc", "copy"} => hva[e] \in {"data", "stack"}
        /\ hpc[e] = "alloc" => ~t.w /\ t.pg = pt[e]["pftemp"].pg
        /\ hpc[e] = "copy" => t.w

\* A child's page table when the walk has come to the i-th page: nothing from
\* there on, and before it at least the pages that programs write.
Copied(table, i) ==
    \A j \in 1 .. Len(Walk) :
       IF j >= i THEN table[Walk[j]] = None
       ELSE Walk[j] \in {"data", "stack"} => table[Walk[j]] # None

\* How far the walk of fork() has come.
Walked(e) ==
    LET c == kid[e]
    IN  /\ pc[e] \in {"walk", "remap"} => idx[e] > 1 /\ pt[e][Walk[idx[e]]] # None
        /\ pc[e] = "remap" => Walk[idx[e]] \in {"data", "stack"}
        /\ pc[e] = "walk" => Copied(pt[c], idx[e])
        /\ pc[e] = "remap" => Copied(pt[c], idx[e] + 1)
        /\ pc[e] \in {"kidxstack", "kidstatus"} =>
              pt[c]["data"] # None /\ pt[c]["stack"] # None
        /\ pc[e] = "kidstatus" => upcall[c]

\* A page that e can write is mapped in one place, but for the moment between the
\* two sys_page_map calls of duppage(), when the child has it as well.
Exclusive(e, v) ==
    pt[e][v] # None /\ pt[e][v].w =>
       \A f \in Env, u \in VA :
          pt[f][u] # None /\ pt[f][u].pg = pt[e][v].pg =>
             \/ f = e /\ u = v
             \/ f = kid[e] /\ u = v /\ pc[e] \in {"remap", "panic"} /\ Walk[idx[e]] = v

\* What concerns e and the child it builds.
Local(e) ==
    /\ Family(e) /\ Ready(e) /\ Handling(e) /\ Walked(e)
    /\ \A v \in VA : Mapping(e, v)

Bookkeeping ==
    /\ \A e \in Env : Local(e)
    /\ \A e \in Env, v \in {"data", "stack"} : Exclusive(e, v)
    /\ OneParent

\* A store that a program may make never kills it, nor another: at every step of
\* fork and of the handler the stack that the upcall runs on is there, it and the
\* page at PFTEMP are the environment's own, and no page is writable in two places.
ForkInv == TypeOK /\ Bookkeeping /\ FaultsAreHandled /\ ScratchIsPrivate

\* A fork comes to an end: it returns, panics for want of memory, or its
\* environment is destroyed.
ForkReturns == \A e \in Env : pc[e] \in Forking ~> pc[e] \in {"user", "panic", "none"}
=============================================================================
