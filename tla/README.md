# JOS (xv6-lab4): a TLA+ development

The repository is JOS, the exokernel of MIT 6.828, at lab 4: a 32-bit x86 kernel
that runs *environments* (processes) on several CPUs under one big lock, with
user-level copy-on-write fork and IPC.  This directory holds TLA+ modules that
model it, TLC configurations that check them on small instances, and TLAPS proofs, for
all instances, of every safety property of the concurrent parts that the runs check: the
lock, the environments, the page tables, fork, nested page faults, IPC, the console and the
start of the machine.

## 1. Inventory

| Component | State | Operations | Interacts with | What makes it correct |
|---|---|---|---|---|
| Big kernel lock (`kern/spinlock.[ch]`) | `locked`, `cpu` | `spin_lock`, `spin_unlock`, the debug test `holding` | every CPU, on every way into and out of the kernel | mutual exclusion; somebody gets in; the unsynchronised debug test never panics a correct CPU |
| Environments (`kern/env.c`) | `envs[]` (status, id, parent, IPC flag, CPU number, page directory), `env_free_list` | `envid2env`, `env_alloc`, `env_free`, `env_destroy`, `env_run`, `env_pop_tf`, `load_icode` | scheduler, traps, system calls, page tables | an environment is on at most one CPU; nothing that a CPU still uses is freed; the free list is exact; a program is loaded whole |
| Scheduler (`kern/sched.c`) | `curenv`, `cpu_status` of each CPU | `sched_yield`, `sched_halt` | environments, the lock, the timer | nobody is picked twice, nobody is lost, nobody starves; the monitor only when all is quiet |
| Traps (`kern/trap.c`, `kern/trapentry.S`) | `panicstr`, the trap frame | `trap`, `trap_dispatch`, `page_fault_handler` | all of the above | each path takes the lock exactly once; zombies are reaped |
| System calls (`kern/syscall.c`) | none of its own | 13 calls | environments, page tables | permission and error rules; an error changes nothing |
| Pages and page tables (`kern/pmap.c`) | `pages[].pp_ref`, `page_free_list`, the tables, `nextfree`, the MMIO base | the allocator, `pgdir_walk`, `page_insert`, `page_lookup`, `page_remove`, `mem_init`, `user_mem_check`, `mmio_map_region` | system calls, `env_setup_vm`, `env_free`, boot | counts are exact, nothing leaks or is handed out twice, page tables stay private, memory in use is never free |
| Multiprocessor boot (`kern/init.c`, `kern/mpentry.S`, `kern/mpconfig.c`, `kern/lapic.c`) | `cpus`, `ncpu`, `bootcpu`, `mpentry_kstack` | `mp_init`, `lapic_init`, `boot_aps`, `mp_main` | the lock, `mem_init` | every processor on its own stack and with its own APIC window; the start comes to an end |
| User fork and fault upcalls (`lib/fork.c`, `lib/pgfault.c`, `lib/pfentry.S`) | `_pgfault_handler`, PTE_COW bits, the exception stack | `fork`, `duppage`, `pgfault`, `_pgfault_upcall` | system calls, page faults | parent and child never see each other's writes; every fault returns to the trap-time state |
| User IPC (`lib/ipc.c`) | the `env_ipc_` fields | `ipc_send`, `ipc_recv` | system calls | a message arrives whole, once, where it was sent; rights do not grow |
| Console (`kern/console.c`, `lib/readline.c`) | a 512-byte ring, the shift state, the screen | `cons_intr`, `cons_getc`, `kbd_proc_data`, `cga_putc`, `readline` | devices, monitor | order is kept, keys do not stick, the echo is the line |
| Formatting and strings (`lib/printfmt.c`, `lib/printf.c`, `lib/string.c`) | buffers | `vprintfmt`, `snprintf`, `cprintf`, `memmove`, `strtol` | everyone | no overflow; what is printed can be read back |
| Monitor and symbols (`kern/monitor.c`, `kern/kdebug.c`) | – | `runcmd`, `stab_binsearch` | console | words are split right; the right function is found |
| Boot loader (`boot/main.c`, `kern/entrypgdir.c`) | – | `bootmain`, `readseg` | disk | the kernel is in memory when it is entered |
| Interrupt controllers, timer, clock | device registers | set-up code | – | only what the rest relies on is modelled |

What is hard here: the interleaving of CPUs at the few places that run without
the lock (trap entry, the exit through `env_pop_tf`, the halt loop, the start of
an AP); environments destroyed by one CPU while another executes them; slots and
pages that are recycled; running out of memory half way through a call; library
code that makes several system calls in a row, and reads shared fields between
them; nested page faults; fairness of lock and scheduler.  `PROJECT.json` lists
these hazards line by line, each with the properties that watch it.

## 2. Modules

| Module | Models | Notes |
|---|---|---|
| `KernelMutex` | what the lock promises | abstract: `Request`, `Enter`, `Leave`, and "somebody gets in" |
| `Spinlock` | `kern/spinlock.c` | one action per shared-memory access; refines `KernelMutex` |
| `Kernel` | `kern/env.c`, `kern/sched.c`, `kern/trap.c`, the environment half of `kern/syscall.c` | several CPUs; the lock is taken in one step, as `KernelMutex` allows |
| `Pmap` | `kern/pmap.c`, the memory half of `kern/env.c` and `kern/syscall.c` | every call but `env_free` is one step: all run under the lock |
| `AddressSpaces` | what `fork` promises | abstract: private memories, and a child that inherits them page by page |
| `Fork` | `lib/fork.c`, `lib/pgfault.c` over the four system calls they use | one action per system call; refines `AddressSpaces` |
| `Fault` | `page_fault_handler`, `lib/pfentry.S` | one action per instruction that moves data |
| `Mailboxes` | what `ipc_send` and `ipc_recv` promise | abstract: a message passes in one step |
| `Ipc` | `lib/ipc.c`, `sys_ipc_try_send`, `sys_ipc_recv` | one action per system call and per load of a shared field; refines `Mailboxes` |
| `MemInit` | `mem_init`, `page_init`, the self-checks, `boot_map_region`, `kern/entrypgdir.c` | extended by `Boot` |
| `Boot` | `i386_init`, `mp_init`, `boot_aps`, `mpentry.S`, `mp_main`, `lapic_init` | from reset to the state in which `Kernel` begins |
| `Console` | `kern/console.c`, `lib/readline.c`, the loop of `monitor` | devices interleave with the polling CPU |
| `Strings`, `Routines` | sequential routines | operators only |
| `Library` | | runs `Strings` and `Routines` on all small inputs |
| `SpinlockProofs`, `KernelProofs`, `PmapProofs`, `ForkProofs`, `IpcProofs`, `ConsoleProofs`, `BootProofs`, `FaultProofs` | | the proofs about the module of that name, and that `Fork` implements `AddressSpaces` |

### Spinlock

`locked` and `cpu` are the fields of `kernel_lock`; `pc[c]` is the next shared
access of CPU `c`.  `SeeLocked`/`SeeCpu` are the two loads of `holding()` in
`spin_lock`, `CheckLocked`/`CheckCpu` those in `spin_unlock`.  An `xchg` that
finds the lock taken changes nothing and is left out.  A wrong answer of
`holding()` leads to the label `panic`.

### Kernel

The variables have the names of the fields of `struct Env` and `struct CpuInfo`.
An `envid_t` is the pair of its generation and its slot; `cr3[c]` is the id of
the environment whose page directory CPU `c` has loaded, so a directory that was
freed under a CPU shows as an id that no live slot has.  `pc[c]` names a place in the
source.  Labels are grouped by their relation to the lock: `Outside`, `Waiting`,
`Inside`.

A trap is: `Trap` (everything in `trap()` before the lock: the `panicstr` test,
the exchange of `cpu_status`, the choice of `lock_kernel` call), `Acquire`, then
`GarbageCollect` or one of the handlers of `Dispatch`, then `ReturnToEnv`,
`ReturnToSched` or the scheduler (`SchedSwitch`, `SchedResume`, `SchedHalt`,
`SchedMonitor`), which unlocks, then `EnvPopTf`, which runs without the lock.
What happens under the lock between two of these steps is invisible to the other
CPUs, which is why it can be one step.

System calls and faults that come straight back (and every call that fails) are
`Return`.  `Known` is the set of ids that programs can hold; they include stale
ids and ids of environments the caller may not touch.

`Calls` selects the kinds of trap of an instance.  `Careless` selects the calls
that programs use without discipline: `lib/` and `user/` destroy a child once,
set the status only of themselves or of a child that is off every CPU and not
blocked in `sys_ipc_recv`, and send only pages they have mapped.  The kernel
checks none of these; section 4 says what follows.

### Pmap

`mem[p]` is what page `p` contains: PDEs, PTEs, or whatever a program stored
there (`UserWrite` stores words that look like PTEs, so that a page which is not
cleared when it becomes a page table does harm).  The functions of `pmap.c` are operators from a machine
record to a machine record; handlers compose them in the order of the code,
including the order of the increment and the removal in `page_insert`.  `env_free` is
a sequence of steps, one per page and per page table and then the directory, with
`freeing` the environment under way: the kernel holds the lock, so no other call comes in
between, but programs on other CPUs go on storing to the pages they share with it
(`UserWrite`).  The
permissions are reduced to PTE_W; the argument checks of the system calls (ids,
alignment, `perm`) are assumed to have passed.  The `page_insert` of `sys_ipc_try_send` is
not among the calls of `Pmap`: its `perm` is hardly checked (section 4), and with address
bits in it the counts of `PmapInv` would not hold.

### Fork and AddressSpaces

`pt[e][v]` is the page table entry that environment `e` has for page `v` (with
PTE_W, PTE_COW, PTE_SHARE), `tlb[e][v]` the translation that the CPU it runs on may
still use.  The address space is `Walk`: PFTEMP, text, data, a shared page, the
stack, and above it the exception stack.  `pc[e]` is the place in `fork` or
`set_pgfault_handler`, `hpc[e]` the place in `pgfault`.  Between two system calls of
`fork` the program writes its own stack, so pages that were just made
copy-on-write fault at once; `PageFault` is therefore possible at every label.
Physical memory is bounded, every allocation may fail where the code can meet
that, and unrelated programs give back theirs (`OthersExit`).  Page tables and
directories are not counted; making one fails, if at all, when no page is left.  A store goes through the TLB or through the table, whichever the machine
likes.  `AddressSpaces` knows nothing of all this; the refinement mapping reads
each environment's memory through its page table, and takes a page of an unborn
child as inherited once nobody else can store to it.

### Fault

Memory is words; `mem`, `esp`, `eip`, `eflags`, `regs` are the machine's, `eip` a
line of `pfentry.S`.  `PageFaultHandler` builds the frame below the exception stack
pointer or at UXSTACKTOP, with the spare word for a nested fault and the check
that there is room.  `saved` is a ghost stack: the contexts that were interrupted and
the words that were live on their stacks.  Faults happen in the program, in the C
handler, at the load of `_pgfault_handler`, and at the store through `%edx`.

### Ipc and Mailboxes

`ipc[e]` holds the `env_ipc_` fields.  `ipc_recv` is the system call and three
separate loads; `ipc_send` is a loop of tries.  `sys_ipc_try_send` is `SendValue`,
`SendPage` or `SendFails`, each with the conditions in the order of the code; reading
through the unset pointer (`kern/syscall.c:346`) is either an error or a panic.
`PermOk` compares only the bits of PTE_SYSCALL, as the code does, and the entry gets all of
`perm`: with the bit "stray", which stands for flags and address bits outside PTE_SYSCALL, the
page that the receiver finds may be any (`PagesAt`).  Reference counts, and what becomes of an
address with no page behind it, are not followed.
Environments may be destroyed between any two steps.

### MemInit and Boot

Addresses are in pages, and the layout is scaled: 32 pages to a page table, 64
pages of physical memory at KERNBASE.  `free` is `page_free_list` in its order,
`tables` the page tables that `pgdir_walk` allocated, `kernmap` what `kern_pgdir` maps,
`touched` the pages written while only the 4 MB of `entry_pgdir` are mapped.  `Arranged`
puts a set in the order of given ranks: `FreePages` is page_init's list, the last page first,
and `LowFirst` what `check_page_free_list(1)` makes of it.  The
self-checks are actions, because `check_page_free_list` reorders the list, `check_page`
takes a page out of it and turns two round, and they overwrite pages; `check_page_alloc` puts
the list back as it was.  `Boot` adds the table of processors that the
BIOS left, and runs each AP through `mpentry.S` and `mp_main` concurrently with the
boot processor.

### Console

`arrived` and `lastread` are ghosts: all characters that ever came, and how far
they were read.  A byte of the keyboard is a key and whether it goes up; `held` is
what the user's fingers do.  `pc` goes round the polling loop: serial port,
keyboard, the ring, readline, the echo.  `Cputchar` has the cases of `cga_putc` (erase,
go to a column or row, write), a tab being five calls of it, and then the scrolling.
`KeysAhead` looks at the bytes still to be read: `WillBeSet` says which modifiers they
will leave set.

### Strings, Routines, Library

Operators for the sequential routines.  A behaviour of `Library` is one call: its
arguments, and then its result; the properties compare the result with an
independent statement of what the routine is for.

## 3. Runs

| Run | Instance | Shows |
|---|---|---|
| `spinlock` | 4 CPUs | mutual exclusion, no false panic, the inductive invariant, refinement of `KernelMutex` with liveness |
| `kernel` | 3 CPUs, 2 slots, 2 generations, every kind of trap, wild sends | nobody on two CPUs, no freed directory loaded, `KernelInv` with all its parts, zombies, reuse of slots, panics, the lock paired |
| `kernel_zombie` | 3 CPUs, 2 slots, fair | a zombie is eventually freed |
| `kernel_round_robin` | 2 CPUs, 4 environments, fair, nobody exits | a runnable environment is eventually run |
| `pmap` | 2 address spaces, 5 pages, 2 x 2 entries | `PmapInv` (exact counts, exact free list, no failed assertion), private tables, write access, error paths |
| `fork` | 3 environments, 7 pages, 3 of them held by others at first | refinement of `AddressSpaces`, coherent TLBs, `ForkInv` (faults handled, scratch pages private), `fork` ends |
| `ipc` | 3 environments, 2 writers, pages with rights and with stray bits of `perm` | refinement of `Mailboxes`, `IpcInv` (what `ipc_recv` says of a page is true), rights, failed sends, service of who waits |
| `fault` | exception stack of 48 words, 4 faults | trap-time state restored; `FaultInv`: live words kept |
| `boot` | tables of up to 4 entries, 3 processors at most, machines of 11, 40 and 64 pages | `BootInv` (memory in use is never free, nothing unmapped is touched), stacks, APIC windows, termination |
| `console` | ring of 3, line of 3, screen of 3 x 2, 4 key strokes or characters | order, `ConsoleInv` (no stuck modifier), echo, progress |
| `lib` | all small inputs | `PrintfRight`, `BytesInPlace` (copies, buffers, argv), `UserMemCheckExact`, `ImagesLoaded`, `SearchFindsStab` |
| `redestroy` | small | the finding below |

Bounds.  Two CPUs are enough for one CPU to act on an environment that another
executes; the third adds one that waits for the lock meanwhile.  Two slots force
reuse at once.  Round robin needs two environments more than CPUs: with one more,
the only one that waits is always the next, in whatever order the search runs.
`MAXGEN` is 1 or 2 instead of 2^19 - 1: the wrap of the generation is reached in
every behaviour that reuses a slot twice, so ids repeat much sooner than on the
machine.  Five pages for two address spaces (a directory and a table each, one data
page) make every allocation of `Pmap` fail in some state; `REFMOD` = 16 is out of
reach of eight mappings and so equivalent to 2^16.  Seven pages do the same for
`Fork`: the program has four at first, a fork with its copies needs up to four more,
and three are held by programs that exit one by one, so a call may fail for want of
memory and a later one succeed (a child may then start without its text).
Three environments give a parent, a child and a grandchild, or a third one
that kills.  In `Ipc` two senders race for one receiver, and a page can be forwarded
once more than it was received, writable, or read-only with a stray bit in `perm` (`perm` 0
with a page is left to the proofs).  The 48 words of `Fault` hold three frames, so the
stack is exactly full, too full and not full in some behaviour.  `Boot` has one
processor more than NCPU, and machines with memory that ends inside, at the end of
and beyond the first page table.  The ring of `Console` overflows after three
characters, a line wraps after two cells and scrolls after three lines.  The inputs of
`lib` include every boundary of their routines: the words and the units of `memmove`,
buffers that are too short by one, segments that share a sector or a page and lie one
or two sectors further on in the file than in memory, ranges that
end at ULIM and at the top of the address space.

Fairness.  `Kernel!FairSpec`: the LAPIC timer of each CPU is periodic
(`kern/lapic.c:72-74`) and interrupts are on in user mode and in the halt loop, so
a CPU there traps again (`WF(Trap)`), and among its traps timer ticks recur
(`SF(TimerIrq)`).  Code under the lock keeps running (`WF` of the rest).  The
lock itself is unfair; `SF(Acquire)` assumes that no CPU loses every race, which
is what the `pause` in `unlock_kernel` is for (`kern/spinlock.h:41-45`).  In
`Spinlock` only weak fairness of each CPU's own steps is assumed.  In `Fork` and `Ipc`
an environment in the library keeps running, by round robin (`RunnableRuns`), but
programs need not call anything; in `Boot` every processor that was started keeps
running; in `Console` the CPU keeps polling and the devices need not do anything.
`CHECK_DEADLOCK FALSE` is where all environments may exit, the machine has booted, or a
call has returned.

An invariant with the name of its module is a conjunction of named parts, its type
invariant among them.  Each property has a mutant: a definition of the model changed as a plausible bug
would change the code, with which TLC finds the property violated.

## 4. Findings

`env_destroy` of an environment that is already DYING on another CPU frees it
under that CPU (`redestroy`, `kern/env.c:480`).

Seen while modelling, and left to the reader of the code:

- `sys_env_set_status` can make a child that runs on another CPU RUNNABLE, and a
  second CPU then runs it too (`kern/syscall.c:124`; add "set_status" to `Careless`).
- After an exit or a halt the search of `sched_yield` begins at slot 0, so a stream of
  short-lived environments in low slots starves a higher one (`kern/sched.c:32`).
- The keyboard interrupt is unmasked and has a gate but no case in `trap_dispatch`: a
  key press kills the running environment, or panics a halted boot CPU
  (`kern/trap.c:266`).  Interrupt gates have privilege level 3, so `int 32` of a user
  program looks like a tick.
- `pp_ref` is 16 bits wide and wraps (`kern/pmap.c:503`).
- `sys_page_alloc` and `sys_page_map` return -E_INVAL where their comments say
  -E_NO_MEM (`kern/syscall.c:190`, `252`).
- `sys_ipc_try_send` reads `*pte` before it knows that there is one
  (`kern/syscall.c:346`); a page sent with `perm` 0 is transferred although
  `perm_store` says that none was (`lib/ipc.c:10-12`).
- `sys_ipc_try_send` refuses no bit of `perm` outside PTE_SYSCALL (`kern/syscall.c:346` masks
  them out), although its comment promises -E_INVAL for an inappropriate `perm` (317-318),
  `inc/mmu.h:72` says that other flags may not be used in system calls, and `sys_page_alloc`
  and `sys_page_map` do refuse them (186, 241).  `page_insert` ORs all of `perm` into the entry
  (`kern/pmap.c:508`), so with address bits the receiver does not get "a duplicate mapping of
  the same page" (288-289) but another one, with the rights of the sender's mapping, and with
  no reference counted for it.  `NoRightGained` leaves out just this, that the page is the
  same, for a `perm` with such bits; without `"stray" \notin ...` TLC finds it violated by the
  first page sent.
- `readseg` reads whole sectors, and its comment says that what it writes beyond the segment
  "doesn't matter -- we load in increasing order" (`boot/main.c:90-91`).  A segment that begins
  in the sector in which an earlier one ends is read over the zeros of that one, and over its
  bytes too if the two are not the same number of sectors further on in the file;
  `KernelImageLoaded` states when it does not matter.  The kernel that `kern/kernel.ld` lays out,
  with segments on pages of their own, is not concerned.
- The comment on `cprintf`'s buffer in the user library has up to 256 characters printed by one
  system call (`lib/printf.c:14`); the buffer is flushed at 255 (`lib/printf.c:30`), so texts
  of 255 and 256 characters take two.  `CprintfWhole` follows the code.
- A fault with the exception stack exactly full starts again at its top
  (`kern/trap.c:390`; the comment at 375-377 has the environment destroyed).  `Fault` marks
  this with `overrun`.
- `user_mem_check` says yes to a range whose end, rounded up, wraps (`kern/pmap.c:647`).
- `mem_init` maps physical page 0 at UPAGES where the comment has the array `pages`
  (`kern/pmap.c:190`); on a large machine the array ends beyond the 4 MB that are mapped
  when it is cleared (`kern/pmap.c:157`).
- `bootcpu` points beyond `cpus` when the boot processor's entry comes after NCPU others
  (`kern/mpconfig.c:185`), and a boot processor that is not number 0 still uses the
  stack and TSS of number 0 (`trap_init` comes before `lapic_init`): `OwnStack` is stated
  for number 0.
- A byte of the mouse is called ignored but stays in the controller and blocks the
  keyboard (`kern/console.c:327-329`).  Both shift keys share one bit.  A DEL in an
  empty line is stored as a character (`lib/readline.c:22-29`).
- `*cnt++` in `kern/printf.c:13` moves the pointer, so the kernel's `cprintf` returns 0.
- `%-5d` pads on the left with dashes, and `%3d` of -1 puts blanks after the sign
  (`lib/printfmt.c:109-112`, `195-196`).
- `stab_binsearch` returns the later of two stabs at neighbouring addresses, and a
  region that is not empty for an address below the first stab
  (`kern/kdebug.c:41-43`, `89`).
- `region_alloc` gives an empty segment at an unaligned address a page, and takes away
  the one that was there (`kern/env.c:303-304`).

## 5. Proofs

`SpinlockProofs` proves, for any set of CPUs, `LockInv` and from it mutual
exclusion, the absence of false panics, and that every step is a step of
`KernelMutex` or leaves it unchanged.  The strengthening is that `lk->cpu` names a
CPU exactly between its `Record` and its `Forget`: a CPU outside that interval
never reads its own name, whatever mixture of old and new values the two loads
return.

`KernelProofs` proves, for any number of CPUs, slots and generations, and any
subset of the calls, `KernelInv`, from which follow that no environment is on two
CPUs or lost, that user code runs only for live environments and on the CPU that
`env_cpunum` names, that no freed directory is loaded, that the free list is exact,
that a zombie is freed only by its own CPU, that blocked receivers are not runnable,
that the monitor is entered only when all is quiet, that a panic happens under the lock
and freezes the environments, and that the lock is paired.  Assumptions:
`ConstantsAssumption`, and programs that are disciplined in the use of
`sys_env_destroy` and `sys_env_set_status` (`Careless` holds at most "ipc_send");
keyboard interrupts, wild sends and the panics they cause are included.  The
invariant is needed because "on at most one CPU" is not inductive: one has to know
that an environment on a CPU outside the kernel is RUNNING or DYING (`CpuInv`), that
the CPU inside the kernel is the one that holds the lock (`LockOwner`), that a CPU that
panicked still holds it (`OrderlyPanic`), and that a blocked receiver is never RUNNING
(`BlockedInRecv`).  There is one lemma per action or group of actions
(`EnvRunInv`, `EnvFreeInv`, `DestroyCallInv`, ...), and `KernelInvStep` puts them
together.  The action properties follow from the same invariant, `SlotReusedWhenIdle`
with the assumption that NULL is not an id.

`PmapProofs` proves `PmapInv`, `TablesUnshared`, `ReadOnlyStays` and
`ErrorsChangeNothing`, for any number of environments and pages and page tables of any
size.  All four rest on `Account(m, dirs, held, extra)`: in the machine record `m` with the
directories `dirs`, the count of a page is the number of places that refer to it (and one
more for a page in `extra`), the free list is, each once, the pages without references
that the call under way does not hold (`held`), and a page that serves as a directory or
table is referred to from one place.  The operators of `pmap.c` are then lemmas about
records, and a handler is a chain of them; the two parameters are needed because inside a
call, between the increment and the removal in `page_insert` or between `page_alloc` and
the first reference, the counts are *not* those of the tables alone.  The
hypothesis is `[]Countable`: no page has as many references as its 16-bit `pp_ref` has
values.  The code does not check this and the count would wrap (section 4), so without it
the theorems would be false; it is an invariant of every system in which environments times
mappings are fewer than 65536, and of the instance that TLC checks, where at most 14
references meet a modulus of 16.

`ForkProofs` proves `ForkInv` and `TlbCoherent`, for any number of environments, any
memory and any values.  Neither is inductive alone: that no TLB is stale although `tlb_invalidate` reaches only
the caller's CPU depends on whose tables are changed when, that is on where the parent is
in `fork` and in its handler, on which pages of the child are done, and on every unborn
child having one parent (`Bookkeeping`).
The second half of the module adds the contents of pages and proves that every step of `Fork` is a step of
`AddressSpaces` or changes nothing of it (`ForkIsolates`): a store is a `Write` or a `WriteShared`, the last of the remappings of a page that
`duppage` makes, or a copy made for the child, is an `Inherit`, the destruction of a parent is a
`Die` with its unborn child, and the copy in `pgfault`, with its two remappings, is
invisible.

`IpcProofs` proves `IpcInv`, `NoRightGained`, `FailedSendHarmless` and the refinement of
`Mailboxes` (`DeliversOnce`), for any number of environments, pages and values, and for any
`perm` that a program may choose, bits outside PTE_SYSCALL included (`NoRightGained` claims
the same page only without these).  The strengthening (`FieldsAgree`) says that an environment is NOT_RUNNABLE just while
`env_ipc_recving` is set, and relates what `ipc_recv` has loaded so far, one field at a time,
to the fields themselves: nobody can send to an environment that does not wait, so the
fields stay those of one message until the last of them is read.

`ConsoleProofs` proves `ConsoleInv`, `RingKeepsOrder` and `EchoShowsLine`, for rings, lines
and screens of any size, any set of keys and any amount of input.  `KeyInv` speaks of the
bytes on their way from the keyboard, since the state of the fingers and the state of the driver
agree only when all are read; `RingInv` is the property itself without remainders, for
which lemmas about `%` are proved once; `ScreenInv` says that the line stands left of the
cursor (`Shows`), which a step of `cga_putc` keeps case by case, scrolling included, because
a line is no longer than the screen less one row (`ConsoleAssumption`: BUFLEN is 1024,
and 80 x 24 cells are left).

`BootProofs` proves `WindowsDisjoint`, `OwnStack` and `BootInv`, for any number of processors,
any table of them and any memory that the assumptions allow.  What makes the unlocked code of `mp_main` safe is
that only the processor for which `boot_aps` waits is between its reset and the flag by
which it reports (`ApInv`), and that the flag is its own (`StatusInv`); hence
`mpentry_kstack` is still meant for it when it reads it, and nobody else is between the
mapping and the increment in `mmio_map_region`.  That `cpunum()` is right for it follows from
what `mp_init` makes of the table: an APIC is mapped only if the table was read to its end, and
then `bootcpu` is the boot processor (`KernelInv`).  The stacks' pages are as
`check_kern_pgdir` saw them, because the MMIO region is below them.

The part about `mem_init` rests on `MemInv`: no page of the list is reserved, a page table,
or there twice (`FreeInv`), and, on a machine with more memory than `entry_pgdir` maps, so many
pages at the front of the list are low (`EarlyInv`).  Every step from `page_init` on
only rearranges the list or takes pages from its front, so one lemma about the places that
elements come from (`FreeRearranged`) keeps `FreeInv`; the counting is in `LowCount`
(`page_init` frees at least `LowPages` low pages), `LowFirstIs` (the check brings all of them
to the front) and in the steps that use them up: `check_page` takes one for good, and
`boot_map_region` at most one for each of `MapEntries`.  `EarlyAssumption` says that there are
enough of them and that `boot_alloc` stays below 4 MB.  In the kernel that is built it
holds on every machine of up to 256 MB: `end` is 0xf0278008 (`obj/kern/kernel.sym:285`), page
633, so `BootEnd` is at most 633 + 1 + 128 + 31 = 793 of 1024, `LowPages` at least 389, and
`MapEntries` has 67 elements.  On machines of some 700 MB and more it is false, and so
is the property (section 4).

`FaultProofs` proves `FaultInv` and `RestoresTrapTimeState`, for stacks of any size and any
number of faults.  The invariant `Chain` follows the contexts that were interrupted, from the
program to the innermost upcall: each is further down the exception stack than the one before
(`Nested`), was executing the upcall for it (`Runs`: where in `pfentry.S` it is, where its stack
pointer must then be, and which words of its frame still hold the trap-time state), and has all
its words (`Kept`).  `RunsAbove` is the reason that nesting works: an upcall can be interrupted
only where everything it still needs is at or above its stack pointer, and a nested fault
writes below it, leaving the spare word into which the inner upcall pushes the trap-time
`eip`.  `FrameBuilt` and the check of `page_fault_handler` keep frames on the stack; a fault with
the stack exactly full (`overrun`, section 4) is where the statement ends.

Only model-checked: liveness and termination (`KernelMutex`'s progress, zombies, round
robin, `ForkReturns`, `WaitingIsServed`, `BootCompletes`, `InputIsRead`), which are out of
the prover's reach, as is ENABLED; and `Library`, because `Strings` and `Routines` are
recursive, and what a recursion computes is a matter of induction over data.

## 6. What could follow

Both halves of the plan, the models and the proofs of their safety properties, are done.
What would add most: a model of the interrupt controllers' registers, if the kernel came to
read them back, and of `sfork`, if it were written.

Not modelled: the table of gates and the entry points of `trapentry.S`; the values written to device registers (`lapic.c`, `picirq.c`,
`kclock.c`, the UART and the video controller), which nothing reads back; the
switches of processor mode in `boot.S`, `entry.S` and the head of `mpentry.S`; the printing
commands of the monitor and `debuginfo_eip`; string comparison and search; the test
programs, beyond the calls they make.
