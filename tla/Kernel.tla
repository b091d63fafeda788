------------------------------- MODULE Kernel -------------------------------
(***************************************************************************)
(* The multiprocessor core of JOS: environments (kern/env.c), the          *)
(* scheduler (kern/sched.c), trap entry and exit (kern/trap.c) and the     *)
(* system calls that change what an environment is doing                   *)
(* (kern/syscall.c), on several CPUs that share one big kernel lock.       *)
(*                                                                         *)
(* Everything a CPU does while it holds the lock is invisible to the       *)
(* others until it unlocks, except what they read without the lock: their  *)
(* own curenv and cpu_status, panicstr, and the Env they are about to iret *)
(* into.  So a trap is a few steps per CPU: the unlocked entry, the        *)
(* acquisition, the handler, the return to user mode or the scheduler, and *)
(* the unlocked exit through env_pop_tf.                                   *)
(***************************************************************************)
EXTENDS Naturals, Sequences, Functions

CONSTANTS
    CPU,        \* the processors
    BSP,        \* the boot processor, the only one the 8259A interrupts
    NENV,       \* the number of Env structures
    NINIT,      \* environments that i386_init creates
    MAXGEN,     \* generations before the 31-bit envid_t overflows (2^19 - 1)
    NULL,
    Calls,      \* the kinds of trap that programs and devices raise
    Careless    \* the kernel interfaces programs use without discipline

Slot == 0 .. NENV - 1

Statuses == {"FREE", "DYING", "RUNNABLE", "RUNNING", "NOT_RUNNABLE"}

CallKinds == {"yield", "fault", "breakpoint", "destroy", "exofork",
              "set_status", "ipc_recv", "ipc_send", "kbd"}

\* An envid_t is its uniqueifier and its index into envs[] (inc/env.h); the id 0
\* stands for the caller, and is also what env_init leaves in a slot never used.
EnvId == (0 .. MAXGEN) \X Slot
Self == <<0, 0>>
ENVX(id) == id[2]

ASSUME ConstantsAssumption ==
    /\ BSP \in CPU
    /\ NENV \in Nat \ {0} /\ NINIT \in Nat /\ NINIT <= NENV
    /\ MAXGEN \in Nat \ {0}
    /\ NULL \notin CPU /\ NULL \notin Slot /\ NULL \notin EnvId
    /\ Calls \subseteq CallKinds
    /\ Careless \subseteq {"destroy", "set_status", "ipc_send"}

VARIABLES
    env_status, env_id, env_parent_id, env_ipc_recving, env_cpunum,
    env_free_list,      \* the list threaded through env_link
    curenv,             \* cpus[c].cpu_env, as an index into envs[], or NULL
    cpu_status,         \* cpus[c].cpu_status
    cr3,                \* the env whose page directory c has loaded, or NULL
    kernel_lock,        \* who holds the big kernel lock, or NULL
    panicstr,           \* has the kernel panicked?
    pc                  \* where each CPU is

envs == <<env_status, env_id, env_parent_id, env_ipc_recving, env_cpunum,
          env_free_list>>
cpus == <<curenv, cpu_status, cr3>>
vars == <<envs, cpus, kernel_lock, panicstr, pc>>

\* pc[c] names the place in the source at which c is.
Outside == {"user",         \* running curenv[c] in user mode
            "pop",          \* env_run has unlocked, env_pop_tf is to come
            "halt",         \* the sti; hlt loop of sched_halt
            "dead"}         \* hlt with interrupts off after a panic elsewhere
Waiting == {"trap_user",    \* trap(), at its second lock_kernel()
            "trap_halt",    \* trap(), at its first lock_kernel()
            "mp_main"}      \* an AP that has reported in, at lock_kernel()
Inside  == {"trap",         \* trap(), after the lock, from user mode
            "ktrap",        \* trap(), after the lock, from the halt loop
            "ret",          \* back from trap_dispatch()
            "sched",        \* sched_yield()
            "monitor",      \* the kernel monitor, for want of environments
            "brkpt",        \* the kernel monitor, on a breakpoint trap
            "panic"}        \* the kernel monitor, on a panic

TypeOK ==
    /\ env_status \in [Slot -> Statuses]
    /\ env_id \in [Slot -> EnvId]
    /\ env_parent_id \in [Slot -> EnvId]
    /\ env_ipc_recving \in [Slot -> BOOLEAN]
    /\ env_cpunum \in [Slot -> CPU]
    /\ env_free_list \in Seq(Slot)
    /\ curenv \in [CPU -> Slot \cup {NULL}]
    /\ cpu_status \in [CPU -> {"STARTED", "HALTED"}]
    /\ cr3 \in [CPU -> EnvId \cup {NULL}]
    /\ kernel_lock \in CPU \cup {NULL}
    /\ panicstr \in BOOLEAN
    /\ pc \in [CPU -> Outside \cup Waiting \cup Inside]

(***************************************************************************)
(* The state i386_init leaves: env_init built the free list in index       *)
(* order, env_create allocated the first NINIT slots, boot_aps waited for  *)
(* every AP to report in, and the boot CPU, which took the lock before it  *)
(* woke the APs, is about to schedule.                                     *)
(***************************************************************************)
Init ==
    /\ env_status = [s \in Slot |-> IF s < NINIT THEN "RUNNABLE" ELSE "FREE"]
    /\ env_id = [s \in Slot |-> IF s < NINIT THEN <<1, s>> ELSE Self]
    /\ env_parent_id = [s \in Slot |-> Self]
    /\ env_ipc_recving = [s \in Slot |-> FALSE]
    /\ env_cpunum = [s \in Slot |-> BSP]
    /\ env_free_list = [i \in 1 .. NENV - NINIT |-> NINIT + i - 1]
    /\ curenv = [c \in CPU |-> NULL]
    /\ cpu_status = [c \in CPU |-> "STARTED"]
    /\ cr3 = [c \in CPU |-> NULL]
    /\ kernel_lock = BSP
    /\ panicstr = FALSE
    /\ pc = [c \in CPU |-> IF c = BSP THEN "sched" ELSE "mp_main"]

Goto(c, label) == pc' = [pc EXCEPT ![c] = label]

----------------------------------------------------------------------------
(* kern/env.c *)

\* The env that envid names for a caller on c, or NULL for -E_BAD_ENV.
Envid2env(c, id, checkperm) ==
    IF id = Self THEN curenv[c]
    ELSE LET e == ENVX(id)
         IN  IF \/ env_status[e] = "FREE"
                \/ env_id[e] # id
                \/ /\ checkperm /\ e # curenv[c]
                   /\ env_parent_id[e] # env_id[curenv[c]]
             THEN NULL ELSE e

\* The envid_t that env_alloc generates for slot e: adding 1 << ENVGENSHIFT
\* overflows to a negative number after MAXGEN generations.
NextEnvId(e) == <<IF env_id[e][1] = MAXGEN THEN 1 ELSE env_id[e][1] + 1, e>>

\* Mutant of EnvAlloc: the IPC receiving flag of the last tenant is not cleared.
EnvAllocKeepsRecving(e, parent) ==
    /\ env_status' = [env_status EXCEPT ![e] = "NOT_RUNNABLE"]
    /\ env_id' = [env_id EXCEPT ![e] = NextEnvId(e)]
    /\ env_parent_id' = [env_parent_id EXCEPT ![e] = parent]
    /\ env_free_list' = Tail(env_free_list)
    /\ UNCHANGED <<env_cpunum, env_ipc_recving>>

\* env_alloc, as sys_exofork completes it: the child starts NOT_RUNNABLE.
EnvAlloc(e, parent) ==
    /\ env_status' = [env_status EXCEPT ![e] = "NOT_RUNNABLE"]
    /\ env_id' = [env_id EXCEPT ![e] = NextEnvId(e)]
    /\ env_parent_id' = [env_parent_id EXCEPT ![e] = parent]
    /\ env_ipc_recving' = [env_ipc_recving EXCEPT ![e] = FALSE]
    /\ env_free_list' = Tail(env_free_list)
    /\ UNCHANGED env_cpunum

\* Mutant of EnvFree: kern_pgdir is not loaded before the directory goes.
EnvFreeKeepsPgdir(c, e) ==
    /\ env_status' = [env_status EXCEPT ![e] = "FREE"]
    /\ env_free_list' = <<e>> \o env_free_list
    /\ UNCHANGED <<env_id, env_parent_id, env_ipc_recving, env_cpunum, cr3>>

\* env_free, called on CPU c: its own page directory is unloaded first.
EnvFree(c, e) ==
    /\ cr3' = IF e = curenv[c] THEN [cr3 EXCEPT ![c] = NULL] ELSE cr3
    /\ env_status' = [env_status EXCEPT ![e] = "FREE"]
    /\ env_free_list' = <<e>> \o env_free_list
    /\ UNCHANGED <<env_id, env_parent_id, env_ipc_recving, env_cpunum>>

\* env_destroy on an env running elsewhere: only mark it.
EnvMark(e) ==
    /\ env_status' = [env_status EXCEPT ![e] = "DYING"]
    /\ UNCHANGED <<env_id, env_parent_id, env_ipc_recving, env_cpunum,
                   env_free_list, curenv, cr3>>

EnvDestroy(c, e) ==
    \/ /\ env_status[e] = "RUNNING" /\ curenv[c] # e
       /\ EnvMark(e)
       /\ Goto(c, "ret")
    \/ /\ ~(env_status[e] = "RUNNING" /\ curenv[c] # e)
       /\ EnvFree(c, e)
       /\ curenv' = IF curenv[c] = e THEN [curenv EXCEPT ![c] = NULL] ELSE curenv
       /\ Goto(c, IF curenv[c] = e THEN "sched" ELSE "ret")

\* env_run: context switch, load the address space, unlock the kernel.
EnvRun(c, e) ==
    /\ env_status' = [s \in Slot |->
          IF s = e THEN "RUNNING"
          ELSE IF s = curenv[c] /\ env_status[s] = "RUNNING" THEN "RUNNABLE"
          ELSE env_status[s]]
    /\ curenv' = [curenv EXCEPT ![c] = e]
    /\ cr3' = [cr3 EXCEPT ![c] = env_id[e]]
    /\ kernel_lock' = NULL
    /\ Goto(c, "pop")
    /\ UNCHANGED <<env_id, env_parent_id, env_ipc_recving, env_cpunum,
                   env_free_list, cpu_status, panicstr>>

\* env_pop_tf runs after the unlock: it records the CPU in the Env and irets.
EnvPopTf(c) ==
    /\ pc[c] = "pop"
    /\ env_cpunum' = [env_cpunum EXCEPT ![curenv[c]] = c]
    /\ Goto(c, "user")
    /\ UNCHANGED <<env_status, env_id, env_parent_id, env_ipc_recving,
                   env_free_list, cpus, kernel_lock, panicstr>>

----------------------------------------------------------------------------
(* kern/sched.c *)

\* Mutant of Resumable: any current environment is resumed.
ResumableAlways(c) == curenv[c] # NULL

\* The test that sched_yield and the end of trap() share.
Resumable(c) == curenv[c] # NULL /\ env_status[curenv[c]] = "RUNNING"

\* Mutant of Runnable: the search also takes environments that are running.
RunnableOrRunning == {s \in Slot : env_status[s] \in {"RUNNABLE", "RUNNING"}}

Runnable == {s \in Slot : env_status[s] = "RUNNABLE"}

\* Mutant of Distance: every search begins at slot 0.
DistanceFromZero(c, s) == s

\* How far slot s is, circularly, from where this CPU's search begins.
Distance(c, s) == IF curenv[c] = NULL THEN s
                  ELSE (s + NENV - (ENVX(env_id[curenv[c]]) + 1)) % NENV

\* sched_yield, when its circular search finds an environment.
SchedSwitch(c) ==
    /\ pc[c] = "sched"
    /\ \E s \in Runnable :
          /\ \A t \in Runnable : Distance(c, s) <= Distance(c, t)
          /\ EnvRun(c, s)

\* sched_yield, when nothing is runnable but the env already on this CPU.
SchedResume(c) ==
    /\ pc[c] = "sched"
    /\ Runnable = {}
    /\ Resumable(c)
    /\ EnvRun(c, curenv[c])

NothingToRun(c) ==
    /\ pc[c] = "sched"
    /\ Runnable = {}
    /\ ~Resumable(c)

SomeoneAlive ==
    \E s \in Slot : env_status[s] \in {"RUNNABLE", "RUNNING", "DYING"}

\* sched_halt, when some environment may still run.
SchedHalt(c) ==
    /\ NothingToRun(c)
    /\ SomeoneAlive
    /\ curenv' = [curenv EXCEPT ![c] = NULL]
    /\ cr3' = [cr3 EXCEPT ![c] = NULL]
    /\ cpu_status' = [cpu_status EXCEPT ![c] = "HALTED"]
    /\ kernel_lock' = NULL
    /\ Goto(c, "halt")
    /\ UNCHANGED <<envs, panicstr>>

\* sched_halt, when none is left: the kernel monitor, still holding the lock.
SchedMonitor(c) ==
    /\ NothingToRun(c)
    /\ ~SomeoneAlive
    /\ Goto(c, "monitor")
    /\ UNCHANGED <<envs, cpus, kernel_lock, panicstr>>

----------------------------------------------------------------------------
(* kern/trap.c: entry and exit *)

\* Mutant of Trap: no lock_kernel() on a trap from user mode.
TrapUnlocked(c) ==
    /\ pc[c] \in {"user", "halt"}
    /\ Goto(c, IF panicstr THEN "dead" ELSE IF pc[c] = "user" THEN "trap" ELSE "trap_halt")
    /\ cpu_status' = IF panicstr THEN cpu_status
                     ELSE [cpu_status EXCEPT ![c] = "STARTED"]
    /\ UNCHANGED <<envs, curenv, cr3, kernel_lock, panicstr>>

(***************************************************************************)
(* The unlocked part of trap().  Which lock_kernel() calls follow depends  *)
(* on cpu_status and on the mode trapped from: a HALTED CPU that trapped   *)
(* from user mode would lock twice, a STARTED one that trapped from the    *)
(* halt loop never, and spinlock.c panics on both.                         *)
(***************************************************************************)
Trap(c) ==
    /\ pc[c] \in {"user", "halt"}
    /\ LET paired == (pc[c] = "halt") <=> (cpu_status[c] = "HALTED")
       IN  /\ Goto(c, IF panicstr THEN "dead"
                      ELSE IF ~paired THEN "panic"
                      ELSE IF pc[c] = "user" THEN "trap_user" ELSE "trap_halt")
           /\ panicstr' = (panicstr \/ ~paired)
    /\ cpu_status' = IF panicstr THEN cpu_status
                     ELSE [cpu_status EXCEPT ![c] = "STARTED"]
    /\ UNCHANGED <<envs, curenv, cr3, kernel_lock>>

\* lock_kernel() returns; KernelMutex states what it promises.
Acquire(c) ==
    /\ pc[c] \in Waiting
    /\ kernel_lock = NULL
    /\ kernel_lock' = c
    /\ Goto(c, IF pc[c] = "trap_user" THEN "trap"
               ELSE IF pc[c] = "trap_halt" THEN "ktrap" ELSE "sched")
    /\ UNCHANGED <<envs, cpus, panicstr>>

\* Mutant of GarbageCollect: the zombie is taken off its CPU but not freed.
GarbageCollectLeaks(c) ==
    /\ pc[c] = "trap"
    /\ env_status[curenv[c]] = "DYING"
    /\ curenv' = [curenv EXCEPT ![c] = NULL]
    /\ cr3' = [cr3 EXCEPT ![c] = NULL]
    /\ Goto(c, "sched")
    /\ UNCHANGED <<envs, cpu_status, kernel_lock, panicstr>>

\* trap(), from user mode: a zombie is freed by the CPU it runs on.
GarbageCollect(c) ==
    /\ pc[c] = "trap"
    /\ env_status[curenv[c]] = "DYING"
    /\ EnvFree(c, curenv[c])
    /\ curenv' = [curenv EXCEPT ![c] = NULL]
    /\ Goto(c, "sched")
    /\ UNCHANGED <<cpu_status, kernel_lock, panicstr>>

\* The end of trap(): resume the current env if that makes sense.
ReturnToEnv(c) ==
    /\ pc[c] = "ret"
    /\ Resumable(c)
    /\ EnvRun(c, curenv[c])

ReturnToSched(c) ==
    /\ pc[c] = "ret"
    /\ ~Resumable(c)
    /\ Goto(c, "sched")
    /\ UNCHANGED <<envs, cpus, kernel_lock, panicstr>>

----------------------------------------------------------------------------
(* kern/trap.c, trap_dispatch, and the handlers of kern/syscall.c *)

\* Mutant of Handling: trap() does not look for zombies first.
HandlingZombies(c) == pc[c] = "trap"

\* c is in trap_dispatch() on behalf of its current environment.
Handling(c) == pc[c] = "trap" /\ env_status[curenv[c]] # "DYING"

Locked == UNCHANGED <<cpu_status, kernel_lock, panicstr>>

\* IRQ_TIMER from user mode: acknowledge and schedule.
TimerIrq(c) ==
    /\ Handling(c)
    /\ Goto(c, "sched")
    /\ UNCHANGED <<envs, cpus, kernel_lock, panicstr>>

\* IRQ_TIMER on a halted CPU.
TimerWake(c) ==
    /\ pc[c] = "ktrap"
    /\ Goto(c, "sched")
    /\ UNCHANGED <<envs, cpus, kernel_lock, panicstr>>

\* Mutant of KbdWake: the panicking CPU lets the kernel lock go.
KbdWakeUnlocks(c) ==
    /\ "kbd" \in Calls /\ c = BSP
    /\ pc[c] = "ktrap"
    /\ panicstr' = TRUE
    /\ kernel_lock' = NULL
    /\ Goto(c, "panic")
    /\ UNCHANGED <<envs, cpus>>

\* IRQ_KBD has no case in trap_dispatch: on a halted CPU it is an unhandled trap
\* in the kernel.
KbdWake(c) ==
    /\ "kbd" \in Calls /\ c = BSP
    /\ pc[c] = "ktrap"
    /\ panicstr' = TRUE
    /\ Goto(c, "panic")
    /\ UNCHANGED <<envs, cpus, kernel_lock>>

\* ... and from user mode it destroys whatever environment was running.
KbdIrq(c) ==
    /\ "kbd" \in Calls /\ c = BSP
    /\ Handling(c)
    /\ EnvDestroy(c, curenv[c])
    /\ Locked

SysYield(c) ==
    /\ "yield" \in Calls
    /\ Handling(c)
    /\ Goto(c, "sched")
    /\ UNCHANGED <<envs, cpus, kernel_lock, panicstr>>

\* An unhandled exception, a page fault without a usable upcall, or a bad
\* pointer passed to sys_cputs: env_destroy(curenv).
Fault(c) ==
    /\ "fault" \in Calls
    /\ Handling(c)
    /\ EnvDestroy(c, curenv[c])
    /\ Locked

\* Traps that come straight back: a page fault with an upcall (which calls
\* env_run itself), sys_cputs, sys_cgetc, sys_getenvid, the page calls, an
\* unknown number, and every call that fails.
Return(c) ==
    /\ Handling(c)
    /\ Goto(c, "ret")
    /\ UNCHANGED <<envs, cpus, kernel_lock, panicstr>>

\* T_BRKPT: monitor(tf), whose loop no command of kern/monitor.c ends.
Breakpoint(c) ==
    /\ "breakpoint" \in Calls
    /\ Handling(c)
    /\ Goto(c, "brkpt")
    /\ UNCHANGED <<envs, cpus, kernel_lock, panicstr>>

\* The monitor's loop, reading commands from the console.
Monitor(c) == pc[c] \in {"monitor", "brkpt", "panic"} /\ UNCHANGED vars

SysEnvDestroy(c, id) ==
    /\ Handling(c)
    /\ LET e == Envid2env(c, id, TRUE)
       IN  \/ /\ e = NULL
              /\ Goto(c, "ret") /\ UNCHANGED <<envs, curenv, cr3>>
           \/ /\ e # NULL
              /\ EnvDestroy(c, e)
    /\ Locked

\* -E_NO_FREE_ENV, and -E_NO_MEM from env_setup_vm, change nothing.
SysExofork(c) ==
    /\ "exofork" \in Calls
    /\ Handling(c)
    /\ env_free_list # <<>>
    /\ EnvAlloc(Head(env_free_list), env_id[curenv[c]])
    /\ Goto(c, "ret")
    /\ UNCHANGED <<cpus, kernel_lock, panicstr>>

SysEnvSetStatus(c, id, status) ==
    /\ Handling(c)
    /\ LET e == Envid2env(c, id, TRUE)
       IN  env_status' = IF e = NULL THEN env_status
                         ELSE [env_status EXCEPT ![e] = status]
    /\ Goto(c, "ret")
    /\ UNCHANGED <<env_id, env_parent_id, env_ipc_recving, env_cpunum,
                   env_free_list, cpus, kernel_lock, panicstr>>

SysIpcRecv(c) ==
    /\ "ipc_recv" \in Calls
    /\ Handling(c)
    /\ env_ipc_recving' = [env_ipc_recving EXCEPT ![curenv[c]] = TRUE]
    /\ env_status' = [env_status EXCEPT ![curenv[c]] = "NOT_RUNNABLE"]
    /\ Goto(c, "sched")
    /\ UNCHANGED <<env_id, env_parent_id, env_cpunum, env_free_list, cpus,
                   kernel_lock, panicstr>>

\* sys_ipc_try_send, when neither the target nor the page is refused.
SysIpcTrySend(c, id) ==
    /\ Handling(c)
    /\ LET e == Envid2env(c, id, FALSE)
       IN  /\ e # NULL
           /\ env_ipc_recving[e]
           /\ env_ipc_recving' = [env_ipc_recving EXCEPT ![e] = FALSE]
           /\ env_status' = [env_status EXCEPT ![e] = "RUNNABLE"]
    /\ Goto(c, "ret")
    /\ UNCHANGED <<env_id, env_parent_id, env_cpunum, env_free_list, cpus,
                   kernel_lock, panicstr>>

\* ... when srcva is not mapped: page_lookup leaves pte unset, and reading *pte
\* (line 346) faults in the kernel or, with a stray value that happens to be
\* mapped, goes on to -E_INVAL, which is Return.
SysIpcTrySendWild(c, id) ==
    /\ Handling(c)
    /\ LET e == Envid2env(c, id, FALSE) IN e # NULL /\ env_ipc_recving[e]
    /\ panicstr' = TRUE
    /\ Goto(c, "panic")
    /\ UNCHANGED <<envs, cpus, kernel_lock>>

----------------------------------------------------------------------------
(***************************************************************************)
(* What programs do.  lib/ and user/ use three of the calls in a           *)
(* disciplined way: they destroy a child once, they set the status of      *)
(* themselves or of a child that is off every CPU and not blocked in       *)
(* sys_ipc_recv (lib/fork.c, user/dumbfork.c), and they send pages that    *)
(* they have mapped (user/sendpage.c).  The kernel checks none of these.   *)
(* Careless names the calls for which an instance drops the discipline.    *)
(***************************************************************************)
Once(c, id) ==
    LET e == Envid2env(c, id, TRUE) IN e # NULL => env_status[e] # "DYING"

Parked(c, id) ==
    LET e == Envid2env(c, id, TRUE)
    IN  \/ e \in {NULL, curenv[c]}
        \/ /\ env_status[e] \in {"RUNNABLE", "NOT_RUNNABLE"}
           /\ ~env_ipc_recving[e]

\* The ids a program can hold: its own, and those of slots that were ever used.
Known == {Self} \cup {env_id[s] : s \in Slot}

DestroyCall(c) ==
    /\ "destroy" \in Calls
    /\ \E id \in Known : /\ SysEnvDestroy(c, id)
                         /\ "destroy" \in Careless \/ Once(c, id)

SetStatusCall(c) ==
    /\ "set_status" \in Calls
    /\ \E id \in Known, status \in {"RUNNABLE", "NOT_RUNNABLE"} :
          /\ SysEnvSetStatus(c, id, status)
          /\ "set_status" \in Careless \/ Parked(c, id)

IpcSendCall(c) ==
    /\ "ipc_send" \in Calls
    /\ \E id \in Known :
          SysIpcTrySend(c, id) \/ ("ipc_send" \in Careless /\ SysIpcTrySendWild(c, id))

Dispatch(c) ==
    \/ TimerIrq(c) \/ TimerWake(c) \/ KbdIrq(c) \/ KbdWake(c)
    \/ SysYield(c) \/ Fault(c) \/ Return(c) \/ Breakpoint(c)
    \/ DestroyCall(c) \/ SysExofork(c) \/ SetStatusCall(c)
    \/ SysIpcRecv(c) \/ IpcSendCall(c)

Sched(c) == SchedSwitch(c) \/ SchedResume(c) \/ SchedHalt(c) \/ SchedMonitor(c)

Finish(c) == GarbageCollect(c) \/ ReturnToEnv(c) \/ ReturnToSched(c) \/ Sched(c)

Next == \E c \in CPU :
    Trap(c) \/ Acquire(c) \/ Dispatch(c) \/ Finish(c) \/ EnvPopTf(c) \/ Monitor(c)

Spec == Init /\ [][Next]_vars

(***************************************************************************)
(* Fairness.  The LAPIC timer interrupts every CPU that is in user mode or *)
(* halted, again and again (lapic.c:72-74), and a pending tick is taken as *)
(* soon as env_pop_tf re-enables interrupts, so an environment that traps  *)
(* for ever is also interrupted for ever.  A CPU in the kernel keeps       *)
(* executing.  The spinlock is unfair; that no CPU loses every race for it *)
(* is an assumption on the hardware, the one the pause in unlock_kernel is *)
(* there to make true (spinlock.h:41-45).                                  *)
(***************************************************************************)
Fairness == \A c \in CPU :
    /\ WF_vars(Trap(c)) /\ WF_vars(EnvPopTf(c))
    /\ WF_vars(Dispatch(c)) /\ SF_vars(TimerIrq(c))
    /\ WF_vars(Finish(c))
    /\ SF_vars(Acquire(c))

FairSpec == Spec /\ Fairness

----------------------------------------------------------------------------
(* Safety *)

\* "Never choose an environment that's currently running on another CPU"
\* (sched.c:26-27): no environment is current on two CPUs.
AtMostOneCpu ==
    \A c, d \in CPU : c # d /\ curenv[c] # NULL => curenv[c] # curenv[d]

\* A CPU that executes user code, or is between user code and the lock, does so
\* for a live environment that the scheduler cannot pick a second time.
UserModeEnvLive ==
    \A c \in CPU : pc[c] \in {"pop", "user", "trap_user"} =>
        curenv[c] # NULL /\ env_status[curenv[c]] \in {"RUNNING", "DYING"}

\* An environment marked RUNNING or DYING is on some CPU: otherwise neither the
\* scheduler nor a trap of its own would ever find it again.
NoLostEnv ==
    \A s \in Slot : env_status[s] \in {"RUNNING", "DYING"} =>
        \E c \in CPU : curenv[c] = s

\* env_free_list threads exactly the FREE slots, each once: env_alloc never
\* hands out a live environment and no slot is leaked.
FreeListExact ==
    /\ IsInjective(env_free_list)
    /\ Range(env_free_list) = {s \in Slot : env_status[s] = "FREE"}

\* No CPU has a page directory loaded that env_free gave back (env.c:426-430),
\* its own or one that another CPU freed.
PgdirLive ==
    \A c \in CPU : cr3[c] # NULL =>
        \E s \in Slot : env_status[s] # "FREE" /\ env_id[s] = cr3[c]

\* The kernel drops into the monitor for want of environments (sched.c:64-76)
\* only when no other CPU has an environment, not even a zombie.
MonitorOnlyWhenIdle ==
    \A c \in CPU : pc[c] = "monitor" =>
        /\ \A d \in CPU \ {c} : curenv[d] = NULL
        /\ \A s \in Slot : env_status[s] \in {"FREE", "NOT_RUNNABLE"}

\* thisenv->env_cpunum, which env_pop_tf writes without the lock and user code
\* reads (user/stresssched.c), is the CPU the code is running on.
EnvCpunumRight ==
    \A c \in CPU : pc[c] \in {"user", "trap_user"} => env_cpunum[curenv[c]] = c

\* An environment blocked in sys_ipc_recv stays off the run queue.
BlockedInRecv ==
    \A s \in Slot : env_ipc_recving[s] => env_status[s] \in {"NOT_RUNNABLE", "FREE"}

\* A panic is always an orderly one: the CPU that panicked has the kernel lock
\* and keeps it, and only then do others stop at their next trap.  A lock_kernel
\* too many or too few in trap() would panic without it (trap.c:293-306).
OrderlyPanic ==
    /\ panicstr => \E c \in CPU : pc[c] = "panic" /\ kernel_lock = c
    /\ \A c \in CPU : pc[c] \in {"panic", "dead"} => panicstr

----------------------------------------------------------------------------
(* The inductive invariant *)

\* Only the CPU inside the kernel may have a current environment that is neither
\* RUNNING nor DYING, and only until it schedules.
CpuInv(c) ==
    /\ pc[c] \in {"pop", "user", "trap_user", "trap", "brkpt"} =>
          curenv[c] # NULL /\ env_status[curenv[c]] \in {"RUNNING", "DYING"}
    /\ pc[c] = "ret" => curenv[c] # NULL
    /\ pc[c] \in {"ret", "sched", "monitor"} /\ curenv[c] # NULL =>
          env_status[curenv[c]] \in {"RUNNING", "RUNNABLE", "NOT_RUNNABLE"}
    /\ pc[c] \in {"halt", "trap_halt", "ktrap", "mp_main"} => curenv[c] = NULL
    /\ pc[c] \in {"panic", "dead"} /\ curenv[c] # NULL =>
          env_status[curenv[c]] \in {"RUNNING", "DYING"}
    /\ pc[c] # "dead" => (cpu_status[c] = "HALTED" <=> pc[c] = "halt")
    /\ cr3[c] = IF curenv[c] = NULL THEN NULL ELSE env_id[curenv[c]]

LockOwner == \A c \in CPU : pc[c] \in Inside <=> kernel_lock = c

\* A slot that was ever allocated has an id that leads back to it.
IdsIndexSlots ==
    \A s \in Slot : /\ env_id[s] = Self \/ (env_id[s][1] > 0 /\ ENVX(env_id[s]) = s)
                    /\ env_status[s] # "FREE" => env_id[s] # Self

\* Why the safety properties hold, as one inductive invariant: an environment on
\* a CPU that is not in the kernel is RUNNING or DYING, so no handler that looks
\* for RUNNABLE, NOT_RUNNABLE or blocked environments can touch it.
KernelInv ==
    /\ TypeOK /\ LockOwner /\ IdsIndexSlots
    /\ \A c \in CPU : CpuInv(c)
    /\ AtMostOneCpu /\ NoLostEnv /\ FreeListExact
    /\ BlockedInRecv /\ EnvCpunumRight /\ MonitorOnlyWhenIdle /\ OrderlyPanic

----------------------------------------------------------------------------
(* Action properties *)

\* "A zombie environment will be freed the next time it traps to the kernel"
\* (env.c:478-479): only the CPU it is on takes it out of DYING, and frees it.
ZombieFreedByOwner ==
    [][\A s \in Slot : env_status[s] = "DYING" /\ env_status'[s] # "DYING" =>
          /\ env_status'[s] = "FREE"
          /\ \E c \in CPU : kernel_lock = c /\ curenv[c] = s /\ curenv'[c] = NULL]_vars

\* A slot gets a new envid only when no CPU has the old environment current or
\* its address space loaded, and the new tenant is not taken for a receiver
\* because the old one died in sys_ipc_recv (env.c:275-276).
SlotReusedWhenIdle ==
    [][\A s \in Slot : env_id'[s] # env_id[s] =>
          /\ ~env_ipc_recving'[s]
          /\ \A c \in CPU : curenv[c] # s /\ cr3[c] \notin {env_id[s], env_id'[s]}]_vars

\* A panic freezes the system (init.c:133-155, trap.c:286-289): the CPU that
\* panicked keeps the lock, the others spin for it or halt at their next trap, so
\* the environments stay as they were for the monitor to look at.
PanicFreezes ==
    [][panicstr => UNCHANGED <<env_status, env_id, env_parent_id, env_ipc_recving,
                               env_free_list, curenv, cr3>>]_vars

\* lock_kernel and unlock_kernel are paired along every path through the kernel:
\* seen through the lock alone, the kernel is a client of the abstract mutex.
Mode(c) == IF pc[c] \in Inside THEN "in"
           ELSE IF pc[c] \in Waiting THEN "waiting" ELSE "out"

Mutex == INSTANCE KernelMutex WITH mode <- [c \in CPU |-> Mode(c)]

LockPaired == [][Mutex!Next]_([c \in CPU |-> Mode(c)])

----------------------------------------------------------------------------
(* Liveness *)

\* A zombie is eventually freed, wherever it was running when it was marked.
ZombieReaped ==
    \A s \in Slot : env_status[s] = "DYING" ~> env_status[s] = "FREE"

\* "Implement simple round-robin scheduling" (sched.c:16-20): a runnable
\* environment is eventually run (or stops waiting).
RunnableRuns ==
    \A s \in Slot : env_status[s] = "RUNNABLE" ~> env_status[s] # "RUNNABLE"
=============================================================================
