------------------------------ MODULE Spinlock ------------------------------
(***************************************************************************)
(* The big kernel lock, kern/spinlock.c, at the grain of its shared-memory *)
(* accesses.  DEBUG_SPINLOCK is defined (kern/spinlock.h), so spin_lock    *)
(* and spin_unlock first run holding(), which reads lk->locked and lk->cpu *)
(* in two separate loads while other CPUs change both, and panic on its    *)
(* answer.  The question of this module is whether those unsynchronised    *)
(* reads can ever panic a correct caller.                                  *)
(***************************************************************************)
CONSTANTS CPU,      \* the processors that share the lock
          NULL      \* the null struct CpuInfo pointer

ASSUME NullAssumption == NULL \notin CPU

VARIABLES locked,   \* kernel_lock.locked
          cpu,      \* kernel_lock.cpu
          pc        \* the next shared access of each CPU

vars == <<locked, cpu, pc>>

\* The labels at which a CPU is past its xchg and has not yet undone it.
Owning == {"record", "critical", "check_locked", "check_cpu", "forget", "release"}

Labels == Owning \cup {"outside", "see_locked", "see_cpu", "spin", "panic"}

TypeOK == /\ locked \in BOOLEAN
          /\ cpu \in CPU \cup {NULL}
          /\ pc \in [CPU -> Labels]

\* kernel_lock is a zero-initialised global.
Init == /\ locked = FALSE
        /\ cpu = NULL
        /\ pc = [c \in CPU |-> "outside"]

Goto(c, here, there) == /\ pc[c] = here
                        /\ pc' = [pc EXCEPT ![c] = there]

----------------------------------------------------------------------------
(* spin_lock *)

LockCall(c) == Goto(c, "outside", "see_locked") /\ UNCHANGED <<locked, cpu>>

\* holding(): the load of lk->locked, which short-circuits the &&.
SeeLocked(c) == /\ Goto(c, "see_locked", IF locked THEN "see_cpu" ELSE "spin")
                /\ UNCHANGED <<locked, cpu>>

\* holding(): the load of lk->cpu, and the panic "already holding".
SeeCpu(c) == /\ Goto(c, "see_cpu", IF cpu = c THEN "panic" ELSE "spin")
             /\ UNCHANGED <<locked, cpu>>

\* Mutant of Xchg: the lock is taken without looking at the old value.
XchgUntested(c) == Goto(c, "spin", "record") /\ locked' = TRUE /\ UNCHANGED cpu

\* The xchg that finds the lock free; one that finds it taken changes nothing.
Xchg(c) == /\ ~locked
           /\ Goto(c, "spin", "record")
           /\ locked' = TRUE
           /\ UNCHANGED cpu

\* lk->cpu = thiscpu, and the call stack only this CPU looks at.
Record(c) == Goto(c, "record", "critical") /\ cpu' = c /\ UNCHANGED locked

----------------------------------------------------------------------------
(* spin_unlock *)

UnlockCall(c) == Goto(c, "critical", "check_locked") /\ UNCHANGED <<locked, cpu>>

\* holding() again; here FALSE is the answer that panics.
CheckLocked(c) ==
    /\ Goto(c, "check_locked", IF locked THEN "check_cpu" ELSE "panic")
    /\ UNCHANGED <<locked, cpu>>

CheckCpu(c) == /\ Goto(c, "check_cpu", IF cpu = c THEN "forget" ELSE "panic")
               /\ UNCHANGED <<locked, cpu>>

\* Mutant of Forget: lk->cpu keeps the old owner.
ForgetNothing(c) == Goto(c, "forget", "release") /\ UNCHANGED <<locked, cpu>>

\* lk->pcs[0] = 0; lk->cpu = 0, before the lock is let go.
Forget(c) == Goto(c, "forget", "release") /\ cpu' = NULL /\ UNCHANGED locked

\* Mutant of Release: the lock is never let go.
ReleaseNothing(c) == Goto(c, "release", "outside") /\ UNCHANGED <<locked, cpu>>

\* xchg(&lk->locked, 0)
Release(c) == Goto(c, "release", "outside") /\ locked' = FALSE /\ UNCHANGED cpu

----------------------------------------------------------------------------
LockStep(c) == LockCall(c) \/ SeeLocked(c) \/ SeeCpu(c) \/ Xchg(c) \/ Record(c)

UnlockStep(c) ==
    UnlockCall(c) \/ CheckLocked(c) \/ CheckCpu(c) \/ Forget(c) \/ Release(c)

Next == \E c \in CPU : LockStep(c) \/ UnlockStep(c)

\* A CPU inside spin_lock or spin_unlock keeps executing (interrupts are off in
\* the kernel), and every critical section ends; nobody has to ask for the lock.
Progress(c) == (pc[c] # "outside" /\ LockStep(c)) \/ UnlockStep(c)

Spec == Init /\ [][Next]_vars /\ \A c \in CPU : WF_vars(Progress(c))

----------------------------------------------------------------------------
(* Properties *)

\* The lock's purpose: no two CPUs are past their xchg at once.
MutualExclusion ==
    \A c, d \in CPU : pc[c] \in Owning /\ pc[d] \in Owning => c = d

\* The unsynchronised holding() test never panics a CPU that pairs lock_kernel
\* with unlock_kernel: neither "already holding" (spinlock.c:65) nor
\* "spin_unlock" (spinlock.c:103) is reached, whatever the other CPUs do between
\* its two loads.
NoFalsePanic == \A c \in CPU : pc[c] # "panic"

\* The inductive invariant: locked means exactly that somebody owns the lock,
\* and lk->cpu names a CPU only between that CPU's Record and Forget.
LockInv ==
    /\ TypeOK
    /\ MutualExclusion
    /\ NoFalsePanic
    /\ locked <=> \E c \in CPU : pc[c] \in Owning
    /\ \A c \in CPU :
          cpu = c <=> pc[c] \in {"critical", "check_locked", "check_cpu", "forget"}

\* spin_lock and spin_unlock implement the abstract kernel mutex, its progress
\* promise included.
Mode(c) == IF pc[c] \in Owning THEN "in"
           ELSE IF pc[c] \in {"see_locked", "see_cpu", "spin"} THEN "waiting"
           ELSE "out"

Mutex == INSTANCE KernelMutex WITH mode <- [c \in CPU |-> Mode(c)]

ImplementsMutex == Mutex!Spec
=============================================================================
