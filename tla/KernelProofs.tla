---------------------------- MODULE KernelProofs ----------------------------
(***************************************************************************)
(* TLAPS proofs about the multiprocessor core of JOS (module Kernel), for  *)
(* any number of CPUs, any NENV and any number of initial environments.    *)
(* The hypothesis of the theorems is the discipline of lib/ and user/ with *)
(* sys_env_destroy and sys_env_set_status (Careless \subseteq {"ipc_send"}: *)
(* key presses and wild sends are allowed, panics included).               *)
(***************************************************************************)
EXTENDS Kernel, TLAPS

----------------------------------------------------------------------------
(* The free list as a sequence *)

\* What env_alloc's "env_free_list = e->env_link" leaves in a duplicate-free list.
LEMMA TailOfList ==
    ASSUME NEW S, NEW q \in Seq(S), q # <<>>, IsInjective(q)
    PROVE  /\ Head(q) \in Range(q) /\ Head(q) \in S
           /\ Tail(q) \in Seq(S) /\ IsInjective(Tail(q))
           /\ Range(Tail(q)) = Range(q) \ {Head(q)}
<1> DEFINE t == Tail(q)
<1>1. /\ Len(q) \in Nat /\ Len(q) > 0 /\ DOMAIN q = 1 .. Len(q)
      /\ t \in Seq(S) /\ DOMAIN t = 1 .. Len(q) - 1
      /\ \A i \in 1 .. Len(q) - 1 : t[i] = q[i + 1]
      /\ Head(q) = q[1] /\ Head(q) \in S
  OBVIOUS
<1>2. \A i \in DOMAIN q : i # 1 => i - 1 \in DOMAIN t /\ t[i - 1] = q[i]
  BY <1>1
<1>3. Range(t) = Range(q) \ {q[1]} /\ q[1] \in Range(q)
  <2>1. \A i \in DOMAIN t : t[i] \in Range(q) /\ t[i] # q[1]
    BY <1>1 DEF Range, IsInjective
  <2>2. \A i \in DOMAIN q : q[i] # q[1] => q[i] \in Range(t)
    BY <1>1, <1>2 DEF Range
  <2>3. q[1] \in Range(q)
    BY <1>1 DEF Range
  <2>4. QED
    BY <2>1, <2>2, <2>3 DEF Range
<1>4. IsInjective(t)
  BY <1>1 DEF IsInjective
<1> QED
  BY <1>1, <1>3, <1>4

\* What env_free's push leaves when the env was not on the list.
LEMMA ConsOnList ==
    ASSUME NEW S, NEW q \in Seq(S), NEW e \in S, IsInjective(q), e \notin Range(q)
    PROVE  /\ <<e>> \o q \in Seq(S) /\ IsInjective(<<e>> \o q)
           /\ Range(<<e>> \o q) = Range(q) \cup {e}
<1> DEFINE t == <<e>> \o q
<1>1. /\ Len(q) \in Nat /\ DOMAIN q = 1 .. Len(q)
      /\ t \in Seq(S) /\ DOMAIN t = 1 .. Len(q) + 1
      /\ t[1] = e
      /\ \A i \in 1 .. Len(q) + 1 : i # 1 => t[i] = q[i - 1]
  OBVIOUS
<1>2. \A i \in DOMAIN q : i + 1 \in DOMAIN t /\ t[i + 1] = q[i]
  BY <1>1
<1>3. 1 \in DOMAIN t
  BY <1>1
<1>4. \A k \in DOMAIN t : k # 1 => k - 1 \in DOMAIN q /\ t[k] = q[k - 1] /\ t[k] # e
  BY <1>1 DEF Range
<1>5. Range(t) = Range(q) \cup {e}
  <2>1. \A i \in DOMAIN t : t[i] \in Range(q) \cup {e}
    BY <1>1, <1>4 DEF Range
  <2>2. \A x \in Range(q) : x \in Range(t)
    BY <1>2 DEF Range
  <2>3. e \in Range(t)
    BY <1>1, <1>3 DEF Range
  <2>4. QED
    BY <2>1, <2>2, <2>3 DEF Range
<1>6. ASSUME NEW i \in DOMAIN t, NEW j \in DOMAIN t, t[i] = t[j] PROVE i = j
  <2>1. CASE i = 1 \/ j = 1
    BY <1>1, <1>4, <1>6, <2>1
  <2>2. CASE i # 1 /\ j # 1
    <3>1. i - 1 = j - 1
      BY <1>4, <1>6, <2>2 DEF IsInjective
    <3>2. QED
      BY <1>1, <3>1
  <2>3. QED
    BY <2>1, <2>2
<1> QED
  BY <1>1, <1>5, <1>6 DEF IsInjective

----------------------------------------------------------------------------
(* The invariant *)

USE ConstantsAssumption

\* An environment current on a CPU other than the lock holder is RUNNING or
\* DYING: that CPU is in user mode, or on its way out of or into the kernel.
LEMMA OthersAreRunning ==
    ASSUME KernelInv, NEW c \in CPU, kernel_lock = c,
           NEW d \in CPU, d # c, curenv[d] # NULL
    PROVE  /\ pc[d] \in {"pop", "user", "trap_user", "dead"}
           /\ env_status[curenv[d]] \in {"RUNNING", "DYING"}
           /\ curenv[d] # curenv[c]
<1>1. pc[d] \notin Inside
  BY DEF KernelInv, LockOwner
<1>2. CpuInv(d) /\ pc[d] \in Outside \cup Waiting \cup Inside
  BY DEF KernelInv, TypeOK
<1>3. QED
  BY <1>1, <1>2 DEF KernelInv, CpuInv, Outside, Waiting, Inside, AtMostOneCpu

\* The state i386_init leaves satisfies the invariant.
LEMMA KernelInvInit == Init => KernelInv
<1> SUFFICES ASSUME Init PROVE KernelInv
  OBVIOUS
<1>1. TypeOK
  <2>1. env_free_list \in Seq(Slot)
    BY DEF Init, Slot
  <2>2. \A s \in Slot : Self \in EnvId /\ <<1, s>> \in EnvId
    BY DEF EnvId, Self, Slot
  <2>3. env_id \in [Slot -> EnvId] /\ env_parent_id \in [Slot -> EnvId]
    BY <2>2 DEF Init
  <2>4. QED
    BY <2>1, <2>3 DEF Init, TypeOK, Statuses, Outside, Waiting, Inside
<1>2. FreeListExact
  <2>1. DOMAIN env_free_list = 1 .. NENV - NINIT
    BY DEF Init
  <2>2. \A i \in 1 .. NENV - NINIT : env_free_list[i] = NINIT + i - 1
    BY DEF Init
  <2>3. \A s \in Slot : env_status[s] = "FREE" <=> s >= NINIT
    BY DEF Init, Slot
  <2>4. \A s \in Slot : s >= NINIT =>
           s - NINIT + 1 \in 1 .. NENV - NINIT /\ env_free_list[s - NINIT + 1] = s
    BY <2>2 DEF Slot
  <2>5. \A i \in 1 .. NENV - NINIT :
           env_free_list[i] \in Slot /\ env_free_list[i] >= NINIT
    BY <2>2 DEF Slot
  <2>6. Range(env_free_list) = {s \in Slot : env_status[s] = "FREE"}
    BY <2>1, <2>3, <2>4, <2>5 DEF Range
  <2>7. \A i, j \in 1 .. NENV - NINIT : env_free_list[i] = env_free_list[j] => i = j
    BY <2>2
  <2>8. QED
    BY <2>1, <2>6, <2>7 DEF FreeListExact, IsInjective
<1>3. IdsIndexSlots
  BY DEF Init, IdsIndexSlots, Self, ENVX, Slot
<1>4. LockOwner /\ \A c \in CPU : CpuInv(c)
  BY DEF Init, LockOwner, CpuInv, Inside
<1>5. /\ AtMostOneCpu /\ NoLostEnv /\ BlockedInRecv
      /\ EnvCpunumRight /\ MonitorOnlyWhenIdle /\ OrderlyPanic
  BY DEF Init, AtMostOneCpu, NoLostEnv, BlockedInRecv, EnvCpunumRight,
         MonitorOnlyWhenIdle, OrderlyPanic
<1>6. QED
  BY <1>1, <1>2, <1>3, <1>4, <1>5 DEF KernelInv

\* Trap entry and the acquisition of the lock only move the CPU, and keep
\* cpu_status HALTED exactly in the halt loop.
LEMMA EntryInv ==
    ASSUME KernelInv, NEW c \in CPU, Trap(c) \/ Acquire(c) PROVE KernelInv'
<1> USE DEF KernelInv, TypeOK, LockOwner, CpuInv, AtMostOneCpu, NoLostEnv,
            BlockedInRecv, EnvCpunumRight, MonitorOnlyWhenIdle, OrderlyPanic,
            IdsIndexSlots, FreeListExact, Goto, envs, cpus, Outside, Waiting, Inside
<1>1. CASE Trap(c)
  BY <1>1 DEF Trap
<1>2. CASE Acquire(c)
  BY <1>2 DEF Acquire
<1>3. QED
  BY <1>1, <1>2

\* env_pop_tf writes only the Env that is current on its own CPU.
LEMMA EnvPopTfInv ==
    ASSUME KernelInv, NEW c \in CPU, EnvPopTf(c) PROVE KernelInv'
BY DEF KernelInv, TypeOK, LockOwner, CpuInv, AtMostOneCpu, NoLostEnv,
       BlockedInRecv, EnvCpunumRight, MonitorOnlyWhenIdle, OrderlyPanic,
       IdsIndexSlots, FreeListExact, Goto, envs, cpus, Outside, Waiting, Inside,
       EnvPopTf

\* The steps of the lock holder that only choose where to go next.
LEMMA JumpInv ==
    ASSUME KernelInv, NEW c \in CPU,
           \/ TimerIrq(c) \/ TimerWake(c) \/ SysYield(c) \/ Return(c)
           \/ Breakpoint(c) \/ ReturnToSched(c) \/ KbdWake(c)
           \/ \E id \in Known : SysIpcTrySendWild(c, id)
    PROVE  KernelInv'
<1> USE DEF KernelInv, TypeOK, LockOwner, CpuInv, AtMostOneCpu, NoLostEnv,
            BlockedInRecv, EnvCpunumRight, MonitorOnlyWhenIdle, OrderlyPanic,
            IdsIndexSlots, FreeListExact, Goto, envs, cpus, Outside, Waiting, Inside,
            Handling, Resumable
<1>1. CASE TimerIrq(c)
  BY <1>1 DEF TimerIrq
<1>2. CASE TimerWake(c)
  BY <1>2 DEF TimerWake
<1>3. CASE SysYield(c)
  BY <1>3 DEF SysYield
<1>4. CASE Return(c)
  BY <1>4 DEF Return
<1>5. CASE Breakpoint(c)
  BY <1>5 DEF Breakpoint
<1>6. CASE ReturnToSched(c)
  BY <1>6 DEF ReturnToSched
<1>7. CASE KbdWake(c)
  BY <1>7 DEF KbdWake
<1>8. CASE \E id \in Known : SysIpcTrySendWild(c, id)
  BY <1>8 DEF SysIpcTrySendWild
<1>9. QED
  BY <1>1, <1>2, <1>3, <1>4, <1>5, <1>6, <1>7, <1>8

\* sched_halt lets go of the environment before it lets go of the lock.
LEMMA SchedHaltInv ==
    ASSUME KernelInv, NEW c \in CPU, SchedHalt(c) PROVE KernelInv'
BY OthersAreRunning
DEF KernelInv, TypeOK, LockOwner, CpuInv, AtMostOneCpu, NoLostEnv,
    BlockedInRecv, EnvCpunumRight, MonitorOnlyWhenIdle, OrderlyPanic,
    IdsIndexSlots, FreeListExact, Goto, envs, cpus, Outside, Waiting, Inside,
    SchedHalt, NothingToRun, Resumable

\* The monitor is entered only when no other CPU has an environment: that
\* environment would be RUNNING or DYING, and sched_halt looks for both.
LEMMA SchedMonitorInv ==
    ASSUME KernelInv, NEW c \in CPU, SchedMonitor(c) PROVE KernelInv'
<1>1. kernel_lock = c /\ pc[c] = "sched"
  BY DEF KernelInv, LockOwner, Inside, SchedMonitor, NothingToRun
<1>2. \A d \in CPU \ {c} : curenv[d] = NULL
  <2>1. SUFFICES ASSUME NEW d \in CPU \ {c}, curenv[d] # NULL PROVE FALSE
    OBVIOUS
  <2>2. curenv[d] \in Slot /\ env_status[curenv[d]] \in {"RUNNING", "DYING"}
    BY <1>1, <2>1, OthersAreRunning DEF KernelInv, TypeOK
  <2>3. QED
    BY <2>2 DEF SchedMonitor, SomeoneAlive
<1>3. \A s \in Slot : env_status[s] \in {"FREE", "NOT_RUNNABLE"}
  BY DEF KernelInv, TypeOK, Statuses, SchedMonitor, SomeoneAlive
<1>4. MonitorOnlyWhenIdle'
  BY <1>1, <1>2, <1>3
  DEF KernelInv, TypeOK, LockOwner, Inside, MonitorOnlyWhenIdle, SchedMonitor,
      Goto, envs, cpus
<1>5. QED
  BY <1>1, <1>4
  DEF KernelInv, TypeOK, LockOwner, CpuInv, AtMostOneCpu, NoLostEnv,
      BlockedInRecv, EnvCpunumRight, OrderlyPanic, IdsIndexSlots, FreeListExact,
      Goto, envs, cpus, Outside, Waiting, Inside, SchedMonitor

\* env_run, from the scheduler or from the end of trap(): the environment it is
\* given is RUNNABLE, hence on no CPU, or it is this CPU's own.
LEMMA EnvRunInv ==
    ASSUME KernelInv, NEW c \in CPU, NEW e \in Slot, EnvRun(c, e),
           pc[c] \in {"sched", "ret"},
           env_status[e] = "RUNNABLE" \/ (curenv[c] = e /\ env_status[e] = "RUNNING")
    PROVE  KernelInv'
<1>1. kernel_lock = c
  BY DEF KernelInv, LockOwner, Inside
<1>2. \A d \in CPU : d # c => curenv[d] # e
  BY <1>1, OthersAreRunning DEF KernelInv, AtMostOneCpu
<1>3. TypeOK'
  BY DEF KernelInv, TypeOK, EnvRun, Goto, Statuses, Outside
<1>4. FreeListExact'
  BY DEF KernelInv, FreeListExact, EnvRun
<1>5. IdsIndexSlots'
  BY DEF KernelInv, IdsIndexSlots, EnvRun
<1>6. LockOwner' /\ \A d \in CPU : CpuInv(d)'
  BY <1>1, <1>2, OthersAreRunning
  DEF KernelInv, TypeOK, LockOwner, CpuInv, EnvRun, Goto, Inside
<1>7. AtMostOneCpu' /\ NoLostEnv'
  BY <1>2 DEF KernelInv, TypeOK, CpuInv, AtMostOneCpu, NoLostEnv, EnvRun
<1>8. BlockedInRecv' /\ EnvCpunumRight' /\ MonitorOnlyWhenIdle' /\ OrderlyPanic'
  BY <1>1, <1>2
  DEF KernelInv, TypeOK, LockOwner, Inside, BlockedInRecv, EnvCpunumRight,
      MonitorOnlyWhenIdle, OrderlyPanic, EnvRun, Goto
<1>9. QED
  BY <1>3, <1>4, <1>5, <1>6, <1>7, <1>8 DEF KernelInv

\* The three callers of env_run.
LEMMA RunInv ==
    ASSUME KernelInv, NEW c \in CPU,
           SchedSwitch(c) \/ SchedResume(c) \/ ReturnToEnv(c)
    PROVE  KernelInv'
<1>1. CASE SchedSwitch(c)
  <2>1. PICK s \in Runnable : EnvRun(c, s)
    BY <1>1 DEF SchedSwitch
  <2>2. QED
    BY <1>1, <2>1, EnvRunInv DEF SchedSwitch, Runnable
<1>2. CASE SchedResume(c) \/ ReturnToEnv(c)
  <2>1. /\ curenv[c] \in Slot /\ env_status[curenv[c]] = "RUNNING"
        /\ EnvRun(c, curenv[c]) /\ pc[c] \in {"sched", "ret"}
    BY <1>2 DEF SchedResume, ReturnToEnv, Resumable, KernelInv, TypeOK
  <2>2. QED
    BY <2>1, EnvRunInv
<1>3. QED
  BY <1>1, <1>2

\* env_free by the lock holder, of its own environment or of one that is on no
\* CPU: the slot goes to the free list and no CPU is left pointing at it.
LEMMA EnvFreeInv ==
    ASSUME KernelInv, NEW c \in CPU, NEW e \in Slot, EnvFree(c, e), Locked,
           pc[c] = "trap", curenv[c] # NULL, env_status[e] # "FREE",
           e = curenv[c] \/ env_status[e] \in {"RUNNABLE", "NOT_RUNNABLE"},
           e # curenv[c] => env_status[curenv[c]] # "DYING",
           curenv' = IF curenv[c] = e THEN [curenv EXCEPT ![c] = NULL] ELSE curenv,
           Goto(c, IF curenv[c] = e THEN "sched" ELSE "ret")
    PROVE  KernelInv'
<1> USE DEF Locked, Goto
<1>1. kernel_lock = c /\ curenv[c] \in Slot
  BY DEF KernelInv, TypeOK, LockOwner, Inside
<1>2. \A d \in CPU : d # c => curenv[d] # e
  BY <1>1, OthersAreRunning DEF KernelInv, AtMostOneCpu
<1>3. FreeListExact' /\ env_free_list' \in Seq(Slot)
  <2>1. e \notin Range(env_free_list)
    BY DEF KernelInv, FreeListExact
  <2>2. /\ env_free_list' \in Seq(Slot) /\ IsInjective(env_free_list')
        /\ Range(env_free_list') = Range(env_free_list) \cup {e}
    BY <2>1, ConsOnList DEF KernelInv, TypeOK, FreeListExact, EnvFree
  <2>3. {s \in Slot : env_status'[s] = "FREE"}
           = {s \in Slot : env_status[s] = "FREE"} \cup {e}
    BY DEF KernelInv, TypeOK, EnvFree
  <2>4. QED
    BY <2>2, <2>3 DEF KernelInv, FreeListExact
<1>4. TypeOK'
  BY <1>3 DEF KernelInv, TypeOK, EnvFree, Statuses, Inside
<1>5. IdsIndexSlots'
  BY DEF KernelInv, TypeOK, IdsIndexSlots, EnvFree
<1>6. LockOwner' /\ \A d \in CPU : CpuInv(d)'
  BY <1>1, <1>2, OthersAreRunning
  DEF KernelInv, TypeOK, LockOwner, CpuInv, EnvFree, Inside
<1>7. AtMostOneCpu' /\ NoLostEnv'
  BY <1>1, <1>2 DEF KernelInv, TypeOK, AtMostOneCpu, NoLostEnv, EnvFree
<1>8. BlockedInRecv' /\ EnvCpunumRight' /\ MonitorOnlyWhenIdle' /\ OrderlyPanic'
  BY <1>1, <1>2
  DEF KernelInv, TypeOK, LockOwner, Inside, BlockedInRecv, EnvCpunumRight,
      MonitorOnlyWhenIdle, OrderlyPanic, EnvFree
<1>9. QED
  BY <1>3, <1>4, <1>5, <1>6, <1>7, <1>8 DEF KernelInv

\* A CPU that frees the environment it is itself running: the zombie's own trap,
\* and env_destroy(curenv) on a fault or an interrupt without a handler.
LEMMA FreeOwnInv ==
    ASSUME KernelInv, NEW c \in CPU, GarbageCollect(c) \/ Fault(c) \/ KbdIrq(c)
    PROVE  KernelInv'
<1>1. /\ pc[c] = "trap" /\ curenv[c] \in Slot /\ curenv[c] # NULL
      /\ env_status[curenv[c]] \in {"RUNNING", "DYING"}
  BY DEF KernelInv, TypeOK, CpuInv, GarbageCollect, Fault, KbdIrq, Handling
<1>2. CASE GarbageCollect(c)
  BY <1>1, <1>2, EnvFreeInv DEF GarbageCollect, Locked
<1>3. CASE Fault(c) \/ KbdIrq(c)
  BY <1>1, <1>3, EnvFreeInv DEF Fault, KbdIrq, EnvDestroy
<1>4. QED
  BY <1>2, <1>3

\* env_destroy of an environment running on another CPU only marks it.
LEMMA EnvMarkInv ==
    ASSUME KernelInv, NEW c \in CPU, NEW e \in Slot, EnvMark(e), Locked,
           Handling(c), env_status[e] = "RUNNING", curenv[c] # e, Goto(c, "ret")
    PROVE  KernelInv'
<1> USE DEF Locked, Goto, Handling
<1>1. kernel_lock = c /\ curenv[c] \in Slot
  BY DEF KernelInv, TypeOK, CpuInv, LockOwner, Inside
<1>2. TypeOK' /\ IdsIndexSlots'
  BY DEF KernelInv, TypeOK, IdsIndexSlots, EnvMark, Statuses, Inside
<1>3. FreeListExact'
  BY DEF KernelInv, TypeOK, FreeListExact, EnvMark
<1>4. LockOwner' /\ \A d \in CPU : CpuInv(d)'
  BY <1>1, OthersAreRunning
  DEF KernelInv, TypeOK, LockOwner, CpuInv, EnvMark, Inside
<1>5. AtMostOneCpu' /\ NoLostEnv'
  BY DEF KernelInv, TypeOK, AtMostOneCpu, NoLostEnv, EnvMark
<1>6. BlockedInRecv' /\ EnvCpunumRight' /\ MonitorOnlyWhenIdle' /\ OrderlyPanic'
  BY <1>1
  DEF KernelInv, TypeOK, LockOwner, Inside, BlockedInRecv, EnvCpunumRight,
      MonitorOnlyWhenIdle, OrderlyPanic, EnvMark
<1>7. QED
  BY <1>2, <1>3, <1>4, <1>5, <1>6 DEF KernelInv

\* What envid2env returns is a live slot, or NULL.
LEMMA Envid2envLive ==
    ASSUME KernelInv, NEW c \in CPU, Handling(c), NEW id \in Known,
           NEW checkperm \in BOOLEAN, Envid2env(c, id, checkperm) # NULL
    PROVE  /\ Envid2env(c, id, checkperm) \in Slot
           /\ env_status[Envid2env(c, id, checkperm)] # "FREE"
<1>1. curenv[c] \in Slot /\ env_status[curenv[c]] \in {"RUNNING", "DYING"}
  BY DEF KernelInv, TypeOK, CpuInv, Handling
<1>2. CASE id = Self
  BY <1>1, <1>2 DEF Envid2env
<1>3. CASE id # Self
  <2>1. ENVX(id) \in Slot
    BY <1>3 DEF Known, KernelInv, TypeOK, EnvId, ENVX
  <2>2. QED
    BY <1>3, <2>1 DEF Envid2env
<1>4. QED
  BY <1>2, <1>3

\* sys_env_destroy, called once per child.
LEMMA DestroyCallInv ==
    ASSUME KernelInv, NEW c \in CPU, DestroyCall(c), Careless \subseteq {"ipc_send"}
    PROVE  KernelInv'
<1>1. PICK id \in Known : SysEnvDestroy(c, id) /\ Once(c, id)
  BY DEF DestroyCall
<1> DEFINE e == Envid2env(c, id, TRUE)
<1>2. Handling(c) /\ Locked
  BY <1>1 DEF SysEnvDestroy
<1>3. pc[c] = "trap" /\ curenv[c] # NULL /\ env_status[curenv[c]] # "DYING"
  BY <1>2 DEF Handling, KernelInv, CpuInv
<1>4. CASE e = NULL
  <2>1. Goto(c, "ret") /\ UNCHANGED <<envs, cpus, kernel_lock, panicstr>>
    BY <1>1, <1>4 DEF SysEnvDestroy, EnvDestroy, Locked, cpus
  <2>2. QED
    BY <1>2, <2>1, JumpInv DEF Return
<1>5. CASE e # NULL
  <2>1. e \in Slot /\ env_status[e] \in Statuses \ {"FREE", "DYING"} /\ EnvDestroy(c, e)
    BY <1>1, <1>2, <1>5, Envid2envLive DEF SysEnvDestroy, Once, KernelInv, TypeOK
  <2> HIDE DEF e
  <2>2. CASE env_status[e] = "RUNNING" /\ curenv[c] # e
    BY <1>2, <2>1, <2>2, EnvMarkInv DEF EnvDestroy
  <2>3. CASE ~(env_status[e] = "RUNNING" /\ curenv[c] # e)
    BY <1>2, <1>3, <2>1, <2>3, EnvFreeInv DEF EnvDestroy, Statuses
  <2>4. QED
    BY <2>2, <2>3
<1>6. QED
  BY <1>4, <1>5

\* sys_exofork takes the head of the free list, which is on no CPU.
LEMMA SysExoforkInv ==
    ASSUME KernelInv, NEW c \in CPU, SysExofork(c) PROVE KernelInv'
<1> DEFINE e == Head(env_free_list)
<1>1. /\ e \in Slot /\ env_status[e] = "FREE"
      /\ env_free_list' \in Seq(Slot) /\ IsInjective(env_free_list')
      /\ Range(env_free_list') = Range(env_free_list) \ {e}
  BY TailOfList DEF KernelInv, TypeOK, FreeListExact, SysExofork, EnvAlloc
<1>2. kernel_lock = c /\ curenv[c] \in Slot /\ pc[c] = "trap"
  BY DEF KernelInv, TypeOK, CpuInv, LockOwner, Inside, SysExofork, Handling
<1>3. \A d \in CPU : curenv[d] # e
  BY <1>1, <1>2, OthersAreRunning DEF KernelInv, CpuInv
<1>4. NextEnvId(e) \in EnvId /\ NextEnvId(e)[1] > 0 /\ NextEnvId(e)[2] = e
  BY <1>1 DEF KernelInv, TypeOK, NextEnvId, EnvId
<1> HIDE DEF e
<1> USE DEF SysExofork, Goto, cpus
<1>5. EnvAlloc(e, env_id[curenv[c]])
  BY DEF e
<1>6. TypeOK'
  BY <1>1, <1>2, <1>4, <1>5 DEF KernelInv, TypeOK, EnvAlloc, Statuses, Inside
<1>7. IdsIndexSlots'
  BY <1>1, <1>4, <1>5 DEF KernelInv, TypeOK, IdsIndexSlots, EnvAlloc, ENVX, Self
<1>8. FreeListExact'
  <2>1. {s \in Slot : env_status'[s] = "FREE"}
           = {s \in Slot : env_status[s] = "FREE"} \ {e}
    BY <1>1, <1>5 DEF KernelInv, TypeOK, EnvAlloc
  <2>2. QED
    BY <1>1, <2>1 DEF KernelInv, FreeListExact
<1>9. LockOwner' /\ \A d \in CPU : CpuInv(d)'
  BY <1>1, <1>2, <1>3, <1>5, OthersAreRunning
  DEF KernelInv, TypeOK, LockOwner, CpuInv, EnvAlloc, Inside, Handling
<1>10. AtMostOneCpu' /\ NoLostEnv'
  BY <1>1, <1>5 DEF KernelInv, TypeOK, AtMostOneCpu, NoLostEnv, EnvAlloc
<1>11. BlockedInRecv' /\ EnvCpunumRight' /\ MonitorOnlyWhenIdle' /\ OrderlyPanic'
  BY <1>1, <1>2, <1>5
  DEF KernelInv, TypeOK, LockOwner, Inside, BlockedInRecv, EnvCpunumRight,
      MonitorOnlyWhenIdle, OrderlyPanic, EnvAlloc
<1>12. QED
  BY <1>6, <1>7, <1>8, <1>9, <1>10, <1>11 DEF KernelInv

\* A handler that moves one environment, its own or one that is on no CPU, to
\* RUNNABLE or NOT_RUNNABLE.
LEMMA SetStatusInv ==
    ASSUME KernelInv, NEW c \in CPU, NEW e \in Slot, Handling(c),
           NEW status \in {"RUNNABLE", "NOT_RUNNABLE"},
           e = curenv[c] \/ env_status[e] \in {"RUNNABLE", "NOT_RUNNABLE"},
           env_status[e] # "FREE",
           env_status' = [env_status EXCEPT ![e] = status],
           env_ipc_recving' \in [Slot -> BOOLEAN],
           \A s \in Slot : s # e => env_ipc_recving'[s] = env_ipc_recving[s],
           env_ipc_recving'[e] => status = "NOT_RUNNABLE",
           pc' \in {[pc EXCEPT ![c] = "ret"], [pc EXCEPT ![c] = "sched"]},
           UNCHANGED <<env_id, env_parent_id, env_cpunum, env_free_list, cpus,
                       kernel_lock, panicstr>>
    PROVE  KernelInv'
<1> USE DEF cpus
<1>1. kernel_lock = c /\ curenv[c] \in Slot /\ pc[c] = "trap"
  BY DEF KernelInv, TypeOK, CpuInv, LockOwner, Inside, Handling
<1>2. \A d \in CPU : d # c => curenv[d] # e
  BY <1>1, OthersAreRunning DEF KernelInv, AtMostOneCpu
<1>3. TypeOK' /\ IdsIndexSlots'
  <2>1. pc' \in [CPU -> Outside \cup Waiting \cup Inside]
    BY DEF KernelInv, TypeOK, Inside
  <2>2. env_status' \in [Slot -> Statuses]
    BY DEF KernelInv, TypeOK, Statuses
  <2>3. QED
    BY <2>1, <2>2 DEF KernelInv, TypeOK, IdsIndexSlots
<1>4. FreeListExact'
  BY DEF KernelInv, TypeOK, FreeListExact
<1>5. LockOwner' /\ \A d \in CPU : CpuInv(d)'
  BY <1>1, <1>2, OthersAreRunning
  DEF KernelInv, TypeOK, LockOwner, CpuInv, Inside, Handling
<1>6. AtMostOneCpu' /\ NoLostEnv'
  BY DEF KernelInv, TypeOK, AtMostOneCpu, NoLostEnv
<1>7. BlockedInRecv'
  BY DEF KernelInv, TypeOK, BlockedInRecv
<1>8. EnvCpunumRight' /\ MonitorOnlyWhenIdle' /\ OrderlyPanic'
  <2>1. \A d \in CPU : pc'[d] # "monitor"
    <3>1. \A d \in CPU : d # c => pc[d] \notin Inside
      BY <1>1 DEF KernelInv, LockOwner
    <3>2. QED
      BY <3>1 DEF KernelInv, TypeOK, Inside
  <2>2. \A d \in CPU : pc'[d] \in {"user", "trap_user"} => pc'[d] = pc[d]
    BY DEF KernelInv, TypeOK
  <2>3. EnvCpunumRight'
    BY <2>2 DEF KernelInv, EnvCpunumRight
  <2>4. ~panicstr /\ \A d \in CPU : pc[d] \notin {"panic", "dead"}
    BY <1>1 DEF KernelInv, OrderlyPanic
  <2>5. OrderlyPanic'
    BY <2>4 DEF KernelInv, TypeOK, OrderlyPanic
  <2>6. QED
    BY <2>1, <2>3, <2>5 DEF MonitorOnlyWhenIdle
<1>9. QED
  BY <1>3, <1>4, <1>5, <1>6, <1>7, <1>8 DEF KernelInv

\* sys_ipc_recv blocks the caller, sys_ipc_try_send wakes a blocked receiver, and
\* a disciplined sys_env_set_status moves a parked child.
LEMMA StatusCallsInv ==
    ASSUME KernelInv, NEW c \in CPU, Careless \subseteq {"ipc_send"},
           SysIpcRecv(c) \/ IpcSendCall(c) \/ SetStatusCall(c)
    PROVE  KernelInv'
<1>1. CASE SysIpcRecv(c)
  <2>1. curenv[c] \in Slot /\ env_status[curenv[c]] = "RUNNING" /\ Handling(c)
    BY <1>1 DEF SysIpcRecv, Handling, KernelInv, TypeOK, CpuInv
  <2>2. QED
    BY <1>1, <2>1, SetStatusInv DEF SysIpcRecv, Goto, KernelInv, TypeOK
<1>2. CASE \E id \in Known : SysIpcTrySend(c, id)
  <2>1. PICK id \in Known : SysIpcTrySend(c, id)
    BY <1>2
  <2> DEFINE e == Envid2env(c, id, FALSE)
  <2>2. Handling(c) /\ e \in Slot /\ env_status[e] # "FREE" /\ env_ipc_recving[e]
    BY <2>1, Envid2envLive DEF SysIpcTrySend
  <2>3. env_status[e] = "NOT_RUNNABLE"
    BY <2>2 DEF KernelInv, BlockedInRecv
  <2>4. /\ env_status' = [env_status EXCEPT ![e] = "RUNNABLE"]
        /\ env_ipc_recving' = [env_ipc_recving EXCEPT ![e] = FALSE]
        /\ pc' = [pc EXCEPT ![c] = "ret"]
        /\ UNCHANGED <<env_id, env_parent_id, env_cpunum, env_free_list, cpus,
                       kernel_lock, panicstr>>
    BY <2>1 DEF SysIpcTrySend, Goto
  <2> HIDE DEF e
  <2>5. QED
    BY <2>2, <2>3, <2>4, SetStatusInv DEF KernelInv, TypeOK
<1>3. CASE SetStatusCall(c)
  <2>1. PICK id \in Known, status \in {"RUNNABLE", "NOT_RUNNABLE"} :
             SysEnvSetStatus(c, id, status) /\ Parked(c, id)
    BY <1>3 DEF SetStatusCall
  <2> DEFINE e == Envid2env(c, id, TRUE)
  <2>2. Handling(c)
    BY <2>1 DEF SysEnvSetStatus
  <2>3. CASE e = NULL
    <3>1. Return(c)
      BY <2>1, <2>2, <2>3 DEF SysEnvSetStatus, Return, envs
    <3>2. QED
      BY <3>1, JumpInv
  <2>4. CASE e # NULL
    <3>1. e \in Slot /\ env_status[e] # "FREE"
      BY <2>2, <2>4, Envid2envLive
    <3>2. \/ e = curenv[c]
          \/ env_status[e] \in {"RUNNABLE", "NOT_RUNNABLE"} /\ ~env_ipc_recving[e]
      BY <2>1, <2>4 DEF Parked
    <3>3. ~env_ipc_recving[e]
      BY <2>2, <3>1, <3>2 DEF KernelInv, BlockedInRecv, CpuInv, Handling
    <3>4. /\ env_status' = [env_status EXCEPT ![e] = status]
          /\ pc' = [pc EXCEPT ![c] = "ret"]
          /\ UNCHANGED <<env_id, env_parent_id, env_ipc_recving, env_cpunum,
                         env_free_list, cpus, kernel_lock, panicstr>>
      BY <2>1, <2>4 DEF SysEnvSetStatus, Goto
    <3> HIDE DEF e
    <3>5. QED
      BY <2>2, <3>1, <3>2, <3>3, <3>4, SetStatusInv DEF KernelInv, TypeOK
  <2>5. QED
    BY <2>3, <2>4
<1>4. QED
  BY <1>1, <1>2, <1>3, JumpInv DEF IpcSendCall

\* Every step of the kernel preserves the invariant, as long as programs keep to
\* the discipline.
LEMMA KernelInvStep ==
    ASSUME Careless \subseteq {"ipc_send"}, KernelInv, [Next]_vars
    PROVE  KernelInv'
<1>1. CASE UNCHANGED vars
  BY <1>1
  DEF KernelInv, TypeOK, LockOwner, CpuInv, AtMostOneCpu, NoLostEnv,
      BlockedInRecv, EnvCpunumRight, MonitorOnlyWhenIdle, OrderlyPanic,
      IdsIndexSlots, FreeListExact, vars, envs, cpus
<1>2. ASSUME NEW c \in CPU, Dispatch(c) PROVE KernelInv'
  BY <1>2, JumpInv, FreeOwnInv, DestroyCallInv, SysExoforkInv, StatusCallsInv
  DEF Dispatch
<1>3. ASSUME NEW c \in CPU, Finish(c) PROVE KernelInv'
  BY <1>3, JumpInv, FreeOwnInv, RunInv, SchedHaltInv, SchedMonitorInv
  DEF Finish, Sched
<1>4. ASSUME NEW c \in CPU, Trap(c) \/ Acquire(c) \/ EnvPopTf(c) PROVE KernelInv'
  BY <1>4, EntryInv, EnvPopTfInv
<1>5. QED
  BY <1>1, <1>2, <1>3, <1>4 DEF Next, Monitor

----------------------------------------------------------------------------
(* The theorems *)

\* In every execution, for any number of CPUs and environments, the inductive
\* invariant holds.
THEOREM KernelInvariant ==
    ASSUME Careless \subseteq {"ipc_send"} PROVE Spec => []KernelInv
<1>1. KernelInv /\ [Next]_vars => KernelInv'
  BY KernelInvStep
<1>2. QED
  BY <1>1, KernelInvInit, PTL DEF Spec

\* No environment is ever current on two CPUs (sched.c:26-27, and what
\* user/stresssched.c tests for).
THEOREM NeverOnTwoCpus ==
    ASSUME Careless \subseteq {"ipc_send"} PROVE Spec => []AtMostOneCpu
<1>1. KernelInv => AtMostOneCpu
  BY DEF KernelInv
<1>2. QED
  BY <1>1, KernelInvariant, PTL

\* User code only ever runs for a live environment.
THEOREM UserModeIsLive ==
    ASSUME Careless \subseteq {"ipc_send"} PROVE Spec => []UserModeEnvLive
<1>1. KernelInv => UserModeEnvLive
  BY DEF KernelInv, CpuInv, UserModeEnvLive
<1>2. QED
  BY <1>1, KernelInvariant, PTL

\* No CPU keeps a freed page directory in cr3 (env.c:426-430).
THEOREM LoadedPgdirIsLive ==
    ASSUME Careless \subseteq {"ipc_send"} PROVE Spec => []PgdirLive
<1>1. KernelInv => PgdirLive
  <2> SUFFICES ASSUME KernelInv, NEW c \in CPU, cr3[c] # NULL
               PROVE  \E s \in Slot : env_status[s] # "FREE" /\ env_id[s] = cr3[c]
    BY DEF PgdirLive
  <2>1. curenv[c] \in Slot /\ env_id[curenv[c]] = cr3[c]
    BY DEF KernelInv, TypeOK, CpuInv
  <2>2. pc[c] \in Outside \cup Waiting \cup Inside
    BY DEF KernelInv, TypeOK
  <2>3. env_status[curenv[c]] # "FREE"
    BY <2>1, <2>2 DEF KernelInv, CpuInv, Outside, Waiting, Inside
  <2>4. QED
    BY <2>1, <2>3
<1>2. QED
  BY <1>1, KernelInvariant, PTL

\* The free list and the FREE slots never disagree.
THEOREM FreeListIsExact ==
    ASSUME Careless \subseteq {"ipc_send"} PROVE Spec => []FreeListExact
<1>1. KernelInv => FreeListExact
  BY DEF KernelInv
<1>2. QED
  BY <1>1, KernelInvariant, PTL

\* What a step does to a zombie: nothing, unless it is the zombie's own trap.
LEMMA ZombieStep ==
    ASSUME Careless \subseteq {"ipc_send"}, KernelInv, [Next]_vars,
           NEW s \in Slot, env_status[s] = "DYING", env_status'[s] # "DYING"
    PROVE  /\ env_status'[s] = "FREE"
           /\ \E c \in CPU : kernel_lock = c /\ curenv[c] = s /\ curenv'[c] = NULL
<1>1. PICK c \in CPU :
         Trap(c) \/ Acquire(c) \/ Dispatch(c) \/ Finish(c) \/ EnvPopTf(c)
  BY DEF Next, Monitor, vars, envs
<1>2. CASE Trap(c) \/ Acquire(c) \/ EnvPopTf(c)
  BY <1>2 DEF Trap, Acquire, EnvPopTf, envs
<1>3. CASE GarbageCollect(c)
  BY <1>3 DEF KernelInv, TypeOK, LockOwner, Inside, GarbageCollect, EnvFree
<1>4. CASE Finish(c) /\ ~GarbageCollect(c)
  <2>1. ASSUME NEW e \in Slot, EnvRun(c, e), env_status[e] # "DYING" PROVE FALSE
    BY <2>1 DEF KernelInv, TypeOK, EnvRun
  <2>2. CASE SchedSwitch(c)
    BY <2>1, <2>2 DEF SchedSwitch, Runnable
  <2>3. CASE SchedResume(c) \/ ReturnToEnv(c)
    BY <2>1, <2>3 DEF SchedResume, ReturnToEnv, Resumable, KernelInv, TypeOK
  <2>4. QED
    BY <1>4, <2>2, <2>3 DEF Finish, Sched, SchedHalt, SchedMonitor, ReturnToSched, envs
<1>5. CASE Dispatch(c)
  <2>1. CASE \/ TimerIrq(c) \/ TimerWake(c) \/ SysYield(c) \/ Return(c)
             \/ Breakpoint(c) \/ KbdWake(c)
    BY <2>1 DEF TimerIrq, TimerWake, SysYield, Return, Breakpoint, KbdWake, envs
  <2>2. CASE Fault(c) \/ KbdIrq(c)
    BY <2>2 DEF Fault, KbdIrq, Handling, EnvDestroy, EnvFree, KernelInv, TypeOK
  <2>3. CASE DestroyCall(c)
    <3>1. PICK id \in Known : SysEnvDestroy(c, id) /\ Once(c, id)
      BY <2>3 DEF DestroyCall
    <3>2. QED
      BY <3>1 DEF SysEnvDestroy, Once, EnvDestroy, EnvMark, EnvFree, envs,
                  KernelInv, TypeOK
  <2>4. CASE SysExofork(c)
    <3>1. Head(env_free_list) \in Slot /\ env_status[Head(env_free_list)] = "FREE"
      BY <2>4, TailOfList DEF SysExofork, KernelInv, TypeOK, FreeListExact
    <3>2. QED
      BY <2>4, <3>1 DEF SysExofork, EnvAlloc, KernelInv, TypeOK
  <2>5. CASE SysIpcRecv(c)
    BY <2>5 DEF SysIpcRecv, Handling, KernelInv, TypeOK
  <2>6. CASE IpcSendCall(c)
    <3>1. PICK id \in Known : SysIpcTrySend(c, id)
      BY <2>6 DEF IpcSendCall, SysIpcTrySendWild, envs
    <3>2. QED
      BY <3>1, Envid2envLive DEF SysIpcTrySend, KernelInv, TypeOK, BlockedInRecv
  <2>7. CASE SetStatusCall(c)
    <3>1. PICK id \in Known, status \in {"RUNNABLE", "NOT_RUNNABLE"} :
               SysEnvSetStatus(c, id, status) /\ Parked(c, id)
      BY <2>7 DEF SetStatusCall
    <3>2. QED
      BY <3>1 DEF SysEnvSetStatus, Parked, Handling, KernelInv, TypeOK
  <2>8. QED
    BY <1>5, <2>1, <2>2, <2>3, <2>4, <2>5, <2>6, <2>7 DEF Dispatch
<1>6. QED
  BY <1>1, <1>2, <1>3, <1>4, <1>5

\* "A zombie environment will be freed the next time it traps to the kernel"
\* (env.c:478-479), and by nobody else, provided a child is destroyed once.
THEOREM ZombieIsFreedByOwner ==
    ASSUME Careless \subseteq {"ipc_send"} PROVE Spec => ZombieFreedByOwner
<1> DEFINE A == \A s \in Slot : env_status[s] = "DYING" /\ env_status'[s] # "DYING" =>
       /\ env_status'[s] = "FREE"
       /\ \E c \in CPU : kernel_lock = c /\ curenv[c] = s /\ curenv'[c] = NULL
<1>1. KernelInv /\ [Next]_vars => [A]_vars
  BY ZombieStep
<1>2. Spec => [][A]_vars
  BY <1>1, KernelInvariant, PTL DEF Spec
<1>3. QED
  BY <1>2 DEF ZombieFreedByOwner

\* Seen through the lock alone, each step of the kernel is a step of the abstract
\* mutex of KernelMutex or does not touch the lock.
LEMMA LockStep ==
    ASSUME Careless \subseteq {"ipc_send"}, KernelInv, [Next]_vars
    PROVE  [Mutex!Next]_([c \in CPU |-> Mode(c)])
<1> DEFINE m == [c \in CPU |-> Mode(c)]
<1> USE DEF Mode, Inside, Waiting
<1>1. CASE UNCHANGED vars
  BY <1>1 DEF vars
<1>2. ASSUME NEW c \in CPU, Trap(c) PROVE Mutex!Request(c) \/ UNCHANGED m
  <2>0. CASE panicstr
    BY <1>2, <2>0 DEF KernelInv, TypeOK, Trap, Goto
  <2> SUFFICES ASSUME ~panicstr PROVE Mutex!Request(c)
    BY <2>0
  <2>1. /\ pc[c] \in {"user", "halt"}
        /\ pc' = [pc EXCEPT ![c] = IF pc[c] = "user" THEN "trap_user" ELSE "trap_halt"]
    BY <1>2 DEF KernelInv, TypeOK, CpuInv, OrderlyPanic, Trap, Goto
  <2>2. QED
    BY <2>1 DEF KernelInv, TypeOK, Mutex!Request
<1>3. ASSUME NEW c \in CPU, Acquire(c) PROVE Mutex!Enter(c)
  BY ZenonT(60), <1>3 DEF KernelInv, TypeOK, LockOwner, Acquire, Goto, Mutex!Enter
<1>4. ASSUME NEW c \in CPU, EnvPopTf(c) PROVE UNCHANGED m
  BY <1>4 DEF KernelInv, TypeOK, EnvPopTf, Goto
<1>5. ASSUME NEW c \in CPU, pc[c] \in {"sched", "ret"},
             pc' \in {[pc EXCEPT ![c] = "pop"], [pc EXCEPT ![c] = "halt"]}
      PROVE  Mutex!Leave(c)
  BY ZenonT(60), <1>5 DEF KernelInv, TypeOK, Mutex!Leave
<1>6. ASSUME NEW c \in CPU, pc[c] \in Inside, NEW there \in Inside,
             pc' = [pc EXCEPT ![c] = there]
      PROVE  UNCHANGED m
  BY <1>6 DEF KernelInv, TypeOK
<1>7. ASSUME NEW c \in CPU, SchedSwitch(c) \/ SchedResume(c) \/ ReturnToEnv(c) \/ SchedHalt(c)
      PROVE  Mutex!Leave(c)
  BY <1>5, <1>7
  DEF SchedSwitch, SchedResume, ReturnToEnv, SchedHalt, NothingToRun, EnvRun, Goto
<1>8. ASSUME NEW c \in CPU, SchedMonitor(c) \/ GarbageCollect(c) \/ ReturnToSched(c)
      PROVE  UNCHANGED m
  BY <1>6, <1>8 DEF SchedMonitor, NothingToRun, GarbageCollect, ReturnToSched, Goto
<1>9. ASSUME NEW c \in CPU, Dispatch(c) PROVE UNCHANGED m
  <2>1. pc[c] \in Inside
    BY <1>9 DEF Dispatch, TimerIrq, TimerWake, KbdIrq, KbdWake, SysYield, Fault,
                Return, Breakpoint, DestroyCall, SysEnvDestroy, SysExofork,
                SetStatusCall, SysEnvSetStatus, SysIpcRecv, IpcSendCall,
                SysIpcTrySend, SysIpcTrySendWild, Handling
  <2>2. PICK there \in {"ret", "sched", "brkpt", "panic"} : pc' = [pc EXCEPT ![c] = there]
    BY <1>9 DEF Dispatch, TimerIrq, TimerWake, KbdIrq, KbdWake, SysYield, Fault,
                Return, Breakpoint, DestroyCall, SysEnvDestroy, SysExofork,
                SetStatusCall, SysEnvSetStatus, SysIpcRecv, IpcSendCall,
                SysIpcTrySend, SysIpcTrySendWild, EnvDestroy, Goto
  <2>3. QED
    BY <1>6, <2>1, <2>2
<1>10. QED
  BY <1>1, <1>2, <1>3, <1>4, <1>7, <1>8, <1>9
  DEF Next, Finish, Sched, Monitor, Mutex!Next

\* Along every path through trap(), the scheduler and mp_main, lock_kernel and
\* unlock_kernel are paired as the mutex requires.
THEOREM LockIsPaired ==
    ASSUME Careless \subseteq {"ipc_send"} PROVE Spec => LockPaired
<1>1. KernelInv /\ [Next]_vars => [Mutex!Next]_([c \in CPU |-> Mode(c)])
  BY LockStep
<1>2. QED
  BY <1>1, KernelInvariant, PTL DEF Spec, LockPaired

\* An environment marked RUNNING or DYING is on some CPU, which will look after it.
THEOREM NoEnvIsLost ==
    ASSUME Careless \subseteq {"ipc_send"} PROVE Spec => []NoLostEnv
<1>1. KernelInv => NoLostEnv
  BY DEF KernelInv
<1>2. QED
  BY <1>1, KernelInvariant, PTL

\* The scheduler gives up (sched.c:64-76) only when no CPU has an environment left.
THEOREM MonitorIsLastResort ==
    ASSUME Careless \subseteq {"ipc_send"} PROVE Spec => []MonitorOnlyWhenIdle
<1>1. KernelInv => MonitorOnlyWhenIdle
  BY DEF KernelInv
<1>2. QED
  BY <1>1, KernelInvariant, PTL

\* env_cpunum, written without the lock, is right whenever user code can read it.
THEOREM CpunumIsRight ==
    ASSUME Careless \subseteq {"ipc_send"} PROVE Spec => []EnvCpunumRight
<1>1. KernelInv => EnvCpunumRight
  BY DEF KernelInv
<1>2. QED
  BY <1>1, KernelInvariant, PTL

\* An environment blocked in sys_ipc_recv is never on the run queue.
THEOREM ReceiverIsBlocked ==
    ASSUME Careless \subseteq {"ipc_send"} PROVE Spec => []BlockedInRecv
<1>1. KernelInv => BlockedInRecv
  BY DEF KernelInv
<1>2. QED
  BY <1>1, KernelInvariant, PTL

\* No panic comes from a mispaired lock: who panics holds the kernel.
THEOREM PanicIsOrderly ==
    ASSUME Careless \subseteq {"ipc_send"} PROVE Spec => []OrderlyPanic
<1>1. KernelInv => OrderlyPanic
  BY DEF KernelInv
<1>2. QED
  BY <1>1, KernelInvariant, PTL

\* What a step can do after a panic: the panicking CPU is in the monitor with the
\* lock, so every other CPU is outside the kernel or waits for it.
LEMMA PanicStep ==
    ASSUME KernelInv, [Next]_vars, panicstr
    PROVE  UNCHANGED <<env_status, env_id, env_parent_id, env_ipc_recving,
                       env_free_list, curenv, cr3>>
<1>1. PICK p \in CPU : pc[p] = "panic" /\ kernel_lock = p
  BY DEF KernelInv, OrderlyPanic
<1>2. \A c \in CPU : pc[c] \notin {"trap", "ktrap", "ret", "sched"}
  BY <1>1 DEF KernelInv, LockOwner, Inside
<1>3. ASSUME NEW c \in CPU PROVE ~Dispatch(c)
  BY <1>2 DEF Dispatch, TimerIrq, TimerWake, KbdIrq, KbdWake, SysYield, Fault,
              Return, Breakpoint, DestroyCall, SysEnvDestroy, SysExofork,
              SetStatusCall, SysEnvSetStatus, SysIpcRecv, IpcSendCall,
              SysIpcTrySend, SysIpcTrySendWild, Handling
<1>4. ASSUME NEW c \in CPU PROVE ~Finish(c)
  BY <1>2 DEF Finish, Sched, GarbageCollect, ReturnToEnv, ReturnToSched,
              SchedSwitch, SchedResume, SchedHalt, SchedMonitor, NothingToRun
<1>5. ASSUME NEW c \in CPU, Trap(c) \/ Acquire(c) \/ EnvPopTf(c) \/ Monitor(c)
      PROVE  UNCHANGED <<env_status, env_id, env_parent_id, env_ipc_recving,
                         env_free_list, curenv, cr3>>
  BY <1>5 DEF Trap, Acquire, EnvPopTf, Monitor, vars, envs, cpus
<1>6. QED
  BY <1>3, <1>4, <1>5 DEF Next, vars, envs, cpus

\* After a panic the environments stay as they were (init.c:133-155).
THEOREM PanicIsFinal ==
    ASSUME Careless \subseteq {"ipc_send"} PROVE Spec => PanicFreezes
<1> DEFINE A == panicstr => UNCHANGED <<env_status, env_id, env_parent_id,
                                env_ipc_recving, env_free_list, curenv, cr3>>
<1>1. KernelInv /\ [Next]_vars => [A]_vars
  BY PanicStep
<1>2. Spec => [][A]_vars
  BY <1>1, KernelInvariant, PTL DEF Spec
<1>3. QED
  BY <1>2 DEF PanicFreezes

\* Only sys_exofork gives a slot a new id, and it takes the slot from the free
\* list: no CPU has it current, hence none has its directory loaded.
LEMMA SlotStep ==
    ASSUME KernelInv, [Next]_vars, NEW s \in Slot, env_id'[s] # env_id[s]
    PROVE  /\ ~env_ipc_recving'[s]
           /\ \A c \in CPU : curenv[c] # s /\ cr3[c] \notin {env_id[s], env_id'[s]}
<1>1. PICK c \in CPU : SysExofork(c)
  <2>1. PICK c \in CPU :
           Trap(c) \/ Acquire(c) \/ Dispatch(c) \/ Finish(c) \/ EnvPopTf(c)
    BY DEF Next, Monitor, vars, envs
  <2>2. ~(Trap(c) \/ Acquire(c) \/ EnvPopTf(c))
    BY DEF Trap, Acquire, EnvPopTf, envs
  <2>3. ~Finish(c)
    BY DEF Finish, Sched, GarbageCollect, EnvFree, ReturnToEnv, ReturnToSched,
           SchedSwitch, SchedResume, SchedHalt, SchedMonitor, EnvRun, envs
  <2>4. ~(TimerIrq(c) \/ TimerWake(c) \/ SysYield(c) \/ Return(c)
             \/ Breakpoint(c) \/ KbdWake(c))
    BY DEF TimerIrq, TimerWake, SysYield, Return, Breakpoint, KbdWake, envs
  <2>5. ~(Fault(c) \/ KbdIrq(c) \/ DestroyCall(c))
    BY DEF Fault, KbdIrq, DestroyCall, SysEnvDestroy, EnvDestroy, EnvMark, EnvFree, envs
  <2>6. ~(SysIpcRecv(c) \/ IpcSendCall(c) \/ SetStatusCall(c))
    BY DEF SysIpcRecv, IpcSendCall, SysIpcTrySend, SysIpcTrySendWild,
           SetStatusCall, SysEnvSetStatus, envs
  <2>7. QED
    BY <2>1, <2>2, <2>3, <2>4, <2>5, <2>6 DEF Dispatch
<1>2. PICK e \in Slot : /\ env_status[e] = "FREE"
                        /\ EnvAlloc(e, env_id[curenv[c]])
  BY <1>1, TailOfList DEF SysExofork, KernelInv, TypeOK, FreeListExact
<1>3. /\ s = e
      /\ env_id'[s] = NextEnvId(s) /\ ~env_ipc_recving'[s]
      /\ env_status[s] = "FREE"
  BY <1>2 DEF EnvAlloc, KernelInv, TypeOK
<1>4. ASSUME NEW d \in CPU
      PROVE  curenv[d] # s /\ cr3[d] \notin {env_id[s], env_id'[s]}
  <2>1. pc[d] \in Outside \cup Waiting \cup Inside /\ CpuInv(d)
    BY DEF KernelInv, TypeOK
  <2>2. curenv[d] # s
    BY <1>3, <2>1, ConstantsAssumption DEF CpuInv, Outside, Waiting, Inside
  <2>3. CASE curenv[d] = NULL
    <3>1. cr3[d] = NULL
      BY <2>1, <2>3 DEF CpuInv
    <3>2. env_id[s] # NULL
      BY ConstantsAssumption DEF KernelInv, TypeOK
    <3>3. env_id'[s] # NULL
      <4>1. NextEnvId(s) \in EnvId
        BY ConstantsAssumption DEF NextEnvId, KernelInv, TypeOK, EnvId
      <4>2. QED
        BY <1>3, <4>1, ConstantsAssumption
    <3>4. QED
      BY <2>2, <3>1, <3>2, <3>3
  <2>4. CASE curenv[d] # NULL
    <3>1. PICK t \in Slot : t = curenv[d] /\ t # s
      BY <2>2, <2>4 DEF KernelInv, TypeOK
    <3>2. cr3[d] = env_id[t] /\ env_status[t] # "FREE"
      BY <2>1, <2>4, <3>1 DEF CpuInv, Outside, Waiting, Inside
    <3>3. env_id[t][1] > 0 /\ env_id[t][2] = t
      BY <3>2 DEF KernelInv, IdsIndexSlots, ENVX
    <3>4. env_id[s][1] = 0 \/ env_id[s][2] = s
      BY DEF KernelInv, IdsIndexSlots, ENVX, Self
    <3>5. env_id'[s][2] = s
      BY <1>3 DEF NextEnvId
    <3>6. QED
      BY <2>2, <3>1, <3>2, <3>3, <3>4, <3>5
  <2>5. QED
    BY <2>3, <2>4
<1>5. QED
  BY <1>3, <1>4

\* A slot gets a new id only when no CPU has its old environment current or its
\* address space loaded, and never with a receiver's flag left set
\* (env.c:256-276).
THEOREM SlotIsReusedWhenIdle ==
    ASSUME Careless \subseteq {"ipc_send"} PROVE Spec => SlotReusedWhenIdle
<1> DEFINE A == \A s \in Slot : env_id'[s] # env_id[s] =>
       /\ ~env_ipc_recving'[s]
       /\ \A c \in CPU : curenv[c] # s /\ cr3[c] \notin {env_id[s], env_id'[s]}
<1>1. KernelInv /\ [Next]_vars => [A]_vars
  BY SlotStep
<1>2. Spec => [][A]_vars
  BY <1>1, KernelInvariant, PTL DEF Spec
<1>3. QED
  BY <1>2 DEF SlotReusedWhenIdle
============================================================================
