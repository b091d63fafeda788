--------------------------- MODULE SpinlockProofs ---------------------------
(***************************************************************************)
(* TLAPS proofs about kern/spinlock.c, for any set of CPUs.                *)
(***************************************************************************)
EXTENDS Spinlock, TLAPS

\* The lock starts free, unrecorded, and with every CPU outside.
LEMMA LockInvInit == Init => LockInv
BY NullAssumption
DEF Init, LockInv, TypeOK, MutualExclusion, NoFalsePanic, Owning, Labels

\* Every access of spin_lock and spin_unlock preserves the invariant.  The two
\* loads of holding() are safe because lk->cpu = c can only be observed by c
\* itself, and c clears it before it lets the lock go.
LEMMA LockInvStep == LockInv /\ [Next]_vars => LockInv'
<1> SUFFICES ASSUME LockInv, [Next]_vars PROVE LockInv'
  OBVIOUS
<1> USE NullAssumption DEF LockInv, TypeOK, MutualExclusion, NoFalsePanic,
                           Owning, Labels, Goto
<1>1. ASSUME NEW c \in CPU, LockCall(c) PROVE LockInv'
  BY <1>1 DEF LockCall
<1>2. ASSUME NEW c \in CPU, SeeLocked(c) PROVE LockInv'
  BY <1>2 DEF SeeLocked
<1>3. ASSUME NEW c \in CPU, SeeCpu(c) PROVE LockInv'
  BY <1>3 DEF SeeCpu
<1>4. ASSUME NEW c \in CPU, Xchg(c) PROVE LockInv'
  BY <1>4 DEF Xchg
<1>5. ASSUME NEW c \in CPU, Record(c) PROVE LockInv'
  BY <1>5 DEF Record
<1>6. ASSUME NEW c \in CPU, UnlockCall(c) PROVE LockInv'
  BY <1>6 DEF UnlockCall
<1>7. ASSUME NEW c \in CPU, CheckLocked(c) PROVE LockInv'
  BY <1>7 DEF CheckLocked
<1>8. ASSUME NEW c \in CPU, CheckCpu(c) PROVE LockInv'
  BY <1>8 DEF CheckCpu
<1>9. ASSUME NEW c \in CPU, Forget(c) PROVE LockInv'
  BY <1>9 DEF Forget
<1>10. ASSUME NEW c \in CPU, Release(c) PROVE LockInv'
  BY <1>10 DEF Release
<1>11. CASE UNCHANGED vars
  BY <1>11 DEF vars
<1>12. QED
  BY <1>1, <1>2, <1>3, <1>4, <1>5, <1>6, <1>7, <1>8, <1>9, <1>10, <1>11
  DEF Next, LockStep, UnlockStep

\* In every execution the inductive invariant holds.
THEOREM LockInvariant == Spec => []LockInv
<1>1. QED
  BY LockInvInit, LockInvStep, PTL DEF Spec

\* No two CPUs hold the big kernel lock at once, for any number of CPUs.
THEOREM SpinlockMutualExclusion == Spec => []MutualExclusion
<1>1. LockInv => MutualExclusion
  BY DEF LockInv
<1>2. QED
  BY LockInvariant, <1>1, PTL

\* The debugging test holding() never panics a correctly paired caller.
THEOREM SpinlockNoFalsePanic == Spec => []NoFalsePanic
<1>1. LockInv => NoFalsePanic
  BY DEF LockInv
<1>2. QED
  BY LockInvariant, <1>1, PTL

----------------------------------------------------------------------------
(* Refinement *)

\* A step of the fine-grained lock is a step of the abstract mutex or leaves
\* every CPU's mode as it was.
LEMMA MutexStep == LockInv /\ [Next]_vars => [Mutex!Next]_([c \in CPU |-> Mode(c)])
<1> SUFFICES ASSUME LockInv, [Next]_vars
             PROVE  [Mutex!Next]_([c \in CPU |-> Mode(c)])
  OBVIOUS
<1> DEFINE m == [c \in CPU |-> Mode(c)]
<1> USE DEF LockInv, TypeOK, Owning, Labels, Goto, Mode
<1>1. ASSUME NEW c \in CPU, LockCall(c) PROVE Mutex!Request(c)
  BY <1>1 DEF LockCall, Mutex!Request
<1>2. ASSUME NEW c \in CPU, SeeLocked(c) PROVE UNCHANGED m
  BY <1>2 DEF SeeLocked
<1>3. ASSUME NEW c \in CPU, SeeCpu(c) PROVE UNCHANGED m
  <2>1. cpu # c
    BY <1>3 DEF SeeCpu
  <2>2. QED
    BY <1>3, <2>1 DEF SeeCpu
<1>4. ASSUME NEW c \in CPU, Xchg(c) PROVE Mutex!Enter(c)
  BY <1>4 DEF Xchg, Mutex!Enter
<1>5. ASSUME NEW c \in CPU, Record(c) PROVE UNCHANGED m
  BY <1>5 DEF Record
<1>6. ASSUME NEW c \in CPU, UnlockCall(c) PROVE UNCHANGED m
  BY <1>6 DEF UnlockCall
<1>7. ASSUME NEW c \in CPU, CheckLocked(c) PROVE UNCHANGED m
  BY <1>7 DEF CheckLocked
<1>8. ASSUME NEW c \in CPU, CheckCpu(c) PROVE UNCHANGED m
  BY <1>8 DEF CheckCpu
<1>9. ASSUME NEW c \in CPU, Forget(c) PROVE UNCHANGED m
  BY <1>9 DEF Forget
<1>10. ASSUME NEW c \in CPU, Release(c) PROVE Mutex!Leave(c)
  BY <1>10 DEF Release, Mutex!Leave
<1>11. CASE UNCHANGED vars
  BY <1>11 DEF vars
<1>12. QED
  BY <1>1, <1>2, <1>3, <1>4, <1>5, <1>6, <1>7, <1>8, <1>9, <1>10, <1>11
  DEF Next, LockStep, UnlockStep, Mutex!Next

\* The spinlock of kern/spinlock.c implements the safety part of the abstract
\* kernel mutex for any set of CPUs.
THEOREM SpinlockImplementsMutex == Spec => Mutex!SafetySpec
<1>1. Init => Mutex!Init
  BY DEF Init, Mutex!Init, Mode, Owning
<1>2. QED
  BY <1>1, LockInvariant, MutexStep, PTL DEF Spec, Mutex!SafetySpec
=============================================================================
