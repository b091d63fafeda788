---------------------------- MODULE KernelMutex ----------------------------
(***************************************************************************)
(* What the big kernel lock promises the rest of the kernel               *)
(* (kern/spinlock.h, lock_kernel and unlock_kernel): at most one CPU is    *)
(* between the return of lock_kernel and the call of unlock_kernel, and    *)
(* while some CPU waits and nobody is inside, somebody gets in.            *)
(***************************************************************************)
CONSTANT CPU

VARIABLE mode       \* what each CPU is doing with the lock

TypeOK == mode \in [CPU -> {"out", "waiting", "in"}]

Init == mode = [c \in CPU |-> "out"]

\* The call of lock_kernel().
Request(c) == /\ mode[c] = "out"
              /\ mode' = [mode EXCEPT ![c] = "waiting"]

\* The instant at which the lock is granted.
Enter(c) == /\ mode[c] = "waiting"
            /\ \A d \in CPU : mode[d] # "in"
            /\ mode' = [mode EXCEPT ![c] = "in"]

\* The instant at which unlock_kernel() lets the lock go.
Leave(c) == /\ mode[c] = "in"
            /\ mode' = [mode EXCEPT ![c] = "out"]

EnterSome == \E c \in CPU : Enter(c)

Next == \E c \in CPU : Request(c) \/ Enter(c) \/ Leave(c)

SafetySpec == Init /\ [][Next]_mode

\* The lock is unfair: only "somebody gets in" is promised, never "c gets in".
Spec == SafetySpec /\ WF_mode(EnterSome) /\ \A c \in CPU : WF_mode(Leave(c))
=============================================================================
