--------------------------- MODULE AddressSpaces ---------------------------
(***************************************************************************)
(* What fork() promises a program (lib/fork.c:88-96), with no mention of   *)
(* physical pages, copy-on-write or page faults: every environment has a   *)
(* memory of its own, which only it changes.  A child inherits each page   *)
(* from its parent as the page was at one moment of the fork, and runs     *)
(* only once it has all the pages its parent can write.                    *)
(***************************************************************************)
CONSTANTS
    Env, Root,      \* the environments; the one that i386_init creates
    Private,        \* the pages a child gets a copy of
    Writable,       \* those of them that programs write
    Value,
    Undef           \* a page that an environment does not have

VARIABLES
    mem,            \* mem[e][v] is what e reads in its page v
    shared,         \* what everyone reads in the pages marked PTE_SHARE
    up              \* the environments that may run

Nothing == [v \in Private |-> Undef]

Init ==
    /\ mem \in {[e \in Env |-> IF e = Root THEN f ELSE Nothing] : f \in [Private -> Value]}
    /\ shared \in Value
    /\ up = {Root}

\* No page changes but those in S, a set of pairs of an environment and a page.
Only(S) == \A e \in Env, v \in Private : <<e, v>> \notin S => mem'[e][v] = mem[e][v]

Write(e, v) ==
    /\ e \in up /\ mem[e][v] # Undef /\ mem'[e][v] \in Value
    /\ Only({<<e, v>>})
    /\ UNCHANGED <<shared, up>>

\* Everyone who has the shared page sees the store.
WriteShared(e) == e \in up /\ shared' \in Value /\ Only({}) /\ UNCHANGED up

Inherit(parent, child, v) ==
    /\ parent \in up /\ child \notin up
    /\ mem[child][v] = Undef /\ mem[parent][v] # Undef
    /\ mem'[child][v] = mem[parent][v]
    /\ Only({<<child, v>>})
    /\ UNCHANGED <<shared, up>>

Start(child) ==
    /\ child \notin up
    /\ \A v \in Writable : mem[child][v] # Undef
    /\ up' = up \cup {child}
    /\ Only({}) /\ UNCHANGED shared

\* An environment is destroyed, and with it the child it was building, if any.
\* The shared page goes with the last environment that has it.
Die(e, unborn) ==
    /\ e \in up /\ unborn \subseteq Env \ up
    /\ up' = up \ {e}
    /\ \A f \in {e} \cup unborn, v \in Private : mem'[f][v] = Undef
    /\ Only(({e} \cup unborn) \X Private)
    /\ shared' \in {shared, Undef}

Next ==
    \/ \E e \in Env : WriteShared(e) \/ \E v \in Writable : Write(e, v)
    \/ \E parent, child \in Env, v \in Private : Inherit(parent, child, v)
    \/ \E e \in Env : Start(e) \/ \E unborn \in SUBSET (Env \ up) : Die(e, unborn)

Spec == Init /\ [][Next]_<<mem, shared, up>>
=============================================================================
