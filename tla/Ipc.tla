-------------------------------- MODULE Ipc --------------------------------
(***************************************************************************)
(* Messages between environments: sys_ipc_try_send and sys_ipc_recv of     *)
(* kern/syscall.c, and the library around them, lib/ipc.c, which polls to  *)
(* send and reads a received message out of its Env structure field by     *)
(* field.  A system call is one step, under the kernel lock; environments  *)
(* interleave between their steps and may be destroyed at any of them.     *)
(* An envid names one environment for good (the reuse of slots is in       *)
(* Kernel), and page tables hold just the addresses the programs use.      *)
(***************************************************************************)
EXTENDS Naturals

CONSTANTS
    Env, Value,
    Writers,        \* the programs that may write the page they begin with
    Hub,            \* the program that the others talk to
    Takers,         \* the programs that may ask for a page
    Asked,          \* the values of perm that programs send pages with
    None            \* no page: an address at or above UTOP, (void *) -1

ASSUME IpcAssumption == 
    /\ None \notin Env /\ Writers \subseteq Env /\ Hub \in Env /\ Takers \subseteq Env
    /\ Value \subseteq Nat /\ Asked \subseteq SUBSET {"U", "W", "stray"}
    /\ None \notin {"own", "in"}

VA == {"own", "in"}             \* where a program keeps its page, and receives one
\* perm is 32 bits that the sender chooses, and is stored as it is.  Of PTE_SYSCALL only
\* the rights are kept here; "stray" stands for what inc/mmu.h:72-73 does not allow in
\* system calls, the bits 3 to 8 and those of the page's address.
PTE_SYSCALL == {"U", "W"}
Perms == SUBSET (PTE_SYSCALL \cup {"stray"})
\* The page that e has at "own" in the beginning is called e.
Entry == [pg : Env, perm : Perms]
Message == [to : Env, value : Value, srcva : VA \cup {None}, perm : Asked \cup {{}}]

ASSUME NoneAssumption == None \notin Entry /\ None \notin Message

VARIABLES
    status,                     \* env_status; FREE is for ever here
    ipc,                        \* the env_ipc_ fields of each Env
    pt,
    pc, msg,                    \* where the program is, what it sends
    got,                        \* the from and perm that ipc_recv has read so far
    halted                      \* the kernel has panicked, or sits in the monitor
                                \* after the int3 of a program's panic()

vars == <<status, ipc, pt, pc, msg, got, halted>>

Fields == [recving : BOOLEAN, dstva : VA \cup {None}, value : Value \cup {0},
           from : Env \cup {None}, perm : Perms]
Idle == [recving |-> FALSE, dstva |-> None, value |-> 0, from |-> None, perm |-> {}]

TypeOK ==
    /\ status \in [Env -> {"FREE", "RUNNABLE", "NOT_RUNNABLE"}]
    /\ ipc \in [Env -> Fields]
    /\ pt \in [Env -> [VA -> Entry \cup {None}]]
    /\ pc \in [Env -> {"user", "send", "recv", "perm", "value"}]
    /\ msg \in [Env -> Message \cup {None}]
    /\ got \in [Env -> [from : Env \cup {None}, perm : Perms]]
    /\ halted \in BOOLEAN

Init ==
    /\ status = [e \in Env |-> "RUNNABLE"]
    /\ ipc = [e \in Env |-> Idle]
    /\ pt = [e \in Env |-> [v \in VA |->
               IF v = "in" THEN None
               ELSE [pg |-> e, perm |-> IF e \in Writers THEN {"U", "W"} ELSE {"U"}]]]
    /\ pc = [e \in Env |-> "user"] /\ msg = [e \in Env |-> None]
    /\ got = [e \in Env |-> [from |-> None, perm |-> {}]]
    /\ halted = FALSE

At(e, label) == ~halted /\ status[e] = "RUNNABLE" /\ pc[e] = label
Goto(e, label) == pc' = [pc EXCEPT ![e] = label]

----------------------------------------------------------------------------
(* Receiving *)

\* ipc_recv up to sys_ipc_recv, which blocks the caller.
SysIpcRecv(e) ==
    /\ At(e, "user")
    /\ \E dstva \in {None} \cup IF e \in Takers THEN {"in"} ELSE {} :
          ipc' = [ipc EXCEPT ![e] = [Idle EXCEPT !.recving = TRUE, !.dstva = dstva]]
    /\ status' = [status EXCEPT ![e] = "NOT_RUNNABLE"]
    /\ Goto(e, "recv")
    /\ UNCHANGED <<pt, msg, got, halted>>

\* The rest of ipc_recv: three loads from this environment's Env structure.
RecvFrom(e) ==
    /\ At(e, "recv")
    /\ got' = [got EXCEPT ![e].from = ipc[e].from]
    /\ Goto(e, "perm")
    /\ UNCHANGED <<status, ipc, pt, msg, halted>>

RecvPerm(e) ==
    /\ At(e, "perm")
    /\ got' = [got EXCEPT ![e].perm = ipc[e].perm]
    /\ Goto(e, "value")
    /\ UNCHANGED <<status, ipc, pt, msg, halted>>

\* Here ipc_recv returns env_ipc_value.  (The fields that the next sys_ipc_recv
\* clears before anyone reads them again are cleared now.)
RecvValue(e) ==
    /\ At(e, "value")
    /\ got' = [got EXCEPT ![e] = [from |-> None, perm |-> {}]]
    /\ ipc' = [ipc EXCEPT ![e] = Idle]
    /\ Goto(e, "user")
    /\ UNCHANGED <<status, pt, msg, halted>>

----------------------------------------------------------------------------
(* Sending *)

IpcSend(e) ==
    /\ At(e, "user")
    /\ \E m \in Message : /\ m.to # e /\ Hub \in {e, m.to}
                          /\ m.perm \in IF m.srcva = None THEN {{}} ELSE Asked
                          /\ msg' = [msg EXCEPT ![e] = m]
    /\ Goto(e, "send")
    /\ UNCHANGED <<status, ipc, pt, got, halted>>

\* Mutant of Waiting: only a receiver that asks for a page is taken to wait.
WaitingForPage(r) == ipc[r].recving /\ ipc[r].dstva # None

Waiting(r) == ipc[r].recving

\* Mutant of PermOk: the bits of perm are not compared with the entry's.
PermOkAny(entry, perm) == TRUE

\* syscall.c:346 and 354: only the bits of PTE_SYSCALL are looked at.
PermOk(entry, perm) == perm \cap PTE_SYSCALL \subseteq entry.perm

\* The page that page2pa(pp) | perm is the address of.  Bits above the flags change it
\* into any other whose number has these bits too, or leave it, if it has them itself;
\* stray flags leave it.  (That there is no page at the address, which panics the
\* kernel when the entry is next looked up, is left out.)
PagesAt(pg, perm) == IF "stray" \in perm THEN Env ELSE {pg}

\* Mutant of Deliver: the receiver is not marked.
DeliverTwice(e, r, perm) ==
    /\ ipc' = [ipc EXCEPT ![r].from = e, ![r].value = msg[e].value, ![r].perm = perm]
    /\ status' = [status EXCEPT ![r] = "RUNNABLE"]
    /\ Goto(e, "user") /\ msg' = [msg EXCEPT ![e] = None]
    /\ UNCHANGED <<got, halted>>

\* The message is in the receiver's Env structure, and the sender returns.
Deliver(e, r, perm) ==
    /\ ipc' = [ipc EXCEPT ![r].recving = FALSE, ![r].from = e,
                          ![r].value = msg[e].value, ![r].perm = perm]
    /\ status' = [status EXCEPT ![r] = "RUNNABLE"]
    /\ Goto(e, "user") /\ msg' = [msg EXCEPT ![e] = None]
    /\ UNCHANGED <<got, halted>>

\* With no page to send, or none asked for, only the value goes.
SendValue(e) ==
    LET r == msg[e].to
        src == IF msg[e].srcva = None THEN None ELSE pt[e][msg[e].srcva]
    IN  /\ At(e, "send") /\ status[r] # "FREE" /\ Waiting(r)
        /\ msg[e].srcva # None => /\ src # None /\ PermOk(src, msg[e].perm)
                                  /\ ipc[r].dstva = None
        /\ Deliver(e, r, ipc[r].perm)
        /\ UNCHANGED pt

\* Mutant of SendPage: perm is set though the page is not mapped.
SendPageUnmapped(e) ==
    LET r == msg[e].to
    IN  /\ At(e, "send") /\ status[r] # "FREE" /\ Waiting(r)
        /\ msg[e].srcva # None /\ ipc[r].dstva # None
        /\ pt[e][msg[e].srcva] # None /\ PermOk(pt[e][msg[e].srcva], msg[e].perm)
        /\ Deliver(e, r, msg[e].perm)
        /\ UNCHANGED pt

\* page_insert replaces what the receiver had at dstva.
SendPage(e) ==
    LET r == msg[e].to
    IN  /\ At(e, "send") /\ status[r] # "FREE" /\ Waiting(r)
        /\ msg[e].srcva # None /\ ipc[r].dstva # None
        /\ LET src == pt[e][msg[e].srcva]
           IN  /\ src # None /\ PermOk(src, msg[e].perm)
               /\ \E pg \in PagesAt(src.pg, msg[e].perm) :
                     pt' = [pt EXCEPT ![r][ipc[r].dstva] = [pg |-> pg, perm |-> msg[e].perm]]
        /\ Deliver(e, r, msg[e].perm)

\* Mutant of SendFails: recving is cleared before the page is looked at.
SendFailsLate(e) ==
    LET r == msg[e].to
        v == msg[e].srcva
    IN  /\ At(e, "send") /\ status[r] # "FREE" /\ Waiting(r) /\ v # None
        /\ pt[e][v] = None
        /\ halted' = TRUE
        /\ ipc' = [ipc EXCEPT ![r].recving = FALSE]
        /\ UNCHANGED <<status, pt, pc, msg, got>>

\* -E_BAD_ENV, -E_INVAL and -E_NO_MEM (a page table may be missing for a dstva
\* that has no mapping): ipc_send panics.  For a page that is not mapped, the kernel
\* reads *pte through a pointer that page_lookup did not set, and either faults
\* there and panics or returns -E_INVAL; the machine stops all the same.
\* -E_IPC_NOT_RECV changes nothing: ipc_send yields and tries again.
SendFails(e) ==
    LET r == msg[e].to
        v == msg[e].srcva
    IN  /\ At(e, "send")
        /\ status[r] # "FREE" =>
              /\ Waiting(r) /\ v # None
              /\ pt[e][v] # None /\ PermOk(pt[e][v], msg[e].perm) =>
                    ipc[r].dstva # None /\ pt[r][ipc[r].dstva] = None
        /\ halted' = TRUE
        /\ UNCHANGED <<status, ipc, pt, pc, msg, got>>

\* exit(), or a parent's sys_env_destroy, at any moment.
EnvDestroy(e) ==
    /\ ~halted /\ status[e] # "FREE"
    /\ status' = [status EXCEPT ![e] = "FREE"]
    /\ pt' = [pt EXCEPT ![e] = [v \in VA |-> None]]
    /\ Goto(e, "user") /\ msg' = [msg EXCEPT ![e] = None]
    /\ ipc' = [ipc EXCEPT ![e] = Idle]
    /\ got' = [got EXCEPT ![e] = [from |-> None, perm |-> {}]]
    /\ UNCHANGED halted

LibraryStep(e) ==
    \/ RecvFrom(e) \/ RecvPerm(e) \/ RecvValue(e)
    \/ SendValue(e) \/ SendPage(e) \/ SendFails(e)

Next == \E e \in Env : IpcSend(e) \/ SysIpcRecv(e) \/ LibraryStep(e) \/ EnvDestroy(e)

Spec == Init /\ [][Next]_vars

\* The scheduler runs every runnable environment again and again (RunnableRuns of
\* Kernel), so that one in the library takes its next step, or tries again.
FairSpec == Spec /\ \A e \in Env : WF_vars(LibraryStep(e))

----------------------------------------------------------------------------
(* Properties *)

\* What ipc_recv would return, put together from what it has read and what it has
\* still to read.
Received(e) ==
    [state |-> "full", value |-> ipc[e].value,
     from |-> IF pc[e] = "recv" THEN ipc[e].from ELSE got[e].from]

Boxes == INSTANCE Mailboxes WITH
    sending <- msg,
    box <- [e \in Env |->
              IF status[e] = "RUNNABLE" /\ pc[e] \in {"recv", "perm", "value"}
              THEN Received(e)
              ELSE [state |-> IF status[e] = "NOT_RUNNABLE" THEN "open" ELSE "closed",
                    from |-> None, value |-> None]]

\* "Keeps trying until it succeeds" (ipc.c:49) and the unlocked loads of ipc_recv:
\* every ipc_send that returns has passed its message, once, to the environment
\* it names, and ipc_recv returns the sender and the value of one message, though
\* others may be sending to the same environment between any two of its loads.
DeliversOnce == Boxes!Spec

\* perm_store is "nonzero iff a page was successfully transferred" (ipc.c:11-12),
\* as far as a page sent with rights goes: when ipc_recv has read perm, "in" is
\* mapped with exactly these rights.
PermTellsPage ==
    \A e \in Env : status[e] # "FREE" /\ pc[e] = "value" /\ got[e].perm # {} =>
       pt[e]["in"] # None /\ pt[e]["in"].perm = got[e].perm

\* How the status of an environment, the fields of its Env structure and its place
\* in the library go together: it is NOT_RUNNABLE just while it may be sent to, in
\* ipc_recv; the fields change only then, and rights are those of a mapped page.
FieldsAgree ==
    \A e \in Env :
       /\ ipc[e].recving <=> status[e] = "NOT_RUNNABLE"
       /\ ipc[e].recving => pc[e] = "recv" /\ ipc[e].from = None /\ ipc[e].perm = {}
       /\ pc[e] \in {"user", "send"} => ipc[e] = Idle
       /\ status[e] = "FREE" => pc[e] = "user"
       /\ pc[e] = "send" <=> msg[e] # None
       /\ msg[e] # None => msg[e].to # e
       /\ ipc[e].dstva \in {None, "in"}
       /\ pc[e] \in {"perm", "value"} => got[e].from = ipc[e].from
       /\ pc[e] = "value" => got[e].perm = ipc[e].perm
       /\ ipc[e].perm # {} => pt[e]["in"] # None /\ pt[e]["in"].perm = ipc[e].perm

\* What ipc_recv reports of a page, from loads that it makes without the lock after
\* the system call, is true of its address space.
IpcInv == TypeOK /\ FieldsAgree /\ PermTellsPage

\* "Receiver gets a duplicate mapping of the same page" (syscall.c:289), with no rights
\* that the sender's mapping does not have (346, 354): a page that its owner may not
\* write is written by nobody, however often it is forwarded.  This is so as long as
\* perm has no bits outside PTE_SYSCALL, which the code does not refuse, though
\* "others may not" be used (inc/mmu.h:72); with these only the rights stay within
\* those of the sender's mapping, and the page may be another.
NoRightGained ==
    [][\A e \in Env : pt'[e]["in"] # pt[e]["in"] /\ pt'[e]["in"] # None =>
          LET s == ipc'[e].from
              src == pt[s][msg[s].srcva]
          IN  /\ src # None /\ pt'[e]["in"].perm \cap PTE_SYSCALL \subseteq src.perm
              /\ "stray" \notin pt'[e]["in"].perm => pt'[e]["in"].pg = src.pg]_vars

\* "The ipc only happens when no errors occur" (syscall.c:308): an environment that
\* waits keeps waiting, and its page tables stay, unless it gets a message.
FailedSendHarmless ==
    [][\A r \in Env : status[r] = "NOT_RUNNABLE" /\ status'[r] # "FREE" =>
          \/ ipc'[r].recving /\ UNCHANGED <<ipc[r], pt[r], status[r]>>
          \/ ipc'[r].from # None /\ msg[ipc'[r].from].to = r]_vars

SendsTo(s, r) == IF msg[s] = None THEN FALSE ELSE msg[s].to = r

\* An environment that waits for a message while another keeps sending to it is
\* served, or the sender is gone: no message slips past between the failed try,
\* the yield and the next try.
WaitingIsServed ==
    \A r, s \in Env :
       (status[r] = "NOT_RUNNABLE" /\ SendsTo(s, r))
       ~> (halted \/ status[r] # "NOT_RUNNABLE" \/ status[s] = "FREE")
=============================================================================
