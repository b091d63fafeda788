----------------------------- MODULE IpcProofs -----------------------------
(***************************************************************************)
(* TLAPS proofs about IPC (module Ipc), for any set of environments, any   *)
(* values and rights, and any pattern of senders, receivers and deaths:    *)
(* what ipc_recv reports is true, a failed send disturbs nobody, rights    *)
(* never grow, and every message is delivered whole and once.              *)
(***************************************************************************)
EXTENDS Ipc, TLAPS

----------------------------------------------------------------------------
(* The invariant *)

LEMMA IpcInvInit == Init => IpcInv
<1> SUFFICES ASSUME Init PROVE IpcInv
  OBVIOUS
<1>1. TypeOK
  BY IpcAssumption DEF Init, TypeOK, Fields, Idle, Entry, Perms, PTE_SYSCALL, VA
<1>2. FieldsAgree
  BY DEF Init, FieldsAgree, Idle
<1>3. PermTellsPage
  BY DEF Init, PermTellsPage
<1> QED
  BY <1>1, <1>2, <1>3 DEF IpcInv

\* What FieldsAgree says implies what ipc_recv promises.
LEMMA PermFollows == FieldsAgree => PermTellsPage
  BY DEF FieldsAgree, PermTellsPage

\* Waiting in ipc_recv, and its three loads.
LEMMA RecvInv ==
    ASSUME IpcInv, NEW e \in Env,
           SysIpcRecv(e) \/ RecvFrom(e) \/ RecvPerm(e) \/ RecvValue(e)
    PROVE  IpcInv'
<1> USE DEF IpcInv, TypeOK, FieldsAgree, At, Goto
<1>1. CASE SysIpcRecv(e)
  <2>1. PICK dstva \in {None, "in"} :
           ipc' = [ipc EXCEPT ![e] = [Idle EXCEPT !.recving = TRUE, !.dstva = dstva]]
    BY ZenonT(60), <1>1 DEF SysIpcRecv
  <2>2. TypeOK'
    BY <1>1, <2>1 DEF SysIpcRecv, Fields, Idle, VA, Perms
  <2>3. FieldsAgree'
    <3>1. /\ ipc'[e].recving = TRUE /\ ipc'[e].from = None /\ ipc'[e].perm = {}
          /\ ipc'[e].dstva = dstva
      BY <2>1 DEF Idle
    <3>2. \A f \in Env : f # e => ipc'[f] = ipc[f]
      BY <2>1
    <3>3. /\ status' = [status EXCEPT ![e] = "NOT_RUNNABLE"] /\ pc' = [pc EXCEPT ![e] = "recv"]
          /\ pt' = pt /\ msg' = msg /\ got' = got /\ pc[e] = "user" /\ status[e] = "RUNNABLE"
      BY <1>1 DEF SysIpcRecv
    <3> HIDE DEF At, Goto
    <3>4. ASSUME NEW f \in Env, f # e
          PROVE  /\ ipc'[f] = ipc[f] /\ status'[f] = status[f] /\ pc'[f] = pc[f]
                 /\ pt'[f] = pt[f] /\ msg'[f] = msg[f] /\ got'[f] = got[f]
      BY <3>2, <3>3, <3>4
    <3>5. msg[e] = None /\ status'[e] = "NOT_RUNNABLE" /\ pc'[e] = "recv"
      BY <3>3
    <3> QED
      BY <3>1, <3>3, <3>4, <3>5
  <2> QED
    BY <2>2, <2>3, PermFollows, PTL
<1>2. CASE RecvFrom(e)
  <2>1. TypeOK'
    BY SMTT(60), <1>2 DEF RecvFrom, Fields
  <2>2. FieldsAgree'
    BY <1>2 DEF RecvFrom, Idle, Fields
  <2> QED
    BY <2>1, <2>2, PermFollows, PTL
<1>3. CASE RecvPerm(e)
  <2>1. TypeOK'
    BY <1>3 DEF RecvPerm, Fields
  <2>2. FieldsAgree'
    BY <1>3 DEF RecvPerm, Idle, Fields
  <2> QED
    BY <2>1, <2>2, PermFollows, PTL
<1>4. CASE RecvValue(e)
  <2>1. TypeOK'
    BY <1>4 DEF RecvValue, Fields, Idle, Perms
  <2>2. FieldsAgree'
    BY <1>4 DEF RecvValue, Idle, Fields
  <2> QED
    BY <2>1, <2>2, PermFollows, PTL
<1> QED
  BY <1>1, <1>2, <1>3, <1>4

\* ipc_send begins, gives up, or its caller is destroyed.
LEMMA OwnStepInv ==
    ASSUME IpcInv, NEW e \in Env, IpcSend(e) \/ SendFails(e) \/ EnvDestroy(e)
    PROVE  IpcInv'
<1> USE DEF IpcInv, TypeOK, FieldsAgree, At, Goto
<1>1. CASE IpcSend(e)
  <2>1. PICK m \in Message : m.to # e /\ msg' = [msg EXCEPT ![e] = m]
    BY <1>1 DEF IpcSend
  <2>2. TypeOK'
    BY <1>1, <2>1 DEF IpcSend
  <2>3. FieldsAgree'
    BY <1>1, <2>1, NoneAssumption DEF IpcSend
  <2> QED
    BY <2>2, <2>3, PermFollows, PTL
<1>2. CASE SendFails(e)
  <2>1. TypeOK' /\ FieldsAgree'
    BY <1>2 DEF SendFails
  <2> QED
    BY <2>1, PermFollows, PTL
<1>3. CASE EnvDestroy(e)
  <2>1. TypeOK'
    BY <1>3, IpcAssumption DEF EnvDestroy, Fields, Idle, Perms
  <2>2. FieldsAgree'
    BY <1>3 DEF EnvDestroy, Idle
  <2> QED
    BY <2>1, <2>2, PermFollows, PTL
<1> QED
  BY <1>1, <1>2, <1>3

\* What a sender that sys_ipc_try_send serves has in hand.
LEMMA SenderFacts ==
    ASSUME IpcInv, NEW e \in Env, At(e, "send"), NEW r, r = msg[e].to, Waiting(r)
    PROVE  /\ msg[e] \in Message /\ r \in Env /\ r # e
           /\ status[r] = "NOT_RUNNABLE" /\ pc[r] = "recv"
           /\ ipc[r] \in Fields /\ ipc[r].perm = {} /\ ipc[r].from = None
           /\ ipc[r].dstva \in {None, "in"}
<1>1. msg[e] \in Message
  BY DEF IpcInv, TypeOK, FieldsAgree, At
<1>2. r \in Env /\ r # e
  BY <1>1, NoneAssumption DEF IpcInv, FieldsAgree, Message
<1> QED
  BY <1>1, <1>2 DEF IpcInv, TypeOK, FieldsAgree, Waiting

\* What the stores of sys_ipc_try_send leave in the Env structures.
Delivered(e, r, perm) ==
    /\ \A f \in Env : f # r => ipc'[f] = ipc[f] /\ status'[f] = status[f]
    /\ ipc' \in [Env -> Fields] /\ status'[r] = "RUNNABLE"
    /\ ipc'[r].recving = FALSE /\ ipc'[r].perm = perm /\ ipc'[r].from = e
    /\ ipc'[r].value = msg[e].value /\ ipc'[r].dstva = ipc[r].dstva

LEMMA DeliverFields ==
    ASSUME TypeOK, NEW e \in Env, NEW r \in Env, NEW perm \in Perms,
           msg[e].value \in Value, Deliver(e, r, perm)
    PROVE  Delivered(e, r, perm)
<1> DEFINE new == [ipc[r] EXCEPT !.recving = FALSE, !.from = e,
                                 !.value = msg[e].value, !.perm = perm]
<1>1. ipc[r] \in Fields
  BY DEF TypeOK
<1>2. /\ new \in Fields /\ new.recving = FALSE /\ new.perm = perm /\ new.from = e
      /\ new.value = msg[e].value /\ new.dstva = ipc[r].dstva
  BY <1>1 DEF Fields
<1>3. ipc' = [ipc EXCEPT ![r] = new] /\ status' = [status EXCEPT ![r] = "RUNNABLE"]
  BY DEF Deliver
<1> HIDE DEF new
<1>4. ipc' \in [Env -> Fields] /\ ipc'[r] = new /\ \A f \in Env : f # r => ipc'[f] = ipc[f]
  BY <1>2, <1>3 DEF TypeOK
<1>5. status'[r] = "RUNNABLE" /\ \A f \in Env : f # r => status'[f] = status[f]
  BY <1>3 DEF TypeOK
<1> QED
  BY <1>2, <1>4, <1>5 DEF Delivered

\* A message is delivered, with or without a page.
LEMMA DeliveryInv ==
    ASSUME IpcInv, NEW e \in Env, SendValue(e) \/ SendPage(e)
    PROVE  IpcInv'
<1> DEFINE r == msg[e].to
<1>0. At(e, "send") /\ Waiting(r)
  BY DEF SendValue, SendPage
<1>1. /\ msg[e] \in Message /\ r \in Env /\ r # e
      /\ status[r] = "NOT_RUNNABLE" /\ pc[r] = "recv"
      /\ ipc[r] \in Fields /\ ipc[r].perm = {} /\ ipc[r].dstva \in {None, "in"}
  BY <1>0, SenderFacts
<1>2. TypeOK /\ msg[e].value \in Value /\ msg[e].perm \in Perms /\ {} \in Perms
  BY <1>1, IpcAssumption DEF Message, Perms, PTE_SYSCALL, IpcInv
<1>3. CASE SendValue(e)
  <2>1. Deliver(e, r, {}) /\ UNCHANGED pt
    BY <1>1, <1>3 DEF SendValue
  <2>2. Delivered(e, r, {})
    BY <1>1, <1>2, <2>1, DeliverFields
  <2>3. /\ pc' = [pc EXCEPT ![e] = "user"] /\ msg' = [msg EXCEPT ![e] = None]
        /\ got' = got /\ pt' = pt
    BY <2>1 DEF Deliver, Goto
  <2>4. TypeOK'
    BY <1>1, <2>1, <2>2, <2>3 DEF IpcInv, TypeOK, Deliver, Delivered
  <2>5. FieldsAgree'
    BY <1>0, <1>1, <2>2, <2>3 DEF IpcInv, TypeOK, FieldsAgree, At, Delivered
  <2> QED
    BY <2>4, <2>5, PermFollows, PTL DEF IpcInv
<1>4. CASE SendPage(e)
  <2>1. /\ Deliver(e, r, msg[e].perm)
        /\ ipc[r].dstva = "in" /\ msg[e].srcva \in VA
    BY <1>1, <1>4 DEF SendPage, Message
  <2>2. PICK pg \in Env : pt' = [pt EXCEPT ![r]["in"] = [pg |-> pg, perm |-> msg[e].perm]]
    <3>1. pt[e][msg[e].srcva] \in Entry
      BY <1>4, <2>1 DEF SendPage, IpcInv, TypeOK
    <3>2. PagesAt(pt[e][msg[e].srcva].pg, msg[e].perm) \subseteq Env
      BY <3>1 DEF PagesAt, Entry
    <3> QED
      BY <1>4, <2>1, <3>2 DEF SendPage
  <2>3. [pg |-> pg, perm |-> msg[e].perm] \in Entry
    BY <1>2 DEF Entry
  <2>4. TypeOK'
    <3>1. pt' \in [Env -> [VA -> Entry \cup {None}]]
      BY <1>1, <2>2, <2>3 DEF IpcInv, TypeOK, VA
    <3>2. Delivered(e, r, msg[e].perm)
      BY <1>1, <1>2, <2>1, DeliverFields
    <3> QED
      BY <1>1, <2>1, <3>1, <3>2 DEF Deliver, Delivered, IpcInv, TypeOK, Goto
  <2>5. \A f \in Env : f # r => pt'[f] = pt[f]
    BY <2>2 DEF IpcInv, TypeOK
  <2>6. pt'[r]["in"] = [pg |-> pg, perm |-> msg[e].perm] /\ pt'[r]["in"] # None
    BY <1>1, <2>2, <2>3, NoneAssumption DEF IpcInv, TypeOK, VA
  <2>7. FieldsAgree'
    <3>1. Delivered(e, r, msg[e].perm)
      BY <1>1, <1>2, <2>1, DeliverFields
    <3>2. /\ pc' = [pc EXCEPT ![e] = "user"] /\ msg' = [msg EXCEPT ![e] = None]
          /\ got' = got
      BY <2>1 DEF Deliver, Goto
    <3> QED
      BY <1>0, <1>1, <2>1, <2>5, <2>6, <3>1, <3>2
      DEF IpcInv, TypeOK, FieldsAgree, At, Delivered
  <2> QED
    BY <2>4, <2>7, PermFollows, PTL DEF IpcInv
<1> QED
  BY <1>3, <1>4

LEMMA IpcInvStep == IpcInv /\ [Next]_vars => IpcInv'
<1> SUFFICES ASSUME IpcInv, [Next]_vars PROVE IpcInv'
  OBVIOUS
<1>1. CASE Next
  BY <1>1, RecvInv, OwnStepInv, DeliveryInv DEF Next, LibraryStep
<1>2. CASE UNCHANGED vars
  BY SMTT(60), <1>2 DEF vars, IpcInv, TypeOK, FieldsAgree, PermTellsPage
<1> QED
  BY <1>1, <1>2

\* Whatever other environments send, and whoever dies between any two loads, what
\* ipc_recv reports of a page is true of the receiver's address space.
THEOREM IpcReportsTruth == Spec => []IpcInv
  BY IpcInvInit, IpcInvStep, PTL DEF Spec

----------------------------------------------------------------------------
(* Rights, and failed sends *)

\* What NoRightGained says of one step.
Inherited(e) ==
    pt'[e]["in"] # pt[e]["in"] /\ pt'[e]["in"] # None =>
       LET s == ipc'[e].from
           src == pt[s][msg[s].srcva]
       IN  /\ src # None /\ pt'[e]["in"].perm \cap PTE_SYSCALL \subseteq src.perm
           /\ "stray" \notin pt'[e]["in"].perm => pt'[e]["in"].pg = src.pg

LEMMA RightsStep ==
    ASSUME IpcInv, [Next]_vars, NEW f \in Env
    PROVE  Inherited(f)
<1>1. ASSUME NEW e \in Env, SendPage(e) PROVE Inherited(f)
  <2> DEFINE r == msg[e].to
             v == msg[e].srcva
  <2>1. /\ msg[e] \in Message /\ r \in Env /\ r # e /\ ipc[r].dstva \in {None, "in"}
    BY <1>1, SenderFacts DEF SendPage
  <2>2. /\ v \in VA /\ pt[e][v] # None /\ ipc[r].dstva = "in"
        /\ msg[e].perm \cap PTE_SYSCALL \subseteq pt[e][v].perm
    BY <1>1, <2>1 DEF SendPage, Message, PermOk
  <2>3. PICK pg \in PagesAt(pt[e][v].pg, msg[e].perm) :
           pt' = [pt EXCEPT ![r]["in"] = [pg |-> pg, perm |-> msg[e].perm]]
    BY <1>1, <2>2 DEF SendPage
  <2>4. CASE f # r
    BY <2>1, <2>3, <2>4 DEF Inherited, IpcInv, TypeOK
  <2>5. CASE f = r
    <3>1. pt'[r]["in"] = [pg |-> pg, perm |-> msg[e].perm]
      BY <2>1, <2>3 DEF IpcInv, TypeOK, VA
    <3>2. ipc'[r].from = e
      <4>1. msg[e].perm \in Perms /\ msg[e].value \in Value /\ TypeOK
        BY <2>1, IpcAssumption DEF Message, Perms, PTE_SYSCALL, IpcInv
      <4>2. Deliver(e, r, msg[e].perm)
        BY <1>1 DEF SendPage
      <4>3. Delivered(e, r, msg[e].perm)
        BY <2>1, <4>1, <4>2, DeliverFields
      <4> QED
        BY <4>3 DEF Delivered
    <3>3. /\ pt'[f]["in"].perm \cap PTE_SYSCALL \subseteq pt[e][v].perm
          /\ "stray" \notin pt'[f]["in"].perm => pt'[f]["in"].pg = pt[e][v].pg
      BY <2>2, <2>5, <2>3, <3>1 DEF PagesAt
    <3> QED
      BY <2>2, <2>5, <3>2, <3>3 DEF Inherited
  <2> QED
    BY <2>4, <2>5
<1>2. ASSUME NEW e \in Env, EnvDestroy(e) PROVE Inherited(f)
  BY <1>2 DEF EnvDestroy, Inherited, IpcInv, TypeOK, VA
<1>3. ASSUME pt' = pt PROVE Inherited(f)
  BY <1>3 DEF Inherited
<1> QED
  BY <1>1, <1>2, <1>3 DEF Next, LibraryStep, IpcSend, SysIpcRecv, RecvFrom, RecvPerm,
       RecvValue, SendValue, SendFails, vars

\* The rights of a page that is passed on are within those of the sender's mapping, for
\* every perm a program may send; and it is the sender's page, unless perm has bits
\* outside PTE_SYSCALL.  So as long as nobody sets these, a page that a program may not
\* write is never passed on writable, however many environments forward it.
THEOREM RightsNeverGrow == Spec => NoRightGained
<1>1. IpcInv /\ [Next]_vars =>
         [\A e \in Env : pt'[e]["in"] # pt[e]["in"] /\ pt'[e]["in"] # None =>
             LET s == ipc'[e].from
                 src == pt[s][msg[s].srcva]
             IN  /\ src # None /\ pt'[e]["in"].perm \cap PTE_SYSCALL \subseteq src.perm
                 /\ "stray" \notin pt'[e]["in"].perm => pt'[e]["in"].pg = src.pg]_vars
  BY RightsStep DEF Inherited
<1> QED
  BY <1>1, IpcReportsTruth, PTL DEF Spec, NoRightGained

\* What FailedSendHarmless says of one step.
Undisturbed(r) ==
    status[r] = "NOT_RUNNABLE" /\ status'[r] # "FREE" =>
       \/ ipc'[r].recving /\ UNCHANGED <<ipc[r], pt[r], status[r]>>
       \/ ipc'[r].from # None /\ msg[ipc'[r].from].to = r

LEMMA DeliveryReaches ==
    ASSUME IpcInv, NEW e \in Env, SendValue(e) \/ SendPage(e), NEW f \in Env
    PROVE  Undisturbed(f)
<1> DEFINE r == msg[e].to
<1>1. /\ msg[e] \in Message /\ r \in Env /\ r # e /\ ipc[r].dstva \in {None, "in"}
      /\ ipc[r] \in Fields
  BY SenderFacts DEF SendPage, SendValue
<1>2. PICK perm \in Perms : Deliver(e, r, perm)
  BY <1>1, IpcAssumption DEF SendPage, SendValue, Message, Perms, PTE_SYSCALL, Fields
<1>3. msg[e].value \in Value /\ TypeOK
  BY <1>1 DEF Message, IpcInv
<1>4. Delivered(e, r, perm)
  BY <1>1, <1>2, <1>3, DeliverFields
<1>5. CASE f = r
  BY <1>1, <1>4, <1>5, IpcAssumption DEF Undisturbed, Delivered
<1>6. CASE f # r
  <2>1. ipc'[f] = ipc[f] /\ status'[f] = status[f]
    BY <1>4, <1>6 DEF Delivered
  <2>2. pt'[f] = pt[f]
    BY <1>1, <1>6 DEF SendPage, SendValue, IpcInv, TypeOK
  <2> QED
    BY <2>1, <2>2 DEF Undisturbed, IpcInv, FieldsAgree
<1> QED
  BY <1>5, <1>6

LEMMA FailedSendStep ==
    ASSUME IpcInv, [Next]_vars, NEW f \in Env
    PROVE  Undisturbed(f)
<1>1. ASSUME NEW e \in Env,
             \/ IpcSend(e) \/ SysIpcRecv(e) \/ RecvFrom(e) \/ RecvPerm(e) \/ RecvValue(e)
             \/ SendFails(e) \/ EnvDestroy(e)
      PROVE  Undisturbed(f)
  <2>1. CASE f = e /\ ~SendFails(e)
    BY <1>1, <2>1 DEF IpcSend, SysIpcRecv, RecvFrom, RecvPerm, RecvValue, EnvDestroy, At,
         Undisturbed, IpcInv, TypeOK
  <2>2. CASE f # e \/ SendFails(e)
    <3>1. ipc'[f] = ipc[f] /\ status'[f] = status[f] /\ pt'[f] = pt[f]
      BY <1>1, <2>2 DEF IpcSend, SysIpcRecv, RecvFrom, RecvPerm, RecvValue, EnvDestroy,
           SendFails, IpcInv, TypeOK
    <3> QED
      BY <3>1 DEF Undisturbed, IpcInv, FieldsAgree
  <2> QED
    BY <2>1, <2>2
<1>2. ASSUME UNCHANGED vars PROVE Undisturbed(f)
  BY <1>2 DEF vars, Undisturbed, IpcInv, FieldsAgree
<1> QED
  BY <1>1, <1>2, DeliveryReaches DEF Next, LibraryStep

\* An environment in ipc_recv keeps its fields and its address space until a message
\* comes to it: a send that fails half way leaves no trace.
THEOREM FailedSendsAreHarmless == Spec => FailedSendHarmless
<1>1. IpcInv /\ [Next]_vars =>
         [\A r \in Env : status[r] = "NOT_RUNNABLE" /\ status'[r] # "FREE" =>
             \/ ipc'[r].recving /\ UNCHANGED <<ipc[r], pt[r], status[r]>>
             \/ ipc'[r].from # None /\ msg[ipc'[r].from].to = r]_vars
  BY FailedSendStep DEF Undisturbed
<1> QED
  BY <1>1, IpcReportsTruth, PTL DEF Spec, FailedSendHarmless

----------------------------------------------------------------------------
(* Refinement *)

\* The mailbox of e as the refinement mapping of Boxes has it.
BoxOf(e) ==
    IF status[e] = "RUNNABLE" /\ pc[e] \in {"recv", "perm", "value"}
    THEN Received(e)
    ELSE [state |-> IF status[e] = "NOT_RUNNABLE" THEN "open" ELSE "closed",
          from |-> None, value |-> None]

abstractBox == [e \in Env |-> BoxOf(e)]

\* A box depends on its own environment only.
LEMMA BoxLocal ==
    ASSUME NEW f, status'[f] = status[f], pc'[f] = pc[f], ipc'[f] = ipc[f], got'[f] = got[f]
    PROVE  BoxOf(f)' = BoxOf(f)
  BY DEF BoxOf, Received

\* SysIpcRecv is Ask, IpcSend is Offer, the last load is Read and a death GiveUp;
\* the other loads, and a send that fails, change no box.
LEMMA OwnStepBox ==
    ASSUME IpcInv, NEW e \in Env,
           \/ IpcSend(e) \/ SysIpcRecv(e) \/ RecvFrom(e) \/ RecvPerm(e) \/ RecvValue(e)
           \/ SendFails(e) \/ EnvDestroy(e)
    PROVE  Boxes!Next \/ UNCHANGED <<msg, abstractBox>>
<1> USE DEF IpcInv, TypeOK
<1>0. \A f \in Env : f # e => BoxOf(f)' = BoxOf(f)
  <2>1. ASSUME NEW f \in Env, f # e
        PROVE  status'[f] = status[f] /\ pc'[f] = pc[f] /\ ipc'[f] = ipc[f] /\ got'[f] = got[f]
    BY ZenonT(60), <2>1 DEF IpcSend, SysIpcRecv, RecvFrom, RecvPerm, RecvValue, SendFails, EnvDestroy, Goto
  <2> QED
    BY <2>1, BoxLocal
<1>1. CASE SysIpcRecv(e)
  <2>1. BoxOf(e) = Boxes!Closed /\ BoxOf(e)' = Boxes!Open /\ msg' = msg
    BY <1>1 DEF SysIpcRecv, At, Goto, BoxOf, Boxes!Closed, Boxes!Open, Boxes!Box
  <2>2. Boxes!Ask(e)
    BY ZenonT(60), <1>0, <2>1 DEF Boxes!Ask, BoxOf
  <2> QED
    BY <2>2 DEF Boxes!Next
<1>2. CASE IpcSend(e)
  <2>1. PICK m \in Message : msg' = [msg EXCEPT ![e] = m]
    BY <1>2 DEF IpcSend
  <2>2. BoxOf(e)' = BoxOf(e) /\ msg[e] = None
    BY <1>2 DEF IpcSend, At, Goto, BoxOf, FieldsAgree
  <2>3. Boxes!Offer(e, m)
    BY ZenonT(60), <1>0, <2>1, <2>2 DEF Boxes!Offer, BoxOf
  <2> QED
    BY <2>3 DEF Boxes!Next
<1>3. CASE RecvFrom(e) \/ RecvPerm(e) \/ SendFails(e)
  <2>1. BoxOf(e)' = BoxOf(e) /\ msg' = msg
    BY <1>3 DEF RecvFrom, RecvPerm, SendFails, At, Goto, BoxOf, Received, FieldsAgree
  <2> QED
    BY <1>0, <2>1 DEF abstractBox
<1>4. CASE RecvValue(e)
  <2>1. BoxOf(e).state = "full" /\ BoxOf(e)' = Boxes!Closed /\ msg' = msg
    BY <1>4 DEF RecvValue, At, Goto, BoxOf, Received, Boxes!Closed, Boxes!Box
  <2>2. Boxes!Read(e)
    BY ZenonT(60), <1>0, <2>1 DEF Boxes!Read, BoxOf
  <2> QED
    BY <2>2 DEF Boxes!Next
<1>5. CASE EnvDestroy(e)
  <2>1. BoxOf(e)' = Boxes!Closed /\ msg' = [msg EXCEPT ![e] = None]
    BY <1>5 DEF EnvDestroy, At, Goto, BoxOf, Received, Boxes!Closed, Boxes!Box
  <2>2. Boxes!GiveUp(e)
    BY ZenonT(60), <1>0, <2>1 DEF Boxes!GiveUp, BoxOf
  <2> QED
    BY <2>2 DEF Boxes!Next
<1> QED
  BY <1>1, <1>2, <1>3, <1>4, <1>5

\* A delivery is a Transfer: the receiver was asking, and gets what was offered.
LEMMA DeliveryBox ==
    ASSUME IpcInv, NEW e \in Env, SendValue(e) \/ SendPage(e)
    PROVE  Boxes!Next
<1> PICK r : r = msg[e].to
  OBVIOUS
<1>0. At(e, "send") /\ Waiting(r)
  BY DEF SendValue, SendPage
<1>1. /\ msg[e] \in Message /\ r \in Env /\ r # e /\ ipc[r].dstva \in {None, "in"}
      /\ ipc[r] \in Fields /\ status[r] = "NOT_RUNNABLE" /\ pc[r] = "recv"
  BY <1>0, SenderFacts
<1>2. PICK perm \in Perms : Deliver(e, r, perm)
  BY <1>1, IpcAssumption DEF SendPage, SendValue, Message, Perms, PTE_SYSCALL, Fields
<1>3. msg[e].value \in Value /\ TypeOK
  BY <1>1 DEF Message, IpcInv
<1>4. Delivered(e, r, perm)
  BY <1>1, <1>2, <1>3, DeliverFields
<1>5. /\ pc' = [pc EXCEPT ![e] = "user"] /\ msg' = [msg EXCEPT ![e] = None] /\ got' = got
  BY <1>2 DEF Deliver, Goto
<1>6. ASSUME NEW f \in Env, f # r PROVE BoxOf(f)' = BoxOf(f)
  <2>1. CASE f = e
    BY <1>0, <1>3, <1>4, <1>5, <1>6, <2>1 DEF Delivered, At, BoxOf, TypeOK
  <2>2. CASE f # e
    BY <1>3, <1>4, <1>5, <1>6, <2>2, BoxLocal DEF Delivered, TypeOK
  <2> QED
    BY <2>1, <2>2
<1>7. BoxOf(r) = Boxes!Open
  BY <1>1 DEF BoxOf, Boxes!Open, Boxes!Box
<1>8. BoxOf(r)' = Boxes!Full(e, msg[e].value)
  <2>1. pc'[r] = "recv" /\ status'[r] = "RUNNABLE"
    BY <1>1, <1>3, <1>4, <1>5 DEF Delivered, TypeOK
  <2>2. ipc'[r].from = e /\ ipc'[r].value = msg[e].value
    BY <1>4 DEF Delivered
  <2> QED
    BY <2>1, <2>2 DEF BoxOf, Received, Boxes!Full, Boxes!Box
<1>9. msg[e] # None
  BY <1>1, NoneAssumption
<1>10. Boxes!Transfer(e, r)
  <2> DEFINE b == [x \in Env |-> BoxOf(x)]
  <2>1. b' = [b EXCEPT ![r] = Boxes!Full(e, msg[e].value)]
    BY <1>1, <1>6, <1>8
  <2> QED
    BY <1>1, <1>5, <1>7, <1>9, <2>1 DEF Boxes!Transfer, BoxOf
<1> QED
  BY <1>1, <1>10 DEF Boxes!Next

LEMMA BoxesStep == IpcInv /\ [Next]_vars => [Boxes!Next]_<<msg, abstractBox>>
<1> SUFFICES ASSUME IpcInv, [Next]_vars
             PROVE  Boxes!Next \/ UNCHANGED <<msg, abstractBox>>
  OBVIOUS
<1>1. CASE Next
  BY <1>1, OwnStepBox, DeliveryBox DEF Next, LibraryStep
<1>2. CASE UNCHANGED vars
  BY <1>2, BoxLocal DEF vars, abstractBox
<1> QED
  BY <1>1, <1>2

\* lib/ipc.c over the two system calls implements mailboxes: every ipc_send that
\* returns has passed its message once, to the environment it names, and ipc_recv
\* returns one message whole, though it reads it without the lock.
THEOREM IpcImplementsMailboxes == Spec => DeliversOnce
<1>1. Init => Boxes!Init
  BY DEF Init, Boxes!Init, Boxes!Closed, Boxes!Box, Received
<1>2. IpcInv /\ [Next]_vars => [Boxes!Next]_(Boxes!boxes)
  BY BoxesStep DEF Boxes!boxes, abstractBox, BoxOf
<1> QED
  BY <1>1, <1>2, IpcReportsTruth, PTL DEF Spec, DeliversOnce, Boxes!Spec
=============================================================================
