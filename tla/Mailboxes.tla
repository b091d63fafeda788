----------------------------- MODULE Mailboxes -----------------------------
(***************************************************************************)
(* What ipc_send and ipc_recv promise their callers: a message passes in   *)
(* one step from an environment that is sending it to one that is asking   *)
(* for it; it reaches the environment it names, whole, and exactly once.   *)
(***************************************************************************)
CONSTANTS Env, Message, None

VARIABLES
    sending,    \* the message e is sending, or None
    box         \* closed, open while e asks for a message, or full of what it got

boxes == <<sending, box>>

Box(state, from, value) == [state |-> state, from |-> from, value |-> value]
Closed == Box("closed", None, None)
Open == Box("open", None, None)
Full(from, value) == Box("full", from, value)

Init == sending = [e \in Env |-> None] /\ box = [e \in Env |-> Closed]

Offer(e, m) == /\ sending[e] = None /\ sending' = [sending EXCEPT ![e] = m]
               /\ UNCHANGED box

Ask(e) == /\ box[e] = Closed /\ box' = [box EXCEPT ![e] = Open]
          /\ UNCHANGED sending

\* The sender is done, and the receiver has its message, in the same step.
Transfer(s, r) ==
    /\ sending[s] # None /\ sending[s].to = r /\ box[r] = Open
    /\ box' = [box EXCEPT ![r] = Full(s, sending[s].value)]
    /\ sending' = [sending EXCEPT ![s] = None]

Read(e) == /\ box[e].state = "full" /\ box' = [box EXCEPT ![e] = Closed]
           /\ UNCHANGED sending

\* The program gives up in a panic or is destroyed; nobody else notices.
GiveUp(e) == /\ sending' = [sending EXCEPT ![e] = None]
             /\ box' = [box EXCEPT ![e] = Closed]

Next ==
    \/ \E e \in Env : Ask(e) \/ Read(e) \/ GiveUp(e) \/ \E m \in Message : Offer(e, m)
    \/ \E s, r \in Env : Transfer(s, r)

Spec == Init /\ [][Next]_boxes
=============================================================================
