------------------------------- MODULE Fault -------------------------------
(***************************************************************************)
(* User-level page faults, instruction by instruction: the frame that      *)
(* page_fault_handler (kern/trap.c) builds on the exception stack, the     *)
(* upcall of lib/pfentry.S that runs the C handler and returns to the      *)
(* trap-time state without a free register, and faults inside both.        *)
(*                                                                         *)
(* One environment, memory in words.  eip is the line of pfentry.S to be   *)
(* executed next, USER in the program and HANDLER in the C handler.  Which *)
(* page a fault is about is immaterial here: the handler makes the access  *)
(* possible, and the instruction is executed again.                        *)
(***************************************************************************)
EXTENDS Integers, Sequences

CONSTANTS
    PGWORDS,    \* words in a page: 1024
    USTACK,     \* words of normal stack
    MAXFAULT,   \* how many faults are looked at
    MAXLOCAL    \* how many words the C handler has on the stack at once, at most

ASSUME FaultAssumption ==
    /\ PGWORDS \in Nat /\ PGWORDS >= 14 /\ USTACK \in Nat /\ USTACK >= 2
    /\ MAXFAULT \in Nat /\ MAXLOCAL \in Nat

\* Addresses, in words: the normal stack, a page that is never mapped, the
\* exception stack up to UXSTACKTOP.
XBOTTOM == USTACK + PGWORDS
UXSTACKTOP == USTACK + 2 * PGWORDS
Normal == 0 .. USTACK - 1
Exception == XBOTTOM .. UXSTACKTOP - 1

USER == 0
HANDLER == 1
SPILL == 2          \* a word that the handler pushed
JUNK == 3           \* what the upcall leaves in a register or in eflags

\* struct UTrapframe, word by word; utf_regs is as pusha leaves the registers.
FAULT_VA == 0
ERR == 1
EDI == 2
EDX == 7
EAX == 9
EIP == 10
EFLAGS == 11
ESP == 12
FRAME == 13

VARIABLES
    mem, esp, eip, eflags,
    regs,           \* eax, edx, and one for all the others
    upcall, xmapped,            \* env_pgfault_upcall; the exception stack is there
    alive,
    saved,          \* the interrupted contexts, the latest last, each with the
                    \* words that were live on its stack
    faults,
    overrun         \* a fault was taken with the exception stack exactly full

cpu == <<esp, eip, eflags, regs>>
setup == <<upcall, xmapped>>
ghosts == <<saved, faults, overrun>>
vars == <<mem, cpu, setup, alive, ghosts>>

Regs == [eax : Nat, edx : Nat, other : 0 .. 1]

\* The words of the stack that esp points into, from esp up.
Live == {a \in Normal \cup Exception : a >= esp /\ (a \in Exception <=> esp \in Exception)}

Context == [esp |-> esp, eip |-> eip, eflags |-> eflags, regs |-> regs]

\* The stack pointer never leaves the two stacks while the program lives.
TypeOK ==
    /\ alive => esp \in 0 .. USTACK \cup XBOTTOM .. UXSTACKTOP
    /\ \A a \in Normal \cup Exception : mem[a] \in Nat
    /\ eip \in {USER, HANDLER, 36, 37, 38, 39, 68, 69, 72, 73, 78, 84, 85, 89, 93}
    /\ eflags \in {0, 1, JUNK} /\ regs \in Regs
    /\ upcall \in BOOLEAN /\ xmapped \in BOOLEAN /\ alive \in BOOLEAN
    /\ overrun \in BOOLEAN /\ faults \in 0 .. MAXFAULT /\ Len(saved) <= faults

Init ==
    /\ mem = [a \in Normal \cup Exception |-> IF a \in Normal THEN 100 + a ELSE 0]
    /\ esp = USTACK /\ eip = USER /\ eflags = 0
    /\ regs = [eax |-> 0, edx |-> 0, other |-> 0]
    /\ upcall = FALSE /\ xmapped = FALSE /\ alive = TRUE
    /\ saved = <<>> /\ faults = 0 /\ overrun = FALSE

----------------------------------------------------------------------------
(* The program *)

\* It calls, returns and computes; the last word of its stack stays free.
UserStep ==
    /\ alive /\ eip = USER
    /\ \E s \in 1 .. USTACK, o \in 0 .. 1, f \in 0 .. 1 :
          /\ esp' = s /\ eflags' = f
          /\ regs' = [regs EXCEPT !.other = o]
    /\ UNCHANGED <<mem, eip, setup, alive, ghosts>>

\* set_pgfault_handler, the first time.
SetPgfaultHandler ==
    /\ alive /\ eip = USER /\ ~upcall
    /\ upcall' = TRUE /\ xmapped' = TRUE
    /\ UNCHANGED <<mem, cpu, alive, ghosts>>

\* A program that calls sys_env_set_pgfault_upcall and forgets the stack.
SysEnvSetPgfaultUpcall ==
    /\ alive /\ eip = USER /\ ~upcall
    /\ upcall' = TRUE
    /\ UNCHANGED <<mem, cpu, xmapped, alive, ghosts>>

----------------------------------------------------------------------------
(* The kernel *)

\* Mutant of StackTop: the frame always goes to the top.
StackTopAlways == UXSTACKTOP

\* trap.c:389-392.  A fault with esp at the very bottom is taken for one on the
\* normal stack.
StackTop == IF esp > XBOTTOM /\ esp < UXSTACKTOP THEN esp ELSE UXSTACKTOP

\* Mutant of Size: no word is left free above the frame.
SizeExact == FRAME

Size == FRAME + 1

\* user_mem_assert: the words from low up are all on the exception stack.
UserMemAssert(low) == xmapped /\ low >= XBOTTOM

Frame == [k \in 0 .. FRAME - 1 |->
            CASE k = EDI -> regs.other [] k = EDX -> regs.edx [] k = EAX -> regs.eax
              [] k = EIP -> eip [] k = EFLAGS -> eflags [] k = ESP -> esp
              [] OTHER -> 0]

\* page_fault_handler: the upcall is next, or the environment is no more.
PageFaultHandler ==
    LET utf == StackTop - Size
    IN  /\ faults < MAXFAULT /\ faults' = faults + 1
        /\ IF upcall /\ UserMemAssert(utf)
           THEN /\ mem' = [a \in DOMAIN mem |->
                             IF a - utf \in DOMAIN Frame THEN Frame[a - utf] ELSE mem[a]]
                /\ esp' = utf /\ eip' = 36
                /\ saved' = Append(saved, [ctx |-> Context, live |-> [a \in Live |-> mem[a]]])
                /\ overrun' = (overrun \/ (esp = XBOTTOM /\ eip # USER))
                /\ UNCHANGED <<eflags, regs, setup, alive>>
           ELSE alive' = FALSE /\ UNCHANGED <<mem, cpu, setup, saved, overrun>>

\* The instructions that touch memory other than the exception stack may fault.
Fault == alive /\ eip \in {USER, HANDLER, 37, 72} /\ PageFaultHandler

----------------------------------------------------------------------------
(* The upcall *)

At(line) == alive /\ eip = line

\* A push faults, before esp moves, when the exception stack is full.
Push(word, next) ==
    IF esp = XBOTTOM THEN PageFaultHandler
    ELSE /\ mem' = [mem EXCEPT ![esp - 1] = word]
         /\ esp' = esp - 1 /\ eip' = next
         /\ UNCHANGED <<eflags, regs, setup, alive, ghosts>>

PushArgument == At(36) /\ Push(esp, 37)

LoadHandler == /\ At(37) /\ eip' = 38 /\ regs' = [regs EXCEPT !.eax = JUNK]
               /\ UNCHANGED <<mem, esp, eflags, setup, alive, ghosts>>

CallHandler == At(38) /\ Push(39, HANDLER)

\* The C handler: whatever it does, it leaves its stack as it found it.
HandlerPush ==
    /\ At(HANDLER)
    /\ \E n \in 0 .. MAXLOCAL - 1 : /\ esp + n \in Exception /\ mem[esp + n] = 39
                                    /\ \A k \in 0 .. n - 1 : mem[esp + k] = SPILL
    /\ Push(SPILL, HANDLER)

HandlerPop ==
    /\ At(HANDLER) /\ mem[esp] = SPILL
    /\ esp' = esp + 1 /\ regs' = [regs EXCEPT !.other = 1 - @, !.edx = JUNK]
    /\ UNCHANGED <<mem, eip, eflags, setup, alive, ghosts>>

HandlerReturn ==
    /\ At(HANDLER) /\ mem[esp] = 39
    /\ esp' = esp + 1 /\ eip' = 39
    /\ UNCHANGED <<mem, eflags, regs, setup, alive, ghosts>>

\* addl n, %esp
AddEsp(line, n, next) ==
    /\ At(line) /\ esp' = esp + n /\ eip' = next /\ eflags' = JUNK
    /\ UNCHANGED <<mem, regs, setup, alive, ghosts>>

PopArgument == AddEsp(39, 1, 68)

PopFaultVaErr == AddEsp(68, 2, 69)

LoadEipEsp ==
    /\ At(69) /\ eip' = 72 /\ eflags' = JUNK
    /\ regs' = [regs EXCEPT !.eax = mem[esp + EIP - EDI], !.edx = mem[esp + ESP - EDI] - 1]
    /\ UNCHANGED <<mem, esp, setup, alive, ghosts>>

\* Lines 72 and 73: first to the trap-time stack, which may fault (Fault), then to
\* the frame.
PushEip ==
    /\ At(72) /\ mem' = [mem EXCEPT ![regs.edx] = regs.eax] /\ eip' = 73
    /\ UNCHANGED <<esp, eflags, regs, setup, alive, ghosts>>

StoreEsp ==
    /\ At(73) /\ mem' = [mem EXCEPT ![esp + ESP - EDI] = regs.edx] /\ eip' = 78
    /\ UNCHANGED <<esp, eflags, regs, setup, alive, ghosts>>

Popal ==
    /\ At(78)
    /\ regs' = [other |-> mem[esp], edx |-> mem[esp + EDX - EDI], eax |-> mem[esp + EAX - EDI]]
    /\ esp' = esp + 8 /\ eip' = 84
    /\ UNCHANGED <<mem, eflags, setup, alive, ghosts>>

SkipEip == AddEsp(84, 1, 85)

Popfl ==
    /\ At(85) /\ eflags' = mem[esp] /\ esp' = esp + 1 /\ eip' = 89
    /\ UNCHANGED <<mem, regs, setup, alive, ghosts>>

PopEsp ==
    /\ At(89) /\ esp' = mem[esp] /\ eip' = 93
    /\ UNCHANGED <<mem, eflags, regs, setup, alive, ghosts>>

\* (What is left below the stack pointer is not read again: zero for all.)
Ret ==
    /\ At(93) /\ eip' = mem[esp] /\ esp' = esp + 1
    /\ saved' = SubSeq(saved, 1, Len(saved) - 1)
    /\ mem' = [a \in DOMAIN mem |->
                 IF a \in Exception /\ (a < esp' \/ esp' \in Normal \cup {USTACK})
                 THEN 0 ELSE mem[a]]
    /\ UNCHANGED <<eflags, regs, setup, alive, faults, overrun>>

Upcall ==
    \/ PushArgument \/ LoadHandler \/ CallHandler
    \/ HandlerPush \/ HandlerPop \/ HandlerReturn
    \/ PopArgument \/ PopFaultVaErr \/ LoadEipEsp \/ PushEip \/ StoreEsp
    \/ Popal \/ SkipEip \/ Popfl \/ PopEsp \/ Ret

\* A stack that has been overwritten makes no more sense to follow.
Next ==
    \/ UserStep \/ SetPgfaultHandler \/ SysEnvSetPgfaultUpcall
    \/ Fault
    \/ ~overrun /\ Upcall

Spec == Init /\ [][Next]_vars

----------------------------------------------------------------------------
(* Properties *)

\* The upcall returns "to the trap time state" (pfentry.S:41-42): eip, eflags, the
\* stack pointer and every register are what they were at the fault, at every
\* depth of nesting and wherever in the upcall the nested faults were.
RestoresTrapTimeState ==
    [][At(93) /\ eip' # 93 => saved[Len(saved)].ctx =
          [esp |-> esp', eip |-> eip', eflags |-> eflags', regs |-> regs']]_vars

\* Neither the kernel's frames nor the word that pfentry.S pushes on the trap-time
\* stack overwrite what an interrupted context has on its stack.  (A fault with
\* the exception stack exactly full starts again at its top, and does.)
LiveWordsKept ==
    alive /\ ~overrun =>
       \A i \in 1 .. Len(saved) : \A a \in DOMAIN saved[i].live : mem[a] = saved[i].live[a]

\* No context that a fault interrupted loses a word, and the stack pointer never
\* leaves the stacks, until the environment is destroyed.
FaultInv == TypeOK /\ LiveWordsKept
=============================================================================
