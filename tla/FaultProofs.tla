---------------------------- MODULE FaultProofs ----------------------------
(***************************************************************************)
(* Proofs about Fault: at every depth of nesting, for every size of the    *)
(* stacks and every number of faults, the upcall of lib/pfentry.S returns  *)
(* to the trap-time state, and no word that an interrupted context has on  *)
(* its stack is lost.                                                      *)
(*                                                                         *)
(* The inductive invariant is the chain of interrupted contexts: the first *)
(* is the program's, every later one was executing the upcall for the one  *)
(* before it (Runs), and so is the processor for the last one.  Runs says  *)
(* where in pfentry.S the upcall is, and which words of its frame still    *)
(* hold the trap-time state: lines 72 and 73 overwrite one of them and one *)
(* word of the trap-time stack, and the frame of a nested fault may cover  *)
(* the words below esp.                                                    *)
(***************************************************************************)
EXTENDS Fault, SequenceTheorems, TLAPS

Interruptible == {HANDLER, 37, 72}      \* where the upcall touches other memory
Lines == {HANDLER, 36, 37, 38, 39, 68, 69, 72, 73, 78, 84, 85, 89, 93}
Words == Normal \cup Exception
Stacks == 0 .. USTACK \cup XBOTTOM .. UXSTACKTOP

Contexts == [esp : Stacks, eip : Lines \cup {USER}, eflags : {0, 1, JUNK}, regs : Regs]

\* Where page_fault_handler puts the frame of a fault in context s.
Base(s) == (IF s.esp > XBOTTOM /\ s.esp < UXSTACKTOP THEN s.esp ELSE UXSTACKTOP) - Size

\* The words that are live on the stack of a context.
LiveAt(p) == {a \in Words : a >= p /\ (a \in Exception <=> p \in Exception)}

\* Where the upcall for a fault with the frame at b has its stack pointer.
Position(m, s, c) ==
    LET b == Base(s)
    IN  /\ c.eip \in {36, 68} => c.esp = b
        /\ c.eip \in {37, 38, 39} => c.esp = b - 1
        /\ c.eip \in {69, 72, 73, 78} => c.esp = b + 2
        /\ c.eip = 84 => c.esp = b + 10
        /\ c.eip = 85 => c.esp = b + 11
        /\ c.eip = 89 => c.esp = b + 12
        /\ c.eip = 93 => c.esp = s.esp - 1
        /\ c.eip = HANDLER => /\ c.esp <= b - 2 /\ m[b - 2] = 39
                              /\ \A a \in c.esp .. b - 3 : m[a] = SPILL
        /\ c.eip # 93 => c.esp >= XBOTTOM

\* The words of the frame that hold the trap-time state s, but the last.
FrameHolds(m, s) ==
    LET b == Base(s)
    IN  /\ m[b + 2] = s.regs.other /\ m[b + 7] = s.regs.edx /\ m[b + 9] = s.regs.eax
        /\ m[b + 10] = s.eip /\ m[b + 11] = s.eflags

\* Context c executes the upcall for the trap-time state s.
Runs(m, s, c) ==
    /\ c.eip \in Lines /\ Base(s) >= XBOTTOM
    /\ Position(m, s, c)
    /\ FrameHolds(m, s)
    /\ m[Base(s) + 12] = IF c.eip \in {78, 84, 85, 89, 93} THEN s.esp - 1 ELSE s.esp
    /\ c.eip \in {73, 78, 84, 85, 89, 93} => m[s.esp - 1] = s.eip
    /\ c.eip \in {72, 73} => c.regs.eax = s.eip /\ c.regs.edx = s.esp - 1
    /\ c.eip \in {84, 85, 89, 93} => c.regs = s.regs
    /\ c.eip \in {89, 93} => c.eflags = s.eflags

\* The interrupted contexts: the program, then upcalls, each further down.
Nested(sv) ==
    /\ \A i \in 1 .. Len(sv) :
          IF i = 1 THEN sv[i].ctx.eip = USER /\ sv[i].ctx.esp \in 1 .. USTACK
          ELSE sv[i].ctx.eip \in Interruptible /\ sv[i].ctx.esp > XBOTTOM
                 /\ sv[i].ctx.esp < UXSTACKTOP
    /\ \A i, j \in 2 .. Len(sv) : i < j => sv[j].ctx.esp < sv[i].ctx.esp

\* Each was executing the upcall for the one before it.
Waiting(m, sv) == \A i \in 1 .. Len(sv) - 1 : Runs(m, sv[i].ctx, sv[i + 1].ctx)

\* What each has on its stack is still there.
Kept(m, sv) == \A i \in 1 .. Len(sv) : \A a \in DOMAIN sv[i].live : m[a] = sv[i].live[a]

Now == IF saved = <<>> THEN eip = USER /\ esp \in 1 .. USTACK
           ELSE Runs(mem, saved[Len(saved)].ctx, Context)

Entry == [ctx : Contexts, live : UNION {[A -> Nat] : A \in SUBSET Words}]

Types ==
    /\ TypeOK
    /\ mem \in [Words -> Nat]
    /\ esp \in Stacks
    /\ saved \in Seq(Entry)
    /\ \A i \in 1 .. Len(saved) : DOMAIN saved[i].live = LiveAt(saved[i].ctx.esp)

Chain == Nested(saved) /\ Waiting(mem, saved) /\ Kept(mem, saved) /\ Now

IInv ==
    /\ Types
    /\ overrun => eip = 36
    /\ alive /\ ~overrun => Chain

----------------------------------------------------------------------------
(* Operators *)

\* The context that the running upcall will return to.
Top == saved[Len(saved)].ctx

\* What a trap-time state can be: the program's, or an upcall's.
Trap(s) ==
    /\ s \in Contexts
    /\ \/ s.eip = USER /\ s.esp \in 1 .. USTACK
       \/ s.eip \in Interruptible /\ s.esp > XBOTTOM /\ s.esp < UXSTACKTOP

\* Two memories agree on what is on the stack of s and of all before it.
Agree(m, mm, s) ==
    \A a \in Words :
       (IF s.eip = USER THEN a \in Normal /\ a >= s.esp ELSE a \in Normal \/ a >= s.esp)
         => mm[a] = m[a]

\* An interrupted upcall depends only on the words from its stack pointer up: what is
\* done below it, a nested upcall's frame and pushes, leaves it running.
LEMMA RunsAbove ==
    ASSUME NEW m, NEW mm, NEW s, NEW c, Trap(s), c \in Contexts, c.eip \in Interruptible,
           Runs(m, s, c), \A a \in Exception : a >= c.esp => mm[a] = m[a]
    PROVE  Runs(mm, s, c)
<1> DEFINE b == Base(s)
<1>1. b \in Int /\ b >= XBOTTOM /\ b + 14 <= UXSTACKTOP /\ c.esp \in Int
      /\ XBOTTOM \in Int /\ UXSTACKTOP \in Int
  BY FaultAssumption DEF Trap, Runs, Base, Contexts, Stacks, XBOTTOM, UXSTACKTOP, Size, FRAME
<1>2. c.esp <= b + 2 /\ c.esp >= XBOTTOM
  BY <1>1 DEF Runs, Position, Interruptible, HANDLER
<1>3. \A a \in c.esp .. b + 12 : mm[a] = m[a]
  BY <1>1, <1>2 DEF Exception
<1>4. FrameHolds(mm, s) /\ mm[b + 12] = m[b + 12]
  BY <1>1, <1>2, <1>3 DEF FrameHolds, Runs
<1>5. Position(mm, s, c)
  <2>1. ASSUME c.eip = HANDLER
        PROVE  c.esp <= b - 2 /\ mm[b - 2] = 39 /\ \A a \in c.esp .. b - 3 : mm[a] = SPILL
    BY <2>1, <1>1, <1>2, <1>3 DEF Runs, Position
  <2>2. QED
    BY <2>1 DEF Runs, Position
<1>6. c.eip \notin {73, 78, 84, 85, 89, 93}
  BY DEF Interruptible, HANDLER
<1>7. QED
  BY <1>4, <1>5, <1>6 DEF Runs

\* The frame of a fault lies on the exception stack, with one word to spare.
LEMMA BaseRange ==
    ASSUME NEW s, Trap(s)
    PROVE  /\ s.esp \in Int /\ Base(s) \in Int /\ Base(s) + 14 <= UXSTACKTOP
           /\ s.eip # USER => s.esp = Base(s) + 14
  BY FaultAssumption DEF Trap, Base, Contexts, Stacks, XBOTTOM, UXSTACKTOP, Size, FRAME,
     Interruptible, USER, HANDLER

LEMMA Arithmetic ==
    /\ XBOTTOM \in Int /\ UXSTACKTOP \in Int /\ USTACK \in Int
    /\ 2 <= USTACK /\ USTACK < XBOTTOM /\ XBOTTOM < UXSTACKTOP
  BY FaultAssumption DEF XBOTTOM, UXSTACKTOP

LEMMA Appended ==
    ASSUME NEW S, NEW sv \in Seq(S), NEW e \in S
    PROVE  /\ Append(sv, e) \in Seq(S) /\ Len(Append(sv, e)) = Len(sv) + 1 /\ Len(sv) \in Nat
           /\ \A i \in 1 .. Len(sv) : Append(sv, e)[i] = sv[i]
           /\ Append(sv, e)[Len(sv) + 1] = e
  OBVIOUS

LEMMA Popped ==
    ASSUME NEW S, NEW sv \in Seq(S), sv # <<>>
    PROVE  /\ SubSeq(sv, 1, Len(sv) - 1) \in Seq(S) /\ Len(sv) \in Nat /\ Len(sv) >= 1
           /\ Len(SubSeq(sv, 1, Len(sv) - 1)) = Len(sv) - 1
           /\ \A i \in 1 .. Len(sv) - 1 : SubSeq(sv, 1, Len(sv) - 1)[i] = sv[i]
<1>1. Len(sv) \in Nat /\ Len(sv) # 0
  BY EmptySeq
<1>2. QED
  BY <1>1, SubSeqProperties

----------------------------------------------------------------------------
(* The chain *)

\* Every interrupted context is one that a trap can interrupt.
LEMMA AllTraps ==
    ASSUME NEW sv \in Seq(Entry), Nested(sv)
    PROVE  \A i \in 1 .. Len(sv) : Trap(sv[i].ctx)
<1> TAKE i \in 1 .. Len(sv)
<1>1. sv[i] \in Entry
  OBVIOUS
<1>2. sv[i].ctx \in Contexts
  BY <1>1 DEF Entry
<1>3. QED
  BY <1>2 DEF Nested, Trap

\* What is done below the last of the interrupted contexts disturbs none of them.
LEMMA ChainAbove ==
    ASSUME NEW sv \in Seq(Entry), NEW m, NEW mm, sv # <<>>, Nested(sv), Waiting(m, sv),
           Kept(m, sv), \A i \in 1 .. Len(sv) : DOMAIN sv[i].live = LiveAt(sv[i].ctx.esp),
           Agree(m, mm, sv[Len(sv)].ctx)
    PROVE  Waiting(mm, sv) /\ Kept(mm, sv)
<1> DEFINE n == Len(sv)
<1>0. n \in Nat /\ n >= 1 /\ \A i \in 1 .. n : Trap(sv[i].ctx)
  BY Popped, AllTraps
<1>a. n = 1 \/ n >= 2
  BY Popped
<1>1. ASSUME NEW i \in 2 .. n
      PROVE  /\ \A a \in Words : a \in Normal \/ a >= sv[i].ctx.esp => mm[a] = m[a]
             /\ sv[i].ctx.eip \in Interruptible
  <2>1. sv[i].ctx.eip \in Interruptible /\ sv[n].ctx.eip \in Interruptible
    BY <1>0, <1>1 DEF Nested
  <2>2. sv[n].ctx.esp <= sv[i].ctx.esp /\ sv[i].ctx.esp \in Int /\ sv[n].ctx.esp \in Int
    <3>1. sv[i].ctx.esp \in Int /\ sv[n].ctx.esp \in Int
      BY SMTT(60), <1>0, <1>1, BaseRange
    <3>2. CASE i = n
      BY <3>1, <3>2
    <3>3. CASE i < n
      BY <3>1, <3>3, <1>0 DEF Nested
    <3>4. QED
      BY <3>2, <3>3, <1>0
  <2>3. sv[n].ctx.eip # USER
    BY <2>1 DEF Interruptible, USER, HANDLER
  <2>4. ASSUME NEW a \in Words, a \in Normal \/ a >= sv[i].ctx.esp
        PROVE  mm[a] = m[a]
    <3>1. a \in Int
      BY Arithmetic DEF Words, Normal, Exception
    <3>2. a \in Normal \/ a >= sv[n].ctx.esp
      BY <2>2, <2>4, <3>1
    <3>3. QED
      BY <3>2, <2>3 DEF Agree
  <2>5. QED
    BY <2>1, <2>4
<1>2. Waiting(mm, sv)
  <2>1. SUFFICES ASSUME NEW i \in 1 .. n - 1
                 PROVE  Runs(mm, sv[i].ctx, sv[i + 1].ctx)
    BY DEF Waiting
  <2>2. i + 1 \in 2 .. n /\ i + 1 \in 1 .. n /\ i \in 1 .. n
    BY <1>0, <2>1
  <2>3. Runs(m, sv[i].ctx, sv[i + 1].ctx)
    BY DEF Waiting
  <2>4. \A a \in Exception : a >= sv[i + 1].ctx.esp => mm[a] = m[a]
    BY <1>1, <2>2 DEF Words
  <2>5. sv[i + 1].ctx \in Contexts
    BY <1>0, <2>2 DEF Trap
  <2>6. QED
    BY <1>0, <1>1, <2>2, <2>3, <2>4, <2>5, RunsAbove
<1>3. Kept(mm, sv)
  <2>1. SUFFICES ASSUME NEW i \in 1 .. n, NEW a \in LiveAt(sv[i].ctx.esp)
                 PROVE  mm[a] = m[a]
    BY DEF Kept
  <2>2. a \in Words /\ a \in Int /\ a >= sv[i].ctx.esp
    BY Arithmetic DEF LiveAt, Words, Normal, Exception
  <2>3. CASE i \in 2 .. n
    BY <1>1, <2>2, <2>3
  <2>4. CASE i = 1
    <3>1. sv[1].ctx.eip = USER /\ sv[1].ctx.esp \in 1 .. USTACK
      BY <1>0 DEF Nested
    <3>2. a \in Normal
      BY <2>1, <2>4, <3>1, Arithmetic DEF LiveAt, Words, Normal, Exception
    <3>3. CASE n = 1
      BY <3>1, <3>2, <3>3, <2>2, <2>4 DEF Agree
    <3>4. CASE n >= 2
      <4>1. n \in 2 .. n
        BY <3>4, <1>0
      <4>2. QED
        BY <1>1, <2>2, <3>2, <4>1
    <3>5. QED
      BY <3>3, <3>4, <1>a
  <2>5. i = 1 \/ i \in 2 .. n
    BY <1>0
  <2>6. QED
    BY <2>3, <2>4, <2>5
<1>4. QED
  BY <1>2, <1>3

\* Outside the program, some context waits for the upcall to return.
LEMMA TopFacts ==
    ASSUME IInv, alive, ~overrun, eip # USER
    PROVE  /\ saved # <<>> /\ Len(saved) \in Nat /\ Len(saved) >= 1
           /\ Trap(Top) /\ Runs(mem, Top, Context)
<1>1. saved # <<>> /\ saved \in Seq(Entry) /\ Nested(saved) /\ Runs(mem, Top, Context)
  BY DEF IInv, Types, Chain, Now, Top
<1>2. QED
  BY <1>1, Popped, AllTraps DEF Top

\* A step of the upcall keeps the invariant when it stays in the upcall and writes
\* below the interrupted stacks.
LEMMA UpcallStep ==
    ASSUME IInv, alive, ~overrun, eip # USER, UNCHANGED <<setup, alive, ghosts>>,
           mem' \in [Words -> Nat], esp' \in Stacks, eflags' \in {0, 1, JUNK}, regs' \in Regs,
           Agree(mem, mem', Top), Runs(mem', Top, Context')
    PROVE  IInv'
<1>1. eip' \in Lines
  BY DEF Runs, Context
<1>2. Types'
  BY <1>1 DEF IInv, Types, TypeOK, setup, ghosts, Stacks, Words, Lines
<1>3. Waiting(mem', saved) /\ Kept(mem', saved)
  BY TopFacts, ChainAbove DEF IInv, Types, Chain, Top
<1>4. Now'
  BY TopFacts DEF Now, Top, ghosts
<1>5. Chain'
  BY <1>3, <1>4 DEF IInv, Chain, ghosts
<1>6. QED
  BY <1>2, <1>5 DEF IInv, ghosts

----------------------------------------------------------------------------
(* The steps of the upcall *)

\* What every step of the upcall starts from.
Running(b) ==
    /\ IInv /\ alive /\ ~overrun /\ eip # USER
    /\ b = Base(Top) /\ b \in Int /\ b >= XBOTTOM /\ b + 14 <= UXSTACKTOP
    /\ Trap(Top) /\ Runs(mem, Top, Context)
    /\ Top.eip # USER => Top.esp = b + 14
    /\ Top.eip = USER => Top.esp \in 1 .. USTACK
    /\ mem \in [Words -> Nat] /\ esp \in Stacks /\ esp \in Int /\ eflags \in {0, 1, JUNK}
    /\ regs \in Regs

LEMMA StartsFrom ==
    ASSUME IInv, alive, ~overrun, eip # USER
    PROVE  Running(Base(Top))
<1>1. Trap(Top) /\ Runs(mem, Top, Context)
  BY TopFacts
<1>2. Top.eip = USER => Top.esp \in 1 .. USTACK
  BY <1>1 DEF Trap, Interruptible, USER, HANDLER
<1>3. mem \in [Words -> Nat] /\ esp \in Stacks /\ eflags \in {0, 1, JUNK} /\ regs \in Regs
  BY DEF IInv, Types, TypeOK
<1>4. esp \in Int
  BY <1>3, Arithmetic DEF Stacks
<1>5. QED
  BY <1>1, <1>2, <1>3, <1>4, BaseRange DEF Running, Runs

\* The words from XBOTTOM up to the top of the exception stack.
LEMMA InWords ==
    /\ \A a \in Int : a >= XBOTTOM /\ a < UXSTACKTOP => a \in Words /\ a \in Exception /\ a \notin Normal
    /\ \A a \in Int : a >= XBOTTOM /\ a <= UXSTACKTOP => a \in Stacks
    /\ \A a \in Int : 0 <= a /\ a < USTACK => a \in Words /\ a \in Normal /\ a \notin Exception
    /\ \A a \in Words : a \in Int /\ (a \in Normal \/ a \in Exception)
  BY Arithmetic DEF Words, Normal, Exception, Stacks

\* A step that stays in the upcall and writes nothing.
LEMMA QuietStep ==
    ASSUME NEW b, Running(b), UNCHANGED <<mem, setup, alive, ghosts>>,
           esp' \in Stacks, eflags' \in {0, 1, JUNK}, regs' \in Regs, Runs(mem, Top, Context')
    PROVE  IInv'
<1>1. Agree(mem, mem', Top) /\ Runs(mem', Top, Context')
  BY DEF Agree
<1>2. QED
  BY <1>1, UpcallStep DEF Running

\* A step that stays in the upcall and writes one word below the interrupted stacks.
Writes(b, w, v) ==
    /\ w \in Int /\ v \in Nat /\ mem' = [mem EXCEPT ![w] = v]
    /\ (w >= XBOTTOM /\ w <= b + 12) \/ w = Top.esp - 1
    /\ UNCHANGED <<setup, alive, ghosts>>
    /\ esp' \in Stacks /\ eflags' \in {0, 1, JUNK} /\ regs' \in Regs

LEMMA WriteStep ==
    ASSUME NEW b, NEW w, NEW v, Running(b), Writes(b, w, v), Runs(mem', Top, Context')
    PROVE  IInv'
<1> USE DEF Writes
<1>1. w \in Words
  BY InWords, Arithmetic DEF Running
<1>2. mem' \in [Words -> Nat]
  BY <1>1 DEF Running
<1>3. ASSUME NEW a \in Words,
             IF Top.eip = USER THEN a \in Normal /\ a >= Top.esp ELSE a \in Normal \/ a >= Top.esp
      PROVE  a # w
  <2>1. CASE Top.eip = USER
    BY <1>3, <2>1, InWords, Arithmetic DEF Running
  <2>2. CASE Top.eip # USER
    BY <1>3, <2>2, InWords, Arithmetic DEF Running
  <2>3. QED
    BY <2>1, <2>2
<1>4. Agree(mem, mem', Top)
  BY <1>3 DEF Agree, Running
<1>5. QED
  BY <1>2, <1>4, UpcallStep DEF Running

LEMMA LoadHandlerStep ==
    ASSUME NEW b, Running(b), LoadHandler
    PROVE  IInv'
<1>1. Runs(mem, Top, Context')
  BY DEF Running, LoadHandler, At, Runs, Position, Context, Lines, HANDLER
<1>2. regs' \in Regs
  BY DEF Running, LoadHandler, Regs, JUNK
<1>3. QED
  BY <1>1, <1>2, QuietStep DEF Running, LoadHandler

LEMMA HandlerPopStep ==
    ASSUME NEW b, Running(b), HandlerPop
    PROVE  IInv'
<1>0. esp <= b - 2 /\ mem[b - 2] = 39
  BY DEF Running, HandlerPop, At, Runs, Position, Context, HANDLER
<1>1. esp # b - 2
  BY <1>0 DEF HandlerPop, SPILL
<1>2. esp + 1 <= b - 2 /\ esp + 1 >= XBOTTOM
  BY <1>0, <1>1, Arithmetic DEF Running, HandlerPop, At, Runs, Position, Context, HANDLER
<1>3. esp' \in Stacks
  BY <1>2, InWords, Arithmetic DEF Running, HandlerPop
<1>4. Runs(mem, Top, Context')
  BY <1>2, Arithmetic DEF Running, HandlerPop, At, Runs, Position, Context, Lines, HANDLER
<1>5. regs' \in Regs
  <2>1. regs.other \in 0 .. 1 /\ 1 - regs.other \in 0 .. 1
    BY DEF Running, Regs
  <2>2. QED
    BY <2>1 DEF Running, HandlerPop, Regs, JUNK
<1>6. QED
  BY <1>3, <1>4, <1>5, QuietStep DEF Running, HandlerPop

LEMMA HandlerReturnStep ==
    ASSUME NEW b, Running(b), HandlerReturn
    PROVE  IInv'
<1>0. esp <= b - 2 /\ (\A a \in esp .. b - 3 : mem[a] = SPILL) /\ esp >= XBOTTOM
  BY DEF Running, HandlerReturn, At, Runs, Position, Context, HANDLER
<1>1. esp = b - 2
  BY <1>0 DEF Running, HandlerReturn, SPILL
<1>3. esp' \in Stacks
  BY <1>1, <1>0, InWords, Arithmetic DEF Running, HandlerReturn
<1>4. Runs(mem, Top, Context')
  BY <1>1, <1>0, Arithmetic DEF Running, HandlerReturn, At, Runs, Position, Context, Lines, HANDLER
<1>6. QED
  BY <1>3, <1>4, QuietStep DEF Running, HandlerReturn

LEMMA PopArgumentStep ==
    ASSUME NEW b, Running(b), PopArgument
    PROVE  IInv'
<1>1. esp = b - 1
  BY DEF Running, PopArgument, AddEsp, At, Runs, Position, Context
<1>2. esp' \in Stacks /\ eflags' = JUNK
  BY <1>1, InWords, Arithmetic DEF Running, PopArgument, AddEsp
<1>3. Runs(mem, Top, Context')
  BY <1>1, Arithmetic DEF Running, PopArgument, AddEsp, At, Runs, Position, Context, Lines, HANDLER
<1>4. QED
  BY <1>2, <1>3, QuietStep DEF Running, PopArgument, AddEsp

LEMMA PopFaultVaErrStep ==
    ASSUME NEW b, Running(b), PopFaultVaErr
    PROVE  IInv'
<1>1. esp = b
  BY DEF Running, PopFaultVaErr, AddEsp, At, Runs, Position, Context
<1>2. esp' \in Stacks /\ eflags' = JUNK
  BY <1>1, InWords, Arithmetic DEF Running, PopFaultVaErr, AddEsp
<1>3. Runs(mem, Top, Context')
  BY <1>1, Arithmetic DEF Running, PopFaultVaErr, AddEsp, At, Runs, Position, Context, Lines, HANDLER
<1>4. QED
  BY <1>2, <1>3, QuietStep DEF Running, PopFaultVaErr, AddEsp

LEMMA SkipEipStep ==
    ASSUME NEW b, Running(b), SkipEip
    PROVE  IInv'
<1>1. esp = b + 10
  BY DEF Running, SkipEip, AddEsp, At, Runs, Position, Context
<1>2. esp' \in Stacks /\ eflags' = JUNK
  BY <1>1, InWords, Arithmetic DEF Running, SkipEip, AddEsp
<1>3. Runs(mem, Top, Context')
  BY <1>1, Arithmetic DEF Running, SkipEip, AddEsp, At, Runs, Position, Context, Lines, HANDLER
<1>4. QED
  BY <1>2, <1>3, QuietStep DEF Running, SkipEip, AddEsp

LEMMA LoadEipEspStep ==
    ASSUME NEW b, Running(b), LoadEipEsp
    PROVE  IInv'
<1>1. esp = b + 2
  BY DEF Running, LoadEipEsp, At, Runs, Position, Context
<1>2. mem[esp + EIP - EDI] = Top.eip /\ mem[esp + ESP - EDI] = Top.esp
  BY <1>1 DEF Running, LoadEipEsp, At, Runs, FrameHolds, Context, EIP, ESP, EDI
<1>3. Top.esp \in Nat /\ Top.esp - 1 \in Nat /\ Top.eip \in Nat
  BY <1>2, Arithmetic, FaultAssumption DEF Running, Trap, Contexts, Lines, USER, HANDLER, XBOTTOM
<1>4. regs'.eax = Top.eip /\ regs'.edx = Top.esp - 1 /\ regs' \in Regs
  BY <1>2, <1>3 DEF Running, LoadEipEsp, Regs
<1>5. Runs(mem, Top, Context')
  <2>1. Position(mem, Top, Context')
    BY <1>1, Arithmetic DEF Running, LoadEipEsp, At, Runs, Position, Context, HANDLER
  <2>2. FrameHolds(mem, Top) /\ mem[Base(Top) + 12] = Top.esp /\ Base(Top) >= XBOTTOM
    BY DEF Running, LoadEipEsp, At, Runs, Context
  <2>3. eip' = 72
    BY DEF LoadEipEsp
  <2>4. QED
    BY <1>4, <2>1, <2>2, <2>3 DEF Runs, Context, Lines
<1>6. QED
  BY <1>4, <1>5, QuietStep DEF Running, LoadEipEsp

LEMMA PopalStep ==
    ASSUME NEW b, Running(b), Popal
    PROVE  IInv'
<1>1. esp = b + 2
  BY DEF Running, Popal, At, Runs, Position, Context
<1>2. regs' = Top.regs /\ Top.regs \in Regs
  <2>1. Top.regs \in Regs
    BY DEF Running, Trap, Contexts
  <2>2. mem[esp] = Top.regs.other /\ mem[esp + EDX - EDI] = Top.regs.edx
        /\ mem[esp + EAX - EDI] = Top.regs.eax
    BY <1>1 DEF Running, Popal, At, Runs, FrameHolds, Context, EDX, EAX, EDI
  <2>3. QED
    BY <2>1, <2>2 DEF Popal, Regs
<1>3. esp' \in Stacks
  BY <1>1, InWords, Arithmetic DEF Running, Popal
<1>4. Runs(mem, Top, Context')
  BY <1>1, <1>2, Arithmetic DEF Running, Popal, At, Runs, Position, Context, Lines, HANDLER
<1>5. QED
  BY <1>2, <1>3, <1>4, QuietStep DEF Running, Popal

LEMMA PopflStep ==
    ASSUME NEW b, Running(b), Popfl
    PROVE  IInv'
<1>1. esp = b + 11
  BY DEF Running, Popfl, At, Runs, Position, Context
<1>2. eflags' = Top.eflags /\ Top.eflags \in {0, 1, JUNK}
  BY <1>1 DEF Running, Popfl, At, Runs, FrameHolds, Context, Trap, Contexts
<1>3. esp' \in Stacks
  BY <1>1, InWords, Arithmetic DEF Running, Popfl
<1>4. Runs(mem, Top, Context')
  BY <1>1, <1>2, Arithmetic DEF Running, Popfl, At, Runs, Position, Context, Lines, HANDLER
<1>5. QED
  BY <1>2, <1>3, <1>4, QuietStep DEF Running, Popfl

LEMMA PopEspStep ==
    ASSUME NEW b, Running(b), PopEsp
    PROVE  IInv'
<1>1. esp = b + 12
  BY DEF Running, PopEsp, At, Runs, Position, Context
<1>2. esp' = Top.esp - 1
  BY <1>1 DEF Running, PopEsp, At, Runs, Context
<1>3. esp' \in Stacks
  BY <1>2, InWords, Arithmetic DEF Running, Stacks
<1>4. Runs(mem, Top, Context')
  BY <1>1, <1>2, Arithmetic DEF Running, PopEsp, At, Runs, Position, Context, Lines, HANDLER
<1>5. QED
  BY <1>3, <1>4, QuietStep DEF Running, PopEsp

\* The three pushes that do not fault: the word goes just below esp.
LEMMA PushArgumentStep ==
    ASSUME NEW b, Running(b), PushArgument, esp # XBOTTOM
    PROVE  IInv'
<1>1. esp = b /\ eip = 36
  BY DEF Running, PushArgument, At, Runs, Position, Context
<1>2. /\ mem' = [mem EXCEPT ![b - 1] = b] /\ esp' = b - 1 /\ eip' = 37
      /\ UNCHANGED <<eflags, regs, setup, alive, ghosts>>
  BY <1>1 DEF PushArgument, Push
<1>3. b - 1 \in Int /\ b - 1 >= XBOTTOM /\ b \in Nat /\ b - 1 \in Words
  BY <1>1, Arithmetic, InWords DEF Running
<1>4. \A a \in Int : a # b - 1 => mem'[a] = mem[a]
  BY <1>2, <1>3 DEF Running
<1>5. FrameHolds(mem', Top) /\ mem'[b + 12] = mem[b + 12]
  BY <1>4 DEF Running, FrameHolds, Runs
<1>6. Position(mem', Top, Context')
  BY <1>2, <1>3, Arithmetic DEF Running, Position, Context, HANDLER
<1>7. Runs(mem', Top, Context')
  BY <1>1, <1>2, <1>5, <1>6 DEF Running, Runs, Context, Lines
<1>8. esp' \in Stacks
  BY <1>2, <1>3, InWords, Arithmetic DEF Running
<1>9. Writes(b, b - 1, b)
  BY <1>2, <1>3, <1>8, Arithmetic DEF Running, Writes
<1>10. QED
  BY <1>7, <1>9, WriteStep

LEMMA CallHandlerStep ==
    ASSUME NEW b, Running(b), CallHandler, esp # XBOTTOM
    PROVE  IInv'
<1>1. esp = b - 1 /\ eip = 38 /\ esp >= XBOTTOM
  BY DEF Running, CallHandler, At, Runs, Position, Context
<1>2. /\ mem' = [mem EXCEPT ![b - 2] = 39] /\ esp' = b - 2 /\ eip' = HANDLER
      /\ UNCHANGED <<eflags, regs, setup, alive, ghosts>>
  BY <1>1 DEF Running, CallHandler, Push
<1>3. b - 2 \in Int /\ b - 2 >= XBOTTOM /\ b - 2 \in Words
  BY <1>1, Arithmetic, InWords DEF Running
<1>4. mem'[b - 2] = 39 /\ \A a \in Int : a # b - 2 => mem'[a] = mem[a]
  BY <1>2, <1>3 DEF Running
<1>5. FrameHolds(mem', Top) /\ mem'[b + 12] = mem[b + 12]
  BY <1>4 DEF Running, FrameHolds, Runs
<1>6. Position(mem', Top, Context')
  BY <1>2, <1>3, <1>4, Arithmetic DEF Running, Position, Context, HANDLER
<1>7. Runs(mem', Top, Context')
  BY <1>1, <1>2, <1>5, <1>6 DEF Running, Runs, Context, Lines, HANDLER
<1>8. esp' \in Stacks
  BY <1>2, <1>3, InWords, Arithmetic DEF Running
<1>9. Writes(b, b - 2, 39)
  BY <1>2, <1>3, <1>8, Arithmetic DEF Running, Writes
<1>10. QED
  BY <1>7, <1>9, WriteStep

LEMMA HandlerPushStep ==
    ASSUME NEW b, Running(b), HandlerPush, esp # XBOTTOM
    PROVE  IInv'
<1>1. /\ esp <= b - 2 /\ mem[b - 2] = 39 /\ eip = HANDLER /\ esp >= XBOTTOM
      /\ \A a \in esp .. b - 3 : mem[a] = SPILL
  BY DEF Running, HandlerPush, At, Runs, Position, Context, HANDLER
<1>2. /\ mem' = [mem EXCEPT ![esp - 1] = SPILL] /\ esp' = esp - 1 /\ eip' = HANDLER
      /\ UNCHANGED <<eflags, regs, setup, alive, ghosts>>
  BY DEF HandlerPush, Push
<1>3. esp \in Int /\ esp - 1 \in Int /\ esp - 1 >= XBOTTOM /\ esp - 1 \in Words
  BY <1>1, Arithmetic, InWords DEF Running
<1>4. mem'[esp - 1] = SPILL /\ \A a \in Int : a # esp - 1 => mem'[a] = mem[a]
  BY <1>2, <1>3 DEF Running
<1>5. FrameHolds(mem', Top) /\ mem'[b + 12] = mem[b + 12]
  BY <1>1, <1>3, <1>4 DEF Running, FrameHolds, Runs
<1>6. Position(mem', Top, Context')
  <2>1. mem'[b - 2] = 39 /\ \A a \in esp - 1 .. b - 3 : mem'[a] = SPILL
    BY <1>1, <1>3, <1>4 DEF Running
  <2>2. QED
    BY <1>1, <1>2, <1>3, <2>1, Arithmetic DEF Running, Position, Context, HANDLER
<1>7. Runs(mem', Top, Context')
  BY <1>1, <1>2, <1>5, <1>6 DEF Running, Runs, Context, Lines, HANDLER
<1>8. esp' \in Stacks
  BY <1>1, <1>2, <1>3, InWords, Arithmetic DEF Running
<1>9. Writes(b, esp - 1, SPILL)
  BY <1>1, <1>2, <1>3, <1>8, Arithmetic DEF Running, SPILL, Writes
<1>10. QED
  BY <1>7, <1>9, WriteStep

\* Line 72 writes the trap-time eip just below the trap-time stack: below the program's
\* stack, or into the word that page_fault_handler left free above the frame.
LEMMA PushEipStep ==
    ASSUME NEW b, Running(b), PushEip
    PROVE  IInv'
<1>1. eip = 72 /\ esp = b + 2 /\ regs.eax = Top.eip /\ regs.edx = Top.esp - 1
  BY DEF Running, PushEip, At, Runs, Position, Context
<1>2. /\ mem' = [mem EXCEPT ![Top.esp - 1] = Top.eip] /\ eip' = 73
      /\ UNCHANGED <<esp, eflags, regs, setup, alive, ghosts>>
  BY <1>1 DEF PushEip
<1>3. Top.eip \in Nat /\ Top.esp - 1 \in Int /\ Top.esp - 1 \in Words
      /\ (Top.esp - 1 < XBOTTOM \/ Top.esp - 1 = b + 13)
  <2>1. Top.eip \in Nat
    BY DEF Running, Trap, Contexts, Lines, USER, HANDLER
  <2>2. CASE Top.eip = USER
    BY <2>1, <2>2, InWords, Arithmetic DEF Running
  <2>3. CASE Top.eip # USER
    BY <2>1, <2>3, InWords, Arithmetic DEF Running
  <2>4. QED
    BY <2>2, <2>3
<1>4. mem'[Top.esp - 1] = Top.eip /\ \A a \in Int : a # Top.esp - 1 => mem'[a] = mem[a]
  BY <1>2, <1>3 DEF Running
<1>5. FrameHolds(mem', Top) /\ mem'[b + 12] = mem[b + 12]
  <2>1. \A a \in b .. b + 12 : mem'[a] = mem[a]
    BY <1>3, <1>4, Arithmetic DEF Running
  <2>2. QED
    BY <2>1 DEF Running, FrameHolds, Runs
<1>6. Position(mem', Top, Context')
  BY <1>1, <1>2, Arithmetic DEF Running, Position, Context, HANDLER
<1>7. Runs(mem', Top, Context')
  BY <1>1, <1>2, <1>4, <1>5, <1>6 DEF Running, Runs, Context, Lines
<1>8. Writes(b, Top.esp - 1, Top.eip)
  BY <1>2, <1>3 DEF Running, Writes
<1>9. QED
  BY <1>7, <1>8, WriteStep

\* Line 73 puts the lowered stack pointer into the frame.
LEMMA StoreEspStep ==
    ASSUME NEW b, Running(b), StoreEsp
    PROVE  IInv'
<1>1. eip = 73 /\ esp = b + 2 /\ regs.edx = Top.esp - 1 /\ mem[Top.esp - 1] = Top.eip
  BY DEF Running, StoreEsp, At, Runs, Position, Context
<1>2. /\ mem' = [mem EXCEPT ![b + 12] = Top.esp - 1] /\ eip' = 78
      /\ UNCHANGED <<esp, eflags, regs, setup, alive, ghosts>>
  <2>1. esp + ESP - EDI = b + 12
    BY <1>1 DEF Running, ESP, EDI
  <2>2. QED
    BY <1>1, <2>1 DEF StoreEsp
<1>3. Top.esp - 1 \in Nat /\ Top.esp - 1 # b + 12 /\ b + 12 \in Words /\ b + 12 \in Int
  <2>1. CASE Top.eip = USER
    BY <2>1, InWords, Arithmetic DEF Running
  <2>2. CASE Top.eip # USER
    BY <2>2, InWords, Arithmetic DEF Running
  <2>3. QED
    BY <2>1, <2>2
<1>4. mem'[b + 12] = Top.esp - 1 /\ \A a \in Int : a # b + 12 => mem'[a] = mem[a]
  BY <1>2, <1>3 DEF Running
<1>5. FrameHolds(mem', Top) /\ mem'[Top.esp - 1] = Top.eip
  BY <1>1, <1>3, <1>4 DEF Running, FrameHolds, Runs
<1>6. Position(mem', Top, Context')
  BY <1>1, <1>2, Arithmetic DEF Running, Position, Context, HANDLER
<1>7. Runs(mem', Top, Context')
  BY <1>1, <1>2, <1>4, <1>5, <1>6 DEF Running, Runs, Context, Lines
<1>8. b + 12 >= XBOTTOM
  BY Arithmetic DEF Running
<1>9. Writes(b, b + 12, Top.esp - 1)
  BY <1>2, <1>3, <1>8 DEF Running, Writes
<1>10. QED
  BY <1>7, <1>9, WriteStep

----------------------------------------------------------------------------
(* The return *)

LEMMA ContextOf ==
    ASSUME NEW c \in Contexts
    PROVE  c = [esp |-> c.esp, eip |-> c.eip, eflags |-> c.eflags, regs |-> c.regs]
  BY DEF Contexts

\* ret leaves the processor as the fault found it.
LEMMA RetContext ==
    ASSUME NEW b, Running(b), Ret
    PROVE  Context' = Top /\ esp' = Top.esp /\ eip' = Top.eip
<1>1. esp = Top.esp - 1 /\ mem[esp] = Top.eip /\ regs = Top.regs /\ eflags = Top.eflags
  BY DEF Running, Ret, At, Runs, Position, Context
<1>2. Top \in Contexts /\ Top.esp \in Int
  BY BaseRange DEF Running, Trap
<1>3. esp' = Top.esp /\ eip' = Top.eip /\ eflags' = Top.eflags /\ regs' = Top.regs
  BY <1>1, <1>2 DEF Ret
<1>4. QED
  BY <1>2, <1>3, ContextOf DEF Context

LEMMA RetStep ==
    ASSUME NEW b, Running(b), Ret
    PROVE  IInv'
<1> DEFINE n == Len(saved)
<1>1. Context' = Top /\ esp' = Top.esp /\ eip' = Top.eip
  BY RetContext
<1>2. /\ saved \in Seq(Entry) /\ saved # <<>> /\ n \in Nat /\ n >= 1
      /\ Nested(saved) /\ Waiting(mem, saved) /\ Kept(mem, saved)
      /\ \A i \in 1 .. n : DOMAIN saved[i].live = LiveAt(saved[i].ctx.esp)
      /\ Trap(Top)
  BY TopFacts DEF Running, IInv, Types, Chain
<1>3. /\ saved' = SubSeq(saved, 1, n - 1) /\ UNCHANGED <<setup, alive, faults, overrun>>
      /\ UNCHANGED <<eflags, regs>>
  BY DEF Ret
<1>4. /\ saved' \in Seq(Entry) /\ Len(saved') = n - 1
      /\ \A i \in 1 .. n - 1 : saved'[i] = saved[i]
  BY <1>2, <1>3, Popped
<1>5. /\ mem' \in [Words -> Nat]
      /\ \A a \in Words : a \in Normal => mem'[a] = mem[a]
      /\ Top.eip # USER => \A a \in Words : a >= Top.esp => mem'[a] = mem[a]
  <2>1. mem' = [a \in Words |->
                  IF a \in Exception /\ (a < Top.esp \/ Top.esp \in Normal \cup {USTACK})
                  THEN 0 ELSE mem[a]]
    BY <1>1 DEF Ret, Running
  <2>2. \A a \in Words : a \in Normal => a \notin Exception
    BY InWords, Arithmetic DEF Normal, Exception
  <2>3. Top.eip # USER => Top.esp \notin Normal \cup {USTACK} /\ Top.esp \in Int
    BY Arithmetic DEF Running, Normal
  <2>4. Top.eip # USER => \A a \in Words : a >= Top.esp => ~(a < Top.esp)
    BY <2>3, InWords
  <2>5. mem' \in [Words -> Nat]
    BY <2>1 DEF Running
  <2>6. QED
    BY <2>1, <2>2, <2>3, <2>4, <2>5
<1>6. Agree(mem, mem', Top)
  BY <1>5 DEF Agree
<1>7. Waiting(mem', saved) /\ Kept(mem', saved)
  BY <1>2, <1>6, ChainAbove DEF Top
<1>8. Nested(saved') /\ Waiting(mem', saved') /\ Kept(mem', saved')
  <2>1. \A i \in 1 .. n - 1 : i \in 1 .. n
    BY <1>2
  <2>2. Nested(saved')
    <3>1. ASSUME NEW i \in 1 .. n - 1
          PROVE  IF i = 1 THEN saved[i].ctx.eip = USER /\ saved[i].ctx.esp \in 1 .. USTACK
                 ELSE saved[i].ctx.eip \in Interruptible /\ saved[i].ctx.esp > XBOTTOM
                        /\ saved[i].ctx.esp < UXSTACKTOP
      BY <1>2, <2>1 DEF Nested
    <3>2. \A i, j \in 2 .. n - 1 : i \in 2 .. n /\ j \in 2 .. n /\ i \in 1 .. n - 1 /\ j \in 1 .. n - 1
      BY <1>2
    <3>3. \A i, j \in 2 .. n - 1 : i < j => saved[j].ctx.esp < saved[i].ctx.esp
      BY <1>2, <3>2 DEF Nested
    <3>4. QED
      BY <3>1, <3>2, <3>3, <1>4 DEF Nested
  <2>3. Waiting(mem', saved')
    <3>1. \A i \in 1 .. (n - 1) - 1 : i \in 1 .. n - 1 /\ i + 1 \in 1 .. n - 1
      BY <1>2
    <3>2. QED
      BY <3>1, <1>4, <1>7 DEF Waiting
  <2>4. Kept(mem', saved')
    BY <2>1, <1>4, <1>7 DEF Kept
  <2>5. QED
    BY <2>2, <2>3, <2>4
<1>9. Now'
  <2>1. CASE n = 1
    <3>1. saved' = <<>>
      BY <2>1, <1>4, EmptySeq
    <3>2. Top.eip = USER /\ Top.esp \in 1 .. USTACK
      BY <2>1, <1>2 DEF Top, Nested
    <3>3. QED
      BY <3>1, <3>2, <1>1 DEF Now
  <2>2. CASE n >= 2
    <3>1. n - 1 \in 1 .. n - 1 /\ n - 1 \in 1 .. n /\ (n - 1) + 1 = n /\ saved' # <<>>
      BY <2>2, <1>2, <1>4, EmptySeq
    <3>2. Runs(mem, saved[n - 1].ctx, Top) /\ Trap(saved[n - 1].ctx)
      BY <3>1, <1>2, AllTraps DEF Waiting, Top
    <3>3. Top.eip \in Interruptible
      BY <2>2, <1>2 DEF Nested, Top
    <3>4. \A a \in Exception : a >= Top.esp => mem'[a] = mem[a]
      BY <3>3, <1>5 DEF Words, Interruptible, USER, HANDLER
    <3>5. Runs(mem', saved[n - 1].ctx, Top)
      BY <3>2, <3>3, <3>4, <1>2, RunsAbove DEF Trap
    <3>6. saved'[Len(saved')].ctx = saved[n - 1].ctx
      BY <3>1, <1>4
    <3>7. QED
      BY <3>1, <3>5, <3>6, <1>1 DEF Now
  <2>3. n = 1 \/ n >= 2
    <3>1. saved \in Seq(Entry) /\ saved # <<>>
      BY <1>2
    <3>2. QED
      BY <3>1, Popped
  <2>4. QED
    BY <2>1, <2>2, <2>3
<1>10. Types'
  <2>1. esp' \in Stacks /\ eip' \in Lines \cup {USER}
    BY <1>1, <1>2 DEF Trap, Contexts
  <2>2. Len(saved') <= faults'
    BY <1>2, <1>3, <1>4 DEF Running, IInv, Types, TypeOK
  <2>3. TypeOK'
    BY <1>3, <1>5, <2>1, <2>2 DEF Running, IInv, Types, TypeOK, setup, Stacks, Lines, Words
  <2>4. \A i \in 1 .. n - 1 : i \in 1 .. n
    BY <1>2
  <2>5. QED
    BY <1>2, <1>4, <1>5, <2>1, <2>3, <2>4 DEF Types
<1>11. QED
  BY <1>3, <1>8, <1>9, <1>10 DEF IInv, Chain, Running

----------------------------------------------------------------------------
(* The fault *)

\* A context may join the chain when it runs the upcall for the last one.
LEMMA ChainPush ==
    ASSUME NEW sv \in Seq(Entry), NEW e \in Entry, NEW m, sv # <<>>,
           Nested(sv), Waiting(m, sv), Kept(m, sv), Runs(m, sv[Len(sv)].ctx, e.ctx),
           e.ctx.eip \in Interruptible, e.ctx.esp > XBOTTOM, e.ctx.esp < UXSTACKTOP,
           \A a \in DOMAIN e.live : m[a] = e.live[a]
    PROVE  Nested(Append(sv, e)) /\ Waiting(m, Append(sv, e)) /\ Kept(m, Append(sv, e))
<1> DEFINE n == Len(sv)
           sw == Append(sv, e)
<1>1. /\ n \in Nat /\ Len(sw) = n + 1 /\ (\A i \in 1 .. n : sw[i] = sv[i]) /\ sw[n + 1] = e
  BY Appended
<1>2. n >= 1 /\ \A i \in 1 .. n : Trap(sv[i].ctx)
  BY Popped, AllTraps
<1>3. e.ctx \in Contexts /\ e.ctx.esp \in Int
  BY Arithmetic DEF Entry, Contexts, Stacks
<1> HIDE DEF n, sw
<1>4. ASSUME NEW i \in 2 .. n
      PROVE  e.ctx.esp < sv[i].ctx.esp
  <2>1. sv[n].ctx.eip \in Interruptible /\ sv[n].ctx.eip # USER /\ n \in 1 .. n /\ n \in 2 .. n
    BY <1>1, <1>2, <1>4 DEF Nested, n, Interruptible, USER, HANDLER
  <2>2. sv[n].ctx.esp = Base(sv[n].ctx) + 14 /\ Base(sv[n].ctx) \in Int
    BY <1>2, <2>1, BaseRange
  <2>3. e.ctx.esp <= Base(sv[n].ctx) + 2
    <3>1. Position(m, sv[n].ctx, e.ctx)
      BY DEF Runs, n
    <3>2. QED
      BY SMTT(60), <1>3, <2>2, <3>1 DEF Position, Interruptible, HANDLER
  <2>4. sv[i].ctx.esp \in Int /\ sv[n].ctx.esp <= sv[i].ctx.esp
    <3>1. sv[i].ctx.esp \in Int
      BY <1>1, <1>2, BaseRange
    <3>2. CASE i = n
      BY <3>1, <3>2
    <3>3. CASE i < n
      BY <2>1, <2>2, <3>1, <3>3 DEF Nested, n
    <3>4. QED
      BY <3>2, <3>3, <1>1
  <2>5. QED
    BY <1>3, <2>2, <2>3, <2>4
<1>5. Nested(sw)
  <2>1. ASSUME NEW i \in 1 .. n + 1
        PROVE  IF i = 1 THEN sw[i].ctx.eip = USER /\ sw[i].ctx.esp \in 1 .. USTACK
               ELSE sw[i].ctx.eip \in Interruptible /\ sw[i].ctx.esp > XBOTTOM
                      /\ sw[i].ctx.esp < UXSTACKTOP
    <3>1. CASE i \in 1 .. n
      BY <3>1, <1>1 DEF Nested, n
    <3>2. CASE i = n + 1
      <4>1. i # 1
        BY <3>2, <1>1, <1>2
      <4>2. QED
        BY <3>2, <4>1, <1>1
    <3>3. QED
      BY <3>1, <3>2, <1>1
  <2>2. ASSUME NEW i \in 2 .. n + 1, NEW j \in 2 .. n + 1, i < j
        PROVE  sw[j].ctx.esp < sw[i].ctx.esp
    <3>1. i \in 2 .. n /\ i \in 1 .. n
      BY <2>2, <1>1
    <3>2. CASE j \in 2 .. n
      <4>1. j \in 1 .. n
        BY <3>2
      <4>2. QED
        BY <2>2, <3>1, <3>2, <4>1, <1>1 DEF Nested, n
    <3>3. CASE j = n + 1
      BY <3>1, <3>3, <1>1, <1>4
    <3>4. QED
      BY <3>2, <3>3, <1>1
  <2>3. QED
    BY <2>1, <2>2, <1>1 DEF Nested
<1>6. Waiting(m, sw)
  <2>1. SUFFICES ASSUME NEW i \in 1 .. n
                 PROVE  Runs(m, sw[i].ctx, sw[i + 1].ctx)
    BY <1>1 DEF Waiting
  <2>2. CASE i = n
    BY <2>2, <1>1 DEF n
  <2>3. CASE i < n
    <3>1. i \in 1 .. n - 1 /\ i + 1 \in 1 .. n
      BY <2>3, <1>1
    <3>2. QED
      BY <3>1, <1>1 DEF Waiting, n
  <2>4. QED
    BY <2>2, <2>3, <1>1
<1>7. Kept(m, sw)
  <2>1. SUFFICES ASSUME NEW i \in 1 .. n + 1
                 PROVE  \A a \in DOMAIN sw[i].live : m[a] = sw[i].live[a]
    BY <1>1 DEF Kept
  <2>2. CASE i \in 1 .. n
    BY <2>2, <1>1 DEF Kept, n
  <2>3. CASE i = n + 1
    BY <2>3, <1>1
  <2>4. QED
    BY <2>2, <2>3, <1>1
<1>8. QED
  BY <1>5, <1>6, <1>7 DEF sw

\* The frame that the kernel builds is where Base says, and holds the trap-time state.
LEMMA FrameBuilt ==
    ASSUME NEW u \in Int, u >= XBOTTOM, u + 14 <= UXSTACKTOP, mem \in [Words -> Nat],
           Context \in Contexts,
           mem' = [a \in DOMAIN mem |->
                     IF a - u \in DOMAIN Frame THEN Frame[a - u] ELSE mem[a]]
    PROVE  /\ mem' \in [Words -> Nat]
           /\ \A a \in Words : ~(u <= a /\ a <= u + 12) => mem'[a] = mem[a]
           /\ mem'[u + 2] = regs.other /\ mem'[u + 7] = regs.edx /\ mem'[u + 9] = regs.eax
           /\ mem'[u + 10] = eip /\ mem'[u + 11] = eflags /\ mem'[u + 12] = esp
<1>1. Frame \in [0 .. 12 -> Nat]
  <2>1. regs.other \in Nat /\ regs.edx \in Nat /\ regs.eax \in Nat /\ eip \in Nat
        /\ eflags \in Nat /\ esp \in Nat
    BY FaultAssumption DEF Context, Contexts, Regs, Lines, Stacks, USER, HANDLER, JUNK, XBOTTOM, UXSTACKTOP
  <2>2. QED
    BY <2>1 DEF Frame, FRAME, EDI, EDX, EAX, EIP, EFLAGS, ESP
<1>2. /\ Frame[2] = regs.other /\ Frame[7] = regs.edx /\ Frame[9] = regs.eax
      /\ Frame[10] = eip /\ Frame[11] = eflags /\ Frame[12] = esp
  BY DEF Frame, FRAME, EDI, EDX, EAX, EIP, EFLAGS, ESP
<1>3. mem' = [a \in Words |-> IF a - u \in 0 .. 12 THEN Frame[a - u] ELSE mem[a]]
  BY <1>1
<1>4. \A a \in Words : a \in Int
  BY InWords
<1>5. ASSUME NEW k \in 0 .. 12
      PROVE  mem'[u + k] = Frame[k]
  <2>1. u + k \in Words /\ (u + k) - u = k
    BY InWords, Arithmetic
  <2>2. QED
    BY <1>3, <2>1
<1>6. mem' \in [Words -> Nat]
  BY <1>1, <1>3
<1>7. \A a \in Words : ~(u <= a /\ a <= u + 12) => mem'[a] = mem[a]
  BY <1>3, <1>4
<1>8. QED
  BY <1>2, <1>5, <1>6, <1>7

\* What page_fault_handler does when the environment survives it.
Survives(e) ==
    /\ esp' = Base(Context) /\ eip' = 36 /\ UNCHANGED <<eflags, regs, setup, alive>>
    /\ Base(Context) >= XBOTTOM
    /\ e = [ctx |-> Context, live |-> [a \in Live |-> mem[a]]]
    /\ saved' = Append(saved, e) /\ faults' = faults + 1 /\ faults < MAXFAULT
    /\ overrun' = (overrun \/ (esp = XBOTTOM /\ eip # USER))
    /\ mem' = [a \in DOMAIN mem |->
                 IF a - Base(Context) \in DOMAIN Frame THEN Frame[a - Base(Context)] ELSE mem[a]]

LEMMA BaseOfContext == Base(Context) = StackTop - Size
  BY DEF Base, Context, StackTop

LEMMA SurvivesOrDies ==
    ASSUME PageFaultHandler
    PROVE  \/ \E e : Survives(e)
           \/ /\ alive' = FALSE /\ UNCHANGED <<mem, cpu, setup, saved, overrun>>
              /\ faults' = faults + 1 /\ faults < MAXFAULT
<1>1. CASE upcall /\ UserMemAssert(StackTop - Size)
  <2>1. Base(Context) >= XBOTTOM
    BY <1>1, BaseOfContext DEF UserMemAssert
  <2>2. Survives([ctx |-> Context, live |-> [a \in Live |-> mem[a]]])
    BY <1>1, <2>1, BaseOfContext DEF PageFaultHandler, Survives
  <2>3. QED
    BY <2>2
<1>2. CASE ~(upcall /\ UserMemAssert(StackTop - Size))
  BY <1>2 DEF PageFaultHandler
<1>3. QED
  BY <1>1, <1>2

\* The types after a fault, wherever it was.
LEMMA FaultTypes ==
    ASSUME IInv, NEW e, Survives(e)
    PROVE  /\ Types' /\ e \in Entry /\ e.ctx = Context /\ DOMAIN e.live = LiveAt(esp)
           /\ \A a \in LiveAt(esp) : e.live[a] = mem[a]
           /\ Context \in Contexts /\ Base(Context) \in Int /\ Base(Context) + 14 <= UXSTACKTOP
<1>1. /\ mem \in [Words -> Nat] /\ saved \in Seq(Entry) /\ Len(saved) \in Nat
      /\ esp \in Stacks /\ esp \in Int /\ TypeOK
      /\ \A i \in 1 .. Len(saved) : DOMAIN saved[i].live = LiveAt(saved[i].ctx.esp)
  BY Arithmetic DEF IInv, Types, Stacks
<1>2. Context \in Contexts
  BY <1>1 DEF TypeOK, Context, Contexts, Lines
<1>3. Base(Context) \in Int /\ Base(Context) + 14 <= UXSTACKTOP
  BY <1>1, Arithmetic DEF Base, Context, Size, FRAME
<1>4. Live = LiveAt(esp)
  BY DEF Live, LiveAt, Words
<1>5. /\ e.ctx = Context /\ e.live = [a \in LiveAt(esp) |-> mem[a]]
  BY <1>4 DEF Survives
<1>6. e \in Entry
  <2>1. e.live \in [LiveAt(esp) -> Nat]
    BY <1>1, <1>5 DEF LiveAt
  <2>2. LiveAt(esp) \in SUBSET Words
    BY DEF LiveAt
  <2>3. e.live \in UNION {[A -> Nat] : A \in SUBSET Words}
    BY <2>1, <2>2
  <2>4. QED
    BY <1>2, <1>4, <2>3 DEF Survives, Entry
<1>7. /\ saved' \in Seq(Entry) /\ Len(saved') = Len(saved) + 1
      /\ (\A i \in 1 .. Len(saved) : saved'[i] = saved[i]) /\ saved'[Len(saved) + 1] = e
  BY <1>1, <1>6, Appended DEF Survives
<1>8. \A i \in 1 .. Len(saved') : DOMAIN saved'[i].live = LiveAt(saved'[i].ctx.esp)
  <2>1. TAKE i \in 1 .. Len(saved')
  <2>2. CASE i \in 1 .. Len(saved)
    BY <2>2, <1>1, <1>7
  <2>3. CASE i = Len(saved) + 1
    <3>1. Context.esp = esp
      BY DEF Context
    <3>2. QED
      BY <2>3, <3>1, <1>5, <1>7
  <2>4. QED
    BY <2>2, <2>3, <1>1, <1>7
<1>9. mem' \in [Words -> Nat]
  BY <1>1, <1>2, <1>3, FrameBuilt DEF Survives
<1>10. esp' \in Stacks
  BY <1>3, InWords, Arithmetic DEF Survives
<1>11. Len(saved') <= faults' /\ faults' \in 0 .. MAXFAULT
  BY <1>1, <1>7, FaultAssumption DEF TypeOK, Survives
<1>12. overrun' \in BOOLEAN
  BY DEF Survives
<1>13. TypeOK'
  BY <1>1, <1>9, <1>10, <1>11, <1>12 DEF TypeOK, Survives, setup, Stacks, Words
<1>14. QED
  BY <1>2, <1>3, <1>5, <1>6, <1>7, <1>8, <1>9, <1>10, <1>13 DEF Types

\* The upcall starts with a frame that holds the trap-time state.
LEMMA UpcallStarts ==
    ASSUME IInv, NEW e, Survives(e)
    PROVE  Runs(mem', Context, Context')
<1> DEFINE u == Base(Context)
<1>1. u \in Int /\ u >= XBOTTOM /\ u + 14 <= UXSTACKTOP /\ Context \in Contexts
  BY FaultTypes DEF Survives
<1>2. mem \in [Words -> Nat]
  BY DEF IInv, Types
<1>3. /\ mem'[u + 2] = regs.other /\ mem'[u + 7] = regs.edx /\ mem'[u + 9] = regs.eax
      /\ mem'[u + 10] = eip /\ mem'[u + 11] = eflags /\ mem'[u + 12] = esp
  BY <1>1, <1>2, FrameBuilt DEF Survives
<1>4. /\ Context.esp = esp /\ Context.eip = eip /\ Context.eflags = eflags /\ Context.regs = regs
      /\ (Context').eip = 36 /\ (Context').esp = u
  BY DEF Context, Survives
<1> HIDE DEF u
<1>5. FrameHolds(mem', Context) /\ mem'[Base(Context) + 12] = Context.esp
  BY <1>3, <1>4 DEF FrameHolds, u
<1>6. Position(mem', Context, Context')
  BY <1>1, <1>4 DEF Position, HANDLER, u
<1>7. QED
  BY <1>1, <1>4, <1>5, <1>6 DEF Runs, Lines, u

\* page_fault_handler keeps the invariant: the environment dies, the exception stack is
\* overrun, or the interrupted context joins the chain.
LEMMA PageFaultStep ==
    ASSUME IInv, alive, ~overrun, PageFaultHandler,
           eip = USER \/ eip \in Interruptible \/ (eip # USER /\ esp = XBOTTOM)
    PROVE  IInv'
<1>1. ASSUME alive' = FALSE, UNCHANGED <<mem, cpu, setup, saved, overrun>>,
             faults' = faults + 1, faults < MAXFAULT
      PROVE  IInv'
  <2>1. Len(saved') <= faults' /\ faults' \in 0 .. MAXFAULT
    BY <1>1, FaultAssumption DEF IInv, Types, TypeOK
  <2>2. TypeOK'
    BY ZenonT(60), <1>1, <2>1 DEF IInv, Types, TypeOK, cpu, setup
  <2>3. QED
    BY <1>1, <2>2 DEF IInv, Types, cpu
<1>2. ASSUME NEW e, Survives(e)
      PROVE  IInv'
  <2>0. /\ Types' /\ e \in Entry /\ e.ctx = Context /\ DOMAIN e.live = LiveAt(esp)
        /\ \A a \in LiveAt(esp) : e.live[a] = mem[a]
        /\ Context \in Contexts /\ Base(Context) \in Int /\ Base(Context) + 14 <= UXSTACKTOP
        /\ Base(Context) >= XBOTTOM
    BY <1>2, FaultTypes DEF Survives
  <2>1. Runs(mem', Context, Context')
    BY <1>2, UpcallStarts
  <2>2. /\ saved \in Seq(Entry) /\ Nested(saved) /\ Waiting(mem, saved) /\ Kept(mem, saved)
        /\ \A i \in 1 .. Len(saved) : DOMAIN saved[i].live = LiveAt(saved[i].ctx.esp)
        /\ mem \in [Words -> Nat] /\ Now
    BY DEF IInv, Types, Chain
  <2>3. eip' = 36 /\ saved' = Append(saved, e)
        /\ (overrun' <=> (esp = XBOTTOM /\ eip # USER)) /\ alive'
    BY <1>2 DEF Survives
  <2>4. \A a \in Words : ~(Base(Context) <= a /\ a <= Base(Context) + 12) => mem'[a] = mem[a]
    BY <1>2, <2>0, <2>2, FrameBuilt DEF Survives
  <2>5. Context.esp = esp /\ Context.eip = eip
    BY DEF Context
  <2>6. Len(saved) \in Nat /\ Len(saved') = Len(saved) + 1 /\ saved'[Len(saved) + 1] = e
        /\ saved' \in Seq(Entry)
    BY <2>0, <2>2, <2>3, Appended
  <2>7. Now'
    <3>1. saved' # <<>>
      BY <2>6, EmptySeq
    <3>2. saved'[Len(saved')].ctx = Context
      BY <2>0, <2>6
    <3>3. QED
      BY <3>1, <3>2, <2>1 DEF Now
  <2>8. CASE esp = XBOTTOM /\ eip # USER
    BY <2>8, <2>0, <2>3 DEF IInv
  <2>9. CASE eip = USER
    <3>1. saved = <<>> /\ esp \in 1 .. USTACK
      <4>1. CASE saved = <<>>
        BY <4>1, <2>2 DEF Now
      <4>2. CASE saved # <<>>
        BY <4>2, <2>2, <2>5, <2>9 DEF Now, Runs, Lines, HANDLER, USER
      <4>3. QED
        BY <4>1, <4>2
    <3>2. Len(saved) = 0
      BY <3>1, EmptySeq
    <3>3. Len(saved') = 1 /\ saved'[1] = e
      BY <2>6, <3>2
    <3>4. Nested(saved')
      <4>1. \A i \in 1 .. 1 : i = 1
        OBVIOUS
      <4>2. \A i \in 2 .. 1 : FALSE
        OBVIOUS
      <4>3. QED
        BY <4>1, <4>2, <3>1, <3>3, <2>0, <2>5, <2>9 DEF Nested
    <3>5. Waiting(mem', saved')
      <4>1. \A i \in 1 .. 1 - 1 : FALSE
        OBVIOUS
      <4>2. QED
        BY <4>1, <3>3 DEF Waiting
    <3>6. Kept(mem', saved')
      <4>1. ASSUME NEW a \in LiveAt(esp)
            PROVE  mem'[a] = mem[a]
        <5>1. a \in Words /\ a \in Normal /\ a \in Int /\ a < USTACK
          BY <3>1, InWords, Arithmetic DEF LiveAt, Normal, Exception
        <5>2. QED
          BY <5>1, <2>0, <2>4, Arithmetic
      <4>2. \A i \in 1 .. 1 : i = 1
        OBVIOUS
      <4>3. QED
        BY <4>1, <4>2, <3>3, <2>0 DEF Kept
    <3>7. QED
      BY <3>4, <3>5, <3>6, <2>0, <2>3, <2>7, <2>9 DEF IInv, Chain
  <2>10. CASE eip \in Interruptible /\ esp # XBOTTOM
    <3>1. eip # USER
      BY <2>10 DEF Interruptible, USER, HANDLER
    <3>2. Running(Base(Top)) /\ saved # <<>> /\ Runs(mem, Top, Context)
      BY <3>1, StartsFrom, TopFacts
    <3> DEFINE b == Base(Top)
    <3>3. /\ b \in Int /\ b + 14 <= UXSTACKTOP /\ esp \in Int /\ Position(mem, Top, Context)
          /\ (Top.eip # USER => Top.esp = b + 14) /\ Trap(Top)
      BY <3>2 DEF Running, Runs
    <3>4. esp > XBOTTOM /\ esp <= b + 2
      BY <2>5, <2>10, <3>3, Arithmetic DEF Position, Interruptible, HANDLER
    <3>5. esp < UXSTACKTOP
      BY <3>3, <3>4, Arithmetic
    <3>6. Base(Context) = esp - 14
      BY <3>3, <3>4, <3>5, <2>5 DEF Base, Size, FRAME
    <3>7. \A a \in Words : a \in Normal \/ a >= esp => mem'[a] = mem[a]
      <4>1. SUFFICES ASSUME NEW a \in Words, a \in Normal \/ a >= esp
                     PROVE  ~(Base(Context) <= a /\ a <= Base(Context) + 12)
        BY <2>4
      <4>2. a \in Int /\ (a < USTACK \/ a >= esp)
        BY <4>1, InWords, Arithmetic DEF Normal
      <4>3. QED
        BY <4>2, <3>3, <3>6, <2>0, Arithmetic
    <3>8. Agree(mem, mem', Top)
      <4>1. SUFFICES ASSUME NEW a \in Words, Top.eip # USER, a >= Top.esp
                     PROVE  a >= esp
        BY <3>7 DEF Agree
      <4>2. a \in Int
        BY InWords
      <4>3. QED
        BY <4>1, <4>2, <3>3, <3>4
    <3>9. Waiting(mem', saved) /\ Kept(mem', saved)
      BY <3>2, <3>8, <2>2, ChainAbove DEF Top
    <3>10. Runs(mem', Top, Context)
      <4>1. \A a \in Exception : a >= Context.esp => mem'[a] = mem[a]
        BY <3>7, <2>5 DEF Words
      <4>2. QED
        BY <4>1, <3>2, <3>3, <2>0, <2>5, <2>10, RunsAbove
    <3>11. \A a \in DOMAIN e.live : mem'[a] = e.live[a]
      BY <2>0, <3>7 DEF LiveAt
    <3>12. Nested(saved') /\ Waiting(mem', saved') /\ Kept(mem', saved')
      BY <2>0, <2>2, <2>3, <2>5, <2>10, <3>2, <3>4, <3>5, <3>9, <3>10, <3>11, ChainPush DEF Top
    <3>13. QED
      BY <3>12, <2>0, <2>3, <2>7, <2>10 DEF IInv, Chain
  <2>11. QED
    BY <2>8, <2>9, <2>10
<1>3. QED
  BY <1>1, <1>2, SurvivesOrDies

----------------------------------------------------------------------------
(* The theorems *)

LEMMA InitInvariant == Init => IInv
<1> SUFFICES ASSUME Init PROVE IInv
  OBVIOUS
<1>1. saved \in Seq(Entry) /\ Len(saved) = 0 /\ faults = 0 /\ overrun = FALSE
  BY DEF Init
<1>2. mem \in [Words -> Nat]
  <2>1. \A a \in Normal : 100 + a \in Nat
    BY FaultAssumption DEF Normal
  <2>2. QED
    BY <2>1 DEF Init, Words
<1>3. esp \in Stacks /\ esp \in 1 .. USTACK
  BY FaultAssumption DEF Init, Stacks
<1>4. TypeOK
  <2>1. regs \in Regs /\ eflags \in {0, 1, JUNK} /\ eip = USER
    BY DEF Init, Regs
  <2>2. upcall \in BOOLEAN /\ xmapped \in BOOLEAN /\ alive \in BOOLEAN /\ overrun \in BOOLEAN
    BY DEF Init
  <2>3. faults \in 0 .. MAXFAULT /\ Len(saved) <= faults
    BY <1>1, FaultAssumption
  <2>4. QED
    BY <1>2, <1>3, <2>1, <2>2, <2>3 DEF TypeOK, Words, Stacks
<1>5. \A i \in 1 .. 0 : FALSE
  OBVIOUS
<1>6. \A i \in 2 .. 0 : FALSE
  OBVIOUS
<1>7. \A i \in 1 .. 0 - 1 : FALSE
  OBVIOUS
<1>8. Nested(saved) /\ Waiting(mem, saved) /\ Kept(mem, saved)
  BY <1>1, <1>5, <1>6, <1>7 DEF Nested, Waiting, Kept
<1>9. Now
  BY <1>3 DEF Now, Init
<1>10. QED
  BY <1>1, <1>2, <1>3, <1>4, <1>5, <1>8, <1>9 DEF IInv, Types, Chain

\* The program, while no upcall runs: no context waits.
LEMMA ProgramStep ==
    ASSUME IInv, alive, eip = USER, eip' = USER, UNCHANGED <<mem, alive, ghosts>>,
           esp' \in 1 .. USTACK, eflags' \in {0, 1, JUNK}, regs' \in Regs,
           upcall' \in BOOLEAN, xmapped' \in BOOLEAN
    PROVE  IInv'
<1>1. ~overrun
  BY DEF IInv, USER
<1>2. saved = <<>>
  <2>1. CASE saved # <<>>
    BY <2>1, <1>1 DEF IInv, Chain, Now, Runs, Context, Lines, HANDLER, USER
  <2>2. QED
    BY <2>1
<1>3. Now'
  BY <1>2 DEF Now, ghosts
<1>4. Chain'
  BY <1>1, <1>3 DEF IInv, Chain, ghosts
<1>5. esp' \in Stacks
  BY Arithmetic DEF Stacks
<1>6. TypeOK'
  BY <1>5 DEF IInv, Types, TypeOK, ghosts, Stacks
<1>7. QED
  BY <1>1, <1>4, <1>5, <1>6 DEF IInv, Types, ghosts

LEMMA ProgramStart ==
    ASSUME IInv, alive, eip = USER
    PROVE  /\ ~overrun /\ esp \in 1 .. USTACK /\ eflags \in {0, 1, JUNK} /\ regs \in Regs
           /\ upcall \in BOOLEAN /\ xmapped \in BOOLEAN
<1>1. ~overrun
  BY DEF IInv, USER
<1>2. saved = <<>>
  <2>1. CASE saved # <<>>
    BY <2>1, <1>1 DEF IInv, Chain, Now, Runs, Context, Lines, HANDLER, USER
  <2>2. QED
    BY <2>1
<1>3. QED
  BY <1>1, <1>2 DEF IInv, Types, TypeOK, Chain, Now

LEMMA UpcallKeeps ==
    ASSUME IInv, ~overrun, Upcall
    PROVE  IInv'
<1>1. alive /\ eip # USER
  BY DEF Upcall, PushArgument, LoadHandler, CallHandler, HandlerPush, HandlerPop, HandlerReturn,
     PopArgument, PopFaultVaErr, LoadEipEsp, PushEip, StoreEsp, Popal, SkipEip, Popfl, PopEsp,
     Ret, AddEsp, At, USER, HANDLER
<1>2. Running(Base(Top))
  BY <1>1, StartsFrom
<1>3. CASE PushArgument \/ CallHandler \/ HandlerPush
  <2>1. CASE esp = XBOTTOM
    <3>1. PageFaultHandler
      BY <1>3, <2>1 DEF PushArgument, CallHandler, HandlerPush, Push
    <3>2. QED
      BY <1>1, <2>1, <3>1, PageFaultStep
  <2>2. CASE esp # XBOTTOM
    BY <1>2, <1>3, <2>2, PushArgumentStep, CallHandlerStep, HandlerPushStep
  <2>3. QED
    BY <2>1, <2>2
<1>4. CASE LoadHandler \/ HandlerPop \/ HandlerReturn \/ PopArgument \/ PopFaultVaErr
  BY <1>2, <1>4, LoadHandlerStep, HandlerPopStep, HandlerReturnStep, PopArgumentStep,
     PopFaultVaErrStep
<1>5. CASE LoadEipEsp \/ PushEip \/ StoreEsp \/ Popal \/ SkipEip
  BY <1>2, <1>5, LoadEipEspStep, PushEipStep, StoreEspStep, PopalStep, SkipEipStep
<1>6. CASE Popfl \/ PopEsp \/ Ret
  BY <1>2, <1>6, PopflStep, PopEspStep, RetStep
<1>7. QED
  BY <1>3, <1>4, <1>5, <1>6 DEF Upcall

LEMMA NextKeeps == IInv /\ [Next]_vars => IInv'
<1> SUFFICES ASSUME IInv, [Next]_vars PROVE IInv'
  OBVIOUS
<1>1. CASE UserStep
  <2>1. alive /\ eip = USER /\ eip' = USER /\ UNCHANGED <<mem, alive, ghosts, upcall, xmapped>>
    BY <1>1 DEF UserStep, setup
  <2>2. esp' \in 1 .. USTACK /\ eflags' \in {0, 1, JUNK}
    BY <1>1 DEF UserStep
  <2>3. regs' \in Regs
    <3>1. PICK o \in 0 .. 1 : regs' = [regs EXCEPT !.other = o]
      BY <1>1 DEF UserStep
    <3>2. QED
      BY <3>1, <2>1, ProgramStart DEF Regs
  <2>4. QED
    BY <2>1, <2>2, <2>3, ProgramStart, ProgramStep
<1>2. CASE SetPgfaultHandler \/ SysEnvSetPgfaultUpcall
  <2>1. alive /\ eip = USER /\ UNCHANGED <<mem, alive, ghosts, esp, eip, eflags, regs>>
        /\ upcall' = TRUE /\ (xmapped' = TRUE \/ xmapped' = xmapped)
    BY <1>2 DEF SetPgfaultHandler, SysEnvSetPgfaultUpcall, cpu
  <2>2. QED
    BY <2>1, ProgramStart, ProgramStep
<1>3. CASE Fault
  <2>1. alive /\ PageFaultHandler /\ (eip = USER \/ eip \in Interruptible) /\ ~overrun
    BY <1>3 DEF Fault, Interruptible, IInv, USER, HANDLER
  <2>2. QED
    BY <2>1, PageFaultStep
<1>4. CASE ~overrun /\ Upcall
  BY <1>4, UpcallKeeps
<1>5. CASE UNCHANGED vars
  <2>1. /\ mem' = mem /\ esp' = esp /\ eip' = eip /\ eflags' = eflags /\ regs' = regs
        /\ upcall' = upcall /\ xmapped' = xmapped /\ alive' = alive /\ saved' = saved
        /\ faults' = faults /\ overrun' = overrun
    BY <1>5 DEF vars, cpu, setup, ghosts
  <2>2. TypeOK' /\ Types'
    BY <2>1 DEF IInv, Types, TypeOK
  <2>3. Chain <=> Chain'
    BY <2>1 DEF Chain, Now, Context
  <2>4. QED
    BY <2>1, <2>2, <2>3 DEF IInv
<1>6. QED
  BY <1>1, <1>2, <1>3, <1>4, <1>5 DEF Next

LEMMA InvariantHolds == Spec => []IInv
  BY InitInvariant, NextKeeps, PTL DEF Spec

\* No context that a fault interrupted loses a word to the kernel's frames or to the
\* word that pfentry.S pushes on the trap-time stack, and the stack pointer never leaves
\* the stacks: for every size of the stacks and at every depth of nesting.
THEOREM InterruptedStacksKept == Spec => []FaultInv
<1>1. IInv => FaultInv
  BY DEF IInv, Types, Chain, Kept, FaultInv, LiveWordsKept
<1>2. QED
  BY <1>1, InvariantHolds, PTL

\* The upcall returns to the trap-time state: the ret at pfentry.S:93 is the only way
\* out of its last line, and leaves esp, eip, eflags and every register as the fault
\* found them.
THEOREM ReturnsToTrapTimeState == Spec => RestoresTrapTimeState
<1>1. ASSUME IInv, [Next]_vars, At(93), eip' # 93
      PROVE  saved[Len(saved)].ctx = [esp |-> esp', eip |-> eip', eflags |-> eflags', regs |-> regs']
  <2>1. alive /\ eip = 93 /\ ~overrun
    BY <1>1 DEF At, IInv
  <2>2. Ret
    <3>1. ~UNCHANGED vars
      BY <1>1, <2>1 DEF vars, cpu
    <3>2. ~UserStep /\ ~SetPgfaultHandler /\ ~SysEnvSetPgfaultUpcall /\ ~Fault
      BY <2>1 DEF UserStep, SetPgfaultHandler, SysEnvSetPgfaultUpcall, Fault, USER, HANDLER
    <3>3. /\ ~PushArgument /\ ~LoadHandler /\ ~CallHandler /\ ~HandlerPush /\ ~HandlerPop
          /\ ~HandlerReturn /\ ~PopArgument /\ ~PopFaultVaErr
      BY <2>1 DEF PushArgument, LoadHandler, CallHandler, HandlerPush, HandlerPop, HandlerReturn,
         PopArgument, PopFaultVaErr, AddEsp, At, HANDLER
    <3>4. /\ ~LoadEipEsp /\ ~PushEip /\ ~StoreEsp /\ ~Popal /\ ~SkipEip /\ ~Popfl /\ ~PopEsp
      BY <2>1 DEF LoadEipEsp, PushEip, StoreEsp, Popal, SkipEip, Popfl, PopEsp, AddEsp, At
    <3>5. QED
      BY <1>1, <3>1, <3>2, <3>3, <3>4 DEF Next, Upcall
  <2>3. Running(Base(Top))
    BY <1>1, <2>1, StartsFrom DEF USER
  <2>4. QED
    BY <2>2, <2>3, RetContext DEF Context, Top
<1>2. IInv /\ [Next]_vars =>
        [At(93) /\ eip' # 93 => saved[Len(saved)].ctx =
           [esp |-> esp', eip |-> eip', eflags |-> eflags', regs |-> regs']]_vars
  BY <1>1
<1>3. QED
  BY <1>2, InvariantHolds, PTL DEF Spec, RestoresTrapTimeState
=============================================================================
