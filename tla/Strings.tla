------------------------------ MODULE Strings -------------------------------
(***************************************************************************)
(* lib/string.c and lib/printfmt.c: copying, numbers in text, and printf,  *)
(* as the kernel and user programs share them, with the two ways in which  *)
(* user programs collect the characters.  Only TLC uses this module.       *)
(*                                                                         *)
(* A character is a number: a digit or a small letter is its value as a    *)
(* digit (so d is 13 and x is 33), the others are above.                   *)
(***************************************************************************)
EXTENDS Integers, Sequences, SequencesExt

CONSTANTS
    WORD,               \* bytes that movsl moves: 4
    UINT,               \* numbers that an unsigned int tells apart: 2^32
    PRINTBUF            \* the buffer of a user program's cprintf: 256

ASSUME StringsAssumption == {WORD, UINT, PRINTBUF} \subseteq Nat /\ WORD > 0 /\ PRINTBUF > 1

SP == 100
PLUS == 101
MINUS == 102
PERCENT == 103
DOT == 104
STAR == 105
HASH == 106
QUESTION == 107
NUL == 108

\* The character at position i, where a string ends with a NUL.
CharAt(s, i) == IF i <= Len(s) THEN s[i] ELSE NUL

Fill(n, ch) == [i \in 1 .. n |-> ch]

----------------------------------------------------------------------------
(* lib/string.c *)

\* Mutant of Backward: the copy always goes upwards.
BackwardNever(dst, src, n) == FALSE

\* The regions overlap, and the destination is the upper one.
Backward(dst, src, n) == src < dst /\ src + n > dst

\* memmove, one word or one byte at a time.
Memmove(mem, dst, src, n) ==
    LET unit == IF src % WORD = 0 /\ dst % WORD = 0 /\ n % WORD = 0 THEN WORD ELSE 1
        count == n \div unit
        order == [k \in 1 .. count |->
                    IF Backward(dst, src, n) THEN unit * (count - k) ELSE unit * (k - 1)]
        MoveUnit(m, i) ==
            [a \in DOMAIN m |-> IF a \in dst + i .. dst + i + unit - 1 THEN m[a - dst + src] ELSE m[a]]
    IN  FoldLeft(MoveUnit, mem, order)

RECURSIVE Digits(_, _, _, _), SkipSpace(_, _)

\* The digits of s from i on, after val.
Digits(s, i, base, val) ==
    IF CharAt(s, i) < base THEN Digits(s, i + 1, base, val * base + CharAt(s, i)) ELSE val

SkipSpace(s, i) == IF CharAt(s, i) = SP THEN SkipSpace(s, i + 1) ELSE i

Strtol(s, base) ==
    LET start == SkipSpace(s, 1)
        neg == CharAt(s, start) = MINUS
        signed == IF CharAt(s, start) \in {PLUS, MINUS} THEN start + 1 ELSE start
        hex == base \in {0, 16} /\ CharAt(s, signed) = 0 /\ CharAt(s, signed + 1) = 33
        val == IF hex THEN Digits(s, signed + 2, 16, 0)
               ELSE IF base # 0 THEN Digits(s, signed, base, 0)
               ELSE IF CharAt(s, signed) = 0 THEN Digits(s, signed + 1, 8, 0)
               ELSE Digits(s, signed, 10, 0)
    IN  IF neg THEN -val ELSE val

----------------------------------------------------------------------------
(* lib/printfmt.c *)

RECURSIVE Printnum(_, _, _, _), Number(_, _, _), Directive(_, _, _, _, _), Vprintfmt(_, _, _)

\* What printnum pads with before the first digit.
PadBefore(width, padc) == Fill(IF width > 1 THEN width - 1 ELSE 0, padc)

Printnum(num, base, width, padc) ==
    (IF num >= base THEN Printnum(num \div base, base, width - 1, padc)
     ELSE PadBefore(width, padc)) \o <<num % base>>

\* "error %d", and a message for each known number.
Error(err) == IF err \in 1 .. 8 THEN <<200 + err>>
              ELSE <<14, 27, 27, 24, 27, SP>> \o Printnum(err, 10, -1, SP)

\* A width or a precision: its value, and where it ends.
Number(fmt, i, val) ==
    IF CharAt(fmt, i) \in 0 .. 9 THEN Number(fmt, i + 1, 10 * val + CharAt(fmt, i))
    ELSE [val |-> val, next |-> i]

\* Mutant of SetPrecision: the number stays the precision when it is the width.
SetPrecisionBoth(fl, val) ==
    IF fl.width < 0 THEN [fl EXCEPT !.width = val, !.prec = val] ELSE [fl EXCEPT !.prec = val]

\* process_precision.
SetPrecision(fl, val) ==
    IF fl.width < 0 THEN [fl EXCEPT !.width = val, !.prec = -1] ELSE [fl EXCEPT !.prec = val]

\* %s: the precision bounds the text, and '-' puts the padding after it.
Text(fl, s) ==
    LET len == IF fl.prec < 0 \/ fl.prec > Len(s) THEN Len(s) ELSE fl.prec
        body == [i \in 1 .. len |-> IF fl.alt /\ s[i] >= NUL THEN QUESTION ELSE s[i]]
        pad == IF fl.width > len THEN fl.width - len ELSE 0
    IN  IF fl.padc = MINUS THEN body \o Fill(pad, SP) ELSE Fill(pad, fl.padc) \o body

Signed(num, base, fl) ==
    (IF num < 0 THEN <<MINUS>> ELSE <<>>)
    \o Printnum(IF num < 0 THEN -num ELSE num, base, fl.width, fl.padc)

\* An unknown conversion at i: what follows the percent sign, from first on, is
\* printed as it is.
Literal(first, i) == first

\* From the character at i of a conversion that began at first, with the flags so
\* far: what is printed, where the format goes on, and the arguments left.
Directive(fmt, first, i, fl, args) ==
    LET ch == CharAt(fmt, i)
        Flag(new) == Directive(fmt, first, i + 1, new, args)
        Emit(out) == [out |-> out, next |-> i + 1, args |-> Tail(args)]
    IN  CASE ch = MINUS -> Flag([fl EXCEPT !.padc = MINUS])
          [] ch = 0 -> Flag([fl EXCEPT !.padc = 0])
          [] ch \in 1 .. 9 ->
               LET n == Number(fmt, i, 0)
               IN  Directive(fmt, first, n.next, SetPrecision(fl, n.val), args)
          [] ch = STAR -> Directive(fmt, first, i + 1, SetPrecision(fl, Head(args)), Tail(args))
          [] ch = DOT -> Flag([fl EXCEPT !.width = IF fl.width < 0 THEN 0 ELSE fl.width])
          [] ch = HASH -> Flag([fl EXCEPT !.alt = TRUE])
          [] ch = 21 -> Flag(fl)                                        \* 'l'
          [] ch = 12 -> Emit(<<Head(args)>>)                           \* 'c'
          [] ch = 14 -> Emit(Error(IF Head(args) < 0 THEN -Head(args) ELSE Head(args)))
          [] ch = 28 -> Emit(Text(fl, Head(args)))                     \* 's'
          [] ch = 13 -> Emit(Signed(Head(args), 10, fl))               \* 'd'
          [] ch = 24 -> Emit(Signed(Head(args), 8, fl))                \* 'o'
          [] ch = 30 -> Emit(Printnum(Head(args) % UINT, 10, fl.width, fl.padc))
          [] ch = 33 -> Emit(Printnum(Head(args) % UINT, 16, fl.width, fl.padc))
          [] ch = 25 -> Emit(<<0, 33>> \o Printnum(Head(args) % UINT, 16, fl.width, fl.padc))
          [] ch = PERCENT -> [out |-> <<PERCENT>>, next |-> i + 1, args |-> args]
          [] OTHER -> [out |-> <<PERCENT>>, next |-> Literal(first, i), args |-> args]

\* What vprintfmt gives to putch.
Vprintfmt(fmt, i, args) ==
    IF i > Len(fmt) THEN <<>>
    ELSE IF fmt[i] # PERCENT THEN <<fmt[i]>> \o Vprintfmt(fmt, i + 1, args)
    ELSE LET d == Directive(fmt, i + 1, i + 1, [padc |-> SP, width |-> -1, prec |-> -1, alt |-> FALSE], args)
         IN  d.out \o Vprintfmt(fmt, d.next, d.args)

----------------------------------------------------------------------------
(* Where the characters go *)

\* ebuf of vsnprintf.
Room(n) == n - 1

\* vsnprintf into a buffer of n: what it returns (-1 for E_INVAL), and the buffer.
Vsnprintf(text, n) ==
    LET Sprintputch(b, ch) ==
            [cnt |-> b.cnt + 1, buf |-> IF Len(b.buf) < Room(n) THEN Append(b.buf, ch) ELSE b.buf]
        b == FoldLeft(Sprintputch, [cnt |-> 0, buf |-> <<>>], text)
    IN  IF n < 1 THEN [ret |-> -1, buf |-> <<>>]
        ELSE [ret |-> b.cnt, buf |-> Append(b.buf, NUL)]

\* When putch of lib/printf.c calls sys_cputs.
FlushAt(idx) == idx = PRINTBUF - 1

\* cprintf of a user program: the calls of sys_cputs it makes.
Cprintf(text) ==
    LET Putch(b, ch) ==
            LET buf == Append(b.buf, ch)
            IN  IF FlushAt(Len(buf)) THEN [buf |-> <<>>, calls |-> Append(b.calls, buf)]
                ELSE [buf |-> buf, calls |-> b.calls]
        b == FoldLeft(Putch, [buf |-> <<>>, calls |-> <<>>], text)
    IN  Append(b.calls, b.buf)
=============================================================================
