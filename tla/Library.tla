------------------------------ MODULE Library -------------------------------
(***************************************************************************)
(* Runs the routines of Strings and Routines on all small inputs, and      *)
(* compares each result with what the routine is for.  A behaviour is one  *)
(* call: its arguments, and then its result.                               *)
(***************************************************************************)
EXTENDS Strings, Routines

CONSTANTS
    MEMORY,             \* bytes of memory for memmove
    MAXNUM,             \* numbers to print
    MAXTEXT             \* characters to print

ASSUME LibraryAssumption == {MEMORY, MAXNUM, MAXTEXT} \subseteq Nat

VARIABLES in, out, done
vars == <<in, out, done>>

----------------------------------------------------------------------------
(* Inputs *)

Moves == {[call |-> "memmove", dst |-> d, src |-> s, n |-> n] :
            d \in 0 .. MEMORY, s \in 0 .. MEMORY, n \in 0 .. MEMORY}
MoveInputs == {m \in Moves : m.dst + m.n <= MEMORY /\ m.src + m.n <= MEMORY}

\* A conversion: flags, width (none: -1), precision (none: -1), letter.
Conversions ==
    [call : {"number"}, flag : {<<>>, <<0>>}, width : {-1, 1, 3}, letter : {13, 30, 33, 24},
     arg : -3 .. MAXNUM]
    \cup [call : {"text"}, flag : {<<>>, <<0>>, <<MINUS>>, <<HASH>>, <<21>>}, width : {-1, 2, 4},
          prec : {-1, 1, 2}, arg : {<<>>, <<10>>, <<10, 11, 12>>}]
Optional(n) == IF n < 0 THEN <<>> ELSE <<n>>
NumberFormat(c) == <<PERCENT>> \o c.flag \o Optional(c.width) \o <<c.letter>>
TextFormat(c) ==
    <<PERCENT>> \o c.flag \o Optional(c.width)
    \o (IF c.prec < 0 THEN <<>> ELSE <<DOT, c.prec>>) \o <<28>>

\* Formats with an unknown conversion, a '%%', characters, and errors.
Literals ==
    [call : {"literal"}, fmt : {<<10, PERCENT, MINUS, 3, 35, 11>>, <<PERCENT, 35>>, <<PERCENT>>,
                                <<PERCENT, 0, 5, DOT>>, <<10, 11>>}]
Texts == [call : {"snprintf", "cprintf"}, len : 0 .. MAXTEXT, n : -1 .. MAXTEXT + 1]

Checks ==
    [call : {"user_mem_check"}, va : 0 .. ADDR - 1, len : 0 .. ADDR - 1, perm : {{"U"}, {"U", "W"}},
     pt : [0 .. (ADDR \div PGSIZE) - 1 -> {{}, {"U"}, {"U", "W"}}]]

\* Images of two segments, one above the other; each is some whole sectors further on
\* in the file than in memory, its offset congruent to its address modulo a sector.
Segment(from, to, sectors) ==
    {[load |-> t, at |-> a, off |-> a + d * SECTSIZE, filesz |-> f, memsz |-> m] :
       t \in BOOLEAN, a \in from .. to, d \in sectors, f \in 0 .. 3, m \in 0 .. 3}
Headers == [magic : BOOLEAN, entry : 0 .. 1]
Image(c, h, phs) == [call |-> c, magic |-> h.magic, entry |-> h.entry, phs |-> phs]
Loads ==
    {Image(c, h, <<p, q>>) :
       c \in {"bootmain", "load_icode"}, h \in Headers,
       p \in Segment(1, 5, {1}), q \in Segment(6, 9, {1, 2})}
LoadInputs ==
    {l \in Loads : /\ l.phs[1].at + l.phs[1].memsz <= l.phs[2].at
                   /\ l.call = "bootmain" => \A i \in 1 .. 2 : l.phs[i].filesz <= l.phs[i].memsz}

\* Stabs of the type asked for have increasing addresses, and no two are next to
\* each other: after an exact match the search goes on for the address above.
Stabs == {s \in [0 .. 4 -> [type : {"FUN"}, value : 0 .. 7] \cup {[type |-> "LINE", value |-> 0]}] :
            \A i, j \in 0 .. 4 : i < j /\ s[i].type = "FUN" /\ s[j].type = "FUN"
                                 => s[i].value + 1 < s[j].value}
Searches == [call : {"stab_binsearch"}, stabs : Stabs, addr : 0 .. 8, left : 0 .. 2, right : 2 .. 4]

Lines == [call : {"runcmd"}, line : UNION {[1 .. n -> {" ", "a"}] : n \in 0 .. 6}]

----------------------------------------------------------------------------
(* Calls *)

Blank == [a \in 0 .. ULIM - 1 |-> -1]
Unmapped == [a \in 0 .. ULIM - 1 |-> -2]
TextOf(len) == [i \in 1 .. len |-> 10 + i]

Call(name, result) == ~done /\ in.call = name /\ out' = result /\ done' = TRUE /\ UNCHANGED in

DoMemmove == Call("memmove", Memmove([a \in 0 .. MEMORY - 1 |-> a], in.dst, in.src, in.n))
DoNumber == Call("number", Vprintfmt(NumberFormat(in), 1, <<in.arg>>))
DoText == Call("text", Vprintfmt(TextFormat(in), 1, <<in.arg>>))
DoLiteral == Call("literal", Vprintfmt(in.fmt, 1, <<>>))
DoSnprintf == Call("snprintf", Vsnprintf(TextOf(in.len), in.n))
DoCprintf == Call("cprintf", Cprintf(TextOf(in.len)))
DoUserMemCheck == Call("user_mem_check", UserMemCheck(in.pt, in.va, in.len, in.perm))
DoBootmain == Call("bootmain", Bootmain(Blank, in))
DoLoadIcode == Call("load_icode", LoadIcode(Unmapped, in))
DoStabBinsearch ==
    Call("stab_binsearch", StabBinsearch(in.stabs, in.left, in.right, "FUN", in.addr))
DoRuncmd == Call("runcmd", ParseArgs(in.line, 1, <<>>))

Init ==
    /\ \/ in \in MoveInputs \/ in \in Conversions \/ in \in Literals \/ in \in Texts
       \/ in \in Checks \/ in \in LoadInputs \/ in \in Searches \/ in \in Lines
    /\ out = <<>>
    /\ done = FALSE

Next == \/ DoMemmove \/ DoNumber \/ DoText \/ DoLiteral \/ DoSnprintf \/ DoCprintf
        \/ DoUserMemCheck \/ DoBootmain \/ DoLoadIcode \/ DoStabBinsearch \/ DoRuncmd

Spec == Init /\ [][Next]_vars

----------------------------------------------------------------------------
(* Properties *)

After(name) == done /\ in.call = name

\* memmove, forwards or backwards, by words or by bytes: the destination is what
\* the source was, and the rest of memory is as before, overlap or not.
MemmoveCopies ==
    After("memmove") =>
       \A a \in 0 .. MEMORY - 1 :
          out[a] = IF a \in in.dst .. in.dst + in.n - 1 THEN a - in.dst + in.src ELSE a

\* What printf prints for a number is as wide as asked, and strtol reads it back --
\* unless blanks come between the sign and the digits, as they do for %3d of -1.
NumberReadsBack ==
    LET base == CASE in.letter = 33 -> 16 [] in.letter = 24 -> 8 [] OTHER -> 10
        neg == in.arg < 0 /\ in.letter \in {13, 24}
        num == IF in.arg < 0 /\ ~neg THEN in.arg + UINT ELSE in.arg
    IN  After("number") =>
           /\ Len(out) >= in.width + IF neg THEN 1 ELSE 0
           /\ in.width < 2 /\ ~neg => out[1] # SP
           /\ ~neg \/ in.flag = <<0>> \/ in.width < 2 => Strtol(out, base) = num

\* %s: the text up to the precision, and then padded to the width, on the right
\* for '-' and on the left otherwise.
TextInItsField ==
    LET body == IF in.prec >= 0 /\ in.prec < Len(in.arg) THEN SubSeq(in.arg, 1, in.prec) ELSE in.arg
        pad == IF in.width > Len(body) THEN in.width - Len(body) ELSE 0
    IN  After("text") =>
           out = IF in.flag = <<MINUS>> THEN body \o Fill(pad, SP)
                 ELSE Fill(pad, IF in.flag = <<0>> THEN 0 ELSE SP) \o body

\* An unknown conversion is printed as it stands in the format, flags and all.
UnknownIsLiteral == After("literal") => out = in.fmt

\* snprintf never writes more than n characters, ends the text with a NUL, and
\* returns the length the whole text would have had.
SnprintfFits ==
    LET kept == IF in.n - 1 < in.len THEN in.n - 1 ELSE in.len
    IN  After("snprintf") =>
           IF in.n < 1 THEN out.ret = -1 /\ out.buf = <<>>
           ELSE /\ out.ret = in.len /\ Len(out.buf) <= in.n
                /\ out.buf = Append(SubSeq(TextOf(in.len), 1, kept), NUL)

\* A user program's cprintf prints the whole text in order, and its buffer never
\* overflows.  A text that fits is one call, so that nobody prints in between.
CprintfWhole ==
    After("cprintf") =>
       /\ FlattenSeq(out) = TextOf(in.len)
       /\ \A i \in 1 .. Len(out) : Len(out[i]) < PRINTBUF
       /\ in.len < PRINTBUF - 1 => Len(out) = 1

\* user_mem_check says no exactly when some page of the range may not be accessed,
\* and names the first address that is at fault -- as long as the end of the range,
\* rounded up, is an address.
UserMemCheckExact ==
    LET last == IF in.len = 0 THEN in.va - 1 ELSE in.va + in.len - 1
        Denied(a) == a >= ULIM \/ ~(in.perm \subseteq in.pt[a \div PGSIZE])
        denied == {a \in in.va .. last : Denied(a)}
    IN  After("user_mem_check") /\ in.va + in.len <= ADDR - PGSIZE =>
           IF denied # {} THEN out = CHOOSE a \in denied : \A b \in denied : a <= b
           ELSE in.len > 0 => out = -1

\* What a segment is in memory: its bytes of the file, and then zeros.
Byte(ph, i) == IF i < ph.filesz THEN ph.off + i ELSE 0
Loaded(mem, ph) == \A i \in 0 .. ph.memsz - 1 : mem[ph.at + i] = Byte(ph, i)

\* The boot loader reads whole sectors, over what is before and after a segment.
\* Still the kernel is whole when it jumps to it, if no segment begins in the sector in
\* which an earlier one ends, or the earlier one has no zeros at its end and both are
\* as far on in the file, so that what is read over it are its own bytes.  (So "it
\* doesn't matter -- we load in increasing order", boot/main.c:90-91, is not true of
\* all images.)
KernelImageLoaded ==
    After("bootmain") =>
       LET phs == in.phs
           together == phs[1].off - phs[1].at = phs[2].off - phs[2].at
           apart == \/ phs[1].filesz = phs[1].memsz /\ together
                    \/ phs[1].at + phs[1].memsz <= ROUNDDOWN(phs[2].at, SECTSIZE)
       IN  IF in.magic THEN apart => \A i \in 1 .. 2 : Loaded(out.mem, phs[i])
           ELSE out.mem = Blank

\* load_icode refuses exactly the images that are no programs, and else each segment
\* to load is in memory that is the program's own, if no two share a page (an empty
\* one counts too: region_alloc gives it a page unless its address is aligned).
ProgramImageLoaded ==
    After("load_icode") =>
       LET phs == in.phs
           use == {i \in 1 .. 2 : phs[i].load}
           Pages(i) == {(phs[i].at + k) \div PGSIZE : k \in {0} \cup 1 .. phs[i].memsz - 1}
           apart == use = {1, 2} => Pages(1) \cap Pages(2) = {}
       IN  /\ out.panic <=> \/ ~in.magic \/ in.entry = 0
                            \/ \E i \in use : phs[i].memsz < phs[i].filesz
           /\ ~out.panic /\ apart => \A i \in use : Loaded(out.mem, phs[i])

\* stab_binsearch finds the last stab of the type at or below the address, and the
\* region up to the next one of the type; without one of the type, an empty region.
SearchFindsStab ==
    After("stab_binsearch") =>
       LET region == {i \in in.left .. in.right : in.stabs[i].type = "FUN"}
           below == {i \in region : in.stabs[i].value <= in.addr}
           above == region \ below
       IN  /\ region = {} => out.left > out.right
           /\ below # {} =>
                 /\ out.left \in below /\ \A i \in below : i <= out.left
                 /\ IF above = {} THEN out.right = in.right
                    ELSE out.right + 1 \in above /\ \A i \in above : out.right < i

\* runcmd splits a line into its words, and refuses more than fit into argv with
\* the null pointer at its end.
ArgsRight ==
    After("runcmd") =>
       LET Char(i) == IF i \in 1 .. Len(in.line) THEN in.line[i] ELSE " "
           words == Cardinality({i \in 1 .. Len(in.line) : Char(i) = "a" /\ Char(i - 1) = " "})
       IN  /\ Len(out.argv) < MAXARGS
           /\ out.ok <=> words < MAXARGS
           /\ out.ok => /\ Len(out.argv) = words
                        /\ FlattenSeq(out.argv) = SelectSeq(in.line, LAMBDA c : c = "a")

\* What printf prints can be read back, and is as wide as asked.
PrintfRight == NumberReadsBack /\ TextInItsField /\ UnknownIsLiteral

\* No copy, print or split of a line goes beyond its buffer or loses a byte, at
\* the edges of the buffer either.
BytesInPlace == MemmoveCopies /\ SnprintfFits /\ CprintfWhole /\ ArgsRight

\* Both loaders of ELF images put every byte of a segment, and its zeros, in place.
ImagesLoaded == KernelImageLoaded /\ ProgramImageLoaded
=============================================================================
