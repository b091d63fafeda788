------------------------------ MODULE Console -------------------------------
(***************************************************************************)
(* The console and the kernel monitor that reads it: the serial port and   *)
(* the keyboard with its state of shift keys, the ring cons of characters  *)
(* nobody has asked for yet, the screen, and readline with its echo.       *)
(* Devices deliver between any two steps of the CPU in cons_getc.          *)
(*                                                                         *)
(* Characters are names.  A byte from the keyboard is <<code, up>>: which  *)
(* key, and whether it is released; E0 comes before that of some keys.     *)
(***************************************************************************)
EXTENDS Naturals, Sequences, FiniteSets, SequencesExt

CONSTANTS
    CONSBUFSIZE,        \* 512
    BUFLEN,             \* of readline: 1024
    CRT_COLS, CRT_SIZE, \* 80 and 2000
    SerialBytes,        \* what may come over the serial line
    PlainKeys, E0Keys,  \* keys that may be pressed, without and with an E0
    KBDBUF,             \* bytes that the keyboard controller holds
    MAXINPUT,           \* how many characters and key strokes come in all, with
    MAXBOOT             \* those printed before the monitor starts, at most so many

ASSUME ConsoleAssumption ==
    /\ {CONSBUFSIZE, BUFLEN, CRT_COLS, CRT_SIZE, KBDBUF, MAXINPUT, MAXBOOT}
          \subseteq Nat \ {0}
    /\ CRT_SIZE % CRT_COLS = 0 /\ BUFLEN - 1 <= CRT_SIZE - CRT_COLS
    /\ {"E0", "mouse"} \cap (PlainKeys \cup E0Keys) = {}

VARIABLES
    serial_exists,
    serial,             \* the byte in the receive buffer of COM1, or "none"
    kbd,                \* bytes in the keyboard controller
    held,               \* keys that are down
    shift,              \* of kbd_proc_data: a set of names of bits
    buf, rpos, wpos,    \* the ring cons; an element is a position in arrived
    arrived,            \* all characters that were ever put into the ring
    lastread,           \* the position in arrived of the one read last
    crt_buf, crt_pos,   \* the screen
    line,               \* of readline: what is typed so far
    pc, c,              \* where the CPU is, and the character it has
    input               \* counts for the bounds

Keys == (PlainKeys \X {FALSE}) \cup (E0Keys \X {TRUE})

devices == <<serial, kbd, held, input>>
ring == <<buf, rpos, wpos, arrived, lastread>>
screen == <<crt_buf, crt_pos>>
vars == <<serial_exists, devices, shift, ring, screen, line, pc, c>>

----------------------------------------------------------------------------
(* The keyboard: the tables, for keys of each kind *)

Shiftcode(code, e0) ==
    CASE code = "ctl" -> {"CTL"} [] code = "alt" -> {"ALT"}
      [] code \in {"lshift", "rshift"} /\ ~e0 -> {"SHIFT"} [] OTHER -> {}
Togglecode(code, e0) == IF code = "caps" /\ ~e0 THEN {"CAPSLOCK"} ELSE {}

\* charcode[shift & (CTL | SHIFT)][data]; "no" is 0.
Charcode(bits, code, e0) ==
    CASE code = "a" /\ ~e0 ->
            IF "CTL" \in bits THEN "^A" ELSE IF "SHIFT" \in bits THEN "A" ELSE "a"
      [] code = "enter" -> IF "CTL" \notin bits THEN "nl" ELSE IF e0 THEN "no" ELSE "cr"
      [] code = "backspace" /\ ~e0 -> IF "CTL" \in bits THEN "no" ELSE "bs"
      [] code = "del" -> IF e0 THEN "KEY_DEL" ELSE IF "CTL" \in bits THEN "no" ELSE "."
      [] OTHER -> "no"

Capslock(bits, ch) ==
    IF "CAPSLOCK" \in bits
    THEN CASE ch = "a" -> "A" [] ch = "A" -> "a" [] OTHER -> ch
    ELSE ch

\* Mutant of KbdReleased: the top bit of the code of a right-hand key is dropped
\* as well, and its shift bit stays.
KbdReleasedPlain(bits, code, e0) ==
    bits \ ((IF e0 THEN {} ELSE Shiftcode(code, FALSE)) \cup {"E0ESC"})

KbdReleased(bits, code, e0) == bits \ (Shiftcode(code, e0) \cup {"E0ESC"})

KbdPressed(bits, code, e0) ==
    SymDiff((bits \ {"E0ESC"}) \cup Shiftcode(code, e0), Togglecode(code, e0))

E0 == <<"E0", FALSE>>
MouseByte == <<"mouse", FALSE>>

\* kbd_proc_data on one byte: shift after it, and the character, "no" for 0.
KbdProcData(byte) ==
    LET e0 == "E0ESC" \in shift
        after == KbdPressed(shift, byte[1], e0)
        ch == Capslock(after, Charcode(after, byte[1], e0))
    IN  IF byte = E0 THEN [bits |-> shift \cup {"E0ESC"}, ch |-> "no", reboot |-> FALSE]
        ELSE IF byte[2] THEN [bits |-> KbdReleased(shift, byte[1], e0), ch |-> "no", reboot |-> FALSE]
        ELSE [bits |-> after, ch |-> ch,
              reboot |-> {"CTL", "ALT"} \subseteq after /\ ch = "KEY_DEL"]

----------------------------------------------------------------------------
(* The screen *)

Scroll(s) ==
    IF s.pos < CRT_SIZE THEN s
    ELSE [pos |-> s.pos - CRT_COLS,
          buf |-> [i \in 0 .. CRT_SIZE - 1 |->
                     IF i < CRT_SIZE - CRT_COLS THEN s.buf[i + CRT_COLS] ELSE "sp"]]

\* The cases of cga_putc's switch: a backspace, the beginning of a row, a character.
Erase(s) == IF s.pos = 0 THEN s
            ELSE [pos |-> s.pos - 1, buf |-> [s.buf EXCEPT ![s.pos - 1] = "sp"]]
ToRow(s, pos) == [pos |-> pos - (pos % CRT_COLS), buf |-> s.buf]
Write(s, ch) == [pos |-> s.pos + 1, buf |-> [s.buf EXCEPT ![s.pos] = ch]]

\* cga_putc for all but a tab.
CgaPlain(s, ch) == Scroll(CASE ch = "bs" -> Erase(s)
                            [] ch = "nl" -> ToRow(s, s.pos + CRT_COLS)
                            [] ch = "cr" -> ToRow(s, s.pos)
                            [] OTHER -> Write(s, ch))

\* A tab is five spaces, whatever the column.
CgaPutc(s, ch) ==
    LET space(t) == CgaPlain(t, "sp")
    IN  IF ch = "tab" THEN space(space(space(space(space(s))))) ELSE CgaPlain(s, ch)

Screen == [buf |-> crt_buf, pos |-> crt_pos]
Show(s) == crt_buf' = s.buf /\ crt_pos' = s.pos

Cputchar(ch) == Show(CgaPutc(Screen, ch))

----------------------------------------------------------------------------
(* The ring *)

NextPos(pos) == IF pos + 1 = CONSBUFSIZE THEN 0 ELSE pos + 1

\* Mutant of ConsPut: the position is counted up before the write, not after.
ConsPutPre(ch) ==
    IF ch = "no" THEN UNCHANGED ring
    ELSE /\ arrived' = Append(arrived, ch)
         /\ buf' = [buf EXCEPT ![NextPos(wpos)] = Len(arrived) + 1]
         /\ wpos' = NextPos(wpos)
         /\ UNCHANGED <<rpos, lastread>>

\* One round of cons_intr: no character, or one more in the ring, full or not.
ConsPut(ch) ==
    IF ch = "no" THEN UNCHANGED ring
    ELSE /\ arrived' = Append(arrived, ch)
         /\ buf' = [buf EXCEPT ![wpos] = Len(arrived) + 1]
         /\ wpos' = NextPos(wpos)
         /\ UNCHANGED <<rpos, lastread>>

----------------------------------------------------------------------------
(* Devices *)

\* A byte comes over the serial line; one nobody has fetched is lost.
SerialArrives(b) ==
    /\ input < MAXINPUT
    /\ serial' = b /\ input' = input + 1
    /\ UNCHANGED <<serial_exists, kbd, held, shift, ring, screen, line, pc, c>>

\* A key goes down, repeats or comes up.  The keyboard waits for room.
KeyStroke(code, e0, up) ==
    LET bytes == (IF e0 THEN <<E0>> ELSE <<>>) \o <<<<code, up>>>>
    IN  /\ input < MAXINPUT /\ input' = input + 1
        /\ up => <<code, e0>> \in held
        /\ Len(kbd) + Len(bytes) <= KBDBUF
        /\ kbd' = kbd \o bytes
        /\ held' = IF up THEN held \ {<<code, e0>>} ELSE held \cup {<<code, e0>>}
        /\ UNCHANGED <<serial_exists, serial, shift, ring, screen, line, pc, c>>

MouseMoves ==
    /\ input < MAXINPUT /\ input' = input + 1
    /\ Len(kbd) < KBDBUF
    /\ kbd' = Append(kbd, MouseByte)
    /\ UNCHANGED <<serial_exists, serial, held, shift, ring, screen, line, pc, c>>

----------------------------------------------------------------------------
(* The CPU: cprintf while it boots, and then the monitor *)

BootPrint(ch) ==
    /\ pc = "boot" /\ input < MAXBOOT
    /\ Cputchar(ch) /\ input' = input + 1
    /\ UNCHANGED <<serial_exists, serial, kbd, held, shift, ring, line, pc, c>>

Monitor ==
    /\ pc = "boot" /\ pc' = "readline"
    /\ UNCHANGED <<serial_exists, devices, shift, ring, screen, line, c>>

\* readline prints the prompt.
Prompt ==
    /\ pc = "readline" /\ pc' = "serial"
    /\ Cputchar(">") /\ line' = <<>>
    /\ UNCHANGED <<serial_exists, devices, shift, ring, c>>

\* cons_getc: serial_intr, a round for each byte that is there.
SerialIntr ==
    /\ pc = "serial"
    /\ IF serial_exists /\ serial # "none"
       THEN ConsPut(serial) /\ serial' = "none" /\ UNCHANGED pc
       ELSE pc' = "kbd" /\ UNCHANGED <<ring, serial>>
    /\ UNCHANGED <<serial_exists, kbd, held, input, shift, screen, line, c>>

\* kbd_intr.  A byte from the mouse is not looked at, nor taken.
KbdIntr ==
    /\ pc = "kbd"
    /\ IF kbd # <<>> /\ Head(kbd) # MouseByte
       THEN LET r == KbdProcData(Head(kbd))
            IN  /\ kbd' = Tail(kbd) /\ shift' = r.bits /\ ConsPut(r.ch)
                /\ pc' = IF r.reboot THEN "reboot" ELSE "kbd"
       ELSE pc' = "grab" /\ UNCHANGED <<kbd, shift, ring>>
    /\ UNCHANGED <<serial_exists, serial, held, input, screen, line, c>>

\* Mutant of ConsGetc: getchar watches the ring only, as if there were interrupts.
ConsGetcWatch ==
    /\ pc = "grab"
    /\ IF rpos # wpos
       THEN /\ c' = arrived[buf[rpos]] /\ lastread' = buf[rpos]
            /\ rpos' = NextPos(rpos) /\ pc' = "line"
       ELSE UNCHANGED <<c, lastread, rpos, pc>>
    /\ UNCHANGED <<serial_exists, devices, shift, buf, wpos, arrived, screen, line>>

\* The rest of cons_getc; getchar calls it until there is a character.
ConsGetc ==
    /\ pc = "grab"
    /\ IF rpos # wpos
       THEN /\ c' = arrived[buf[rpos]] /\ lastread' = buf[rpos]
            /\ rpos' = NextPos(rpos) /\ pc' = "line"
       ELSE pc' = "serial" /\ UNCHANGED <<c, lastread, rpos>>
    /\ UNCHANGED <<serial_exists, devices, shift, buf, wpos, arrived, screen, line>>

\* Characters below ' '.
Control == {"bs", "nl", "cr", "tab", "^A"}

\* Mutant of Readline: characters that no longer fit are echoed all the same.
ReadlineEchoes ==
    /\ pc = "line"
    /\ CASE c \in {"bs", "del"} /\ line # <<>> ->
              Cputchar("bs") /\ line' = Front(line) /\ pc' = "serial"
         [] c \notin Control /\ (c = "del" => line = <<>>) ->
              /\ Cputchar(c) /\ pc' = "serial"
              /\ line' = IF Len(line) < BUFLEN - 1 THEN Append(line, c) ELSE line
         [] c \in {"nl", "cr"} -> Cputchar("nl") /\ pc' = "runcmd" /\ UNCHANGED line
         [] OTHER -> pc' = "serial" /\ UNCHANGED <<screen, line>>
    /\ UNCHANGED <<serial_exists, devices, shift, ring, c>>

\* What readline does with a character.  A DEL in an empty line is a character.
Readline ==
    /\ pc = "line"
    /\ CASE c \in {"bs", "del"} /\ line # <<>> ->
              Cputchar("bs") /\ line' = Front(line) /\ pc' = "serial"
         [] c \notin Control /\ Len(line) < BUFLEN - 1 /\ (c = "del" => line = <<>>) ->
              Cputchar(c) /\ line' = Append(line, c) /\ pc' = "serial"
         [] c \in {"nl", "cr"} -> Cputchar("nl") /\ pc' = "runcmd" /\ UNCHANGED line
         [] OTHER -> pc' = "serial" /\ UNCHANGED <<screen, line>>
    /\ UNCHANGED <<serial_exists, devices, shift, ring, c>>

\* A line with a word in it brings some output.  No command ends the monitor.
Runcmd ==
    /\ pc = "runcmd" /\ pc' = "readline"
    /\ IF \E i \in DOMAIN line : line[i] # "sp"
       THEN Show(CgaPutc(CgaPutc(Screen, "x"), "nl")) ELSE UNCHANGED screen
    /\ UNCHANGED <<serial_exists, devices, shift, ring, line, c>>

----------------------------------------------------------------------------
(* The specification *)

Init ==
    /\ serial_exists \in BOOLEAN /\ serial = "none" /\ kbd = <<>> /\ held = {}
    /\ shift = {} /\ buf = [i \in 0 .. CONSBUFSIZE - 1 |-> 0] /\ rpos = 0 /\ wpos = 0
    /\ arrived = <<>> /\ lastread = 0
    /\ crt_buf = [i \in 0 .. CRT_SIZE - 1 |-> "sp"] /\ crt_pos \in {0, CRT_SIZE - 1}
    /\ line = <<>> /\ pc = "boot" /\ c = "no" /\ input = 0

\* (Before the monitor runs nobody types.)
Device ==
    /\ pc # "boot"
    /\ \/ \E b \in SerialBytes : SerialArrives(b)
       \/ \E k \in Keys : \E up \in BOOLEAN : KeyStroke(k[1], k[2], up)
       \/ MouseMoves

Cpu ==
    \/ \E ch \in {"x", "bs", "tab", "nl", "cr"} : BootPrint(ch)
    \/ Monitor \/ Prompt \/ SerialIntr \/ KbdIntr \/ ConsGetc \/ Readline \/ Runcmd

Next == Device \/ Cpu

\* The CPU goes on; what comes in, and when, is not up to it.
Spec == Init /\ [][Next]_vars /\ WF_vars(Cpu)

----------------------------------------------------------------------------
(* Properties *)

\* What the devices can make of a key or a byte, and what can be on the screen.
Char == SerialBytes \cup {"^A", "A", "a", "nl", "cr", "bs", "KEY_DEL", ".", "no"}
Cell == Char \cup {"sp", ">", "x"}

TypeOK ==
    /\ serial \in SerialBytes \cup {"none"} /\ held \subseteq Keys
    /\ kbd \in Seq((PlainKeys \cup E0Keys \cup {"E0", "mouse"}) \X BOOLEAN)
    /\ shift \subseteq {"SHIFT", "CTL", "ALT", "CAPSLOCK", "E0ESC"}
    /\ rpos \in 0 .. CONSBUFSIZE - 1 /\ wpos \in 0 .. CONSBUFSIZE - 1
    /\ arrived \in Seq(Char) /\ lastread \in 0 .. Len(arrived)
    /\ buf \in [0 .. CONSBUFSIZE - 1 -> 0 .. Len(arrived)]
    /\ crt_buf \in [0 .. CRT_SIZE - 1 -> Cell] /\ crt_pos \in 0 .. CRT_SIZE - 1
    /\ line \in Seq(Char) /\ Len(line) < BUFLEN /\ c \in Char

\* cons_intr has no test for a full ring: what is unread is always the newest
\* characters, in order, and what is lost between two reads is a whole ring or
\* several -- nothing, as long as fewer than CONSBUFSIZE characters wait.
RingKeepsOrder ==
    LET unread == (wpos + CONSBUFSIZE - rpos) % CONSBUFSIZE
        base == Len(arrived) - unread
    IN  /\ \A k \in 1 .. unread : buf[(rpos + k - 1) % CONSBUFSIZE] = base + k
        /\ base >= lastread /\ (base - lastread) % CONSBUFSIZE = 0

\* What kbd_proc_data takes to be down is down: once all bytes are read, a shift,
\* control or alt bit means that such a key is held, and no E0 is pending.
NoStuckModifier ==
    kbd = <<>> => shift \ {"CAPSLOCK"} \subseteq UNION {Shiftcode(k[1], k[2]) : k \in held}

\* Does an E0 come before byte i of those to be read?  Which shift bits does the
\* byte set or clear?  Will a bit be set when all bytes are read?
Prefixed(i) == IF i = 1 THEN "E0ESC" \in shift ELSE kbd[i - 1] = E0
Moves(i) == IF kbd[i] \in {E0, MouseByte} THEN {} ELSE Shiftcode(kbd[i][1], Prefixed(i))
WillBeSet(m) ==
    \/ m \in shift /\ \A i \in DOMAIN kbd : m \notin Moves(i)
    \/ \E i \in DOMAIN kbd : /\ m \in Moves(i) /\ ~kbd[i][2]
                             /\ \A j \in DOMAIN kbd : j > i => m \notin Moves(j)

\* Why it holds: the bytes under way are those of keys, an E0 always with the byte
\* it belongs to, and they lead to bits of keys that are down.
KeysAhead ==
    /\ \A i \in DOMAIN kbd :
          \/ kbd[i] = E0 /\ i + 1 \in DOMAIN kbd /\ kbd[i + 1] \notin {E0, MouseByte}
          \/ kbd[i] = MouseByte
          \/ \E k \in Keys, up \in BOOLEAN : kbd[i] = <<k[1], up>> /\ (Prefixed(i) <=> k[2])
    /\ "E0ESC" \in shift => kbd # <<>> /\ kbd[1] \notin {E0, MouseByte}
    /\ \A m \in {"SHIFT", "CTL", "ALT"} :
          WillBeSet(m) => \E k \in held : m \in Shiftcode(k[1], k[2])

\* The keyboard's state is true to the keys, and ring, screen and line stay within
\* their bounds, none of which are tested where they are used.
ConsoleInv == TypeOK /\ KeysAhead /\ NoStuckModifier

\* The echo is the line: while the monitor waits for input, the cells left of the
\* cursor are what readline has in its buffer, wrapped and scrolled lines included.
EchoShowsLine ==
    pc \in {"serial", "kbd", "grab", "line"} =>
       /\ crt_pos >= Len(line)
       /\ \A i \in DOMAIN line : crt_buf[crt_pos - Len(line) + i - 1] = line[i]

\* The monitor polls with interrupts off: in the end it has read all there is,
\* unless the machine was restarted or a byte of the mouse stops the keyboard.
InputIsRead ==
    <>[](\/ pc = "reboot"
         \/ rpos = wpos /\ (serial_exists => serial = "none")
            /\ (kbd = <<>> \/ Head(kbd) = MouseByte))
=============================================================================
