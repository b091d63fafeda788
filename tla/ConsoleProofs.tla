--------------------------- MODULE ConsoleProofs ----------------------------
(***************************************************************************)
(* TLAPS proofs about the console (module Console), for rings, lines and   *)
(* screens of every size, any set of keys and any amount of input: the     *)
(* ring keeps the order of the characters, the echo on the screen is the   *)
(* line that readline has, and no shift key sticks.                        *)
(***************************************************************************)
EXTENDS Console, TLAPS

\* The sizes one by one.
LEMMA Sizes ==
    /\ CONSBUFSIZE \in Nat \ {0} /\ BUFLEN \in Nat \ {0}
    /\ CRT_COLS \in Nat \ {0} /\ CRT_SIZE \in Nat \ {0}
    /\ BUFLEN - 1 <= CRT_SIZE - CRT_COLS
BY ConsoleAssumption

----------------------------------------------------------------------------
(* The ring, without remainders *)

\* How many characters wait in a ring with these positions, and where the k-th is.
Unread(r, w) == IF w >= r THEN w - r ELSE w + CONSBUFSIZE - r
At(r, k) == IF r + k - 1 < CONSBUFSIZE THEN r + k - 1 ELSE r + k - 1 - CONSBUFSIZE

\* RingKeepsOrder of a ring b with positions r and w, after n characters, the one
\* read last having been number last.
Ordered(b, r, w, n, last) ==
    /\ \A k \in 1 .. Unread(r, w) : b[At(r, k)] = n - Unread(r, w) + k
    /\ n - Unread(r, w) >= last
    /\ (n - Unread(r, w) - last) % CONSBUFSIZE = 0

Position == 0 .. CONSBUFSIZE - 1

LEMMA RingSize == CONSBUFSIZE \in Nat \ {0}
BY Sizes

USE RingSize

LEMMA NextPosition ==
    ASSUME NEW p \in Position
    PROVE  NextPos(p) \in Position
BY DEF NextPos, Position

LEMMA RemainderForm ==
    ASSUME NEW r \in Position, NEW w \in Position
    PROVE  /\ Unread(r, w) \in 0 .. CONSBUFSIZE - 1
           /\ (w + CONSBUFSIZE - r) % CONSBUFSIZE = Unread(r, w)
           /\ \A k \in 1 .. Unread(r, w) :
                 At(r, k) \in Position /\ (r + k - 1) % CONSBUFSIZE = At(r, k)
<1>1. PICK n \in Nat \ {0} : n = CONSBUFSIZE
  OBVIOUS
<1>2. \A a \in 0 .. 2 * n - 1 : a % n = IF a < n THEN a ELSE a - n
  <2>1. ASSUME NEW a \in Nat, a < n PROVE a % n = a
    BY <2>1
  <2>2. ASSUME NEW a \in Nat, n <= a, a < 2 * n PROVE a % n = a - n
    BY <2>2
  <2>3. QED
    BY <2>1, <2>2
<1>3. Unread(r, w) \in 0 .. n - 1
  BY <1>1 DEF Unread, Position
<1>4. (w + n - r) % n = Unread(r, w)
  <2>1. PICK a \in 0 .. 2 * n - 1 : a = w + n - r
    BY <1>1 DEF Position
  <2>2. a % n = IF a < n THEN a ELSE a - n
    BY <1>2
  <2>3. QED
    BY <1>1, <2>1, <2>2 DEF Unread, Position
<1>5. ASSUME NEW k \in 1 .. Unread(r, w)
      PROVE  At(r, k) \in Position /\ (r + k - 1) % n = At(r, k)
  <2>1. PICK a \in 0 .. 2 * n - 1 : a = r + k - 1
    BY <1>1, <1>3 DEF Position
  <2>2. a % n = IF a < n THEN a ELSE a - n
    BY <1>2
  <2>3. QED
    BY <1>1, <2>1, <2>2 DEF At, Position
<1>6. QED
  BY <1>1, <1>3, <1>4, <1>5

\* A multiple of the ring's size is one still with a ring more.
LEMMA OneRingMore ==
    ASSUME NEW a \in Nat, a % CONSBUFSIZE = 0
    PROVE  (a + CONSBUFSIZE) % CONSBUFSIZE = 0
<1>1. PICK n \in Nat \ {0} : n = CONSBUFSIZE
  OBVIOUS
<1>2. PICK q \in Nat : a = n * q
  BY <1>1
<1>3. n * (q + 1) = n * q + n
  OBVIOUS
<1>4. \A p \in Nat : (n * p) % n = 0
  OBVIOUS
<1>5. (n * (q + 1)) % n = 0
  BY <1>4
<1>6. QED
  BY <1>1, <1>2, <1>3, <1>5

LEMMA OrderedFrom ==
    ASSUME NEW b, NEW r, NEW w, NEW n, NEW last, NEW x, x = n - Unread(r, w),
           \A k \in 1 .. Unread(r, w) : b[At(r, k)] = x + k,
           x >= last, (x - last) % CONSBUFSIZE = 0
    PROVE  Ordered(b, r, w, n, last)
BY Zenon DEF Ordered

\* cons_intr puts a character into a ring that may be full: then all that waited
\* is forgotten, a whole ring of it.
LEMMA RingPut ==
    ASSUME NEW n \in Nat, NEW last \in 0 .. n, NEW r \in Position, NEW w \in Position,
           NEW b \in [Position -> 0 .. n], Ordered(b, r, w, n, last)
    PROVE  Ordered([b EXCEPT ![w] = n + 1], r, NextPos(w), n + 1, last)
<1> DEFINE u == Unread(r, w)
           v == NextPos(w)
           d == [b EXCEPT ![w] = n + 1]
<1>1. u \in 0 .. CONSBUFSIZE - 1 /\ v \in Position
  BY RemainderForm, NextPosition
<1>2. CASE v = r
  <2>1. u = CONSBUFSIZE - 1 /\ Unread(r, v) = 0
    BY <1>2 DEF Unread, NextPos, Position
  <2>2. PICK a \in Nat : a = n - u - last /\ a % CONSBUFSIZE = 0
    BY <1>1 DEF Ordered
  <2>3. n + 1 - 0 - last = a + CONSBUFSIZE
    BY <2>1, <2>2
  <2>4. (n + 1 - 0 - last) % CONSBUFSIZE = 0
    BY <2>2, <2>3, OneRingMore
  <2>5. QED
    BY <2>1, <2>4 DEF Ordered
<1>3. CASE v # r
  <2>1. Unread(r, v) = u + 1 /\ At(r, u + 1) = w
    BY <1>3 DEF Unread, NextPos, Position, At
  <2>2. ASSUME NEW k \in 1 .. u PROVE At(r, k) \in Position /\ At(r, k) # w
    BY SMTT(60), <1>1, <2>1 DEF At, Unread, Position
  <2>3. ASSUME NEW k \in 1 .. u + 1 PROVE d[At(r, k)] = n + 1 - (u + 1) + k
    <3>1. CASE k = u + 1
      BY <1>1, <2>1, <3>1
    <3>2. CASE k # u + 1
      <4>1. k \in 1 .. u
        BY <1>1, <3>2
      <4>2. b[At(r, k)] = n - u + k
        BY <4>1 DEF Ordered
      <4>3. d[At(r, k)] = b[At(r, k)]
        BY <2>2, <4>1
      <4>4. QED
        BY <1>1, <4>2, <4>3
    <3>3. QED
      BY <3>1, <3>2
  <2>4. n + 1 - (u + 1) = n - u
    BY <1>1
  <2>5. n - u >= last /\ (n - u - last) % CONSBUFSIZE = 0
    BY DEF Ordered
  <2>6. PICK x \in Int : x = n - u /\ x = (n + 1) - Unread(r, v)
    BY <1>1, <2>1, <2>4
  <2>7. x >= last /\ (x - last) % CONSBUFSIZE = 0
    BY <2>5, <2>6
  <2>8. \A k \in 1 .. Unread(r, v) : d[At(r, k)] = x + k
    BY <1>1, <2>1, <2>3, <2>4, <2>6
  <2> HIDE DEF d, v
  <2>9. Ordered(d, r, v, n + 1, last)
    BY <2>6, <2>7, <2>8, OrderedFrom, Zenon
  <2>10. QED
    BY <2>9 DEF d, v
<1>4. QED
  BY <1>2, <1>3

\* cons_getc takes the oldest that waits, and nothing between it and the next.
LEMMA RingGet ==
    ASSUME NEW n \in Nat, NEW last \in 0 .. n, NEW r \in Position, NEW w \in Position,
           NEW b \in [Position -> 0 .. n], Ordered(b, r, w, n, last), r # w
    PROVE  /\ b[r] \in 1 .. n
           /\ Ordered(b, NextPos(r), w, n, b[r])
<1> DEFINE u == Unread(r, w)
           s == NextPos(r)
<1>1. u \in 1 .. CONSBUFSIZE - 1 /\ s \in Position /\ u <= n
  <2>1. u \in 0 .. CONSBUFSIZE - 1 /\ s \in Position /\ u # 0
    <3>1. u \in 0 .. CONSBUFSIZE - 1 /\ s \in Position
      BY RemainderForm, NextPosition
    <3>2. u # 0
      BY DEF Unread, Position
    <3>3. QED
      BY <3>1, <3>2
  <2>2. QED
    BY <2>1 DEF Ordered
<1>2. Unread(s, w) = u - 1 /\ At(r, 1) = r
  BY DEF Unread, NextPos, Position, At
<1>3. b[r] = n - u + 1
  BY <1>1, <1>2 DEF Ordered
<1>4. ASSUME NEW k \in 1 .. u - 1 PROVE b[At(s, k)] = n - (u - 1) + k
  <2>1. At(s, k) = At(r, k + 1)
    BY <1>1 DEF At, NextPos, Position, Unread
  <2>2. k + 1 \in 1 .. u
    BY <1>1
  <2>3. b[At(r, k + 1)] = n - u + (k + 1)
    BY <2>2 DEF Ordered
  <2>4. QED
    BY <1>1, <2>1, <2>3
<1>5. n - (u - 1) = b[r] /\ (n - (u - 1) - b[r]) % CONSBUFSIZE = 0
  <2>1. n - (u - 1) = b[r] /\ n - (u - 1) - b[r] = 0
    BY <1>1, <1>3
  <2>2. QED
    BY <2>1
<1>6. QED
  BY <1>1, <1>2, <1>3, <1>4, <1>5 DEF Ordered

----------------------------------------------------------------------------
(* The screen *)

Screens == [buf : [0 .. CRT_SIZE - 1 -> Cell], pos : 0 .. CRT_SIZE - 1]

\* The cells left of the cursor are the line ln.
Shows(s, ln) ==
    /\ s.pos >= Len(ln)
    /\ \A i \in 1 .. Len(ln) : s.buf[s.pos - Len(ln) + i - 1] = ln[i]

\* What becomes of a screen b with the cursor at p, which may be beyond its end.
Scrolled(b, p, t) ==
    /\ t \in Screens
    /\ t.pos = IF p < CRT_SIZE THEN p ELSE p - CRT_COLS
    /\ \A i \in 0 .. CRT_SIZE - 1 :
          t.buf[i] = IF p < CRT_SIZE THEN b[i]
                     ELSE IF i < CRT_SIZE - CRT_COLS THEN b[i + CRT_COLS] ELSE "sp"

LEMMA ScrollBack ==
    ASSUME NEW b \in [0 .. CRT_SIZE - 1 -> Cell], NEW p \in Nat, p < CRT_SIZE + CRT_COLS
    PROVE  Scrolled(b, p, Scroll([pos |-> p, buf |-> b]))
<1> DEFINE up == [i \in 0 .. CRT_SIZE - 1 |->
                    IF i < CRT_SIZE - CRT_COLS THEN b[i + CRT_COLS] ELSE "sp"]
<1>1. CASE p < CRT_SIZE
  <2>1. PICK t : t = [pos |-> p, buf |-> b]
    OBVIOUS
  <2>2. t.pos = p /\ t.buf = b /\ t \in Screens
    BY <1>1, <2>1, Sizes DEF Screens
  <2>3. Scroll([pos |-> p, buf |-> b]) = t
    BY <1>1, <2>1 DEF Scroll
  <2>4. Scrolled(b, p, t)
    BY <1>1, <2>2 DEF Scrolled
  <2>5. QED
    BY <2>3, <2>4
<1>2. CASE ~(p < CRT_SIZE)
  <2>1. PICK t : t = [pos |-> p - CRT_COLS, buf |-> up]
    OBVIOUS
  <2>2. Scroll([pos |-> p, buf |-> b]) = t
    BY <1>2, <2>1 DEF Scroll
  <2>3. \A i \in 0 .. CRT_SIZE - 1 : up[i] \in Cell
    BY Sizes DEF Cell
  <2>4. p - CRT_COLS \in 0 .. CRT_SIZE - 1
    BY <1>2, Sizes
  <2>5. up \in [0 .. CRT_SIZE - 1 -> Cell]
    BY <2>3
  <2>6. \A i \in 0 .. CRT_SIZE - 1 :
           up[i] = IF i < CRT_SIZE - CRT_COLS THEN b[i + CRT_COLS] ELSE "sp"
    OBVIOUS
  <2> HIDE DEF up
  <2>7. t.pos = p - CRT_COLS /\ t.buf = up /\ t \in Screens
    BY <2>1, <2>4, <2>5 DEF Screens
  <2>8. Scrolled(b, p, t)
    BY <1>2, <2>6, <2>7 DEF Scrolled
  <2>9. QED
    BY <2>2, <2>8
<1>3. QED
  BY <1>1, <1>2

\* The four cases of cga_putc.
LEMMA CgaCases ==
    ASSUME NEW s, NEW ch
    PROVE  /\ ch = "bs" => CgaPlain(s, ch) = Scroll(Erase(s))
           /\ ch = "nl" => CgaPlain(s, ch) = Scroll(ToRow(s, s.pos + CRT_COLS))
           /\ ch = "cr" => CgaPlain(s, ch) = Scroll(ToRow(s, s.pos))
           /\ ch \notin {"bs", "nl", "cr"} => CgaPlain(s, ch) = Scroll(Write(s, ch))
BY DEF CgaPlain

\* cga_putc keeps the cursor on the screen.
LEMMA CgaPlainType ==
    ASSUME NEW s \in Screens, NEW ch \in Cell
    PROVE  CgaPlain(s, ch) \in Screens
<1>1. /\ s.buf \in [0 .. CRT_SIZE - 1 -> Cell] /\ s.pos \in 0 .. CRT_SIZE - 1
      /\ s = [pos |-> s.pos, buf |-> s.buf]
  BY DEF Screens
<1>2. PICK p \in Nat : p = s.pos /\ p < CRT_SIZE
  BY <1>1, Sizes
<1>3. PICK b \in [0 .. CRT_SIZE - 1 -> Cell] : b = s.buf
  BY <1>1
<1>4. "sp" \in Cell
  BY DEF Cell
<1>5. ASSUME NEW q \in Nat, NEW d \in [0 .. CRT_SIZE - 1 -> Cell], q < CRT_SIZE + CRT_COLS
      PROVE  Scroll([pos |-> q, buf |-> d]) \in Screens
  BY <1>5, ScrollBack DEF Scrolled
<1>6. Scroll(Erase(s)) \in Screens
  <2>1. CASE p = 0
    <3>1. Erase(s) = [pos |-> p, buf |-> b]
      BY <1>1, <1>2, <1>3, <2>1 DEF Erase
    <3>2. QED
      BY <1>2, <1>5, <3>1, Sizes
  <2>2. CASE p # 0
    <3>1. Erase(s) = [pos |-> p - 1, buf |-> [b EXCEPT ![p - 1] = "sp"]]
      BY <1>2, <1>3, <2>2 DEF Erase
    <3>2. [b EXCEPT ![p - 1] = "sp"] \in [0 .. CRT_SIZE - 1 -> Cell]
      BY <1>4
    <3>3. p - 1 \in Nat /\ p - 1 < CRT_SIZE + CRT_COLS
      BY <1>2, <2>2, Sizes
    <3>4. QED
      BY <1>5, <3>1, <3>2, <3>3
  <2>3. QED
    BY <2>1, <2>2
<1>7. ASSUME NEW a \in Nat, a < CRT_SIZE + CRT_COLS PROVE Scroll(ToRow(s, a)) \in Screens
  <2>1. \A n \in Nat \ {0} : a % n \in Nat /\ a % n <= a
    OBVIOUS
  <2>2. PICK m \in Nat : m = a % CRT_COLS /\ m <= a
    BY <2>1, Sizes
  <2>3. ToRow(s, a) = [pos |-> a - m, buf |-> b]
    BY <1>3, <2>2 DEF ToRow
  <2>4. QED
    BY <1>5, <1>7, <2>2, <2>3, Sizes
<1>8. Scroll(ToRow(s, s.pos)) \in Screens /\ Scroll(ToRow(s, s.pos + CRT_COLS)) \in Screens
  BY <1>2, <1>7, Sizes
<1>9. Scroll(Write(s, ch)) \in Screens
  <2>1. Write(s, ch) = [pos |-> p + 1, buf |-> [b EXCEPT ![p] = ch]]
    BY <1>2, <1>3 DEF Write
  <2>2. [b EXCEPT ![p] = ch] \in [0 .. CRT_SIZE - 1 -> Cell]
    OBVIOUS
  <2>3. p + 1 \in Nat /\ p + 1 < CRT_SIZE + CRT_COLS
    BY <1>2, Sizes
  <2>4. QED
    BY <1>5, <2>1, <2>2, <2>3
<1>10. QED
  BY <1>6, <1>8, <1>9, CgaCases

LEMMA CgaUntabbed ==
    ASSUME NEW s, NEW ch, ch # "tab" PROVE CgaPutc(s, ch) = CgaPlain(s, ch)
BY DEF CgaPutc

LEMMA CgaPutcType ==
    ASSUME NEW s \in Screens, NEW ch \in Cell \cup {"tab"}
    PROVE  CgaPutc(s, ch) \in Screens
<1>1. "sp" \in Cell
  BY DEF Cell
<1>2. \A t \in Screens : CgaPlain(t, "sp") \in Screens
  BY <1>1, CgaPlainType
<1>3. CASE ch = "tab"
  BY <1>2, <1>3 DEF CgaPutc
<1>4. CASE ch # "tab"
  BY <1>4, CgaPlainType, CgaUntabbed
<1>5. QED
  BY <1>3, <1>4

\* Where the cells of a line of n + 1 characters are, before and after the screen
\* with the cursor behind it is scrolled.
CellIndexes(size, cols, p, n, i) ==
    /\ i # n + 1 => p - n + i - 1 \in 0 .. size - 1 /\ p - n + i - 1 # p
    /\ \A q \in Nat :
          /\ q >= n + 1
          /\ q = IF p + 1 < size THEN p + 1 ELSE (p + 1) - cols
          => /\ q - (n + 1) + i - 1 \in 0 .. size - 1
             /\ p + 1 < size => q - (n + 1) + i - 1 = p - n + i - 1
             /\ ~(p + 1 < size) => /\ q - (n + 1) + i - 1 < size - cols
                                   /\ q - (n + 1) + i - 1 + cols = p - n + i - 1

LEMMA CellIndex ==
    ASSUME NEW size \in Nat \ {0}, NEW cols \in Nat \ {0}, NEW p \in Nat, NEW n \in Nat,
           p < size, n <= p
    PROVE  \A i \in 1 .. n + 1 : CellIndexes(size, cols, p, n, i)
BY DEF CellIndexes

\* readline's echo of a character that it stores: the longer line is on the
\* screen, even when that was scrolled.
LEMMA EchoStores ==
    ASSUME NEW s \in Screens, NEW ln \in Seq(Char), NEW ch \in Char, ch \notin Control,
           Shows(s, ln), Len(ln) < BUFLEN - 1
    PROVE  Shows(CgaPutc(s, ch), Append(ln, ch))
<1>1. /\ s.buf \in [0 .. CRT_SIZE - 1 -> Cell] /\ s.pos \in 0 .. CRT_SIZE - 1
      /\ ch \in Cell
  BY DEF Screens, Cell
<1>2. PICK p \in Nat, n \in Nat : p = s.pos /\ n = Len(ln) /\ p < CRT_SIZE /\ n <= p
                                  /\ n < BUFLEN - 1
  BY <1>1, Sizes DEF Shows
<1>2a. \A i \in 1 .. n + 1 : CellIndexes(CRT_SIZE, CRT_COLS, p, n, i)
  BY <1>2, CellIndex, Sizes
<1>3. \A i \in 1 .. n : s.buf[p - n + i - 1] = ln[i]
  BY <1>2 DEF Shows
<1>4. PICK b \in [0 .. CRT_SIZE - 1 -> Cell] : b = [s.buf EXCEPT ![p] = ch]
  BY <1>1
<1>5. /\ b[p] = ch
      /\ \A j \in 0 .. CRT_SIZE - 1 : j # p => b[j] = s.buf[j]
  BY <1>1, <1>2, <1>4
<1>6. PICK new : new = Append(ln, ch)
  OBVIOUS
<1>7. /\ Len(new) = n + 1 /\ new[n + 1] = ch
      /\ \A i \in 1 .. n : new[i] = ln[i]
  BY <1>2, <1>6
<1>8. ASSUME NEW i \in 1 .. n + 1 PROVE b[p - n + i - 1] = new[i]
  <2>1. CASE i = n + 1
    <3>1. p - n + i - 1 = p
      BY <2>1
    <3>2. QED
      BY <1>5, <1>7, <2>1, <3>1
  <2>2. CASE i # n + 1
    <3>0. p - n + i - 1 \in 0 .. CRT_SIZE - 1 /\ p - n + i - 1 # p
      BY <1>2a, <2>2 DEF CellIndexes
    <3>1. PICK j \in 0 .. CRT_SIZE - 1 : j = p - n + i - 1 /\ j # p
      BY <3>0
    <3>2. i \in 1 .. n
      BY <2>2
    <3>3. QED
      BY <1>3, <1>5, <1>7, <3>1, <3>2
  <2>3. QED
    BY <2>1, <2>2
<1>9. PICK t : t = Scroll([pos |-> p + 1, buf |-> b])
  OBVIOUS
<1>10. CgaPutc(s, ch) = t
  <2>1. CgaPutc(s, ch) = Scroll(Write(s, ch))
    BY CgaCases, CgaUntabbed DEF Control
  <2>2. Write(s, ch) = [pos |-> p + 1, buf |-> b]
    BY <1>2, <1>4 DEF Write
  <2>3. QED
    BY <1>9, <2>1, <2>2
<1>11. Scrolled(b, p + 1, t)
  BY <1>2, <1>9, ScrollBack, Sizes
<1>12. PICK q \in Nat : /\ q = t.pos /\ q >= n + 1
                        /\ q = IF p + 1 < CRT_SIZE THEN p + 1 ELSE (p + 1) - CRT_COLS
  <2>1. t.pos = IF p + 1 < CRT_SIZE THEN p + 1 ELSE (p + 1) - CRT_COLS
    BY <1>11 DEF Scrolled
  <2>2. t.pos \in Nat /\ t.pos >= n + 1
    BY SMTT(60), <1>2, <2>1, Sizes
  <2>3. QED
    BY <2>1, <2>2
<1>13. ASSUME NEW i \in 1 .. n + 1 PROVE t.buf[q - (n + 1) + i - 1] = new[i]
  <2>1. /\ q - (n + 1) + i - 1 \in 0 .. CRT_SIZE - 1
        /\ p + 1 < CRT_SIZE => q - (n + 1) + i - 1 = p - n + i - 1
        /\ ~(p + 1 < CRT_SIZE) => /\ q - (n + 1) + i - 1 < CRT_SIZE - CRT_COLS
                                  /\ q - (n + 1) + i - 1 + CRT_COLS = p - n + i - 1
    BY <1>2a, <1>12 DEF CellIndexes
  <2>2. PICK j \in 0 .. CRT_SIZE - 1 : j = q - (n + 1) + i - 1
    BY <2>1
  <2>3. CASE p + 1 < CRT_SIZE
    <3>1. t.buf[j] = b[j]
      BY <1>11, <2>3 DEF Scrolled
    <3>2. QED
      BY <1>8, <2>1, <2>2, <2>3, <3>1
  <2>4. CASE ~(p + 1 < CRT_SIZE)
    <3>1. j < CRT_SIZE - CRT_COLS /\ j + CRT_COLS = p - n + i - 1
      BY <2>1, <2>2, <2>4
    <3>2. t.buf[j] = b[j + CRT_COLS]
      BY <1>11, <2>4, <3>1 DEF Scrolled
    <3>3. QED
      BY <1>8, <2>2, <3>1, <3>2
  <2>5. QED
    BY <2>3, <2>4
<1>14. Shows(t, new)
  BY <1>7, <1>12, <1>13 DEF Shows
<1>15. QED
  BY <1>6, <1>10, <1>14

\* ... and of a backspace that takes the last character away.
LEMMA EchoErases ==
    ASSUME NEW s \in Screens, NEW ln \in Seq(Char), ln # <<>>, Shows(s, ln)
    PROVE  Shows(CgaPutc(s, "bs"), Front(ln))
<1> DEFINE b == [s.buf EXCEPT ![s.pos - 1] = "sp"]
           new == Front(ln)
<1>1. s.buf \in [0 .. CRT_SIZE - 1 -> Cell] /\ s.pos \in 0 .. CRT_SIZE - 1
  BY DEF Screens
<1>2. PICK p \in Nat, n \in Nat : p = s.pos /\ n = Len(ln) /\ p < CRT_SIZE /\ n <= p /\ n > 0
  <2>1. s.pos \in Nat /\ s.pos < CRT_SIZE
    BY <1>1, Sizes
  <2>2. Len(ln) \in Nat /\ Len(ln) > 0
    OBVIOUS
  <2>3. Len(ln) <= s.pos
    BY <2>1, <2>2 DEF Shows
  <2>4. QED
    BY <2>1, <2>2, <2>3
<1>3. CgaPutc(s, "bs") = [pos |-> p - 1, buf |-> b]
  <2>1. CgaPutc(s, "bs") = CgaPlain(s, "bs")
    BY CgaUntabbed
  <2>2. CgaPlain(s, "bs") = Scroll([pos |-> p - 1, buf |-> b])
    BY <1>2, CgaCases DEF Erase
  <2>3. QED
    BY <1>2, <2>1, <2>2, Sizes DEF Scroll
<1>4. Len(new) = n - 1 /\ \A i \in 1 .. n - 1 : new[i] = ln[i]
  BY <1>2 DEF Front
<1>5. \A i \in 1 .. n - 1 : b[p - n + i - 1] = ln[i]
  BY SMTT(60), <1>1, <1>2 DEF Shows
<1> HIDE DEF b, new
<1>6. ASSUME NEW i \in 1 .. n - 1 PROVE b[(p - 1) - (n - 1) + i - 1] = new[i]
  <2>1. (p - 1) - (n - 1) + i - 1 = p - n + i - 1
    BY SMTT(60), <1>2
  <2>2. QED
    BY <1>4, <1>5, <2>1
<1>7. PICK t : t = [pos |-> p - 1, buf |-> b]
  OBVIOUS
<1>8. t.pos = p - 1 /\ t.buf = b
  BY <1>7
<1>9. Shows(t, new)
  BY <1>2, <1>4, <1>6, <1>8 DEF Shows
<1>10. QED
  BY <1>3, <1>7, <1>9 DEF new

----------------------------------------------------------------------------
(* The keyboard *)

Codes == PlainKeys \cup E0Keys \cup {"E0", "mouse"}
Bits == {"SHIFT", "CTL", "ALT", "CAPSLOCK", "E0ESC"}
Modifiers == {"SHIFT", "CTL", "ALT"}

LEMMA SpecialCodes ==
    /\ E0 # MouseByte
    /\ \A k \in Keys, up \in BOOLEAN : <<k[1], up>> \notin {E0, MouseByte}
<1>1. \A code \in {"E0", "mouse"} : code \notin PlainKeys /\ code \notin E0Keys
  BY ConsoleAssumption
<1>2. \A k \in Keys : k[1] # "E0" /\ k[1] # "mouse"
  BY <1>1 DEF Keys
<1>3. E0[1] = "E0" /\ MouseByte[1] = "mouse"
  BY DEF E0, MouseByte
<1>4. \A x, up : <<x, up>>[1] = x
  OBVIOUS
<1>5. QED
  BY <1>2, <1>3, <1>4

KeyInv ==
    /\ held \subseteq Keys /\ kbd \in Seq(Codes \X BOOLEAN) /\ shift \subseteq Bits
    /\ KeysAhead

\* What kbd_proc_data does with the shift state.
LEMMA KbdBits ==
    ASSUME shift \subseteq Bits, NEW byte \in Codes \X BOOLEAN
    PROVE  /\ KbdProcData(byte).ch \in Char
           /\ KbdProcData(byte).bits \subseteq Bits
           /\ "E0ESC" \in KbdProcData(byte).bits <=> byte = E0
           /\ byte = E0 => KbdProcData(byte).bits = shift \cup {"E0ESC"}
           /\ byte # E0 => \A m \in Modifiers :
                 m \in KbdProcData(byte).bits <=>
                    IF m \in Shiftcode(byte[1], "E0ESC" \in shift) THEN ~byte[2] ELSE m \in shift
<1> DEFINE e0 == "E0ESC" \in shift
           after == KbdPressed(shift, byte[1], e0)
           ch == Capslock(after, Charcode(after, byte[1], e0))
<1>1. \A bits, code, pre : Charcode(bits, code, pre) \in Char
  BY DEF Charcode, Char
<1>2. \A bits, x : x \in Char => Capslock(bits, x) \in Char
  BY DEF Capslock, Char
<1>3. "no" \in Char
  BY DEF Char
<1>4. \A code, pre : Shiftcode(code, pre) \subseteq Modifiers
  BY DEF Shiftcode, Modifiers
<1>5. \A code, pre : Togglecode(code, pre) \subseteq {"CAPSLOCK"}
  BY DEF Togglecode
<1>6. /\ after \subseteq Bits /\ "E0ESC" \notin after
      /\ \A m \in Modifiers :
            m \in after <=> m \in shift \/ m \in Shiftcode(byte[1], e0)
  BY <1>4, <1>5 DEF KbdPressed, SymDiff, Bits, Modifiers
<1>7. /\ KbdReleased(shift, byte[1], e0) \subseteq Bits
      /\ "E0ESC" \notin KbdReleased(shift, byte[1], e0)
      /\ \A m \in Modifiers : m \in KbdReleased(shift, byte[1], e0)
                                 <=> m \in shift /\ m \notin Shiftcode(byte[1], e0)
  BY <1>4 DEF KbdReleased, Bits, Modifiers
<1>8. byte[2] \in BOOLEAN
  OBVIOUS
<1>9. ch \in Char
  BY <1>1, <1>2
<1> HIDE DEF after, ch, e0
<1>10. CASE byte = E0
  <2>1. KbdProcData(byte).ch = "no" /\ KbdProcData(byte).bits = shift \cup {"E0ESC"}
    BY <1>10 DEF KbdProcData
  <2>2. QED
    BY <1>3, <1>10, <2>1 DEF Bits
<1>11. CASE byte # E0 /\ byte[2]
  <2>1. /\ KbdProcData(byte).ch = "no"
        /\ KbdProcData(byte).bits = KbdReleased(shift, byte[1], e0)
    BY <1>11 DEF KbdProcData, e0
  <2>2. QED
    BY <1>3, <1>7, <1>11, <2>1 DEF e0
<1>12. CASE byte # E0 /\ ~byte[2]
  <2>1. KbdProcData(byte).ch = ch /\ KbdProcData(byte).bits = after
    BY <1>12 DEF KbdProcData, e0, after, ch
  <2>2. QED
    BY <1>6, <1>9, <1>12, <2>1 DEF e0
<1>13. QED
  BY <1>8, <1>10, <1>11, <1>12

\* kbd_intr takes a byte: what is left will set the same modifiers.
LEMMA ByteTaken ==
    ASSUME KeyInv, kbd # <<>>, Head(kbd) # MouseByte, kbd' = Tail(kbd),
           shift' = KbdProcData(Head(kbd)).bits, held' = held
    PROVE  KeyInv'
<1>1. PICK n \in Nat \ {0} : n = Len(kbd)
  BY DEF KeyInv
<1>2. /\ DOMAIN kbd = 1 .. n /\ DOMAIN kbd' = 1 .. n - 1
      /\ \A i \in 1 .. n - 1 : kbd'[i] = kbd[i + 1] /\ i + 1 \in 1 .. n
      /\ Head(kbd) = kbd[1] /\ kbd[1] \in Codes \X BOOLEAN /\ 1 \in 1 .. n
      /\ kbd' \in Seq(Codes \X BOOLEAN)
  BY <1>1 DEF KeyInv
<1>3. /\ shift' \subseteq Bits
      /\ "E0ESC" \in shift' <=> kbd[1] = E0
      /\ kbd[1] = E0 => shift' = shift \cup {"E0ESC"}
      /\ kbd[1] # E0 => \A m \in Modifiers :
            m \in shift' <=>
               IF m \in Shiftcode(kbd[1][1], "E0ESC" \in shift) THEN ~kbd[1][2] ELSE m \in shift
  BY <1>2, KbdBits DEF KeyInv
<1>4. ASSUME NEW i \in 1 .. n - 1 PROVE Prefixed(i)' <=> Prefixed(i + 1)
  <2>1. CASE i = 1
    BY <1>3, <2>1 DEF Prefixed
  <2>2. CASE i # 1
    <3>1. i - 1 \in 1 .. n - 1 /\ i + 1 # 1 /\ (i - 1) + 1 = i /\ (i + 1) - 1 = i
      BY <2>2
    <3>2. kbd'[i - 1] = kbd[i]
      BY <1>2, <3>1
    <3>3. QED
      BY <2>2, <3>1, <3>2 DEF Prefixed
  <2>3. QED
    BY <2>1, <2>2
<1>5. ASSUME NEW i \in 1 .. n - 1 PROVE Moves(i)' = Moves(i + 1)
  <2>1. kbd'[i] = kbd[i + 1]
    BY <1>2
  <2>2. QED
    BY <1>4, <2>1 DEF Moves, Shiftcode
<1>6. Moves(1) = IF kbd[1] = E0 THEN {} ELSE Shiftcode(kbd[1][1], "E0ESC" \in shift)
  BY <1>2 DEF Moves, Prefixed
<1>7. ASSUME NEW m \in Modifiers
      PROVE  m \in shift' <=> IF m \in Moves(1) THEN ~kbd[1][2] ELSE m \in shift
  BY <1>3, <1>6 DEF Modifiers
<1>8. ASSUME NEW m \in Modifiers, WillBeSet(m)' PROVE WillBeSet(m)
  <2>1. CASE m \in shift' /\ \A i \in DOMAIN kbd' : m \notin Moves(i)'
    <3>1. \A j \in 1 .. n : j > 1 => m \notin Moves(j)
      <4> SUFFICES ASSUME NEW j \in 1 .. n, j > 1 PROVE m \notin Moves(j)
        OBVIOUS
      <4>1. PICK i \in 1 .. n - 1 : j = i + 1
        <5>1. j - 1 \in 1 .. n - 1 /\ j = (j - 1) + 1
          OBVIOUS
        <5>2. QED
          BY <5>1
      <4>2. QED
        BY ZenonT(60), <1>2, <1>5, <2>1, <4>1
    <3>2. CASE m \in Moves(1)
      BY <1>2, <1>7, <2>1, <3>1, <3>2 DEF WillBeSet
    <3>3. CASE m \notin Moves(1)
      <4>1. m \in shift
        BY <1>7, <2>1, <3>3
      <4>2. \A j \in 1 .. n : m \notin Moves(j)
        BY <3>1, <3>3
      <4>3. QED
        BY <1>2, <4>1, <4>2 DEF WillBeSet
    <3>4. QED
      BY <3>2, <3>3
  <2>2. CASE \E i \in DOMAIN kbd' : /\ m \in Moves(i)' /\ ~kbd'[i][2]
                                    /\ \A j \in DOMAIN kbd' : j > i => m \notin Moves(j)'
    <3>1. PICK i \in 1 .. n - 1 : /\ m \in Moves(i)' /\ ~kbd'[i][2]
                                  /\ \A j \in 1 .. n - 1 : j > i => m \notin Moves(j)'
      BY <1>2, <2>2
    <3>2. m \in Moves(i + 1) /\ ~kbd[i + 1][2] /\ i + 1 \in 1 .. n
      BY <1>2, <1>5, <3>1
    <3>3. ASSUME NEW j \in 1 .. n, j > i + 1 PROVE m \notin Moves(j)
      <4>1. PICK k \in 1 .. n - 1 : j = k + 1 /\ k > i
        <5>1. j - 1 \in 1 .. n - 1 /\ j = (j - 1) + 1 /\ j - 1 > i
          BY <3>3
        <5>2. QED
          BY <5>1
      <4>2. QED
        BY <1>5, <3>1, <4>1
    <3>4. QED
      BY <1>2, <3>2, <3>3 DEF WillBeSet
  <2>3. QED
    BY <1>8, <2>1, <2>2 DEF WillBeSet
<1>9. ASSUME NEW i \in 1 .. n - 1
      PROVE \/ kbd'[i] = E0 /\ i + 1 \in 1 .. n - 1 /\ kbd'[i + 1] \notin {E0, MouseByte}
            \/ kbd'[i] = MouseByte
            \/ \E k \in Keys, up \in BOOLEAN : kbd'[i] = <<k[1], up>> /\ (Prefixed(i)' <=> k[2])
  <2>1. PICK j \in 1 .. n : j = i + 1 /\ kbd'[i] = kbd[j] /\ (Prefixed(i)' <=> Prefixed(j))
    BY <1>2, <1>4
  <2>2. CASE kbd[j] = E0 /\ j + 1 \in 1 .. n /\ kbd[j + 1] \notin {E0, MouseByte}
    <3>1. i + 1 \in 1 .. n - 1
      BY <2>1, <2>2
    <3>2. kbd'[i + 1] = kbd[j + 1]
      BY <1>2, <2>1, <3>1
    <3>3. QED
      BY <2>1, <2>2, <3>1, <3>2
  <2>3. CASE \E k \in Keys, up \in BOOLEAN : kbd[j] = <<k[1], up>> /\ (Prefixed(j) <=> k[2])
    BY <2>1, <2>3
  <2>4. QED
    BY <1>2, <2>1, <2>2, <2>3 DEF KeyInv, KeysAhead
<1>10. "E0ESC" \in shift' => kbd' # <<>> /\ kbd'[1] \notin {E0, MouseByte}
  <2> SUFFICES ASSUME "E0ESC" \in shift' PROVE kbd' # <<>> /\ kbd'[1] \notin {E0, MouseByte}
    OBVIOUS
  <2>1. kbd[1] = E0
    BY <1>3
  <2>2. 1 + 1 \in 1 .. n /\ kbd[1 + 1] \notin {E0, MouseByte}
    BY <1>2, <2>1, SpecialCodes DEF KeyInv, KeysAhead
  <2>3. 1 \in 1 .. n - 1
    BY <2>2
  <2>4. QED
    BY SMTT(60), <1>2, <2>2, <2>3
<1>11. \A m \in Modifiers : WillBeSet(m)' => \E k \in held' : m \in Shiftcode(k[1], k[2])
  BY <1>8 DEF KeyInv, KeysAhead, Modifiers
<1>12. KeysAhead'
  BY <1>2, <1>9, <1>10, <1>11 DEF KeysAhead, Modifiers
<1>13. QED
  BY <1>2, <1>3, <1>12 DEF KeyInv

\* The keyboard controller's queue grows: the bytes that were there mean the same.
Grown(n, h) ==
    /\ DOMAIN kbd = 1 .. n /\ DOMAIN kbd' = 1 .. h
    /\ \A i \in 1 .. n : kbd'[i] = kbd[i]
    /\ shift' = shift

LEMMA QueueGrows ==
    ASSUME KeyInv, NEW n \in Nat, NEW h \in Nat, n < h, Grown(n, h)
    PROVE  /\ \A i \in 1 .. n : (Prefixed(i)' <=> Prefixed(i)) /\ Moves(i)' = Moves(i)
           /\ \A i \in 1 .. n :
                 \/ kbd'[i] = E0 /\ i + 1 \in 1 .. h /\ kbd'[i + 1] \notin {E0, MouseByte}
                 \/ kbd'[i] = MouseByte
                 \/ \E k \in Keys, up \in BOOLEAN : kbd'[i] = <<k[1], up>> /\ (Prefixed(i)' <=> k[2])
           /\ n # 0 => kbd[n] # E0
           /\ n = 0 => "E0ESC" \notin shift
<1>1. ASSUME NEW i \in 1 .. n PROVE Prefixed(i)' <=> Prefixed(i)
  <2>1. i # 1 => i - 1 \in 1 .. n
    OBVIOUS
  <2>2. i # 1 => kbd'[i - 1] = kbd[i - 1]
    BY <2>1 DEF Grown
  <2>3. QED
    BY <2>2 DEF Prefixed, Grown
<1>2. ASSUME NEW i \in 1 .. n PROVE Moves(i)' = Moves(i)
  <2>1. kbd'[i] = kbd[i]
    BY DEF Grown
  <2>2. QED
    BY <1>1, <2>1 DEF Moves, Shiftcode
<1>3. ASSUME NEW i \in 1 .. n
      PROVE  \/ kbd'[i] = E0 /\ i + 1 \in 1 .. h /\ kbd'[i + 1] \notin {E0, MouseByte}
             \/ kbd'[i] = MouseByte
             \/ \E k \in Keys, up \in BOOLEAN : kbd'[i] = <<k[1], up>> /\ (Prefixed(i)' <=> k[2])
  <2>1. kbd'[i] = kbd[i] /\ (Prefixed(i)' <=> Prefixed(i))
    BY <1>1 DEF Grown
  <2>2. CASE kbd[i] = E0 /\ i + 1 \in 1 .. n /\ kbd[i + 1] \notin {E0, MouseByte}
    BY <2>1, <2>2 DEF Grown
  <2>3. CASE kbd[i] = MouseByte
    BY <2>1, <2>3
  <2>4. CASE \E k \in Keys, up \in BOOLEAN : kbd[i] = <<k[1], up>> /\ (Prefixed(i) <=> k[2])
    BY <2>1, <2>4
  <2>5. QED
    BY <2>2, <2>3, <2>4 DEF Grown, KeyInv, KeysAhead
<1>4. ASSUME n # 0 PROVE kbd[n] # E0
  <2>1. n \in 1 .. n /\ n + 1 \notin 1 .. n
    BY <1>4
  <2>2. QED
    BY <2>1, SpecialCodes DEF Grown, KeyInv, KeysAhead
<1>5. ASSUME n = 0 PROVE "E0ESC" \notin shift
  <2>1. kbd = <<>>
    BY <1>5 DEF Grown, KeyInv
  <2>2. QED
    BY <2>1 DEF KeyInv, KeysAhead
<1>6. QED
  BY <1>1, <1>2, <1>3, <1>4, <1>5

\* A byte that moves no modifier leaves what will be set.
LEMMA WillBeSetBefore ==
    ASSUME KeyInv, NEW n \in Nat, NEW h \in Nat, n < h, Grown(n, h), NEW m,
           \A i \in 1 .. h : i > n => m \notin Moves(i)', WillBeSet(m)'
    PROVE  WillBeSet(m)
<1>1. \A i \in 1 .. n : i \in 1 .. h /\ kbd'[i] = kbd[i] /\ Moves(i)' = Moves(i)
  BY QueueGrows DEF Grown
<1>2. CASE m \in shift' /\ \A i \in DOMAIN kbd' : m \notin Moves(i)'
  BY <1>1, <1>2 DEF WillBeSet, Grown
<1>3. CASE \E i \in DOMAIN kbd' : /\ m \in Moves(i)' /\ ~kbd'[i][2]
                                  /\ \A j \in DOMAIN kbd' : j > i => m \notin Moves(j)'
  <2>1. PICK i \in 1 .. h : /\ m \in Moves(i)' /\ ~kbd'[i][2]
                            /\ \A j \in 1 .. h : j > i => m \notin Moves(j)'
    BY <1>3 DEF Grown
  <2>2. i \in 1 .. n
    <3>1. ~(i > n)
      BY <2>1
    <3>2. QED
      BY <3>1
  <2>3. m \in Moves(i) /\ ~kbd[i][2]
    BY <1>1, <2>1, <2>2
  <2>4. \A j \in 1 .. n : j > i => m \notin Moves(j)
    BY <1>1, <2>1
  <2>5. QED
    BY <2>2, <2>3, <2>4 DEF WillBeSet, Grown
<1>4. QED
  BY <1>2, <1>3 DEF WillBeSet

LEMMA TwoBytes ==
    ASSUME NEW S, NEW x \in S, NEW y \in S
    PROVE  /\ <<x>> \o <<y>> \in Seq(S) /\ Len(<<x>> \o <<y>>) = 2
           /\ (<<x>> \o <<y>>)[1] = x /\ (<<x>> \o <<y>>)[2] = y
OBVIOUS

\* What KeyStroke does to the queue and the keys.
Struck(code, e0, up) ==
    /\ kbd' = kbd \o ((IF e0 THEN <<E0>> ELSE <<>>) \o <<<<code, up>>>>)
    /\ held' = IF up THEN held \ {<<code, e0>>} ELSE held \cup {<<code, e0>>}
    /\ shift' = shift

\* A key goes down or comes up: its bytes lead to the state of the keys.
LEMMA KeyStruck ==
    ASSUME KeyInv, NEW code, NEW e0 \in BOOLEAN, NEW up \in BOOLEAN, <<code, e0>> \in Keys,
           Struck(code, e0, up)
    PROVE  KeyInv'
<1>0. PICK byte : byte = <<code, up>>
  OBVIOUS
<1>0a. byte[1] = code /\ byte[2] = up
  BY <1>0
<1>1. PICK n \in Nat : n = Len(kbd) /\ DOMAIN kbd = 1 .. n
  BY DEF KeyInv
<1>2. PICK h \in Nat : h = IF e0 THEN n + 2 ELSE n + 1
  OBVIOUS
<1>3. code \in Codes /\ byte \in Codes \X BOOLEAN /\ E0 \in Codes \X BOOLEAN
  BY <1>0 DEF Codes, Keys, E0
<1>4. byte \notin {E0, MouseByte}
  <2>1. PICK k \in Keys : k = <<code, e0>>
    OBVIOUS
  <2>2. k[1] = code
    BY <2>1
  <2>3. QED
    BY <1>0, <2>2, SpecialCodes
<1>5. /\ kbd' \in Seq(Codes \X BOOLEAN) /\ Grown(n, h)
      /\ kbd'[h] = byte /\ n < h /\ h \in 1 .. h
      /\ \A i \in 1 .. h : i > n /\ i # h => e0 /\ i = n + 1 /\ h = n + 2 /\ kbd'[i] = E0
      /\ e0 => kbd'[n + 1] = E0
  <2>1. CASE e0
    <3>1. kbd' = kbd \o (<<E0>> \o <<byte>>) /\ shift' = shift
      BY <1>0, <2>1 DEF Struck
    <3>2. PICK t : t = <<E0>> \o <<byte>>
      OBVIOUS
    <3>2a. t \in Seq(Codes \X BOOLEAN) /\ Len(t) = 2 /\ t[1] = E0 /\ t[2] = byte
      BY <1>3, <3>2, TwoBytes
    <3>3. kbd' = kbd \o t
      BY <3>1, <3>2
    <3>4. QED
      BY <1>1, <1>2, <1>3, <2>1, <3>1, <3>2a, <3>3 DEF KeyInv, Grown
  <2>2. CASE ~e0
    <3>1. kbd' = kbd \o (<<>> \o <<byte>>) /\ shift' = shift
      BY <1>0, <2>2 DEF Struck
    <3>2. \A y : <<>> \o <<y>> = <<y>>
      OBVIOUS
    <3>3. kbd' = kbd \o <<byte>>
      BY <3>1, <3>2
    <3>4. QED
      BY <1>1, <1>2, <1>3, <2>2, <3>1, <3>3 DEF KeyInv, Grown
  <2>3. QED
    BY <2>1, <2>2
<1>6. Prefixed(h)' <=> e0
  <2>1. CASE e0
    <3>1. h # 1 /\ h - 1 = n + 1
      BY <1>2, <2>1
    <3>2. QED
      BY <1>5, <2>1, <3>1 DEF Prefixed
  <2>2. CASE ~e0
    <3>1. h - 1 = n /\ (h = 1 <=> n = 0) /\ (n # 0 => n \in 1 .. n)
      BY <1>2, <2>2
    <3>2. n # 0 => kbd'[n] # E0
      BY <1>5, <3>1, QueueGrows DEF Grown
    <3>3. n = 0 => "E0ESC" \notin shift'
      BY <1>5, QueueGrows DEF Grown
    <3>4. QED
      BY <2>2, <3>1, <3>2, <3>3 DEF Prefixed
  <2>3. QED
    BY <2>1, <2>2
<1>7. Moves(h)' = Shiftcode(code, e0)
  <2>1. kbd'[h] \notin {E0, MouseByte} /\ kbd'[h][1] = code
    BY <1>0a, <1>4, <1>5
  <2>2. QED
    BY <1>6, <2>1 DEF Moves, Shiftcode
<1>8. \A i \in 1 .. h : i > n /\ i # h => Moves(i)' = {}
  BY <1>5 DEF Moves
<1>9. ASSUME NEW m \in Modifiers, WillBeSet(m)'
      PROVE  \E k \in held' : m \in Shiftcode(k[1], k[2])
  <2>1. PICK key \in Keys : key = <<code, e0>> /\ key[1] = code /\ key[2] = e0
    OBVIOUS
  <2>2. CASE m \in Moves(h)'
    <3>1. ~up
      <4>1. PICK i \in 1 .. h : /\ m \in Moves(i)' /\ ~kbd'[i][2]
                                /\ \A j \in 1 .. h : j > i => m \notin Moves(j)'
        BY <1>5, <1>9, <2>2 DEF WillBeSet, Grown
      <4>2. i = h
        <5>1. ~(h > i)
          BY <1>5, <2>2, <4>1
        <5>2. QED
          BY <5>1
      <4>3. kbd'[h][2] = up
        BY <1>0a, <1>5
      <4>4. QED
        BY <4>1, <4>2, <4>3
    <3>2. key \in held'
      BY <2>1, <3>1 DEF Struck
    <3>3. QED
      BY <1>7, <2>1, <2>2, <3>2
  <2>3. CASE m \notin Moves(h)'
    <3>1. \A i \in 1 .. h : i > n => m \notin Moves(i)'
      BY <1>8, <2>3
    <3>2. WillBeSet(m)
      BY <1>5, <1>9, <3>1, WillBeSetBefore
    <3>3. PICK k \in held : m \in Shiftcode(k[1], k[2])
      BY <3>2 DEF KeyInv, KeysAhead, Modifiers
    <3>4. k # key
      BY <1>7, <2>1, <2>3, <3>3
    <3>5. k \in held'
      BY <2>1, <3>4 DEF Struck
    <3>6. QED
      BY <3>3, <3>5
  <2>4. QED
    BY <2>2, <2>3
<1>10. ASSUME NEW i \in 1 .. h
       PROVE \/ kbd'[i] = E0 /\ i + 1 \in 1 .. h /\ kbd'[i + 1] \notin {E0, MouseByte}
             \/ kbd'[i] = MouseByte
             \/ \E k \in Keys, u \in BOOLEAN : kbd'[i] = <<k[1], u>> /\ (Prefixed(i)' <=> k[2])
  <2>1. CASE i = h
    <3>1. PICK key \in Keys : key = <<code, e0>> /\ key[1] = code /\ key[2] = e0
      OBVIOUS
    <3>2. kbd'[i] = <<key[1], up>> /\ (Prefixed(i)' <=> key[2])
      BY <1>0, <1>5, <1>6, <2>1, <3>1
    <3>3. QED
      BY <3>2
  <2>2. CASE i > n /\ i # h
    <3>1. i = n + 1 /\ h = n + 2 /\ kbd'[i] = E0
      BY <1>5, <2>2
    <3>1a. i + 1 = h
      BY <3>1
    <3>2. QED
      BY <1>4, <1>5, <3>1, <3>1a
  <2>3. CASE ~(i > n)
    <3>1. i \in 1 .. n
      BY <2>3
    <3>2. QED
      BY <1>5, <3>1, QueueGrows
  <2>4. QED
    BY <2>1, <2>2, <2>3
<1>11. "E0ESC" \in shift' => kbd' # <<>> /\ kbd'[1] \notin {E0, MouseByte}
  <2> SUFFICES ASSUME "E0ESC" \in shift' PROVE kbd' # <<>> /\ kbd'[1] \notin {E0, MouseByte}
    OBVIOUS
  <2>0. "E0ESC" \in shift
    BY <1>5 DEF Grown
  <2>1. n # 0 /\ kbd[1] \notin {E0, MouseByte}
    BY <1>5, <2>0, QueueGrows DEF KeyInv, KeysAhead
  <2>2. 1 \in 1 .. n
    BY <2>1
  <2>3. QED
    BY <1>5, <2>1, <2>2 DEF Grown
<1>12. held' \subseteq Keys
  BY DEF KeyInv, Struck
<1>13. KeysAhead'
  <2>1. DOMAIN kbd' = 1 .. h
    BY <1>5 DEF Grown
  <2>2. QED
    BY <1>9, <1>10, <1>11, <2>1 DEF KeysAhead, Modifiers
<1>14. kbd' \in Seq(Codes \X BOOLEAN) /\ shift' = shift
  BY <1>5 DEF Grown
<1>15. QED
  BY <1>12, <1>13, <1>14 DEF KeyInv

\* A byte of the mouse changes nothing for the keys.
LEMMA MouseMoved ==
    ASSUME KeyInv, kbd' = Append(kbd, MouseByte), held' = held, shift' = shift
    PROVE  KeyInv'
<1>1. PICK n \in Nat : n = Len(kbd) /\ DOMAIN kbd = 1 .. n
  BY DEF KeyInv
<1>2. MouseByte \in Codes \X BOOLEAN
  BY DEF MouseByte, Codes
<1>3. PICK h \in Nat : h = n + 1
  OBVIOUS
<1>4. kbd' \in Seq(Codes \X BOOLEAN) /\ Grown(n, h) /\ kbd'[h] = MouseByte /\ n < h
  BY <1>1, <1>2, <1>3 DEF KeyInv, Grown
<1>5. Moves(h)' = {}
  BY <1>4 DEF Moves
<1>6. ASSUME NEW m \in Modifiers, WillBeSet(m)'
      PROVE  \E k \in held' : m \in Shiftcode(k[1], k[2])
  <2>1. \A i \in 1 .. h : i > n => m \notin Moves(i)'
    <3>1. \A i \in 1 .. h : i > n => i = h
      BY <1>3
    <3>2. QED
      BY <1>5, <3>1
  <2>2. WillBeSet(m)
    BY <1>4, <1>6, <2>1, WillBeSetBefore
  <2>3. QED
    BY <2>2 DEF KeyInv, KeysAhead, Modifiers
<1>7. ASSUME NEW i \in 1 .. h
      PROVE \/ kbd'[i] = E0 /\ i + 1 \in 1 .. h /\ kbd'[i + 1] \notin {E0, MouseByte}
            \/ kbd'[i] = MouseByte
            \/ \E k \in Keys, up \in BOOLEAN : kbd'[i] = <<k[1], up>> /\ (Prefixed(i)' <=> k[2])
  <2>1. CASE i = h
    BY <1>4, <2>1
  <2>2. CASE i # h
    <3>1. i \in 1 .. n
      BY <1>3, <2>2
    <3>2. QED
      BY <1>4, <3>1, QueueGrows
  <2>3. QED
    BY <2>1, <2>2
<1>8. "E0ESC" \in shift' => kbd' # <<>> /\ kbd'[1] \notin {E0, MouseByte}
  <2> SUFFICES ASSUME "E0ESC" \in shift' PROVE kbd' # <<>> /\ kbd'[1] \notin {E0, MouseByte}
    OBVIOUS
  <2>1. n # 0 /\ kbd[1] \notin {E0, MouseByte}
    BY <1>4, QueueGrows DEF KeyInv, KeysAhead
  <2>2. 1 \in 1 .. n
    BY <2>1
  <2>3. QED
    BY <1>4, <2>1, <2>2 DEF Grown
<1>9. KeysAhead'
  BY <1>4, <1>6, <1>7, <1>8 DEF KeysAhead, Modifiers, Grown
<1>10. QED
  BY <1>4, <1>9 DEF KeyInv

----------------------------------------------------------------------------
(* The invariant, in three parts that different steps disturb *)

RingInv ==
    /\ rpos \in Position /\ wpos \in Position
    /\ arrived \in Seq(Char) /\ lastread \in 0 .. Len(arrived)
    /\ buf \in [Position -> 0 .. Len(arrived)]
    /\ Ordered(buf, rpos, wpos, Len(arrived), lastread)

Reading == {"serial", "kbd", "grab", "line"}

ScreenInv ==
    /\ Screen \in Screens /\ line \in Seq(Char) /\ Len(line) < BUFLEN
    /\ pc \in Reading => Shows(Screen, line)

Inv == KeyInv /\ RingInv /\ ScreenInv /\ serial \in SerialBytes \cup {"none"} /\ c \in Char

LEMMA InvInit == Init => Inv
<1> SUFFICES ASSUME Init PROVE Inv
  OBVIOUS
<1>1. KeyInv
  <2>1. held \subseteq Keys /\ kbd \in Seq(Codes \X BOOLEAN) /\ shift \subseteq Bits
    BY DEF Init
  <2>2. kbd = <<>> /\ shift = {} /\ DOMAIN kbd = {}
    BY DEF Init
  <2>3. \A m : ~WillBeSet(m)
    BY <2>2 DEF WillBeSet
  <2>4. KeysAhead
    BY <2>2, <2>3 DEF KeysAhead
  <2>5. QED
    BY <2>1, <2>4 DEF KeyInv
<1>2. RingInv
  <2>1. /\ rpos = 0 /\ wpos = 0 /\ Len(arrived) = 0 /\ lastread = 0
        /\ arrived \in Seq(Char) /\ buf = [i \in Position |-> 0]
    BY DEF Init, Position
  <2>2. 0 \in Position /\ Unread(0, 0) = 0
    BY DEF Position, Unread
  <2>3. 0 % CONSBUFSIZE = 0
    OBVIOUS
  <2>4. Ordered(buf, 0, 0, 0, 0)
    BY <2>2, <2>3 DEF Ordered
  <2>5. QED
    BY <2>1, <2>2, <2>4 DEF RingInv
<1>3. ScreenInv
  <2>1. /\ crt_buf \in [0 .. CRT_SIZE - 1 -> Cell] /\ crt_pos \in 0 .. CRT_SIZE - 1
    BY Sizes DEF Init, Cell
  <2>2. line \in Seq(Char) /\ Len(line) < BUFLEN /\ pc \notin Reading
    BY Sizes DEF Init, Reading
  <2>3. QED
    BY <2>1, <2>2 DEF ScreenInv, Screen, Screens
<1>4. serial \in SerialBytes \cup {"none"} /\ c \in Char
  BY DEF Init, Char
<1>5. QED
  BY <1>1, <1>2, <1>3, <1>4 DEF Inv

LEMMA KeyInvStable ==
    ASSUME KeyInv, UNCHANGED <<kbd, held, shift>> PROVE KeyInv'
<1>1. /\ \A i : Prefixed(i)' <=> Prefixed(i)
      /\ \A i : Moves(i)' = Moves(i)
      /\ \A m : WillBeSet(m)' <=> WillBeSet(m)
  BY DEF Prefixed, Moves, WillBeSet
<1>2. QED
  BY <1>1 DEF KeyInv, KeysAhead

LEMMA RingInvStable ==
    ASSUME RingInv, UNCHANGED ring PROVE RingInv'
BY DEF RingInv, ring

LEMMA ScreenInvStable ==
    ASSUME ScreenInv, UNCHANGED <<screen, line>>, pc' \in Reading => pc \in Reading
    PROVE  ScreenInv'
<1>1. UNCHANGED Screen /\ UNCHANGED line
  BY DEF Screen, screen
<1>2. QED
  BY <1>1 DEF ScreenInv

\* A round of cons_intr.
LEMMA PutInv ==
    ASSUME RingInv, NEW ch \in Char, ConsPut(ch) PROVE RingInv'
<1>1. CASE ch = "no"
  BY <1>1, RingInvStable DEF ConsPut
<1>2. CASE ch # "no"
  <2>1. PICK n \in Nat : n = Len(arrived) /\ lastread \in 0 .. n
                         /\ buf \in [Position -> 0 .. n]
    BY DEF RingInv
  <2>2. /\ arrived' = Append(arrived, ch) /\ buf' = [buf EXCEPT ![wpos] = n + 1]
        /\ wpos' = NextPos(wpos) /\ rpos' = rpos /\ lastread' = lastread
    BY <1>2, <2>1 DEF ConsPut
  <2>3. arrived' \in Seq(Char) /\ Len(arrived') = n + 1
    BY <2>1, <2>2 DEF RingInv
  <2>4. buf' \in [Position -> 0 .. n + 1] /\ lastread' \in 0 .. n + 1
    BY <2>1, <2>2 DEF RingInv
  <2>5. rpos \in Position /\ wpos \in Position /\ wpos' \in Position
    BY <2>2, NextPosition DEF RingInv
  <2>6. Ordered(buf, rpos, wpos, n, lastread)
    BY <2>1 DEF RingInv
  <2>7. Ordered([buf EXCEPT ![wpos] = n + 1], rpos, NextPos(wpos), n + 1, lastread)
    BY <2>1, <2>5, <2>6, RingPut
  <2>8. Ordered(buf', rpos', wpos', n + 1, lastread')
    BY <2>2, <2>7
  <2>9. QED
    BY <2>2, <2>3, <2>4, <2>5, <2>8 DEF RingInv
<1>3. QED
  BY <1>1, <1>2

\* cons_getc takes a character that really came.
LEMMA GetInv ==
    ASSUME RingInv, ConsGetc, c \in Char PROVE RingInv' /\ c' \in Char
<1>1. CASE rpos = wpos
  BY <1>1, RingInvStable DEF ConsGetc, ring
<1>2. CASE rpos # wpos
  <2>1. PICK n \in Nat : n = Len(arrived) /\ lastread \in 0 .. n
                         /\ buf \in [Position -> 0 .. n]
    BY DEF RingInv
  <2>2. /\ rpos \in Position /\ wpos \in Position
        /\ Ordered(buf, rpos, wpos, n, lastread)
    BY <2>1 DEF RingInv
  <2>3. buf[rpos] \in 1 .. n /\ Ordered(buf, NextPos(rpos), wpos, n, buf[rpos])
    BY <1>2, <2>1, <2>2, RingGet
  <2>4. /\ c' = arrived[buf[rpos]] /\ lastread' = buf[rpos] /\ rpos' = NextPos(rpos)
        /\ UNCHANGED <<buf, wpos, arrived>>
    BY <1>2 DEF ConsGetc
  <2>5. c' \in Char
    BY <2>1, <2>3, <2>4 DEF RingInv
  <2>6. NextPos(rpos) \in Position
    BY <2>2, NextPosition
  <2>7. RingInv'
    BY <2>1, <2>2, <2>3, <2>4, <2>6 DEF RingInv
  <2>8. QED
    BY <2>5, <2>7
<1>3. QED
  BY <1>1, <1>2

\* The screen that is shown is again a screen.
LEMMA ShowType ==
    ASSUME NEW s \in Screens, Show(s) PROVE Screen' = s /\ Screen' \in Screens
<1>1. s = [buf |-> s.buf, pos |-> s.pos]
  BY DEF Screens
<1>2. QED
  BY <1>1 DEF Show, Screen

LEMMA CputcharType ==
    ASSUME ScreenInv, NEW ch \in Cell \cup {"tab"}, Cputchar(ch)
    PROVE  Screen' = CgaPutc(Screen, ch) /\ Screen' \in Screens
<1>1. CgaPutc(Screen, ch) \in Screens
  BY CgaPutcType DEF ScreenInv
<1>2. QED
  BY <1>1, ShowType DEF Cputchar

\* What readline does to the line and the screen.
LEMMA ReadlineInv ==
    ASSUME ScreenInv, c \in Char, Readline PROVE ScreenInv'
<1>1. pc = "line" /\ Shows(Screen, line) /\ Screen \in Screens
      /\ line \in Seq(Char) /\ Len(line) \in Nat /\ Len(line) < BUFLEN
  BY DEF ScreenInv, Readline, Reading
<1>2. "bs" \in Cell /\ "nl" \in Cell /\ c \in Cell
  BY DEF Cell, Char
<1>3. CASE Cputchar("bs") /\ line # <<>> /\ line' = Front(line)
  <2>1. Screen' = CgaPutc(Screen, "bs") /\ Screen' \in Screens
    BY <1>2, <1>3, CputcharType
  <2>2. Shows(CgaPutc(Screen, "bs"), Front(line))
    BY <1>1, <1>3, EchoErases
  <2>3. Front(line) \in Seq(Char) /\ Len(Front(line)) < BUFLEN
    BY <1>1, <1>3, Sizes DEF Front
  <2>4. QED
    BY <1>3, <2>1, <2>2, <2>3 DEF ScreenInv
<1>4. CASE /\ Cputchar(c) /\ line' = Append(line, c)
           /\ c \notin Control /\ Len(line) < BUFLEN - 1
  <2>1. Screen' = CgaPutc(Screen, c) /\ Screen' \in Screens
    BY <1>2, <1>4, CputcharType
  <2>2. Shows(CgaPutc(Screen, c), Append(line, c))
    BY <1>1, <1>4, EchoStores
  <2>3. Append(line, c) \in Seq(Char) /\ Len(Append(line, c)) < BUFLEN
    BY <1>1, <1>4, Sizes
  <2>4. QED
    BY <1>4, <2>1, <2>2, <2>3 DEF ScreenInv
<1>5. CASE Cputchar("nl") /\ pc' = "runcmd" /\ line' = line
  BY <1>1, <1>2, <1>5, CputcharType DEF ScreenInv, Reading
<1>6. CASE UNCHANGED <<screen, line>>
  BY <1>1, <1>6, ScreenInvStable DEF Reading
<1>7. QED
  BY <1>3, <1>4, <1>5, <1>6 DEF Readline

\* Every step keeps the three parts.
LEMMA InvStep ==
    ASSUME Inv, [Next]_vars PROVE Inv'
<1>1. CASE UNCHANGED vars
  BY <1>1, KeyInvStable, RingInvStable, ScreenInvStable
  DEF Inv, vars, devices, ring, screen
<1>2. ASSUME NEW b \in SerialBytes, SerialArrives(b) PROVE Inv'
  BY <1>2, KeyInvStable, RingInvStable, ScreenInvStable DEF Inv, SerialArrives
<1>3. ASSUME NEW k \in Keys, NEW up \in BOOLEAN, KeyStroke(k[1], k[2], up) PROVE Inv'
  <2>1. k[2] \in BOOLEAN /\ <<k[1], k[2]>> \in Keys
    BY DEF Keys
  <2>2. Struck(k[1], k[2], up)
    BY <1>3 DEF KeyStroke, Struck
  <2>3. KeyInv'
    BY <2>1, <2>2, KeyStruck DEF Inv
  <2>4. UNCHANGED <<serial, ring, screen, line, pc, c>>
    BY <1>3 DEF KeyStroke
  <2>5. QED
    BY <2>3, <2>4, RingInvStable, ScreenInvStable DEF Inv
<1>4. CASE MouseMoves
  BY <1>4, MouseMoved, RingInvStable, ScreenInvStable DEF Inv, MouseMoves
<1>5. ASSUME NEW ch \in {"x", "bs", "tab", "nl", "cr"}, BootPrint(ch) PROVE Inv'
  <2>1. ch \in Cell \cup {"tab"}
    BY DEF Cell, Char
  <2>2. Screen' \in Screens
    BY <1>5, <2>1, CputcharType DEF Inv, BootPrint
  <2>3. ScreenInv'
    BY <1>5, <2>2 DEF Inv, ScreenInv, BootPrint, Reading
  <2>4. QED
    BY <1>5, <2>3, KeyInvStable, RingInvStable DEF Inv, BootPrint
<1>6. CASE Monitor
  BY <1>6, KeyInvStable, RingInvStable, ScreenInvStable
  DEF Inv, Monitor, devices, Reading
<1>7. CASE Prompt
  <2>1. ">" \in Cell \cup {"tab"}
    BY DEF Cell
  <2>2. Screen' \in Screens
    BY <1>7, <2>1, CputcharType DEF Inv, Prompt
  <2>3. line' = <<>> /\ line' \in Seq(Char) /\ Len(line') = 0 /\ Len(line') < BUFLEN
    BY <1>7, Sizes DEF Prompt
  <2>4. Screen'.pos \in Nat
    BY <2>2, Sizes DEF Screens
  <2>5. Shows(Screen', line')
    BY <2>3, <2>4 DEF Shows
  <2>6. ScreenInv'
    BY <2>2, <2>3, <2>5 DEF ScreenInv
  <2>7. QED
    BY <1>7, <2>6, KeyInvStable, RingInvStable DEF Inv, Prompt, devices
<1>8. CASE SerialIntr
  <2>1. CASE serial_exists /\ serial # "none"
    <3>1. serial \in Char
      BY <2>1 DEF Inv, Char
    <3>2. RingInv' /\ serial' = "none"
      BY <1>8, <2>1, <3>1, PutInv DEF Inv, SerialIntr
    <3>3. QED
      BY <1>8, <2>1, <3>2, KeyInvStable, ScreenInvStable DEF Inv, SerialIntr, Reading
  <2>2. CASE ~(serial_exists /\ serial # "none")
    BY <1>8, <2>2, KeyInvStable, RingInvStable, ScreenInvStable
    DEF Inv, SerialIntr, Reading
  <2>3. QED
    BY <2>1, <2>2
<1>9. CASE KbdIntr
  <2>1. CASE kbd # <<>> /\ Head(kbd) # MouseByte
    <3>1. /\ kbd' = Tail(kbd) /\ shift' = KbdProcData(Head(kbd)).bits /\ held' = held
          /\ ConsPut(KbdProcData(Head(kbd)).ch)
          /\ UNCHANGED <<serial, screen, line, c>>
      BY <1>9, <2>1 DEF KbdIntr
    <3>2. Head(kbd) \in Codes \X BOOLEAN
      BY <2>1 DEF Inv, KeyInv
    <3>3. KbdProcData(Head(kbd)).ch \in Char
      BY <3>2, KbdBits DEF Inv, KeyInv
    <3>4. KeyInv'
      BY <2>1, <3>1, ByteTaken DEF Inv
    <3>5. RingInv'
      BY <3>1, <3>3, PutInv DEF Inv
    <3>6. pc \in Reading
      BY <1>9 DEF KbdIntr, Reading
    <3>7. QED
      BY <3>1, <3>4, <3>5, <3>6, ScreenInvStable DEF Inv
  <2>2. CASE ~(kbd # <<>> /\ Head(kbd) # MouseByte)
    BY <1>9, <2>2, KeyInvStable, RingInvStable, ScreenInvStable
    DEF Inv, KbdIntr, Reading
  <2>3. QED
    BY <2>1, <2>2
<1>10. CASE ConsGetc
  <2>1. RingInv' /\ c' \in Char
    BY <1>10, GetInv DEF Inv
  <2>2. QED
    BY <1>10, <2>1, KeyInvStable, ScreenInvStable DEF Inv, ConsGetc, devices, Reading
<1>11. CASE Readline
  <2>1. ScreenInv'
    BY <1>11, ReadlineInv DEF Inv
  <2>2. QED
    BY <1>11, <2>1, KeyInvStable, RingInvStable DEF Inv, Readline, devices
<1>12. CASE Runcmd
  <2>1. UNCHANGED <<kbd, held, shift, ring, line, serial, c>> /\ pc' = "readline"
    BY <1>12 DEF Runcmd, devices
  <2>2. Screen' \in Screens
    <3>1. CASE Show(CgaPutc(CgaPutc(Screen, "x"), "nl"))
      <4>1. "x" \in Cell \cup {"tab"} /\ "nl" \in Cell \cup {"tab"}
        BY DEF Cell, Char
      <4>2. CgaPutc(Screen, "x") \in Screens
        BY <4>1, CgaPutcType DEF Inv, ScreenInv
      <4>3. CgaPutc(CgaPutc(Screen, "x"), "nl") \in Screens
        BY <4>1, <4>2, CgaPutcType
      <4>4. QED
        BY <3>1, <4>3, ShowType
    <3>2. CASE UNCHANGED screen
      BY <3>2 DEF Inv, ScreenInv, Screen, screen
    <3>3. QED
      BY <1>12, <3>1, <3>2 DEF Runcmd
  <2>3. ScreenInv'
    BY <2>1, <2>2 DEF Inv, ScreenInv, Reading
  <2>4. QED
    BY <2>1, <2>3, KeyInvStable, RingInvStable DEF Inv
<1>13. QED
  BY <1>1, <1>2, <1>3, <1>4, <1>5, <1>6, <1>7, <1>8, <1>9, <1>10, <1>11, <1>12
  DEF Next, Device, Cpu

LEMMA InvHolds == Spec => []Inv
<1>1. Inv /\ [Next]_vars => Inv'
  BY InvStep
<1>2. QED
  BY <1>1, InvInit, PTL DEF Spec

----------------------------------------------------------------------------
(* The theorems *)

\* Whatever comes in, the state of the shift keys is true to the keys once all is
\* read, and ring, screen and line stay within their bounds (console.c:340-371).
THEOREM KeysDoNotStick == Spec => []ConsoleInv
<1>1. Inv => TypeOK
  <2> SUFFICES ASSUME Inv PROVE TypeOK
    OBVIOUS
  <2>1. Screen.buf = crt_buf /\ Screen.pos = crt_pos
    BY DEF Screen
  <2>2. crt_buf \in [0 .. CRT_SIZE - 1 -> Cell] /\ crt_pos \in 0 .. CRT_SIZE - 1
    BY <2>1 DEF Inv, ScreenInv, Screens
  <2>3. QED
    BY <2>2 DEF Inv, KeyInv, RingInv, ScreenInv, TypeOK, Codes, Bits, Position
<1>2. Inv => NoStuckModifier
  <2> SUFFICES ASSUME Inv, kbd = <<>>, NEW m \in shift \ {"CAPSLOCK"}
               PROVE  \E k \in held : m \in Shiftcode(k[1], k[2])
    BY DEF NoStuckModifier
  <2>1. m \in {"SHIFT", "CTL", "ALT"}
    BY DEF Inv, KeyInv, KeysAhead, Bits
  <2>2. WillBeSet(m)
    BY DEF WillBeSet
  <2>3. QED
    BY <2>1, <2>2 DEF Inv, KeyInv, KeysAhead
<1>3. Inv => ConsoleInv
  BY <1>1, <1>2 DEF Inv, KeyInv, ConsoleInv
<1>4. QED
  BY <1>3, InvHolds, PTL

\* The unread characters are the newest, in order, however often the ring, which
\* has no test for being full, ran over (console.c:403-432).
THEOREM RingOrder == Spec => []RingKeepsOrder
<1>1. Inv => RingKeepsOrder
  <2> SUFFICES ASSUME Inv PROVE RingKeepsOrder
    OBVIOUS
  <2>1. PICK n \in Nat : n = Len(arrived)
    BY DEF Inv, RingInv
  <2>2. rpos \in Position /\ wpos \in Position /\ Ordered(buf, rpos, wpos, n, lastread)
    BY <2>1 DEF Inv, RingInv
  <2>3. PICK u \in 0 .. CONSBUFSIZE - 1 :
           /\ u = Unread(rpos, wpos) /\ (wpos + CONSBUFSIZE - rpos) % CONSBUFSIZE = u
           /\ \A k \in 1 .. u : (rpos + k - 1) % CONSBUFSIZE = At(rpos, k)
    BY <2>2, RemainderForm
  <2>4. /\ \A k \in 1 .. u : buf[At(rpos, k)] = n - u + k
        /\ n - u >= lastread /\ (n - u - lastread) % CONSBUFSIZE = 0
    BY <2>2, <2>3 DEF Ordered
  <2>5. QED
    BY <2>1, <2>3, <2>4 DEF RingKeepsOrder
<1>2. QED
  BY <1>1, InvHolds, PTL

\* While the monitor reads, the cells left of the cursor are the line, whatever was
\* printed before it, however it wrapped and scrolled (readline.c:15-38).
THEOREM EchoIsTheLine == Spec => []EchoShowsLine
<1>1. Inv => EchoShowsLine
  <2> SUFFICES ASSUME Inv, pc \in Reading
               PROVE  /\ crt_pos >= Len(line)
                      /\ \A i \in DOMAIN line :
                            crt_buf[crt_pos - Len(line) + i - 1] = line[i]
    BY DEF EchoShowsLine, Reading
  <2>1. Screen.buf = crt_buf /\ Screen.pos = crt_pos
    BY DEF Screen
  <2>2. Shows(Screen, line) /\ DOMAIN line = 1 .. Len(line)
    BY DEF Inv, ScreenInv
  <2>3. QED
    BY <2>1, <2>2 DEF Shows
<1>2. QED
  BY <1>1, InvHolds, PTL
=============================================================================
