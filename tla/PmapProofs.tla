----------------------------- MODULE PmapProofs -----------------------------
(***************************************************************************)
(* TLAPS proofs about Pmap, for any number of environments and pages and   *)
(* any size of tables.  The functions of pmap.c are taken one at a time:   *)
(* each preserves an account of memory (Account) in which one page may be  *)
(* held by the call that is under way, and may have one count too many.    *)
(***************************************************************************)
EXTENDS Pmap, FiniteSetTheorems, TLAPS

----------------------------------------------------------------------------
(* Counts *)

Words == [Page -> [Index -> Entry \cup {NULL}]]
Dirs == [Env -> Page \cup {NULL}]

MachineSet == [ref : [Page -> 0 .. REFMOD - 1], free : Seq(Page), mem : Words, bad : BOOLEAN]

LEMMA CountUp ==
    ASSUME NEW c \in Nat, c + 1 < REFMOD
    PROVE  (c + 1) % REFMOD = c + 1
  BY PmapAssumption

LEMMA CountSmall ==
    ASSUME NEW c \in Nat, c < REFMOD
    PROVE  c % REFMOD = c
  BY PmapAssumption

LEMMA CountDown ==
    ASSUME NEW c \in Nat, 1 <= c, c < REFMOD
    PROVE  (c + REFMOD - 1) % REFMOD = c - 1
  BY PmapAssumption

LEMMA CountUpDown ==
    ASSUME NEW c \in Nat, c < REFMOD
    PROVE  /\ (c + 1) % REFMOD \in 0 .. REFMOD - 1
           /\ (((c + 1) % REFMOD) + REFMOD - 1) % REFMOD = c
  BY PmapAssumption

LEMMA PlaceFinite == IsFiniteSet(Place) /\ \A S : S \subseteq Place => IsFiniteSet(S)
<1> DEFINE N == 0 .. NIDX
           Pairs == Env \X (N \X N)
           f == [x \in Pairs |-> <<x[1], x[2][1], x[2][2]>>]
<1>1. IsFiniteSet(N)
  BY FS_Interval, PmapAssumption
<1>2. IsFiniteSet(N \X N)
  BY <1>1, FS_Product
<1>3. IsFiniteSet(Pairs)
  BY <1>2, FS_Product, PmapAssumption
<1>4. f \in Surjection(Pairs, Place)
  <2>1. f \in [Pairs -> Place]
    BY DEF Place
  <2>2. ASSUME NEW y \in Place PROVE \E x \in Pairs : f[x] = y
    <3>1. <<y[1], <<y[2], y[3]>>>> \in Pairs /\ y = <<y[1], y[2], y[3]>>
      BY DEF Place
    <3> QED
      BY <3>1
  <2> QED
    BY <2>1, <2>2 DEF Surjection
<1>5. IsFiniteSet(Place)
  BY <1>3, <1>4, FS_Surjection
<1> QED
  BY <1>5, FS_Subset

----------------------------------------------------------------------------
(* What places refer to *)

LEMMA IndexIs == 0 \notin Index /\ 0 .. NIDX = {0} \cup Index
  BY PmapAssumption DEF Index

LEMMA PlaceIs ==
    /\ \A x \in Place : x[1] \in Env /\ x[2] \in {0} \cup Index /\ x[3] \in {0} \cup Index
    /\ \A x, y \in Place : x[1] = y[1] /\ x[2] = y[2] /\ x[3] = y[3] => x = y
  BY IndexIs DEF Place

LEMMA PlaceAt ==
    ASSUME NEW e \in Env, NEW i, NEW j, i = 0 \/ i \in Index, j = 0 \/ j \in Index
    PROVE  \E x \in Place : x[1] = e /\ x[2] = i /\ x[3] = j
<1>1. <<e, i, j>> \in Place
  BY IndexIs DEF Place
<1> QED
  BY <1>1

LEMMA EntryIs ==
    /\ \A p \in Page, w \in BOOLEAN : [pp |-> p, w |-> w] \in Entry
    /\ \A t \in Entry : t.pp \in Page /\ t.w \in BOOLEAN /\ t # NULL
  BY SMTT(60), NoEntryAssumption DEF Entry

\* The three kinds of places.
LEMMA TargetIs ==
    ASSUME NEW W, NEW D, NEW x \in Place
    PROVE  /\ x[2] = 0 => Target(W, D, x) = IF x[3] = 0 THEN D[x[1]] ELSE NULL
           /\ x[2] # 0 /\ (D[x[1]] = NULL \/ W[D[x[1]]][x[2]] = NULL) => Target(W, D, x) = NULL
           /\ x[2] # 0 /\ x[3] = 0 /\ D[x[1]] # NULL /\ W[D[x[1]]][x[2]] # NULL =>
                 Target(W, D, x) = W[D[x[1]]][x[2]].pp
           /\ x[2] # 0 /\ x[3] # 0 /\ D[x[1]] # NULL /\ W[D[x[1]]][x[2]] # NULL =>
                 LET t == W[W[D[x[1]]][x[2]].pp][x[3]]
                 IN  Target(W, D, x) = IF t = NULL THEN NULL ELSE t.pp
  BY ZenonT(60) DEF Target, PteAt

LEMMA TargetType ==
    ASSUME NEW W \in Words, NEW D \in Dirs, NEW x \in Place
    PROVE  Target(W, D, x) \in Page \cup {NULL}
<1>1. PICK e \in Env, i \in {0} \cup Index, j \in {0} \cup Index : e = x[1] /\ i = x[2] /\ j = x[3]
  BY PlaceIs
<1>2. D[e] \in Page \cup {NULL}
  BY DEF Dirs
<1>3. ASSUME D[e] # NULL, i # 0
      PROVE  W[D[e]][i] = NULL \/ W[D[e]][i].pp \in Page
  BY <1>2, <1>3, EntryIs DEF Words
<1>4. ASSUME D[e] # NULL, i # 0, W[D[e]][i] # NULL, j # 0
      PROVE  W[W[D[e]][i].pp][j] = NULL \/ W[W[D[e]][i].pp][j].pp \in Page
  BY <1>3, <1>4, EntryIs DEF Words
<1> QED
  BY ZenonT(60), <1>1, <1>2, <1>3, <1>4, TargetIs

Refs(words, dirs, p) == {x \in Place : Target(words, dirs, x) = p}

\* A page that is a directory or a table is so in one place.
Unshared(words, dirs) ==
    \A x, y \in Place :
       Target(words, dirs, x) # NULL /\ Target(words, dirs, x) = Target(words, dirs, y) /\ x # y
       => IsPte(x) /\ IsPte(y)

\* Only the place y changes, and refers to b now.
Moved(words, dirs, words2, dirs2, y, b) ==
    /\ Target(words2, dirs2, y) = b
    /\ \A x \in Place : x # y => Target(words2, dirs2, x) = Target(words, dirs, x)

SamePtes(words, dirs, words2, dirs2) ==
    \A x \in Place : IsPte(x) => PteAt(words2, dirs2, x) = PteAt(words, dirs, x)

LEMMA RefsFinite ==
    ASSUME NEW W, NEW D, NEW p
    PROVE  IsFiniteSet(Refs(W, D, p)) /\ Cardinality(Refs(W, D, p)) \in Nat
<1>1. Refs(W, D, p) \subseteq Place
  BY DEF Refs
<1> QED
  BY <1>1, PlaceFinite, FS_CardinalityType

\* How the references to each page change.
LEMMA MovedRefs ==
    ASSUME NEW W, NEW D, NEW W2, NEW D2, NEW y \in Place, NEW b, Moved(W, D, W2, D2, y, b),
           Target(W, D, y) # b, NEW p
    PROVE  /\ p = b => /\ Refs(W2, D2, p) = Refs(W, D, p) \cup {y}
                       /\ Cardinality(Refs(W2, D2, p)) = Cardinality(Refs(W, D, p)) + 1
           /\ p # b /\ p = Target(W, D, y) =>
                 /\ Refs(W2, D2, p) = Refs(W, D, p) \ {y} /\ y \in Refs(W, D, p)
                 /\ Cardinality(Refs(W2, D2, p)) = Cardinality(Refs(W, D, p)) - 1
                 /\ Cardinality(Refs(W, D, p)) >= 1
                 /\ Refs(W2, D2, p) = {} <=> Cardinality(Refs(W, D, p)) = 1
           /\ p # b /\ p # Target(W, D, y) => Refs(W2, D2, p) = Refs(W, D, p)
<1>1. ASSUME p = b
      PROVE  /\ Refs(W2, D2, p) = Refs(W, D, p) \cup {y}
             /\ Cardinality(Refs(W2, D2, p)) = Cardinality(Refs(W, D, p)) + 1
  <2>1. Refs(W2, D2, p) = Refs(W, D, p) \cup {y} /\ y \notin Refs(W, D, p)
    BY <1>1 DEF Refs, Moved
  <2> QED
    BY <2>1, RefsFinite, FS_AddElement
<1>2. ASSUME p # b, p = Target(W, D, y)
      PROVE  /\ Refs(W2, D2, p) = Refs(W, D, p) \ {y} /\ y \in Refs(W, D, p)
             /\ Cardinality(Refs(W2, D2, p)) = Cardinality(Refs(W, D, p)) - 1
             /\ Cardinality(Refs(W, D, p)) >= 1
             /\ Refs(W2, D2, p) = {} <=> Cardinality(Refs(W, D, p)) = 1
  <2>1. Refs(W2, D2, p) = Refs(W, D, p) \ {y} /\ y \in Refs(W, D, p)
    BY <1>2 DEF Refs, Moved
  <2>2. Cardinality(Refs(W2, D2, p)) = Cardinality(Refs(W, D, p)) - 1
    BY <2>1, RefsFinite, FS_RemoveElement
  <2>3. Refs(W2, D2, p) = {} <=> Cardinality(Refs(W2, D2, p)) = 0
    BY RefsFinite, FS_EmptySet
  <2>4. PICK c, c2 : c = Cardinality(Refs(W, D, p)) /\ c2 = Cardinality(Refs(W2, D2, p))
    OBVIOUS
  <2>5. c \in Nat /\ c2 \in Nat
    BY <2>4, RefsFinite
  <2>6. c >= 1 /\ (c2 = 0 <=> c = 1)
    BY <2>2, <2>4, <2>5
  <2> QED
    BY <2>1, <2>2, <2>3, <2>4, <2>6
<1>3. p # b /\ p # Target(W, D, y) => Refs(W2, D2, p) = Refs(W, D, p)
  BY DEF Refs, Moved
<1> QED
  BY <1>1, <1>2, <1>3

\* A page that is neither a directory nor a table may hold anything.
LEMMA ScribbleTargets ==
    ASSUME NEW W \in Words, NEW W2 \in Words, NEW D \in Dirs, NEW q,
           \A p \in Page : p # q => W2[p] = W[p],
           \A x \in Place : ~IsPte(x) => Target(W, D, x) # q,
           NEW x \in Place
    PROVE  Target(W2, D, x) = Target(W, D, x) /\ (IsPte(x) => PteAt(W2, D, x) = PteAt(W, D, x))
<1>1. PICK e \in Env, i \in {0} \cup Index, j \in {0} \cup Index : e = x[1] /\ i = x[2] /\ j = x[3]
  BY PlaceIs
<1>2. D[e] \in Page \cup {NULL}
  BY DEF Dirs
<1>3. D[e] # NULL => D[e] # q /\ W2[D[e]] = W[D[e]]
  <2>1. PICK y \in Place : y[1] = e /\ y[2] = 0 /\ y[3] = 0
    BY PlaceAt
  <2>2. Target(W, D, y) = D[e] /\ ~IsPte(y)
    BY <2>1, TargetIs DEF IsPte
  <2> QED
    BY <1>2, <2>2
<1>4. D[e] # NULL /\ i # 0 /\ W[D[e]][i] # NULL =>
         W[D[e]][i].pp \in Page /\ W2[W[D[e]][i].pp] = W[W[D[e]][i].pp]
  <2> HAVE D[e] # NULL /\ i # 0 /\ W[D[e]][i] # NULL
  <2>1. PICK y \in Place : y[1] = e /\ y[2] = i /\ y[3] = 0
    BY SMTT(60), PlaceAt
  <2>2. Target(W, D, y) = W[D[e]][i].pp /\ ~IsPte(y)
    BY <2>1, TargetIs DEF IsPte
  <2>3. W[D[e]][i].pp \in Page
    BY <1>2, EntryIs DEF Words
  <2> QED
    BY <2>2, <2>3
<1>5. CASE i = 0
  <2>1. x[2] = 0
    BY SMTT(60), <1>1, <1>5
  <2> QED
    BY <2>1 DEF IsPte, Target
<1>6. CASE i # 0 /\ D[e] = NULL
  BY ZenonT(60), <1>1, <1>6 DEF Target, PteAt
<1>7. CASE i # 0 /\ D[e] # NULL
  <2>1. W2[D[e]][i] = W[D[e]][i]
    BY SMTT(60), <1>3, <1>7
  <2>2. PteAt(W2, D, x) = PteAt(W, D, x)
    BY <1>1, <1>4, <1>7, <2>1 DEF PteAt
  <2> QED
    BY <1>1, <1>7, <2>1, <2>2 DEF Target
<1> QED
  BY <1>5, <1>6, <1>7

\* Every directory and every table is in one place.
LEMMA Roles ==
    ASSUME NEW W \in Words, NEW D \in Dirs, Unshared(W, D), NEW e \in Env, D[e] # NULL,
           NEW f \in Env, D[f] # NULL
    PROVE  /\ D[e] \in Page /\ (D[e] = D[f] => e = f)
           /\ \A i \in Index : W[D[f]][i] # NULL =>
                 W[D[f]][i] \in Entry /\ W[D[f]][i].pp \in Page /\ W[D[f]][i].pp # D[e]
           /\ \A i, k \in Index :
                 W[D[e]][i] # NULL /\ W[D[f]][k] # NULL /\ W[D[e]][i].pp = W[D[f]][k].pp
                 => e = f /\ i = k
<1>1. PICK x \in Place : x[1] = e /\ x[2] = 0 /\ x[3] = 0
  BY PlaceAt
<1>2. PICK y \in Place : y[1] = f /\ y[2] = 0 /\ y[3] = 0
  BY PlaceAt
<1>3. Target(W, D, x) = D[e] /\ Target(W, D, y) = D[f] /\ ~IsPte(x) /\ ~IsPte(y)
  BY <1>1, <1>2 DEF Target, IsPte
<1>4. D[e] \in Page /\ D[f] \in Page
  BY DEF Dirs
<1>5. D[e] = D[f] => e = f
  BY <1>1, <1>2, <1>3 DEF Unshared
<1>6. ASSUME NEW i \in Index, W[D[f]][i] # NULL
      PROVE  W[D[f]][i] \in Entry /\ W[D[f]][i].pp \in Page /\ W[D[f]][i].pp # D[e]
  <2>1. W[D[f]][i] \in Entry /\ W[D[f]][i].pp \in Page
    BY <1>4, <1>6, EntryIs DEF Words
  <2>2. PICK z \in Place : z[1] = f /\ z[2] = i /\ z[3] = 0
    BY PlaceAt
  <2>3. Target(W, D, z) = W[D[f]][i].pp /\ z # x
    BY <1>1, <1>6, <2>2, IndexIs DEF Target
  <2>4. W[D[f]][i].pp # D[e]
    BY <1>3, <2>3 DEF Unshared
  <2> QED
    BY <2>1, <2>4
<1>7. ASSUME NEW i \in Index, NEW k \in Index, W[D[e]][i] # NULL, W[D[f]][k] # NULL,
             W[D[e]][i].pp = W[D[f]][k].pp
      PROVE  e = f /\ i = k
  <2>1. PICK u \in Place : u[1] = e /\ u[2] = i /\ u[3] = 0
    BY PlaceAt
  <2>2. PICK z \in Place : z[1] = f /\ z[2] = k /\ z[3] = 0
    BY SMTT(60), PlaceAt
  <2>3. /\ Target(W, D, u) = W[D[e]][i].pp /\ Target(W, D, z) = W[D[f]][k].pp
        /\ ~IsPte(u) /\ ~IsPte(z)
    BY <1>7, <2>1, <2>2, IndexIs DEF Target, IsPte
  <2>4. W[D[e]][i].pp # NULL
    BY <1>4, <1>7, EntryIs, PmapAssumption DEF Words
  <2>5. u = z
    BY <1>7, <2>3, <2>4 DEF Unshared
  <2> QED
    BY <2>1, <2>2, <2>5
<1> QED
  BY <1>4, <1>5, <1>6, <1>7

\* Nothing changes at a place whose directory and table are as they were.
LEMMA SameTarget ==
    ASSUME NEW W, NEW W2, NEW D, NEW D2, NEW x \in Place,
           NEW e, NEW i, NEW j, x[1] = e, x[2] = i, x[3] = j, D2[e] = D[e],
           D[e] # NULL /\ i # 0 => W2[D[e]][i] = W[D[e]][i],
           D[e] # NULL /\ i # 0 /\ j # 0 /\ W[D[e]][i] # NULL =>
              W2[W[D[e]][i].pp][j] = W[W[D[e]][i].pp][j]
    PROVE  Target(W2, D2, x) = Target(W, D, x) /\ (IsPte(x) => PteAt(W2, D2, x) = PteAt(W, D, x))
<1>1. CASE i = 0 \/ D[e] = NULL
  BY <1>1 DEF Target, PteAt, IsPte
<1>2. CASE i # 0 /\ D[e] # NULL /\ j = 0
  BY <1>2 DEF Target, IsPte
<1>3. CASE i # 0 /\ D[e] # NULL /\ j # 0
  <2>1. PteAt(W2, D2, x) = PteAt(W, D, x)
    BY <1>3 DEF PteAt
  <2> QED
    BY <1>3, <2>1 DEF Target
<1> QED
  BY <1>1, <1>2, <1>3

\* A PTE is written.
LEMMA PteMoves ==
    ASSUME NEW W \in Words, NEW W2 \in Words, NEW D \in Dirs, Unshared(W, D), NEW y \in Place,
           NEW e \in Env, NEW i \in Index, NEW j \in Index, y[1] = e, y[2] = i, y[3] = j,
           D[e] # NULL, W[D[e]][i] # NULL,
           NEW t, t = W[D[e]][i].pp, NEW n \in Entry \cup {NULL},
           \A p \in Page : p # t => W2[p] = W[p],
           W2[t][j] = n, \A k \in Index : k # j => W2[t][k] = W[t][k]
    PROVE  /\ Moved(W, D, W2, D, y, IF n = NULL THEN NULL ELSE n.pp)
           /\ PteAt(W2, D, y) = n
           /\ \A x \in Place : IsPte(x) /\ x # y => PteAt(W2, D, x) = PteAt(W, D, x)
<1>1. ASSUME NEW f \in Env, D[f] # NULL PROVE W2[D[f]] = W[D[f]]
  BY SMTT(60), <1>1, Roles
<1>2. ASSUME NEW x \in Place, x # y
      PROVE  /\ Target(W2, D, x) = Target(W, D, x)
             /\ IsPte(x) => PteAt(W2, D, x) = PteAt(W, D, x)
  <2>1. PICK f \in Env, k \in {0} \cup Index, l \in {0} \cup Index : f = x[1] /\ k = x[2] /\ l = x[3]
    BY PlaceIs
  <2>2. D[f] # NULL /\ k # 0 /\ l # 0 /\ W[D[f]][k] # NULL =>
           W2[W[D[f]][k].pp][l] = W[W[D[f]][k].pp][l]
    <3> HAVE D[f] # NULL /\ k # 0 /\ l # 0 /\ W[D[f]][k] # NULL
    <3>1. PICK u : u = W[D[f]][k].pp
      OBVIOUS
    <3>2. u \in Page
      BY <3>1, Roles
    <3>3. CASE u = t
      <4>1. f = e /\ k = i
        <5>1. k \in Index /\ W[D[f]][k].pp = W[D[e]][i].pp
          BY <3>1, <3>3
        <5> QED
          BY <5>1, Roles
      <4>2. l # j
        <5> SUFFICES ASSUME l = j PROVE FALSE
          OBVIOUS
        <5>1. x[1] = y[1] /\ x[2] = y[2] /\ x[3] = y[3]
          BY <2>1, <4>1
        <5> QED
          BY <1>2, <5>1, PlaceIs
      <4> QED
        BY <3>1, <3>3, <4>2
    <3>4. CASE u # t
      BY <3>1, <3>2, <3>4
    <3> QED
      BY <3>3, <3>4
  <2>3. D[f] # NULL /\ k # 0 => W2[D[f]][k] = W[D[f]][k]
    BY <1>1
  <2> QED
    BY SMTT(60), <2>1, <2>2, <2>3, SameTarget
<1>3. PteAt(W2, D, y) = n
  BY <1>1 DEF PteAt
<1>4. Target(W2, D, y) = IF n = NULL THEN NULL ELSE n.pp
  BY <1>3, IndexIs DEF Target
<1> QED
  BY <1>2, <1>3, <1>4 DEF Moved

\* A PDE is written, for a table with nothing in it.
LEMMA PdeMoves ==
    ASSUME NEW W \in Words, NEW W2 \in Words, NEW D \in Dirs, Unshared(W, D), NEW y \in Place,
           NEW e \in Env, NEW i \in Index, y[1] = e, y[2] = i, y[3] = 0, D[e] # NULL,
           NEW n \in Entry \cup {NULL}, n # NULL => W2[n.pp] = Zeroed,
           W[D[e]][i] # NULL => W[W[D[e]][i].pp] = Zeroed,
           \A p \in Page : p # D[e] => W2[p] = W[p],
           W2[D[e]][i] = n, \A k \in Index : k # i => W2[D[e]][k] = W[D[e]][k]
    PROVE  /\ Moved(W, D, W2, D, y, IF n = NULL THEN NULL ELSE n.pp)
           /\ \A x \in Place : IsPte(x) => PteAt(W2, D, x) = PteAt(W, D, x)
<1>1. ASSUME NEW x \in Place, x # y
      PROVE  /\ Target(W2, D, x) = Target(W, D, x)
             /\ IsPte(x) => PteAt(W2, D, x) = PteAt(W, D, x)
  <2>1. PICK f \in Env, k \in {0} \cup Index, l \in {0} \cup Index : f = x[1] /\ k = x[2] /\ l = x[3]
    BY PlaceIs
  <2>2. CASE f = e /\ k = i
    <3>1. l # 0 /\ k # 0
      <4> SUFFICES ASSUME l = 0 PROVE FALSE
        BY <2>2, IndexIs
      <4>1. x[1] = y[1] /\ x[2] = y[2] /\ x[3] = y[3]
        BY <2>1, <2>2
      <4> QED
        BY <1>1, <4>1, PlaceIs
    <3>2. PteAt(W2, D, x) = NULL /\ PteAt(W, D, x) = NULL
      BY <2>1, <2>2, <3>1 DEF PteAt, Zeroed
    <3> QED
      BY <2>1, <3>1, <3>2 DEF Target
  <2>3. CASE f # e \/ k # i
    <3>1. D[f] # NULL /\ k # 0 => W2[D[f]][k] = W[D[f]][k]
      <4>1. CASE D[f] = NULL
        BY <4>1
      <4>2. CASE D[f] # NULL /\ f # e
        <5>1. D[f] \in Page /\ D[f] # D[e]
          BY <4>2, Roles
        <5> QED
          BY <5>1
      <4>3. CASE f = e
        BY <2>3, <4>3
      <4> QED
        BY <4>1, <4>2, <4>3
    <3>2. D[f] # NULL /\ k # 0 /\ l # 0 /\ W[D[f]][k] # NULL =>
             W2[W[D[f]][k].pp][l] = W[W[D[f]][k].pp][l]
      <4> HAVE D[f] # NULL /\ k # 0 /\ l # 0 /\ W[D[f]][k] # NULL
      <4>1. k \in Index
        OBVIOUS
      <4>2. W[D[f]][k].pp \in Page /\ W[D[f]][k].pp # D[e]
        BY <4>1, Roles
      <4> QED
        BY <4>2
    <3> QED
      BY SMTT(60), <2>1, <3>1, <3>2, SameTarget
  <2> QED
    BY <2>2, <2>3
<1>2. Target(W2, D, y) = IF n = NULL THEN NULL ELSE n.pp
  BY IndexIs DEF Target
<1>3. ~IsPte(y)
  BY DEF IsPte
<1> QED
  BY <1>1, <1>2, <1>3 DEF Moved

\* A directory with nothing in it comes or goes.
LEMMA DirMoves ==
    ASSUME NEW W \in Words, NEW D \in Dirs, NEW D2 \in Dirs, NEW y \in Place, NEW e \in Env,
           y[1] = e, y[2] = 0, y[3] = 0, D[e] # NULL => W[D[e]] = Zeroed,
           D2[e] # NULL => W[D2[e]] = Zeroed, \A f \in Env : f # e => D2[f] = D[f]
    PROVE  Moved(W, D, W, D2, y, D2[e]) /\ SamePtes(W, D, W, D2)
<1>1. ASSUME NEW x \in Place, x # y
      PROVE  /\ Target(W, D2, x) = Target(W, D, x)
             /\ IsPte(x) => PteAt(W, D2, x) = PteAt(W, D, x)
  <2>1. PICK f \in Env, k \in {0} \cup Index, l \in {0} \cup Index : f = x[1] /\ k = x[2] /\ l = x[3]
    BY PlaceIs
  <2>2. CASE f = e
    <3>1. CASE k = 0
      <4>1. l # 0
        <5> SUFFICES ASSUME l = 0 PROVE FALSE
          OBVIOUS
        <5>1. x[1] = y[1] /\ x[2] = y[2] /\ x[3] = y[3]
          BY <2>1, <2>2, <3>1
        <5> QED
          BY <1>1, <5>1, PlaceIs
      <4> QED
        BY <2>1, <3>1, <4>1 DEF Target, IsPte
    <3>2. CASE k # 0
      <4>1. PteAt(W, D2, x) = NULL /\ PteAt(W, D, x) = NULL
        BY <2>1, <2>2, <3>2 DEF PteAt, Zeroed
      <4>2. Target(W, D2, x) = NULL /\ Target(W, D, x) = NULL
        BY <2>1, <2>2, <3>2, <4>1 DEF Target, Zeroed
      <4> QED
        BY <4>1, <4>2
    <3> QED
      BY <3>1, <3>2
  <2>3. CASE f # e
    BY <2>1, <2>3, SameTarget
  <2> QED
    BY <2>2, <2>3
<1>2. Target(W, D2, y) = D2[e]
  BY DEF Target
<1>3. ~IsPte(y)
  BY DEF IsPte
<1> QED
  BY <1>1, <1>2, <1>3 DEF Moved, SamePtes

\* Roles stay separate when a place moves to a page that nothing refers to, or a
\* PTE to one that only PTEs refer to, or a place to nothing.
LEMMA UnsharedMoves ==
    ASSUME NEW W, NEW D, NEW W2, NEW D2, NEW y \in Place, NEW b, Moved(W, D, W2, D2, y, b),
           Unshared(W, D),
           \/ b = NULL \/ Refs(W, D, b) = {}
           \/ IsPte(y) /\ \A x \in Refs(W, D, b) : IsPte(x)
    PROVE  Unshared(W2, D2)
  BY DEF Unshared, Moved, Refs

----------------------------------------------------------------------------
(* The functions of pmap.c, on an account of memory *)

\* As many counts as references, and k more.
Counted(m, dirs, p, k) ==
    /\ Cardinality(Refs(m.mem, dirs, p)) < REFMOD
    /\ m.ref[p] = (Cardinality(Refs(m.mem, dirs, p)) + k) % REFMOD

\* The pages in held are in the hands of the call under way: not free, whether
\* anything refers to them or not.  Those in extra are counted once too often.
Account(m, dirs, held, extra) ==
    /\ m \in MachineSet /\ dirs \in Dirs /\ Unshared(m.mem, dirs)
    /\ \A p \in Page : Counted(m, dirs, p, IF p \in extra THEN 1 ELSE 0)
    /\ IsInjective(m.free) /\ extra \subseteq held /\ held \subseteq Page
    /\ \A p \in Page : p \in Range(m.free) <=> p \notin held /\ Refs(m.mem, dirs, p) = {}
    /\ m.bad = FALSE

LEMMA ListHead ==
    ASSUME NEW s \in Seq(Page), s # <<>>, IsInjective(s)
    PROVE  /\ Head(s) \in Page /\ Tail(s) \in Seq(Page) /\ IsInjective(Tail(s))
           /\ \A p : p \in Range(Tail(s)) <=> p \in Range(s) /\ p # Head(s)
           /\ Head(s) \in Range(s)
<1>1. /\ Len(s) \in Nat /\ Len(s) >= 1 /\ DOMAIN s = 1 .. Len(s) /\ Head(s) = s[1]
      /\ \A i \in 1 .. Len(s) : s[i] \in Page
      /\ Tail(s) \in Seq(Page) /\ Len(Tail(s)) = Len(s) - 1 /\ DOMAIN Tail(s) = 1 .. Len(s) - 1
      /\ \A i \in 1 .. Len(s) - 1 : Tail(s)[i] = s[i + 1]
  OBVIOUS
<1>2. \A i, j \in 1 .. Len(s) : s[i] = s[j] => i = j
  BY <1>1 DEF IsInjective
<1>3. IsInjective(Tail(s))
  <2>1. ASSUME NEW i \in 1 .. Len(s) - 1, NEW j \in 1 .. Len(s) - 1, Tail(s)[i] = Tail(s)[j]
        PROVE  i = j
    <3>1. i + 1 \in 1 .. Len(s) /\ j + 1 \in 1 .. Len(s) /\ s[i + 1] = s[j + 1]
      BY <1>1, <2>1
    <3> QED
      BY <1>2, <3>1
  <2> QED
    BY <1>1, <2>1 DEF IsInjective
<1>4. ASSUME NEW p PROVE p \in Range(Tail(s)) <=> p \in Range(s) /\ p # Head(s)
  <2>1. ASSUME p \in Range(Tail(s)) PROVE p \in Range(s) /\ p # Head(s)
    <3>1. PICK i \in 1 .. Len(s) - 1 : p = Tail(s)[i]
      BY <1>1, <2>1 DEF Range
    <3>2. i + 1 \in 1 .. Len(s) /\ p = s[i + 1] /\ 1 \in 1 .. Len(s) /\ i + 1 # 1
      BY <1>1, <3>1
    <3> QED
      BY <1>1, <1>2, <3>2 DEF Range
  <2>2. ASSUME p \in Range(s), p # Head(s) PROVE p \in Range(Tail(s))
    <3>1. PICK i \in 1 .. Len(s) : p = s[i]
      BY <1>1, <2>2 DEF Range
    <3>2. i # 1 /\ i - 1 \in 1 .. Len(s) - 1 /\ Tail(s)[i - 1] = p
      BY <1>1, <2>2, <3>1
    <3> QED
      BY <1>1, <3>2 DEF Range
  <2> QED
    BY <2>1, <2>2
<1> QED
  BY <1>1, <1>3, <1>4 DEF Range

LEMMA ListPush ==
    ASSUME NEW s \in Seq(Page), IsInjective(s), NEW q \in Page, q \notin Range(s)
    PROVE  /\ <<q>> \o s \in Seq(Page) /\ IsInjective(<<q>> \o s)
           /\ \A p : p \in Range(<<q>> \o s) <=> p \in Range(s) \/ p = q
<1> DEFINE t == <<q>> \o s
<1>1. /\ Len(s) \in Nat /\ DOMAIN s = 1 .. Len(s) /\ t \in Seq(Page)
      /\ DOMAIN t = 1 .. Len(s) + 1 /\ t[1] = q
      /\ \A i \in 2 .. Len(s) + 1 : t[i] = s[i - 1]
  OBVIOUS
<1> HIDE DEF t
<1>2. \A i, j \in 1 .. Len(s) : s[i] = s[j] => i = j
  BY <1>1 DEF IsInjective
<1>3. \A i \in 2 .. Len(s) + 1 : t[i] # q
  <2>1. ASSUME NEW i \in 2 .. Len(s) + 1 PROVE t[i] \in Range(s)
    <3>1. i - 1 \in DOMAIN s /\ t[i] = s[i - 1]
      BY <1>1
    <3> QED
      BY <3>1 DEF Range
  <2> QED
    BY <2>1
<1>4. ASSUME NEW i \in 1 .. Len(s) + 1, NEW j \in 1 .. Len(s) + 1, t[i] = t[j] PROVE i = j
  <2>1. CASE i = 1 \/ j = 1
    BY <1>1, <1>3, <1>4, <2>1
  <2>2. CASE i # 1 /\ j # 1
    <3>1. i - 1 \in 1 .. Len(s) /\ j - 1 \in 1 .. Len(s) /\ s[i - 1] = s[j - 1]
      BY <1>1, <1>4, <2>2
    <3>2. i - 1 = j - 1
      BY <1>2, <3>1
    <3> QED
      BY <1>1, <3>2
  <2> QED
    BY <2>1, <2>2
<1>5. ASSUME NEW p PROVE p \in Range(t) <=> p \in Range(s) \/ p = q
  <2>1. ASSUME p \in Range(t) PROVE p \in Range(s) \/ p = q
    <3>1. PICK i \in 1 .. Len(s) + 1 : p = t[i]
      BY <1>1, <2>1 DEF Range
    <3>2. i # 1 => i - 1 \in DOMAIN s /\ p = s[i - 1]
      BY <1>1, <3>1
    <3> QED
      BY <1>1, <3>1, <3>2 DEF Range
  <2>2. ASSUME p \in Range(s) PROVE p \in Range(t)
    <3>1. PICK i \in 1 .. Len(s) : p = s[i]
      BY <1>1, <2>2 DEF Range
    <3>2. i + 1 \in DOMAIN t /\ p = t[i + 1]
      BY <1>1, <3>1
    <3> QED
      BY <3>2 DEF Range
  <2>3. q \in Range(t)
    BY <1>1 DEF Range
  <2> QED
    BY <2>1, <2>2, <2>3
<1>6. IsInjective(t) /\ t \in Seq(Page)
  BY <1>1, <1>4 DEF IsInjective
<1> QED
  BY <1>5, <1>6 DEF t

LEMMA MachineFields ==
    ASSUME NEW m
    PROVE  /\ m \in MachineSet =>
                 /\ m.ref \in [Page -> 0 .. REFMOD - 1] /\ m.free \in Seq(Page)
                 /\ m.mem \in Words /\ m.bad \in BOOLEAN
           /\ \A r \in [Page -> 0 .. REFMOD - 1], s \in Seq(Page), W \in Words, b \in BOOLEAN :
                 [ref |-> r, free |-> s, mem |-> W, bad |-> b] \in MachineSet
  BY DEF MachineSet

\* page_decref: what it counts and what it frees.
Decremented(m, d, q, r) ==
    /\ d.ref = [m.ref EXCEPT ![q] = r] /\ d.mem = m.mem
    /\ r # 0 => d.free = m.free /\ d.bad = m.bad
    /\ r = 0 => d.free = <<q>> \o m.free
    /\ r = 0 /\ q \notin Range(m.free) => d.bad = m.bad
    /\ d = [ref |-> d.ref, free |-> d.free, mem |-> d.mem, bad |-> d.bad]

LEMMA DecrefIs ==
    ASSUME NEW m \in MachineSet, NEW q \in Page, NEW r \in 0 .. REFMOD - 1,
           r = (m.ref[q] + REFMOD - 1) % REFMOD
    PROVE  Decremented(m, PageDecref(m, q), q, r)
<1>1. m = [ref |-> m.ref, free |-> m.free, mem |-> m.mem, bad |-> m.bad] /\ m.ref[q] \in 0 .. REFMOD - 1
  BY DEF MachineSet
<1>2. PICK n : n = [m EXCEPT !.ref[q] = r]
  OBVIOUS
<1>3. /\ n.ref = [m.ref EXCEPT ![q] = r] /\ n.mem = m.mem /\ n.free = m.free /\ n.bad = m.bad
      /\ n = [ref |-> n.ref, free |-> n.free, mem |-> n.mem, bad |-> n.bad]
  BY <1>1, <1>2
<1>4. n.ref[q] = r
  BY <1>3 DEF MachineSet
<1>5. CASE r # 0
  <2>1. PageDecref(m, q) = n
    BY <1>2, <1>5 DEF PageDecref
  <2> QED
    BY <1>3, <1>5, <2>1 DEF Decremented
<1>6. CASE r = 0
  <2>1. PageDecref(m, q) = PageFree(n, q)
    BY <1>2, <1>6 DEF PageDecref
  <2>2. PICK b : b = PageFree(n, q)
    OBVIOUS
  <2>3. /\ b.ref = n.ref /\ b.mem = n.mem /\ b.free = <<q>> \o n.free
        /\ b.bad = (n.bad \/ n.ref[q] # 0 \/ Linked(n, q))
        /\ b = [ref |-> b.ref, free |-> b.free, mem |-> b.mem, bad |-> b.bad]
    BY <1>3, <2>2 DEF PageFree
  <2>4. q \notin Range(m.free) => ~Linked(n, q)
    <3>1. DOMAIN m.free = 1 .. Len(m.free) /\ Len(m.free) \in Nat
      BY DEF MachineSet
    <3> QED
      BY <1>3, <3>1 DEF Linked, Range
  <2>5. m.bad \in BOOLEAN
    BY DEF MachineSet
  <2> QED
    BY <1>3, <1>4, <1>6, <2>1, <2>2, <2>3, <2>4, <2>5 DEF Decremented
<1> QED
  BY <1>5, <1>6

\* A place stops to refer to a page, and the page is counted down: it is freed when
\* that was the last reference to it.
LEMMA Drop ==
    ASSUME NEW m, NEW D, NEW H, NEW K, Account(m, D, H, K),
           NEW W2 \in Words, NEW D2 \in Dirs, NEW y \in Place, NEW q \in Page,
           q = Target(m.mem, D, y), Moved(m.mem, D, W2, D2, y, NULL), q \in H => q \in K,
           NEW m2, m2 = [ref |-> PageDecref(m, q).ref, free |-> PageDecref(m, q).free,
                         mem |-> W2, bad |-> PageDecref(m, q).bad]
    PROVE  Account(m2, D2, H, K)
<1>1. /\ m \in MachineSet /\ D \in Dirs /\ Unshared(m.mem, D) /\ m.bad = FALSE
      /\ IsInjective(m.free) /\ K \subseteq H /\ H \subseteq Page
      /\ \A p \in Page : Counted(m, D, p, IF p \in K THEN 1 ELSE 0)
      /\ \A p \in Page : p \in Range(m.free) <=> p \notin H /\ Refs(m.mem, D, p) = {}
  BY DEF Account
<1>2. q # NULL
  BY PmapAssumption
<1>3. PICK c, c2 : c = Cardinality(Refs(m.mem, D, q)) /\ c2 = Cardinality(Refs(W2, D2, q))
  OBVIOUS
<1>4. /\ c \in Nat /\ c2 \in Nat /\ c2 = c - 1 /\ c >= 1 /\ y \in Refs(m.mem, D, q)
      /\ Refs(W2, D2, q) = {} <=> c = 1
  BY <1>2, <1>3, RefsFinite, MovedRefs
<1>5. \A p \in Page : p # q => Refs(W2, D2, p) = Refs(m.mem, D, p)
  BY PmapAssumption DEF Refs, Moved
<1>6. c < REFMOD /\ m.ref[q] = (c + (IF q \in K THEN 1 ELSE 0)) % REFMOD
  BY <1>1, <1>3 DEF Counted
<1>7. PICK r : r = (m.ref[q] + REFMOD - 1) % REFMOD
  OBVIOUS
<1>8. /\ r \in 0 .. REFMOD - 1 /\ (r = 0 <=> q \notin K /\ c = 1)
      /\ r = (c2 + (IF q \in K THEN 1 ELSE 0)) % REFMOD
  <2>1. CASE q \in K
    <3>1. r = c /\ (c2 + 1) % REFMOD = c
      BY <1>4, <1>6, <1>7, <2>1, CountUpDown, CountSmall
    <3> QED
      BY <1>4, <1>6, <2>1, <3>1, PmapAssumption
  <2>2. CASE q \notin K
    <3>1. m.ref[q] = c
      BY <1>4, <1>6, <2>2, CountSmall
    <3>2. r = c - 1
      BY <1>4, <1>6, <1>7, <3>1, CountDown
    <3>3. c2 < REFMOD
      BY <1>4, <1>6, PmapAssumption
    <3>4. c2 % REFMOD = c2
      BY <1>4, <3>3, CountSmall
    <3> QED
      BY <1>4, <1>6, <2>2, <3>2, <3>4, PmapAssumption
  <2> QED
    BY <2>1, <2>2
<1>9. q \notin Range(m.free)
  BY <1>1, <1>4
<1>10. PICK d : d = PageDecref(m, q)
  OBVIOUS
<1>11. /\ d.ref = [m.ref EXCEPT ![q] = r] /\ (r # 0 => d.free = m.free)
       /\ d.bad = FALSE /\ (r = 0 => d.free = <<q>> \o m.free)
  <2>1. Decremented(m, d, q, r)
    BY <1>1, <1>7, <1>8, <1>10, DecrefIs
  <2> QED
    BY <1>1, <1>9, <2>1 DEF Decremented
<1>12. /\ m2.ref = [m.ref EXCEPT ![q] = r] /\ m2.mem = W2 /\ m2.bad = FALSE /\ m2.free = d.free
       /\ m2 = [ref |-> m2.ref, free |-> m2.free, mem |-> m2.mem, bad |-> m2.bad]
  BY <1>10, <1>11
<1>13. m.ref \in [Page -> 0 .. REFMOD - 1] /\ m.free \in Seq(Page)
  BY <1>1, MachineFields
<1>14. /\ d.free \in Seq(Page) /\ IsInjective(d.free)
       /\ \A p \in Page : p \in Range(d.free) <=> p \in Range(m.free) \/ (r = 0 /\ p = q)
  <2>1. CASE r # 0
    BY <1>1, <1>11, <1>13, <2>1
  <2>2. CASE r = 0
    <3>1. d.free = <<q>> \o m.free
      BY <1>11, <2>2
    <3>2. /\ <<q>> \o m.free \in Seq(Page) /\ IsInjective(<<q>> \o m.free)
          /\ \A p : p \in Range(<<q>> \o m.free) <=> p \in Range(m.free) \/ p = q
      BY <1>1, <1>9, <1>13, ListPush
    <3> QED
      BY <2>2, <3>1, <3>2
  <2> QED
    BY <2>1, <2>2
<1>15. m2 \in MachineSet
  <2>1. m2.ref \in [Page -> 0 .. REFMOD - 1]
    BY ZenonT(60), <1>8, <1>12, <1>13
  <2> QED
    BY <1>12, <1>14, <2>1, MachineFields
<1>16. ASSUME NEW p \in Page PROVE Counted(m2, D2, p, IF p \in K THEN 1 ELSE 0)
  <2>1. CASE p = q
    <3>1. m2.ref[q] = r
      BY <1>12, <1>13
    <3>2. c2 < REFMOD
      BY <1>4, <1>6, PmapAssumption
    <3> QED
      BY <1>3, <1>8, <1>12, <2>1, <3>1, <3>2 DEF Counted
  <2>2. CASE p # q
    BY <1>1, <1>5, <1>12, <1>13, <2>2 DEF Counted
  <2> QED
    BY <2>1, <2>2
<1>17. ASSUME NEW p \in Page
       PROVE  p \in Range(m2.free) <=> p \notin H /\ Refs(m2.mem, D2, p) = {}
  <2>1. CASE p = q
    BY <1>1, <1>4, <1>8, <1>9, <1>12, <1>14, <2>1
  <2>2. CASE p # q
    BY <1>1, <1>5, <1>12, <1>14, <2>2
  <2> QED
    BY <2>1, <2>2
<1>18. Unshared(m2.mem, D2)
  BY <1>1, <1>12, UnsharedMoves
<1> QED
  BY <1>1, <1>12, <1>14, <1>15, <1>16, <1>17, <1>18 DEF Account

\* A place that was empty comes to refer to a page that has been counted for it.
LEMMA Gain ==
    ASSUME NEW m, NEW D, NEW H, NEW K, Account(m, D, H, K),
           NEW W2 \in Words, NEW D2 \in Dirs, NEW y \in Place, NEW q \in K,
           Target(m.mem, D, y) = NULL, Moved(m.mem, D, W2, D2, y, q),
           \/ Refs(m.mem, D, q) = {}
           \/ IsPte(y) /\ \A x \in Refs(m.mem, D, q) : IsPte(x),
           Cardinality(Refs(W2, D2, q)) < REFMOD,
           NEW m2, m2 = [ref |-> m.ref, free |-> m.free, mem |-> W2, bad |-> m.bad]
    PROVE  Account(m2, D2, H \ {q}, K \ {q})
<1>1. /\ m \in MachineSet /\ D \in Dirs /\ Unshared(m.mem, D) /\ m.bad = FALSE
      /\ IsInjective(m.free) /\ K \subseteq H /\ H \subseteq Page
      /\ \A p \in Page : Counted(m, D, p, IF p \in K THEN 1 ELSE 0)
      /\ \A p \in Page : p \in Range(m.free) <=> p \notin H /\ Refs(m.mem, D, p) = {}
  BY DEF Account
<1>2. q \in Page /\ q # NULL
  BY <1>1, PmapAssumption
<1>3. PICK c, c2 : c = Cardinality(Refs(m.mem, D, q)) /\ c2 = Cardinality(Refs(W2, D2, q))
  OBVIOUS
<1>4. c \in Nat /\ c2 \in Nat /\ c2 = c + 1 /\ y \in Refs(W2, D2, q)
  <2>1. Refs(W2, D2, q) = Refs(m.mem, D, q) \cup {y} /\ y \notin Refs(m.mem, D, q)
    BY <1>2 DEF Refs, Moved
  <2>2. Cardinality(Refs(W2, D2, q)) = Cardinality(Refs(m.mem, D, q)) + 1
    BY <2>1, RefsFinite, FS_AddElement
  <2> QED
    BY <1>3, <2>1, <2>2, RefsFinite
<1>5. \A p \in Page : p # q => Refs(W2, D2, p) = Refs(m.mem, D, p)
  BY PmapAssumption DEF Refs, Moved
<1>6. c2 < REFMOD /\ m.ref[q] = (c + 1) % REFMOD
  BY <1>1, <1>2, <1>3 DEF Counted
<1>7. m.ref[q] = c2 /\ c2 % REFMOD = c2
  BY <1>4, <1>6, CountUp, CountSmall
<1>8. m2.ref = m.ref /\ m2.free = m.free /\ m2.mem = W2 /\ m2.bad = m.bad /\ m2 \in MachineSet
  BY <1>1, MachineFields
<1>9. ASSUME NEW p \in Page PROVE Counted(m2, D2, p, IF p \in K \ {q} THEN 1 ELSE 0)
  <2>1. CASE p = q
    <3>1. (c2 + 0) % REFMOD = c2
      BY <1>4, <1>7
    <3> QED
      BY <1>3, <1>6, <1>7, <1>8, <2>1, <3>1 DEF Counted
  <2>2. CASE p # q
    BY <1>1, <1>5, <1>8, <2>2 DEF Counted
  <2> QED
    BY <2>1, <2>2
<1>10. \A p \in Page : p \in Range(m2.free) <=> p \notin H \ {q} /\ Refs(m2.mem, D2, p) = {}
  BY <1>1, <1>4, <1>5, <1>8
<1>11. Unshared(m2.mem, D2)
  BY <1>1, <1>8, UnsharedMoves
<1> QED
  BY <1>1, <1>8, <1>9, <1>10, <1>11 DEF Account

\* Another page is in the hands of the call, and has been counted.
LEMMA Incref ==
    ASSUME NEW m, NEW D, NEW H, NEW K, Account(m, D, H, K), NEW q \in Page, q \notin K,
           q \in H \/ Refs(m.mem, D, q) # {}, NEW m2, m2 = PageIncref(m, q)
    PROVE  Account(m2, D, H \cup {q}, K \cup {q}) /\ m2.mem = m.mem /\ m2.free = m.free
<1>1. /\ m \in MachineSet /\ D \in Dirs /\ Unshared(m.mem, D) /\ m.bad = FALSE
      /\ IsInjective(m.free) /\ K \subseteq H /\ H \subseteq Page
      /\ \A p \in Page : Counted(m, D, p, IF p \in K THEN 1 ELSE 0)
      /\ \A p \in Page : p \in Range(m.free) <=> p \notin H /\ Refs(m.mem, D, p) = {}
  BY DEF Account
<1>2. PICK c, n : c = Cardinality(Refs(m.mem, D, q)) /\ n = (m.ref[q] + 1) % REFMOD
  OBVIOUS
<1>3. c \in Nat /\ c < REFMOD /\ m.ref[q] = (c + 0) % REFMOD
  BY <1>1, <1>2, RefsFinite DEF Counted
<1>4. n = (c + 1) % REFMOD /\ n \in 0 .. REFMOD - 1
  BY <1>2, <1>3, CountSmall, CountUpDown
<1>5. m.ref \in [Page -> 0 .. REFMOD - 1] /\ m.free \in Seq(Page) /\ m.mem \in Words
  BY <1>1, MachineFields
<1>6. m2 = [ref |-> [m.ref EXCEPT ![q] = n], free |-> m.free, mem |-> m.mem, bad |-> m.bad]
  <2>1. m = [ref |-> m.ref, free |-> m.free, mem |-> m.mem, bad |-> m.bad]
    BY <1>1 DEF MachineSet
  <2> QED
    BY <1>2, <2>1 DEF PageIncref
<1>7. /\ m2.ref = [m.ref EXCEPT ![q] = n] /\ m2.free = m.free /\ m2.mem = m.mem
      /\ m2.bad = FALSE /\ [m.ref EXCEPT ![q] = n] \in [Page -> 0 .. REFMOD - 1]
      /\ m2 = [ref |-> m2.ref, free |-> m2.free, mem |-> m2.mem, bad |-> m2.bad]
  BY <1>1, <1>4, <1>5, <1>6
<1>8. m2 \in MachineSet
  <2>1. /\ m2.ref \in [Page -> 0 .. REFMOD - 1] /\ m2.free \in Seq(Page)
        /\ m2.mem \in Words /\ m2.bad \in BOOLEAN
    BY <1>5, <1>7
  <2> QED
    BY <1>7, <2>1 DEF MachineSet
<1>9. ASSUME NEW p \in Page PROVE Counted(m2, D, p, IF p \in K \cup {q} THEN 1 ELSE 0)
  <2>1. CASE p = q
    BY <1>2, <1>3, <1>4, <1>5, <1>7, <2>1 DEF Counted
  <2>2. CASE p # q
    BY <1>1, <1>5, <1>7, <2>2 DEF Counted
  <2> QED
    BY <2>1, <2>2
<1>10. \A p \in Page : p \in Range(m2.free) <=> p \notin H \cup {q} /\ Refs(m2.mem, D, p) = {}
  BY <1>1, <1>7
<1> QED
  BY <1>1, <1>7, <1>8, <1>9, <1>10 DEF Account

\* The words of a page that is no directory or table change.
LEMMA Scribble ==
    ASSUME NEW m, NEW D, NEW H, NEW K, Account(m, D, H, K), NEW W2 \in Words, NEW q \in Page,
           \A p \in Page : p # q => W2[p] = m.mem[p],
           \A x \in Place : ~IsPte(x) => Target(m.mem, D, x) # q,
           NEW m2, m2 = [ref |-> m.ref, free |-> m.free, mem |-> W2, bad |-> m.bad]
    PROVE  /\ Account(m2, D, H, K)
           /\ \A x \in Place : Target(W2, D, x) = Target(m.mem, D, x)
           /\ \A x \in Place : IsPte(x) => PteAt(W2, D, x) = PteAt(m.mem, D, x)
           /\ \A p : Refs(W2, D, p) = Refs(m.mem, D, p)
<1>1. /\ m \in MachineSet /\ D \in Dirs /\ Unshared(m.mem, D) /\ m.bad = FALSE
      /\ IsInjective(m.free) /\ K \subseteq H /\ H \subseteq Page
      /\ \A p \in Page : Counted(m, D, p, IF p \in K THEN 1 ELSE 0)
      /\ \A p \in Page : p \in Range(m.free) <=> p \notin H /\ Refs(m.mem, D, p) = {}
  BY DEF Account
<1>2. m.mem \in Words
  BY <1>1, MachineFields
<1>3. /\ \A x \in Place : Target(W2, D, x) = Target(m.mem, D, x)
      /\ \A x \in Place : IsPte(x) => PteAt(W2, D, x) = PteAt(m.mem, D, x)
  <2>1. PICK W : W = m.mem
    OBVIOUS
  <2>2. ASSUME NEW x \in Place
        PROVE  Target(W2, D, x) = Target(W, D, x) /\ (IsPte(x) => PteAt(W2, D, x) = PteAt(W, D, x))
    <3>1. /\ W \in Words /\ D \in Dirs /\ \A p \in Page : p # q => W2[p] = W[p]
          /\ \A z \in Place : ~IsPte(z) => Target(W, D, z) # q
      BY <1>1, <1>2, <2>1
    <3> QED
      BY <3>1, ScribbleTargets
  <2> QED
    BY <2>1, <2>2
<1>4. \A p : Refs(W2, D, p) = Refs(m.mem, D, p)
  BY <1>3 DEF Refs
<1>5. Unshared(W2, D)
  BY <1>1, <1>3 DEF Unshared
<1>6. m2.ref = m.ref /\ m2.free = m.free /\ m2.mem = W2 /\ m2.bad = m.bad /\ m2 \in MachineSet
  BY <1>1, MachineFields
<1>7. \A p \in Page : Counted(m2, D, p, IF p \in K THEN 1 ELSE 0)
  BY <1>1, <1>4, <1>6 DEF Counted
<1>8. \A p \in Page : p \in Range(m2.free) <=> p \notin H /\ Refs(m2.mem, D, p) = {}
  BY <1>1, <1>4, <1>6
<1>9. Account(m2, D, H, K)
  BY <1>1, <1>5, <1>6, <1>7, <1>8 DEF Account
<1> QED
  BY <1>3, <1>4, <1>9

LEMMA AllocIs ==
    ASSUME NEW m, NEW s, NEW q, NEW z,
           m = [ref |-> m.ref, free |-> m.free, mem |-> m.mem, bad |-> m.bad]
    PROVE  [m EXCEPT !.free = s, !.mem[q] = z] =
              [ref |-> m.ref, free |-> s, mem |-> [m.mem EXCEPT ![q] = z], bad |-> m.bad]
<1>1. PICK n : n = [m EXCEPT !.free = s]
  OBVIOUS
<1>2. /\ n.ref = m.ref /\ n.free = s /\ n.mem = m.mem /\ n.bad = m.bad
      /\ n = [ref |-> m.ref, free |-> s, mem |-> m.mem, bad |-> m.bad]
  BY <1>1
<1>3. [n EXCEPT !.mem[q] = z] =
         [ref |-> m.ref, free |-> s, mem |-> [m.mem EXCEPT ![q] = z], bad |-> m.bad]
  BY <1>2
<1>4. [m EXCEPT !.free = s, !.mem[q] = z] = [n EXCEPT !.mem[q] = z]
  BY <1>1
<1> QED
  BY <1>3, <1>4

\* The page is in the hands of the caller, and nothing else has changed.
Allocated(m, m2, dirs, held, extra, q) ==
    /\ q \in Page /\ q \notin held /\ Account(m2, dirs, held \cup {q}, extra)
    /\ m2 = [ref |-> m.ref, free |-> Tail(m.free), mem |-> m2.mem, bad |-> FALSE]
    /\ m2.mem \in Words /\ m2.mem[q] = Zeroed
    /\ \A p \in Page : p # q => m2.mem[p] = m.mem[p]
    /\ \A x \in Place : Target(m2.mem, dirs, x) = Target(m.mem, dirs, x)
    /\ \A x \in Place : IsPte(x) => PteAt(m2.mem, dirs, x) = PteAt(m.mem, dirs, x)
    /\ Refs(m.mem, dirs, q) = {} /\ \A p : Refs(m2.mem, dirs, p) = Refs(m.mem, dirs, p)

\* page_alloc.
LEMMA Alloc ==
    ASSUME NEW m, NEW D, NEW H, NEW K, Account(m, D, H, K), m.free # <<>>,
           NEW q, q = Head(m.free), NEW m2, m2 = PageAlloc(m)
    PROVE  Allocated(m, m2, D, H, K, q)
<1>1. /\ m \in MachineSet /\ D \in Dirs /\ Unshared(m.mem, D) /\ m.bad = FALSE
      /\ IsInjective(m.free) /\ K \subseteq H /\ H \subseteq Page
      /\ \A p \in Page : Counted(m, D, p, IF p \in K THEN 1 ELSE 0)
      /\ \A p \in Page : p \in Range(m.free) <=> p \notin H /\ Refs(m.mem, D, p) = {}
  BY DEF Account
<1>2. m.ref \in [Page -> 0 .. REFMOD - 1] /\ m.free \in Seq(Page) /\ m.mem \in Words
  BY <1>1, MachineFields
<1>3. /\ q \in Page /\ Tail(m.free) \in Seq(Page) /\ IsInjective(Tail(m.free))
      /\ \A p : p \in Range(Tail(m.free)) <=> p \in Range(m.free) /\ p # q
      /\ q \in Range(m.free)
  BY <1>1, <1>2, ListHead
<1>4. q \notin H /\ Refs(m.mem, D, q) = {}
  BY <1>1, <1>3
<1>5. PICK W2 : W2 = [m.mem EXCEPT ![q] = Zeroed]
  OBVIOUS
<1>6. W2 \in Words /\ W2[q] = Zeroed /\ \A p \in Page : p # q => W2[p] = m.mem[p]
  BY <1>2, <1>3, <1>5 DEF Words, Zeroed
<1>7. m2 = [ref |-> m.ref, free |-> Tail(m.free), mem |-> W2, bad |-> FALSE]
  <2>1. m = [ref |-> m.ref, free |-> m.free, mem |-> m.mem, bad |-> m.bad]
    BY <1>1 DEF MachineSet
  <2>2. PICK t : t = Tail(m.free)
    OBVIOUS
  <2>3. m2 = [m EXCEPT !.free = t, !.mem[q] = Zeroed]
    BY <2>2 DEF PageAlloc
  <2>4. m2 = [ref |-> m.ref, free |-> t, mem |-> [m.mem EXCEPT ![q] = Zeroed], bad |-> m.bad]
    BY <2>1, <2>3, AllocIs
  <2> QED
    BY <1>1, <1>5, <2>2, <2>4
<1>8. PICK n : n = [ref |-> m.ref, free |-> m.free, mem |-> W2, bad |-> m.bad]
  OBVIOUS
<1>9. \A x \in Place : Target(m.mem, D, x) # q
  BY <1>4 DEF Refs
<1>10. /\ Account(n, D, H, K)
       /\ \A x \in Place : Target(W2, D, x) = Target(m.mem, D, x)
       /\ \A x \in Place : IsPte(x) => PteAt(W2, D, x) = PteAt(m.mem, D, x)
       /\ \A p : Refs(W2, D, p) = Refs(m.mem, D, p)
  BY <1>3, <1>6, <1>8, <1>9, Scribble
<1>11. n.mem = W2 /\ n.ref = m.ref
  BY <1>8
<1>12. /\ Unshared(W2, D)
       /\ \A p \in Page : Counted(n, D, p, IF p \in K THEN 1 ELSE 0)
  BY <1>10, <1>11 DEF Account
<1>13. /\ m2.mem = W2 /\ m2.free = Tail(m.free) /\ m2.ref = m.ref /\ m2.bad = FALSE
       /\ m2 = [ref |-> m2.ref, free |-> m2.free, mem |-> m2.mem, bad |-> m2.bad]
       /\ m2 \in MachineSet
  <2>1. /\ m2.mem = W2 /\ m2.free = Tail(m.free) /\ m2.ref = m.ref /\ m2.bad = FALSE
        /\ m2 = [ref |-> m2.ref, free |-> m2.free, mem |-> m2.mem, bad |-> m2.bad]
    BY <1>7
  <2>2. m2 \in MachineSet
    BY <1>2, <1>3, <1>6, <2>1, MachineFields
  <2> QED
    BY <2>1, <2>2
<1>14. \A p \in Page : Counted(m2, D, p, IF p \in K THEN 1 ELSE 0)
  BY <1>11, <1>12, <1>13 DEF Counted
<1>15. \A p \in Page : p \in Range(m2.free) <=> p \notin H \cup {q} /\ Refs(m2.mem, D, p) = {}
  BY <1>1, <1>3, <1>10, <1>13
<1>16. Account(m2, D, H \cup {q}, K)
  BY <1>1, <1>3, <1>12, <1>13, <1>14, <1>15 DEF Account
<1> QED
  BY <1>3, <1>4, <1>6, <1>7, <1>10, <1>13, <1>16 DEF Allocated

\* There is a page table for va, and no PTE has changed.
Walked(m, m2, dirs, held, dir, va) ==
    /\ Account(m2, dirs, held, {}) /\ m2.mem[dir][va[1]] # NULL
    /\ \A x \in Place : IsPte(x) => PteAt(m2.mem, dirs, x) = PteAt(m.mem, dirs, x)
    /\ \A p \in Page : p \in held \/ Refs(m.mem, dirs, p) # {} =>
          Refs(m2.mem, dirs, p) = Refs(m.mem, dirs, p)

\* pgdir_walk makes a page table where there is none.
LEMMA Walk ==
    ASSUME NEW m, NEW D, NEW H, Account(m, D, H, {}), NEW e \in Env, NEW dir, dir = D[e],
           dir # NULL, NEW va \in VA, ~InsertFails(m, dir, va), NEW m2, m2 = PgdirWalk(m, dir, va)
    PROVE  Walked(m, m2, D, H, dir, va)
<1>1. PICK i \in Index : i = va[1]
  BY DEF VA
<1>2. CASE m.mem[dir][i] # NULL
  BY <1>1, <1>2 DEF PgdirWalk, Walked
<1>3. CASE m.mem[dir][i] = NULL
  <2>1. m.free # <<>>
    BY <1>1, <1>3 DEF InsertFails
  <2>2. PICK q : q = Head(m.free)
    OBVIOUS
  <2>3. PICK n : n = PageAlloc(m)
    OBVIOUS
  <2>4. /\ q \in Page /\ q \notin H /\ Account(n, D, H \cup {q}, {})
        /\ n.mem \in Words /\ n.mem[q] = Zeroed /\ \A p \in Page : p # q => n.mem[p] = m.mem[p]
        /\ \A x \in Place : Target(n.mem, D, x) = Target(m.mem, D, x)
        /\ \A x \in Place : IsPte(x) => PteAt(n.mem, D, x) = PteAt(m.mem, D, x)
        /\ Refs(m.mem, D, q) = {} /\ \A p : Refs(n.mem, D, p) = Refs(m.mem, D, p)
    <3>1. Allocated(m, n, D, H, {}, q)
      BY <2>1, <2>2, <2>3, Alloc
    <3> QED
      BY <3>1 DEF Allocated
  <2>5. PICK k : k = PageIncref(n, q)
    OBVIOUS
  <2>6. Account(k, D, H \cup {q}, {q}) /\ k.mem = n.mem
    <3>1. Account(k, D, (H \cup {q}) \cup {q}, {} \cup {q}) /\ k.mem = n.mem
      BY <2>4, <2>5, Incref
    <3>2. (H \cup {q}) \cup {q} = H \cup {q} /\ {} \cup {q} = {q}
      OBVIOUS
    <3> QED
      BY <3>1, <3>2
  <2>7. D \in Dirs /\ Unshared(n.mem, D) /\ dir \in Page /\ k \in MachineSet
    BY <2>6, PmapAssumption DEF Account, Dirs
  <2>8. dir # q
    <3>1. PICK x \in Place : x[1] = e /\ x[2] = 0 /\ x[3] = 0
      BY SMTT(60), PlaceAt
    <3>2. Target(m.mem, D, x) = dir
      BY <3>1, TargetIs
    <3> QED
      BY <2>4, <3>2 DEF Refs
  <2>9. PICK t : t = [pp |-> q, w |-> TRUE]
    OBVIOUS
  <2>10. t \in Entry /\ t.pp = q /\ t # NULL
    BY <2>4, <2>9, EntryIs
  <2>11. PICK W2 : W2 = [n.mem EXCEPT ![dir][i] = t]
    OBVIOUS
  <2>12. /\ W2 \in Words /\ \A p \in Page : p # dir => W2[p] = n.mem[p]
         /\ W2[dir][i] = t /\ \A l \in Index : l # i => W2[dir][l] = n.mem[dir][l]
    BY <2>4, <2>7, <2>10, <2>11 DEF Words
  <2>13. PICK y \in Place : y[1] = e /\ y[2] = i /\ y[3] = 0
    BY PlaceAt
  <2>14. n.mem[dir][i] = NULL
    BY <1>3, <2>4, <2>7, <2>8
  <2>15. /\ Moved(n.mem, D, W2, D, y, q)
         /\ \A x \in Place : IsPte(x) => PteAt(W2, D, x) = PteAt(n.mem, D, x)
    <3>1. PICK W : W = n.mem
      OBVIOUS
    <3>2. /\ W \in Words /\ Unshared(W, D) /\ \A p \in Page : p # D[e] => W2[p] = W[p]
          /\ D[e] # NULL /\ W[D[e]][i] = NULL /\ t # NULL /\ W2[t.pp] = Zeroed
          /\ W2[D[e]][i] = t /\ \A l \in Index : l # i => W2[D[e]][l] = W[D[e]][l]
      BY <2>4, <2>7, <2>8, <2>10, <2>12, <2>14, <3>1
    <3>3. /\ Moved(W, D, W2, D, y, IF t = NULL THEN NULL ELSE t.pp)
          /\ \A x \in Place : IsPte(x) => PteAt(W2, D, x) = PteAt(W, D, x)
      BY SMTT(60), <2>7, <2>10, <2>12, <2>13, <3>2, PdeMoves
    <3> QED
      BY <2>10, <3>1, <3>3
  <2>16. Target(n.mem, D, y) = NULL
    BY <2>13, <2>14, IndexIs, TargetIs
  <2>17. Refs(W2, D, q) = {y} /\ \A p \in Page : p # q => Refs(W2, D, p) = Refs(n.mem, D, p)
    BY <2>4, <2>15, <2>16, PmapAssumption DEF Refs, Moved
  <2>18. Cardinality(Refs(W2, D, q)) < REFMOD
    BY <2>17, FS_Singleton, PmapAssumption
  <2>19. m2 = [ref |-> k.ref, free |-> k.free, mem |-> W2, bad |-> k.bad]
    <3>1. k = [ref |-> k.ref, free |-> k.free, mem |-> n.mem, bad |-> k.bad]
      BY <2>6, <2>7 DEF MachineSet
    <3>2. m2 = [k EXCEPT !.mem[dir][i] = t]
      BY <1>1, <1>3, <2>1, <2>2, <2>3, <2>5, <2>9 DEF PgdirWalk
    <3> QED
      BY <2>11, <3>1, <3>2
  <2>20. Account(m2, D, (H \cup {q}) \ {q}, {q} \ {q})
    <3>1. Target(k.mem, D, y) = NULL /\ Moved(k.mem, D, W2, D, y, q) /\ Refs(k.mem, D, q) = {}
      BY <2>4, <2>6, <2>15, <2>16
    <3>2. q \in {q}
      OBVIOUS
    <3> QED
      BY <2>6, <2>7, <2>12, <2>18, <2>19, <3>1, <3>2, Gain
  <2>21. (H \cup {q}) \ {q} = H /\ {q} \ {q} = {}
    BY <2>4
  <2>22. m2.mem = W2
    BY <2>19
  <2>23. Account(m2, D, H, {})
    BY <2>20, <2>21
  <2>24. \A x \in Place : IsPte(x) => PteAt(m2.mem, D, x) = PteAt(m.mem, D, x)
    BY <2>4, <2>15, <2>22
  <2>25. ASSUME NEW p \in Page, p \in H \/ Refs(m.mem, D, p) # {}
         PROVE  Refs(m2.mem, D, p) = Refs(m.mem, D, p)
    <3>1. p # q
      BY <2>4, <2>25
    <3> QED
      BY <2>4, <2>17, <2>22, <3>1
  <2>26. m2.mem[dir][va[1]] # NULL
    BY SMTT(60), <1>1, <2>10, <2>12, <2>22
  <2> QED
    BY <2>23, <2>24, <2>25, <2>26 DEF Walked
<1> QED
  BY <1>2, <1>3

\* The j-th word of page t becomes n.
WordWritten(m, m2, t, j, n) ==
    /\ m2.mem \in Words /\ \A p \in Page : p # t => m2.mem[p] = m.mem[p]
    /\ m2.mem[t][j] = n /\ \A k \in Index : k # j => m2.mem[t][k] = m.mem[t][k]
    /\ m2 = [ref |-> m.ref, free |-> m.free, mem |-> m2.mem, bad |-> m.bad]

LEMMA SetPteIs ==
    ASSUME NEW m \in MachineSet, NEW dir \in Page, NEW va \in VA, NEW t \in Page,
           m.mem[dir][va[1]] # NULL, t = m.mem[dir][va[1]].pp, NEW n \in Entry \cup {NULL}
    PROVE  WordWritten(m, SetPte(m, dir, va, n), t, va[2], n)
<1>1. PICK j \in Index : j = va[2]
  BY SMTT(60) DEF VA
<1>2. PICK W : W = [m.mem EXCEPT ![t][j] = n]
  OBVIOUS
<1>3. m.mem \in Words /\ m = [ref |-> m.ref, free |-> m.free, mem |-> m.mem, bad |-> m.bad]
  BY DEF MachineSet
<1>4. SetPte(m, dir, va, n) = [ref |-> m.ref, free |-> m.free, mem |-> W, bad |-> m.bad]
  BY SMTT(60), <1>1, <1>2, <1>3 DEF SetPte
<1>5. /\ W \in Words /\ \A p \in Page : p # t => W[p] = m.mem[p]
      /\ W[t][j] = n /\ \A k \in Index : k # j => W[t][k] = m.mem[t][k]
  BY <1>2, <1>3 DEF Words
<1> QED
  BY <1>1, <1>4, <1>5 DEF WordWritten

\* The PTE at place y is n now, and no other PTE has changed.
PteBecomes(m, m2, dirs, y, n) ==
    /\ PteAt(m2.mem, dirs, y) = n
    /\ \A x \in Place : IsPte(x) /\ x # y => PteAt(m2.mem, dirs, x) = PteAt(m.mem, dirs, x)

\* Nothing is mapped at va, whose page table is where it was.
Removed(m, m2, dirs, dir, va, y) ==
    /\ PteBecomes(m, m2, dirs, y, NULL)
    /\ m2.mem[dir][va[1]] = m.mem[dir][va[1]]
    /\ \A x \in Place : Target(m2.mem, dirs, x) = IF x = y THEN NULL ELSE Target(m.mem, dirs, x)

\* page_remove, when every page in hand has been counted.
LEMMA Remove ==
    ASSUME NEW m, NEW D, NEW K, Account(m, D, K, K), NEW e \in Env, NEW dir, dir = D[e],
           dir # NULL, NEW va \in VA, NEW m2, m2 = PageRemove(m, dir, va),
           NEW y \in Place, y[1] = e, y[2] = va[1], y[3] = va[2]
    PROVE  Account(m2, D, K, K) /\ Removed(m, m2, D, dir, va, y)
<1>1. PICK i \in Index, j \in Index : i = va[1] /\ j = va[2]
  BY DEF VA
<1>2. m \in MachineSet /\ m.mem \in Words /\ D \in Dirs /\ Unshared(m.mem, D)
  BY MachineFields DEF Account
<1>3. dir \in Page /\ i # 0 /\ j # 0 /\ IsPte(y)
  BY <1>1, <1>2, IndexIs DEF Dirs, IsPte
<1>4. PICK pte : pte = PageLookup(m, dir, va)
  BY SMTT(60)
<1>5. PteAt(m.mem, D, y) = pte
  BY <1>1, <1>4 DEF PageLookup, PteAt
<1>6. Target(m.mem, D, y) = IF pte = NULL THEN NULL ELSE pte.pp
  BY <1>1, <1>3, <1>5 DEF Target
<1>7. CASE pte = NULL
  <2>1. m2 = m
    BY <1>4, <1>7 DEF PageRemove
  <2> QED
    BY <1>5, <1>6, <1>7, <2>1 DEF Removed, PteBecomes
<1>8. CASE pte # NULL
  <2>1. PICK t : t = m.mem[dir][i].pp
    BY SMTT(60)
  <2>2. m.mem[dir][i] # NULL /\ m.mem[dir][i] \in Entry
    BY <1>1, <1>2, <1>3, <1>4, <1>8 DEF PageLookup, Words
  <2>3. t \in Page
    BY SMTT(60), <2>1, <2>2, EntryIs
  <2>4. pte = m.mem[t][j] /\ pte \in Entry
    BY <1>1, <1>2, <1>4, <1>8, <2>1, <2>2, <2>3 DEF PageLookup, Words
  <2>5. PICK q : q = pte.pp
    OBVIOUS
  <2>6. q \in Page /\ Target(m.mem, D, y) = q
    BY <1>6, <1>8, <2>4, <2>5, EntryIs
  <2>7. PICK d : d = PageDecref(m, q)
    OBVIOUS
  <2>8. m2 = SetPte(d, dir, va, NULL)
    BY <1>4, <1>8, <2>5, <2>7 DEF PageRemove
  <2>9. d.mem = m.mem /\ d = [ref |-> d.ref, free |-> d.free, mem |-> d.mem, bad |-> d.bad]
    <3>1. (m.ref[q] + REFMOD - 1) % REFMOD \in 0 .. REFMOD - 1
      <4>1. m.ref[q] \in 0 .. REFMOD - 1
        BY <1>2, <2>6, MachineFields
      <4> QED
        BY <4>1, PmapAssumption
    <3> QED
      BY <1>2, <2>6, <2>7, <3>1, DecrefIs DEF Decremented
  <2>10. PICK W2 : W2 = [m.mem EXCEPT ![t][j] = NULL]
    OBVIOUS
  <2>11. /\ W2 \in Words /\ \A p \in Page : p # t => W2[p] = m.mem[p]
         /\ W2[t][j] = NULL /\ \A k \in Index : k # j => W2[t][k] = m.mem[t][k]
    BY <1>2, <2>3, <2>10 DEF Words
  <2>12. m2 = [ref |-> d.ref, free |-> d.free, mem |-> W2, bad |-> d.bad]
    <3>1. d.mem[dir][va[1]].pp = t
      BY <1>1, <2>1, <2>9
    <3>2. m2 = [d EXCEPT !.mem[t][j] = NULL]
      BY <1>1, <2>8, <3>1 DEF SetPte
    <3>3. d = [ref |-> d.ref, free |-> d.free, mem |-> m.mem, bad |-> d.bad]
      BY <2>9
    <3> QED
      BY <2>10, <3>2, <3>3
  <2>13. /\ Moved(m.mem, D, W2, D, y, NULL) /\ PteAt(W2, D, y) = NULL
         /\ \A x \in Place : IsPte(x) /\ x # y => PteAt(W2, D, x) = PteAt(m.mem, D, x)
    <3>1. PICK W, n : W = m.mem /\ n = NULL
      BY SMTT(60)
    <3>2. /\ W \in Words /\ Unshared(W, D) /\ D[e] # NULL /\ W[D[e]][i] # NULL
          /\ t = W[D[e]][i].pp /\ n \in Entry \cup {NULL} /\ y[1] = e /\ y[2] = i /\ y[3] = j
          /\ \A p \in Page : p # t => W2[p] = W[p]
          /\ W2[t][j] = n /\ \A k \in Index : k # j => W2[t][k] = W[t][k]
      BY <1>1, <1>2, <2>1, <2>2, <2>11, <3>1
    <3>3. /\ Moved(W, D, W2, D, y, IF n = NULL THEN NULL ELSE n.pp)
          /\ PteAt(W2, D, y) = n
          /\ \A x \in Place : IsPte(x) /\ x # y => PteAt(W2, D, x) = PteAt(W, D, x)
      BY SMTT(60), <1>2, <2>11, <3>2, PteMoves
    <3> QED
      BY <3>1, <3>3
  <2>14. Account(m2, D, K, K)
    <3>1. m2 = [ref |-> PageDecref(m, q).ref, free |-> PageDecref(m, q).free,
                mem |-> W2, bad |-> PageDecref(m, q).bad]
      BY <2>7, <2>12
    <3>2. q = Target(m.mem, D, y) /\ (q \in K => q \in K)
      BY <2>6
    <3> QED
      BY <1>2, <2>6, <2>11, <2>13, <3>1, <3>2, Drop
  <2>15. m2.mem = W2
    BY <2>12
  <2>16. W2[dir] = m.mem[dir]
    <3>1. t # dir
      <4>1. PICK W : W = m.mem
        OBVIOUS
      <4>2. W \in Words /\ Unshared(W, D) /\ D[e] # NULL /\ W[D[e]][i] # NULL /\ W[D[e]][i].pp = t
        BY <1>2, <2>1, <2>2, <4>1
      <4>3. W[D[e]][i].pp # D[e]
        BY <1>2, <4>2, Roles
      <4> QED
        BY <4>2, <4>3
    <3> QED
      BY <1>3, <2>11, <3>1
  <2> QED
    BY <1>1, <2>13, <2>14, <2>15, <2>16 DEF Removed, PteBecomes, Moved
<1> QED
  BY <1>7, <1>8

\* page_insert: the page may be mapped already, at this very place even, or else be
\* one that the caller has just allocated.
LEMMA Insert ==
    ASSUME NEW m, NEW D, NEW H, Account(m, D, H, {}), NEW p \in Page, H \subseteq {p},
           p \in H \/ Refs(m.mem, D, p) # {}, \A x \in Refs(m.mem, D, p) : IsPte(x),
           NEW e \in Env, NEW dir, dir = D[e], dir # NULL, NEW va \in VA, NEW w \in BOOLEAN,
           ~InsertFails(m, dir, va), NEW m2, m2 = PageInsert(m, dir, p, va, w),
           Cardinality(Refs(m2.mem, D, p)) < REFMOD,
           NEW y \in Place, y[1] = e, y[2] = va[1], y[3] = va[2]
    PROVE  Account(m2, D, {}, {}) /\ PteBecomes(m, m2, D, y, [pp |-> p, w |-> w])
<1>1. PICK a, b, c : /\ a = PgdirWalk(m, dir, va) /\ b = PageIncref(a, p)
                     /\ c = PageRemove(b, dir, va)
  OBVIOUS
<1>2. /\ Account(a, D, H, {}) /\ a.mem[dir][va[1]] # NULL
      /\ \A x \in Place : IsPte(x) => PteAt(a.mem, D, x) = PteAt(m.mem, D, x)
      /\ Refs(a.mem, D, p) = Refs(m.mem, D, p)
  <2>1. Walked(m, a, D, H, dir, va)
    BY <1>1, Walk
  <2> QED
    BY <2>1 DEF Walked
<1>3. Account(b, D, {p}, {p}) /\ b.mem = a.mem
  <2>1. Account(b, D, H \cup {p}, {} \cup {p}) /\ b.mem = a.mem
    BY <1>1, <1>2, Incref
  <2>2. H \cup {p} = {p} /\ {} \cup {p} = {p}
    OBVIOUS
  <2> QED
    BY <2>1, <2>2
<1>4. Account(c, D, {p}, {p}) /\ Removed(b, c, D, dir, va, y)
  BY <1>1, <1>3, Remove
<1>5. PICK i \in Index, j \in Index : i = va[1] /\ j = va[2]
  BY DEF VA
<1>6. c \in MachineSet /\ c.mem \in Words /\ D \in Dirs /\ Unshared(c.mem, D)
  BY <1>4, MachineFields DEF Account
<1>7. dir \in Page /\ i # 0 /\ j # 0 /\ IsPte(y)
  BY <1>5, <1>6, IndexIs DEF Dirs, IsPte
<1>8. c.mem[dir][i] # NULL /\ PteAt(c.mem, D, y) = NULL /\ Target(c.mem, D, y) = NULL
  BY <1>2, <1>3, <1>4, <1>5 DEF Removed, PteBecomes
<1>9. PICK t : t = c.mem[dir][i].pp
  OBVIOUS
<1>10. t \in Page
  <2>1. c.mem[dir][i] \in Entry
    BY <1>6, <1>7, <1>8 DEF Words
  <2> QED
    BY <1>9, <2>1, EntryIs
<1>11. PICK n : n = [pp |-> p, w |-> w]
  OBVIOUS
<1>12. n \in Entry /\ n.pp = p /\ n # NULL
  BY <1>11, EntryIs
<1>13. m2 = SetPte(c, dir, va, n)
  BY <1>1, <1>11 DEF PageInsert
<1>14. PICK W2 : W2 = m2.mem
  OBVIOUS
<1>15. /\ W2 \in Words /\ \A q \in Page : q # t => W2[q] = c.mem[q]
       /\ W2[t][j] = n /\ \A k \in Index : k # j => W2[t][k] = c.mem[t][k]
       /\ m2 = [ref |-> c.ref, free |-> c.free, mem |-> W2, bad |-> c.bad]
  <2>1. c.mem[dir][va[1]] # NULL /\ t = c.mem[dir][va[1]].pp /\ n \in Entry \cup {NULL}
    BY <1>5, <1>8, <1>9, <1>12
  <2>2. WordWritten(c, m2, t, va[2], n)
    BY SMTT(60), <1>6, <1>7, <1>10, <1>13, <2>1, SetPteIs
  <2> QED
    BY <1>5, <1>14, <2>2 DEF WordWritten
<1>16. /\ Moved(c.mem, D, W2, D, y, p) /\ PteAt(W2, D, y) = n
       /\ \A x \in Place : IsPte(x) /\ x # y => PteAt(W2, D, x) = PteAt(c.mem, D, x)
  <2>1. PICK W : W = c.mem
    OBVIOUS
  <2>2. /\ W \in Words /\ Unshared(W, D) /\ D[e] # NULL /\ W[D[e]][i] # NULL
        /\ t = W[D[e]][i].pp /\ n \in Entry \cup {NULL} /\ y[1] = e /\ y[2] = i /\ y[3] = j
        /\ \A q \in Page : q # t => W2[q] = W[q]
        /\ W2[t][j] = n /\ \A k \in Index : k # j => W2[t][k] = W[t][k]
    BY <1>5, <1>6, <1>8, <1>9, <1>12, <1>15, <2>1
  <2>3. /\ Moved(W, D, W2, D, y, IF n = NULL THEN NULL ELSE n.pp)
        /\ PteAt(W2, D, y) = n
        /\ \A x \in Place : IsPte(x) /\ x # y => PteAt(W2, D, x) = PteAt(W, D, x)
    BY SMTT(60), <1>6, <1>15, <2>2, PteMoves
  <2> QED
    BY <1>12, <2>1, <2>3
<1>17. \A x \in Refs(c.mem, D, p) : IsPte(x)
  <2>1. Refs(c.mem, D, p) \subseteq Refs(b.mem, D, p)
    BY <1>4, PmapAssumption DEF Removed, Refs
  <2> QED
    BY <1>2, <1>3, <2>1
<1>18. Account(m2, D, {p} \ {p}, {p} \ {p})
  <2>1. p \in {p} /\ Cardinality(Refs(W2, D, p)) < REFMOD
    BY <1>14
  <2> QED
    BY <1>4, <1>6, <1>7, <1>8, <1>15, <1>16, <1>17, <2>1, Gain
<1>19. {p} \ {p} = {}
  OBVIOUS
<1>20. PteBecomes(m, m2, D, y, n)
  <2>1. PteAt(m2.mem, D, y) = n
    BY <1>14, <1>16
  <2>2. ASSUME NEW x \in Place, IsPte(x), x # y PROVE PteAt(m2.mem, D, x) = PteAt(m.mem, D, x)
    <3>1. PteAt(m2.mem, D, x) = PteAt(c.mem, D, x)
      BY <1>14, <1>16, <2>2
    <3>2. PteAt(c.mem, D, x) = PteAt(b.mem, D, x)
      BY <1>4, <2>2 DEF PteBecomes, Removed
    <3> QED
      BY <1>2, <1>3, <2>2, <3>1, <3>2
  <2> QED
    BY <2>1, <2>2 DEF PteBecomes
<1> QED
  BY <1>11, <1>18, <1>19, <1>20

----------------------------------------------------------------------------
(* The calls, from one state of the machine to the next *)

Granted(t) == t # NULL /\ t.w

\* A page that was in use is writable only if it was so before.
NoNewWrites(words, dirs, words2, dirs2) ==
    \A x \in Place : IsPte(x) /\ Granted(PteAt(words2, dirs2, x)) =>
       LET p == PteAt(words2, dirs2, x).pp
       IN  \/ Refs(words, dirs, p) = {}
           \/ \E z \in Place : /\ IsPte(z) /\ Granted(PteAt(words, dirs, z))
                               /\ PteAt(words, dirs, z).pp = p

\* What every call achieves.
Outcome(m, dirs, m2, dirs2) ==
    Account(m2, dirs2, {}, {}) /\ NoNewWrites(m.mem, dirs, m2.mem, dirs2)

LEMMA SameGrants ==
    ASSUME NEW W, NEW D, NEW W2, NEW D2, SamePtes(W, D, W2, D2)
    PROVE  NoNewWrites(W, D, W2, D2)
  BY DEF SamePtes, NoNewWrites

\* One PTE is written: the page was not in use, or the right to write it not new.
LEMMA OneGrant ==
    ASSUME NEW m, NEW m2, NEW D, NEW y \in Place, NEW n, PteBecomes(m, m2, D, y, n),
           \/ ~Granted(n) \/ Refs(m.mem, D, n.pp) = {}
           \/ \E z \in Place : /\ IsPte(z) /\ Granted(PteAt(m.mem, D, z))
                               /\ PteAt(m.mem, D, z).pp = n.pp
    PROVE  NoNewWrites(m.mem, D, m2.mem, D)
<1> SUFFICES ASSUME NEW x \in Place, IsPte(x), Granted(PteAt(m2.mem, D, x))
             PROVE  \/ Refs(m.mem, D, PteAt(m2.mem, D, x).pp) = {}
                    \/ \E z \in Place : /\ IsPte(z) /\ Granted(PteAt(m.mem, D, z))
                                        /\ PteAt(m.mem, D, z).pp = PteAt(m2.mem, D, x).pp
  BY DEF NoNewWrites
<1>1. CASE x = y
  BY <1>1 DEF PteBecomes
<1>2. CASE x # y
  BY <1>2 DEF PteBecomes
<1> QED
  BY <1>1, <1>2

\* env_setup_vm.
LEMMA SetupVm ==
    ASSUME NEW m, NEW D, Account(m, D, {}, {}), NEW e \in Env, D[e] = NULL,
           NEW q, NEW m2, NEW D2
    PROVE  /\ m.free # <<>> /\ q = Head(m.free)
           /\ m2 = PageIncref(PageAlloc(m), q) /\ D2 = [D EXCEPT ![e] = q]
           => Outcome(m, D, m2, D2)
<1>0. SUFFICES ASSUME m.free # <<>>, q = Head(m.free), m2 = PageIncref(PageAlloc(m), q),
                      D2 = [D EXCEPT ![e] = q]
               PROVE  Outcome(m, D, m2, D2)
  OBVIOUS
<1>1. PICK n : n = PageAlloc(m)
  OBVIOUS
<1>2. Allocated(m, n, D, {}, {}, q)
  BY <1>0, <1>1, Alloc
<1>3. Account(n, D, {q}, {}) /\ q \in Page
  <2>1. {} \cup {q} = {q}
    OBVIOUS
  <2> QED
    BY <1>2, <2>1 DEF Allocated
<1>4. Account(m2, D, {q}, {q}) /\ m2.mem = n.mem
  <2>1. PICK H, K : H = {q} /\ K = {}
    OBVIOUS
  <2>2. Account(n, D, H, K) /\ q \in Page /\ q \notin K /\ q \in H /\ m2 = PageIncref(n, q)
    BY <1>0, <1>1, <1>3, <2>1
  <2>3. Account(m2, D, H \cup {q}, K \cup {q}) /\ m2.mem = n.mem
    BY <2>2, Incref
  <2>4. H \cup {q} = {q} /\ K \cup {q} = {q}
    BY <2>1
  <2> QED
    BY <2>3, <2>4
<1>5. /\ m2 \in MachineSet /\ m2.mem \in Words /\ D \in Dirs
      /\ m2 = [ref |-> m2.ref, free |-> m2.free, mem |-> m2.mem, bad |-> m2.bad]
  BY <1>4 DEF Account, MachineSet
<1>6. D2 \in Dirs /\ D2[e] = q /\ \A f \in Env : f # e => D2[f] = D[f]
  BY <1>0, <1>3, <1>5 DEF Dirs
<1>7. PICK y \in Place : y[1] = e /\ y[2] = 0 /\ y[3] = 0
  BY PlaceAt
<1>8. PICK W : W = m2.mem
  OBVIOUS
<1>9. W[q] = Zeroed /\ Refs(W, D, q) = {} /\ SamePtes(m.mem, D, W, D)
  BY <1>2, <1>4, <1>8 DEF Allocated, SamePtes
<1>10. Moved(W, D, W, D2, y, q) /\ SamePtes(W, D, W, D2)
  <2>1. W \in Words /\ (D[e] # NULL => W[D[e]] = Zeroed) /\ (D2[e] # NULL => W[D2[e]] = Zeroed)
    BY <1>5, <1>6, <1>8, <1>9
  <2>2. Moved(W, D, W, D2, y, D2[e]) /\ SamePtes(W, D, W, D2)
    BY SMTT(60), <1>5, <1>6, <1>7, <2>1, DirMoves
  <2> QED
    BY <1>6, <2>2
<1>11. Target(W, D, y) = NULL
  BY <1>7, TargetIs
<1>12. Refs(W, D2, q) = {y}
  BY <1>9, <1>10 DEF Refs, Moved
<1>13. Cardinality(Refs(W, D2, q)) < REFMOD
  BY <1>12, FS_Singleton, PmapAssumption
<1>14. Account(m2, D2, {q} \ {q}, {q} \ {q})
  <2>1. q \in {q} /\ m2 = [ref |-> m2.ref, free |-> m2.free, mem |-> W, bad |-> m2.bad]
    BY <1>5, <1>8
  <2>2. Target(m2.mem, D, y) = NULL /\ Moved(m2.mem, D, W, D2, y, q) /\ Refs(m2.mem, D, q) = {}
    BY <1>8, <1>9, <1>10, <1>11
  <2>3. W \in Words
    BY <1>5, <1>8
  <2> QED
    BY <1>4, <1>6, <1>13, <2>1, <2>2, <2>3, Gain
<1>15. {q} \ {q} = {}
  OBVIOUS
<1>16. SamePtes(m.mem, D, m2.mem, D2)
  BY <1>8, <1>9, <1>10 DEF SamePtes
<1> QED
  BY <1>14, <1>15, <1>16, SameGrants DEF Outcome

\* sys_page_alloc, when page_insert succeeds.
LEMMA AllocAndMap ==
    ASSUME NEW m, NEW D, Account(m, D, {}, {}), NEW e \in Env, NEW dir, dir = D[e], dir # NULL,
           NEW va \in VA, NEW w \in BOOLEAN, NEW q, NEW n, NEW m2,
           Cardinality(Refs(m2.mem, D, q)) < REFMOD
    PROVE  /\ m.free # <<>> /\ q = Head(m.free) /\ n = PageAlloc(m)
           /\ ~InsertFails(n, dir, va) /\ m2 = PageInsert(n, dir, q, va, w)
           => Outcome(m, D, m2, D)
<1>0. SUFFICES ASSUME m.free # <<>>, q = Head(m.free), n = PageAlloc(m),
                      ~InsertFails(n, dir, va), m2 = PageInsert(n, dir, q, va, w)
               PROVE  Outcome(m, D, m2, D)
  OBVIOUS
<1>1. Allocated(m, n, D, {}, {}, q)
  BY <1>0, Alloc
<1>2. PICK H : H = {} \cup {q}
  OBVIOUS
<1>3. /\ Account(n, D, H, {}) /\ q \in Page /\ H \subseteq {q} /\ q \in H
      /\ \A x \in Refs(n.mem, D, q) : IsPte(x)
      /\ Refs(m.mem, D, q) = {} /\ SamePtes(m.mem, D, n.mem, D)
  BY <1>1, <1>2 DEF Allocated, SamePtes
<1>4. PICK i \in Index, j \in Index : i = va[1] /\ j = va[2]
  BY DEF VA
<1>5. PICK y \in Place : y[1] = e /\ y[2] = va[1] /\ y[3] = va[2]
  BY <1>4, PlaceAt
<1>6. ~InsertFails(n, dir, va) /\ m2 = PageInsert(n, dir, q, va, w)
  BY <1>0
<1>7. PICK t : t = [pp |-> q, w |-> w]
  OBVIOUS
<1>8. Account(m2, D, {}, {}) /\ PteBecomes(n, m2, D, y, t)
  BY <1>3, <1>5, <1>6, <1>7, Insert
<1>9. IsPte(y)
  BY <1>4, <1>5, IndexIs DEF IsPte
<1>10. PteBecomes(m, m2, D, y, t)
  BY <1>3, <1>8, <1>9 DEF PteBecomes, SamePtes
<1>11. Refs(m.mem, D, t.pp) = {}
  BY <1>3, <1>7
<1>12. NoNewWrites(m.mem, D, m2.mem, D)
  BY <1>10, <1>11, OneGrant
<1> QED
  BY <1>8, <1>12 DEF Outcome

LEMMA ListRestored ==
    ASSUME NEW s \in Seq(Page), s # <<>>
    PROVE  <<Head(s)>> \o Tail(s) = s
  OBVIOUS

\* sys_page_alloc, when page_insert fails: the page goes back where it came from.
LEMMA AllocAndFree ==
    ASSUME NEW m, NEW D, Account(m, D, {}, {}), NEW q, NEW n, NEW m2
    PROVE  /\ m.free # <<>> /\ q = Head(m.free) /\ n = PageAlloc(m) /\ m2 = PageFree(n, q)
           => /\ Outcome(m, D, m2, D) /\ m2.ref = m.ref /\ m2.free = m.free
              /\ SamePtes(m.mem, D, m2.mem, D)
<1>0. SUFFICES ASSUME m.free # <<>>, q = Head(m.free), n = PageAlloc(m), m2 = PageFree(n, q)
               PROVE  /\ Outcome(m, D, m2, D) /\ m2.ref = m.ref /\ m2.free = m.free
                      /\ SamePtes(m.mem, D, m2.mem, D)
  OBVIOUS
<1>1. Allocated(m, n, D, {}, {}, q)
  BY <1>0, Alloc
<1>2. PICK W : W = n.mem
  OBVIOUS
<1>3. /\ q \in Page /\ W \in Words /\ \A p \in Page : p # q => W[p] = m.mem[p]
      /\ n = [ref |-> m.ref, free |-> Tail(m.free), mem |-> W, bad |-> FALSE]
      /\ Refs(m.mem, D, q) = {} /\ SamePtes(m.mem, D, W, D)
  BY <1>1, <1>2 DEF Allocated, SamePtes
<1>4. /\ m \in MachineSet /\ m.free \in Seq(Page) /\ IsInjective(m.free) /\ m.bad = FALSE
      /\ Counted(m, D, q, 0)
  BY <1>3, MachineFields DEF Account
<1>5. n.ref[q] = 0
  <2>1. Cardinality(Refs(m.mem, D, q)) = 0
    BY <1>3, FS_EmptySet
  <2>2. m.ref[q] = (0 + 0) % REFMOD
    BY <1>4, <2>1 DEF Counted
  <2> QED
    BY <1>3, <2>2, PmapAssumption
<1>6. ~Linked(n, q)
  <2>1. Tail(m.free) \in Seq(Page) /\ q \notin Range(Tail(m.free)) /\ n.free = Tail(m.free)
    BY <1>0, <1>3, <1>4, ListHead
  <2>2. DOMAIN n.free = 1 .. Len(n.free) /\ Len(n.free) \in Nat
    BY <2>1
  <2> QED
    BY <2>1, <2>2 DEF Linked, Range
<1>7. m2 = [ref |-> m.ref, free |-> m.free, mem |-> W, bad |-> m.bad]
  <2>1. <<q>> \o n.free = m.free
    BY <1>0, <1>3, <1>4, ListRestored
  <2>2. PICK f, b : f = <<q>> \o n.free /\ b = (n.bad \/ n.ref[q] # 0 \/ Linked(n, q))
    OBVIOUS
  <2>3. m2 = [n EXCEPT !.bad = b, !.free = f]
    BY <1>0, <2>2 DEF PageFree
  <2>4. n.bad = FALSE /\ b = FALSE
    BY <1>3, <1>5, <1>6, <2>2
  <2> QED
    BY <1>3, <1>4, <2>1, <2>2, <2>3, <2>4
<1>8. \A x \in Place : ~IsPte(x) => Target(m.mem, D, x) # q
  BY <1>3 DEF Refs
<1>9. Account(m2, D, {}, {})
  BY <1>3, <1>7, <1>8, Scribble
<1>10. m2.ref = m.ref /\ m2.free = m.free /\ m2.mem = W
  BY <1>7
<1> QED
  BY <1>3, <1>9, <1>10, SameGrants DEF Outcome

\* What page_lookup finds is the PTE at a place, and its page has PTEs only.
LEMMA LookupIs ==
    ASSUME NEW m, NEW D, NEW H, NEW K, Account(m, D, H, K), NEW e \in Env, NEW dir, dir = D[e],
           dir # NULL, NEW va \in VA, NEW pte, pte = PageLookup(m, dir, va), pte # NULL
    PROVE  /\ pte \in Entry /\ pte.pp \in Page
           /\ \E z \in Place : IsPte(z) /\ PteAt(m.mem, D, z) = pte /\ z \in Refs(m.mem, D, pte.pp)
           /\ \A x \in Refs(m.mem, D, pte.pp) : IsPte(x)
<1>1. PICK i \in Index, j \in Index : i = va[1] /\ j = va[2]
  BY DEF VA
<1>2. m.mem \in Words /\ D \in Dirs /\ Unshared(m.mem, D)
  BY MachineFields DEF Account
<1>3. dir \in Page /\ i # 0 /\ j # 0
  BY <1>2, IndexIs DEF Dirs
<1>4. PICK z \in Place : z[1] = e /\ z[2] = i /\ z[3] = j
  BY SMTT(60), PlaceAt
<1>5. IsPte(z) /\ PteAt(m.mem, D, z) = pte
  BY <1>1, <1>3, <1>4 DEF PageLookup, PteAt, IsPte
<1>6. Target(m.mem, D, z) = pte.pp
  BY <1>3, <1>4, <1>5 DEF Target
<1>7. m.mem[dir][i] # NULL /\ m.mem[dir][i] \in Entry
  BY <1>1, <1>2, <1>3 DEF PageLookup, Words
<1>8. m.mem[dir][i].pp \in Page
  BY SMTT(60), <1>7, EntryIs
<1>9. pte \in Entry
  BY <1>1, <1>2, <1>3, <1>7, <1>8 DEF PageLookup, Words
<1>10. pte.pp \in Page /\ pte.pp # NULL
  BY <1>9, EntryIs, PmapAssumption
<1>11. \A x \in Refs(m.mem, D, pte.pp) : IsPte(x)
  BY <1>2, <1>5, <1>6, <1>10 DEF Unshared, Refs
<1>12. z \in Refs(m.mem, D, pte.pp)
  BY <1>6 DEF Refs
<1> QED
  BY <1>5, <1>9, <1>10, <1>11, <1>12

\* sys_page_map, when it succeeds.
LEMMA MapPage ==
    ASSUME NEW m, NEW D, Account(m, D, {}, {}), NEW src \in Env, NEW dst \in Env,
           D[src] # NULL, NEW dir, dir = D[dst], dir # NULL, NEW srcva \in VA, NEW va \in VA,
           NEW w \in BOOLEAN, NEW pte, NEW m2, Cardinality(Refs(m2.mem, D, pte.pp)) < REFMOD
    PROVE  /\ pte = PageLookup(m, D[src], srcva) /\ pte # NULL /\ (w => pte.w)
           /\ ~InsertFails(m, dir, va) /\ m2 = PageInsert(m, dir, pte.pp, va, w)
           => Outcome(m, D, m2, D)
<1>0. SUFFICES ASSUME pte = PageLookup(m, D[src], srcva), pte # NULL, w => pte.w,
                      ~InsertFails(m, dir, va), m2 = PageInsert(m, dir, pte.pp, va, w)
               PROVE  Outcome(m, D, m2, D)
  OBVIOUS
<1>1. /\ pte \in Entry /\ pte.pp \in Page
      /\ \E z \in Place : IsPte(z) /\ PteAt(m.mem, D, z) = pte /\ z \in Refs(m.mem, D, pte.pp)
      /\ \A x \in Refs(m.mem, D, pte.pp) : IsPte(x)
  BY <1>0, LookupIs
<1>2. PICK z \in Place : IsPte(z) /\ PteAt(m.mem, D, z) = pte /\ z \in Refs(m.mem, D, pte.pp)
  BY <1>1
<1>3. PICK p : p = pte.pp
  OBVIOUS
<1>4. PICK i \in Index, j \in Index : i = va[1] /\ j = va[2]
  BY DEF VA
<1>5. PICK y \in Place : y[1] = dst /\ y[2] = va[1] /\ y[3] = va[2]
  BY <1>4, PlaceAt
<1>6. /\ p \in Page /\ {} \subseteq {p} /\ (p \in {} \/ Refs(m.mem, D, p) # {})
      /\ \A x \in Refs(m.mem, D, p) : IsPte(x)
      /\ ~InsertFails(m, dir, va) /\ m2 = PageInsert(m, dir, p, va, w)
      /\ Cardinality(Refs(m2.mem, D, p)) < REFMOD
  BY <1>0, <1>1, <1>2, <1>3
<1>7. PICK t : t = [pp |-> p, w |-> w]
  OBVIOUS
<1>8. Account(m2, D, {}, {}) /\ PteBecomes(m, m2, D, y, t)
  BY <1>5, <1>6, <1>7, Insert
<1>9. \/ ~Granted(t)
      \/ \E x \in Place : /\ IsPte(x) /\ Granted(PteAt(m.mem, D, x))
                          /\ PteAt(m.mem, D, x).pp = t.pp
  BY <1>0, <1>2, <1>3, <1>7 DEF Granted
<1>10. NoNewWrites(m.mem, D, m2.mem, D)
  BY <1>8, <1>9, OneGrant
<1> QED
  BY <1>8, <1>10 DEF Outcome

\* page_remove, with nothing in hand: sys_page_unmap and the inner loop of env_free.
LEMMA UnmapPage ==
    ASSUME NEW m, NEW D, Account(m, D, {}, {}), NEW e \in Env, NEW dir, dir = D[e], dir # NULL,
           NEW va \in VA, NEW m2, m2 = PageRemove(m, dir, va)
    PROVE  Outcome(m, D, m2, D)
<1>1. PICK i \in Index, j \in Index : i = va[1] /\ j = va[2]
  BY DEF VA
<1>2. PICK y \in Place : y[1] = e /\ y[2] = va[1] /\ y[3] = va[2]
  BY <1>1, PlaceAt
<1>3. Account(m2, D, {}, {}) /\ Removed(m, m2, D, dir, va, y)
  BY <1>2, Remove
<1>4. PteBecomes(m, m2, D, y, NULL) /\ ~Granted(NULL)
  BY <1>3 DEF Removed, Granted
<1>5. NoNewWrites(m.mem, D, m2.mem, D)
  BY <1>4, OneGrant
<1> QED
  BY <1>3, <1>5 DEF Outcome

\* The order of a page_decref and a change of memory makes no difference.
LEMMA DecrefCommutes ==
    ASSUME NEW m \in MachineSet, NEW q \in Page, q \notin Range(m.free), NEW W2, W2 \in Words
    PROVE  PageDecref([m EXCEPT !.mem = W2], q) =
              [ref |-> PageDecref(m, q).ref, free |-> PageDecref(m, q).free,
               mem |-> W2, bad |-> PageDecref(m, q).bad]
<1>1. PICK r : r = (m.ref[q] + REFMOD - 1) % REFMOD
  OBVIOUS
<1>2. r \in 0 .. REFMOD - 1
  <2>1. m.ref[q] \in 0 .. REFMOD - 1
    BY MachineFields
  <2> QED
    BY <1>1, <2>1, PmapAssumption
<1>3. PICK n : n = [m EXCEPT !.mem = W2]
  OBVIOUS
<1>4. n.ref = m.ref /\ n.free = m.free /\ n.bad = m.bad /\ n.mem = W2 /\ n \in MachineSet
  <2>1. m = [ref |-> m.ref, free |-> m.free, mem |-> m.mem, bad |-> m.bad]
    BY DEF MachineSet
  <2>2. n = [ref |-> m.ref, free |-> m.free, mem |-> W2, bad |-> m.bad]
    BY <1>3, <2>1
  <2> QED
    BY <2>2, MachineFields
<1>5. PICK a, b : a = PageDecref(m, q) /\ b = PageDecref(n, q)
  OBVIOUS
<1>6. /\ a.ref = [m.ref EXCEPT ![q] = r] /\ a.bad = m.bad
      /\ a.free = IF r = 0 THEN <<q>> \o m.free ELSE m.free
  <2>1. Decremented(m, a, q, r)
    BY <1>1, <1>2, <1>5, DecrefIs
  <2> QED
    BY <2>1 DEF Decremented
<1>7. /\ b.ref = [m.ref EXCEPT ![q] = r] /\ b.bad = m.bad /\ b.mem = W2
      /\ b.free = IF r = 0 THEN <<q>> \o m.free ELSE m.free
      /\ b = [ref |-> b.ref, free |-> b.free, mem |-> b.mem, bad |-> b.bad]
  <2>1. n \in MachineSet /\ r = (n.ref[q] + REFMOD - 1) % REFMOD
    BY <1>1, <1>4
  <2>2. Decremented(n, b, q, r)
    BY <1>2, <1>5, <2>1, DecrefIs
  <2> QED
    BY <1>4, <2>2 DEF Decremented
<1> QED
  BY <1>3, <1>5, <1>6, <1>7

\* env_free drops a page table with nothing in it.
LEMMA DropTable ==
    ASSUME NEW m, NEW D, Account(m, D, {}, {}), NEW e \in Env, NEW dir, dir = D[e], dir # NULL,
           NEW i \in Index, NEW t, NEW m2
    PROVE  /\ m.mem[dir][i] # NULL /\ t = m.mem[dir][i].pp /\ \A j \in Index : m.mem[t][j] = NULL
           /\ m2 = PageDecref([m EXCEPT !.mem[dir][i] = NULL], t)
           => Outcome(m, D, m2, D)
<1>0. SUFFICES ASSUME m.mem[dir][i] # NULL, t = m.mem[dir][i].pp,
                      \A j \in Index : m.mem[t][j] = NULL,
                      m2 = PageDecref([m EXCEPT !.mem[dir][i] = NULL], t)
               PROVE  Outcome(m, D, m2, D)
  OBVIOUS
<1>1. /\ m \in MachineSet /\ m.mem \in Words /\ D \in Dirs /\ Unshared(m.mem, D)
      /\ \A p \in Page : p \in Range(m.free) => Refs(m.mem, D, p) = {}
  BY MachineFields DEF Account
<1>2. dir \in Page /\ i # 0
  BY <1>1, IndexIs DEF Dirs
<1>3. t \in Page
  <2>1. m.mem[dir][i] \in Entry
    BY SMTT(60), <1>0, <1>1, <1>2 DEF Words
  <2> QED
    BY <1>0, <2>1, EntryIs
<1>4. m.mem[t] = Zeroed
  <2>1. m.mem[t] = [j \in Index |-> m.mem[t][j]]
    BY <1>1, <1>3 DEF Words
  <2> QED
    BY ZenonT(60), <1>0, <2>1 DEF Zeroed
<1>5. PICK y \in Place : y[1] = e /\ y[2] = i /\ y[3] = 0
  BY SMTT(60), PlaceAt
<1>6. Target(m.mem, D, y) = t
  BY ZenonT(60), <1>0, <1>2, <1>5, TargetIs
<1>7. t \notin Range(m.free)
  BY <1>1, <1>3, <1>6 DEF Refs
<1>8. PICK W2 : W2 = [m.mem EXCEPT ![dir][i] = NULL]
  OBVIOUS
<1>9. /\ W2 \in Words /\ \A p \in Page : p # dir => W2[p] = m.mem[p]
      /\ W2[dir][i] = NULL /\ \A l \in Index : l # i => W2[dir][l] = m.mem[dir][l]
  BY <1>1, <1>2, <1>8 DEF Words
<1>10. m2 = [ref |-> PageDecref(m, t).ref, free |-> PageDecref(m, t).free,
             mem |-> W2, bad |-> PageDecref(m, t).bad]
  <2>1. m = [ref |-> m.ref, free |-> m.free, mem |-> m.mem, bad |-> m.bad]
    BY <1>1 DEF MachineSet
  <2>2. [m EXCEPT !.mem[dir][i] = NULL] = [m EXCEPT !.mem = W2]
    BY <1>8, <2>1
  <2>3. m2 = PageDecref([m EXCEPT !.mem = W2], t)
    BY <1>0, <2>2
  <2> QED
    BY <1>1, <1>3, <1>7, <1>9, <2>3, DecrefCommutes
<1>11. Moved(m.mem, D, W2, D, y, NULL) /\ SamePtes(m.mem, D, W2, D)
  <2>1. PICK W, n : W = m.mem /\ n = NULL
    OBVIOUS
  <2>2. /\ W \in Words /\ Unshared(W, D) /\ \A p \in Page : p # D[e] => W2[p] = W[p]
        /\ D[e] # NULL /\ (W[D[e]][i] # NULL => W[W[D[e]][i].pp] = Zeroed)
        /\ n \in Entry \cup {NULL} /\ (n # NULL => W2[n.pp] = Zeroed)
        /\ W2[D[e]][i] = n /\ \A l \in Index : l # i => W2[D[e]][l] = W[D[e]][l]
    BY <1>0, <1>1, <1>4, <1>9, <2>1
  <2>3. /\ Moved(W, D, W2, D, y, IF n = NULL THEN NULL ELSE n.pp)
        /\ \A x \in Place : IsPte(x) => PteAt(W2, D, x) = PteAt(W, D, x)
    BY SMTT(60), <1>1, <1>5, <1>9, <2>2, PdeMoves
  <2> QED
    BY <2>1, <2>3 DEF SamePtes
<1>12. Account(m2, D, {}, {})
  <2>1. t = Target(m.mem, D, y) /\ (t \in {} => t \in {})
    BY <1>6
  <2> QED
    BY <1>1, <1>3, <1>9, <1>10, <1>11, <2>1, Drop
<1>13. m2.mem = W2
  BY <1>10
<1> QED
  BY SMTT(60), <1>11, <1>12, <1>13, SameGrants DEF Outcome

\* env_free drops a directory with nothing in it.
LEMMA DropDirectory ==
    ASSUME NEW m, NEW D, Account(m, D, {}, {}), NEW e \in Env, NEW dir, dir = D[e], dir # NULL,
           \A i \in Index : m.mem[dir][i] = NULL, NEW m2, NEW D2
    PROVE  m2 = PageDecref(m, dir) /\ D2 = [D EXCEPT ![e] = NULL] => Outcome(m, D, m2, D2)
<1>0. SUFFICES ASSUME m2 = PageDecref(m, dir), D2 = [D EXCEPT ![e] = NULL]
               PROVE  Outcome(m, D, m2, D2)
  OBVIOUS
<1>1. m \in MachineSet /\ m.mem \in Words /\ D \in Dirs
  BY MachineFields DEF Account
<1>2. dir \in Page /\ m.mem[dir] = Zeroed
  <2>1. dir \in Page
    BY <1>1 DEF Dirs
  <2>2. m.mem[dir] = [j \in Index |-> m.mem[dir][j]]
    BY <1>1, <2>1 DEF Words
  <2> QED
    BY <2>1, <2>2 DEF Zeroed
<1>3. D2 \in Dirs /\ D2[e] = NULL /\ \A f \in Env : f # e => D2[f] = D[f]
  BY <1>0, <1>1 DEF Dirs
<1>4. PICK y \in Place : y[1] = e /\ y[2] = 0 /\ y[3] = 0
  BY PlaceAt
<1>5. PICK W : W = m.mem
  OBVIOUS
<1>6. Moved(W, D, W, D2, y, NULL) /\ SamePtes(W, D, W, D2)
  <2>1. W \in Words /\ (D[e] # NULL => W[D[e]] = Zeroed) /\ (D2[e] # NULL => W[D2[e]] = Zeroed)
    BY <1>1, <1>2, <1>3, <1>5
  <2>2. Moved(W, D, W, D2, y, D2[e]) /\ SamePtes(W, D, W, D2)
    BY SMTT(60), <1>1, <1>3, <1>4, <2>1, DirMoves
  <2> QED
    BY <1>3, <2>2
<1>7. dir = Target(m.mem, D, y)
  BY <1>4, TargetIs
<1>8. m2.mem = W /\ m2 = [ref |-> m2.ref, free |-> m2.free, mem |-> m2.mem, bad |-> m2.bad]
  <2>1. m.ref[dir] \in 0 .. REFMOD - 1
    BY <1>1, <1>2, MachineFields
  <2>2. (m.ref[dir] + REFMOD - 1) % REFMOD \in 0 .. REFMOD - 1
    BY <2>1, PmapAssumption
  <2> QED
    BY <1>0, <1>1, <1>2, <1>5, <2>2, DecrefIs DEF Decremented
<1>9. Account(m2, D2, {}, {})
  <2>1. m2 = [ref |-> PageDecref(m, dir).ref, free |-> PageDecref(m, dir).free,
              mem |-> W, bad |-> PageDecref(m, dir).bad]
    BY <1>0, <1>8
  <2>2. /\ W \in Words /\ Moved(m.mem, D, W, D2, y, NULL) /\ (dir \in {} => dir \in {})
    BY <1>1, <1>5, <1>6
  <2> QED
    BY <1>2, <1>3, <1>7, <2>1, <2>2, Drop
<1>10. SamePtes(m.mem, D, m2.mem, D2)
  BY <1>5, <1>6, <1>8
<1> QED
  BY <1>9, <1>10, SameGrants DEF Outcome

\* A program writes a page that it has mapped.
LEMMA ProgramWrites ==
    ASSUME NEW m, NEW D, Account(m, D, {}, {}), NEW e \in Env, NEW dir, dir = D[e], dir # NULL,
           NEW va \in VA, NEW pte, NEW g \in [Index -> Entry \cup {NULL}], NEW m2
    PROVE  /\ pte = PageLookup(m, dir, va) /\ pte # NULL
           /\ m2 = [ref |-> m.ref, free |-> m.free, mem |-> [m.mem EXCEPT ![pte.pp] = g],
                    bad |-> m.bad]
           => Outcome(m, D, m2, D)
<1>0. SUFFICES ASSUME pte = PageLookup(m, dir, va), pte # NULL,
                      m2 = [ref |-> m.ref, free |-> m.free,
                            mem |-> [m.mem EXCEPT ![pte.pp] = g], bad |-> m.bad]
               PROVE  Outcome(m, D, m2, D)
  OBVIOUS
<1>1. pte.pp \in Page /\ \A x \in Refs(m.mem, D, pte.pp) : IsPte(x)
  BY <1>0, LookupIs
<1>2. PICK q, W2 : q = pte.pp /\ W2 = [m.mem EXCEPT ![q] = g]
  OBVIOUS
<1>3. m.mem \in Words
  BY MachineFields DEF Account
<1>4. /\ q \in Page /\ W2 \in Words /\ \A p \in Page : p # q => W2[p] = m.mem[p]
      /\ \A x \in Place : ~IsPte(x) => Target(m.mem, D, x) # q
      /\ m2 = [ref |-> m.ref, free |-> m.free, mem |-> W2, bad |-> m.bad]
  BY <1>0, <1>1, <1>2, <1>3 DEF Words, Refs
<1>5. /\ Account(m2, D, {}, {})
      /\ \A x \in Place : IsPte(x) => PteAt(W2, D, x) = PteAt(m.mem, D, x)
  BY <1>4, Scribble
<1>6. m2.mem = W2
  BY <1>4
<1>7. SamePtes(m.mem, D, m2.mem, D)
  BY <1>5, <1>6 DEF SamePtes
<1> QED
  BY <1>5, <1>7, SameGrants DEF Outcome

----------------------------------------------------------------------------
(* The specification *)

Safe == TypeOK /\ Account(Machine, env_pgdir, {}, {})

\* No page has as many references as pp_ref has values.  The code does not see to it:
\* pp_ref is 16 bits wide, and 65536 mappings of one page would make it 0 again.
Countable == \A p \in Page : Cardinality(References(p)) < REFMOD

LEMMA ReferencesAre == \A p : References(p) = Refs(mem, env_pgdir, p)
  BY DEF References, Refs

LEMMA SafeIsExact == Safe => PmapInv /\ TablesUnshared
<1> SUFFICES ASSUME Safe PROVE PmapInv /\ TablesUnshared
  OBVIOUS
<1>1. TypeOK
  BY DEF Safe
<1>2. /\ Unshared(mem, env_pgdir) /\ panicked = FALSE /\ IsInjective(page_free_list)
      /\ \A p \in Page : Counted(Machine, env_pgdir, p, 0)
      /\ \A p \in Page : p \in Range(page_free_list) <=> References(p) = {}
  BY ReferencesAre DEF Safe, Account, Machine
<1>3. RefCountExact
  <2> SUFFICES ASSUME NEW p \in Page PROVE pp_ref[p] = Cardinality(References(p))
    BY DEF RefCountExact
  <2>1. PICK c : c = Cardinality(References(p))
    OBVIOUS
  <2>2. c \in Nat /\ c < REFMOD /\ pp_ref[p] = (c + 0) % REFMOD
    BY <1>2, <2>1, ReferencesAre, RefsFinite DEF Counted, Machine
  <2> QED
    BY <2>1, <2>2, CountSmall
<1>4. FreePagesExact
  <2>1. Range(page_free_list) \subseteq Page
    <3>1. page_free_list \in Seq(Page)
      BY <1>1 DEF TypeOK
    <3> QED
      BY <3>1 DEF Range
  <2> QED
    BY <1>2, <2>1 DEF FreePagesExact
<1>5. TablesUnshared
  <2> SUFFICES ASSUME NEW p \in Page, NEW x \in References(p), ~IsPte(x)
               PROVE  Cardinality(References(p)) = 1
    BY DEF TablesUnshared
  <2>1. References(p) = {x}
    BY <1>2, PmapAssumption DEF References, Unshared
  <2> QED
    BY <2>1, FS_Singleton
<1> QED
  BY <1>1, <1>2, <1>3, <1>4, <1>5 DEF PmapInv, NoPanic

LEMMA SafeInit == Init => Safe
<1> SUFFICES ASSUME Init PROVE Safe
  OBVIOUS
<1>1. PICK m, D : m = Machine /\ D = env_pgdir
  OBVIOUS
<1>2. /\ m = [ref |-> [p \in Page |-> 0], free |-> page_free_list,
              mem |-> [p \in Page |-> Zeroed], bad |-> FALSE]
      /\ D = [e \in Env |-> NULL]
  BY <1>1 DEF Init, Machine
<1>3. page_free_list \in Seq(Page) /\ IsInjective(page_free_list) /\ Range(page_free_list) = Page
  <2>1. Cardinality(Page) \in Nat
    BY PmapAssumption, FS_CardinalityType
  <2>2. page_free_list \in [1 .. Cardinality(Page) -> Page]
    BY DEF Init
  <2> QED
    BY <2>1, <2>2 DEF Init
<1>4. /\ [p \in Page |-> 0] \in [Page -> 0 .. REFMOD - 1]
      /\ [p \in Page |-> Zeroed] \in Words /\ D \in Dirs
  BY <1>2, PmapAssumption DEF Words, Zeroed, Dirs
<1>5. m \in MachineSet
  BY <1>2, <1>3, <1>4 DEF MachineSet
<1>6. ASSUME NEW x \in Place PROVE Target(m.mem, D, x) = NULL
  <2>1. x[1] \in Env
    BY PlaceIs
  <2>2. D[x[1]] = NULL
    BY <1>2, <2>1
  <2> QED
    BY <2>2 DEF Target
<1>7. \A p \in Page : Refs(m.mem, D, p) = {}
  BY <1>6, PmapAssumption DEF Refs
<1>8. Unshared(m.mem, D)
  BY <1>6 DEF Unshared
<1>9. ASSUME NEW p \in Page PROVE Counted(m, D, p, 0)
  <2>1. Cardinality(Refs(m.mem, D, p)) = 0
    BY <1>7, FS_EmptySet
  <2>2. m.ref[p] = 0 /\ (0 + 0) % REFMOD = 0 /\ 0 < REFMOD
    BY <1>2, PmapAssumption
  <2> QED
    BY <2>1, <2>2 DEF Counted
<1>10. m.free = page_free_list /\ m.bad = FALSE
  BY <1>2
<1>11. Account(m, D, {}, {})
  BY <1>3, <1>4, <1>5, <1>7, <1>8, <1>9, <1>10 DEF Account
<1>12. TypeOK
  BY <1>2, <1>3, <1>4 DEF TypeOK, Init, Words, Dirs
<1> QED
  BY <1>1, <1>11, <1>12 DEF Safe

\* What a step achieves, and what it leaves alone when it returns an error.
StepFine ==
    /\ Safe' /\ NoNewWrites(mem, env_pgdir, mem', env_pgdir')
    /\ ret' # "0" => /\ UNCHANGED <<pp_ref, page_free_list, env_pgdir>>
                     /\ SamePtes(mem, env_pgdir, mem', env_pgdir')

LEMMA FineOutcome ==
    ASSUME NEW CONSTANT m, NEW CONSTANT D, m = Machine, D = env_pgdir,
           NEW CONSTANT m2, NEW CONSTANT D2, Outcome(m, D, m2, D2), Become(m2), env_pgdir' = D2,
           freeing' \in Env \cup {NULL}, ret' \in {"0", "E_NO_MEM", "E_INVAL"},
           ret' # "0" => m2.ref = m.ref /\ m2.free = m.free /\ D2 = D /\ SamePtes(m.mem, D, m2.mem, D2)
    PROVE  StepFine
<1>1. Account(m2, D2, {}, {}) /\ NoNewWrites(m.mem, D, m2.mem, D2)
  BY DEF Outcome
<1>2. m2 \in MachineSet /\ D2 \in Dirs
  BY <1>1 DEF Account
<1>3. pp_ref' = m2.ref /\ page_free_list' = m2.free /\ mem' = m2.mem /\ panicked' = m2.bad
  BY DEF Become
<1>4. Machine' = m2
  BY <1>2, <1>3 DEF Machine, MachineSet
<1>5. TypeOK'
  BY <1>2, <1>3, MachineFields DEF TypeOK, Dirs, Words
<1>6. Safe'
  BY <1>1, <1>4, <1>5 DEF Safe
<1>7. /\ m.ref = pp_ref /\ m.free = page_free_list /\ m.mem = mem
  BY DEF Machine
<1> QED
  BY <1>1, <1>3, <1>6, <1>7 DEF StepFine

LEMMA UnchangedFine ==
    ASSUME Safe, UNCHANGED <<pp_ref, page_free_list, mem, env_pgdir, panicked>>,
           freeing' \in Env \cup {NULL}, ret' \in {"0", "E_NO_MEM", "E_INVAL"}
    PROVE  StepFine
<1>1. PICK m, D : m = Machine /\ D = env_pgdir
  OBVIOUS
<1>2. SamePtes(m.mem, D, m.mem, D)
  BY DEF SamePtes
<1>3. Outcome(m, D, m, D)
  BY <1>1, <1>2, SameGrants DEF Safe, Outcome
<1>4. Become(m) /\ env_pgdir' = D
  BY <1>1 DEF Become, Machine
<1> QED
  BY <1>1, <1>2, <1>3, <1>4, FineOutcome

LEMMA SetupStep ==
    ASSUME Safe, freeing' \in Env \cup {NULL}, NEW e \in Env, EnvSetupVm(e)
    PROVE  StepFine
<1>1. CASE page_free_list = <<>>
  <2>1. UNCHANGED <<pp_ref, page_free_list, mem, env_pgdir, panicked>> /\ ret' = "E_NO_MEM"
    BY <1>1 DEF EnvSetupVm, Returns
  <2> QED
    BY <2>1, UnchangedFine
<1>2. CASE page_free_list # <<>>
  <2>1. PICK m, D, q : m = Machine /\ D = env_pgdir /\ q = Head(page_free_list)
    OBVIOUS
  <2>2. PICK m2, D2 : m2 = PageIncref(PageAlloc(m), q) /\ D2 = [D EXCEPT ![e] = q]
    OBVIOUS
  <2>3. Account(m, D, {}, {}) /\ D[e] = NULL /\ m.free # <<>> /\ q = Head(m.free)
    BY <1>2, <2>1 DEF Safe, EnvSetupVm, Machine
  <2>4. Outcome(m, D, m2, D2)
    BY <2>2, <2>3, SetupVm
  <2>5. Become(m2) /\ env_pgdir' = D2 /\ ret' = "0"
    BY <1>2, <2>1, <2>2 DEF EnvSetupVm, Returns
  <2> QED
    BY <2>1, <2>4, <2>5, FineOutcome
<1> QED
  BY <1>1, <1>2

LEMMA AllocStep ==
    ASSUME Safe, Countable', freeing' \in Env \cup {NULL},
           NEW e \in Env, NEW va \in VA, NEW w \in BOOLEAN, SysPageAlloc(e, va, w)
    PROVE  StepFine
<1>1. PICK m, D, dir, q : m = Machine /\ D = env_pgdir /\ dir = env_pgdir[e] /\ q = Head(page_free_list)
  OBVIOUS
<1>2. PICK n : n = PageAlloc(m)
  OBVIOUS
<1>3. /\ Account(m, D, {}, {}) /\ dir = D[e] /\ dir # NULL /\ env_pgdir' = D
      /\ m.free = page_free_list /\ q = Head(m.free)
  BY <1>1 DEF Safe, SysPageAlloc, Machine
<1>4. CASE page_free_list = <<>>
  <2>1. UNCHANGED <<pp_ref, page_free_list, mem, env_pgdir, panicked>> /\ ret' = "E_INVAL"
    BY <1>4 DEF SysPageAlloc, Returns
  <2> QED
    BY <2>1, UnchangedFine
<1>5. CASE page_free_list # <<>> /\ InsertFails(n, dir, va)
  <2>1. PICK m2 : m2 = PageFree(n, q)
    OBVIOUS
  <2>2. Become(m2) /\ ret' = "E_NO_MEM"
    BY <1>1, <1>2, <1>5, <2>1 DEF SysPageAlloc, Returns
  <2>3. /\ Outcome(m, D, m2, D) /\ m2.ref = m.ref /\ m2.free = m.free
        /\ SamePtes(m.mem, D, m2.mem, D)
    BY <1>2, <1>3, <1>5, <2>1, AllocAndFree
  <2> QED
    BY <1>1, <1>3, <2>2, <2>3, FineOutcome
<1>6. CASE page_free_list # <<>> /\ ~InsertFails(n, dir, va)
  <2>1. PICK m2 : m2 = PageInsert(n, dir, q, va, w)
    OBVIOUS
  <2>2. Become(m2) /\ ret' = "0"
    BY <1>1, <1>2, <1>6, <2>1 DEF SysPageAlloc, Returns
  <2>3. q \in Page
    <3>1. Allocated(m, n, D, {}, {}, q)
      BY <1>2, <1>3, <1>6, Alloc
    <3> QED
      BY <3>1 DEF Allocated
  <2>4. Cardinality(Refs(m2.mem, D, q)) < REFMOD
    BY <1>3, <2>2, <2>3 DEF Countable, References, Refs, Become
  <2>5. Outcome(m, D, m2, D)
    BY <1>2, <1>3, <1>6, <2>1, <2>4, AllocAndMap
  <2> QED
    BY <1>1, <1>3, <2>2, <2>5, FineOutcome
<1> QED
  BY <1>4, <1>5, <1>6

LEMMA MapStep ==
    ASSUME Safe, Countable', freeing' \in Env \cup {NULL}, NEW src \in Env, NEW dst \in Env,
           NEW srcva \in VA, NEW dstva \in VA, NEW w \in BOOLEAN,
           SysPageMap(src, srcva, dst, dstva, w)
    PROVE  StepFine
<1>1. PICK m, D, dir, pte : /\ m = Machine /\ D = env_pgdir /\ dir = env_pgdir[dst]
                            /\ pte = PageLookup(Machine, env_pgdir[src], srcva)
  OBVIOUS
<1>2. /\ Account(m, D, {}, {}) /\ D[src] # NULL /\ dir = D[dst] /\ dir # NULL /\ env_pgdir' = D
      /\ pte = PageLookup(m, D[src], srcva)
  BY <1>1 DEF Safe, SysPageMap
<1>3. CASE MapAllowed(src, srcva, w) => InsertFails(Machine, env_pgdir[dst], dstva)
  <2>1. UNCHANGED <<pp_ref, page_free_list, mem, env_pgdir, panicked>> /\ ret' = "E_INVAL"
    BY <1>3 DEF SysPageMap, Returns
  <2> QED
    BY <2>1, UnchangedFine
<1>4. CASE MapAllowed(src, srcva, w) /\ ~InsertFails(Machine, env_pgdir[dst], dstva)
  <2>1. PICK m2 : m2 = PageInsert(m, dir, pte.pp, dstva, w)
    OBVIOUS
  <2>2. Become(m2) /\ ret' = "0"
    BY <1>1, <1>4, <2>1 DEF SysPageMap, Returns
  <2>3. pte # NULL /\ (w => pte.w) /\ ~InsertFails(m, dir, dstva)
    BY <1>1, <1>4 DEF MapAllowed
  <2>4. pte.pp \in Page
    BY <1>2, <2>3, LookupIs
  <2>5. Cardinality(Refs(m2.mem, D, pte.pp)) < REFMOD
    BY <1>2, <2>2, <2>4 DEF Countable, References, Refs, Become
  <2>6. Outcome(m, D, m2, D)
    BY <1>2, <2>1, <2>3, <2>5, MapPage
  <2> QED
    BY <1>1, <1>2, <2>2, <2>6, FineOutcome
<1> QED
  BY <1>3, <1>4

LEMMA UnmapStep ==
    ASSUME Safe, freeing' \in Env \cup {NULL}, NEW e \in Env, NEW va \in VA, env_pgdir[e] # NULL,
           Become(PageRemove(Machine, env_pgdir[e], va)), UNCHANGED env_pgdir, ret' = "0"
    PROVE  StepFine
<1>1. PICK m, D, dir, m2 : /\ m = Machine /\ D = env_pgdir /\ dir = env_pgdir[e]
                           /\ m2 = PageRemove(Machine, env_pgdir[e], va)
  OBVIOUS
<1>2. /\ Account(m, D, {}, {}) /\ dir = D[e] /\ dir # NULL /\ m2 = PageRemove(m, dir, va)
      /\ Become(m2) /\ env_pgdir' = D
  BY <1>1 DEF Safe
<1>3. Outcome(m, D, m2, D)
  BY <1>2, UnmapPage
<1> QED
  BY <1>1, <1>2, <1>3, FineOutcome

\* A set of indices that is not empty has a first one.
LEMMA FirstIs ==
    ASSUME NEW S, S \subseteq Index, S # {}
    PROVE  First(S) \in S
<1>1. S \subseteq Nat
  BY PmapAssumption DEF Index
<1>2. PICK R : R = OpToRel(<, Nat)
  BY Zenon
<1>3. IsWellFoundedOn(R, Nat)
  BY <1>2, NatLessThanWellFounded, Zenon
<1>4. PICK x \in S : \A y \in S : ~ (<<y, x>> \in R)
  BY <1>1, <1>3, WFMin
<1>5. \A y \in S : ~ (y < x)
  BY <1>1, <1>2, <1>4 DEF OpToRel
<1>6. \A y \in S : x <= y
  BY <1>1, <1>5
<1> QED
  BY <1>6 DEF First

LEMMA FreeStep ==
    ASSUME Safe, NEW e \in Env, EnvFree(e)
    PROVE  StepFine
<1>1. PICK m, D, dir, tables : /\ m = Machine /\ D = env_pgdir /\ dir = env_pgdir[e]
                               /\ tables = {i \in Index : mem[env_pgdir[e]][i] # NULL}
  OBVIOUS
<1>2. PICK pdx, t : pdx = First(tables) /\ t = mem[dir][pdx].pp
  OBVIOUS
<1>3. PICK present : present = {j \in Index : mem[t][j] # NULL}
  BY ZenonT(60)
<1>4. /\ Account(m, D, {}, {}) /\ m.mem = mem /\ dir = D[e] /\ dir # NULL /\ ret' = "0"
      /\ \/ tables # {} /\ (FreePage(e, pdx, present) \/ FreeTable(e, pdx, present))
         \/ tables = {} /\ FreeDirectory(e)
  BY ZenonT(60), <1>1, <1>2, <1>3 DEF Safe, EnvFree, Returns, Machine
<1>5. CASE tables # {} /\ FreePage(e, pdx, present)
  <2>1. pdx \in Index
    BY <1>1, <1>2, <1>5, FirstIs
  <2>2. present # {} /\ present \subseteq Index
    BY <1>3, <1>5 DEF FreePage
  <2>3. First(present) \in Index
    BY <2>2, FirstIs
  <2>4. PICK va : va = <<pdx, First(present)>>
    OBVIOUS
  <2>5. va \in VA
    BY <2>1, <2>3, <2>4 DEF VA
  <2>6. /\ Become(PageRemove(Machine, env_pgdir[e], va)) /\ UNCHANGED env_pgdir /\ freeing' = e
        /\ env_pgdir[e] # NULL
    BY <1>1, <1>4, <1>5, <2>4 DEF FreePage
  <2> QED
    BY <1>4, <2>5, <2>6, UnmapStep
<1>6. CASE tables # {} /\ FreeTable(e, pdx, present)
  <2>1. pdx \in Index /\ m.mem[dir][pdx] # NULL /\ t = m.mem[dir][pdx].pp
    <3>1. pdx \in tables
      BY <1>1, <1>2, <1>6, FirstIs
    <3> QED
      BY <1>1, <1>2, <1>4, <3>1
  <2>2. \A j \in Index : m.mem[t][j] = NULL
    BY <1>3, <1>4, <1>6 DEF FreeTable
  <2>3. PICK m2 : m2 = PageDecref([m EXCEPT !.mem[dir][pdx] = NULL], t)
    BY SMTT(60)
  <2>4. Become(m2) /\ env_pgdir' = D /\ freeing' = e
    BY <1>1, <1>2, <1>6, <2>3 DEF FreeTable
  <2>5. Outcome(m, D, m2, D)
    BY <1>4, <2>1, <2>2, <2>3, DropTable
  <2> QED
    BY <1>1, <1>4, <2>4, <2>5, FineOutcome
<1>7. CASE tables = {} /\ FreeDirectory(e)
  <2>1. \A i \in Index : m.mem[dir][i] = NULL
    BY <1>1, <1>4, <1>7
  <2>2. PICK m2, D2 : m2 = PageDecref(m, dir) /\ D2 = [D EXCEPT ![e] = NULL]
    OBVIOUS
  <2>3. Become(m2) /\ env_pgdir' = D2 /\ freeing' = NULL
    BY <1>1, <1>7, <2>2 DEF FreeDirectory
  <2>4. Outcome(m, D, m2, D2)
    BY <1>4, <2>1, <2>2, DropDirectory
  <2> QED
    BY <1>1, <1>4, <2>3, <2>4, FineOutcome
<1> QED
  BY <1>4, <1>5, <1>6, <1>7

LEMMA WriteStep ==
    ASSUME Safe, NEW e \in Env, NEW va \in VA, UserWrite(e, va)
    PROVE  StepFine
<1>1. PICK m, D, dir, pte : /\ m = Machine /\ D = env_pgdir /\ dir = env_pgdir[e]
                            /\ pte = PageLookup(Machine, env_pgdir[e], va)
  OBVIOUS
<1>2. PICK g : g = [i \in Index |-> [pp |-> pte.pp, w |-> TRUE]]
  OBVIOUS
<1>3. PICK m2 : m2 = [ref |-> m.ref, free |-> m.free, mem |-> [m.mem EXCEPT ![pte.pp] = g],
                      bad |-> m.bad]
  OBVIOUS
<1>4. /\ Account(m, D, {}, {}) /\ dir = D[e] /\ dir # NULL /\ pte = PageLookup(m, dir, va)
      /\ pte # NULL /\ m.mem = mem /\ m.ref = pp_ref /\ m.free = page_free_list /\ m.bad = panicked
  BY <1>1 DEF Safe, UserWrite, Machine
<1>5. pte.pp \in Page
  BY <1>4, LookupIs
<1>6. g \in [Index -> Entry \cup {NULL}]
  BY <1>2, <1>5 DEF Entry
<1>7. Outcome(m, D, m2, D)
  BY <1>3, <1>4, <1>6, ProgramWrites
<1>8. Become(m2) /\ env_pgdir' = D /\ ret' = "0" /\ freeing' = freeing
  BY <1>1, <1>2, <1>3, <1>4 DEF UserWrite, Become, Returns
<1>9. freeing \in Env \cup {NULL}
  BY DEF Safe, TypeOK
<1> QED
  BY <1>1, <1>7, <1>8, <1>9, FineOutcome

LEMMA EveryStep ==
    ASSUME Safe, Countable', [Next]_vars
    PROVE  UNCHANGED vars \/ StepFine
<1>1. freeing \in Env \cup {NULL}
  BY DEF Safe, TypeOK
<1>2. CASE freeing = NULL /\ Call /\ UNCHANGED freeing
  <2>1. freeing' \in Env \cup {NULL}
    BY <1>1, <1>2
  <2>2. ASSUME NEW e \in Env, EnvSetupVm(e) PROVE StepFine
    BY <2>1, <2>2, SetupStep
  <2>3. ASSUME NEW e \in Env, NEW va \in VA, NEW w \in BOOLEAN, SysPageAlloc(e, va, w) PROVE StepFine
    BY <2>1, <2>3, AllocStep
  <2>4. ASSUME NEW src \in Env, NEW dst \in Env, NEW srcva \in VA, NEW dstva \in VA,
               NEW w \in BOOLEAN, SysPageMap(src, srcva, dst, dstva, w)
        PROVE  StepFine
    BY <2>1, <2>4, MapStep
  <2>5. ASSUME NEW e \in Env, NEW va \in VA, SysPageUnmap(e, va) PROVE StepFine
    <3>1. /\ env_pgdir[e] # NULL /\ Become(PageRemove(Machine, env_pgdir[e], va))
          /\ UNCHANGED env_pgdir /\ ret' = "0"
      BY <2>5 DEF SysPageUnmap, Returns
    <3> QED
      BY <2>1, <3>1, UnmapStep
  <2> QED
    BY <1>2, <2>2, <2>3, <2>4, <2>5 DEF Call
<1>3. ASSUME NEW e \in Env, EnvFree(e) PROVE StepFine
  BY <1>3, FreeStep
<1>4. ASSUME NEW e \in Env, NEW va \in VA, UserWrite(e, va) PROVE StepFine
  BY <1>4, WriteStep
<1> QED
  BY <1>2, <1>3, <1>4 DEF Next

LEMMA PteTarget ==
    ASSUME NEW W, NEW D, NEW x \in Place, IsPte(x)
    PROVE  Target(W, D, x) = IF PteAt(W, D, x) = NULL THEN NULL ELSE PteAt(W, D, x).pp
<1>1. CASE D[x[1]] = NULL
  BY <1>1 DEF Target, PteAt
<1>2. CASE D[x[1]] # NULL
  BY <1>2 DEF Target, IsPte
<1> QED
  BY <1>1, <1>2

LEMMA FineKeepsReadOnly ==
    ASSUME StepFine
    PROVE  \A p \in Page : References(p) # {} /\ ~Writable(p) => ~Writable(p)'
<1> SUFFICES ASSUME NEW p \in Page, References(p) # {}, Writable(p)'
             PROVE  Writable(p)
  OBVIOUS
<1>1. PICK W, D, W2, D2 : W = mem /\ D = env_pgdir /\ W2 = mem' /\ D2 = env_pgdir'
  OBVIOUS
<1>2. NoNewWrites(W, D, W2, D2)
  BY <1>1 DEF StepFine
<1>3. PICK x \in Place : IsPte(x) /\ Target(W2, D2, x) = p /\ PteAt(W2, D2, x).w
  BY <1>1 DEF Writable
<1>4. Granted(PteAt(W2, D2, x)) /\ PteAt(W2, D2, x).pp = p
  BY <1>3, PteTarget, PmapAssumption DEF Granted
<1>5. Refs(W, D, p) # {}
  BY <1>1, ReferencesAre
<1>6. PICK z \in Place : /\ IsPte(z) /\ Granted(PteAt(W, D, z)) /\ PteAt(W, D, z).pp = p
  BY <1>2, <1>3, <1>4, <1>5 DEF NoNewWrites
<1>7. Target(W, D, z) = p /\ PteAt(W, D, z).w
  BY <1>6, PteTarget DEF Granted
<1> QED
  BY <1>1, <1>6, <1>7 DEF Writable

LEMMA FineErrors ==
    ASSUME StepFine, ret' # "0"
    PROVE  UNCHANGED <<pp_ref, page_free_list, env_pgdir, Mappings>>
<1>1. UNCHANGED <<pp_ref, page_free_list, env_pgdir>> /\ SamePtes(mem, env_pgdir, mem', env_pgdir')
  BY DEF StepFine
<1>2. Mappings' = Mappings
  BY <1>1 DEF Mappings, SamePtes
<1> QED
  BY <1>1, <1>2

LEMMA SafeNext == Safe /\ Countable' /\ [Next]_vars => Safe'
<1> SUFFICES ASSUME Safe, Countable', [Next]_vars PROVE Safe'
  OBVIOUS
<1>1. CASE UNCHANGED vars
  BY <1>1 DEF Safe, TypeOK, vars, Machine
<1>2. CASE StepFine
  BY <1>2 DEF StepFine
<1> QED
  BY <1>1, <1>2, EveryStep

\* As long as no page has more references than pp_ref can count, the account of
\* memory is exact after every call and at every step of env_free.
THEOREM AccountKept == Spec /\ []Countable => []Safe
  BY SafeInit, SafeNext, PTL DEF Spec

\* pp_ref is the number of references, the free list is the unreferenced pages, each
\* once, and the assertions of page_free hold, whatever the calls and their failures.
THEOREM MemoryIsAccountedFor == Spec /\ []Countable => []PmapInv
<1>1. Safe => PmapInv
  BY SafeIsExact
<1> QED
  BY <1>1, AccountKept, PTL

\* A page that serves as a directory or a table is reached in no other way.
THEOREM PageTablesAreUnshared == Spec /\ []Countable => []TablesUnshared
<1>1. Safe => TablesUnshared
  BY SafeIsExact
<1> QED
  BY <1>1, AccountKept, PTL

\* No sequence of calls makes a page in use writable that nobody could write.
THEOREM NoRightsFromNothing == Spec /\ []Countable => ReadOnlyStays
<1>1. Safe /\ Countable' /\ [Next]_vars =>
         [\A p \in Page : References(p) # {} /\ ~Writable(p) => ~Writable(p)']_vars
  BY EveryStep, FineKeepsReadOnly
<1> QED
  BY <1>1, AccountKept, PTL DEF Spec, ReadOnlyStays

\* A call that fails gives back all that it took.
THEOREM FailedCallsAreHarmless == Spec /\ []Countable => ErrorsChangeNothing
<1>1. Safe /\ Countable' /\ [Next]_vars =>
         [ret' # "0" => UNCHANGED <<pp_ref, page_free_list, env_pgdir, Mappings>>]_vars
  BY EveryStep, FineErrors
<1> QED
  BY <1>1, AccountKept, PTL DEF Spec, ErrorsChangeNothing
=============================================================================
