----------------------------- MODULE ForkProofs -----------------------------
(***************************************************************************)
(* TLAPS proofs about copy-on-write fork (module Fork), for any number of  *)
(* environments, any amount of memory and any values: the pages that the   *)
(* handler runs on are there whenever it is needed, no CPU uses a stale    *)
(* translation, and no environment ever sees another's store: fork         *)
(* implements separate address spaces (module AddressSpaces).              *)
(***************************************************************************)
EXTENDS Fork, FiniteSetTheorems, TLAPS

----------------------------------------------------------------------------
(* Pages and page tables *)

LEMMA VAIs == VA = {"pftemp", "text", "data", "share", "stack", "xstack"}
  BY DEF VA, Walk

LEMMA WalkIs ==
    /\ Len(Walk) = 5 /\ Walk[1] = "pftemp" /\ Walk[2] = "text" /\ Walk[3] = "data"
    /\ Walk[4] = "share" /\ Walk[5] = "stack"
  BY DEF Walk

LEMMA VAFinite == IsFiniteSet(VA) /\ IsFiniteSet(Env \X VA)
<1> DEFINE A == {"pftemp"}  B == A \cup {"text"}  C == B \cup {"data"}
           D == C \cup {"share"}  E == D \cup {"stack"}  F == E \cup {"xstack"}
<1>1. IsFiniteSet(A)
  BY FS_Singleton
<1>2. IsFiniteSet(B)
  BY <1>1, FS_AddElement
<1>3. IsFiniteSet(C)
  BY <1>2, FS_AddElement
<1>4. IsFiniteSet(D)
  BY <1>3, FS_AddElement
<1>5. IsFiniteSet(E)
  BY <1>4, FS_AddElement
<1>6. IsFiniteSet(F)
  BY <1>5, FS_AddElement
<1>7. VA = F
  BY VAIs
<1>8. IsFiniteSet(VA)
  BY <1>6, <1>7
<1> QED
  BY <1>8, FS_Product, ForkAssumption

LEMMA NumberFacts == Number \subseteq Nat /\ 0 \in Number
  BY VAFinite, FS_CardinalityType DEF Number

\* The entries that sys_page_map and sys_page_alloc write: a page of its own, a
\* read-only one, a copy-on-write one, one marked PTE_SHARE.
LEMMA PteFacts ==
    ASSUME NEW p \in Page, NEW t
    PROVE  /\ t = Pte(p, TRUE, FALSE, FALSE) =>
                 t \in Entry /\ t # None /\ t.pg = p /\ t.w /\ ~t.cow /\ ~t.sh
           /\ t = Pte(p, FALSE, FALSE, FALSE) =>
                 t \in Entry /\ t # None /\ t.pg = p /\ ~t.w /\ ~t.cow /\ ~t.sh
           /\ t = Pte(p, FALSE, TRUE, FALSE) =>
                 t \in Entry /\ t # None /\ t.pg = p /\ ~t.w /\ t.cow /\ ~t.sh
           /\ t = Pte(p, TRUE, FALSE, TRUE) =>
                 t \in Entry /\ t # None /\ t.pg = p /\ t.w /\ ~t.cow /\ t.sh
           /\ t = Pte(p, TRUE, TRUE, TRUE) =>
                 t \in Entry /\ t # None /\ t.pg = p /\ t.w /\ t.cow /\ t.sh
<1>1. ASSUME t = Pte(p, TRUE, FALSE, FALSE)
      PROVE  t \in Entry /\ t # None /\ t.pg = p /\ t.w /\ ~t.cow /\ ~t.sh
  <2>1. t \in Entry
    BY <1>1 DEF Pte, Entry
  <2> QED
    BY <1>1, <2>1, NoEntryAssumption DEF Pte
<1>2. ASSUME t = Pte(p, FALSE, FALSE, FALSE)
      PROVE  t \in Entry /\ t # None /\ t.pg = p /\ ~t.w /\ ~t.cow /\ ~t.sh
  <2>1. t \in Entry
    BY <1>2 DEF Pte, Entry
  <2> QED
    BY <1>2, <2>1, NoEntryAssumption DEF Pte
<1>3. ASSUME t = Pte(p, FALSE, TRUE, FALSE)
      PROVE  t \in Entry /\ t # None /\ t.pg = p /\ ~t.w /\ t.cow /\ ~t.sh
  <2>1. t \in Entry
    BY <1>3 DEF Pte, Entry
  <2> QED
    BY <1>3, <2>1, NoEntryAssumption DEF Pte
<1>4. ASSUME t = Pte(p, TRUE, FALSE, TRUE)
      PROVE  t \in Entry /\ t # None /\ t.pg = p /\ t.w /\ ~t.cow /\ t.sh
  <2>1. t \in Entry
    BY <1>4 DEF Pte, Entry
  <2> QED
    BY <1>4, <2>1, NoEntryAssumption DEF Pte
<1>5. ASSUME t = Pte(p, TRUE, TRUE, TRUE)
      PROVE  t \in Entry /\ t # None /\ t.pg = p /\ t.w /\ t.cow /\ t.sh
  <2>1. t \in Entry
    BY <1>5 DEF Pte, Entry
  <2> QED
    BY <1>5, <2>1, NoEntryAssumption DEF Pte
<1> QED
  BY <1>1, <1>2, <1>3, <1>4, <1>5

LEMMA PageName ==
    ASSUME NEW e \in Env, NEW v \in VA, NEW k \in Number
    PROVE  /\ <<e, v, k>> \in Page /\ <<e, v, k>>[1] = e /\ <<e, v, k>>[2] = v
  BY DEF Page

LEMMA EntryFacts ==
    ASSUME TypeOK, NEW e \in Env, NEW v \in VA, pt[e][v] # None
    PROVE  /\ pt[e][v] \in Entry /\ pt[e][v].pg \in Page /\ pt[e][v].w \in BOOLEAN
           /\ pt[e][v].cow \in BOOLEAN /\ pt[e][v].sh \in BOOLEAN
           /\ pt[e][v].pg \in Mapped(pt) /\ pt[e][v].pg \in DOMAIN data
<1>1. pt[e][v] \in Entry
  BY DEF TypeOK
<1>2. pt[e][v].pg \in Mapped(pt)
  <2>1. <<e, v>> \in {k \in Env \X VA : pt[k[1]][k[2]] # None}
    OBVIOUS
  <2> QED
    BY <2>1 DEF Mapped
<1> QED
  BY <1>1, <1>2 DEF Entry, TypeOK

LEMMA MappedBy ==
    ASSUME NEW tables, NEW p \in Mapped(tables)
    PROVE  \E e \in Env, v \in VA : tables[e][v] # None /\ tables[e][v].pg = p
  BY DEF Mapped

LEMMA MappedIs ==
    ASSUME NEW tables, NEW e \in Env, NEW v \in VA, tables[e][v] # None
    PROVE  tables[e][v].pg \in Mapped(tables)
<1>1. <<e, v>> \in {k \in Env \X VA : tables[k[1]][k[2]] # None}
  OBVIOUS
<1> QED
  BY <1>1 DEF Mapped

\* page_alloc finds a page that nobody maps: there are more numbers than mappings.
LEMMA FreshNumber ==
    ASSUME TypeOK, NEW e \in Env, NEW va \in VA
    PROVE  \E k \in Number : <<e, va, k>> \notin DOMAIN data
<1> SUFFICES ASSUME \A k \in Number : <<e, va, k>> \in Mapped(pt) PROVE FALSE
  BY DEF TypeOK
<1> DEFINE At1(k, m) == pt[m[1]][m[2]] # None /\ pt[m[1]][m[2]].pg = <<e, va, k>>
           f == [k \in Number |-> CHOOSE m \in Env \X VA : At1(k, m)]
<1>1. ASSUME NEW k \in Number PROVE f[k] \in Env \X VA /\ At1(k, f[k])
  <2>1. \E m \in Env \X VA : At1(k, m)
    BY ZenonT(60) DEF Mapped
  <2> QED
    BY ZenonT(60), <2>1
<1>2. f \in [Number -> Env \X VA]
  BY ZenonT(60), <1>1
<1>3. IsFiniteSet(Number) /\ Cardinality(Env \X VA) < Cardinality(Number)
  <2> DEFINE n == Cardinality(Env \X VA)
  <2>1. n \in Nat
    BY VAFinite, FS_CardinalityType
  <2> HIDE DEF n
  <2>2. IsFiniteSet(0 .. n) /\ Cardinality(0 .. n) = n - 0 + 1
    BY <2>1, FS_Interval
  <2> QED
    BY <2>1, <2>2 DEF Number, n
<1>4. PICK x, y \in Number : x # y /\ f[x] = f[y]
  <2> HIDE DEF f
  <2> QED
    BY SMTT(60), <1>2, <1>3, VAFinite, FS_PigeonHole
<1>5. <<e, va, x>> = <<e, va, y>>
  BY ZenonT(60), <1>1, <1>4
<1> QED
  BY <1>4, <1>5

\* What page_insert and page_remove do to the tables and to the pages.
Inserted(caller, d, va, t) ==
    /\ pt' \in [Env -> [VA -> Entry \cup {None}]] /\ data' \in [Mapped(pt') -> Value]
    /\ tlb' \in [Env -> [VA -> Entry \cup {None}]] /\ others' = others
    /\ pt'[d][va] = t /\ \A u \in VA : u # va => pt'[d][u] = pt[d][u]
    /\ \A f \in Env : f # d => pt'[f] = pt[f]
    /\ tlb'[caller] = pt'[caller] /\ \A f \in Env : f # caller => tlb'[f] = tlb[f]
    /\ \A p \in Mapped(pt') : data'[p] = IF p \in DOMAIN data THEN data[p] ELSE 0

LEMMA InsertFacts ==
    ASSUME TypeOK, NEW caller \in Env, NEW d \in Env, NEW va \in VA, NEW t \in Entry,
           PageInsert(caller, d, va, t)
    PROVE  Inserted(caller, d, va, t)
<1>1. /\ pt' = [pt EXCEPT ![d][va] = t] /\ others' = others
      /\ data' = [p \in Mapped(pt') |-> IF p \in DOMAIN data THEN data[p] ELSE 0]
      /\ tlb' = [tlb EXCEPT ![caller] = pt'[caller]]
  BY DEF PageInsert, Memory
<1>2. pt' \in [Env -> [VA -> Entry \cup {None}]]
  BY <1>1 DEF TypeOK
<1>3. data' \in [Mapped(pt') -> Value]
  BY <1>1, ForkAssumption DEF TypeOK
<1>4. tlb' \in [Env -> [VA -> Entry \cup {None}]]
  BY <1>1, <1>2 DEF TypeOK
<1> QED
  BY ZenonT(60), <1>1, <1>2, <1>3, <1>4 DEF TypeOK, Inserted

----------------------------------------------------------------------------
(* The inductive invariant, and what it implies *)

Safe == TypeOK /\ Bookkeeping /\ TlbCoherent

\* What the first program has, and that nobody else has anything.
LEMMA InitTables ==
    ASSUME Init
    PROVE  /\ \A e \in Env, v \in VA :
                 e # Root \/ v \notin {"text", "data", "share", "stack"} => pt[e][v] = None
           /\ \A v \in {"text", "data", "share", "stack"} :
                 /\ v \in VA /\ pt[Root][v] \in Entry /\ pt[Root][v] # None
                 /\ pt[Root][v].pg = <<Root, v, 0>> /\ (pt[Root][v].w <=> v # "text")
                 /\ ~pt[Root][v].cow /\ (pt[Root][v].sh <=> v = "share")
<1> DEFINE loaded == {"text", "data", "share", "stack"}
<1>1. \A e \in Env, v \in VA :
         pt[e][v] = IF e = Root /\ v \in loaded
                    THEN Pte(<<Root, v, 0>>, v # "text", FALSE, v = "share") ELSE None
  BY DEF Init
<1>2. ASSUME NEW v \in loaded
      PROVE  /\ v \in VA /\ pt[Root][v] \in Entry /\ pt[Root][v] # None
             /\ pt[Root][v].pg = <<Root, v, 0>> /\ (pt[Root][v].w <=> v # "text")
             /\ ~pt[Root][v].cow /\ (pt[Root][v].sh <=> v = "share")
  <2>1. v \in VA /\ Root \in Env
    BY VAIs, ForkAssumption
  <2>2. <<Root, v, 0>> \in Page
    BY <2>1, NumberFacts, PageName
  <2>3. pt[Root][v] = Pte(<<Root, v, 0>>, v # "text", FALSE, v = "share")
    BY <1>1, <2>1
  <2>4. CASE v = "text"
    <3>1. pt[Root][v] = Pte(<<Root, v, 0>>, FALSE, FALSE, FALSE)
      BY <2>3, <2>4
    <3> QED
      BY ZenonT(60), <2>1, <2>2, <2>4, <3>1, PteFacts
  <2>5. CASE v = "share"
    <3>1. pt[Root][v] = Pte(<<Root, v, 0>>, TRUE, FALSE, TRUE)
      BY <2>3, <2>5
    <3> QED
      BY ZenonT(60), <2>1, <2>2, <2>5, <3>1, PteFacts
  <2>6. CASE v \in {"data", "stack"}
    <3>1. pt[Root][v] = Pte(<<Root, v, 0>>, TRUE, FALSE, FALSE)
      BY <2>3, <2>6
    <3> QED
      BY <2>1, <2>2, <2>6, <3>1, PteFacts
  <2> QED
    BY <2>4, <2>5, <2>6
<1> QED
  BY <1>1, <1>2

LEMMA SafeInit == Init => Safe
<1> SUFFICES ASSUME Init PROVE Safe
  OBVIOUS
<1> DEFINE loaded == {"text", "data", "share", "stack"}
<1>1. \A e \in Env, v \in VA :
         pt[e][v] = IF e = Root /\ v \in loaded
                    THEN Pte(<<Root, v, 0>>, v # "text", FALSE, v = "share") ELSE None
  BY DEF Init
<1>2. ASSUME NEW v \in loaded
      PROVE  /\ v \in VA /\ pt[Root][v] \in Entry /\ pt[Root][v] # None
             /\ pt[Root][v].pg = <<Root, v, 0>> /\ (pt[Root][v].w <=> v # "text")
             /\ ~pt[Root][v].cow /\ (pt[Root][v].sh <=> v = "share")
  BY InitTables
<1>3. pt \in [Env -> [VA -> Entry \cup {None}]]
  <2>1. \A e \in Env, v \in VA : pt[e][v] \in Entry \cup {None}
    BY <1>1, <1>2
  <2> DEFINE T(e, v) == IF e = Root /\ v \in loaded
                        THEN Pte(<<Root, v, 0>>, v # "text", FALSE, v = "share") ELSE None
  <2>2. pt = [e \in Env |-> [v \in VA |-> T(e, v)]]
    BY DEF Init
  <2>3. \A e \in Env, v \in VA : T(e, v) \in Entry \cup {None}
    BY ZenonT(60), <1>1, <2>1
  <2> HIDE DEF T
  <2> QED
    BY <2>2, <2>3
<1>4. data \in [Mapped(pt) -> Value]
  <2>1. data = [p \in {<<Root, v, 0>> : v \in loaded} |-> 1]
    BY DEF Init
  <2>2. ASSUME NEW p \in Mapped(pt) PROVE p \in {<<Root, v, 0>> : v \in loaded}
    <3>1. PICK e \in Env, v \in VA : pt[e][v] # None /\ pt[e][v].pg = p
      BY MappedBy
    <3>2. e = Root /\ v \in loaded
      BY <1>1, <3>1
    <3> QED
      BY <1>2, <3>1, <3>2
  <2>3. ASSUME NEW v \in loaded PROVE <<Root, v, 0>> \in Mapped(pt)
    BY <1>2, MappedIs, ForkAssumption
  <2>4. Mapped(pt) = {<<Root, v, 0>> : v \in loaded}
    BY <2>2, <2>3
  <2> QED
    BY <2>1, <2>4, ForkAssumption
<1>5. TypeOK
  <2>1. tlb = pt /\ others \in 0 .. OTHERS
    BY ForkAssumption DEF Init
  <2>2. /\ status \in [Env -> {"FREE", "NOT_RUNNABLE", "RUNNABLE"}]
        /\ pc \in [Env -> Pc] /\ hpc \in [Env -> HandlerPc] /\ hva \in [Env -> VA]
    BY VAIs DEF Init, Pc, HandlerPc
  <2>3. /\ upcall \in [Env -> BOOLEAN] /\ handler \in [Env -> BOOLEAN]
        /\ parent \in [Env -> Env \cup {None}] /\ kid \in [Env -> Env \cup {None}]
        /\ idx \in [Env -> 1 .. Len(Walk)]
    BY WalkIs DEF Init
  <2> QED
    BY <1>3, <1>4, <2>1, <2>2, <2>3 DEF TypeOK
<1>6. ASSUME NEW e \in Env PROVE Local(e)
  <2>1. Family(e)
    <3>1. e # Root => pt[e] = Unmapped
      BY <1>1, <1>3 DEF Unmapped
    <3>2. pt[e]["pftemp"] = None
      BY ZenonT(60), <1>1, VAIs
    <3> QED
      BY <3>1, <3>2 DEF Init, Family
  <2>2. Ready(e)
    BY ZenonT(60), <1>2 DEF Init, Ready, Forking
  <2>3. Handling(e)
    BY <1>1, VAIs DEF Init, Handling
  <2>4. Walked(e)
    BY DEF Init, Walked
  <2>5. ASSUME NEW v \in VA, pt[e][v] # None PROVE Rights(e, v, pt[e][v], hva[e])
    <3>1. e = Root /\ v \in loaded
      BY <1>1, <2>5
    <3>2. pt[e][v].pg = <<Root, v, 0>>
      BY <1>2, <3>1
    <3>3. pt[e][v].pg[2] = v
      BY <3>2
    <3> QED
      BY <1>2, <3>1, <3>2, <3>3 DEF Rights
  <2> QED
    BY <2>1, <2>2, <2>3, <2>4, <2>5 DEF Local, Mapping
<1>7. ASSUME NEW e \in Env, NEW v \in {"data", "stack"} PROVE Exclusive(e, v)
  <2> SUFFICES ASSUME NEW f \in Env, NEW u \in VA, pt[e][v] # None, pt[f][u] # None,
                      pt[f][u].pg = pt[e][v].pg
               PROVE  f = e /\ u = v
    BY DEF Exclusive
  <2>1. e = Root /\ f = Root /\ v \in loaded /\ u \in loaded
    BY ZenonT(60), <1>1, VAIs
  <2>2. <<Root, u, 0>> = <<Root, v, 0>>
    BY <1>2, <2>1
  <2> QED
    BY <2>1, <2>2
<1>8. OneParent /\ TlbCoherent
  BY DEF Init, OneParent, TlbCoherent
<1> QED
  BY <1>5, <1>6, <1>7, <1>8 DEF Safe, Bookkeeping

LEMMA Follows == Safe => FaultsAreHandled /\ ScratchIsPrivate
<1> SUFFICES ASSUME Safe PROVE FaultsAreHandled /\ ScratchIsPrivate
  OBVIOUS
<1>1. FaultsAreHandled
  <2> SUFFICES ASSUME NEW e \in Env, Running(e), NEW v \in {"data", "stack"}
               PROVE  /\ pt[e][v] # None
                      /\ pt[e][v].w \/ (pt[e][v].cow /\ upcall[e] /\ pt[e]["xstack"] # None
                                                     /\ pt[e]["xstack"].w)
    BY DEF FaultsAreHandled
  <2>1. Ready(e) /\ Mapping(e, v) /\ Mapping(e, "xstack") /\ status[e] = "RUNNABLE"
    BY VAIs DEF Safe, Bookkeeping, Local, Running
  <2> QED
    BY <2>1 DEF Ready, Mapping, Rights
<1>2. ASSUME NEW e \in Env, pt[e]["xstack"] # None, NEW f \in Env \ {e}, NEW v \in VA,
             pt[f][v] # None
      PROVE  pt[f][v].pg # pt[e]["xstack"].pg
  <2>1. pt[e]["xstack"].pg[1] = e /\ pt[e]["xstack"].pg[2] = "xstack"
    BY <1>2, VAIs DEF Safe, Bookkeeping, Local, Mapping, Rights
  <2>2. Mapping(f, v) /\ hva[f] \in {"data", "share", "stack"}
    BY DEF Safe, Bookkeeping, Local, Handling
  <2>3. CASE v = "share"
    <3>1. pt[f][v].pg[2] = "share"
      BY <1>2, <2>2, <2>3 DEF Mapping, Rights
    <3> QED
      BY <2>1, <3>1
  <2>4. CASE v # "share"
    <3>1. pt[f][v].pg[2] \in {"data", "share", "stack", "text"}
             \/ pt[f][v].pg[1] = f
      BY <1>2, <2>2, <2>4, VAIs DEF Mapping, Rights
    <3> QED
      BY <1>2, <2>1, <3>1
  <2> QED
    BY <2>3, <2>4
<1>3. ASSUME NEW e \in Env, pt[e]["xstack"] # None PROVE pt[e]["xstack"].w
  BY <1>3, VAIs DEF Safe, Bookkeeping, Local, Mapping, Rights
<1>4. ASSUME NEW e \in Env, Running(e)
      PROVE  pt[e]["pftemp"] # None <=> hpc[e] \in {"alloc", "copy"}
  BY <1>4 DEF Safe, Bookkeeping, Local, Handling, Running
<1> QED
  BY <1>1, <1>2, <1>3, <1>4 DEF ScratchIsPrivate, Sealed

----------------------------------------------------------------------------
(* What a step leaves alone *)

Same(f) ==
    /\ pt'[f] = pt[f] /\ status'[f] = status[f] /\ upcall'[f] = upcall[f]
    /\ handler'[f] = handler[f] /\ pc'[f] = pc[f] /\ idx'[f] = idx[f]
    /\ kid'[f] = kid[f] /\ hpc'[f] = hpc[f] /\ hva'[f] = hva[f]

\* An environment keeps its bookkeeping if nothing of it or of its child changes.
LEMMA Frame ==
    ASSUME NEW f \in Env, Local(f), Same(f), kid[f] # None => Same(kid[f])
    PROVE  Local(f)'
<1>1. Family(f)'
  BY DEF Local, Same, Family
<1>2. Ready(f)'
  BY DEF Local, Same, Ready
<1>3. Handling(f)'
  BY DEF Local, Same, Handling
<1>4. Walked(f)'
  <2>1. /\ Walked(f) /\ pc'[f] = pc[f] /\ idx'[f] = idx[f] /\ kid'[f] = kid[f] /\ pt'[f] = pt[f]
        /\ pc[f] \in {"walk", "remap", "kidxstack", "kidstatus"} =>
              pt'[kid[f]] = pt[kid[f]] /\ upcall'[kid[f]] = upcall[kid[f]]
    BY DEF Local, Same, Family
  <2> QED
    BY <2>1 DEF Walked
<1>5. \A v \in VA : Mapping(f, v)'
  BY DEF Local, Same, Mapping
<1> QED
  BY <1>1, <1>2, <1>3, <1>4, <1>5 DEF Local

\* Nobody else is building an environment that runs, or the child of e.
LEMMA Children ==
    ASSUME Safe, NEW e \in Env, status[e] = "RUNNABLE", NEW f \in Env, f # e,
           kid[f] # None
    PROVE  kid[f] \in Env /\ kid[f] # e /\ kid[f] # kid[e] /\ status[kid[f]] = "NOT_RUNNABLE"
<1>1. kid[f] \in Env /\ status[kid[f]] = "NOT_RUNNABLE"
  BY DEF Safe, TypeOK, Bookkeeping, Local, Family
<1> QED
  BY <1>1 DEF Safe, Bookkeeping, OneParent

\* A step of e that changes nothing but what is its own or its child's.
LEMMA Bystanders ==
    ASSUME Safe, NEW e \in Env, status[e] = "RUNNABLE",
           \A f \in Env : f # e /\ f # kid[e] => Same(f)
    PROVE  \A f \in Env : f # e /\ f # kid[e] => Local(f)'
<1> SUFFICES ASSUME NEW f \in Env, f # e, f # kid[e] PROVE Local(f)'
  OBVIOUS
<1>1. kid[f] # None => Same(kid[f])
  BY Children
<1> QED
  BY <1>1, Frame DEF Safe, Bookkeeping

\* Only in the two states in which its child may have a page that it can write,
\* does it matter for Exclusive where an environment is.
Steady(f) ==
    pc[f] \in {"remap", "panic"} /\ kid[f] # None =>
       \/ kid'[f] = kid[f] /\ pc'[f] \in {"remap", "panic"} /\ idx'[f] = idx[f]
       \/ pt'[f][Walk[idx[f]]] = None \/ ~pt'[f][Walk[idx[f]]].w

\* A step that unmaps pages, or none.
LEMMA ExclusiveKept ==
    ASSUME Safe, NEW e \in Env, NEW v \in {"data", "stack"},
           \A f \in Env, u \in VA : pt'[f][u] = pt[f][u] \/ pt'[f][u] = None,
           Steady(e)
    PROVE  Exclusive(e, v)'
<1> SUFFICES ASSUME NEW f \in Env, NEW u \in VA, pt'[e][v] # None, pt'[e][v].w,
                    pt'[f][u] # None, pt'[f][u].pg = pt'[e][v].pg
             PROVE  \/ f = e /\ u = v
                    \/ /\ f = kid'[e] /\ u = v /\ pc'[e] \in {"remap", "panic"}
                       /\ Walk[idx'[e]] = v
  BY DEF Exclusive
<1>1. v \in VA
  BY VAIs
<1>2. pt'[e][v] = pt[e][v] /\ pt'[f][u] = pt[f][u]
  BY <1>1
<1>3. \/ f = e /\ u = v
      \/ f = kid[e] /\ u = v /\ pc[e] \in {"remap", "panic"} /\ Walk[idx[e]] = v
  BY <1>2 DEF Safe, Bookkeeping, Exclusive
<1>4. f # None
  BY ForkAssumption
<1> QED
  BY <1>3, <1>4 DEF Steady

\* A page that t makes writable at va of d is mapped nowhere else.
Fresh(d, va, t) ==
    t.w /\ va \in {"data", "stack"} =>
       \A f \in Env, u \in VA :
          (f # d \/ u # va) /\ pt[f][u] # None => pt[f][u].pg # t.pg

\* One that someone else can write is mapped for the child of that environment.
Excused(d, va, t) ==
    \A f \in Env, v \in {"data", "stack"} :
       (f # d \/ v # va) /\ pt[f][v] # None /\ pt[f][v].w /\ pt[f][v].pg = t.pg =>
          d = kid'[f] /\ va = v /\ pc'[f] = "remap" /\ Walk[idx'[f]] = v

\* A step that maps one page.
LEMMA ExclusiveInsert ==
    ASSUME Safe, NEW e \in Env, NEW v \in {"data", "stack"}, Steady(e),
           NEW caller, NEW d \in Env, NEW va \in VA, NEW t, t # None,
           Inserted(caller, d, va, t), Fresh(d, va, t), Excused(d, va, t)
    PROVE  Exclusive(e, v)'
<1>0. /\ pt'[d][va] = t /\ \A u \in VA : u # va => pt'[d][u] = pt[d][u]
      /\ \A f \in Env : f # d => pt'[f] = pt[f]
  BY DEF Inserted
<1> SUFFICES ASSUME NEW f \in Env, NEW u \in VA, pt'[e][v] # None, pt'[e][v].w,
                    pt'[f][u] # None, pt'[f][u].pg = pt'[e][v].pg
             PROVE  \/ f = e /\ u = v
                    \/ /\ f = kid'[e] /\ u = v /\ pc'[e] \in {"remap", "panic"}
                       /\ Walk[idx'[e]] = v
  BY DEF Exclusive
<1>1. v \in VA /\ f # None
  BY VAIs, ForkAssumption
<1>2. CASE e = d /\ v = va
  <2>1. ASSUME f # d \/ u # va PROVE pt'[f][u] = pt[f][u]
    BY <1>0, <2>1
  <2>2. pt'[e][v] = t
    BY <1>0, <1>2
  <2> QED
    BY <1>2, <2>1, <2>2 DEF Fresh
<1>3. CASE ~(e = d /\ v = va) /\ f = d /\ u = va
  <2>1. pt'[e][v] = pt[e][v] /\ pt'[f][u] = t
    BY <1>0, <1>1, <1>3
  <2> QED
    BY <1>1, <1>3, <2>1 DEF Excused
<1>4. CASE ~(e = d /\ v = va) /\ ~(f = d /\ u = va)
  <2>1. pt'[e][v] = pt[e][v] /\ pt'[f][u] = pt[f][u]
    BY <1>0, <1>1, <1>4
  <2>2. \/ f = e /\ u = v
        \/ f = kid[e] /\ u = v /\ pc[e] \in {"remap", "panic"} /\ Walk[idx[e]] = v
    BY <2>1 DEF Safe, Bookkeeping, Exclusive
  <2> QED
    BY <1>1, <2>2 DEF Steady
<1> QED
  BY <1>2, <1>3, <1>4

----------------------------------------------------------------------------
(* Steps that map and unmap nothing *)

\* With a coherent TLB a store goes where the page table says.
LEMMA StoreFacts ==
    ASSUME Safe, NEW e \in Env, status[e] = "RUNNABLE", NEW v \in VA, NEW x \in Value,
           Store(e, v, x)
    PROVE  /\ pt[e][v] # None /\ pt[e][v].w /\ data' = [data EXCEPT ![pt[e][v].pg] = x]
           /\ data' \in [Mapped(pt') -> Value]
           /\ pt' = pt /\ others' = others /\ tlb' = tlb
<1>1. /\ pt[e][v] # None /\ pt[e][v].w /\ data' = [data EXCEPT ![pt[e][v].pg] = x]
      /\ pt' = pt /\ others' = others /\ tlb' = tlb
  BY DEF Store, Translations, Safe, TlbCoherent
<1> QED
  BY <1>1 DEF Safe, TypeOK

LEMMA QuietMove ==
    ASSUME Safe, NEW e \in Env, status[e] = "RUNNABLE", TypeOK', TlbCoherent',
           pt' = pt, status' = status, upcall' = upcall, kid' = kid,
           \A f \in Env : f # e => /\ pc'[f] = pc[f] /\ handler'[f] = handler[f]
                                   /\ idx'[f] = idx[f]
                                   /\ hpc'[f] = hpc[f] /\ hva'[f] = hva[f],
           Local(e)', Steady(e)
    PROVE  Safe'
<1>1. ASSUME NEW f \in Env, f # e PROVE Local(f)'
  <2>1. \A g \in Env : g # e => Same(g)
    BY DEF Same
  <2>2. CASE f = kid[e]
    <3>1. kid[f] = None /\ Local(f)
      BY <2>2, ForkAssumption DEF Safe, Bookkeeping, Local, Family
    <3> QED
      BY <1>1, <2>1, <3>1, Frame
  <2>3. CASE f # kid[e]
    BY <1>1, <2>1, <2>3, Bystanders
  <2> QED
    BY <2>2, <2>3
<1>2. ASSUME NEW f \in Env, NEW v \in {"data", "stack"} PROVE Exclusive(f, v)'
  <2>1. Steady(f)
    <3>1. CASE f # e
      BY <3>1 DEF Steady
    <3> QED
      BY <3>1
  <2> QED
    BY <2>1, ExclusiveKept
<1>3. OneParent'
  BY DEF OneParent, Safe, Bookkeeping
<1> QED
  BY <1>1, <1>2, <1>3 DEF Safe, Bookkeeping

LEMMA QuietStep ==
    ASSUME Safe, NEW e \in Env, status[e] = "RUNNABLE", TypeOK', TlbCoherent',
           pt' = pt, status' = status, upcall' = upcall, kid' = kid, idx' = idx,
           pc[e] \in {"remap", "panic"} => pc'[e] \in {"remap", "panic"},
           \A f \in Env : f # e => /\ pc'[f] = pc[f] /\ handler'[f] = handler[f]
                                   /\ hpc'[f] = hpc[f] /\ hva'[f] = hva[f],
           Local(e)'
    PROVE  Safe'
<1>1. Steady(e)
  BY DEF Steady
<1> QED
  BY <1>1, QuietMove

LEMMA PanicSafe ==
    ASSUME Safe, NEW e \in Env, Running(e), Panic(e)
    PROVE  Safe'
<1>1. /\ status[e] = "RUNNABLE" /\ pc' = [pc EXCEPT ![e] = "panic"] /\ data' = data /\ pt' = pt
      /\ others' = others /\ tlb' = tlb /\ status' = status /\ upcall' = upcall
      /\ parent' = parent /\ handler' = handler /\ idx' = idx /\ kid' = kid
      /\ hpc' = hpc /\ hva' = hva
  BY DEF Running, Panic, Goto, memory, envs
<1>2. TypeOK' /\ TlbCoherent'
  BY <1>1 DEF Safe, TypeOK, TlbCoherent, Pc
<1>3. Local(e)'
  <2>1. Local(e) /\ pc'[e] = "panic"
    BY <1>1 DEF Safe, Bookkeeping, TypeOK
  <2> QED
    BY <1>1, <2>1 DEF Local, Family, Ready, Handling, Walked, Mapping, Forking
<1> QED
  BY <1>1, <1>2, <1>3, QuietStep DEF Safe, TypeOK

LEMMA StoreSafe ==
    ASSUME Safe, NEW e \in Env, UserStore(e) \/ SetHandler(e) \/ SetThisenv(e)
    PROVE  Safe'
<1>1. CASE UserStore(e)
  <2>1. status[e] = "RUNNABLE" /\ \E v \in VA, x \in Value : Store(e, v, x)
    BY <1>1, VAIs DEF UserStore, At, Running
  <2>2. data' \in [Mapped(pt') -> Value] /\ pt' = pt /\ others' = others /\ tlb' = tlb
    BY <2>1, StoreFacts
  <2>3. /\ status' = status /\ upcall' = upcall /\ parent' = parent /\ handler' = handler
        /\ pc' = pc /\ idx' = idx /\ kid' = kid /\ hpc' = hpc /\ hva' = hva
    BY <1>1 DEF UserStore, envs, prog
  <2>4. TypeOK' /\ TlbCoherent'
    BY <2>2, <2>3 DEF Safe, TypeOK, TlbCoherent
  <2>5. Local(e)'
    BY <2>2, <2>3 DEF Safe, Bookkeeping, Local, Family, Ready, Handling, Walked, Mapping
  <2> QED
    BY <2>1, <2>2, <2>3, <2>4, <2>5, QuietStep
<1>2. CASE SetHandler(e)
  <2>1. /\ status[e] = "RUNNABLE" /\ \E x \in Value : Store(e, "data", x)
        /\ pc[e] = "sethandler"
    BY <1>2 DEF SetHandler, At, Running
  <2>2. data' \in [Mapped(pt') -> Value] /\ pt' = pt /\ others' = others /\ tlb' = tlb
    BY <2>1, StoreFacts, VAIs
  <2>3. /\ status' = status /\ upcall' = upcall /\ parent' = parent
        /\ handler' = [handler EXCEPT ![e] = TRUE] /\ pc' = [pc EXCEPT ![e] = "exofork"]
        /\ idx' = idx /\ kid' = kid /\ hpc' = hpc /\ hva' = hva
    BY <1>2 DEF SetHandler, Goto, envs
  <2>4. TypeOK' /\ TlbCoherent'
    <3>1. handler' \in [Env -> BOOLEAN]
      BY <2>3 DEF Safe, TypeOK
    <3>2. pc' \in [Env -> Pc]
      BY <2>3 DEF Safe, TypeOK, Pc, Forking
    <3> QED
      BY <2>2, <2>3, <3>1, <3>2 DEF Safe, TypeOK, TlbCoherent
  <2>5. Local(e)'
    <3>1. Local(e) /\ pc'[e] = "exofork" /\ upcall[e] /\ kid[e] = None
      BY <2>1, <2>3 DEF Safe, Bookkeeping, TypeOK, Local, Ready, Family, Forking
    <3> QED
      BY <2>1, <2>2, <2>3, <3>1 DEF Local, Family, Ready, Handling, Walked, Mapping
  <2>6. \A f \in Env : f # e => /\ pc'[f] = pc[f] /\ handler'[f] = handler[f]
                                /\ hpc'[f] = hpc[f] /\ hva'[f] = hva[f]
    BY <2>3 DEF Safe, TypeOK
  <2> QED
    BY <2>1, <2>2, <2>3, <2>4, <2>5, <2>6, QuietStep
<1>3. CASE SetThisenv(e)
  <2>1. /\ status[e] = "RUNNABLE" /\ \E x \in Value : Store(e, "data", x)
        /\ pc[e] = "child"
    BY <1>3 DEF SetThisenv, At, Running
  <2>2. data' \in [Mapped(pt') -> Value] /\ pt' = pt /\ others' = others /\ tlb' = tlb
    BY <2>1, StoreFacts, VAIs
  <2>3. /\ status' = status /\ upcall' = upcall /\ parent' = parent
        /\ handler' = handler /\ pc' = [pc EXCEPT ![e] = "user"]
        /\ idx' = idx /\ kid' = kid /\ hpc' = hpc /\ hva' = hva
    BY <1>3 DEF SetThisenv, Goto, envs
  <2>4. TypeOK' /\ TlbCoherent'
    BY <2>2, <2>3 DEF Safe, TypeOK, TlbCoherent, Pc
  <2>5. Local(e)'
    <3>1. Local(e) /\ pc'[e] = "user" /\ kid[e] = None
      BY <2>1, <2>3 DEF Safe, Bookkeeping, TypeOK, Local, Family
    <3> QED
      BY <2>1, <2>2, <2>3, <3>1 DEF Local, Family, Ready, Handling, Walked, Mapping, Forking
  <2> QED
    BY <2>1, <2>2, <2>3, <2>4, <2>5, QuietStep
<1> QED
  BY <1>1, <1>2, <1>3

\* page_fault_handler starts the upcall, and the upcall returns.
LEMMA UpcallSafe ==
    ASSUME Safe, NEW e \in Env, status[e] = "RUNNABLE", NEW v \in {"data", "share", "stack"},
           hpc[e] \in {"none", "ret"}, NEW h \in {"none", "map"},
           h = "map" => ~CanStore(e, v),
           hpc' = [hpc EXCEPT ![e] = h], hva' = [hva EXCEPT ![e] = v],
           data' \in [Mapped(pt') -> Value], pt' = pt, others' = others,
           tlb' = tlb \/ tlb' = [tlb EXCEPT ![e] = pt[e]],
           status' = status, upcall' = upcall, parent' = parent, handler' = handler,
           pc' = pc, idx' = idx, kid' = kid
    PROVE  Safe'
<1>1. TypeOK'
  <2>1. tlb' \in [Env -> [VA -> Entry \cup {None}]]
    BY DEF Safe, TypeOK
  <2>2. hpc' \in [Env -> HandlerPc] /\ hva' \in [Env -> VA]
    BY VAIs DEF Safe, TypeOK, HandlerPc
  <2> QED
    BY <2>1, <2>2 DEF Safe, TypeOK
<1>2. TlbCoherent'
  BY DEF Safe, TypeOK, TlbCoherent
<1>3. Local(e)'
  <2>1. /\ Local(e) /\ hpc'[e] = h /\ hva'[e] = v /\ pt[e]["pftemp"] = None
    BY DEF Safe, Bookkeeping, TypeOK, Local, Handling
  <2>2. Family(e)' /\ Ready(e)' /\ Walked(e)'
    BY <2>1 DEF Local, Family, Ready, Walked
  <2>3. Handling(e)'
    BY <2>1 DEF Handling, CanStore, Translations
  <2>4. \A u \in VA : Mapping(e, u)'
    BY <2>1 DEF Local, Mapping, Rights
  <2> QED
    BY <2>2, <2>3, <2>4 DEF Local
<1>4. \A f \in Env : f # e => /\ pc'[f] = pc[f] /\ handler'[f] = handler[f]
                              /\ hpc'[f] = hpc[f] /\ hva'[f] = hva[f]
  BY DEF Safe, TypeOK
<1> QED
  BY <1>1, <1>2, <1>3, <1>4, QuietStep

LEMMA UpcallReturnSafe ==
    ASSUME Safe, NEW e \in Env, UpcallReturn(e)
    PROVE  Safe'
<1>1. /\ status[e] = "RUNNABLE" /\ hpc[e] = "ret" /\ status' = status /\ upcall' = upcall
      /\ parent' = parent /\ handler' = handler /\ pc' = pc /\ idx' = idx /\ kid' = kid
  BY DEF UpcallReturn, Running, envs
<1>2. CASE /\ \E x \in Value : Store(e, "stack", x)
           /\ hpc' = [hpc EXCEPT ![e] = "none"] /\ hva' = [hva EXCEPT ![e] = "stack"]
  <2>1. data' \in [Mapped(pt') -> Value] /\ pt' = pt /\ others' = others /\ tlb' = tlb
    BY <1>1, <1>2, StoreFacts, VAIs
  <2> QED
    BY <1>1, <1>2, <2>1, UpcallSafe
<1>3. CASE /\ ~CanStore(e, "stack")
           /\ hpc' = [hpc EXCEPT ![e] = "map"] /\ hva' = [hva EXCEPT ![e] = "stack"]
           /\ tlb' = [tlb EXCEPT ![e] = pt[e]]
           /\ UNCHANGED <<data, pt, others>>
  <2>1. data' \in [Mapped(pt') -> Value]
    BY <1>3 DEF Safe, TypeOK
  <2> QED
    BY <1>1, <1>3, <2>1, UpcallSafe
<1> QED
  BY <1>2, <1>3 DEF UpcallReturn

LEMMA CallForkSafe ==
    ASSUME Safe, NEW e \in Env, CallFork(e)
    PROVE  Safe'
<1> DEFINE label == IF handler[e] THEN "sethandler" ELSE "xalloc"
<1>1. /\ status[e] = "RUNNABLE" /\ pc[e] = "user" /\ pc' = [pc EXCEPT ![e] = label]
      /\ data' = data /\ pt' = pt /\ others' = others /\ tlb' = tlb /\ status' = status
      /\ upcall' = upcall /\ parent' = parent /\ handler' = handler /\ idx' = idx
      /\ kid' = kid /\ hpc' = hpc /\ hva' = hva
  BY DEF CallFork, At, Running, Goto, memory, envs
<1>2. TypeOK' /\ TlbCoherent'
  BY <1>1 DEF Safe, TypeOK, TlbCoherent, Pc, Forking
<1>3. Local(e)'
  <2>1. /\ Local(e) /\ kid[e] = None /\ (pc'[e] = "sethandler" \/ pc'[e] = "xalloc")
        /\ pc'[e] = "sethandler" => handler[e]
    BY <1>1 DEF Safe, Bookkeeping, TypeOK, Local, Family
  <2> HIDE DEF label
  <2> QED
    BY <1>1, <2>1 DEF Local, Family, Ready, Handling, Walked, Mapping, Forking
<1> QED
  BY <1>1, <1>2, <1>3, QuietStep DEF Safe, TypeOK

LEMMA OthersExitSafe == ASSUME Safe, OthersExit PROVE Safe'
<1>1. /\ others \in 0 .. OTHERS /\ others > 0 /\ others' = others - 1 /\ data' = data /\ pt' = pt
      /\ tlb' = tlb /\ status' = status /\ upcall' = upcall /\ parent' = parent
      /\ handler' = handler /\ pc' = pc /\ idx' = idx /\ kid' = kid /\ hpc' = hpc /\ hva' = hva
  BY DEF OthersExit, envs, prog, Safe, TypeOK
<1>2. TypeOK' /\ TlbCoherent'
  <2>1. others' \in 0 .. OTHERS
    BY <1>1, ForkAssumption
  <2> QED
    BY <1>1, <2>1 DEF Safe, TypeOK, TlbCoherent
<1>3. ASSUME NEW f \in Env PROVE Local(f)'
  BY <1>1 DEF Safe, Bookkeeping, Local, Family, Ready, Handling, Walked, Mapping
<1>4. ASSUME NEW f \in Env, NEW v \in {"data", "stack"} PROVE Exclusive(f, v)'
  BY <1>1 DEF Safe, Bookkeeping, Exclusive
<1>5. OneParent'
  BY <1>1 DEF Safe, Bookkeeping, OneParent
<1> QED
  BY <1>2, <1>3, <1>4, <1>5 DEF Safe, Bookkeeping

----------------------------------------------------------------------------
(* Environments that end *)

LEMMA DestroyFacts ==
    ASSUME TypeOK, NEW e \in Env, EnvDestroy(e)
    PROVE  /\ pt' \in [Env -> [VA -> Entry \cup {None}]] /\ data' \in [Mapped(pt') -> Value]
           /\ pt'[e] = Unmapped /\ \A f \in Env : f # e => pt'[f] = pt[f]
           /\ \A p \in Mapped(pt') : p \in DOMAIN data /\ data'[p] = data[p]
<1>1. /\ pt' = [pt EXCEPT ![e] = Unmapped]
      /\ data' = [p \in Mapped(pt') |-> IF p \in DOMAIN data THEN data[p] ELSE 0]
  BY DEF EnvDestroy, Memory
<1>2. Unmapped \in [VA -> Entry \cup {None}] /\ \A v \in VA : Unmapped[v] = None
  BY DEF Unmapped
<1>3. pt' \in [Env -> [VA -> Entry \cup {None}]] /\ pt'[e] = Unmapped
  BY <1>1, <1>2 DEF TypeOK
<1>4. \A f \in Env : f # e => pt'[f] = pt[f]
  BY <1>1 DEF TypeOK
<1>5. ASSUME NEW p \in Mapped(pt') PROVE p \in DOMAIN data
  <2>1. PICK f \in Env, v \in VA : pt'[f][v] # None /\ pt'[f][v].pg = p
    BY MappedBy
  <2>2. pt[f][v] # None /\ pt[f][v].pg = p
    BY <1>2, <1>3, <1>4, <2>1
  <2> QED
    BY <2>2, EntryFacts
<1>6. data' \in [Mapped(pt') -> Value]
  <2>1. \A p \in Mapped(pt') : data[p] \in Value
    BY <1>5 DEF TypeOK
  <2> QED
    BY <1>1, <1>5, <2>1
<1> QED
  BY <1>1, <1>3, <1>4, <1>5, <1>6

LEMMA DestroySafe ==
    ASSUME Safe, NEW e \in Env, status[e] = "RUNNABLE", EnvDestroy(e)
    PROVE  Safe'
<1>1. /\ pt' \in [Env -> [VA -> Entry \cup {None}]] /\ data' \in [Mapped(pt') -> Value]
      /\ pt'[e] = Unmapped /\ \A f \in Env : f # e => pt'[f] = pt[f]
  BY DestroyFacts DEF Safe
<1>2. \A v \in VA : Unmapped[v] = None
  BY DEF Unmapped
<1>3. /\ tlb' = [tlb EXCEPT ![e] = Unmapped]
      /\ status' = [status EXCEPT ![e] = "FREE"] /\ upcall' = [upcall EXCEPT ![e] = FALSE]
      /\ parent' = [c \in Env |-> IF c = e \/ parent[c] = e THEN None ELSE parent[c]]
      /\ handler' = [handler EXCEPT ![e] = FALSE]
      /\ pc' = [pc EXCEPT ![e] = "none"] /\ hpc' = [hpc EXCEPT ![e] = "none"]
      /\ idx' = [idx EXCEPT ![e] = 1] /\ kid' = [kid EXCEPT ![e] = None]
      /\ hva' = [hva EXCEPT ![e] = "stack"] /\ others' = others
  BY DEF EnvDestroy, Memory
<1>4. TypeOK'
  <2>1. tlb' \in [Env -> [VA -> Entry \cup {None}]] /\ parent' \in [Env -> Env \cup {None}]
    BY <1>3 DEF Safe, TypeOK, Unmapped
  <2>2. upcall' \in [Env -> BOOLEAN] /\ handler' \in [Env -> BOOLEAN]
    BY <1>3 DEF Safe, TypeOK
  <2>3. /\ status' \in [Env -> {"FREE", "NOT_RUNNABLE", "RUNNABLE"}] /\ pc' \in [Env -> Pc]
        /\ hpc' \in [Env -> HandlerPc] /\ hva' \in [Env -> VA]
    BY <1>3, VAIs DEF Safe, TypeOK, Pc, HandlerPc
  <2>4. idx' \in [Env -> 1 .. Len(Walk)] /\ kid' \in [Env -> Env \cup {None}]
    BY <1>3, WalkIs DEF Safe, TypeOK
  <2> QED
    BY <1>1, <1>3, <2>1, <2>2, <2>3, <2>4 DEF Safe, TypeOK
<1>5. TlbCoherent'
  BY <1>1, <1>3 DEF Safe, TypeOK, TlbCoherent
<1>6. ASSUME NEW f \in Env, f # e PROVE Same(f)
  <2>1. upcall'[f] = upcall[f] /\ handler'[f] = handler[f]
    BY <1>3, <1>6 DEF Safe, TypeOK
  <2> QED
    BY <1>1, <1>3, <1>6, <2>1 DEF Safe, TypeOK, Same
<1>7. ASSUME NEW f \in Env, f # e PROVE Local(f)'
  BY <1>6, <1>7, Children, Frame DEF Safe, Bookkeeping
<1>8. Local(e)'
  <2>1. /\ status'[e] = "FREE" /\ ~upcall'[e] /\ pc'[e] = "none" /\ hpc'[e] = "none"
        /\ kid'[e] = None /\ hva'[e] = "stack"
    BY <1>3 DEF Safe, TypeOK
  <2> QED
    BY <1>1, <1>2, <2>1, VAIs DEF Local, Family, Ready, Handling, Walked, Mapping
<1>9. ASSUME NEW f \in Env, NEW v \in {"data", "stack"} PROVE Exclusive(f, v)'
  <2>1. \A g \in Env, u \in VA : pt'[g][u] = pt[g][u] \/ pt'[g][u] = None
    BY <1>1, <1>2
  <2>2. Steady(f)
    <3>1. CASE f = e
      <4>1. Walk[idx[e]] \in VA
        BY DEF Safe, TypeOK, VA
      <4> QED
        BY <1>1, <1>2, <3>1, <4>1 DEF Steady
    <3>2. CASE f # e
      BY <1>6, <3>2 DEF Same, Steady
    <3> QED
      BY <3>1, <3>2
  <2> QED
    BY <2>1, <2>2, ExclusiveKept
<1>10. OneParent'
  BY <1>3 DEF Safe, TypeOK, Bookkeeping, OneParent
<1> QED
  BY <1>4, <1>5, <1>7, <1>8, <1>9, <1>10 DEF Safe, Bookkeeping

LEMMA PageFaultSafe ==
    ASSUME Safe, NEW e \in Env, PageFault(e)
    PROVE  Safe'
<1>1. status[e] = "RUNNABLE" /\ hpc[e] = "none"
  BY DEF PageFault, Running
<1>2. PICK v \in Targets(e) :
         /\ ~CanStore(e, v)
         /\ \/ /\ hpc' = [hpc EXCEPT ![e] = "map"] /\ hva' = [hva EXCEPT ![e] = v]
               /\ tlb' = [tlb EXCEPT ![e] = pt[e]]
               /\ UNCHANGED <<data, pt, others, envs, handler, pc, idx, kid>>
            \/ EnvDestroy(e)
  BY DEF PageFault
<1>3. v \in {"data", "share", "stack"}
  BY DEF Targets
<1>4. CASE EnvDestroy(e)
  BY <1>1, <1>4, DestroySafe
<1>5. CASE /\ hpc' = [hpc EXCEPT ![e] = "map"] /\ hva' = [hva EXCEPT ![e] = v]
           /\ tlb' = [tlb EXCEPT ![e] = pt[e]]
           /\ UNCHANGED <<data, pt, others, envs, handler, pc, idx, kid>>
  <2>1. data' \in [Mapped(pt') -> Value]
    BY <1>5 DEF Safe, TypeOK
  <2>2. status' = status /\ upcall' = upcall /\ parent' = parent
    BY <1>5 DEF envs
  <2> QED
    BY <1>1, <1>2, <1>3, <1>5, <2>1, <2>2, UpcallSafe
<1> QED
  BY <1>2, <1>4, <1>5

----------------------------------------------------------------------------
(* Steps that map a page *)

\* sys_page_alloc maps a page that nobody else has.
LEMMA AllocFacts ==
    ASSUME Safe, NEW caller \in Env, NEW d \in Env, NEW va \in VA, SysPageAlloc(caller, d, va)
    PROVE  \E t \in Entry : /\ Inserted(caller, d, va, t) /\ t # None
                            /\ t.w /\ ~t.cow /\ ~t.sh /\ t.pg \in Page
                            /\ t.pg[1] = d /\ t.pg[2] = va /\ t.pg \notin DOMAIN data
                            /\ \A f \in Env, u \in VA : pt[f][u] # None => pt[f][u].pg # t.pg
<1> DEFINE number == CHOOSE k \in Number : <<d, va, k>> \notin DOMAIN data
           t == Pte(<<d, va, number>>, TRUE, FALSE, FALSE)
<1>1. number \in Number /\ <<d, va, number>> \notin DOMAIN data
  BY FreshNumber DEF Safe
<1>2. PageInsert(caller, d, va, t)
  BY DEF SysPageAlloc
<1> HIDE DEF number
<1>3. <<d, va, number>> \in Page
  BY <1>1, PageName
<1>4. t \in Entry /\ t # None /\ t.pg = <<d, va, number>> /\ t.w /\ ~t.cow /\ ~t.sh
  BY <1>3, PteFacts
<1> HIDE DEF t
<1>5. Inserted(caller, d, va, t)
  BY <1>2, <1>4, InsertFacts DEF Safe
<1>6. t.pg[1] = d /\ t.pg[2] = va
  BY <1>4
<1>7. \A f \in Env, u \in VA : pt[f][u] # None => pt[f][u].pg # t.pg
  BY <1>1, <1>4, EntryFacts DEF Safe
<1> QED
  BY <1>1, <1>3, <1>4, <1>5, <1>6, <1>7

\* What a step of e that maps t at va of d, its own table or its child's, has to
\* keep.
LEMMA InsertSafe ==
    ASSUME Safe, NEW e \in Env, status[e] = "RUNNABLE",
           NEW d \in Env, d = e \/ d = kid[e], NEW va \in VA, NEW t \in Entry, t # None,
           Inserted(e, d, va, t), status' = status, parent' = parent, kid' = kid,
           upcall' \in [Env -> BOOLEAN], handler' \in [Env -> BOOLEAN], pc' \in [Env -> Pc],
           idx' \in [Env -> 1 .. Len(Walk)], hpc' \in [Env -> HandlerPc], hva' \in [Env -> VA],
           \A f \in Env : f # e => /\ pc'[f] = pc[f] /\ idx'[f] = idx[f]
                                   /\ handler'[f] = handler[f]
                                   /\ hpc'[f] = hpc[f] /\ hva'[f] = hva[f]
                                   /\ (f # d => upcall'[f] = upcall[f]),
           Local(e)', Local(d)', Steady(e), Fresh(d, va, t), Excused(d, va, t)
    PROVE  Safe'
<1>1. TypeOK'
  BY DEF Safe, TypeOK, Inserted
<1>2. TlbCoherent'
  <2> SUFFICES ASSUME NEW f \in Env, status[f] = "RUNNABLE" PROVE tlb'[f] = pt'[f]
    BY DEF TlbCoherent
  <2>1. CASE f = e
    BY <2>1 DEF Inserted
  <2>2. CASE f # e
    <3>1. kid[e] # None => status[kid[e]] = "NOT_RUNNABLE"
      BY DEF Safe, Bookkeeping, Local, Family
    <3>2. f # d
      BY <2>2, <3>1, ForkAssumption
    <3>3. tlb'[f] = tlb[f] /\ pt'[f] = pt[f]
      BY <2>2, <3>2 DEF Inserted
    <3>4. tlb[f] = pt[f]
      BY DEF Safe, TlbCoherent
    <3> QED
      BY <3>3, <3>4
  <2> QED
    BY <2>1, <2>2
<1>3. ASSUME NEW f \in Env, f # e, f # d PROVE Same(f)
  BY <1>3 DEF Same, Inserted
<1>4. ASSUME NEW f \in Env, f # e, f # d PROVE Local(f)'
  <2>1. CASE f = kid[e]
    <3>1. kid[f] = None
      BY <2>1, ForkAssumption DEF Safe, Bookkeeping, Local, Family
    <3> QED
      BY <1>3, <1>4, <3>1, Frame DEF Safe, Bookkeeping
  <2>2. CASE f # kid[e]
    <3>1. kid[f] # None => kid[f] \in Env /\ kid[f] # e /\ kid[f] # d
      BY <1>4, Children
    <3> QED
      BY <1>3, <1>4, <3>1, Frame DEF Safe, Bookkeeping
  <2> QED
    BY <2>1, <2>2
<1>5. ASSUME NEW f \in Env, NEW v \in {"data", "stack"} PROVE Exclusive(f, v)'
  <2>1. Steady(f)
    <3>1. CASE f = e
      BY <3>1
    <3>2. CASE f # e
      BY <3>2 DEF Steady
    <3> QED
      BY <3>1, <3>2
  <2> QED
    BY <2>1, ExclusiveInsert
<1>6. OneParent'
  BY DEF Safe, Bookkeeping, OneParent
<1> QED
  BY <1>1, <1>2, <1>4, <1>5, <1>6 DEF Safe, Bookkeeping

\* A page for the child that e is building.
LEMMA KidKeeps ==
    ASSUME Safe, NEW e \in Env, NEW c \in Env, c = kid[e], NEW va \in VA, NEW t \in Entry,
           Inserted(e, c, va, t), t # None, va # "pftemp", Rights(c, va, t, hva[c]),
           upcall'[c] => upcall[c] \/ va = "xstack",
           status' = status, kid' = kid, pc'[c] = pc[c], hpc'[c] = hpc[c], hva'[c] = hva[c]
    PROVE  Local(c)'
<1>1. /\ Local(c) /\ status[c] = "NOT_RUNNABLE" /\ pc[c] = "child" /\ hpc[c] = "none"
      /\ kid[c] = None /\ pt[c]["pftemp"] = None
  BY ForkAssumption DEF Safe, Bookkeeping, Local, Family
<1>2. /\ pt'[c][va] = t /\ \A u \in VA : u # va => pt'[c][u] = pt[c][u]
  BY DEF Inserted
<1>3. Family(c)'
  BY <1>1, <1>2, VAIs DEF Family
<1>4. Ready(c)'
  BY <1>1, <1>2, VAIs DEF Local, Ready
<1>5. Handling(c)'
  BY <1>1 DEF Local, Handling
<1>6. Walked(c)'
  BY <1>1 DEF Walked
<1>7. \A v \in VA : Mapping(c, v)'
  BY <1>1, <1>2 DEF Local, Mapping
<1> QED
  BY <1>3, <1>4, <1>5, <1>6, <1>7 DEF Local

\* A page of an environment that runs is writable in another place only if it is
\* the same mapping.
LEMMA OneWriter ==
    ASSUME Safe, NEW e \in Env, status[e] = "RUNNABLE", NEW u \in VA, pt[e][u] # None,
           NEW f \in Env, NEW v \in {"data", "stack"}, pt[f][v] # None, pt[f][v].w,
           pt[f][v].pg = pt[e][u].pg
    PROVE  f = e /\ v = u
<1>1. \/ e = f /\ u = v
      \/ e = kid[f]
  BY DEF Safe, Bookkeeping, Exclusive
<1>2. e # kid[f]
  BY ForkAssumption DEF Safe, Bookkeeping, Local, Family
<1> QED
  BY <1>1, <1>2

\* A mapping of its own disturbs no walk.
LEMMA OwnWalked ==
    ASSUME Safe, NEW e \in Env, NEW va \in VA, NEW t, t # None, Inserted(e, e, va, t),
           pc'[e] = pc[e], idx'[e] = idx[e], kid' = kid,
           \A f \in Env : f # e => upcall'[f] = upcall[f]
    PROVE  Walked(e)'
<1>1. /\ pt'[e][va] = t /\ \A u \in VA : u # va => pt'[e][u] = pt[e][u]
      /\ \A f \in Env : f # e => pt'[f] = pt[f]
  BY DEF Inserted
<1>2. Walk[idx[e]] \in VA
  BY DEF Safe, TypeOK, VA
<1>3. pt[e][Walk[idx[e]]] # None => pt'[e][Walk[idx[e]]] # None
  BY <1>1, <1>2
<1>4. pc[e] \in {"walk", "remap", "kidxstack", "kidstatus"} =>
         /\ kid[e] \in Env /\ kid[e] # e
         /\ pt'[kid[e]] = pt[kid[e]] /\ upcall'[kid[e]] = upcall[kid[e]]
  <2>1. pc[e] \in {"walk", "remap", "kidxstack", "kidstatus"} =>
           kid[e] \in Env /\ status[kid[e]] = "NOT_RUNNABLE" /\ status[e] = "RUNNABLE"
    BY DEF Safe, TypeOK, Bookkeeping, Local, Family
  <2> QED
    BY <1>1, <2>1
<1>5. Walked(e)
  BY DEF Safe, Bookkeeping, Local
<1> QED
  BY <1>3, <1>4, <1>5 DEF Walked

LEMMA PgfaultMapSafe ==
    ASSUME Safe, NEW e \in Env, PgfaultMap(e)
    PROVE  Safe'
<1>1. Running(e) /\ status[e] = "RUNNABLE" /\ hpc[e] = "map"
  BY DEF PgfaultMap, Running
<1>2. CASE Panic(e)
  BY <1>1, <1>2, PanicSafe
<1>3. CASE ~Panic(e)
  <2>1. PICK v \in VA : v = hva[e]
    BY DEF Safe, TypeOK
  <2>2. PICK old : old = pt[e][v]
    OBVIOUS
  <2>3. PICK t : t = Pte(old.pg, FALSE, FALSE, FALSE)
    OBVIOUS
  <2>4. /\ old # None /\ old.cow /\ PageInsert(e, e, "pftemp", t)
        /\ hpc' = [hpc EXCEPT ![e] = "alloc"]
        /\ status' = status /\ upcall' = upcall /\ parent' = parent /\ handler' = handler
        /\ pc' = pc /\ idx' = idx /\ kid' = kid /\ hva' = hva
    BY <1>3, <2>1, <2>2, <2>3 DEF PgfaultMap, SysPageMap, envs
  <2>5. old.pg \in Page
    BY <2>2, <2>4, EntryFacts DEF Safe
  <2>6. t \in Entry /\ t # None /\ t.pg = old.pg /\ ~t.w
    BY <2>3, <2>5, PteFacts
  <2>7. Inserted(e, e, "pftemp", t)
    BY <2>4, <2>6, InsertFacts, VAIs DEF Safe
  <2>8. v \in {"data", "stack"} /\ ~old.w /\ old.pg[2] = v
    <3>1. Mapping(e, v) /\ Handling(e)
      BY DEF Safe, Bookkeeping, Local
    <3> QED
      BY <1>1, <2>1, <2>2, <2>4, <3>1 DEF Mapping, Rights, Handling
  <2>9. /\ hpc'[e] = "alloc" /\ hva'[e] = v /\ pt'[e]["pftemp"] = t /\ "pftemp" \in VA
        /\ \A u \in VA : u # "pftemp" => pt'[e][u] = pt[e][u]
    BY <2>1, <2>4, <2>7, VAIs DEF Safe, TypeOK, Inserted
  <2>10. Local(e)'
    <3>1. Local(e)
      BY DEF Safe, Bookkeeping
    <3>2. Family(e)'
      BY <1>1, <2>4, <3>1 DEF Local, Family
    <3>3. Ready(e)'
      BY <2>4, <2>9, <3>1, VAIs DEF Local, Ready
    <3>4. Handling(e)'
      BY <2>2, <2>6, <2>8, <2>9 DEF Handling
    <3>5. Walked(e)'
      BY <2>4, <2>6, <2>7, <2>9, OwnWalked
    <3>6. \A u \in VA : Mapping(e, u)'
      BY <2>1, <2>6, <2>8, <2>9, <3>1 DEF Local, Mapping, Rights
    <3> QED
      BY <3>2, <3>3, <3>4, <3>5, <3>6 DEF Local
  <2>11. Fresh(e, "pftemp", t) /\ Excused(e, "pftemp", t)
    BY <1>1, <2>2, <2>4, <2>6, <2>8, OneWriter DEF Fresh, Excused
  <2>12. Steady(e)
    BY <2>4 DEF Steady
  <2>13. hpc' \in [Env -> HandlerPc] /\ \A f \in Env : f # e => hpc'[f] = hpc[f]
    BY <2>4 DEF Safe, TypeOK, HandlerPc
  <2> QED
    BY <1>1, <2>4, <2>6, <2>7, <2>9, <2>10, <2>11, <2>12, <2>13, InsertSafe DEF Safe, TypeOK
<1> QED
  BY <1>2, <1>3

\* A page that is mapped nowhere may be mapped anywhere.
LEMMA FreshPage ==
    ASSUME NEW d, NEW va, NEW t,
           \A f \in Env, u \in VA : pt[f][u] # None => pt[f][u].pg # t.pg
    PROVE  Fresh(d, va, t) /\ Excused(d, va, t)
  BY VAIs DEF Fresh, Excused

LEMMA PgfaultAllocSafe ==
    ASSUME Safe, NEW e \in Env, PgfaultAlloc(e)
    PROVE  Safe'
<1>1. Running(e) /\ status[e] = "RUNNABLE" /\ hpc[e] = "alloc"
  BY DEF PgfaultAlloc, Running
<1>2. CASE Panic(e)
  BY <1>1, <1>2, PanicSafe
<1>3. CASE ~Panic(e)
  <2>1. PICK v \in VA : v = hva[e]
    BY DEF Safe, TypeOK
  <2>2. /\ SysPageAlloc(e, e, v) /\ hpc' = [hpc EXCEPT ![e] = "copy"]
        /\ status' = status /\ upcall' = upcall /\ parent' = parent /\ handler' = handler
        /\ pc' = pc /\ idx' = idx /\ kid' = kid /\ hva' = hva
    BY <1>3, <2>1 DEF PgfaultAlloc, envs
  <2>3. PICK t \in Entry : /\ Inserted(e, e, v, t) /\ t # None /\ t.w /\ ~t.sh /\ t.pg[2] = v
                           /\ \A f \in Env, u \in VA : pt[f][u] # None => pt[f][u].pg # t.pg
    BY <2>2, AllocFacts
  <2>4. v \in {"data", "stack"}
    BY <1>1, <2>1 DEF Safe, Bookkeeping, Local, Handling
  <2>5. /\ hpc'[e] = "copy" /\ hva'[e] = v /\ pt'[e][v] = t
        /\ \A u \in VA : u # v => pt'[e][u] = pt[e][u]
    BY <2>1, <2>2, <2>3 DEF Safe, TypeOK, Inserted
  <2>6. Local(e)'
    <3>1. Local(e)
      BY DEF Safe, Bookkeeping
    <3>2. Family(e)'
      BY <1>1, <2>2, <3>1 DEF Local, Family
    <3>3. Ready(e)'
      BY <2>2, <2>3, <2>4, <2>5, <3>1, VAIs DEF Local, Ready
    <3>4. Handling(e)'
      BY <1>1, <2>1, <2>2, <2>3, <2>4, <2>5, <3>1, VAIs DEF Local, Handling
    <3>5. Walked(e)'
      BY <2>2, <2>3, OwnWalked
    <3>6. \A u \in VA : Mapping(e, u)'
      BY <2>1, <2>3, <2>4, <2>5, <3>1 DEF Local, Mapping, Rights
    <3> QED
      BY <3>2, <3>3, <3>4, <3>5, <3>6 DEF Local
  <2>7. Fresh(e, v, t) /\ Excused(e, v, t)
    BY <2>3, FreshPage
  <2>8. Steady(e)
    BY <2>2 DEF Steady
  <2>9. hpc' \in [Env -> HandlerPc] /\ \A f \in Env : f # e => hpc'[f] = hpc[f]
    BY <2>2 DEF Safe, TypeOK, HandlerPc
  <2> QED
    BY <1>1, <2>2, <2>3, <2>6, <2>7, <2>8, <2>9, InsertSafe DEF Safe, TypeOK
<1> QED
  BY <1>2, <1>3

LEMMA XstackAllocSafe ==
    ASSUME Safe, NEW e \in Env, XstackAlloc(e)
    PROVE  Safe'
<1>1. Running(e) /\ status[e] = "RUNNABLE" /\ pc[e] = "xalloc" /\ hpc[e] = "none"
  BY DEF XstackAlloc, At, Running
<1>2. CASE Panic(e)
  BY <1>1, <1>2, PanicSafe
<1>3. CASE ~Panic(e)
  <2>1. /\ SysPageAlloc(e, e, "xstack") /\ upcall' = [upcall EXCEPT ![e] = TRUE]
        /\ pc' = [pc EXCEPT ![e] = "sethandler"]
        /\ status' = status /\ parent' = parent /\ handler' = handler
        /\ hpc' = hpc /\ idx' = idx /\ kid' = kid /\ hva' = hva
    BY <1>3 DEF XstackAlloc, Goto
  <2>2. PICK t \in Entry : /\ Inserted(e, e, "xstack", t) /\ t # None /\ t.w /\ t.pg[1] = e
                           /\ t.pg[2] = "xstack"
                           /\ \A f \in Env, u \in VA : pt[f][u] # None => pt[f][u].pg # t.pg
    BY <2>1, AllocFacts, VAIs
  <2>3. /\ pc'[e] = "sethandler" /\ upcall'[e] /\ pt'[e]["xstack"] = t /\ "xstack" \in VA
        /\ \A u \in VA : u # "xstack" => pt'[e][u] = pt[e][u]
    BY <2>1, <2>2, VAIs DEF Safe, TypeOK, Inserted
  <2>4. Local(e)'
    <3>1. Local(e) /\ kid[e] = None
      BY <1>1 DEF Safe, Bookkeeping, Local, Family
    <3>2. Family(e)'
      BY <1>1, <2>1, <2>3, <3>1 DEF Local, Family
    <3>3. Ready(e)'
      BY <2>1, <2>2, <2>3, <3>1, VAIs DEF Local, Ready
    <3>4. Handling(e)'
      BY <1>1, <2>1, <2>3, <3>1, VAIs DEF Local, Handling
    <3>5. Walked(e)'
      BY <2>3 DEF Walked
    <3>6. \A u \in VA : Mapping(e, u)'
      BY <2>1, <2>2, <2>3, <3>1 DEF Local, Mapping, Rights
    <3> QED
      BY <3>2, <3>3, <3>4, <3>5, <3>6 DEF Local
  <2>5. Fresh(e, "xstack", t) /\ Excused(e, "xstack", t)
    BY <2>2, FreshPage
  <2>6. Steady(e)
    BY <1>1 DEF Steady
  <2>7. pc' \in [Env -> Pc] /\ \A f \in Env : f # e => pc'[f] = pc[f]
    BY <2>1 DEF Safe, TypeOK, Pc, Forking
  <2>8. upcall' \in [Env -> BOOLEAN] /\ \A f \in Env : f # e => upcall'[f] = upcall[f]
    BY <2>1 DEF Safe, TypeOK
  <2> QED
    BY <1>1, <2>1, <2>2, <2>3, <2>4, <2>5, <2>6, <2>7, <2>8, InsertSafe DEF Safe, TypeOK
<1> QED
  BY <1>2, <1>3

LEMMA KidXstackSafe ==
    ASSUME Safe, NEW e \in Env, KidXstack(e)
    PROVE  Safe'
<1>1. Running(e) /\ status[e] = "RUNNABLE" /\ pc[e] = "kidxstack" /\ hpc[e] = "none"
  BY DEF KidXstack, At, Running
<1>2. CASE Panic(e)
  BY <1>1, <1>2, PanicSafe
<1>3. CASE ~Panic(e)
  <2>1. PICK c \in Env : c = kid[e] /\ c # e
    BY <1>1 DEF Safe, TypeOK, Bookkeeping, Local, Family
  <2>2. /\ SysPageAlloc(e, c, "xstack") /\ upcall' = [upcall EXCEPT ![c] = TRUE]
        /\ pc' = [pc EXCEPT ![e] = "kidstatus"]
        /\ status' = status /\ parent' = parent /\ handler' = handler
        /\ hpc' = hpc /\ idx' = idx /\ kid' = kid /\ hva' = hva
    BY <1>3, <2>1 DEF KidXstack, Goto
  <2>3. PICK t \in Entry : /\ Inserted(e, c, "xstack", t) /\ t # None /\ t.w /\ t.pg[1] = c
                           /\ t.pg[2] = "xstack"
                           /\ \A f \in Env, u \in VA : pt[f][u] # None => pt[f][u].pg # t.pg
    BY <2>2, AllocFacts, VAIs
  <2>4. /\ pc'[e] = "kidstatus" /\ upcall'[c] /\ "xstack" \in VA /\ pt'[e] = pt[e]
        /\ \A u \in VA : u # "xstack" => pt'[c][u] = pt[c][u]
    BY <2>1, <2>2, <2>3, VAIs DEF Safe, TypeOK, Inserted
  <2>5. pc' \in [Env -> Pc] /\ \A f \in Env : f # e => pc'[f] = pc[f]
    BY <2>2 DEF Safe, TypeOK, Pc, Forking
  <2>6. upcall' \in [Env -> BOOLEAN] /\ \A f \in Env : f # c => upcall'[f] = upcall[f]
    BY <2>2 DEF Safe, TypeOK
  <2>7. Local(c)'
    <3>1. Rights(c, "xstack", t, hva[c])
      BY <2>3 DEF Rights
    <3> QED
      BY <2>1, <2>2, <2>3, <2>4, <2>5, <3>1, KidKeeps
  <2>8. Local(e)'
    <3>1. Local(e)
      BY DEF Safe, Bookkeeping
    <3>2. Family(e)'
      BY <1>1, <2>1, <2>2, <2>4, <3>1 DEF Local, Family
    <3>3. Ready(e)'
      BY <1>1, <2>1, <2>2, <2>4, <2>6, <3>1 DEF Local, Ready, Forking
    <3>4. Handling(e)'
      BY <2>2, <2>4, <3>1 DEF Local, Handling
    <3>5. Walked(e)'
      BY <1>1, <2>1, <2>2, <2>4, <3>1, VAIs DEF Local, Walked
    <3>6. \A u \in VA : Mapping(e, u)'
      BY <2>2, <2>4, <3>1 DEF Local, Mapping
    <3> QED
      BY <3>2, <3>3, <3>4, <3>5, <3>6 DEF Local
  <2>9. Fresh(c, "xstack", t) /\ Excused(c, "xstack", t)
    BY <2>3, FreshPage
  <2>10. Steady(e)
    BY <1>1 DEF Steady
  <2> QED
    BY <1>1, <2>1, <2>2, <2>3, <2>4, <2>5, <2>6, <2>7, <2>8, <2>9, <2>10, InsertSafe
       DEF Safe, TypeOK
<1> QED
  BY <1>2, <1>3

----------------------------------------------------------------------------
(* The walk *)

LEMMA CopiedIs ==
    ASSUME NEW T, NEW i \in 1 .. 6
    PROVE  Copied(T, i) <=>
              /\ i = 1 => T["pftemp"] = None
              /\ i <= 2 => T["text"] = None
              /\ IF i <= 3 THEN T["data"] = None ELSE T["data"] # None
              /\ i <= 4 => T["share"] = None
              /\ IF i <= 5 THEN T["stack"] = None ELSE T["stack"] # None
<1>1. Copied(T, i) <=>
         \A j \in {1, 2, 3, 4, 5} :
            IF j >= i THEN T[Walk[j]] = None
            ELSE Walk[j] \in {"data", "stack"} => T[Walk[j]] # None
  <2>1. 1 .. Len(Walk) = {1, 2, 3, 4, 5}
    BY WalkIs
  <2> QED
    BY <2>1 DEF Copied
<1> QED
  BY <1>1, WalkIs

\* Where the walk may go: the program's variables and its stack are always
\* there, the shared page need not be.
Advanced(e) ==
    /\ pc' \in [Env -> Pc] /\ idx' \in [Env -> 1 .. Len(Walk)]
    /\ \A f \in Env : f # e => pc'[f] = pc[f] /\ idx'[f] = idx[f]
    /\ \/ idx[e] = 2 /\ idx'[e] = 3 /\ pc'[e] = "walk"
       \/ idx[e] = 3 /\ idx'[e] = 4 /\ pc'[e] = "walk" /\ pt[e]["share"] # None
       \/ idx[e] = 3 /\ idx'[e] = 5 /\ pc'[e] = "walk"
       \/ idx[e] = 4 /\ idx'[e] = 5 /\ pc'[e] = "walk"
       \/ idx[e] = 5 /\ idx'[e] = 1 /\ pc'[e] = "kidxstack"

LEMMA NextPageFacts ==
    ASSUME Safe, NEW e \in Env, status[e] = "RUNNABLE", idx[e] > 1, NextPage(e)
    PROVE  Advanced(e)
<1>1. pt[e]["data"] # None /\ pt[e]["stack"] # None
  BY DEF Safe, Bookkeeping, Local, Ready
<1>2. PICK i \in {2, 3, 4, 5} : i = idx[e]
  BY WalkIs DEF Safe, TypeOK
<1> DEFINE rest == Ahead(e, i + 1)
           least == CHOOSE j \in rest : \A k \in rest : j <= k
<1>3. rest = {j \in (i + 1) .. 5 : pt[e][Walk[j]] # None}
  BY WalkIs DEF Ahead
<1>4. /\ idx' = [idx EXCEPT ![e] = IF rest = {} THEN 1 ELSE least]
      /\ pc' = [pc EXCEPT ![e] = IF rest = {} THEN "kidxstack" ELSE "walk"]
  BY <1>2 DEF NextPage, Goto
<1>5. idx \in [Env -> 1 .. Len(Walk)] /\ pc \in [Env -> Pc]
  BY DEF Safe, TypeOK
<1>6. ASSUME NEW n \in 1 .. 5, NEW p \in {"walk", "kidxstack"},
             idx' = [idx EXCEPT ![e] = n], pc' = [pc EXCEPT ![e] = p]
      PROVE  /\ pc' \in [Env -> Pc] /\ idx' \in [Env -> 1 .. Len(Walk)]
             /\ pc'[e] = p /\ idx'[e] = n
             /\ \A f \in Env : f # e => pc'[f] = pc[f] /\ idx'[f] = idx[f]
  BY <1>5, <1>6, WalkIs DEF Pc, Forking
<1>7. CASE i = 2
  <2>1. 3 \in rest /\ \A k \in rest : 3 <= k
    BY <1>1, <1>3, <1>7, WalkIs
  <2>2. least = 3 /\ rest # {}
    BY <1>3, <2>1
  <2>3. idx' = [idx EXCEPT ![e] = 3] /\ pc' = [pc EXCEPT ![e] = "walk"]
    BY <1>4, <2>2
  <2>4. /\ pc' \in [Env -> Pc] /\ idx' \in [Env -> 1 .. Len(Walk)]
        /\ pc'[e] = "walk" /\ idx'[e] = 3
        /\ \A f \in Env : f # e => pc'[f] = pc[f] /\ idx'[f] = idx[f]
    BY <1>6, <2>3
  <2> QED
    BY <1>2, <1>7, <2>4 DEF Advanced
<1>8. CASE i = 3 /\ pt[e]["share"] # None
  <2>1. 4 \in rest /\ \A k \in rest : 4 <= k
    BY <1>3, <1>8, WalkIs
  <2>2. least = 4 /\ rest # {}
    BY <1>3, <2>1
  <2>3. idx' = [idx EXCEPT ![e] = 4] /\ pc' = [pc EXCEPT ![e] = "walk"]
    BY <1>4, <2>2
  <2>4. /\ pc' \in [Env -> Pc] /\ idx' \in [Env -> 1 .. Len(Walk)]
        /\ pc'[e] = "walk" /\ idx'[e] = 4
        /\ \A f \in Env : f # e => pc'[f] = pc[f] /\ idx'[f] = idx[f]
    BY <1>6, <2>3
  <2> QED
    BY <1>2, <1>8, <2>4 DEF Advanced
<1>9. CASE i = 4 \/ (i = 3 /\ pt[e]["share"] = None)
  <2>1. 5 \in rest /\ \A k \in rest : 5 <= k
    BY <1>1, <1>3, <1>9, WalkIs
  <2>2. least = 5 /\ rest # {}
    BY <1>3, <2>1
  <2>3. idx' = [idx EXCEPT ![e] = 5] /\ pc' = [pc EXCEPT ![e] = "walk"]
    BY <1>4, <2>2
  <2>4. /\ pc' \in [Env -> Pc] /\ idx' \in [Env -> 1 .. Len(Walk)]
        /\ pc'[e] = "walk" /\ idx'[e] = 5
        /\ \A f \in Env : f # e => pc'[f] = pc[f] /\ idx'[f] = idx[f]
    BY <1>6, <2>3
  <2> QED
    BY <1>2, <1>9, <2>4 DEF Advanced
<1>10. CASE i = 5
  <2>1. rest = {}
    BY <1>3, <1>10
  <2>3. idx' = [idx EXCEPT ![e] = 1] /\ pc' = [pc EXCEPT ![e] = "kidxstack"]
    BY <1>4, <2>1
  <2>4. /\ pc' \in [Env -> Pc] /\ idx' \in [Env -> 1 .. Len(Walk)]
        /\ pc'[e] = "kidxstack" /\ idx'[e] = 1
        /\ \A f \in Env : f # e => pc'[f] = pc[f] /\ idx'[f] = idx[f]
    BY <1>6, <2>3
  <2> QED
    BY <1>2, <1>10, <2>4 DEF Advanced
<1> QED
  BY <1>7, <1>8, <1>9, <1>10

\* The pages of a program never trade places.
LEMMA PageKind ==
    ASSUME Safe, NEW f \in Env, NEW v \in {"text", "data", "share", "stack"}, pt[f][v] # None
    PROVE  pt[f][v].pg[2] = v
<1>1. v \in VA /\ Mapping(f, v)
  BY VAIs DEF Safe, Bookkeeping, Local
<1>2. <<Root, "share", 0>>[2] = "share"
  OBVIOUS
<1> QED
  BY <1>1, <1>2 DEF Mapping, Rights

\* What e has in hand when it is at a page of the walk.
LEMMA WalkFacts ==
    ASSUME Safe, NEW e \in Env, status[e] = "RUNNABLE", pc[e] \in {"walk", "remap"}
    PROVE  /\ kid[e] \in Env /\ kid[e] # e /\ idx[e] \in 2 .. 5 /\ upcall[e]
           /\ Walk[idx[e]] \in {"text", "data", "share", "stack"}
           /\ pt[e][Walk[idx[e]]] # None
           /\ pc[e] = "remap" => Walk[idx[e]] \in {"data", "stack"}
           /\ pc[e] = "walk" => Copied(pt[kid[e]], idx[e])
           /\ pc[e] = "remap" => Copied(pt[kid[e]], idx[e] + 1)
<1>1. kid[e] \in Env /\ kid[e] # e
  BY DEF Safe, TypeOK, Bookkeeping, Local, Family
<1>2. Walked(e) /\ idx[e] \in 1 .. 5 /\ upcall[e]
  BY WalkIs DEF Safe, TypeOK, Bookkeeping, Local, Ready, Forking
<1>3. idx[e] \in 2 .. 5 /\ pt[e][Walk[idx[e]]] # None
  BY <1>2 DEF Walked
<1>4. Walk[idx[e]] \in {"text", "data", "share", "stack"}
  BY <1>3, WalkIs
<1> QED
  BY <1>1, <1>2, <1>3, <1>4 DEF Walked

\* The environment after NextPage.
LEMMA AdvancedLocal ==
    ASSUME Safe, NEW e \in Env, status[e] = "RUNNABLE", pc[e] \in {"walk", "remap"},
           hpc[e] = "none", Advanced(e), status' = status, upcall' = upcall,
           handler' = handler, kid' = kid, hpc' = hpc, hva' = hva,
           \A v \in VA : pt[e][v] # None => pt'[e][v] # None,
           pt'[e]["pftemp"] = pt[e]["pftemp"], \A v \in VA : Mapping(e, v)',
           Copied(pt'[kid[e]], idx[e] + 1)
    PROVE  Local(e)'
<1>1. Local(e)
  BY DEF Safe, Bookkeeping
<1>2. pc'[e] \in {"walk", "kidxstack"} /\ kid[e] # None /\ upcall[e]
  BY WalkFacts, ForkAssumption DEF Advanced
<1>3. Family(e)'
  BY <1>1, <1>2 DEF Local, Family
<1>4. Ready(e)'
  BY <1>1, <1>2, VAIs DEF Local, Ready
<1>5. Handling(e)'
  BY <1>1 DEF Local, Handling
<1>6. Walked(e)'
  <2>1. pt'[e]["data"] # None /\ pt'[e]["stack"] # None
    BY <1>1, VAIs DEF Local, Ready
  <2>2. idx[e] \in 2 .. 5 /\ idx[e] + 1 \in 1 .. 6
    BY WalkFacts
  <2>3. CASE pc'[e] = "walk"
    <3>1. idx'[e] \in 3 .. 5 /\ pt'[e][Walk[idx'[e]]] # None
      BY <1>2, <2>1, <2>2, <2>3, WalkIs, VAIs DEF Advanced
    <3>2. Copied(pt'[kid[e]], idx'[e])
      BY <2>2, <2>3, <3>1, CopiedIs DEF Advanced
    <3> QED
      BY <2>3, <3>1, <3>2 DEF Walked
  <2>4. CASE pc'[e] = "kidxstack"
    <3>1. idx[e] = 5
      BY <2>2, <2>4 DEF Advanced
    <3>2. pt'[kid[e]]["data"] # None /\ pt'[kid[e]]["stack"] # None
      BY <2>2, <3>1, CopiedIs
    <3> QED
      BY <2>4, <3>2 DEF Walked
  <2> QED
    BY <1>2, <2>3, <2>4
<1> QED
  BY <1>3, <1>4, <1>5, <1>6 DEF Local

LEMMA DuppageOwnSafe ==
    ASSUME Safe, NEW e \in Env, DuppageOwn(e)
    PROVE  Safe'
<1>1. status[e] = "RUNNABLE" /\ pc[e] = "remap" /\ hpc[e] = "none" /\ NextPage(e)
  BY DEF DuppageOwn, At, Running
<1>2. PICK v \in {"data", "stack"} : v = Walk[idx[e]]
  BY <1>1, WalkFacts
<1>3. v \in VA /\ pt[e][v] # None /\ idx[e] > 1
  BY <1>1, <1>2, WalkFacts, VAIs
<1>4. PICK p, t : p = pt[e][v].pg /\ t = Pte(p, FALSE, TRUE, FALSE)
  OBVIOUS
<1>5. /\ PageInsert(e, e, v, t) /\ status' = status /\ upcall' = upcall /\ parent' = parent
      /\ handler' = handler /\ kid' = kid /\ hpc' = hpc /\ hva' = hva
  BY <1>2, <1>4 DEF DuppageOwn, SysPageMap, envs
<1>6. t \in Entry /\ t # None /\ t.pg = pt[e][v].pg /\ ~t.w /\ t.cow /\ ~t.sh
  <2>1. p \in Page
    BY <1>3, <1>4, EntryFacts DEF Safe
  <2> QED
    BY ZenonT(60), <1>4, <2>1, PteFacts
<1>7. Inserted(e, e, v, t)
  BY <1>3, <1>5, <1>6, InsertFacts DEF Safe
<1>8. Advanced(e)
  BY <1>1, <1>3, NextPageFacts
<1>9. /\ pt'[e][v] = t /\ \A u \in VA : u # v => pt'[e][u] = pt[e][u]
      /\ \A f \in Env : f # e => pt'[f] = pt[f]
  BY <1>7 DEF Inserted
<1>10. Local(e)'
  <2>1. \A u \in VA : Mapping(e, u)'
    <3>1. t.pg[2] = v
      BY <1>3, <1>6, PageKind
    <3>2. \A u \in VA : Mapping(e, u)
      BY DEF Safe, Bookkeeping, Local
    <3> QED
      BY <1>5, <1>6, <1>9, <3>1, <3>2 DEF Mapping, Rights
  <2>2. Copied(pt'[kid[e]], idx[e] + 1)
    BY <1>1, <1>9, WalkFacts
  <2>3. /\ \A u \in VA : pt[e][u] # None => pt'[e][u] # None
        /\ pt'[e]["pftemp"] = pt[e]["pftemp"]
    BY <1>6, <1>9, VAIs
  <2> QED
    BY <1>1, <1>5, <1>8, <2>1, <2>2, <2>3, AdvancedLocal
<1>11. Fresh(e, v, t) /\ Excused(e, v, t)
  <2>1. Fresh(e, v, t)
    BY <1>6 DEF Fresh
  <2>2. ASSUME NEW f \in Env, NEW u \in {"data", "stack"}, f # e \/ u # v, pt[f][u] # None,
               pt[f][u].w, pt[f][u].pg = t.pg
        PROVE  FALSE
    BY <1>1, <1>3, <1>6, <2>2, OneWriter
  <2> QED
    BY <2>1, <2>2 DEF Excused
<1>12. Steady(e)
  BY <1>2, <1>6, <1>9 DEF Steady
<1>13. /\ pc' \in [Env -> Pc] /\ idx' \in [Env -> 1 .. Len(Walk)]
       /\ \A f \in Env : f # e => pc'[f] = pc[f] /\ idx'[f] = idx[f]
  BY <1>8 DEF Advanced
<1> QED
  BY <1>1, <1>3, <1>5, <1>6, <1>7, <1>10, <1>11, <1>12, <1>13, InsertSafe DEF Safe, TypeOK

\* duppage() on a page that is neither private nor shared, or is shared: mapped
\* for the child as it is, or not at all for want of a page table.
LEMMA DuppagePlainSafe ==
    ASSUME Safe, NEW e \in Env, status[e] = "RUNNABLE", pc[e] = "walk", hpc[e] = "none",
           NEW c \in Env, c = kid[e], NEW v \in VA, v = Walk[idx[e]],
           NEW own, own = pt[e][v], own.sh \/ ~(own.w \/ own.cow),
           SysPageMap(e, e, v, c, v, own.sh, own.sh, own.sh) \/ UNCHANGED memory,
           NextPage(e), status' = status, upcall' = upcall, parent' = parent,
           handler' = handler, kid' = kid, hpc' = hpc, hva' = hva
    PROVE  Safe'
<1>1. /\ own # None /\ c # e /\ idx[e] \in 2 .. 5 /\ Copied(pt[c], idx[e])
      /\ v \in {"text", "data", "share", "stack"}
  BY SMTT(60), WalkFacts
<1>2. v \in {"text", "share"} /\ (v = "share" <=> own.sh) /\ own.pg[2] = v
  <2>1. Mapping(e, v)
    BY DEF Safe, Bookkeeping, Local
  <2> QED
    BY <1>1, <2>1, PageKind DEF Mapping, Rights
<1>3. Advanced(e)
  BY <1>1, NextPageFacts
<1>4. /\ pc' \in [Env -> Pc] /\ idx' \in [Env -> 1 .. Len(Walk)]
      /\ \A f \in Env : f # e => pc'[f] = pc[f] /\ idx'[f] = idx[f]
  BY <1>3 DEF Advanced
<1>5. Steady(e)
  BY DEF Steady
<1>6. ASSUME NEW T, \A u \in VA : u # v => T[u] = pt[c][u]
      PROVE  Copied(T, idx[e] + 1)
  <2>1. idx[e] \in 1 .. 6 /\ idx[e] + 1 \in 1 .. 6
    BY <1>1
  <2>2. (idx[e] = 2 /\ v = "text") \/ (idx[e] = 4 /\ v = "share")
    BY <1>1, <1>2, WalkIs
  <2> QED
    BY <1>1, <1>6, <2>1, <2>2, CopiedIs, VAIs
<1>7. CASE UNCHANGED memory
  <2>1. data' = data /\ pt' = pt /\ others' = others /\ tlb' = tlb
    BY <1>7 DEF memory
  <2>2. TypeOK' /\ TlbCoherent'
    BY <1>4, <2>1 DEF Safe, TypeOK, TlbCoherent
  <2>3. Local(e)'
    <3>1. \A u \in VA : Mapping(e, u)'
      BY <2>1 DEF Safe, Bookkeeping, Local, Mapping
    <3>2. Copied(pt'[kid[e]], idx[e] + 1)
      BY <1>6, <2>1
    <3> QED
      BY <1>3, <2>1, <3>1, <3>2, AdvancedLocal
  <2> QED
    BY <1>4, <1>5, <2>1, <2>2, <2>3, QuietMove
<1>8. CASE SysPageMap(e, e, v, c, v, own.sh, own.sh, own.sh)
  <2>1. PICK t : t = Pte(own.pg, own.sh, own.sh, own.sh)
    OBVIOUS
  <2>2. PageInsert(e, c, v, t)
    BY <1>8, <2>1 DEF SysPageMap
  <2>3. own.pg \in Page /\ own.sh \in BOOLEAN
    BY <1>1, EntryFacts DEF Safe
  <2>4. t \in Entry /\ t # None /\ t.pg = own.pg /\ (t.w <=> own.sh) /\ (t.sh <=> own.sh)
        /\ (t.cow <=> own.sh)
    <3>1. PICK p \in Page : p = own.pg
      BY <2>3
    <3>2. CASE own.sh = TRUE
      <4>1. t = Pte(p, TRUE, TRUE, TRUE)
        BY <2>1, <3>1, <3>2
      <4>2. t \in Entry /\ t # None /\ t.pg = p /\ t.w /\ t.cow /\ t.sh
        BY <4>1, PteFacts
      <4> QED
        BY SMTT(60), <3>1, <3>2, <4>2
    <3>3. CASE own.sh = FALSE
      <4>1. t = Pte(p, FALSE, FALSE, FALSE)
        BY <2>1, <3>1, <3>3
      <4>2. t \in Entry /\ t # None /\ t.pg = p /\ ~t.w /\ ~t.cow /\ ~t.sh
        BY <4>1, PteFacts
      <4> QED
        BY <3>1, <3>3, <4>2
    <3> QED
      BY <2>3, <3>2, <3>3
  <2>5. Inserted(e, c, v, t)
    BY <2>2, <2>4, InsertFacts DEF Safe
  <2>6. /\ pt'[c][v] = t /\ \A u \in VA : u # v => pt'[c][u] = pt[c][u]
        /\ \A f \in Env : f # c => pt'[f] = pt[f]
    BY <2>5 DEF Inserted
  <2>7. Local(e)'
    <3>1. \A u \in VA : Mapping(e, u)'
      BY <1>1, <2>6 DEF Safe, Bookkeeping, Local, Mapping
    <3>2. Copied(pt'[kid[e]], idx[e] + 1)
      BY <1>6, <2>6
    <3> QED
      BY <1>1, <1>3, <2>6, <3>1, <3>2, AdvancedLocal
  <2>8. Local(c)'
    <3>1. Mapping(e, v)
      BY DEF Safe, Bookkeeping, Local
    <3>2. Rights(c, v, t, hva[c])
      BY <1>1, <1>2, <2>4, <3>1 DEF Mapping, Rights
    <3> QED
      BY SMTT(60), <1>1, <1>2, <1>4, <2>4, <2>5, <3>2, KidKeeps
  <2>9. Fresh(c, v, t) /\ Excused(c, v, t)
    <3>1. Fresh(c, v, t)
      BY <1>2 DEF Fresh
    <3>2. ASSUME NEW f \in Env, NEW u \in {"data", "stack"}, pt[f][u] # None
          PROVE  pt[f][u].pg # t.pg
      BY <1>2, <2>4, <3>2, PageKind
    <3> QED
      BY <3>1, <3>2 DEF Excused
  <2> QED
    BY <1>4, <1>5, <2>4, <2>5, <2>7, <2>8, <2>9, InsertSafe DEF Safe, TypeOK
<1> QED
  BY <1>7, <1>8

LEMMA DuppageSafe ==
    ASSUME Safe, NEW e \in Env, Duppage(e)
    PROVE  Safe'
<1>1. Running(e) /\ status[e] = "RUNNABLE" /\ pc[e] = "walk" /\ hpc[e] = "none"
  BY DEF Duppage, At, Running
<1>2. PICK c \in Env : c = kid[e] /\ c # e
  BY <1>1, WalkFacts
<1>3. PICK v \in VA : v = Walk[idx[e]] /\ v \in {"text", "data", "share", "stack"}
  BY <1>1, WalkFacts, VAIs
<1>4. PICK own : own = pt[e][v]
  OBVIOUS
<1>5. own # None /\ idx[e] \in 2 .. 5 /\ Copied(pt[c], idx[e])
  BY <1>1, <1>2, <1>3, <1>4, WalkFacts
<1>6. CASE Panic(e)
  BY <1>1, <1>6, PanicSafe
<1>7. CASE /\ own.sh \/ ~(own.w \/ own.cow)
           /\ SysPageMap(e, e, v, c, v, own.sh, own.sh, own.sh) \/ UNCHANGED memory
           /\ NextPage(e) /\ UNCHANGED <<envs, handler, kid, hpc, hva>>
  <2>1. /\ status' = status /\ upcall' = upcall /\ parent' = parent
        /\ handler' = handler /\ kid' = kid /\ hpc' = hpc /\ hva' = hva
    BY <1>7 DEF envs
  <2> QED
    BY <1>1, <1>2, <1>3, <1>4, <1>7, <2>1, DuppagePlainSafe
<1>8. CASE /\ ~own.sh /\ (own.w \/ own.cow)
           /\ SysPageMap(e, e, v, c, v, FALSE, TRUE, FALSE)
           /\ Goto(e, "remap") /\ UNCHANGED <<envs, handler, idx, kid, hpc, hva>>
  <2>1. PICK t : t = Pte(own.pg, FALSE, TRUE, FALSE)
    OBVIOUS
  <2>2. /\ PageInsert(e, c, v, t) /\ pc' = [pc EXCEPT ![e] = "remap"] /\ status' = status
        /\ upcall' = upcall /\ parent' = parent /\ handler' = handler /\ idx' = idx
        /\ kid' = kid /\ hpc' = hpc /\ hva' = hva
    BY <1>4, <1>8, <2>1 DEF SysPageMap, Goto, envs
  <2>3. own.pg \in Page
    BY <1>4, <1>5, EntryFacts DEF Safe
  <2>4. t \in Entry /\ t # None /\ t.pg = own.pg /\ ~t.w /\ t.cow /\ ~t.sh
    BY ZenonT(60), <2>1, <2>3, PteFacts
  <2>5. Inserted(e, c, v, t)
    BY <2>2, <2>4, InsertFacts DEF Safe
  <2>6. /\ pt'[c][v] = t /\ \A u \in VA : u # v => pt'[c][u] = pt[c][u]
        /\ pt'[e] = pt[e]
    BY <1>2, <2>5 DEF Inserted
  <2>7. v \in {"data", "stack"} /\ own.pg[2] = v
    <3>1. Mapping(e, v)
      BY DEF Safe, Bookkeeping, Local
    <3> QED
      BY <1>3, <1>4, <1>5, <1>8, <3>1 DEF Mapping, Rights
  <2>8. pc' \in [Env -> Pc] /\ pc'[e] = "remap" /\ \A f \in Env : f # e => pc'[f] = pc[f]
    BY <2>2 DEF Safe, TypeOK, Pc, Forking
  <2>9. Local(e)'
    <3>1. Local(e)
      BY DEF Safe, Bookkeeping
    <3>2. Family(e)'
      BY <1>1, <2>2, <2>8, <3>1 DEF Local, Family
    <3>3. Ready(e)'
      BY <1>1, <2>2, <2>6, <2>8, <3>1 DEF Local, Ready, Forking
    <3>4. Handling(e)'
      BY <2>2, <2>6, <3>1 DEF Local, Handling
    <3>5. Copied(pt'[c], idx[e] + 1)
      <4>1. idx[e] \in 1 .. 6 /\ idx[e] + 1 \in 1 .. 6
        BY <1>5
      <4>2. (idx[e] = 3 /\ v = "data") \/ (idx[e] = 5 /\ v = "stack")
        BY <1>3, <1>5, <2>7, WalkIs
      <4> QED
        BY <1>5, <2>4, <2>6, <4>1, <4>2, CopiedIs, VAIs
    <3>6. Walked(e)'
      BY <1>2, <1>3, <1>4, <1>5, <2>2, <2>6, <2>7, <2>8, <3>5 DEF Walked
    <3>7. \A u \in VA : Mapping(e, u)'
      BY <2>2, <2>6, <3>1 DEF Local, Mapping
    <3> QED
      BY <3>2, <3>3, <3>4, <3>6, <3>7 DEF Local
  <2>10. Local(c)'
    <3>1. Rights(c, v, t, hva[c])
      BY <2>4, <2>7 DEF Rights
    <3> QED
      BY <1>2, <2>2, <2>4, <2>5, <2>7, <2>8, <3>1, KidKeeps
  <2>11. Fresh(c, v, t) /\ Excused(c, v, t)
    <3>1. Fresh(c, v, t)
      BY <2>4 DEF Fresh
    <3>2. ASSUME NEW f \in Env, NEW u \in {"data", "stack"}, pt[f][u] # None, pt[f][u].w,
                 pt[f][u].pg = t.pg
          PROVE  c = kid'[f] /\ v = u /\ pc'[f] = "remap" /\ Walk[idx'[f]] = u
      <4>1. f = e /\ u = v
        BY <1>1, <1>4, <1>5, <2>4, <3>2, OneWriter
      <4> QED
        BY <1>2, <1>3, <2>2, <2>8, <4>1
    <3> QED
      BY <3>1, <3>2 DEF Excused
  <2>12. Steady(e)
    BY <1>1 DEF Steady
  <2> QED
    BY <1>1, <1>2, <2>2, <2>4, <2>5, <2>8, <2>9, <2>10, <2>11, <2>12, InsertSafe
       DEF Safe, TypeOK
<1> QED
  <2>1. kid[e] = c /\ Walk[idx[e]] = v /\ pt[e][Walk[idx[e]]] = own
    BY <1>2, <1>3, <1>4
  <2> QED
    BY <1>6, <1>7, <1>8, <2>1 DEF Duppage

----------------------------------------------------------------------------
(* The copy, and the child's birth *)

\* Lines 47 and 48 of pgfault(): the page at PFTEMP goes, its contents stay.
LEMMA CopyFacts ==
    ASSUME Safe, NEW e \in Env, PgfaultCopy(e), NEW v \in VA, v = hva[e]
    PROVE  /\ v \in {"data", "stack"} /\ pt[e][v] # None /\ pt[e][v].w
           /\ pt[e]["pftemp"] # None /\ pt[e]["pftemp"].pg # pt[e][v].pg
           /\ pt' \in [Env -> [VA -> Entry \cup {None}]] /\ data' \in [Mapped(pt') -> Value]
           /\ pt'[e]["pftemp"] = None /\ \A u \in VA : u # "pftemp" => pt'[e][u] = pt[e][u]
           /\ \A f \in Env : f # e => pt'[f] = pt[f]
           /\ \A p \in Mapped(pt') :
                 /\ p \in DOMAIN data
                 /\ data'[p] = IF p = pt[e][v].pg THEN data[pt[e]["pftemp"].pg] ELSE data[p]
<1> DEFINE new == [data EXCEPT ![pt[e][v].pg] = data[pt[e]["pftemp"].pg]]
<1>1. /\ pt' = [pt EXCEPT ![e]["pftemp"] = None]
      /\ data' = [p \in Mapped(pt') |-> IF p \in DOMAIN data THEN new[p] ELSE 0]
      /\ status[e] = "RUNNABLE" /\ hpc[e] = "copy"
  BY DEF PgfaultCopy, Memory, Running
<1>2. /\ v \in {"data", "stack"} /\ pt[e][v].w /\ pt[e]["pftemp"] # None /\ pt[e][v] # None
  BY <1>1 DEF Safe, Bookkeeping, Local, Handling, Ready
<1>3. pt[e]["pftemp"].pg # pt[e][v].pg
  BY <1>1, <1>2, OneWriter, VAIs
<1>4. pt' \in [Env -> [VA -> Entry \cup {None}]]
  BY <1>1, VAIs DEF Safe, TypeOK
<1>5. /\ pt'[e]["pftemp"] = None /\ \A u \in VA : u # "pftemp" => pt'[e][u] = pt[e][u]
      /\ \A f \in Env : f # e => pt'[f] = pt[f]
  BY <1>1, VAIs DEF Safe, TypeOK
<1>6. ASSUME NEW p \in Mapped(pt') PROVE p \in DOMAIN data
  <2>1. PICK f \in Env, u \in VA : pt'[f][u] # None /\ pt'[f][u].pg = p
    BY MappedBy
  <2>2. pt[f][u] # None /\ pt[f][u].pg = p
    BY <1>5, <2>1
  <2> QED
    BY <2>2, EntryFacts DEF Safe
<1>7. \A p \in DOMAIN data :
         new[p] = IF p = pt[e][v].pg THEN data[pt[e]["pftemp"].pg] ELSE data[p]
  BY DEF Safe, TypeOK
<1>8. \A p \in DOMAIN data : data[p] \in Value
  BY DEF Safe, TypeOK
<1>9. pt[e]["pftemp"].pg \in DOMAIN data
  BY <1>2, EntryFacts, VAIs DEF Safe
<1> HIDE DEF new
<1>10. \A p \in Mapped(pt') :
          data'[p] = IF p = pt[e][v].pg THEN data[pt[e]["pftemp"].pg] ELSE data[p]
  BY <1>1, <1>6, <1>7
<1>11. data' \in [Mapped(pt') -> Value]
  <2>1. \A p \in Mapped(pt') : data'[p] \in Value
    BY <1>6, <1>8, <1>9, <1>10
  <2> QED
    BY <1>1, <2>1
<1> QED
  BY <1>2, <1>3, <1>4, <1>5, <1>6, <1>10, <1>11

LEMMA PgfaultCopySafe ==
    ASSUME Safe, NEW e \in Env, PgfaultCopy(e)
    PROVE  Safe'
<1>1. PICK v \in VA : v = hva[e]
  BY DEF Safe, TypeOK
<1>2. /\ v \in {"data", "stack"} /\ pt' \in [Env -> [VA -> Entry \cup {None}]]
      /\ data' \in [Mapped(pt') -> Value]
      /\ pt'[e]["pftemp"] = None /\ \A u \in VA : u # "pftemp" => pt'[e][u] = pt[e][u]
      /\ \A f \in Env : f # e => pt'[f] = pt[f]
  BY <1>1, CopyFacts
<1>3. /\ status[e] = "RUNNABLE" /\ hpc[e] = "copy" /\ others' = others
      /\ tlb' = [tlb EXCEPT ![e] = pt'[e]] /\ hpc' = [hpc EXCEPT ![e] = "ret"]
      /\ status' = status /\ upcall' = upcall /\ parent' = parent /\ handler' = handler
      /\ pc' = pc /\ idx' = idx /\ kid' = kid /\ hva' = hva
  BY DEF PgfaultCopy, Memory, Running, envs
<1>4. TypeOK'
  <2>1. tlb' \in [Env -> [VA -> Entry \cup {None}]]
    BY <1>2, <1>3 DEF Safe, TypeOK
  <2>2. hpc' \in [Env -> HandlerPc]
    BY <1>3 DEF Safe, TypeOK, HandlerPc
  <2> QED
    BY <1>2, <1>3, <2>1, <2>2 DEF Safe, TypeOK
<1>5. TlbCoherent'
  BY <1>2, <1>3 DEF Safe, TypeOK, TlbCoherent
<1>6. hpc'[e] = "ret" /\ \A f \in Env : f # e => hpc'[f] = hpc[f]
  BY <1>3 DEF Safe, TypeOK
<1>7. ASSUME NEW f \in Env, f # e PROVE Same(f)
  BY <1>2, <1>3, <1>6, <1>7 DEF Same
<1>8. ASSUME NEW f \in Env, f # e PROVE Local(f)'
  BY <1>3, <1>7, <1>8, Children, Frame DEF Safe, Bookkeeping
<1>9. Local(e)'
  <2>1. Local(e)
    BY DEF Safe, Bookkeeping
  <2>2. Family(e)'
    BY <1>3, <2>1 DEF Local, Family
  <2>3. Ready(e)'
    BY <1>2, <1>3, <2>1, VAIs DEF Local, Ready
  <2>4. Handling(e)'
    BY <1>1, <1>2, <1>3, <1>6 DEF Handling
  <2>5. Walked(e)'
    <3>1. pc[e] \in {"walk", "remap"} => pt'[e][Walk[idx[e]]] = pt[e][Walk[idx[e]]]
      BY <1>2, <1>3, WalkFacts, VAIs
    <3>2. pc[e] \in {"walk", "remap", "kidxstack", "kidstatus"} => pt'[kid[e]] = pt[kid[e]]
      BY <1>2, <1>3, <2>1 DEF Local, Family, Safe, TypeOK
    <3> QED
      BY <1>3, <2>1, <3>1, <3>2 DEF Local, Walked
  <2>6. \A u \in VA : Mapping(e, u)'
    BY <1>2, <1>3, <2>1 DEF Local, Mapping
  <2> QED
    BY <2>2, <2>3, <2>4, <2>5, <2>6 DEF Local
<1>10. ASSUME NEW f \in Env, NEW u \in {"data", "stack"} PROVE Exclusive(f, u)'
  <2>1. \A g \in Env, w \in VA : pt'[g][w] = pt[g][w] \/ pt'[g][w] = None
    BY <1>2
  <2>2. Steady(f)
    BY <1>3 DEF Steady
  <2> QED
    BY <2>1, <2>2, ExclusiveKept
<1>11. OneParent'
  BY <1>3 DEF Safe, Bookkeeping, OneParent
<1> QED
  BY <1>4, <1>5, <1>8, <1>9, <1>10, <1>11 DEF Safe, Bookkeeping

LEMMA SysExoforkSafe ==
    ASSUME Safe, NEW e \in Env, SysExofork(e)
    PROVE  Safe'
<1>1. /\ Running(e) /\ status[e] = "RUNNABLE" /\ pc[e] = "exofork" /\ hpc[e] = "none"
      /\ pt[e]["text"] # None
  BY DEF SysExofork, At, Running
<1>2. CASE Panic(e)
  BY <1>1, <1>2, PanicSafe
<1>3. CASE ~Panic(e)
  <2> DEFINE least == CHOOSE j \in Ahead(e, 1) : \A k \in Ahead(e, 1) : j <= k
  <2>1. PICK c \in Env :
           /\ status[c] = "FREE"
           /\ status' = [status EXCEPT ![c] = "NOT_RUNNABLE"]
           /\ upcall' = [upcall EXCEPT ![c] = FALSE]
           /\ parent' = [parent EXCEPT ![c] = e]
           /\ handler' = [handler EXCEPT ![c] = handler[e]]
           /\ pc' = [pc EXCEPT ![e] = "walk", ![c] = "child"]
           /\ kid' = [kid EXCEPT ![e] = c]
    BY <1>3 DEF SysExofork
  <2>2. /\ tlb' = [tlb EXCEPT ![e] = pt[e]] /\ idx' = [idx EXCEPT ![e] = least]
        /\ data' = data /\ pt' = pt /\ others' = others /\ hpc' = hpc /\ hva' = hva
    BY <1>3 DEF SysExofork
  <2>3. least = 2
    <3>1. pt[e]["pftemp"] = None
      BY <1>1 DEF Safe, Bookkeeping, Local, Handling
    <3>2. Ahead(e, 1) = {j \in 1 .. 5 : pt[e][Walk[j]] # None}
      BY WalkIs DEF Ahead
    <3>3. 2 \in Ahead(e, 1) /\ \A k \in Ahead(e, 1) : 2 <= k
      BY <1>1, <3>1, <3>2, WalkIs
    <3> QED
      BY <3>2, <3>3
  <2>4. /\ c # e /\ kid[e] = None /\ pt[c] = Unmapped /\ hpc[c] = "none" /\ kid[c] = None
        /\ \A f \in Env : kid[f] # c
    BY <1>1, <2>1, ForkAssumption DEF Safe, Bookkeeping, Local, Family
  <2>5. TypeOK'
    <3>1. /\ status' \in [Env -> {"FREE", "NOT_RUNNABLE", "RUNNABLE"}]
          /\ parent' \in [Env -> Env \cup {None}] /\ kid' \in [Env -> Env \cup {None}]
      BY <2>1 DEF Safe, TypeOK
    <3>2. upcall' \in [Env -> BOOLEAN] /\ handler' \in [Env -> BOOLEAN]
      BY <2>1 DEF Safe, TypeOK
    <3>3. pc' \in [Env -> Pc] /\ tlb' \in [Env -> [VA -> Entry \cup {None}]]
      BY <2>1, <2>2 DEF Safe, TypeOK, Pc, Forking
    <3>4. idx' \in [Env -> 1 .. Len(Walk)]
      BY <2>2, <2>3, WalkIs DEF Safe, TypeOK
    <3> QED
      BY <2>2, <3>1, <3>2, <3>3, <3>4 DEF Safe, TypeOK
  <2>6. TlbCoherent'
    BY <2>1, <2>2 DEF Safe, TypeOK, TlbCoherent
  <2>7. /\ status'[e] = "RUNNABLE" /\ pc'[e] = "walk" /\ kid'[e] = c /\ idx'[e] = 2
        /\ upcall'[e] = upcall[e] /\ handler'[e] = handler[e]
        /\ status'[c] = "NOT_RUNNABLE" /\ pc'[c] = "child" /\ kid'[c] = None /\ ~upcall'[c]
    <3>1. upcall'[e] = upcall[e] /\ handler'[e] = handler[e] /\ ~upcall'[c]
      BY <2>1, <2>4 DEF Safe, TypeOK
    <3>2. /\ status'[e] = "RUNNABLE" /\ pc'[e] = "walk" /\ kid'[e] = c /\ idx'[e] = 2
          /\ status'[c] = "NOT_RUNNABLE" /\ pc'[c] = "child" /\ kid'[c] = None
      BY <1>1, <2>1, <2>2, <2>3, <2>4 DEF Safe, TypeOK
    <3> QED
      BY <3>1, <3>2
  <2>8. ASSUME NEW f \in Env, f # e, f # c PROVE Same(f)
    <3>1. upcall'[f] = upcall[f] /\ handler'[f] = handler[f]
      BY <2>1, <2>8 DEF Safe, TypeOK
    <3> QED
      BY <2>1, <2>2, <2>8, <3>1 DEF Safe, TypeOK, Same
  <2>9. ASSUME NEW f \in Env, f # e, f # c PROVE Local(f)'
    <3>1. kid[f] # None => kid[f] \in Env /\ kid[f] # e /\ kid[f] # c
      BY <1>1, <2>4, <2>9, Children
    <3> QED
      BY <2>8, <2>9, <3>1, Frame DEF Safe, Bookkeeping
  <2>10. Local(c)'
    <3>1. Local(c) /\ \A u \in VA : Unmapped[u] = None
      BY DEF Safe, Bookkeeping, Unmapped
    <3> QED
      BY <2>2, <2>4, <2>7, <3>1, VAIs DEF Local, Family, Ready, Handling, Walked, Mapping
  <2>11. Local(e)'
    <3>1. Local(e)
      BY DEF Safe, Bookkeeping
    <3>2. Family(e)'
      BY <2>7, ForkAssumption DEF Family
    <3>3. Ready(e)'
      BY <1>1, <2>2, <2>7, <3>1 DEF Local, Ready, Forking
    <3>4. Handling(e)'
      BY <1>1, <2>2, <2>7, <3>1 DEF Local, Handling
    <3>5. Walked(e)'
      <4>1. Copied(pt'[c], 2)
        <5>1. 2 \in 1 .. 6 /\ \A u \in VA : Unmapped[u] = None
          BY DEF Unmapped
        <5> QED
          BY <2>2, <2>4, <5>1, CopiedIs, VAIs
      <4>2. pt'[e][Walk[2]] # None
        BY <1>1, <2>2, WalkIs
      <4> QED
        BY <2>7, <4>1, <4>2 DEF Walked
    <3>6. \A u \in VA : Mapping(e, u)'
      BY <2>2, <3>1 DEF Local, Mapping
    <3> QED
      BY <3>2, <3>3, <3>4, <3>5, <3>6 DEF Local
  <2>12. ASSUME NEW f \in Env, NEW u \in {"data", "stack"} PROVE Exclusive(f, u)'
    <3>1. Steady(f)
      <4>1. CASE f = e \/ f = c
        BY <2>4, <4>1 DEF Steady
      <4>2. CASE f # e /\ f # c
        BY <2>8, <4>2 DEF Steady, Same
      <4> QED
        BY <4>1, <4>2
    <3> QED
      BY <2>2, <3>1, ExclusiveKept
  <2>13. OneParent'
    BY <2>1, <2>4 DEF Safe, TypeOK, Bookkeeping, OneParent
  <2> QED
    BY <2>5, <2>6, <2>9, <2>10, <2>11, <2>12, <2>13 DEF Safe, Bookkeeping
<1> QED
  BY <1>2, <1>3

LEMMA KidStatusSafe ==
    ASSUME Safe, NEW e \in Env, KidStatus(e)
    PROVE  Safe'
<1>1. status[e] = "RUNNABLE" /\ pc[e] = "kidstatus" /\ hpc[e] = "none"
  BY DEF KidStatus, At, Running
<1>2. PICK c \in Env : c = kid[e] /\ c # e /\ status[c] = "NOT_RUNNABLE"
  BY <1>1 DEF Safe, TypeOK, Bookkeeping, Local, Family
<1>3. /\ status' = [status EXCEPT ![c] = "RUNNABLE"]
      /\ tlb' = [tlb EXCEPT ![e] = pt[e], ![c] = pt[c]]
      /\ kid' = [kid EXCEPT ![e] = None] /\ pc' = [pc EXCEPT ![e] = "user"]
      /\ data' = data /\ pt' = pt /\ others' = others /\ upcall' = upcall /\ parent' = parent
      /\ handler' = handler /\ idx' = idx /\ hpc' = hpc /\ hva' = hva
  BY <1>2 DEF KidStatus, Goto
<1>4. TypeOK'
  <2>1. /\ status' \in [Env -> {"FREE", "NOT_RUNNABLE", "RUNNABLE"}]
        /\ kid' \in [Env -> Env \cup {None}] /\ pc' \in [Env -> Pc]
    BY <1>3 DEF Safe, TypeOK, Pc
  <2>2. tlb' \in [Env -> [VA -> Entry \cup {None}]]
    BY <1>3 DEF Safe, TypeOK
  <2> QED
    BY <1>3, <2>1, <2>2 DEF Safe, TypeOK
<1>5. TlbCoherent'
  BY <1>2, <1>3 DEF Safe, TypeOK, TlbCoherent
<1>6. /\ status'[e] = "RUNNABLE" /\ pc'[e] = "user" /\ kid'[e] = None
      /\ status'[c] = "RUNNABLE" /\ pc'[c] = pc[c] /\ kid'[c] = kid[c]
  BY <1>1, <1>2, <1>3 DEF Safe, TypeOK
<1>7. ASSUME NEW f \in Env, f # e, f # c PROVE Same(f)
  BY <1>3, <1>7 DEF Safe, TypeOK, Same
<1>8. ASSUME NEW f \in Env, f # e, f # c PROVE Local(f)'
  <2>1. kid[f] # None => kid[f] \in Env /\ kid[f] # e /\ kid[f] # c
    BY <1>1, <1>2, <1>8, Children
  <2> QED
    BY <1>7, <1>8, <2>1, Frame DEF Safe, Bookkeeping
<1>9. Local(c)'
  <2>1. /\ Local(c) /\ pc[c] = "child" /\ hpc[c] = "none" /\ kid[c] = None
        /\ pt[c]["pftemp"] = None
    BY <1>2 DEF Safe, Bookkeeping, Local, Family
  <2>2. upcall[c] /\ pt[c]["data"] # None /\ pt[c]["stack"] # None
    BY <1>1, <1>2 DEF Safe, Bookkeeping, Local, Walked
  <2> QED
    BY <1>3, <1>6, <2>1, <2>2 DEF Local, Family, Ready, Handling, Walked, Mapping
<1>10. Local(e)'
  <2>1. Local(e)
    BY DEF Safe, Bookkeeping
  <2> QED
    BY <1>1, <1>3, <1>6, <2>1 DEF Local, Family, Ready, Handling, Walked, Mapping, Forking
<1>11. ASSUME NEW f \in Env, NEW u \in {"data", "stack"} PROVE Exclusive(f, u)'
  <2>1. Steady(f)
    <3>1. CASE f = e
      BY <1>1, <3>1 DEF Steady
    <3>2. CASE f # e
      BY <1>3, <3>2 DEF Steady, Safe, TypeOK
    <3> QED
      BY <3>1, <3>2
  <2> QED
    BY <1>3, <2>1, ExclusiveKept
<1>12. OneParent'
  BY <1>3 DEF Safe, TypeOK, Bookkeeping, OneParent
<1> QED
  BY <1>4, <1>5, <1>8, <1>9, <1>10, <1>11, <1>12 DEF Safe, Bookkeeping

----------------------------------------------------------------------------
(* The theorems *)

LEMMA SafeNext == ASSUME Safe, Next PROVE Safe'
<1>1. CASE OthersExit
  BY <1>1, OthersExitSafe
<1>2. ASSUME NEW e \in Env, UserStore(e) PROVE Safe'
  BY <1>2, StoreSafe
<1>3. ASSUME NEW e \in Env, PageFault(e) PROVE Safe'
  BY <1>3, PageFaultSafe
<1>4. ASSUME NEW e \in Env, FetchFault(e) PROVE Safe'
  BY <1>4, DestroySafe DEF FetchFault
<1>5. ASSUME NEW e \in Env, Pgfault(e) PROVE Safe'
  BY <1>5, PgfaultMapSafe, PgfaultAllocSafe, PgfaultCopySafe, UpcallReturnSafe DEF Pgfault
<1>6. ASSUME NEW e \in Env, CallFork(e) PROVE Safe'
  BY <1>6, CallForkSafe
<1>7. ASSUME NEW e \in Env, ForkStep(e) PROVE Safe'
  BY <1>7, XstackAllocSafe, StoreSafe, SysExoforkSafe, DuppageSafe, DuppageOwnSafe,
     KidXstackSafe, KidStatusSafe DEF ForkStep
<1>8. ASSUME NEW e \in Env, Exit(e) PROVE Safe'
  BY <1>8, DestroySafe DEF Exit, At, Running
<1>9. ASSUME NEW e \in Env, Kill(e) PROVE Safe'
  BY <1>9, DestroySafe DEF Kill
<1> QED
  BY <1>1, <1>2, <1>3, <1>4, <1>5, <1>6, <1>7, <1>8, <1>9 DEF Next

LEMMA SafeStutter == ASSUME Safe, UNCHANGED vars PROVE Safe'
<1>1. /\ data' = data /\ pt' = pt /\ others' = others /\ tlb' = tlb /\ status' = status
      /\ upcall' = upcall /\ parent' = parent /\ handler' = handler /\ pc' = pc /\ idx' = idx
      /\ kid' = kid /\ hpc' = hpc /\ hva' = hva
  BY DEF vars, memory, envs, prog
<1>2. TypeOK' /\ TlbCoherent' /\ OneParent'
  BY <1>1 DEF Safe, TypeOK, TlbCoherent, Bookkeeping, OneParent
<1>3. ASSUME NEW f \in Env PROVE Local(f)'
  BY <1>1 DEF Safe, Bookkeeping, Local, Family, Ready, Handling, Walked, Mapping
<1>4. ASSUME NEW f \in Env, NEW v \in {"data", "stack"} PROVE Exclusive(f, v)'
  BY <1>1 DEF Safe, Bookkeeping, Exclusive
<1> QED
  BY <1>2, <1>3, <1>4 DEF Safe, Bookkeeping

LEMMA AlwaysSafe == Spec => []Safe
<1>1. Safe /\ [Next]_vars => Safe'
  BY SafeNext, SafeStutter
<1> QED
  BY <1>1, SafeInit, PTL DEF Spec

\* However many environments fork, fault, panic and die, in whatever order: a
\* program that runs has its variables and its stack, and an upcall with an
\* exception stack of its own by the time one of them is copy-on-write, so that
\* page_fault_handler (trap.c) never destroys it for a store it may make.
THEOREM StoresAreServed == Spec => []ForkInv
<1>1. Safe => ForkInv
  BY Follows DEF Safe, ForkInv
<1> QED
  BY <1>1, AlwaysSafe, PTL

\* No CPU uses a translation that is gone from the page table, though
\* tlb_invalidate (pmap.c) looks only at its own CPU's environment.
THEOREM NoStaleTranslation == Spec => []TlbCoherent
<1>1. Safe => TlbCoherent
  BY DEF Safe
<1> QED
  BY <1>1, AlwaysSafe, PTL


----------------------------------------------------------------------------
(* Fork implements AddressSpaces.  The steps of a page fault, and of a fork up *)
(* to the moment a page of the child can no longer change, are steps of        *)
(* nobody's address space.  First what the refinement mapping depends on.      *)

Private == {"text", "data", "stack"}

Has(f, u) == pt[f][Source(f, u)] # None
PageOf(f, u) == pt[f][Source(f, u)].pg
Writes(g, w, p) == pt[g][w] # None /\ pt[g][w].w /\ pt[g][w].pg = p

SharePage == <<Root, "share", 0>>

LEMMA ViewsAre ==
    ASSUME NEW f \in Env, NEW u \in Private
    PROVE  views[f][u] = View(f, u) /\ views'[f][u] = View(f, u)'
  BY DEF views, Private

\* The page that f reads for its page u is one that was allocated for that place.
LEMMA ViewPage ==
    ASSUME Safe, NEW f \in Env, NEW u \in Private, Has(f, u)
    PROVE  /\ Source(f, u) \in VA /\ PageOf(f, u)[2] = u /\ PageOf(f, u) # SharePage
           /\ PageOf(f, u) \in DOMAIN data /\ data[PageOf(f, u)] \in Value
           /\ data[PageOf(f, u)] # None
<1>1. Source(f, u) \in VA
  BY VAIs DEF Source, Private
<1>2. PageOf(f, u) \in DOMAIN data
  BY <1>1, EntryFacts DEF Safe, Has, PageOf
<1>3. PageOf(f, u)[2] = u
  <2>1. Mapping(f, Source(f, u))
    BY <1>1 DEF Safe, Bookkeeping, Local
  <2> QED
    BY <2>1 DEF Mapping, Rights, Has, PageOf, Source, Private
<1>4. SharePage[2] = "share"
  BY DEF SharePage
<1>5. data[PageOf(f, u)] \in Value
  BY <1>2 DEF Safe, TypeOK
<1> QED
  BY <1>1, <1>2, <1>3, <1>4, <1>5, ForkAssumption DEF Private

LEMMA SealedIs ==
    ASSUME NEW f, NEW v
    PROVE  Sealed(f, v) <=> \A g \in Env \ {f}, w \in VA : ~Writes(g, w, pt[f][v].pg)
  BY DEF Sealed, Writes

\* A view that a step does not change.
Kept(f, u) ==
    /\ status'[f] = status[f] /\ (Wanted(f)' <=> Wanted(f)) /\ (Has(f, u)' <=> Has(f, u))
    /\ Has(f, u) =>
          /\ PageOf(f, u)' = PageOf(f, u)
          /\ status[f] # "RUNNABLE" =>
                \A g \in Env \ {f}, w \in VA :
                   Writes(g, w, PageOf(f, u))' <=> Writes(g, w, PageOf(f, u))
          /\ Visible(f, u) => data'[PageOf(f, u)] = data[PageOf(f, u)]

LEMMA KeptView ==
    ASSUME NEW f \in Env, NEW u \in Private, Kept(f, u)
    PROVE  View(f, u)' = View(f, u)
<1> PICK p : p = PageOf(f, u)
  OBVIOUS
<1>1. CASE ~Has(f, u)
  BY <1>1 DEF Kept, Has, View, Visible
<1>2. CASE Has(f, u)
  <2>1. /\ PageOf(f, u)' = p /\ Has(f, u)' /\ status'[f] = status[f]
        /\ (Wanted(f)' <=> Wanted(f)) /\ (Visible(f, u) => data'[p] = data[p])
        /\ status[f] # "RUNNABLE" =>
              \A g \in Env \ {f}, w \in VA : Writes(g, w, p)' <=> Writes(g, w, p)
    BY <1>2 DEF Kept
  <2>2. Sealed(f, Source(f, u)) <=> \A g \in Env \ {f}, w \in VA : ~Writes(g, w, p)
    BY DEF Sealed, Writes, PageOf
  <2>3. Sealed(f, Source(f, u))' <=> \A g \in Env \ {f}, w \in VA : ~Writes(g, w, p)'
    BY <2>1 DEF Sealed, Writes, PageOf
  <2>4. Visible(f, u)' <=> Visible(f, u)
    BY <1>2, <2>1, <2>2, <2>3 DEF Visible, Has
  <2> QED
    BY <2>1, <2>4 DEF View, PageOf
<1> QED
  BY <1>1, <1>2

\* Everyone who has the shared page has the same page.
LEMMA CommonIs ==
    Safe => common = IF Sharers = {} THEN None ELSE data[SharePage]
<1> SUFFICES ASSUME Safe, Sharers # {} PROVE common = data[SharePage]
  BY DEF common
<1> DEFINE s == CHOOSE e \in Env : e \in Sharers
<1>1. s \in Env /\ s \in Sharers
  BY DEF Sharers
<1>2. pt[s]["share"].pg = SharePage
  BY <1>1, VAIs DEF Sharers, Safe, Bookkeeping, Local, Mapping, Rights, SharePage
<1> QED
  BY <1>2 DEF common

LEMMA SharedInUse ==
    Safe /\ Sharers # {} => SharePage \in DOMAIN data /\ data[SharePage] \in Value
<1> SUFFICES ASSUME Safe, Sharers # {}
             PROVE  SharePage \in DOMAIN data /\ data[SharePage] \in Value
  OBVIOUS
<1>1. PICK s \in Env : pt[s]["share"] # None
  BY DEF Sharers
<1>2. pt[s]["share"].pg = SharePage
  BY <1>1, VAIs DEF Safe, Bookkeeping, Local, Mapping, Rights, SharePage
<1>3. SharePage \in DOMAIN data
  BY <1>1, <1>2, VAIs, EntryFacts DEF Safe
<1> QED
  BY <1>3 DEF Safe, TypeOK

\* The shared page keeps its contents, and its last user.
LEMMA CommonKept ==
    ASSUME Safe, Safe', Sharers' = {} <=> Sharers = {},
           Sharers # {} => data'[SharePage] = data[SharePage]
    PROVE  common' = common
<1>1. common = IF Sharers = {} THEN None ELSE data[SharePage]
  BY CommonIs
<1>2. (common = IF Sharers = {} THEN None ELSE data[SharePage])'
  BY CommonIs, PTL
<1> QED
  BY <1>1, <1>2

LEMMA Stutters ==
    ASSUME \A f \in Env, u \in Private : View(f, u)' = View(f, u), common' = common,
           status' = status
    PROVE  UNCHANGED <<views, common, running>>
<1>1. views' = views
  BY DEF views, Private
<1> QED
  BY <1>1 DEF running

----------------------------------------------------------------------------
(* Steps that map and unmap nothing *)

\* Nothing that a view depends on changes.
LEMMA QuietStutters ==
    ASSUME Safe, Safe', pt' = pt, data' = data, status' = status, kid' = kid,
           \A f \in Env, u \in Private : Source(f, u)' = Source(f, u)
    PROVE  UNCHANGED <<views, common, running>>
<1>1. ASSUME NEW f \in Env, NEW u \in Private PROVE View(f, u)' = View(f, u)
  BY DEF View, Visible, Wanted, Sealed
<1>2. common' = common
  BY DEF common, Sharers
<1> QED
  BY <1>1, <1>2, Stutters

\* A store changes the page in the address space of the environment that makes
\* it, and in no other.
LEMMA StoreWrites ==
    ASSUME Safe, Safe', NEW e \in Env, status[e] = "RUNNABLE", hpc[e] # "copy",
           NEW v \in {"data", "stack"}, NEW x \in Value, Store(e, v, x),
           status' = status, kid' = kid,
           \A f \in Env, u \in Private : Source(f, u)' = Source(f, u)
    PROVE  Spaces!Next
<1>1. /\ pt[e][v] # None /\ pt[e][v].w /\ data' = [data EXCEPT ![pt[e][v].pg] = x] /\ pt' = pt
      /\ v \in VA
  BY StoreFacts, VAIs
<1>2. PICK q : q = pt[e][v].pg
  OBVIOUS
<1>3. /\ q \in DOMAIN data /\ data'[q] = x
      /\ \A p \in DOMAIN data : p # q => data'[p] = data[p]
  BY <1>1, <1>2, EntryFacts DEF Safe, TypeOK
<1>4. Source(e, v) = v /\ v \in Private
  BY DEF Source, Private
<1>5. ASSUME NEW f \in Env, NEW u \in Private, <<f, u>> # <<e, v>>
      PROVE  View(f, u)' = View(f, u)
  <2>1. CASE ~Visible(f, u)
    BY <1>1, <2>1 DEF View, Visible, Wanted, Sealed
  <2>2. CASE Visible(f, u)
    <3>1. Has(f, u) /\ Source(f, u) \in VA /\ PageOf(f, u) \in DOMAIN data
      BY <2>2, ViewPage DEF Visible, Has
    <3>2. PageOf(f, u) # q
      <4> SUFFICES ASSUME PageOf(f, u) = q PROVE FALSE
        OBVIOUS
      <4>0. PICK s \in VA : s = Source(f, u)
        BY <3>1
      <4>1. \/ f = e /\ Source(f, u) = v
            \/ f = kid[e] /\ Source(f, u) = v
        <5>1. Exclusive(e, v)
          BY DEF Safe, Bookkeeping
        <5>2. pt[f][s] # None /\ pt[f][s].pg = pt[e][v].pg
          BY <1>2, <3>1, <4>0 DEF PageOf, Has
        <5> QED
          BY <1>1, <4>0, <5>1, <5>2 DEF Exclusive
      <4>2. u = v
        BY <4>1 DEF Source
      <4>3. f = kid[e] /\ f # e
        BY <1>5, <4>1, <4>2
      <4>4. status[f] = "NOT_RUNNABLE"
        BY <4>3, ForkAssumption DEF Safe, Bookkeeping, Local, Family
      <4>5. Writes(e, v, PageOf(f, u))
        BY <1>1, <1>2 DEF Writes
      <4>6. Sealed(f, Source(f, u))
        BY <2>2, <4>4 DEF Visible
      <4> QED
        BY <1>1, <4>3, <4>5, <4>6 DEF Sealed, Writes, PageOf
    <3> QED
      BY <1>1, <1>3, <2>2, <3>1, <3>2 DEF View, Visible, Wanted, Sealed, PageOf
  <2> QED
    BY <2>1, <2>2
<1>6. View(e, v)' = x /\ View(e, v) # None
  <2>1. Visible(e, v) /\ Visible(e, v)'
    BY <1>1, <1>4 DEF Visible, Wanted
  <2>2. data[q] # None
    BY <1>3, ForkAssumption DEF Safe, TypeOK
  <2> QED
    BY <1>1, <1>2, <1>3, <1>4, <2>1, <2>2 DEF View
<1>7. common' = common
  <2>1. q # SharePage
    <3>1. q[2] = v /\ SharePage[2] = "share"
      BY <1>1, <1>2, PageKind DEF SharePage
    <3> QED
      BY <3>1
  <2> QED
    BY <1>1, <1>3, <2>1, CommonKept, SharedInUse DEF Sharers
<1>8. Spaces!Write(e, v)
  <2>1. Spaces!Only({<<e, v>>})
    BY <1>5, ViewsAre DEF Spaces!Only, Private
  <2>2. e \in running /\ running' = running
    BY DEF running
  <2> QED
    BY <1>4, <1>6, <1>7, <2>1, <2>2, ViewsAre DEF Spaces!Write
<1> QED
  BY <1>8 DEF Spaces!Next

\* A store to the page marked PTE_SHARE.
LEMMA StoreShared ==
    ASSUME Safe, Safe', NEW e \in Env, status[e] = "RUNNABLE", NEW x \in Value,
           Store(e, "share", x), status' = status, kid' = kid,
           \A f \in Env, u \in Private : Source(f, u)' = Source(f, u)
    PROVE  Spaces!Next
<1>1. /\ pt[e]["share"] # None /\ data' = [data EXCEPT ![pt[e]["share"].pg] = x] /\ pt' = pt
  BY StoreFacts, VAIs
<1>2. pt[e]["share"].pg = SharePage
  BY <1>1, VAIs DEF Safe, Bookkeeping, Local, Mapping, Rights, SharePage
<1>3. /\ SharePage \in DOMAIN data /\ data'[SharePage] = x
      /\ \A p \in DOMAIN data : p # SharePage => data'[p] = data[p]
  BY <1>1, <1>2, EntryFacts, VAIs DEF Safe, TypeOK
<1>4. ASSUME NEW f \in Env, NEW u \in Private PROVE View(f, u)' = View(f, u)
  <2>1. Kept(f, u)
    BY <1>1, <1>3, ViewPage DEF Kept, Has, PageOf, Wanted, Writes
  <2> QED
    BY <2>1, KeptView
<1>5. common' = x
  <2>1. (common = IF Sharers = {} THEN None ELSE data[SharePage])'
    BY CommonIs, PTL
  <2>2. e \in Sharers'
    BY <1>1 DEF Sharers
  <2> QED
    BY <1>3, <2>1, <2>2
<1>6. Spaces!WriteShared(e)
  <2>1. Spaces!Only({})
    BY <1>4, ViewsAre DEF Spaces!Only, Private
  <2>2. e \in running /\ running' = running
    BY DEF running
  <2> QED
    BY <1>5, <2>1, <2>2 DEF Spaces!WriteShared
<1> QED
  BY <1>6 DEF Spaces!Next

----------------------------------------------------------------------------
(* Steps that map a page *)

\* Contents survive as long as the page is mapped.
LEMMA ContentsKept ==
    ASSUME Safe, NEW caller, NEW d, NEW va, NEW t, Inserted(caller, d, va, t),
           NEW f \in Env, NEW w \in VA, pt'[f][w] # None, pt'[f][w].pg \in DOMAIN data
    PROVE  data'[pt'[f][w].pg] = data[pt'[f][w].pg]
<1>1. pt'[f][w].pg \in Mapped(pt')
  BY MappedIs
<1> QED
  BY <1>1 DEF Inserted

\* A mapping changes no view but the one that reads through it, if it makes no
\* difference to who can write the page.
LEMMA InsertKeeps ==
    ASSUME Safe, NEW caller, NEW d \in Env, NEW va \in VA, NEW t, Inserted(caller, d, va, t),
           status' = status, kid' = kid, NEW f \in Env, NEW u \in Private,
           Source(f, u)' = Source(f, u), f # d \/ Source(f, u) # va,
           Has(f, u) /\ status[f] # "RUNNABLE" =>
              (Writes(d, va, PageOf(f, u))' <=> Writes(d, va, PageOf(f, u)))
    PROVE  View(f, u)' = View(f, u)
<1>1. PICK s \in VA : s = Source(f, u)
  BY VAIs DEF Source, Private
<1>2. /\ \A w \in VA : w # va => pt'[d][w] = pt[d][w]
      /\ \A g \in Env : g # d => pt'[g] = pt[g]
  BY DEF Inserted
<1>3. pt'[f][s] = pt[f][s]
  BY <1>1, <1>2
<1>4. (Has(f, u)' <=> Has(f, u)) /\ (Has(f, u) => PageOf(f, u)' = PageOf(f, u))
  BY <1>1, <1>3 DEF Has, PageOf
<1>5. Has(f, u) => data'[PageOf(f, u)] = data[PageOf(f, u)]
  <2> HAVE Has(f, u)
  <2>1. pt'[f][s] # None /\ pt'[f][s].pg = PageOf(f, u)
    BY <1>1, <1>3 DEF Has, PageOf
  <2>2. PageOf(f, u) \in DOMAIN data
    BY ViewPage
  <2> QED
    BY <2>1, <2>2, ContentsKept
<1>6. ASSUME NEW p, Writes(d, va, p)' <=> Writes(d, va, p), NEW g \in Env, NEW w \in VA
      PROVE  Writes(g, w, p)' <=> Writes(g, w, p)
  BY <1>2, <1>6 DEF Writes
<1>7. Wanted(f)' <=> Wanted(f)
  BY DEF Wanted
<1>8. Kept(f, u)
  <2>1. Has(f, u) /\ status[f] # "RUNNABLE" =>
           \A g \in Env \ {f}, w \in VA :
              Writes(g, w, PageOf(f, u))' <=> Writes(g, w, PageOf(f, u))
    <3> HAVE Has(f, u) /\ status[f] # "RUNNABLE"
    <3> PICK p : p = PageOf(f, u)
      OBVIOUS
    <3>1. Writes(d, va, p)' <=> Writes(d, va, p)
      BY <1>4
    <3>2. \A g \in Env, w \in VA : Writes(g, w, p)' <=> Writes(g, w, p)
      BY <1>6, <3>1
    <3> QED
      BY <1>4, <3>2
  <2> QED
    BY <1>4, <1>5, <1>7, <2>1 DEF Kept
<1> QED
  BY <1>8, KeptView

LEMMA InsertCommon ==
    ASSUME Safe, Safe', NEW caller, NEW d \in Env, NEW va \in VA, NEW t,
           Inserted(caller, d, va, t), va # "share" \/ (t # None /\ Sharers # {})
    PROVE  common' = common
<1>1. /\ pt'[d][va] = t /\ \A w \in VA : w # va => pt'[d][w] = pt[d][w]
      /\ \A g \in Env : g # d => pt'[g] = pt[g]
  BY DEF Inserted
<1>2. Sharers' = {} <=> Sharers = {}
  <2>1. CASE va # "share"
    BY <1>1, <2>1, VAIs DEF Sharers
  <2>2. CASE va = "share" /\ t # None /\ Sharers # {}
    BY <1>1, <2>2 DEF Sharers
  <2> QED
    BY <2>1, <2>2
<1>3. Sharers # {} => data'[SharePage] = data[SharePage]
  <2> HAVE Sharers # {}
  <2>1. SharePage \in DOMAIN data
    BY SharedInUse
  <2>2. (Safe /\ Sharers # {} => SharePage \in DOMAIN data /\ data[SharePage] \in Value)'
    BY SharedInUse, PTL
  <2>3. SharePage \in Mapped(pt')
    BY <1>2, <2>2 DEF Inserted
  <2> QED
    BY <2>1, <2>3 DEF Inserted
<1> QED
  BY <1>2, <1>3, CommonKept

\* pgfault() maps the page a second time, at PFTEMP.
LEMMA PgfaultMapStutters ==
    ASSUME Safe, Safe', NEW e \in Env, PgfaultMap(e)
    PROVE  UNCHANGED <<views, common, running>>
<1>1. CASE Panic(e)
  <2>1. /\ pt' = pt /\ data' = data /\ status' = status /\ kid' = kid /\ hpc' = hpc /\ hva' = hva
    BY <1>1 DEF Panic, memory, envs
  <2> QED
    BY <2>1, QuietStutters DEF Source
<1>2. CASE ~Panic(e)
  <2>1. PICK v \in VA : v = hva[e]
    BY DEF Safe, TypeOK
  <2>2. PICK p, t : p = pt[e][v].pg /\ t = Pte(p, FALSE, FALSE, FALSE)
    OBVIOUS
  <2>3. /\ pt[e][v] # None /\ PageInsert(e, e, "pftemp", t) /\ hpc[e] = "map"
        /\ hpc' = [hpc EXCEPT ![e] = "alloc"] /\ status[e] = "RUNNABLE"
        /\ status' = status /\ kid' = kid /\ hva' = hva
    BY <1>2, <2>1, <2>2 DEF PgfaultMap, SysPageMap, envs, Running
  <2>4. p \in Page
    BY <2>2, <2>3, EntryFacts DEF Safe
  <2>5. t \in Entry /\ t # None /\ ~t.w
    BY <2>2, <2>4, PteFacts
  <2>6. Inserted(e, e, "pftemp", t) /\ "pftemp" \in VA
    BY <2>3, <2>5, InsertFacts, VAIs DEF Safe
  <2>7. \A f \in Env, u \in Private : Source(f, u)' = Source(f, u)
    BY <2>3 DEF Source, Safe, TypeOK
  <2>8. ASSUME NEW f \in Env, NEW u \in Private PROVE View(f, u)' = View(f, u)
    <3>1. f # e \/ Source(f, u) # "pftemp"
      BY <2>3 DEF Source, Private
    <3>2. \A q : ~Writes(e, "pftemp", q) /\ ~Writes(e, "pftemp", q)'
      <4>1. pt[e]["pftemp"] = None /\ pt'[e]["pftemp"] = t
        BY <2>3, <2>6 DEF Safe, Bookkeeping, Local, Handling, Inserted
      <4> QED
        BY <2>5, <4>1 DEF Writes
    <3> QED
      BY <2>3, <2>6, <2>7, <3>1, <3>2, InsertKeeps
  <2>9. common' = common
    BY <2>6, InsertCommon
  <2> QED
    BY <2>3, <2>8, <2>9, Stutters
<1> QED
  BY <1>1, <1>2

\* A fresh page takes the place of the shared one, whose contents are at PFTEMP.
LEMMA PgfaultAllocStutters ==
    ASSUME Safe, Safe', NEW e \in Env, PgfaultAlloc(e)
    PROVE  UNCHANGED <<views, common, running>>
<1>1. CASE Panic(e)
  <2>1. /\ pt' = pt /\ data' = data /\ status' = status /\ kid' = kid /\ hpc' = hpc /\ hva' = hva
    BY <1>1 DEF Panic, memory, envs
  <2> QED
    BY <2>1, QuietStutters DEF Source
<1>2. CASE ~Panic(e)
  <2>1. PICK v \in VA : v = hva[e]
    BY DEF Safe, TypeOK
  <2>2. /\ SysPageAlloc(e, e, v) /\ hpc[e] = "alloc" /\ status[e] = "RUNNABLE"
        /\ hpc' = [hpc EXCEPT ![e] = "copy"] /\ status' = status /\ kid' = kid /\ hva' = hva
    BY <1>2, <2>1 DEF PgfaultAlloc, envs, Running
  <2>3. PICK t \in Entry : /\ Inserted(e, e, v, t) /\ t # None /\ t.pg \notin DOMAIN data
    BY <2>2, AllocFacts
  <2>4. /\ v \in {"data", "stack"} /\ pt[e][v] # None /\ ~pt[e][v].w /\ pt[e]["pftemp"] # None
        /\ pt[e][v].pg = pt[e]["pftemp"].pg
    BY <2>1, <2>2 DEF Safe, Bookkeeping, Local, Handling, Ready
  <2>5. hpc'[e] = "copy" /\ \A f \in Env : f # e => hpc'[f] = hpc[f]
    BY <2>2 DEF Safe, TypeOK
  <2>6. ASSUME NEW f \in Env, NEW u \in Private, f # e \/ u # v
        PROVE  View(f, u)' = View(f, u)
    <3>1. Source(f, u)' = Source(f, u) /\ (f # e \/ Source(f, u) # v)
      BY <2>1, <2>2, <2>4, <2>5, <2>6 DEF Source
    <3>2. Has(f, u) => ~Writes(e, v, PageOf(f, u)) /\ ~(Writes(e, v, PageOf(f, u))')
      <4> HAVE Has(f, u)
      <4>1. PageOf(f, u) \in DOMAIN data
        BY ViewPage
      <4>2. PageOf(f, u)' = PageOf(f, u)
        BY <2>3, <3>1, VAIs DEF Inserted, PageOf, Source, Private
      <4>3. pt'[e][v] = t
        BY <2>3 DEF Inserted
      <4> QED
        BY <2>3, <2>4, <4>1, <4>2, <4>3 DEF Writes
    <3> QED
      BY <2>2, <2>3, <3>1, <3>2, InsertKeeps
  <2>7. View(e, v)' = View(e, v)
    <3>1. Source(e, v) = v /\ Source(e, v)' = "pftemp"
      BY <2>1, <2>2, <2>5 DEF Source
    <3>2. pt'[e]["pftemp"] = pt[e]["pftemp"]
      BY <2>3, <2>4, VAIs DEF Inserted
    <3>3. data'[pt'[e]["pftemp"].pg] = data[pt'[e]["pftemp"].pg]
      BY <2>3, <2>4, <3>2, ContentsKept, EntryFacts, VAIs DEF Safe
    <3> QED
      BY <2>2, <2>4, <3>1, <3>2, <3>3 DEF View, Visible, Wanted
  <2>8. \A f \in Env, u \in Private : View(f, u)' = View(f, u)
    BY <2>6, <2>7
  <2>9. common' = common
    BY <2>3, <2>4, InsertCommon
  <2> QED
    BY <2>2, <2>8, <2>9, Stutters
<1> QED
  BY <1>1, <1>2

\* The copy is made: e reads at its page what it read at PFTEMP.
LEMMA PgfaultCopyStutters ==
    ASSUME Safe, Safe', NEW e \in Env, PgfaultCopy(e)
    PROVE  UNCHANGED <<views, common, running>>
<1>1. PICK v \in VA : v = hva[e]
  BY DEF Safe, TypeOK
<1>2. PICK q : q = pt[e][v].pg
  OBVIOUS
<1>3. PICK old : old = pt[e]["pftemp"].pg
  OBVIOUS
<1>4. /\ v \in {"data", "stack"} /\ pt[e][v] # None /\ pt[e][v].w
      /\ pt[e]["pftemp"] # None /\ old # q
      /\ pt'[e]["pftemp"] = None /\ \A u \in VA : u # "pftemp" => pt'[e][u] = pt[e][u]
      /\ \A f \in Env : f # e => pt'[f] = pt[f]
      /\ \A p \in Mapped(pt') : /\ p \in DOMAIN data
                                /\ data'[p] = IF p = q THEN data[old] ELSE data[p]
  BY <1>1, <1>2, <1>3, CopyFacts
<1>5. /\ status[e] = "RUNNABLE" /\ hpc[e] = "copy" /\ hpc' = [hpc EXCEPT ![e] = "ret"]
      /\ status' = status /\ kid' = kid /\ hva' = hva
  BY DEF PgfaultCopy, Running, envs
<1>6. hpc'[e] = "ret" /\ \A f \in Env : f # e => hpc'[f] = hpc[f]
  BY <1>5 DEF Safe, TypeOK
<1>7. \A p : \A g \in Env, w \in VA : Writes(g, w, p)' <=> Writes(g, w, p)
  <2>1. ~pt[e]["pftemp"].w
    BY <1>4, VAIs DEF Safe, Bookkeeping, Local, Mapping, Rights
  <2> QED
    BY <1>4, <2>1 DEF Writes
<1>8. ASSUME NEW f \in Env, NEW u \in Private, f # e \/ u # v
      PROVE  View(f, u)' = View(f, u)
  <2>1. PICK s \in VA : s = Source(f, u) /\ s = Source(f, u)' /\ (f # e \/ s # "pftemp")
                        /\ (f # e \/ s # v) /\ (s = u \/ s = "pftemp")
    BY <1>1, <1>5, <1>6, <1>8, VAIs DEF Source, Private
  <2>2. pt'[f][s] = pt[f][s]
    BY <1>4, <2>1
  <2>3. /\ (Has(f, u)' <=> Has(f, u)) /\ PageOf(f, u)' = PageOf(f, u)
        /\ (Wanted(f)' <=> Wanted(f))
    BY <1>5, <2>1, <2>2 DEF Has, PageOf, Wanted
  <2>4. Visible(f, u) => data'[PageOf(f, u)] = data[PageOf(f, u)]
    <3> HAVE Visible(f, u)
    <3>1. pt[f][s] # None /\ pt[f][s].pg = PageOf(f, u)
      BY <2>1 DEF Visible, PageOf
    <3>2. PageOf(f, u) \in Mapped(pt')
      BY <2>1, <2>2, <3>1, MappedIs
    <3>3. PageOf(f, u) # q
      <4> SUFFICES ASSUME PageOf(f, u) = q PROVE FALSE
        OBVIOUS
      <4>1. Exclusive(e, v)
        BY <1>4 DEF Safe, Bookkeeping
      <4>2. f = kid[e] /\ s = v
        <5>1. /\ pt[f][s] # None /\ pt[f][s].pg = pt[e][v].pg /\ pt[e][v] # None
              /\ pt[e][v].w /\ (f # e \/ s # v)
          BY <1>2, <1>4, <2>1, <3>1
        <5> QED
          BY <4>1, <5>1 DEF Exclusive
      <4>3. status[f] = "NOT_RUNNABLE" /\ f # e
        BY <1>5, <4>2, ForkAssumption DEF Safe, Bookkeeping, Local, Family
      <4>4. Sealed(f, s)
        BY <2>1, <4>3 DEF Visible
      <4> QED
        BY <1>2, <1>4, <3>1, <4>3, <4>4 DEF Sealed
    <3> QED
      BY <1>4, <3>2, <3>3
  <2>5. Kept(f, u)
    BY <1>5, <1>7, <2>3, <2>4 DEF Kept
  <2> QED
    BY <2>5, KeptView
<1>9. View(e, v)' = View(e, v)
  <2>1. Source(e, v) = "pftemp" /\ Source(e, v)' = v
    BY <1>1, <1>5, <1>6 DEF Source
  <2>2. pt'[e][v] = pt[e][v]
    BY <1>4
  <2>3. q \in Mapped(pt')
    BY <1>2, <1>4, <2>2, MappedIs
  <2>4. View(e, v)' = data'[q]
    BY <1>2, <1>4, <1>5, <2>1, <2>2 DEF View, Visible, Wanted
  <2>5. View(e, v) = data[old]
    BY <1>3, <1>4, <1>5, <2>1 DEF View, Visible, Wanted
  <2> QED
    BY <1>4, <2>3, <2>4, <2>5
<1>10. common' = common
  <2>1. Sharers' = Sharers
    BY <1>4, VAIs DEF Sharers
  <2>2. q # SharePage
    <3>1. q[2] = v /\ SharePage[2] = "share"
      BY <1>2, <1>4, PageKind DEF SharePage
    <3> QED
      BY <1>4, <3>1
  <2>3. Sharers # {} => data'[SharePage] = data[SharePage]
    <3> HAVE Sharers # {}
    <3>1. (Safe /\ Sharers # {} => SharePage \in DOMAIN data /\ data[SharePage] \in Value)'
      BY SharedInUse, PTL
    <3>2. SharePage \in Mapped(pt')
      BY <2>1, <3>1 DEF Safe, TypeOK
    <3> QED
      BY <1>4, <2>2, <3>2
  <2> QED
    BY <2>1, <2>3, CommonKept
<1>11. \A f \in Env, u \in Private : View(f, u)' = View(f, u)
  BY <1>8, <1>9
<1> QED
  BY <1>5, <1>10, <1>11, Stutters

\* An exception stack, of e or of its child, is in nobody's address space.
LEMMA XstackStutters ==
    ASSUME Safe, Safe', NEW e \in Env, NEW d \in Env, SysPageAlloc(e, d, "xstack"),
           status' = status, kid' = kid, hpc' = hpc, hva' = hva
    PROVE  UNCHANGED <<views, common, running>>
<1>1. PICK t \in Entry : Inserted(e, d, "xstack", t) /\ t.pg \notin DOMAIN data /\ t.pg[2] = "xstack"
  BY AllocFacts, VAIs
<1>2. pt'[d]["xstack"] = t /\ (pt[d]["xstack"] # None => pt[d]["xstack"].pg[2] = "xstack")
  BY <1>1, VAIs DEF Inserted, Safe, Bookkeeping, Local, Mapping, Rights
<1>3. ASSUME NEW f \in Env, NEW u \in Private PROVE View(f, u)' = View(f, u)
  <2>1. Source(f, u)' = Source(f, u) /\ Source(f, u) # "xstack"
    BY DEF Source, Private
  <2>2. Has(f, u) =>
           ~Writes(d, "xstack", PageOf(f, u)) /\ ~(Writes(d, "xstack", PageOf(f, u))')
    <3> HAVE Has(f, u)
    <3>1. PageOf(f, u)[2] = u /\ u # "xstack"
      BY ViewPage DEF Private
    <3>2. PageOf(f, u)' = PageOf(f, u)
      BY <1>1, <2>1, VAIs DEF Inserted, PageOf, Source, Private
    <3> QED
      BY <1>1, <1>2, <3>1, <3>2 DEF Writes
  <2>3. "xstack" \in VA
    BY VAIs
  <2> QED
    BY <1>1, <2>1, <2>2, <2>3, InsertKeeps
<1>4. common' = common
  BY <1>1, InsertCommon, VAIs
<1> QED
  BY <1>3, <1>4, Stutters

----------------------------------------------------------------------------
(* The child gets its pages *)

\* Who can write a page of the program: someone who has it in the same place.
LEMMA WriterIs ==
    ASSUME Safe, NEW g \in Env, NEW w \in VA, NEW p, Writes(g, w, p), p[2] \in Private
    PROVE  w \in {"data", "stack"}
<1>1. Mapping(g, w) /\ pt[g][w] # None /\ pt[g][w].w /\ pt[g][w].pg = p
  BY DEF Safe, Bookkeeping, Local, Writes
<1>2. w \notin {"pftemp", "text", "xstack"}
  BY <1>1 DEF Mapping, Rights, Private
<1>3. w # "share"
  <2>1. w = "share" => p = SharePage
    BY <1>1 DEF Mapping, Rights, SharePage
  <2>2. SharePage[2] = "share"
    BY DEF SharePage
  <2> QED
    BY <2>1, <2>2 DEF Private
<1> QED
  BY <1>2, <1>3, VAIs

LEMMA ViewOfRunning ==
    ASSUME Safe, NEW e \in Env, status[e] = "RUNNABLE", hpc[e] # "copy", NEW v \in Private,
           pt[e][v] # None
    PROVE  View(e, v) = data[pt[e][v].pg] /\ View(e, v) # None
<1>1. Source(e, v) = v
  BY DEF Source
<1>2. Has(e, v) /\ PageOf(e, v) = pt[e][v].pg /\ Visible(e, v)
  BY <1>1 DEF Has, PageOf, Visible, Wanted
<1> QED
  BY <1>1, <1>2, ViewPage DEF View

\* What Inherit asks for.
LEMMA Inherits ==
    ASSUME NEW e \in Env, NEW c \in Env, NEW v \in Private, status[e] = "RUNNABLE",
           status[c] # "RUNNABLE", View(c, v) = None, View(e, v) # None,
           View(c, v)' = View(e, v), common' = common, status' = status,
           \A f \in Env, u \in Private : f # c \/ u # v => View(f, u)' = View(f, u)
    PROVE  Spaces!Next
<1>1. Spaces!Only({<<c, v>>})
  BY ViewsAre DEF Spaces!Only, Private
<1>2. e \in running /\ c \notin running /\ running' = running
  BY DEF running
<1>3. Spaces!Inherit(e, c, v)
  BY <1>1, <1>2, ViewsAre DEF Spaces!Inherit
<1> QED
  BY <1>3 DEF Spaces!Next, Private

\* The first sys_page_map of duppage(): the child has the page from now on, if its
\* parent cannot write it; if the parent can, the page is not the child's yet.
LEMMA MapForKid ==
    ASSUME Safe, Safe', NEW e \in Env, status[e] = "RUNNABLE", hpc[e] = "none",
           NEW c \in Env, c = kid[e], NEW v \in Private, pt[e][v] # None, pt[c][v] = None,
           NEW t, Inserted(e, c, v, t), t # None, ~t.w, t.pg = pt[e][v].pg,
           status' = status, kid' = kid, hpc' = hpc, hva' = hva
    PROVE  Spaces!Next \/ UNCHANGED <<views, common, running>>
<1>1. /\ status[c] = "NOT_RUNNABLE" /\ hpc[c] = "none" /\ c # e /\ v \in VA
  BY VAIs, ForkAssumption DEF Safe, Bookkeeping, Local, Family, Private
<1>2. /\ pt'[c][v] = t /\ \A w \in VA : w # v => pt'[c][w] = pt[c][w]
      /\ \A g \in Env : g # c => pt'[g] = pt[g]
  BY DEF Inserted
<1>3. ASSUME NEW f \in Env, NEW u \in Private, f # c \/ u # v
      PROVE  View(f, u)' = View(f, u)
  <2>1. Source(f, u)' = Source(f, u) /\ (f # c \/ Source(f, u) # v)
    BY <1>1, <1>3 DEF Source
  <2>2. ~Writes(c, v, PageOf(f, u)) /\ ~(Writes(c, v, PageOf(f, u))')
    BY <1>2 DEF Writes
  <2>3. c \in Env /\ v \in VA /\ Inserted(e, c, v, t) /\ status' = status /\ kid' = kid
    BY <1>1
  <2> QED
    BY <2>1, <2>2, <2>3, InsertKeeps
<1>4. common' = common
  BY <1>1, InsertCommon DEF Private
<1>5. Source(c, v) = v /\ Source(c, v)' = v
  BY <1>1 DEF Source
<1>6. View(c, v) = None
  BY <1>5 DEF View, Visible
<1>7. CASE pt[e][v].w
  <2>1. ~Sealed(c, v)'
    <3>1. /\ e \in Env \ {c} /\ v \in VA /\ pt'[e][v] # None /\ pt'[e][v].w
          /\ pt'[e][v].pg = pt'[c][v].pg
      BY <1>1, <1>2, <1>7
    <3> QED
      BY <3>1 DEF Sealed
  <2>2. View(c, v)' = None
    BY <1>1, <1>5, <2>1 DEF View, Visible
  <2>3. \A f \in Env, u \in Private : View(f, u)' = View(f, u)
    BY <1>3, <1>6, <2>2
  <2> QED
    BY <1>4, <2>3, Stutters
<1>8. CASE ~pt[e][v].w
  <2>1. PICK p : p = pt[e][v].pg
    OBVIOUS
  <2>2. p[2] \in Private
    BY <2>1, PageKind DEF Private
  <2>3. ASSUME NEW g \in Env, NEW w \in VA, Writes(g, w, p)' PROVE FALSE
    <3>1. Writes(g, w, p)
      BY <1>2, <2>3 DEF Writes
    <3>2. w \in {"data", "stack"}
      BY <2>2, <3>1, WriterIs
    <3>3. g = e /\ w = v
      BY <1>1, <2>1, <3>1, <3>2, OneWriter DEF Writes
    <3> QED
      BY <1>8, <3>1, <3>3 DEF Writes
  <2>4. Sealed(c, v)'
    BY <1>2, <2>1, <2>3 DEF Sealed, Writes
  <2>5. Wanted(c)'
    BY DEF Wanted
  <2>6. View(c, v)' = data'[p]
    BY <1>2, <1>5, <2>1, <2>4, <2>5 DEF View, Visible
  <2>7. p \in DOMAIN data
    BY <1>1, <2>1, EntryFacts DEF Safe
  <2>8. data'[p] = data[p]
    BY <1>1, <1>2, <2>1, <2>7, ContentsKept
  <2>9. View(e, v) = data[p] /\ View(e, v) # None
    BY <2>1, ViewOfRunning
  <2> QED
    BY <1>1, <1>3, <1>4, <1>6, <2>6, <2>8, <2>9, Inherits
<1> QED
  BY <1>7, <1>8

LEMMA DuppageStep ==
    ASSUME Safe, Safe', NEW e \in Env, Duppage(e)
    PROVE  Spaces!Next \/ UNCHANGED <<views, common, running>>
<1>1. status[e] = "RUNNABLE" /\ pc[e] = "walk" /\ hpc[e] = "none"
  BY DEF Duppage, At, Running
<1>2. PICK c \in Env : c = kid[e] /\ c # e
  BY <1>1, WalkFacts
<1>3. PICK v \in VA : v = Walk[idx[e]] /\ v \in {"text", "data", "share", "stack"}
  BY <1>1, WalkFacts, VAIs
<1>4. PICK own : own = pt[e][v]
  OBVIOUS
<1>5. own # None /\ idx[e] \in 2 .. 5 /\ Copied(pt[c], idx[e])
  BY <1>1, <1>2, <1>3, <1>4, WalkFacts
<1>6. pt[c][v] = None
  <2>1. idx[e] \in 1 .. 6
    BY <1>5
  <2> QED
    BY <1>3, <1>5, <2>1, CopiedIs, WalkIs
<1>7. Mapping(e, v) /\ own.pg \in Page /\ own.sh \in BOOLEAN
  BY <1>4, <1>5, EntryFacts DEF Safe, Bookkeeping, Local
<1>8. PICK p \in Page : p = own.pg
  BY <1>7
<1>9. CASE Panic(e)
  <2>1. /\ pt' = pt /\ data' = data /\ status' = status /\ kid' = kid /\ hpc' = hpc /\ hva' = hva
    BY <1>9 DEF Panic, memory, envs
  <2> QED
    BY <2>1, QuietStutters DEF Source
<1>10. CASE UNCHANGED <<memory, envs, kid, hpc, hva>>
  <2>1. /\ pt' = pt /\ data' = data /\ status' = status /\ kid' = kid /\ hpc' = hpc /\ hva' = hva
    BY <1>10 DEF memory, envs
  <2> QED
    BY <2>1, QuietStutters DEF Source
<1>11. CASE /\ own.sh \/ ~(own.w \/ own.cow)
            /\ SysPageMap(e, e, v, c, v, own.sh, own.sh, own.sh)
            /\ UNCHANGED <<envs, kid, hpc, hva>>
  <2>1. status' = status /\ kid' = kid /\ hpc' = hpc /\ hva' = hva
    BY <1>11 DEF envs
  <2>2. PICK t : t = Pte(p, own.sh, own.sh, own.sh)
    OBVIOUS
  <2>3. PageInsert(e, c, v, t)
    BY <1>4, <1>8, <1>11, <2>2 DEF SysPageMap
  <2>4. CASE own.sh = FALSE
    <3>1. t = Pte(p, FALSE, FALSE, FALSE)
      BY <2>2, <2>4
    <3>2. t \in Entry /\ t # None /\ t.pg = p /\ ~t.w
      BY <3>1, PteFacts
    <3>3. Inserted(e, c, v, t)
      BY <2>3, <3>2, InsertFacts DEF Safe
    <3>4. v \in Private
      BY <1>3, <1>4, <1>5, <1>7, <2>4 DEF Mapping, Rights, Private
    <3> QED
      BY <1>1, <1>2, <1>4, <1>5, <1>6, <1>8, <2>1, <3>2, <3>3, <3>4, MapForKid
  <2>5. CASE own.sh = TRUE
    <3>1. t = Pte(p, TRUE, TRUE, TRUE)
      BY <2>2, <2>5
    <3>2. t \in Entry /\ t # None /\ t.pg = p
      BY <3>1, PteFacts
    <3>3. Inserted(e, c, v, t)
      BY <2>3, <3>2, InsertFacts DEF Safe
    <3>4. v = "share" /\ p = SharePage
      BY <1>3, <1>4, <1>5, <1>7, <1>8, <2>5 DEF Mapping, Rights, SharePage
    <3>5. pt'[c][v] = t
      BY <3>3 DEF Inserted
    <3>6. ASSUME NEW f \in Env, NEW u \in Private PROVE View(f, u)' = View(f, u)
      <4>1. Source(f, u)' = Source(f, u) /\ Source(f, u) # v
        BY <2>1, <3>4 DEF Source, Private
      <4>2. Has(f, u) => ~Writes(c, v, PageOf(f, u)) /\ ~(Writes(c, v, PageOf(f, u))')
        <5> HAVE Has(f, u)
        <5>1. PageOf(f, u) # SharePage
          BY ViewPage
        <5>2. PageOf(f, u)' = PageOf(f, u)
          BY <3>3, <4>1, VAIs DEF Inserted, PageOf, Source, Private
        <5> QED
          BY <1>6, <3>2, <3>4, <3>5, <5>1, <5>2 DEF Writes
      <4> QED
        BY <2>1, <3>3, <4>1, <4>2, InsertKeeps
    <3>7. common' = common
      <4>1. Sharers # {}
        BY <1>4, <1>5, <3>4 DEF Sharers
      <4> QED
        BY <3>2, <3>3, <4>1, InsertCommon
    <3> QED
      BY <2>1, <3>6, <3>7, Stutters
  <2> QED
    BY <1>7, <2>4, <2>5
<1>12. CASE /\ ~own.sh /\ (own.w \/ own.cow)
            /\ SysPageMap(e, e, v, c, v, FALSE, TRUE, FALSE)
            /\ UNCHANGED <<envs, kid, hpc, hva>>
  <2>1. status' = status /\ kid' = kid /\ hpc' = hpc /\ hva' = hva
    BY <1>12 DEF envs
  <2>2. PICK t : t = Pte(p, FALSE, TRUE, FALSE)
    OBVIOUS
  <2>3. PageInsert(e, c, v, t)
    BY <1>4, <1>8, <1>12, <2>2 DEF SysPageMap
  <2>4. t \in Entry /\ t # None /\ t.pg = p /\ ~t.w
    BY <2>2, PteFacts
  <2>5. Inserted(e, c, v, t)
    BY <2>3, <2>4, InsertFacts DEF Safe
  <2>6. v \in Private
    BY <1>3, <1>4, <1>5, <1>7, <1>12 DEF Mapping, Rights, Private
  <2> QED
    BY <1>1, <1>2, <1>4, <1>5, <1>6, <1>8, <2>1, <2>4, <2>5, <2>6, MapForKid
<1> QED
  <2>1. kid[e] = c /\ Walk[idx[e]] = v /\ pt[e][Walk[idx[e]]] = own
    BY <1>2, <1>3, <1>4
  <2> QED
    BY <1>9, <1>10, <1>11, <1>12, <2>1 DEF Duppage

\* The second sys_page_map of duppage(): the parent cannot write the page any
\* longer, so that it is the child's if the child still has the same one.
LEMMA DuppageOwnStep ==
    ASSUME Safe, Safe', NEW e \in Env, DuppageOwn(e)
    PROVE  Spaces!Next \/ UNCHANGED <<views, common, running>>
<1>1. status[e] = "RUNNABLE" /\ pc[e] = "remap" /\ hpc[e] = "none"
  BY DEF DuppageOwn, At, Running
<1>2. PICK c \in Env : c = kid[e] /\ c # e
  BY <1>1, WalkFacts
<1>3. PICK v \in {"data", "stack"} : v = Walk[idx[e]] /\ v \in VA /\ v \in Private
  BY <1>1, WalkFacts, VAIs DEF Private
<1>4. PICK p, t : p = pt[e][v].pg /\ t = Pte(p, FALSE, TRUE, FALSE)
  OBVIOUS
<1>5. /\ pt[e][v] # None /\ PageInsert(e, e, v, t)
      /\ status' = status /\ kid' = kid /\ hpc' = hpc /\ hva' = hva
  BY <1>3, <1>4 DEF DuppageOwn, SysPageMap, envs
<1>6. p \in Page /\ p \in DOMAIN data /\ p[2] \in Private
  <2>1. p \in Page /\ p \in DOMAIN data
    BY <1>3, <1>4, <1>5, EntryFacts DEF Safe
  <2>2. p[2] = v
    BY <1>4, <1>5, PageKind
  <2> QED
    BY <1>3, <2>1, <2>2
<1>7. t \in Entry /\ t # None /\ t.pg = p /\ ~t.w
  BY <1>4, <1>6, PteFacts
<1>8. Inserted(e, e, v, t)
  BY <1>3, <1>5, <1>7, InsertFacts DEF Safe
<1>9. /\ pt'[e][v] = t /\ \A w \in VA : w # v => pt'[e][w] = pt[e][w]
      /\ \A g \in Env : g # e => pt'[g] = pt[g]
  BY <1>8 DEF Inserted
<1>10. \A q : ~(Writes(e, v, q)')
  BY <1>7, <1>9 DEF Writes
<1>11. /\ status[c] = "NOT_RUNNABLE" /\ pt[c][v] # None
       /\ \A f \in Env : status[f] # "RUNNABLE" => hpc[f] = "none"
  <2>1. Copied(pt[c], idx[e] + 1) /\ idx[e] \in 2 .. 5
    BY <1>1, <1>2, WalkFacts
  <2>2. idx[e] + 1 \in 1 .. 6
    BY <2>1
  <2>3. pt[c][v] # None
    BY <1>3, <2>1, <2>2, CopiedIs, WalkIs
  <2> QED
    BY <1>2, <2>3, ForkAssumption DEF Safe, Bookkeeping, Local, Family
<1>12. ASSUME NEW f \in Env, NEW u \in Private, f # e \/ u # v,
              f # c \/ u # v \/ ~Writes(e, v, PageOf(f, u))
       PROVE  View(f, u)' = View(f, u)
  <2>1. Source(f, u)' = Source(f, u) /\ (f # e \/ Source(f, u) # v)
    BY <1>1, <1>5, <1>12 DEF Source
  <2>2. ASSUME Has(f, u), status[f] # "RUNNABLE", Writes(e, v, PageOf(f, u)) PROVE FALSE
    <3>1. Source(f, u) = u /\ u \in VA /\ f # e
      BY <1>1, <1>11, <2>2, VAIs DEF Source, Private
    <3>2. Exclusive(e, v)
      BY DEF Safe, Bookkeeping
    <3>3. pt[f][u] # None /\ pt[f][u].pg = pt[e][v].pg /\ pt[e][v].w
      BY <2>2, <3>1 DEF Has, PageOf, Writes
    <3>4. f = c /\ u = v
      BY <1>2, <1>5, <3>1, <3>2, <3>3 DEF Exclusive
    <3> QED
      BY <1>12, <2>2, <3>4
  <2>3. Has(f, u) /\ status[f] # "RUNNABLE" =>
           (Writes(e, v, PageOf(f, u))' <=> Writes(e, v, PageOf(f, u)))
    BY <1>10, <2>2
  <2>4. v \in VA /\ status' = status /\ kid' = kid
    BY <1>3, <1>5
  <2> QED
    BY <1>8, <2>1, <2>3, <2>4, InsertKeeps
<1>13. data'[p] = data[p]
  BY <1>3, <1>6, <1>7, <1>8, <1>9, ContentsKept
<1>14. View(e, v) = data[p] /\ View(e, v) # None /\ View(e, v)' = View(e, v)
  <2>1. View(e, v) = data[p] /\ View(e, v) # None
    BY <1>1, <1>3, <1>4, <1>5, ViewOfRunning
  <2>2. Source(e, v)' = v
    BY <1>1, <1>5 DEF Source
  <2>3. View(e, v)' = data'[p]
    BY <1>1, <1>5, <1>7, <1>9, <2>2 DEF View, Visible, Wanted
  <2> QED
    BY <1>13, <2>1, <2>3
<1>15. common' = common
  BY <1>3, <1>8, InsertCommon
<1>16. Source(c, v) = v /\ Source(c, v)' = v
  BY <1>5, <1>11 DEF Source
<1>17. CASE pt[e][v].w /\ pt[c][v].pg = p
  <2>1. View(c, v) = None
    <3>1. ~Sealed(c, v)
      BY <1>2, <1>3, <1>4, <1>5, <1>17 DEF Sealed
    <3> QED
      BY <1>11, <1>16, <3>1 DEF View, Visible
  <2>2. ASSUME NEW g \in Env, NEW w \in VA, Writes(g, w, p)' PROVE FALSE
    <3>1. g # e \/ w # v
      BY <1>10, <2>2
    <3>2. Writes(g, w, p)
      BY <1>9, <2>2, <3>1 DEF Writes
    <3>3. w \in {"data", "stack"}
      BY <1>6, <3>2, WriterIs
    <3>4. g = e /\ w = v
      BY <1>1, <1>3, <1>4, <1>5, <3>2, <3>3, OneWriter DEF Writes
    <3> QED
      BY <3>1, <3>4
  <2>3. pt'[c][v] = pt[c][v]
    BY <1>2, <1>9
  <2>4. Sealed(c, v)'
    BY <1>17, <2>2, <2>3 DEF Sealed, Writes
  <2>5. Wanted(c)'
    BY <1>2, <1>5 DEF Wanted
  <2>6. View(c, v)' = data'[p]
    BY <1>11, <1>16, <1>17, <2>3, <2>4, <2>5 DEF View, Visible
  <2>7. \A f \in Env, u \in Private : f # c \/ u # v => View(f, u)' = View(f, u)
    BY <1>12, <1>14
  <2> QED
    BY <1>1, <1>3, <1>5, <1>11, <1>13, <1>14, <1>15, <2>1, <2>6, <2>7, Inherits
<1>18. CASE ~(pt[e][v].w /\ pt[c][v].pg = p)
  <2>1. ~Writes(e, v, PageOf(c, v))
    BY <1>4, <1>16, <1>18 DEF Writes, PageOf
  <2>2. \A f \in Env, u \in Private : View(f, u)' = View(f, u)
    BY <1>12, <1>14, <2>1
  <2> QED
    BY <1>5, <1>15, <2>2, Stutters
<1> QED
  BY <1>17, <1>18

\* The child is nobody yet.
LEMMA SysExoforkStutters ==
    ASSUME Safe, Safe', NEW e \in Env, SysExofork(e)
    PROVE  UNCHANGED <<views, common, running>>
<1>1. CASE Panic(e)
  <2>1. /\ pt' = pt /\ data' = data /\ status' = status /\ kid' = kid /\ hpc' = hpc /\ hva' = hva
    BY <1>1 DEF Panic, memory, envs
  <2> QED
    BY <2>1, QuietStutters DEF Source
<1>2. CASE ~Panic(e)
  <2>1. PICK c \in Env : /\ status[c] = "FREE" /\ status' = [status EXCEPT ![c] = "NOT_RUNNABLE"]
                         /\ kid' = [kid EXCEPT ![e] = c]
                         /\ pt' = pt /\ data' = data /\ hpc' = hpc /\ hva' = hva
    BY <1>2 DEF SysExofork
  <2>2. status[e] = "RUNNABLE" /\ pc[e] = "exofork"
    BY DEF SysExofork, At, Running
  <2>3. kid[e] = None /\ pt[c] = Unmapped /\ hpc[c] = "none"
    BY <2>1, <2>2 DEF Safe, Bookkeeping, Local, Family
  <2>4. /\ status'[c] = "NOT_RUNNABLE" /\ \A f \in Env : f # c => status'[f] = status[f]
        /\ kid'[e] = c /\ \A f \in Env : f # e => kid'[f] = kid[f]
    BY <2>1 DEF Safe, TypeOK
  <2>5. ASSUME NEW f \in Env, NEW u \in Private PROVE View(f, u)' = View(f, u)
    <3>1. CASE f = c
      <4>1. pt[c][Source(c, u)] = None /\ Source(c, u)' = Source(c, u)
        BY <2>1, <2>3, VAIs DEF Source, Private, Unmapped
      <4> QED
        BY <2>1, <3>1, <4>1 DEF View, Visible
    <3>2. CASE f # c
      <4>1. Wanted(f)' <=> Wanted(f)
        BY <2>3, <2>4, <3>2, ForkAssumption DEF Wanted
      <4>2. Source(f, u)' = Source(f, u)
        BY <2>1 DEF Source
      <4> QED
        BY <2>1, <2>4, <3>2, <4>1, <4>2 DEF View, Visible, Sealed
    <3> QED
      BY <3>1, <3>2
  <2>6. views' = views
    BY <2>5 DEF views, Private
  <2>7. common' = common
    BY <2>1 DEF common, Sharers
  <2>8. running' = running
    <3>1. \A f \in Env : status'[f] = "RUNNABLE" <=> status[f] = "RUNNABLE"
      BY <2>1, <2>4
    <3> QED
      BY <3>1 DEF running
  <2> QED
    BY <2>6, <2>7, <2>8
<1> QED
  BY <1>1, <1>2

\* sys_env_set_status: by now nobody else can write what the child has.
LEMMA KidStatusStep ==
    ASSUME Safe, Safe', NEW e \in Env, KidStatus(e)
    PROVE  Spaces!Next
<1>1. status[e] = "RUNNABLE" /\ pc[e] = "kidstatus"
  BY DEF KidStatus, At, Running
<1>2. PICK c \in Env : c = kid[e]
  BY <1>1 DEF Safe, TypeOK, Bookkeeping, Local, Family
<1>3. /\ status[c] = "NOT_RUNNABLE" /\ hpc[c] = "none"
      /\ pt[c]["data"] # None /\ pt[c]["stack"] # None
  <2>1. c # None
    BY ForkAssumption
  <2> QED
    BY <1>1, <1>2, <2>1 DEF Safe, Bookkeeping, Local, Family, Walked
<1>4. /\ pt' = pt /\ data' = data /\ hpc' = hpc /\ hva' = hva
      /\ status'[c] = "RUNNABLE" /\ \A f \in Env : f # c => status'[f] = status[f]
      /\ kid'[e] = None /\ \A f \in Env : f # e => kid'[f] = kid[f]
  BY <1>2 DEF KidStatus, Safe, TypeOK
<1>5. ASSUME NEW u \in Private, pt[c][u] # None PROVE Sealed(c, u)
  <2>1. PICK p : p = pt[c][u].pg
    OBVIOUS
  <2>2. p[2] = u /\ u \in VA
    BY <1>5, <2>1, PageKind, VAIs DEF Private
  <2>3. ASSUME NEW g \in Env \ {c}, NEW w \in VA, Writes(g, w, p) PROVE FALSE
    <3>1. w \in {"data", "stack"}
      BY <2>2, <2>3, WriterIs
    <3>2. Exclusive(g, w)
      BY <3>1 DEF Safe, Bookkeeping
    <3>3. /\ pt[g][w] # None /\ pt[g][w].w /\ pt[c][u] # None /\ pt[c][u].pg = pt[g][w].pg
      BY <1>5, <2>1, <2>3 DEF Writes
    <3>4. c = kid[g] /\ pc[g] \in {"remap", "panic"}
      BY <2>2, <3>2, <3>3 DEF Exclusive
    <3>5. g = e
      BY <1>2, <3>4, ForkAssumption DEF Safe, Bookkeeping, OneParent
    <3> QED
      BY <1>1, <3>4, <3>5
  <2> QED
    BY <2>1, <2>3 DEF Sealed, Writes
<1>6. ASSUME NEW u \in Private
      PROVE  /\ View(c, u)' = View(c, u)
             /\ pt[c][u] # None => View(c, u) # None
  <2>1. Source(c, u) = u /\ Source(c, u)' = u
    BY <1>3, <1>4 DEF Source
  <2>2. CASE pt[c][u] = None
    BY <1>4, <2>1, <2>2 DEF View, Visible
  <2>3. CASE pt[c][u] # None
    <3>1. Visible(c, u)
      BY <1>2, <1>5, <2>1, <2>3 DEF Visible, Wanted
    <3>2. Visible(c, u)'
      BY <1>4, <2>1, <2>3 DEF Visible, Wanted
    <3>3. data[pt[c][u].pg] # None
      BY <2>1, <2>3, ViewPage DEF Has, PageOf
    <3> QED
      BY <1>4, <2>1, <3>1, <3>2, <3>3 DEF View
  <2> QED
    BY <2>2, <2>3
<1>7. ASSUME NEW f \in Env, NEW u \in Private PROVE View(f, u)' = View(f, u)
  <2>1. CASE f = c
    BY <1>6, <2>1
  <2>2. CASE f # c
    <3>1. Wanted(f)' <=> Wanted(f)
      BY <1>2, <1>4, <2>2, ForkAssumption DEF Wanted
    <3>2. Source(f, u)' = Source(f, u)
      BY <1>4 DEF Source
    <3> QED
      BY <1>4, <2>2, <3>1, <3>2 DEF View, Visible, Sealed
  <2> QED
    BY <2>1, <2>2
<1>8. common' = common
  BY <1>4 DEF common, Sharers
<1>9. c \notin running /\ running' = running \cup {c}
  <2>1. \A f \in Env : status'[f] = "RUNNABLE" <=> status[f] = "RUNNABLE" \/ f = c
    BY <1>4
  <2> QED
    BY <1>3, <2>1 DEF running
<1>10. Spaces!Only({})
  BY <1>7, ViewsAre DEF Spaces!Only, Private
<1>11. \A v \in {"data", "stack"} : views[c][v] # None
  BY <1>3, <1>6, ViewsAre DEF Private
<1>12. Spaces!Start(c)
  BY <1>8, <1>9, <1>10, <1>11 DEF Spaces!Start
<1> QED
  BY <1>12 DEF Spaces!Next

----------------------------------------------------------------------------
(* The end of an environment *)

LEMMA DestroyStep ==
    ASSUME Safe, Safe', NEW e \in Env, status[e] = "RUNNABLE", EnvDestroy(e)
    PROVE  Spaces!Next
<1>1. PICK c : c = kid[e]
  OBVIOUS
<1>2. /\ pt'[e] = Unmapped /\ \A f \in Env : f # e => pt'[f] = pt[f]
      /\ \A p \in Mapped(pt') : p \in DOMAIN data /\ data'[p] = data[p]
  BY DestroyFacts DEF Safe
<1>3. /\ status'[e] = "FREE" /\ \A f \in Env : f # e => status'[f] = status[f]
      /\ kid'[e] = None /\ \A f \in Env : f # e => kid'[f] = kid[f]
      /\ \A f \in Env : f # e => hpc'[f] = hpc[f] /\ hva'[f] = hva[f]
  BY DEF EnvDestroy, Safe, TypeOK
<1>4. c \in Env => status[c] = "NOT_RUNNABLE" /\ c # e
  BY <1>1, ForkAssumption DEF Safe, Bookkeeping, Local, Family
<1>5. ASSUME NEW u \in Private PROVE View(e, u)' = None
  <2>1. Source(e, u)' \in VA
    BY VAIs DEF Source, Private
  <2>2. pt'[e][Source(e, u)'] = None
    BY <1>2, <2>1 DEF Unmapped
  <2> QED
    BY <2>2 DEF View, Visible
<1>6. ASSUME c \in Env, NEW u \in Private PROVE View(c, u)' = None
  <2>1. \A g \in Env : g # e => kid[g] # c
    BY <1>1, <1>6, ForkAssumption DEF Safe, Bookkeeping, OneParent
  <2>2. ~Wanted(c)'
    BY <1>3, <1>4, <1>6, <2>1, ForkAssumption DEF Wanted
  <2> QED
    BY <2>2 DEF View, Visible
<1>7. ASSUME NEW f \in Env, NEW u \in Private, f # e, f # c PROVE View(f, u)' = View(f, u)
  <2>1. PICK s \in VA : s = Source(f, u) /\ s = Source(f, u)'
    BY <1>3, <1>7, VAIs DEF Source, Private
  <2>2. pt'[f][s] = pt[f][s]
    BY <1>2, <1>7
  <2>3. /\ (Has(f, u)' <=> Has(f, u)) /\ PageOf(f, u)' = PageOf(f, u)
    BY <2>1, <2>2 DEF Has, PageOf
  <2>4. Wanted(f)' <=> Wanted(f)
    BY <1>1, <1>3, <1>7, ForkAssumption DEF Wanted
  <2>5. Has(f, u) => data'[PageOf(f, u)] = data[PageOf(f, u)]
    <3> HAVE Has(f, u)
    <3>1. pt'[f][s] # None /\ pt'[f][s].pg = PageOf(f, u)
      BY <2>1, <2>2 DEF Has, PageOf
    <3>2. PageOf(f, u) \in Mapped(pt')
      BY <3>1, MappedIs
    <3> QED
      BY <1>2, <3>2
  <2>6. PICK p : p = PageOf(f, u)
    OBVIOUS
  <2>7. ASSUME Has(f, u), NEW w \in VA, Writes(e, w, p) PROVE FALSE
    <3>1. p[2] = u
      BY <2>6, <2>7, ViewPage
    <3>2. w \in {"data", "stack"}
      BY <2>7, <3>1, WriterIs
    <3>3. Exclusive(e, w)
      BY <3>2 DEF Safe, Bookkeeping
    <3>4. pt[f][s] # None /\ pt[f][s].pg = pt[e][w].pg /\ pt[e][w] # None /\ pt[e][w].w
      BY <2>1, <2>6, <2>7 DEF Has, PageOf, Writes
    <3> QED
      BY <1>1, <1>7, <3>3, <3>4 DEF Exclusive
  <2>8. ASSUME Has(f, u), NEW g \in Env, NEW w \in VA
        PROVE  Writes(g, w, p)' <=> Writes(g, w, p)
    <3>1. CASE g = e
      <4>1. ~(Writes(e, w, p)')
        BY <1>2 DEF Writes, Unmapped
      <4> QED
        BY <2>7, <2>8, <3>1, <4>1
    <3>2. CASE g # e
      BY <1>2, <3>2 DEF Writes
    <3> QED
      BY <3>1, <3>2
  <2>9. Has(f, u) => \A g \in Env \ {f}, w \in VA :
                        Writes(g, w, PageOf(f, u))' <=> Writes(g, w, PageOf(f, u))
    BY <2>3, <2>6, <2>8
  <2>10. Kept(f, u)
    BY <1>3, <1>7, <2>3, <2>4, <2>5, <2>9 DEF Kept
  <2> QED
    BY <2>10, KeptView
<1>8. common' \in {common, None}
  <2>1. common = IF Sharers = {} THEN None ELSE data[SharePage]
    BY CommonIs
  <2>2. (common = IF Sharers = {} THEN None ELSE data[SharePage])'
    BY CommonIs, PTL
  <2>3. ASSUME Sharers' # {} PROVE Sharers # {} /\ data'[SharePage] = data[SharePage]
    <3>1. Sharers' \subseteq Sharers
      <4>1. "share" \in VA
        BY VAIs
      <4> QED
        BY <1>2, <4>1 DEF Sharers, Unmapped
    <3>2. (Safe /\ Sharers # {} => SharePage \in DOMAIN data /\ data[SharePage] \in Value)'
      BY SharedInUse, PTL
    <3>3. SharePage \in Mapped(pt')
      BY <2>3, <3>2 DEF Safe, TypeOK
    <3> QED
      BY <1>2, <2>3, <3>1, <3>3
  <2> QED
    BY <2>1, <2>2, <2>3
<1>9. e \in running /\ running' = running \ {e}
  <2>1. \A f \in Env : status'[f] = "RUNNABLE" <=> status[f] = "RUNNABLE" /\ f # e
    BY <1>3
  <2> QED
    BY <2>1 DEF running
<1> DEFINE unborn == Env \cap {c}
<1>10. unborn \subseteq Env \ running
  BY <1>4 DEF running
<1>11. \A f \in {e} \cup unborn, u \in Private : views'[f][u] = None
  BY <1>5, <1>6, ViewsAre
<1>12. Spaces!Only(({e} \cup unborn) \X Private)
  <2>1. ASSUME NEW f \in Env, NEW u \in Private, <<f, u>> \notin ({e} \cup unborn) \X Private
        PROVE  views'[f][u] = views[f][u]
    BY <1>7, <2>1, ViewsAre
  <2> QED
    BY <2>1 DEF Spaces!Only, Private
<1>13. Spaces!Die(e, unborn)
  BY <1>8, <1>9, <1>10, <1>11, <1>12 DEF Spaces!Die, Private
<1> QED
  BY <1>10, <1>13 DEF Spaces!Next

----------------------------------------------------------------------------
(* Every step *)

\* Stores by programs, by fork() and by the return from the upcall.
LEMMA StoreStep ==
    ASSUME Safe, Safe', NEW e \in Env,
           \/ UserStore(e) \/ SetHandler(e) \/ SetThisenv(e) \/ UpcallReturn(e)
    PROVE  Spaces!Next \/ UNCHANGED <<views, common, running>>
<1>1. CASE UserStore(e)
  <2>1. PICK v \in {"data", "share", "stack"}, x \in Value : Store(e, v, x)
    BY <1>1 DEF UserStore
  <2>2. /\ status[e] = "RUNNABLE" /\ hpc[e] = "none" /\ status' = status /\ kid' = kid
        /\ hpc' = hpc /\ hva' = hva
    BY <1>1 DEF UserStore, At, Running, envs, prog
  <2>3. \A f \in Env, u \in Private : Source(f, u)' = Source(f, u)
    BY <2>2 DEF Source
  <2>4. CASE v = "share"
    BY <2>1, <2>2, <2>3, <2>4, StoreShared
  <2>5. CASE v \in {"data", "stack"}
    BY <2>1, <2>2, <2>3, <2>5, StoreWrites
  <2> QED
    BY <2>4, <2>5
<1>2. CASE SetHandler(e) \/ SetThisenv(e)
  <2>1. PICK x \in Value : Store(e, "data", x)
    BY <1>2 DEF SetHandler, SetThisenv
  <2>2. /\ status[e] = "RUNNABLE" /\ hpc[e] = "none" /\ status' = status /\ kid' = kid
        /\ hpc' = hpc /\ hva' = hva
    BY <1>2 DEF SetHandler, SetThisenv, At, Running, envs
  <2>3. \A f \in Env, u \in Private : Source(f, u)' = Source(f, u)
    BY <2>2 DEF Source
  <2> QED
    BY <2>1, <2>2, <2>3, StoreWrites
<1>3. CASE UpcallReturn(e)
  <2>1. /\ status[e] = "RUNNABLE" /\ hpc[e] = "ret" /\ status' = status /\ kid' = kid
        /\ hva' = [hva EXCEPT ![e] = "stack"]
        /\ \E l \in {"none", "map"} : hpc' = [hpc EXCEPT ![e] = l]
    BY <1>3 DEF UpcallReturn, Running, envs
  <2>2. /\ hpc'[e] \in {"none", "map"}
        /\ \A f \in Env : f # e => hpc'[f] = hpc[f] /\ hva'[f] = hva[f]
    BY <2>1 DEF Safe, TypeOK
  <2>3. \A f \in Env, u \in Private : Source(f, u)' = Source(f, u)
    BY <2>1, <2>2 DEF Source
  <2>4. CASE \E x \in Value : Store(e, "stack", x)
    BY <2>1, <2>3, <2>4, StoreWrites
  <2>5. CASE UNCHANGED <<data, pt, others>>
    BY <2>1, <2>3, <2>5, QuietStutters
  <2> QED
    BY <1>3, <2>4, <2>5 DEF UpcallReturn
<1> QED
  BY <1>1, <1>2, <1>3

\* Steps that only move an environment on.
LEMMA MoveStep ==
    ASSUME Safe, Safe', NEW e \in Env, Panic(e) \/ CallFork(e)
    PROVE  UNCHANGED <<views, common, running>>
<1>1. /\ pt' = pt /\ data' = data /\ status' = status /\ kid' = kid /\ hpc' = hpc /\ hva' = hva
  BY DEF Panic, CallFork, memory, envs
<1> QED
  BY <1>1, QuietStutters DEF Source

\* The fault enters the handler, or is the end of the environment.
LEMMA PageFaultStep ==
    ASSUME Safe, Safe', NEW e \in Env, PageFault(e)
    PROVE  Spaces!Next \/ UNCHANGED <<views, common, running>>
<1>1. status[e] = "RUNNABLE" /\ hpc[e] = "none"
  BY DEF PageFault, Running
<1>2. CASE EnvDestroy(e)
  BY <1>1, <1>2, DestroyStep
<1>3. CASE ~EnvDestroy(e)
  <2>1. PICK v : /\ hpc' = [hpc EXCEPT ![e] = "map"] /\ hva' = [hva EXCEPT ![e] = v]
                 /\ pt' = pt /\ data' = data /\ status' = status /\ kid' = kid
    BY <1>3 DEF PageFault, envs
  <2>2. hpc'[e] = "map" /\ \A f \in Env : f # e => hpc'[f] = hpc[f] /\ hva'[f] = hva[f]
    BY <2>1 DEF Safe, TypeOK
  <2>3. \A f \in Env, u \in Private : Source(f, u)' = Source(f, u)
    BY <1>1, <2>2 DEF Source
  <2> QED
    BY <2>1, <2>3, QuietStutters
<1> QED
  BY <1>2, <1>3

\* An exception stack for e, or for the child.
LEMMA XstackStep ==
    ASSUME Safe, Safe', NEW e \in Env, XstackAlloc(e) \/ KidXstack(e)
    PROVE  UNCHANGED <<views, common, running>>
<1>1. CASE Panic(e)
  BY <1>1, MoveStep
<1>2. CASE ~Panic(e) /\ XstackAlloc(e)
  BY <1>2, XstackStutters DEF XstackAlloc
<1>3. CASE ~Panic(e) /\ KidXstack(e)
  <2>1. PICK c \in Env : c = kid[e]
    BY <1>3 DEF KidXstack, At, Running, Safe, TypeOK, Bookkeeping, Local, Family
  <2>2. /\ SysPageAlloc(e, c, "xstack") /\ status' = status /\ kid' = kid /\ hpc' = hpc
        /\ hva' = hva
    BY <1>3, <2>1 DEF KidXstack
  <2> QED
    BY <2>2, XstackStutters
<1> QED
  BY <1>1, <1>2, <1>3

LEMMA SpacesNext ==
    ASSUME Safe, Safe', [Next]_vars
    PROVE  [Spaces!Next]_<<views, common, running>>
<1>1. CASE OthersExit \/ UNCHANGED vars
  <2>1. /\ pt' = pt /\ data' = data /\ status' = status /\ kid' = kid /\ hpc' = hpc /\ hva' = hva
    BY <1>1 DEF OthersExit, vars, memory, envs, prog
  <2> QED
    BY <2>1, QuietStutters DEF Source
<1>2. ASSUME NEW e \in Env,
             \/ UserStore(e) \/ PageFault(e) \/ FetchFault(e)
             \/ Pgfault(e) \/ CallFork(e) \/ ForkStep(e) \/ Exit(e) \/ Kill(e)
      PROVE  Spaces!Next \/ UNCHANGED <<views, common, running>>
  <2>1. CASE UserStore(e) \/ SetHandler(e) \/ SetThisenv(e) \/ UpcallReturn(e)
    BY <2>1, StoreStep
  <2>2. CASE PageFault(e)
    BY <2>2, PageFaultStep
  <2>3. CASE FetchFault(e) \/ Exit(e) \/ Kill(e)
    <3>1. status[e] = "RUNNABLE" /\ EnvDestroy(e)
      BY <2>3 DEF FetchFault, Exit, Kill, At, Running
    <3> QED
      BY <3>1, DestroyStep
  <2>4. CASE PgfaultMap(e) \/ PgfaultAlloc(e) \/ PgfaultCopy(e)
    BY <2>4, PgfaultMapStutters, PgfaultAllocStutters, PgfaultCopyStutters
  <2>5. CASE CallFork(e)
    BY <2>5, MoveStep
  <2>6. CASE XstackAlloc(e) \/ KidXstack(e)
    BY <2>6, XstackStep
  <2>7. CASE SysExofork(e)
    BY <2>7, SysExoforkStutters
  <2>8. CASE Duppage(e) \/ DuppageOwn(e)
    BY <2>8, DuppageStep, DuppageOwnStep
  <2>9. CASE KidStatus(e)
    BY <2>9, KidStatusStep
  <2> QED
    BY <1>2, <2>1, <2>2, <2>3, <2>4, <2>5, <2>6, <2>7, <2>8, <2>9 DEF Pgfault, ForkStep
<1> QED
  BY <1>1, <1>2 DEF Next

\* The first program has its own memory, and nobody else has any.
LEMMA SpacesInit == Init => Spaces!Init
<1> SUFFICES ASSUME Init PROVE Spaces!Init
  OBVIOUS
<1>1. Safe
  BY SafeInit
<1>2. /\ \A e \in Env : status[e] = IF e = Root THEN "RUNNABLE" ELSE "FREE"
      /\ \A e \in Env : kid[e] = None /\ hpc[e] = "none"
  BY DEF Init
<1>3. \A v \in {"text", "data", "share", "stack"} :
         v \in VA /\ pt[Root][v] # None /\ pt[Root][v].pg = <<Root, v, 0>>
  BY InitTables
<1>4. \A v \in {"text", "data", "share", "stack"} : data[<<Root, v, 0>>] = 1
  BY DEF Init
<1>5. ASSUME NEW u \in Private PROVE View(Root, u) = 1
  <2>1. Source(Root, u) = u /\ u \in VA /\ u \in {"text", "data", "share", "stack"}
    BY <1>2, VAIs, ForkAssumption DEF Source, Private
  <2>2. Visible(Root, u)
    BY <1>2, <1>3, <2>1, ForkAssumption DEF Visible, Wanted
  <2> QED
    BY <1>3, <1>4, <2>1, <2>2, ForkAssumption DEF View
<1>6. ASSUME NEW f \in Env, f # Root, NEW u \in Private PROVE View(f, u) = None
  BY <1>2, <1>6, ForkAssumption DEF View, Visible, Wanted
<1>7. views = [e \in Env |-> IF e = Root THEN [v \in Private |-> 1]
                            ELSE [v \in Private |-> None]]
  BY <1>5, <1>6 DEF views, Private
<1>8. common = 1
  <2>1. Root \in Sharers
    BY <1>3, VAIs, ForkAssumption DEF Sharers
  <2>2. common = data[SharePage]
    BY <1>1, <2>1, CommonIs
  <2> QED
    BY <1>4, <2>2 DEF SharePage
<1>9. running = {Root}
  BY <1>2, ForkAssumption DEF running
<1>10. 1 \in Value /\ [v \in Private |-> 1] \in [Private -> Value]
  BY ForkAssumption
<1> QED
  BY <1>7, <1>8, <1>9, <1>10 DEF Spaces!Init, Spaces!Nothing, Private

\* fork() gives the child a memory of its own (fork.c:88-96), for any number of
\* environments, however they fork, fault, store and die in between: whatever
\* happens is a step of separate address spaces, in which each environment
\* changes only what it reads itself, and the page marked PTE_SHARE.
THEOREM ForkImplementsSpaces == Spec => ForkIsolates
<1>1. Init => Spaces!Init
  BY SpacesInit
<1>2. Safe /\ Safe' /\ [Next]_vars => [Spaces!Next]_<<views, common, running>>
  BY SpacesNext
<1> QED
  BY <1>1, <1>2, AlwaysSafe, PTL DEF Spec, ForkIsolates, Spaces!Spec
=============================================================================
