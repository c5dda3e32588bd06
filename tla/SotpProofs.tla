----------------------------- MODULE SotpProofs -----------------------------
(***************************************************************************)
(* Proofs about Sotp, for areas of any size and any items: with one writer *)
(* at a time it implements SotpStore, whenever the power fails.            *)
(***************************************************************************)
EXTENDS Sotp, TLAPS, WellFoundedInduction, FiniteSetTheorems

\* One thread at a time calls sotp_set, the versions do not wrap, and one
\* garbage collection at most ends during a sotp_get.
OneWriter == \E w : Writers = {w}
NoWrap == MaxVersion + 1 < Versions
OneSwitch == MaxSwitches <= 1

-----------------------------------------------------------------------------
Items == {Item(t, v) : t \in Types, v \in Values}

Holding == {"WRITE", "WRITING", "RETURN", "PROMOTE", "ALONE"}

\* The lock, the garbage collection and their user.
WriterControl ==
    \A w \in Writers :
          /\ ctr = IF wpc[w] \in Holding THEN 1 ELSE 0
          /\ sem = IF wpc[w] \in {"ALONE", "GC"} THEN "held" ELSE "free"
          /\ wpc[w] \notin Finished => boot = "UP" /\ arg[w] \in Items
          /\ wpc[w] = "GC" <=> gc.by = w
          /\ wpc[w] # "PLACE"
          /\ wpc[w] = "WRITING" => slot[w] \in Slots

GcControl ==
    /\ gc.pc = "OFF" <=> gc = NoGc
    /\ gc.by = "init" <=> boot = "GC"
    /\ gc.pc = "OFF" <=> gc.by = "none"
    /\ gc.pc = "ITEM" => gc.by # "init" /\ gc.to = 1
    /\ gc.pc = "COPY" =>
          /\ gc.to \in 1 .. Size - 1
          /\ busy /\ Remaining # {} => gc.to \in 1 .. Size - 2
    /\ gc.pc = "OFF" => busy = FALSE

ControlInv ==
    /\ WriterControl /\ GcControl
    /\ rd.pc # "IDLE" => boot = "UP" /\ rd.type \in Types

-----------------------------------------------------------------------------
(* Minimum and maximum.                                                    *)

LEMMA MinFacts ==
    ASSUME NEW S \in SUBSET Nat, S # {}
    PROVE  Min(S) \in S /\ \A x \in S : Min(S) <= x
<1>. DEFINE R == {ss \in Nat \X Nat : ss[1] < ss[2]}
<1>1. IsWellFoundedOn(R, Nat)
      BY NatLessThanWellFounded DEF OpToRel
<1>. HIDE DEF R
<1>2. PICK x \in S : \A y \in S : ~(<<y, x>> \in R)
  <2>1. S \subseteq Nat
        OBVIOUS
  <2>. QED  BY <1>1, <2>1, WFMin, Zenon
<1>3. ASSUME NEW y \in S PROVE x <= y
  <2>1. x \in Nat /\ y \in Nat
        OBVIOUS
  <2>2. ~(<<y, x>> \in R)
        BY <1>2
  <2>3. ~(y < x)
        BY <2>1, <2>2, Zenon DEF R
  <2>. QED  BY <2>1, <2>3
<1>. QED  BY <1>2, <1>3 DEF Min

LEMMA MaxFacts ==
    ASSUME NEW S \in SUBSET Nat, S # {}, NEW n \in Nat, \A x \in S : x <= n
    PROVE  Max(S) \in S /\ \A x \in S : x <= Max(S)
<1>. DEFINE T == {n - x : x \in S}
<1>1. T \in SUBSET Nat /\ T # {}
  <2>1. \A x \in S : n - x \in Nat
        OBVIOUS
  <2>. QED  BY <2>1
<1>2. Min(T) \in T /\ \A y \in T : Min(T) <= y
      BY <1>1, MinFacts
<1>3. PICK x \in S : n - x = Min(T)
      BY <1>2
<1>4. ASSUME NEW y \in S PROVE y <= x
  <2>1. n - y \in T
        OBVIOUS
  <2>2. n - x <= n - y
        BY <1>2, <1>3, <2>1
  <2>. QED  BY <2>2
<1>. QED  BY <1>4 DEF Max

-----------------------------------------------------------------------------
(* The latest record of a type, as a function of the records of an area.   *)

PrefixOf(A) ==
    {s \in Slots \ {0} : \A r \in 1 .. s : A[r].kind = "item"}

LatestOf(A, a, t) ==
    LET found == {s \in PrefixOf(A) : A[s].type = t}
    IN  IF found = {} THEN Nowhere ELSE [area |-> a, slot |-> Max(found)]

\* The first k records, and no others, are items at the start of the area.
Prefix(A, k) ==
    /\ k \in 0 .. Size - 1
    /\ \A s \in 1 .. k : A[s].kind = "item"
    /\ k + 1 \in Slots => A[k + 1].kind # "item"

\* traverse_active_area stops at the first record that is not an item.
LEMMA PrefixIs ==
    ASSUME NEW A, NEW k, Prefix(A, k)
    PROVE  k \in Nat /\ PrefixOf(A) = 1 .. k
<1>1. Size \in Nat /\ Size >= 3
      BY SotpAssumption
<1>0. k \in Nat
      BY <1>1 DEF Prefix
<1>2. ASSUME NEW s \in 1 .. k PROVE s \in PrefixOf(A)
      BY <1>1 DEF PrefixOf, Prefix, Slots
<1>3. ASSUME NEW s \in PrefixOf(A), s \notin 1 .. k PROVE FALSE
  <2>1. s \in Nat /\ k + 1 \in 1 .. s /\ k + 1 \in Slots
        BY <1>1, <1>3 DEF PrefixOf, Prefix, Slots
  <2>. QED  BY <2>1 DEF PrefixOf, Prefix
<1>. QED  BY <1>0, <1>2, <1>3

\* The latest record is the one with no later record of its type.
LEMMA LatestIs ==
    ASSUME NEW A, NEW k, Prefix(A, k), NEW a, NEW t, NEW s \in 1 .. k,
           A[s].type = t, \A r \in s + 1 .. k : A[r].type # t
    PROVE  LatestOf(A, a, t) = [area |-> a, slot |-> s]
<1>. DEFINE F == {r \in PrefixOf(A) : A[r].type = t}
<1>1. k \in Nat /\ PrefixOf(A) = 1 .. k
      BY PrefixIs
<1>2. F \in SUBSET Nat /\ s \in F /\ \A x \in F : x <= k
      BY <1>1
<1>3. Max(F) \in F /\ \A x \in F : x <= Max(F)
      BY <1>1, <1>2, MaxFacts
<1>4. Max(F) = s
  <2>1. Max(F) \in 1 .. k /\ A[Max(F)].type = t /\ s <= Max(F)
        BY <1>1, <1>2, <1>3
  <2>. QED  BY <1>1, <2>1
<1>. QED  BY <1>2, <1>4 DEF LatestOf

LEMMA LatestNone ==
    ASSUME NEW A, NEW k, Prefix(A, k), NEW a, NEW t,
           \A r \in 1 .. k : A[r].type # t
    PROVE  LatestOf(A, a, t) = Nowhere
<1>1. PrefixOf(A) = 1 .. k
      BY PrefixIs
<1>2. {r \in PrefixOf(A) : A[r].type = t} = {}
      BY <1>1
<1>. QED  BY <1>2 DEF LatestOf

LEMMA LatestFacts ==
    ASSUME NEW A, NEW k, Prefix(A, k), NEW a, NEW t
    PROVE  \/ /\ LatestOf(A, a, t) = Nowhere
              /\ \A r \in 1 .. k : A[r].type # t
           \/ \E s \in 1 .. k :
                 /\ LatestOf(A, a, t) = [area |-> a, slot |-> s]
                 /\ A[s].type = t /\ A[s].kind = "item"
                 /\ \A r \in s + 1 .. k : A[r].type # t
<1>. DEFINE F == {r \in PrefixOf(A) : A[r].type = t}
<1>1. k \in Nat /\ PrefixOf(A) = 1 .. k
      BY PrefixIs
<1>2. CASE F = {}
      BY <1>1, <1>2 DEF LatestOf
<1>3. CASE F # {}
  <2>1. F \in SUBSET Nat /\ \A x \in F : x <= k
        BY <1>1
  <2>2. Max(F) \in F /\ \A x \in F : x <= Max(F)
        BY <1>1, <1>3, <2>1, MaxFacts
  <2>3. LatestOf(A, a, t) = [area |-> a, slot |-> Max(F)]
        BY <1>3 DEF LatestOf
  <2>4. Max(F) \in 1 .. k /\ A[Max(F)].type = t
        BY <1>1, <2>2
  <2>5. A[Max(F)].kind = "item"
        BY <2>4 DEF Prefix
  <2>6. ASSUME NEW r \in Max(F) + 1 .. k, A[r].type = t PROVE FALSE
    <3>1. r \in F
          BY <1>1, <2>4, <2>6
    <3>2. r <= Max(F)
          BY <2>2, <3>1
    <3>. QED  BY <1>1, <2>4, <3>2
  <2>. QED  BY <2>3, <2>4, <2>5, <2>6
<1>. QED  BY <1>2, <1>3

\* What follows the first k records does not matter, nor what is before them.
LEMMA LatestSame ==
    ASSUME NEW A, NEW B, NEW k, Prefix(A, k), Prefix(B, k),
           \A s \in 1 .. k : B[s] = A[s], NEW a, NEW t
    PROVE  LatestOf(B, a, t) = LatestOf(A, a, t)
<1>1. CASE LatestOf(A, a, t) = Nowhere /\ \A r \in 1 .. k : A[r].type # t
      BY <1>1, LatestNone
<1>2. ASSUME NEW s \in 1 .. k, A[s].type = t,
             LatestOf(A, a, t) = [area |-> a, slot |-> s],
             \A r \in s + 1 .. k : A[r].type # t
      PROVE  LatestOf(B, a, t) = LatestOf(A, a, t)
  <2>1. B[s].type = t /\ \A r \in s + 1 .. k : B[r].type # t
        BY <1>2 DEF Prefix
  <2>. QED  BY <1>2, <2>1, LatestIs
<1>. QED  BY <1>1, <1>2, LatestFacts

\* A record that is appended is the latest of its type, and no other changes.
LEMMA LatestAppend ==
    ASSUME NEW A, NEW B, NEW k, Prefix(A, k), Prefix(B, k + 1),
           \A s \in 1 .. k : B[s] = A[s], NEW a, NEW t
    PROVE  LatestOf(B, a, t) =
              IF B[k + 1].type = t THEN [area |-> a, slot |-> k + 1]
              ELSE LatestOf(A, a, t)
<1>0. k \in Nat
      BY PrefixIs
<1>1. CASE B[k + 1].type = t
      BY <1>0, <1>1, LatestIs
<1>2. CASE B[k + 1].type # t
  <2>1. CASE LatestOf(A, a, t) = Nowhere /\ \A r \in 1 .. k : A[r].type # t
        BY <1>0, <1>2, <2>1, LatestNone
  <2>2. ASSUME NEW s \in 1 .. k, A[s].type = t,
               LatestOf(A, a, t) = [area |-> a, slot |-> s],
               \A r \in s + 1 .. k : A[r].type # t
        PROVE  LatestOf(B, a, t) = LatestOf(A, a, t)
    <3>1. s \in 1 .. k + 1 /\ B[s].type = t
          BY <1>0, <2>2
    <3>2. \A r \in s + 1 .. k + 1 : B[r].type # t
          BY <1>0, <1>2, <2>2
    <3>. QED  BY <2>2, <3>1, <3>2, LatestIs
  <2>. QED  BY <1>2, <2>1, <2>2, LatestFacts
<1>. QED  BY <1>1, <1>2

-----------------------------------------------------------------------------
(* Flash operations.                                                       *)

Flash == [Areas -> [Slots -> Record]]

LEMMA SlotFacts ==
    /\ Size \in Nat /\ Size >= 3
    /\ 0 \in Slots /\ 1 \in Slots
    /\ \A s : s \in Slots <=> s \in Nat /\ s < Size
    /\ \A a \in Areas : 1 - a \in Areas /\ 1 - a # a /\ 1 - (1 - a) = a
    /\ \A a \in Areas, b \in Areas : b = a \/ b = 1 - a
BY SotpAssumption DEF Slots, Areas

LEMMA RecordFacts ==
    /\ {Blank, Torn, Garbage} \subseteq Record /\ Items \subseteq Record
    /\ \A n \in 0 .. Versions - 1 : Master(n) \in Record
    /\ \A r \in Record : r.kind = "item" <=> r \in Items
    /\ \A r \in Items : r.type \in Types /\ r.kind = "item"
    /\ \A r \in Record : r.kind = "master" =>
          r.value \in 0 .. Versions - 1 /\ r = Master(r.value)
    /\ \A n : Master(n).kind = "master" /\ Master(n).value = n
    /\ Blank.kind = "blank" /\ Torn.kind = "torn" /\ Garbage.kind = "garbage"
<1>1. Blank.kind = "blank" /\ Torn.kind = "torn" /\ Garbage.kind = "garbage"
      BY DEF Blank, Torn, Garbage
<1>2. \A n : Master(n).kind = "master" /\ Master(n).value = n
      BY DEF Master
<1>3. \A t, v : Item(t, v).kind = "item" /\ Item(t, v).type = t
      BY DEF Item
<1>4. \A r \in Items : r.type \in Types /\ r.kind = "item"
      BY <1>3 DEF Items
<1>5. /\ {Blank, Torn, Garbage} \subseteq Record /\ Items \subseteq Record
      /\ \A n \in 0 .. Versions - 1 : Master(n) \in Record
      BY DEF Record, Items
<1>6. \A r \in Record : r.kind = "item" <=> r \in Items
      BY <1>1, <1>2, <1>4 DEF Record, Items
<1>7. \A r \in Record : r.kind = "master" =>
          r.value \in 0 .. Versions - 1 /\ r = Master(r.value)
      BY <1>1, <1>2, <1>3 DEF Record
<1>. QED  BY <1>1, <1>2, <1>4, <1>5, <1>6, <1>7

LEMMA BeginFacts ==
    ASSUME flash \in Flash, NEW a \in Areas, NEW s \in Slots, Begin(a, s)
    PROVE  /\ flash' \in Flash /\ flash'[1 - a] = flash[1 - a]
           /\ \A r \in Slots \ {s} : flash'[a][r] = flash[a][r]
           /\ flash'[a][s] = IF flash[a][s] = Blank THEN Torn ELSE Garbage
BY SlotFacts, RecordFacts DEF Begin, Flash

LEMMA EndFacts ==
    ASSUME flash \in Flash, NEW a \in Areas, NEW s \in Slots,
           NEW record \in Record, End(a, s, record)
    PROVE  /\ flash' \in Flash /\ flash'[1 - a] = flash[1 - a]
           /\ \A r \in Slots \ {s} : flash'[a][r] = flash[a][r]
           /\ flash'[a][s] = IF flash[a][s] = Torn THEN record ELSE Garbage
BY SlotFacts, RecordFacts DEF End, Flash

LEMMA BeginEraseFacts ==
    ASSUME flash \in Flash, NEW a \in Areas, BeginErase(a)
    PROVE  /\ flash' \in Flash /\ flash'[1 - a] = flash[1 - a]
           /\ \A s \in Slots : flash'[a][s] \in {flash[a][s], Blank, Garbage}
<1>1. PICK kept \in {{}, {0}, Slots \ {0}, Slots}, rest \in {Blank, Garbage} :
          flash' = [flash EXCEPT ![a] =
                      [s \in Slots |-> IF s \in kept THEN flash[a][s] ELSE rest]]
      BY DEF BeginErase
<1>2. flash'[a] = [s \in Slots |-> IF s \in kept THEN flash[a][s] ELSE rest]
      BY <1>1 DEF Flash
<1>3. flash'[a] \in [Slots -> Record]
      BY <1>2, RecordFacts DEF Flash
<1>4. flash'[1 - a] = flash[1 - a]
      BY <1>1, SlotFacts DEF Flash
<1>5. flash' \in Flash
      BY <1>1, <1>2, <1>3 DEF Flash
<1>6. \A s \in Slots : flash'[a][s] \in {flash[a][s], Blank, Garbage}
      BY <1>2
<1>. QED  BY <1>4, <1>5, <1>6

LEMMA EndEraseFacts ==
    ASSUME flash \in Flash, NEW a \in Areas, EndErase(a)
    PROVE  /\ flash' \in Flash /\ flash'[1 - a] = flash[1 - a]
           /\ \A s \in Slots : flash'[a][s] = Blank
BY SlotFacts, RecordFacts DEF EndErase, Flash

\* The latest record is somewhere in its area.
LEMMA LatestType ==
    ASSUME NEW A \in [Slots -> Record], NEW a \in Areas, NEW t
    PROVE  LatestOf(A, a, t) \in Places
<1>. DEFINE F == {s \in PrefixOf(A) : A[s].type = t}
<1>1. F \in SUBSET Nat /\ F \subseteq Slots /\ \A x \in F : x <= Size
      BY SlotFacts DEF PrefixOf
<1>2. CASE F = {}
      BY <1>2, SlotFacts DEF LatestOf, Places, Nowhere, Areas
<1>3. CASE F # {}
  <2>1. Max(F) \in F
        BY <1>1, <1>3, MaxFacts, SlotFacts
  <2>. QED  BY <1>1, <1>3, <2>1 DEF LatestOf, Places
<1>. QED  BY <1>2, <1>3

LEMMA AreaFacts ==
    /\ ActiveArea \in Areas
    /\ \A a \in Areas : \A t : Latest(a, t) = LatestOf(flash[a], a, t)
    /\ \A a \in Areas : ValidPrefix(a) = PrefixOf(flash[a])
BY DEF ActiveArea, Newer, Areas, Latest, LatestOf, ValidPrefix, PrefixOf

LEMMA FreeType ==
    ASSUME NEW A
    PROVE  1 + Max(PrefixOf(A) \cup {0}) \in Nat
<1>. DEFINE F == PrefixOf(A) \cup {0}
<1>1. F \in SUBSET Nat /\ F # {} /\ \A x \in F : x <= Size
      BY SlotFacts DEF PrefixOf
<1>2. Max(F) \in F
      BY <1>1, MaxFacts, SlotFacts
<1>. QED  BY <1>1, <1>2

-----------------------------------------------------------------------------
(* Types, the lock and who holds it.                                       *)

\* Nobody writes or collects before sotp_init has looked at the flash.
LEMMA Owners ==
    ASSUME NEW w, Writers = {w}, TypeOK, ControlInv
    PROVE  /\ gc.by \in {w, "none", "init"} /\ w \notin {"none", "init"}
           /\ wpc[w] \in Pcs /\ (wpc[w] \in Finished \/ boot = "UP")
           /\ boot \notin {"GC", "UP"} => gc = NoGc
           /\ wpc[w] \notin {"GC"} /\ boot = "UP" => gc = NoGc
           /\ gc = NoGc => ~busy /\ gc.pc = "OFF" /\ gc.by = "none"
           /\ rd.pc # "IDLE" => boot = "UP"
           /\ gc.pc # "OFF" => boot = IF gc.by = "init" THEN "GC" ELSE "UP"
           /\ gc.pc # "OFF" /\ gc.by # "init" => gc.by = w /\ wpc[w] = "GC"
<1>1. gc.by \in {w, "none", "init"} /\ w \notin {"none", "init"}
      BY SotpAssumption DEF TypeOK
<1>2. wpc[w] \in Pcs /\ (wpc[w] \in Finished \/ boot = "UP")
      BY DEF TypeOK, ControlInv, WriterControl
<1>3. gc.by = w => wpc[w] = "GC" /\ boot = "UP"
      BY <1>2 DEF ControlInv, WriterControl, Finished
<1>4. gc.by = "none" => gc = NoGc
      BY DEF ControlInv, WriterControl, GcControl
<1>5. /\ boot \notin {"GC", "UP"} => gc = NoGc
      /\ wpc[w] \notin {"GC"} /\ boot = "UP" => gc = NoGc
      BY <1>1, <1>3, <1>4 DEF ControlInv, WriterControl, GcControl
<1>6. gc = NoGc => ~busy /\ gc.pc = "OFF" /\ gc.by = "none"
      BY DEF ControlInv, GcControl
<1>7. rd.pc # "IDLE" => boot = "UP"
      BY DEF ControlInv
<1>8. gc.pc # "OFF" => boot = IF gc.by = "init" THEN "GC" ELSE "UP"
      BY <1>1, <1>3 DEF ControlInv, WriterControl, GcControl
<1>9. gc.pc # "OFF" /\ gc.by # "init" => gc.by = w /\ wpc[w] = "GC"
      BY <1>1, <1>3 DEF ControlInv, WriterControl, GcControl
<1>. QED  BY <1>1, <1>2, <1>5, <1>6, <1>8, <1>9, <1>7

\* sotp_init.
LEMMA BootControl ==
    ASSUME NEW w, Writers = {w}, TypeOK, ControlInv, Boot
    PROVE  TypeOK' /\ ControlInv'
<1>0. flash \in Flash
      BY DEF TypeOK, Flash
<1>1. CASE BootErase
  <2>1. PICK a \in Areas : BeginErase(a) /\ victim' = a
        BY <1>1 DEF BootErase
  <2>2. flash' \in Flash
        BY <1>0, <2>1, BeginEraseFacts
  <2>3. TypeOK'
        BY <1>1, <2>1, <2>2 DEF BootErase, TypeOK, Flash, lockVars, gcVars,
           writerVars
  <2>4. ControlInv'
        BY <1>1 DEF BootErase, ControlInv, WriterControl, GcControl,
             Remaining, lockVars, gcVars,
           writerVars, TypeOK, Holding, Finished
  <2>. QED  BY <2>3, <2>4
<1>2. CASE BootErased
  <2>1. flash' \in Flash
        BY <1>0, <1>2, EndEraseFacts DEF BootErased, TypeOK
  <2>2. TypeOK'
        BY <1>2, <2>1 DEF BootErased, TypeOK, Flash, lockVars, gcVars,
           writerVars, Areas
  <2>3. ControlInv'
        BY <1>2 DEF BootErased, ControlInv, WriterControl, GcControl,
             Remaining, lockVars, gcVars,
           writerVars, TypeOK, Holding, Finished
  <2>. QED  BY <2>2, <2>3
<1>3. CASE BootFresh
  <2>1. flash' \in Flash
        BY <1>0, <1>3, BeginFacts, SlotFacts DEF BootFresh, Areas
  <2>2. TypeOK'
        BY <1>3, <2>1 DEF BootFresh, TypeOK, Flash, lockVars, gcVars,
           writerVars
  <2>3. ControlInv'
        BY <1>3 DEF BootFresh, ControlInv, WriterControl, GcControl,
             Remaining, lockVars, gcVars,
           writerVars, TypeOK, Holding, Finished
  <2>. QED  BY <2>2, <2>3
<1>4. CASE BootFormatted
  <2>1. Master(1) \in Record
        BY RecordFacts, SotpAssumption
  <2>2. flash' \in Flash
        BY <1>0, <1>4, <2>1, EndFacts, SlotFacts DEF BootFormatted, Areas
  <2>3. TypeOK'
        BY <1>4, <2>2 DEF BootFormatted, TypeOK, Flash, lockVars, gcVars,
           writerVars, Areas
  <2>4. ControlInv'
        BY <1>4 DEF BootFormatted, ControlInv, WriterControl, GcControl,
             Remaining, lockVars, gcVars,
           writerVars, TypeOK, Holding, Finished
  <2>. QED  BY <2>3, <2>4
<1>5. CASE BootTraverse
  <2>. DEFINE a == ActiveArea
  <2>1. a \in Areas /\ flash[a] \in [Slots -> Record]
        BY <1>0, AreaFacts DEF Flash
  <2>2. \E b \in Areas : HasMaster(b)
        BY <1>5 DEF BootTraverse
  <2>3. HasMaster(a)
        BY <2>2 DEF ActiveArea, Newer, Areas
  <2>4. version' \in 0 .. Versions - 1
        BY <1>5, <2>1, <2>3, SlotFacts, RecordFacts DEF BootTraverse, HasMaster
  <2>5. free' \in Nat
        BY <1>5, <2>1, AreaFacts, FreeType DEF BootTraverse
  <2>6. where' \in [Types -> Places]
        BY <1>5, <2>1, AreaFacts, LatestType DEF BootTraverse
  <2>7. boot' \in {"GC", "UP"} /\ active' \in Areas
        BY <1>5, <2>1 DEF BootTraverse
  <2>8. gc' \in [pc : {"OFF", "ITEM", "COPY", "ERASE"},
                 by : Writers \cup {"none", "init"}, to : 0 .. Size]
        BY <1>5, SlotFacts DEF BootTraverse, TypeOK
  <2>9. TypeOK'
        BY <1>5, <2>4, <2>5, <2>6, <2>7, <2>8
           DEF BootTraverse, TypeOK, lockVars, writerVars
  <2>10. gc = NoGc /\ busy = FALSE /\ wpc[w] \in Finished /\ boot = "SCAN"
         BY <1>5, Owners DEF BootTraverse
  <2>11. CASE gc' = gc /\ boot' = "UP"
    <3>1. UNCHANGED <<ctr, sem, gc, busy, wpc, arg, slot, rd>>
          BY <1>5, <2>11 DEF BootTraverse, lockVars, writerVars
    <3>. QED  BY <2>9, <2>10, <2>11, <3>1
                 DEF ControlInv, WriterControl, GcControl, NoGc
  <2>12. CASE gc' = [pc |-> "COPY", by |-> "init", to |-> 1] /\ boot' = "GC"
    <3>1. UNCHANGED <<ctr, sem, busy, wpc, arg, slot, rd>>
          BY <1>5, <2>12 DEF BootTraverse, lockVars, writerVars
    <3>2. /\ gc'.pc = "COPY" /\ gc'.by = "init" /\ gc'.to = 1
          /\ gc' # NoGc /\ w # "init" /\ wpc[w] # "GC" /\ rd.pc = "IDLE"
          BY <2>10, <2>12, Owners DEF NoGc, Finished, ControlInv
    <3>3. WriterControl'
          BY <2>10, <2>12, <3>1, <3>2 DEF ControlInv, WriterControl, Finished
    <3>4. GcControl'
          BY <2>10, <2>12, <3>1, <3>2, SlotFacts DEF GcControl
    <3>. QED  BY <2>9, <2>12, <3>1, <3>2, <3>3, <3>4 DEF ControlInv
  <2>. QED  BY <1>5, <2>9, <2>11, <2>12 DEF BootTraverse
<1>. QED  BY <1>1, <1>2, <1>3, <1>4, <1>5 DEF Boot

\* sotp_garbage_collection.
LEMMA GcControlStep ==
    ASSUME NEW w, Writers = {w}, TypeOK, ControlInv, Gc \/ GcFails
    PROVE  TypeOK' /\ ControlInv'
<1>0. flash \in Flash /\ Other \in Areas /\ active \in Areas
      BY SlotFacts DEF TypeOK, Flash, Other
<1>1. CASE GcItem
  <2>1. gc.by = w /\ gc.to = 1 /\ boot = "UP" /\ wpc[w] = "GC"
        BY <1>1, Owners DEF GcItem, ControlInv, GcControl
  <2>2. arg[w] \in Items
        BY <2>1 DEF ControlInv, WriterControl, Finished
  <2>3. UNCHANGED <<sound, boot, victim, ctr, sem, gcFailed, wpc, arg, slot,
                    saved, active, version, free, rd>>
        BY <1>1 DEF GcItem, GcUnchanged, lockVars, writerVars
  <2>4. CASE ~busy /\ Begin(Other, gc.to) /\ UNCHANGED <<gc, where>>
    <3>1. flash' \in Flash
          BY <1>0, <2>1, <2>4, BeginFacts, SlotFacts
    <3>2. TypeOK'
          BY <1>1, <2>3, <2>4, <3>1 DEF GcItem, TypeOK, Flash
    <3>3. ControlInv'
          BY <1>1, <2>3, <2>4 DEF GcItem, ControlInv, WriterControl, GcControl
    <3>. QED  BY <3>2, <3>3
  <2>5. CASE /\ busy /\ End(Other, gc.to, arg[gc.by])
             /\ where' = [where EXCEPT ![arg[gc.by].type] =
                             [area |-> Other, slot |-> gc.to]]
             /\ gc' = [gc EXCEPT !.pc = "COPY", !.to = @ + 1]
    <3>1. flash' \in Flash
          BY <1>0, <2>1, <2>2, <2>5, EndFacts, SlotFacts, RecordFacts
    <3>2. where' \in [Types -> Places]
          BY <1>0, <2>1, <2>5, SlotFacts DEF Places, TypeOK
    <3>0. gc' = [pc |-> "COPY", by |-> gc.by, to |-> gc.to + 1]
      <4>1. gc = [pc |-> gc.pc, by |-> gc.by, to |-> gc.to]
            BY DEF TypeOK
      <4>. QED  BY <2>5, <4>1, Zenon
    <3>3. gc' \in [pc : {"OFF", "ITEM", "COPY", "ERASE"},
                   by : Writers \cup {"none", "init"}, to : 0 .. Size]
          BY <2>1, <3>0, SlotFacts
    <3>4. TypeOK'
          BY <1>1, <2>3, <3>1, <3>2, <3>3 DEF GcItem, TypeOK, Flash
    <3>5. /\ gc'.pc = "COPY" /\ gc'.by = w /\ gc'.to = 2
          /\ gc' # NoGc /\ w \notin {"init", "none"} /\ busy' = FALSE
      <4>1. busy' = FALSE
            BY <1>1, <2>5 DEF GcItem
      <4>2. w \notin {"init", "none"}
            BY Owners
      <4>. QED  BY <2>1, <3>0, <4>1, <4>2 DEF NoGc
    <3>6. WriterControl'
          BY <2>1, <2>3, <3>5 DEF ControlInv, WriterControl
    <3>7. GcControl'
          BY <2>1, <2>3, <3>5, SlotFacts DEF GcControl
    <3>. QED  BY <2>3, <3>4, <3>6, <3>7 DEF ControlInv
  <2>. QED  BY <1>1, <2>4, <2>5 DEF GcItem
<1>2. CASE GcCopy
  <2>1. UNCHANGED <<sound, boot, victim, ctr, sem, gcFailed, wpc, arg, slot,
                    saved, active, version, free, rd>>
        BY <1>2 DEF GcCopy, GcUnchanged, lockVars, writerVars
  <2>2. CASE ~busy /\ gc.to + 1 < Size /\ Begin(Other, gc.to)
             /\ UNCHANGED <<gc, where>>
    <3>1. gc.to \in Slots /\ gc.to \in 1 .. Size - 2
          BY <1>2, <2>2, SlotFacts DEF GcCopy, ControlInv, GcControl
    <3>2. flash' \in Flash
          BY <1>0, <2>2, <3>1, BeginFacts
    <3>3. TypeOK'
          BY <1>2, <2>1, <2>2, <3>2 DEF GcCopy, TypeOK, Flash
    <3>4. ControlInv'
          BY <1>2, <2>1, <2>2, <3>1
             DEF GcCopy, ControlInv, WriterControl, GcControl
    <3>. QED  BY <3>3, <3>4
  <2>3. CASE /\ busy
             /\ End(Other, gc.to, flash[active][where[NextType].slot])
             /\ where' = [where EXCEPT ![NextType] =
                             [area |-> Other, slot |-> gc.to]]
             /\ gc' = [gc EXCEPT !.to = @ + 1]
    <3>1. gc.to \in Slots /\ gc.to \in 1 .. Size - 2
          BY <1>2, <2>3, SlotFacts DEF GcCopy, ControlInv, GcControl
    <3>2. NextType \in Types
      <4>1. Remaining \in SUBSET Nat /\ Remaining \subseteq Types
            BY SotpAssumption DEF Remaining
      <4>. QED  BY <1>2, <4>1, MinFacts DEF GcCopy, NextType
    <3>3. flash[active][where[NextType].slot] \in Record
          BY <1>0, <3>2 DEF TypeOK, Places, Flash
    <3>4. flash' \in Flash
          BY <1>0, <2>3, <3>1, <3>3, EndFacts
    <3>5. where' \in [Types -> Places]
          BY <1>0, <2>3, <3>1 DEF Places, TypeOK
    <3>6. /\ gc'.pc = "COPY" /\ gc'.by = gc.by /\ gc'.to = gc.to + 1
          /\ gc' # NoGc /\ busy' = FALSE
          BY <1>2, <2>3 DEF NoGc, GcCopy, TypeOK
    <3>7. gc' \in [pc : {"OFF", "ITEM", "COPY", "ERASE"},
                   by : Writers \cup {"none", "init"}, to : 0 .. Size]
          BY <2>3, <3>1, SlotFacts DEF TypeOK
    <3>8. TypeOK'
          BY <2>1, <3>4, <3>5, <3>6, <3>7 DEF TypeOK, Flash
    <3>9. WriterControl'
          BY <2>1, <3>6 DEF ControlInv, WriterControl
    <3>10. GcControl'
          BY <1>2, <2>1, <3>1, <3>6, SlotFacts
             DEF GcCopy, GcControl, ControlInv
    <3>. QED  BY <2>1, <3>8, <3>9, <3>10 DEF ControlInv
  <2>. QED  BY <1>2, <2>2, <2>3 DEF GcCopy
<1>3. CASE GcMaster
  <2>1. UNCHANGED <<sound, boot, victim, ctr, sem, gcFailed, wpc, arg, slot,
                    saved, where>>
        BY <1>3 DEF GcMaster, GcUnchanged, lockVars, writerVars
  <2>2. CASE ~busy /\ version' = (version + 1) % Versions
             /\ Begin(Other, 0) /\ UNCHANGED <<gc, active, free, rd>>
    <3>1. flash' \in Flash
          BY <1>0, <2>2, BeginFacts, SlotFacts
    <3>2. version' \in 0 .. Versions - 1
          BY <2>2, SotpAssumption DEF TypeOK
    <3>3. TypeOK'
          BY <1>3, <2>1, <2>2, <3>1, <3>2 DEF GcMaster, TypeOK, Flash
    <3>4. ControlInv'
          BY <1>3, <2>1, <2>2
             DEF GcMaster, ControlInv, WriterControl, GcControl, Remaining
    <3>. QED  BY <3>3, <3>4
  <2>3. CASE /\ busy /\ End(Other, 0, Master(version))
             /\ free' = gc.to /\ active' = Other
             /\ gc' = [gc EXCEPT !.pc = "ERASE"]
             /\ rd' = IF rd.pc = "IDLE" THEN rd
                      ELSE [rd EXCEPT !.switches = @ + 1]
             /\ UNCHANGED version
    <3>1. Master(version) \in Record
          BY RecordFacts DEF TypeOK
    <3>2. flash' \in Flash
          BY <1>0, <2>3, <3>1, EndFacts, SlotFacts
    <3>3. /\ gc'.pc = "ERASE" /\ gc'.by = gc.by /\ gc' # NoGc
          /\ busy' = FALSE /\ rd'.pc = rd.pc /\ rd'.type = rd.type
          BY <1>3, <2>3 DEF NoGc, GcMaster, TypeOK
    <3>4. free' \in Nat
          BY <2>3, SlotFacts DEF TypeOK
    <3>5. rd' \in [pc : {"IDLE", "READ", "INVALID", "FOUND", "OTHER",
                         "CORRUPT"},
                   type : Types \cup {0}, at : Places, switches : Nat]
          BY <2>3 DEF TypeOK
    <3>6. gc' \in [pc : {"OFF", "ITEM", "COPY", "ERASE"},
                   by : Writers \cup {"none", "init"}, to : 0 .. Size]
          BY <2>3 DEF TypeOK
    <3>7. TypeOK'
          BY <1>0, <2>1, <2>3, <3>2, <3>3, <3>4, <3>5, <3>6 DEF TypeOK, Flash
    <3>8. WriterControl'
          BY <2>1, <3>3 DEF ControlInv, WriterControl
    <3>9. GcControl'
          BY <1>3, <2>1, <3>3 DEF GcMaster, GcControl, ControlInv
    <3>. QED  BY <2>1, <3>3, <3>7, <3>8, <3>9 DEF ControlInv
  <2>. QED  BY <1>3, <2>2, <2>3 DEF GcMaster
<1>4. CASE GcErase
  <2>1. flash' \in Flash
        BY <1>0, <1>4, BeginEraseFacts DEF GcErase
  <2>2. TypeOK'
        BY <1>4, <2>1 DEF GcErase, GcUnchanged, TypeOK, Flash, lockVars,
           writerVars
  <2>3. ControlInv'
        BY <1>4 DEF GcErase, GcUnchanged, lockVars, writerVars,
           ControlInv, WriterControl, GcControl
  <2>. QED  BY <2>2, <2>3
<1>5. ASSUME flash' \in Flash, NEW result \in {"OK", "ERROR"}, gc.pc # "OFF",
             GcReturns(result), gcFailed' \in BOOLEAN, sound' \in BOOLEAN,
             UNCHANGED <<active, version, free, where>>
      PROVE  TypeOK' /\ ControlInv'
  <2>1. /\ gc' = NoGc /\ busy' = FALSE /\ boot' = "UP"
        /\ UNCHANGED <<victim, ctr, rd>>
        /\ NoGc.pc = "OFF" /\ NoGc.by = "none"
        BY <1>5 DEF GcReturns, NoGc
  <2>0. NoGc \in [pc : {"OFF", "ITEM", "COPY", "ERASE"},
                  by : Writers \cup {"none", "init"}, to : 0 .. Size]
        BY SlotFacts DEF NoGc
  <2>2. CASE gc.by = "init"
    <3>1. UNCHANGED <<sem, wpc, arg, slot, saved>>
          BY <1>5, <2>2 DEF GcReturns, writerVars
    <3>2. TypeOK'
          BY <1>5, <2>0, <2>1, <3>1 DEF TypeOK, Flash
    <3>3. boot = "GC" /\ wpc[w] \in Finished /\ w # "none"
          BY <1>5, <2>2, Owners
    <3>4. WriterControl'
          BY <2>1, <3>1, <3>3 DEF ControlInv, WriterControl, Finished
    <3>5. GcControl'
          BY <2>1, <3>1 DEF GcControl
    <3>. QED  BY <2>1, <3>2, <3>4, <3>5 DEF ControlInv
  <2>3. CASE gc.by # "init"
    <3>1. gc.by = w /\ wpc[w] = "GC" /\ w # "none" /\ ctr = 0
          BY <1>5, <2>3, Owners DEF ControlInv, WriterControl, Holding
    <3>2. /\ sem' = "free" /\ wpc' = [wpc EXCEPT ![w] = result]
          /\ arg' = [arg EXCEPT ![w] = Blank] /\ slot' = [slot EXCEPT ![w] = 0]
          /\ saved' = [saved EXCEPT ![w] = 0]
          BY <1>5, <2>3, <3>1 DEF GcReturns, Finish
    <3>3. /\ wpc' \in [Writers -> Pcs] /\ arg' \in [Writers -> Record]
          /\ slot' \in [Writers -> Int] /\ saved' \in [Writers -> Areas]
          BY <3>2, RecordFacts DEF TypeOK, Pcs, Finished, Areas
    <3>4. TypeOK'
          BY <1>5, <2>0, <2>1, <3>2, <3>3 DEF TypeOK, Flash
    <3>5. wpc'[w] = result
          BY <3>2 DEF TypeOK
    <3>6. WriterControl'
          BY <2>1, <3>1, <3>2, <3>5 DEF WriterControl, Finished, Holding
    <3>7. GcControl'
          BY <2>1 DEF GcControl
    <3>. QED  BY <2>1, <3>4, <3>6, <3>7 DEF ControlInv
  <2>. QED  BY <2>2, <2>3
<1>6. CASE GcErased
  <2>1. flash' \in Flash
        BY <1>0, <1>6, EndEraseFacts DEF GcErased
  <2>. QED  BY <1>5, <1>6, <2>1 DEF GcErased, TypeOK
<1>7. CASE GcTooSmall
      BY <1>0, <1>5, <1>7 DEF GcTooSmall, TypeOK
<1>8. CASE GcFails
      BY <1>0, <1>5, <1>8 DEF GcFails, TypeOK
<1>. QED  BY <1>1, <1>2, <1>3, <1>4, <1>6, <1>7, <1>8 DEF Gc

\* sotp_set.
LEMMA WriterControlStep ==
    ASSUME NEW w, Writers = {w}, TypeOK, ControlInv,
           \/ \E call \in Calls : Set(w, call[1], call[2])
           \/ Writer(w) \/ WriteFails(w)
    PROVE  TypeOK' /\ ControlInv'
<1>0. flash \in Flash /\ active \in Areas /\ w \notin {"none", "init"}
      BY Owners DEF TypeOK, Flash
<1>1. ASSUME NEW call \in Calls, Set(w, call[1], call[2])
      PROVE  TypeOK' /\ ControlInv'
  <2>1. Item(call[1], call[2]) \in Items
        BY SotpAssumption DEF Items
  <2>2. /\ UNCHANGED <<flash, sound, boot, victim, active, version, free, where,
                       ctr, sem, gc, busy, gcFailed, slot, saved, rd>>
        /\ boot = "UP" /\ wpc[w] \in Finished
        /\ wpc' = [wpc EXCEPT ![w] = "ENTER"]
        /\ arg' = [arg EXCEPT ![w] = Item(call[1], call[2])]
        BY <1>1 DEF Set, ramVars, lockVars, gcVars
  <2>3. wpc'[w] = "ENTER" /\ arg'[w] \in Items
        BY <2>1, <2>2 DEF TypeOK
  <2>4. TypeOK'
        BY <2>1, <2>2, RecordFacts DEF TypeOK, Pcs
  <2>5. WriterControl'
        BY <2>2, <2>3 DEF ControlInv, WriterControl, Holding, Finished
  <2>6. GcControl'
        BY <2>2 DEF ControlInv, GcControl, Remaining
  <2>. QED  BY <2>2, <2>4, <2>5, <2>6 DEF ControlInv
<1>2. CASE Reserve(w)
  <2>1. /\ UNCHANGED <<flash, sound, boot, victim, active, version, where,
                       sem, gc, busy, gcFailed, arg, rd>>
        /\ free' = free + 1 /\ wpc[w] = "ENTER"
        /\ slot' = [slot EXCEPT ![w] = free]
        /\ saved' = [saved EXCEPT ![w] = active]
        BY <1>2 DEF Reserve, gcVars
  <2>2. ctr = 0 /\ sem = "free" /\ boot = "UP" /\ arg[w] \in Items /\ gc.by # w
        BY <1>2, <2>1 DEF ControlInv, WriterControl, Holding, Finished, Reserve
  <2>3. \/ wpc' = [wpc EXCEPT ![w] = "WRITE"] /\ ctr' = 1
        \/ wpc' = [wpc EXCEPT ![w] = "PROMOTE"] /\ ctr' = 1
        \/ wpc' = [wpc EXCEPT ![w] = "AWAIT"] /\ ctr' = 0
        BY <1>2, <2>2 DEF Reserve
  <2>4. \/ wpc'[w] = "WRITE" /\ ctr' = 1
        \/ wpc'[w] = "PROMOTE" /\ ctr' = 1
        \/ wpc'[w] = "AWAIT" /\ ctr' = 0
        BY <2>3 DEF TypeOK
  <2>5. TypeOK'
    <3>1. wpc' \in [Writers -> Pcs] /\ ctr' \in Nat
          BY <2>3 DEF TypeOK, Pcs
    <3>2. /\ free' \in Nat /\ slot' \in [Writers -> Int]
          /\ saved' \in [Writers -> Areas]
          BY <2>1, <1>0 DEF TypeOK
    <3>. QED  BY <2>1, <3>1, <3>2 DEF TypeOK
  <2>6. WriterControl'
        BY <2>1, <2>2, <2>4 DEF WriterControl, Holding, Finished
  <2>7. GcControl'
        BY <2>1 DEF ControlInv, GcControl, Remaining
  <2>. QED  BY <2>1, <2>5, <2>6, <2>7 DEF ControlInv
<1>3. CASE Promote(w)
  <2>1. UNCHANGED <<flash, sound, boot, victim, active, version, free, where,
                    busy, gcFailed, arg, slot, saved, rd>>
        BY <1>3 DEF Promote, ramVars
  <2>2. CASE /\ wpc[w] = "PROMOTE" /\ sem' = "held"
             /\ wpc' = [wpc EXCEPT ![w] = "ALONE"] /\ UNCHANGED <<ctr, gc>>
    <3>1. ctr = 1 /\ boot = "UP" /\ arg[w] \in Items /\ gc.by # w
          BY <2>2 DEF ControlInv, WriterControl, Holding, Finished
    <3>2. wpc'[w] = "ALONE"
          BY <2>2 DEF TypeOK
    <3>3. TypeOK'
          BY <2>1, <2>2 DEF TypeOK, Pcs
    <3>4. WriterControl'
          BY <2>1, <2>2, <3>1, <3>2 DEF WriterControl, Holding, Finished
    <3>5. GcControl'
          BY <2>1, <2>2 DEF ControlInv, GcControl, Remaining
    <3>. QED  BY <2>1, <3>3, <3>4, <3>5 DEF ControlInv
  <2>3. CASE /\ wpc[w] = "ALONE" /\ ctr' = 0
             /\ wpc' = [wpc EXCEPT ![w] = "GC"]
             /\ gc' = [pc |-> "ITEM", by |-> w, to |-> 1] /\ UNCHANGED sem
    <3>1. sem = "held" /\ boot = "UP" /\ arg[w] \in Items
          BY <2>3 DEF ControlInv, WriterControl, Holding, Finished
    <3>2. wpc'[w] = "GC"
          BY <2>3 DEF TypeOK
    <3>3. /\ gc'.pc = "ITEM" /\ gc'.by = w /\ gc'.to = 1 /\ gc' # NoGc
          /\ gc' \in [pc : {"OFF", "ITEM", "COPY", "ERASE"},
                      by : Writers \cup {"none", "init"}, to : 0 .. Size]
          BY <2>3, SlotFacts DEF NoGc
    <3>4. TypeOK'
          BY <2>1, <2>3, <3>3 DEF TypeOK, Pcs
    <3>5. WriterControl'
          BY <2>1, <2>3, <3>1, <3>2, <3>3 DEF WriterControl, Holding, Finished
    <3>6. GcControl'
          BY <1>0, <2>1, <3>1, <3>3 DEF GcControl
    <3>. QED  BY <2>1, <3>4, <3>5, <3>6 DEF ControlInv
  <2>. QED  BY <1>3, <2>2, <2>3 DEF Promote
<1>4. CASE Write(w)
  <2>1. /\ UNCHANGED <<sound, boot, victim, active, version, free, where, ctr,
                       sem, gc, busy, gcFailed, arg, slot, saved, rd>>
        /\ wpc[w] = "WRITE" /\ slot[w] \in Slots /\ Begin(active, slot[w])
        /\ wpc' = [wpc EXCEPT ![w] = "WRITING"]
        BY <1>4 DEF Write, ramVars, lockVars, gcVars
  <2>2. /\ ctr = 1 /\ sem = "free" /\ boot = "UP" /\ arg[w] \in Items
        /\ gc.by # w
        BY <2>1 DEF ControlInv, WriterControl, Holding, Finished
  <2>3. flash' \in Flash
        BY <1>0, <2>1, BeginFacts
  <2>4. wpc'[w] = "WRITING"
        BY <2>1 DEF TypeOK
  <2>5. TypeOK'
        BY <2>1, <2>3 DEF TypeOK, Pcs, Flash
  <2>6. WriterControl'
        BY <2>1, <2>2, <2>4 DEF WriterControl, Holding, Finished
  <2>7. GcControl'
        BY <2>1 DEF ControlInv, GcControl, Remaining
  <2>. QED  BY <2>1, <2>5, <2>6, <2>7 DEF ControlInv
<1>5. CASE Written(w)
  <2>1. /\ UNCHANGED <<sound, boot, victim, active, version, free, ctr,
                       sem, gc, busy, gcFailed, arg, slot, saved, rd>>
        /\ wpc[w] = "WRITING" /\ End(active, slot[w], arg[w])
        /\ where' = [where EXCEPT ![arg[w].type] =
                        [area |-> active, slot |-> slot[w]]]
        /\ wpc' = [wpc EXCEPT ![w] = "RETURN"]
        BY <1>5 DEF Written, lockVars, gcVars
  <2>2. /\ ctr = 1 /\ sem = "free" /\ boot = "UP" /\ arg[w] \in Items
        /\ gc.by # w /\ slot[w] \in Slots /\ gc = NoGc
        BY <2>1, Owners DEF ControlInv, WriterControl, Holding, Finished
  <2>3. flash' \in Flash
        BY <1>0, <2>1, <2>2, RecordFacts, EndFacts
  <2>4. where' \in [Types -> Places]
        BY <1>0, <2>1, <2>2 DEF TypeOK, Places
  <2>5. wpc'[w] = "RETURN"
        BY <2>1 DEF TypeOK
  <2>6. TypeOK'
        BY <2>1, <2>3, <2>4 DEF TypeOK, Pcs, Flash
  <2>7. WriterControl'
        BY <2>1, <2>2, <2>5 DEF WriterControl, Holding, Finished
  <2>8. GcControl'
        BY <2>1, <2>2 DEF ControlInv, GcControl, NoGc
  <2>. QED  BY <2>1, <2>6, <2>7, <2>8 DEF ControlInv
<1>6. CASE Return(w) \/ WriteFails(w)
  <2>1. /\ UNCHANGED <<flash, boot, victim, active, version, free, where,
                       sem, gc, busy, gcFailed, rd>>
        /\ wpc[w] \in {"RETURN", "WRITING"} /\ ctr' = ctr - 1
        /\ sound' \in BOOLEAN
        /\ \E result \in {"OK", "ERROR"} : Finish(w, result)
        BY <1>6 DEF Return, WriteFails, ramVars, gcVars, TypeOK
  <2>2. ctr = 1 /\ sem = "free" /\ boot = "UP" /\ gc.by # w
        BY <2>1 DEF ControlInv, WriterControl, Holding, Finished
  <2>3. PICK result \in {"OK", "ERROR"} : Finish(w, result)
        BY <2>1
  <2>4. /\ wpc' = [wpc EXCEPT ![w] = result]
        /\ arg' = [arg EXCEPT ![w] = Blank]
        /\ slot' = [slot EXCEPT ![w] = 0] /\ saved' = [saved EXCEPT ![w] = 0]
        BY <2>3 DEF Finish
  <2>5. wpc'[w] = result
        BY <2>4 DEF TypeOK
  <2>6. /\ wpc' \in [Writers -> Pcs] /\ arg' \in [Writers -> Record]
        /\ slot' \in [Writers -> Int] /\ saved' \in [Writers -> Areas]
        BY <2>4, RecordFacts DEF TypeOK, Pcs, Finished, Areas
  <2>7. TypeOK'
        BY <2>1, <2>2, <2>6 DEF TypeOK
  <2>8. WriterControl'
        BY <2>1, <2>2, <2>5 DEF WriterControl, Holding, Finished
  <2>9. GcControl'
        BY <2>1 DEF ControlInv, GcControl, Remaining
  <2>. QED  BY <2>1, <2>7, <2>8, <2>9 DEF ControlInv
<1>. QED  BY <1>1, <1>2, <1>3, <1>4, <1>5, <1>6 DEF Writer

\* sotp_get, and a restart.
LEMMA ReaderControlStep ==
    ASSUME TypeOK, ControlInv, Reader \/ \E t \in Types : GetOffset(t)
    PROVE  TypeOK' /\ ControlInv'
<1>1. UNCHANGED <<flash, sound, boot, victim, active, version, free, where,
                  ctr, sem, gc, busy, gcFailed, wpc, arg, slot, saved>>
      BY DEF Reader, GetOffset, GetRecord, GetAgain, GetReturns, ramVars,
             lockVars, gcVars, writerVars
<1>. DEFINE Rd == [pc : {"IDLE", "READ", "INVALID", "FOUND", "OTHER",
                         "CORRUPT"},
                   type : Types \cup {0}, at : Places, switches : Nat]
<1>2. rd' \in Rd /\ (rd'.pc # "IDLE" => boot = "UP" /\ rd'.type \in Types)
  <2>1. ASSUME NEW t \in Types, GetOffset(t)
        PROVE  rd' \in Rd /\ rd'.type \in Types /\ boot = "UP"
        BY <2>1 DEF GetOffset, TypeOK
  <2>2. CASE GetRecord
        BY <2>2 DEF GetRecord, TypeOK, ControlInv
  <2>3. CASE GetAgain
    <3>1. rd.type \in Types /\ where[rd.type] \in Places /\ boot = "UP"
          BY <2>3 DEF GetAgain, ControlInv, TypeOK
    <3>. QED  BY <2>3, <3>1 DEF GetAgain, TypeOK
  <2>4. CASE GetReturns
    <3>1. NoGet \in Rd /\ NoGet.pc = "IDLE"
          BY SlotFacts DEF NoGet, Places, Nowhere, Areas
    <3>. QED  BY <2>4, <3>1 DEF GetReturns
  <2>. QED  BY <2>1, <2>2, <2>3, <2>4 DEF Reader
<1>3. TypeOK'
      BY <1>1, <1>2 DEF TypeOK
<1>4. WriterControl' /\ GcControl'
      BY <1>1 DEF ControlInv, WriterControl, GcControl, Remaining
<1>. QED  BY <1>1, <1>2, <1>3, <1>4 DEF ControlInv

LEMMA RestartControl ==
    ASSUME NEW w, Writers = {w}, flash' \in Flash, sound' \in BOOLEAN,
           boot' = "SCAN", victim' = 0, active' = 0, version' = 0, free' = 0,
           where' = [t \in Types |-> Nowhere], ctr' = 0, sem' = "free",
           gc' = NoGc, busy' = FALSE, gcFailed' = FALSE,
           wpc' = [u \in Writers |-> "NEW"], arg' = [u \in Writers |-> Blank],
           slot' = [u \in Writers |-> 0], saved' = [u \in Writers |-> 0],
           rd' = NoGet
    PROVE  TypeOK' /\ ControlInv'
<1>1. NoGc \in [pc : {"OFF", "ITEM", "COPY", "ERASE"},
                by : Writers \cup {"none", "init"}, to : 0 .. Size]
      /\ NoGc.pc = "OFF" /\ NoGc.by = "none"
      BY SlotFacts DEF NoGc
<1>2. NoGet \in [pc : {"IDLE", "READ", "INVALID", "FOUND", "OTHER", "CORRUPT"},
                 type : Types \cup {0}, at : Places, switches : Nat]
      /\ NoGet.pc = "IDLE"
      BY SlotFacts DEF NoGet, Places, Nowhere, Areas
<1>3. /\ where' \in [Types -> Places] /\ 0 \in 0 .. Versions - 1
      /\ 0 \in Areas /\ Blank \in Record /\ "NEW" \in Pcs
      BY SlotFacts, RecordFacts, SotpAssumption
         DEF Places, Nowhere, Areas, Pcs, Finished
<1>4. /\ wpc' \in [Writers -> Pcs] /\ arg' \in [Writers -> Record]
      /\ slot' \in [Writers -> Int] /\ saved' \in [Writers -> Areas]
      BY <1>3
<1>5. /\ gc' \in [pc : {"OFF", "ITEM", "COPY", "ERASE"},
                  by : Writers \cup {"none", "init"}, to : 0 .. Size]
      /\ rd' \in [pc : {"IDLE", "READ", "INVALID", "FOUND", "OTHER",
                        "CORRUPT"},
                  type : Types \cup {0}, at : Places, switches : Nat]
      BY <1>1, <1>2
<1>6. /\ boot' \in {"SCAN", "ERASING", "FRESH", "GC", "UP"}
      /\ {victim', active'} \subseteq Areas /\ version' \in 0 .. Versions - 1
      /\ free' \in Nat /\ ctr' \in Nat /\ sem' \in {"free", "held"}
      /\ busy' \in BOOLEAN /\ gcFailed' \in BOOLEAN
      BY <1>3
<1>7. TypeOK'
      BY <1>3, <1>4, <1>5, <1>6 DEF TypeOK, Flash
<1>8. WriterControl'
      BY <1>1, SotpAssumption DEF WriterControl, Holding, Finished
<1>9. GcControl'
      BY <1>1 DEF GcControl
<1>. QED  BY <1>2, <1>7, <1>8, <1>9 DEF ControlInv

-----------------------------------------------------------------------------
(* The invariant of a sound store.                                         *)

\* The records of an area: a master record with its version, first k items,
\* blank ones after them; the next record may be torn.
IsMaster(A) == A[0].kind = "master"
Version(A) == A[0].value
Numbered(A) == IsMaster(A) => Version(A) \in 1 .. MaxVersion + 1
Filled(A, k) == \A s \in 1 .. k : A[s].kind = "item"
BlankAfter(A, k) == \A s \in k + 1 .. Size - 1 : A[s] = Blank

Shape(A, k, next) ==
    /\ k \in 0 .. Size - 2 /\ Filled(A, k) /\ BlankAfter(A, k + 1)
    /\ A[k + 1] = next

\* The area that sotp_init takes, of the flash F.
Chosen(F) ==
    IF IsMaster(F[0]) /\ IsMaster(F[1])
      THEN IF Version(F[0]) > Version(F[1]) \/ Version(F[0]) = 0 THEN 0 ELSE 1
      ELSE IF IsMaster(F[1]) THEN 1 ELSE 0

NoMaster(F) == ~IsMaster(F[0]) /\ ~IsMaster(F[1])

\* What a restart may find: no item at all, or an area to be taken, of which
\* the last record is perhaps torn.
BootFlash(F) ==
    /\ Numbered(F[0]) /\ Numbered(F[1])
    /\ NoMaster(F) => \A a \in Areas, s \in Slots : F[a][s].kind # "item"
    /\ ~NoMaster(F) =>
          \E k \in 0 .. Size - 2, next \in {Blank, Torn} :
              /\ Shape(F[Chosen(F)], k, next)
              /\ next = Torn => Version(F[Chosen(F)]) <= MaxVersion

\* sotp_init has not decided yet.
BootInv ==
    /\ BootFlash(flash)
    /\ where = [t \in Types |-> Nowhere] /\ version = 0 /\ gcFailed = FALSE
    /\ boot = "FRESH" =>
          /\ \A s \in Slots : flash[1][s] = Blank
          /\ flash[0][0] = Torn /\ BlankAfter(flash[0], 0)
    /\ boot = "ERASING" =>
          NoMaster(flash) \/ (IsMaster(flash[1 - victim])
                              /\ Chosen(flash) = 1 - victim)

Copying == gc.pc \in {"ITEM", "COPY"}

\* The settled records of the active area.
Used(w) ==
    IF boot = "GC" \/ gc.pc = "ERASE" THEN free - 1
    ELSE IF Copying \/ gcFailed \/ wpc[w] \in {"PROMOTE", "ALONE"} THEN Size - 2
    ELSE IF wpc[w] \in {"WRITE", "WRITING"} THEN free - 2 ELSE free - 1

\* The record after them is being written, or was.
Following(w) ==
    IF (boot = "GC" /\ gc.pc = "COPY") \/ wpc[w] = "WRITING"
      THEN Torn ELSE Blank

ActiveInv(w) ==
    /\ IsMaster(flash[active]) /\ Numbered(flash[active])
    /\ Shape(flash[active], Used(w), Following(w))

\* free_space_offset, and who may be where after a failed collection.
FreeInv(w) ==
    /\ wpc[w] \in {"WRITE", "WRITING"} => slot[w] = free - 1 /\ free < Size
    /\ gcFailed \/ (Copying /\ boot = "UP") \/ wpc[w] \in {"PROMOTE", "ALONE"}
          => free >= Size
    /\ gcFailed => gc.pc = "OFF" /\ wpc[w] \in Finished \cup {"ENTER", "AWAIT"}
    /\ ~gcFailed => wpc[w] # "AWAIT"

MasterBusy == gc.pc = "COPY" /\ busy /\ Remaining = {}

\* A record is to be written: there is a version for the next collection.
Writing(w) ==
    \/ gcFailed \/ Copying
    \/ wpc[w] \in {"ENTER", "WRITE", "WRITING", "PROMOTE", "ALONE"}

\* active_area_version is that of the master record; after the format it is
\* one less, in area 0.
VersionInv(w) ==
    /\ ~gcFailed =>
          LET n == IF MasterBusy THEN version - 1 ELSE version
          IN  n = Version(flash[active])
              \/ (n = 0 /\ Version(flash[active]) = 1 /\ active = 0)
    /\ Writing(w) => Version(flash[active]) <= MaxVersion
    /\ gc.pc # "ERASE" => ~IsMaster(flash[Other])
    /\ gc.pc = "ERASE" /\ IsMaster(flash[Other]) =>
          /\ Numbered(flash[Other])
          /\ \/ Version(flash[active]) > Version(flash[Other])
             \/ Version(flash[active]) = Version(flash[Other]) /\ active = 1

Found(t) == LatestOf(flash[active], active, t)

\* Where the record of a type is, during the copying: still in the active
\* area, or in the other one with the new item or a copy of the latest record.
NotCopied(w, t) ==
    where[t] = Found(t) /\ (gc.by = w => t # arg[w].type)

IsCopied(w, t) ==
    /\ where[t].area = Other /\ where[t].slot \in 1 .. gc.to - 1
    /\ flash[Other][where[t].slot] =
          IF gc.by = w /\ t = arg[w].type THEN arg[w]
          ELSE flash[active][Found(t).slot]
    /\ Found(t).slot # 0 \/ (gc.by = w /\ t = arg[w].type)

CopyInv(w) ==
    /\ \A t \in Types : NotCopied(w, t) \/ IsCopied(w, t)
    /\ \A s \in 1 .. gc.to - 1 :
          /\ flash[Other][s] \in Items
          /\ where[flash[Other][s].type] = [area |-> Other, slot |-> s]

WhereInv(w) ==
    /\ ~gcFailed /\ gc.pc # "COPY" => \A t \in Types : where[t] = Found(t)
    /\ gc.pc = "COPY" => CopyInv(w)
    /\ \A t \in Types :
          \/ where[t] = Nowhere
          \/ /\ where[t].slot # 0
             /\ flash[where[t].area][where[t].slot].kind = "item"
             /\ flash[where[t].area][where[t].slot].type = t

\* The other area.
OtherInv ==
    /\ gc.pc = "OFF" /\ ~gcFailed => \A s \in Slots : flash[Other][s] = Blank
    /\ gc.pc = "ITEM" =>
          /\ flash[Other][0] = Blank /\ BlankAfter(flash[Other], 1)
          /\ flash[Other][1] = IF busy THEN Torn ELSE Blank
    /\ gc.pc = "COPY" =>
          /\ flash[Other][0] = IF MasterBusy THEN Torn ELSE Blank
          /\ BlankAfter(flash[Other], gc.to)
          /\ flash[Other][gc.to] =
                IF busy /\ Remaining # {} THEN Torn ELSE Blank

\* A collection of sotp_init has enough room.
RoomInv ==
    gc.by = "init" /\ gc.pc = "COPY" =>
        /\ IsFiniteSet(Remaining)
        /\ Cardinality(Remaining) + gc.to <= free

\* The record that sotp_get is about to read is that of its type, or its area
\* was erased after a collection.
Holds(r, t) == r.kind = "item" /\ r.type = t
Gone == /\ rd.switches >= 1 /\ rd.at.area # active
        /\ flash[rd.at.area][rd.at.slot] \in {Blank, Garbage}

ReadInv ==
    rd.pc # "IDLE" =>
        /\ rd.pc \in {"READ", "INVALID", "FOUND"}
        /\ where[rd.type] # Nowhere
        /\ Copying => rd.switches = 0
        /\ rd.pc = "READ" =>
              Holds(flash[rd.at.area][rd.at.slot], rd.type) \/ Gone
        /\ rd.pc = "INVALID" => Gone
        /\ rd.pc = "READ" /\ gc.pc = "ERASE" /\ rd.at.area # active
              => rd.switches >= 1

UpInv ==
    \A w \in Writers :
        /\ ActiveInv(w) /\ FreeInv(w) /\ VersionInv(w) /\ WhereInv(w)
        /\ OtherInv /\ RoomInv /\ (OneSwitch => ReadInv)

SotpInv ==
    /\ TypeOK /\ ControlInv
    /\ sound => IF boot \in {"GC", "UP"} THEN UpInv ELSE BootInv

-----------------------------------------------------------------------------
(* sotp_init keeps what there is.                                          *)

LEMMA ChosenFacts ==
    ASSUME NEW F
    PROVE  /\ Chosen(F) \in Areas
           /\ NoMaster(F) <=> ~IsMaster(F[Chosen(F)])
           /\ \A a \in Areas :
                 IsMaster(F[a]) /\ ~IsMaster(F[1 - a]) => Chosen(F) = a
<1>1. Chosen(F) \in Areas /\ (NoMaster(F) <=> ~IsMaster(F[Chosen(F)]))
      BY DEF Chosen, Areas, NoMaster
<1>2. ASSUME NEW a \in Areas, IsMaster(F[a]), ~IsMaster(F[1 - a])
      PROVE  Chosen(F) = a
  <2>1. CASE a = 0
        BY <1>2, <2>1 DEF Chosen
  <2>2. CASE a = 1
        BY <1>2, <2>2 DEF Chosen
  <2>. QED  BY <2>1, <2>2 DEF Areas
<1>. QED  BY <1>1, <1>2

LEMMA ActiveIsChosen == ActiveArea = Chosen(flash)
BY DEF ActiveArea, Newer, HasMaster, Chosen, IsMaster, Version

\* An area that is not the one to be taken may be erased, at once or not.
LEMMA EraseKeeps ==
    ASSUME NEW F, NEW G, NEW a \in Areas, G[1 - a] = F[1 - a],
           \A s \in Slots : G[a][s] \in {F[a][s], Blank, Garbage}
    PROVE  /\ IsMaster(G[a]) => IsMaster(F[a]) /\ Version(G[a]) = Version(F[a])
           /\ IsMaster(F[1 - a]) /\ Chosen(F) = 1 - a =>
                 IsMaster(G[1 - a]) /\ Chosen(G) = 1 - a
           /\ NoMaster(F) => NoMaster(G)
<1>1. IsMaster(G[a]) => IsMaster(F[a]) /\ Version(G[a]) = Version(F[a])
      BY SlotFacts, RecordFacts DEF IsMaster, Version
<1>2. NoMaster(F) => NoMaster(G)
  <2>1. CASE a = 0
        BY <1>1, <2>1 DEF NoMaster
  <2>2. CASE a = 1
        BY <1>1, <2>2 DEF NoMaster
  <2>. QED  BY <2>1, <2>2 DEF Areas
<1>3. ASSUME IsMaster(F[1 - a]), Chosen(F) = 1 - a PROVE Chosen(G) = 1 - a
  <2>1. CASE ~IsMaster(G[a])
        BY <1>3, <2>1, ChosenFacts, SlotFacts
  <2>2. CASE IsMaster(G[a])
    <3>1. CASE a = 0
          BY <1>1, <1>3, <2>2, <3>1 DEF Chosen, Version
    <3>2. CASE a = 1
          BY <1>1, <1>3, <2>2, <3>2 DEF Chosen, Version
    <3>. QED  BY <3>1, <3>2 DEF Areas
  <2>. QED  BY <2>1, <2>2
<1>. QED  BY <1>1, <1>2, <1>3

LEMMA BootErasing ==
    ASSUME flash \in Flash, BootInv, NEW a \in Areas,
           flash'[1 - a] = flash[1 - a],
           \A s \in Slots : flash'[a][s] \in {flash[a][s], Blank, Garbage},
           \/ NoMaster(flash)
           \/ IsMaster(flash[1 - a]) /\ Chosen(flash) = 1 - a,
           boot' = "SCAN" \/ (boot' = "ERASING" /\ victim' = a),
           UNCHANGED <<where, version, gcFailed>>
    PROVE  BootInv'
<1>1. \/ NoMaster(flash')
      \/ IsMaster(flash'[1 - a]) /\ Chosen(flash') = 1 - a
      BY EraseKeeps
<1>2. Numbered(flash'[0]) /\ Numbered(flash'[1])
  <2>1. Numbered(flash[a]) /\ Numbered(flash[1 - a])
        BY DEF BootInv, BootFlash, Areas
  <2>2. Numbered(flash'[a]) /\ Numbered(flash'[1 - a])
        BY <2>1, EraseKeeps DEF Numbered
  <2>. QED  BY <2>2 DEF Areas
<1>3. ASSUME NoMaster(flash')
      PROVE  \A b \in Areas, s \in Slots : flash'[b][s].kind # "item"
  <2>1. NoMaster(flash)
    <3>1. CASE NoMaster(flash)
          BY <3>1
    <3>2. CASE IsMaster(flash[1 - a]) /\ Chosen(flash) = 1 - a
      <4>1. IsMaster(flash'[1 - a])
            BY <3>2, EraseKeeps
      <4>. QED  BY <1>3, <4>1 DEF NoMaster, Areas
    <3>. QED  BY <3>1, <3>2
  <2>2. \A b \in Areas, s \in Slots : flash[b][s].kind # "item"
        BY <2>1 DEF BootInv, BootFlash
  <2>3. \A s \in Slots : flash'[a][s].kind # "item"
        BY <2>2, RecordFacts
  <2>4. \A s \in Slots : flash'[1 - a][s].kind # "item"
        BY <2>2, SlotFacts
  <2>. QED  BY <2>3, <2>4, SlotFacts
<1>4. ASSUME ~NoMaster(flash')
      PROVE  \E k \in 0 .. Size - 2, next \in {Blank, Torn} :
                 /\ Shape(flash'[Chosen(flash')], k, next)
                 /\ next = Torn => Version(flash'[Chosen(flash')]) <= MaxVersion
  <2>1. ~NoMaster(flash)
        BY <1>4, EraseKeeps
  <2>2. Chosen(flash) = 1 - a /\ Chosen(flash') = 1 - a
        BY <1>1, <1>4, <2>1
  <2>3. flash'[Chosen(flash')] = flash[Chosen(flash)]
        BY <2>2
  <2>. QED  BY <2>1, <2>3 DEF BootInv, BootFlash
<1>5. BootFlash(flash')
      BY <1>2, <1>3, <1>4 DEF BootFlash
<1>. QED  BY <1>1, <1>5 DEF BootInv

LEMMA EraseAllowed ==
    ASSUME NEW a \in Areas,
           \/ ~AllBlank(a) /\ ~HasMaster(a)
           \/ HasMaster(0) /\ HasMaster(1) /\ a # ActiveArea
    PROVE  \/ NoMaster(flash)
           \/ IsMaster(flash[1 - a]) /\ Chosen(flash) = 1 - a
<1>1. CASE ~IsMaster(flash[a]) /\ IsMaster(flash[1 - a])
      BY <1>1, ChosenFacts, SlotFacts
<1>2. CASE ~IsMaster(flash[a]) /\ ~IsMaster(flash[1 - a])
      BY <1>2 DEF NoMaster, Areas
<1>3. CASE IsMaster(flash[a])
  <2>1. HasMaster(0) /\ HasMaster(1) /\ a # ActiveArea
        BY <1>3 DEF HasMaster, IsMaster
  <2>2. IsMaster(flash[1 - a])
        BY <2>1 DEF HasMaster, IsMaster, Areas
  <2>. QED  BY <2>1, <2>2, ActiveIsChosen, ChosenFacts, SlotFacts
<1>. QED  BY <1>1, <1>2, <1>3

\* Until it has chosen an area.
LEMMA BootEarly ==
    ASSUME TypeOK, BootInv, BootErase \/ BootErased \/ BootFresh
    PROVE  BootInv' /\ boot' \notin {"GC", "UP"}
<1>0. flash \in Flash
      BY DEF TypeOK, Flash
<1>1. CASE BootErase
  <2>1. PICK a \in Areas :
            /\ \/ ~AllBlank(a) /\ ~HasMaster(a)
               \/ HasMaster(0) /\ HasMaster(1) /\ a # ActiveArea
            /\ victim' = a /\ BeginErase(a)
        BY <1>1 DEF BootErase
  <2>2. boot' = "ERASING" /\ UNCHANGED <<where, version, gcFailed>>
        BY <1>1 DEF BootErase, gcVars
  <2>3. \/ NoMaster(flash)
        \/ IsMaster(flash[1 - a]) /\ Chosen(flash) = 1 - a
        BY <2>1, EraseAllowed
  <2>4. /\ flash'[1 - a] = flash[1 - a]
        /\ \A s \in Slots : flash'[a][s] \in {flash[a][s], Blank, Garbage}
        BY <1>0, <2>1, BeginEraseFacts
  <2>. QED  BY <1>0, <2>1, <2>2, <2>3, <2>4, BootErasing
<1>2. CASE BootErased
  <2>1. victim \in Areas /\ EndErase(victim) /\ boot = "ERASING"
        BY <1>2 DEF BootErased, TypeOK
  <2>2. boot' = "SCAN" /\ UNCHANGED <<where, version, gcFailed>>
        BY <1>2 DEF BootErased, gcVars
  <2>3. \/ NoMaster(flash)
        \/ IsMaster(flash[1 - victim]) /\ Chosen(flash) = 1 - victim
        BY <2>1 DEF BootInv
  <2>4. /\ flash'[1 - victim] = flash[1 - victim]
        /\ \A s \in Slots :
              flash'[victim][s] \in {flash[victim][s], Blank, Garbage}
        BY <1>0, <2>1, EndEraseFacts
  <2>. QED  BY <1>0, <2>1, <2>2, <2>3, <2>4, BootErasing
<1>3. CASE BootFresh
  <2>1. /\ AllBlank(0) /\ AllBlank(1) /\ Begin(0, 0) /\ boot' = "FRESH"
        /\ UNCHANGED <<where, version, gcFailed>>
        BY <1>3 DEF BootFresh, gcVars
  <2>2. /\ flash'[0][0] = Torn /\ flash'[1] = flash[1]
        /\ \A s \in Slots \ {0} : flash'[0][s] = Blank
    <3>1. 0 \in Areas /\ 1 - 0 = 1
          BY DEF Areas
    <3>2. /\ flash'[1 - 0] = flash[1 - 0]
          /\ \A r \in Slots \ {0} : flash'[0][r] = flash[0][r]
          /\ flash'[0][0] = IF flash[0][0] = Blank THEN Torn ELSE Garbage
          BY <1>0, <2>1, <3>1, BeginFacts, SlotFacts
    <3>. QED  BY <2>1, <3>1, <3>2, SlotFacts DEF AllBlank
  <2>3. \A s \in Slots : flash'[1][s] = Blank
        BY <2>1, <2>2 DEF AllBlank
  <2>4. NoMaster(flash')
        BY <2>2, <2>3, SlotFacts, RecordFacts DEF NoMaster, IsMaster
  <2>5. \A a \in Areas, s \in Slots : flash'[a][s].kind # "item"
        BY <2>2, <2>3, RecordFacts DEF Areas
  <2>6. BootFlash(flash')
        BY <2>4, <2>5 DEF BootFlash, Numbered, NoMaster
  <2>7. BlankAfter(flash'[0], 0)
        BY <2>2, SlotFacts DEF BlankAfter
  <2>. QED  BY <2>1, <2>2, <2>3, <2>6, <2>7 DEF BootInv
<1>. QED  BY <1>1, <1>2, <1>3

-----------------------------------------------------------------------------
(* sotp_init leaves the store ready.                                       *)

LEMMA ShapePrefix ==
    ASSUME NEW A, NEW k, NEW next \in {Blank, Torn}, Shape(A, k, next)
    PROVE  /\ Prefix(A, k) /\ k \in Nat /\ k + 1 \in Slots /\ k \in Slots
           /\ A[k + 1] = next /\ next.kind # "item"
BY SlotFacts, RecordFacts DEF Shape, Prefix, Filled

\* The latest record of a type is an item of that type, among the first k.
LEMMA LatestItem ==
    ASSUME NEW A \in [Slots -> Record], NEW k, Prefix(A, k), NEW a, NEW t,
           LatestOf(A, a, t) # Nowhere
    PROVE  /\ LatestOf(A, a, t).area = a
           /\ LatestOf(A, a, t).slot \in 1 .. k
           /\ A[LatestOf(A, a, t).slot].kind = "item"
           /\ A[LatestOf(A, a, t).slot].type = t
<1>1. PICK s \in 1 .. k :
          /\ LatestOf(A, a, t) = [area |-> a, slot |-> s]
          /\ A[s].type = t /\ A[s].kind = "item"
      BY LatestFacts
<1>. QED  BY <1>1

\* The items whose record is in the active area fit in the other one.
LEMMA Fits ==
    ASSUME NEW A \in [Slots -> Record], NEW k \in Nat, Prefix(A, k), NEW a,
           NEW S \in SUBSET Types,
           \A t \in S : LatestOf(A, a, t) # Nowhere
    PROVE  IsFiniteSet(S) /\ Cardinality(S) <= k
<1>. DEFINE f == [t \in S |-> LatestOf(A, a, t).slot]
<1>1. \A t \in S : LatestOf(A, a, t).slot \in 1 .. k
                   /\ A[LatestOf(A, a, t).slot].type = t
      BY LatestItem
<1>2. f \in [S -> 1 .. k]
      BY <1>1
<1>3. ASSUME NEW t \in S, NEW u \in S, f[t] = f[u] PROVE t = u
      BY <1>1, <1>3
<1>4. f \in Injection(S, 1 .. k)
      BY <1>2, <1>3 DEF Injection, IsInjective
<1>5. IsFiniteSet(1 .. k) /\ Cardinality(1 .. k) = k
      BY FS_Interval
<1>. QED  BY <1>4, <1>5, FS_Injection

LEMMA BootFormattedStep ==
    ASSUME NEW w, Writers = {w}, TypeOK, ControlInv, BootInv, BootFormatted
    PROVE  UpInv' /\ boot' = "UP"
<1>1. /\ flash \in Flash /\ boot = "FRESH" /\ End(0, 0, Master(1))
      /\ active' = 0 /\ free' = 1 /\ boot' = "UP"
      /\ UNCHANGED <<version, where, gc, busy, gcFailed, wpc, arg, slot, rd>>
      BY DEF BootFormatted, TypeOK, Flash, gcVars, writerVars
<1>2. /\ gc = NoGc /\ gc.pc = "OFF" /\ gc.by = "none" /\ busy = FALSE
      /\ wpc[w] \in Finished /\ rd.pc = "IDLE"
      BY <1>1, Owners
<1>3. /\ flash'[0][0] = Master(1) /\ BlankAfter(flash'[0], 0)
      /\ \A s \in Slots : flash'[1][s] = Blank
  <2>1. Master(1) \in Record /\ 0 \in Areas /\ 1 - 0 = 1
        BY RecordFacts, SotpAssumption DEF Areas
  <2>2. /\ flash'[1 - 0] = flash[1 - 0]
        /\ \A r \in Slots \ {0} : flash'[0][r] = flash[0][r]
        /\ flash'[0][0] = IF flash[0][0] = Torn THEN Master(1) ELSE Garbage
        BY <1>1, <2>1, EndFacts, SlotFacts
  <2>3. /\ \A s \in Slots : flash[1][s] = Blank
        /\ flash[0][0] = Torn /\ BlankAfter(flash[0], 0)
        BY <1>1 DEF BootInv
  <2>4. BlankAfter(flash'[0], 0)
        BY <2>2, <2>3, SlotFacts DEF BlankAfter
  <2>. QED  BY <2>1, <2>2, <2>3, <2>4
<1>4. /\ where = [t \in Types |-> Nowhere] /\ version = 0 /\ gcFailed = FALSE
      BY DEF BootInv
<1>5. Other' = 1
      BY <1>1 DEF Other
<1>6. Used(w)' = 0 /\ Following(w)' = Blank /\ Copying' = FALSE
      BY <1>1, <1>2, <1>4 DEF Used, Following, Copying, Finished
<1>7. Shape(flash'[0], 0, Blank)
      BY <1>3, SlotFacts DEF Shape, Filled, BlankAfter
<1>8. IsMaster(flash'[0]) /\ Version(flash'[0]) = 1
      BY <1>3, RecordFacts DEF IsMaster, Version
<1>9. ~IsMaster(flash'[1])
      BY <1>3, SlotFacts, RecordFacts DEF IsMaster
<1>10. ActiveInv(w)'
       BY <1>1, <1>6, <1>7, <1>8, SotpAssumption DEF ActiveInv, Numbered
<1>11. FreeInv(w)'
       BY <1>1, <1>2, <1>4, <1>6 DEF FreeInv, Finished
<1>12. VersionInv(w)'
       BY <1>1, <1>2, <1>4, <1>5, <1>6, <1>8, <1>9
          DEF VersionInv, Writing, MasterBusy, Finished
<1>13. WhereInv(w)'
  <2>1. \A t \in Types : LatestOf(flash'[0], 0, t) = Nowhere
    <3>1. Prefix(flash'[0], 0)
          BY <1>7, ShapePrefix
    <3>. QED  BY <3>1, LatestNone
  <2>2. \A t \in Types : where'[t] = Nowhere
        BY <1>1, <1>4
  <2>. QED  BY <1>1, <1>2, <2>1, <2>2 DEF WhereInv, Found
<1>14. OtherInv' /\ RoomInv' /\ ReadInv'
       BY <1>1, <1>2, <1>3, <1>5 DEF OtherInv, RoomInv, ReadInv
<1>. QED  BY <1>1, <1>10, <1>11, <1>12, <1>13, <1>14 DEF UpInv

LEMMA BootTraverseStep ==
    ASSUME NEW w, Writers = {w}, TypeOK, ControlInv, BootInv, BootTraverse
    PROVE  UpInv' /\ boot' \in {"GC", "UP"}
<1>. DEFINE a == ActiveArea
<1>1. /\ flash \in Flash /\ boot = "SCAN"
      /\ active' = a /\ version' = flash[a][0].value
      /\ where' = [t \in Types |-> Latest(a, t)]
      /\ free' = 1 + Max(ValidPrefix(a) \cup {0})
      /\ \/ Faulty(a) /\ boot' = "GC"
            /\ gc' = [pc |-> "COPY", by |-> "init", to |-> 1]
         \/ ~Faulty(a) /\ boot' = "UP" /\ UNCHANGED gc
      /\ UNCHANGED <<flash, busy, gcFailed, wpc, arg, slot, rd>>
      BY DEF BootTraverse, TypeOK, Flash, writerVars
<1>2. /\ gc = NoGc /\ gc.pc = "OFF" /\ gc.by = "none" /\ busy = FALSE
      /\ wpc[w] \in Finished /\ rd.pc = "IDLE" /\ w # "init"
      BY <1>1, Owners
<1>3. /\ a \in Areas /\ IsMaster(flash[a]) /\ flash[a] \in [Slots -> Record]
      /\ \A s \in Slots : flash[1 - a][s] = Blank
  <2>1. PICK b \in Areas : HasMaster(b) /\ AllBlank(1 - b)
        BY DEF BootTraverse
  <2>2. IsMaster(flash[b]) /\ ~IsMaster(flash[1 - b])
        BY <2>1, SlotFacts, RecordFacts DEF HasMaster, IsMaster, AllBlank
  <2>3. a = b
        BY <2>2, ChosenFacts, ActiveIsChosen
  <2>4. \A s \in Slots : flash[1 - b][s] = Blank
        BY <2>1 DEF AllBlank
  <2>. QED  BY <1>1, <2>2, <2>3, <2>4 DEF Flash
<1>4. Numbered(flash[a]) /\ ~NoMaster(flash)
      BY <1>3 DEF BootInv, BootFlash, Areas, NoMaster
<1>5. PICK k \in 0 .. Size - 2, next \in {Blank, Torn} :
          /\ Shape(flash[a], k, next)
          /\ next = Torn => Version(flash[a]) <= MaxVersion
      BY <1>4, ActiveIsChosen DEF BootInv, BootFlash
<1>. HIDE DEF a
<1>6. /\ Prefix(flash[a], k) /\ k \in Nat /\ k + 1 \in Slots /\ k \in Slots
      /\ flash[a][k + 1] = next
      BY <1>5, ShapePrefix
<1>7. ValidPrefix(a) = 1 .. k /\ free' = k + 1
  <2>1. ValidPrefix(a) = 1 .. k
        BY <1>3, <1>6, PrefixIs, AreaFacts
  <2>2. ValidPrefix(a) \cup {0} = 0 .. k
        BY <1>6, <2>1
  <2>3. Max(0 .. k) = k
    <3>1. 0 .. k \in SUBSET Nat /\ k \in 0 .. k /\ \A x \in 0 .. k : x <= k
          BY <1>6
    <3>2. Max(0 .. k) \in 0 .. k /\ \A x \in 0 .. k : x <= Max(0 .. k)
          BY <1>6, <3>1, MaxFacts
    <3>. QED  BY <1>6, <3>1, <3>2
  <2>4. Max(ValidPrefix(a) \cup {0}) = k
        BY <2>2, <2>3
  <2>5. free' = 1 + Max(ValidPrefix(a) \cup {0})
        BY <1>1
  <2>. QED  BY <1>6, <2>1, <2>4, <2>5
<1>8. Faulty(a) <=> next = Torn
  <2>1. \A s \in Slots \ (0 .. k) : s = k + 1 \/ flash[a][s] = Blank
        BY <1>5, <1>6, SlotFacts DEF Shape, BlankAfter
  <2>2. Slots \ (ValidPrefix(a) \cup {0}) = Slots \ (0 .. k)
        BY <1>6, <1>7
  <2>3. k + 1 \in Slots \ (0 .. k)
        BY <1>6
  <2>4. Torn # Blank
        BY RecordFacts
  <2>. QED  BY <1>6, <2>1, <2>2, <2>3, <2>4 DEF Faulty
<1>9. \A t \in Types : where'[t] = LatestOf(flash[a], a, t)
      BY <1>1, <1>3, AreaFacts
<1>10. /\ \/ gc'.pc = "OFF" /\ gc'.by = "none" /\ boot' = "UP" /\ next = Blank
          \/ /\ gc'.pc = "COPY" /\ gc'.by = "init" /\ gc'.to = 1
             /\ boot' = "GC" /\ next = Torn
       /\ gcFailed' = FALSE /\ busy' = FALSE /\ wpc'[w] \in Finished
       BY <1>1, <1>2, <1>8 DEF BootInv
<1>11. Used(w)' = k /\ Following(w)' = next
       BY <1>6, <1>7, <1>10 DEF Used, Following, Copying, Finished
<1>12. ActiveInv(w)'
       BY <1>1, <1>3, <1>4, <1>5, <1>11 DEF ActiveInv
<1>13. FreeInv(w)'
       BY <1>10 DEF FreeInv, Copying, Finished
<1>14. Other' = 1 - a /\ ~IsMaster(flash'[1 - a])
       BY <1>1, <1>3, SlotFacts, RecordFacts DEF Other, IsMaster
<1>15. VersionInv(w)'
  <2>1. MasterBusy' = FALSE
        BY <1>10 DEF MasterBusy
  <2>2. version' = Version(flash'[active'])
        BY <1>1 DEF Version
  <2>3. Copying' => Version(flash'[active']) <= MaxVersion
        BY <1>1, <1>5, <1>10 DEF Copying
  <2>4. wpc'[w] \notin {"ENTER", "WRITE", "WRITING", "PROMOTE", "ALONE"}
        BY <1>10 DEF Finished
  <2>. QED  BY <1>10, <1>14, <2>1, <2>2, <2>3, <2>4 DEF VersionInv, Writing
<1>16. WhereInv(w)'
  <2>1. \A t \in Types : where'[t] = Found(t)'
        BY <1>1, <1>9 DEF Found
  <2>2. gc'.pc = "COPY" => CopyInv(w)'
        BY <1>2, <1>10, <2>1 DEF CopyInv, NotCopied
  <2>3. ASSUME NEW t \in Types, where'[t] # Nowhere
        PROVE  /\ where'[t].slot # 0
               /\ flash'[where'[t].area][where'[t].slot].kind = "item"
               /\ flash'[where'[t].area][where'[t].slot].type = t
        BY <1>1, <1>3, <1>6, <1>9, <2>3, LatestItem
  <2>. QED  BY <2>1, <2>2, <2>3 DEF WhereInv
<1>17. OtherInv'
  <2>1. \A s \in Slots : flash'[Other'][s] = Blank
        BY <1>1, <1>3, <1>14
  <2>2. MasterBusy' = FALSE
        BY <1>10 DEF MasterBusy
  <2>. QED  BY <1>10, <2>1, <2>2, SlotFacts DEF OtherInv, BlankAfter
<1>18. RoomInv'
  <2>1. Remaining' \in SUBSET Types
        BY DEF Remaining
  <2>2. \A t \in Remaining' : LatestOf(flash[a], a, t) # Nowhere
        BY <1>9 DEF Remaining, Nowhere
  <2>3. IsFiniteSet(Remaining') /\ Cardinality(Remaining') <= k
        BY <1>3, <1>6, <2>1, <2>2, Fits
  <2>4. Cardinality(Remaining') \in Nat
        BY <2>3, FS_CardinalityType
  <2>. QED  BY <1>6, <1>7, <1>10, <2>3, <2>4 DEF RoomInv
<1>19. ReadInv'
       BY <1>1, <1>2 DEF ReadInv
<1>. QED  BY <1>1, <1>12, <1>13, <1>15, <1>16, <1>17, <1>18, <1>19 DEF UpInv

-----------------------------------------------------------------------------
(* A restart, and sotp_get.                                                *)

\* A sound store in use, with its only writer.
Up(w) ==
    /\ Writers = {w} /\ TypeOK /\ ControlInv /\ sound /\ boot \in {"GC", "UP"}
    /\ ActiveInv(w) /\ FreeInv(w) /\ VersionInv(w) /\ WhereInv(w)
    /\ OtherInv /\ RoomInv /\ (OneSwitch => ReadInv)

LEMMA UpFacts ==
    ASSUME NEW w, Up(w)
    PROVE  /\ flash \in Flash /\ active \in Areas /\ Other \in Areas
           /\ Other = 1 - active /\ Other # active /\ active = 1 - Other
           /\ flash[active] \in [Slots -> Record]
           /\ flash[Other] \in [Slots -> Record]
           /\ free \in Nat /\ Size \in Nat /\ Size >= 3 /\ busy \in BOOLEAN
           /\ wpc[w] \in Pcs /\ w \in Writers
<1>1. flash \in Flash /\ active \in Areas /\ free \in Nat /\ busy \in BOOLEAN
      /\ wpc[w] \in Pcs /\ w \in Writers
      BY DEF Up, TypeOK, Flash
<1>2. /\ Other \in Areas /\ Other = 1 - active /\ Other # active
      /\ active = 1 - Other
      BY <1>1, SlotFacts DEF Other
<1>. QED  BY <1>1, <1>2, SlotFacts DEF Flash

\* The area in use is the one that a restart would take.
LEMMA ActiveIs ==
    ASSUME NEW w, Up(w)
    PROVE  Chosen(flash) = active /\ ~NoMaster(flash)
<1>1. IsMaster(flash[active]) /\ active \in Areas /\ Other = 1 - active
      BY UpFacts DEF Up, ActiveInv
<1>2. CASE ~IsMaster(flash[Other])
      BY <1>1, <1>2, ChosenFacts
<1>3. CASE IsMaster(flash[Other])
  <2>1. /\ Numbered(flash[Other])
        /\ \/ Version(flash[active]) > Version(flash[Other])
           \/ Version(flash[active]) = Version(flash[Other]) /\ active = 1
        BY <1>3 DEF Up, VersionInv
  <2>2. /\ Version(flash[Other]) \in Nat /\ Version(flash[Other]) >= 1
        /\ Version(flash[active]) \in Nat /\ Version(flash[active]) >= 1
        BY <1>1, <1>3, <2>1, SotpAssumption DEF Numbered, Up, ActiveInv
  <2>3. ASSUME active = 0 PROVE Chosen(flash) = active
    <3>1. Other = 1
          BY <1>1, <2>3
    <3>. QED  BY <1>1, <1>3, <2>1, <2>2, <2>3, <3>1 DEF Chosen
  <2>4. ASSUME active = 1 PROVE Chosen(flash) = active
    <3>1. Other = 0
          BY <1>1, <2>4
    <3>. QED  BY <1>1, <1>3, <2>1, <2>2, <2>4, <3>1 DEF Chosen
  <2>5. Chosen(flash) = active
        BY <1>1, <2>3, <2>4 DEF Areas
  <2>. QED  BY <1>1, <2>5, ChosenFacts
<1>4. Chosen(flash) = active
      BY <1>2, <1>3
<1>. QED  BY <1>1, <1>4, ChosenFacts

LEMMA RestartUp ==
    ASSUME NEW w, Up(w), Restart
    PROVE  BootInv'
<1>1. /\ flash' = flash /\ boot' = "SCAN" /\ version' = 0 /\ gcFailed' = FALSE
      /\ where' = [t \in Types |-> Nowhere]
      BY DEF Restart
<1>2. Chosen(flash) = active /\ ~NoMaster(flash)
      BY ActiveIs
<1>3. Numbered(flash[0]) /\ Numbered(flash[1])
  <2>1. Numbered(flash[active]) /\ Numbered(flash[Other])
        BY DEF Up, ActiveInv, VersionInv, Numbered
  <2>. QED  BY <2>1, UpFacts DEF Areas
<1>4. Used(w) \in 0 .. Size - 2 /\ Shape(flash[active], Used(w), Following(w))
      BY DEF Up, ActiveInv, Shape
<1>5. Following(w) \in {Blank, Torn}
      BY DEF Following
<1>6. ASSUME Following(w) = Torn PROVE Version(flash[active]) <= MaxVersion
  <2>1. Torn # Blank
        BY RecordFacts
  <2>2. Copying \/ wpc[w] = "WRITING"
        BY <1>6, <2>1 DEF Following, Copying
  <2>. QED  BY <2>2 DEF Up, VersionInv, Writing
<1>7. BootFlash(flash)
      BY <1>2, <1>3, <1>4, <1>5, <1>6 DEF BootFlash
<1>. QED  BY <1>1, <1>7 DEF BootInv

LEMMA RestartBoot ==
    ASSUME BootInv, Restart
    PROVE  BootInv'
BY DEF BootInv, Restart

\* What does not depend on the reader, nor on the other history.
upVars == <<flash, boot, active, version, free, where, gc, busy, gcFailed,
            wpc, arg, slot>>

LEMMA UpFrame ==
    ASSUME NEW w, Up(w), UNCHANGED upVars
    PROVE  /\ ActiveInv(w)' /\ FreeInv(w)' /\ VersionInv(w)' /\ WhereInv(w)'
           /\ OtherInv' /\ RoomInv'
<1>1. Remaining' = Remaining /\ Other' = Other
      BY DEF upVars, Remaining, Other
<1>2. Used(w)' = Used(w) /\ Following(w)' = Following(w) /\ Copying' = Copying
      BY DEF upVars, Used, Following, Copying
<1>3. ActiveInv(w)' /\ FreeInv(w)'
      BY <1>2 DEF upVars, Up, ActiveInv, FreeInv
<1>4. MasterBusy' = MasterBusy
      BY <1>1 DEF upVars, MasterBusy
<1>5. VersionInv(w)'
      BY <1>1, <1>2, <1>4 DEF upVars, Up, VersionInv, Writing
<1>6. WhereInv(w)'
      BY <1>1 DEF upVars, Up, WhereInv, CopyInv, NotCopied, IsCopied, Found
<1>7. OtherInv' /\ RoomInv'
      BY <1>1, <1>4 DEF upVars, Up, OtherInv, RoomInv
<1>. QED  BY <1>3, <1>5, <1>6, <1>7

LEMMA ReaderUp ==
    ASSUME NEW w, Up(w), Reader \/ \E t \in Types : GetOffset(t)
    PROVE  UpInv'
<1>1. UNCHANGED upVars
      BY DEF Reader, GetOffset, GetRecord, GetAgain, GetReturns, ramVars,
             gcVars, writerVars, upVars
<1>2. ASSUME OneSwitch PROVE ReadInv'
  <2>0. ReadInv /\ active \in Areas
        BY <1>2, UpFacts DEF Up
  <2>1. UNCHANGED <<flash, active, where, gc>>
        BY <1>1 DEF upVars
  <2>2. ASSUME NEW t \in Types, where[t] # Nowhere
        PROVE  /\ Holds(flash[where[t].area][where[t].slot], t)
               /\ gc.pc = "ERASE" => where[t].area = active
    <3>1. Holds(flash[where[t].area][where[t].slot], t)
          BY <2>2 DEF Up, WhereInv, Holds
    <3>2. ASSUME gc.pc = "ERASE" PROVE where[t].area = active
      <4>1. where[t] = LatestOf(flash[active], active, t)
            BY <3>2 DEF Up, FreeInv, WhereInv, Found
      <4>2. Prefix(flash[active], Used(w))
            BY ShapePrefix DEF Up, ActiveInv, Following
      <4>. QED  BY <2>2, <4>1, <4>2, UpFacts, LatestItem
    <3>. QED  BY <3>1, <3>2
  <2>3. ASSUME NEW t \in Types, GetOffset(t) PROVE ReadInv'
    <3>1. /\ rd'.pc = "READ" /\ rd'.type = t /\ rd'.at = where[t]
          /\ rd'.switches = 0 /\ where[t] # Nowhere
          BY <2>3 DEF GetOffset
    <3>. QED  BY <2>1, <2>2, <3>1 DEF ReadInv
  <2>4. CASE GetRecord
    <3>1. /\ rd.pc = "READ" /\ rd'.type = rd.type /\ rd'.at = rd.at
          /\ rd'.switches = rd.switches
          BY <2>4 DEF GetRecord, Up, TypeOK
    <3>2. CASE Holds(flash[rd.at.area][rd.at.slot], rd.type)
      <4>1. rd'.pc = "FOUND"
            BY <2>4, <3>1, <3>2 DEF GetRecord, Holds, Up, TypeOK
      <4>. QED  BY <2>0, <2>1, <3>1, <4>1 DEF ReadInv, Copying
    <3>3. CASE Gone
      <4>1. rd'.pc = "INVALID"
            BY <2>4, <3>1, <3>3, RecordFacts DEF GetRecord, Gone, Up, TypeOK
      <4>2. Gone'
            BY <2>1, <3>1, <3>3 DEF Gone
      <4>. QED  BY <2>0, <2>1, <3>1, <4>1, <4>2 DEF ReadInv, Copying
    <3>. QED  BY <2>0, <3>1, <3>2, <3>3 DEF ReadInv
  <2>5. CASE GetAgain
    <3>1. rd.pc = "INVALID" /\ Gone /\ rd.type \in Types
          BY <2>0, <2>5 DEF GetAgain, ReadInv, Up, ControlInv
    <3>2. /\ rd'.pc = "READ" /\ rd'.type = rd.type /\ rd'.at = where[rd.type]
          /\ rd'.switches = rd.switches
          BY <2>5, <3>1 DEF GetAgain, Gone, Up, TypeOK
    <3>3. where[rd.type] # Nowhere /\ (Copying => rd.switches = 0)
          BY <2>0, <3>1 DEF ReadInv
    <3>. QED  BY <2>1, <2>2, <3>1, <3>2, <3>3 DEF ReadInv, Copying
  <2>6. CASE GetReturns
        BY <2>6 DEF GetReturns, NoGet, ReadInv
  <2>. QED  BY <2>3, <2>4, <2>5, <2>6 DEF Reader
<1>3. /\ ActiveInv(w)' /\ FreeInv(w)' /\ VersionInv(w)' /\ WhereInv(w)'
      /\ OtherInv' /\ RoomInv'
      BY <1>1, UpFrame
<1>. QED  BY <1>2, <1>3 DEF UpInv, Up

-----------------------------------------------------------------------------
(* sotp_set.                                                               *)

\* A writer in sotp_set that does not collect garbage; nobody else does.
LEMMA NoCollection ==
    ASSUME NEW w, Up(w), wpc[w] # "GC", boot = "UP"
    PROVE  /\ gc = NoGc /\ gc.pc = "OFF" /\ gc.by = "none" /\ ~busy
           /\ ~MasterBusy /\ ~Copying
<1>1. gc = NoGc /\ gc.pc = "OFF" /\ gc.by = "none" /\ ~busy
      BY Owners DEF Up
<1>. QED  BY <1>1 DEF MasterBusy, Copying

\* The steps of a writer that leave the flash and the index alone.
LEMMA WriterFrame ==
    ASSUME NEW w, Up(w), wpc[w] # "GC", wpc'[w] # "GC", boot = "UP",
           UNCHANGED <<flash, boot, active, version, where, gc, busy,
                       gcFailed, rd>>,
           Used(w)' = Used(w), Following(w)' = Following(w),
           FreeInv(w)',
           Writing(w)' => Version(flash[active]) <= MaxVersion
    PROVE  UpInv'
<1>1. /\ gc = NoGc /\ gc.pc = "OFF" /\ gc.by = "none" /\ ~busy /\ ~MasterBusy
      /\ ~Copying
      BY NoCollection
<1>2. ActiveInv(w)'
      BY DEF Up, ActiveInv
<1>3. Other' = Other /\ MasterBusy' = FALSE
      BY <1>1 DEF Other, MasterBusy
<1>4. VersionInv(w)'
      BY <1>1, <1>3 DEF Up, VersionInv
<1>5. WhereInv(w)'
      BY <1>1 DEF Up, WhereInv, Found
<1>6. OtherInv' /\ RoomInv'
      BY <1>1, <1>3 DEF Up, OtherInv, RoomInv
<1>7. OneSwitch => ReadInv'
      BY DEF Up, ReadInv, Gone, Copying
<1>. QED  BY <1>2, <1>4, <1>5, <1>6, <1>7 DEF UpInv, Up

LEMMA SetUp ==
    ASSUME NEW w, Up(w), NEW t, NEW v, Set(w, t, v)
    PROVE  UpInv'
<1>1. /\ wpc[w] \in Finished /\ boot = "UP" /\ version < MaxVersion
      /\ wpc'[w] = "ENTER"
      /\ UNCHANGED <<flash, boot, active, version, free, where, gc, busy,
                     gcFailed, slot, rd>>
      BY DEF Set, ramVars, gcVars, Up, TypeOK
<1>2. /\ gc = NoGc /\ gc.pc = "OFF" /\ ~MasterBusy /\ ~Copying /\ wpc[w] # "GC"
      BY <1>1, NoCollection DEF Finished
<1>3. Used(w)' = Used(w) /\ Following(w)' = Following(w) /\ Copying' = Copying
      BY <1>1 DEF Used, Following, Finished, Copying
<1>4. FreeInv(w)'
      BY <1>1, <1>2, <1>3 DEF Up, FreeInv, Finished
<1>5. Version(flash[active]) <= MaxVersion
  <2>1. CASE gcFailed
        BY <2>1 DEF Up, VersionInv, Writing
  <2>2. CASE ~gcFailed
    <3>1. version = Version(flash[active])
          \/ (version = 0 /\ Version(flash[active]) = 1)
          BY <1>2, <2>2 DEF Up, VersionInv
    <3>. QED  BY <1>1, <3>1, SotpAssumption DEF Up, TypeOK
  <2>. QED  BY <2>1, <2>2
<1>. QED  BY <1>1, <1>2, <1>3, <1>4, <1>5, WriterFrame

LEMMA ReserveUp ==
    ASSUME NEW w, Up(w), Reserve(w)
    PROVE  UpInv'
<1>1. /\ wpc[w] = "ENTER" /\ free' = free + 1 /\ slot'[w] = free
      /\ UNCHANGED <<flash, boot, active, version, where, gc, busy,
                     gcFailed, rd>>
      /\ \/ free + 1 < Size /\ wpc'[w] = "WRITE"
         \/ free + 1 >= Size /\ free < Size /\ wpc'[w] = "PROMOTE"
         \/ free >= Size /\ wpc'[w] = "AWAIT"
      BY DEF Reserve, gcVars, Up, TypeOK
<1>2. boot = "UP" /\ free \in Nat /\ Size \in Nat /\ Size >= 3
      BY <1>1, UpFacts DEF Up, ControlInv, WriterControl, Finished
<1>3. gc = NoGc /\ gc.pc = "OFF" /\ ~Copying
      BY <1>1, <1>2, NoCollection
<1>4. Used(w) = (IF gcFailed THEN Size - 2 ELSE free - 1) /\ Used(w) <= Size - 2
      BY <1>1, <1>2, <1>3 DEF Used, Up, ActiveInv, Shape
<1>5. gcFailed => free >= Size
      BY DEF Up, FreeInv
<1>6. Copying' = FALSE /\ Following(w)' = Following(w)
      BY <1>1, <1>2, <1>3 DEF Copying, Following
<1>7. Used(w)' = Used(w)
      BY <1>1, <1>2, <1>3, <1>4, <1>5, <1>6 DEF Used
<1>8. FreeInv(w)'
  <2>1. wpc'[w] # "AWAIT" <=> ~gcFailed
        BY <1>1, <1>2, <1>4, <1>5
  <2>. QED  BY <1>1, <1>2, <1>3, <1>5, <1>6, <2>1 DEF FreeInv
<1>9. Version(flash[active]) <= MaxVersion
      BY <1>1 DEF Up, VersionInv, Writing
<1>. QED  BY <1>1, <1>2, <1>6, <1>7, <1>8, <1>9, WriterFrame

LEMMA PromoteUp ==
    ASSUME NEW w, Up(w), Promote(w)
    PROVE  UpInv'
<1>0. /\ UNCHANGED <<flash, boot, active, version, free, where, busy,
                     gcFailed, arg, slot, rd>>
      /\ wpc[w] \in {"PROMOTE", "ALONE"}
      BY DEF Promote, ramVars
<1>1. boot = "UP" /\ free >= Size /\ ~gcFailed
      BY <1>0 DEF Up, ControlInv, WriterControl, FreeInv, Finished
<1>2. /\ gc = NoGc /\ gc.pc = "OFF" /\ gc.by = "none" /\ ~busy /\ ~MasterBusy
      /\ ~Copying
      BY <1>0, <1>1, NoCollection
<1>3. Version(flash[active]) <= MaxVersion
      BY <1>0 DEF Up, VersionInv, Writing
<1>4. CASE wpc[w] = "PROMOTE" /\ wpc'[w] = "ALONE" /\ gc' = gc
  <2>1. Used(w)' = Used(w) /\ Following(w)' = Following(w) /\ Copying' = Copying
        BY <1>0, <1>1, <1>4 DEF Used, Following, Copying
  <2>2. FreeInv(w)'
        BY <1>0, <1>1, <1>2, <1>4, <2>1 DEF FreeInv
  <2>. QED  BY <1>0, <1>1, <1>3, <1>4, <2>1, <2>2, WriterFrame
<1>5. CASE /\ wpc[w] = "ALONE" /\ wpc'[w] = "GC"
           /\ rd.pc = "IDLE" \/ rd.switches < MaxSwitches
           /\ gc' = [pc |-> "ITEM", by |-> w, to |-> 1]
  <2>1. gc'.pc = "ITEM" /\ gc'.by = w /\ gc'.to = 1 /\ w # "init"
        BY <1>5, Owners DEF Up
  <2>2. /\ Used(w)' = Used(w) /\ Following(w)' = Following(w)
        /\ Copying' = TRUE /\ MasterBusy' = FALSE /\ Other' = Other
        BY <1>0, <1>1, <1>2, <1>5, <2>1
           DEF Used, Following, Copying, MasterBusy, Other
  <2>3. ActiveInv(w)'
        BY <1>0, <2>2 DEF Up, ActiveInv
  <2>4. FreeInv(w)'
        BY <1>0, <1>1, <1>5, <2>1 DEF FreeInv
  <2>5. VersionInv(w)'
        BY <1>0, <1>1, <1>2, <1>3, <2>1, <2>2 DEF Up, VersionInv
  <2>6. WhereInv(w)'
        BY <1>0, <1>1, <1>2, <2>1 DEF Up, WhereInv, Found
  <2>7. OtherInv'
    <3>1. \A s \in Slots : flash[Other][s] = Blank
          BY <1>1, <1>2 DEF Up, OtherInv
    <3>. QED  BY <1>0, <1>2, <2>1, <2>2, <3>1, SlotFacts
                 DEF OtherInv, BlankAfter
  <2>8. RoomInv'
        BY <2>1 DEF RoomInv
  <2>9. ASSUME OneSwitch PROVE ReadInv'
    <3>1. rd.pc # "IDLE" => rd.switches = 0
      <4>1. rd.switches \in Nat /\ MaxSwitches \in Nat
            BY SotpAssumption DEF Up, TypeOK
      <4>. QED  BY <1>5, <2>9, <4>1 DEF OneSwitch
    <3>. QED  BY <1>0, <2>1, <2>9, <3>1 DEF Up, ReadInv, Gone
  <2>. QED  BY <2>3, <2>4, <2>5, <2>6, <2>7, <2>8, <2>9 DEF UpInv, Up
<1>. QED  BY <1>4, <1>5 DEF Promote, Up, TypeOK

LEMMA ReturnUp ==
    ASSUME NEW w, Up(w), Return(w)
    PROVE  UpInv'
<1>1. /\ wpc[w] = "RETURN" /\ wpc'[w] = "OK"
      /\ UNCHANGED <<flash, boot, active, version, free, where, gc, busy,
                     gcFailed, rd>>
      BY DEF Return, Finish, ramVars, gcVars, Up, TypeOK
<1>2. boot = "UP" /\ ~gcFailed
      BY <1>1 DEF Up, ControlInv, WriterControl, FreeInv, Finished
<1>3. gc.pc = "OFF" /\ ~Copying
      BY <1>1, <1>2, NoCollection
<1>4. Used(w)' = Used(w) /\ Following(w)' = Following(w) /\ Copying' = Copying
      BY <1>1, <1>2 DEF Used, Following, Copying
<1>5. FreeInv(w)'
      BY <1>1, <1>2, <1>3, <1>4 DEF FreeInv, Finished
<1>6. ~Writing(w)'
      BY <1>1, <1>2, <1>3, <1>4 DEF Writing
<1>. QED  BY <1>1, <1>2, <1>4, <1>5, <1>6, WriterFrame

\* sotp_get is not disturbed by the writing of records where there is none.
LEMMA ReadKept ==
    ASSUME NEW w, Up(w), OneSwitch, UNCHANGED <<rd, active>>,
           \A a \in Areas, s \in Slots :
               flash[a][s].kind = "item" => flash'[a][s] = flash[a][s],
           Copying \/ flash'[Other] = flash[Other],
           \A t \in Types : where[t] # Nowhere => where'[t] # Nowhere,
           gc'.pc = gc.pc \/ (gc.pc = "ITEM" /\ gc'.pc = "COPY")
    PROVE  ReadInv'
<1>0. SUFFICES ASSUME rd.pc # "IDLE"
      PROVE  /\ rd.pc \in {"READ", "INVALID", "FOUND"}
             /\ where'[rd.type] # Nowhere
             /\ Copying' => rd.switches = 0
             /\ rd.pc = "READ" =>
                   Holds(flash'[rd.at.area][rd.at.slot], rd.type) \/ Gone'
             /\ rd.pc = "INVALID" => Gone'
             /\ rd.pc = "READ" /\ gc'.pc = "ERASE" /\ rd.at.area # active
                   => rd.switches >= 1
      BY DEF ReadInv
<1>1. /\ ReadInv /\ rd.type \in Types
      /\ rd.at.area \in Areas /\ rd.at.slot \in Slots
      BY <1>0 DEF Up, ControlInv, TypeOK, Places
<1>2. Gone => Gone'
  <2>1. ASSUME Gone PROVE flash'[Other] = flash[Other] /\ rd.at.area = Other
    <3>1. ~Copying
          BY <1>0, <1>1, <2>1 DEF ReadInv, Gone
    <3>. QED  BY <1>1, <2>1, <3>1, UpFacts, SlotFacts DEF Gone
  <2>. QED  BY <2>1 DEF Gone
<1>3. Holds(flash[rd.at.area][rd.at.slot], rd.type) =>
          Holds(flash'[rd.at.area][rd.at.slot], rd.type)
      BY <1>1 DEF Holds
<1>. QED  BY <1>0, <1>1, <1>2, <1>3 DEF ReadInv, Copying

\* A record is begun, or ends, in the active area.
LEMMA WriteUp ==
    ASSUME NEW w, Up(w), Write(w)
    PROVE  UpInv'
<1>1. /\ wpc[w] = "WRITE" /\ wpc'[w] = "WRITING" /\ slot[w] \in Slots
      /\ Begin(active, slot[w])
      /\ UNCHANGED <<boot, active, version, free, where, gc, busy, gcFailed,
                     arg, slot, rd>>
      BY DEF Write, ramVars, gcVars, Up, TypeOK
<1>2. /\ boot = "UP" /\ ~gcFailed /\ slot[w] = free - 1 /\ free < Size
      BY <1>1 DEF Up, ControlInv, WriterControl, FreeInv, Finished
<1>3. /\ gc = NoGc /\ gc.pc = "OFF" /\ gc.by = "none" /\ ~MasterBusy /\ ~Copying
      BY <1>1, <1>2, NoCollection
<1>. DEFINE k == Used(w)
<1>4. /\ k = free - 2 /\ slot[w] = k + 1 /\ Shape(flash[active], k, Blank)
      BY <1>1, <1>2, <1>3, UpFacts DEF Used, Following, Up, ActiveInv
<1>. HIDE DEF k
<1>5. /\ flash'[Other] = flash[Other]
      /\ \A r \in Slots \ {k + 1} : flash'[active][r] = flash[active][r]
      /\ flash'[active][k + 1] = Torn
  <2>1. k + 1 \in Slots /\ flash[active][k + 1] = Blank
        BY <1>4, ShapePrefix
  <2>. QED  BY <1>1, <1>4, <2>1, UpFacts, BeginFacts
<1>6. k \in 0 .. Size - 2 /\ 0 # k + 1
      BY <1>4, UpFacts DEF Shape
<1>7. Shape(flash'[active], k, Torn)
      BY <1>4, <1>5, <1>6, SlotFacts DEF Shape, Filled, BlankAfter
<1>8. flash'[active][0] = flash[active][0]
      BY <1>5, <1>6, SlotFacts
<1>9. Used(w)' = k /\ Following(w)' = Torn /\ Copying' = FALSE
      BY <1>1, <1>2, <1>3, <1>4 DEF Used, Following, Copying
<1>10. ActiveInv(w)'
       BY <1>1, <1>7, <1>8, <1>9 DEF Up, ActiveInv, IsMaster, Numbered, Version
<1>11. FreeInv(w)'
       BY <1>1, <1>2, <1>3, <1>9 DEF FreeInv
<1>12. Other' = Other /\ MasterBusy' = FALSE
       BY <1>1, <1>3 DEF Other, MasterBusy
<1>13. VersionInv(w)'
       BY <1>1, <1>2, <1>3, <1>5, <1>8, <1>12
          DEF Up, VersionInv, Writing, IsMaster, Version
<1>14. WhereInv(w)'
  <2>1. \A t \in Types :
            LatestOf(flash'[active], active, t)
               = LatestOf(flash[active], active, t)
    <3>1. Prefix(flash[active], k) /\ Prefix(flash'[active], k)
          BY <1>4, <1>7, ShapePrefix
    <3>2. \A s \in 1 .. k : flash'[active][s] = flash[active][s]
          BY <1>5, <1>6, SlotFacts
    <3>. QED  BY <3>1, <3>2, LatestSame
  <2>2. \A t \in Types : where[t] = LatestOf(flash[active], active, t)
        BY <1>2, <1>3 DEF Up, WhereInv, Found
  <2>3. ASSUME NEW t \in Types, where[t] # Nowhere
        PROVE  flash'[where[t].area][where[t].slot]
                  = flash[where[t].area][where[t].slot]
    <3>1. where[t].area = active /\ where[t].slot \in 1 .. k
      <4>1. Prefix(flash[active], k)
            BY <1>4, ShapePrefix
      <4>. QED  BY <2>2, <2>3, <4>1, LatestItem, UpFacts
    <3>. QED  BY <1>5, <1>6, <3>1, SlotFacts
  <2>. QED  BY <1>1, <1>3, <2>1, <2>2, <2>3 DEF Up, WhereInv, Found
<1>15. OtherInv' /\ RoomInv'
       BY <1>1, <1>3, <1>5, <1>12 DEF Up, OtherInv, RoomInv
<1>16. ASSUME OneSwitch PROVE ReadInv'
  <2>1. \A a \in Areas, s \in Slots :
            flash[a][s].kind = "item" => flash'[a][s] = flash[a][s]
    <3>1. flash[active][k + 1].kind # "item"
          BY <1>4, ShapePrefix
    <3>. QED  BY <1>5, <3>1, UpFacts, SlotFacts
  <2>. QED  BY <1>1, <1>5, <1>16, <2>1, ReadKept
<1>. QED  BY <1>10, <1>11, <1>13, <1>14, <1>15, <1>16 DEF UpInv, Up

LEMMA WrittenUp ==
    ASSUME NEW w, Up(w), Written(w)
    PROVE  UpInv'
<1>1. /\ wpc[w] = "WRITING" /\ wpc'[w] = "RETURN"
      /\ End(active, slot[w], arg[w])
      /\ where' = [where EXCEPT ![arg[w].type] =
                      [area |-> active, slot |-> slot[w]]]
      /\ UNCHANGED <<boot, active, version, free, gc, busy, gcFailed, rd>>
      BY DEF Written, gcVars, Up, TypeOK
<1>2. /\ boot = "UP" /\ ~gcFailed /\ slot[w] = free - 1 /\ free < Size
      /\ arg[w] \in Items /\ arg[w] \in Record
      BY <1>1, RecordFacts DEF Up, ControlInv, WriterControl, FreeInv, Finished
<1>3. /\ gc = NoGc /\ gc.pc = "OFF" /\ gc.by = "none" /\ ~MasterBusy /\ ~Copying
      BY <1>1, <1>2, NoCollection
<1>. DEFINE k == Used(w)
<1>4. /\ k = free - 2 /\ slot[w] = k + 1 /\ Shape(flash[active], k, Torn)
      BY <1>1, <1>2, <1>3, UpFacts DEF Used, Following, Up, ActiveInv
<1>. HIDE DEF k
<1>5. /\ flash'[Other] = flash[Other]
      /\ \A r \in Slots \ {k + 1} : flash'[active][r] = flash[active][r]
      /\ flash'[active][k + 1] = arg[w]
  <2>1. k + 1 \in Slots /\ flash[active][k + 1] = Torn
        BY <1>4, ShapePrefix
  <2>. QED  BY <1>1, <1>2, <1>4, <2>1, UpFacts, EndFacts
<1>6. /\ k \in Nat /\ k <= Size - 3
      /\ arg[w].kind = "item" /\ arg[w].type \in Types
      BY <1>2, <1>4, UpFacts, RecordFacts DEF Shape
<1>7. Shape(flash'[active], k + 1, Blank)
      BY <1>4, <1>5, <1>6, UpFacts, SlotFacts DEF Shape, Filled, BlankAfter
<1>8. flash'[active][0] = flash[active][0]
      BY <1>5, <1>6, SlotFacts
<1>9. Used(w)' = k + 1 /\ Following(w)' = Blank /\ Copying' = FALSE
      BY <1>1, <1>2, <1>3, <1>4, UpFacts DEF Used, Following, Copying
<1>10. ActiveInv(w)'
       BY <1>1, <1>7, <1>8, <1>9 DEF Up, ActiveInv, IsMaster, Numbered, Version
<1>11. FreeInv(w)'
       BY <1>1, <1>2, <1>3, <1>9 DEF FreeInv
<1>12. Other' = Other /\ MasterBusy' = FALSE
       BY <1>1, <1>3 DEF Other, MasterBusy
<1>13. VersionInv(w)'
       BY <1>1, <1>2, <1>3, <1>5, <1>8, <1>9, <1>12
          DEF Up, VersionInv, Writing, IsMaster, Version
<1>14. Prefix(flash[active], k) /\ Prefix(flash'[active], k + 1)
       BY <1>4, <1>7, ShapePrefix
<1>15. \A t \in Types : where'[t] = LatestOf(flash'[active], active, t)
  <2>1. \A s \in 1 .. k : flash'[active][s] = flash[active][s]
        BY <1>5, <1>6, SlotFacts
  <2>2. \A t \in Types : where[t] = LatestOf(flash[active], active, t)
        BY <1>2, <1>3 DEF Up, WhereInv, Found
  <2>3. ASSUME NEW t \in Types
        PROVE  where'[t] = IF arg[w].type = t
                             THEN [area |-> active, slot |-> k + 1]
                             ELSE where[t]
        BY <1>1, <1>4, <1>6 DEF Up, TypeOK
  <2>4. ASSUME NEW t \in Types
        PROVE  LatestOf(flash'[active], active, t) =
                  IF flash'[active][k + 1].type = t
                    THEN [area |-> active, slot |-> k + 1]
                    ELSE LatestOf(flash[active], active, t)
        BY <1>14, <2>1, LatestAppend
  <2>. QED  BY <1>5, <2>2, <2>3, <2>4
<1>16. WhereInv(w)'
  <2>1. ASSUME NEW t \in Types, where'[t] # Nowhere
        PROVE  /\ where'[t].slot # 0
               /\ flash'[where'[t].area][where'[t].slot].kind = "item"
               /\ flash'[where'[t].area][where'[t].slot].type = t
    <3>1. flash'[active] \in [Slots -> Record]
          BY <1>1, <1>2, <1>4, <1>14, UpFacts, EndFacts, SlotFacts
             DEF Flash, Prefix
    <3>. QED  BY <1>14, <1>15, <2>1, <3>1, LatestItem
  <2>. QED  BY <1>1, <1>3, <1>15, <2>1 DEF WhereInv, Found
<1>17. OtherInv' /\ RoomInv'
       BY <1>1, <1>3, <1>5, <1>12 DEF Up, OtherInv, RoomInv
<1>18. ASSUME OneSwitch PROVE ReadInv'
  <2>1. \A a \in Areas, s \in Slots :
            flash[a][s].kind = "item" => flash'[a][s] = flash[a][s]
    <3>1. flash[active][k + 1].kind # "item"
          BY <1>4, ShapePrefix
    <3>. QED  BY <1>5, <3>1, UpFacts, SlotFacts
  <2>2. \A t \in Types : where[t] # Nowhere => where'[t] # Nowhere
        BY <1>1, <1>4, <1>6 DEF Up, TypeOK, Nowhere
  <2>. QED  BY <1>1, <1>5, <1>18, <2>1, <2>2, ReadKept
<1>. QED  BY <1>10, <1>11, <1>13, <1>16, <1>17, <1>18 DEF UpInv, Up

-----------------------------------------------------------------------------
(* sotp_garbage_collection.                                                *)

Counted == IF MasterBusy THEN version - 1 ELSE version

\* The steps of the copying leave the active area alone.
LEMMA CopyFrame ==
    ASSUME NEW w, Up(w), Copying, flash'[active] = flash[active],
           gc'.pc = gc.pc \/ (gc.pc = "ITEM" /\ gc'.pc = "COPY"),
           UNCHANGED <<boot, active, free, gcFailed, wpc, slot>>,
           Counted' = Counted, flash'[Other][0].kind # "master"
    PROVE  ActiveInv(w)' /\ FreeInv(w)' /\ VersionInv(w)' /\ ~gcFailed
<1>1. ~gcFailed /\ Copying'
      BY DEF Up, FreeInv, Copying
<1>2. gc.pc = "ITEM" => boot = "UP"
      BY Owners DEF Up, ControlInv, GcControl
<1>3. Used(w)' = Used(w) /\ Following(w)' = Following(w)
      BY <1>1, <1>2 DEF Used, Following, Copying
<1>4. ActiveInv(w)'
      BY <1>3 DEF Up, ActiveInv
<1>5. FreeInv(w)'
      BY <1>1 DEF Up, FreeInv
<1>6. Other' = Other
      BY DEF Other
<1>7. VersionInv(w)'
  <2>1. Counted = Version(flash[active])
        \/ (Counted = 0 /\ Version(flash[active]) = 1 /\ active = 0)
        BY <1>1 DEF Up, VersionInv, Counted
  <2>2. Counted' = Version(flash'[active])
        \/ (Counted' = 0 /\ Version(flash'[active]) = 1 /\ active' = 0)
        BY <2>1
  <2>3. Version(flash[active]) <= MaxVersion
        BY DEF Up, VersionInv, Writing
  <2>4. gc'.pc # "ERASE"
        BY DEF Copying
  <2>5. ~IsMaster(flash'[Other])
        BY DEF IsMaster
  <2>. QED  BY <1>6, <2>2, <2>3, <2>4, <2>5 DEF VersionInv, Counted
<1>. QED  BY <1>1, <1>4, <1>5, <1>7

LEMMA GcItemUp ==
    ASSUME NEW w, Up(w), GcItem
    PROVE  UpInv'
<1>1. /\ gc.pc = "ITEM" /\ busy' = ~busy
      /\ UNCHANGED <<boot, active, version, free, gcFailed, wpc, arg, slot, rd>>
      /\ \/ ~busy /\ Begin(Other, gc.to) /\ UNCHANGED <<gc, where>>
         \/ /\ busy
            /\ End(Other, gc.to, arg[gc.by])
            /\ where' = [where EXCEPT ![arg[gc.by].type] =
                            [area |-> Other, slot |-> gc.to]]
            /\ gc' = [gc EXCEPT !.pc = "COPY", !.to = @ + 1]
      BY DEF GcItem, GcUnchanged, writerVars
<1>2. gc.by = w /\ gc.to = 1 /\ boot = "UP" /\ w # "init" /\ wpc[w] = "GC"
      BY <1>1, Owners DEF Up, ControlInv, GcControl
<1>3. arg[w] \in Items /\ arg[w] \in Record /\ arg[w].type \in Types
      BY <1>2, RecordFacts DEF Up, ControlInv, WriterControl, Finished
<1>4. Copying /\ ~gcFailed
      BY <1>1 DEF Copying, Up, FreeInv
<1>5. /\ flash[Other][0] = Blank /\ BlankAfter(flash[Other], 1)
      /\ flash[Other][1] = IF busy THEN Torn ELSE Blank
      BY <1>1 DEF Up, OtherInv
<1>6. \A t \in Types : where[t] = LatestOf(flash[active], active, t)
      BY <1>1, <1>4 DEF Up, WhereInv, Found
<1>7. /\ flash'[active] = flash[active]
      /\ \A r \in Slots \ {1} : flash'[Other][r] = flash[Other][r]
      /\ flash'[Other][1] = IF busy THEN arg[w] ELSE Torn
  <2>1. CASE ~busy
    <3>1. Begin(Other, 1)
          BY <1>1, <1>2, <2>1
    <3>. QED  BY <1>5, <2>1, <3>1, UpFacts, SlotFacts, BeginFacts
  <2>2. CASE busy
    <3>1. End(Other, 1, arg[w])
          BY <1>1, <1>2, <2>2
    <3>. QED  BY <1>3, <1>5, <2>2, <3>1, UpFacts, SlotFacts, EndFacts
  <2>. QED  BY <2>1, <2>2
<1>8. flash'[Other][0] = Blank /\ BlankAfter(flash'[Other], 1)
      BY <1>5, <1>7, SlotFacts DEF BlankAfter
<1>9. gc'.by = w /\ IF busy THEN gc'.pc = "COPY" /\ gc'.to = 2
                    ELSE gc'.pc = "ITEM" /\ gc'.to = 1
  <2>1. CASE ~busy
        BY <1>1, <1>2, <2>1
  <2>2. CASE busy
    <3>1. gc = [pc |-> gc.pc, by |-> gc.by, to |-> gc.to]
          BY DEF Up, TypeOK
    <3>2. gc' = [gc EXCEPT !.pc = "COPY", !.to = @ + 1]
          BY <1>1, <2>2
    <3>3. gc' = [pc |-> "COPY", by |-> gc.by, to |-> gc.to + 1]
          BY <3>1, <3>2, Zenon
    <3>. QED  BY <1>2, <2>2, <3>3
  <2>. QED  BY <2>1, <2>2
<1>10. /\ \A t \in Types :
             where'[t] = IF busy /\ t = arg[w].type
                           THEN [area |-> Other, slot |-> 1] ELSE where[t]
       BY <1>1, <1>2, <1>3 DEF Up, TypeOK
<1>11. MasterBusy' = FALSE /\ MasterBusy = FALSE /\ Other' = Other
       BY <1>1, <1>9 DEF MasterBusy, Other
<1>12. ActiveInv(w)' /\ FreeInv(w)' /\ VersionInv(w)'
  <2>1. Counted' = Counted
        BY <1>1, <1>11 DEF Counted
  <2>2. flash'[Other][0].kind # "master"
        BY <1>8, RecordFacts
  <2>3. gc'.pc = gc.pc \/ (gc.pc = "ITEM" /\ gc'.pc = "COPY")
        BY <1>1, <1>9
  <2>. QED  BY <1>1, <1>4, <1>7, <2>1, <2>2, <2>3, CopyFrame
<1>13. WhereInv(w)'
  <2>1. \A t \in Types : Found(t)' = where[t]
        BY <1>1, <1>6, <1>7 DEF Found
  <2>2. ASSUME gc'.pc = "COPY" PROVE CopyInv(w)'
    <3>1. busy /\ gc'.to = 2 /\ flash'[Other][1] = arg[w]
          BY <1>7, <1>9, <2>2
    <3>2. ASSUME NEW t \in Types PROVE NotCopied(w, t)' \/ IsCopied(w, t)'
      <4>1. CASE t # arg[w].type
            BY <1>1, <1>9, <1>10, <2>1, <4>1 DEF NotCopied
      <4>2. CASE t = arg[w].type
            BY <1>1, <1>2, <1>9, <1>10, <1>11, <3>1, <4>2 DEF IsCopied
      <4>. QED  BY <4>1, <4>2
    <3>3. ASSUME NEW s \in 1 .. gc'.to - 1
          PROVE  /\ flash'[Other][s] \in Items
                 /\ where'[flash'[Other][s].type] = [area |-> Other, slot |-> s]
      <4>1. s = 1
            BY <3>1
      <4>. QED  BY <1>3, <1>10, <3>1, <4>1
    <3>. QED  BY <1>11, <3>2, <3>3 DEF CopyInv
  <2>3. ASSUME NEW t \in Types, where'[t] # Nowhere
        PROVE  /\ where'[t].slot # 0
               /\ flash'[where'[t].area][where'[t].slot].kind = "item"
               /\ flash'[where'[t].area][where'[t].slot].type = t
    <3>1. CASE busy /\ t = arg[w].type
          BY <1>3, <1>7, <1>10, <3>1, RecordFacts
    <3>2. CASE ~(busy /\ t = arg[w].type)
      <4>1. where'[t] = where[t]
            BY <1>10, <3>2
      <4>2. Prefix(flash[active], Used(w))
            BY ShapePrefix DEF Up, ActiveInv, Following
      <4>3. where[t].area = active
            BY <1>6, <2>3, <4>1, <4>2, UpFacts, LatestItem
      <4>. QED  BY <1>7, <2>3, <4>1, <4>3 DEF Up, WhereInv
    <3>. QED  BY <3>1, <3>2
  <2>4. gc'.pc # "COPY" => \A t \in Types : where'[t] = Found(t)'
        BY <1>9, <1>10, <2>1
  <2>. QED  BY <2>2, <2>3, <2>4 DEF WhereInv
<1>14. OtherInv'
  <2>1. CASE busy
    <3>1. flash'[Other][2] = Blank /\ BlankAfter(flash'[Other], 2)
          BY <1>8, UpFacts DEF BlankAfter
    <3>2. gc'.pc = "COPY" /\ gc'.to = 2 /\ ~busy'
          BY <1>1, <1>9, <2>1
    <3>. QED  BY <1>8, <1>11, <3>1, <3>2 DEF OtherInv
  <2>2. CASE ~busy
    <3>1. gc'.pc = "ITEM" /\ busy' /\ flash'[Other][1] = Torn
          BY <1>1, <1>7, <1>9, <2>2
    <3>. QED  BY <1>8, <1>11, <3>1 DEF OtherInv
  <2>. QED  BY <2>1, <2>2
<1>15. RoomInv'
       BY <1>2, <1>9 DEF RoomInv
<1>16. ASSUME OneSwitch PROVE ReadInv'
  <2>1. \A a \in Areas, s \in Slots :
            flash[a][s].kind = "item" => flash'[a][s] = flash[a][s]
    <3>1. flash[Other][1].kind # "item"
          BY <1>5, RecordFacts
    <3>. QED  BY <1>7, <3>1, UpFacts, SlotFacts
  <2>2. \A t \in Types : where[t] # Nowhere => where'[t] # Nowhere
        BY <1>10 DEF Nowhere
  <2>. QED  BY <1>1, <1>4, <1>9, <1>16, <2>1, <2>2, ReadKept
<1>. QED  BY <1>12, <1>13, <1>14, <1>15, <1>16 DEF UpInv, Up

\* copy_record: the next type, and its latest record.
LEMMA NextFacts ==
    ASSUME NEW w, Up(w), gc.pc = "COPY", Remaining # {}
    PROVE  /\ NextType \in Types /\ NextType \in Remaining
           /\ where[NextType] = Found(NextType) /\ NotCopied(w, NextType)
           /\ where[NextType].area = active /\ where[NextType].slot # 0
           /\ flash[active][where[NextType].slot] \in Items
           /\ flash[active][where[NextType].slot].type = NextType
<1>1. Remaining \in SUBSET Nat /\ Remaining \subseteq Types
      BY SotpAssumption DEF Remaining
<1>2. NextType \in Remaining /\ NextType \in Types
      BY <1>1, MinFacts DEF NextType
<1>. DEFINE t == NextType
<1>. HIDE DEF t
<1>3. where[t].area = active /\ where[t].slot # 0 /\ t \in Types
      BY <1>2 DEF Remaining, t
<1>4. NotCopied(w, t)
  <2>1. ~IsCopied(w, t)
        BY <1>3, UpFacts DEF IsCopied
  <2>. QED  BY <1>3, <2>1 DEF Up, WhereInv, CopyInv
<1>5. /\ flash[active][where[t].slot].kind = "item"
      /\ flash[active][where[t].slot].type = t
      BY <1>3 DEF Up, WhereInv, Nowhere
<1>6. where[t].slot \in Slots
      BY <1>3 DEF Up, TypeOK, Places
<1>7. flash[active][where[t].slot] \in Items
      BY <1>5, <1>6, UpFacts, RecordFacts
<1>8. where[t] = Found(t)
      BY <1>4 DEF NotCopied
<1>. QED  BY <1>2, <1>3, <1>4, <1>5, <1>7, <1>8 DEF t

LEMMA GcCopyUp ==
    ASSUME NEW w, Up(w), GcCopy
    PROVE  UpInv'
<1>1. /\ gc.pc = "COPY" /\ Remaining # {} /\ busy' = ~busy
      /\ UNCHANGED <<boot, active, version, free, gcFailed, wpc, arg, slot, rd>>
      /\ \/ /\ ~busy /\ gc.to + 1 < Size
            /\ Begin(Other, gc.to)
            /\ UNCHANGED <<gc, where>>
         \/ /\ busy
            /\ End(Other, gc.to, flash[active][where[NextType].slot])
            /\ where' = [where EXCEPT ![NextType] =
                            [area |-> Other, slot |-> gc.to]]
            /\ gc' = [gc EXCEPT !.to = @ + 1]
      BY DEF GcCopy, GcUnchanged, writerVars
<1>. DEFINE t0 == NextType
            r0 == flash[active][where[NextType].slot]
<1>2. /\ t0 \in Types /\ t0 \in Remaining /\ where[t0] = Found(t0)
      /\ NotCopied(w, t0) /\ where[t0].area = active /\ where[t0].slot # 0
      /\ r0 \in Items /\ r0.type = t0 /\ r0 = flash[active][Found(t0).slot]
      BY <1>1, NextFacts
<1>. HIDE DEF t0, r0
<1>3. r0 \in Record /\ r0.kind = "item"
      BY <1>2, RecordFacts
<1>4. Copying /\ ~gcFailed
      BY <1>1 DEF Copying, Up, FreeInv
<1>. DEFINE k == gc.to
<1>5. k \in Nat /\ k >= 1 /\ k <= Size - 2 /\ k \in Slots /\ k + 1 \in Slots
  <2>1. k \in 1 .. Size - 1 /\ (busy => k \in 1 .. Size - 2)
        BY <1>1 DEF Up, ControlInv, GcControl
  <2>. QED  BY <1>1, <2>1, UpFacts, SlotFacts
<1>. HIDE DEF k
<1>6. /\ flash[Other][0] = Blank /\ BlankAfter(flash[Other], k)
      /\ flash[Other][k] = IF busy THEN Torn ELSE Blank
      BY <1>1 DEF Up, OtherInv, MasterBusy, k
<1>7. /\ flash'[active] = flash[active]
      /\ \A r \in Slots \ {k} : flash'[Other][r] = flash[Other][r]
      /\ flash'[Other][k] = IF busy THEN r0 ELSE Torn
  <2>1. CASE ~busy
    <3>1. Begin(Other, k)
          BY <1>1, <2>1 DEF k
    <3>. QED  BY <1>5, <1>6, <2>1, <3>1, UpFacts, BeginFacts
  <2>2. CASE busy
    <3>1. End(Other, k, r0)
          BY <1>1, <2>2 DEF k, r0
    <3>. QED  BY <1>3, <1>5, <1>6, <2>2, <3>1, UpFacts, EndFacts
  <2>. QED  BY <2>1, <2>2
<1>8. /\ flash'[Other][0] = Blank /\ BlankAfter(flash'[Other], k)
      /\ flash'[Other][k + 1] = Blank
      BY <1>5, <1>6, <1>7, SlotFacts DEF BlankAfter
<1>9. /\ gc'.by = gc.by /\ gc'.pc = "COPY"
      /\ gc'.to = IF busy THEN k + 1 ELSE k
      BY <1>1 DEF Up, TypeOK, k
<1>10. \A t \in Types :
           where'[t] = IF busy /\ t = t0
                         THEN [area |-> Other, slot |-> k] ELSE where[t]
       BY <1>1 DEF Up, TypeOK, t0, k
<1>11. Other' = Other
       BY <1>1 DEF Other
<1>12. Remaining' = IF busy THEN Remaining \ {t0} ELSE Remaining
  <2>1. CASE ~busy
        BY <1>1, <2>1 DEF Remaining
  <2>2. CASE busy
        BY <1>1, <1>10, <2>2, UpFacts DEF Remaining
  <2>. QED  BY <2>1, <2>2
<1>13. ~MasterBusy' /\ ~MasterBusy
  <2>1. ~MasterBusy
        BY <1>1 DEF MasterBusy
  <2>2. CASE busy
        BY <1>1, <2>2 DEF MasterBusy
  <2>3. CASE ~busy
        BY <1>1, <1>12, <2>3 DEF MasterBusy
  <2>. QED  BY <2>1, <2>2, <2>3
<1>14. ActiveInv(w)' /\ FreeInv(w)' /\ VersionInv(w)'
  <2>1. Counted' = Counted
        BY <1>1, <1>13 DEF Counted
  <2>2. flash'[Other][0].kind # "master"
        BY <1>8, RecordFacts
  <2>. QED  BY <1>1, <1>4, <1>7, <1>9, <2>1, <2>2, CopyFrame
<1>15. \A t \in Types : Found(t)' = Found(t)
       BY <1>1, <1>7 DEF Found
<1>16. \A s \in 1 .. k - 1 :
           /\ flash'[Other][s] = flash[Other][s] /\ flash[Other][s] \in Items
           /\ where[flash[Other][s].type] = [area |-> Other, slot |-> s]
  <2>1. \A s \in 1 .. k - 1 : flash'[Other][s] = flash[Other][s]
        BY <1>5, <1>7, SlotFacts
  <2>. QED  BY <1>1, <2>1 DEF Up, WhereInv, CopyInv, k
<1>17. CopyInv(w)'
  <2>1. ASSUME NEW t \in Types PROVE NotCopied(w, t)' \/ IsCopied(w, t)'
    <3>1. CASE busy /\ t = t0
      <4>1. where'[t] = [area |-> Other, slot |-> k]
            BY <1>10, <3>1
      <4>2. gc.by = w => t # arg[w].type
            BY <1>2, <3>1 DEF NotCopied
      <4>3. flash'[Other][k] = flash'[active'][Found(t)'.slot]
            BY <1>1, <1>2, <1>7, <1>15, <3>1
      <4>4. Found(t)'.slot # 0
            BY <1>2, <1>15, <3>1
      <4>. QED  BY <1>1, <1>5, <1>9, <1>11, <3>1, <4>1, <4>2, <4>3, <4>4
                   DEF IsCopied
    <3>2. CASE ~(busy /\ t = t0)
      <4>1. where'[t] = where[t]
            BY <1>10, <3>2
      <4>2. CASE NotCopied(w, t)
            BY <1>1, <1>9, <1>15, <4>1, <4>2 DEF NotCopied
      <4>3. CASE IsCopied(w, t)
        <5>1. where[t].slot \in 1 .. k - 1 /\ where[t].slot \in 1 .. gc'.to - 1
              BY <1>5, <1>9, <4>3 DEF IsCopied, k
        <5>2. flash'[Other][where[t].slot] = flash[Other][where[t].slot]
              BY <1>16, <5>1
        <5>. QED  BY <1>1, <1>7, <1>9, <1>11, <1>15, <4>1, <4>3, <5>1, <5>2
                     DEF IsCopied
      <4>4. NotCopied(w, t) \/ IsCopied(w, t)
            BY <1>1 DEF Up, WhereInv, CopyInv
      <4>. QED  BY <4>2, <4>3, <4>4
    <3>. QED  BY <3>1, <3>2
  <2>2. ASSUME NEW s \in 1 .. gc'.to - 1
        PROVE  /\ flash'[Other][s] \in Items
               /\ where'[flash'[Other][s].type] = [area |-> Other, slot |-> s]
    <3>1. CASE s \in 1 .. k - 1
      <4>1. flash[Other][s].type # t0 /\ flash[Other][s].type \in Types
        <5>1. /\ flash[Other][s] \in Items
              /\ where[flash[Other][s].type] = [area |-> Other, slot |-> s]
              BY <1>16, <3>1
        <5>2. where[flash[Other][s].type].area = Other
              BY <5>1
        <5>. QED  BY <1>2, <5>1, <5>2, UpFacts, RecordFacts
      <4>. QED  BY <1>10, <1>16, <3>1, <4>1
    <3>2. CASE s \notin 1 .. k - 1
      <4>1. s = k /\ busy
            BY <1>5, <1>9, <3>2
      <4>. QED  BY <1>2, <1>7, <1>10, <4>1
    <3>. QED  BY <3>1, <3>2
  <2>. QED  BY <1>11, <2>1, <2>2 DEF CopyInv
<1>18. WhereInv(w)'
  <2>1. ASSUME NEW t \in Types, where'[t] # Nowhere
        PROVE  /\ where'[t].slot # 0
               /\ flash'[where'[t].area][where'[t].slot].kind = "item"
               /\ flash'[where'[t].area][where'[t].slot].type = t
    <3>1. CASE busy /\ t = t0
          BY <1>2, <1>3, <1>5, <1>7, <1>10, <3>1
    <3>2. CASE ~(busy /\ t = t0)
      <4>1. where'[t] = where[t]
            BY <1>10, <3>2
      <4>2. /\ where[t].slot # 0 /\ where[t].area \in Areas
            /\ where[t].slot \in Slots
            /\ flash[where[t].area][where[t].slot].kind = "item"
            /\ flash[where[t].area][where[t].slot].type = t
            BY <2>1, <4>1 DEF Up, WhereInv, TypeOK, Places
      <4>3. flash[Other][k].kind # "item"
            BY <1>6, RecordFacts
      <4>. QED  BY <1>7, <4>1, <4>2, <4>3, UpFacts, SlotFacts
    <3>. QED  BY <3>1, <3>2
  <2>. QED  BY <1>9, <1>17, <2>1 DEF WhereInv
<1>19. OtherInv'
  <2>1. CASE busy
    <3>1. BlankAfter(flash'[Other], k + 1) /\ gc'.to = k + 1 /\ ~busy'
      <4>1. \A s \in k + 1 .. Size - 1 : flash'[Other][s] = Blank
            BY <1>8 DEF BlankAfter
      <4>2. \A s \in k + 1 + 1 .. Size - 1 : flash'[Other][s] = Blank
            BY <1>5, <4>1, UpFacts
      <4>. QED  BY <1>1, <1>9, <2>1, <4>2 DEF BlankAfter
    <3>. QED  BY <1>8, <1>9, <1>11, <1>13, <3>1 DEF OtherInv
  <2>2. CASE ~busy
    <3>1. gc'.to = k /\ busy' /\ flash'[Other][k] = Torn /\ Remaining' # {}
          BY <1>1, <1>7, <1>9, <1>12, <2>2
    <3>. QED  BY <1>8, <1>9, <1>11, <1>13, <3>1 DEF OtherInv
  <2>. QED  BY <2>1, <2>2
<1>20. RoomInv'
  <2>1. SUFFICES ASSUME gc.by = "init"
        PROVE  IsFiniteSet(Remaining')
               /\ Cardinality(Remaining') + gc'.to <= free
        BY <1>1, <1>9 DEF RoomInv
  <2>2. IsFiniteSet(Remaining) /\ Cardinality(Remaining) + k <= free
        BY <1>1, <2>1 DEF Up, RoomInv, k
  <2>3. Cardinality(Remaining) \in Nat
        BY <2>2, FS_CardinalityType
  <2>4. /\ IsFiniteSet(Remaining \ {t0})
        /\ Cardinality(Remaining \ {t0}) = Cardinality(Remaining) - 1
        BY <1>2, <2>2, FS_RemoveElement
  <2>. QED  BY <1>5, <1>9, <1>12, <2>2, <2>3, <2>4, UpFacts
<1>21. ASSUME OneSwitch PROVE ReadInv'
  <2>1. \A a \in Areas, s \in Slots :
            flash[a][s].kind = "item" => flash'[a][s] = flash[a][s]
    <3>1. flash[Other][k].kind # "item"
          BY <1>6, RecordFacts
    <3>. QED  BY <1>7, <3>1, UpFacts, SlotFacts
  <2>2. \A t \in Types : where[t] # Nowhere => where'[t] # Nowhere
        BY <1>5, <1>10 DEF Nowhere
  <2>. QED  BY <1>1, <1>4, <1>9, <1>21, <2>1, <2>2, ReadKept
<1>. QED  BY <1>14, <1>18, <1>19, <1>20, <1>21 DEF UpInv, Up

\* The master record is begun: the version is the next one, and does not wrap.
LEMMA GcMasterBegins ==
    ASSUME NEW w, Up(w), NoWrap, GcMaster, ~busy
    PROVE  UpInv' /\ active' = active /\ gc' = gc
<1>1. /\ gc.pc = "COPY" /\ Remaining = {} /\ busy'
      /\ version' = (version + 1) % Versions /\ Begin(Other, 0)
      /\ UNCHANGED <<boot, active, free, gcFailed, wpc, arg, slot, rd, gc,
                     where>>
      BY DEF GcMaster, GcUnchanged, writerVars
<1>2. Copying /\ ~gcFailed
      BY <1>1 DEF Copying, Up, FreeInv
<1>3. ~MasterBusy /\ Other' = Other /\ Remaining' = {} /\ MasterBusy'
      BY <1>1 DEF MasterBusy, Other, Remaining
<1>4. version' = version + 1
  <2>1. version \in Nat /\ Version(flash[active]) \in Nat
        /\ Version(flash[active]) <= MaxVersion /\ MaxVersion \in Nat
    <3>1. version \in 0 .. Versions - 1
          BY DEF Up, TypeOK
    <3>2. Version(flash[active]) <= MaxVersion
          BY <1>2 DEF Up, VersionInv, Writing
    <3>3. Version(flash[active]) \in 1 .. MaxVersion + 1
          BY DEF Up, ActiveInv, Numbered
    <3>. QED  BY <3>1, <3>2, <3>3, SotpAssumption
  <2>2. version = Version(flash[active]) \/ version = 0
        BY <1>2, <1>3 DEF Up, VersionInv
  <2>3. version + 1 < Versions
        BY <2>1, <2>2, SotpAssumption DEF NoWrap
  <2>. QED  BY <1>1, <2>1, <2>3, SotpAssumption
<1>5. /\ flash[Other][0] = Blank /\ BlankAfter(flash[Other], gc.to)
      /\ flash[Other][gc.to] = Blank
      BY <1>1, <1>3 DEF Up, OtherInv
<1>6. gc.to \in Nat /\ gc.to >= 1 /\ gc.to \in Slots
      BY <1>1, SlotFacts DEF Up, ControlInv, GcControl
<1>7. /\ flash'[active] = flash[active] /\ flash'[Other][0] = Torn
      /\ \A s \in Slots \ {0} : flash'[Other][s] = flash[Other][s]
      BY <1>1, <1>5, UpFacts, SlotFacts, BeginFacts
<1>8. ActiveInv(w)' /\ FreeInv(w)' /\ VersionInv(w)'
  <2>1. Counted' = Counted
        BY <1>3, <1>4 DEF Counted, Up, TypeOK
  <2>2. flash'[Other][0].kind # "master"
        BY <1>7, RecordFacts
  <2>. QED  BY <1>1, <1>2, <1>7, <2>1, <2>2, CopyFrame
<1>9. WhereInv(w)'
  <2>1. \A t \in Types : Found(t)' = Found(t)
        BY <1>1, <1>7 DEF Found
  <2>2. \A s \in 1 .. gc.to - 1 : flash'[Other][s] = flash[Other][s]
        BY <1>6, <1>7, SlotFacts
  <2>3. CopyInv(w)
        BY <1>1 DEF Up, WhereInv
  <2>4. CopyInv(w)'
        BY <1>1, <1>3, <1>7, <2>1, <2>2, <2>3
           DEF CopyInv, NotCopied, IsCopied
  <2>5. ASSUME NEW t \in Types, where[t] # Nowhere
        PROVE  flash'[where[t].area][where[t].slot]
                  = flash[where[t].area][where[t].slot]
        BY <1>7, <2>5, UpFacts, SlotFacts DEF Up, WhereInv, TypeOK, Places
  <2>. QED  BY <1>1, <2>4, <2>5 DEF Up, WhereInv
<1>10. OtherInv'
  <2>1. BlankAfter(flash'[Other], gc.to) /\ flash'[Other][gc.to] = Blank
        BY <1>5, <1>6, <1>7, SlotFacts DEF BlankAfter
  <2>. QED  BY <1>1, <1>3, <1>7, <2>1 DEF OtherInv
<1>11. RoomInv'
  <2>1. Remaining' = Remaining
        BY <1>1, <1>3
  <2>. QED  BY <1>1, <2>1 DEF Up, RoomInv
<1>12. ASSUME OneSwitch PROVE ReadInv'
  <2>1. \A a \in Areas, s \in Slots :
            flash[a][s].kind = "item" => flash'[a][s] = flash[a][s]
        BY <1>5, <1>7, UpFacts, SlotFacts, RecordFacts
  <2>. QED  BY <1>1, <1>2, <1>12, <2>1, ReadKept
<1>. QED  BY <1>1, <1>8, <1>9, <1>10, <1>11, <1>12 DEF UpInv, Up

\* The copies, in an area of their own, are the latest records of their types.
LEMMA CopiesAreLatest ==
    ASSUME NEW w, Up(w), gc.pc = "COPY", Remaining = {},
           NEW B, Prefix(B, gc.to - 1),
           \A s \in 1 .. gc.to - 1 : B[s] = flash[Other][s]
    PROVE  \A t \in Types : where[t] = LatestOf(B, Other, t)
<1>0. gc.to \in Nat /\ gc.to >= 1
      BY UpFacts DEF Up, ControlInv, GcControl
<1>1. SUFFICES ASSUME NEW t \in Types PROVE where[t] = LatestOf(B, Other, t)
      OBVIOUS
<1>2. /\ NotCopied(w, t) \/ IsCopied(w, t)
      /\ \A s \in 1 .. gc.to - 1 :
            /\ B[s] \in Items
            /\ where[B[s].type] = [area |-> Other, slot |-> s]
      BY DEF Up, WhereInv, CopyInv
<1>3. CASE IsCopied(w, t)
  <2>1. where[t].area = Other /\ where[t].slot \in 1 .. gc.to - 1
        BY <1>3 DEF IsCopied
  <2>2. where[t] = [area |-> Other, slot |-> where[t].slot]
        BY <2>1 DEF Up, TypeOK, Places
  <2>3. B[where[t].slot].type = t
    <3>1. where[t] # Nowhere
          BY <2>1 DEF Nowhere
    <3>. QED  BY <2>1, <3>1 DEF Up, WhereInv
  <2>4. \A r \in where[t].slot + 1 .. gc.to - 1 : B[r].type # t
    <3>1. ASSUME NEW r \in 1 .. gc.to - 1, B[r].type = t
          PROVE  r = where[t].slot
      <4>1. where[t] = [area |-> Other, slot |-> r]
            BY <1>2, <3>1
      <4>. QED  BY <4>1
    <3>. QED  BY <1>0, <2>1, <3>1
  <2>. QED  BY <2>1, <2>2, <2>3, <2>4, LatestIs
<1>4. CASE NotCopied(w, t)
  <2>1. where[t] = Nowhere
    <3>1. SUFFICES ASSUME where[t] # Nowhere PROVE FALSE
          OBVIOUS
    <3>2. where[t] = LatestOf(flash[active], active, t)
          BY <1>4 DEF NotCopied, Found
    <3>3. Prefix(flash[active], Used(w))
          BY ShapePrefix DEF Up, ActiveInv, Following
    <3>4. where[t].area = active
          BY <3>1, <3>2, <3>3, UpFacts, LatestItem
    <3>5. where[t].slot # 0
          BY <3>1 DEF Up, WhereInv
    <3>. QED  BY <3>4, <3>5 DEF Remaining
  <2>2. \A r \in 1 .. gc.to - 1 : B[r].type # t
    <3>1. ASSUME NEW r \in 1 .. gc.to - 1, B[r].type = t PROVE FALSE
      <4>1. where[t] = [area |-> Other, slot |-> r]
            BY <1>2, <3>1
      <4>. QED  BY <2>1, <4>1 DEF Nowhere
    <3>. QED  BY <3>1
  <2>. QED  BY <2>1, <2>2, LatestNone
<1>. QED  BY <1>2, <1>3, <1>4

\* The master record ends: the copies become the active area.
LEMMA GcMasterEnds ==
    ASSUME NEW w, Up(w), NoWrap, GcMaster, busy
    PROVE  UpInv'
<1>1. /\ gc.pc = "COPY" /\ Remaining = {} /\ ~busy'
      /\ End(Other, 0, Master(version)) /\ free' = gc.to /\ active' = Other
      /\ gc' = [gc EXCEPT !.pc = "ERASE"]
      /\ rd' = IF rd.pc = "IDLE" THEN rd
               ELSE [rd EXCEPT !.switches = @ + 1]
      /\ UNCHANGED <<boot, version, gcFailed, wpc, arg, slot, where>>
      BY DEF GcMaster, GcUnchanged, writerVars
<1>2. Copying /\ ~gcFailed /\ MasterBusy
      BY <1>1 DEF Copying, Up, FreeInv, MasterBusy
<1>3. gc'.pc = "ERASE" /\ gc'.by = gc.by /\ ~Copying' /\ ~MasterBusy'
      BY <1>1 DEF Up, TypeOK, Copying, MasterBusy
<1>4. wpc[w] \in Finished \cup {"GC"}
      BY <1>1, Owners DEF Up
<1>5. /\ flash[Other][0] = Torn /\ BlankAfter(flash[Other], gc.to)
      /\ flash[Other][gc.to] = Blank
      BY <1>1, <1>2 DEF Up, OtherInv
<1>6. /\ gc.to \in Nat /\ gc.to >= 1 /\ gc.to <= Size - 1 /\ gc.to \in Slots
      BY <1>1, SlotFacts DEF Up, ControlInv, GcControl
<1>7. /\ flash'[active] = flash[active] /\ flash'[Other][0] = Master(version)
      /\ \A s \in Slots \ {0} : flash'[Other][s] = flash[Other][s]
  <2>1. Master(version) \in Record
        BY RecordFacts DEF Up, TypeOK
  <2>. QED  BY <1>1, <1>5, <2>1, UpFacts, SlotFacts, EndFacts
<1>8. Other' = active
      BY <1>1, UpFacts DEF Other
<1>9. /\ version \in Nat /\ version >= 1 /\ version <= MaxVersion + 1
      /\ \/ version > Version(flash[active])
         \/ version = Version(flash[active]) /\ active = 0
  <2>1. /\ Version(flash[active]) \in Nat /\ Version(flash[active]) >= 1
        /\ Version(flash[active]) <= MaxVersion
    <3>1. Version(flash[active]) <= MaxVersion
          BY <1>2 DEF Up, VersionInv, Writing
    <3>2. Version(flash[active]) \in 1 .. MaxVersion + 1
          BY DEF Up, ActiveInv, Numbered
    <3>. QED  BY <3>1, <3>2, SotpAssumption
  <2>2. version \in Nat
        BY SotpAssumption DEF Up, TypeOK
  <2>3. \/ version - 1 = Version(flash[active])
        \/ version - 1 = 0 /\ Version(flash[active]) = 1 /\ active = 0
        BY <1>2 DEF Up, VersionInv
  <2>. QED  BY <2>1, <2>2, <2>3, SotpAssumption
<1>10. IsMaster(flash'[Other]) /\ Version(flash'[Other]) = version
       BY <1>7, RecordFacts DEF IsMaster, Version
<1>11. Shape(flash'[Other], gc.to - 1, Blank)
  <2>1. \A s \in 1 .. gc.to - 1 :
            flash'[Other][s] = flash[Other][s] /\ flash[Other][s] \in Items
    <3>1. \A s \in 1 .. gc.to - 1 : flash'[Other][s] = flash[Other][s]
          BY <1>6, <1>7, SlotFacts
    <3>. QED  BY <1>1, <3>1 DEF Up, WhereInv, CopyInv
  <2>2. Filled(flash'[Other], gc.to - 1)
        BY <2>1, RecordFacts DEF Filled
  <2>3. BlankAfter(flash'[Other], gc.to) /\ flash'[Other][gc.to] = Blank
        BY <1>5, <1>6, <1>7, SlotFacts DEF BlankAfter
  <2>4. gc.to - 1 + 1 = gc.to /\ gc.to - 1 \in 0 .. Size - 2
        BY <1>6, UpFacts
  <2>. QED  BY <2>2, <2>3, <2>4 DEF Shape
<1>12. Used(w)' = gc.to - 1 /\ Following(w)' = Blank
       BY <1>1, <1>3, <1>4 DEF Used, Following, Finished
<1>13. ActiveInv(w)'
       BY <1>1, <1>9, <1>10, <1>11, <1>12, SotpAssumption
          DEF ActiveInv, Numbered
<1>14. FreeInv(w)'
       BY <1>1, <1>2, <1>3, <1>4 DEF FreeInv, Finished
<1>15. VersionInv(w)'
  <2>1. version' = Version(flash'[active']) /\ active' \in Areas
        BY <1>1, <1>10, UpFacts
  <2>2. ~Writing(w)'
        BY <1>1, <1>2, <1>3, <1>4 DEF Writing, Finished
  <2>3. Numbered(flash'[Other']) /\ flash'[Other'] = flash[active]
        BY <1>7, <1>8 DEF Up, ActiveInv
  <2>4. \/ Version(flash'[active']) > Version(flash'[Other'])
        \/ Version(flash'[active']) = Version(flash'[Other']) /\ active' = 1
        BY <1>1, <1>9, <1>10, <2>3, UpFacts
  <2>. QED  BY <1>3, <2>1, <2>2, <2>3, <2>4 DEF VersionInv
<1>16. WhereInv(w)'
  <2>1. Prefix(flash'[Other], gc.to - 1)
        BY <1>11, ShapePrefix
  <2>2. \A s \in 1 .. gc.to - 1 : flash'[Other][s] = flash[Other][s]
        BY <1>6, <1>7, SlotFacts
  <2>3. \A t \in Types : where[t] = LatestOf(flash'[Other], Other, t)
        BY <1>1, <2>1, <2>2, CopiesAreLatest
  <2>4. ASSUME NEW t \in Types, where[t] # Nowhere
        PROVE  flash'[where[t].area][where[t].slot]
                  = flash[where[t].area][where[t].slot]
        BY <1>7, <2>4, UpFacts, SlotFacts DEF Up, WhereInv, TypeOK, Places
  <2>. QED  BY <1>1, <1>3, <2>3, <2>4 DEF Up, WhereInv, Found
<1>17. OtherInv' /\ RoomInv'
       BY <1>3 DEF OtherInv, RoomInv
<1>18. ASSUME OneSwitch PROVE ReadInv'
  <2>1. CASE rd.pc = "IDLE"
        BY <1>1, <2>1 DEF ReadInv
  <2>2. CASE rd.pc # "IDLE"
    <3>1. ReadInv /\ rd.switches = 0
          BY <1>2, <1>18, <2>2 DEF Up, ReadInv
    <3>2. rd.pc \in {"READ", "FOUND"} /\ where[rd.type] # Nowhere
          BY <2>2, <3>1 DEF ReadInv, Gone
    <3>3. /\ rd'.pc = rd.pc /\ rd'.type = rd.type /\ rd'.at = rd.at
          /\ rd'.switches = 1
          BY <1>1, <2>2, <3>1 DEF Up, TypeOK
    <3>4. rd.pc = "READ" => Holds(flash'[rd.at.area][rd.at.slot], rd.type)
      <4>1. rd.at.area \in Areas /\ rd.at.slot \in Slots
            BY DEF Up, TypeOK, Places
      <4>2. rd.pc = "READ" => Holds(flash[rd.at.area][rd.at.slot], rd.type)
            BY <2>2, <3>1 DEF ReadInv, Gone
      <4>3. flash[Other][0].kind # "item"
            BY <1>5, RecordFacts
      <4>. QED  BY <1>7, <4>1, <4>2, <4>3, UpFacts, SlotFacts DEF Holds
    <3>. QED  BY <1>1, <1>3, <3>2, <3>3, <3>4 DEF ReadInv
  <2>. QED  BY <2>1, <2>2
<1>. QED  BY <1>13, <1>14, <1>15, <1>16, <1>17, <1>18 DEF UpInv, Up

\* The old area is being erased: a restart would not take it, and a reader
\* that is still there looks its record up again.
LEMMA ErasingUp ==
    ASSUME NEW w, Up(w), gc.pc = "ERASE", boot' \in {"GC", "UP"},
           flash'[active] = flash[active],
           \A s \in Slots :
               flash'[Other][s] \in {flash[Other][s], Blank, Garbage},
           \/ UNCHANGED <<gc, boot, wpc, slot>>
           \/ /\ gc' = NoGc /\ boot' = "UP" /\ wpc'[w] \in Finished
              /\ \A s \in Slots : flash'[Other][s] = Blank,
           UNCHANGED <<active, version, free, where, gcFailed, rd>>
    PROVE  UpInv'
<1>1. ~gcFailed /\ Other' = Other /\ wpc[w] \in Finished \cup {"GC"}
  <2>1. ~gcFailed
        BY DEF Up, FreeInv
  <2>2. wpc[w] \in Finished \cup {"GC"}
        BY Owners DEF Up
  <2>. QED  BY <2>1, <2>2 DEF Other
<1>2. /\ gc'.pc \in {"ERASE", "OFF"} /\ ~Copying' /\ ~MasterBusy' /\ ~MasterBusy
      /\ wpc'[w] \in Finished \cup {"GC"}
      BY <1>1 DEF NoGc, Copying, MasterBusy
<1>3. gc'.pc = "OFF" => \A s \in Slots : flash'[Other][s] = Blank
      BY DEF NoGc
<1>4. Used(w)' = Used(w) /\ Following(w)' = Following(w)
      BY <1>1, <1>2 DEF Used, Following, Finished, NoGc
<1>5. ActiveInv(w)'
      BY <1>4 DEF Up, ActiveInv
<1>6. FreeInv(w)'
      BY <1>1, <1>2 DEF FreeInv, Finished
<1>7. IsMaster(flash'[Other]) =>
          gc'.pc = "ERASE" /\ flash'[Other][0] = flash[Other][0]
      BY <1>2, <1>3, SlotFacts, RecordFacts DEF IsMaster
<1>8. VersionInv(w)'
  <2>1. ~Writing(w)'
        BY <1>1, <1>2 DEF Writing, Finished
  <2>2. IsMaster(flash'[Other]) => IsMaster(flash[Other])
        BY <1>7 DEF IsMaster
  <2>3. IsMaster(flash'[Other]) =>
            Version(flash'[Other]) = Version(flash[Other])
        BY <1>7 DEF Version
  <2>4. IsMaster(flash'[Other]) => Numbered(flash'[Other])
        BY <2>2, <2>3 DEF Up, VersionInv, Numbered
  <2>5. /\ version = Version(flash[active])
           \/ (version = 0 /\ Version(flash[active]) = 1 /\ active = 0)
        /\ IsMaster(flash[Other]) =>
              \/ Version(flash[active]) > Version(flash[Other])
              \/ Version(flash[active]) = Version(flash[Other]) /\ active = 1
        BY <1>1, <1>2 DEF Up, VersionInv
  <2>. QED  BY <1>1, <1>2, <1>7, <2>1, <2>2, <2>3, <2>4, <2>5 DEF VersionInv
<1>9. WhereInv(w)'
  <2>1. \A t \in Types : where[t] = LatestOf(flash[active], active, t)
        BY <1>1 DEF Up, WhereInv, Found
  <2>2. ASSUME NEW t \in Types, where[t] # Nowhere PROVE where[t].area = active
    <3>1. Prefix(flash[active], Used(w))
          BY ShapePrefix DEF Up, ActiveInv, Following
    <3>. QED  BY <2>1, <2>2, <3>1, UpFacts, LatestItem
  <2>. QED  BY <1>2, <2>1, <2>2 DEF Up, WhereInv, Found
<1>10. OtherInv'
       BY <1>1, <1>2, <1>3 DEF OtherInv
<1>11. RoomInv'
       BY <1>2 DEF RoomInv
<1>12. ASSUME OneSwitch PROVE ReadInv'
  <2>0. SUFFICES ASSUME rd.pc # "IDLE"
        PROVE  /\ rd.pc \in {"READ", "INVALID", "FOUND"}
               /\ where[rd.type] # Nowhere
               /\ rd.pc = "READ" =>
                     Holds(flash'[rd.at.area][rd.at.slot], rd.type) \/ Gone'
               /\ rd.pc = "INVALID" => Gone'
               /\ rd.pc = "READ" /\ gc'.pc = "ERASE" /\ rd.at.area # active
                     => rd.switches >= 1
        BY <1>2 DEF ReadInv
  <2>1. ReadInv /\ rd.at.area \in Areas /\ rd.at.slot \in Slots
        BY <1>12 DEF Up, TypeOK, Places
  <2>2. Gone => Gone'
    <3>1. ASSUME Gone PROVE flash'[rd.at.area][rd.at.slot] \in {Blank, Garbage}
      <4>1. rd.at.area = Other
            BY <2>1, <3>1, UpFacts, SlotFacts DEF Gone
      <4>. QED  BY <2>1, <3>1, <4>1 DEF Gone
    <3>. QED  BY <3>1 DEF Gone
  <2>3. ASSUME rd.pc = "READ", Holds(flash[rd.at.area][rd.at.slot], rd.type)
        PROVE  Holds(flash'[rd.at.area][rd.at.slot], rd.type) \/ Gone'
    <3>1. CASE rd.at.area = active
          BY <2>3, <3>1
    <3>2. CASE rd.at.area = Other
      <4>1. rd.switches >= 1 /\ rd.at.area # active'
            BY <2>0, <2>1, <2>3, <3>2, UpFacts DEF ReadInv
      <4>2. flash'[rd.at.area][rd.at.slot]
               \in {flash[rd.at.area][rd.at.slot], Blank, Garbage}
            BY <2>1, <3>2
      <4>. QED  BY <2>3, <4>1, <4>2 DEF Gone
    <3>. QED  BY <2>1, <3>1, <3>2, UpFacts, SlotFacts
  <2>. QED  BY <2>0, <2>1, <2>2, <2>3 DEF ReadInv
<1>. QED  BY <1>5, <1>6, <1>8, <1>9, <1>10, <1>11, <1>12 DEF UpInv, Up

LEMMA GcEraseUp ==
    ASSUME NEW w, Up(w), GcErase \/ GcErased
    PROVE  UpInv'
<1>1. CASE GcErase
  <2>1. /\ gc.pc = "ERASE" /\ BeginErase(Other)
        /\ UNCHANGED <<active, version, free, where, gcFailed, rd, gc, boot,
                       wpc, slot>>
        BY <1>1 DEF GcErase, GcUnchanged, writerVars
  <2>2. /\ flash'[active] = flash[active]
        /\ \A s \in Slots :
              flash'[Other][s] \in {flash[Other][s], Blank, Garbage}
        BY <2>1, UpFacts, BeginEraseFacts
  <2>3. boot' \in {"GC", "UP"}
        BY <2>1 DEF Up
  <2>. QED  BY <2>1, <2>2, <2>3, ErasingUp
<1>2. CASE GcErased
  <2>1. /\ gc.pc = "ERASE" /\ EndErase(Other) /\ GcReturns("OK")
        /\ UNCHANGED <<active, version, free, where, gcFailed>>
        BY <1>2 DEF GcErased
  <2>2. gc' = NoGc /\ boot' = "UP" /\ rd' = rd
        BY <2>1 DEF GcReturns
  <2>3. wpc'[w] \in Finished
    <3>1. CASE gc.by = "init"
          BY <2>1, <3>1, Owners DEF Up, GcReturns, writerVars
    <3>2. CASE gc.by # "init"
      <4>1. gc.by = w /\ Finish(gc.by, "OK")
            BY <2>1, <3>2, Owners DEF Up, GcReturns
      <4>. QED  BY <4>1 DEF Finish, Finished, Up, TypeOK
    <3>. QED  BY <3>1, <3>2
  <2>4. /\ flash'[active] = flash[active]
        /\ \A s \in Slots : flash'[Other][s] = Blank
        BY <2>1, UpFacts, EndEraseFacts
  <2>. QED  BY <2>1, <2>2, <2>3, <2>4, ErasingUp
<1>. QED  BY <1>1, <1>2

\* A collection for a writer fails: the writers after it wait for ever, but
\* what is stored is still found.
LEMMA GcFailedUp ==
    ASSUME NEW w, Up(w), Copying, gc.by # "init", GcReturns("ERROR"), gcFailed',
           UNCHANGED <<flash, active, version, free, where>>
    PROVE  UpInv'
<1>1. gc.pc # "OFF" /\ gc.by = w /\ boot = "UP"
      BY Owners DEF Copying, Up
<1>2. /\ gc' = NoGc /\ boot' = "UP" /\ rd' = rd /\ Finish(w, "ERROR")
      /\ gc'.pc = "OFF" /\ gc'.by = "none"
      BY <1>1 DEF GcReturns, NoGc
<1>3. wpc'[w] = "ERROR"
      BY <1>2 DEF Finish, Up, TypeOK
<1>4. wpc[w] = "GC" /\ gc.pc # "ERASE"
      BY <1>1, Owners DEF Up, Copying
<1>5. Used(w)' = Used(w) /\ Following(w)' = Following(w)
      BY <1>1, <1>2, <1>3, <1>4 DEF Used, Following
<1>6. ActiveInv(w)'
      BY <1>5 DEF Up, ActiveInv
<1>7. free >= Size
      BY <1>1 DEF Up, FreeInv
<1>8. FreeInv(w)'
      BY <1>2, <1>3, <1>7 DEF FreeInv, Finished
<1>9. Other' = Other
      BY DEF Other
<1>10. VersionInv(w)'
       BY <1>2, <1>4, <1>9 DEF Up, VersionInv, Writing
<1>11. WhereInv(w)'
       BY <1>2 DEF Up, WhereInv
<1>12. OtherInv' /\ RoomInv'
       BY <1>2 DEF OtherInv, RoomInv
<1>13. OneSwitch => ReadInv'
       BY <1>2 DEF Up, ReadInv, Gone, Copying
<1>. QED  BY <1>6, <1>8, <1>10, <1>11, <1>12, <1>13 DEF UpInv, Up

\* The collection of sotp_init always has room for its copies.
LEMMA InitHasRoom ==
    ASSUME NEW w, Up(w), GcTooSmall
    PROVE  gc.by # "init"
<1>1. SUFFICES ASSUME gc.by = "init" PROVE FALSE
      OBVIOUS
<1>2. gc.pc = "COPY" /\ Remaining # {} /\ gc.to + 1 >= Size
      BY DEF GcTooSmall
<1>3. IsFiniteSet(Remaining) /\ Cardinality(Remaining) + gc.to <= free
      BY <1>1, <1>2 DEF Up, RoomInv
<1>4. Cardinality(Remaining) \in Nat /\ Cardinality(Remaining) # 0
      BY <1>2, <1>3, FS_CardinalityType, FS_EmptySet
<1>5. boot = "GC"
      BY <1>1, <1>2, Owners DEF Up
<1>6. free - 1 <= Size - 2
      BY <1>5, UpFacts DEF Up, ActiveInv, Used, Shape
<1>7. gc.to \in Nat
      BY DEF Up, TypeOK
<1>. QED  BY <1>2, <1>3, <1>4, <1>6, <1>7, UpFacts

LEMMA GcUp ==
    ASSUME NEW w, Up(w), NoWrap, Gc \/ GcFails, sound'
    PROVE  UpInv'
<1>1. CASE GcTooSmall
  <2>1. gc.by # "init" /\ Copying
        BY <1>1, InitHasRoom DEF GcTooSmall, Copying
  <2>. QED  BY <1>1, <2>1, GcFailedUp DEF GcTooSmall
<1>2. CASE GcFails
  <2>1. gc.by # "init" /\ Copying
        BY <1>2 DEF GcFails, Copying, Up, TypeOK
  <2>. QED  BY <1>2, <2>1, GcFailedUp DEF GcFails
<1>3. CASE GcMaster
      BY <1>3, GcMasterBegins, GcMasterEnds
<1>. QED  BY <1>1, <1>2, <1>3, GcItemUp, GcCopyUp, GcEraseUp DEF Gc

-----------------------------------------------------------------------------
(* The invariant, and what follows.                                        *)

LEMMA InitInv ==
    ASSUME OneWriter, Init
    PROVE  SotpInv
<1>0. PICK w : Writers = {w}
      BY DEF OneWriter
<1>1. flash \in Flash /\ \A a \in Areas, s \in Slots : flash[a][s] = Blank
      BY RecordFacts DEF Init, Flash
<1>2. /\ NoGc \in [pc : {"OFF", "ITEM", "COPY", "ERASE"},
                   by : Writers \cup {"none", "init"}, to : 0 .. Size]
      /\ NoGc.pc = "OFF" /\ NoGc.by = "none"
      BY SlotFacts DEF NoGc
<1>3. /\ NoGet \in [pc : {"IDLE", "READ", "INVALID", "FOUND", "OTHER",
                          "CORRUPT"},
                    type : Types \cup {0}, at : Places, switches : Nat]
      /\ NoGet.pc = "IDLE"
      BY SlotFacts DEF NoGet, Places, Nowhere, Areas
<1>4. /\ where \in [Types -> Places] /\ 0 \in 0 .. Versions - 1
      /\ 0 \in Areas /\ Blank \in Record /\ "NEW" \in Pcs
      BY SlotFacts, RecordFacts, SotpAssumption
         DEF Init, Places, Nowhere, Areas, Pcs, Finished
<1>5. /\ wpc \in [Writers -> Pcs] /\ arg \in [Writers -> Record]
      /\ slot \in [Writers -> Int] /\ saved \in [Writers -> Areas]
      BY <1>4 DEF Init
<1>6. TypeOK
  <2>1. /\ gc = NoGc /\ rd = NoGet /\ sound = TRUE /\ busy = FALSE
        /\ gcFailed = FALSE /\ boot = "SCAN" /\ victim = 0 /\ active = 0
        /\ version = 0 /\ free = 0 /\ ctr = 0 /\ sem = "free"
        BY DEF Init
  <2>. QED  BY <1>1, <1>2, <1>3, <1>4, <1>5, <2>1 DEF TypeOK, Flash
<1>7. WriterControl
      BY <1>0, <1>2, SotpAssumption DEF Init, WriterControl, Holding, Finished
<1>8. GcControl
      BY <1>2 DEF Init, GcControl
<1>9. ControlInv
      BY <1>3, <1>7, <1>8 DEF Init, ControlInv
<1>10. NoMaster(flash)
       BY <1>1, SlotFacts, RecordFacts DEF NoMaster, IsMaster, Areas
<1>11. BootFlash(flash)
       BY <1>1, <1>10, RecordFacts DEF BootFlash, NoMaster, Numbered
<1>12. BootInv
       BY <1>11 DEF Init, BootInv
<1>. QED  BY <1>6, <1>9, <1>12 DEF SotpInv, Init

\* The type invariant and the lock, whether the store is sound or not.
LEMMA ControlStep ==
    ASSUME OneWriter, TypeOK, ControlInv, [Next]_vars
    PROVE  TypeOK' /\ ControlInv'
<1>0. PICK w : Writers = {w}
      BY DEF OneWriter
<1>1. CASE Restart
  <2>1. flash' \in Flash /\ sound' \in BOOLEAN
        BY <1>1 DEF Restart, TypeOK, Flash
  <2>. QED  BY <1>0, <1>1, <2>1, RestartControl DEF Restart
<1>2. CASE UNCHANGED vars
  <2>1. UNCHANGED <<flash, sound, boot, victim, active, version, free, where,
                    ctr, sem, gc, busy, gcFailed, wpc, arg, slot, saved, rd>>
        BY <1>2 DEF vars, ramVars, lockVars, gcVars, writerVars
  <2>2. TypeOK'
        BY <2>1 DEF TypeOK
  <2>3. WriterControl' /\ GcControl'
        BY <2>1 DEF ControlInv, WriterControl, GcControl, Remaining
  <2>. QED  BY <2>1, <2>2, <2>3 DEF ControlInv
<1>3. CASE Boot
      BY <1>0, <1>3, BootControl
<1>4. CASE Gc \/ GcFails
      BY <1>0, <1>4, GcControlStep
<1>5. ASSUME NEW u \in Writers,
             \/ \E call \in Calls : Set(u, call[1], call[2])
             \/ Writer(u) \/ WriteFails(u)
      PROVE  TypeOK' /\ ControlInv'
  <2>1. u = w
        BY <1>0, <1>5
  <2>. QED  BY <1>0, <1>5, <2>1, WriterControlStep
<1>6. CASE Reader \/ \E t \in Types : GetOffset(t)
      BY <1>6, ReaderControlStep
<1>. QED  BY <1>1, <1>2, <1>3, <1>4, <1>5, <1>6 DEF Next

\* A step of a sound store.
LEMMA SoundStep ==
    ASSUME OneWriter, NoWrap, SotpInv, [Next]_vars, sound'
    PROVE  IF boot' \in {"GC", "UP"} THEN UpInv' ELSE BootInv'
<1>0. PICK w : Writers = {w}
      BY DEF OneWriter
<1>1. sound
      BY DEF Next, vars, ramVars, Restart, Boot, BootErase, BootErased,
             BootFresh, BootFormatted, BootTraverse, Gc, GcItem, GcCopy,
             GcMaster, GcErase, GcErased, GcTooSmall, GcFails, GcUnchanged,
             Set, Writer, Reserve, Promote, Write, Written, Return, WriteFails,
             GetOffset, Reader, GetRecord, GetAgain, GetReturns
<1>2. boot \in {"GC", "UP"} => Up(w)
      BY <1>0, <1>1 DEF SotpInv, UpInv, Up
<1>3. boot \notin {"GC", "UP"} => BootInv
      BY <1>1 DEF SotpInv
<1>4. TypeOK /\ ControlInv
      BY DEF SotpInv
<1>5. CASE Restart
  <2>1. BootInv'
        BY <1>2, <1>3, <1>5, RestartUp, RestartBoot
  <2>. QED  BY <1>5, <2>1 DEF Restart
<1>6. CASE UNCHANGED vars
  <2>1. UNCHANGED upVars /\ UNCHANGED <<rd, victim>>
        BY <1>6 DEF vars, ramVars, gcVars, writerVars, upVars
  <2>2. UNCHANGED <<boot, flash, active, where, gc>>
        BY <2>1 DEF upVars
  <2>3. CASE boot \in {"GC", "UP"}
    <3>1. /\ ActiveInv(w)' /\ FreeInv(w)' /\ VersionInv(w)' /\ WhereInv(w)'
          /\ OtherInv' /\ RoomInv'
          BY <1>2, <2>1, <2>3, UpFrame
    <3>2. OneSwitch => ReadInv'
          BY <1>2, <2>1, <2>2, <2>3 DEF Up, ReadInv, Gone, Copying
    <3>3. UpInv'
          BY <1>0, <3>1, <3>2 DEF UpInv
    <3>. QED  BY <2>2, <2>3, <3>3
  <2>4. CASE boot \notin {"GC", "UP"}
    <3>1. BootInv'
          BY <1>3, <2>1, <2>4 DEF BootInv, upVars
    <3>. QED  BY <2>2, <2>4, <3>1
  <2>. QED  BY <2>3, <2>4
<1>7. CASE Boot
  <2>1. boot \notin {"GC", "UP"}
        BY <1>7 DEF Boot, BootErase, BootErased, BootFresh, BootFormatted,
                    BootTraverse
  <2>2. BootInv
        BY <1>3, <2>1
  <2>3. CASE BootErase \/ BootErased \/ BootFresh
        BY <1>4, <2>2, <2>3, BootEarly
  <2>4. CASE BootFormatted
        BY <1>0, <1>4, <2>2, <2>4, BootFormattedStep
  <2>5. CASE BootTraverse
        BY <1>0, <1>4, <2>2, <2>5, BootTraverseStep
  <2>. QED  BY <1>7, <2>3, <2>4, <2>5 DEF Boot
<1>8. CASE Gc \/ GcFails
  <2>1. gc.pc # "OFF"
        BY <1>8 DEF Gc, GcItem, GcCopy, GcMaster, GcErase, GcErased,
                    GcTooSmall, GcFails
  <2>2. boot \in {"GC", "UP"}
        BY <1>0, <1>4, <2>1, Owners
  <2>3. UpInv'
        BY <1>2, <1>8, <2>2, GcUp
  <2>4. boot' \in {"GC", "UP"}
        BY <1>8, <2>2 DEF Gc, GcItem, GcCopy, GcMaster, GcErase, GcErased,
           GcTooSmall, GcFails, GcUnchanged, GcReturns
  <2>. QED  BY <2>3, <2>4
<1>9. ASSUME NEW u \in Writers,
             \/ \E call \in Calls : Set(u, call[1], call[2])
             \/ Writer(u) \/ WriteFails(u)
      PROVE  UpInv' /\ boot' \in {"GC", "UP"}
  <2>1. u = w
        BY <1>0, <1>9
  <2>2. ~WriteFails(w)
        BY DEF WriteFails
  <2>3. boot = "UP"
    <3>1. CASE \E call \in Calls : Set(w, call[1], call[2])
          BY <3>1 DEF Set
    <3>2. CASE Writer(w)
      <4>1. wpc[w] \notin Finished
            BY <3>2 DEF Writer, Reserve, Promote, Write, Written, Return,
                        Finished
      <4>. QED  BY <1>0, <1>4, <4>1, Owners
    <3>. QED  BY <1>9, <2>1, <2>2, <3>1, <3>2
  <2>4. Up(w)
        BY <1>2, <2>3
  <2>5. boot' = boot
        BY <1>9, <2>1, <2>2 DEF Set, Writer, Reserve, Promote, Write, Written,
           Return, ramVars
  <2>6. UpInv'
        BY <1>9, <2>1, <2>2, <2>4, SetUp, ReserveUp, PromoteUp, WriteUp,
           WrittenUp, ReturnUp DEF Writer
  <2>. QED  BY <2>3, <2>5, <2>6
<1>10. CASE Reader \/ \E t \in Types : GetOffset(t)
  <2>1. boot = "UP"
    <3>1. CASE Reader
          BY <1>0, <1>4, <3>1, Owners
             DEF Reader, GetRecord, GetAgain, GetReturns
    <3>2. CASE \E t \in Types : GetOffset(t)
          BY <3>2 DEF GetOffset
    <3>. QED  BY <1>10, <3>1, <3>2
  <2>2. UpInv'
        BY <1>2, <1>10, <2>1, ReaderUp
  <2>3. boot' = boot
        BY <1>10 DEF Reader, GetOffset, GetRecord, GetAgain, GetReturns,
                     ramVars
  <2>. QED  BY <2>1, <2>2, <2>3
<1>. QED  BY <1>5, <1>6, <1>7, <1>8, <1>9, <1>10 DEF Next

\* The type invariant, for one writer at a time; the lock is free, shared or
\* exclusive as the writer's progress says (sotp_sh_lock_*).
THEOREM TypeCorrect == ASSUME OneWriter PROVE Spec => []TypeOK
<1>1. Init => TypeOK /\ ControlInv
      BY InitInv DEF SotpInv
<1>2. TypeOK /\ ControlInv /\ [Next]_vars => (TypeOK /\ ControlInv)'
      BY ControlStep
<1>. QED  BY <1>1, <1>2, PTL DEF Spec

\* The invariant of the store: what the flash holds, in which order, at every
\* step of sotp_init, sotp_set, sotp_get and the garbage collection.
THEOREM SotpInvariant == ASSUME OneWriter, NoWrap PROVE Spec => []SotpInv
<1>1. Init => SotpInv
      BY InitInv
<1>2. SotpInv /\ [Next]_vars => SotpInv'
  <2>1. ASSUME SotpInv, [Next]_vars PROVE TypeOK' /\ ControlInv'
        BY <2>1, ControlStep DEF SotpInv
  <2>2. ASSUME SotpInv, [Next]_vars, sound'
        PROVE  IF boot' \in {"GC", "UP"} THEN UpInv' ELSE BootInv'
        BY <2>2, SoundStep
  <2>. QED  BY <2>1, <2>2 DEF SotpInv
<1>. QED  BY <1>1, <1>2, PTL DEF Spec

\* write_record always goes to erased flash.
THEOREM BlankWrites ==
    ASSUME OneWriter, NoWrap PROVE Spec => []WritesGoToBlank
<1>1. SotpInv => WritesGoToBlank
  <2>1. SUFFICES ASSUME SotpInv, NEW w \in Writers, sound, wpc[w] = "WRITE"
        PROVE  slot[w] \in Slots /\ flash[active][slot[w]] = Blank
        BY DEF WritesGoToBlank
  <2>2. Writers = {w} /\ boot = "UP"
        BY <2>1 DEF OneWriter, SotpInv, ControlInv, WriterControl, Finished
  <2>3. Up(w)
        BY <2>1, <2>2 DEF SotpInv, UpInv, Up
  <2>4. gc.pc = "OFF" /\ ~Copying
        BY <2>1, <2>2, <2>3, NoCollection
  <2>5. ~gcFailed /\ slot[w] = free - 1
        BY <2>1, <2>3 DEF Up, FreeInv, Finished
  <2>6. Used(w) = free - 2 /\ Following(w) = Blank
        BY <2>1, <2>2, <2>4, <2>5 DEF Used, Following
  <2>7. slot[w] = Used(w) + 1
        BY <2>3, <2>5, <2>6, UpFacts
  <2>8. Shape(flash[active], Used(w), Blank)
        BY <2>3, <2>6 DEF Up, ActiveInv
  <2>. QED  BY <2>7, <2>8, ShapePrefix
<1>. QED  BY <1>1, SotpInvariant, PTL

\* sotp_get, without a lock, never returns a record of another type nor
\* SOTP_DATA_CORRUPT, if at most one garbage collection ends meanwhile.
THEOREM GetsFindItems ==
    ASSUME OneWriter, NoWrap, OneSwitch PROVE Spec => []GetFindsItem
<1>1. SotpInv => GetFindsItem
  <2>1. SUFFICES ASSUME SotpInv, sound PROVE rd.pc \notin {"OTHER", "CORRUPT"}
        BY DEF GetFindsItem
  <2>2. PICK w : Writers = {w}
        BY DEF OneWriter
  <2>3. CASE rd.pc # "IDLE"
    <3>1. boot = "UP"
          BY <2>1, <2>3 DEF SotpInv, ControlInv
    <3>2. ReadInv
          BY <2>1, <2>2, <3>1 DEF SotpInv, UpInv
    <3>. QED  BY <2>3, <3>2 DEF ReadInv
  <2>. QED  BY <2>3
<1>. QED  BY <1>1, SotpInvariant, PTL

-----------------------------------------------------------------------------
(* Sotp implements SotpStore.                                              *)

\* What a restart finds for a type, as a function of the flash.
Content(F, t) ==
    LET at == LatestOf(F[Chosen(F)], Chosen(F), t)
    IN  IF at = Nowhere THEN "none" ELSE F[Chosen(F)][at.slot].value

LEMMA RecoverIs ==
    /\ Recover = [t \in Types |-> Content(flash, t)]
    /\ Recover' = [t \in Types |-> Content(flash', t)]
<1>1. \A A, a, t : LatestOf(A, a, t) # Nowhere => LatestOf(A, a, t).area = a
      BY DEF LatestOf
<1>2. ASSUME NEW t \in Types
      PROVE  (LET at == Latest(ActiveArea, t)
              IN  IF at = Nowhere THEN "none" ELSE flash[at.area][at.slot].value)
             = Content(flash, t)
  <2>1. Latest(ActiveArea, t) = LatestOf(flash[Chosen(flash)], Chosen(flash), t)
        BY ActiveIsChosen, AreaFacts
  <2>. QED  BY <1>1, <2>1 DEF Content
<1>3. Recover = [t \in Types |-> Content(flash, t)]
      BY <1>2 DEF Recover
<1>4. ActiveArea' = Chosen(flash')
      BY DEF ActiveArea, Newer, HasMaster, Chosen, IsMaster, Version
<1>5. ASSUME NEW t \in Types
      PROVE  (LET at == Latest(ActiveArea, t)
              IN  IF at = Nowhere THEN "none" ELSE flash[at.area][at.slot].value)'
             = Content(flash', t)
  <2>1. Latest(ActiveArea, t)' = LatestOf(flash'[ActiveArea'], ActiveArea', t)
        BY DEF Latest, LatestOf, ValidPrefix, PrefixOf
  <2>. QED  BY <1>1, <1>4, <2>1 DEF Content
<1>6. Recover' = [t \in Types |-> Content(flash', t)]
      BY <1>5 DEF Recover
<1>. QED  BY <1>3, <1>6

\* What is stored is what the index says, except during the copying and after
\* a collection that failed.
Indexed(t) ==
    IF where[t] = Nowhere THEN "none"
    ELSE flash[where[t].area][where[t].slot].value

ContentInv ==
    sound /\ boot \in {"GC", "UP"} =>
        /\ Chosen(flash) = active
        /\ ~gcFailed /\ gc.pc # "COPY" =>
              \A t \in Types : Content(flash, t) = Indexed(t)

LEMMA ContentHolds ==
    ASSUME OneWriter, SotpInv
    PROVE  ContentInv
<1>1. SUFFICES ASSUME sound, boot \in {"GC", "UP"}
      PROVE  /\ Chosen(flash) = active
             /\ ~gcFailed /\ gc.pc # "COPY" =>
                   \A t \in Types : Content(flash, t) = Indexed(t)
      BY DEF ContentInv
<1>2. PICK w : Writers = {w}
      BY DEF OneWriter
<1>3. Up(w)
      BY <1>1, <1>2 DEF SotpInv, UpInv, Up
<1>4. Chosen(flash) = active
      BY <1>3, ActiveIs
<1>5. ASSUME ~gcFailed, gc.pc # "COPY", NEW t \in Types
      PROVE  Content(flash, t) = Indexed(t)
  <2>1. where[t] = LatestOf(flash[active], active, t)
        BY <1>3, <1>5 DEF Up, WhereInv, Found
  <2>2. where[t] # Nowhere => where[t].area = active
        BY <2>1 DEF LatestOf
  <2>. QED  BY <1>4, <2>1, <2>2 DEF Content, Indexed
<1>. QED  BY <1>4, <1>5

\* Steps that change nothing for the callers.
LEMMA StoreStutters ==
    ASSUME NEW w, Writers = {w}, UNCHANGED <<arg, sound>>,
           Status(w)' = Status(w),
           \A t \in Types : Content(flash', t) = Content(flash, t)
    PROVE  UNCHANGED Store!vars
<1>1. Recover' = Recover
      BY RecoverIs
<1>2. [u \in Writers |-> [status |-> Status(u), arg |-> arg[u]]]'
         = [u \in Writers |-> [status |-> Status(u), arg |-> arg[u]]]
      OBVIOUS
<1>. QED  BY <1>1, <1>2 DEF Store!vars

\* The steps of a call, as its caller sees them.
LEMMA StoreCalls ==
    ASSUME NEW w, Writers = {w}, UNCHANGED sound,
           \A t \in Types : Content(flash', t) = Content(flash, t),
           \/ Status(w) \in Finished /\ Status(w)' = "BUSY"
           \/ Status(w) = "DONE" /\ Status(w)' = "OK"
           \/ Status(w) \in {"BUSY", "DONE"} /\ Status(w)' = "ERROR"
    PROVE  Store!Next
<1>. DEFINE C == [u \in Writers |-> [status |-> Status(u), arg |-> arg[u]]]
<1>1. Recover' = Recover
      BY RecoverIs
<1>2. C[w].status = Status(w) /\ C'[w].status = Status(w)'
      OBVIOUS
<1>3. Store!Call(w) \/ Store!Succeed(w) \/ Store!Fail(w)
      BY <1>1, <1>2 DEF Store!Call, Store!Succeed, Store!Fail, Store!Free,
                        Finished
<1>4. \A u \in Writers \ {w} : C'[u] = C[u]
      OBVIOUS
<1>. QED  BY <1>3, <1>4 DEF Store!Next

LEMMA StoreApplies ==
    ASSUME NEW w, Writers = {w}, UNCHANGED <<arg, sound>>,
           Status(w) = "BUSY", Status(w)' = "DONE", arg[w].type \in Types,
           \A t \in Types :
               Content(flash', t) = IF t = arg[w].type THEN arg[w].value
                                    ELSE Content(flash, t)
    PROVE  Store!Next
<1>. DEFINE C == [u \in Writers |-> [status |-> Status(u), arg |-> arg[u]]]
<1>1. Recover' = [Recover EXCEPT ![arg[w].type] = arg[w].value]
      BY RecoverIs
<1>2. C[w].status = "BUSY" /\ C[w].arg = arg[w]
      OBVIOUS
<1>3. C' = [C EXCEPT ![w].status = "DONE"]
  <2>1. C' = [u \in Writers |-> [status |-> "DONE", arg |-> arg[w]]]
        OBVIOUS
  <2>2. C = [u \in Writers |-> [status |-> "BUSY", arg |-> arg[w]]]
        OBVIOUS
  <2>. QED  BY <2>1, <2>2
<1>4. Store!Apply(w)
      BY <1>1, <1>2, <1>3 DEF Store!Apply
<1>5. \A u \in Writers \ {w} : C'[u] = C[u]
      OBVIOUS
<1>. QED  BY <1>4, <1>5 DEF Store!Next

LEMMA StoreCrashes ==
    ASSUME NEW w, Writers = {w}, Restart
    PROVE  Store!Next
<1>. DEFINE C == [u \in Writers |-> [status |-> Status(u), arg |-> arg[u]]]
<1>1. flash' = flash /\ wpc'[w] = "NEW" /\ sound' = sound
      BY DEF Restart
<1>2. Recover' = Recover
      BY <1>1, RecoverIs
<1>3. Status(w)' = "NEW"
      BY <1>1 DEF Status, Finished
<1>4. \A u \in Writers : C'[u].status = "NEW"
      BY <1>3
<1>. QED  BY <1>1, <1>2, <1>4 DEF Store!Next, Store!Crash

LEMMA StoreUnsound ==
    ASSUME ~sound'
    PROVE  Store!Next
BY DEF Store!Next

\* sotp_init finds what there is.
LEMMA BootContent ==
    ASSUME TypeOK, BootInv, Boot
    PROVE  \A t \in Types : Content(flash', t) = Content(flash, t)
<1>0. flash \in Flash
      BY DEF TypeOK, Flash
<1>1. ASSUME NEW F, \A a \in Areas, s \in Slots : F[a][s].kind # "item", NEW t
      PROVE  Content(F, t) = "none"
  <2>1. Prefix(F[Chosen(F)], 0)
        BY <1>1, ChosenFacts, SlotFacts DEF Prefix
  <2>2. LatestOf(F[Chosen(F)], Chosen(F), t) = Nowhere
        BY <2>1, LatestNone
  <2>. QED  BY <2>2 DEF Content
<1>2. ASSUME NEW a \in Areas, flash'[1 - a] = flash[1 - a],
             \A s \in Slots : flash'[a][s] \in {flash[a][s], Blank, Garbage},
             \/ NoMaster(flash)
             \/ IsMaster(flash[1 - a]) /\ Chosen(flash) = 1 - a
      PROVE  \A t \in Types : Content(flash', t) = Content(flash, t)
  <2>1. CASE NoMaster(flash)
    <3>1. \A b \in Areas, s \in Slots : flash[b][s].kind # "item"
          BY <2>1 DEF BootInv, BootFlash
    <3>2. \A s \in Slots : flash'[a][s].kind # "item"
          BY <1>2, <3>1, RecordFacts
    <3>3. \A s \in Slots : flash'[1 - a][s].kind # "item"
          BY <1>2, <3>1, SlotFacts
    <3>4. \A b \in Areas, s \in Slots : flash'[b][s].kind # "item"
          BY <3>2, <3>3, SlotFacts
    <3>. QED  BY <1>1, <3>1, <3>4
  <2>2. CASE IsMaster(flash[1 - a]) /\ Chosen(flash) = 1 - a
    <3>1. Chosen(flash') = 1 - a
          BY <1>2, <2>2, EraseKeeps
    <3>. QED  BY <1>2, <2>2, <3>1 DEF Content
  <2>. QED  BY <1>2, <2>1, <2>2
<1>3. CASE BootErase
  <2>1. PICK a \in Areas :
            /\ \/ ~AllBlank(a) /\ ~HasMaster(a)
               \/ HasMaster(0) /\ HasMaster(1) /\ a # ActiveArea
            /\ victim' = a /\ BeginErase(a)
        BY <1>3 DEF BootErase
  <2>2. \/ NoMaster(flash)
        \/ IsMaster(flash[1 - a]) /\ Chosen(flash) = 1 - a
        BY <2>1, EraseAllowed
  <2>3. /\ flash'[1 - a] = flash[1 - a]
        /\ \A s \in Slots : flash'[a][s] \in {flash[a][s], Blank, Garbage}
        BY <1>0, <2>1, BeginEraseFacts
  <2>. QED  BY <1>2, <2>2, <2>3
<1>4. CASE BootErased
  <2>1. victim \in Areas /\ EndErase(victim) /\ boot = "ERASING"
        BY <1>4 DEF BootErased, TypeOK
  <2>2. \/ NoMaster(flash)
        \/ IsMaster(flash[1 - victim]) /\ Chosen(flash) = 1 - victim
        BY <2>1 DEF BootInv
  <2>3. /\ flash'[1 - victim] = flash[1 - victim]
        /\ \A s \in Slots :
              flash'[victim][s] \in {flash[victim][s], Blank, Garbage}
        BY <1>0, <2>1, EndEraseFacts
  <2>. QED  BY <1>2, <2>1, <2>2, <2>3
<1>5. CASE BootFresh \/ BootFormatted
  <2>1. \A a \in Areas, s \in Slots : flash[a][s].kind # "item"
    <3>1. CASE BootFresh
          BY <3>1, RecordFacts DEF BootFresh, AllBlank, Areas
    <3>2. CASE BootFormatted
      <4>1. /\ \A s \in Slots : flash[1][s] = Blank
            /\ flash[0][0] = Torn /\ BlankAfter(flash[0], 0)
            BY <3>2 DEF BootFormatted, BootInv
      <4>2. \A s \in Slots \ {0} : flash[0][s] = Blank
            BY <4>1, SlotFacts DEF BlankAfter
      <4>. QED  BY <4>1, <4>2, RecordFacts DEF Areas
    <3>. QED  BY <1>5, <3>1, <3>2
  <2>2. \A a \in Areas, s \in Slots : flash'[a][s].kind # "item"
    <3>1. CASE BootFresh
      <4>1. Begin(0, 0) /\ 0 \in Areas /\ 1 - 0 = 1
            BY <3>1 DEF BootFresh, Areas
      <4>2. /\ flash'[1 - 0] = flash[1 - 0]
            /\ \A r \in Slots \ {0} : flash'[0][r] = flash[0][r]
            /\ flash'[0][0] \in {Torn, Garbage}
            BY <1>0, <4>1, BeginFacts, SlotFacts
      <4>. QED  BY <2>1, <4>1, <4>2, RecordFacts DEF Areas
    <3>2. CASE BootFormatted
      <4>1. End(0, 0, Master(1)) /\ 0 \in Areas /\ 1 - 0 = 1
            /\ Master(1) \in Record
            BY <3>2, RecordFacts, SotpAssumption DEF BootFormatted, Areas
      <4>2. /\ flash'[1 - 0] = flash[1 - 0]
            /\ \A r \in Slots \ {0} : flash'[0][r] = flash[0][r]
            /\ flash'[0][0] \in {Master(1), Garbage}
            BY <1>0, <4>1, EndFacts, SlotFacts
      <4>. QED  BY <2>1, <4>1, <4>2, RecordFacts DEF Areas
    <3>. QED  BY <1>5, <3>1, <3>2
  <2>. QED  BY <1>1, <2>1, <2>2
<1>6. CASE BootTraverse
      BY <1>6 DEF BootTraverse
<1>. QED  BY <1>3, <1>4, <1>5, <1>6 DEF Boot


\* As long as the area in use is left alone, so is what is stored.
LEMMA ActiveKept ==
    ASSUME NEW w, Up(w), ContentInv', sound', boot' \in {"GC", "UP"},
           flash'[active] = flash[active], active' = active
    PROVE  \A t \in Types : Content(flash', t) = Content(flash, t)
<1>1. Chosen(flash) = active
      BY ActiveIs
<1>2. Chosen(flash') = active
      BY DEF ContentInv
<1>. QED  BY <1>1, <1>2 DEF Content

\* The copies become what is stored, with the new item in place of the old one.
LEMMA MasterContent ==
    ASSUME NEW w, Up(w), GcMaster, busy, ContentInv'
    PROVE  \A t \in Types :
               Content(flash', t) = IF gc.by = w /\ t = arg[w].type
                                      THEN arg[w].value ELSE Content(flash, t)
<1>1. /\ gc.pc = "COPY" /\ Remaining = {}
      /\ End(Other, 0, Master(version)) /\ active' = Other
      /\ gc' = [gc EXCEPT !.pc = "ERASE"]
      /\ UNCHANGED <<sound, boot, gcFailed, where>>
      BY DEF GcMaster, GcUnchanged
<1>2. /\ Chosen(flash) = active /\ sound /\ boot \in {"GC", "UP"}
      /\ ~gcFailed /\ gc'.pc # "COPY"
      BY <1>1, ActiveIs DEF Up, FreeInv, TypeOK
<1>3. \A t \in Types : Content(flash', t) = Indexed(t)'
      BY <1>1, <1>2 DEF ContentInv
<1>4. /\ flash'[active] = flash[active]
      /\ \A s \in Slots \ {0} : flash'[Other][s] = flash[Other][s]
  <2>1. Master(version) \in Record
        BY RecordFacts DEF Up, TypeOK
  <2>. QED  BY <1>1, <2>1, UpFacts, SlotFacts, EndFacts
<1>5. ASSUME NEW t \in Types
      PROVE  Content(flash', t) = Indexed(t)
  <2>1. CASE where[t] = Nowhere
        BY <1>1, <1>3, <2>1 DEF Indexed
  <2>2. CASE where[t] # Nowhere
    <3>1. flash'[where[t].area][where[t].slot]
             = flash[where[t].area][where[t].slot]
          BY <1>4, <2>2, UpFacts, SlotFacts DEF Up, WhereInv, TypeOK, Places
    <3>. QED  BY <1>1, <1>3, <2>2, <3>1 DEF Indexed
  <2>. QED  BY <2>1, <2>2
<1>6. ASSUME NEW t \in Types, NotCopied(w, t)
      PROVE  Content(flash', t) = IF gc.by = w /\ t = arg[w].type
                                    THEN arg[w].value ELSE Content(flash, t)
  <2>1. where[t] = Found(t) /\ ~(gc.by = w /\ t = arg[w].type)
        BY <1>6 DEF NotCopied
  <2>2. where[t] # Nowhere => where[t].area = active
        BY <2>1 DEF Found, LatestOf
  <2>3. Indexed(t) = Content(flash, t)
        BY <1>2, <2>1, <2>2 DEF Indexed, Content, Found
  <2>. QED  BY <1>5, <2>1, <2>3
<1>7. ASSUME NEW t \in Types, IsCopied(w, t)
      PROVE  Content(flash', t) = IF gc.by = w /\ t = arg[w].type
                                    THEN arg[w].value ELSE Content(flash, t)
  <2>1. /\ where[t].area = Other /\ where[t].slot # 0
        /\ flash[Other][where[t].slot] =
              IF gc.by = w /\ t = arg[w].type THEN arg[w]
              ELSE flash[active][Found(t).slot]
        /\ Found(t).slot # 0 \/ (gc.by = w /\ t = arg[w].type)
        BY <1>7 DEF IsCopied
  <2>2. Indexed(t) = flash[Other][where[t].slot].value
        BY <2>1 DEF Indexed, Nowhere
  <2>3. Found(t).slot # 0 =>
            Content(flash, t) = flash[active][Found(t).slot].value
        BY <1>2 DEF Content, Found, Nowhere
  <2>. QED  BY <1>5, <2>1, <2>2, <2>3
<1>8. \A t \in Types : NotCopied(w, t) \/ IsCopied(w, t)
      BY <1>1 DEF Up, WhereInv, CopyInv
<1>. QED  BY <1>6, <1>7, <1>8

\* The steps of a collection.
LEMMA GcMaps ==
    ASSUME NEW w, Up(w), ContentInv', sound', Gc \/ GcFails
    PROVE  Store!Next \/ UNCHANGED Store!vars
<1>0. /\ gc.pc # "OFF" /\ sound' = sound /\ gc.by \in {w, "init"}
      /\ gc.by = w => wpc[w] = "GC"
      /\ gc.by = "init" => wpc[w] \in Finished
      /\ w # "init"
  <2>1. gc.pc # "OFF"
        BY DEF Gc, GcItem, GcCopy, GcMaster, GcErase, GcErased, GcTooSmall,
               GcFails
  <2>2. sound' = sound
        BY DEF Up, TypeOK
  <2>. QED  BY <2>1, <2>2, Owners DEF Up
<1>1. flash \in Flash /\ Other \in Areas /\ 1 - Other = active
      BY UpFacts
<1>2. CASE \/ GcItem \/ GcCopy \/ GcErase
           \/ GcMaster /\ ~busy
  <2>1. flash'[active] = flash[active]
    <3>1. CASE GcItem
      <4>1. gc.to \in Slots /\ arg[gc.by] \in Record
        <5>1. gc.by = w /\ gc.to = 1
              BY <1>0, <3>1 DEF GcItem, Up, ControlInv, GcControl
        <5>. QED  BY <5>1, UpFacts, SlotFacts DEF Up, TypeOK
      <4>2. Begin(Other, gc.to) \/ End(Other, gc.to, arg[gc.by])
            BY <3>1 DEF GcItem
      <4>. QED  BY <1>1, <4>1, <4>2, BeginFacts, EndFacts
    <3>2. CASE GcCopy
      <4>1. gc.pc = "COPY" /\ Remaining # {}
            BY <3>2 DEF GcCopy
      <4>2. gc.to \in Slots
            BY <4>1, SlotFacts DEF Up, ControlInv, GcControl
      <4>3. flash[active][where[NextType].slot] \in Record
            BY <4>1, NextFacts, RecordFacts
      <4>4. \/ Begin(Other, gc.to)
            \/ End(Other, gc.to, flash[active][where[NextType].slot])
            BY <3>2 DEF GcCopy
      <4>. QED  BY <1>1, <4>2, <4>3, <4>4, BeginFacts, EndFacts
    <3>3. CASE GcErase
          BY <1>1, <3>3, BeginEraseFacts DEF GcErase
    <3>4. CASE GcMaster /\ ~busy
          BY <1>1, <3>4, BeginFacts, SlotFacts DEF GcMaster
    <3>. QED  BY <1>2, <3>1, <3>2, <3>3, <3>4
  <2>2. /\ UNCHANGED <<active, boot, wpc, arg>>
        /\ gc'.pc = "ERASE" <=> gc.pc = "ERASE"
        BY <1>2 DEF GcItem, GcCopy, GcErase, GcMaster, GcUnchanged, writerVars,
                    Up, TypeOK
  <2>3. \A t \in Types : Content(flash', t) = Content(flash, t)
        BY <2>1, <2>2, ActiveKept DEF Up
  <2>4. Status(w)' = Status(w)
        BY <2>2 DEF Status
  <2>. QED  BY <1>0, <2>2, <2>3, <2>4, StoreStutters DEF Up
<1>3. CASE GcMaster /\ busy
  <2>1. /\ gc.pc = "COPY" /\ gc' = [gc EXCEPT !.pc = "ERASE"]
        /\ UNCHANGED <<wpc, arg>>
        BY <1>3 DEF GcMaster, GcUnchanged, writerVars
  <2>2. gc'.pc = "ERASE"
        BY <2>1 DEF Up, TypeOK
  <2>3. \A t \in Types :
            Content(flash', t) = IF gc.by = w /\ t = arg[w].type
                                   THEN arg[w].value ELSE Content(flash, t)
        BY <1>3, MasterContent
  <2>4. CASE gc.by = w
    <3>1. Status(w) = "BUSY" /\ Status(w)' = "DONE"
          BY <1>0, <2>1, <2>2, <2>4 DEF Status, Finished
    <3>2. arg[w].type \in Types
      <4>1. arg[w] \in Items
            BY <1>0, <2>4 DEF Up, ControlInv, WriterControl, Finished
      <4>. QED  BY <4>1, RecordFacts
    <3>. QED  BY <1>0, <2>1, <2>3, <2>4, <3>1, <3>2, StoreApplies DEF Up
  <2>5. CASE gc.by = "init"
    <3>1. Status(w)' = Status(w)
          BY <1>0, <2>1, <2>5 DEF Status
    <3>. QED  BY <1>0, <2>1, <2>3, <2>5, <3>1, StoreStutters DEF Up
  <2>. QED  BY <1>0, <2>4, <2>5
<1>4. CASE GcErased \/ GcTooSmall \/ GcFails
  <2>1. /\ active' = active /\ boot' = "UP"
        /\ IF gc.by = "init" THEN UNCHANGED writerVars
           ELSE (GcErased /\ Finish(w, "OK")) \/ Finish(w, "ERROR")
        BY <1>0, <1>4 DEF GcErased, GcTooSmall, GcFails, GcReturns
  <2>2. flash'[active] = flash[active]
    <3>1. CASE GcErased
          BY <1>1, <3>1, EndEraseFacts DEF GcErased
    <3>2. CASE GcTooSmall \/ GcFails
          BY <3>2 DEF GcTooSmall, GcFails
    <3>. QED  BY <1>4, <3>1, <3>2
  <2>3. \A t \in Types : Content(flash', t) = Content(flash, t)
        BY <2>1, <2>2, ActiveKept
  <2>4. CASE gc.by = "init"
    <3>1. UNCHANGED <<wpc, arg>>
          BY <2>1, <2>4 DEF writerVars
    <3>2. Status(w)' = Status(w)
          BY <1>0, <2>4, <3>1 DEF Status
    <3>. QED  BY <1>0, <2>3, <3>1, <3>2, StoreStutters DEF Up
  <2>5. CASE gc.by = w
    <3>1. (GcErased /\ wpc'[w] = "OK") \/ wpc'[w] = "ERROR"
          BY <1>0, <2>1, <2>5 DEF Finish, Up, TypeOK
    <3>2. GcErased => gc.pc = "ERASE"
          BY DEF GcErased
    <3>3. \/ Status(w) = "DONE" /\ Status(w)' = "OK"
          \/ Status(w) \in {"BUSY", "DONE"} /\ Status(w)' = "ERROR"
          BY <1>0, <2>5, <3>1, <3>2 DEF Status, Finished
    <3>. QED  BY <1>0, <2>3, <3>3, StoreCalls DEF Up
  <2>. QED  BY <1>0, <2>4, <2>5
<1>. QED  BY <1>2, <1>3, <1>4 DEF Gc, GcFails


\* The steps of sotp_set.
LEMMA WriterMaps ==
    ASSUME NEW w, Up(w), ContentInv, ContentInv', sound', boot = "UP",
           (\E call \in Calls : Set(w, call[1], call[2])) \/ Writer(w)
    PROVE  Store!Next \/ UNCHANGED Store!vars
<1>0. Writers = {w} /\ sound /\ wpc \in [Writers -> Pcs] /\ w \in Writers
      /\ arg \in [Writers -> Record]
      BY DEF Up, TypeOK
<1>1. CASE \E call \in Calls : Set(w, call[1], call[2])
  <2>1. /\ wpc[w] \in Finished /\ wpc'[w] = "ENTER"
        /\ UNCHANGED <<flash, sound>>
        BY <1>0, <1>1 DEF Set
  <2>2. Status(w) \in Finished /\ Status(w)' = "BUSY"
        BY <2>1 DEF Status, Finished
  <2>. QED  BY <1>0, <2>1, <2>2, StoreCalls
<1>2. CASE Reserve(w) \/ Promote(w)
  <2>1. /\ wpc[w] \in {"ENTER", "PROMOTE", "ALONE"}
        /\ UNCHANGED <<flash, sound, arg>>
        BY <1>2 DEF Reserve, Promote
  <2>2. /\ wpc'[w] \in {"WRITE", "PROMOTE", "AWAIT", "ALONE", "GC"}
        /\ wpc'[w] = "GC" => gc'.pc # "ERASE"
        BY <1>0, <1>2 DEF Reserve, Promote
  <2>3. Status(w)' = Status(w)
        BY <2>1, <2>2 DEF Status, Finished
  <2>. QED  BY <1>0, <2>1, <2>3, StoreStutters
<1>3. CASE Write(w)
  <2>1. /\ wpc[w] = "WRITE" /\ wpc'[w] = "WRITING" /\ slot[w] \in Slots
        /\ Begin(active, slot[w])
        /\ UNCHANGED <<sound, boot, active, where, gc, gcFailed, arg>>
        BY <1>0, <1>3 DEF Write, ramVars, gcVars
  <2>2. ~gcFailed /\ gc.pc = "OFF"
        BY <2>1, NoCollection DEF Up, FreeInv, Finished
  <2>3. \A t \in Types : /\ Content(flash, t) = Indexed(t)
                         /\ Content(flash', t) = Indexed(t)'
        BY <1>0, <2>1, <2>2 DEF ContentInv
  <2>4. ASSUME NEW t \in Types PROVE Indexed(t)' = Indexed(t)
    <3>1. CASE where[t] = Nowhere
          BY <2>1, <3>1 DEF Indexed
    <3>2. CASE where[t] # Nowhere
      <4>1. where[t] \in Places
            BY DEF Up, TypeOK
      <4>2. flash[where[t].area][where[t].slot].kind = "item"
            BY <3>2 DEF Up, WhereInv
      <4>3. flash[active][slot[w]] = Blank
        <5>1. slot[w] = free - 1 /\ Used(w) = free - 2 /\ Following(w) = Blank
              BY <2>1, <2>2 DEF Up, FreeInv, Used, Following, Copying
        <5>2. slot[w] = Used(w) + 1
              BY <5>1, UpFacts
        <5>. QED  BY <5>1, <5>2, ShapePrefix DEF Up, ActiveInv
      <4>4. ~(where[t].area = active /\ where[t].slot = slot[w])
            BY <4>2, <4>3, RecordFacts
      <4>5. flash'[where[t].area][where[t].slot]
               = flash[where[t].area][where[t].slot]
            BY <2>1, <4>1, <4>4, UpFacts, BeginFacts, SlotFacts DEF Places
      <4>. QED  BY <2>1, <3>2, <4>5 DEF Indexed
    <3>. QED  BY <3>1, <3>2
  <2>5. Status(w)' = Status(w)
        BY <2>1 DEF Status, Finished
  <2>. QED  BY <1>0, <2>1, <2>3, <2>4, <2>5, StoreStutters
<1>4. CASE Written(w)
  <2>1. /\ wpc[w] = "WRITING" /\ wpc'[w] = "RETURN"
        /\ End(active, slot[w], arg[w])
        /\ where' = [where EXCEPT ![arg[w].type] =
                        [area |-> active, slot |-> slot[w]]]
        /\ UNCHANGED <<sound, boot, active, gc, gcFailed, arg>>
        BY <1>0, <1>4 DEF Written, gcVars
  <2>2. /\ ~gcFailed /\ gc.pc = "OFF" /\ slot[w] \in Slots /\ slot[w] # 0
        /\ arg[w] \in Items /\ arg[w] \in Record /\ arg[w].type \in Types
    <3>1. ~gcFailed /\ gc.pc = "OFF"
          BY <2>1, NoCollection DEF Up, FreeInv, Finished
    <3>2. slot[w] \in Slots /\ arg[w] \in Items
          BY <2>1 DEF Up, ControlInv, WriterControl, Finished
    <3>3. slot[w] = free - 1 /\ Used(w) = free - 2
          BY <2>1, <3>1 DEF Up, FreeInv, Used, Copying
    <3>4. Used(w) >= 0
          BY DEF Up, ActiveInv, Shape
    <3>. QED  BY <3>1, <3>2, <3>3, <3>4, RecordFacts, UpFacts
  <2>3. \A t \in Types : /\ Content(flash, t) = Indexed(t)
                         /\ Content(flash', t) = Indexed(t)'
        BY <1>0, <2>1, <2>2 DEF ContentInv
  <2>4. flash[active][slot[w]] = Torn
    <3>1. slot[w] = free - 1 /\ Used(w) = free - 2 /\ Following(w) = Torn
          BY <2>1, <2>2 DEF Up, FreeInv, Used, Following, Copying
    <3>2. slot[w] = Used(w) + 1
          BY <3>1, UpFacts
    <3>. QED  BY <3>1, <3>2, ShapePrefix DEF Up, ActiveInv
  <2>5. /\ flash'[1 - active] = flash[1 - active]
        /\ \A r \in Slots \ {slot[w]} : flash'[active][r] = flash[active][r]
        /\ flash'[active][slot[w]] = arg[w]
        BY <2>1, <2>2, <2>4, UpFacts, EndFacts
  <2>6. ASSUME NEW t \in Types
        PROVE  Indexed(t)' = IF t = arg[w].type THEN arg[w].value
                             ELSE Indexed(t)
    <3>1. CASE t = arg[w].type
      <4>1. where'[t] = [area |-> active, slot |-> slot[w]]
            BY <2>1, <3>1 DEF Up, TypeOK
      <4>2. where'[t] # Nowhere
            BY <2>2, <4>1 DEF Nowhere
      <4>. QED  BY <2>5, <3>1, <4>1, <4>2 DEF Indexed
    <3>2. CASE t # arg[w].type /\ where[t] = Nowhere
          BY <2>1, <3>2 DEF Indexed, Up, TypeOK
    <3>3. CASE t # arg[w].type /\ where[t] # Nowhere
      <4>1. where[t] \in Places /\ where'[t] = where[t]
            BY <2>1, <3>3 DEF Up, TypeOK
      <4>2. flash[where[t].area][where[t].slot].kind = "item"
            BY <3>3 DEF Up, WhereInv
      <4>3. ~(where[t].area = active /\ where[t].slot = slot[w])
            BY <2>4, <4>2, RecordFacts
      <4>4. flash'[where[t].area][where[t].slot]
               = flash[where[t].area][where[t].slot]
            BY <2>5, <4>1, <4>3, UpFacts, SlotFacts DEF Places
      <4>. QED  BY <3>3, <4>1, <4>4 DEF Indexed
    <3>. QED  BY <3>1, <3>2, <3>3
  <2>7. Status(w) = "BUSY" /\ Status(w)' = "DONE"
        BY <2>1 DEF Status, Finished
  <2>. QED  BY <1>0, <2>1, <2>2, <2>3, <2>6, <2>7, StoreApplies
<1>5. CASE Return(w)
  <2>1. wpc[w] = "RETURN" /\ wpc'[w] = "OK" /\ UNCHANGED <<flash, sound>>
        BY <1>0, <1>5 DEF Return, Finish
  <2>2. Status(w) = "DONE" /\ Status(w)' = "OK"
        BY <2>1 DEF Status, Finished
  <2>. QED  BY <1>0, <2>1, <2>2, StoreCalls
<1>. QED  BY <1>1, <1>2, <1>3, <1>4, <1>5 DEF Writer

\* Every step is one of SotpStore, or none.
LEMMA StoreStep ==
    ASSUME OneWriter, SotpInv, ContentInv, ContentInv', [Next]_vars
    PROVE  [Store!Next]_(Store!vars)
<1>0. PICK w : Writers = {w}
      BY DEF OneWriter
<1>1. CASE ~sound'
      BY <1>1, StoreUnsound
<1>2. CASE sound'
  <2>1. sound
        BY <1>2 DEF Next, vars, ramVars, Restart, Boot, BootErase, BootErased,
           BootFresh, BootFormatted, BootTraverse, Gc, GcItem, GcCopy,
           GcMaster, GcErase, GcErased, GcTooSmall, GcFails, GcUnchanged,
           Set, Writer, Reserve, Promote, Write, Written, Return, WriteFails,
           GetOffset, Reader, GetRecord, GetAgain, GetReturns
  <2>2. /\ boot \in {"GC", "UP"} => Up(w)
        /\ boot \notin {"GC", "UP"} => BootInv
        BY <1>0, <2>1 DEF SotpInv, UpInv, Up
  <2>3. TypeOK /\ ControlInv /\ sound' = sound
        BY <1>2, <2>1 DEF SotpInv, TypeOK
  <2>4. CASE Restart
        BY <1>0, <2>4, StoreCrashes
  <2>5. CASE \/ UNCHANGED vars \/ Reader \/ \E t \in Types : GetOffset(t)
    <3>1. UNCHANGED <<flash, wpc, arg, gc>>
          BY <2>5 DEF vars, gcVars, writerVars, Reader, GetRecord, GetAgain,
                      GetReturns, GetOffset
    <3>2. Status(w)' = Status(w)
          BY <3>1 DEF Status
    <3>. QED  BY <1>0, <2>3, <3>1, <3>2, StoreStutters
  <2>6. CASE Boot
    <3>1. boot \notin {"GC", "UP"} /\ UNCHANGED <<wpc, arg>>
          BY <2>6 DEF Boot, BootErase, BootErased, BootFresh, BootFormatted,
                      BootTraverse, writerVars
    <3>2. \A t \in Types : Content(flash', t) = Content(flash, t)
          BY <2>2, <2>3, <2>6, <3>1, BootContent
    <3>3. wpc[w] \in Finished
          BY <1>0, <2>3, <3>1, Owners
    <3>4. Status(w)' = Status(w)
          BY <3>1, <3>3 DEF Status
    <3>. QED  BY <1>0, <2>3, <3>1, <3>2, <3>4, StoreStutters
  <2>7. CASE Gc \/ GcFails
    <3>1. gc.pc # "OFF"
          BY <2>7 DEF Gc, GcItem, GcCopy, GcMaster, GcErase, GcErased,
                      GcTooSmall, GcFails
    <3>2. Up(w)
          BY <1>0, <2>2, <2>3, <3>1, Owners
    <3>. QED  BY <1>2, <2>7, <3>2, GcMaps
  <2>8. ASSUME NEW u \in Writers,
               \/ \E call \in Calls : Set(u, call[1], call[2])
               \/ Writer(u) \/ WriteFails(u)
        PROVE  Store!Next \/ UNCHANGED Store!vars
    <3>1. u = w /\ ~WriteFails(w)
          BY <1>0, <1>2, <2>8 DEF WriteFails
    <3>2. CASE \E call \in Calls : Set(w, call[1], call[2])
      <4>1. boot = "UP"
            BY <3>2 DEF Set
      <4>. QED  BY <1>2, <2>2, <3>2, <4>1, WriterMaps
    <3>3. CASE Writer(w)
      <4>1. wpc[w] \notin Finished
            BY <3>3 DEF Writer, Reserve, Promote, Write, Written, Return,
                        Finished
      <4>2. boot = "UP"
            BY <1>0, <2>3, <4>1, Owners
      <4>. QED  BY <1>2, <2>2, <3>3, <4>2, WriterMaps
    <3>. QED  BY <2>8, <3>1, <3>2, <3>3
  <2>. QED  BY <2>4, <2>5, <2>6, <2>7, <2>8 DEF Next
<1>. QED  BY <1>1, <1>2

LEMMA StoreInit ==
    ASSUME Init PROVE Store!Init
<1>1. \A a \in Areas, s \in Slots : flash[a][s] = Blank
      BY DEF Init
<1>2. ASSUME NEW t \in Types PROVE Content(flash, t) = "none"
  <2>1. Prefix(flash[Chosen(flash)], 0)
        BY <1>1, ChosenFacts, SlotFacts, RecordFacts DEF Prefix
  <2>2. LatestOf(flash[Chosen(flash)], Chosen(flash), t) = Nowhere
        BY <2>1, LatestNone
  <2>. QED  BY <2>2 DEF Content
<1>3. Recover = [t \in Types |-> "none"]
      BY <1>2, RecoverIs
<1>4. \A w \in Writers : Status(w) = "NEW"
      BY DEF Init, Status, Finished
<1>. QED  BY <1>3, <1>4 DEF Init, Store!Init

\* sotp_set is atomic and durable, whenever the power fails: Sotp implements
\* SotpStore.
THEOREM StoreImplemented ==
    ASSUME OneWriter, NoWrap PROVE Spec => ImplementsStore
<1>1. Init => Store!Init
      BY StoreInit
<1>2. SotpInv => ContentInv
      BY ContentHolds
<1>3. /\ SotpInv /\ ContentInv /\ ContentInv' /\ [Next]_vars
      => [Store!Next]_(Store!vars)
      BY StoreStep
<1>. QED  BY <1>1, <1>2, <1>3, SotpInvariant, PTL
             DEF Spec, ImplementsStore, Store!Spec
=============================================================================
