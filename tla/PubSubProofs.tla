---------------------------- MODULE PubSubProofs ----------------------------
(***************************************************************************)
(* Proofs about the topic registry, for any sockets, names, hashes and     *)
(* table sizes, and any depth of re-entrant calls.                         *)
(***************************************************************************)
EXTENDS PubSub, Integers, Sequences, FiniteSets, SequencesExt, SequenceTheorems,
        FiniteSetTheorems, WellFoundedInduction, TLAPS

-----------------------------------------------------------------------------
(* Induction, without operator parameters: least elements of sets.         *)

\* Every non-empty set of naturals has a least element.
LEMMA LeastNatural ==
  ASSUME NEW T \in SUBSET Nat, T # {}
  PROVE  \E x \in T : \A y \in T : x <= y
<1>1. PICK x \in T : \A y \in T : ~(<<y, x>> \in OpToRel(<, Nat))
  BY NatLessThanWellFounded, WFMin, Zenon
<1>2. \A y \in T : ~(y < x)
  BY <1>1 DEF OpToRel
<1> QED
  BY <1>2

\* Induction up to n, for the set of the numbers that have the property.
LEMMA UpTo ==
  ASSUME NEW n \in Nat, NEW T, 0 \in T,
         \A k \in 1 .. n : k - 1 \in T => k \in T
  PROVE  \A k \in 0 .. n : k \in T
<1> SUFFICES ASSUME NEW b \in 0 .. n, b \notin T PROVE FALSE
  OBVIOUS
<1> DEFINE U == {k \in 0 .. n : k \notin T}
<1>1. U \in SUBSET Nat /\ U # {}
  OBVIOUS
<1>2. PICK x \in U : \A y \in U : x <= y
  BY <1>1, LeastNatural, Zenon
<1>3. x # 0 /\ x \in 1 .. n /\ x - 1 \in 0 .. n
  OBVIOUS
<1>4. x - 1 \in T
  BY <1>2, <1>3
<1> QED
  BY <1>3, <1>4

\* n rounds of a loop over states S: g[k] is what round k does.
IsLoop(S, base, n, g) == base \in S /\ n \in Nat /\ g \in [1 .. n -> [S -> S]]
Runs(f, S, base, n, g) ==
  f \in [0 .. n -> S] /\ f[0] = base /\ \A k \in 1 .. n : f[k] = g[k][f[k - 1]]

\* A function given by recursion over 0 .. n exists and has its type.
LEMMA RecursionExists ==
  ASSUME NEW S, NEW base, NEW n, NEW g, IsLoop(S, base, n, g)
  PROVE  \E f : Runs(f, S, base, n, g)
<1> base \in S /\ n \in Nat /\ g \in [1 .. n -> [S -> S]]
  BY DEF IsLoop
<1> DEFINE Value(f, k) == IF k = 0 THEN base ELSE g[k][f[k - 1]]
           Good(f, m) == \A k \in 0 .. m : f[k] = Value(f, k)
           T == {m \in 0 .. n : \E f \in [0 .. n -> S] : Good(f, m)}
<1>1. [k \in 0 .. n |-> base] \in [0 .. n -> S] /\ Good([k \in 0 .. n |-> base], 0)
  OBVIOUS
<1>2. ASSUME NEW m \in 1 .. n, NEW f \in [0 .. n -> S], Good(f, m - 1)
      PROVE  \E h \in [0 .. n -> S] : Good(h, m)
  <2> DEFINE h == [f EXCEPT ![m] = g[m][f[m - 1]]]
  <2>1. g[m][f[m - 1]] \in S /\ h \in [0 .. n -> S]
    OBVIOUS
  <2>2. ASSUME NEW k \in 0 .. m PROVE h[k] = Value(h, k)
    <3>1. CASE k = m
      BY <3>1
    <3>2. CASE k # m
      <4>1. k \in 0 .. m - 1 /\ h[k] = f[k] /\ (k # 0 => h[k - 1] = f[k - 1])
        BY <3>2
      <4> QED
        BY <4>1, <1>2
    <3> QED
      BY <3>1, <3>2
  <2>3. Good(h, m)
    BY <2>2
  <2> HIDE DEF h, Good
  <2> QED
    BY <2>1, <2>3
<1> HIDE DEF Good
<1>3. 0 \in T /\ \A m \in 1 .. n : m - 1 \in T => m \in T
  <2>1. 0 \in T
    BY <1>1
  <2>2. ASSUME NEW m \in 1 .. n, m - 1 \in T PROVE m \in T
    <3>1. PICK f \in [0 .. n -> S] : Good(f, m - 1)
      BY <2>2
    <3> QED
      BY <3>1, <1>2
  <2> QED
    BY <2>1, <2>2
<1> HIDE DEF T
<1>4. n \in T
  <2>1. \A k \in 0 .. n : k \in T
    BY <1>3, UpTo, Zenon
  <2> QED
    BY <2>1
<1>5. PICK f \in [0 .. n -> S] : Good(f, n)
  BY <1>4 DEF T
<1>6. f[0] = base /\ \A k \in 1 .. n : f[k] = g[k][f[k - 1]]
  BY <1>5 DEF Good
<1> QED
  BY <1>6, Zenon DEF Runs

\* A list without repetition.
Distinct(list) == \A i, j \in 1 .. Len(list) : list[i] = list[j] => i = j

-----------------------------------------------------------------------------
(* Probing.                                                                *)

\* The quotient and the remainder are determined by what they satisfy.
LEMMA RemainderIs ==
  ASSUME NEW n \in Nat \ {0}, NEW a \in Nat, NEW q \in Nat, NEW c \in 0 .. n - 1,
         a = n * q + c
  PROVE  a % n = c
<1>1. PICK b \in Nat, r \in 0 .. n - 1 : r = a % n /\ a = n * b + r
  <2>1. a = (n * (a \div n)) + (a % n) /\ a % n \in 0 .. n - 1 /\ a \div n \in Nat
    OBVIOUS
  <2> QED
    BY <2>1
<1>2. CASE b = q
  BY <1>1, <1>2
<1>3. CASE b < q
  <2>1. PICK d \in Nat : q = b + 1 + d
    BY <1>3, q - b - 1 \in Nat
  <2>2. n * q = n * b + n + n * d /\ n * d \in Nat /\ n * b \in Nat
    BY <2>1
  <2>3. n * b + r = n * b + n + n * d + c
    BY <2>2, <1>1
  <2> QED
    BY <2>2, <2>3
<1>4. CASE q < b
  <2>1. PICK d \in Nat : b = q + 1 + d
    BY <1>4, b - q - 1 \in Nat
  <2>2. n * b = n * q + n + n * d /\ n * d \in Nat /\ n * q \in Nat
    BY <2>1
  <2>3. n * q + c = n * q + n + n * d + r
    BY <2>2, <1>1
  <2> QED
    BY <2>2, <2>3
<1> QED
  BY <1>2, <1>3, <1>4

\* A probed cell is a cell of the table.
LEMMA CellType ==
  ASSUME NEW n \in Nat \ {0}, NEW hash \in Nat, NEW i \in Nat
  PROVE  Cell(hash, i, n) \in 0 .. n - 1
<1>1. PICK a \in Nat : a = hash + i
  OBVIOUS
<1>2. a % n \in 0 .. n - 1
  OBVIOUS
<1> QED
  BY <1>1, <1>2 DEF Cell

\* A probe sequence visits every cell of the table.
LEMMA CellReached ==
  ASSUME NEW n \in Nat \ {0}, NEW hash \in Nat, NEW c \in 0 .. n - 1
  PROVE  \E i \in 0 .. n - 1 : Cell(hash, i, n) = c
<1>1. PICK q \in Nat, r \in 0 .. n - 1 : hash = n * q + r
  <2>1. hash = (n * (hash \div n)) + (hash % n) /\ hash % n \in 0 .. n - 1
        /\ hash \div n \in Nat
    OBVIOUS
  <2> QED
    BY <2>1
<1>2. CASE r <= c
  <2>1. PICK i \in 0 .. n - 1 : i = c - r
    BY <1>2
  <2>2. hash + i = n * q + c /\ hash + i \in Nat
    BY <2>1, <1>1
  <2>3. (hash + i) % n = c
    BY <2>2, RemainderIs
  <2> QED
    BY <2>3 DEF Cell
<1>3. CASE c < r
  <2>1. PICK i \in 0 .. n - 1 : i = c - r + n
    BY <1>3
  <2>2. n * (q + 1) = n * q + n
    OBVIOUS
  <2>3. hash + i = n * (q + 1) + c /\ hash + i \in Nat /\ q + 1 \in Nat
    BY <2>1, <2>2, <1>1
  <2>4. (hash + i) % n = c
    BY <2>3, RemainderIs
  <2> QED
    BY <2>4 DEF Cell
<1> QED
  BY <1>2, <1>3

\* Min of a set of naturals is its least element.
LEMMA LeastIs ==
  ASSUME NEW T \in SUBSET Nat, T # {}
  PROVE  Min(T) \in T /\ \A y \in T : Min(T) <= y
<1>1. \E x \in T : \A y \in T : x <= y
  BY LeastNatural
<1> QED
  BY <1>1, Zenon DEF Min

\* The probe sequence reads no unused cell before the limit.
LEMMA LimitFacts ==
  ASSUME NEW n \in Nat \ {0}, NEW hash \in Nat, NEW table
  PROVE  /\ ProbeLimit(table, hash, n) \in 0 .. n
         /\ \A i \in 0 .. ProbeLimit(table, hash, n) - 1 :
              table[Cell(hash, i, n)].state # "unused"
         /\ ProbeLimit(table, hash, n) < n
              => table[Cell(hash, ProbeLimit(table, hash, n), n)].state = "unused"
<1> DEFINE T == {n} \cup {i \in 0 .. n - 1 : table[Cell(hash, i, n)].state = "unused"}
<1>1. T \in SUBSET Nat /\ T # {} /\ \A x \in T : x \in 0 .. n
  OBVIOUS
<1>2. ProbeLimit(table, hash, n) = Min(T)
  BY DEF ProbeLimit
<1>3. PICK m : m = Min(T)
  OBVIOUS
<1>4. m \in T /\ \A y \in T : m <= y
  <2> HIDE DEF T
  <2> QED
    BY <1>1, <1>3, LeastIs
<1>5. ASSUME NEW i \in 0 .. m - 1 PROVE table[Cell(hash, i, n)].state # "unused"
  <2>1. m \in 0 .. n
    BY <1>4
  <2>2. i \in 0 .. n - 1 /\ ~(m <= i)
    BY <2>1
  <2> QED
    BY <2>2, <1>4
<1>6. m < n => table[Cell(hash, m, n)].state = "unused"
  BY <1>4
<1> QED
  BY <1>1, <1>2, <1>3, <1>4, <1>5, <1>6

\* A slot that a lookup of the hash comes to before an unused cell.
OnPath(table, n, hash, slot) ==
  \E i \in 0 .. n - 1 :
    /\ table[Cell(hash, i, n)] = slot
    /\ \A j \in 0 .. i - 1 : table[Cell(hash, j, n)].state # "unused"

\* A lookup that finds a cell found one of the slots it looked for.
LEMMA FindHit ==
  ASSUME NEW n \in Nat \ {0}, NEW hash \in Nat, NEW table, NEW slots,
         ProbeFind(table, hash, n, slots) # NoLink
  PROVE  /\ ProbeFind(table, hash, n, slots) \in 0 .. n - 1
         /\ table[ProbeFind(table, hash, n, slots)] \in slots
<1> DEFINE limit == ProbeLimit(table, hash, n)
           hits == {i \in 0 .. limit - 1 : table[Cell(hash, i, n)] \in slots}
<1>1. limit \in 0 .. n
  BY LimitFacts
<1>2. hits # {} /\ ProbeFind(table, hash, n, slots) = Cell(hash, Min(hits), n)
  BY DEF ProbeFind
<1>3. hits \in SUBSET Nat
  OBVIOUS
<1>4. PICK m : m = Min(hits) /\ m \in hits
  <2> HIDE DEF hits
  <2> QED
    BY <1>2, <1>3, LeastIs
<1>5. m \in Nat
  BY <1>3, <1>4
<1> QED
  BY <1>2, <1>4, <1>5, CellType

\* A lookup that finds none has none of them on its path.
LEMMA FindMiss ==
  ASSUME NEW n \in Nat \ {0}, NEW hash \in Nat, NEW table, NEW slots,
         ProbeFind(table, hash, n, slots) = NoLink,
         NEW slot \in slots, slot.state = "used"
  PROVE  ~OnPath(table, n, hash, slot)
<1> DEFINE limit == ProbeLimit(table, hash, n)
           hits == {i \in 0 .. limit - 1 : table[Cell(hash, i, n)] \in slots}
<1> SUFFICES ASSUME NEW i \in 0 .. n - 1, table[Cell(hash, i, n)] = slot,
                    \A j \in 0 .. i - 1 : table[Cell(hash, j, n)].state # "unused"
             PROVE  FALSE
  BY DEF OnPath
<1>1. limit \in 0 .. n
      /\ (limit < n => table[Cell(hash, limit, n)].state = "unused")
  BY LimitFacts
<1>2. i < limit
  <2>1. CASE limit < i
    BY <1>1, <2>1
  <2>2. CASE limit = i
    BY <1>1, <2>2
  <2> QED
    BY <2>1, <2>2, <1>1
<1>3. hits # {}
  BY <1>1, <1>2
<1>4. ProbeFind(table, hash, n, slots) = Cell(hash, Min(hits), n)
  BY <1>3 DEF ProbeFind
<1>5. Min(hits) \in hits /\ hits \in SUBSET Nat
  <2>1. hits \in SUBSET Nat
    BY <1>1
  <2> HIDE DEF hits
  <2> QED
    BY <1>3, <2>1, LeastIs
<1>6. Cell(hash, Min(hits), n) \in 0 .. n - 1
  <2> HIDE DEF hits
  <2>1. Min(hits) \in Nat
    BY <1>5
  <2> QED
    BY <2>1, CellType
<1> QED
  BY <1>4, <1>6 DEF NoLink

SlotStates == {"unused", "tombstone", "used"}

\* The cell that takes a new entry is not in use, and a lookup comes to it.
LEMMA InsertCell ==
  ASSUME NEW n \in Nat \ {0}, NEW hash \in Nat, NEW table,
         \A c \in 0 .. n - 1 : table[c].state \in SlotStates,
         ProbeInsert(table, hash, n) # NoLink
  PROVE  /\ ProbeInsert(table, hash, n) \in 0 .. n - 1
         /\ table[ProbeInsert(table, hash, n)].state # "used"
         /\ \E i \in 0 .. n - 1 :
              /\ ProbeInsert(table, hash, n) = Cell(hash, i, n)
              /\ \A j \in 0 .. i - 1 : table[Cell(hash, j, n)].state # "unused"
<1> DEFINE limit == ProbeLimit(table, hash, n)
           tombs == {i \in 0 .. limit - 1 : table[Cell(hash, i, n)].state = "tombstone"}
<1>1. /\ limit \in 0 .. n
      /\ \A i \in 0 .. limit - 1 : table[Cell(hash, i, n)].state # "unused"
      /\ limit < n => table[Cell(hash, limit, n)].state = "unused"
  BY LimitFacts
<1>2. PICK i \in 0 .. n - 1 :
        /\ i <= limit /\ ProbeInsert(table, hash, n) = Cell(hash, i, n)
        /\ table[Cell(hash, i, n)].state # "used"
  <2>1. CASE tombs # {}
    <3>1. ProbeInsert(table, hash, n) = Cell(hash, Min(tombs), n)
      BY <2>1 DEF ProbeInsert
    <3>2. tombs \in SUBSET Nat
      BY <1>1
    <3>3. Min(tombs) \in tombs
      <4> HIDE DEF tombs
      <4> QED
        BY <2>1, <3>2, LeastIs
    <3>4. PICK i : i = Min(tombs)
      OBVIOUS
    <3>5. i \in 0 .. limit - 1 /\ table[Cell(hash, i, n)].state = "tombstone"
      BY <3>3, <3>4
    <3>6. i \in 0 .. n - 1 /\ i <= limit
      BY <3>5, <1>1
    <3> QED
      BY <3>1, <3>4, <3>5, <3>6
  <2>2. CASE tombs = {}
    <3>1. limit < n /\ ProbeInsert(table, hash, n) = Cell(hash, limit, n)
      BY <2>2 DEF ProbeInsert
    <3>2. limit \in 0 .. n - 1 /\ limit <= limit
      BY <1>1, <3>1
    <3> QED
      BY <3>1, <3>2, <1>1
  <2> QED
    BY <2>1, <2>2
<1>3. \A j \in 0 .. i - 1 : j \in 0 .. limit - 1
  BY <1>1, <1>2
<1>4. Cell(hash, i, n) \in 0 .. n - 1
  <2>1. i \in Nat
    OBVIOUS
  <2> QED
    BY <2>1, CellType
<1> QED
  BY <1>1, <1>2, <1>3, <1>4

\* A cell is found whenever the table has one that is not in use.
LEMMA InsertFinds ==
  ASSUME NEW n \in Nat \ {0}, NEW hash \in Nat, NEW table,
         \A c \in 0 .. n - 1 : table[c].state \in SlotStates,
         \E c \in 0 .. n - 1 : table[c].state # "used"
  PROVE  ProbeInsert(table, hash, n) # NoLink
<1> DEFINE limit == ProbeLimit(table, hash, n)
           tombs == {i \in 0 .. limit - 1 : table[Cell(hash, i, n)].state = "tombstone"}
<1>1. /\ limit \in 0 .. n
      /\ \A i \in 0 .. limit - 1 : table[Cell(hash, i, n)].state # "unused"
  BY LimitFacts
<1>2. PICK c \in 0 .. n - 1 : table[c].state # "used"
  OBVIOUS
<1>3. PICK i \in 0 .. n - 1 : Cell(hash, i, n) = c
  BY CellReached
<1>4. CASE tombs # {}
  <2>1. ProbeInsert(table, hash, n) = Cell(hash, Min(tombs), n)
    BY <1>4 DEF ProbeInsert
  <2>2. tombs \in SUBSET Nat
    BY <1>1
  <2>3. Min(tombs) \in Nat
    <3> HIDE DEF tombs
    <3> QED
      BY <1>4, <2>2, LeastIs
  <2>4. Cell(hash, Min(tombs), n) \in 0 .. n - 1
    <3> HIDE DEF tombs
    <3> QED
      BY <2>3, CellType
  <2> QED
    BY <2>1, <2>4 DEF NoLink
<1>5. CASE tombs = {} /\ limit < n
  <2>1. ProbeInsert(table, hash, n) = Cell(hash, limit, n)
    BY <1>5 DEF ProbeInsert
  <2>2. limit \in Nat
    BY <1>1
  <2>3. Cell(hash, limit, n) \in 0 .. n - 1
    <3> HIDE DEF limit
    <3> QED
      BY <2>2, CellType
  <2> QED
    BY <2>1, <2>3 DEF NoLink
<1>6. CASE tombs = {} /\ limit = n
  <2>1. i \in 0 .. limit - 1
    BY <1>6
  <2>2. table[c].state # "unused" /\ table[c].state # "tombstone"
    BY <2>1, <1>1, <1>3, <1>6
  <2> QED
    BY <2>2, <1>2 DEF SlotStates
<1> QED
  BY <1>1, <1>4, <1>5, <1>6

-----------------------------------------------------------------------------
(* What an index holds: entries of a hash and a slot.                      *)

Entry(hash, slot) == [hash |-> hash, slot |-> slot]

\* The used cells hold the slots of the entries, once each, where a lookup finds them.
Indexed(table, n, entries) ==
  /\ table = [c \in 0 .. n - 1 |-> table[c]]
  /\ \A c \in 0 .. n - 1 : table[c].state \in SlotStates
  /\ \A p \in entries : /\ p.hash \in Nat /\ p.slot.state = "used"
                        /\ OnPath(table, n, p.hash, p.slot)
  /\ \A c \in 0 .. n - 1 : table[c].state = "used" => \E p \in entries : p.slot = table[c]
  /\ \A c, d \in 0 .. n - 1 : table[c].state = "used" /\ table[c] = table[d] => c = d

\* A table of unused cells indexes nothing.
LEMMA IndexedEmpty ==
  ASSUME NEW n \in Nat \ {0}
  PROVE  Indexed([c \in 0 .. n - 1 |-> Unused], n, {})
  BY DEF Indexed, Unused, SlotStates

\* An entry stays on the path when a cell that holds another slot is overwritten.
LEMMA PathKept ==
  ASSUME NEW n \in Nat \ {0}, NEW hash \in Nat, NEW table, NEW slot, NEW new,
         table = [c \in 0 .. n - 1 |-> table[c]],
         NEW cell \in 0 .. n - 1, table[cell] # slot, new.state # "unused",
         OnPath(table, n, hash, slot)
  PROVE  OnPath([table EXCEPT ![cell] = new], n, hash, slot)
<1>1. PICK i \in 0 .. n - 1 :
        /\ table[Cell(hash, i, n)] = slot
        /\ \A j \in 0 .. i - 1 : table[Cell(hash, j, n)].state # "unused"
  BY DEF OnPath
<1>2. PICK t : t = [table EXCEPT ![cell] = new]
  OBVIOUS
<1>3. \A c \in 0 .. n - 1 : t[c] = IF c = cell THEN new ELSE table[c]
  BY <1>2
<1>4. \A j \in 0 .. i : Cell(hash, j, n) \in 0 .. n - 1
  <2>1. \A j \in 0 .. i : j \in Nat
    OBVIOUS
  <2> QED
    BY <2>1, CellType
<1>5. t[Cell(hash, i, n)] = slot
  BY <1>1, <1>3, <1>4
<1>6. ASSUME NEW j \in 0 .. i - 1 PROVE t[Cell(hash, j, n)].state # "unused"
  <2>1. j \in 0 .. i
    OBVIOUS
  <2> QED
    BY <2>1, <1>1, <1>3, <1>4
<1> QED
  BY <1>2, <1>5, <1>6 DEF OnPath

\* Filling a cell that is not in use adds the entry whose path it is on.
LEMMA IndexedInsert ==
  ASSUME NEW n \in Nat \ {0}, NEW hash \in Nat, NEW table, NEW entries, NEW slot,
         Indexed(table, n, entries), slot.state = "used",
         \A p \in entries : p.slot # slot,
         NEW cell, cell = ProbeInsert(table, hash, n), cell # NoLink
  PROVE  Indexed([table EXCEPT ![cell] = slot], n, entries \cup {Entry(hash, slot)})
<1>1. /\ cell \in 0 .. n - 1 /\ table[cell].state # "used"
      /\ \E i \in 0 .. n - 1 :
           /\ cell = Cell(hash, i, n)
           /\ \A j \in 0 .. i - 1 : table[Cell(hash, j, n)].state # "unused"
  <2>1. \A c \in 0 .. n - 1 : table[c].state \in SlotStates
    BY DEF Indexed
  <2> QED
    BY <2>1, InsertCell, Zenon
<1>2. PICK t : t = [table EXCEPT ![cell] = slot]
  OBVIOUS
<1>3. /\ t = [c \in 0 .. n - 1 |-> t[c]]
      /\ \A c \in 0 .. n - 1 : t[c] = IF c = cell THEN slot ELSE table[c]
  BY <1>1, <1>2 DEF Indexed
<1>4. \A c \in 0 .. n - 1 : t[c].state \in SlotStates
  BY <1>3 DEF Indexed, SlotStates
<1>5. ASSUME NEW p \in entries
      PROVE  p.hash \in Nat /\ p.slot.state = "used" /\ OnPath(t, n, p.hash, p.slot)
  <2>1. p.hash \in Nat /\ p.slot.state = "used" /\ OnPath(table, n, p.hash, p.slot)
    BY DEF Indexed
  <2>2. table[cell] # p.slot /\ slot.state # "unused"
    BY <2>1, <1>1
  <2> QED
    BY <2>1, <2>2, <1>1, <1>2, PathKept DEF Indexed
<1>6. OnPath(t, n, hash, slot)
  <2>1. PICK i \in 0 .. n - 1 :
          /\ cell = Cell(hash, i, n)
          /\ \A j \in 0 .. i - 1 : table[Cell(hash, j, n)].state # "unused"
    BY <1>1
  <2>2. \A j \in 0 .. i - 1 : Cell(hash, j, n) \in 0 .. n - 1
    <3>1. \A j \in 0 .. i - 1 : j \in Nat
      OBVIOUS
    <3> QED
      BY <3>1, CellType
  <2>3. ASSUME NEW j \in 0 .. i - 1 PROVE t[Cell(hash, j, n)].state # "unused"
    BY <1>3, <2>1, <2>2
  <2>4. t[Cell(hash, i, n)] = slot
    BY <1>1, <1>3, <2>1
  <2> QED
    BY <2>3, <2>4 DEF OnPath
<1>7. ASSUME NEW p \in entries \cup {Entry(hash, slot)}
      PROVE  p.hash \in Nat /\ p.slot.state = "used" /\ OnPath(t, n, p.hash, p.slot)
  <2>1. CASE p \in entries
    BY <1>5, <2>1
  <2>2. CASE p = Entry(hash, slot)
    <3>1. p.hash = hash /\ p.slot = slot
      BY <2>2 DEF Entry
    <3> QED
      BY <3>1, <1>6
  <2> QED
    BY <2>1, <2>2
<1>8. ASSUME NEW c \in 0 .. n - 1, t[c].state = "used"
      PROVE  \E p \in entries \cup {Entry(hash, slot)} : p.slot = t[c]
  <2>1. CASE c = cell
    <3>1. Entry(hash, slot).slot = slot /\ t[c] = slot
      BY <2>1, <1>3 DEF Entry
    <3> QED
      BY <3>1, Zenon
  <2>2. CASE c # cell
    BY <2>2, <1>3, <1>8 DEF Indexed
  <2> QED
    BY <2>1, <2>2
<1>9. ASSUME NEW c \in 0 .. n - 1, NEW d \in 0 .. n - 1, t[c].state = "used", t[c] = t[d]
      PROVE  c = d
  <2>1. \A b \in 0 .. n - 1 : table[b].state = "used" => table[b] # slot
    BY DEF Indexed
  <2> QED
    BY <2>1, <1>3, <1>9 DEF Indexed
<1> QED
  BY <1>2, <1>3, <1>4, <1>7, <1>8, <1>9 DEF Indexed

\* A tombstone takes the place of an entry that no other entry shares its slot with.
LEMMA IndexedRemove ==
  ASSUME NEW n \in Nat \ {0}, NEW table, NEW entries, Indexed(table, n, entries),
         NEW cell \in 0 .. n - 1, table[cell].state = "used"
  PROVE  Indexed([table EXCEPT ![cell] = Tombstone], n,
                 {p \in entries : p.slot # table[cell]})
<1>1. PICK t : t = [table EXCEPT ![cell] = Tombstone]
  OBVIOUS
<1>2. /\ t = [c \in 0 .. n - 1 |-> t[c]]
      /\ \A c \in 0 .. n - 1 : t[c] = IF c = cell THEN Tombstone ELSE table[c]
  BY <1>1 DEF Indexed
<1>3. \A c \in 0 .. n - 1 : t[c].state \in SlotStates
  BY <1>2 DEF Indexed, SlotStates, Tombstone
<1>4. ASSUME NEW p \in entries, p.slot # table[cell]
      PROVE  p.hash \in Nat /\ p.slot.state = "used" /\ OnPath(t, n, p.hash, p.slot)
  <2>1. p.hash \in Nat /\ p.slot.state = "used" /\ OnPath(table, n, p.hash, p.slot)
    BY DEF Indexed
  <2>2. Tombstone.state # "unused"
    BY DEF Tombstone
  <2> QED
    BY <2>1, <2>2, <1>1, <1>4, PathKept DEF Indexed
<1>5. ASSUME NEW c \in 0 .. n - 1, t[c].state = "used"
      PROVE  \E p \in {p \in entries : p.slot # table[cell]} : p.slot = t[c]
  <2>1. c # cell /\ t[c] = table[c] /\ table[c].state = "used"
    BY <1>2, <1>5 DEF Tombstone
  <2>2. PICK p \in entries : p.slot = table[c]
    BY <2>1 DEF Indexed
  <2>3. table[c] # table[cell]
    BY <2>1 DEF Indexed
  <2> QED
    BY <2>1, <2>2, <2>3
<1>6. ASSUME NEW c \in 0 .. n - 1, NEW d \in 0 .. n - 1, t[c].state = "used", t[c] = t[d]
      PROVE  c = d
  <2>1. t[c] = table[c] /\ t[d] = table[d]
    BY <1>2, <1>6 DEF Tombstone
  <2> QED
    BY <2>1, <1>6 DEF Indexed
<1> QED
  BY <1>1, <1>2, <1>3, <1>4, <1>5, <1>6 DEF Indexed

\* An entry's slot is rewritten in place.
LEMMA IndexedReplace ==
  ASSUME NEW n \in Nat \ {0}, NEW table, NEW entries, Indexed(table, n, entries),
         NEW cell \in 0 .. n - 1, NEW hash, NEW old, NEW new,
         Entry(hash, old) \in entries, table[cell] = old,
         new.state = "used", \A p \in entries : p.slot # new
  PROVE  Indexed([table EXCEPT ![cell] = new], n,
                 {p \in entries : p.slot # old} \cup {Entry(hash, new)})
<1>1. PICK t : t = [table EXCEPT ![cell] = new]
  OBVIOUS
<1>2. /\ t = [c \in 0 .. n - 1 |-> t[c]]
      /\ \A c \in 0 .. n - 1 : t[c] = IF c = cell THEN new ELSE table[c]
  BY <1>1 DEF Indexed
<1>3. \A c \in 0 .. n - 1 : t[c].state \in SlotStates
  BY <1>2 DEF Indexed, SlotStates
<1>4. ASSUME NEW p \in entries, p.slot # old
      PROVE  p.hash \in Nat /\ p.slot.state = "used" /\ OnPath(t, n, p.hash, p.slot)
  <2>1. p.hash \in Nat /\ p.slot.state = "used" /\ OnPath(table, n, p.hash, p.slot)
    BY DEF Indexed
  <2> QED
    BY <2>1, <1>1, <1>4, PathKept DEF Indexed
<1>5. hash \in Nat /\ old.state = "used" /\ OnPath(table, n, hash, old)
  <2>1. Entry(hash, old).hash = hash /\ Entry(hash, old).slot = old
    BY DEF Entry
  <2> QED
    BY <2>1 DEF Indexed
<1>6. OnPath(t, n, hash, new)
  <2>1. PICK i \in 0 .. n - 1 :
          /\ table[Cell(hash, i, n)] = old
          /\ \A j \in 0 .. i - 1 : table[Cell(hash, j, n)].state # "unused"
    BY <1>5 DEF OnPath
  <2>2. \A j \in 0 .. i : Cell(hash, j, n) \in 0 .. n - 1
    <3>1. \A j \in 0 .. i : j \in Nat
      OBVIOUS
    <3> QED
      BY <3>1, <1>5, CellType
  <2>3. Cell(hash, i, n) = cell
    <3>1. Cell(hash, i, n) \in 0 .. n - 1
      BY <2>2
    <3> QED
      BY <3>1, <2>1, <1>5 DEF Indexed
  <2>4. ASSUME NEW j \in 0 .. i - 1 PROVE t[Cell(hash, j, n)].state # "unused"
    <3>1. j \in 0 .. i
      OBVIOUS
    <3> QED
      BY <3>1, <1>2, <2>1, <2>2
  <2>5. t[Cell(hash, i, n)] = new
    BY <1>2, <2>3
  <2> QED
    BY <2>4, <2>5 DEF OnPath
<1>7. ASSUME NEW p \in {p \in entries : p.slot # old} \cup {Entry(hash, new)}
      PROVE  p.hash \in Nat /\ p.slot.state = "used" /\ OnPath(t, n, p.hash, p.slot)
  <2>1. CASE p \in entries /\ p.slot # old
    BY <1>4, <2>1
  <2>2. CASE p = Entry(hash, new)
    <3>1. p.hash = hash /\ p.slot = new
      BY <2>2 DEF Entry
    <3> QED
      BY <3>1, <1>5, <1>6
  <2> QED
    BY <2>1, <2>2
<1>8. ASSUME NEW c \in 0 .. n - 1, t[c].state = "used"
      PROVE  \E p \in {p \in entries : p.slot # old} \cup {Entry(hash, new)} : p.slot = t[c]
  <2>1. CASE c = cell
    <3>1. Entry(hash, new).slot = new /\ t[c] = new
      BY <2>1, <1>2 DEF Entry
    <3> QED
      BY <3>1, Zenon
  <2>2. CASE c # cell
    <3>1. t[c] = table[c] /\ table[c].state = "used"
      BY <2>2, <1>2, <1>8
    <3>2. PICK p \in entries : p.slot = table[c]
      BY <3>1 DEF Indexed
    <3>3. table[c] # old
      BY <3>1, <2>2 DEF Indexed
    <3> QED
      BY <3>1, <3>2, <3>3
  <2> QED
    BY <2>1, <2>2
<1>9. ASSUME NEW c \in 0 .. n - 1, NEW d \in 0 .. n - 1, t[c].state = "used", t[c] = t[d]
      PROVE  c = d
  <2>1. \A b \in 0 .. n - 1 : table[b].state = "used" => table[b] # new
    BY DEF Indexed
  <2> QED
    BY <2>1, <1>2, <1>9 DEF Indexed
<1> QED
  BY <1>1, <1>2, <1>3, <1>7, <1>8, <1>9 DEF Indexed

\* Entries that fewer labels than cells tell apart leave a cell that is not in use.
LEMMA RoomLeft ==
  ASSUME NEW m \in Nat \ {0}, NEW table, NEW label \in [0 .. 2 * m - 1 -> 0 .. m - 1],
         \A c, d \in 0 .. 2 * m - 1 :
           table[c].state = "used" /\ table[d].state = "used" /\ label[c] = label[d] => c = d
  PROVE  \E c \in 0 .. 2 * m - 1 : table[c].state # "used"
<1> SUFFICES ASSUME \A c \in 0 .. 2 * m - 1 : table[c].state = "used"
             PROVE  FALSE
  OBVIOUS
<1>1. PICK n \in Nat : n = 2 * m /\ m < n
  OBVIOUS
<1>2. label \in Injection(0 .. n - 1, 0 .. m - 1)
  BY <1>1 DEF Injection, IsInjective
<1>3. /\ IsFiniteSet(0 .. n - 1) /\ Cardinality(0 .. n - 1) = n
      /\ IsFiniteSet(0 .. m - 1) /\ Cardinality(0 .. m - 1) = m
  BY <1>1, FS_Interval
<1>4. Cardinality(0 .. n - 1) <= Cardinality(0 .. m - 1)
  BY <1>2, <1>3, FS_Injection
<1> QED
  BY <1>1, <1>3, <1>4

-----------------------------------------------------------------------------
(* The registry's record, and an index of it replaced.                     *)

Links == Rows \cup {NoLink}
TopicSlots == {Unused, Tombstone} \cup {TopicSlot(id) : id \in Topics}
SubSlots ==
  {Unused, Tombstone} \cup {SubSlot(s, id, r) : s \in Sockets, id \in Topics, r \in Rows}
TopicTables == [TopicCells -> TopicSlots]
SubTables == [SubCells -> SubSlots]

Engines ==
  [names : [Topics -> Names \cup {Nobody}], counts : [Topics -> Int],
   heads : [Topics -> Links], tails : [Topics -> Links],
   free : Seq(Topics), high_water : 0 .. MaxTopics, topic_count : Int,
   sockets : [Rows -> Sockets \cup {Nobody}], topic_ids : [Rows -> Topics],
   next : [Rows -> Links], prev : [Rows -> Links],
   sub_count : 0 .. MaxSubs, retired : Int, empty_topic_pending : BOOLEAN,
   topic_index : TopicTables, topic_tombstones : Int,
   sub_index : SubTables, sub_tombstones : Int]

WithTopicIndex(e, table, n) == [e EXCEPT !.topic_index = table, !.topic_tombstones = n]
WithSubIndex(e, table, n) == [e EXCEPT !.sub_index = table, !.sub_tombstones = n]

\* The groups of fields that most functions leave alone.
SameTopics(e, d) ==
  e.names = d.names /\ e.free = d.free /\ e.high_water = d.high_water
  /\ e.topic_count = d.topic_count
SameRows(e, d) ==
  e.sockets = d.sockets /\ e.topic_ids = d.topic_ids /\ e.sub_count = d.sub_count
SameCounts(e, d) ==
  e.counts = d.counts /\ e.retired = d.retired
  /\ e.empty_topic_pending = d.empty_topic_pending
SameLinks(e, d) ==
  e.heads = d.heads /\ e.tails = d.tails /\ e.next = d.next /\ e.prev = d.prev
SameTopicIndex(e, d) ==
  e.topic_index = d.topic_index /\ e.topic_tombstones = d.topic_tombstones
SameSubIndex(e, d) ==
  e.sub_index = d.sub_index /\ e.sub_tombstones = d.sub_tombstones

SameTables(e, d) == SameTopics(e, d) /\ SameRows(e, d) /\ SameCounts(e, d) /\ SameLinks(e, d)

\* The sizes of the tables, from the assumptions on the constants.
LEMMA SizeFacts ==
  /\ 2 * MaxTopics \in Nat \ {0} /\ TopicCells = 0 .. 2 * MaxTopics - 1
  /\ 2 * MaxSubs \in Nat \ {0} /\ SubCells = 0 .. 2 * MaxSubs - 1
  /\ MaxTopics \in Nat \ {0} /\ MaxSubs \in Nat \ {0}
  BY BoundsAssumption DEF TopicCells, SubCells

\* What the fields of a slot say.
LEMMA SlotFacts ==
  /\ Unused.state = "unused" /\ Tombstone.state = "tombstone"
  /\ \A id \in Topics : TopicSlot(id).state = "used" /\ TopicSlot(id).topic = id
  /\ \A s, id, r : /\ SubSlot(s, id, r).state = "used" /\ SubSlot(s, id, r).row = r
                   /\ SubSlot(s, id, r).socket = s /\ SubSlot(s, id, r).topic = id
  BY DEF Unused, Tombstone, TopicSlot, SubSlot

\* Replacing the topic index leaves every table and the other index alone.
LEMMA WithTopicIndexFacts ==
  ASSUME NEW e \in Engines, NEW t \in TopicTables, NEW n \in Int
  PROVE  LET d == WithTopicIndex(e, t, n)
         IN  /\ d \in Engines /\ SameTables(d, e) /\ SameSubIndex(d, e)
             /\ d.topic_index = t /\ d.topic_tombstones = n
  BY DEF Engines, WithTopicIndex, SameTables, SameTopics, SameRows, SameCounts, SameLinks,
         SameSubIndex

\* Replacing the subscription index leaves every table and the other index alone.
LEMMA WithSubIndexFacts ==
  ASSUME NEW e \in Engines, NEW t \in SubTables, NEW n \in Int
  PROVE  LET d == WithSubIndex(e, t, n)
         IN  /\ d \in Engines /\ SameTables(d, e) /\ SameTopicIndex(d, e)
             /\ d.sub_index = t /\ d.sub_tombstones = n
  BY DEF Engines, WithSubIndex, SameTables, SameTopics, SameRows, SameCounts, SameLinks,
         SameTopicIndex

-----------------------------------------------------------------------------
(* The index of the topics.                                                *)

TopicEntries(names, ids) ==
  {Entry(TopicHash(names[id]), TopicSlot(id)) : id \in {x \in ids : names[x] # Nobody}}

\* The topic index holds the active ones of the given ids.
TopicIndexed(table, names, ids) ==
  Indexed(table, 2 * MaxTopics, TopicEntries(names, ids))

\* The name of an active topic has a hash.
LEMMA TopicHashType ==
  ASSUME NEW names \in [Topics -> Names \cup {Nobody}], NEW id \in Topics, names[id] # Nobody
  PROVE  names[id] \in Names /\ TopicHash(names[id]) \in Nat
  BY HashAssumption

\* A used cell of the index holds the slot of an active id.
LEMMA TopicCellHolds ==
  ASSUME NEW table, NEW names, NEW ids \in SUBSET Topics, TopicIndexed(table, names, ids),
         NEW c \in TopicCells, table[c].state = "used"
  PROVE  \E id \in ids : names[id] # Nobody /\ table[c] = TopicSlot(id)
<1>1. PICK p \in TopicEntries(names, ids) : p.slot = table[c]
  BY SizeFacts DEF TopicIndexed, Indexed
<1>2. PICK id \in ids : names[id] # Nobody /\ p = Entry(TopicHash(names[id]), TopicSlot(id))
  BY <1>1 DEF TopicEntries
<1> QED
  BY <1>1, <1>2 DEF Entry

\* There are twice as many cells as ids, so the table never fills.
LEMMA TopicRoom ==
  ASSUME NEW table, NEW names, NEW ids \in SUBSET Topics, TopicIndexed(table, names, ids)
  PROVE  \E c \in 0 .. 2 * MaxTopics - 1 : table[c].state # "used"
<1> DEFINE label == [c \in 0 .. 2 * MaxTopics - 1 |->
                       IF table[c].state = "used" THEN table[c].topic ELSE 0]
<1>1. ASSUME NEW c \in 0 .. 2 * MaxTopics - 1, table[c].state = "used"
      PROVE  label[c] \in Topics /\ table[c] = TopicSlot(label[c])
  <2>1. PICK id \in ids : table[c] = TopicSlot(id)
    BY <1>1, TopicCellHolds, SizeFacts
  <2>2. table[c].topic = id
    BY <2>1, SlotFacts
  <2> QED
    BY <1>1, <2>1, <2>2
<1>2. label \in [0 .. 2 * MaxTopics - 1 -> 0 .. MaxTopics - 1]
  BY <1>1, SizeFacts DEF Topics
<1>3. ASSUME NEW c \in 0 .. 2 * MaxTopics - 1, NEW d \in 0 .. 2 * MaxTopics - 1,
             table[c].state = "used", table[d].state = "used", label[c] = label[d]
      PROVE  c = d
  <2>1. table[c] = table[d]
    BY <1>1, <1>3
  <2> QED
    BY <2>1, <1>3 DEF TopicIndexed, Indexed
<1> HIDE DEF label
<1>4. MaxTopics \in Nat \ {0}
  BY SizeFacts
<1> QED
  BY <1>2, <1>3, <1>4, RoomLeft, ZenonT(40)

\* An id that is active and not yet in the index has a cell to go to.
LEMMA TopicInsert ==
  ASSUME NEW table, NEW names \in [Topics -> Names \cup {Nobody}],
         NEW ids \in SUBSET Topics, TopicIndexed(table, names, ids),
         NEW id \in Topics, id \notin ids, names[id] # Nobody,
         NEW cell, cell = ProbeInsert(table, TopicHash(names[id]), 2 * MaxTopics)
  PROVE  /\ cell \in TopicCells /\ cell # NoLink
         /\ TopicIndexed([table EXCEPT ![cell] = TopicSlot(id)], names, ids \cup {id})
<1>1. PICK n \in Nat \ {0} : n = 2 * MaxTopics
  BY SizeFacts
<1>2. PICK hash \in Nat : hash = TopicHash(names[id])
  BY TopicHashType
<1>3. \A c \in 0 .. n - 1 : table[c].state \in SlotStates
  BY <1>1 DEF TopicIndexed, Indexed
<1>4. \E c \in 0 .. n - 1 : table[c].state # "used"
  BY <1>1, TopicRoom
<1>5. cell = ProbeInsert(table, hash, n) /\ cell # NoLink
  BY <1>1, <1>2, <1>3, <1>4, InsertFinds
<1>6. cell \in 0 .. n - 1
  BY <1>3, <1>5, InsertCell
<1>7. \A p \in TopicEntries(names, ids) : p.slot # TopicSlot(id)
  <2>1. ASSUME NEW x \in ids PROVE TopicSlot(x) # TopicSlot(id)
    BY SlotFacts
  <2> QED
    BY <2>1 DEF TopicEntries, Entry
<1>8. Indexed([table EXCEPT ![cell] = TopicSlot(id)], n,
              TopicEntries(names, ids) \cup {Entry(hash, TopicSlot(id))})
  <2>1. Indexed(table, n, TopicEntries(names, ids)) /\ TopicSlot(id).state = "used"
    BY <1>1, SlotFacts DEF TopicIndexed
  <2> QED
    BY <2>1, <1>5, <1>7, IndexedInsert
<1>9. TopicEntries(names, ids \cup {id})
        = TopicEntries(names, ids) \cup {Entry(hash, TopicSlot(id))}
  BY <1>2 DEF TopicEntries
<1> QED
  BY <1>1, <1>5, <1>6, <1>8, <1>9 DEF TopicIndexed, TopicCells

\* The function of the recursion in rebuild_topic_index.
IsTopicRebuild(e, f) ==
  f = [k \in 0 .. e.high_water |->
         IF k = 0 THEN [c \in TopicCells |-> Unused] ELSE place_topic(e, f[k - 1], k - 1)]

\* The rounds of rebuild_topic_index exist as a function.
LEMMA TopicRebuildExists ==
  ASSUME NEW e \in Engines
  PROVE  \E f : IsTopicRebuild(e, f)
<1>1. PICK N \in Nat : N = e.high_water /\ N <= MaxTopics
  BY SizeFacts DEF Engines
<1> DEFINE base == [c \in TopicCells |-> Unused]
           g == [k \in 1 .. N |-> [t \in TopicTables |-> place_topic(e, t, k - 1)]]
<1>2. base \in TopicTables
  BY DEF TopicTables, TopicSlots
<1>3. ASSUME NEW k \in 1 .. N, NEW t \in TopicTables PROVE place_topic(e, t, k - 1) \in TopicTables
  <2>1. k - 1 \in Topics
    BY <1>1, SizeFacts DEF Topics
  <2>2. TopicSlot(k - 1) \in TopicSlots
    BY <2>1 DEF TopicSlots
  <2> QED
    BY <2>2 DEF place_topic, TopicTables
<1>4. g \in [1 .. N -> [TopicTables -> TopicTables]]
  BY <1>3
<1>5. PICK f : Runs(f, TopicTables, base, N, g)
  <2> HIDE DEF g, base
  <2>1. IsLoop(TopicTables, base, N, g)
    BY <1>2, <1>4, Zenon DEF IsLoop
  <2> QED
    BY <2>1, RecursionExists, Zenon
<1>6. f \in [0 .. N -> TopicTables] /\ f[0] = base
      /\ \A k \in 1 .. N : f[k] = g[k][f[k - 1]]
  BY <1>5, Zenon DEF Runs
<1>7. \A k \in 1 .. N : k - 1 \in 0 .. N
  OBVIOUS
<1>8. \A k \in 1 .. N : f[k] = place_topic(e, f[k - 1], k - 1)
  BY <1>6, <1>7
<1> HIDE DEF g, base
<1>9. f = [k \in 0 .. N |-> IF k = 0 THEN base ELSE place_topic(e, f[k - 1], k - 1)]
  <2>1. \A k \in 0 .. N : k # 0 => k \in 1 .. N
    OBVIOUS
  <2> QED
    BY <1>6, <1>8, <2>1
<1> QED
  BY <1>1, <1>9, Zenon DEF IsTopicRebuild, base

\* After k rounds the table holds the active ones of the first k ids.
LEMMA TopicRebuildRounds ==
  ASSUME NEW e \in Engines, NEW f, IsTopicRebuild(e, f)
  PROVE  /\ f[e.high_water] \in TopicTables
         /\ TopicIndexed(f[e.high_water], e.names, 0 .. e.high_water - 1)
<1>1. PICK N \in Nat : N = e.high_water /\ N <= MaxTopics
  BY SizeFacts DEF Engines
<1>2. /\ f[0] = [c \in TopicCells |-> Unused]
      /\ \A k \in 1 .. N : f[k] = place_topic(e, f[k - 1], k - 1)
  BY <1>1 DEF IsTopicRebuild
<1> DEFINE T == {k \in 0 .. N : /\ f[k] \in TopicTables
                                /\ TopicIndexed(f[k], e.names, 0 .. k - 1)}
<1>3. 0 \in T
  <2>1. TopicEntries(e.names, 0 .. 0 - 1) = {}
    BY DEF TopicEntries
  <2>2. Indexed(f[0], 2 * MaxTopics, {})
    BY <1>2, IndexedEmpty, SizeFacts
  <2>3. TopicIndexed(f[0], e.names, 0 .. 0 - 1)
    BY <2>1, <2>2, Zenon DEF TopicIndexed
  <2>4. f[0] \in TopicTables
    BY <1>2 DEF TopicTables, TopicSlots
  <2> QED
    BY <2>3, <2>4
<1>4. ASSUME NEW k \in 1 .. N, k - 1 \in T PROVE k \in T
  <2>1. PICK id \in Topics : id = k - 1
    BY <1>1, SizeFacts DEF Topics
  <2>2. PICK t : t = f[k - 1]
    OBVIOUS
  <2>3. /\ t \in TopicTables /\ TopicIndexed(t, e.names, 0 .. id - 1)
        /\ f[k] = place_topic(e, t, id)
    BY <1>2, <1>4, <2>1, <2>2
  <2>4. /\ 0 .. k - 1 = (0 .. id - 1) \cup {id} /\ id \notin 0 .. id - 1
        /\ 0 .. id - 1 \in SUBSET Topics
    BY <2>1, SizeFacts DEF Topics
  <2>5. e.names \in [Topics -> Names \cup {Nobody}]
    BY DEF Engines
  <2>6. CASE e.names[id] = Nobody
    <3>1. f[k] = t
      BY <2>3, <2>6 DEF place_topic
    <3>2. TopicEntries(e.names, (0 .. id - 1) \cup {id}) = TopicEntries(e.names, 0 .. id - 1)
      BY <2>6 DEF TopicEntries
    <3>3. TopicIndexed(f[k], e.names, 0 .. k - 1)
      BY <2>3, <2>4, <3>1, <3>2 DEF TopicIndexed
    <3> QED
      BY <2>3, <3>1, <3>3
  <2>7. CASE e.names[id] # Nobody
    <3>1. PICK cell : cell = ProbeInsert(t, TopicHash(e.names[id]), 2 * MaxTopics)
      OBVIOUS
    <3>2. PICK ids \in SUBSET Topics : ids = 0 .. id - 1
      BY <2>4
    <3>3. /\ cell # NoLink
          /\ TopicIndexed([t EXCEPT ![cell] = TopicSlot(id)], e.names, ids \cup {id})
      BY <2>3, <2>4, <2>5, <2>7, <3>1, <3>2, TopicInsert
    <3>4. f[k] = [t EXCEPT ![cell] = TopicSlot(id)]
      BY <2>3, <2>7, <3>1, <3>3 DEF place_topic
    <3>5. TopicIndexed(f[k], e.names, 0 .. k - 1)
      BY <2>4, <3>2, <3>3, <3>4
    <3>6. f[k] \in TopicTables
      BY <2>3, <3>4 DEF TopicTables, TopicSlots
    <3> QED
      BY <3>5, <3>6
  <2> QED
    BY <2>6, <2>7
<1> HIDE DEF T
<1>5. \A k \in 0 .. N : k \in T
  BY <1>3, <1>4, UpTo, Zenon
<1>6. N \in T
  BY <1>5
<1> QED
  BY <1>1, <1>6 DEF T

\* Ids from the high-water mark on were never handed out.
UnusedIds(e) == \A id \in Topics : id >= e.high_water => e.names[id] = Nobody

\* A rebuild makes the index agree with the topic table, whatever it held before.
LEMMA RebuildTopics ==
  ASSUME NEW e \in Engines, UnusedIds(e)
  PROVE  \E t \in TopicTables :
           /\ rebuild_topic_index(e) = WithTopicIndex(e, t, 0)
           /\ TopicIndexed(t, e.names, Topics)
<1> DEFINE f == CHOOSE f : IsTopicRebuild(e, f)
<1>1. \E g : IsTopicRebuild(e, g)
  BY TopicRebuildExists
<1>2. IsTopicRebuild(e, f)
  BY <1>1, Zenon
<1>3. rebuild_topic_index(e) = WithTopicIndex(e, f[e.high_water], 0)
  BY Zenon DEF rebuild_topic_index, WithTopicIndex, IsTopicRebuild
<1> HIDE DEF f
<1>4. /\ f[e.high_water] \in TopicTables
      /\ TopicIndexed(f[e.high_water], e.names, 0 .. e.high_water - 1)
  BY <1>2, TopicRebuildRounds
<1>5. TopicEntries(e.names, 0 .. e.high_water - 1) = TopicEntries(e.names, Topics)
  <2>1. e.high_water \in Nat /\ e.high_water <= MaxTopics
    BY SizeFacts DEF Engines
  <2>2. \A id : id \in 0 .. e.high_water - 1 <=> id \in Topics /\ id < e.high_water
    BY <2>1, SizeFacts DEF Topics
  <2>3. \A id \in Topics : e.names[id] # Nobody => id < e.high_water
    BY <2>1, SizeFacts DEF UnusedIds, Topics
  <2>4. {x \in 0 .. e.high_water - 1 : e.names[x] # Nobody} = {x \in Topics : e.names[x] # Nobody}
    BY <2>2, <2>3
  <2> QED
    BY <2>4 DEF TopicEntries
<1>6. TopicIndexed(f[e.high_water], e.names, Topics)
  BY <1>4, <1>5 DEF TopicIndexed
<1> QED
  BY <1>3, <1>4, <1>6

TopicIndexOK(e) == TopicIndexed(e.topic_index, e.names, Topics)

\* After the refresh of find_topic the index holds every active topic.
LEMMA FreshTopics ==
  ASSUME NEW e \in Engines, UnusedIds(e), TopicIndexOK(e)
  PROVE  \E t \in TopicTables, n \in Int :
           fresh_topic_index(e) = WithTopicIndex(e, t, n) /\ TopicIndexed(t, e.names, Topics)
<1>1. CASE used_cells(e.topic_index) = {} /\ e.topic_count # 0
  <2>1. fresh_topic_index(e) = rebuild_topic_index(e) /\ 0 \in Int
    BY <1>1 DEF fresh_topic_index
  <2> QED
    BY <2>1, RebuildTopics, Zenon
<1>2. CASE ~(used_cells(e.topic_index) = {} /\ e.topic_count # 0)
  <2>1. fresh_topic_index(e) = e
    BY <1>2 DEF fresh_topic_index
  <2>2. e = WithTopicIndex(e, e.topic_index, e.topic_tombstones)
        /\ e.topic_index \in TopicTables /\ e.topic_tombstones \in Int
    BY DEF Engines, WithTopicIndex
  <2> QED
    BY <2>1, <2>2, Zenon DEF TopicIndexOK
<1> QED
  BY <1>1, <1>2

\* find_topic answers with an id of the name, and with NoLink only if there is none.
LEMMA FindTopic ==
  ASSUME NEW e \in Engines, TopicIndexOK(e), NEW name \in Names
  PROVE  \/ find_topic(e, name) = NoLink /\ \A id \in Topics : e.names[id] # name
         \/ find_topic(e, name) \in Topics /\ e.names[find_topic(e, name)] = name
<1> DEFINE slots == {TopicSlot(id) : id \in {t \in Topics : e.names[t] = name}}
<1>1. PICK n \in Nat \ {0} : n = 2 * MaxTopics
  BY SizeFacts
<1>2. PICK hash \in Nat : hash = TopicHash(name)
  BY HashAssumption
<1>3. PICK cell : cell = TopicProbe(e, name) /\ cell = ProbeFind(e.topic_index, hash, n, slots)
  BY <1>1, <1>2 DEF TopicProbe
<1>4. CASE cell = NoLink
  <2>1. find_topic(e, name) = NoLink
    BY <1>3, <1>4 DEF find_topic
  <2>2. ASSUME NEW id \in Topics, e.names[id] = name PROVE FALSE
    <3>1. TopicSlot(id) \in slots /\ TopicSlot(id).state = "used"
      BY <2>2, SlotFacts
    <3>2. ~OnPath(e.topic_index, n, hash, TopicSlot(id))
      <4> HIDE DEF slots
      <4> QED
        BY <1>3, <1>4, <3>1, FindMiss
    <3>3. e.names[id] # Nobody
      BY <2>2, NamesAssumption
    <3>4. Entry(hash, TopicSlot(id)) \in TopicEntries(e.names, Topics)
      BY <1>2, <2>2, <3>3 DEF TopicEntries
    <3>5. Entry(hash, TopicSlot(id)).hash = hash
          /\ Entry(hash, TopicSlot(id)).slot = TopicSlot(id)
      BY DEF Entry
    <3> QED
      BY <1>1, <3>2, <3>4, <3>5 DEF TopicIndexOK, TopicIndexed, Indexed
  <2> QED
    BY <2>1, <2>2
<1>5. CASE cell # NoLink
  <2>1. e.topic_index[cell] \in slots
    <3> HIDE DEF slots
    <3> QED
      BY <1>3, <1>5, FindHit
  <2>2. PICK id \in Topics : e.names[id] = name /\ e.topic_index[cell] = TopicSlot(id)
    BY <2>1
  <2>3. find_topic(e, name) = id
    BY <1>3, <1>5, <2>2, SlotFacts DEF find_topic
  <2> QED
    BY <2>2, <2>3
<1> QED
  BY <1>4, <1>5

\* insert_topic_index adds the new topic, in a free cell or by a rebuild.
LEMMA InsertTopic ==
  ASSUME NEW e \in Engines, UnusedIds(e), NEW id \in Topics, e.names[id] # Nobody,
         TopicIndexed(e.topic_index, e.names, Topics \ {id})
  PROVE  \E t \in TopicTables, n \in Int :
           insert_topic_index(e, id) = WithTopicIndex(e, t, n) /\ TopicIndexed(t, e.names, Topics)
<1>1. PICK cell : cell = ProbeInsert(e.topic_index, TopicHash(e.names[id]), 2 * MaxTopics)
  OBVIOUS
<1>2. CASE e.topic_tombstones > (2 * MaxTopics) \div 4 \/ cell = NoLink
  <2>1. insert_topic_index(e, id) = rebuild_topic_index(e) /\ 0 \in Int
    BY <1>1, <1>2 DEF insert_topic_index
  <2> QED
    BY <2>1, RebuildTopics, Zenon
<1>3. CASE ~(e.topic_tombstones > (2 * MaxTopics) \div 4 \/ cell = NoLink)
  <2>1. PICK t : t = [e.topic_index EXCEPT ![cell] = TopicSlot(id)]
    OBVIOUS
  <2>2. insert_topic_index(e, id) = WithTopicIndex(e, t, e.topic_tombstones)
    <3>1. insert_topic_index(e, id) = [e EXCEPT !.topic_index[cell] = TopicSlot(id)]
      BY <1>1, <1>3, Zenon DEF insert_topic_index
    <3> QED
      BY <3>1, <2>1 DEF WithTopicIndex, Engines
  <2>3. PICK ids \in SUBSET Topics : ids = Topics \ {id}
    OBVIOUS
  <2>4. TopicIndexed(t, e.names, ids \cup {id})
    <3>1. e.names \in [Topics -> Names \cup {Nobody}]
      BY DEF Engines
    <3> QED
      BY <1>1, <2>1, <2>3, <3>1, TopicInsert
  <2>5. ids \cup {id} = Topics
    BY <2>3
  <2>6. t \in TopicTables /\ e.topic_tombstones \in Int
    BY <2>1 DEF Engines, TopicTables, TopicSlots
  <2> QED
    BY <2>2, <2>4, <2>5, <2>6, Zenon
<1> QED
  BY <1>2, <1>3

\* remove_topic_index takes exactly the entry of this topic out.
LEMMA RemoveTopicEntry ==
  ASSUME NEW e \in Engines, TopicIndexOK(e), NEW id \in Topics, e.names[id] # Nobody
  PROVE  \E t \in TopicTables, n \in Int :
           /\ remove_topic_index(e, id) = WithTopicIndex(e, t, n)
           /\ TopicIndexed(t, e.names, Topics \ {id})
<1>1. PICK n \in Nat \ {0} : n = 2 * MaxTopics
  BY SizeFacts
<1>2. PICK hash \in Nat : hash = TopicHash(e.names[id])
  BY TopicHashType DEF Engines
<1>3. PICK cell : cell = ProbeFind(e.topic_index, hash, n, {TopicSlot(id)})
  OBVIOUS
<1>4. TopicSlot(id).state = "used"
  BY SlotFacts
<1>5. cell # NoLink
  <2>1. Entry(hash, TopicSlot(id)) \in TopicEntries(e.names, Topics)
    BY <1>2 DEF TopicEntries
  <2>2. Entry(hash, TopicSlot(id)).hash = hash
        /\ Entry(hash, TopicSlot(id)).slot = TopicSlot(id)
    BY DEF Entry
  <2>3. OnPath(e.topic_index, n, hash, TopicSlot(id))
    BY <1>1, <2>1, <2>2 DEF TopicIndexOK, TopicIndexed, Indexed
  <2> QED
    BY <1>3, <1>4, <2>3, FindMiss
<1>6. cell \in 0 .. n - 1 /\ e.topic_index[cell] = TopicSlot(id)
  BY <1>3, <1>5, FindHit
<1>7. PICK t : t = [e.topic_index EXCEPT ![cell] = Tombstone]
  OBVIOUS
<1>8. remove_topic_index(e, id) = WithTopicIndex(e, t, e.topic_tombstones + 1)
  <2>1. remove_topic_index(e, id)
          = [e EXCEPT !.topic_index[cell] = Tombstone, !.topic_tombstones = @ + 1]
    BY <1>1, <1>2, <1>3, <1>5 DEF remove_topic_index
  <2> QED
    BY <2>1, <1>7 DEF WithTopicIndex, Engines
<1>9. Indexed(t, n, {p \in TopicEntries(e.names, Topics) : p.slot # TopicSlot(id)})
  <2>1. Indexed(e.topic_index, n, TopicEntries(e.names, Topics))
    BY <1>1 DEF TopicIndexOK, TopicIndexed
  <2> QED
    BY <2>1, <1>4, <1>6, <1>7, IndexedRemove
<1>10. {p \in TopicEntries(e.names, Topics) : p.slot # TopicSlot(id)}
         = TopicEntries(e.names, Topics \ {id})
  <2>1. \A x \in Topics : Entry(TopicHash(e.names[x]), TopicSlot(x)).slot = TopicSlot(x)
    BY DEF Entry
  <2>2. \A x \in Topics : TopicSlot(x) = TopicSlot(id) <=> x = id
    BY SlotFacts
  <2> QED
    BY <2>1, <2>2 DEF TopicEntries
<1>11. TopicIndexed(t, e.names, Topics \ {id})
  BY <1>1, <1>9, <1>10 DEF TopicIndexed
<1>12. t \in TopicTables /\ e.topic_tombstones + 1 \in Int
  <2>1. e.topic_index \in TopicTables /\ e.topic_tombstones \in Int
    BY DEF Engines
  <2>2. Tombstone \in TopicSlots
    BY DEF TopicSlots
  <2>3. t \in TopicTables
    BY <1>7, <2>1, <2>2 DEF TopicTables
  <2> QED
    BY <2>1, <2>3
<1> QED
  BY <1>8, <1>11, <1>12, Zenon

-----------------------------------------------------------------------------
(* The index of the subscriptions.                                         *)

RowSlot(sockets, topic_ids, r) == SubSlot(sockets[r], topic_ids[r], r)
RowHash(sockets, topic_ids, r) == SubHash(sockets[r], topic_ids[r])

SubEntries(sockets, topic_ids, rows) ==
  {Entry(RowHash(sockets, topic_ids, r), RowSlot(sockets, topic_ids, r)) :
     r \in {x \in rows : sockets[x] # Nobody}}

\* The subscription index holds the live ones of the given rows.
SubIndexed(table, sockets, topic_ids, rows) ==
  Indexed(table, 2 * MaxSubs, SubEntries(sockets, topic_ids, rows))

SocketColumns == [Rows -> Sockets \cup {Nobody}]
TopicColumns == [Rows -> Topics]

\* A live row has a hash and a slot.
LEMMA SubHashType ==
  ASSUME NEW sockets \in SocketColumns, NEW topic_ids \in TopicColumns,
         NEW r \in Rows, sockets[r] # Nobody
  PROVE  /\ sockets[r] \in Sockets /\ topic_ids[r] \in Topics
         /\ RowHash(sockets, topic_ids, r) \in Nat
         /\ RowSlot(sockets, topic_ids, r) \in SubSlots
<1>1. sockets[r] \in Sockets /\ topic_ids[r] \in Topics
  BY DEF SocketColumns, TopicColumns
<1> QED
  BY <1>1, HashAssumption DEF RowHash, RowSlot, SubSlots

\* A used cell of the index holds the slot of a live row.
LEMMA SubCellHolds ==
  ASSUME NEW table, NEW sockets, NEW topic_ids, NEW rows \in SUBSET Rows,
         SubIndexed(table, sockets, topic_ids, rows),
         NEW c \in SubCells, table[c].state = "used"
  PROVE  \E r \in rows : sockets[r] # Nobody /\ table[c] = RowSlot(sockets, topic_ids, r)
<1>1. PICK p \in SubEntries(sockets, topic_ids, rows) : p.slot = table[c]
  BY SizeFacts DEF SubIndexed, Indexed
<1>2. PICK r \in rows :
        /\ sockets[r] # Nobody
        /\ p = Entry(RowHash(sockets, topic_ids, r), RowSlot(sockets, topic_ids, r))
  BY <1>1 DEF SubEntries
<1> QED
  BY <1>1, <1>2 DEF Entry

\* A live row is found along the probe path of its key.
LEMMA RowOnPath ==
  ASSUME NEW table, NEW sockets, NEW topic_ids, NEW rows,
         SubIndexed(table, sockets, topic_ids, rows),
         NEW r \in rows, sockets[r] # Nobody
  PROVE  OnPath(table, 2 * MaxSubs, RowHash(sockets, topic_ids, r),
                RowSlot(sockets, topic_ids, r))
<1>1. PICK hash, slot :
        hash = RowHash(sockets, topic_ids, r) /\ slot = RowSlot(sockets, topic_ids, r)
  OBVIOUS
<1>2. Entry(hash, slot) \in SubEntries(sockets, topic_ids, rows)
  BY <1>1 DEF SubEntries
<1>3. Entry(hash, slot).hash = hash /\ Entry(hash, slot).slot = slot
  BY DEF Entry
<1>4. OnPath(table, 2 * MaxSubs, hash, slot)
  BY <1>2, <1>3 DEF SubIndexed, Indexed
<1> QED
  BY <1>1, <1>4

\* Slots of different rows differ.
LEMMA RowSlotFacts ==
  ASSUME NEW sockets, NEW topic_ids, NEW q, NEW r
  PROVE  /\ RowSlot(sockets, topic_ids, r).state = "used"
         /\ RowSlot(sockets, topic_ids, r).row = r
         /\ RowSlot(sockets, topic_ids, q) = RowSlot(sockets, topic_ids, r) <=> q = r
  BY SlotFacts DEF RowSlot

\* There are twice as many cells as rows, so the table never fills.
LEMMA SubRoom ==
  ASSUME NEW table, NEW sockets, NEW topic_ids, NEW rows \in SUBSET Rows,
         SubIndexed(table, sockets, topic_ids, rows)
  PROVE  \E c \in 0 .. 2 * MaxSubs - 1 : table[c].state # "used"
<1> DEFINE label == [c \in 0 .. 2 * MaxSubs - 1 |->
                       IF table[c].state = "used" THEN table[c].row ELSE 0]
<1>1. ASSUME NEW c \in 0 .. 2 * MaxSubs - 1, table[c].state = "used"
      PROVE  label[c] \in Rows /\ table[c] = RowSlot(sockets, topic_ids, label[c])
  <2>1. PICK r \in rows : table[c] = RowSlot(sockets, topic_ids, r)
    BY <1>1, SubCellHolds, SizeFacts
  <2>2. table[c].row = r
    BY <2>1, RowSlotFacts
  <2> QED
    BY <1>1, <2>1, <2>2
<1>2. label \in [0 .. 2 * MaxSubs - 1 -> 0 .. MaxSubs - 1]
  BY <1>1, SizeFacts DEF Rows
<1>3. ASSUME NEW c \in 0 .. 2 * MaxSubs - 1, NEW d \in 0 .. 2 * MaxSubs - 1,
             table[c].state = "used", table[d].state = "used", label[c] = label[d]
      PROVE  c = d
  <2>1. table[c] = table[d]
    BY <1>1, <1>3
  <2> QED
    BY <2>1, <1>3 DEF SubIndexed, Indexed
<1> HIDE DEF label
<1>4. MaxSubs \in Nat \ {0}
  BY SizeFacts
<1> QED
  BY <1>2, <1>3, <1>4, RoomLeft, ZenonT(40)

\* A live row that is not yet in the index has a cell to go to.
LEMMA SubInsert ==
  ASSUME NEW table, NEW sockets \in SocketColumns, NEW topic_ids \in TopicColumns,
         NEW rows \in SUBSET Rows, SubIndexed(table, sockets, topic_ids, rows),
         NEW r \in Rows, r \notin rows, sockets[r] # Nobody,
         NEW cell, cell = ProbeInsert(table, RowHash(sockets, topic_ids, r), 2 * MaxSubs)
  PROVE  /\ cell \in SubCells /\ cell # NoLink
         /\ SubIndexed([table EXCEPT ![cell] = RowSlot(sockets, topic_ids, r)],
                       sockets, topic_ids, rows \cup {r})
<1>1. PICK n \in Nat \ {0} : n = 2 * MaxSubs
  BY SizeFacts
<1>2. PICK hash \in Nat : hash = RowHash(sockets, topic_ids, r)
  BY SubHashType
<1>3. \A c \in 0 .. n - 1 : table[c].state \in SlotStates
  BY <1>1 DEF SubIndexed, Indexed
<1>4. \E c \in 0 .. n - 1 : table[c].state # "used"
  BY <1>1, SubRoom
<1>5. cell = ProbeInsert(table, hash, n) /\ cell # NoLink
  BY <1>1, <1>2, <1>3, <1>4, InsertFinds
<1>6. cell \in 0 .. n - 1
  BY <1>3, <1>5, InsertCell
<1>7. PICK slot : slot = RowSlot(sockets, topic_ids, r)
  OBVIOUS
<1>8. \A p \in SubEntries(sockets, topic_ids, rows) : p.slot # slot
  <2>1. ASSUME NEW x \in rows PROVE RowSlot(sockets, topic_ids, x) # slot
    BY <1>7, RowSlotFacts
  <2> QED
    BY <2>1 DEF SubEntries, Entry
<1>9. Indexed([table EXCEPT ![cell] = slot], n,
              SubEntries(sockets, topic_ids, rows) \cup {Entry(hash, slot)})
  <2>1. Indexed(table, n, SubEntries(sockets, topic_ids, rows)) /\ slot.state = "used"
    BY <1>1, <1>7, RowSlotFacts DEF SubIndexed
  <2> QED
    BY <2>1, <1>5, <1>8, IndexedInsert
<1>10. SubEntries(sockets, topic_ids, rows \cup {r})
         = SubEntries(sockets, topic_ids, rows) \cup {Entry(hash, slot)}
  BY <1>2, <1>7 DEF SubEntries
<1> QED
  BY <1>1, <1>5, <1>6, <1>7, <1>9, <1>10 DEF SubIndexed, SubCells

\* The entries depend on the given rows only.
LEMMA SubEntriesAgree ==
  ASSUME NEW sockets, NEW topic_ids, NEW sockets2, NEW topic_ids2, NEW rows,
         \A r \in rows : sockets[r] = sockets2[r] /\ topic_ids[r] = topic_ids2[r]
  PROVE  SubEntries(sockets, topic_ids, rows) = SubEntries(sockets2, topic_ids2, rows)
<1>1. \A r \in rows : /\ RowHash(sockets, topic_ids, r) = RowHash(sockets2, topic_ids2, r)
                      /\ RowSlot(sockets, topic_ids, r) = RowSlot(sockets2, topic_ids2, r)
  BY DEF RowHash, RowSlot
<1>2. \A r \in rows : sockets[r] = sockets2[r]
  OBVIOUS
<1> QED
  BY <1>1, <1>2 DEF SubEntries

\* The function of the recursion in rebuild_sub_index.
IsSubRebuild(e, f) ==
  f = [k \in 0 .. e.sub_count |->
         IF k = 0 THEN [c \in SubCells |-> Unused] ELSE place_row(e, f[k - 1], k - 1)]

\* The rounds of rebuild_sub_index exist as a function.
LEMMA SubRebuildExists ==
  ASSUME NEW e \in Engines
  PROVE  \E f : IsSubRebuild(e, f)
<1>1. PICK N \in Nat : N = e.sub_count /\ N <= MaxSubs
  BY SizeFacts DEF Engines
<1> DEFINE base == [c \in SubCells |-> Unused]
           g == [k \in 1 .. N |-> [t \in SubTables |-> place_row(e, t, k - 1)]]
<1>2. base \in SubTables
  BY DEF SubTables, SubSlots
<1>3. ASSUME NEW k \in 1 .. N, NEW t \in SubTables PROVE place_row(e, t, k - 1) \in SubTables
  <2>1. k - 1 \in Rows
    BY <1>1, SizeFacts DEF Rows
  <2>2. e.sockets \in SocketColumns /\ e.topic_ids \in TopicColumns
    BY DEF Engines, SocketColumns, TopicColumns
  <2>3. e.sockets[k - 1] # Nobody => SubSlot(e.sockets[k - 1], e.topic_ids[k - 1], k - 1) \in SubSlots
    BY <2>1, <2>2, SubHashType DEF RowSlot
  <2> QED
    BY <2>3 DEF place_row, SubTables
<1>4. g \in [1 .. N -> [SubTables -> SubTables]]
  BY <1>3
<1>5. PICK f : Runs(f, SubTables, base, N, g)
  <2> HIDE DEF g, base
  <2>1. IsLoop(SubTables, base, N, g)
    BY <1>2, <1>4, Zenon DEF IsLoop
  <2> QED
    BY <2>1, RecursionExists, Zenon
<1>6. f \in [0 .. N -> SubTables] /\ f[0] = base
      /\ \A k \in 1 .. N : f[k] = g[k][f[k - 1]]
  BY <1>5, Zenon DEF Runs
<1>7. \A k \in 1 .. N : k - 1 \in 0 .. N
  OBVIOUS
<1>8. \A k \in 1 .. N : f[k] = place_row(e, f[k - 1], k - 1)
  BY <1>6, <1>7
<1> HIDE DEF g, base
<1>9. f = [k \in 0 .. N |-> IF k = 0 THEN base ELSE place_row(e, f[k - 1], k - 1)]
  <2>1. \A k \in 0 .. N : k # 0 => k \in 1 .. N
    OBVIOUS
  <2> QED
    BY <1>6, <1>8, <2>1
<1> QED
  BY <1>1, <1>9, Zenon DEF IsSubRebuild, base

\* After k rounds the table holds the live ones of the first k rows.
LEMMA SubRebuildRounds ==
  ASSUME NEW e \in Engines, NEW f, IsSubRebuild(e, f)
  PROVE  /\ f[e.sub_count] \in SubTables
         /\ SubIndexed(f[e.sub_count], e.sockets, e.topic_ids, 0 .. e.sub_count - 1)
<1>1. PICK N \in Nat : N = e.sub_count /\ N <= MaxSubs
  BY SizeFacts DEF Engines
<1>2. /\ f[0] = [c \in SubCells |-> Unused]
      /\ \A k \in 1 .. N : f[k] = place_row(e, f[k - 1], k - 1)
  BY <1>1 DEF IsSubRebuild
<1> DEFINE T == {k \in 0 .. N : /\ f[k] \in SubTables
                                /\ SubIndexed(f[k], e.sockets, e.topic_ids, 0 .. k - 1)}
<1>3. 0 \in T
  <2>1. SubEntries(e.sockets, e.topic_ids, 0 .. 0 - 1) = {}
    BY DEF SubEntries
  <2>2. Indexed(f[0], 2 * MaxSubs, {})
    BY <1>2, IndexedEmpty, SizeFacts
  <2>3. SubIndexed(f[0], e.sockets, e.topic_ids, 0 .. 0 - 1)
    BY <2>1, <2>2, Zenon DEF SubIndexed
  <2>4. f[0] \in SubTables
    BY <1>2 DEF SubTables, SubSlots
  <2> QED
    BY <2>3, <2>4
<1>4. ASSUME NEW k \in 1 .. N, k - 1 \in T PROVE k \in T
  <2>1. PICK r \in Rows : r = k - 1
    BY <1>1, SizeFacts DEF Rows
  <2>2. PICK t : t = f[k - 1]
    OBVIOUS
  <2>3. /\ t \in SubTables /\ SubIndexed(t, e.sockets, e.topic_ids, 0 .. r - 1)
        /\ f[k] = place_row(e, t, r)
    BY <1>2, <1>4, <2>1, <2>2
  <2>4. /\ 0 .. k - 1 = (0 .. r - 1) \cup {r} /\ r \notin 0 .. r - 1
        /\ 0 .. r - 1 \in SUBSET Rows
    BY <2>1, SizeFacts DEF Rows
  <2>5. e.sockets \in SocketColumns /\ e.topic_ids \in TopicColumns
    BY DEF Engines, SocketColumns, TopicColumns
  <2>6. CASE e.sockets[r] = Nobody
    <3>1. f[k] = t
      BY <2>3, <2>6 DEF place_row
    <3>2. SubEntries(e.sockets, e.topic_ids, (0 .. r - 1) \cup {r})
            = SubEntries(e.sockets, e.topic_ids, 0 .. r - 1)
      BY <2>6 DEF SubEntries
    <3>3. SubIndexed(f[k], e.sockets, e.topic_ids, 0 .. k - 1)
      BY <2>3, <2>4, <3>1, <3>2 DEF SubIndexed
    <3> QED
      BY <2>3, <3>1, <3>3
  <2>7. CASE e.sockets[r] # Nobody
    <3>1. PICK cell : cell = ProbeInsert(t, RowHash(e.sockets, e.topic_ids, r), 2 * MaxSubs)
      OBVIOUS
    <3>2. PICK rows \in SUBSET Rows : rows = 0 .. r - 1
      BY <2>4
    <3>3. /\ cell # NoLink
          /\ SubIndexed([t EXCEPT ![cell] = RowSlot(e.sockets, e.topic_ids, r)],
                        e.sockets, e.topic_ids, rows \cup {r})
      BY <2>3, <2>4, <2>5, <2>7, <3>1, <3>2, SubInsert
    <3>4. f[k] = [t EXCEPT ![cell] = RowSlot(e.sockets, e.topic_ids, r)]
      BY <2>3, <2>7, <3>1, <3>3 DEF place_row, RowHash, RowSlot
    <3>5. SubIndexed(f[k], e.sockets, e.topic_ids, 0 .. k - 1)
      BY <2>4, <3>2, <3>3, <3>4
    <3>6. f[k] \in SubTables
      <4>1. RowSlot(e.sockets, e.topic_ids, r) \in SubSlots
        BY <2>5, <2>7, SubHashType
      <4> QED
        BY <2>3, <3>4, <4>1 DEF SubTables
    <3> QED
      BY <3>5, <3>6
  <2> QED
    BY <2>6, <2>7
<1> HIDE DEF T
<1>5. \A k \in 0 .. N : k \in T
  BY <1>3, <1>4, UpTo, Zenon
<1>6. N \in T
  BY <1>5
<1> QED
  BY <1>1, <1>6 DEF T

UsedRows(e) == 0 .. e.sub_count - 1
SubIndexOK(e) == SubIndexed(e.sub_index, e.sockets, e.topic_ids, UsedRows(e))

\* The rows below sub_count are rows.
LEMMA UsedRowsType ==
  ASSUME NEW e \in Engines
  PROVE  UsedRows(e) \in SUBSET Rows
  BY SizeFacts DEF UsedRows, Rows, Engines

\* A rebuild makes the index agree with the rows, whatever it held before.
LEMMA RebuildSubs ==
  ASSUME NEW e \in Engines
  PROVE  \E t \in SubTables :
           /\ rebuild_sub_index(e) = WithSubIndex(e, t, 0)
           /\ SubIndexed(t, e.sockets, e.topic_ids, UsedRows(e))
<1> DEFINE f == CHOOSE f : IsSubRebuild(e, f)
<1>1. \E g : IsSubRebuild(e, g)
  BY SubRebuildExists
<1>2. IsSubRebuild(e, f)
  BY <1>1, Zenon
<1>3. rebuild_sub_index(e) = WithSubIndex(e, f[e.sub_count], 0)
  BY Zenon DEF rebuild_sub_index, WithSubIndex, IsSubRebuild
<1> HIDE DEF f
<1>4. /\ f[e.sub_count] \in SubTables
      /\ SubIndexed(f[e.sub_count], e.sockets, e.topic_ids, UsedRows(e))
  BY <1>2, SubRebuildRounds DEF UsedRows
<1> QED
  BY <1>3, <1>4

\* After the refresh of find_subscription the index holds every live row.
LEMMA FreshSubs ==
  ASSUME NEW e \in Engines, SubIndexOK(e)
  PROVE  \E t \in SubTables, n \in Int :
           /\ fresh_sub_index(e) = WithSubIndex(e, t, n)
           /\ SubIndexed(t, e.sockets, e.topic_ids, UsedRows(e))
<1>1. CASE used_cells(e.sub_index) = {} /\ e.sub_count # 0
  <2>1. fresh_sub_index(e) = rebuild_sub_index(e) /\ 0 \in Int
    BY <1>1 DEF fresh_sub_index
  <2> QED
    BY <2>1, RebuildSubs, Zenon
<1>2. CASE ~(used_cells(e.sub_index) = {} /\ e.sub_count # 0)
  <2>1. fresh_sub_index(e) = e
    BY <1>2 DEF fresh_sub_index
  <2>2. e = WithSubIndex(e, e.sub_index, e.sub_tombstones)
        /\ e.sub_index \in SubTables /\ e.sub_tombstones \in Int
    BY DEF Engines, WithSubIndex
  <2> QED
    BY <2>1, <2>2, Zenon DEF SubIndexOK
<1> QED
  BY <1>1, <1>2

\* A cell that the lookup of a key finds holds the slot of a live row with that key.
LEMMA SubProbeFinds ==
  ASSUME NEW e \in Engines, NEW rows \in SUBSET Rows,
         SubIndexed(e.sub_index, e.sockets, e.topic_ids, rows),
         NEW s \in Sockets, NEW id \in Topics
  PROVE  \/ /\ SubProbe(e, s, id) = NoLink
            /\ \A r \in rows : ~(e.sockets[r] = s /\ e.topic_ids[r] = id)
         \/ /\ SubProbe(e, s, id) \in SubCells /\ SubProbe(e, s, id) # NoLink
            /\ \E r \in rows : /\ e.sockets[r] = s /\ e.topic_ids[r] = id
                               /\ e.sub_index[SubProbe(e, s, id)] = SubSlot(s, id, r)
<1> DEFINE slots == {SubSlot(s, id, r) : r \in Rows}
<1>1. PICK n \in Nat \ {0} : n = 2 * MaxSubs
  BY SizeFacts
<1>2. PICK hash \in Nat : hash = SubHash(s, id)
  BY HashAssumption
<1>3. PICK cell : cell = SubProbe(e, s, id) /\ cell = ProbeFind(e.sub_index, hash, n, slots)
  BY <1>1, <1>2 DEF SubProbe
<1>4. CASE cell = NoLink
  <2>1. ASSUME NEW r \in rows, e.sockets[r] = s, e.topic_ids[r] = id PROVE FALSE
    <3>1. SubSlot(s, id, r) \in slots /\ SubSlot(s, id, r).state = "used"
      BY SlotFacts
    <3>2. ~OnPath(e.sub_index, n, hash, SubSlot(s, id, r))
      <4> HIDE DEF slots
      <4> QED
        BY <1>3, <1>4, <3>1, FindMiss
    <3>3. e.sockets[r] # Nobody
      BY <2>1, NamesAssumption
    <3>4. OnPath(e.sub_index, 2 * MaxSubs, RowHash(e.sockets, e.topic_ids, r),
                 RowSlot(e.sockets, e.topic_ids, r))
      BY <3>3, RowOnPath
    <3> QED
      BY <1>1, <1>2, <2>1, <3>2, <3>4 DEF RowHash, RowSlot
  <2> QED
    BY <1>3, <1>4, <2>1
<1>5. CASE cell # NoLink
  <2>1. cell \in 0 .. n - 1 /\ e.sub_index[cell] \in slots
    <3> HIDE DEF slots
    <3> QED
      BY <1>3, <1>5, FindHit
  <2>2. PICK r \in Rows : e.sub_index[cell] = SubSlot(s, id, r)
    BY <2>1
  <2>3. cell \in SubCells /\ e.sub_index[cell].state = "used"
    BY <1>1, <2>1, <2>2, SlotFacts DEF SubCells
  <2>4. PICK q \in rows : e.sub_index[cell] = SubSlot(e.sockets[q], e.topic_ids[q], q)
    BY <2>3, SubCellHolds DEF RowSlot
  <2>5. q = r /\ e.sockets[q] = s /\ e.topic_ids[q] = id
    <3>1. PICK slot : slot = e.sub_index[cell]
      OBVIOUS
    <3>2. slot.row = r /\ slot.socket = s /\ slot.topic = id
      BY <2>2, <3>1, SlotFacts
    <3>3. slot.row = q /\ slot.socket = e.sockets[q] /\ slot.topic = e.topic_ids[q]
      BY <2>4, <3>1, SlotFacts
    <3> QED
      BY <3>2, <3>3
  <2> QED
    BY <1>3, <1>5, <2>2, <2>3, <2>5
<1> QED
  BY <1>4, <1>5

\* find_subscription answers with a row of the key, and with NoLink only if there is none.
LEMMA FindSubscription ==
  ASSUME NEW e \in Engines, SubIndexOK(e), NEW s \in Sockets, NEW id \in Topics
  PROVE  \/ /\ find_subscription(e, s, id) = NoLink
            /\ \A r \in UsedRows(e) : ~(e.sockets[r] = s /\ e.topic_ids[r] = id)
         \/ /\ find_subscription(e, s, id) \in UsedRows(e)
            /\ e.sockets[find_subscription(e, s, id)] = s
            /\ e.topic_ids[find_subscription(e, s, id)] = id
<1>1. PICK rows \in SUBSET Rows : rows = UsedRows(e)
  BY UsedRowsType
<1>2. SubIndexed(e.sub_index, e.sockets, e.topic_ids, rows)
  BY <1>1 DEF SubIndexOK
<1>3. CASE SubProbe(e, s, id) = NoLink
  BY <1>1, <1>2, <1>3, SubProbeFinds DEF find_subscription
<1>4. CASE SubProbe(e, s, id) # NoLink
  <2>1. PICK r \in rows : /\ e.sockets[r] = s /\ e.topic_ids[r] = id
                          /\ e.sub_index[SubProbe(e, s, id)] = SubSlot(s, id, r)
    BY <1>2, <1>4, SubProbeFinds
  <2>2. find_subscription(e, s, id) = r
    BY <1>4, <2>1, SlotFacts DEF find_subscription
  <2> QED
    BY <1>1, <2>1, <2>2
<1> QED
  BY <1>3, <1>4

\* insert_sub_index adds the new row, in a free cell or by a rebuild.
LEMMA InsertSub ==
  ASSUME NEW e \in Engines, NEW r \in UsedRows(e), e.sockets[r] # Nobody,
         SubIndexed(e.sub_index, e.sockets, e.topic_ids, UsedRows(e) \ {r})
  PROVE  \E t \in SubTables, n \in Int :
           /\ insert_sub_index(e, e.sockets[r], e.topic_ids[r], r) = WithSubIndex(e, t, n)
           /\ SubIndexed(t, e.sockets, e.topic_ids, UsedRows(e))
<1>1. PICK cell : cell = ProbeInsert(e.sub_index, RowHash(e.sockets, e.topic_ids, r), 2 * MaxSubs)
  OBVIOUS
<1>2. PICK d : d = insert_sub_index(e, e.sockets[r], e.topic_ids[r], r)
  OBVIOUS
<1>3. CASE e.sub_tombstones > (2 * MaxSubs) \div 4 \/ cell = NoLink
  <2>1. d = rebuild_sub_index(e) /\ 0 \in Int
    BY <1>1, <1>2, <1>3 DEF insert_sub_index, RowHash
  <2> QED
    BY <1>2, <2>1, RebuildSubs, Zenon
<1>4. CASE ~(e.sub_tombstones > (2 * MaxSubs) \div 4 \/ cell = NoLink)
  <2>1. PICK t : t = [e.sub_index EXCEPT ![cell] = RowSlot(e.sockets, e.topic_ids, r)]
    OBVIOUS
  <2>2. d = WithSubIndex(e, t, e.sub_tombstones)
    <3>1. d = [e EXCEPT !.sub_index[cell] = RowSlot(e.sockets, e.topic_ids, r)]
      BY <1>1, <1>2, <1>4, Zenon DEF insert_sub_index, RowHash, RowSlot
    <3> QED
      BY <3>1, <2>1 DEF WithSubIndex, Engines
  <2>3. PICK rows \in SUBSET Rows : rows = UsedRows(e) \ {r} /\ r \notin rows
    <3>1. UsedRows(e) \ {r} \in SUBSET Rows /\ r \notin UsedRows(e) \ {r}
      BY UsedRowsType
    <3> QED
      BY <3>1, Zenon
  <2>4. e.sockets \in SocketColumns /\ e.topic_ids \in TopicColumns /\ r \in Rows
    BY UsedRowsType DEF Engines, SocketColumns, TopicColumns
  <2>5. SubIndexed(t, e.sockets, e.topic_ids, rows \cup {r})
    BY <1>1, <2>1, <2>3, <2>4, SubInsert
  <2>6. rows \cup {r} = UsedRows(e)
    BY <2>3
  <2>7. t \in SubTables /\ e.sub_tombstones \in Int
    <3>1. RowSlot(e.sockets, e.topic_ids, r) \in SubSlots
      BY <2>4, SubHashType
    <3>2. e.sub_index \in SubTables /\ e.sub_tombstones \in Int
      BY DEF Engines
    <3> QED
      BY <2>1, <3>1, <3>2 DEF SubTables
  <2> QED
    BY <1>2, <2>2, <2>5, <2>6, <2>7, Zenon
<1> QED
  BY <1>3, <1>4

\* No two live rows have the same socket and topic.
UniqueKeys(sockets, topic_ids, rows) ==
  \A q, r \in rows :
    sockets[q] # Nobody /\ sockets[q] = sockets[r] /\ topic_ids[q] = topic_ids[r] => q = r

\* The lookup of a live row's key finds the cell of that row.
LEMMA ProbeOfRow ==
  ASSUME NEW e \in Engines, NEW rows \in SUBSET Rows,
         SubIndexed(e.sub_index, e.sockets, e.topic_ids, rows),
         UniqueKeys(e.sockets, e.topic_ids, rows),
         NEW r \in rows, e.sockets[r] # Nobody,
         NEW cell, cell = SubProbe(e, e.sockets[r], e.topic_ids[r])
  PROVE  /\ cell \in 0 .. 2 * MaxSubs - 1 /\ cell # NoLink
         /\ e.sub_index[cell] = RowSlot(e.sockets, e.topic_ids, r)
<1>1. PICK s \in Sockets, id \in Topics : s = e.sockets[r] /\ id = e.topic_ids[r]
  <2>1. e.sockets \in SocketColumns /\ e.topic_ids \in TopicColumns
    BY DEF Engines, SocketColumns, TopicColumns
  <2> QED
    BY <2>1, SubHashType
<1>2. cell = SubProbe(e, s, id)
  BY <1>1
<1>3. cell \in SubCells /\ cell # NoLink
  BY <1>1, <1>2, SubProbeFinds
<1>4. PICK q \in rows : /\ e.sockets[q] = s /\ e.topic_ids[q] = id
                        /\ e.sub_index[cell] = SubSlot(s, id, q)
  BY <1>1, <1>2, SubProbeFinds
<1>5. q = r
  BY <1>1, <1>4 DEF UniqueKeys
<1> QED
  BY <1>1, <1>3, <1>4, <1>5 DEF RowSlot, SubCells

\* remove_sub_index takes exactly the entry of this row out.
LEMMA RemoveSubEntry ==
  ASSUME NEW e \in Engines, NEW rows \in SUBSET Rows,
         SubIndexed(e.sub_index, e.sockets, e.topic_ids, rows),
         UniqueKeys(e.sockets, e.topic_ids, rows),
         NEW r \in rows, e.sockets[r] # Nobody
  PROVE  \E t \in SubTables, n \in Int :
           /\ remove_sub_index(e, e.sockets[r], e.topic_ids[r]) = WithSubIndex(e, t, n)
           /\ SubIndexed(t, e.sockets, e.topic_ids, rows \ {r})
<1>1. PICK n \in Nat \ {0} : n = 2 * MaxSubs
  BY SizeFacts
<1>2. PICK cell : cell = SubProbe(e, e.sockets[r], e.topic_ids[r])
  OBVIOUS
<1>3. PICK slot : slot = RowSlot(e.sockets, e.topic_ids, r)
  OBVIOUS
<1>4. cell \in 0 .. n - 1 /\ cell # NoLink /\ e.sub_index[cell] = slot /\ slot.state = "used"
  BY <1>1, <1>2, <1>3, ProbeOfRow, RowSlotFacts
<1>5. PICK t : t = [e.sub_index EXCEPT ![cell] = Tombstone]
  OBVIOUS
<1>6. remove_sub_index(e, e.sockets[r], e.topic_ids[r]) = WithSubIndex(e, t, e.sub_tombstones + 1)
  <2>1. remove_sub_index(e, e.sockets[r], e.topic_ids[r])
          = [e EXCEPT !.sub_index[cell] = Tombstone, !.sub_tombstones = @ + 1]
    BY <1>2, <1>4 DEF remove_sub_index
  <2> QED
    BY <2>1, <1>5 DEF WithSubIndex, Engines
<1>7. Indexed(t, n, {p \in SubEntries(e.sockets, e.topic_ids, rows) : p.slot # slot})
  <2>1. Indexed(e.sub_index, n, SubEntries(e.sockets, e.topic_ids, rows))
    BY <1>1 DEF SubIndexed
  <2> QED
    BY <2>1, <1>4, <1>5, IndexedRemove
<1>8. {p \in SubEntries(e.sockets, e.topic_ids, rows) : p.slot # slot}
        = SubEntries(e.sockets, e.topic_ids, rows \ {r})
  <2>1. \A x \in rows : Entry(RowHash(e.sockets, e.topic_ids, x),
                              RowSlot(e.sockets, e.topic_ids, x)).slot
                          = RowSlot(e.sockets, e.topic_ids, x)
    BY DEF Entry
  <2>2. \A x \in rows : RowSlot(e.sockets, e.topic_ids, x) = slot <=> x = r
    BY <1>3, RowSlotFacts
  <2> QED
    BY <2>1, <2>2 DEF SubEntries
<1>9. SubIndexed(t, e.sockets, e.topic_ids, rows \ {r})
  BY <1>1, <1>7, <1>8 DEF SubIndexed
<1>10. t \in SubTables /\ e.sub_tombstones + 1 \in Int
  <2>1. e.sub_index \in SubTables /\ e.sub_tombstones \in Int
    BY DEF Engines
  <2>2. Tombstone \in SubSlots
    BY DEF SubSlots
  <2>3. t \in SubTables
    BY <1>5, <2>1, <2>2 DEF SubTables
  <2> QED
    BY <2>1, <2>3
<1> QED
  BY <1>6, <1>9, <1>10, Zenon

\* The entry of a moved row gets the row's new place.
LEMMA UpdateSubEntry ==
  ASSUME NEW e \in Engines, NEW rows \in SUBSET Rows,
         SubIndexed(e.sub_index, e.sockets, e.topic_ids, rows),
         UniqueKeys(e.sockets, e.topic_ids, rows),
         NEW from \in rows, e.sockets[from] # Nobody, NEW to \in Rows, to \notin rows,
         e.sockets[to] = e.sockets[from], e.topic_ids[to] = e.topic_ids[from]
  PROVE  \E t \in SubTables, n \in Int :
           /\ update_sub_index_row(e, e.sockets[from], e.topic_ids[from], to)
                = WithSubIndex(e, t, n)
           /\ SubIndexed(t, e.sockets, e.topic_ids, (rows \ {from}) \cup {to})
<1>1. PICK n \in Nat \ {0} : n = 2 * MaxSubs
  BY SizeFacts
<1>2. PICK s, id : s = e.sockets[from] /\ id = e.topic_ids[from]
  OBVIOUS
<1>3. PICK cell : cell = SubProbe(e, s, id)
  OBVIOUS
<1>4. PICK old, new : old = SubSlot(s, id, from) /\ new = SubSlot(s, id, to)
  OBVIOUS
<1>5. PICK hash : hash = SubHash(s, id)
  OBVIOUS
<1>6. /\ RowSlot(e.sockets, e.topic_ids, from) = old /\ RowSlot(e.sockets, e.topic_ids, to) = new
      /\ RowHash(e.sockets, e.topic_ids, from) = hash
      /\ RowHash(e.sockets, e.topic_ids, to) = hash
  BY <1>2, <1>4, <1>5 DEF RowSlot, RowHash
<1>7. cell \in 0 .. n - 1 /\ cell # NoLink /\ e.sub_index[cell] = old
  BY <1>1, <1>2, <1>3, <1>6, ProbeOfRow
<1>8. PICK t : t = [e.sub_index EXCEPT ![cell] = new]
  OBVIOUS
<1>9. update_sub_index_row(e, s, id, to) = WithSubIndex(e, t, e.sub_tombstones)
  <2>1. update_sub_index_row(e, s, id, to) = [e EXCEPT !.sub_index[cell].row = to]
    BY <1>3, <1>7 DEF update_sub_index_row
  <2>2. [old EXCEPT !.row = to] = new
    BY <1>4 DEF SubSlot
  <2>3. [e EXCEPT !.sub_index[cell].row = to] = [e EXCEPT !.sub_index[cell] = new]
    BY <1>7, <2>2 DEF Engines
  <2> QED
    BY <2>1, <2>3, <1>8 DEF WithSubIndex, Engines
<1>10. new.state = "used" /\ \A x \in rows : RowSlot(e.sockets, e.topic_ids, x) # new
  BY <1>6, RowSlotFacts
<1>11. \A p \in SubEntries(e.sockets, e.topic_ids, rows) : p.slot # new
  BY <1>10 DEF SubEntries, Entry
<1>12. Entry(hash, old) \in SubEntries(e.sockets, e.topic_ids, rows)
  BY <1>6 DEF SubEntries
<1>13. Indexed(t, n, {p \in SubEntries(e.sockets, e.topic_ids, rows) : p.slot # old}
                     \cup {Entry(hash, new)})
  <2>1. Indexed(e.sub_index, n, SubEntries(e.sockets, e.topic_ids, rows))
    BY <1>1 DEF SubIndexed
  <2> QED
    BY <2>1, <1>7, <1>8, <1>10, <1>11, <1>12, IndexedReplace
<1>14. {p \in SubEntries(e.sockets, e.topic_ids, rows) : p.slot # old} \cup {Entry(hash, new)}
         = SubEntries(e.sockets, e.topic_ids, (rows \ {from}) \cup {to})
  <2>1. \A x \in rows : Entry(RowHash(e.sockets, e.topic_ids, x),
                              RowSlot(e.sockets, e.topic_ids, x)).slot
                          = RowSlot(e.sockets, e.topic_ids, x)
    BY DEF Entry
  <2>2. \A x \in rows : RowSlot(e.sockets, e.topic_ids, x) = old <=> x = from
    BY <1>6, RowSlotFacts
  <2>3. {p \in SubEntries(e.sockets, e.topic_ids, rows) : p.slot # old}
          = SubEntries(e.sockets, e.topic_ids, rows \ {from})
    BY <2>1, <2>2 DEF SubEntries
  <2>4. SubEntries(e.sockets, e.topic_ids, (rows \ {from}) \cup {to})
          = SubEntries(e.sockets, e.topic_ids, rows \ {from}) \cup {Entry(hash, new)}
    BY <1>6 DEF SubEntries
  <2> QED
    BY <2>3, <2>4
<1>15. SubIndexed(t, e.sockets, e.topic_ids, (rows \ {from}) \cup {to})
  BY <1>1, <1>13, <1>14 DEF SubIndexed
<1>16. t \in SubTables /\ e.sub_tombstones \in Int
  <2>1. e.sub_index \in SubTables /\ e.sub_tombstones \in Int
    BY DEF Engines
  <2>2. e.sockets \in SocketColumns /\ e.topic_ids \in TopicColumns
    BY DEF Engines, SocketColumns, TopicColumns
  <2>3. new \in SubSlots
    BY <1>6, <2>2, SubHashType
  <2>4. t \in SubTables
    BY <1>8, <2>1, <2>3 DEF SubTables
  <2> QED
    BY <2>1, <2>4
<1> QED
  BY <1>2, <1>9, <1>15, <1>16, Zenon

-----------------------------------------------------------------------------
(* The intrusive lists.  The order of a list is given by numbering the     *)
(* rows: a row's successor is the row of its topic with the next number.   *)

Orders == [Rows -> Nat]

IsNext(ids, D, ord, r, n) ==
  IF n = NoLink THEN \A q \in D : ids[q] = ids[r] => ord[q] <= ord[r]
  ELSE /\ n \in D /\ ids[n] = ids[r] /\ ord[r] < ord[n]
       /\ \A q \in D : ids[q] = ids[r] => ord[q] <= ord[r] \/ ord[n] <= ord[q]

IsPrev(ids, D, ord, r, p) ==
  IF p = NoLink THEN \A q \in D : ids[q] = ids[r] => ord[r] <= ord[q]
  ELSE /\ p \in D /\ ids[p] = ids[r] /\ ord[p] < ord[r]
       /\ \A q \in D : ids[q] = ids[r] => ord[r] <= ord[q] \/ ord[q] <= ord[p]

IsHead(ids, D, ord, id, h) ==
  IF h = NoLink THEN \A q \in D : ids[q] # id
  ELSE h \in D /\ ids[h] = id /\ \A q \in D : ids[q] = id => ord[h] <= ord[q]

IsTail(ids, D, ord, id, t) ==
  IF t = NoLink THEN \A q \in D : ids[q] # id
  ELSE t \in D /\ ids[t] = id /\ \A q \in D : ids[q] = id => ord[q] <= ord[t]

\* The rows of D are on the lists of their topics, in the order of their numbers.
Linked(e, D, ord) ==
  /\ \A q, r \in D : ord[q] = ord[r] => q = r
  /\ \A r \in D : IsNext(e.topic_ids, D, ord, r, e.next[r])
  /\ \A r \in D : IsPrev(e.topic_ids, D, ord, r, e.prev[r])
  /\ \A id \in Topics : IsHead(e.topic_ids, D, ord, id, e.heads[id])
  /\ \A id \in Topics : IsTail(e.topic_ids, D, ord, id, e.tails[id])

\* The types of the columns of links.
LinkTypes(e) ==
  /\ e.topic_ids \in TopicColumns
  /\ e.next \in [Rows -> Links] /\ e.prev \in [Rows -> Links]
  /\ e.heads \in [Topics -> Links] /\ e.tails \in [Topics -> Links]

\* The links of a row point both ways.
Mutual(e, D, r) ==
  /\ e.next[r] # NoLink => e.next[r] \in D /\ e.prev[e.next[r]] = r
  /\ e.prev[r] # NoLink => e.prev[r] \in D /\ e.next[e.prev[r]] = r
  /\ e.next[r] = NoLink <=> e.tails[e.topic_ids[r]] = r
  /\ e.prev[r] = NoLink <=> e.heads[e.topic_ids[r]] = r

\* A row is the next of its previous row and the previous of its next one.
LEMMA LinksAreMutual ==
  ASSUME NEW e, NEW D \in SUBSET Rows, NEW ord \in Orders, Linked(e, D, ord),
         LinkTypes(e), NEW r \in D
  PROVE  Mutual(e, D, r)
<1>1. e.topic_ids[r] \in Topics /\ \A q \in D : ord[q] \in Nat
  BY DEF LinkTypes, TopicColumns, Orders
<1>2. NoLink \notin D
  BY DEF NoLink, Rows
<1>3. ASSUME e.next[r] # NoLink PROVE e.next[r] \in D /\ e.prev[e.next[r]] = r
  <2>1. PICK n \in D : n = e.next[r]
    BY <1>3 DEF Linked, IsNext
  <2>2. /\ IsNext(e.topic_ids, D, ord, r, n) /\ n # NoLink
        /\ IsPrev(e.topic_ids, D, ord, n, e.prev[n])
    BY <1>2, <2>1 DEF Linked
  <2>3. e.prev[n] # NoLink
    BY <1>1, <2>2 DEF IsNext, IsPrev
  <2>4. ord[e.prev[n]] = ord[r] /\ e.prev[n] \in D
    BY <1>1, <2>2, <2>3 DEF IsNext, IsPrev
  <2> QED
    BY <2>1, <2>4 DEF Linked
<1>4. ASSUME e.prev[r] # NoLink PROVE e.prev[r] \in D /\ e.next[e.prev[r]] = r
  <2>1. PICK p \in D : p = e.prev[r]
    BY <1>4 DEF Linked, IsPrev
  <2>2. /\ IsPrev(e.topic_ids, D, ord, r, p) /\ p # NoLink
        /\ IsNext(e.topic_ids, D, ord, p, e.next[p])
    BY <1>2, <2>1 DEF Linked
  <2>3. e.next[p] # NoLink
    BY <1>1, <2>2 DEF IsNext, IsPrev
  <2>4. ord[e.next[p]] = ord[r] /\ e.next[p] \in D
    BY <1>1, <2>2, <2>3 DEF IsNext, IsPrev
  <2> QED
    BY <2>1, <2>4 DEF Linked
<1>5. e.next[r] = NoLink <=> e.tails[e.topic_ids[r]] = r
  <2>1. PICK t, n : t = e.tails[e.topic_ids[r]] /\ n = e.next[r]
    OBVIOUS
  <2>2. IsTail(e.topic_ids, D, ord, e.topic_ids[r], t) /\ IsNext(e.topic_ids, D, ord, r, n)
    BY <1>1, <2>1 DEF Linked
  <2>3. t # NoLink /\ t \in D
    BY <2>2 DEF IsTail
  <2>4. ASSUME n = NoLink PROVE ord[t] = ord[r]
    BY <1>1, <2>2, <2>3, <2>4 DEF IsTail, IsNext
  <2>5. ASSUME t = r PROVE n = NoLink
    BY <1>1, <2>2, <2>3, <2>5 DEF IsTail, IsNext
  <2> QED
    BY <2>1, <2>3, <2>4, <2>5 DEF Linked
<1>6. e.prev[r] = NoLink <=> e.heads[e.topic_ids[r]] = r
  <2>1. PICK t, n : t = e.heads[e.topic_ids[r]] /\ n = e.prev[r]
    OBVIOUS
  <2>2. IsHead(e.topic_ids, D, ord, e.topic_ids[r], t) /\ IsPrev(e.topic_ids, D, ord, r, n)
    BY <1>1, <2>1 DEF Linked
  <2>3. t # NoLink /\ t \in D
    BY <2>2 DEF IsHead
  <2>4. ASSUME n = NoLink PROVE ord[t] = ord[r]
    BY <1>1, <2>2, <2>3, <2>4 DEF IsHead, IsPrev
  <2>5. ASSUME t = r PROVE n = NoLink
    BY <1>1, <2>2, <2>3, <2>5 DEF IsHead, IsPrev
  <2> QED
    BY <2>1, <2>3, <2>4, <2>5 DEF Linked
<1> QED
  BY <1>3, <1>4, <1>5, <1>6 DEF Mutual

\* A function with a value replaced, unless the place is NoLink.
Put(f, i, x) == IF i = NoLink THEN f ELSE [f EXCEPT ![i] = x]
PutIf(b, f, i, x) == IF b THEN [f EXCEPT ![i] = x] ELSE f

\* The links after a row with the given number is put at the tail of its list.
Appended(e, d, row, id) ==
  LET tail == e.tails[id]
  IN  /\ d.topic_ids = [e.topic_ids EXCEPT ![row] = id]
      /\ d.next = Put([e.next EXCEPT ![row] = NoLink], tail, row)
      /\ d.prev = [e.prev EXCEPT ![row] = tail]
      /\ d.tails = [e.tails EXCEPT ![id] = row]
      /\ d.heads = PutIf(tail = NoLink, e.heads, id, row)

\* A row appended at the tail extends its topic's list and no other.
LEMMA AppendLinked ==
  ASSUME NEW e, NEW d, NEW D \in SUBSET Rows, NEW ord \in Orders, Linked(e, D, ord),
         LinkTypes(e), NEW row \in Rows, row \notin D, NEW id \in Topics,
         NEW top \in Nat, \A r \in D : ord[r] < top, Appended(e, d, row, id)
  PROVE  Linked(d, D \cup {row}, [ord EXCEPT ![row] = top])
<1> DEFINE E == D \cup {row}
           new == [ord EXCEPT ![row] = top]
<1>1. \A q \in D : ord[q] \in Nat /\ q # row /\ q \in Rows
  BY DEF Orders
<1>2. new[row] = top /\ \A q \in D : new[q] = ord[q] /\ new[q] < top
  BY <1>1 DEF Orders
<1>3. d.topic_ids[row] = id /\ \A q \in D : d.topic_ids[q] = e.topic_ids[q]
  BY <1>1 DEF Appended, LinkTypes, TopicColumns
<1>4. PICK tail : tail = e.tails[id] /\ IsTail(e.topic_ids, D, ord, id, tail) /\ tail # row
  BY DEF Linked, IsTail, NoLink, Rows
<1>5. /\ d.prev[row] = tail /\ d.next[row] = NoLink
      /\ \A q \in D : d.prev[q] = e.prev[q]
      /\ \A q \in D : d.next[q] = IF q = tail THEN row ELSE e.next[q]
  <2>1. [e.next EXCEPT ![row] = NoLink] \in [Rows -> Links]
    BY DEF LinkTypes, Links
  <2>2. tail # NoLink => tail \in Rows
    BY <1>4 DEF IsTail
  <2>3. d.prev[row] = tail /\ \A q \in D : d.prev[q] = e.prev[q]
    BY <1>1, <1>4 DEF Appended, LinkTypes
  <2>4. PICK f \in [Rows -> Links] :
          /\ f = [e.next EXCEPT ![row] = NoLink] /\ d.next = Put(f, tail, row)
          /\ f[row] = NoLink /\ \A q \in D : f[q] = e.next[q]
    BY <1>1, <1>4, <2>1 DEF Appended, LinkTypes
  <2>5. \A q \in Rows : d.next[q] = IF q = tail THEN row ELSE f[q]
    <3>1. NoLink \notin Rows
      BY DEF NoLink, Rows
    <3> QED
      BY <2>2, <2>4, <3>1 DEF Put
  <2> QED
    BY <1>1, <1>4, <2>3, <2>4, <2>5
<1>6. /\ d.tails[id] = row /\ \A i \in Topics \ {id} : d.tails[i] = e.tails[i]
      /\ d.heads[id] = (IF tail = NoLink THEN row ELSE e.heads[id])
      /\ \A i \in Topics \ {id} : d.heads[i] = e.heads[i]
  BY <1>4 DEF Appended, PutIf, LinkTypes
<1> HIDE DEF new
<1>7. ASSUME NEW q \in E, NEW r \in E, new[q] = new[r] PROVE q = r
  BY <1>1, <1>2, <1>7 DEF Linked
<1>8. ASSUME NEW r \in E PROVE IsNext(d.topic_ids, E, new, r, d.next[r])
  <2>1. CASE r = row
    BY <1>1, <1>2, <1>5, <2>1 DEF IsNext
  <2>2. CASE r # row /\ r = tail
    <3>1. r \in D /\ d.next[r] = row /\ row # NoLink /\ e.topic_ids[r] = id
          /\ \A q \in D : e.topic_ids[q] = id => ord[q] <= ord[r]
      BY <1>4, <1>5, <2>2 DEF IsTail, NoLink, Rows
    <3> QED
      BY <1>1, <1>2, <1>3, <3>1 DEF IsNext
  <2>3. CASE r # row /\ r # tail
    <3>1. r \in D /\ d.next[r] = e.next[r] /\ IsNext(e.topic_ids, D, ord, r, e.next[r])
      BY <1>5, <2>3 DEF Linked
    <3>2. e.next[r] = NoLink => e.topic_ids[r] # id
      <4>1. SUFFICES ASSUME e.next[r] = NoLink, e.topic_ids[r] = id PROVE FALSE
        OBVIOUS
      <4>2. e.tails[e.topic_ids[r]] = r
        BY <3>1, <4>1, LinksAreMutual DEF Mutual
      <4> QED
        BY <1>4, <2>3, <4>1, <4>2
    <3>3. CASE e.next[r] = NoLink
      BY <1>1, <1>2, <1>3, <3>1, <3>2, <3>3 DEF IsNext
    <3>4. CASE e.next[r] # NoLink
      BY <1>1, <1>2, <1>3, <3>1, <3>4 DEF IsNext
    <3> QED
      BY <3>3, <3>4
  <2> QED
    BY <2>1, <2>2, <2>3
<1>9. ASSUME NEW r \in E PROVE IsPrev(d.topic_ids, E, new, r, d.prev[r])
  <2>1. CASE r = row
    <3>1. CASE tail = NoLink
      BY <1>1, <1>2, <1>3, <1>4, <1>5, <2>1, <3>1 DEF IsPrev, IsTail
    <3>2. CASE tail # NoLink
      BY <1>1, <1>2, <1>3, <1>4, <1>5, <2>1, <3>2 DEF IsPrev, IsTail
    <3> QED
      BY <3>1, <3>2
  <2>2. CASE r \in D
    <3>1. d.prev[r] = e.prev[r] /\ IsPrev(e.topic_ids, D, ord, r, e.prev[r])
      BY <1>5, <2>2 DEF Linked
    <3> QED
      BY <1>1, <1>2, <1>3, <2>2, <3>1 DEF IsPrev
  <2> QED
    BY <2>1, <2>2
<1>10. ASSUME NEW i \in Topics PROVE IsHead(d.topic_ids, E, new, i, d.heads[i])
  <2>1. IsHead(e.topic_ids, D, ord, i, e.heads[i]) /\ IsHead(e.topic_ids, D, ord, id, e.heads[id])
    BY DEF Linked
  <2>2. CASE i = id /\ tail = NoLink
    BY <1>1, <1>2, <1>3, <1>4, <1>6, <2>2 DEF IsHead, IsTail, NoLink, Rows
  <2>3. CASE i = id /\ tail # NoLink
    <3>1. d.heads[i] = e.heads[i] /\ e.heads[i] # NoLink
      BY <1>4, <1>6, <2>1, <2>3 DEF IsHead, IsTail
    <3> QED
      BY <1>1, <1>2, <1>3, <2>1, <2>3, <3>1 DEF IsHead
  <2>4. CASE i # id
    BY <1>1, <1>2, <1>3, <1>6, <2>1, <2>4 DEF IsHead
  <2> QED
    BY <2>2, <2>3, <2>4
<1>11. ASSUME NEW i \in Topics PROVE IsTail(d.topic_ids, E, new, i, d.tails[i])
  <2>1. CASE i = id
    <3>1. row # NoLink
      BY DEF NoLink, Rows
    <3> QED
      BY <1>1, <1>2, <1>3, <1>6, <2>1, <3>1 DEF IsTail
  <2>2. CASE i # id
    <3>1. IsTail(e.topic_ids, D, ord, i, e.tails[i])
      BY DEF Linked
    <3> QED
      BY <1>1, <1>2, <1>3, <1>6, <2>2, <3>1 DEF IsTail
  <2> QED
    BY <2>1, <2>2
<1> HIDE DEF E
<1>12. Linked(d, E, new)
  BY <1>7, <1>8, <1>9, <1>10, <1>11, Zenon DEF Linked
<1> QED
  BY <1>12 DEF E, new

\* The links after the neighbours of a row are joined.
Unlinked(e, d, row) ==
  LET id == e.topic_ids[row]
      p == e.prev[row]
      n == e.next[row]
  IN  /\ d.topic_ids = e.topic_ids
      /\ d.next = Put(e.next, p, n) /\ d.heads = PutIf(p = NoLink, e.heads, id, n)
      /\ d.prev = Put(e.prev, n, p) /\ d.tails = PutIf(n = NoLink, e.tails, id, p)

\* What Put does to a column.
LEMMA PutFacts ==
  ASSUME NEW f \in [Rows -> Links], NEW i \in Links, NEW x
  PROVE  \A q \in Rows : Put(f, i, x)[q] = IF q = i THEN x ELSE f[q]
  BY DEF Put, Links, NoLink, Rows

\* Unlinking a row takes it out of its topic's list and leaves the rest in order.
LEMMA UnlinkLinked ==
  ASSUME NEW e, NEW d, NEW D \in SUBSET Rows, NEW ord \in Orders, Linked(e, D, ord),
         LinkTypes(e), NEW row \in D, Unlinked(e, d, row)
  PROVE  Linked(d, D \ {row}, ord)
<1>1. \A q \in D : ord[q] \in Nat /\ q \in Rows
  BY DEF Orders
<1>2. PICK id \in Topics : id = e.topic_ids[row]
  BY DEF LinkTypes, TopicColumns
<1>3. PICK p \in Links, n \in Links : p = e.prev[row] /\ n = e.next[row]
  BY DEF LinkTypes
<1>4. /\ IsNext(e.topic_ids, D, ord, row, n) /\ IsPrev(e.topic_ids, D, ord, row, p)
      /\ n # row /\ p # row /\ (n # NoLink => n \in D) /\ (p # NoLink => p \in D)
  <2>1. IsNext(e.topic_ids, D, ord, row, n) /\ IsPrev(e.topic_ids, D, ord, row, p)
    BY <1>3 DEF Linked
  <2>2. row # NoLink
    BY DEF NoLink, Rows
  <2>3. n # row /\ (n # NoLink => n \in D)
    BY <1>1, <2>1, <2>2 DEF IsNext
  <2>4. p # row /\ (p # NoLink => p \in D)
    BY <1>1, <2>1, <2>2 DEF IsPrev
  <2> QED
    BY <2>1, <2>3, <2>4
<1>5. d.topic_ids = e.topic_ids
  BY DEF Unlinked
<1>6. \A q \in Rows : /\ d.next[q] = IF q = p THEN n ELSE e.next[q]
                      /\ d.prev[q] = IF q = n THEN p ELSE e.prev[q]
  BY <1>3, PutFacts DEF Unlinked, LinkTypes
<1>7. \A i \in Topics : /\ d.heads[i] = IF p = NoLink /\ i = id THEN n ELSE e.heads[i]
                        /\ d.tails[i] = IF n = NoLink /\ i = id THEN p ELSE e.tails[i]
  <2>1. /\ d.heads = IF p = NoLink THEN [e.heads EXCEPT ![id] = n] ELSE e.heads
        /\ d.tails = IF n = NoLink THEN [e.tails EXCEPT ![id] = p] ELSE e.tails
    BY <1>2, <1>3 DEF Unlinked, PutIf
  <2> QED
    BY <1>2, <2>1 DEF LinkTypes
<1> DEFINE E == D \ {row}
<1>8. \A q, r \in E : ord[q] = ord[r] => q = r
  BY DEF Linked
<1>9. ASSUME NEW r \in E PROVE IsNext(d.topic_ids, E, ord, r, d.next[r])
  <2>1. IsNext(e.topic_ids, D, ord, r, e.next[r]) /\ r \in D /\ r # row
    BY DEF Linked
  <2>2. CASE r = p
    <3>1. p # NoLink /\ d.next[r] = n /\ e.topic_ids[r] = e.topic_ids[row] /\ ord[r] < ord[row]
      BY <1>1, <1>4, <1>6, <2>1, <2>2 DEF IsPrev, NoLink, Rows
    <3>2. \A q \in D : e.topic_ids[q] = e.topic_ids[r] => ord[row] <= ord[q] \/ ord[q] <= ord[r]
      BY <1>4, <2>2, <3>1 DEF IsPrev
    <3>3. \A q \in E : ord[q] # ord[row]
      BY DEF Linked
    <3>4. CASE n = NoLink
      BY <1>1, <1>4, <1>5, <3>1, <3>2, <3>3, <3>4 DEF IsNext
    <3>5. CASE n # NoLink
      BY <1>1, <1>4, <1>5, <3>1, <3>2, <3>3, <3>5 DEF IsNext
    <3> QED
      BY <3>4, <3>5
  <2>3. CASE r # p
    <3>1. d.next[r] = e.next[r]
      BY <1>1, <1>6, <2>1, <2>3
    <3>2. e.next[r] # row
      <4>1. SUFFICES ASSUME e.next[r] = row PROVE FALSE
        OBVIOUS
      <4>2. e.prev[row] = r
        BY <2>1, <4>1, LinksAreMutual DEF Mutual, NoLink, Rows
      <4> QED
        BY <1>3, <2>3, <4>2
    <3> QED
      BY <1>1, <1>5, <2>1, <3>1, <3>2 DEF IsNext
  <2> QED
    BY <2>2, <2>3
<1>10. ASSUME NEW r \in E PROVE IsPrev(d.topic_ids, E, ord, r, d.prev[r])
  <2>1. IsPrev(e.topic_ids, D, ord, r, e.prev[r]) /\ r \in D /\ r # row
    BY DEF Linked
  <2>2. CASE r = n
    <3>1. n # NoLink /\ d.prev[r] = p /\ e.topic_ids[r] = e.topic_ids[row] /\ ord[row] < ord[r]
      BY <1>1, <1>4, <1>6, <2>1, <2>2 DEF IsNext, NoLink, Rows
    <3>2. \A q \in D : e.topic_ids[q] = e.topic_ids[r] => ord[q] <= ord[row] \/ ord[r] <= ord[q]
      BY <1>4, <2>2, <3>1 DEF IsNext
    <3>3. \A q \in E : ord[q] # ord[row]
      BY DEF Linked
    <3>4. CASE p = NoLink
      BY <1>1, <1>4, <1>5, <3>1, <3>2, <3>3, <3>4 DEF IsPrev
    <3>5. CASE p # NoLink
      BY <1>1, <1>4, <1>5, <3>1, <3>2, <3>3, <3>5 DEF IsPrev
    <3> QED
      BY <3>4, <3>5
  <2>3. CASE r # n
    <3>1. d.prev[r] = e.prev[r]
      BY <1>1, <1>6, <2>1, <2>3
    <3>2. e.prev[r] # row
      <4>1. SUFFICES ASSUME e.prev[r] = row PROVE FALSE
        OBVIOUS
      <4>2. e.next[row] = r
        BY <2>1, <4>1, LinksAreMutual DEF Mutual, NoLink, Rows
      <4> QED
        BY <1>3, <2>3, <4>2
    <3> QED
      BY <1>1, <1>5, <2>1, <3>1, <3>2 DEF IsPrev
  <2> QED
    BY <2>2, <2>3
<1>11. ASSUME NEW i \in Topics PROVE IsHead(d.topic_ids, E, ord, i, d.heads[i])
  <2>1. IsHead(e.topic_ids, D, ord, i, e.heads[i])
    BY DEF Linked
  <2>2. CASE p = NoLink /\ i = id
    <3>1. d.heads[i] = n /\ \A q \in E : ord[q] # ord[row]
      BY <1>7, <2>2 DEF Linked
    <3>2. CASE n = NoLink
      BY <1>1, <1>2, <1>4, <1>5, <2>2, <3>1, <3>2 DEF IsHead, IsPrev, IsNext
    <3>3. CASE n # NoLink
      BY <1>1, <1>2, <1>4, <1>5, <2>2, <3>1, <3>3 DEF IsHead, IsPrev, IsNext
    <3> QED
      BY <3>2, <3>3
  <2>3. CASE ~(p = NoLink /\ i = id)
    <3>1. d.heads[i] = e.heads[i]
      BY <1>7, <2>3
    <3>2. e.heads[i] # row
      <4>1. SUFFICES ASSUME e.heads[i] = row PROVE FALSE
        OBVIOUS
      <4>2. i = id
        BY <1>2, <2>1, <4>1 DEF IsHead, NoLink, Rows
      <4>3. e.prev[row] = NoLink
        BY <1>2, <4>1, <4>2, LinksAreMutual DEF Mutual
      <4> QED
        BY <1>3, <2>3, <4>2, <4>3
    <3> QED
      BY <1>1, <1>5, <2>1, <3>1, <3>2 DEF IsHead
  <2> QED
    BY <2>2, <2>3
<1>12. ASSUME NEW i \in Topics PROVE IsTail(d.topic_ids, E, ord, i, d.tails[i])
  <2>1. IsTail(e.topic_ids, D, ord, i, e.tails[i])
    BY DEF Linked
  <2>2. CASE n = NoLink /\ i = id
    <3>1. d.tails[i] = p /\ \A q \in E : ord[q] # ord[row]
      BY <1>7, <2>2 DEF Linked
    <3>2. CASE p = NoLink
      BY <1>1, <1>2, <1>4, <1>5, <2>2, <3>1, <3>2 DEF IsTail, IsPrev, IsNext
    <3>3. CASE p # NoLink
      BY <1>1, <1>2, <1>4, <1>5, <2>2, <3>1, <3>3 DEF IsTail, IsPrev, IsNext
    <3> QED
      BY <3>2, <3>3
  <2>3. CASE ~(n = NoLink /\ i = id)
    <3>1. d.tails[i] = e.tails[i]
      BY <1>7, <2>3
    <3>2. e.tails[i] # row
      <4>1. SUFFICES ASSUME e.tails[i] = row PROVE FALSE
        OBVIOUS
      <4>2. i = id
        BY <1>2, <2>1, <4>1 DEF IsTail, NoLink, Rows
      <4>3. e.next[row] = NoLink
        BY <1>2, <4>1, <4>2, LinksAreMutual DEF Mutual
      <4> QED
        BY <1>3, <2>3, <4>2, <4>3
    <3> QED
      BY <1>1, <1>5, <2>1, <3>1, <3>2 DEF IsTail
  <2> QED
    BY <2>2, <2>3
<1> HIDE DEF E
<1>13. Linked(d, E, ord)
  BY <1>8, <1>9, <1>10, <1>11, <1>12, Zenon DEF Linked
<1> QED
  BY <1>13 DEF E

\* The links after a row is copied to another place and its neighbours follow it.
Moved(e, d, from, to) ==
  LET id == e.topic_ids[from]
      p == e.prev[from]
      n == e.next[from]
  IN  /\ d.topic_ids = [e.topic_ids EXCEPT ![to] = id]
      /\ d.next = Put([e.next EXCEPT ![to] = n], p, to)
      /\ d.prev = Put([e.prev EXCEPT ![to] = p], n, to)
      /\ d.heads = PutIf(p = NoLink, e.heads, id, to)
      /\ d.tails = PutIf(n = NoLink, e.tails, id, to)

\* A row that moves keeps its place in its list once its neighbours follow it.
LEMMA MoveLinked ==
  ASSUME NEW e, NEW d, NEW D \in SUBSET Rows, NEW ord \in Orders, Linked(e, D, ord),
         LinkTypes(e), NEW from \in D, NEW to \in Rows, to \notin D, Moved(e, d, from, to)
  PROVE  Linked(d, (D \ {from}) \cup {to}, [ord EXCEPT ![to] = ord[from]])
<1> DEFINE new == [ord EXCEPT ![to] = ord[from]]
           E == (D \ {from}) \cup {to}
           \* where a row of D is now
           at(q) == IF q = from THEN to ELSE q
<1>1. \A q \in D : ord[q] \in Nat /\ q \in Rows /\ q # to
  BY DEF Orders
<1>2. PICK id \in Topics : id = e.topic_ids[from]
  BY DEF LinkTypes, TopicColumns
<1>3. PICK p \in Links, n \in Links : p = e.prev[from] /\ n = e.next[from]
  BY DEF LinkTypes
<1>4. /\ IsNext(e.topic_ids, D, ord, from, n) /\ IsPrev(e.topic_ids, D, ord, from, p)
      /\ n # from /\ p # from /\ (n # NoLink => n \in D) /\ (p # NoLink => p \in D)
      /\ n # to /\ p # to
  <2>1. IsNext(e.topic_ids, D, ord, from, n) /\ IsPrev(e.topic_ids, D, ord, from, p)
    BY <1>3 DEF Linked
  <2>2. to # NoLink /\ from # NoLink
    BY DEF NoLink, Rows
  <2>3. n # from /\ (n # NoLink => n \in D)
    BY <1>1, <2>1, <2>2 DEF IsNext
  <2>4. p # from /\ (p # NoLink => p \in D)
    BY <1>1, <2>1, <2>2 DEF IsPrev
  <2> QED
    BY <2>1, <2>2, <2>3, <2>4
<1>5. /\ d.topic_ids[to] = id /\ new[to] = ord[from]
      /\ \A q \in D : d.topic_ids[q] = e.topic_ids[q] /\ new[q] = ord[q]
  BY <1>1, <1>2 DEF Moved, LinkTypes, TopicColumns, Orders
<1>6. /\ d.next[to] = n /\ d.prev[to] = p
      /\ \A q \in D : /\ d.next[q] = IF q = p THEN to ELSE e.next[q]
                      /\ d.prev[q] = IF q = n THEN to ELSE e.prev[q]
  <2>1. PICK f \in [Rows -> Links], g \in [Rows -> Links] :
          /\ f = [e.next EXCEPT ![to] = n] /\ g = [e.prev EXCEPT ![to] = p]
          /\ d.next = Put(f, p, to) /\ d.prev = Put(g, n, to)
    BY <1>3 DEF Moved, LinkTypes
  <2>2. /\ f[to] = n /\ g[to] = p
        /\ \A q \in D : f[q] = e.next[q] /\ g[q] = e.prev[q]
    BY <1>1, <2>1 DEF LinkTypes
  <2>3. \A q \in Rows : /\ d.next[q] = IF q = p THEN to ELSE f[q]
                        /\ d.prev[q] = IF q = n THEN to ELSE g[q]
    BY <2>1, PutFacts
  <2> QED
    BY <1>1, <1>4, <2>2, <2>3
<1>7. \A i \in Topics : /\ d.heads[i] = IF p = NoLink /\ i = id THEN to ELSE e.heads[i]
                        /\ d.tails[i] = IF n = NoLink /\ i = id THEN to ELSE e.tails[i]
  <2>1. /\ d.heads = IF p = NoLink THEN [e.heads EXCEPT ![id] = to] ELSE e.heads
        /\ d.tails = IF n = NoLink THEN [e.tails EXCEPT ![id] = to] ELSE e.tails
    BY <1>2, <1>3 DEF Moved, PutIf
  <2> QED
    BY <1>2, <2>1 DEF LinkTypes
<1>8. /\ to # NoLink /\ from # NoLink
      /\ \A q \in D : /\ at(q) \in E /\ d.topic_ids[at(q)] = e.topic_ids[q]
                      /\ new[at(q)] = ord[q]
  BY <1>1, <1>2, <1>5 DEF NoLink, Rows
<1>9. \A r \in E : \E q \in D : r = at(q)
  OBVIOUS
<1>10. ASSUME NEW q \in D
       PROVE  /\ d.next[at(q)] = at(e.next[q]) /\ d.prev[at(q)] = at(e.prev[q])
  <2>1. Mutual(e, D, q) /\ Mutual(e, D, from)
    BY LinksAreMutual
  <2>2. e.next[q] = from => p = q
    BY <1>3, <1>8, <2>1 DEF Mutual
  <2>3. e.prev[q] = from => n = q
    BY <1>3, <1>8, <2>1 DEF Mutual
  <2>4. p = q => e.next[q] = from
    BY <1>1, <1>3, <1>4, <1>8, <2>1 DEF Mutual, NoLink, Rows
  <2>5. n = q => e.prev[q] = from
    BY <1>1, <1>3, <1>4, <1>8, <2>1 DEF Mutual, NoLink, Rows
  <2> QED
    BY <1>3, <1>4, <1>6, <2>2, <2>3, <2>4, <2>5
<1>11. ASSUME NEW i \in Topics
       PROVE  d.heads[i] = at(e.heads[i]) /\ d.tails[i] = at(e.tails[i])
  <2>1. IsHead(e.topic_ids, D, ord, i, e.heads[i]) /\ IsTail(e.topic_ids, D, ord, i, e.tails[i])
    BY DEF Linked
  <2>2. Mutual(e, D, from)
    BY LinksAreMutual
  <2>3. e.heads[i] = from <=> p = NoLink /\ i = id
    BY <1>2, <1>3, <1>8, <2>1, <2>2 DEF IsHead, Mutual
  <2>4. e.tails[i] = from <=> n = NoLink /\ i = id
    BY <1>2, <1>3, <1>8, <2>1, <2>2 DEF IsTail, Mutual
  <2> QED
    BY <1>7, <2>3, <2>4
<1> HIDE DEF new
<1>12. ASSUME NEW q \in E, NEW r \in E, new[q] = new[r] PROVE q = r
  BY <1>8, <1>9, <1>12 DEF Linked
<1>13. ASSUME NEW r \in E PROVE IsNext(d.topic_ids, E, new, r, d.next[r])
  <2>1. PICK q \in D : r = at(q)
    BY <1>9
  <2>2. d.next[r] = at(e.next[q]) /\ IsNext(e.topic_ids, D, ord, q, e.next[q])
    BY <1>10, <2>1 DEF Linked
  <2>3. CASE e.next[q] = NoLink
    BY <1>8, <1>9, <2>1, <2>2, <2>3 DEF IsNext
  <2>4. CASE e.next[q] # NoLink
    <3>1. PICK m \in D : m = e.next[q] /\ d.next[r] = at(m) /\ at(m) # NoLink
      BY <1>1, <1>8, <2>2, <2>4 DEF IsNext
    <3> QED
      BY <1>8, <1>9, <2>1, <2>2, <2>4, <3>1 DEF IsNext
  <2> QED
    BY <2>3, <2>4
<1>14. ASSUME NEW r \in E PROVE IsPrev(d.topic_ids, E, new, r, d.prev[r])
  <2>1. PICK q \in D : r = at(q)
    BY <1>9
  <2>2. d.prev[r] = at(e.prev[q]) /\ IsPrev(e.topic_ids, D, ord, q, e.prev[q])
    BY <1>10, <2>1 DEF Linked
  <2>3. CASE e.prev[q] = NoLink
    BY <1>8, <1>9, <2>1, <2>2, <2>3 DEF IsPrev
  <2>4. CASE e.prev[q] # NoLink
    <3>1. PICK m \in D : m = e.prev[q] /\ d.prev[r] = at(m) /\ at(m) # NoLink
      BY <1>1, <1>8, <2>2, <2>4 DEF IsPrev
    <3> QED
      BY <1>8, <1>9, <2>1, <2>2, <2>4, <3>1 DEF IsPrev
  <2> QED
    BY <2>3, <2>4
<1>15. ASSUME NEW i \in Topics PROVE IsHead(d.topic_ids, E, new, i, d.heads[i])
  <2>1. d.heads[i] = at(e.heads[i]) /\ IsHead(e.topic_ids, D, ord, i, e.heads[i])
    BY <1>11 DEF Linked
  <2>2. CASE e.heads[i] = NoLink
    BY <1>8, <1>9, <2>1, <2>2 DEF IsHead
  <2>3. CASE e.heads[i] # NoLink
    <3>1. PICK m \in D : m = e.heads[i] /\ d.heads[i] = at(m) /\ at(m) # NoLink
      BY <1>1, <1>8, <2>1, <2>3 DEF IsHead
    <3> QED
      BY <1>8, <1>9, <2>1, <2>3, <3>1 DEF IsHead
  <2> QED
    BY <2>2, <2>3
<1>16. ASSUME NEW i \in Topics PROVE IsTail(d.topic_ids, E, new, i, d.tails[i])
  <2>1. d.tails[i] = at(e.tails[i]) /\ IsTail(e.topic_ids, D, ord, i, e.tails[i])
    BY <1>11 DEF Linked
  <2>2. CASE e.tails[i] = NoLink
    BY <1>8, <1>9, <2>1, <2>2 DEF IsTail
  <2>3. CASE e.tails[i] # NoLink
    <3>1. PICK m \in D : m = e.tails[i] /\ d.tails[i] = at(m) /\ at(m) # NoLink
      BY <1>1, <1>8, <2>1, <2>3 DEF IsTail
    <3> QED
      BY <1>8, <1>9, <2>1, <2>3, <3>1 DEF IsTail
  <2> QED
    BY <2>2, <2>3
<1> HIDE DEF E
<1>17. Linked(d, E, new)
  BY <1>12, <1>13, <1>14, <1>15, <1>16, Zenon DEF Linked
<1> QED
  BY <1>17 DEF E, new

-----------------------------------------------------------------------------
(* What the registry keeps between calls.                                  *)

\* An id is active, on the free list, or past the high-water mark.
TopicsOK(e) ==
  /\ UnusedIds(e)
  /\ Distinct(e.free)
  /\ \A i \in 1 .. Len(e.free) : e.free[i] < e.high_water /\ e.names[e.free[i]] = Nobody
  /\ e.high_water = e.topic_count + Len(e.free)
  /\ \A i, j \in Topics : e.names[i] # Nobody /\ e.names[i] = e.names[j] => i = j

\* Rows past the last are cleared; a row belongs to an active topic.
RowsOK(e) ==
  /\ \A r \in Rows : r >= e.sub_count => e.sockets[r] = Nobody
  /\ \A r \in UsedRows(e) : e.names[e.topic_ids[r]] # Nobody
  /\ UniqueKeys(e.sockets, e.topic_ids, UsedRows(e))

DeadRows(e) == {r \in UsedRows(e) : e.sockets[r] = Nobody}

CountsOK(e) ==
  /\ \A id \in Topics : e.counts[id] = Cardinality(LiveRows(e, id))
  /\ e.retired = Cardinality(DeadRows(e))

Sound(e) ==
  /\ e \in Engines /\ TopicsOK(e) /\ TopicIndexOK(e)
  /\ RowsOK(e) /\ SubIndexOK(e) /\ CountsOK(e)

\* The used rows are numbered below top, in the order of the lists.
Ordered(e, ord, top) ==
  /\ ord \in Orders /\ top \in Nat /\ Linked(e, UsedRows(e), ord)
  /\ \A r \in UsedRows(e) : ord[r] < top

\* The live rows of a topic, as a set of used rows.
LEMMA LiveRowsAre ==
  ASSUME NEW e, NEW id
  PROVE  LiveRows(e, id) = {r \in UsedRows(e) : e.topic_ids[r] = id /\ e.sockets[r] # Nobody}
  BY DEF LiveRows, TopicRows, UsedRows

\* Subsets of the rows are finite.
LEMMA RowSetsFinite ==
  ASSUME NEW S \in SUBSET Rows
  PROVE  IsFiniteSet(S) /\ Cardinality(S) \in Nat /\ (Cardinality(S) = 0 <=> S = {})
<1>1. 0 \in Int /\ MaxSubs - 1 \in Int
  BY SizeFacts
<1>2. IsFiniteSet(Rows)
  BY <1>1, FS_Interval DEF Rows
<1>3. IsFiniteSet(S)
  BY <1>2, FS_Subset
<1> QED
  BY <1>3, FS_CardinalityType, FS_EmptySet

\* Live and dead rows are rows.
LEMMA SetOfRows ==
  ASSUME NEW e \in Engines, NEW id
  PROVE  LiveRows(e, id) \in SUBSET Rows /\ DeadRows(e) \in SUBSET Rows
  BY LiveRowsAre, UsedRowsType DEF DeadRows

\* The links of an engine are rows or NoLink.
LEMMA EnginesHaveLinkTypes ==
  ASSUME NEW e \in Engines
  PROVE  LinkTypes(e)
  BY DEF LinkTypes, Engines, TopicColumns

\* What the tables keep does not depend on the indexes.
LEMMA SameTablesKeep ==
  ASSUME NEW e, NEW d, SameTables(d, e)
  PROVE  /\ TopicsOK(e) => TopicsOK(d)
         /\ RowsOK(e) => RowsOK(d)
         /\ CountsOK(e) => CountsOK(d)
         /\ \A ord, top : Ordered(e, ord, top) => Ordered(d, ord, top)
         /\ UsedRows(d) = UsedRows(e)
<1>1. /\ d.names = e.names /\ d.free = e.free /\ d.high_water = e.high_water
      /\ d.topic_count = e.topic_count
      /\ d.sockets = e.sockets /\ d.topic_ids = e.topic_ids /\ d.sub_count = e.sub_count
      /\ d.counts = e.counts /\ d.retired = e.retired
      /\ d.heads = e.heads /\ d.tails = e.tails /\ d.next = e.next /\ d.prev = e.prev
  BY DEF SameTables, SameTopics, SameRows, SameCounts, SameLinks
<1>2. TopicsOK(e) => TopicsOK(d)
  BY <1>1, Zenon DEF TopicsOK, UnusedIds
<1>3. UsedRows(d) = UsedRows(e) /\ DeadRows(d) = DeadRows(e)
  BY <1>1 DEF UsedRows, DeadRows
<1>4. RowsOK(e) => RowsOK(d)
  BY <1>1, <1>3, Zenon DEF RowsOK
<1>5. CountsOK(e) => CountsOK(d)
  <2>1. \A id : LiveRows(d, id) = LiveRows(e, id)
    BY <1>1, <1>3, LiveRowsAre
  <2> QED
    BY <1>1, <1>3, <2>1 DEF CountsOK
<1>6. ASSUME NEW ord, NEW top, Ordered(e, ord, top) PROVE Ordered(d, ord, top)
  BY <1>1, <1>3, <1>6, Zenon DEF Ordered, Linked
<1> QED
  BY <1>2, <1>3, <1>4, <1>5, <1>6

\* What is known of topics depends on the topic fields only.
LEMMA SameTopicsKeep ==
  ASSUME NEW e, NEW d, SameTopics(d, e), SameTopicIndex(d, e)
  PROVE  /\ TopicsOK(e) => TopicsOK(d)
         /\ TopicIndexOK(e) => TopicIndexOK(d)
<1>1. /\ d.names = e.names /\ d.free = e.free /\ d.high_water = e.high_water
      /\ d.topic_count = e.topic_count /\ d.topic_index = e.topic_index
  BY DEF SameTopics, SameTopicIndex
<1>2. TopicsOK(e) => TopicsOK(d)
  BY <1>1, Zenon DEF TopicsOK, UnusedIds
<1>3. TopicIndexOK(e) => TopicIndexOK(d)
  BY <1>1 DEF TopicIndexOK
<1> QED
  BY <1>2, <1>3

\* Replacing an index by another one that agrees with the tables changes nothing else.
LEMMA SameTablesSound ==
  ASSUME NEW e, NEW d \in Engines, Sound(e), SameTables(d, e), TopicIndexOK(d), SubIndexOK(d)
  PROVE  Sound(d) /\ \A ord, top : Ordered(e, ord, top) => Ordered(d, ord, top)
  BY SameTablesKeep DEF Sound

\* Refreshing the topic index keeps a sound registry sound.
LEMMA FreshTopicsSound ==
  ASSUME NEW e, Sound(e), NEW d, d = fresh_topic_index(e)
  PROVE  /\ Sound(d) /\ SameTables(d, e)
         /\ \A ord, top : Ordered(e, ord, top) => Ordered(d, ord, top)
<1>1. e \in Engines /\ UnusedIds(e) /\ TopicIndexOK(e) /\ SubIndexOK(e)
  BY DEF Sound, TopicsOK
<1>2. PICK t \in TopicTables, n \in Int :
        d = WithTopicIndex(e, t, n) /\ TopicIndexed(t, e.names, Topics)
  BY <1>1, FreshTopics
<1>3. d \in Engines /\ SameTables(d, e) /\ SameSubIndex(d, e) /\ d.topic_index = t
  BY <1>1, <1>2, WithTopicIndexFacts
<1>4. TopicIndexOK(d)
  BY <1>2, <1>3 DEF TopicIndexOK, SameTables, SameTopics
<1>5. SubIndexOK(d)
  BY <1>1, <1>3 DEF SubIndexOK, SameTables, SameRows, SameSubIndex, UsedRows
<1> QED
  BY <1>3, <1>4, <1>5, SameTablesSound

\* Refreshing the subscription index keeps a sound registry sound.
LEMMA FreshSubsSound ==
  ASSUME NEW e, Sound(e), NEW d, d = fresh_sub_index(e)
  PROVE  /\ Sound(d) /\ SameTables(d, e)
         /\ \A ord, top : Ordered(e, ord, top) => Ordered(d, ord, top)
<1>1. e \in Engines /\ TopicIndexOK(e) /\ SubIndexOK(e)
  BY DEF Sound
<1>2. PICK t \in SubTables, n \in Int :
        /\ d = WithSubIndex(e, t, n)
        /\ SubIndexed(t, e.sockets, e.topic_ids, UsedRows(e))
  BY <1>1, FreshSubs
<1>3. d \in Engines /\ SameTables(d, e) /\ SameTopicIndex(d, e) /\ d.sub_index = t
  BY <1>1, <1>2, WithSubIndexFacts
<1>4. SubIndexOK(d)
  BY <1>2, <1>3 DEF SubIndexOK, SameTables, SameRows, UsedRows
<1>5. TopicIndexOK(d)
  BY <1>1, <1>3 DEF TopicIndexOK, SameTables, SameTopics, SameTopicIndex
<1> QED
  BY <1>3, <1>4, <1>5, SameTablesSound

-----------------------------------------------------------------------------
(* create_topic.                                                           *)

\* What Front and Last return.
LEMMA FrontFacts ==
  ASSUME NEW S, NEW list \in Seq(S), list # <<>>
  PROVE  /\ Front(list) \in Seq(S) /\ Len(Front(list)) = Len(list) - 1
         /\ \A i \in 1 .. Len(list) - 1 : Front(list)[i] = list[i]
         /\ Last(list) = list[Len(list)] /\ Last(list) \in S
         /\ Len(list) \in 1 .. Len(list)
<1>1. PICK n \in Nat \ {0} : n = Len(list)
  OBVIOUS
<1>2. /\ SubSeq(list, 1, n - 1) \in Seq(S) /\ Len(SubSeq(list, 1, n - 1)) = n - 1
      /\ \A i \in 1 .. n - 1 : SubSeq(list, 1, n - 1)[i] = list[i]
  BY <1>1
<1>3. n \in 1 .. n /\ list[n] \in S
  BY <1>1
<1> QED
  BY <1>1, <1>2, <1>3 DEF Front, Last

\* What create_topic takes: an id that no row and no name uses.
NewId(e) == IF e.free # <<>> THEN Last(e.free) ELSE e.high_water
NewFree(e) == IF e.free # <<>> THEN Front(e.free) ELSE e.free
NewHigh(e) == IF e.free # <<>> THEN e.high_water ELSE e.high_water + 1

\* The id get_or_create_topic takes is unused, and it is taken off the free list.
LEMMA NewIdFacts ==
  ASSUME NEW e, e \in Engines, TopicsOK(e), e.topic_count < MaxTopics
  PROVE  /\ NewId(e) \in Topics /\ e.names[NewId(e)] = Nobody
         /\ NewFree(e) \in Seq(Topics) /\ Distinct(NewFree(e))
         /\ \A i \in 1 .. Len(NewFree(e)) :
              /\ NewFree(e)[i] < NewHigh(e) /\ NewFree(e)[i] # NewId(e)
              /\ e.names[NewFree(e)[i]] = Nobody
         /\ NewHigh(e) \in 0 .. MaxTopics /\ NewId(e) < NewHigh(e)
         /\ e.high_water <= NewHigh(e)
         /\ NewHigh(e) = e.topic_count + 1 + Len(NewFree(e))
<1>1. /\ e.free \in Seq(Topics) /\ e.high_water \in 0 .. MaxTopics /\ e.topic_count \in Int
      /\ MaxTopics \in Nat
  BY SizeFacts DEF Engines
<1>2. /\ Distinct(e.free) /\ e.high_water = e.topic_count + Len(e.free) /\ UnusedIds(e)
      /\ \A i \in 1 .. Len(e.free) : e.free[i] < e.high_water /\ e.names[e.free[i]] = Nobody
  BY DEF TopicsOK
<1>3. CASE e.free = <<>>
  <2>1. Len(e.free) = 0 /\ NewFree(e) = e.free /\ NewId(e) = e.high_water
        /\ NewHigh(e) = e.high_water + 1
    BY <1>3 DEF NewFree, NewId, NewHigh
  <2>2. e.high_water \in Topics
    BY <1>1, <1>2, <2>1 DEF Topics
  <2>3. e.names[e.high_water] = Nobody
    BY <1>1, <1>2, <2>2 DEF UnusedIds
  <2> QED
    BY <1>1, <1>2, <2>1, <2>2, <2>3 DEF Topics
<1>4. CASE e.free # <<>>
  <2>1. PICK n \in Nat \ {0} : n = Len(e.free)
    BY <1>1, <1>4
  <2>2. PICK f : f = NewFree(e) /\ f = Front(e.free)
    BY <1>4 DEF NewFree
  <2>3. PICK id : id = NewId(e) /\ id = e.free[n] /\ id \in Topics
    BY <1>1, <1>4, <2>1, FrontFacts DEF NewId
  <2>4. f \in Seq(Topics) /\ Len(f) = n - 1 /\ \A i \in 1 .. n - 1 : f[i] = e.free[i]
    BY <1>1, <1>4, <2>1, <2>2, FrontFacts
  <2>5. NewHigh(e) = e.high_water
    BY <1>4 DEF NewHigh
  <2>6. n \in 1 .. n /\ \A i \in 1 .. n - 1 : i \in 1 .. n /\ i # n
    OBVIOUS
  <2>7. Distinct(f)
    BY <1>2, <2>1, <2>4, <2>6 DEF Distinct
  <2>8. \A i \in 1 .. n - 1 : f[i] # id /\ f[i] < e.high_water /\ e.names[f[i]] = Nobody
    BY <1>2, <2>1, <2>3, <2>4, <2>6, ZenonT(40) DEF Distinct
  <2>9. id < e.high_water /\ e.names[id] = Nobody
    BY <1>2, <2>1, <2>3, <2>6
  <2>10. e.high_water = e.topic_count + 1 + Len(f)
    <3>1. PICK h \in Nat, c \in Int : h = e.high_water /\ c = e.topic_count
      BY <1>1
    <3>2. h = c + n /\ h = c + 1 + (n - 1)
      BY <1>2, <2>1, <3>1
    <3> QED
      BY <2>4, <3>1, <3>2
  <2> QED
    BY <1>1, <2>2, <2>3, <2>4, <2>5, <2>7, <2>8, <2>9, <2>10
<1> QED
  BY <1>3, <1>4

\* The entries of an index depend on the active names only.
LEMMA TopicEntriesAgree ==
  ASSUME NEW names, NEW names2, NEW ids, NEW ids2,
         \A x : x \in ids /\ names[x] # Nobody <=> x \in ids2 /\ names2[x] # Nobody,
         \A x \in ids : names[x] # Nobody => names[x] = names2[x]
  PROVE  TopicEntries(names, ids) = TopicEntries(names2, ids2)
<1>1. {x \in ids : names[x] # Nobody} = {x \in ids2 : names2[x] # Nobody}
  OBVIOUS
<1>2. \A x \in {y \in ids : names[y] # Nobody} : names[x] = names2[x]
  OBVIOUS
<1> QED
  BY <1>1, <1>2 DEF TopicEntries

\* An id without a name has no rows, no subscribers and an empty list.
LEMMA InactiveIsEmpty ==
  ASSUME NEW e, Sound(e), NEW id \in Topics, e.names[id] = Nobody
  PROVE  /\ \A r \in UsedRows(e) : e.topic_ids[r] # id
         /\ e.counts[id] = 0
<1>1. \A r \in UsedRows(e) : e.topic_ids[r] # id
  BY DEF Sound, RowsOK
<1>2. LiveRows(e, id) = {}
  BY <1>1, LiveRowsAre
<1> QED
  BY <1>1, <1>2, FS_EmptySet DEF Sound, CountsOK

\* The record of create_topic before its index entry.
NewTopic(e, name) ==
  [e EXCEPT !.free = NewFree(e), !.high_water = NewHigh(e),
            !.names[NewId(e)] = name, !.counts[NewId(e)] = 0,
            !.heads[NewId(e)] = NoLink, !.tails[NewId(e)] = NoLink,
            !.topic_count = @ + 1]

\* The fields a new topic changes.
LEMMA NewTopicFields ==
  ASSUME NEW e \in Engines, TopicsOK(e), e.topic_count < MaxTopics, NEW name \in Names,
         NEW c, c = NewTopic(e, name)
  PROVE  /\ c \in Engines /\ SameRows(c, e) /\ SameTopicIndex(c, e) /\ SameSubIndex(c, e)
         /\ c.next = e.next /\ c.prev = e.prev
         /\ c.retired = e.retired /\ c.empty_topic_pending = e.empty_topic_pending
         /\ c.free = NewFree(e) /\ c.high_water = NewHigh(e)
         /\ c.names = [e.names EXCEPT ![NewId(e)] = name]
         /\ c.counts = [e.counts EXCEPT ![NewId(e)] = 0]
         /\ c.heads = [e.heads EXCEPT ![NewId(e)] = NoLink]
         /\ c.tails = [e.tails EXCEPT ![NewId(e)] = NoLink]
         /\ c.topic_count = e.topic_count + 1
<1>1. PICK id \in Topics, f \in Seq(Topics), h \in 0 .. MaxTopics :
        id = NewId(e) /\ f = NewFree(e) /\ h = NewHigh(e)
  BY NewIdFacts
<1>2. c = [e EXCEPT !.free = f, !.high_water = h, !.names[id] = name, !.counts[id] = 0,
                    !.heads[id] = NoLink, !.tails[id] = NoLink, !.topic_count = @ + 1]
  BY <1>1 DEF NewTopic
<1>3. PICK names2 \in [Topics -> Names \cup {Nobody}], counts2 \in [Topics -> Int],
           heads2 \in [Topics -> Links], tails2 \in [Topics -> Links], n \in Int :
        /\ names2 = [e.names EXCEPT ![id] = name] /\ counts2 = [e.counts EXCEPT ![id] = 0]
        /\ heads2 = [e.heads EXCEPT ![id] = NoLink] /\ tails2 = [e.tails EXCEPT ![id] = NoLink]
        /\ n = e.topic_count + 1
  <2>1. [e.names EXCEPT ![id] = name] \in [Topics -> Names \cup {Nobody}]
    BY DEF Engines
  <2>2. [e.counts EXCEPT ![id] = 0] \in [Topics -> Int] /\ e.topic_count + 1 \in Int
    BY DEF Engines
  <2>3. /\ [e.heads EXCEPT ![id] = NoLink] \in [Topics -> Links]
        /\ [e.tails EXCEPT ![id] = NoLink] \in [Topics -> Links]
    BY DEF Engines, Links
  <2> QED
    BY <2>1, <2>2, <2>3, Zenon
<1>4. PICK b : b = [e EXCEPT !.free = f, !.high_water = h, !.topic_count = n]
  OBVIOUS
<1>5. /\ b \in Engines /\ SameRows(b, e) /\ SameTopicIndex(b, e) /\ SameSubIndex(b, e)
      /\ b.next = e.next /\ b.prev = e.prev
      /\ b.retired = e.retired /\ b.empty_topic_pending = e.empty_topic_pending
      /\ b.free = f /\ b.high_water = h /\ b.topic_count = n
  BY <1>4 DEF Engines, SameRows, SameTopicIndex, SameSubIndex
<1>6. c = [b EXCEPT !.names = names2, !.counts = counts2, !.heads = heads2, !.tails = tails2]
  BY <1>2, <1>3, <1>4 DEF Engines
<1>7. /\ c \in Engines /\ SameRows(c, e) /\ SameTopicIndex(c, e) /\ SameSubIndex(c, e)
      /\ c.next = e.next /\ c.prev = e.prev
      /\ c.retired = e.retired /\ c.empty_topic_pending = e.empty_topic_pending
      /\ c.free = f /\ c.high_water = h /\ c.names = names2 /\ c.counts = counts2
      /\ c.heads = heads2 /\ c.tails = tails2 /\ c.topic_count = n
  BY <1>5, <1>6, ZenonT(40) DEF Engines, SameRows, SameTopicIndex, SameSubIndex
<1> QED
  BY <1>1, <1>3, <1>7

\* create_topic names a fresh id and leaves the rows alone.
LEMMA CreateTopicSound ==
  ASSUME NEW e, Sound(e), e.topic_count < MaxTopics,
         NEW name \in Names, \A i \in Topics : e.names[i] # name,
         NEW d, d = create_topic(e, name)
  PROVE  /\ Sound(d) /\ SameRows(d, e) /\ SameCounts(d, e)
         /\ NewId(e) \in Topics /\ e.names[NewId(e)] = Nobody
         /\ d.names = [e.names EXCEPT ![NewId(e)] = name]
         /\ \A ord, top : Ordered(e, ord, top) => Ordered(d, ord, top)
<1>1. e \in Engines /\ TopicsOK(e)
  BY DEF Sound
<1>2. PICK id \in Topics : id = NewId(e)
  BY <1>1, NewIdFacts
<1>3. e.names[id] = Nobody /\ e.counts[id] = 0 /\ \A r \in UsedRows(e) : e.topic_ids[r] # id
  BY <1>1, <1>2, NewIdFacts, InactiveIsEmpty
<1>4. PICK c : c = NewTopic(e, name)
  OBVIOUS
<1>5. /\ c \in Engines /\ SameRows(c, e) /\ SameTopicIndex(c, e) /\ SameSubIndex(c, e)
      /\ c.next = e.next /\ c.prev = e.prev
      /\ c.retired = e.retired /\ c.empty_topic_pending = e.empty_topic_pending
      /\ c.free = NewFree(e) /\ c.high_water = NewHigh(e)
      /\ c.names = [e.names EXCEPT ![id] = name]
      /\ c.counts = [e.counts EXCEPT ![id] = 0]
      /\ c.heads = [e.heads EXCEPT ![id] = NoLink]
      /\ c.tails = [e.tails EXCEPT ![id] = NoLink]
      /\ c.topic_count = e.topic_count + 1
  BY <1>1, <1>2, <1>4, NewTopicFields
<1>6. d = insert_topic_index(c, id)
  BY <1>2, <1>4, Zenon DEF create_topic, NewTopic, NewId, NewFree, NewHigh
<1>7. /\ c.names[id] = name /\ name # Nobody
      /\ \A i \in Topics : i # id => c.names[i] = e.names[i]
  <2>1. e.names \in [Topics -> Names \cup {Nobody}]
    BY <1>1 DEF Engines
  <2> QED
    BY <1>5, <2>1, NamesAssumption
<1>8. c.counts = e.counts
  <2>1. e.counts \in [Topics -> Int]
    BY <1>1 DEF Engines
  <2> QED
    BY <1>3, <1>5, <2>1
<1>9. UnusedIds(c) /\ TopicsOK(c)
  <2>1. /\ Distinct(c.free) /\ id < c.high_water /\ e.high_water <= c.high_water
        /\ c.high_water = c.topic_count + Len(c.free)
        /\ \A i \in 1 .. Len(c.free) :
             c.free[i] < c.high_water /\ c.free[i] # id /\ e.names[c.free[i]] = Nobody
        /\ c.free \in Seq(Topics) /\ c.high_water \in Nat /\ e.high_water \in Nat
    <3>1. c.high_water \in Nat /\ e.high_water \in Nat
      BY <1>1, <1>5, SizeFacts DEF Engines
    <3>2. /\ Distinct(c.free) /\ id < c.high_water /\ e.high_water <= c.high_water
          /\ c.high_water = c.topic_count + Len(c.free) /\ c.free \in Seq(Topics)
      BY <1>1, <1>2, <1>5, NewIdFacts
    <3>3. \A i \in 1 .. Len(c.free) :
            c.free[i] < c.high_water /\ c.free[i] # id /\ e.names[c.free[i]] = Nobody
      BY <1>1, <1>2, <1>5, NewIdFacts
    <3> QED
      BY <3>1, <3>2, <3>3
  <2>2. \A i \in 1 .. Len(c.free) : c.names[c.free[i]] = Nobody
    <3>1. \A i \in 1 .. Len(c.free) : c.free[i] \in Topics
      BY <2>1
    <3> QED
      BY <1>7, <2>1, <3>1
  <2>3. UnusedIds(c)
    <3>1. ASSUME NEW i \in Topics, i >= c.high_water PROVE c.names[i] = Nobody
      <4>1. i \in Nat /\ i >= e.high_water /\ i # id
        BY <2>1, <3>1, SizeFacts DEF Topics
      <4> QED
        BY <1>1, <1>7, <4>1 DEF TopicsOK, UnusedIds
    <3> QED
      BY <3>1 DEF UnusedIds
  <2>4. \A i, j \in Topics : c.names[i] # Nobody /\ c.names[i] = c.names[j] => i = j
    BY <1>1, <1>7 DEF TopicsOK
  <2> QED
    BY <2>1, <2>2, <2>3, <2>4 DEF TopicsOK
<1>10. TopicIndexed(c.topic_index, c.names, Topics \ {id})
  <2>1. TopicEntries(c.names, Topics \ {id}) = TopicEntries(e.names, Topics)
    <3>1. \A x : x \in Topics \ {id} /\ c.names[x] # Nobody <=> x \in Topics /\ e.names[x] # Nobody
      BY <1>3, <1>7
    <3>2. \A x \in Topics \ {id} : c.names[x] # Nobody => c.names[x] = e.names[x]
      BY <1>7
    <3> QED
      BY <3>1, <3>2, TopicEntriesAgree
  <2> QED
    BY <1>5, <2>1 DEF Sound, TopicIndexOK, TopicIndexed, SameTopicIndex
<1>11. PICK t \in TopicTables, n \in Int :
         d = WithTopicIndex(c, t, n) /\ TopicIndexed(t, c.names, Topics)
  BY <1>5, <1>6, <1>7, <1>9, <1>10, InsertTopic
<1>12. d \in Engines /\ SameTables(d, c) /\ SameSubIndex(d, c) /\ d.topic_index = t
  BY <1>5, <1>11, WithTopicIndexFacts
<1>13. UsedRows(c) = UsedRows(e) /\ c.sockets = e.sockets /\ c.topic_ids = e.topic_ids
       /\ c.sub_count = e.sub_count
  BY <1>5 DEF SameRows, UsedRows
<1>14. RowsOK(c)
  <2>1. \A r \in UsedRows(e) : c.names[e.topic_ids[r]] # Nobody
    <3>1. \A r \in UsedRows(e) : e.topic_ids[r] \in Topics /\ e.names[e.topic_ids[r]] # Nobody
      BY <1>1, UsedRowsType DEF Sound, RowsOK, Engines
    <3> QED
      BY <1>3, <1>7, <3>1
  <2> QED
    BY <1>13, <2>1 DEF Sound, RowsOK
<1>15. SubIndexOK(c)
  BY <1>5, <1>13 DEF Sound, SubIndexOK, SameSubIndex
<1>16. CountsOK(c)
  <2>1. \A i : LiveRows(c, i) = LiveRows(e, i)
    BY <1>13, LiveRowsAre
  <2>2. DeadRows(c) = DeadRows(e)
    BY <1>13 DEF DeadRows
  <2> QED
    BY <1>5, <1>8, <2>1, <2>2 DEF Sound, CountsOK
<1>17. ASSUME NEW ord, NEW top, Ordered(e, ord, top) PROVE Ordered(c, ord, top)
  <2>1. ASSUME NEW i \in Topics
        PROVE  /\ IsHead(c.topic_ids, UsedRows(c), ord, i, c.heads[i])
               /\ IsTail(c.topic_ids, UsedRows(c), ord, i, c.tails[i])
    <3>1. e.heads \in [Topics -> Links] /\ e.tails \in [Topics -> Links]
      BY <1>1 DEF Engines
    <3>2. CASE i = id
      BY <1>3, <1>5, <1>13, <3>1, <3>2 DEF IsHead, IsTail
    <3>3. CASE i # id
      <4>1. c.heads[i] = e.heads[i] /\ c.tails[i] = e.tails[i]
        BY <1>5, <3>1, <3>3
      <4> QED
        BY <1>13, <1>17, <4>1 DEF Ordered, Linked
    <3> QED
      BY <3>2, <3>3
  <2> QED
    BY <1>5, <1>13, <1>17, <2>1, Zenon DEF Ordered, Linked
<1>18. SubIndexOK(d) /\ TopicIndexOK(d)
  BY <1>11, <1>12, <1>15
     DEF SubIndexOK, TopicIndexOK, SameSubIndex, SameTables, SameRows, SameTopics, UsedRows
<1>19. /\ TopicsOK(d) /\ RowsOK(d) /\ CountsOK(d)
       /\ \A ord, top : Ordered(c, ord, top) => Ordered(d, ord, top)
  BY <1>9, <1>12, <1>14, <1>16, SameTablesKeep
<1>20. SameRows(d, e) /\ SameCounts(d, e) /\ d.names = c.names
  BY <1>5, <1>8, <1>12 DEF SameTables, SameRows, SameCounts, SameTopics
<1> QED
  BY <1>2, <1>3, <1>5, <1>12, <1>17, <1>18, <1>19, <1>20 DEF Sound

-----------------------------------------------------------------------------
(* append_row.                                                             *)

\* A record with the fields of the registry.
EngineShape(b) ==
  b = [names |-> b.names, counts |-> b.counts, heads |-> b.heads, tails |-> b.tails,
       free |-> b.free, high_water |-> b.high_water, topic_count |-> b.topic_count,
       sockets |-> b.sockets, topic_ids |-> b.topic_ids, next |-> b.next, prev |-> b.prev,
       sub_count |-> b.sub_count, retired |-> b.retired,
       empty_topic_pending |-> b.empty_topic_pending,
       topic_index |-> b.topic_index, topic_tombstones |-> b.topic_tombstones,
       sub_index |-> b.sub_index, sub_tombstones |-> b.sub_tombstones]

NewRowBase(e, s, id) ==
  [e EXCEPT !.sockets[e.sub_count] = s, !.topic_ids[e.sub_count] = id,
            !.next[e.sub_count] = NoLink, !.prev[e.sub_count] = e.tails[id],
            !.tails[id] = e.sub_count, !.sub_count = @ + 1, !.counts[id] = @ + 1]

RowBase(e, s, id, b) ==
  /\ b \in Engines /\ SameTopics(b, e) /\ SameTopicIndex(b, e) /\ SameSubIndex(b, e)
  /\ b.retired = e.retired /\ b.empty_topic_pending = e.empty_topic_pending
  /\ e.sub_count \in Rows /\ b.sub_count = e.sub_count + 1
  /\ b.sockets = [e.sockets EXCEPT ![e.sub_count] = s]
  /\ b.counts = [e.counts EXCEPT ![id] = @ + 1]
  /\ b.topic_ids = [e.topic_ids EXCEPT ![e.sub_count] = id]
  /\ b.next = [e.next EXCEPT ![e.sub_count] = NoLink]
  /\ b.prev = [e.prev EXCEPT ![e.sub_count] = e.tails[id]]
  /\ b.tails = [e.tails EXCEPT ![id] = e.sub_count]
  /\ b.heads = e.heads

\* append_row up to the link that points at the new row.
LEMMA NewRowBaseFields ==
  ASSUME NEW e \in Engines, e.sub_count < MaxSubs, NEW s \in Sockets, NEW id \in Topics,
         NEW b, b = NewRowBase(e, s, id)
  PROVE  RowBase(e, s, id, b)
<1>1. PICK row \in Rows : row = e.sub_count /\ row + 1 \in 0 .. MaxSubs
  BY SizeFacts DEF Engines, Rows
<1>2. PICK tail \in Links : tail = e.tails[id]
  BY DEF Engines
<1>3. b = [e EXCEPT !.sockets[row] = s, !.topic_ids[row] = id,
                    !.next[row] = NoLink, !.prev[row] = tail,
                    !.tails[id] = row, !.sub_count = @ + 1, !.counts[id] = @ + 1]
  BY <1>1, <1>2 DEF NewRowBase
<1>4. /\ SameTopics(b, e) /\ SameTopicIndex(b, e) /\ SameSubIndex(b, e)
      /\ b.retired = e.retired /\ b.empty_topic_pending = e.empty_topic_pending
      /\ b.sockets = [e.sockets EXCEPT ![row] = s]
      /\ b.counts = [e.counts EXCEPT ![id] = @ + 1]
      /\ b.topic_ids = [e.topic_ids EXCEPT ![row] = id]
      /\ b.next = [e.next EXCEPT ![row] = NoLink]
      /\ b.prev = [e.prev EXCEPT ![row] = tail]
      /\ b.tails = [e.tails EXCEPT ![id] = row]
      /\ b.heads = e.heads /\ b.sub_count = e.sub_count + 1
  BY <1>3 DEF Engines, SameTopics, SameTopicIndex, SameSubIndex
<1>5. b.sub_count \in 0 .. MaxSubs
  BY <1>1, <1>4
<1>6. b \in Engines
  <2>1. EngineShape(b)
    BY <1>3 DEF Engines, EngineShape
  <2>2. /\ b.sockets \in [Rows -> Sockets \cup {Nobody}] /\ b.topic_ids \in [Rows -> Topics]
        /\ b.counts \in [Topics -> Int]
    BY <1>4 DEF Engines
  <2>3. /\ b.next \in [Rows -> Links] /\ b.prev \in [Rows -> Links]
        /\ b.heads \in [Topics -> Links] /\ b.tails \in [Topics -> Links]
    BY <1>4 DEF Engines, Links
  <2>4. /\ b.names = e.names /\ b.free = e.free /\ b.high_water = e.high_water
        /\ b.topic_count = e.topic_count
        /\ b.topic_index = e.topic_index /\ b.topic_tombstones = e.topic_tombstones
        /\ b.sub_index = e.sub_index /\ b.sub_tombstones = e.sub_tombstones
        /\ b.retired = e.retired /\ b.empty_topic_pending = e.empty_topic_pending
    BY <1>4 DEF SameTopics, SameTopicIndex, SameSubIndex
  <2> QED
    BY <1>5, <2>1, <2>2, <2>3, <2>4 DEF Engines, EngineShape
<1> QED
  BY <1>1, <1>2, <1>4, <1>6 DEF RowBase

\* append_row before its index entry.
NewRow(e, s, id) ==
  IF e.tails[id] # NoLink THEN [NewRowBase(e, s, id) EXCEPT !.next[e.tails[id]] = e.sub_count]
  ELSE [NewRowBase(e, s, id) EXCEPT !.heads[id] = e.sub_count]

\* The fields a new row changes.
LEMMA NewRowFields ==
  ASSUME NEW e \in Engines, e.sub_count < MaxSubs, NEW s \in Sockets, NEW id \in Topics,
         NEW c, c = NewRow(e, s, id)
  PROVE  /\ c \in Engines /\ SameTopics(c, e) /\ SameTopicIndex(c, e) /\ SameSubIndex(c, e)
         /\ c.retired = e.retired /\ c.empty_topic_pending = e.empty_topic_pending
         /\ e.sub_count \in Rows /\ c.sub_count = e.sub_count + 1
         /\ c.sockets = [e.sockets EXCEPT ![e.sub_count] = s]
         /\ c.counts = [e.counts EXCEPT ![id] = @ + 1]
         /\ Appended(e, c, e.sub_count, id)
<1>1. PICK b : b = NewRowBase(e, s, id)
  OBVIOUS
<1>2. /\ b \in Engines /\ SameTopics(b, e) /\ SameTopicIndex(b, e) /\ SameSubIndex(b, e)
      /\ b.retired = e.retired /\ b.empty_topic_pending = e.empty_topic_pending
      /\ e.sub_count \in Rows /\ b.sub_count = e.sub_count + 1
      /\ b.sockets = [e.sockets EXCEPT ![e.sub_count] = s]
      /\ b.counts = [e.counts EXCEPT ![id] = @ + 1]
      /\ b.topic_ids = [e.topic_ids EXCEPT ![e.sub_count] = id]
      /\ b.next = [e.next EXCEPT ![e.sub_count] = NoLink]
      /\ b.prev = [e.prev EXCEPT ![e.sub_count] = e.tails[id]]
      /\ b.tails = [e.tails EXCEPT ![id] = e.sub_count]
      /\ b.heads = e.heads
  <2>1. RowBase(e, s, id, b)
    BY <1>1, NewRowBaseFields
  <2> QED
    BY <2>1, Zenon DEF RowBase
<1>3. PICK row \in Rows, tail \in Links : row = e.sub_count /\ tail = e.tails[id]
  BY <1>2 DEF Engines
<1>4. PICK next2 \in [Rows -> Links], heads2 \in [Topics -> Links] :
        next2 = Put(b.next, tail, row) /\ heads2 = PutIf(tail = NoLink, b.heads, id, row)
  <2>1. Put(b.next, tail, row) \in [Rows -> Links]
    BY <1>2 DEF Put, Links, Engines
  <2>2. PutIf(tail = NoLink, b.heads, id, row) \in [Topics -> Links]
    BY <1>2 DEF Engines, PutIf, Links
  <2> QED
    BY <2>1, <2>2, Zenon
<1>5. c = [b EXCEPT !.next = next2, !.heads = heads2]
  <2>1. b \in Engines
    BY <1>2
  <2>2. CASE tail # NoLink
    <3>1. c = [b EXCEPT !.next[tail] = row] /\ heads2 = b.heads
          /\ next2 = [b.next EXCEPT ![tail] = row]
      BY <1>1, <1>3, <1>4, <2>2 DEF Put, PutIf, NewRow
    <3> QED
      BY <2>1, <3>1 DEF Engines
  <2>3. CASE tail = NoLink
    <3>1. c = [b EXCEPT !.heads[id] = row] /\ next2 = b.next
          /\ heads2 = [b.heads EXCEPT ![id] = row]
      BY <1>1, <1>3, <1>4, <2>3 DEF Put, PutIf, NewRow
    <3> QED
      BY <2>1, <3>1 DEF Engines
  <2> QED
    BY <2>2, <2>3
<1>6. /\ c \in Engines /\ SameTopics(c, b) /\ SameRows(c, b) /\ SameCounts(c, b)
      /\ SameTopicIndex(c, b) /\ SameSubIndex(c, b)
      /\ c.prev = b.prev /\ c.tails = b.tails /\ c.next = next2 /\ c.heads = heads2
  <2>1. b \in Engines
    BY <1>2
  <2> QED
    BY <1>5, <2>1, ZenonT(40) DEF Engines, SameTopics, SameRows, SameCounts, SameTopicIndex, SameSubIndex
<1>7. Appended(e, c, row, id)
  BY <1>2, <1>3, <1>4, <1>6 DEF Appended, SameRows
<1>8. /\ SameTopics(c, e) /\ SameTopicIndex(c, e) /\ SameSubIndex(c, e)
      /\ c.retired = e.retired /\ c.empty_topic_pending = e.empty_topic_pending
      /\ c.sub_count = b.sub_count /\ c.sockets = b.sockets /\ c.counts = b.counts
  BY <1>2, <1>6 DEF SameTopics, SameRows, SameCounts, SameTopicIndex, SameSubIndex
<1> QED
  BY <1>2, <1>3, <1>6, <1>7, <1>8

\* One more live row of a topic.
LEMMA LiveRowAdded ==
  ASSUME NEW S \in SUBSET Rows, NEW row \in Rows, row \notin S
  PROVE  Cardinality(S \cup {row}) = Cardinality(S) + 1
  BY RowSetsFinite, FS_AddElement

RowAppended(e, ord, top, s, id, d) ==
  /\ Sound(d) /\ SameTopics(d, e)
  /\ d.retired = e.retired /\ d.empty_topic_pending = e.empty_topic_pending
  /\ e.sub_count \in Rows /\ d.sub_count = e.sub_count + 1
  /\ d.sockets = [e.sockets EXCEPT ![e.sub_count] = s]
  /\ d.topic_ids = [e.topic_ids EXCEPT ![e.sub_count] = id]
  /\ d.counts = [e.counts EXCEPT ![id] = @ + 1]
  /\ Ordered(d, [ord EXCEPT ![e.sub_count] = top], top + 1)

\* append_row adds one live row, numbered after all the others.
LEMMA AppendRowSound ==
  ASSUME NEW e, Sound(e), NEW ord, NEW top, Ordered(e, ord, top), e.sub_count < MaxSubs,
         NEW s \in Sockets, NEW id \in Topics, e.names[id] # Nobody,
         \A r \in UsedRows(e) : ~(e.sockets[r] = s /\ e.topic_ids[r] = id),
         NEW d, d = append_row(e, s, id)
  PROVE  RowAppended(e, ord, top, s, id, d)
<1>1. e \in Engines
  BY DEF Sound
<1>2. PICK c : c = NewRow(e, s, id)
  OBVIOUS
<1>3. PICK row \in Rows : row = e.sub_count
  BY <1>1, NewRowFields
<1>4. /\ c \in Engines /\ SameTopics(c, e) /\ SameTopicIndex(c, e) /\ SameSubIndex(c, e)
      /\ c.retired = e.retired /\ c.empty_topic_pending = e.empty_topic_pending
      /\ c.sub_count = row + 1
      /\ c.sockets = [e.sockets EXCEPT ![row] = s]
      /\ c.counts = [e.counts EXCEPT ![id] = @ + 1]
      /\ Appended(e, c, row, id)
  BY <1>1, <1>2, <1>3, NewRowFields
<1>5. d = insert_sub_index(c, s, id, row)
  BY <1>2, <1>3 DEF append_row, NewRow, NewRowBase
<1>6. /\ UsedRows(c) = UsedRows(e) \cup {row} /\ row \notin UsedRows(e)
      /\ UsedRows(e) \in SUBSET Rows /\ row \in UsedRows(c)
      /\ UsedRows(e) = UsedRows(c) \ {row}
  <2>1. row \in Nat
    BY SizeFacts DEF Rows
  <2> QED
    BY <1>1, <1>3, <1>4, <2>1, UsedRowsType DEF UsedRows
<1>7. c.topic_ids = [e.topic_ids EXCEPT ![row] = id]
  BY <1>4 DEF Appended
<1>8. /\ c.sockets[row] = s /\ c.topic_ids[row] = id /\ s # Nobody
      /\ \A r \in Rows \ {row} : c.sockets[r] = e.sockets[r] /\ c.topic_ids[r] = e.topic_ids[r]
  <2>1. e.sockets \in [Rows -> Sockets \cup {Nobody}] /\ e.topic_ids \in [Rows -> Topics]
    BY <1>1 DEF Engines
  <2> QED
    BY <1>4, <1>7, <2>1, NamesAssumption
<1>9. \A r \in UsedRows(e) : r \in Rows \ {row}
  BY <1>6
<1>10. TopicsOK(c) /\ TopicIndexOK(c) /\ c.names = e.names
  BY <1>4, SameTopicsKeep DEF Sound, SameTopics
<1>11. RowsOK(c)
  <2>1. ASSUME NEW r \in Rows, r >= c.sub_count PROVE c.sockets[r] = Nobody
    <3>1. r # row /\ r >= e.sub_count
      BY <1>3, <1>4, <2>1, SizeFacts DEF Rows
    <3> QED
      BY <1>8, <3>1 DEF Sound, RowsOK
  <2>2. \A r \in UsedRows(c) : c.names[c.topic_ids[r]] # Nobody
    BY <1>6, <1>8, <1>9, <1>10 DEF Sound, RowsOK
  <2>3. UniqueKeys(c.sockets, c.topic_ids, UsedRows(c))
    BY <1>6, <1>8, <1>9 DEF Sound, RowsOK, UniqueKeys
  <2> QED
    BY <2>1, <2>2, <2>3 DEF RowsOK
<1>12. CountsOK(c)
  <2>1. DeadRows(c) = DeadRows(e)
    BY <1>6, <1>8, <1>9 DEF DeadRows
  <2>2. LiveRows(c, id) = LiveRows(e, id) \cup {row} /\ row \notin LiveRows(e, id)
    BY <1>6, <1>8, <1>9, LiveRowsAre
  <2>3. \A i \in Topics : i # id => LiveRows(c, i) = LiveRows(e, i)
    BY <1>6, <1>8, <1>9, LiveRowsAre
  <2>4. Cardinality(LiveRows(c, id)) = Cardinality(LiveRows(e, id)) + 1
    BY <1>1, <2>2, SetOfRows, LiveRowAdded
  <2>5. e.counts \in [Topics -> Int]
    BY <1>1 DEF Engines
  <2>6. c.counts[id] = e.counts[id] + 1 /\ \A i \in Topics : i # id => c.counts[i] = e.counts[i]
    BY <1>4, <2>5
  <2> QED
    BY <1>4, <2>1, <2>3, <2>4, <2>6 DEF Sound, CountsOK
<1>13. SubIndexed(c.sub_index, c.sockets, c.topic_ids, UsedRows(c) \ {row})
  <2>1. SubEntries(c.sockets, c.topic_ids, UsedRows(e))
          = SubEntries(e.sockets, e.topic_ids, UsedRows(e))
    BY <1>8, <1>9, SubEntriesAgree
  <2> QED
    BY <1>4, <1>6, <2>1 DEF Sound, SubIndexOK, SubIndexed, SameSubIndex
<1>14. PICK t \in SubTables, n \in Int :
         /\ d = WithSubIndex(c, t, n)
         /\ SubIndexed(t, c.sockets, c.topic_ids, UsedRows(c))
  <2>1. d = insert_sub_index(c, c.sockets[row], c.topic_ids[row], row)
    BY <1>5, <1>8
  <2>2. c.sockets[row] # Nobody /\ row \in UsedRows(c) /\ c \in Engines
    BY <1>4, <1>6, <1>8
  <2> QED
    BY <1>13, <2>1, <2>2, InsertSub
<1>15. d \in Engines /\ SameTables(d, c) /\ SameTopicIndex(d, c) /\ d.sub_index = t
  BY <1>4, <1>14, WithSubIndexFacts
<1>16. SubIndexOK(d) /\ TopicIndexOK(d)
  BY <1>10, <1>14, <1>15
     DEF SubIndexOK, TopicIndexOK, SameTables, SameRows, SameTopics, SameTopicIndex, UsedRows
<1>17. Sound(d)
  BY <1>10, <1>11, <1>12, <1>15, <1>16, SameTablesKeep DEF Sound
<1>18. Ordered(c, [ord EXCEPT ![row] = top], top + 1)
  <2>1. /\ ord \in Orders /\ top \in Nat /\ Linked(e, UsedRows(e), ord)
        /\ \A r \in UsedRows(e) : ord[r] < top
    BY DEF Ordered
  <2>2. LinkTypes(e)
    BY <1>1, EnginesHaveLinkTypes
  <2>3. Linked(c, UsedRows(e) \cup {row}, [ord EXCEPT ![row] = top])
    BY <1>4, <1>6, <2>1, <2>2, AppendLinked
  <2>4. PICK new : new = [ord EXCEPT ![row] = top]
    OBVIOUS
  <2>5. /\ new \in Orders /\ new[row] = top
        /\ \A r \in UsedRows(e) : new[r] = ord[r] /\ ord[r] \in Nat
    BY <1>9, <2>1, <2>4 DEF Orders
  <2>6. \A r \in UsedRows(c) : new[r] < top + 1
    BY <1>6, <2>1, <2>5
  <2> QED
    BY <1>6, <2>1, <2>3, <2>4, <2>5, <2>6 DEF Ordered
<1>19. Ordered(d, [ord EXCEPT ![row] = top], top + 1)
  BY <1>15, <1>18, SameTablesKeep
<1>20. /\ SameTopics(d, e) /\ d.retired = e.retired
       /\ d.empty_topic_pending = e.empty_topic_pending
       /\ d.sub_count = row + 1 /\ d.sockets = c.sockets /\ d.topic_ids = c.topic_ids
       /\ d.counts = c.counts
  BY <1>4, <1>15 DEF SameTables, SameTopics, SameRows, SameCounts
<1> QED
  BY <1>3, <1>4, <1>7, <1>17, <1>19, <1>20 DEF RowAppended

-----------------------------------------------------------------------------
(* subscribe.                                                              *)

\* Nothing a publish frame relies on moves: rows keep their place, topic and
\* number, may only lose their socket, and new rows come after all the others.
Grown(e, ord, top, d, ord2) ==
  /\ \A id \in Topics : e.names[id] # Nobody => d.names[id] = e.names[id]
  /\ UsedRows(e) \subseteq UsedRows(d)
  /\ \A r \in UsedRows(e) : /\ d.topic_ids[r] = e.topic_ids[r] /\ ord2[r] = ord[r]
                            /\ d.sockets[r] = e.sockets[r] \/ d.sockets[r] = Nobody
  /\ \A r \in UsedRows(d) : r \notin UsedRows(e) => top <= ord2[r]

\* A new live row belongs to the socket; no topic loses its subscribers.
SubscribesOnly(e, d, s) ==
  /\ d.retired = e.retired /\ d.empty_topic_pending = e.empty_topic_pending
  /\ \A id \in Topics : d.names[id] # Nobody /\ d.counts[id] = 0
                          => e.names[id] # Nobody /\ e.counts[id] = 0
  /\ \A r \in UsedRows(d) :
       d.sockets[r] \in {s, Nobody} \/ (r \in UsedRows(e) /\ d.sockets[r] = e.sockets[r])

\* Engines that differ in their indexes only: twice is once.
LEMMA SameTablesTransitive ==
  ASSUME NEW a, NEW b, NEW c, SameTables(b, a), SameTables(c, b)
  PROVE  SameTables(c, a)
  BY DEF SameTables, SameTopics, SameRows, SameCounts, SameLinks

\* The fields of SameTables, one by one.
LEMMA SameTablesFields ==
  ASSUME NEW e, NEW d, SameTables(d, e)
  PROVE  /\ d.names = e.names /\ d.topic_count = e.topic_count
         /\ d.sockets = e.sockets /\ d.topic_ids = e.topic_ids /\ d.sub_count = e.sub_count
         /\ d.counts = e.counts /\ d.retired = e.retired
         /\ d.empty_topic_pending = e.empty_topic_pending
         /\ UsedRows(d) = UsedRows(e)
  BY DEF SameTables, SameTopics, SameRows, SameCounts, UsedRows

\* An engine that differs in its indexes only has grown by nothing.
LEMMA SameTablesGrown ==
  ASSUME NEW e, NEW d, SameTables(d, e), NEW ord, NEW top, NEW s
  PROVE  Grown(e, ord, top, d, ord) /\ SubscribesOnly(e, d, s)
  BY SameTablesFields DEF Grown, SubscribesOnly

\* Appending a row to an active topic is a step that frames tolerate.
LEMMA AppendGrown ==
  ASSUME NEW e, Sound(e), NEW ord, NEW top, Ordered(e, ord, top),
         NEW s \in Sockets, NEW id \in Topics, NEW d, RowAppended(e, ord, top, s, id, d)
  PROVE  Grown(e, ord, top, d, [ord EXCEPT ![e.sub_count] = top]) /\ SubscribesOnly(e, d, s)
<1>0. PICK row \in Rows :
        /\ SameTopics(d, e)
        /\ d.retired = e.retired /\ d.empty_topic_pending = e.empty_topic_pending
        /\ row = e.sub_count /\ d.sub_count = row + 1
        /\ d.sockets = [e.sockets EXCEPT ![row] = s]
        /\ d.topic_ids = [e.topic_ids EXCEPT ![row] = id]
        /\ d.counts = [e.counts EXCEPT ![id] = @ + 1]
  BY Zenon DEF RowAppended
<1>1. e \in Engines /\ ord \in Orders /\ top \in Nat
  BY DEF Sound, Ordered
<1>2. /\ UsedRows(d) = UsedRows(e) \cup {row} /\ row \notin UsedRows(e)
      /\ UsedRows(e) \in SUBSET Rows
  <2>1. row \in Nat
    BY SizeFacts DEF Rows
  <2> QED
    BY <1>0, <1>1, <2>1, UsedRowsType DEF UsedRows
<1>3. /\ d.sockets[row] = s
      /\ \A r \in UsedRows(e) : d.sockets[r] = e.sockets[r] /\ d.topic_ids[r] = e.topic_ids[r]
  BY <1>0, <1>1, <1>2 DEF Engines
<1>4. PICK new : new = [ord EXCEPT ![row] = top] /\ new = [ord EXCEPT ![e.sub_count] = top]
  BY <1>0
<1>5. new[row] = top /\ \A r \in UsedRows(e) : new[r] = ord[r]
  BY <1>1, <1>2, <1>4 DEF Orders
<1>6. Grown(e, ord, top, d, new)
  BY <1>0, <1>1, <1>2, <1>3, <1>5 DEF Grown, SameTopics
<1>7. ASSUME NEW i \in Topics, d.names[i] # Nobody, d.counts[i] = 0
      PROVE  e.names[i] # Nobody /\ e.counts[i] = 0
  <2>1. e.counts \in [Topics -> Int]
    BY <1>1 DEF Engines
  <2>2. e.counts[id] \in Nat
    BY <1>1, SetOfRows, RowSetsFinite DEF Sound, CountsOK
  <2>3. i # id
    BY <1>0, <1>7, <2>1, <2>2
  <2> QED
    BY <1>0, <1>7, <2>1, <2>3 DEF SameTopics
<1>8. SubscribesOnly(e, d, s)
  BY <1>0, <1>2, <1>3, <1>7 DEF SubscribesOnly
<1> QED
  BY <1>4, <1>6, <1>8

\* What subscribe promises.
Subscribed(e, ord, top, d, s) ==
  \E ord2, top2 : /\ Sound(d) /\ Ordered(d, ord2, top2)
                  /\ Grown(e, ord, top, d, ord2) /\ SubscribesOnly(e, d, s)

\* subscribe keeps the registry sound, moves no row, and adds at most a row of this socket at the end.
LEMMA SubscribeSound ==
  ASSUME NEW e, Sound(e), NEW ord, NEW top, Ordered(e, ord, top),
         NEW s \in Sockets, NEW name \in Names, NEW d, d = subscribe(e, s, name)
  PROVE  Subscribed(e, ord, top, d, s)
<1>1. PICK e0 : e0 = fresh_topic_index(e)
  OBVIOUS
<1>2. Sound(e0) /\ SameTables(e0, e) /\ Ordered(e0, ord, top)
  BY <1>1, FreshTopicsSound
<1>3. PICK id : id = find_topic(e0, name)
  OBVIOUS
<1>4. PICK e1 : e1 = IF id = NoLink THEN e0 ELSE fresh_sub_index(e0)
  OBVIOUS
<1>5. Sound(e1) /\ SameTables(e1, e0) /\ Ordered(e1, ord, top)
  <2>1. CASE id = NoLink
    BY <1>2, <1>4, <2>1 DEF SameTables, SameTopics, SameRows, SameCounts, SameLinks
  <2>2. CASE id # NoLink
    BY <1>2, <1>4, <2>2, FreshSubsSound
  <2> QED
    BY <2>1, <2>2
<1>6. SameTables(e1, e)
  BY <1>2, <1>5, SameTablesTransitive
<1>7. e1 \in Engines /\ TopicIndexOK(e1) /\ SubIndexOK(e1)
      /\ e0 \in Engines /\ TopicIndexOK(e0) /\ e1.names = e0.names
  BY <1>2, <1>5, SameTablesFields DEF Sound
<1>8. \/ id = NoLink /\ \A i \in Topics : e1.names[i] # name
      \/ id \in Topics /\ e1.names[id] = name
  BY <1>3, <1>7, FindTopic
<1>9. PICK known \in BOOLEAN :
        known <=> id # NoLink /\ find_subscription(e1, s, id) # NoLink
  OBVIOUS
<1>10. CASE known \/ e1.sub_count >= MaxSubs \/ (id = NoLink /\ e1.topic_count >= MaxTopics)
  <2>1. d = e1
    BY <1>1, <1>3, <1>4, <1>9, <1>10 DEF subscribe
  <2>2. Grown(e, ord, top, d, ord) /\ SubscribesOnly(e, d, s)
    BY <1>6, <2>1, SameTablesGrown
  <2> QED
    BY <1>5, <2>1, <2>2, Zenon DEF Subscribed
<1>11. CASE ~(known \/ e1.sub_count >= MaxSubs \/ (id = NoLink /\ e1.topic_count >= MaxTopics))
  <2>1. PICK e2 : e2 = IF id = NoLink THEN create_topic(e1, name) ELSE e1
    OBVIOUS
  <2>2. PICK new : new = find_topic(e2, name) /\ d = append_row(e2, s, new)
    BY <1>1, <1>3, <1>4, <1>9, <1>11, <2>1 DEF subscribe
  <2>3. /\ e1.sub_count < MaxSubs /\ (id = NoLink => e1.topic_count < MaxTopics)
        /\ ~known
    <3>1. e1.sub_count \in Int /\ e1.topic_count \in Int
      BY <1>7, SizeFacts DEF Engines
    <3> QED
      BY <1>11, <3>1, SizeFacts
  <2>4. /\ Sound(e2) /\ Ordered(e2, ord, top) /\ SameRows(e2, e1) /\ SameCounts(e2, e1)
        /\ \A i \in Topics : e1.names[i] # Nobody => e2.names[i] = e1.names[i]
        /\ \E i \in Topics : e2.names[i] = name
        /\ \A r \in UsedRows(e1) : \A i \in Topics :
             e2.names[i] = name => ~(e1.sockets[r] = s /\ e1.topic_ids[r] = i)
    <3>1. CASE id = NoLink
      <4>1. e2 = create_topic(e1, name) /\ e1.topic_count < MaxTopics
            /\ \A i \in Topics : e1.names[i] # name
        BY <1>8, <2>1, <2>3, <3>1 DEF NoLink, Topics
      <4>2. /\ Sound(e2) /\ SameRows(e2, e1) /\ SameCounts(e2, e1) /\ Ordered(e2, ord, top)
            /\ NewId(e1) \in Topics /\ e1.names[NewId(e1)] = Nobody
            /\ e2.names = [e1.names EXCEPT ![NewId(e1)] = name]
        BY <1>5, <4>1, CreateTopicSound
      <4>3. e1.names \in [Topics -> Names \cup {Nobody}]
        BY <1>7 DEF Engines
      <4>4. /\ e2.names[NewId(e1)] = name
            /\ \A i \in Topics : i # NewId(e1) => e2.names[i] = e1.names[i]
        BY <4>2, <4>3
      <4>5. \A r \in UsedRows(e1) : e1.topic_ids[r] # NewId(e1)
        BY <1>5, <4>2, InactiveIsEmpty
      <4> QED
        BY <4>1, <4>2, <4>4, <4>5
    <3>2. CASE id # NoLink
      <4>1. e2 = e1 /\ id \in Topics /\ e1.names[id] = name
        BY <1>8, <2>1, <3>2
      <4>2. find_subscription(e1, s, id) = NoLink
        BY <1>9, <2>3, <3>2
      <4>3. \A r \in UsedRows(e1) : ~(e1.sockets[r] = s /\ e1.topic_ids[r] = id)
        BY <1>7, <4>1, <4>2, FindSubscription DEF UsedRows, NoLink
      <4>4. \A i \in Topics : e1.names[i] = name => i = id
        BY <1>5, <4>1, NamesAssumption DEF Sound, TopicsOK
      <4> QED
        BY <1>5, <4>1, <4>3, <4>4 DEF SameRows, SameCounts
    <3> QED
      BY <3>1, <3>2
  <2>5. new \in Topics /\ e2.names[new] = name /\ name # Nobody
    BY <2>2, <2>4, FindTopic, NamesAssumption DEF Sound
  <2>6. UsedRows(e2) = UsedRows(e1) /\ e2.sockets = e1.sockets /\ e2.topic_ids = e1.topic_ids
        /\ e2.sub_count = e1.sub_count /\ e2.counts = e1.counts
        /\ e2.retired = e1.retired /\ e2.empty_topic_pending = e1.empty_topic_pending
    BY <2>4 DEF SameRows, SameCounts, UsedRows
  <2>7. \A r \in UsedRows(e2) : ~(e2.sockets[r] = s /\ e2.topic_ids[r] = new)
    BY <2>4, <2>5, <2>6
  <2>8. PICK row : row = e2.sub_count
    OBVIOUS
  <2>9. RowAppended(e2, ord, top, s, new, d)
    BY <2>2, <2>3, <2>4, <2>5, <2>6, <2>7, AppendRowSound
  <2>9a. /\ Sound(d) /\ Ordered(d, [ord EXCEPT ![row] = top], top + 1)
         /\ d.retired = e2.retired /\ d.empty_topic_pending = e2.empty_topic_pending
         /\ d.counts = [e2.counts EXCEPT ![new] = @ + 1]
    BY <2>8, <2>9, Zenon DEF RowAppended
  <2>10. Grown(e2, ord, top, d, [ord EXCEPT ![row] = top]) /\ SubscribesOnly(e2, d, s)
    BY <2>4, <2>5, <2>8, <2>9, AppendGrown
  <2>11. PICK ord2 : ord2 = [ord EXCEPT ![row] = top]
    OBVIOUS
  <2>12. /\ e1.names = e.names /\ UsedRows(e1) = UsedRows(e) /\ e1.sockets = e.sockets
         /\ e1.topic_ids = e.topic_ids /\ e1.counts = e.counts
         /\ e1.retired = e.retired /\ e1.empty_topic_pending = e.empty_topic_pending
    BY <1>6, SameTablesFields
  <2>13. Grown(e, ord, top, d, ord2)
    BY <2>4, <2>6, <2>10, <2>11, <2>12 DEF Grown
  <2>14. SubscribesOnly(e, d, s)
    <3>1. ASSUME NEW i \in Topics, d.names[i] # Nobody, d.counts[i] = 0
          PROVE  e.names[i] # Nobody /\ e.counts[i] = 0
      <4>1. e2.names[i] # Nobody /\ e2.counts[i] = 0
        BY <2>10, <3>1 DEF SubscribesOnly
      <4>2. i # new
        <5>1. e2.counts \in [Topics -> Int]
          BY <2>4 DEF Sound, Engines
        <5> QED
          BY <2>5, <2>9a, <3>1, <4>1, <5>1
      <4>3. e2.names[i] # name
        BY <2>4, <2>5, <4>1, <4>2 DEF Sound, TopicsOK
      <4>4. e1.names[i] # Nobody
        <5>1. CASE id = NoLink
          <6>1. /\ e2.names = [e1.names EXCEPT ![NewId(e1)] = name]
                /\ NewId(e1) \in Topics
            <7>1. e2 = create_topic(e1, name) /\ e1.topic_count < MaxTopics
                  /\ \A j \in Topics : e1.names[j] # name
              BY <1>8, <2>1, <2>3, <5>1 DEF NoLink, Topics
            <7> QED
              BY <1>5, <7>1, CreateTopicSound
          <6>2. e1.names \in [Topics -> Names \cup {Nobody}]
            BY <1>7 DEF Engines
          <6> QED
            BY <4>1, <4>3, <6>1, <6>2
        <5>2. CASE id # NoLink
          BY <2>1, <4>1, <5>2
        <5> QED
          BY <5>1, <5>2
      <4> QED
        BY <2>6, <2>12, <4>1, <4>4
    <3>2. \A r \in UsedRows(d) :
            d.sockets[r] \in {s, Nobody} \/ (r \in UsedRows(e) /\ d.sockets[r] = e.sockets[r])
      BY <2>6, <2>10, <2>12 DEF SubscribesOnly
    <3> QED
      BY <2>6, <2>9a, <2>12, <3>1, <3>2 DEF SubscribesOnly
  <2> QED
    BY <2>9a, <2>11, <2>13, <2>14, Zenon DEF Subscribed
<1> QED
  BY <1>10, <1>11

-----------------------------------------------------------------------------
(* retire_subscription.                                                    *)

\* An emptied topic is remembered for the sweep.
Remembered(e) ==
  \A id \in Topics : e.names[id] # Nobody /\ e.counts[id] = 0 => e.empty_topic_pending

\* A live row's socket had a live row before.
DropsOnly(e, d) ==
  \A r \in UsedRows(d) : d.sockets[r] # Nobody =>
    \E q \in UsedRows(e) : e.sockets[q] = d.sockets[r]

\* The record of a row retired, its index entry aside.
RetiredBase(e, row, id, b) ==
  /\ b \in Engines /\ SameTopics(b, e) /\ SameTopicIndex(b, e) /\ SameSubIndex(b, e)
  /\ SameLinks(b, e) /\ b.topic_ids = e.topic_ids /\ b.sub_count = e.sub_count
  /\ b.sockets = [e.sockets EXCEPT ![row] = Nobody]
  /\ b.counts = [e.counts EXCEPT ![id] = @ - 1]
  /\ b.retired = e.retired + 1
  /\ b.empty_topic_pending = (e.empty_topic_pending \/ e.counts[id] = 1)

\* The fields retire_subscription changes beside the index.
LEMMA RetiredFields ==
  ASSUME NEW e \in Engines, NEW row \in Rows, NEW id \in Topics, NEW b,
         b = [e EXCEPT !.sockets[row] = Nobody, !.counts[id] = @ - 1, !.retired = @ + 1,
                       !.empty_topic_pending = @ \/ e.counts[id] = 1]
  PROVE  RetiredBase(e, row, id, b)
<1>1. /\ SameTopics(b, e) /\ SameTopicIndex(b, e) /\ SameSubIndex(b, e)
      /\ SameLinks(b, e) /\ b.topic_ids = e.topic_ids /\ b.sub_count = e.sub_count
      /\ b.sockets = [e.sockets EXCEPT ![row] = Nobody]
      /\ b.counts = [e.counts EXCEPT ![id] = @ - 1]
      /\ b.retired = e.retired + 1
      /\ b.empty_topic_pending = (e.empty_topic_pending \/ e.counts[id] = 1)
  BY DEF Engines, SameTopics, SameTopicIndex, SameSubIndex, SameLinks
<1>2. EngineShape(b)
  BY DEF Engines, EngineShape
<1>3. /\ b.sockets \in [Rows -> Sockets \cup {Nobody}] /\ b.counts \in [Topics -> Int]
      /\ b.retired \in Int
  BY <1>1 DEF Engines
<1>4. b.empty_topic_pending \in BOOLEAN
  BY <1>1
<1>5. /\ b.names = e.names /\ b.free = e.free /\ b.high_water = e.high_water
      /\ b.topic_count = e.topic_count
      /\ b.topic_index = e.topic_index /\ b.topic_tombstones = e.topic_tombstones
      /\ b.sub_index = e.sub_index /\ b.sub_tombstones = e.sub_tombstones
      /\ b.heads = e.heads /\ b.tails = e.tails /\ b.next = e.next /\ b.prev = e.prev
  BY <1>1 DEF SameTopics, SameTopicIndex, SameSubIndex, SameLinks
<1>6. b \in Engines
  BY <1>1, <1>2, <1>3, <1>4, <1>5 DEF Engines, EngineShape
<1> QED
  BY <1>1, <1>6 DEF RetiredBase

\* One row less.
LEMMA RowRemoved ==
  ASSUME NEW S \in SUBSET Rows, NEW row \in S
  PROVE  Cardinality(S \ {row}) = Cardinality(S) - 1
  BY RowSetsFinite, FS_RemoveElement

\* What retire_subscription promises.
Retired(e, ord, top, row, d) ==
  /\ Sound(d) /\ Ordered(d, ord, top) /\ Grown(e, ord, top, d, ord)
  /\ Remembered(e) => Remembered(d)
  /\ d.sub_count = e.sub_count
  /\ d.sockets = [e.sockets EXCEPT ![row] = Nobody]

\* retire_subscription keeps the registry sound and makes this row a tombstone in its place.
LEMMA RetireSound ==
  ASSUME NEW e, Sound(e), NEW ord, NEW top, Ordered(e, ord, top),
         NEW row \in UsedRows(e), NEW d, d = retire_subscription(e, row)
  PROVE  Retired(e, ord, top, row, d)
<1>1. e \in Engines /\ row \in Rows /\ UsedRows(e) \in SUBSET Rows
  BY UsedRowsType DEF Sound
<1>2. e.sockets \in [Rows -> Sockets \cup {Nobody}] /\ e.topic_ids \in [Rows -> Topics]
      /\ e.counts \in [Topics -> Int] /\ e.retired \in Int
  BY <1>1 DEF Engines
<1>3. CASE e.sockets[row] = Nobody
  <2>1. d = e
    BY <1>3 DEF retire_subscription
  <2>2. d.sockets = [e.sockets EXCEPT ![row] = Nobody]
    BY <1>1, <1>2, <1>3, <2>1
  <2>3. Grown(e, ord, top, d, ord)
    BY <2>1 DEF Grown
  <2> QED
    BY <2>1, <2>2, <2>3 DEF Retired
<1>4. CASE e.sockets[row] # Nobody
  <2>0. PICK s : s = e.sockets[row]
    OBVIOUS
  <2>1. PICK id \in Topics : id = e.topic_ids[row] /\ s = e.sockets[row] /\ s # Nobody
    BY <1>1, <1>2, <1>4, <2>0
  <2>2. PICK t \in SubTables, n \in Int :
          /\ remove_sub_index(e, s, id) = WithSubIndex(e, t, n)
          /\ SubIndexed(t, e.sockets, e.topic_ids, UsedRows(e) \ {row})
    <3>1. /\ SubIndexed(e.sub_index, e.sockets, e.topic_ids, UsedRows(e))
          /\ UniqueKeys(e.sockets, e.topic_ids, UsedRows(e))
      BY DEF Sound, SubIndexOK, RowsOK
    <3> QED
      BY <1>1, <1>4, <2>1, <3>1, RemoveSubEntry
  <2>3. PICK b : b = WithSubIndex(e, t, n)
    OBVIOUS
  <2>4. b \in Engines /\ SameTables(b, e) /\ SameTopicIndex(b, e) /\ b.sub_index = t
    BY <1>1, <2>3, WithSubIndexFacts
  <2>5. d = [b EXCEPT !.sockets[row] = Nobody, !.counts[id] = @ - 1, !.retired = @ + 1,
                      !.empty_topic_pending = @ \/ b.counts[id] = 1]
    <3>1. b.counts = e.counts
      BY <2>4 DEF SameTables, SameCounts
    <3>2. d = [b EXCEPT !.sockets[row] = Nobody, !.counts[id] = @ - 1, !.retired = @ + 1,
                        !.empty_topic_pending = @ \/ e.counts[id] = 1]
      BY <1>4, <2>1, <2>2, <2>3, Zenon DEF retire_subscription
    <3> QED
      BY <3>1, <3>2
  <2>6. RetiredBase(b, row, id, d)
    BY <1>1, <2>4, <2>5, RetiredFields
  <2>7. /\ d \in Engines /\ SameTopics(d, e) /\ SameTopicIndex(d, e) /\ SameLinks(d, e)
        /\ d.sub_index = t /\ d.topic_ids = e.topic_ids /\ d.sub_count = e.sub_count
        /\ d.sockets = [e.sockets EXCEPT ![row] = Nobody]
        /\ d.counts = [e.counts EXCEPT ![id] = @ - 1]
        /\ d.retired = e.retired + 1
        /\ d.empty_topic_pending = (e.empty_topic_pending \/ e.counts[id] = 1)
    BY <2>4, <2>6
       DEF RetiredBase, SameTables, SameTopics, SameRows, SameCounts, SameLinks,
           SameTopicIndex, SameSubIndex
  <2>8. UsedRows(d) = UsedRows(e)
    BY <2>7 DEF UsedRows
  <2>9. /\ d.sockets[row] = Nobody
        /\ \A r \in Rows : r # row => d.sockets[r] = e.sockets[r]
    BY <1>1, <1>2, <2>7
  <2>10. TopicsOK(d) /\ TopicIndexOK(d)
    BY <2>7, SameTopicsKeep DEF Sound
  <2>11. RowsOK(d)
    <3>1. \A r \in Rows : r >= d.sub_count => d.sockets[r] = Nobody
      BY <2>7, <2>9 DEF Sound, RowsOK
    <3>2. \A r \in UsedRows(d) : d.names[d.topic_ids[r]] # Nobody
      BY <2>7, <2>8 DEF Sound, RowsOK, SameTopics
    <3>3. UniqueKeys(d.sockets, d.topic_ids, UsedRows(d))
      BY <1>1, <2>7, <2>8, <2>9 DEF Sound, RowsOK, UniqueKeys
    <3> QED
      BY <3>1, <3>2, <3>3 DEF RowsOK
  <2>12. SubIndexOK(d)
    <3>1. SubEntries(d.sockets, d.topic_ids, UsedRows(d) \ {row})
            = SubEntries(e.sockets, e.topic_ids, UsedRows(e) \ {row})
      <4>1. \A r \in UsedRows(e) \ {row} :
              d.sockets[r] = e.sockets[r] /\ d.topic_ids[r] = e.topic_ids[r]
        BY <1>1, <2>7, <2>9
      <4> QED
        BY <2>8, <4>1, SubEntriesAgree
    <3>2. {x \in UsedRows(d) : d.sockets[x] # Nobody}
            = {x \in UsedRows(d) \ {row} : d.sockets[x] # Nobody}
      BY <2>9
    <3>3. SubEntries(d.sockets, d.topic_ids, UsedRows(d))
            = SubEntries(d.sockets, d.topic_ids, UsedRows(d) \ {row})
      BY <3>2, Zenon DEF SubEntries
    <3> QED
      BY <2>2, <2>7, <3>1, <3>3 DEF SubIndexOK, SubIndexed
  <2>13. CountsOK(d)
    <3>1. LiveRows(d, id) = LiveRows(e, id) \ {row} /\ row \in LiveRows(e, id)
      BY <1>1, <2>1, <2>7, <2>8, <2>9, LiveRowsAre, ZenonT(40)
    <3>2. ASSUME NEW i \in Topics, i # id PROVE LiveRows(d, i) = LiveRows(e, i)
      <4>1. \A r \in UsedRows(e) : e.topic_ids[r] = i => d.sockets[r] = e.sockets[r]
        BY <1>1, <2>1, <2>9, <3>2
      <4>2. {r \in UsedRows(e) : e.topic_ids[r] = i /\ d.sockets[r] # Nobody}
              = {r \in UsedRows(e) : e.topic_ids[r] = i /\ e.sockets[r] # Nobody}
        BY <4>1
      <4> QED
        BY <2>7, <2>8, <4>2, LiveRowsAre, Zenon
    <3>3. DeadRows(d) = DeadRows(e) \cup {row} /\ row \notin DeadRows(e)
      BY <1>1, <1>4, <2>8, <2>9 DEF DeadRows
    <3>4. Cardinality(LiveRows(d, id)) = Cardinality(LiveRows(e, id)) - 1
      BY <1>1, <3>1, SetOfRows, RowRemoved
    <3>5. Cardinality(DeadRows(d)) = Cardinality(DeadRows(e)) + 1
      BY <1>1, <3>3, SetOfRows, LiveRowAdded
    <3>6. d.counts[id] = e.counts[id] - 1 /\ \A i \in Topics : i # id => d.counts[i] = e.counts[i]
      BY <1>2, <2>7
    <3> QED
      BY <2>7, <3>2, <3>4, <3>5, <3>6 DEF Sound, CountsOK
  <2>14. Sound(d)
    BY <2>7, <2>10, <2>11, <2>12, <2>13 DEF Sound
  <2>15. Ordered(d, ord, top)
    BY <2>7, <2>8, Zenon DEF Ordered, Linked, SameLinks
  <2>16. Grown(e, ord, top, d, ord)
    BY <1>1, <2>7, <2>8, <2>9 DEF Grown, SameTopics
  <2>17. ASSUME Remembered(e) PROVE Remembered(d)
    <3>1. SUFFICES ASSUME NEW i \in Topics, d.names[i] # Nobody, d.counts[i] = 0
                   PROVE  d.empty_topic_pending
      BY DEF Remembered
    <3>2. CASE i = id
      <4>1. e.counts[id] = 1
        BY <1>2, <2>7, <3>1, <3>2
      <4> QED
        BY <2>7, <4>1
    <3>3. CASE i # id
      <4>1. e.names[i] # Nobody /\ e.counts[i] = 0
        BY <1>2, <2>7, <3>1, <3>3 DEF SameTopics
      <4> QED
        BY <2>7, <2>17, <4>1 DEF Remembered
    <3> QED
      BY <3>2, <3>3
  <2> QED
    BY <2>7, <2>14, <2>15, <2>16, <2>17 DEF Retired
<1> QED
  BY <1>3, <1>4

-----------------------------------------------------------------------------
(* remove_subscription, outside publish.                                   *)

\* The registry with other links.
WithLinks(e, heads, tails, next, prev) ==
  [e EXCEPT !.heads = heads, !.tails = tails, !.next = next, !.prev = prev]

OnlyLinksDiffer(e, d) ==
  /\ d \in Engines /\ SameTopics(d, e) /\ SameRows(d, e) /\ SameCounts(d, e)
  /\ SameTopicIndex(d, e) /\ SameSubIndex(d, e)

\* Replacing the links leaves everything else alone.
LEMMA WithLinksFacts ==
  ASSUME NEW e \in Engines, NEW h \in [Topics -> Links], NEW t \in [Topics -> Links],
         NEW n \in [Rows -> Links], NEW p \in [Rows -> Links],
         NEW d, d = WithLinks(e, h, t, n, p)
  PROVE  /\ OnlyLinksDiffer(e, d)
         /\ d.heads = h /\ d.tails = t /\ d.next = n /\ d.prev = p
  BY DEF WithLinks, OnlyLinksDiffer, Engines, SameTopics, SameRows, SameCounts,
         SameTopicIndex, SameSubIndex

\* Put and PutIf keep the type of a column.
LEMMA PutTypes ==
  /\ \A f \in [Rows -> Links], i \in Links, x \in Links : Put(f, i, x) \in [Rows -> Links]
  /\ \A b \in BOOLEAN, f \in [Topics -> Links], i \in Topics, x \in Links :
       PutIf(b, f, i, x) \in [Topics -> Links]
<1>1. ASSUME NEW f \in [Rows -> Links], NEW i \in Links, NEW x \in Links
      PROVE  Put(f, i, x) \in [Rows -> Links]
  BY DEF Put, Links
<1>2. ASSUME NEW b \in BOOLEAN, NEW f \in [Topics -> Links], NEW i \in Topics, NEW x \in Links
      PROVE  PutIf(b, f, i, x) \in [Topics -> Links]
  BY DEF PutIf
<1> QED
  BY <1>1, <1>2

\* The links of two neighbours, or of the topic where there is none, replaced.
Relinked(e, id, p, x, n, y) ==
  LET e1 == IF p # NoLink THEN [e EXCEPT !.next[p] = x] ELSE [e EXCEPT !.heads[id] = x]
  IN  IF n # NoLink THEN [e1 EXCEPT !.prev[n] = y] ELSE [e1 EXCEPT !.tails[id] = y]

\* The links that change when a row's neighbours are told of another row.
LEMMA RelinkedFields ==
  ASSUME NEW e \in Engines, NEW id \in Topics, NEW p \in Links, NEW x \in Links,
         NEW n \in Links, NEW y \in Links, NEW d, d = Relinked(e, id, p, x, n, y)
  PROVE  /\ OnlyLinksDiffer(e, d)
         /\ d.heads = PutIf(p = NoLink, e.heads, id, x)
         /\ d.tails = PutIf(n = NoLink, e.tails, id, y)
         /\ d.next = Put(e.next, p, x) /\ d.prev = Put(e.prev, n, y)
<1>1. /\ e.heads \in [Topics -> Links] /\ e.tails \in [Topics -> Links]
      /\ e.next \in [Rows -> Links] /\ e.prev \in [Rows -> Links]
  BY DEF Engines
<1>2. PICK h \in [Topics -> Links], t \in [Topics -> Links],
           f \in [Rows -> Links], g \in [Rows -> Links] :
        /\ h = PutIf(p = NoLink, e.heads, id, x) /\ t = PutIf(n = NoLink, e.tails, id, y)
        /\ f = Put(e.next, p, x) /\ g = Put(e.prev, n, y)
  <2>1. (p = NoLink) \in BOOLEAN /\ (n = NoLink) \in BOOLEAN
    OBVIOUS
  <2> QED
    BY <1>1, <2>1, PutTypes, Zenon
<1>3. PICK e1 : e1 = IF p # NoLink THEN [e EXCEPT !.next[p] = x] ELSE [e EXCEPT !.heads[id] = x]
  OBVIOUS
<1>4. e1 = WithLinks(e, h, e.tails, f, e.prev)
  <2>1. CASE p # NoLink
    <3>1. e1 = [e EXCEPT !.next[p] = x] /\ h = e.heads /\ f = [e.next EXCEPT ![p] = x]
      BY <1>2, <1>3, <2>1 DEF Put, PutIf
    <3> QED
      BY <3>1 DEF WithLinks, Engines
  <2>2. CASE p = NoLink
    <3>1. e1 = [e EXCEPT !.heads[id] = x] /\ f = e.next /\ h = [e.heads EXCEPT ![id] = x]
      BY <1>2, <1>3, <2>2 DEF Put, PutIf
    <3> QED
      BY <3>1 DEF WithLinks, Engines
  <2> QED
    BY <2>1, <2>2
<1>5. /\ OnlyLinksDiffer(e, e1) /\ e1.heads = h /\ e1.tails = e.tails
      /\ e1.next = f /\ e1.prev = e.prev
  BY <1>1, <1>4, WithLinksFacts
<1>6. e1 \in Engines
  BY <1>5 DEF OnlyLinksDiffer
<1>7. d = WithLinks(e1, e1.heads, t, e1.next, g)
  <2>1. CASE n # NoLink
    <3>1. d = [e1 EXCEPT !.prev[n] = y] /\ t = e1.tails /\ g = [e1.prev EXCEPT ![n] = y]
      BY <1>2, <1>3, <1>5, <2>1 DEF Put, PutIf, Relinked
    <3> QED
      BY <1>6, <3>1 DEF WithLinks, Engines
  <2>2. CASE n = NoLink
    <3>1. d = [e1 EXCEPT !.tails[id] = y] /\ g = e1.prev /\ t = [e1.tails EXCEPT ![id] = y]
      BY <1>2, <1>3, <1>5, <2>2 DEF Put, PutIf, Relinked
    <3> QED
      BY <1>6, <3>1 DEF WithLinks, Engines
  <2> QED
    BY <2>1, <2>2
<1>8. /\ OnlyLinksDiffer(e1, d) /\ d.heads = h /\ d.tails = t /\ d.next = f /\ d.prev = g
  BY <1>5, <1>6, <1>7, WithLinksFacts
<1>9. OnlyLinksDiffer(e, d)
  BY <1>5, <1>8
     DEF OnlyLinksDiffer, SameTopics, SameRows, SameCounts, SameTopicIndex, SameSubIndex
<1> QED
  BY <1>2, <1>8, <1>9

\* unlink_subscription changes the links of the neighbours and nothing else.
LEMMA UnlinkFields ==
  ASSUME NEW e \in Engines, NEW row \in Rows, NEW d, d = unlink_subscription(e, row)
  PROVE  OnlyLinksDiffer(e, d) /\ Unlinked(e, d, row)
<1>1. PICK id \in Topics, p \in Links, n \in Links :
        id = e.topic_ids[row] /\ p = e.prev[row] /\ n = e.next[row]
  BY DEF Engines
<1>2. d = Relinked(e, id, p, n, n, p)
  BY <1>1, Zenon DEF Relinked, unlink_subscription
<1>3. /\ OnlyLinksDiffer(e, d)
      /\ d.heads = PutIf(p = NoLink, e.heads, id, n)
      /\ d.tails = PutIf(n = NoLink, e.tails, id, p)
      /\ d.next = Put(e.next, p, n) /\ d.prev = Put(e.prev, n, p)
  BY <1>2, RelinkedFields
<1>4. d.topic_ids = e.topic_ids
  BY <1>3 DEF OnlyLinksDiffer, SameRows
<1> QED
  BY <1>1, <1>3, <1>4, Zenon DEF Unlinked

\* move_row before its index entry.
CopiedRow(e, from, to) ==
  [e EXCEPT !.sockets[to] = e.sockets[from], !.topic_ids[to] = e.topic_ids[from],
            !.next[to] = e.next[from], !.prev[to] = e.prev[from]]
MovedRow(e, from, to) ==
  Relinked(CopiedRow(e, from, to), e.topic_ids[from], e.prev[from], to, e.next[from], to)

RowMoved(e, from, to, d) ==
  /\ d \in Engines /\ SameTopics(d, e) /\ SameCounts(d, e)
  /\ SameTopicIndex(d, e) /\ SameSubIndex(d, e) /\ d.sub_count = e.sub_count
  /\ d.sockets = [e.sockets EXCEPT ![to] = e.sockets[from]]
  /\ Moved(e, d, from, to)

\* The fields that change when a row is copied and its neighbours follow.
LEMMA MovedRowFields ==
  ASSUME NEW e \in Engines, NEW from \in Rows, NEW to \in Rows,
         NEW d, d = MovedRow(e, from, to)
  PROVE  RowMoved(e, from, to, d)
<1>1. PICK id \in Topics, p \in Links, n \in Links, s \in Sockets \cup {Nobody} :
        id = e.topic_ids[from] /\ p = e.prev[from] /\ n = e.next[from] /\ s = e.sockets[from]
  BY DEF Engines
<1>2. PICK b : b = [e EXCEPT !.sockets[to] = s, !.topic_ids[to] = id,
                             !.next[to] = n, !.prev[to] = p]
  OBVIOUS
<1>3. /\ SameTopics(b, e) /\ SameCounts(b, e)
      /\ SameTopicIndex(b, e) /\ SameSubIndex(b, e) /\ b.sub_count = e.sub_count
      /\ b.sockets = [e.sockets EXCEPT ![to] = s]
      /\ b.topic_ids = [e.topic_ids EXCEPT ![to] = id]
      /\ b.next = [e.next EXCEPT ![to] = n] /\ b.prev = [e.prev EXCEPT ![to] = p]
      /\ b.heads = e.heads /\ b.tails = e.tails
  BY <1>2 DEF Engines, SameTopics, SameCounts, SameTopicIndex, SameSubIndex
<1>4. b \in Engines
  <2>1. EngineShape(b)
    BY <1>2 DEF Engines, EngineShape
  <2>2. /\ b.sockets \in [Rows -> Sockets \cup {Nobody}] /\ b.topic_ids \in [Rows -> Topics]
        /\ b.next \in [Rows -> Links] /\ b.prev \in [Rows -> Links]
    BY <1>3 DEF Engines
  <2>3. /\ b.names = e.names /\ b.free = e.free /\ b.high_water = e.high_water
        /\ b.topic_count = e.topic_count /\ b.counts = e.counts
        /\ b.topic_index = e.topic_index /\ b.topic_tombstones = e.topic_tombstones
        /\ b.sub_index = e.sub_index /\ b.sub_tombstones = e.sub_tombstones
        /\ b.retired = e.retired /\ b.empty_topic_pending = e.empty_topic_pending
        /\ b.sub_count = e.sub_count /\ b.heads = e.heads /\ b.tails = e.tails
    BY <1>3 DEF SameTopics, SameCounts, SameTopicIndex, SameSubIndex
  <2> QED
    BY <2>1, <2>2, <2>3 DEF Engines, EngineShape
<1>5. d = Relinked(b, id, p, to, n, to) /\ to \in Links
  BY <1>1, <1>2 DEF MovedRow, CopiedRow, Links
<1>6. /\ OnlyLinksDiffer(b, d)
      /\ d.heads = PutIf(p = NoLink, b.heads, id, to)
      /\ d.tails = PutIf(n = NoLink, b.tails, id, to)
      /\ d.next = Put(b.next, p, to) /\ d.prev = Put(b.prev, n, to)
  BY <1>4, <1>5, RelinkedFields
<1>7. /\ d \in Engines /\ SameTopics(d, e) /\ SameCounts(d, e)
      /\ SameTopicIndex(d, e) /\ SameSubIndex(d, e) /\ d.sub_count = e.sub_count
      /\ d.sockets = b.sockets /\ d.topic_ids = b.topic_ids
  BY <1>3, <1>6
     DEF OnlyLinksDiffer, SameTopics, SameRows, SameCounts, SameTopicIndex, SameSubIndex
<1>8. Moved(e, d, from, to)
  BY <1>1, <1>3, <1>6, <1>7, Zenon DEF Moved
<1> QED
  BY <1>1, <1>3, <1>7, <1>8 DEF RowMoved

\* move_row is a moved row and the update of its index entry.
LEMMA MoveRowIs ==
  ASSUME NEW e, NEW from, NEW to
  PROVE  move_row(e, from, to)
           = update_sub_index_row(MovedRow(e, from, to), e.sockets[from], e.topic_ids[from], to)
  BY DEF move_row, MovedRow, CopiedRow, Relinked

\* A subscriber count lowered by one.
Lowered(e, id, d) ==
  /\ d \in Engines /\ SameTopics(d, e) /\ SameRows(d, e) /\ SameLinks(d, e)
  /\ SameTopicIndex(d, e) /\ SameSubIndex(d, e) /\ d.retired = e.retired
  /\ d.empty_topic_pending = e.empty_topic_pending
  /\ d.counts = [e.counts EXCEPT ![id] = @ - 1]

\* Lowering a subscriber count changes nothing else.
LEMMA CountLowered ==
  ASSUME NEW e \in Engines, NEW id \in Topics, NEW d, d = [e EXCEPT !.counts[id] = @ - 1]
  PROVE  Lowered(e, id, d)
<1>0. e.counts \in [Topics -> Int]
  BY DEF Engines
<1>1. PICK c \in [Topics -> Int] : c = [e.counts EXCEPT ![id] = @ - 1]
  <2>1. [e.counts EXCEPT ![id] = @ - 1] \in [Topics -> Int]
    BY <1>0
  <2> QED
    BY <2>1, Zenon
<1>2. d = [e EXCEPT !.counts = c]
  BY <1>1 DEF Engines
<1>3. /\ d \in Engines /\ SameTopics(d, e) /\ SameRows(d, e) /\ SameLinks(d, e)
      /\ SameTopicIndex(d, e) /\ SameSubIndex(d, e) /\ d.retired = e.retired
      /\ d.empty_topic_pending = e.empty_topic_pending /\ d.counts = c
  BY <1>2 DEF Engines, SameTopics, SameRows, SameLinks, SameTopicIndex, SameSubIndex
<1> QED
  BY <1>1, <1>3 DEF Lowered

\* The last row cleared.
LastIsCleared(e, last, d) ==
  /\ d \in Engines /\ SameTopics(d, e) /\ SameCounts(d, e)
  /\ SameTopicIndex(d, e) /\ SameSubIndex(d, e) /\ d.sub_count = last
  /\ d.sockets = [e.sockets EXCEPT ![last] = Nobody]
  /\ d.topic_ids = e.topic_ids /\ d.heads = e.heads /\ d.tails = e.tails
  /\ d.next = [e.next EXCEPT ![last] = NoLink]
  /\ d.prev = [e.prev EXCEPT ![last] = NoLink]

\* The number of the last row.
LEMMA LastRow ==
  ASSUME NEW last \in Rows, NEW n \in 0 .. MaxSubs, last + 1 = n
  PROVE  last \in Nat /\ last \in 0 .. MaxSubs /\ n - 1 = last
  BY SizeFacts DEF Rows

\* Clearing the last row changes nothing else.
LEMMA LastCleared ==
  ASSUME NEW e \in Engines, NEW last \in Rows, last + 1 = e.sub_count, NEW d,
         d = [e EXCEPT !.sockets[last] = Nobody, !.next[last] = NoLink,
                       !.prev[last] = NoLink, !.sub_count = @ - 1]
  PROVE  LastIsCleared(e, last, d)
<1>1. last \in Nat /\ last \in 0 .. MaxSubs /\ e.sub_count - 1 = last
  <2>1. e.sub_count \in 0 .. MaxSubs
    BY DEF Engines
  <2> QED
    BY <2>1, LastRow, Zenon
<1>2. /\ SameTopics(d, e) /\ SameCounts(d, e)
      /\ SameTopicIndex(d, e) /\ SameSubIndex(d, e) /\ d.sub_count = e.sub_count - 1
      /\ d.sockets = [e.sockets EXCEPT ![last] = Nobody]
      /\ d.topic_ids = e.topic_ids /\ d.heads = e.heads /\ d.tails = e.tails
      /\ d.next = [e.next EXCEPT ![last] = NoLink]
      /\ d.prev = [e.prev EXCEPT ![last] = NoLink]
  BY DEF Engines, SameTopics, SameCounts, SameTopicIndex, SameSubIndex
<1>3. EngineShape(d)
  BY DEF Engines, EngineShape
<1>4. /\ d.sockets \in [Rows -> Sockets \cup {Nobody}]
      /\ d.next \in [Rows -> Links] /\ d.prev \in [Rows -> Links]
  BY <1>2 DEF Engines, Links
<1>5. /\ d.names = e.names /\ d.free = e.free /\ d.high_water = e.high_water
      /\ d.topic_count = e.topic_count /\ d.counts = e.counts
      /\ d.topic_index = e.topic_index /\ d.topic_tombstones = e.topic_tombstones
      /\ d.sub_index = e.sub_index /\ d.sub_tombstones = e.sub_tombstones
      /\ d.retired = e.retired /\ d.empty_topic_pending = e.empty_topic_pending
  BY <1>2 DEF SameTopics, SameCounts, SameTopicIndex, SameSubIndex
<1>6. d \in Engines
  BY <1>1, <1>2, <1>3, <1>4, <1>5 DEF Engines, EngineShape
<1> QED
  BY <1>1, <1>2, <1>6 DEF LastIsCleared

\* Linked reads the links of the given rows only.
LEMMA LinkedAgrees ==
  ASSUME NEW e, NEW d, NEW D, NEW ord, Linked(e, D, ord),
         d.topic_ids = e.topic_ids, d.heads = e.heads, d.tails = e.tails,
         \A r \in D : d.next[r] = e.next[r] /\ d.prev[r] = e.prev[r]
  PROVE  Linked(d, D, ord)
<1>1. \A r \in D : IsNext(d.topic_ids, D, ord, r, d.next[r])
  BY DEF Linked
<1>2. \A r \in D : IsPrev(d.topic_ids, D, ord, r, d.prev[r])
  BY DEF Linked
<1> QED
  BY <1>1, <1>2, Zenon DEF Linked

\* Without tombstones every used row is live.
LEMMA AllLive ==
  ASSUME NEW e, Sound(e), e.retired = 0, NEW r \in UsedRows(e)
  PROVE  e.sockets[r] # Nobody
<1>1. DeadRows(e) \in SUBSET Rows
  BY SetOfRows DEF Sound
<1>2. DeadRows(e) = {}
  BY <1>1, RowSetsFinite DEF Sound, CountsOK
<1> QED
  BY <1>2 DEF DeadRows

\* The row that is at place r once the last row has filled the hole.
From(row, last, r) == IF r = row THEN last ELSE r

\* The registry without a row, before the last place is cleared.
HoleFilled(e, row, last, top, c) ==
  /\ c \in Engines /\ SameTopics(c, e) /\ SameTopicIndex(c, e) /\ c.retired = e.retired
  /\ c.empty_topic_pending = e.empty_topic_pending /\ c.sub_count = e.sub_count
  /\ c.counts = [e.counts EXCEPT ![e.topic_ids[row]] = @ - 1]
  /\ \A r \in 0 .. last - 1 : /\ c.sockets[r] = e.sockets[From(row, last, r)]
                              /\ c.topic_ids[r] = e.topic_ids[From(row, last, r)]
  /\ \A r \in Rows : r > last => c.sockets[r] = e.sockets[r]
  /\ SubIndexed(c.sub_index, c.sockets, c.topic_ids, 0 .. last - 1)
  /\ \E ord2 \in Orders : /\ Linked(c, 0 .. last - 1, ord2)
                          /\ \A r \in 0 .. last - 1 : ord2[r] < top

\* The row taken off its list and out of the index.
RowOut(e, row, rows, ord, b) ==
  /\ b \in Engines /\ SameTopics(b, e) /\ SameTopicIndex(b, e) /\ b.retired = e.retired
  /\ b.empty_topic_pending = e.empty_topic_pending /\ SameRows(b, e)
  /\ b.counts = [e.counts EXCEPT ![e.topic_ids[row]] = @ - 1]
  /\ SubIndexed(b.sub_index, b.sockets, b.topic_ids, rows)
  /\ Linked(b, rows, ord)

\* remove_subscription up to the move: the row is on no list, in no index and not counted.
LEMMA TakeRowOut ==
  ASSUME NEW e, Sound(e), NEW ord, NEW top, Ordered(e, ord, top),
         NEW row \in UsedRows(e), e.sockets[row] # Nobody, NEW b,
         b = remove_sub_index(
               [unlink_subscription(e, row) EXCEPT !.counts[e.topic_ids[row]] = @ - 1],
               e.sockets[row], e.topic_ids[row])
  PROVE  RowOut(e, row, UsedRows(e) \ {row}, ord, b)
<1>1. e \in Engines /\ row \in Rows /\ UsedRows(e) \in SUBSET Rows
  BY UsedRowsType DEF Sound
<1>0. PICK s : s = e.sockets[row]
  OBVIOUS
<1>2. PICK id \in Topics : id = e.topic_ids[row] /\ s = e.sockets[row]
  BY <1>0, <1>1 DEF Engines
<1>3. PICK u : u = unlink_subscription(e, row)
  OBVIOUS
<1>4. OnlyLinksDiffer(e, u) /\ Unlinked(e, u, row)
  BY <1>1, <1>3, UnlinkFields
<1>5. u \in Engines
  BY <1>4 DEF OnlyLinksDiffer
<1>6. PICK c : c = [u EXCEPT !.counts[id] = @ - 1]
  OBVIOUS
<1>7. /\ c \in Engines /\ SameTopics(c, u) /\ SameRows(c, u) /\ SameLinks(c, u)
      /\ SameTopicIndex(c, u) /\ SameSubIndex(c, u) /\ c.retired = u.retired
      /\ c.empty_topic_pending = u.empty_topic_pending
      /\ c.counts = [u.counts EXCEPT ![id] = @ - 1]
  <2>1. Lowered(u, id, c)
    BY <1>5, <1>6, CountLowered
  <2> QED
    BY <2>1, Zenon DEF Lowered
<1>8. /\ SameTopics(c, e) /\ SameRows(c, e) /\ SameTopicIndex(c, e) /\ SameSubIndex(c, e)
      /\ c.retired = e.retired /\ c.empty_topic_pending = e.empty_topic_pending
      /\ c.counts = [e.counts EXCEPT ![id] = @ - 1]
  BY <1>4, <1>7
     DEF OnlyLinksDiffer, SameTopics, SameRows, SameCounts, SameTopicIndex, SameSubIndex
<1>9. /\ c.sockets = e.sockets /\ c.topic_ids = e.topic_ids /\ c.sub_index = e.sub_index
  BY <1>8 DEF SameRows, SameSubIndex
<1>10. PICK t \in SubTables, n \in Int :
         /\ remove_sub_index(c, s, id) = WithSubIndex(c, t, n)
         /\ SubIndexed(t, c.sockets, c.topic_ids, UsedRows(e) \ {row})
  <2>1. /\ SubIndexed(c.sub_index, c.sockets, c.topic_ids, UsedRows(e))
        /\ UniqueKeys(c.sockets, c.topic_ids, UsedRows(e))
        /\ c.sockets[row] # Nobody /\ s = c.sockets[row] /\ id = c.topic_ids[row]
    BY <1>2, <1>9 DEF Sound, SubIndexOK, RowsOK
  <2> QED
    BY <1>1, <1>7, <2>1, RemoveSubEntry
<1>11. b = WithSubIndex(c, t, n)
  BY <1>2, <1>3, <1>6, <1>10
<1>12. b \in Engines /\ SameTables(b, c) /\ SameTopicIndex(b, c) /\ b.sub_index = t
  BY <1>7, <1>11, WithSubIndexFacts
<1>13. Linked(b, UsedRows(e) \ {row}, ord)
  <2>1. Linked(u, UsedRows(e) \ {row}, ord)
    BY <1>1, <1>4, EnginesHaveLinkTypes, UnlinkLinked DEF Ordered
  <2>2. /\ b.topic_ids = u.topic_ids /\ b.heads = u.heads /\ b.tails = u.tails
        /\ b.next = u.next /\ b.prev = u.prev
    BY <1>7, <1>12 DEF SameTables, SameRows, SameLinks
  <2> QED
    BY <2>1, <2>2, LinkedAgrees
<1>14. /\ SameTopics(b, e) /\ SameTopicIndex(b, e) /\ b.retired = e.retired
       /\ b.empty_topic_pending = e.empty_topic_pending /\ SameRows(b, e)
       /\ b.counts = c.counts
  BY <1>8, <1>12 DEF SameTables, SameTopics, SameTopicIndex, SameRows, SameCounts
<1>15. SubIndexed(b.sub_index, b.sockets, b.topic_ids, UsedRows(e) \ {row})
  BY <1>10, <1>12 DEF SameTables, SameRows
<1> QED
  BY <1>2, <1>8, <1>12, <1>13, <1>14, <1>15 DEF RowOut

\* The move of the last row into the hole keeps its list and its index entry.
LEMMA FillHole ==
  ASSUME NEW e, Sound(e), e.retired = 0, NEW ord, NEW top, Ordered(e, ord, top),
         NEW row \in UsedRows(e), NEW last, last = e.sub_count - 1, NEW b,
         RowOut(e, row, UsedRows(e) \ {row}, ord, b), NEW c,
         c = IF row # last THEN move_row(b, last, row) ELSE b
  PROVE  HoleFilled(e, row, last, top, c)
<1>1. e \in Engines /\ row \in Rows /\ UsedRows(e) \in SUBSET Rows
      /\ ord \in Orders /\ top \in Nat /\ \A r \in UsedRows(e) : ord[r] < top
  BY UsedRowsType DEF Sound, Ordered
<1>2. /\ last \in Nat /\ last \in UsedRows(e) /\ last \in Rows /\ UsedRows(e) = 0 .. last
      /\ row \in 0 .. last
  <2>1. e.sub_count \in 0 .. MaxSubs /\ row \in 0 .. e.sub_count - 1
    BY <1>1 DEF Engines, UsedRows
  <2> QED
    BY <1>1, <2>1, SizeFacts DEF UsedRows
<1>3. /\ b \in Engines /\ SameTopics(b, e) /\ SameTopicIndex(b, e) /\ b.retired = e.retired
      /\ b.empty_topic_pending = e.empty_topic_pending
      /\ b.sockets = e.sockets /\ b.topic_ids = e.topic_ids /\ b.sub_count = e.sub_count
      /\ b.counts = [e.counts EXCEPT ![e.topic_ids[row]] = @ - 1]
      /\ SubIndexed(b.sub_index, b.sockets, b.topic_ids, UsedRows(e) \ {row})
      /\ Linked(b, UsedRows(e) \ {row}, ord)
  BY DEF RowOut, SameRows
<1>4. CASE row = last
  <2>1. c = b /\ UsedRows(e) \ {row} = 0 .. last - 1
    BY <1>2, <1>4
  <2>2. \A r \in 0 .. last - 1 : From(row, last, r) = r /\ ord[r] < top
    BY <1>1, <1>2, <1>4 DEF From
  <2> QED
    BY <1>1, <1>3, <2>1, <2>2 DEF HoleFilled
<1>5. CASE row # last
  <2>1. PICK rows : rows = UsedRows(e) \ {row}
    OBVIOUS
  <2>2. /\ rows \in SUBSET Rows /\ last \in rows /\ row \notin rows
        /\ (rows \ {last}) \cup {row} = 0 .. last - 1
    BY <1>1, <1>2, <1>5, <2>1
  <2>3. PICK m : m = MovedRow(b, last, row)
    OBVIOUS
  <2>4. /\ m \in Engines /\ SameTopics(m, b) /\ SameCounts(m, b)
        /\ SameTopicIndex(m, b) /\ SameSubIndex(m, b) /\ m.sub_count = b.sub_count
        /\ m.sockets = [b.sockets EXCEPT ![row] = b.sockets[last]]
        /\ Moved(b, m, last, row)
    <3>1. RowMoved(b, last, row, m)
      BY <1>1, <1>2, <1>3, <2>3, MovedRowFields
    <3> QED
      BY <3>1, Zenon DEF RowMoved
  <2>5. c = update_sub_index_row(m, b.sockets[last], b.topic_ids[last], row)
    BY <1>5, <2>3, MoveRowIs
  <2>6. /\ m.sockets[row] = b.sockets[last] /\ m.topic_ids[row] = b.topic_ids[last]
        /\ \A r \in Rows : r # row => /\ m.sockets[r] = b.sockets[r]
                                      /\ m.topic_ids[r] = b.topic_ids[r]
    <3>1. m.topic_ids = [b.topic_ids EXCEPT ![row] = b.topic_ids[last]]
      BY <2>4 DEF Moved
    <3>2. b.sockets \in [Rows -> Sockets \cup {Nobody}] /\ b.topic_ids \in [Rows -> Topics]
      BY <1>3 DEF Engines
    <3> QED
      BY <1>1, <2>4, <3>1, <3>2
  <2>7. /\ m.sockets[last] = b.sockets[last] /\ m.topic_ids[last] = b.topic_ids[last]
        /\ m.sockets[last] # Nobody
    BY <1>2, <1>3, <1>5, <2>6, AllLive
  <2>8. \A r \in rows : m.sockets[r] = b.sockets[r] /\ m.topic_ids[r] = b.topic_ids[r]
    BY <2>2, <2>6
  <2>9. SubIndexed(m.sub_index, m.sockets, m.topic_ids, rows)
    <3>1. SubEntries(m.sockets, m.topic_ids, rows) = SubEntries(b.sockets, b.topic_ids, rows)
      BY <2>8, SubEntriesAgree
    <3> QED
      BY <1>3, <2>1, <2>4, <3>1 DEF SubIndexed, SameSubIndex
  <2>10. UniqueKeys(m.sockets, m.topic_ids, rows)
    <3>1. UniqueKeys(e.sockets, e.topic_ids, UsedRows(e))
      BY DEF Sound, RowsOK
    <3> QED
      BY <1>3, <2>1, <2>8, <3>1 DEF UniqueKeys
  <2>11. PICK t \in SubTables, n \in Int :
           /\ c = WithSubIndex(m, t, n)
           /\ SubIndexed(t, m.sockets, m.topic_ids, (rows \ {last}) \cup {row})
    <3>1. /\ c = update_sub_index_row(m, m.sockets[last], m.topic_ids[last], row)
          /\ m.sockets[row] = m.sockets[last] /\ m.topic_ids[row] = m.topic_ids[last]
      BY <2>5, <2>6, <2>7
    <3>2. /\ m \in Engines /\ rows \in SUBSET Rows /\ last \in rows /\ row \in Rows
          /\ row \notin rows /\ m.sockets[last] # Nobody
      BY <1>1, <2>2, <2>4, <2>7
    <3>3. \E t \in SubTables, n \in Int :
            /\ update_sub_index_row(m, m.sockets[last], m.topic_ids[last], row)
                 = WithSubIndex(m, t, n)
            /\ SubIndexed(t, m.sockets, m.topic_ids, (rows \ {last}) \cup {row})
      BY <2>9, <2>10, <3>1, <3>2, UpdateSubEntry
    <3> QED
      BY <3>1, <3>3
  <2>12. c \in Engines /\ SameTables(c, m) /\ SameTopicIndex(c, m) /\ c.sub_index = t
    BY <2>4, <2>11, WithSubIndexFacts
  <2>13. /\ SameTopics(c, e) /\ SameTopicIndex(c, e) /\ c.retired = e.retired
         /\ c.empty_topic_pending = e.empty_topic_pending /\ c.sub_count = e.sub_count
         /\ c.counts = b.counts /\ c.sockets = m.sockets /\ c.topic_ids = m.topic_ids
    BY <1>3, <2>4, <2>12 DEF SameTables, SameTopics, SameRows, SameCounts, SameTopicIndex
  <2>14. \A r \in 0 .. last - 1 : /\ c.sockets[r] = e.sockets[From(row, last, r)]
                                  /\ c.topic_ids[r] = e.topic_ids[From(row, last, r)]
    <3>1. \A r \in 0 .. last - 1 : r \in Rows
      BY <1>1, <1>2
    <3> QED
      BY <1>3, <2>6, <2>13, <3>1 DEF From
  <2>15. \A r \in Rows : r > last => c.sockets[r] = e.sockets[r]
    BY <1>2, <1>3, <2>6, <2>13
  <2>16. PICK ord2 : ord2 = [ord EXCEPT ![row] = ord[last]]
    OBVIOUS
  <2>17. ord2 \in Orders /\ ord2[row] = ord[last] /\ \A r \in rows : ord2[r] = ord[r]
    BY <1>1, <1>2, <2>2, <2>16 DEF Orders
  <2>18. Linked(m, 0 .. last - 1, ord2)
    <3>1. Linked(b, rows, ord) /\ LinkTypes(b) /\ Moved(b, m, last, row) /\ ord \in Orders
      BY <1>1, <1>3, <2>1, <2>4, EnginesHaveLinkTypes
    <3>2. Linked(m, (rows \ {last}) \cup {row}, [ord EXCEPT ![row] = ord[last]])
      BY <1>1, <2>2, <3>1, MoveLinked
    <3> QED
      BY <2>2, <2>16, <3>2
  <2>19. Linked(c, 0 .. last - 1, ord2)
    BY <2>12, <2>18, LinkedAgrees DEF SameTables, SameRows, SameLinks
  <2>20. \A r \in 0 .. last - 1 : ord2[r] < top
    BY <1>1, <1>2, <2>1, <2>2, <2>17
  <2>21. SubIndexed(c.sub_index, c.sockets, c.topic_ids, 0 .. last - 1)
    BY <2>2, <2>11, <2>12, <2>13
  <2> QED
    BY <1>3, <2>12, <2>13, <2>14, <2>15, <2>17, <2>19, <2>20, <2>21 DEF HoleFilled
<1> QED
  BY <1>4, <1>5

\* What remove_subscription promises outside publish.
Removed(e, row, top, d) ==
  /\ Sound(d) /\ \E ord2 : Ordered(d, ord2, top)
  /\ SameTopics(d, e) /\ d.retired = e.retired
  /\ d.empty_topic_pending = e.empty_topic_pending
  /\ d.sub_count = e.sub_count - 1
  /\ d.counts = [e.counts EXCEPT ![e.topic_ids[row]] = @ - 1]
  /\ \A r \in UsedRows(d) : /\ d.sockets[r] = e.sockets[From(row, e.sub_count - 1, r)]
                            /\ d.topic_ids[r] = e.topic_ids[From(row, e.sub_count - 1, r)]

\* The rows of a topic after the last row has filled the hole.
LEMMA RowsAfterFill ==
  ASSUME NEW last \in Rows, NEW row \in 0 .. last, NEW L \in SUBSET (0 .. last), NEW M,
         M = {r \in 0 .. last - 1 : From(row, last, r) \in L}
  PROVE  Cardinality(M) = IF row \in L THEN Cardinality(L) - 1 ELSE Cardinality(L)
<1>1. /\ last \in Nat /\ 0 .. last \in SUBSET Rows /\ row \in Rows
  BY SizeFacts DEF Rows
<1>2. L \in SUBSET Rows /\ Cardinality(L) \in Nat
  BY <1>1, RowSetsFinite
<1>0. /\ \A r : r # row => (r \in M <=> r \in L /\ r # last)
      /\ row \in M <=> last \in L /\ row # last
  <2>1. \A r : r \in 0 .. last - 1 <=> r \in 0 .. last /\ r # last
    BY <1>1
  <2>2. \A r : r \in M <=> r \in 0 .. last /\ r # last /\ From(row, last, r) \in L
    BY <2>1
  <2> QED
    BY <2>2 DEF From
<1>3. CASE row = last
  <2>1. M = L \ {row}
    BY <1>0, <1>3
  <2>2. row \notin L => M = L
    BY <2>1
  <2> QED
    BY <1>2, <2>1, <2>2, RowRemoved
<1>4. CASE row # last
  <2>1. CASE row \in L /\ last \in L
    <3>1. M = L \ {last}
      BY <1>0, <1>4, <2>1
    <3> QED
      BY <1>2, <2>1, <3>1, RowRemoved
  <2>2. CASE row \in L /\ last \notin L
    <3>0. \A r : r \in M <=> r \in L \ {row}
      BY <1>0, <1>4, <2>2
    <3>1. M = L \ {row}
      BY <3>0
    <3> QED
      BY <1>2, <2>2, <3>1, RowRemoved
  <2>3. CASE row \notin L /\ last \in L
    <3>1. M = (L \ {last}) \cup {row}
      BY <1>0, <1>4, <2>3
    <3>2. PICK K \in SUBSET Rows : K = L \ {last} /\ row \notin K
      BY <1>2, <2>3
    <3>3. Cardinality(K) = Cardinality(L) - 1
      BY <1>2, <2>3, <3>2, RowRemoved
    <3>4. Cardinality(K \cup {row}) = Cardinality(K) + 1
      BY <1>1, <3>2, LiveRowAdded
    <3> QED
      BY <1>2, <2>3, <3>1, <3>2, <3>3, <3>4
  <2>4. CASE row \notin L /\ last \notin L
    <3>0. \A r : r \in M <=> r \in L
      BY <1>0, <1>4, <2>4
    <3>1. M = L
      BY <3>0
    <3> QED
      BY <2>4, <3>1
  <2> QED
    BY <2>1, <2>2, <2>3, <2>4
<1> QED
  BY <1>3, <1>4

\* remove_subscription keeps the registry sound and drops exactly this row.
LEMMA RemoveSound ==
  ASSUME NEW e, Sound(e), e.retired = 0, NEW ord, NEW top, Ordered(e, ord, top),
         NEW row \in UsedRows(e), NEW d, d = remove_subscription(e, row)
  PROVE  Removed(e, row, top, d)
<1>1. PICK last : last = e.sub_count - 1
  OBVIOUS
<1>2. /\ e \in Engines /\ UsedRows(e) \in SUBSET Rows /\ top \in Nat
      /\ last \in Nat /\ last \in Rows /\ UsedRows(e) = 0 .. last /\ row \in 0 .. last
      /\ last + 1 = e.sub_count
  <2>1. e \in Engines /\ UsedRows(e) \in SUBSET Rows /\ top \in Nat
    BY UsedRowsType DEF Sound, Ordered
  <2>2. e.sub_count \in 0 .. MaxSubs /\ row \in 0 .. e.sub_count - 1
    BY <2>1 DEF Engines, UsedRows
  <2> QED
    BY <1>1, <2>1, <2>2, SizeFacts DEF UsedRows
<1>3. e.sockets[row] # Nobody
  BY AllLive
<1>4. PICK b :
        b = remove_sub_index(
              [unlink_subscription(e, row) EXCEPT !.counts[e.topic_ids[row]] = @ - 1],
              e.sockets[row], e.topic_ids[row])
  OBVIOUS
<1>5. RowOut(e, row, UsedRows(e) \ {row}, ord, b)
  BY <1>3, <1>4, TakeRowOut
<1>6. PICK c : c = IF row # last THEN move_row(b, last, row) ELSE b
  OBVIOUS
<1>7. HoleFilled(e, row, last, top, c)
  BY <1>1, <1>5, <1>6, FillHole
<1>8. d = [c EXCEPT !.sockets[last] = Nobody, !.next[last] = NoLink,
                    !.prev[last] = NoLink, !.sub_count = @ - 1]
  BY <1>1, <1>3, <1>4, <1>6, Zenon DEF remove_subscription
<1>9. /\ c \in Engines /\ SameTopics(c, e) /\ SameTopicIndex(c, e) /\ c.retired = e.retired
      /\ c.empty_topic_pending = e.empty_topic_pending /\ c.sub_count = e.sub_count
      /\ c.counts = [e.counts EXCEPT ![e.topic_ids[row]] = @ - 1]
      /\ \A r \in 0 .. last - 1 : /\ c.sockets[r] = e.sockets[From(row, last, r)]
                                  /\ c.topic_ids[r] = e.topic_ids[From(row, last, r)]
      /\ \A r \in Rows : r > last => c.sockets[r] = e.sockets[r]
      /\ SubIndexed(c.sub_index, c.sockets, c.topic_ids, 0 .. last - 1)
      /\ \E ord2 \in Orders : /\ Linked(c, 0 .. last - 1, ord2)
                              /\ \A r \in 0 .. last - 1 : ord2[r] < top
  BY <1>7, Zenon DEF HoleFilled
<1>10. /\ d \in Engines /\ SameTopics(d, c) /\ SameCounts(d, c)
       /\ SameTopicIndex(d, c) /\ SameSubIndex(d, c) /\ d.sub_count = last
       /\ d.sockets = [c.sockets EXCEPT ![last] = Nobody]
       /\ d.topic_ids = c.topic_ids /\ d.heads = c.heads /\ d.tails = c.tails
       /\ d.next = [c.next EXCEPT ![last] = NoLink]
       /\ d.prev = [c.prev EXCEPT ![last] = NoLink]
  <2>1. LastIsCleared(c, last, d)
    BY <1>2, <1>8, <1>9, LastCleared
  <2> QED
    BY <2>1, Zenon DEF LastIsCleared
<1>11. UsedRows(d) = 0 .. last - 1 /\ last \notin 0 .. last - 1
       /\ 0 .. last - 1 \in SUBSET Rows
  BY <1>2, <1>10 DEF UsedRows
<1>12. /\ d.sockets[last] = Nobody
       /\ \A r \in Rows : r # last => d.sockets[r] = c.sockets[r]
  <2>1. c.sockets \in [Rows -> Sockets \cup {Nobody}]
    BY <1>9 DEF Engines
  <2> QED
    BY <1>2, <1>10, <2>1
<1>13. \A r \in 0 .. last - 1 : /\ d.sockets[r] = e.sockets[From(row, last, r)]
                                /\ d.topic_ids[r] = e.topic_ids[From(row, last, r)]
                                /\ d.sockets[r] = c.sockets[r]
  BY <1>9, <1>10, <1>11, <1>12
<1>14. /\ SameTopics(d, e) /\ SameTopicIndex(d, e) /\ d.retired = e.retired
       /\ d.empty_topic_pending = e.empty_topic_pending /\ d.counts = c.counts
  BY <1>9, <1>10 DEF SameTopics, SameTopicIndex, SameCounts
<1>15. TopicsOK(d) /\ TopicIndexOK(d)
  BY <1>14, SameTopicsKeep DEF Sound
<1>16. \A r \in 0 .. last - 1 : From(row, last, r) \in UsedRows(e)
  BY <1>2 DEF From
<1>17. RowsOK(d)
  <2>1. ASSUME NEW r \in Rows, r >= d.sub_count PROVE d.sockets[r] = Nobody
    <3>1. CASE r = last
      BY <1>12, <3>1
    <3>2. CASE r # last
      <4>1. r \in Nat /\ r > last /\ r >= e.sub_count
        BY <1>2, <1>10, <2>1, <3>2 DEF Rows
      <4> QED
        BY <1>9, <1>12, <3>2, <4>1 DEF Sound, RowsOK
    <3> QED
      BY <3>1, <3>2
  <2>2. \A r \in UsedRows(d) : d.names[d.topic_ids[r]] # Nobody
    BY <1>11, <1>13, <1>14, <1>16 DEF Sound, RowsOK, SameTopics
  <2>3. UniqueKeys(d.sockets, d.topic_ids, UsedRows(d))
    <3>1. SUFFICES ASSUME NEW q \in 0 .. last - 1, NEW r \in 0 .. last - 1,
                          d.sockets[q] # Nobody, d.sockets[q] = d.sockets[r],
                          d.topic_ids[q] = d.topic_ids[r]
                   PROVE  q = r
      BY <1>11 DEF UniqueKeys
    <3>2. From(row, last, q) = From(row, last, r)
      BY <1>13, <1>16, <3>1 DEF Sound, RowsOK, UniqueKeys
    <3> QED
      BY <1>11, <3>2 DEF From
  <2> QED
    BY <2>1, <2>2, <2>3 DEF RowsOK
<1>18. SubIndexOK(d)
  <2>1. SubEntries(d.sockets, d.topic_ids, 0 .. last - 1)
          = SubEntries(c.sockets, c.topic_ids, 0 .. last - 1)
    <3>1. PICK rows : rows = 0 .. last - 1
      OBVIOUS
    <3>2. \A r \in rows : d.sockets[r] = c.sockets[r] /\ d.topic_ids[r] = c.topic_ids[r]
      BY <1>10, <1>13, <3>1
    <3> QED
      <4>1. SubEntries(d.sockets, d.topic_ids, rows) = SubEntries(c.sockets, c.topic_ids, rows)
        BY <3>2, SubEntriesAgree
      <4> QED
        BY <3>1, <4>1
  <2> QED
    BY <1>9, <1>10, <1>11, <2>1 DEF SubIndexOK, SubIndexed, SameSubIndex
<1>19. CountsOK(d)
  <2>1. PICK id \in Topics : id = e.topic_ids[row]
    BY <1>2 DEF Engines
  <2>2. ASSUME NEW i \in Topics PROVE d.counts[i] = Cardinality(LiveRows(d, i))
    <3>1. LiveRows(e, i) \in SUBSET (0 .. last)
      BY <1>2, LiveRowsAre
    <3>2. LiveRows(d, i) = {r \in 0 .. last - 1 : From(row, last, r) \in LiveRows(e, i)}
      BY <1>11, <1>13, <1>16, LiveRowsAre
    <3>3. Cardinality(LiveRows(d, i)) = IF row \in LiveRows(e, i)
                                        THEN Cardinality(LiveRows(e, i)) - 1
                                        ELSE Cardinality(LiveRows(e, i))
      BY <1>2, <3>1, <3>2, RowsAfterFill
    <3>4. row \in LiveRows(e, i) <=> i = id
      BY <1>3, <2>1, LiveRowsAre
    <3>5. d.counts[i] = IF i = id THEN e.counts[i] - 1 ELSE e.counts[i]
      <4>1. e.counts \in [Topics -> Int]
        BY <1>2 DEF Engines
      <4> QED
        BY <1>9, <1>14, <2>1, <4>1
    <3> QED
      BY <3>3, <3>4, <3>5 DEF Sound, CountsOK
  <2>3. DeadRows(d) = {}
    BY <1>11, <1>13, <1>16, AllLive DEF DeadRows
  <2> QED
    BY <1>14, <2>2, <2>3, FS_EmptySet DEF CountsOK
<1>20. PICK ord2 \in Orders : Linked(c, 0 .. last - 1, ord2)
                              /\ \A r \in 0 .. last - 1 : ord2[r] < top
  BY <1>9
<1>21. Linked(d, 0 .. last - 1, ord2)
  <2>1. c.next \in [Rows -> Links] /\ c.prev \in [Rows -> Links]
    BY <1>9 DEF Engines
  <2>2. \A r \in 0 .. last - 1 : d.next[r] = c.next[r] /\ d.prev[r] = c.prev[r]
    BY <1>10, <1>11, <2>1
  <2> QED
    <3>1. PICK rows : rows = 0 .. last - 1
      OBVIOUS
    <3>2. /\ Linked(c, rows, ord2) /\ d.topic_ids = c.topic_ids
          /\ d.heads = c.heads /\ d.tails = c.tails
          /\ \A r \in rows : d.next[r] = c.next[r] /\ d.prev[r] = c.prev[r]
      BY <1>10, <1>20, <2>2, <3>1
    <3> QED
      BY <3>1, <3>2, LinkedAgrees
<1>22. Ordered(d, ord2, top)
  BY <1>2, <1>11, <1>20, <1>21 DEF Ordered
<1>23. Sound(d)
  BY <1>10, <1>15, <1>17, <1>18, <1>19 DEF Sound
<1> QED
  BY <1>1, <1>9, <1>10, <1>11, <1>13, <1>14, <1>22, <1>23 DEF Removed

-----------------------------------------------------------------------------
(* remove_topic and sweep_empty_topics.                                    *)

\* A record without the topic, its index entry aside.
TopicDropped(e, id, d) ==
  /\ d \in Engines /\ SameRows(d, e) /\ SameCounts(d, e)
  /\ SameTopicIndex(d, e) /\ SameSubIndex(d, e)
  /\ d.next = e.next /\ d.prev = e.prev /\ d.high_water = e.high_water
  /\ d.names = [e.names EXCEPT ![id] = Nobody]
  /\ d.heads = [e.heads EXCEPT ![id] = NoLink]
  /\ d.tails = [e.tails EXCEPT ![id] = NoLink]
  /\ d.topic_count = e.topic_count - 1 /\ d.free = Append(e.free, id)

\* The fields remove_topic changes beside the index.
LEMMA DropTopic ==
  ASSUME NEW e \in Engines, NEW id \in Topics, NEW d,
         d = [e EXCEPT !.names[id] = Nobody, !.heads[id] = NoLink, !.tails[id] = NoLink,
                       !.topic_count = @ - 1, !.free = Append(@, id)]
  PROVE  TopicDropped(e, id, d)
<1>1. /\ SameRows(d, e) /\ SameCounts(d, e) /\ SameTopicIndex(d, e) /\ SameSubIndex(d, e)
      /\ d.next = e.next /\ d.prev = e.prev /\ d.high_water = e.high_water
      /\ d.names = [e.names EXCEPT ![id] = Nobody]
      /\ d.heads = [e.heads EXCEPT ![id] = NoLink]
      /\ d.tails = [e.tails EXCEPT ![id] = NoLink]
      /\ d.topic_count = e.topic_count - 1 /\ d.free = Append(e.free, id)
  BY DEF Engines, SameRows, SameCounts, SameTopicIndex, SameSubIndex
<1>2. EngineShape(d)
  BY DEF Engines, EngineShape
<1>3. /\ d.names \in [Topics -> Names \cup {Nobody}]
      /\ d.heads \in [Topics -> Links] /\ d.tails \in [Topics -> Links]
  BY <1>1 DEF Engines, Links
<1>4. d.topic_count \in Int /\ d.free \in Seq(Topics)
  <2>1. e.topic_count \in Int /\ e.free \in Seq(Topics)
    BY DEF Engines
  <2> QED
    BY <1>1, <2>1
<1>5. /\ d.counts = e.counts /\ d.high_water = e.high_water
      /\ d.sockets = e.sockets /\ d.topic_ids = e.topic_ids /\ d.sub_count = e.sub_count
      /\ d.retired = e.retired /\ d.empty_topic_pending = e.empty_topic_pending
      /\ d.topic_index = e.topic_index /\ d.topic_tombstones = e.topic_tombstones
      /\ d.sub_index = e.sub_index /\ d.sub_tombstones = e.sub_tombstones
  BY <1>1 DEF SameRows, SameCounts, SameTopicIndex, SameSubIndex
<1>6. d \in Engines
  BY <1>1, <1>2, <1>3, <1>4, <1>5 DEF Engines, EngineShape
<1> QED
  BY <1>1, <1>6 DEF TopicDropped

\* remove_topic keeps the type, whatever the index holds.
LEMMA RemoveTopicType ==
  ASSUME NEW e \in Engines, NEW id \in Topics
  PROVE  remove_topic(e, id) \in Engines
<1>1. PICK b : b = remove_topic_index(e, id)
  OBVIOUS
<1>2. b \in Engines
  <2>1. PICK cell : cell = ProbeFind(e.topic_index, TopicHash(e.names[id]), 2 * MaxTopics,
                                     {TopicSlot(id)})
    OBVIOUS
  <2>2. CASE cell = NoLink
    BY <1>1, <2>1, <2>2 DEF remove_topic_index
  <2>3. CASE cell # NoLink
    <3>1. b = [e EXCEPT !.topic_index[cell] = Tombstone, !.topic_tombstones = @ + 1]
      BY <1>1, <2>1, <2>3 DEF remove_topic_index
    <3>2. e.topic_index \in TopicTables /\ e.topic_tombstones \in Int
      BY DEF Engines
    <3>3. PICK t \in TopicTables, n \in Int :
            t = [e.topic_index EXCEPT ![cell] = Tombstone] /\ n = e.topic_tombstones + 1
      <4>1. [e.topic_index EXCEPT ![cell] = Tombstone] \in TopicTables
        BY <3>2 DEF TopicTables, TopicSlots
      <4>2. e.topic_tombstones + 1 \in Int
        BY <3>2
      <4> QED
        BY <4>1, <4>2, Zenon
    <3>4. b = WithTopicIndex(e, t, n)
      BY <3>1, <3>3 DEF WithTopicIndex, Engines
    <3> QED
      BY <3>4, WithTopicIndexFacts
  <2> QED
    BY <2>2, <2>3
<1>3. TopicDropped(b, id, remove_topic(e, id))
  BY <1>1, <1>2, DropTopic DEF remove_topic
<1> QED
  BY <1>3 DEF TopicDropped

\* What Append returns.
LEMMA AppendFacts ==
  ASSUME NEW S, NEW list \in Seq(S), NEW x \in S
  PROVE  /\ Append(list, x) \in Seq(S) /\ Len(Append(list, x)) = Len(list) + 1
         /\ \A i \in 1 .. Len(list) : Append(list, x)[i] = list[i]
         /\ Append(list, x)[Len(list) + 1] = x /\ Len(list) \in Nat
  OBVIOUS

\* What remove_topic promises for a topic without rows.
TopicRemoved(e, id, d) ==
  /\ Sound(d) /\ SameRows(d, e) /\ SameCounts(d, e)
  /\ d.high_water = e.high_water /\ d.names = [e.names EXCEPT ![id] = Nobody]
  /\ \A ord, top : Ordered(e, ord, top) => Ordered(d, ord, top)

\* remove_topic of a topic without rows keeps the registry sound and frees its id once.
LEMMA RemoveTopicSound ==
  ASSUME NEW e, Sound(e), NEW id \in Topics, e.names[id] # Nobody,
         \A r \in UsedRows(e) : e.topic_ids[r] # id,
         NEW d, d = remove_topic(e, id)
  PROVE  TopicRemoved(e, id, d)
<1>1. e \in Engines /\ TopicsOK(e) /\ TopicIndexOK(e)
  BY DEF Sound
<1>2. PICK t \in TopicTables, n \in Int :
        /\ remove_topic_index(e, id) = WithTopicIndex(e, t, n)
        /\ TopicIndexed(t, e.names, Topics \ {id})
  BY <1>1, RemoveTopicEntry
<1>3. PICK b : b = WithTopicIndex(e, t, n)
  OBVIOUS
<1>4. b \in Engines /\ SameTables(b, e) /\ SameSubIndex(b, e) /\ b.topic_index = t
  BY <1>1, <1>3, WithTopicIndexFacts
<1>5. TopicDropped(b, id, d)
  <2>1. d = [b EXCEPT !.names[id] = Nobody, !.heads[id] = NoLink, !.tails[id] = NoLink,
                      !.topic_count = @ - 1, !.free = Append(@, id)]
    BY <1>2, <1>3, Zenon DEF remove_topic
  <2> QED
    BY <1>4, <2>1, DropTopic
<1>6. /\ d \in Engines /\ SameRows(d, e) /\ SameCounts(d, e) /\ SameSubIndex(d, e)
      /\ d.next = e.next /\ d.prev = e.prev /\ d.high_water = e.high_water
      /\ d.names = [e.names EXCEPT ![id] = Nobody]
      /\ d.heads = [e.heads EXCEPT ![id] = NoLink]
      /\ d.tails = [e.tails EXCEPT ![id] = NoLink]
      /\ d.topic_count = e.topic_count - 1 /\ d.free = Append(e.free, id)
      /\ d.topic_index = t
  BY <1>4, <1>5
     DEF TopicDropped, SameTables, SameTopics, SameRows, SameCounts, SameLinks,
         SameTopicIndex, SameSubIndex
<1>7. d.names[id] = Nobody /\ \A i \in Topics : i # id => d.names[i] = e.names[i]
  <2>1. e.names \in [Topics -> Names \cup {Nobody}]
    BY <1>1 DEF Engines
  <2> QED
    BY <1>6, <2>1
<1>8. UsedRows(d) = UsedRows(e) /\ d.sockets = e.sockets /\ d.topic_ids = e.topic_ids
      /\ d.sub_count = e.sub_count
  BY <1>6 DEF SameRows, UsedRows
<1>9. TopicsOK(d)
  <2>1. PICK list \in Seq(Topics) : list = e.free
    BY <1>1 DEF Engines
  <2>2. PICK m \in Nat : m = Len(list)
    BY <2>1
  <2>3. PICK list2 \in Seq(Topics) :
          /\ list2 = d.free /\ Len(list2) = m + 1
          /\ \A i \in 1 .. m : list2[i] = list[i]
          /\ list2[m + 1] = id
    <3>1. /\ Append(list, id) \in Seq(Topics) /\ Len(Append(list, id)) = m + 1
          /\ \A i \in 1 .. m : Append(list, id)[i] = list[i]
          /\ Append(list, id)[m + 1] = id
      BY <2>2, AppendFacts
    <3> QED
      BY <1>6, <2>1, <3>1
  <2>4. \A i \in 1 .. m + 1 : i \in 1 .. m \/ i = m + 1
    OBVIOUS
  <2>5. /\ Distinct(list) /\ UnusedIds(e) /\ e.high_water = e.topic_count + m
        /\ \A i \in 1 .. m : list[i] < e.high_water /\ e.names[list[i]] = Nobody
    BY <1>1, <2>1, <2>2 DEF TopicsOK
  <2>6. id < e.high_water
    <3>1. e.high_water \in Nat /\ id \in Nat
      BY <1>1, SizeFacts DEF Engines, Topics
    <3> QED
      BY <2>5, <3>1 DEF UnusedIds
  <2>7. \A i \in 1 .. m : list2[i] # id /\ list2[i] \in Topics
    BY <2>3, <2>5
  <2>8. Distinct(list2)
    <3>1. \A i, j \in 1 .. m : list2[i] = list2[j] => i = j
      BY <2>2, <2>3, <2>5 DEF Distinct
    <3> QED
      BY <2>3, <2>4, <2>7, <3>1 DEF Distinct
  <2>9. \A i \in 1 .. m + 1 : list2[i] < d.high_water /\ d.names[list2[i]] = Nobody
    <3>1. ASSUME NEW i \in 1 .. m
          PROVE  list2[i] < d.high_water /\ d.names[list2[i]] = Nobody
      <4>1. PICK x \in Topics :
              x = list2[i] /\ x # id /\ x < e.high_water /\ e.names[x] = Nobody
        BY <2>3, <2>5, <2>7
      <4>2. d.high_water = e.high_water
        BY <1>6
      <4> QED
        BY <1>7, <4>1, <4>2
    <3>2. list2[m + 1] < d.high_water /\ d.names[list2[m + 1]] = Nobody
      BY <1>6, <1>7, <2>3, <2>6
    <3> QED
      BY <2>4, <3>1, <3>2
  <2>10. d.high_water = d.topic_count + Len(list2)
    <3>1. PICK c \in Int : c = e.topic_count
      BY <1>1 DEF Engines
    <3>2. c + m = (c - 1) + (m + 1)
      OBVIOUS
    <3> QED
      BY <1>6, <2>3, <2>5, <3>1, <3>2
  <2>11. UnusedIds(d)
    BY <1>6, <1>7, <2>5 DEF UnusedIds
  <2>12. \A i, j \in Topics : d.names[i] # Nobody /\ d.names[i] = d.names[j] => i = j
    BY <1>1, <1>7 DEF TopicsOK
  <2> QED
    BY <2>3, <2>8, <2>9, <2>10, <2>11, <2>12 DEF TopicsOK
<1>10. TopicIndexOK(d)
  <2>1. TopicEntries(d.names, Topics) = TopicEntries(e.names, Topics \ {id})
    <3>1. \A x : x \in Topics /\ d.names[x] # Nobody
                   <=> x \in Topics \ {id} /\ e.names[x] # Nobody
      BY <1>7
    <3>2. \A x \in Topics : d.names[x] # Nobody => d.names[x] = e.names[x]
      BY <1>7
    <3> QED
      BY <3>1, <3>2, TopicEntriesAgree
  <2> QED
    BY <1>2, <1>6, <2>1 DEF TopicIndexOK, TopicIndexed
<1>11. RowsOK(d)
  <2>1. \A r \in UsedRows(e) : e.topic_ids[r] \in Topics /\ e.topic_ids[r] # id
    BY <1>1, UsedRowsType DEF Engines
  <2>2. \A r \in UsedRows(e) : d.names[e.topic_ids[r]] # Nobody
    BY <1>7, <2>1 DEF Sound, RowsOK
  <2> QED
    BY <1>8, <2>2 DEF Sound, RowsOK
<1>12. SubIndexOK(d)
  BY <1>6, <1>8 DEF Sound, SubIndexOK, SameSubIndex
<1>13. CountsOK(d)
  <2>1. \A i : LiveRows(d, i) = LiveRows(e, i)
    BY <1>8, LiveRowsAre
  <2>2. DeadRows(d) = DeadRows(e)
    BY <1>8 DEF DeadRows
  <2> QED
    BY <1>6, <2>1, <2>2 DEF Sound, CountsOK, SameCounts
<1>14. ASSUME NEW ord, NEW top, Ordered(e, ord, top) PROVE Ordered(d, ord, top)
  <2>1. ASSUME NEW i \in Topics
        PROVE  /\ IsHead(d.topic_ids, UsedRows(d), ord, i, d.heads[i])
               /\ IsTail(d.topic_ids, UsedRows(d), ord, i, d.tails[i])
    <3>1. e.heads \in [Topics -> Links] /\ e.tails \in [Topics -> Links]
      BY <1>1 DEF Engines
    <3>2. CASE i = id
      BY <1>6, <1>8, <3>1, <3>2 DEF IsHead, IsTail
    <3>3. CASE i # id
      <4>1. d.heads[i] = e.heads[i] /\ d.tails[i] = e.tails[i]
        BY <1>6, <3>1, <3>3
      <4> QED
        BY <1>8, <1>14, <4>1 DEF Ordered, Linked
    <3> QED
      BY <3>2, <3>3
  <2> QED
    BY <1>6, <1>8, <1>14, <2>1, Zenon DEF Ordered, Linked
<1> QED
  BY <1>6, <1>9, <1>10, <1>11, <1>12, <1>13, <1>14 DEF TopicRemoved, Sound

\* The function of the recursion in sweep_empty_topics.
SweepBase(e) == [e EXCEPT !.empty_topic_pending = FALSE]
IsSweep(e, f) ==
  f = [k \in 0 .. e.high_water |->
         IF k = 0 THEN SweepBase(e) ELSE sweep_topic(f[k - 1], k - 1)]

\* The flag that sweep_empty_topics clears is no part of the tables.
LEMMA SweepBaseFacts ==
  ASSUME NEW e \in Engines
  PROVE  LET d == SweepBase(e)
         IN  /\ d \in Engines /\ SameTopics(d, e) /\ SameRows(d, e) /\ SameLinks(d, e)
             /\ SameTopicIndex(d, e) /\ SameSubIndex(d, e) /\ d.counts = e.counts
             /\ d.retired = e.retired /\ d.empty_topic_pending = FALSE
  BY DEF SweepBase, Engines, SameTopics, SameRows, SameLinks, SameTopicIndex, SameSubIndex

\* The rounds of sweep_empty_topics exist as a function.
LEMMA SweepExists ==
  ASSUME NEW e \in Engines
  PROVE  \E f : IsSweep(e, f)
<1>1. PICK N \in Nat : N = e.high_water /\ N <= MaxTopics
  BY SizeFacts DEF Engines
<1> DEFINE base == SweepBase(e)
           g == [k \in 1 .. N |-> [c \in Engines |-> sweep_topic(c, k - 1)]]
<1>2. base \in Engines
  BY SweepBaseFacts
<1>3. ASSUME NEW k \in 1 .. N, NEW c \in Engines PROVE sweep_topic(c, k - 1) \in Engines
  <2>1. k - 1 \in Topics
    BY <1>1, SizeFacts DEF Topics
  <2> QED
    BY <2>1, RemoveTopicType DEF sweep_topic
<1>4. g \in [1 .. N -> [Engines -> Engines]]
  BY <1>3
<1>5. PICK f : Runs(f, Engines, base, N, g)
  <2> HIDE DEF g, base
  <2>1. IsLoop(Engines, base, N, g)
    BY <1>2, <1>4, Zenon DEF IsLoop
  <2> QED
    BY <2>1, RecursionExists, Zenon
<1>6. f \in [0 .. N -> Engines] /\ f[0] = base
      /\ \A k \in 1 .. N : f[k] = g[k][f[k - 1]]
  BY <1>5, Zenon DEF Runs
<1>7. \A k \in 1 .. N : k - 1 \in 0 .. N
  OBVIOUS
<1>8. \A k \in 1 .. N : f[k] = sweep_topic(f[k - 1], k - 1)
  BY <1>6, <1>7
<1> HIDE DEF g, base
<1>9. f = [k \in 0 .. N |-> IF k = 0 THEN base ELSE sweep_topic(f[k - 1], k - 1)]
  <2>1. \A k \in 0 .. N : k # 0 => k \in 1 .. N
    OBVIOUS
  <2> QED
    BY <1>6, <1>8, <2>1
<1> QED
  BY <1>1, <1>9, Zenon DEF IsSweep, base

\* A topic without subscribers has no rows when there are no tombstones.
LEMMA EmptyHasNoRows ==
  ASSUME NEW e, Sound(e), e.retired = 0, NEW id \in Topics, e.counts[id] = 0
  PROVE  \A r \in UsedRows(e) : e.topic_ids[r] # id
<1>1. LiveRows(e, id) = {}
  <2>1. LiveRows(e, id) \in SUBSET Rows
    BY SetOfRows DEF Sound
  <2> QED
    BY <2>1, RowSetsFinite DEF Sound, CountsOK
<1> QED
  BY <1>1, AllLive, LiveRowsAre

\* The registry after the first k topics have been swept.
SweptUpTo(e, k, d) ==
  /\ Sound(d) /\ SameRows(d, e) /\ d.counts = e.counts /\ d.retired = e.retired
  /\ d.empty_topic_pending = FALSE /\ d.high_water = e.high_water
  /\ \A ord, top : Ordered(e, ord, top) => Ordered(d, ord, top)
  /\ \A id \in Topics : id < k /\ d.names[id] # Nobody => d.counts[id] # 0

\* After k rounds no topic below k is empty, by induction over the rounds.
LEMMA SweepRounds ==
  ASSUME NEW e, Sound(e), e.retired = 0, NEW f, IsSweep(e, f)
  PROVE  SweptUpTo(e, e.high_water, f[e.high_water])
<1>0. e \in Engines
  BY DEF Sound
<1>1. PICK N \in Nat : N = e.high_water /\ N <= MaxTopics
  BY <1>0, SizeFacts DEF Engines
<1>2. f[0] = SweepBase(e) /\ \A k \in 1 .. N : f[k] = sweep_topic(f[k - 1], k - 1)
  BY <1>1 DEF IsSweep
<1> DEFINE T == {k \in 0 .. N : SweptUpTo(e, k, f[k])}
<1>3. 0 \in T
  <2>1. PICK d : d = SweepBase(e) /\ d = f[0]
    BY <1>2
  <2>2. /\ d \in Engines /\ SameTopics(d, e) /\ SameRows(d, e) /\ SameLinks(d, e)
        /\ SameTopicIndex(d, e) /\ SameSubIndex(d, e) /\ d.counts = e.counts
        /\ d.retired = e.retired /\ d.empty_topic_pending = FALSE
    BY <1>0, <2>1, SweepBaseFacts
  <2>3. TopicsOK(d) /\ TopicIndexOK(d)
    BY <2>2, SameTopicsKeep DEF Sound
  <2>4. UsedRows(d) = UsedRows(e) /\ d.sockets = e.sockets /\ d.topic_ids = e.topic_ids
        /\ d.sub_count = e.sub_count /\ d.names = e.names /\ d.high_water = e.high_water
    BY <2>2 DEF SameRows, SameTopics, UsedRows
  <2>5. RowsOK(d) /\ SubIndexOK(d)
    BY <2>2, <2>4, Zenon DEF Sound, RowsOK, SubIndexOK, SameSubIndex
  <2>6. CountsOK(d)
    <3>1. \A i : LiveRows(d, i) = LiveRows(e, i)
      BY <2>4, LiveRowsAre
    <3>2. DeadRows(d) = DeadRows(e)
      BY <2>4 DEF DeadRows
    <3> QED
      BY <2>2, <3>1, <3>2 DEF Sound, CountsOK
  <2>7. \A ord, top : Ordered(e, ord, top) => Ordered(d, ord, top)
    BY <2>2, <2>4, Zenon DEF Ordered, Linked, SameLinks
  <2>8. \A id \in Topics : ~(id < 0)
    BY SizeFacts DEF Topics
  <2>9. Sound(d)
    BY <2>2, <2>3, <2>5, <2>6 DEF Sound
  <2>10. SweptUpTo(e, 0, d)
    BY <2>2, <2>4, <2>7, <2>8, <2>9 DEF SweptUpTo
  <2> QED
    BY <2>1, <2>10
<1>4. ASSUME NEW k \in 1 .. N, k - 1 \in T PROVE k \in T
  <2>1. PICK id \in Topics : id = k - 1
    BY <1>1, SizeFacts DEF Topics
  <2>2. PICK c, d : c = f[k - 1] /\ d = f[k] /\ SweptUpTo(e, id, c) /\ d = sweep_topic(c, id)
    BY <1>2, <1>4, <2>1
  <2>3. /\ Sound(c) /\ SameRows(c, e) /\ c.counts = e.counts /\ c.retired = e.retired
        /\ c.empty_topic_pending = FALSE /\ c.high_water = e.high_water
        /\ \A ord, top : Ordered(e, ord, top) => Ordered(c, ord, top)
        /\ \A i \in Topics : i < id /\ c.names[i] # Nobody => c.counts[i] # 0
    BY <2>2 DEF SweptUpTo
  <2>4. \A i \in Topics : i < k => i < id \/ i = id
    BY <2>1, SizeFacts DEF Topics
  <2>5. k \in 0 .. N
    OBVIOUS
  <2>6. CASE ~(c.names[id] # Nobody /\ c.counts[id] = 0)
    <3>1. d = c
      BY <2>2, <2>6 DEF sweep_topic
    <3>2. \A i \in Topics : i < k /\ d.names[i] # Nobody => d.counts[i] # 0
      BY <2>3, <2>4, <2>6, <3>1
    <3>3. SweptUpTo(e, k, d)
      BY <2>3, <3>1, <3>2 DEF SweptUpTo
    <3> QED
      BY <2>2, <2>5, <3>3
  <2>7. CASE c.names[id] # Nobody /\ c.counts[id] = 0
    <3>1. d = remove_topic(c, id)
      BY <2>2, <2>7 DEF sweep_topic
    <3>2. \A r \in UsedRows(c) : c.topic_ids[r] # id
      BY <2>3, <2>7, EmptyHasNoRows
    <3>3. TopicRemoved(c, id, d)
      BY <2>3, <2>7, <3>1, <3>2, RemoveTopicSound
    <3>4. /\ Sound(d) /\ SameRows(d, c) /\ SameCounts(d, c)
          /\ d.high_water = c.high_water /\ d.names = [c.names EXCEPT ![id] = Nobody]
          /\ \A ord, top : Ordered(c, ord, top) => Ordered(d, ord, top)
      BY <3>3 DEF TopicRemoved
    <3>5. c.names \in [Topics -> Names \cup {Nobody}]
      BY <2>3 DEF Sound, Engines
    <3>6. d.names[id] = Nobody /\ \A i \in Topics : i # id => d.names[i] = c.names[i]
      BY <3>4, <3>5
    <3>7. d.counts = c.counts /\ d.retired = c.retired
          /\ d.empty_topic_pending = c.empty_topic_pending /\ SameRows(d, e)
      BY <2>3, <3>4 DEF SameCounts, SameRows
    <3>8. \A i \in Topics : i < k /\ d.names[i] # Nobody => d.counts[i] # 0
      BY <2>3, <2>4, <3>6, <3>7
    <3>9. SweptUpTo(e, k, d)
      BY <2>3, <3>4, <3>7, <3>8 DEF SweptUpTo
    <3> QED
      BY <2>2, <2>5, <3>9
  <2> QED
    BY <2>6, <2>7
<1> HIDE DEF T
<1>5. \A k \in 0 .. N : k \in T
  BY <1>3, <1>4, UpTo, Zenon
<1>6. N \in T
  BY <1>5
<1> QED
  BY <1>1, <1>6 DEF T

\* What sweep_empty_topics promises: only topics with subscribers stay.
Swept(e, d) ==
  /\ Sound(d) /\ SameRows(d, e) /\ d.retired = e.retired /\ d.empty_topic_pending = FALSE
  /\ \A ord, top : Ordered(e, ord, top) => Ordered(d, ord, top)
  /\ \A id \in Topics : d.names[id] # Nobody => d.counts[id] # 0

\* sweep_empty_topics leaves no empty topic and touches no row.
LEMMA SweepSound ==
  ASSUME NEW e, Sound(e), e.retired = 0, NEW d, d = sweep_empty_topics(e)
  PROVE  Swept(e, d)
<1> DEFINE f == CHOOSE f : IsSweep(e, f)
<1>1. \E g : IsSweep(e, g)
  BY SweepExists DEF Sound
<1>2. IsSweep(e, f)
  BY <1>1, Zenon
<1>3. sweep_empty_topics(e) = f[e.high_water]
  BY Zenon DEF sweep_empty_topics, IsSweep, SweepBase
<1> HIDE DEF f
<1>4. SweptUpTo(e, e.high_water, d)
  BY <1>2, <1>3, SweepRounds
<1>5. \A id \in Topics : d.names[id] # Nobody => id < e.high_water
  <2>1. e.high_water \in Nat
    BY SizeFacts DEF Sound, Engines
  <2>2. UnusedIds(d) /\ d.high_water = e.high_water
    BY <1>4 DEF SweptUpTo, Sound, TopicsOK
  <2> QED
    BY <2>1, <2>2, SizeFacts DEF UnusedIds, Topics
<1> QED
  BY <1>4, <1>5 DEF SweptUpTo, Swept

-----------------------------------------------------------------------------
(* compact_subscriptions.                                                  *)

\* The function of the recursion that collects the live rows.
KeepLive(e, list, r) == IF e.sockets[r] # Nobody THEN Append(list, r) ELSE list
IsLive(e, f) ==
  f = [k \in 0 .. e.sub_count |-> IF k = 0 THEN <<>> ELSE KeepLive(e, f[k - 1], k - 1)]

\* The rounds that collect live rows exist as a function.
LEMMA LiveExists ==
  ASSUME NEW e \in Engines
  PROVE  \E f : IsLive(e, f)
<1>1. PICK N \in Nat : N = e.sub_count /\ N <= MaxSubs
  BY SizeFacts DEF Engines
<1> DEFINE S == Seq(Nat)
           base == << >>
           g == [k \in 1 .. N |-> [c \in S |-> KeepLive(e, c, k - 1)]]
<1>2. base \in S
  OBVIOUS
<1>3. ASSUME NEW k \in 1 .. N, NEW c \in S PROVE KeepLive(e, c, k - 1) \in S
  <2>1. k - 1 \in Nat
    OBVIOUS
  <2>2. Append(c, k - 1) \in S
    BY <2>1, AppendFacts
  <2> QED
    BY <2>2 DEF KeepLive
<1>4. g \in [1 .. N -> [S -> S]]
  BY <1>3
<1>5. PICK f : Runs(f, S, base, N, g)
  <2> HIDE DEF g, base, S
  <2>1. IsLoop(S, base, N, g)
    BY <1>2, <1>4, Zenon DEF IsLoop
  <2> QED
    BY <2>1, RecursionExists, Zenon
<1> HIDE DEF S
<1>6. f \in [0 .. N -> S] /\ f[0] = base
      /\ \A k \in 1 .. N : f[k] = g[k][f[k - 1]]
  BY <1>5, Zenon DEF Runs
<1>7. \A k \in 1 .. N : k - 1 \in 0 .. N
  OBVIOUS
<1>8. \A k \in 1 .. N : f[k] = KeepLive(e, f[k - 1], k - 1)
  BY <1>6, <1>7
<1> HIDE DEF g, base
<1>9. f = [k \in 0 .. N |-> IF k = 0 THEN base ELSE KeepLive(e, f[k - 1], k - 1)]
  <2>1. \A k \in 0 .. N : k # 0 => k \in 1 .. N
    OBVIOUS
  <2> QED
    BY <1>6, <1>8, <2>1
<1> QED
  BY <1>1, <1>9, Zenon DEF IsLive, base

\* The live ones of the first k rows, in order.
LiveList(e, k, list) ==
  /\ list \in Seq(Nat) /\ Len(list) <= k
  /\ \A i, j \in 1 .. Len(list) : i < j => list[i] < list[j]
  /\ \A i \in 1 .. Len(list) : list[i] \in 0 .. k - 1 /\ e.sockets[list[i]] # Nobody
  /\ \A r \in 0 .. k - 1 : e.sockets[r] # Nobody => \E i \in 1 .. Len(list) : list[i] = r

\* The collected rows are the live ones, in order, by induction over the rounds.
LEMMA LiveRounds ==
  ASSUME NEW e \in Engines, NEW f, IsLive(e, f)
  PROVE  LiveList(e, e.sub_count, f[e.sub_count])
<1>1. PICK N \in Nat : N = e.sub_count /\ N <= MaxSubs
  BY SizeFacts DEF Engines
<1>2. f[0] = <<>> /\ \A k \in 1 .. N : f[k] = KeepLive(e, f[k - 1], k - 1)
  BY <1>1 DEF IsLive
<1> DEFINE T == {k \in 0 .. N : LiveList(e, k, f[k])}
<1>3. 0 \in T
  <2>1. LiveList(e, 0, <<>>)
    BY DEF LiveList
  <2> QED
    BY <1>2, <2>1
<1>4. ASSUME NEW k \in 1 .. N, k - 1 \in T PROVE k \in T
  <2>1. PICK r \in Nat : r = k - 1 /\ k = r + 1 /\ k \in 0 .. N
    OBVIOUS
  <2>2. PICK c, d : c = f[k - 1] /\ d = f[k] /\ LiveList(e, r, c) /\ d = KeepLive(e, c, r)
    BY <1>2, <1>4, <2>1
  <2>3. PICK m \in Nat :
          /\ c \in Seq(Nat) /\ m = Len(c) /\ m <= r
          /\ \A i, j \in 1 .. m : i < j => c[i] < c[j]
          /\ \A i \in 1 .. m : c[i] \in 0 .. r - 1 /\ e.sockets[c[i]] # Nobody
          /\ \A q \in 0 .. r - 1 : e.sockets[q] # Nobody => \E i \in 1 .. m : c[i] = q
    <3>1. /\ c \in Seq(Nat) /\ Len(c) <= r
          /\ \A i, j \in 1 .. Len(c) : i < j => c[i] < c[j]
          /\ \A i \in 1 .. Len(c) : c[i] \in 0 .. r - 1 /\ e.sockets[c[i]] # Nobody
          /\ \A q \in 0 .. r - 1 : e.sockets[q] # Nobody => \E i \in 1 .. Len(c) : c[i] = q
      BY <2>2, Zenon DEF LiveList
    <3>2. Len(c) \in Nat
      BY <3>1
    <3> QED
      BY <3>1, <3>2, Zenon
  <2>4. \A q \in 0 .. k - 1 : q \in 0 .. r - 1 \/ q = r
    BY <2>1
  <2>5. CASE e.sockets[r] = Nobody
    <3>1. d = c
      BY <2>2, <2>5 DEF KeepLive
    <3>2. \A i \in 1 .. m : c[i] \in 0 .. k - 1
      BY <2>1, <2>3
    <3>3. \A q \in 0 .. k - 1 : e.sockets[q] # Nobody => \E i \in 1 .. m : c[i] = q
      BY <2>3, <2>4, <2>5
    <3>4. m <= k
      BY <2>1, <2>3
    <3>5. LiveList(e, k, d)
      BY <2>3, <3>1, <3>2, <3>3, <3>4 DEF LiveList
    <3> QED
      BY <2>1, <2>2, <3>5
  <2>6. CASE e.sockets[r] # Nobody
    <3>1. /\ d \in Seq(Nat) /\ Len(d) = m + 1
          /\ \A i \in 1 .. m : d[i] = c[i]
          /\ d[m + 1] = r
      <4>1. d = Append(c, r)
        BY <2>2, <2>6 DEF KeepLive
      <4> QED
        BY <2>3, <4>1, AppendFacts
    <3>2. \A i \in 1 .. m + 1 : i \in 1 .. m \/ i = m + 1
      OBVIOUS
    <3>3. \A i \in 1 .. m : c[i] \in Nat /\ c[i] < r
      BY <2>3
    <3>4. ASSUME NEW i \in 1 .. m + 1, NEW j \in 1 .. m + 1, i < j PROVE d[i] < d[j]
      <4>1. i \in 1 .. m
        BY <3>4
      <4>2. CASE j \in 1 .. m
        BY <2>3, <3>1, <3>4, <4>1, <4>2
      <4>3. CASE j = m + 1
        BY <3>1, <3>3, <4>1, <4>3
      <4> QED
        BY <3>2, <4>2, <4>3
    <3>5. \A i \in 1 .. m + 1 : d[i] \in 0 .. k - 1 /\ e.sockets[d[i]] # Nobody
      <4>1. \A i \in 1 .. m : d[i] \in 0 .. k - 1 /\ e.sockets[d[i]] # Nobody
        BY <2>1, <2>3, <3>1
      <4>2. d[m + 1] \in 0 .. k - 1 /\ e.sockets[d[m + 1]] # Nobody
        BY <2>1, <2>6, <3>1
      <4> QED
        BY <3>2, <4>1, <4>2
    <3>6. ASSUME NEW q \in 0 .. k - 1, e.sockets[q] # Nobody
          PROVE  \E i \in 1 .. m + 1 : d[i] = q
      <4>1. CASE q = r
        BY <3>1, <4>1
      <4>2. CASE q \in 0 .. r - 1
        <5>1. PICK i \in 1 .. m : c[i] = q
          BY <2>3, <3>6, <4>2
        <5>2. i \in 1 .. m + 1
          OBVIOUS
        <5> QED
          BY <3>1, <5>1, <5>2
      <4> QED
        BY <2>4, <4>1, <4>2
    <3>7. m + 1 <= k
      BY <2>1, <2>3
    <3>8. LiveList(e, k, d)
      BY <3>1, <3>4, <3>5, <3>6, <3>7 DEF LiveList
    <3> QED
      BY <2>1, <2>2, <3>8
  <2> QED
    BY <2>5, <2>6
<1> HIDE DEF T
<1>5. \A k \in 0 .. N : k \in T
  BY <1>3, <1>4, UpTo, Zenon
<1>6. N \in T
  BY <1>5
<1> QED
  BY <1>1, <1>6 DEF T

Least(S) == IF S = {} THEN NoLink ELSE Min(S)
Greatest(S) == IF S = {} THEN NoLink ELSE Max(S)

\* The least row of a set, or NoLink.
LEMMA LeastFacts ==
  ASSUME NEW n \in Nat, NEW S \in SUBSET (0 .. n - 1)
  PROVE  \/ S = {} /\ Least(S) = NoLink
         \/ Least(S) \in S /\ \A y \in S : Least(S) <= y
<1>1. S \in SUBSET Nat
  OBVIOUS
<1> QED
  BY <1>1, LeastIs DEF Least

\* The greatest row of a set, or NoLink.
LEMMA GreatestFacts ==
  ASSUME NEW n \in Nat, NEW S \in SUBSET (0 .. n - 1)
  PROVE  \/ S = {} /\ Greatest(S) = NoLink
         \/ Greatest(S) \in S /\ \A y \in S : Greatest(S) >= y
<1>1. CASE S = {}
  BY <1>1 DEF Greatest
<1>2. CASE S # {}
  <2> DEFINE U == {n - y : y \in S}
  <2>1. U \in SUBSET Nat /\ U # {}
    <3>1. \A y \in S : n - y \in Nat
      OBVIOUS
    <3>2. PICK y \in S : n - y \in U
      BY <1>2
    <3> QED
      BY <3>1, <3>2
  <2>2. PICK u \in U : \A v \in U : u <= v
    BY <2>1, LeastNatural, Zenon
  <2>3. PICK x \in S : u = n - x
    OBVIOUS
  <2>4. \A y \in S : x >= y
    <3>1. SUFFICES ASSUME NEW y \in S PROVE x >= y
      OBVIOUS
    <3>2. n - x <= n - y /\ x \in Nat /\ y \in Nat
      BY <2>2, <2>3
    <3> QED
      BY <3>2
  <2>5. Max(S) \in S /\ \A y \in S : Max(S) >= y
    <3>1. \E z \in S : \A y \in S : z >= y
      BY <2>4
    <3> QED
      BY <3>1, Zenon DEF Max
  <2> QED
    BY <1>2, <2>5 DEF Greatest
<1> QED
  BY <1>1, <1>2

\* The registry with the rows of a list in the places from 0 on, and its lists relinked.
CompactedTo(e, list) ==
  LET n == Len(list)
      at(r) == list[r + 1]
      same(r) == {q \in 0 .. n - 1 : e.topic_ids[at(q)] = e.topic_ids[at(r)]}
      rows(id) == {q \in 0 .. n - 1 : e.topic_ids[at(q)] = id}
  IN  [e EXCEPT
        !.heads = [id \in Topics |-> Least(rows(id))],
        !.tails = [id \in Topics |-> Greatest(rows(id))],
        !.sockets = [r \in Rows |-> IF r < n THEN e.sockets[at(r)]
                                    ELSE IF r < e.sub_count THEN Nobody ELSE @[r]],
        !.topic_ids = [r \in Rows |-> IF r < n THEN e.topic_ids[at(r)] ELSE @[r]],
        !.next = [r \in Rows |-> IF r < n THEN Least({q \in same(r) : q > r})
                                 ELSE IF r < e.sub_count THEN NoLink ELSE @[r]],
        !.prev = [r \in Rows |-> IF r < n THEN Greatest({q \in same(r) : q < r})
                                 ELSE IF r < e.sub_count THEN NoLink ELSE @[r]],
        !.sub_count = n, !.retired = 0]

\* compact_subscriptions rebuilds the index of the rows packed along the list of live ones.
LEMMA CompactIs ==
  ASSUME NEW e \in Engines
  PROVE  \E list : /\ LiveList(e, e.sub_count, list)
                   /\ compact_subscriptions(e) = rebuild_sub_index(CompactedTo(e, list))
<1> DEFINE f == CHOOSE f : IsLive(e, f)
<1>1. \E g : IsLive(e, g)
  BY LiveExists
<1>2. IsLive(e, f)
  BY <1>1, Zenon
<1>3. compact_subscriptions(e) = rebuild_sub_index(CompactedTo(e, f[e.sub_count]))
  BY Zenon DEF compact_subscriptions, IsLive, KeepLive, CompactedTo, Least, Greatest
<1> HIDE DEF f
<1>4. LiveList(e, e.sub_count, f[e.sub_count])
  BY <1>2, LiveRounds
<1> QED
  BY <1>3, <1>4

\* The registry with other rows.
WithRows(e, socks, ids, n) ==
  [e EXCEPT !.sockets = socks, !.topic_ids = ids, !.sub_count = n, !.retired = 0]

\* Replacing the rows leaves the topics and the indexes alone.
LEMMA WithRowsFacts ==
  ASSUME NEW e \in Engines, NEW socks \in [Rows -> Sockets \cup {Nobody}],
         NEW ids \in [Rows -> Topics], NEW n \in 0 .. MaxSubs,
         NEW d, d = WithRows(e, socks, ids, n)
  PROVE  /\ d \in Engines /\ SameTopics(d, e) /\ SameTopicIndex(d, e) /\ SameSubIndex(d, e)
         /\ d.counts = e.counts /\ d.empty_topic_pending = e.empty_topic_pending
         /\ d.sub_count = n /\ d.retired = 0 /\ d.sockets = socks /\ d.topic_ids = ids
         /\ SameLinks(d, e)
<1>1. n \in Int /\ 0 \in Int
  BY SizeFacts
<1> QED
  BY <1>1 DEF WithRows, Engines, SameTopics, SameTopicIndex, SameSubIndex, SameLinks

\* The rows of a topic after one of the first n, and before one.
After(ids, n, r) == {q \in 0 .. n - 1 : ids[q] = ids[r] /\ q > r}
Before(ids, n, r) == {q \in 0 .. n - 1 : ids[q] = ids[r] /\ q < r}
OfTopic(ids, n, id) == {q \in 0 .. n - 1 : ids[q] = id}

\* What the compacted tables hold.
Packed(e, list, n, c) ==
  /\ c \in Engines /\ SameTopics(c, e) /\ SameTopicIndex(c, e) /\ SameSubIndex(c, e)
  /\ c.counts = e.counts /\ c.empty_topic_pending = e.empty_topic_pending
  /\ c.sub_count = n /\ c.retired = 0
  /\ \A r \in 0 .. n - 1 : /\ c.sockets[r] = e.sockets[list[r + 1]]
                           /\ c.topic_ids[r] = e.topic_ids[list[r + 1]]
                           /\ c.next[r] = Least(After(c.topic_ids, n, r))
                           /\ c.prev[r] = Greatest(Before(c.topic_ids, n, r))
  /\ \A r \in Rows : r >= n => c.sockets[r] = Nobody
  /\ \A id \in Topics : /\ c.heads[id] = Least(OfTopic(c.topic_ids, n, id))
                        /\ c.tails[id] = Greatest(OfTopic(c.topic_ids, n, id))

\* What the packed rows hold.
LEMMA PackedFields ==
  ASSUME NEW e \in Engines, RowsOK(e), NEW list, LiveList(e, e.sub_count, list), NEW n,
         n = Len(list), NEW c, c = CompactedTo(e, list)
  PROVE  Packed(e, list, n, c)
<1>1. /\ n \in Nat /\ n <= e.sub_count /\ e.sub_count \in 0 .. MaxSubs /\ e.sub_count \in Nat
      /\ \A i \in 1 .. n : list[i] \in 0 .. e.sub_count - 1
  <2>1. list \in Seq(Nat) /\ Len(list) <= e.sub_count
        /\ \A i \in 1 .. Len(list) : list[i] \in 0 .. e.sub_count - 1
    BY Zenon DEF LiveList
  <2>2. Len(list) \in Nat
    BY <2>1
  <2>3. e.sub_count \in 0 .. MaxSubs /\ e.sub_count \in Nat
    BY SizeFacts DEF Engines
  <2> QED
    BY <2>1, <2>2, <2>3
<1>2. /\ 0 .. n - 1 \in SUBSET Rows
      /\ \A r \in 0 .. n - 1 : r + 1 \in 1 .. n /\ list[r + 1] \in Rows
      /\ \A r \in Rows : r \in Nat /\ (r < n <=> r \in 0 .. n - 1)
  BY <1>1, SizeFacts DEF Rows
<1>3. /\ e.sockets \in [Rows -> Sockets \cup {Nobody}] /\ e.topic_ids \in [Rows -> Topics]
      /\ e.next \in [Rows -> Links] /\ e.prev \in [Rows -> Links]
  BY DEF Engines
<1> DEFINE ids == [r \in Rows |-> IF r < n THEN e.topic_ids[list[r + 1]] ELSE e.topic_ids[r]]
           socks == [r \in Rows |-> IF r < n THEN e.sockets[list[r + 1]]
                                    ELSE IF r < e.sub_count THEN Nobody ELSE e.sockets[r]]
           same(r) == {q \in 0 .. n - 1 : e.topic_ids[list[q + 1]] = e.topic_ids[list[r + 1]]}
           rows(id) == {q \in 0 .. n - 1 : e.topic_ids[list[q + 1]] = id}
           nx == [r \in Rows |-> IF r < n THEN Least({q \in same(r) : q > r})
                                 ELSE IF r < e.sub_count THEN NoLink ELSE e.next[r]]
           pv == [r \in Rows |-> IF r < n THEN Greatest({q \in same(r) : q < r})
                                 ELSE IF r < e.sub_count THEN NoLink ELSE e.prev[r]]
           hd == [id \in Topics |-> Least(rows(id))]
           tl == [id \in Topics |-> Greatest(rows(id))]
<1>4. c = [e EXCEPT !.heads = hd, !.tails = tl, !.sockets = socks, !.topic_ids = ids,
                    !.next = nx, !.prev = pv, !.sub_count = n, !.retired = 0]
  BY DEF CompactedTo
<1>5. ids \in [Rows -> Topics] /\ socks \in [Rows -> Sockets \cup {Nobody}]
  BY <1>2, <1>3
<1>6. \A r \in 0 .. n - 1 : ids[r] = e.topic_ids[list[r + 1]] /\ socks[r] = e.sockets[list[r + 1]]
  BY <1>2
<1>7. \A S \in SUBSET (0 .. n - 1) : Least(S) \in Links /\ Greatest(S) \in Links
  <2>1. SUFFICES ASSUME NEW S \in SUBSET (0 .. n - 1)
                 PROVE  Least(S) \in Links /\ Greatest(S) \in Links
    OBVIOUS
  <2> QED
    BY <1>1, <1>2, LeastFacts, GreatestFacts DEF Links
<1>8. /\ nx \in [Rows -> Links] /\ pv \in [Rows -> Links]
  BY <1>3, <1>7 DEF Links
<1>9. /\ hd \in [Topics -> Links] /\ tl \in [Topics -> Links]
  BY <1>7
<1>10. ASSUME NEW r \in 0 .. n - 1
       PROVE  /\ {q \in same(r) : q > r} = After(ids, n, r)
              /\ {q \in same(r) : q < r} = Before(ids, n, r)
  BY <1>6 DEF After, Before
<1>11. ASSUME NEW id \in Topics PROVE rows(id) = OfTopic(ids, n, id)
  BY <1>6 DEF OfTopic
<1>12. \A r \in 0 .. n - 1 : nx[r] = Least(After(ids, n, r)) /\ pv[r] = Greatest(Before(ids, n, r))
  BY <1>2, <1>10
<1>13. \A id \in Topics : /\ hd[id] = Least(OfTopic(ids, n, id))
                          /\ tl[id] = Greatest(OfTopic(ids, n, id))
  BY <1>11
<1>14. \A r \in Rows : r >= n => socks[r] = Nobody
  BY <1>1, <1>2 DEF RowsOK
<1> HIDE DEF ids, socks, nx, pv, hd, tl
<1>15. /\ c \in Engines /\ SameTopics(c, e) /\ SameTopicIndex(c, e) /\ SameSubIndex(c, e)
       /\ c.counts = e.counts /\ c.empty_topic_pending = e.empty_topic_pending
       /\ c.sub_count = n /\ c.retired = 0 /\ c.sockets = socks /\ c.topic_ids = ids
       /\ c.next = nx /\ c.prev = pv /\ c.heads = hd /\ c.tails = tl
  <2>1. n \in 0 .. MaxSubs
    BY <1>1, SizeFacts
  <2>2. PICK b : b = WithLinks(e, hd, tl, nx, pv)
    OBVIOUS
  <2>3. /\ OnlyLinksDiffer(e, b)
        /\ b.heads = hd /\ b.tails = tl /\ b.next = nx /\ b.prev = pv
    BY <1>8, <1>9, <2>2, WithLinksFacts
  <2>4. b \in Engines
    BY <2>3 DEF OnlyLinksDiffer
  <2>5. c = WithRows(b, socks, ids, n)
    BY <1>4, <2>2 DEF WithLinks, WithRows, Engines
  <2>6. /\ c \in Engines /\ SameTopics(c, b) /\ SameTopicIndex(c, b) /\ SameSubIndex(c, b)
        /\ c.counts = b.counts /\ c.empty_topic_pending = b.empty_topic_pending
        /\ c.sub_count = n /\ c.retired = 0 /\ c.sockets = socks /\ c.topic_ids = ids
        /\ SameLinks(c, b)
    BY <1>5, <2>1, <2>4, <2>5, WithRowsFacts, SMTT(20)
  <2> QED
    BY <2>3, <2>6
       DEF OnlyLinksDiffer, SameTopics, SameTopicIndex, SameSubIndex, SameLinks, SameCounts
<1> QED
  BY <1>6, <1>12, <1>13, <1>14, <1>15 DEF Packed

\* Sets of rows that correspond one to one have the same size.
LEMMA SameSize ==
  ASSUME NEW S \in SUBSET Rows, NEW T \in SUBSET Rows, NEW g \in [S -> T],
         \A a, b \in S : g[a] = g[b] => a = b, \A t \in T : \E s \in S : g[s] = t
  PROVE  Cardinality(S) = Cardinality(T)
<1>1. IsFiniteSet(S)
  BY RowSetsFinite
<1>2. g \in Bijection(S, T)
  BY DEF Bijection, Injection, Surjection, IsInjective
<1>3. ExistsBijection(S, T)
  BY <1>2 DEF ExistsBijection
<1> QED
  BY <1>1, <1>3, FS_Bijection

\* Rows in the order of their places.
InPlace == [r \in Rows |-> r]

\* After compaction every list follows the order of the rows.
LEMMA PackedLinked ==
  ASSUME NEW e, NEW list, NEW n \in Nat, NEW c, Packed(e, list, n, c), 0 .. n - 1 \in SUBSET Rows
  PROVE  Linked(c, 0 .. n - 1, InPlace)
<1> DEFINE D == 0 .. n - 1
<1>1. \A r \in D : r \in Nat /\ InPlace[r] = r
  BY DEF InPlace
<1>2. PICK ids : ids = c.topic_ids
  OBVIOUS
<1>3. ASSUME NEW r \in D PROVE IsNext(ids, D, InPlace, r, c.next[r])
  <2>1. PICK x : x = c.next[r] /\ x = Least(After(ids, n, r))
    BY <1>2 DEF Packed
  <2>2. \/ After(ids, n, r) = {} /\ x = NoLink
        \/ x \in After(ids, n, r) /\ \A y \in After(ids, n, r) : x <= y
    BY <2>1, LeastFacts DEF After
  <2>3. CASE After(ids, n, r) = {} /\ x = NoLink
    <3>1. \A q \in D : ids[q] = ids[r] => q <= r
      BY <1>1, <2>3 DEF After
    <3> QED
      BY <1>1, <2>1, <2>3, <3>1 DEF IsNext
  <2>4. CASE x \in After(ids, n, r) /\ \A y \in After(ids, n, r) : x <= y
    <3>1. x \in D /\ ids[x] = ids[r] /\ x > r /\ x # NoLink
      BY <2>4 DEF After, NoLink
    <3>2. \A q \in D : ids[q] = ids[r] => q <= r \/ x <= q
      BY <1>1, <2>4 DEF After
    <3> QED
      BY <1>1, <2>1, <3>1, <3>2 DEF IsNext
  <2> QED
    BY <2>2, <2>3, <2>4
<1>4. ASSUME NEW r \in D PROVE IsPrev(ids, D, InPlace, r, c.prev[r])
  <2>1. PICK x : x = c.prev[r] /\ x = Greatest(Before(ids, n, r))
    BY <1>2 DEF Packed
  <2>2. \/ Before(ids, n, r) = {} /\ x = NoLink
        \/ x \in Before(ids, n, r) /\ \A y \in Before(ids, n, r) : x >= y
    BY <2>1, GreatestFacts DEF Before
  <2>3. CASE Before(ids, n, r) = {} /\ x = NoLink
    <3>1. \A q \in D : ids[q] = ids[r] => r <= q
      BY <1>1, <2>3 DEF Before
    <3> QED
      BY <1>1, <2>1, <2>3, <3>1 DEF IsPrev
  <2>4. CASE x \in Before(ids, n, r) /\ \A y \in Before(ids, n, r) : x >= y
    <3>1. x \in D /\ ids[x] = ids[r] /\ x < r /\ x # NoLink
      BY <2>4 DEF Before, NoLink
    <3>2. \A q \in D : ids[q] = ids[r] => r <= q \/ q <= x
      BY <1>1, <2>4 DEF Before
    <3> QED
      BY <1>1, <2>1, <3>1, <3>2 DEF IsPrev
  <2> QED
    BY <2>2, <2>3, <2>4
<1>5. ASSUME NEW id \in Topics
      PROVE  IsHead(ids, D, InPlace, id, c.heads[id]) /\ IsTail(ids, D, InPlace, id, c.tails[id])
  <2>1. PICK h, t : /\ h = c.heads[id] /\ h = Least(OfTopic(ids, n, id))
                    /\ t = c.tails[id] /\ t = Greatest(OfTopic(ids, n, id))
    BY <1>2 DEF Packed
  <2>2. \/ OfTopic(ids, n, id) = {} /\ h = NoLink /\ t = NoLink
        \/ /\ h \in OfTopic(ids, n, id) /\ \A y \in OfTopic(ids, n, id) : h <= y
           /\ t \in OfTopic(ids, n, id) /\ \A y \in OfTopic(ids, n, id) : t >= y
    <3>1. OfTopic(ids, n, id) \in SUBSET (0 .. n - 1)
      BY DEF OfTopic
    <3> QED
      BY <2>1, <3>1, LeastFacts, GreatestFacts
  <2>3. CASE OfTopic(ids, n, id) = {} /\ h = NoLink /\ t = NoLink
    BY <2>1, <2>3 DEF IsHead, IsTail, OfTopic
  <2>4. CASE /\ h \in OfTopic(ids, n, id) /\ \A y \in OfTopic(ids, n, id) : h <= y
             /\ t \in OfTopic(ids, n, id) /\ \A y \in OfTopic(ids, n, id) : t >= y
    <3>1. h \in D /\ ids[h] = id /\ t \in D /\ ids[t] = id /\ h # NoLink /\ t # NoLink
      BY <2>4 DEF OfTopic, NoLink
    <3>2. \A q \in D : ids[q] = id => h <= q /\ q <= t
      BY <1>1, <2>4 DEF OfTopic
    <3> QED
      BY <1>1, <2>1, <3>1, <3>2 DEF IsHead, IsTail
  <2> QED
    BY <2>2, <2>3, <2>4
<1>6. \A q, r \in D : InPlace[q] = InPlace[r] => q = r
  BY <1>1
<1> HIDE DEF D
<1>7. Linked(c, D, InPlace)
  BY <1>2, <1>3, <1>4, <1>5, <1>6, Zenon DEF Linked
<1> QED
  BY <1>7 DEF D

\* What compact_subscriptions promises.
Compacted(e, d) ==
  /\ Sound(d) /\ (\E ord, top : Ordered(d, ord, top)) /\ SameTopics(d, e)
  /\ d.counts = e.counts /\ d.retired = 0 /\ d.empty_topic_pending = e.empty_topic_pending
  /\ DropsOnly(e, d)

\* compact_subscriptions keeps the registry sound, keeps every live row and no tombstone.
LEMMA CompactSound ==
  ASSUME NEW e, Sound(e), NEW d, d = compact_subscriptions(e)
  PROVE  Compacted(e, d)
<1>1. e \in Engines /\ RowsOK(e) /\ UsedRows(e) \in SUBSET Rows
  BY UsedRowsType DEF Sound
<1>2. PICK list : /\ LiveList(e, e.sub_count, list)
                  /\ d = rebuild_sub_index(CompactedTo(e, list))
  BY <1>1, CompactIs
<1>3. PICK n : n = Len(list)
  OBVIOUS
<1>4. PICK c : c = CompactedTo(e, list) /\ d = rebuild_sub_index(c)
  BY <1>2
<1>5. Packed(e, list, n, c)
  BY <1>1, <1>2, <1>3, <1>4, PackedFields
<1>6. /\ n \in Nat /\ n <= e.sub_count
      /\ \A i, j \in 1 .. n : i < j => list[i] < list[j]
      /\ \A i \in 1 .. n : list[i] \in UsedRows(e) /\ e.sockets[list[i]] # Nobody
      /\ \A r \in UsedRows(e) : e.sockets[r] # Nobody => \E i \in 1 .. n : list[i] = r
  <2>1. /\ list \in Seq(Nat) /\ n <= e.sub_count
        /\ \A i, j \in 1 .. n : i < j => list[i] < list[j]
        /\ \A i \in 1 .. n : list[i] \in UsedRows(e) /\ e.sockets[list[i]] # Nobody
        /\ \A r \in UsedRows(e) : e.sockets[r] # Nobody => \E i \in 1 .. n : list[i] = r
    BY <1>2, <1>3, Zenon DEF LiveList, UsedRows
  <2>2. n \in Nat
    BY <1>3, <2>1
  <2> QED
    BY <2>1, <2>2
<1>7. /\ c \in Engines /\ SameTopics(c, e) /\ SameTopicIndex(c, e)
      /\ c.counts = e.counts /\ c.empty_topic_pending = e.empty_topic_pending
      /\ c.sub_count = n /\ c.retired = 0
      /\ \A r \in 0 .. n - 1 : /\ c.sockets[r] = e.sockets[list[r + 1]]
                               /\ c.topic_ids[r] = e.topic_ids[list[r + 1]]
      /\ \A r \in Rows : r >= n => c.sockets[r] = Nobody
  BY <1>5 DEF Packed
<1>8. UsedRows(c) = 0 .. n - 1 /\ 0 .. n - 1 \in SUBSET Rows
  BY <1>7, UsedRowsType DEF UsedRows
<1>9. \A r \in 0 .. n - 1 : /\ r + 1 \in 1 .. n /\ list[r + 1] \in UsedRows(e)
                            /\ e.sockets[list[r + 1]] # Nobody
  BY <1>6
<1>10. \A q, r \in 0 .. n - 1 : list[q + 1] = list[r + 1] => q = r
  <2>1. SUFFICES ASSUME NEW q \in 0 .. n - 1, NEW r \in 0 .. n - 1, list[q + 1] = list[r + 1],
                        q < r
                 PROVE  FALSE
    OBVIOUS
  <2>2. list[q + 1] < list[r + 1] /\ list[q + 1] \in Nat
    <3>1. \A x \in Rows : x \in Nat
      BY SizeFacts DEF Rows
    <3> QED
      BY <1>1, <1>6, <1>9, <2>1, <3>1
  <2> QED
    BY <2>1, <2>2
<1>11. TopicsOK(c) /\ TopicIndexOK(c) /\ c.names = e.names
  BY <1>7, SameTopicsKeep DEF Sound, SameTopics
<1>12. RowsOK(c)
  <2>1. \A r \in UsedRows(c) : c.names[c.topic_ids[r]] # Nobody
    BY <1>1, <1>7, <1>8, <1>9, <1>11 DEF RowsOK
  <2>2. UniqueKeys(c.sockets, c.topic_ids, UsedRows(c))
    <3>1. SUFFICES ASSUME NEW q \in 0 .. n - 1, NEW r \in 0 .. n - 1,
                          c.sockets[q] # Nobody, c.sockets[q] = c.sockets[r],
                          c.topic_ids[q] = c.topic_ids[r]
                   PROVE  q = r
      BY <1>8 DEF UniqueKeys
    <3>2. list[q + 1] = list[r + 1]
      BY <1>1, <1>7, <1>9, <3>1 DEF RowsOK, UniqueKeys
    <3> QED
      BY <1>10, <3>2
  <2> QED
    BY <1>7, <2>1, <2>2 DEF RowsOK
<1>13. CountsOK(c)
  <2>1. DeadRows(c) = {}
    BY <1>7, <1>8, <1>9 DEF DeadRows
  <2>2. ASSUME NEW id \in Topics PROVE Cardinality(LiveRows(c, id)) = Cardinality(LiveRows(e, id))
    <3>1. PICK S \in SUBSET Rows : S = LiveRows(c, id)
      BY <1>7, SetOfRows
    <3>2. PICK T \in SUBSET Rows : T = LiveRows(e, id)
      BY <1>1, SetOfRows
    <3>3. \A q : q \in S <=> q \in 0 .. n - 1 /\ e.topic_ids[list[q + 1]] = id
      <4>1. \A q : q \in S <=> q \in UsedRows(c) /\ c.topic_ids[q] = id /\ c.sockets[q] # Nobody
        BY <3>1, LiveRowsAre
      <4>2. \A q \in 0 .. n - 1 : c.topic_ids[q] = e.topic_ids[list[q + 1]] /\ c.sockets[q] # Nobody
        BY <1>7, <1>9
      <4> QED
        BY <1>8, <4>1, <4>2, Zenon
    <3>4. \A r : r \in T <=> r \in UsedRows(e) /\ e.topic_ids[r] = id /\ e.sockets[r] # Nobody
      BY <3>2, LiveRowsAre
    <3> DEFINE g == [q \in S |-> list[q + 1]]
    <3>5. g \in [S -> T]
      BY <1>9, <3>3, <3>4
    <3>6. \A a, b \in S : g[a] = g[b] => a = b
      BY <1>10, <3>3
    <3>7. ASSUME NEW t \in T PROVE \E s \in S : g[s] = t
      <4>1. PICK i \in 1 .. n : list[i] = t
        BY <1>6, <3>4
      <4>2. PICK q \in 0 .. n - 1 : q + 1 = i
        BY <1>6
      <4> QED
        BY <3>3, <3>4, <4>1, <4>2
    <3> HIDE DEF g
    <3> QED
      BY <3>1, <3>2, <3>5, <3>6, <3>7, SameSize
  <2> QED
    BY <1>7, <2>1, <2>2, FS_EmptySet DEF Sound, CountsOK
<1>14. PICK t \in SubTables : /\ d = WithSubIndex(c, t, 0)
                              /\ SubIndexed(t, c.sockets, c.topic_ids, UsedRows(c))
  BY <1>4, <1>7, RebuildSubs
<1>15. d \in Engines /\ SameTables(d, c) /\ SameTopicIndex(d, c) /\ d.sub_index = t
  BY <1>7, <1>14, WithSubIndexFacts
<1>16. SubIndexOK(d) /\ TopicIndexOK(d)
  BY <1>11, <1>14, <1>15
     DEF SubIndexOK, TopicIndexOK, SameTables, SameRows, SameTopics, SameTopicIndex, UsedRows
<1>17. Sound(d)
  BY <1>11, <1>12, <1>13, <1>15, <1>16, SameTablesKeep DEF Sound
<1>18. Ordered(c, InPlace, n)
  <2>1. InPlace \in Orders
    <3>1. \A r \in Rows : r \in Nat
      BY SizeFacts DEF Rows
    <3> QED
      BY <3>1 DEF InPlace, Orders
  <2>2. \A r \in 0 .. n - 1 : InPlace[r] < n
    BY <1>6, <1>8 DEF InPlace
  <2> QED
    BY <1>5, <1>6, <1>8, <2>1, <2>2, PackedLinked DEF Ordered
<1>19. Ordered(d, InPlace, n)
  BY <1>15, <1>18, SameTablesKeep
<1>20. /\ SameTopics(d, e) /\ d.counts = e.counts /\ d.retired = 0
       /\ d.empty_topic_pending = e.empty_topic_pending
       /\ UsedRows(d) = 0 .. n - 1 /\ d.sockets = c.sockets
  BY <1>7, <1>8, <1>15 DEF SameTables, SameTopics, SameRows, SameCounts, UsedRows
<1>21. DropsOnly(e, d)
  BY <1>7, <1>9, <1>20 DEF DropsOnly
<1> QED
  BY <1>17, <1>19, <1>20, <1>21 DEF Compacted

-----------------------------------------------------------------------------
(* end_publish and unsubscribe.                                            *)

\* What holds outside publish: no tombstone, and no topic without subscribers.
Clean(e) ==
  /\ e.retired = 0 /\ ~e.empty_topic_pending
  /\ \A id \in Topics : e.names[id] # Nobody => e.counts[id] # 0

\* A call outside publish that drops rows.
Settled(e, d) ==
  Sound(d) /\ (\E ord, top : Ordered(d, ord, top)) /\ Clean(d) /\ DropsOnly(e, d)

\* A call inside publish that drops rows.
Shrunk(e, ord, top, d) ==
  /\ Sound(d) /\ Ordered(d, ord, top) /\ Grown(e, ord, top, d, ord)
  /\ Remembered(e) => Remembered(d)
  /\ UsedRows(d) = UsedRows(e)
  /\ \A r \in UsedRows(d) : d.sockets[r] = e.sockets[r] \/ d.sockets[r] = Nobody

\* Dropping subscriptions depends on the rows only.
LEMMA SameRowsDrop ==
  ASSUME NEW e, NEW c, NEW d, DropsOnly(e, c), SameRows(d, c)
  PROVE  DropsOnly(e, d)
  BY DEF DropsOnly, SameRows, UsedRows

\* The end of the outermost publish leaves a sound and clean registry.
LEMMA EndPublishSound ==
  ASSUME NEW e, Sound(e), NEW ord, NEW top, Ordered(e, ord, top), Remembered(e),
         NEW d, d = end_publish(e, 0)
  PROVE  Settled(e, d)
<1>1. PICK c : c = IF e.retired # 0 THEN compact_subscriptions(e) ELSE e
  OBVIOUS
<1>2. d = IF c.empty_topic_pending THEN sweep_empty_topics(c) ELSE c
  BY <1>1 DEF end_publish
<1>3. /\ Sound(c) /\ (\E o, t : Ordered(c, o, t)) /\ c.retired = 0 /\ DropsOnly(e, c)
      /\ c.names = e.names /\ c.counts = e.counts
      /\ c.empty_topic_pending = e.empty_topic_pending
  <2>1. CASE e.retired # 0
    BY <1>1, <2>1, CompactSound DEF Compacted, SameTopics
  <2>2. CASE e.retired = 0
    BY <1>1, <2>2 DEF DropsOnly
  <2> QED
    BY <2>1, <2>2
<1>4. CASE c.empty_topic_pending
  <2>1. Swept(c, d)
    BY <1>2, <1>3, <1>4, SweepSound
  <2>2. /\ Sound(d) /\ SameRows(d, c) /\ d.retired = c.retired /\ d.empty_topic_pending = FALSE
        /\ \A o, t : Ordered(c, o, t) => Ordered(d, o, t)
        /\ \A id \in Topics : d.names[id] # Nobody => d.counts[id] # 0
    BY <2>1 DEF Swept
  <2>3. DropsOnly(e, d)
    BY <1>3, <2>2, SameRowsDrop
  <2>4. Clean(d)
    BY <1>3, <2>2 DEF Clean
  <2> QED
    BY <1>3, <2>2, <2>3, <2>4 DEF Settled
<1>5. CASE ~c.empty_topic_pending
  <2>1. d = c
    BY <1>2, <1>5
  <2>2. \A id \in Topics : d.names[id] # Nobody => d.counts[id] # 0
    BY <1>3, <1>5, <2>1 DEF Remembered
  <2>3. Clean(d)
    BY <1>3, <1>5, <2>1, <2>2 DEF Clean
  <2> QED
    BY <1>3, <2>1, <2>3 DEF Settled
<1> QED
  BY <1>4, <1>5

\* The row that unsubscribe looks up, after the indexes have been refreshed.
Refreshed(e, ord, top, e1) ==
  Sound(e1) /\ SameTables(e1, e) /\ Ordered(e1, ord, top)

\* What unsubscribe does once it has looked the row up.
DropRow(e1, depth, id, row) ==
  IF row = NoLink THEN e1
  ELSE IF depth > 0 THEN retire_subscription(e1, row)
  ELSE IF remove_subscription(e1, row).counts[id] = 0
  THEN remove_topic(remove_subscription(e1, row), id) ELSE remove_subscription(e1, row)

\* unsubscribe finds the row of its subscription, or none.
LEMMA UnsubscribeLooksUp ==
  ASSUME NEW e, Sound(e), NEW ord, NEW top, Ordered(e, ord, top), NEW depth \in Nat,
         NEW s \in Sockets, NEW name \in Names, NEW d, d = unsubscribe(e, depth, s, name)
  PROVE  \E e1, id, row :
           /\ Refreshed(e, ord, top, e1) /\ d = DropRow(e1, depth, id, row)
           /\ row # NoLink => /\ id \in Topics /\ row \in UsedRows(e1)
                              /\ e1.topic_ids[row] = id /\ e1.names[id] # Nobody
<1>1. PICK e0 : e0 = fresh_topic_index(e)
  OBVIOUS
<1>2. Sound(e0) /\ SameTables(e0, e) /\ Ordered(e0, ord, top)
  BY <1>1, FreshTopicsSound
<1>3. PICK id : id = find_topic(e0, name)
  OBVIOUS
<1>4. PICK e1 : e1 = IF id = NoLink THEN e0 ELSE fresh_sub_index(e0)
  OBVIOUS
<1>5. Sound(e1) /\ SameTables(e1, e0) /\ Ordered(e1, ord, top)
  <2>1. CASE id = NoLink
    BY <1>2, <1>4, <2>1 DEF SameTables, SameTopics, SameRows, SameCounts, SameLinks
  <2>2. CASE id # NoLink
    BY <1>2, <1>4, <2>2, FreshSubsSound
  <2> QED
    BY <2>1, <2>2
<1>6. SameTables(e1, e)
  BY <1>2, <1>5, SameTablesTransitive
<1>7. PICK row : row = IF id = NoLink THEN NoLink ELSE find_subscription(e1, s, id)
  OBVIOUS
<1>8. d = DropRow(e1, depth, id, row)
  BY <1>1, <1>3, <1>4, <1>7 DEF unsubscribe, DropRow
<1>9. ASSUME row # NoLink
      PROVE  /\ id \in Topics /\ row \in UsedRows(e1)
             /\ e1.topic_ids[row] = id /\ e1.names[id] # Nobody
  <2>1. e1 \in Engines /\ SubIndexOK(e1) /\ RowsOK(e1) /\ e0 \in Engines /\ TopicIndexOK(e0)
    BY <1>2, <1>5 DEF Sound
  <2>2. id \in Topics
    BY <1>3, <1>7, <1>9, <2>1, FindTopic
  <2>3. row = find_subscription(e1, s, id)
    BY <1>7, <1>9
  <2>4. row \in UsedRows(e1) /\ e1.topic_ids[row] = id
    BY <1>9, <2>1, <2>2, <2>3, FindSubscription
  <2> QED
    BY <2>1, <2>2, <2>4 DEF RowsOK
<1>10. Refreshed(e, ord, top, e1)
  BY <1>5, <1>6 DEF Refreshed
<1> QED
  BY <1>8, <1>9, <1>10

\* A call that only refreshes the indexes.
LEMMA RefreshKeeps ==
  ASSUME NEW e, NEW ord, NEW top, NEW e1, Refreshed(e, ord, top, e1)
  PROVE  /\ Clean(e) => Settled(e, e1) /\ Clean(e1)
         /\ Shrunk(e, ord, top, e1)
<1>1. /\ e1.names = e.names /\ e1.sockets = e.sockets /\ e1.topic_ids = e.topic_ids
      /\ e1.counts = e.counts /\ e1.retired = e.retired
      /\ e1.empty_topic_pending = e.empty_topic_pending
      /\ UsedRows(e1) = UsedRows(e)
  BY SameTablesFields DEF Refreshed
<1>2. Clean(e) => Clean(e1)
  BY <1>1 DEF Clean
<1>3. DropsOnly(e, e1)
  BY <1>1 DEF DropsOnly
<1>4. Remembered(e) => Remembered(e1)
  BY <1>1 DEF Remembered
<1>5. Grown(e, ord, top, e1, ord)
  BY SameTablesGrown DEF Refreshed
<1> QED
  BY <1>1, <1>2, <1>3, <1>4, <1>5 DEF Settled, Shrunk, Refreshed

\* Inside a publish, unsubscribe only turns a row into a tombstone.
LEMMA UnsubscribeInside ==
  ASSUME NEW e, Sound(e), NEW ord, NEW top, Ordered(e, ord, top), NEW depth \in Nat, depth > 0,
         NEW s \in Sockets, NEW name \in Names, NEW d, d = unsubscribe(e, depth, s, name)
  PROVE  Shrunk(e, ord, top, d)
<1>1. PICK e1, id, row :
           /\ Refreshed(e, ord, top, e1) /\ d = DropRow(e1, depth, id, row)
           /\ row # NoLink => /\ id \in Topics /\ row \in UsedRows(e1)
                              /\ e1.topic_ids[row] = id /\ e1.names[id] # Nobody
  BY UnsubscribeLooksUp
<1>2. CASE row = NoLink
  BY <1>1, <1>2, RefreshKeeps DEF DropRow
<1>3. CASE row # NoLink
  <2>1. d = retire_subscription(e1, row) /\ row \in UsedRows(e1)
    BY <1>1, <1>3 DEF DropRow
  <2>2. Sound(e1) /\ Ordered(e1, ord, top) /\ SameTables(e1, e)
    BY <1>1 DEF Refreshed
  <2>3. Retired(e1, ord, top, row, d)
    BY <2>1, <2>2, RetireSound
  <2>4. /\ Sound(d) /\ Ordered(d, ord, top) /\ Grown(e1, ord, top, d, ord)
        /\ Remembered(e1) => Remembered(d)
        /\ d.sub_count = e1.sub_count
    BY <2>3 DEF Retired
  <2>5. /\ e1.names = e.names /\ e1.sockets = e.sockets /\ e1.topic_ids = e.topic_ids
        /\ UsedRows(e1) = UsedRows(e) /\ UsedRows(d) = UsedRows(e1)
    BY <2>2, <2>4, SameTablesFields DEF UsedRows
  <2>6. Grown(e, ord, top, d, ord)
    BY <2>4, <2>5, Zenon DEF Grown
  <2>7. \A r \in UsedRows(d) : d.sockets[r] = e.sockets[r] \/ d.sockets[r] = Nobody
    BY <2>5, <2>6 DEF Grown
  <2>8. Remembered(e) => Remembered(d)
    BY <1>1, <2>4, RefreshKeeps DEF Shrunk
  <2> QED
    BY <2>4, <2>5, <2>6, <2>7, <2>8 DEF Shrunk
<1> QED
  BY <1>2, <1>3

\* Rows taken out by swap come from rows.
LEMMA RemovedDrops ==
  ASSUME NEW e, Sound(e), NEW row \in UsedRows(e), NEW top, NEW d, Removed(e, row, top, d)
  PROVE  DropsOnly(e, d)
<1>1. PICK last : last = e.sub_count - 1
  OBVIOUS
<1>2. e.sub_count \in Nat /\ UsedRows(e) = 0 .. last /\ UsedRows(d) = 0 .. last - 1 /\ last \in Nat
  BY <1>1, SizeFacts DEF Sound, Engines, Removed, UsedRows
<1>3. \A r \in UsedRows(d) : /\ From(row, last, r) \in UsedRows(e)
                             /\ d.sockets[r] = e.sockets[From(row, last, r)]
  BY <1>1, <1>2 DEF Removed, From
<1> QED
  BY <1>3 DEF DropsOnly

\* Outside a publish, unsubscribe leaves a sound and clean registry.
LEMMA UnsubscribeOutside ==
  ASSUME NEW e, Sound(e), NEW ord, NEW top, Ordered(e, ord, top), Clean(e),
         NEW s \in Sockets, NEW name \in Names, NEW d, d = unsubscribe(e, 0, s, name)
  PROVE  Settled(e, d)
<1>1. PICK e1, id, row :
           /\ Refreshed(e, ord, top, e1) /\ d = DropRow(e1, 0, id, row)
           /\ row # NoLink => /\ id \in Topics /\ row \in UsedRows(e1)
                              /\ e1.topic_ids[row] = id /\ e1.names[id] # Nobody
  BY UnsubscribeLooksUp
<1>2. CASE row = NoLink
  BY <1>1, <1>2, RefreshKeeps DEF DropRow
<1>3. CASE row # NoLink
  <2>1. PICK c : c = remove_subscription(e1, row)
    OBVIOUS
  <2>2. d = (IF c.counts[id] = 0 THEN remove_topic(c, id) ELSE c) /\ row \in UsedRows(e1)
        /\ id \in Topics /\ e1.topic_ids[row] = id /\ e1.names[id] # Nobody
    BY <1>1, <1>3, <2>1 DEF DropRow
  <2>3. Sound(e1) /\ Ordered(e1, ord, top) /\ SameTables(e1, e) /\ Clean(e1)
    BY <1>1, RefreshKeeps DEF Refreshed
  <2>4. Removed(e1, row, top, c)
    BY <2>1, <2>2, <2>3, RemoveSound DEF Clean
  <2>5. /\ Sound(c) /\ (\E o : Ordered(c, o, top)) /\ c.names = e1.names /\ c.retired = 0
        /\ ~c.empty_topic_pending /\ c.counts = [e1.counts EXCEPT ![id] = @ - 1]
    BY <2>2, <2>3, <2>4 DEF Removed, Clean, SameTopics
  <2>6. \A i \in Topics : i # id /\ c.names[i] # Nobody => c.counts[i] # 0
    BY <2>3, <2>5 DEF Clean, Sound, Engines
  <2>7. DropsOnly(e, c)
    BY <2>2, <2>3, <2>4, RemovedDrops, SameTablesFields DEF DropsOnly
  <2>8. CASE c.counts[id] # 0
    <3>1. d = c
      BY <2>2, <2>8
    <3>2. Clean(c)
      BY <2>5, <2>6, <2>8 DEF Clean
    <3> QED
      BY <2>5, <2>7, <3>1, <3>2 DEF Settled
  <2>9. CASE c.counts[id] = 0
    <3>1. d = remove_topic(c, id) /\ c.names[id] # Nobody
      BY <2>2, <2>5, <2>9
    <3>2. \A r \in UsedRows(c) : c.topic_ids[r] # id
      BY <2>2, <2>5, <2>9, EmptyHasNoRows, ZenonT(40)
    <3>3. TopicRemoved(c, id, d)
      BY <2>2, <2>5, <3>1, <3>2, RemoveTopicSound
    <3>4. /\ Sound(d) /\ SameRows(d, c) /\ SameCounts(d, c)
          /\ d.names = [c.names EXCEPT ![id] = Nobody]
          /\ \A o, t : Ordered(c, o, t) => Ordered(d, o, t)
      BY <3>3 DEF TopicRemoved
    <3>5. \A i \in Topics : d.names[i] # Nobody => i # id /\ c.names[i] # Nobody
      BY <2>5, <3>4 DEF Sound, Engines
    <3>6. Clean(d)
      BY <2>5, <2>6, <3>4, <3>5 DEF Clean, SameCounts
    <3>7. DropsOnly(e, d)
      BY <2>7, <3>4, SameRowsDrop
    <3> QED
      BY <2>5, <3>4, <3>6, <3>7 DEF Settled
  <2> QED
    BY <2>8, <2>9
<1> QED
  BY <1>2, <1>3

-----------------------------------------------------------------------------
(* unsubscribe_all.                                                        *)

Accs == [e : Engines, row : Nat]

\* The function of the recursion in unsubscribe_all.
IsScan(e, depth, s, f) ==
  f = [k \in 0 .. e.sub_count |->
         IF k = 0 THEN [e |-> e, row |-> 0] ELSE scan_row(f[k - 1], depth, s)]

\* The rounds of the scan stay in the sets that each round leads from one to the next.
GoodRounds(e, depth, s, good) ==
  /\ good \in [0 .. e.sub_count -> SUBSET Accs] /\ [e |-> e, row |-> 0] \in good[0]
  /\ \A k \in 1 .. e.sub_count : \A a \in good[k - 1] : scan_row(a, depth, s) \in good[k]

\* What each round of the scan of unsubscribe_all keeps holds at its end.
LEMMA ScanRounds ==
  ASSUME NEW e \in Engines, NEW depth, NEW s, NEW good, GoodRounds(e, depth, s, good)
  PROVE  \E a \in good[e.sub_count] :
           unsubscribe_all(e, depth, s) = IF depth > 0 THEN a.e ELSE sweep_empty_topics(a.e)
<1>1. PICK N \in Nat : N = e.sub_count
  BY SizeFacts DEF Engines
<1> DEFINE base == [e |-> e, row |-> 0]
           step(k, a) == IF a \in good[k - 1] THEN scan_row(a, depth, s) ELSE a
           g == [k \in 1 .. N |-> [a \in Accs |-> step(k, a)]]
<1>2. /\ good \in [0 .. N -> SUBSET Accs] /\ base \in good[0]
      /\ \A k \in 1 .. N : \A a \in good[k - 1] : scan_row(a, depth, s) \in good[k]
  BY <1>1 DEF GoodRounds
<1>3. base \in Accs
  BY DEF Accs
<1>4. \A k \in 1 .. N : k - 1 \in 0 .. N /\ k \in 0 .. N
  OBVIOUS
<1>5. ASSUME NEW k \in 1 .. N, NEW a \in Accs PROVE step(k, a) \in Accs
  BY <1>2, <1>4
<1>6. g \in [1 .. N -> [Accs -> Accs]]
  BY <1>5
<1>7. PICK f : Runs(f, Accs, base, N, g)
  <2> HIDE DEF g, base
  <2>1. IsLoop(Accs, base, N, g)
    BY <1>3, <1>6, Zenon DEF IsLoop
  <2> QED
    BY <2>1, RecursionExists, Zenon
<1>8. f \in [0 .. N -> Accs] /\ f[0] = base
      /\ \A k \in 1 .. N : f[k] = g[k][f[k - 1]]
  BY <1>7, Zenon DEF Runs
<1>9. \A k \in 1 .. N : f[k] = step(k, f[k - 1])
  BY <1>4, <1>8
<1> HIDE DEF g, base
<1> DEFINE T == {k \in 0 .. N : f[k] \in good[k]}
<1>10. 0 \in T
  BY <1>2, <1>8
<1>11. ASSUME NEW k \in 1 .. N, k - 1 \in T PROVE k \in T
  <2>1. f[k - 1] \in good[k - 1]
    BY <1>11
  <2>2. f[k] = scan_row(f[k - 1], depth, s)
    BY <1>9, <2>1
  <2>3. f[k] \in good[k]
    BY <1>2, <2>1, <2>2
  <2> QED
    BY <1>4, <2>3
<1> HIDE DEF T
<1>12. \A k \in 0 .. N : k \in T
  BY <1>10, <1>11, UpTo, Zenon
<1>13. \A k \in 0 .. N : f[k] \in good[k]
  BY <1>12 DEF T
<1>14. \A k \in 1 .. N : f[k] = scan_row(f[k - 1], depth, s)
  BY <1>4, <1>9, <1>13
<1>15. f = [k \in 0 .. N |-> IF k = 0 THEN base ELSE scan_row(f[k - 1], depth, s)]
  <2>1. \A k \in 0 .. N : k # 0 => k \in 1 .. N
    OBVIOUS
  <2> QED
    BY <1>8, <1>14, <2>1
<1>16. IsScan(e, depth, s, f)
  BY <1>1, <1>15, Zenon DEF IsScan, base
<1> DEFINE h == CHOOSE h : IsScan(e, depth, s, h)
<1>17. IsScan(e, depth, s, h)
  BY <1>16, Zenon
<1>18. unsubscribe_all(e, depth, s)
         = IF depth > 0 THEN h[e.sub_count].e ELSE sweep_empty_topics(h[e.sub_count].e)
  BY Zenon DEF unsubscribe_all, IsScan
<1> HIDE DEF h
<1>19. h[0] = base /\ \A k \in 1 .. N : h[k] = scan_row(h[k - 1], depth, s)
  BY <1>1, <1>17 DEF IsScan, base
<1> DEFINE U == {k \in 0 .. N : h[k] \in good[k]}
<1>20. 0 \in U
  BY <1>2, <1>19
<1>21. ASSUME NEW k \in 1 .. N, k - 1 \in U PROVE k \in U
  <2>1. h[k - 1] \in good[k - 1]
    BY <1>21
  <2>2. h[k] \in good[k]
    BY <1>2, <1>19, <2>1
  <2> QED
    BY <1>4, <2>2
<1> HIDE DEF U
<1>22. \A k \in 0 .. N : k \in U
  BY <1>20, <1>21, UpTo, Zenon
<1>23. h[N] \in good[N]
  BY <1>22 DEF U
<1> QED
  BY <1>1, <1>18, <1>23

\* The scan inside publish: every row before k belongs to another socket.
ScanInside(e, ord, top, s, k, a) ==
  /\ a.row = k /\ Shrunk(e, ord, top, a.e)
  /\ \A r \in UsedRows(a.e) : r < k => a.e.sockets[r] # s

\* The scan outside publish: rows are passed or taken out of the table.
ScanOutside(e, s, k, a) ==
  /\ Sound(a.e) /\ (\E ord, top : Ordered(a.e, ord, top)) /\ a.e.retired = 0
  /\ DropsOnly(e, a.e)
  /\ a.row <= a.e.sub_count /\ k = a.row + (e.sub_count - a.e.sub_count)
  /\ \A r \in UsedRows(a.e) : r < a.row => a.e.sockets[r] # s

\* No row belongs to the socket.
NoRowOf(d, s) == \A r \in UsedRows(d) : d.sockets[r] # s

\* Tombstones upon tombstones: twice is once.
LEMMA ShrunkTransitive ==
  ASSUME NEW e, NEW ord, NEW top, NEW c, Shrunk(e, ord, top, c), NEW d, Shrunk(c, ord, top, d)
  PROVE  Shrunk(e, ord, top, d)
<1>1. Grown(e, ord, top, d, ord)
  BY DEF Shrunk, Grown
<1> QED
  BY <1>1 DEF Shrunk

\* A retired row is a shrunk registry.
LEMMA RetiredShrinks ==
  ASSUME NEW e, NEW ord, NEW top, NEW row, NEW d, Retired(e, ord, top, row, d)
  PROVE  Shrunk(e, ord, top, d)
<1>1. UsedRows(d) = UsedRows(e)
  BY DEF Retired, UsedRows
<1> QED
  BY <1>1 DEF Shrunk, Retired, Grown

\* Inside a publish, unsubscribe_all turns every row of the socket into a tombstone and no other.
LEMMA UnsubscribeAllInside ==
  ASSUME NEW e, Sound(e), NEW ord, NEW top, Ordered(e, ord, top), NEW depth \in Nat, depth > 0,
         NEW s \in Sockets, NEW d, d = unsubscribe_all(e, depth, s)
  PROVE  Shrunk(e, ord, top, d) /\ NoRowOf(d, s)
<1>1. e \in Engines
  BY DEF Sound
<1>2. PICK N \in Nat : N = e.sub_count /\ N <= MaxSubs
  BY <1>1, SizeFacts DEF Engines
<1> DEFINE good == [k \in 0 .. N |-> {a \in Accs : ScanInside(e, ord, top, s, k, a)}]
<1>3. good \in [0 .. N -> SUBSET Accs]
  OBVIOUS
<1>4. [e |-> e, row |-> 0] \in good[0]
  <2>1. Shrunk(e, ord, top, e)
    BY DEF Shrunk, Grown
  <2>2. \A r \in UsedRows(e) : ~(r < 0)
    BY <1>2 DEF UsedRows
  <2>3. PICK a : a = [e |-> e, row |-> 0]
    OBVIOUS
  <2>5. a \in Accs /\ a.e = e /\ a.row = 0
    BY <1>1, <2>3 DEF Accs
  <2>4. ScanInside(e, ord, top, s, 0, a)
    BY <2>1, <2>2, <2>5 DEF ScanInside
  <2>6. 0 \in 0 .. N
    OBVIOUS
  <2> QED
    BY <2>3, <2>4, <2>5, <2>6
<1>5. ASSUME NEW k \in 1 .. N, NEW a \in good[k - 1] PROVE scan_row(a, depth, s) \in good[k]
  <2>1. a \in Accs /\ ScanInside(e, ord, top, s, k - 1, a) /\ k \in 0 .. N
    BY <1>5
  <2>2. PICK c, row, b : c = a.e /\ row = a.row /\ b = scan_row(a, depth, s)
    OBVIOUS
  <2>3. /\ c \in Engines /\ row = k - 1 /\ Shrunk(e, ord, top, c) /\ row \in Nat
        /\ \A r \in UsedRows(c) : r < row => c.sockets[r] # s
    BY <2>1, <2>2 DEF ScanInside, Accs
  <2>4. Sound(c) /\ Ordered(c, ord, top) /\ UsedRows(c) = 0 .. N - 1 /\ row \in UsedRows(c)
    <3>1. Sound(c) /\ Ordered(c, ord, top) /\ UsedRows(c) = UsedRows(e)
      BY <2>3 DEF Shrunk
    <3>2. UsedRows(e) = 0 .. N - 1 /\ row \in 0 .. N - 1
      BY <1>2, <2>3 DEF UsedRows
    <3> QED
      BY <3>1, <3>2
  <2>5. \A r \in 0 .. N - 1 : r < k => r < row \/ r = row
    BY <2>3
  <2>6. CASE c.sockets[row] # s
    <3>1. b = [a EXCEPT !.row = row + 1]
      BY <2>2, <2>6 DEF scan_row
    <3>2. b \in Accs /\ b.e = c /\ b.row = k
      BY <2>1, <2>2, <2>3, <3>1 DEF Accs
    <3>3. ScanInside(e, ord, top, s, k, b)
      BY <2>3, <2>4, <2>5, <2>6, <3>2 DEF ScanInside
    <3> QED
      BY <2>1, <2>2, <3>2, <3>3
  <2>7. CASE c.sockets[row] = s
    <3>1. PICK x : x = retire_subscription(c, row)
      OBVIOUS
    <3>2. b = [e |-> x, row |-> row + 1]
      BY <2>2, <2>7, <3>1 DEF scan_row
    <3>3. Retired(c, ord, top, row, x)
      BY <2>4, <3>1, RetireSound
    <3>4. Shrunk(c, ord, top, x)
      BY <3>3, RetiredShrinks
    <3>5. Shrunk(e, ord, top, x)
      BY <2>3, <3>4, ShrunkTransitive
    <3>6. /\ x.sockets[row] # s
          /\ \A r \in UsedRows(x) : x.sockets[r] = c.sockets[r] \/ x.sockets[r] = Nobody
      <4>1. x.sockets = [c.sockets EXCEPT ![row] = Nobody]
        BY <3>3 DEF Retired
      <4>2. c.sockets \in [Rows -> Sockets \cup {Nobody}] /\ row \in Rows
        BY <2>3, <2>4, UsedRowsType DEF Engines
      <4> QED
        BY <3>4, <4>1, <4>2, NamesAssumption DEF Shrunk
    <3>7. UsedRows(x) = UsedRows(c) /\ x \in Engines
      BY <3>4 DEF Shrunk, Sound
    <3>8. b \in Accs /\ b.e = x /\ b.row = k
      BY <2>3, <3>2, <3>7 DEF Accs
    <3>9. ScanInside(e, ord, top, s, k, b)
      BY <2>3, <2>4, <2>5, <3>5, <3>6, <3>7, <3>8, NamesAssumption DEF ScanInside
    <3> QED
      BY <2>1, <2>2, <3>8, <3>9
  <2> QED
    BY <2>6, <2>7
<1>6. PICK a : /\ a \in Accs /\ ScanInside(e, ord, top, s, N, a)
               /\ d = IF depth > 0 THEN a.e ELSE sweep_empty_topics(a.e)
  <2>1. GoodRounds(e, depth, s, good)
    <3> HIDE DEF good
    <3> QED
      BY <1>2, <1>3, <1>4, <1>5 DEF GoodRounds
  <2>2. \E a \in good[N] : d = IF depth > 0 THEN a.e ELSE sweep_empty_topics(a.e)
    <3> HIDE DEF good
    <3> QED
      BY <1>1, <1>2, <2>1, ScanRounds
  <2> QED
    BY <2>2
<1>7. d = a.e
  BY <1>6
<1>8. Shrunk(e, ord, top, d) /\ \A r \in UsedRows(d) : r < N => d.sockets[r] # s
  BY <1>6, <1>7 DEF ScanInside
<1>9. \A r \in UsedRows(d) : r < N
  <2>1. UsedRows(d) = UsedRows(e)
    BY <1>8 DEF Shrunk
  <2>2. UsedRows(e) = 0 .. N - 1
    BY <1>2 DEF UsedRows
  <2>3. \A r \in 0 .. N - 1 : r < N
    OBVIOUS
  <2> QED
    BY <2>1, <2>2, <2>3
<1> QED
  BY <1>8, <1>9 DEF NoRowOf

\* Outside a publish, unsubscribe_all reaches every row of the socket, moved ones too.
LEMMA UnsubscribeAllOutside ==
  ASSUME NEW e, Sound(e), NEW ord, NEW top, Ordered(e, ord, top), Clean(e),
         NEW s \in Sockets, NEW d, d = unsubscribe_all(e, 0, s)
  PROVE  Settled(e, d) /\ NoRowOf(d, s)
<1>1. e \in Engines
  BY DEF Sound
<1>2. PICK N \in Nat : N = e.sub_count /\ N <= MaxSubs
  BY <1>1, SizeFacts DEF Engines
<1> DEFINE good == [k \in 0 .. N |-> {a \in Accs : ScanOutside(e, s, k, a)}]
<1>3. good \in [0 .. N -> SUBSET Accs]
  OBVIOUS
<1>4. [e |-> e, row |-> 0] \in good[0]
  <2>1. DropsOnly(e, e) /\ e.retired = 0
    BY DEF DropsOnly, Clean
  <2>2. \A r \in UsedRows(e) : ~(r < 0)
    BY <1>2 DEF UsedRows
  <2>3. PICK a : a = [e |-> e, row |-> 0]
    OBVIOUS
  <2>4. a \in Accs /\ a.e = e /\ a.row = 0
    BY <1>1, <2>3 DEF Accs
  <2>5. ScanOutside(e, s, 0, a)
    BY <1>2, <2>1, <2>2, <2>4 DEF ScanOutside
  <2>6. 0 \in 0 .. N
    OBVIOUS
  <2> QED
    BY <2>3, <2>4, <2>5, <2>6
<1>5. ASSUME NEW k \in 1 .. N, NEW a \in good[k - 1] PROVE scan_row(a, 0, s) \in good[k]
  <2>1. a \in Accs /\ ScanOutside(e, s, k - 1, a) /\ k \in 0 .. N
    BY <1>5
  <2>2. PICK c, row, b : c = a.e /\ row = a.row /\ b = scan_row(a, 0, s)
    OBVIOUS
  <2>3. PICK m \in Nat : m = c.sub_count
    BY <2>1, <2>2, SizeFacts DEF Accs, Engines
  <2>4. /\ c \in Engines /\ row \in Nat /\ Sound(c) /\ (\E o, t : Ordered(c, o, t))
        /\ c.retired = 0 /\ DropsOnly(e, c)
        /\ row <= m /\ k - 1 = row + (N - m)
        /\ \A r \in UsedRows(c) : r < row => c.sockets[r] # s
    BY <1>2, <2>1, <2>2, <2>3 DEF ScanOutside, Accs
  <2>5. UsedRows(c) = 0 .. m - 1
    BY <2>3 DEF UsedRows
  <2>6. row \in 0 .. m - 1
    BY <2>4
  <2>7. CASE c.sockets[row] # s
    <3>1. b = [a EXCEPT !.row = row + 1]
      BY <2>2, <2>7 DEF scan_row
    <3>2. b \in Accs /\ b.e = c /\ b.row = row + 1
      BY <2>1, <2>2, <2>4, <3>1 DEF Accs
    <3>3. \A r \in 0 .. m - 1 : r < row + 1 => r < row \/ r = row
      BY <2>4
    <3>4. row + 1 <= m /\ k = row + 1 + (N - m)
      BY <2>4, <2>6
    <3>5. ScanOutside(e, s, k, b)
      BY <1>2, <2>3, <2>4, <2>5, <2>7, <3>2, <3>3, <3>4 DEF ScanOutside
    <3> QED
      BY <2>1, <2>2, <3>2, <3>5
  <2>8. CASE c.sockets[row] = s
    <3>1. PICK x : x = remove_subscription(c, row)
      OBVIOUS
    <3>2. b = [e |-> x, row |-> row]
      BY <2>2, <2>8, <3>1 DEF scan_row
    <3>3. PICK o, t : Ordered(c, o, t)
      BY <2>4
    <3>4. Removed(c, row, t, x)
      BY <2>4, <2>5, <2>6, <3>1, <3>3, RemoveSound
    <3>5. /\ Sound(x) /\ (\E o2 : Ordered(x, o2, t)) /\ x.retired = 0 /\ x.sub_count = m - 1
          /\ \A r \in UsedRows(x) : x.sockets[r] = c.sockets[From(row, m - 1, r)]
      BY <2>3, <2>4, <3>4 DEF Removed
    <3>6. DropsOnly(c, x)
      BY <2>4, <2>5, <2>6, <3>4, RemovedDrops
    <3>7. DropsOnly(e, x)
      BY <2>4, <3>6 DEF DropsOnly
    <3>8. UsedRows(x) = 0 .. m - 2 /\ x \in Engines
      BY <2>3, <3>5 DEF UsedRows, Sound
    <3>9. \A r \in UsedRows(x) : r < row => r \in UsedRows(c) /\ From(row, m - 1, r) = r
      BY <2>4, <2>5, <3>8 DEF From
    <3>10. b \in Accs /\ b.e = x /\ b.row = row
      BY <2>4, <3>2, <3>8 DEF Accs
    <3>11. row <= m - 1 /\ k = row + (N - (m - 1))
      BY <2>4, <2>6
    <3>12. ScanOutside(e, s, k, b)
      BY <1>2, <2>4, <3>5, <3>7, <3>9, <3>10, <3>11 DEF ScanOutside
    <3> QED
      BY <2>1, <2>2, <3>10, <3>12
  <2> QED
    BY <2>7, <2>8
<1>6. PICK a : a \in Accs /\ ScanOutside(e, s, N, a) /\ d = sweep_empty_topics(a.e)
  <2>1. GoodRounds(e, 0, s, good)
    <3> HIDE DEF good
    <3> QED
      BY <1>2, <1>3, <1>4, <1>5 DEF GoodRounds
  <2>2. \E a \in good[N] : d = IF 0 > 0 THEN a.e ELSE sweep_empty_topics(a.e)
    <3> HIDE DEF good
    <3> QED
      BY <1>1, <1>2, <2>1, ScanRounds
  <2> QED
    BY <2>2
<1>7. PICK c, m : c = a.e /\ m = c.sub_count
  OBVIOUS
<1>8. /\ m \in Nat /\ Sound(c) /\ (\E o, t : Ordered(c, o, t)) /\ c.retired = 0
      /\ DropsOnly(e, c) /\ a.row = m
      /\ \A r \in UsedRows(c) : r < m => c.sockets[r] # s
  <2>1. m \in Nat /\ a.row \in Nat
    BY <1>6, <1>7, SizeFacts DEF Accs, Engines
  <2>2. a.row = m
    BY <1>2, <1>6, <1>7, <2>1 DEF ScanOutside
  <2> QED
    BY <1>6, <1>7, <2>1, <2>2 DEF ScanOutside
<1>9. Swept(c, d)
  BY <1>6, <1>7, <1>8, SweepSound
<1>10. /\ Sound(d) /\ SameRows(d, c) /\ d.retired = c.retired /\ d.empty_topic_pending = FALSE
       /\ \A o, t : Ordered(c, o, t) => Ordered(d, o, t)
       /\ \A id \in Topics : d.names[id] # Nobody => d.counts[id] # 0
  BY <1>9 DEF Swept
<1>11. DropsOnly(e, d)
  BY <1>8, <1>10, SameRowsDrop
<1>12. Clean(d)
  BY <1>8, <1>10 DEF Clean
<1>13. NoRowOf(d, s)
  <2>1. UsedRows(d) = UsedRows(c) /\ d.sockets = c.sockets /\ UsedRows(c) = 0 .. m - 1
    BY <1>7, <1>10 DEF SameRows, UsedRows
  <2>2. \A r \in 0 .. m - 1 : r < m
    BY <1>8
  <2> QED
    BY <1>8, <2>1, <2>2 DEF NoRowOf
<1> QED
  BY <1>8, <1>10, <1>11, <1>12, <1>13 DEF Settled

-----------------------------------------------------------------------------
(* The call stack.                                                         *)

\* What a publish has sent: rows with the sockets they belonged to.
Deliveries == Rows \X Sockets

PublishFrameType ==
  [kind : {"publish"}, topic : Topics, name : Names, last : Rows, row : Links,
   visits : Nat, sent : SUBSET Deliveries, owed : SUBSET Rows]
CallbackFrameType == [kind : {"callback"}, socket : Sockets, then : {"deinit", "flush"}]
Frames == PublishFrameType \cup CallbackFrameType

\* No frame of publish is on the stack.
NoPublish(frames) == \A i \in 1 .. Len(frames) : frames[i].kind # "publish"

\* The publish depth is zero exactly when no publish frame is on the stack.
LEMMA DepthFacts ==
  ASSUME NEW frames \in Seq(Frames)
  PROVE  Depth(frames) \in Nat /\ (Depth(frames) = 0 <=> NoPublish(frames))
<1> DEFINE S == {i \in DOMAIN frames : frames[i].kind = "publish"}
<1>1. PICK n \in Nat : n = Len(frames) /\ DOMAIN frames = 1 .. n
  OBVIOUS
<1>2. IsFiniteSet(1 .. n)
  BY FS_Interval
<1>3. IsFiniteSet(S)
  BY <1>1, <1>2, FS_Subset
<1>4. Cardinality(S) \in Nat /\ (Cardinality(S) = 0 <=> S = {})
  BY <1>3, FS_CardinalityType, FS_EmptySet
<1>5. S = {} <=> NoPublish(frames)
  BY <1>1 DEF NoPublish
<1> QED
  BY <1>4, <1>5 DEF Depth

\* The rows a frame walks: it is at or before the tail it captured.
FrameRows(e, ord, f) ==
  /\ e.names[f.topic] = f.name
  /\ f.last \in UsedRows(e) /\ e.topic_ids[f.last] = f.topic
  /\ f.row # NoLink => /\ f.row \in UsedRows(e) /\ e.topic_ids[f.row] = f.topic
                       /\ ord[f.row] <= ord[f.last]

\* The rows a frame owes are up to the tail; the others there are tombstones.
FrameOwed(e, ord, f) ==
  /\ \A q \in f.owed : q \in UsedRows(e) /\ e.topic_ids[q] = f.topic /\ ord[q] <= ord[f.last]
  /\ \A q \in UsedRows(e) : e.topic_ids[q] = f.topic /\ ord[q] <= ord[f.last] /\ q \notin f.owed
                              => e.sockets[q] = Nobody
  /\ \A q \in f.owed : f.row = NoLink \/ ord[q] < ord[f.row]
                         => e.sockets[q] = Nobody \/ \E x \in f.sent : x[1] = q

\* What a frame has sent went to rows before the one it visits, and no row it
\* still owes belongs to a socket it has served.
FrameSent(e, ord, f) ==
  /\ \A x \in f.sent : x[1] \in f.owed /\ (f.row # NoLink => ord[x[1]] < ord[f.row])
  /\ \A x, y \in f.sent : x[2] = y[2] => x = y
  /\ \A x \in f.sent : \A q \in f.owed : q # x[1] => e.sockets[q] # x[2]

FrameOK(e, ord, f) == FrameRows(e, ord, f) /\ FrameOwed(e, ord, f) /\ FrameSent(e, ord, f)

FramesOK(e, ord, frames) ==
  \A i \in 1 .. Len(frames) : frames[i].kind = "publish" => FrameOK(e, ord, frames[i])

\* A frame does not notice that rows become tombstones or are added after the others.
LEMMA FrameTolerates ==
  ASSUME NEW e, NEW ord, NEW top, Sound(e), Ordered(e, ord, top), NEW d, NEW ord2, NEW top2,
         Sound(d), Ordered(d, ord2, top2), Grown(e, ord, top, d, ord2),
         NEW f \in PublishFrameType, FrameOK(e, ord, f)
  PROVE  FrameOK(d, ord2, f)
<1>1. /\ f.topic \in Topics /\ f.name \in Names /\ f.name # Nobody
      /\ f.sent \in SUBSET Deliveries
  BY NamesAssumption DEF PublishFrameType
<1>2. e.names[f.topic] = f.name /\ f.last \in UsedRows(e) /\ e.topic_ids[f.last] = f.topic
  BY DEF FrameOK, FrameRows
<1>3. d.names[f.topic] = f.name
  BY <1>1, <1>2 DEF Grown
<1>4. /\ UsedRows(e) \subseteq UsedRows(d)
      /\ \A r \in UsedRows(e) : /\ d.topic_ids[r] = e.topic_ids[r] /\ ord2[r] = ord[r]
                                /\ d.sockets[r] = e.sockets[r] \/ d.sockets[r] = Nobody
      /\ \A r \in UsedRows(d) : r \notin UsedRows(e) => top <= ord2[r]
  BY DEF Grown
<1>5. \A q \in UsedRows(d) : ord2[q] <= ord2[f.last] => q \in UsedRows(e)
  <2>1. SUFFICES ASSUME NEW q \in UsedRows(d), ord2[q] <= ord2[f.last], q \notin UsedRows(e)
                 PROVE  FALSE
    OBVIOUS
  <2>2. ord[f.last] < top /\ ord[f.last] \in Nat /\ top \in Nat /\ ord2[f.last] = ord[f.last]
    <3>1. UsedRows(e) \in SUBSET Rows
      BY UsedRowsType DEF Sound
    <3> QED
      BY <1>2, <1>4, <3>1 DEF Ordered, Orders
  <2>3. top <= ord2[q]
    BY <1>4, <2>1
  <2>4. ord2[q] \in Nat
    <3>1. UsedRows(d) \in SUBSET Rows
      BY UsedRowsType DEF Sound
    <3> QED
      BY <3>1 DEF Ordered, Orders
  <2> QED
    BY <2>1, <2>2, <2>3, <2>4
<1>6. FrameRows(d, ord2, f)
  BY <1>2, <1>3, <1>4 DEF FrameOK, FrameRows
<1>7. FrameOwed(d, ord2, f)
  <2>1. /\ \A q \in f.owed : q \in UsedRows(e) /\ e.topic_ids[q] = f.topic /\ ord[q] <= ord[f.last]
        /\ \A q \in UsedRows(e) :
             e.topic_ids[q] = f.topic /\ ord[q] <= ord[f.last] /\ q \notin f.owed
               => e.sockets[q] = Nobody
        /\ \A q \in f.owed : f.row = NoLink \/ ord[q] < ord[f.row]
                               => e.sockets[q] = Nobody \/ \E x \in f.sent : x[1] = q
        /\ f.row # NoLink => f.row \in UsedRows(e)
    BY Zenon DEF FrameOK, FrameOwed, FrameRows
  <2>2. \A q \in f.owed : q \in UsedRows(d) /\ d.topic_ids[q] = f.topic /\ ord2[q] <= ord2[f.last]
    BY <1>2, <1>4, <2>1
  <2>3. \A q \in UsedRows(d) :
          d.topic_ids[q] = f.topic /\ ord2[q] <= ord2[f.last] /\ q \notin f.owed
            => d.sockets[q] = Nobody
    BY <1>2, <1>4, <1>5, <2>1
  <2>4. \A q \in f.owed : f.row = NoLink \/ ord2[q] < ord2[f.row]
                            => d.sockets[q] = Nobody \/ \E x \in f.sent : x[1] = q
    <3>1. SUFFICES ASSUME NEW q \in f.owed, f.row = NoLink \/ ord2[q] < ord2[f.row]
                   PROVE  d.sockets[q] = Nobody \/ \E x \in f.sent : x[1] = q
      OBVIOUS
    <3>2. f.row = NoLink \/ ord[q] < ord[f.row]
      BY <1>4, <2>1, <3>1
    <3> QED
      BY <1>4, <2>1, <3>2
  <2> QED
    BY <2>2, <2>3, <2>4, Zenon DEF FrameOwed
<1>8. FrameSent(d, ord2, f)
  <2>1. /\ \A x \in f.sent : x[1] \in f.owed /\ (f.row # NoLink => ord[x[1]] < ord[f.row])
        /\ \A x, y \in f.sent : x[2] = y[2] => x = y
        /\ \A x \in f.sent : \A q \in f.owed : q # x[1] => e.sockets[q] # x[2]
        /\ \A q \in f.owed : q \in UsedRows(e)
        /\ f.row # NoLink => f.row \in UsedRows(e)
    BY Zenon DEF FrameOK, FrameSent, FrameOwed, FrameRows
  <2>2. \A x \in f.sent : x[2] # Nobody
    BY <1>1, NamesAssumption DEF Deliveries
  <2>3. \A x \in f.sent : x[1] \in f.owed /\ (f.row # NoLink => ord2[x[1]] < ord2[f.row])
    BY <1>4, <2>1
  <2>4. \A x \in f.sent : \A q \in f.owed : q # x[1] => d.sockets[q] # x[2]
    BY <1>4, <2>1, <2>2
  <2> QED
    BY <2>1, <2>3, <2>4, Zenon DEF FrameSent
<1> QED
  BY <1>6, <1>7, <1>8 DEF FrameOK

\* What the registry promises its callers, with the frames that are on the stack.
RegistryOK(e, frames) ==
  /\ Sound(e) /\ Remembered(e) /\ (NoPublish(frames) => Clean(e))
  /\ \E ord, top : Ordered(e, ord, top) /\ FramesOK(e, ord, frames)

\* The publish frames of one stack are on another.
FramesWithin(frames, all) ==
  \A i \in 1 .. Len(frames) : frames[i].kind = "publish" =>
    \E j \in 1 .. Len(all) : frames[i] = all[j]

\* A frame that leaves the stack takes only its own obligations along.
LEMMA FewerFrames ==
  ASSUME NEW e, NEW all, RegistryOK(e, all), NEW frames, FramesWithin(frames, all),
         NoPublish(frames) => NoPublish(all)
  PROVE  RegistryOK(e, frames)
<1>1. PICK ord, top : Ordered(e, ord, top) /\ FramesOK(e, ord, all)
  BY DEF RegistryOK
<1>2. FramesOK(e, ord, frames)
  BY <1>1, Zenon DEF FramesOK, FramesWithin
<1> QED
  BY <1>1, <1>2 DEF RegistryOK

\* Without publish frames there is nothing to keep for them.
LEMMA NoFrames ==
  ASSUME NEW e, NEW ord, NEW frames, NoPublish(frames)
  PROVE  FramesOK(e, ord, frames)
  BY Zenon DEF FramesOK, NoPublish

\* A call outside publish leaves no frame to care about.
LEMMA SettledKeeps ==
  ASSUME NEW e, NEW d, Settled(e, d), NEW frames, NoPublish(frames)
  PROVE  RegistryOK(d, frames)
<1>1. PICK ord, top : Ordered(d, ord, top)
  BY DEF Settled
<1>2. FramesOK(d, ord, frames)
  BY NoFrames
<1>3. Remembered(d)
  BY DEF Settled, Clean, Remembered
<1> QED
  BY <1>1, <1>2, <1>3 DEF RegistryOK, Settled

\* The frames of a stack tolerate what each of them tolerates.
LEMMA FramesTolerate ==
  ASSUME NEW e, NEW ord, NEW top, Sound(e), Ordered(e, ord, top), NEW d, NEW ord2, NEW top2,
         Sound(d), Ordered(d, ord2, top2), Grown(e, ord, top, d, ord2),
         NEW frames \in Seq(Frames), FramesOK(e, ord, frames)
  PROVE  FramesOK(d, ord2, frames)
<1>1. SUFFICES ASSUME NEW i \in 1 .. Len(frames), frames[i].kind = "publish"
               PROVE  FrameOK(d, ord2, frames[i])
  BY DEF FramesOK
<1>2. frames[i] \in PublishFrameType
  <2>1. frames[i] \in Frames
    OBVIOUS
  <2> QED
    BY <1>1, <2>1 DEF Frames, PublishFrameType, CallbackFrameType
<1>3. FrameOK(e, ord, frames[i])
  BY <1>1 DEF FramesOK
<1> QED
  BY <1>2, <1>3, FrameTolerates

\* A call that only makes tombstones keeps every publish frame on the stack in order.
LEMMA ShrunkKeeps ==
  ASSUME NEW frames \in Seq(Frames), ~NoPublish(frames), NEW e, RegistryOK(e, frames), NEW d,
         \A ord, top : Ordered(e, ord, top) => Shrunk(e, ord, top, d)
  PROVE  RegistryOK(d, frames) /\ DropsOnly(e, d)
<1>1. PICK ord, top : Ordered(e, ord, top) /\ FramesOK(e, ord, frames)
  BY DEF RegistryOK
<1>2. /\ Sound(d) /\ Ordered(d, ord, top) /\ Grown(e, ord, top, d, ord)
      /\ Remembered(e) => Remembered(d)
      /\ UsedRows(d) = UsedRows(e)
      /\ \A r \in UsedRows(d) : d.sockets[r] = e.sockets[r] \/ d.sockets[r] = Nobody
  BY <1>1 DEF Shrunk
<1>3. FramesOK(d, ord, frames)
  BY <1>1, <1>2, FramesTolerate DEF RegistryOK
<1>4. DropsOnly(e, d)
  BY <1>2 DEF DropsOnly
<1> QED
  BY <1>1, <1>2, <1>3, <1>4 DEF RegistryOK

\* unsubscribe keeps the registry in order under any stack.
LEMMA UnsubscribeKeeps ==
  ASSUME NEW frames \in Seq(Frames), NEW e, RegistryOK(e, frames),
         NEW s \in Sockets, NEW name \in Names, NEW d, d = unsubscribe(e, Depth(frames), s, name)
  PROVE  RegistryOK(d, frames) /\ DropsOnly(e, d)
<1>1. PICK depth \in Nat : depth = Depth(frames) /\ (depth = 0 <=> NoPublish(frames))
  BY DepthFacts
<1>2. Sound(e) /\ (NoPublish(frames) => Clean(e)) /\ \E ord, top : Ordered(e, ord, top)
  BY DEF RegistryOK
<1>3. CASE depth = 0
  <2>1. Settled(e, d)
    BY <1>1, <1>2, <1>3, UnsubscribeOutside
  <2> QED
    BY <1>1, <1>3, <2>1, SettledKeeps DEF Settled
<1>4. CASE depth > 0
  <2>1. \A ord, top : Ordered(e, ord, top) => Shrunk(e, ord, top, d)
    BY <1>1, <1>2, <1>4, UnsubscribeInside
  <2> QED
    BY <1>1, <1>4, <2>1, ShrunkKeeps
<1> QED
  BY <1>3, <1>4

\* unsubscribe_all keeps the registry in order under any stack and leaves no row of the socket.
LEMMA UnsubscribeAllKeeps ==
  ASSUME NEW frames \in Seq(Frames), NEW e, RegistryOK(e, frames),
         NEW s \in Sockets, NEW d, d = unsubscribe_all(e, Depth(frames), s)
  PROVE  RegistryOK(d, frames) /\ DropsOnly(e, d) /\ NoRowOf(d, s)
<1>1. PICK depth \in Nat : depth = Depth(frames) /\ (depth = 0 <=> NoPublish(frames))
  BY DepthFacts
<1>2. Sound(e) /\ (NoPublish(frames) => Clean(e)) /\ \E ord, top : Ordered(e, ord, top)
  BY DEF RegistryOK
<1>3. CASE depth = 0
  <2>1. Settled(e, d) /\ NoRowOf(d, s)
    BY <1>1, <1>2, <1>3, UnsubscribeAllOutside
  <2> QED
    BY <1>1, <1>3, <2>1, SettledKeeps DEF Settled
<1>4. CASE depth > 0
  <2>1. \A ord, top : Ordered(e, ord, top) => Shrunk(e, ord, top, d) /\ NoRowOf(d, s)
    BY <1>1, <1>2, <1>4, UnsubscribeAllInside
  <2>2. NoRowOf(d, s)
    BY <1>2, <2>1
  <2> QED
    BY <1>1, <1>4, <2>1, <2>2, ShrunkKeeps
<1> QED
  BY <1>3, <1>4

\* subscribe keeps the registry in order under any stack.
LEMMA SubscribeKeeps ==
  ASSUME NEW frames \in Seq(Frames), NEW e, RegistryOK(e, frames),
         NEW s \in Sockets, NEW name \in Names, NEW d, d = subscribe(e, s, name)
  PROVE  RegistryOK(d, frames) /\ SubscribesOnly(e, d, s)
<1>1. PICK ord, top : Ordered(e, ord, top) /\ FramesOK(e, ord, frames)
  BY DEF RegistryOK
<1>2. Sound(e) /\ (NoPublish(frames) => Clean(e)) /\ Remembered(e)
  BY DEF RegistryOK
<1>3. PICK ord2, top2 : /\ Sound(d) /\ Ordered(d, ord2, top2)
                        /\ Grown(e, ord, top, d, ord2) /\ SubscribesOnly(e, d, s)
  BY <1>1, <1>2, SubscribeSound, Zenon DEF Subscribed
<1>4. FramesOK(d, ord2, frames)
  BY <1>1, <1>2, <1>3, FramesTolerate
<1>5. Clean(e) => Clean(d)
  BY <1>3 DEF Clean, SubscribesOnly
<1>6. Remembered(d)
  BY <1>2, <1>3 DEF Remembered, SubscribesOnly
<1> QED
  BY <1>2, <1>3, <1>4, <1>5, <1>6 DEF RegistryOK

\* end_publish keeps the registry in order for the frames below.
LEMMA EndPublishKeeps ==
  ASSUME NEW all \in Seq(Frames), all # <<>>, NEW e, RegistryOK(e, all),
         NEW d, d = end_publish(e, Depth(Front(all)))
  PROVE  RegistryOK(d, Front(all)) /\ DropsOnly(e, d)
<1>1. PICK frames \in Seq(Frames) : frames = Front(all) /\ FramesWithin(frames, all)
  <2>1. PICK frames \in Seq(Frames) : frames = Front(all) /\ Len(frames) = Len(all) - 1
            /\ \A i \in 1 .. Len(all) - 1 : frames[i] = all[i]
    BY FrontFacts
  <2>2. \A i \in 1 .. Len(frames) : i \in 1 .. Len(all) /\ frames[i] = all[i]
    BY <2>1
  <2> QED
    BY <2>1, <2>2 DEF FramesWithin
<1>2. PICK depth \in Nat : depth = Depth(frames) /\ (depth = 0 <=> NoPublish(frames))
  BY DepthFacts
<1>3. PICK ord, top : Ordered(e, ord, top) /\ FramesOK(e, ord, all) /\ Sound(e) /\ Remembered(e)
  BY DEF RegistryOK
<1>4. CASE depth = 0
  <2>1. Settled(e, d)
    BY <1>1, <1>2, <1>3, <1>4, EndPublishSound
  <2> QED
    BY <1>1, <1>2, <1>4, <2>1, SettledKeeps DEF Settled
<1>5. CASE depth # 0
  <2>1. d = e
    BY <1>1, <1>2, <1>5 DEF end_publish
  <2>2. RegistryOK(e, frames)
    BY <1>1, <1>2, <1>5, FewerFrames
  <2> QED
    BY <1>1, <2>1, <2>2 DEF DropsOnly
<1> QED
  BY <1>4, <1>5

-----------------------------------------------------------------------------
(* The frames of publish.                                                  *)

\* A stack with one frame more.
Pushed(frames, f, n, all) ==
  /\ n \in Nat /\ n = Len(frames) /\ all = Append(frames, f) /\ Len(all) = n + 1
  /\ \A i \in 1 .. n : all[i] = frames[i]
  /\ all[n + 1] = f

\* What a push on the stack changes.
LEMMA PushFacts ==
  ASSUME NEW frames \in Seq(Frames), NEW f \in Frames
  PROVE  \E n, all : Pushed(frames, f, n, all)
<1>1. Pushed(frames, f, Len(frames), Append(frames, f))
  BY AppendFacts DEF Pushed
<1> QED
  BY <1>1

\* Pushing a frame that is in order keeps all frames in order.
LEMMA PushedFrames ==
  ASSUME NEW e, NEW ord, NEW frames \in Seq(Frames), NEW f \in Frames, FramesOK(e, ord, frames),
         f.kind = "publish" => FrameOK(e, ord, f)
  PROVE  FramesOK(e, ord, Append(frames, f))
<1>0. PICK n, all : Pushed(frames, f, n, all)
  BY PushFacts
<1>1. /\ n \in Nat /\ n = Len(frames) /\ all = Append(frames, f) /\ Len(all) = n + 1
      /\ \A i \in 1 .. n : all[i] = frames[i]
      /\ all[n + 1] = f
  BY <1>0, Zenon DEF Pushed
<1>2. \A i \in 1 .. n + 1 : i \in 1 .. n \/ i = n + 1
  BY <1>1
<1>3. \A i \in 1 .. n + 1 : all[i].kind = "publish" => FrameOK(e, ord, all[i])
  BY <1>1, <1>2 DEF FramesOK
<1> QED
  BY <1>1, <1>3 DEF FramesOK

\* What a pop of the stack leaves.
LEMMA FrontFrames ==
  ASSUME NEW all \in Seq(Frames), all # <<>>
  PROVE  /\ Front(all) \in Seq(Frames) /\ FramesWithin(Front(all), all)
         /\ Last(all) \in Frames /\ \E i \in 1 .. Len(all) : Last(all) = all[i]
         /\ Last(all).kind # "publish" => (NoPublish(Front(all)) => NoPublish(all))
<1>1. PICK n \in Nat, frames \in Seq(Frames) :
        /\ n = Len(all) /\ frames = Front(all) /\ Len(frames) = n - 1
        /\ \A i \in 1 .. n - 1 : frames[i] = all[i]
        /\ Last(all) = all[n] /\ Last(all) \in Frames /\ n \in 1 .. n
  BY FrontFacts
<1>2. \A i \in 1 .. n : i \in 1 .. n - 1 \/ i = n
  OBVIOUS
<1>3. \A i \in 1 .. n - 1 : i \in 1 .. n
  OBVIOUS
<1>4. FramesWithin(frames, all)
  BY <1>1, <1>3 DEF FramesWithin
<1>5. Last(all).kind # "publish" => (NoPublish(frames) => NoPublish(all))
  BY <1>1, <1>2 DEF NoPublish
<1> QED
  BY <1>1, <1>4, <1>5

\* Once a publish frame is on the stack, it is not empty of them.
LEMMA PublishOnTop ==
  ASSUME NEW frames \in Seq(Frames), NEW f \in Frames, f.kind = "publish"
  PROVE  ~NoPublish(Append(frames, f))
<1>0. PICK n, all : Pushed(frames, f, n, all)
  BY PushFacts
<1>1. /\ n \in Nat /\ n = Len(frames) /\ all = Append(frames, f) /\ Len(all) = n + 1
      /\ \A i \in 1 .. n : all[i] = frames[i]
      /\ all[n + 1] = f
  BY <1>0, Zenon DEF Pushed
<1>2. n + 1 \in 1 .. n + 1
  BY <1>1
<1> QED
  BY <1>1, <1>2 DEF NoPublish

\* A callback frame asks nothing of the registry.
LEMMA CallbackOnTop ==
  ASSUME NEW frames \in Seq(Frames), NEW f \in Frames, f.kind # "publish", NEW e,
         RegistryOK(e, frames)
  PROVE  RegistryOK(e, Append(frames, f))
<1>0. PICK n, all : Pushed(frames, f, n, all)
  BY PushFacts
<1>1. /\ n \in Nat /\ n = Len(frames) /\ all = Append(frames, f) /\ Len(all) = n + 1
      /\ \A i \in 1 .. n : all[i] = frames[i]
      /\ all[n + 1] = f
  BY <1>0, Zenon DEF Pushed
<1>2. \A i \in 1 .. n + 1 : i \in 1 .. n \/ i = n + 1
  BY <1>1
<1>3. \A i \in 1 .. n : i \in 1 .. n + 1
  BY <1>1
<1>4. FramesWithin(all, frames)
  BY <1>1, <1>2 DEF FramesWithin
<1>5. NoPublish(all) => NoPublish(frames)
  BY <1>1, <1>3 DEF NoPublish
<1> QED
  BY <1>1, <1>4, <1>5, FewerFrames

\* The frame that publish starts with.
LEMMA NewFrameOK ==
  ASSUME NEW e, Sound(e), NEW ord, NEW top, Ordered(e, ord, top),
         NEW name \in Names, NEW id \in Topics, e.names[id] = name, e.heads[id] # NoLink,
         NEW f, f = PublishFrame(e, id, name)
  PROVE  f \in PublishFrameType /\ FrameOK(e, ord, f)
<1>1. e \in Engines /\ UsedRows(e) \in SUBSET Rows /\ RowsOK(e)
  BY UsedRowsType DEF Sound
<1>2. PICK h, t, ids, D : h = e.heads[id] /\ t = e.tails[id] /\ ids = e.topic_ids /\ D = UsedRows(e)
  OBVIOUS
<1>3. /\ h \in D /\ ids[h] = id /\ \A q \in D : ids[q] = id => ord[h] <= ord[q]
  BY <1>2, Zenon DEF Ordered, Linked, IsHead
<1>4. /\ t \in D /\ ids[t] = id /\ \A q \in D : ids[q] = id => ord[q] <= ord[t]
  <2>1. IsTail(ids, D, ord, id, t)
    BY <1>2, Zenon DEF Ordered, Linked
  <2> QED
    BY <1>3, <2>1, Zenon DEF IsTail
<1>5. PICK owed \in SUBSET Rows :
        /\ owed = LiveRows(e, id)
        /\ \A q : q \in owed <=> q \in D /\ ids[q] = id /\ e.sockets[q] # Nobody
  BY <1>1, <1>2, SetOfRows, LiveRowsAre
<1>6. /\ f.kind = "publish" /\ f.topic = id /\ f.name = name /\ f.last = t /\ f.row = h
      /\ f.sent = {} /\ f.owed = owed
  BY <1>2, <1>5 DEF PublishFrame
<1>7. f \in PublishFrameType
  <2>1. t \in Rows /\ h \in Links
    BY <1>1, <1>2, <1>3, <1>4 DEF Links
  <2>2. f = [kind |-> "publish", topic |-> id, name |-> name, last |-> t,
             row |-> h, visits |-> 0, sent |-> {}, owed |-> owed]
    BY <1>2, <1>5 DEF PublishFrame
  <2> QED
    BY <2>1, <2>2 DEF PublishFrameType
<1>8. FrameRows(e, ord, f)
  BY <1>2, <1>3, <1>4, <1>6 DEF FrameRows
<1>9. FrameOwed(e, ord, f)
  <2>1. \A q \in D : q \in Rows /\ ord[q] \in Nat
    BY <1>1, <1>2 DEF Ordered, Orders
  <2>2. \A q \in owed : ~(ord[q] < ord[h])
    BY <1>3, <1>5, <2>1
  <2>3. h # NoLink
    BY <1>2
  <2> QED
    BY <1>2, <1>4, <1>5, <1>6, <2>2, <2>3 DEF FrameOwed
<1>10. FrameSent(e, ord, f)
  BY <1>6 DEF FrameSent
<1> QED
  BY <1>7, <1>8, <1>9, <1>10 DEF FrameOK

\* A publish that begins puts a frame on the stack that is in order.
LEMMA PublishKeeps ==
  ASSUME NEW frames \in Seq(Frames), NEW e, RegistryOK(e, frames), NEW name \in Names,
         NEW d, d = fresh_topic_index(e), NEW id, id = find_topic(d, name), id # NoLink,
         d.heads[id] # NoLink, NEW f, f = PublishFrame(d, id, name)
  PROVE  /\ RegistryOK(d, Append(frames, f)) /\ f \in Frames
         /\ d.sockets = e.sockets /\ UsedRows(d) = UsedRows(e)
<1>1. PICK ord, top : Ordered(e, ord, top) /\ FramesOK(e, ord, frames) /\ Sound(e) /\ Remembered(e)
  BY DEF RegistryOK
<1>2. Sound(d) /\ SameTables(d, e) /\ Ordered(d, ord, top)
  BY <1>1, FreshTopicsSound
<1>3. id \in Topics /\ d.names[id] = name
  BY <1>2, FindTopic DEF Sound
<1>4. f \in PublishFrameType /\ FrameOK(d, ord, f)
  BY <1>2, <1>3, NewFrameOK
<1>5. Grown(e, ord, top, d, ord)
  BY <1>2, SameTablesGrown
<1>6. FramesOK(d, ord, frames)
  BY <1>1, <1>2, <1>5, FramesTolerate
<1>7. f \in Frames /\ f.kind = "publish"
  BY <1>4 DEF Frames, PublishFrameType
<1>8. FramesOK(d, ord, Append(frames, f))
  BY <1>4, <1>6, <1>7, PushedFrames
<1>9. ~NoPublish(Append(frames, f))
  BY <1>7, PublishOnTop
<1>10. d.sockets = e.sockets /\ UsedRows(d) = UsedRows(e) /\ Remembered(d)
  BY <1>1, <1>2, SameTablesFields DEF Remembered
<1> QED
  BY <1>2, <1>7, <1>8, <1>9, <1>10 DEF RegistryOK

\* Visiting the last row of the stack's top frame.
LEMMA TopReplaced ==
  ASSUME NEW all \in Seq(Frames), all # <<>>, Last(all).kind = "publish", NEW e, RegistryOK(e, all),
         NEW g \in PublishFrameType,
         \A ord, top : Ordered(e, ord, top) /\ FrameOK(e, ord, Last(all)) => FrameOK(e, ord, g)
  PROVE  RegistryOK(e, Append(Front(all), g)) /\ Append(Front(all), g) \in Seq(Frames)
<1>1. PICK ord, top : Ordered(e, ord, top) /\ FramesOK(e, ord, all) /\ Sound(e) /\ Remembered(e)
  BY DEF RegistryOK
<1>2. PICK frames \in Seq(Frames) : frames = Front(all) /\ FramesWithin(frames, all)
  BY FrontFrames
<1>3. FrameOK(e, ord, Last(all))
  BY <1>1, FrontFrames DEF FramesOK
<1>4. g \in Frames /\ g.kind = "publish"
  BY DEF Frames, PublishFrameType
<1>5. FramesOK(e, ord, frames)
  BY <1>1, <1>2, Zenon DEF FramesOK, FramesWithin
<1>6. FramesOK(e, ord, Append(frames, g))
  BY <1>1, <1>3, <1>4, <1>5, PushedFrames
<1>7. ~NoPublish(Append(frames, g))
  BY <1>4, PublishOnTop
<1>8. Append(frames, g) \in Seq(Frames)
  BY <1>4
<1> QED
  BY <1>1, <1>2, <1>6, <1>7, <1>8 DEF RegistryOK

\* The row after the one a frame visits.
RowAfter(e, f) == IF f.row = f.last THEN NoLink ELSE e.next[f.row]

\* Between a row and the row after it there is no other.
Follows(e, ord, f, n) ==
  /\ n # NoLink => /\ n \in UsedRows(e) /\ e.topic_ids[n] = f.topic
                   /\ ord[f.row] < ord[n] /\ ord[n] <= ord[f.last]
  /\ \A q \in UsedRows(e) :
       /\ e.topic_ids[q] = f.topic /\ ord[q] <= ord[f.last]
       /\ n = NoLink \/ ord[q] < ord[n]
       => q = f.row \/ ord[q] < ord[f.row]

\* The row the loop goes to comes later in the list and skips none.
LEMMA RowAfterFollows ==
  ASSUME NEW e, Sound(e), NEW ord, NEW top, Ordered(e, ord, top), NEW f,
         FrameRows(e, ord, f), f.row # NoLink, NEW n, n = RowAfter(e, f)
  PROVE  Follows(e, ord, f, n)
<1>1. PICK ids, D, row, last, id :
        ids = e.topic_ids /\ D = UsedRows(e) /\ row = f.row /\ last = f.last /\ id = f.topic
  OBVIOUS
<1>2. \A q \in D : ord[q] \in Nat
  <2>1. UsedRows(e) \in SUBSET Rows
    BY UsedRowsType DEF Sound
  <2> QED
    BY <1>1, <2>1 DEF Ordered, Orders
<1>3. /\ row \in D /\ ids[row] = id /\ last \in D /\ ids[last] = id /\ ord[row] <= ord[last]
  BY <1>1 DEF FrameRows
<1>4. \A q, r \in D : ord[q] = ord[r] => q = r
  BY <1>1, Zenon DEF Ordered, Linked
<1>5. CASE row = last
  <2>1. n = NoLink
    BY <1>1, <1>5 DEF RowAfter
  <2>2. \A q \in D : ord[q] <= ord[last] => q = row \/ ord[q] < ord[row]
    BY <1>2, <1>3, <1>4, <1>5
  <2> QED
    BY <1>1, <2>1, <2>2 DEF Follows
<1>6. CASE row # last
  <2>1. n = e.next[row]
    BY <1>1, <1>6 DEF RowAfter
  <2>2. IsNext(ids, D, ord, row, n)
    BY <1>1, <1>3, <2>1, Zenon DEF Ordered, Linked
  <2>3. ord[row] < ord[last]
    BY <1>2, <1>3, <1>4, <1>6
  <2>4. n # NoLink
    <3>1. SUFFICES ASSUME n = NoLink PROVE FALSE
      OBVIOUS
    <3>2. ord[last] <= ord[row]
      BY <1>3, <2>2, <3>1 DEF IsNext
    <3> QED
      BY <1>2, <1>3, <2>3, <3>2
  <2>5. /\ n \in D /\ ids[n] = ids[row] /\ ord[row] < ord[n]
        /\ \A q \in D : ids[q] = ids[row] => ord[q] <= ord[row] \/ ord[n] <= ord[q]
    BY <2>2, <2>4, Zenon DEF IsNext
  <2>6. ord[n] <= ord[last]
    <3>1. ord[last] <= ord[row] \/ ord[n] <= ord[last]
      BY <1>3, <2>5
    <3> QED
      BY <1>2, <1>3, <2>3, <3>1
  <2>7. \A q \in D : ids[q] = id /\ ord[q] < ord[n] => q = row \/ ord[q] < ord[row]
    BY <1>2, <1>3, <1>4, <2>5
  <2> QED
    BY <1>1, <1>3, <2>4, <2>5, <2>6, <2>7 DEF Follows
<1> QED
  BY <1>5, <1>6

\* The frame g is f one row further, having sent to the rows of new.
Stepped(e, f, g, new) ==
  /\ g.topic = f.topic /\ g.name = f.name /\ g.last = f.last /\ g.owed = f.owed
  /\ g.row = RowAfter(e, f) /\ g.sent = f.sent \cup new

\* A frame that served its row, or passed a tombstone, is in order at the next row.
LEMMA SteppedFrameOK ==
  ASSUME NEW e, Sound(e), NEW ord, NEW top, Ordered(e, ord, top), NEW f \in PublishFrameType,
         FrameOK(e, ord, f), f.row # NoLink, NEW g, NEW new, Stepped(e, f, g, new),
         new = IF e.sockets[f.row] = Nobody THEN {} ELSE {<<f.row, e.sockets[f.row]>>}
  PROVE  FrameOK(e, ord, g)
<1>1. PICK n, row, last, id, owed, sent :
        /\ n = RowAfter(e, f) /\ row = f.row /\ last = f.last /\ id = f.topic
        /\ owed = f.owed /\ sent = f.sent
  OBVIOUS
<1>2. PICK ids, D, socks : ids = e.topic_ids /\ D = UsedRows(e) /\ socks = e.sockets
  OBVIOUS
<1>3. \A q \in D : ord[q] \in Nat
  <2>1. UsedRows(e) \in SUBSET Rows
    BY UsedRowsType DEF Sound
  <2> QED
    BY <1>2, <2>1 DEF Ordered, Orders
<1>4. /\ e.names[id] = f.name
      /\ row \in D /\ ids[row] = id /\ last \in D /\ ids[last] = id /\ ord[row] <= ord[last]
  BY <1>1, <1>2 DEF FrameOK, FrameRows
<1>5. /\ \A q \in owed : q \in D /\ ids[q] = id /\ ord[q] <= ord[last]
      /\ \A q \in D : ids[q] = id /\ ord[q] <= ord[last] /\ q \notin owed => socks[q] = Nobody
      /\ \A q \in owed : ord[q] < ord[row] => socks[q] = Nobody \/ \E x \in sent : x[1] = q
  BY <1>1, <1>2, Zenon DEF FrameOK, FrameOwed
<1>6. /\ \A x \in sent : x[1] \in owed /\ ord[x[1]] < ord[row]
      /\ \A x, y \in sent : x[2] = y[2] => x = y
      /\ \A x \in sent : \A q \in owed : q # x[1] => socks[q] # x[2]
  BY <1>1, <1>2, Zenon DEF FrameOK, FrameSent
<1>7. Follows(e, ord, f, n)
  BY <1>1, RowAfterFollows DEF FrameOK
<1>8. /\ n # NoLink => n \in D /\ ids[n] = id /\ ord[row] < ord[n] /\ ord[n] <= ord[last]
      /\ \A q \in D : ids[q] = id /\ ord[q] <= ord[last] /\ (n = NoLink \/ ord[q] < ord[n])
                        => q = row \/ ord[q] < ord[row]
  BY <1>1, <1>2, <1>7, Zenon DEF Follows
<1>9. /\ g.topic = id /\ g.name = f.name /\ g.last = last /\ g.owed = owed
      /\ g.row = n /\ g.sent = sent \cup new
  BY <1>1 DEF Stepped
<1>10. FrameRows(e, ord, g)
  BY <1>2, <1>4, <1>8, <1>9 DEF FrameRows
<1>11. \A x \in new : x[1] = row /\ x[2] = socks[row] /\ x = <<row, socks[row]>>
                      /\ socks[row] # Nobody
  BY <1>1, <1>2
<1>12. socks[row] # Nobody => <<row, socks[row]>> \in new /\ row \in owed
  BY <1>1, <1>2, <1>4, <1>5
<1>13. FrameOwed(e, ord, g)
  <2>1. ASSUME NEW q \in owed, n = NoLink \/ ord[q] < ord[n]
        PROVE  socks[q] = Nobody \/ \E x \in sent \cup new : x[1] = q
    <3>1. q = row \/ ord[q] < ord[row]
      BY <1>5, <1>8, <2>1
    <3>2. CASE q = row
      <4>1. CASE socks[row] # Nobody
        <5>1. <<row, socks[row]>> \in sent \cup new /\ <<row, socks[row]>>[1] = q
          BY <1>12, <3>2, <4>1
        <5> QED
          BY <5>1
      <4> QED
        BY <3>2, <4>1
    <3>3. CASE ord[q] < ord[row]
      BY <1>5, <2>1, <3>3
    <3> QED
      BY <3>1, <3>2, <3>3
  <2> QED
    BY <1>2, <1>5, <1>9, <2>1, Zenon DEF FrameOwed
<1>14. FrameSent(e, ord, g)
  <2>1. ASSUME NEW x \in sent \cup new
        PROVE  x[1] \in owed /\ (n # NoLink => ord[x[1]] < ord[n])
    <3>1. x[1] \in owed /\ (x[1] = row \/ ord[x[1]] < ord[row])
      BY <1>6, <1>11, <1>12, <2>1
    <3> QED
      BY <1>3, <1>4, <1>5, <1>8, <3>1
  <2>2. ASSUME NEW x \in sent, NEW y \in new
        PROVE  x[2] # y[2]
    <3>1. row \in owed /\ x[1] # row
      <4>1. x[1] \in D
        BY <1>5, <1>6
      <4> QED
        BY <1>3, <1>4, <1>6, <1>11, <1>12, <2>2, <4>1
    <3> QED
      BY <1>6, <1>11, <2>2, <3>1
  <2>3. ASSUME NEW x \in sent \cup new, NEW y \in sent \cup new, x[2] = y[2]
        PROVE  x = y
    <3>1. (x \in sent /\ y \in sent) \/ (x \in new /\ y \in new)
      BY <2>2, <2>3
    <3> QED
      BY <1>6, <1>11, <2>3, <3>1
  <2>4. ASSUME NEW x \in sent \cup new, NEW q \in owed, q # x[1]
        PROVE  socks[q] # x[2]
    <3>1. CASE x \in sent
      BY <1>6, <2>4, <3>1
    <3>2. CASE x \in new
      <4>1. UniqueKeys(socks, ids, D)
        BY <1>2 DEF Sound, RowsOK
      <4>2. q \in D /\ ids[q] = id /\ q # row
        BY <1>5, <1>11, <2>4, <3>2
      <4> QED
        BY <1>4, <1>11, <3>2, <4>1, <4>2 DEF UniqueKeys
    <3> QED
      BY <3>1, <3>2
  <2> QED
    BY <1>2, <1>9, <2>1, <2>3, <2>4, Zenon DEF FrameSent
<1> QED
  BY <1>10, <1>13, <1>14 DEF FrameOK

\* Counting a visit changes nothing else.
LEMMA VisitFacts ==
  ASSUME NEW f \in PublishFrameType
  PROVE  LET g == Visit(f)
         IN  /\ g \in PublishFrameType
             /\ g.topic = f.topic /\ g.name = f.name /\ g.last = f.last /\ g.owed = f.owed
             /\ g.row = f.row /\ g.sent = f.sent
<1>1. f.visits \in Nat /\ VisitBound \in Nat
  BY SizeFacts DEF PublishFrameType, VisitBound
<1>2. PICK v \in Nat : v = Min({f.visits + 1, VisitBound})
  <2>1. {f.visits + 1, VisitBound} \in SUBSET Nat /\ {f.visits + 1, VisitBound} # {}
    BY <1>1
  <2>2. Min({f.visits + 1, VisitBound}) \in {f.visits + 1, VisitBound}
    BY <2>1, LeastIs, Zenon
  <2> QED
    BY <2>1, <2>2
<1>3. Visit(f) = [f EXCEPT !.visits = v]
  BY <1>2 DEF Visit
<1> QED
  BY <1>3 DEF PublishFrameType

\* Counting a visit keeps a frame in order.
LEMMA VisitKeeps ==
  ASSUME NEW f \in PublishFrameType, NEW e, NEW ord, FrameOK(e, ord, f)
  PROVE  FrameOK(e, ord, Visit(f))
  BY VisitFacts, ZenonT(40) DEF FrameOK, FrameRows, FrameOwed, FrameSent

-----------------------------------------------------------------------------
(* The inductive invariant.                                                *)

LinkStates == {"gone", "open", "full", "shut", "closing"}

Types ==
  /\ link \in [Sockets -> LinkStates] /\ notified \in [Sockets -> BOOLEAN]
  /\ stack \in Seq(Frames)

\* The live rows belong to sockets that are not gone.
LiveLinked(e, l) == \A r \in UsedRows(e) : e.sockets[r] # Nobody => l[e.sockets[r]] # "gone"

Inv == Types /\ RegistryOK(engine, stack) /\ LiveLinked(engine, link)

\* The empty registry is sound and clean.
LEMMA EmptyEngineSound ==
  Sound(EmptyEngine) /\ Clean(EmptyEngine) /\ \E ord, top : Ordered(EmptyEngine, ord, top)
<1>1. PICK e : e = EmptyEngine
  OBVIOUS
<1>2. /\ e.names = [id \in Topics |-> Nobody] /\ e.counts = [id \in Topics |-> 0]
      /\ e.heads = [id \in Topics |-> NoLink] /\ e.tails = [id \in Topics |-> NoLink]
      /\ e.free = <<>> /\ e.high_water = 0 /\ e.topic_count = 0
      /\ e.sockets = [r \in Rows |-> Nobody] /\ e.topic_ids = [r \in Rows |-> 0]
      /\ e.next = [r \in Rows |-> NoLink] /\ e.prev = [r \in Rows |-> NoLink]
      /\ e.sub_count = 0 /\ e.retired = 0 /\ e.empty_topic_pending = FALSE
      /\ e.topic_index = [c \in TopicCells |-> Unused] /\ e.topic_tombstones = 0
      /\ e.sub_index = [c \in SubCells |-> Unused] /\ e.sub_tombstones = 0
  BY <1>1 DEF EmptyEngine
<1>3. e \in Engines
  <2>1. EngineShape(e)
    BY <1>1 DEF EmptyEngine, EngineShape
  <2>2. 0 \in Topics /\ NoLink \in Links /\ Unused \in TopicSlots /\ Unused \in SubSlots
    BY SizeFacts DEF Topics, Links, TopicSlots, SubSlots
  <2>3. /\ e.names \in [Topics -> Names \cup {Nobody}] /\ e.counts \in [Topics -> Int]
        /\ e.heads \in [Topics -> Links] /\ e.tails \in [Topics -> Links]
        /\ e.sockets \in [Rows -> Sockets \cup {Nobody}] /\ e.topic_ids \in [Rows -> Topics]
        /\ e.next \in [Rows -> Links] /\ e.prev \in [Rows -> Links]
    BY <1>2, <2>2
  <2>4. /\ e.topic_index \in TopicTables /\ e.sub_index \in SubTables
    BY <1>2, <2>2 DEF TopicTables, SubTables
  <2>5. /\ e.free \in Seq(Topics) /\ e.high_water \in 0 .. MaxTopics
        /\ e.sub_count \in 0 .. MaxSubs
    BY <1>2, SizeFacts
  <2>6. /\ e.topic_count \in Int /\ e.retired \in Int /\ e.topic_tombstones \in Int
        /\ e.sub_tombstones \in Int
    BY <1>2
  <2>7. e.empty_topic_pending \in BOOLEAN
    <3>1. e.empty_topic_pending = FALSE
      BY <1>2, Zenon
    <3> QED
      BY <3>1, Zenon
  <2> QED
    BY <2>1, <2>3, <2>4, <2>5, <2>6, <2>7 DEF Engines, EngineShape
<1>4. UsedRows(e) = {}
  BY <1>2 DEF UsedRows
<1>5. TopicsOK(e)
  BY <1>2 DEF TopicsOK, UnusedIds, Distinct
<1>6. TopicIndexOK(e)
  <2>1. TopicEntries(e.names, Topics) = {}
    BY <1>2 DEF TopicEntries
  <2>2. Indexed([c \in 0 .. 2 * MaxTopics - 1 |-> Unused], 2 * MaxTopics, {})
    BY SizeFacts, IndexedEmpty
  <2> QED
    BY <1>2, <2>1, <2>2, SizeFacts DEF TopicIndexOK, TopicIndexed
<1>7. SubIndexOK(e)
  <2>1. SubEntries(e.sockets, e.topic_ids, {}) = {}
    BY DEF SubEntries
  <2>2. Indexed([c \in 0 .. 2 * MaxSubs - 1 |-> Unused], 2 * MaxSubs, {})
    BY SizeFacts, IndexedEmpty
  <2> QED
    BY <1>2, <1>4, <2>1, <2>2, SizeFacts DEF SubIndexOK, SubIndexed
<1>8. RowsOK(e)
  BY <1>2, <1>4 DEF RowsOK, UniqueKeys
<1>9. CountsOK(e)
  <2>1. DeadRows(e) = {} /\ \A id : LiveRows(e, id) = {}
    BY <1>4, LiveRowsAre DEF DeadRows
  <2> QED
    BY <1>2, <2>1, FS_EmptySet DEF CountsOK
<1>10. Clean(e)
  BY <1>2 DEF Clean
<1>11. Ordered(e, [r \in Rows |-> 0], 0)
  <2>1. [r \in Rows |-> 0] \in Orders
    BY DEF Orders
  <2>2. \A id \in Topics : e.heads[id] = NoLink /\ e.tails[id] = NoLink
    BY <1>2
  <2>3. Linked(e, UsedRows(e), [r \in Rows |-> 0])
    BY <1>4, <2>2 DEF Linked, IsHead, IsTail
  <2> QED
    BY <1>4, <2>1, <2>3 DEF Ordered
<1>12. Sound(e)
  BY <1>3, <1>5, <1>6, <1>7, <1>8, <1>9 DEF Sound
<1> QED
  BY <1>1, <1>10, <1>11, <1>12

\* The invariant holds initially.
LEMMA InitInv == Init => Inv
<1> SUFFICES ASSUME Init PROVE Inv
  OBVIOUS
<1>1. Types
  BY DEF Init, Types, LinkStates
<1>2. stack = <<>> /\ engine = EmptyEngine
  BY DEF Init
<1>3. NoPublish(stack)
  BY <1>2 DEF NoPublish
<1>4. Remembered(engine)
  BY <1>2, EmptyEngineSound DEF Clean, Remembered
<1>5. RegistryOK(engine, stack)
  BY <1>2, <1>3, <1>4, EmptyEngineSound, NoFrames DEF RegistryOK
<1>6. UsedRows(engine) = {}
  BY <1>2 DEF EmptyEngine, UsedRows
<1> QED
  BY <1>1, <1>5, <1>6 DEF Inv, LiveLinked

\* Dropping subscriptions leaves no subscriber without a transport.
LEMMA LiveLinkedDrops ==
  ASSUME NEW e, NEW d, NEW l, LiveLinked(e, l), DropsOnly(e, d)
  PROVE  LiveLinked(d, l)
  BY DEF LiveLinked, DropsOnly

\* A link that does not become gone keeps the rows linked.
LEMMA LinkChanges ==
  ASSUME NEW e, Sound(e), NEW l \in [Sockets -> LinkStates], LiveLinked(e, l), NEW s \in Sockets,
         NEW x \in LinkStates, x # "gone"
  PROVE  LiveLinked(e, [l EXCEPT ![s] = x]) /\ [l EXCEPT ![s] = x] \in [Sockets -> LinkStates]
  BY DEF LiveLinked

\* A socket without rows may go.
LEMMA LinkGone ==
  ASSUME NEW d, Sound(d), NEW l \in [Sockets -> LinkStates], LiveLinked(d, l), NEW s \in Sockets,
         NoRowOf(d, s)
  PROVE  /\ LiveLinked(d, [l EXCEPT ![s] = "gone"])
         /\ [l EXCEPT ![s] = "gone"] \in [Sockets -> LinkStates]
<1>1. \A r \in UsedRows(d) : d.sockets[r] \in Sockets \cup {Nobody}
  <2>1. UsedRows(d) \in SUBSET Rows /\ d \in Engines
    BY UsedRowsType DEF Sound
  <2> QED
    BY <2>1 DEF Engines
<1>2. [l EXCEPT ![s] = "gone"] \in [Sockets -> LinkStates]
  BY DEF LinkStates
<1>3. \A x \in Sockets : x # s => [l EXCEPT ![s] = "gone"][x] = l[x]
  OBVIOUS
<1> QED
  BY <1>1, <1>2, <1>3 DEF LiveLinked, NoRowOf

\* A callback frame is a frame, and no publish.
LEMMA CallbackFrameFacts ==
  ASSUME NEW s \in Sockets, NEW then \in {"deinit", "flush"}
  PROVE  CallbackFrame(s, then) \in Frames /\ CallbackFrame(s, then).kind # "publish"
  BY DEF CallbackFrame, Frames, CallbackFrameType

\* The tail of deinit keeps the invariant over the frames that remain.
LEMMA FinishDeinitInv ==
  ASSUME Types, LiveLinked(engine, link), NEW s \in Sockets, NEW frames \in Seq(Frames),
         RegistryOK(engine, frames), FinishDeinit(s, frames), notified' \in [Sockets -> BOOLEAN]
  PROVE  Inv'
<1>1. /\ engine' = unsubscribe_all(engine, Depth(frames), s)
      /\ link' = [link EXCEPT ![s] = "gone"] /\ stack' = frames
  BY DEF FinishDeinit
<1>2. PICK d : d = engine'
  OBVIOUS
<1>3. RegistryOK(d, frames) /\ DropsOnly(engine, d) /\ NoRowOf(d, s)
  BY <1>1, <1>2, UnsubscribeAllKeeps
<1>4. LiveLinked(d, link) /\ Sound(d)
  BY <1>3, LiveLinkedDrops DEF RegistryOK
<1>5. LiveLinked(d, link') /\ link' \in [Sockets -> LinkStates]
  BY <1>1, <1>3, <1>4, LinkGone DEF Types
<1>6. RegistryOK(engine', stack') /\ LiveLinked(engine', link')
  BY <1>1, <1>2, <1>3, <1>5
<1>7. Types'
  BY <1>1, <1>5 DEF Types
<1> QED
  BY <1>6, <1>7 DEF Inv

\* Teardown, notified before or not, keeps the invariant.
LEMMA TeardownInv ==
  ASSUME Inv, NEW s \in Sockets, Teardown(s)
  PROVE  Inv'
<1>1. Types /\ RegistryOK(engine, stack) /\ LiveLinked(engine, link) /\ stack \in Seq(Frames)
      /\ link \in [Sockets -> LinkStates] /\ notified \in [Sockets -> BOOLEAN]
  BY DEF Inv, Types
<1>2. CASE FinishDeinit(s, stack) /\ UNCHANGED notified
  BY <1>1, <1>2, FinishDeinitInv
<1>3. CASE /\ notified' = [notified EXCEPT ![s] = TRUE]
           /\ link' = [link EXCEPT ![s] = "closing"]
           /\ stack' = Append(stack, CallbackFrame(s, "deinit"))
           /\ UNCHANGED engine
  <2>1. PICK f \in Frames : f = CallbackFrame(s, "deinit") /\ f.kind # "publish"
    BY CallbackFrameFacts
  <2>2. RegistryOK(engine, stack') /\ stack' \in Seq(Frames)
    BY <1>1, <1>3, <2>1, CallbackOnTop
  <2>3. LiveLinked(engine, link') /\ link' \in [Sockets -> LinkStates]
    <3>1. Sound(engine) /\ "closing" \in LinkStates /\ "closing" # "gone"
      BY <1>1 DEF RegistryOK, LinkStates
    <3> QED
      BY <1>1, <1>3, <3>1, LinkChanges
  <2>4. notified' \in [Sockets -> BOOLEAN]
    BY <1>1, <1>3
  <2> QED
    BY <1>3, <2>2, <2>3, <2>4 DEF Inv, Types
<1> QED
  BY <1>2, <1>3 DEF Teardown

\* A step that leaves the registry and the stack alone.
LEMMA LinkStepInv ==
  ASSUME Inv, NEW s \in Sockets, NEW x \in LinkStates, x # "gone",
         link' = [link EXCEPT ![s] = x], UNCHANGED <<engine, stack>>,
         notified' \in [Sockets -> BOOLEAN]
  PROVE  Inv'
<1>1. Types /\ RegistryOK(engine, stack) /\ LiveLinked(engine, link) /\ Sound(engine)
  BY DEF Inv, RegistryOK
<1>2. LiveLinked(engine, link') /\ link' \in [Sockets -> LinkStates]
  BY <1>1, LinkChanges DEF Types
<1> QED
  BY <1>1, <1>2 DEF Inv, Types

\* Subscribe keeps the invariant.
LEMMA SubscribeInv ==
  ASSUME Inv, NEW s \in Sockets, NEW name \in Names, Subscribe(s, name)
  PROVE  Inv'
<1>1. Types /\ RegistryOK(engine, stack) /\ LiveLinked(engine, link) /\ stack \in Seq(Frames)
  BY DEF Inv, Types
<1>2. /\ engine' = subscribe(engine, s, name) /\ link[s] # "gone"
      /\ UNCHANGED <<link, notified, stack>>
  BY DEF Subscribe
<1>3. RegistryOK(engine', stack) /\ SubscribesOnly(engine, engine', s)
  BY <1>1, <1>2, SubscribeKeeps
<1>4. LiveLinked(engine', link)
  BY <1>1, <1>2, <1>3 DEF LiveLinked, SubscribesOnly
<1> QED
  BY <1>1, <1>2, <1>3, <1>4 DEF Inv, Types

\* Unsubscribe keeps the invariant.
LEMMA UnsubscribeInv ==
  ASSUME Inv, NEW s \in Sockets, NEW name \in Names, Unsubscribe(s, name)
  PROVE  Inv'
<1>1. Types /\ RegistryOK(engine, stack) /\ LiveLinked(engine, link) /\ stack \in Seq(Frames)
  BY DEF Inv, Types
<1>2. engine' = unsubscribe(engine, Depth(stack), s, name) /\ UNCHANGED <<link, notified, stack>>
  BY DEF Unsubscribe
<1>3. RegistryOK(engine', stack) /\ DropsOnly(engine, engine')
  BY <1>1, <1>2, UnsubscribeKeeps
<1>4. LiveLinked(engine', link)
  BY <1>1, <1>3, LiveLinkedDrops
<1> QED
  BY <1>1, <1>2, <1>3, <1>4 DEF Inv, Types

\* Publish keeps the invariant.
LEMMA PublishInv ==
  ASSUME Inv, NEW name \in Names, Publish(name)
  PROVE  Inv'
<1>1. Types /\ RegistryOK(engine, stack) /\ LiveLinked(engine, link) /\ stack \in Seq(Frames)
  BY DEF Inv, Types
<1>2. PICK d, id, f :
        /\ d = fresh_topic_index(engine) /\ id = find_topic(d, name) /\ id # NoLink
        /\ d.heads[id] # NoLink /\ f = PublishFrame(d, id, name)
        /\ engine' = d /\ stack' = Append(stack, f) /\ UNCHANGED <<link, notified>>
  BY DEF Publish
<1>3. /\ RegistryOK(d, Append(stack, f)) /\ f \in Frames
      /\ d.sockets = engine.sockets /\ UsedRows(d) = UsedRows(engine)
  BY <1>1, <1>2, PublishKeeps
<1>4. LiveLinked(d, link)
  BY <1>1, <1>3 DEF LiveLinked
<1>5. stack' \in Seq(Frames)
  BY <1>1, <1>2, <1>3
<1> QED
  BY <1>1, <1>2, <1>3, <1>4, <1>5 DEF Inv, Types

\* ReceiveClose keeps the invariant.
LEMMA ReceiveCloseInv ==
  ASSUME Inv, NEW s \in Sockets, ReceiveClose(s)
  PROVE  Inv'
<1>1. Types /\ RegistryOK(engine, stack) /\ LiveLinked(engine, link) /\ stack \in Seq(Frames)
      /\ Sound(engine)
  BY DEF Inv, Types, RegistryOK
<1>2. PICK f \in Frames : f = CallbackFrame(s, "flush") /\ f.kind # "publish"
  BY CallbackFrameFacts
<1>3. /\ link' = [link EXCEPT ![s] = "shut"] /\ notified' = [notified EXCEPT ![s] = TRUE]
      /\ stack = <<>> /\ stack' = <<f>> /\ engine' = engine
  BY <1>2 DEF ReceiveClose
<1>4. stack' = Append(stack, f) /\ stack' \in Seq(Frames)
  BY <1>3
<1>5. RegistryOK(engine, stack')
  BY <1>1, <1>2, <1>4, CallbackOnTop
<1>6. "shut" \in LinkStates /\ "shut" # "gone"
  BY DEF LinkStates
<1>7. LiveLinked(engine, link') /\ link' \in [Sockets -> LinkStates]
  BY <1>1, <1>3, <1>6, LinkChanges DEF Types
<1>8. notified' \in [Sockets -> BOOLEAN]
  BY <1>1, <1>3 DEF Types
<1> QED
  BY <1>3, <1>4, <1>5, <1>7, <1>8 DEF Inv, Types

\* CallbackReturns keeps the invariant.
LEMMA CallbackReturnsInv ==
  ASSUME Inv, CallbackReturns
  PROVE  Inv'
<1>1. Types /\ RegistryOK(engine, stack) /\ LiveLinked(engine, link) /\ stack \in Seq(Frames)
  BY DEF Inv, Types
<1>2. PICK f, s : f = Last(stack) /\ s = f.socket
  OBVIOUS
<1>3. /\ stack # <<>> /\ f.kind = "callback" /\ UNCHANGED notified
      /\ \/ FinishDeinit(s, Front(stack))
         \/ stack' = Front(stack) /\ UNCHANGED <<engine, link>>
  BY <1>2 DEF CallbackReturns
<1>4. PICK frames \in Seq(Frames) :
        /\ frames = Front(stack) /\ FramesWithin(frames, stack) /\ f \in Frames
        /\ f.kind # "publish" => (NoPublish(frames) => NoPublish(stack))
  BY <1>1, <1>2, <1>3, FrontFrames
<1>5. RegistryOK(engine, frames)
  BY <1>1, <1>3, <1>4, FewerFrames
<1>6. s \in Sockets
  BY <1>2, <1>3, <1>4 DEF Frames, PublishFrameType, CallbackFrameType
<1>7. CASE FinishDeinit(s, Front(stack))
  <2>1. notified' \in [Sockets -> BOOLEAN]
    BY <1>1, <1>3 DEF Types
  <2> QED
    BY <1>1, <1>4, <1>5, <1>6, <1>7, <2>1, FinishDeinitInv
<1>8. CASE stack' = Front(stack) /\ UNCHANGED <<engine, link>>
  BY <1>1, <1>3, <1>4, <1>5, <1>8 DEF Inv, Types
<1> QED
  BY <1>3, <1>7, <1>8

\* The frame on top of the stack, when it visits a row.
TopVisits(f, g) ==
  /\ stack # <<>> /\ f = Last(stack) /\ f.kind = "publish" /\ f.row # NoLink
  /\ stack' = Append(Front(stack), g) /\ UNCHANGED <<engine, notified>>

\* A step of the loop that leaves its frame in order keeps the invariant.
LEMMA TopVisitsInv ==
  ASSUME Inv, NEW f, NEW g, TopVisits(f, g), g \in PublishFrameType,
         LiveLinked(engine, link'), link' \in [Sockets -> LinkStates],
         \A ord, top : Ordered(engine, ord, top) /\ FrameOK(engine, ord, f)
                         => FrameOK(engine, ord, g)
  PROVE  Inv'
<1>1. Types /\ RegistryOK(engine, stack) /\ stack \in Seq(Frames)
  BY DEF Inv, Types
<1>2. RegistryOK(engine, stack') /\ stack' \in Seq(Frames)
  BY <1>1, TopReplaced DEF TopVisits
<1> QED
  BY <1>1, <1>2 DEF Inv, Types, TopVisits

\* A publish frame on top has the type of one.
LEMMA TopFrameType ==
  ASSUME Inv, stack # <<>>, Last(stack).kind = "publish"
  PROVE  Last(stack) \in PublishFrameType
<1>1. Last(stack) \in Frames
  BY FrontFrames DEF Inv, Types
<1> QED
  BY <1>1 DEF Frames, PublishFrameType, CallbackFrameType

\* The next row of a frame that is on the stack is a row or NoLink.
AdvancedTo(f, sent, g) ==
  /\ g \in PublishFrameType
  /\ g.topic = f.topic /\ g.name = f.name /\ g.last = f.last /\ g.owed = f.owed
  /\ g.row = RowAfter(engine, f) /\ g.sent = sent

\* What the end of a round of the loop changes in its frame.
LEMMA AdvanceFacts ==
  ASSUME Inv, NEW f \in PublishFrameType, f.row # NoLink, NEW sent \in SUBSET Deliveries,
         NEW g, g = [Advance(f) EXCEPT !.sent = sent]
  PROVE  AdvancedTo(f, sent, g)
<1>1. PICK v : v = Visit(f)
  OBVIOUS
<1>2. /\ v \in PublishFrameType
      /\ v.topic = f.topic /\ v.name = f.name /\ v.last = f.last /\ v.owed = f.owed
  BY <1>1, VisitFacts
<1>3. PICK n : n = RowAfter(engine, f)
  OBVIOUS
<1>4. n \in Links
  <2>1. engine.next \in [Rows -> Links] /\ f.row \in Rows
    BY DEF Inv, RegistryOK, Sound, Engines, PublishFrameType, Links
  <2> QED
    BY <1>3, <2>1 DEF RowAfter, Links
<1>5. Advance(f) = [v EXCEPT !.row = n]
  BY <1>1, <1>3 DEF Advance, RowAfter
<1>6. g = [v EXCEPT !.row = n, !.sent = sent]
  BY <1>2, <1>5 DEF PublishFrameType
<1> QED
  BY <1>2, <1>3, <1>4, <1>6 DEF PublishFrameType, AdvancedTo

\* VisitTombstone keeps the invariant.
LEMMA VisitTombstoneInv ==
  ASSUME Inv, VisitTombstone
  PROVE  Inv'
<1>1. PICK f : f = Last(stack)
  OBVIOUS
<1>2. /\ stack # <<>> /\ f.kind = "publish" /\ f.row # NoLink
      /\ engine.sockets[f.row] = Nobody /\ stack' = Append(Front(stack), Advance(f))
      /\ UNCHANGED <<engine, link, notified>>
  BY <1>1 DEF VisitTombstone, Visiting
<1>3. f \in PublishFrameType
  BY <1>1, <1>2, TopFrameType
<1>4. PICK g : g = [Advance(f) EXCEPT !.sent = f.sent]
  OBVIOUS
<1>5. f.sent \in SUBSET Deliveries
  BY <1>3 DEF PublishFrameType
<1>6. /\ g \in PublishFrameType
      /\ g.topic = f.topic /\ g.name = f.name /\ g.last = f.last /\ g.owed = f.owed
      /\ g.row = RowAfter(engine, f) /\ g.sent = f.sent
  <2>1. AdvancedTo(f, f.sent, g)
    BY <1>2, <1>3, <1>4, <1>5, AdvanceFacts
  <2> QED
    BY <2>1, Zenon DEF AdvancedTo
<1>7. g = Advance(f)
  <2>1. Visit(f) \in PublishFrameType /\ Visit(f).sent = f.sent
    BY <1>3, VisitFacts
  <2> QED
    BY <1>4, <2>1 DEF Advance, PublishFrameType
<1>8. ASSUME NEW ord, NEW top, Ordered(engine, ord, top), FrameOK(engine, ord, f)
      PROVE  FrameOK(engine, ord, g)
  <2>1. Stepped(engine, f, g, {})
    BY <1>6 DEF Stepped
  <2>2. Sound(engine) /\ {} = IF engine.sockets[f.row] = Nobody THEN {}
                              ELSE {<<f.row, engine.sockets[f.row]>>}
    BY <1>2 DEF Inv, RegistryOK
  <2> QED
    BY <1>2, <1>3, <1>8, <2>1, <2>2, SteppedFrameOK
<1>9. TopVisits(f, g)
  BY <1>1, <1>2, <1>7 DEF TopVisits
<1>10. LiveLinked(engine, link') /\ link' \in [Sockets -> LinkStates]
  BY <1>2 DEF Inv, Types
<1> QED
  BY <1>6, <1>8, <1>9, <1>10, TopVisitsInv

\* SendSucceeds keeps the invariant.
LEMMA SendSucceedsInv ==
  ASSUME Inv, SendSucceeds
  PROVE  Inv'
<1>1. PICK f, s : f = Last(stack) /\ s = engine.sockets[f.row]
  OBVIOUS
<1>2. PICK g : g = [Advance(f) EXCEPT !.sent = @ \cup {<<f.row, s>>}]
  OBVIOUS
<1>3. /\ stack # <<>> /\ f.kind = "publish" /\ f.row # NoLink /\ s # Nobody
      /\ stack' = Append(Front(stack), g) /\ link' \in {link, [link EXCEPT ![s] = "full"]}
      /\ UNCHANGED <<engine, notified>>
  BY <1>1, <1>2 DEF SendSucceeds, Visiting
<1>4. f \in PublishFrameType
  BY <1>1, <1>3, TopFrameType
<1>5. f.row \in Rows /\ s \in Sockets /\ Sound(engine)
  <2>1. f.row \in Rows
    BY <1>3, <1>4 DEF PublishFrameType, Links
  <2>2. engine.sockets \in [Rows -> Sockets \cup {Nobody}] /\ Sound(engine)
    BY DEF Inv, RegistryOK, Sound, Engines
  <2> QED
    BY <1>1, <1>3, <2>1, <2>2
<1>6. PICK sent \in SUBSET Deliveries : sent = f.sent \cup {<<f.row, s>>}
  <2>1. f.sent \in SUBSET Deliveries
    BY <1>4 DEF PublishFrameType
  <2>2. <<f.row, s>> \in Deliveries
    BY <1>5 DEF Deliveries
  <2> QED
    BY <2>1, <2>2
<1>7. g = [Advance(f) EXCEPT !.sent = sent]
  <2>1. Visit(f) \in PublishFrameType /\ Visit(f).sent = f.sent
    BY <1>4, VisitFacts
  <2>2. Advance(f).sent = f.sent
    BY <2>1 DEF Advance, PublishFrameType
  <2> QED
    BY <1>2, <1>6, <2>2
<1>8. /\ g \in PublishFrameType
      /\ g.topic = f.topic /\ g.name = f.name /\ g.last = f.last /\ g.owed = f.owed
      /\ g.row = RowAfter(engine, f) /\ g.sent = sent
  <2>1. AdvancedTo(f, sent, g)
    BY <1>3, <1>4, <1>7, AdvanceFacts
  <2> QED
    BY <2>1, Zenon DEF AdvancedTo
<1>9. ASSUME NEW ord, NEW top, Ordered(engine, ord, top), FrameOK(engine, ord, f)
      PROVE  FrameOK(engine, ord, g)
  <2>1. PICK new : new = {<<f.row, s>>}
    OBVIOUS
  <2>2. Stepped(engine, f, g, new)
    BY <1>6, <1>8, <2>1 DEF Stepped
  <2>3. new = IF engine.sockets[f.row] = Nobody THEN {} ELSE {<<f.row, engine.sockets[f.row]>>}
    BY <1>1, <1>3, <2>1
  <2> QED
    BY <1>3, <1>4, <1>5, <1>9, <2>2, <2>3, SteppedFrameOK
<1>10. TopVisits(f, g)
  BY <1>1, <1>3 DEF TopVisits
<1>11. LiveLinked(engine, link') /\ link' \in [Sockets -> LinkStates]
  <2>1. LiveLinked(engine, link) /\ link \in [Sockets -> LinkStates]
    BY DEF Inv, Types
  <2>2. "full" \in LinkStates /\ "full" # "gone"
    BY DEF LinkStates
  <2>3. LiveLinked(engine, [link EXCEPT ![s] = "full"])
        /\ [link EXCEPT ![s] = "full"] \in [Sockets -> LinkStates]
    BY <1>5, <2>1, <2>2, LinkChanges
  <2> QED
    BY <1>3, <2>1, <2>3
<1> QED
  BY <1>8, <1>9, <1>10, <1>11, TopVisitsInv

\* SendRefused keeps the invariant.
LEMMA SendRefusedInv ==
  ASSUME Inv, SendRefused
  PROVE  Inv'
<1>1. PICK f, g : f = Last(stack) /\ g = Visit(f)
  OBVIOUS
<1>2. /\ stack # <<>> /\ f.kind = "publish" /\ f.row # NoLink
      /\ stack' = Append(Front(stack), g) /\ UNCHANGED <<engine, link, notified>>
  BY <1>1 DEF SendRefused, Visiting
<1>3. f \in PublishFrameType
  BY <1>1, <1>2, TopFrameType
<1>4. g \in PublishFrameType
  BY <1>1, <1>3, VisitFacts
<1>5. \A ord, top : Ordered(engine, ord, top) /\ FrameOK(engine, ord, f) => FrameOK(engine, ord, g)
  BY <1>1, <1>3, VisitKeeps
<1>6. TopVisits(f, g)
  BY <1>1, <1>2 DEF TopVisits
<1>7. LiveLinked(engine, link') /\ link' \in [Sockets -> LinkStates]
  BY <1>2 DEF Inv, Types
<1> QED
  BY <1>4, <1>5, <1>6, <1>7, TopVisitsInv

\* PublishReturns keeps the invariant.
LEMMA PublishReturnsInv ==
  ASSUME Inv, PublishReturns
  PROVE  Inv'
<1>1. Types /\ RegistryOK(engine, stack) /\ LiveLinked(engine, link) /\ stack \in Seq(Frames)
  BY DEF Inv, Types
<1>2. /\ stack # <<>> /\ stack' = Front(stack) /\ engine' = end_publish(engine, Depth(Front(stack)))
      /\ UNCHANGED <<link, notified>>
  BY DEF PublishReturns
<1>3. RegistryOK(engine', stack') /\ DropsOnly(engine, engine')
  BY <1>1, <1>2, EndPublishKeeps
<1>4. LiveLinked(engine', link)
  BY <1>1, <1>3, LiveLinkedDrops
<1>5. stack' \in Seq(Frames)
  BY <1>1, <1>2, FrontFrames
<1> QED
  BY <1>1, <1>2, <1>3, <1>4, <1>5 DEF Inv, Types

\* Every step keeps the invariant.
LEMMA NextInv ==
  ASSUME Inv, [Next]_vars
  PROVE  Inv'
<1>1. link \in [Sockets -> LinkStates] /\ notified \in [Sockets -> BOOLEAN]
  BY DEF Inv, Types
<1>2. {"open", "full", "shut"} \subseteq LinkStates /\ "gone" \notin {"open", "full", "shut"}
  BY DEF LinkStates
<1>3. ASSUME NEW s \in Sockets, NEW name \in Names, Subscribe(s, name) \/ Unsubscribe(s, name)
      PROVE  Inv'
  BY <1>3, SubscribeInv, UnsubscribeInv
<1>4. ASSUME NEW name \in Names, Publish(name) PROVE Inv'
  BY <1>4, PublishInv
<1>5. ASSUME NEW s \in Sockets, Upgrade(s) PROVE Inv'
  BY <1>1, <1>2, <1>5, LinkStepInv DEF Upgrade
<1>6. ASSUME NEW s \in Sockets, Backlog(s) PROVE Inv'
  BY <1>1, <1>2, <1>6, LinkStepInv DEF Backlog
<1>7. ASSUME NEW s \in Sockets, Drain(s) PROVE Inv'
  BY <1>1, <1>2, <1>7, LinkStepInv DEF Drain
<1>8. ASSUME NEW s \in Sockets, SendClose(s) PROVE Inv'
  BY <1>1, <1>2, <1>8, LinkStepInv DEF SendClose
<1>9. ASSUME NEW s \in Sockets, ReceiveClose(s) PROVE Inv'
  BY <1>9, ReceiveCloseInv
<1>10. ASSUME NEW s \in Sockets, CloseConnection(s) PROVE Inv'
  BY <1>10, TeardownInv DEF CloseConnection
<1>11. CASE SendTerminates
  <2>1. PICK s \in Sockets : Teardown(s)
    BY <1>11, NamesAssumption DEF SendTerminates
  <2> QED
    BY <2>1, TeardownInv
<1>12. CASE UNCHANGED vars
  BY <1>12 DEF vars, Inv, Types
<1> QED
  BY <1>3, <1>4, <1>5, <1>6, <1>7, <1>8, <1>9, <1>10, <1>11, <1>12, CallbackReturnsInv,
     VisitTombstoneInv, SendSucceedsInv, SendRefusedInv, PublishReturnsInv DEF Next

-----------------------------------------------------------------------------
(* The order of a topic's rows as a list.                                  *)

\* The rows of S in the order of their numbers.
Sorted(S, ord, n, list) ==
  /\ list \in [1 .. n -> S]
  /\ \A i, j \in 1 .. n : i < j => ord[list[i]] < ord[list[j]]
  /\ \A x \in S : \E i \in 1 .. n : list[i] = x

\* All sets of n rows can be sorted.
Sortable(ord, D, n) ==
  \A S \in SUBSET D : Cardinality(S) = n => \E list : Sorted(S, ord, n, list)

\* Rows can be listed in the given order: one row more.
LEMMA SortOneMore ==
  ASSUME NEW ord \in Orders, NEW D \in SUBSET Rows, \A q, r \in D : ord[q] = ord[r] => q = r,
         NEW n \in Nat \ {0}, Sortable(ord, D, n - 1)
  PROVE  Sortable(ord, D, n)
<1>1. SUFFICES ASSUME NEW S \in SUBSET D, Cardinality(S) = n
               PROVE  \E list : Sorted(S, ord, n, list)
  BY DEF Sortable
<1>2. S \in SUBSET Rows /\ \A x \in S : ord[x] \in Nat
  BY DEF Orders
<1>3. S # {}
  BY <1>1, <1>2, RowSetsFinite
<1>4. PICK x \in S : \A y \in S : ord[x] <= ord[y]
  <2> DEFINE T == {ord[y] : y \in S}
  <2>1. T \in SUBSET Nat /\ T # {}
    BY <1>2, <1>3
  <2>2. PICK v \in T : \A w \in T : v <= w
    <3> HIDE DEF T
    <3> QED
      BY <2>1, LeastNatural
  <2> QED
    BY <2>2
<1>5. PICK R \in SUBSET D : R = S \ {x}
  BY <1>1
<1>6. Cardinality(R) = n - 1
  BY <1>1, <1>2, <1>5, RowRemoved
<1>7. PICK rest : Sorted(R, ord, n - 1, rest)
  BY <1>6 DEF Sortable
<1>8. /\ rest \in [1 .. n - 1 -> R]
      /\ \A i, j \in 1 .. n - 1 : i < j => ord[rest[i]] < ord[rest[j]]
      /\ \A y \in R : \E i \in 1 .. n - 1 : rest[i] = y
  BY <1>7, Zenon DEF Sorted
<1>9. \A y \in R : y \in S /\ ord[x] < ord[y]
  <2>1. SUFFICES ASSUME NEW y \in R PROVE y \in S /\ ord[x] < ord[y]
    OBVIOUS
  <2>2. y \in S /\ y # x /\ ord[x] <= ord[y] /\ ord[x] # ord[y]
    BY <1>1, <1>4, <1>5
  <2> QED
    BY <1>2, <2>2
<1> DEFINE list == [i \in 1 .. n |-> IF i = 1 THEN x ELSE rest[i - 1]]
<1>10. \A i \in 1 .. n : i = 1 \/ i - 1 \in 1 .. n - 1
  OBVIOUS
<1>11. list \in [1 .. n -> S]
  BY <1>8, <1>9, <1>10
<1>12. ASSUME NEW i \in 1 .. n, NEW j \in 1 .. n, i < j PROVE ord[list[i]] < ord[list[j]]
  <2>1. j - 1 \in 1 .. n - 1 /\ list[j] = rest[j - 1] /\ rest[j - 1] \in R
    BY <1>8, <1>10, <1>12
  <2>2. CASE i = 1
    BY <1>9, <2>1, <2>2
  <2>3. CASE i # 1
    <3>1. i - 1 \in 1 .. n - 1 /\ list[i] = rest[i - 1] /\ i - 1 < j - 1
      BY <1>10, <1>12, <2>3
    <3> QED
      BY <1>8, <2>1, <3>1
  <2> QED
    BY <2>2, <2>3
<1>13. ASSUME NEW y \in S PROVE \E i \in 1 .. n : list[i] = y
  <2>1. CASE y = x
    <3>1. 1 \in 1 .. n /\ list[1] = x
      OBVIOUS
    <3> QED
      BY <2>1, <3>1
  <2>2. CASE y # x
    <3>1. PICK i \in 1 .. n - 1 : rest[i] = y
      BY <1>5, <1>8, <2>2
    <3>2. i + 1 \in 1 .. n /\ i + 1 # 1 /\ (i + 1) - 1 = i
      OBVIOUS
    <3>3. list[i + 1] = y
      BY <3>1, <3>2
    <3> QED
      BY <3>2, <3>3
  <2> QED
    BY <2>1, <2>2
<1> HIDE DEF list
<1>14. Sorted(S, ord, n, list)
  BY <1>11, <1>12, <1>13, Zenon DEF Sorted
<1> QED
  BY <1>14

\* Any set of used rows can be listed in the given order.
LEMMA SortedExists ==
  ASSUME NEW ord \in Orders, NEW D \in SUBSET Rows, \A q, r \in D : ord[q] = ord[r] => q = r,
         NEW S \in SUBSET D
  PROVE  Cardinality(S) \in Nat /\ \E list : Sorted(S, ord, Cardinality(S), list)
<1>1. PICK N \in Nat : N = Cardinality(S)
  BY RowSetsFinite
<1> DEFINE T == {n \in 0 .. N : Sortable(ord, D, n)}
<1>2. Sortable(ord, D, 0)
  <2>1. SUFFICES ASSUME NEW R \in SUBSET D, Cardinality(R) = 0
                 PROVE  \E list : Sorted(R, ord, 0, list)
    BY DEF Sortable
  <2>2. R = {}
    BY <2>1, RowSetsFinite
  <2>3. Sorted(R, ord, 0, [i \in 1 .. 0 |-> i])
    BY <2>2 DEF Sorted
  <2> QED
    BY <2>3
<1>3. 0 \in T
  BY <1>2
<1>4. ASSUME NEW n \in 1 .. N, n - 1 \in T PROVE n \in T
  <2>1. Sortable(ord, D, n - 1) /\ n \in Nat \ {0} /\ n \in 0 .. N
    BY <1>4
  <2>2. Sortable(ord, D, n)
    BY <2>1, SortOneMore
  <2> QED
    BY <2>1, <2>2
<1> HIDE DEF T
<1>5. \A n \in 0 .. N : n \in T
  BY <1>3, <1>4, UpTo, Zenon
<1>6. Sortable(ord, D, N)
  BY <1>5 DEF T
<1> QED
  BY <1>1, <1>6 DEF Sortable

\* A topic's rows in order are the list that the links describe.
LEMMA SortedIsThreaded ==
  ASSUME NEW e, Sound(e), NEW ord, NEW top, Ordered(e, ord, top), NEW id \in Topics,
         NEW n \in Nat, NEW list, Sorted(TopicRows(e, id), ord, n, list)
  PROVE  Threaded(e, id, list)
<1>1. PICK S, D, ids : S = TopicRows(e, id) /\ D = UsedRows(e) /\ ids = e.topic_ids
  OBVIOUS
<1>2. D \in SUBSET Rows /\ \A q \in D : ord[q] \in Nat
  BY <1>1, UsedRowsType DEF Sound, Ordered, Orders
<1>3. \A q : q \in S <=> q \in D /\ ids[q] = id
  BY <1>1 DEF TopicRows, UsedRows
<1>4. /\ list \in [1 .. n -> S]
      /\ \A i, j \in 1 .. n : i < j => ord[list[i]] < ord[list[j]]
      /\ \A x \in S : \E i \in 1 .. n : list[i] = x
  BY <1>1, Zenon DEF Sorted
<1>5. list \in Seq(S) /\ Len(list) = n
  BY <1>4
<1>6. list = <<>> <=> n = 0
  BY <1>5
<1>7. \A i \in 1 .. n : list[i] \in S /\ list[i] \in D /\ ids[list[i]] = id /\ ord[list[i]] \in Nat
                        /\ list[i] # NoLink
  <2>1. \A q \in Rows : q # NoLink
    BY SizeFacts DEF Rows, NoLink
  <2>2. \A i \in 1 .. n : list[i] \in S
    BY <1>4
  <2> QED
    BY <1>2, <1>3, <2>1, <2>2
<1>8. \A i, j \in 1 .. n : ord[list[i]] <= ord[list[j]] => i <= j
  BY <1>4, <1>7
<1>9. IsHead(ids, D, ord, id, e.heads[id]) /\ IsTail(ids, D, ord, id, e.tails[id])
  BY <1>1, Zenon DEF Ordered, Linked
<1>10. CASE n = 0
  <2>1. \A q \in D : ids[q] # id
    BY <1>3, <1>4, <1>10
  <2>2. e.heads[id] = NoLink /\ e.tails[id] = NoLink
    BY <1>9, <2>1 DEF IsHead, IsTail
  <2> QED
    BY <1>5, <1>6, <1>10, <2>2 DEF Threaded
<1>11. CASE n # 0
  <2>1. 1 \in 1 .. n /\ n \in 1 .. n
    BY <1>11
  <2>2. e.heads[id] = list[1]
    <3>1. PICK h : h = e.heads[id]
      OBVIOUS
    <3>2. h \in D /\ ids[h] = id /\ \A q \in D : ids[q] = id => ord[h] <= ord[q]
      BY <1>7, <1>9, <2>1, <3>1 DEF IsHead
    <3>3. PICK i \in 1 .. n : list[i] = h
      BY <1>3, <1>4, <3>2
    <3>4. i <= 1
      BY <1>7, <1>8, <2>1, <3>2, <3>3
    <3>5. i = 1
      BY <3>4
    <3> QED
      BY <3>1, <3>3, <3>5
  <2>3. e.tails[id] = list[n]
    <3>1. PICK t : t = e.tails[id]
      OBVIOUS
    <3>2. t \in D /\ ids[t] = id /\ \A q \in D : ids[q] = id => ord[q] <= ord[t]
      BY <1>7, <1>9, <2>1, <3>1 DEF IsTail
    <3>3. PICK i \in 1 .. n : list[i] = t
      BY <1>3, <1>4, <3>2
    <3>4. n <= i
      BY <1>7, <1>8, <2>1, <3>2, <3>3
    <3>5. i = n
      BY <3>4
    <3> QED
      BY <3>1, <3>3, <3>5
  <2>4. ASSUME NEW i \in 1 .. n PROVE e.next[list[i]] = IF i = n THEN NoLink ELSE list[i + 1]
    <3>1. PICK r, x : r = list[i] /\ x = e.next[r]
      OBVIOUS
    <3>2. IsNext(ids, D, ord, r, x) /\ r \in D /\ ids[r] = id
      BY <1>1, <1>7, <3>1, Zenon DEF Ordered, Linked
    <3>3. CASE x = NoLink
      <4>1. ord[list[n]] <= ord[r]
        BY <1>7, <2>1, <3>2, <3>3 DEF IsNext
      <4>2. n <= i
        BY <1>8, <2>1, <3>1, <4>1
      <4>3. i = n
        BY <4>2
      <4> QED
        BY <3>1, <3>3, <4>3
    <3>4. CASE x # NoLink
      <4>1. /\ x \in D /\ ids[x] = id /\ ord[r] < ord[x]
            /\ \A q \in D : ids[q] = id => ord[q] <= ord[r] \/ ord[x] <= ord[q]
        BY <3>2, <3>4 DEF IsNext
      <4>2. PICK j \in 1 .. n : list[j] = x
        BY <1>3, <1>4, <4>1
      <4>3. i < j
        <5>1. ~(ord[list[j]] <= ord[list[i]])
          BY <1>7, <3>1, <4>1, <4>2
        <5>2. j <= i => j = i \/ j < i
          OBVIOUS
        <5>3. j <= i => ord[list[j]] <= ord[list[i]]
          BY <1>4, <1>7, <5>2
        <5> QED
          BY <5>1, <5>3
      <4>4. i + 1 \in 1 .. n
        BY <4>3
      <4>5. ~(ord[list[i + 1]] <= ord[r])
        BY <1>8, <3>1, <4>4
      <4>6. ord[x] <= ord[list[i + 1]]
        BY <1>7, <4>1, <4>4, <4>5
      <4>7. j <= i + 1
        BY <1>8, <4>2, <4>4, <4>6
      <4>8. j = i + 1 /\ i # n
        BY <4>3, <4>7
      <4> QED
        BY <3>1, <4>2, <4>8
    <3> QED
      BY <3>3, <3>4
  <2>5. ASSUME NEW i \in 1 .. n PROVE e.prev[list[i]] = IF i = 1 THEN NoLink ELSE list[i - 1]
    <3>1. PICK r, x : r = list[i] /\ x = e.prev[r]
      OBVIOUS
    <3>2. IsPrev(ids, D, ord, r, x) /\ r \in D /\ ids[r] = id
      BY <1>1, <1>7, <3>1, Zenon DEF Ordered, Linked
    <3>3. CASE x = NoLink
      <4>1. ord[r] <= ord[list[1]]
        BY <1>7, <2>1, <3>2, <3>3 DEF IsPrev
      <4>2. i <= 1
        BY <1>8, <2>1, <3>1, <4>1
      <4>3. i = 1
        BY <4>2
      <4> QED
        BY <3>1, <3>3, <4>3
    <3>4. CASE x # NoLink
      <4>1. /\ x \in D /\ ids[x] = id /\ ord[x] < ord[r]
            /\ \A q \in D : ids[q] = id => ord[r] <= ord[q] \/ ord[q] <= ord[x]
        BY <3>2, <3>4 DEF IsPrev
      <4>2. PICK j \in 1 .. n : list[j] = x
        BY <1>3, <1>4, <4>1
      <4>3. j < i
        <5>1. ~(ord[list[i]] <= ord[list[j]])
          BY <1>7, <3>1, <4>1, <4>2
        <5>2. i <= j => j = i \/ i < j
          OBVIOUS
        <5>3. i <= j => ord[list[i]] <= ord[list[j]]
          BY <1>4, <1>7, <5>2
        <5> QED
          BY <5>1, <5>3
      <4>4. i - 1 \in 1 .. n
        BY <4>3
      <4>5. ~(ord[r] <= ord[list[i - 1]])
        BY <1>8, <3>1, <4>4
      <4>6. ord[list[i - 1]] <= ord[x]
        BY <1>7, <4>1, <4>4, <4>5
      <4>7. i - 1 <= j
        BY <1>8, <4>2, <4>4, <4>6
      <4>8. j = i - 1 /\ i # 1
        BY <4>3, <4>7
      <4> QED
        BY <3>1, <4>2, <4>8
    <3> QED
      BY <3>3, <3>4
  <2> QED
    BY <1>5, <1>6, <1>11, <2>2, <2>3, <2>4, <2>5 DEF Threaded
<1> QED
  BY <1>10, <1>11

-----------------------------------------------------------------------------
(* Theorems.                                                               *)

\* Inv holds in every state.
THEOREM RegistryInvariant == Spec => []Inv
<1>1. Init => Inv
  BY InitInv
<1>2. Inv /\ [Next]_vars => Inv'
  BY NextInv
<1> QED
  BY <1>1, <1>2, PTL DEF Spec

\* The invariant implies that lists, counts and rows agree.
LEMMA InvLists ==
  ASSUME Inv
  PROVE  ListsMatchRows
<1>1. PICK ord, top : Ordered(engine, ord, top) /\ Sound(engine)
  BY DEF Inv, RegistryOK
<1>2. PICK D \in SUBSET Rows : D = UsedRows(engine)
  BY <1>1, UsedRowsType DEF Sound
<1>3. ord \in Orders /\ \A q, r \in D : ord[q] = ord[r] => q = r
  BY <1>1, <1>2, Zenon DEF Ordered, Linked
<1>4. ASSUME NEW id \in Topics
      PROVE  \E list \in SetToSeqs(TopicRows(engine, id)) : Threaded(engine, id, list)
  <2>1. PICK S \in SUBSET D : S = TopicRows(engine, id)
    BY <1>2 DEF TopicRows, UsedRows
  <2>2. PICK n, list : n \in Nat /\ n = Cardinality(S) /\ Sorted(S, ord, n, list)
    BY <1>3, SortedExists
  <2>3. Threaded(engine, id, list)
    BY <1>1, <2>1, <2>2, SortedIsThreaded
  <2>4. /\ list \in [1 .. n -> S]
        /\ \A i, j \in 1 .. n : i < j => ord[list[i]] < ord[list[j]]
    BY <2>2, Zenon DEF Sorted
  <2>5. ASSUME NEW i \in 1 .. n, NEW j \in 1 .. n, i # j PROVE list[i] # list[j]
    <3>1. i < j \/ j < i
      BY <2>5
    <3>2. \A q \in S : ord[q] \in Nat
      BY <1>3 DEF Orders
    <3> QED
      BY <2>4, <3>1, <3>2
  <2>6. list \in SetToSeqs(S)
    BY <2>2, <2>4, <2>5 DEF SetToSeqs
  <2> QED
    BY <2>1, <2>3, <2>6
<1>5. \A id \in Topics : engine.counts[id] = Cardinality(LiveRows(engine, id))
  BY <1>1 DEF Sound, CountsOK
<1>6. engine.retired = Cardinality({r \in 0 .. engine.sub_count - 1 : engine.sockets[r] = Nobody})
  BY <1>1 DEF Sound, CountsOK, DeadRows, UsedRows
<1> QED
  BY <1>4, <1>5, <1>6 DEF ListsMatchRows

(* Each topic's doubly linked list holds the rows of that topic, once each *)
(* and from head to tail, after any sequence of appends, swap removals,    *)
(* retirements and compactions; counts and tombstones are counted right.   *)
THEOREM ListsFollowRows == Spec => []ListsMatchRows
<1>1. Inv => ListsMatchRows
  BY InvLists
<1> QED
  BY <1>1, RegistryInvariant, PTL

\* The invariant implies that lookups are exact.
LEMMA InvIndexes ==
  ASSUME Inv
  PROVE  IndexesAgree
<1>1. /\ engine \in Engines /\ TopicIndexOK(engine) /\ SubIndexOK(engine) /\ TopicsOK(engine)
      /\ RowsOK(engine)
  BY DEF Inv, RegistryOK, Sound
<1>2. NoLink \notin Topics /\ \A r \in UsedRows(engine) : r # NoLink
  BY <1>1, SizeFacts DEF Topics, NoLink, UsedRows, Engines
<1>3. ASSUME NEW name \in Names
      PROVE  {id \in Topics : engine.names[id] = name} = {find_topic(engine, name)} \ {NoLink}
  <2>1. PICK t : t = find_topic(engine, name)
    OBVIOUS
  <2>2. \/ t = NoLink /\ \A id \in Topics : engine.names[id] # name
        \/ t \in Topics /\ engine.names[t] = name
    BY <1>1, <2>1, FindTopic
  <2>3. name # Nobody
    BY NamesAssumption
  <2>4. \A i, j \in Topics : engine.names[i] # Nobody /\ engine.names[i] = engine.names[j] => i = j
    BY <1>1 DEF TopicsOK
  <2> QED
    BY <1>2, <2>1, <2>2, <2>3, <2>4
<1>4. ASSUME NEW s \in Sockets, NEW id \in Topics
      PROVE  {r \in TopicRows(engine, id) : engine.sockets[r] = s}
               = {find_subscription(engine, s, id)} \ {NoLink}
  <2>1. PICK x : x = find_subscription(engine, s, id)
    OBVIOUS
  <2>2. \/ /\ x = NoLink
           /\ \A r \in UsedRows(engine) : ~(engine.sockets[r] = s /\ engine.topic_ids[r] = id)
        \/ x \in UsedRows(engine) /\ engine.sockets[x] = s /\ engine.topic_ids[x] = id
    BY <1>1, <2>1, FindSubscription
  <2>3. s # Nobody
    BY NamesAssumption
  <2>4. \A q, r \in UsedRows(engine) :
          engine.sockets[q] = s /\ engine.sockets[r] = s
          /\ engine.topic_ids[q] = id /\ engine.topic_ids[r] = id => q = r
    BY <1>1, <2>3 DEF RowsOK, UniqueKeys
  <2>5. \A r : r \in TopicRows(engine, id) <=> r \in UsedRows(engine) /\ engine.topic_ids[r] = id
    BY DEF TopicRows, UsedRows
  <2> QED
    BY <1>2, <2>1, <2>2, <2>4, <2>5
<1> QED
  BY <1>3, <1>4 DEF IndexesAgree

(* A lookup in either index finds the one topic or row the tables hold and *)
(* nothing else, for every hash function: collisions, reused tombstones    *)
(* and rebuilds never hide or invent an entry.                             *)
THEOREM LookupsAreExact == Spec => []IndexesAgree
<1>1. Inv => IndexesAgree
  BY InvIndexes
<1> QED
  BY <1>1, RegistryInvariant, PTL

(* No row belongs to a socket whose deinit has completed, whatever its own *)
(* close callback did in between.                                          *)
THEOREM GoneSocketsHaveNoRows == Spec => []NoDeadSubscriber
<1>1. Inv => NoDeadSubscriber
  BY DEF Inv, LiveLinked, NoDeadSubscriber, UsedRows
<1> QED
  BY <1>1, RegistryInvariant, PTL

\* The publish frames of the stack satisfy FrameOK in one order.
LEMMA InvFrames ==
  ASSUME Inv
  PROVE  \E ord : \A f \in PublishFrames : FrameOK(engine, ord, f)
<1>1. PICK ord : FramesOK(engine, ord, stack)
  BY DEF Inv, RegistryOK
<1>2. DOMAIN stack = 1 .. Len(stack)
  BY DEF Inv, Types
<1> QED
  BY <1>1, <1>2 DEF FramesOK, PublishFrames

(* Nothing that runs inside a publish frame moves the rows it walks or     *)
(* gives its topic id to another name.                                     *)
THEOREM FramesAreStable == Spec => []FramesKeepTheirTopic
<1>1. ASSUME Inv PROVE FramesKeepTheirTopic
  <2>1. PICK ord : \A f \in PublishFrames : FrameOK(engine, ord, f)
    BY <1>1, InvFrames
  <2>2. \A r \in UsedRows(engine) : r < engine.sub_count
    BY <1>1, SizeFacts DEF Inv, RegistryOK, Sound, Engines, UsedRows
  <2> QED
    BY <2>1, <2>2 DEF FramesKeepTheirTopic, FrameOK, FrameRows
<1>2. Inv => FramesKeepTheirTopic
  BY <1>1
<1> QED
  BY <1>2, RegistryInvariant, PTL

(* One publish sends to a socket at most once, and only for rows that were *)
(* live when it began, for any nesting of callbacks and publishes.         *)
THEOREM SentAtMostOnce == Spec => []DeliveredOnce
<1>1. ASSUME Inv PROVE DeliveredOnce
  <2>1. PICK ord : \A f \in PublishFrames : FrameOK(engine, ord, f)
    BY <1>1, InvFrames
  <2> QED
    BY <2>1, Zenon DEF DeliveredOnce, FrameOK, FrameSent
<1>2. Inv => DeliveredOnce
  BY <1>1
<1> QED
  BY <1>2, RegistryInvariant, PTL

(* A publish frame that is about to return has sent to every subscriber it *)
(* started with that is still subscribed.                                  *)
THEOREM ReturnsWhenServed == Spec => []EveryoneServed
<1>1. ASSUME Inv PROVE EveryoneServed
  <2>1. PICK ord : \A f \in PublishFrames : FrameOK(engine, ord, f)
    BY <1>1, InvFrames
  <2> QED
    BY <2>1, Zenon DEF EveryoneServed, FrameOK, FrameOwed
<1>2. Inv => EveryoneServed
  BY <1>1
<1> QED
  BY <1>2, RegistryInvariant, PTL

(* Outside publish there is no tombstone, no pending sweep and no topic    *)
(* without subscribers.                                                    *)
THEOREM CapacityComesBack == Spec => []CapacityReturns
<1>1. ASSUME Inv, Depth(stack) = 0
      PROVE  /\ engine.retired = 0 /\ ~engine.empty_topic_pending
             /\ \A id \in Topics : Active(id) => engine.counts[id] > 0
  <2>1. NoPublish(stack) /\ Sound(engine)
    BY <1>1, DepthFacts DEF Inv, Types, RegistryOK
  <2>2. Clean(engine)
    BY <1>1, <2>1 DEF Inv, RegistryOK
  <2>3. ASSUME NEW id \in Topics PROVE engine.counts[id] \in Nat
    <3>1. LiveRows(engine, id) \in SUBSET Rows
      BY <2>1, SetOfRows DEF Sound
    <3> QED
      BY <2>1, <3>1, RowSetsFinite DEF Sound, CountsOK
  <2> QED
    BY <2>2, <2>3 DEF Clean, Active
<1>2. Inv => CapacityReturns
  BY <1>1 DEF CapacityReturns
<1> QED
  BY <1>2, RegistryInvariant, PTL
=============================================================================
