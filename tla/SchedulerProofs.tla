--------------------------- MODULE SchedulerProofs --------------------------
(***************************************************************************)
(* Proofs about the timing wheel and its scheduler, for any set of nodes,  *)
(* any level sizes, any delays and any time.                               *)
(***************************************************************************)
EXTENDS Scheduler, Integers, Sequences, FiniteSets, SequencesExt, SequenceTheorems,
        FiniteSetTheorems, WellFoundedInduction, TLAPS

-----------------------------------------------------------------------------
(* Induction, without operator parameters: least elements of sets.         *)

\* Every non-empty set of naturals has a least element.
LEMMA LeastNatural ==
  ASSUME NEW T \in SUBSET Nat, T # {}
  PROVE  \E x \in T : \A y \in T : x <= y
<1>1. PICK x \in T : \A y \in T : ~(<<y, x>> \in OpToRel(<, Nat))
  BY NatLessThanWellFounded, WFMin, Zenon
<1>2. \A y \in T : ~(y < x)
  BY <1>1 DEF OpToRel
<1> QED
  BY <1>2

\* Induction up to n, for the set of the numbers that have the property.
LEMMA UpTo ==
  ASSUME NEW n \in Nat, NEW T, 0 \in T,
         \A k \in 1 .. n : k - 1 \in T => k \in T
  PROVE  \A k \in 0 .. n : k \in T
<1> SUFFICES ASSUME NEW b \in 0 .. n, b \notin T PROVE FALSE
  OBVIOUS
<1> DEFINE U == {k \in 0 .. n : k \notin T}
<1>1. U \in SUBSET Nat /\ U # {}
  OBVIOUS
<1>2. PICK x \in U : \A y \in U : x <= y
  BY <1>1, LeastNatural, Zenon
<1>3. x # 0 /\ x \in 1 .. n /\ x - 1 \in 0 .. n
  OBVIOUS
<1>4. x - 1 \in T
  BY <1>2, <1>3
<1> QED
  BY <1>3, <1>4

\* n rounds of a loop over states S: g[k] is what round k does.
IsLoop(S, base, n, g) == base \in S /\ n \in Nat /\ g \in [1 .. n -> [S -> S]]
Runs(f, S, base, n, g) ==
  f \in [0 .. n -> S] /\ f[0] = base /\ \A k \in 1 .. n : f[k] = g[k][f[k - 1]]

\* A function given by recursion over 0 .. n exists and has its type.
LEMMA RecursionExists ==
  ASSUME NEW S, NEW base, NEW n, NEW g, IsLoop(S, base, n, g)
  PROVE  \E f : Runs(f, S, base, n, g)
<1> base \in S /\ n \in Nat /\ g \in [1 .. n -> [S -> S]]
  BY DEF IsLoop
<1> DEFINE Value(f, k) == IF k = 0 THEN base ELSE g[k][f[k - 1]]
           Good(f, m) == \A k \in 0 .. m : f[k] = Value(f, k)
           T == {m \in 0 .. n : \E f \in [0 .. n -> S] : Good(f, m)}
<1>1. [k \in 0 .. n |-> base] \in [0 .. n -> S] /\ Good([k \in 0 .. n |-> base], 0)
  OBVIOUS
<1>2. ASSUME NEW m \in 1 .. n, NEW f \in [0 .. n -> S], Good(f, m - 1)
      PROVE  \E h \in [0 .. n -> S] : Good(h, m)
  <2> DEFINE h == [f EXCEPT ![m] = g[m][f[m - 1]]]
  <2>1. g[m][f[m - 1]] \in S /\ h \in [0 .. n -> S]
    OBVIOUS
  <2>2. ASSUME NEW k \in 0 .. m PROVE h[k] = Value(h, k)
    <3>1. CASE k = m
      BY <3>1
    <3>2. CASE k # m
      <4>1. k \in 0 .. m - 1 /\ h[k] = f[k] /\ (k # 0 => h[k - 1] = f[k - 1])
        BY <3>2
      <4> QED
        BY <4>1, <1>2
    <3> QED
      BY <3>1, <3>2
  <2>3. Good(h, m)
    BY <2>2
  <2> HIDE DEF h, Good
  <2> QED
    BY <2>1, <2>3
<1> HIDE DEF Good
<1>3. 0 \in T /\ \A m \in 1 .. n : m - 1 \in T => m \in T
  <2>1. 0 \in T
    BY <1>1
  <2>2. ASSUME NEW m \in 1 .. n, m - 1 \in T PROVE m \in T
    <3>1. PICK f \in [0 .. n -> S] : Good(f, m - 1)
      BY <2>2
    <3> QED
      BY <3>1, <1>2
  <2> QED
    BY <2>1, <2>2
<1> HIDE DEF T
<1>4. n \in T
  <2>1. \A k \in 0 .. n : k \in T
    BY <1>3, UpTo, Zenon
  <2> QED
    BY <2>1
<1>5. PICK f \in [0 .. n -> S] : Good(f, n)
  BY <1>4 DEF T
<1>6. f[0] = base /\ \A k \in 1 .. n : f[k] = g[k][f[k - 1]]
  BY <1>5 DEF Good
<1> QED
  BY <1>6, Zenon DEF Runs

-----------------------------------------------------------------------------
(* Lists without repetition.                                               *)

Distinct(list) == \A i, j \in 1 .. Len(list) : list[i] = list[j] => i = j

\* What is on a list is at one of its places.
LEMMA OnList ==
  ASSUME NEW S, NEW list \in Seq(S), NEW x
  PROVE  x \in ToSet(list) <=> \E k \in 1 .. Len(list) : list[k] = x
  BY DEF ToSet

\* An element of a list without repetition is at exactly one place.
LEMMA OnePlace ==
  ASSUME NEW S, NEW list \in Seq(S), Distinct(list), NEW x \in ToSet(list)
  PROVE  \E k \in 1 .. Len(list) : {j \in DOMAIN list : list[j] = x} = {k}
<1>1. PICK k \in 1 .. Len(list) : list[k] = x
  BY OnList
<1>2. {j \in DOMAIN list : list[j] = x} = {k}
  BY <1>1 DEF Distinct
<1> QED
  BY <1>2

\* What is not on a list has no place on it.
LEMMA NoPlace ==
  ASSUME NEW S, NEW list \in Seq(S), NEW x, x \notin ToSet(list)
  PROVE  {j \in DOMAIN list : list[j] = x} = {}
  BY DEF ToSet

\* The empty list holds nothing.
LEMMA EmptyList ==
  ASSUME NEW S
  PROVE  <<>> \in Seq(S) /\ Distinct(<<>>) /\ ToSet(<<>>) = {}
  BY DEF Distinct, ToSet

\* Only the empty list has no elements.
LEMMA NonemptyList ==
  ASSUME NEW S, NEW list \in Seq(S)
  PROVE  /\ list # <<>> => Head(list) \in ToSet(list) /\ Head(list) \in S
         /\ ToSet(list) \in SUBSET S
         /\ ToSet(list) = {} => list = <<>>
  BY DEF ToSet

\* Appending adds one element and, if it is new, no repetition.
LEMMA AppendToList ==
  ASSUME NEW S, NEW list \in Seq(S), NEW x \in S
  PROVE  /\ Append(list, x) \in Seq(S)
         /\ ToSet(Append(list, x)) = ToSet(list) \cup {x}
         /\ Distinct(list) /\ x \notin ToSet(list) => Distinct(Append(list, x))
<1> DEFINE new == Append(list, x)
<1>1. /\ new \in Seq(S) /\ Len(new) = Len(list) + 1
      /\ \A k \in 1 .. Len(list) : new[k] = list[k]
      /\ new[Len(list) + 1] = x
  OBVIOUS
<1> HIDE DEF new
<1>2. ASSUME NEW y PROVE y \in ToSet(new) <=> y \in ToSet(list) \cup {x}
  <2>1. y \in ToSet(new) <=> \E k \in 1 .. Len(new) : new[k] = y
    BY <1>1, OnList
  <2>2. y \in ToSet(list) <=> \E k \in 1 .. Len(list) : list[k] = y
    BY OnList
  <2> QED
    BY <2>1, <2>2, <1>1
<1>3. ASSUME Distinct(list), x \notin ToSet(list) PROVE Distinct(new)
  <2>1. \A k \in 1 .. Len(list) : list[k] # x
    BY <1>3, OnList
  <2> QED
    BY <2>1, <1>1, <1>3 DEF Distinct
<1> QED
  BY <1>1, <1>2, <1>3 DEF new

\* The list new is left followed by right.
Joined(new, left, right) ==
  /\ Len(new) = Len(left) + Len(right)
  /\ \A k \in 1 .. Len(left) : new[k] = left[k]
  /\ \A k \in 1 .. Len(right) : new[Len(left) + k] = right[k]

\* What two joined lists hold at each place.
LEMMA JoinFacts ==
  ASSUME NEW S, NEW left \in Seq(S), NEW right \in Seq(S)
  PROVE  left \o right \in Seq(S) /\ Joined(left \o right, left, right)
  BY DEF Joined

\* Joining lists with no element in common repeats none.
LEMMA JoinLists ==
  ASSUME NEW S, NEW left \in Seq(S), NEW right \in Seq(S)
  PROVE  /\ left \o right \in Seq(S)
         /\ ToSet(left \o right) = ToSet(left) \cup ToSet(right)
         /\ Distinct(left) /\ Distinct(right) /\ ToSet(left) \cap ToSet(right) = {}
              => Distinct(left \o right)
<1> DEFINE new == left \o right
<1>1. /\ new \in Seq(S) /\ Len(new) = Len(left) + Len(right)
      /\ \A k \in 1 .. Len(left) : new[k] = left[k]
      /\ \A k \in 1 .. Len(right) : new[Len(left) + k] = right[k]
  OBVIOUS
<1>2. \A k \in 1 .. Len(new) : k \notin 1 .. Len(left) =>
        /\ k - Len(left) \in 1 .. Len(right)
        /\ new[k] = right[k - Len(left)]
  BY <1>1
<1> HIDE DEF new
<1>3. ASSUME NEW y PROVE y \in ToSet(new) <=> y \in ToSet(left) \cup ToSet(right)
  <2>1. y \in ToSet(new) <=> \E k \in 1 .. Len(new) : new[k] = y
    BY <1>1, OnList
  <2>2. y \in ToSet(left) <=> \E k \in 1 .. Len(left) : left[k] = y
    BY OnList
  <2>3. y \in ToSet(right) <=> \E k \in 1 .. Len(right) : right[k] = y
    BY OnList
  <2>4. ASSUME y \in ToSet(new) PROVE y \in ToSet(left) \cup ToSet(right)
    BY <2>1, <2>2, <2>3, <2>4, <1>1, <1>2
  <2>5. ASSUME y \in ToSet(left) PROVE y \in ToSet(new)
    BY <2>1, <2>2, <2>5, <1>1
  <2>6. ASSUME y \in ToSet(right) PROVE y \in ToSet(new)
    <3>1. PICK k \in 1 .. Len(right) : right[k] = y
      BY <2>3, <2>6
    <3>2. Len(left) + k \in 1 .. Len(new) /\ new[Len(left) + k] = y
      BY <3>1, <1>1
    <3> QED
      BY <3>2, <2>1
  <2> QED
    BY <2>4, <2>5, <2>6
<1>4. ASSUME Distinct(left), Distinct(right), ToSet(left) \cap ToSet(right) = {}
      PROVE  Distinct(new)
  <2>1. \A k \in 1 .. Len(left), j \in 1 .. Len(right) : left[k] # right[j]
    BY <1>4, OnList
  <2>2. ASSUME NEW i \in 1 .. Len(new), NEW j \in 1 .. Len(new), new[i] = new[j]
        PROVE  i = j
    <3>1. CASE i \in 1 .. Len(left) /\ j \in 1 .. Len(left)
      BY <3>1, <2>2, <1>1, <1>4 DEF Distinct
    <3>2. CASE i \in 1 .. Len(left) /\ j \notin 1 .. Len(left)
      BY <3>2, <2>1, <2>2, <1>1, <1>2
    <3>3. CASE i \notin 1 .. Len(left) /\ j \in 1 .. Len(left)
      BY <3>3, <2>1, <2>2, <1>1, <1>2
    <3>4. CASE i \notin 1 .. Len(left) /\ j \notin 1 .. Len(left)
      <4>1. i - Len(left) = j - Len(left)
        BY <3>4, <2>2, <1>2, <1>4 DEF Distinct
      <4> QED
        BY <4>1
    <3> QED
      BY <3>1, <3>2, <3>3, <3>4
  <2> QED
    BY <2>2 DEF Distinct
<1> QED
  BY <1>1, <1>3, <1>4 DEF new

\* The first element of a list without repetition is not on the rest.
LEMMA TailOfList ==
  ASSUME NEW S, NEW list \in Seq(S), list # <<>>, Distinct(list)
  PROVE  /\ Tail(list) \in Seq(S) /\ Distinct(Tail(list))
         /\ ToSet(Tail(list)) = ToSet(list) \ {Head(list)}
<1> DEFINE new == Tail(list)
<1>1. /\ new \in Seq(S) /\ Len(new) = Len(list) - 1 /\ Len(list) \in Nat \ {0}
      /\ \A k \in 1 .. Len(new) : new[k] = list[k + 1]
      /\ Head(list) = list[1]
  OBVIOUS
<1> HIDE DEF new
<1>2. \A k \in 1 .. Len(list) : k # 1 => k - 1 \in 1 .. Len(new) /\ new[k - 1] = list[k]
  BY <1>1
<1>3. ASSUME NEW y PROVE y \in ToSet(new) <=> y \in ToSet(list) \ {Head(list)}
  <2>1. y \in ToSet(new) <=> \E k \in 1 .. Len(new) : new[k] = y
    BY <1>1, OnList
  <2>2. y \in ToSet(list) <=> \E k \in 1 .. Len(list) : list[k] = y
    BY OnList
  <2>3. ASSUME y \in ToSet(new) PROVE y \in ToSet(list) \ {Head(list)}
    <3>1. PICK k \in 1 .. Len(new) : new[k] = y
      BY <2>1, <2>3
    <3>2. k + 1 \in 1 .. Len(list) /\ list[k + 1] = y /\ k + 1 # 1 /\ 1 \in 1 .. Len(list)
      BY <3>1, <1>1
    <3> QED
      BY <3>2, <2>2, <1>1 DEF Distinct
  <2>4. ASSUME y \in ToSet(list), y # Head(list) PROVE y \in ToSet(new)
    BY <2>1, <2>2, <2>4, <1>1, <1>2
  <2> QED
    BY <2>3, <2>4
<1>4. Distinct(new)
  <2>1. ASSUME NEW i \in 1 .. Len(new), NEW j \in 1 .. Len(new), new[i] = new[j]
        PROVE  i = j
    <3>1. i + 1 \in 1 .. Len(list) /\ j + 1 \in 1 .. Len(list) /\ list[i + 1] = list[j + 1]
      BY <2>1, <1>1
    <3>2. i + 1 = j + 1
      BY <3>1 DEF Distinct
    <3> QED
      BY <3>2
  <2> QED
    BY <2>1 DEF Distinct
<1> QED
  BY <1>1, <1>3, <1>4 DEF new

\* RemoveFirst cuts the list at one place of the element.
LEMMA RemovedPlace ==
  ASSUME NEW S, NEW list \in Seq(S), NEW x, \E k \in 1 .. Len(list) : list[k] = x
  PROVE  \E m \in 1 .. Len(list) :
           /\ list[m] = x
           /\ RemoveFirst(list, x) = SubSeq(list, 1, m - 1) \o SubSeq(list, m + 1, Len(list))
<1> DEFINE I == {k \in 1 .. Len(list) : list[k] = x}
<1>1. PICK p \in I : \A y \in I : p <= y
  <2>1. I \in SUBSET Nat /\ I # {}
    OBVIOUS
  <2> QED
    BY <2>1, LeastNatural, Zenon
<1>2. Min(I) \in I
  BY <1>1, Zenon DEF Min
<1> DEFINE q == Min(I)
<1>3. RemoveFirst(list, x) = SubSeq(list, 1, q - 1) \o SubSeq(list, q + 1, Len(list))
  BY Zenon DEF RemoveFirst, RemoveAt, SelectInSeq
<1> QED
  BY <1>2, <1>3

\* RemoveFirst unlinks the one place of an element.
LEMMA RemoveFromList ==
  ASSUME NEW S, NEW list \in Seq(S), Distinct(list), NEW x
  PROVE  /\ RemoveFirst(list, x) \in Seq(S) /\ Distinct(RemoveFirst(list, x))
         /\ ToSet(RemoveFirst(list, x)) = ToSet(list) \ {x}
<1>1. CASE ~ \E k \in 1 .. Len(list) : list[k] = x
  <2>1. RemoveFirst(list, x) = list /\ x \notin ToSet(list)
    BY <1>1, OnList, Zenon DEF RemoveFirst
  <2> QED
    BY <2>1
<1>2. CASE \E k \in 1 .. Len(list) : list[k] = x
  <2>1. PICK m \in 1 .. Len(list) :
          /\ list[m] = x
          /\ RemoveFirst(list, x) = SubSeq(list, 1, m - 1) \o SubSeq(list, m + 1, Len(list))
    BY <1>2, RemovedPlace
  <2>4. list[m] = x
    BY <2>1
  <2>5. RemoveFirst(list, x) = SubSeq(list, 1, m - 1) \o SubSeq(list, m + 1, Len(list))
    BY <2>1
  <2> DEFINE left == SubSeq(list, 1, m - 1)
             right == SubSeq(list, m + 1, Len(list))
  <2>6. /\ left \in Seq(S) /\ Len(left) = m - 1
        /\ \A k \in 1 .. m - 1 : left[k] = list[k]
    OBVIOUS
  <2>7. /\ right \in Seq(S) /\ Len(right) = Len(list) - m
        /\ \A k \in 1 .. Len(list) - m : right[k] = list[m + k]
    OBVIOUS
  <2> HIDE DEF left, right
  <2>8. ASSUME NEW y PROVE y \in ToSet(left) \cup ToSet(right) <=> y \in ToSet(list) \ {x}
    <3>1. y \in ToSet(left) <=> \E k \in 1 .. m - 1 : left[k] = y
      BY <2>6, OnList
    <3>2. y \in ToSet(right) <=> \E k \in 1 .. Len(list) - m : right[k] = y
      BY <2>7, OnList
    <3>3. y \in ToSet(list) <=> \E k \in 1 .. Len(list) : list[k] = y
      BY OnList
    <3>4. ASSUME NEW k \in 1 .. m - 1, left[k] = y PROVE y \in ToSet(list) \ {x}
      BY <3>3, <3>4, <2>4, <2>6 DEF Distinct
    <3>5. ASSUME NEW k \in 1 .. Len(list) - m, right[k] = y PROVE y \in ToSet(list) \ {x}
      <4>1. m + k \in 1 .. Len(list) /\ list[m + k] = y /\ m + k # m
        BY <3>5, <2>7
      <4> QED
        BY <4>1, <3>3, <2>4 DEF Distinct
    <3>6. ASSUME NEW k \in 1 .. Len(list), list[k] = y, y # x
          PROVE  y \in ToSet(left) \cup ToSet(right)
      <4>1. CASE k < m
        BY <4>1, <3>1, <3>6, <2>6
      <4>2. CASE k > m
        <5>1. k - m \in 1 .. Len(list) - m /\ right[k - m] = y
          BY <4>2, <3>6, <2>7
        <5> QED
          BY <5>1, <3>2
      <4> QED
        BY <4>1, <4>2, <3>6, <2>4
    <3> QED
      BY <3>1, <3>2, <3>3, <3>4, <3>5, <3>6
  <2>9. Distinct(left) /\ Distinct(right) /\ ToSet(left) \cap ToSet(right) = {}
    <3>1. Distinct(left)
      BY <2>6 DEF Distinct
    <3>2. ASSUME NEW i \in 1 .. Len(right), NEW j \in 1 .. Len(right), right[i] = right[j]
          PROVE  i = j
      <4>1. m + i \in 1 .. Len(list) /\ m + j \in 1 .. Len(list) /\ list[m + i] = list[m + j]
        BY <3>2, <2>7
      <4>2. m + i = m + j
        BY <4>1 DEF Distinct
      <4> QED
        BY <4>2
    <3>3. ASSUME NEW y \in ToSet(left), y \in ToSet(right) PROVE FALSE
      <4>1. PICK i \in 1 .. m - 1 : list[i] = y
        BY <2>6, <3>3, OnList
      <4>2. PICK j \in 1 .. Len(list) - m : list[m + j] = y
        BY <2>7, <3>3, OnList
      <4>3. i \in 1 .. Len(list) /\ m + j \in 1 .. Len(list) /\ i # m + j
        OBVIOUS
      <4> QED
        BY <4>1, <4>2, <4>3 DEF Distinct
    <3> QED
      BY <3>1, <3>2, <3>3 DEF Distinct
  <2>10. /\ left \o right \in Seq(S) /\ Distinct(left \o right)
         /\ ToSet(left \o right) = ToSet(left) \cup ToSet(right)
    BY <2>6, <2>7, <2>9, JoinLists
  <2> QED
    BY <2>5, <2>8, <2>10 DEF left, right
<1> QED
  BY <1>1, <1>2

\* x comes before y on the list.
Ahead(list, x, y) ==
  \E j \in 1 .. Len(list), k \in 1 .. Len(list) : j < k /\ list[j] = x /\ list[k] = y

\* What is ahead of what is on the list.
LEMMA AheadOnList ==
  ASSUME NEW S, NEW list \in Seq(S), NEW x, NEW y, Ahead(list, x, y)
  PROVE  x \in ToSet(list) /\ y \in ToSet(list)
  BY OnList DEF Ahead

\* Appending keeps the order and puts the new element behind all.
LEMMA AppendKeepsOrder ==
  ASSUME NEW S, NEW list \in Seq(S), NEW z \in S, NEW x, NEW y, Ahead(Append(list, z), x, y)
  PROVE  Ahead(list, x, y) \/ (y = z /\ x \in ToSet(list))
<1> DEFINE new == Append(list, z)
<1>1. /\ Len(new) = Len(list) + 1 /\ Len(list) \in Nat /\ new[Len(list) + 1] = z
      /\ \A k \in 1 .. Len(list) : new[k] = list[k]
  OBVIOUS
<1>2. PICK j \in 1 .. Len(new), k \in 1 .. Len(new) : j < k /\ new[j] = x /\ new[k] = y
  BY DEF Ahead
<1> HIDE DEF new
<1>3. j \in 1 .. Len(list) /\ list[j] = x
  BY <1>1, <1>2
<1>4. x \in ToSet(list)
  BY <1>3, OnList
<1>5. CASE k = Len(list) + 1
  BY <1>1, <1>2, <1>4, <1>5
<1>6. CASE k # Len(list) + 1
  <2>1. k \in 1 .. Len(list) /\ list[k] = y
    BY <1>1, <1>2, <1>6
  <2> QED
    BY <2>1, <1>2, <1>3 DEF Ahead
<1> QED
  BY <1>5, <1>6

\* A list without its m-th element.
LEMMA CutAt ==
  ASSUME NEW S, NEW list \in Seq(S), NEW m \in 1 .. Len(list)
  PROVE  LET new == SubSeq(list, 1, m - 1) \o SubSeq(list, m + 1, Len(list))
             at(k) == IF k < m THEN k ELSE k + 1
         IN  /\ Len(new) = Len(list) - 1
             /\ \A k \in 1 .. Len(new) : at(k) \in 1 .. Len(list) /\ new[k] = list[at(k)]
<1>1. PICK left \in Seq(S) : /\ left = SubSeq(list, 1, m - 1) /\ Len(left) = m - 1
                             /\ \A k \in 1 .. m - 1 : left[k] = list[k]
  <2> DEFINE l == SubSeq(list, 1, m - 1)
  <2>1. l \in Seq(S) /\ Len(l) = m - 1 /\ \A k \in 1 .. m - 1 : l[k] = list[k]
    OBVIOUS
  <2> QED
    BY <2>1, Zenon
<1>2. PICK right \in Seq(S) : /\ right = SubSeq(list, m + 1, Len(list))
                              /\ Len(right) = Len(list) - m
                              /\ \A k \in 1 .. Len(list) - m : right[k] = list[m + k]
  <2> DEFINE r == SubSeq(list, m + 1, Len(list))
  <2>1. /\ r \in Seq(S) /\ Len(r) = Len(list) - m
        /\ \A k \in 1 .. Len(list) - m : r[k] = list[m + k]
    OBVIOUS
  <2> QED
    BY <2>1, Zenon
<1> DEFINE new == left \o right
<1>3. new \in Seq(S) /\ Joined(new, left, right)
  BY JoinFacts, Zenon
<1> HIDE DEF new
<1>4. /\ new \in Seq(S) /\ Len(new) = Len(left) + Len(right)
      /\ \A k \in 1 .. Len(left) : new[k] = left[k]
      /\ \A k \in 1 .. Len(right) : new[Len(left) + k] = right[k]
  BY <1>3 DEF Joined
<1>5. Len(new) = Len(list) - 1
  BY <1>1, <1>2, <1>4
<1>6. ASSUME NEW k \in 1 .. Len(new), k < m PROVE new[k] = list[k]
  BY <1>1, <1>4, <1>6
<1>7. ASSUME NEW k \in 1 .. Len(new), k >= m PROVE new[k] = list[k + 1]
  <2>1. PICK j \in 1 .. Len(list) - m : k = Len(left) + j /\ k + 1 = m + j
    <3>1. k - (m - 1) \in 1 .. Len(list) - m
      BY <1>5, <1>7
    <3>2. k = Len(left) + (k - (m - 1)) /\ k + 1 = m + (k - (m - 1))
      BY <1>1
    <3> QED
      BY <3>1, <3>2, Zenon
  <2> QED
    BY <2>1, <1>2, <1>4
<1> DEFINE at(k) == IF k < m THEN k ELSE k + 1
<1>8. \A k \in 1 .. Len(new) : at(k) \in 1 .. Len(list)
  BY <1>5
<1>9. ASSUME NEW k \in 1 .. Len(new) PROVE new[k] = list[at(k)]
  BY <1>6, <1>7
<1> HIDE DEF at
<1> QED
  BY <1>1, <1>2, <1>5, <1>8, <1>9, Zenon DEF new, at

\* Removing keeps the order of the others.
LEMMA RemoveKeepsOrder ==
  ASSUME NEW S, NEW list \in Seq(S), NEW z, NEW x, NEW y, Ahead(RemoveFirst(list, z), x, y)
  PROVE  Ahead(list, x, y)
<1>1. CASE ~ \E k \in 1 .. Len(list) : list[k] = z
  <2>1. RemoveFirst(list, z) = list
    BY <1>1, Zenon DEF RemoveFirst
  <2> QED
    BY <2>1
<1>2. CASE \E k \in 1 .. Len(list) : list[k] = z
  <2>1. PICK m \in 1 .. Len(list) :
          RemoveFirst(list, z) = SubSeq(list, 1, m - 1) \o SubSeq(list, m + 1, Len(list))
    BY <1>2, RemovedPlace
  <2> DEFINE new == SubSeq(list, 1, m - 1) \o SubSeq(list, m + 1, Len(list))
             at(k) == IF k < m THEN k ELSE k + 1
  <2>2. /\ Len(new) = Len(list) - 1
        /\ \A k \in 1 .. Len(new) : at(k) \in 1 .. Len(list) /\ new[k] = list[at(k)]
    BY CutAt
  <2>3. PICK j \in 1 .. Len(new), k \in 1 .. Len(new) : j < k /\ new[j] = x /\ new[k] = y
    BY <2>1 DEF Ahead
  <2> HIDE DEF new
  <2>4. at(j) < at(k)
    BY <2>3
  <2>5. /\ at(j) \in 1 .. Len(list) /\ list[at(j)] = x
        /\ at(k) \in 1 .. Len(list) /\ list[at(k)] = y
    BY <2>2, <2>3
  <2> HIDE DEF at
  <2> QED
    BY <2>4, <2>5 DEF Ahead
<1> QED
  BY <1>1, <1>2

-----------------------------------------------------------------------------
(* The wheel.                                                              *)

NodeStates == {"idle", "queued", "processing", "overflow"}

Wheels ==
  [now : Nat, slots : [Slots -> Seq(Nodes)], processing : Seq(Nodes),
   overflow : Seq(Nodes), count : Nat, state : [Nodes -> NodeStates],
   deadline : [Nodes -> Nat]]

On(list, n) == n \in ToSet(list)

\* The lists hold a node at most once, and a node's state says which list holds it.
Linked(w) ==
  /\ Distinct(w.processing) /\ Distinct(w.overflow)
  /\ \A s \in Slots : Distinct(w.slots[s])
  /\ \A n \in Nodes : On(w.processing, n) <=> w.state[n] = "processing"
  /\ \A n \in Nodes : On(w.overflow, n) <=> w.state[n] = "overflow"
  /\ \A n \in Nodes : (\E s \in Slots : On(w.slots[s], n)) <=> w.state[n] = "queued"
  /\ \A n \in Nodes, s, r \in Slots : On(w.slots[s], n) /\ On(w.slots[r], n) => s = r

OwnedBy(w) == {n \in Nodes : w.state[n] # "idle"}
Counted(w) == w.count = Cardinality(OwnedBy(w))

WheelOK(w) == w \in Wheels /\ Linked(w) /\ Counted(w)

\* Only the place of node n may differ between v and w.
SameBut(v, w, n) ==
  /\ v.now = w.now
  /\ \A m \in Nodes : m # n => /\ v.state[m] = w.state[m]
                               /\ v.deadline[m] = w.deadline[m]
                               /\ On(v.processing, m) <=> On(w.processing, m)
                               /\ On(v.overflow, m) <=> On(w.overflow, m)
                               /\ \A s \in Slots : On(v.slots[s], m) <=> On(w.slots[s], m)

\* The number of owned nodes when one node comes or goes.
LEMMA OwnedChanges ==
  ASSUME NEW v, NEW w, v \in Wheels, w \in Wheels, NEW n \in Nodes,
         \A m \in Nodes : m # n => v.state[m] = w.state[m]
  PROVE  /\ IsFiniteSet(OwnedBy(w)) /\ Cardinality(OwnedBy(w)) \in Nat
         /\ v.state[n] = "idle" /\ w.state[n] # "idle"
              => Cardinality(OwnedBy(v)) = Cardinality(OwnedBy(w)) - 1
         /\ v.state[n] # "idle" /\ w.state[n] = "idle"
              => Cardinality(OwnedBy(v)) = Cardinality(OwnedBy(w)) + 1
         /\ (v.state[n] = "idle" <=> w.state[n] = "idle")
              => Cardinality(OwnedBy(v)) = Cardinality(OwnedBy(w))
<1>1. IsFiniteSet(OwnedBy(w)) /\ IsFiniteSet(OwnedBy(v))
  BY NodesAssumption, FS_Subset DEF OwnedBy
<1>2. Cardinality(OwnedBy(w)) \in Nat /\ Cardinality(OwnedBy(v)) \in Nat
  BY <1>1, FS_CardinalityType
<1>3. ASSUME v.state[n] = "idle", w.state[n] # "idle"
      PROVE  Cardinality(OwnedBy(v)) = Cardinality(OwnedBy(w)) - 1
  <2>1. OwnedBy(v) = OwnedBy(w) \ {n} /\ n \in OwnedBy(w)
    BY <1>3 DEF OwnedBy
  <2> QED
    BY <2>1, <1>1, FS_RemoveElement
<1>4. ASSUME v.state[n] # "idle", w.state[n] = "idle"
      PROVE  Cardinality(OwnedBy(v)) = Cardinality(OwnedBy(w)) + 1
  <2>1. OwnedBy(v) = OwnedBy(w) \cup {n} /\ n \notin OwnedBy(w)
    BY <1>4 DEF OwnedBy
  <2> QED
    BY <2>1, <1>1, FS_AddElement
<1>5. ASSUME v.state[n] = "idle" <=> w.state[n] = "idle"
      PROVE  Cardinality(OwnedBy(v)) = Cardinality(OwnedBy(w))
  <2>1. OwnedBy(v) = OwnedBy(w)
    BY <1>5 DEF OwnedBy
  <2> QED
    BY <2>1
<1> QED
  BY <1>1, <1>2, <1>3, <1>4, <1>5

\* An owned node makes the count positive.
LEMMA OwnedIsCounted ==
  ASSUME NEW w, WheelOK(w), NEW n \in Nodes, w.state[n] # "idle"
  PROVE  w.count \in Nat \ {0}
<1>1. IsFiniteSet(OwnedBy(w)) /\ n \in OwnedBy(w)
  BY NodesAssumption, FS_Subset DEF OwnedBy
<1>2. Cardinality(OwnedBy(w)) \in Nat /\ Cardinality(OwnedBy(w)) # 0
  BY <1>1, FS_CardinalityType, FS_EmptySet
<1> QED
  BY <1>2 DEF WheelOK, Counted

-----------------------------------------------------------------------------
(* remove.                                                                 *)

\* The fields of the wheel that remove returns for an owned node.
LEMMA RemoveFields ==
  ASSUME NEW w \in Wheels, NEW n \in Nodes, w.state[n] # "idle"
  PROVE  remove(w, n) =
           [now |-> w.now,
            slots |-> IF w.state[n] = "queued" THEN unlink_slot(w.slots, n) ELSE w.slots,
            processing |-> IF w.state[n] = "processing" THEN RemoveFirst(w.processing, n)
                           ELSE w.processing,
            overflow |-> IF w.state[n] = "overflow" THEN RemoveFirst(w.overflow, n)
                         ELSE w.overflow,
            count |-> w.count - 1,
            state |-> [w.state EXCEPT ![n] = "idle"],
            deadline |-> w.deadline]
<1>1. w.state[n] \in NodeStates
  BY DEF Wheels
<1>2. CASE w.state[n] = "queued"
  BY <1>2 DEF remove, Wheels
<1>3. CASE w.state[n] = "processing"
  BY <1>3 DEF remove, Wheels
<1>4. CASE w.state[n] = "overflow"
  BY <1>4 DEF remove, Wheels
<1> QED
  BY <1>1, <1>2, <1>3, <1>4 DEF NodeStates

\* remove takes the node off its list and touches no other node.
LEMMA RemoveOK ==
  ASSUME NEW w, WheelOK(w), NEW n \in Nodes
  PROVE  /\ WheelOK(remove(w, n)) /\ SameBut(remove(w, n), w, n)
         /\ remove(w, n).state[n] = "idle" /\ remove(w, n).deadline = w.deadline
<1> DEFINE r == remove(w, n)
<1>1. CASE w.state[n] = "idle"
  <2>1. r = w
    BY <1>1 DEF remove
  <2> QED
    BY <2>1, <1>1 DEF SameBut
<1>2. CASE w.state[n] # "idle"
  <2>1. w \in Wheels /\ Linked(w) /\ Counted(w) /\ w.count \in Nat \ {0}
    BY <1>2, OwnedIsCounted DEF WheelOK
  <2>2. /\ r.now = w.now /\ r.count = w.count - 1 /\ r.deadline = w.deadline
        /\ r.state = [w.state EXCEPT ![n] = "idle"]
        /\ r.slots = IF w.state[n] = "queued" THEN unlink_slot(w.slots, n) ELSE w.slots
        /\ r.processing = IF w.state[n] = "processing" THEN RemoveFirst(w.processing, n)
                          ELSE w.processing
        /\ r.overflow = IF w.state[n] = "overflow" THEN RemoveFirst(w.overflow, n)
                        ELSE w.overflow
        /\ r = [now |-> r.now, slots |-> r.slots, processing |-> r.processing,
                overflow |-> r.overflow, count |-> r.count, state |-> r.state,
                deadline |-> r.deadline]
    BY <2>1, <1>2, RemoveFields
  <2> HIDE DEF r
  <2>3. /\ r.processing \in Seq(Nodes) /\ Distinct(r.processing)
        /\ ToSet(r.processing) = ToSet(w.processing) \ {n}
    <3>1. w.processing \in Seq(Nodes) /\ Distinct(w.processing)
          /\ (w.state[n] # "processing" => n \notin ToSet(w.processing))
      BY <2>1 DEF Wheels, Linked, On
    <3>2. CASE w.state[n] = "processing"
      BY <3>1, <3>2, <2>2, RemoveFromList
    <3>3. CASE w.state[n] # "processing"
      BY <3>1, <3>3, <2>2
    <3> QED
      BY <3>2, <3>3
  <2>4. /\ r.overflow \in Seq(Nodes) /\ Distinct(r.overflow)
        /\ ToSet(r.overflow) = ToSet(w.overflow) \ {n}
    <3>1. w.overflow \in Seq(Nodes) /\ Distinct(w.overflow)
          /\ (w.state[n] # "overflow" => n \notin ToSet(w.overflow))
      BY <2>1 DEF Wheels, Linked, On
    <3>2. CASE w.state[n] = "overflow"
      BY <3>1, <3>2, <2>2, RemoveFromList
    <3>3. CASE w.state[n] # "overflow"
      BY <3>1, <3>3, <2>2
    <3> QED
      BY <3>2, <3>3
  <2>5. /\ r.slots \in [Slots -> Seq(Nodes)]
        /\ \A s \in Slots : /\ Distinct(r.slots[s])
                            /\ ToSet(r.slots[s]) = ToSet(w.slots[s]) \ {n}
    <3>1. \A s \in Slots : w.slots[s] \in Seq(Nodes) /\ Distinct(w.slots[s])
      BY <2>1 DEF Wheels, Linked
    <3>2. CASE w.state[n] = "queued"
      <4>1. r.slots = [s \in Slots |-> RemoveFirst(w.slots[s], n)]
        BY <3>2, <2>2 DEF unlink_slot
      <4>2. ASSUME NEW s \in Slots
            PROVE  /\ RemoveFirst(w.slots[s], n) \in Seq(Nodes)
                   /\ Distinct(RemoveFirst(w.slots[s], n))
                   /\ ToSet(RemoveFirst(w.slots[s], n)) = ToSet(w.slots[s]) \ {n}
        BY <3>1, RemoveFromList
      <4> QED
        BY <4>1, <4>2
    <3>3. CASE w.state[n] # "queued"
      <4>1. \A s \in Slots : n \notin ToSet(w.slots[s])
        BY <3>3, <2>1 DEF Linked, On
      <4> QED
        BY <4>1, <3>3, <3>1, <2>1, <2>2 DEF Wheels
    <3> QED
      BY <3>2, <3>3
  <2>6. r \in Wheels
    <3>1. r.now \in Nat /\ r.count \in Nat /\ r.deadline \in [Nodes -> Nat]
          /\ r.state \in [Nodes -> NodeStates]
      BY <2>1, <2>2 DEF Wheels, NodeStates
    <3> QED
      BY <3>1, <2>2, <2>3, <2>4, <2>5 DEF Wheels
  <2>7. \A m \in Nodes : r.state[m] = IF m = n THEN "idle" ELSE w.state[m]
    BY <2>1, <2>2 DEF Wheels
  <2>8. Linked(r)
    <3>1. \A m \in Nodes : On(r.processing, m) <=> r.state[m] = "processing"
      BY <2>1, <2>3, <2>7 DEF Linked, On
    <3>2. \A m \in Nodes : On(r.overflow, m) <=> r.state[m] = "overflow"
      BY <2>1, <2>4, <2>7 DEF Linked, On
    <3>3. \A m \in Nodes, s \in Slots : On(r.slots[s], m) <=> m # n /\ On(w.slots[s], m)
      BY <2>5 DEF On
    <3>4. \A m \in Nodes : (\E s \in Slots : On(r.slots[s], m)) <=> r.state[m] = "queued"
      <4>1. \A m \in Nodes : (\E s \in Slots : On(w.slots[s], m)) <=> w.state[m] = "queued"
        BY <2>1 DEF Linked
      <4> QED
        BY <4>1, <3>3, <2>7
    <3>5. \A m \in Nodes, s, t \in Slots : On(r.slots[s], m) /\ On(r.slots[t], m) => s = t
      BY <3>3, <2>1 DEF Linked
    <3> QED
      BY <3>1, <3>2, <3>4, <3>5, <2>3, <2>4, <2>5 DEF Linked
  <2>9. Counted(r)
    <3>1. Cardinality(OwnedBy(r)) = Cardinality(OwnedBy(w)) - 1
      BY <2>1, <2>6, <2>7, <1>2, OwnedChanges
    <3> QED
      BY <3>1, <2>1, <2>2 DEF Counted
  <2>10. SameBut(r, w, n)
    BY <2>2, <2>3, <2>4, <2>5, <2>7 DEF SameBut, On
  <2> QED
    BY <2>2, <2>6, <2>7, <2>8, <2>9, <2>10 DEF WheelOK, r
<1> QED
  BY <1>1, <1>2

-----------------------------------------------------------------------------
(* insert.                                                                 *)

Delta(now, d) == IF d > now THEN d - now ELSE 0

\* The slot that insert chooses.
SlotFor(now, d) ==
  LET l == level_for_delta(Delta(now, d))
  IN  Slot(l, ((IF Delta(now, d) = 0 THEN now ELSE d) \div Grain(l)) % Sizes[l])

Far(now, d) == Delta(now, d) > MaxExactDelay

\* The fields of the wheel that insert returns, once the node is off its old list.
LEMMA InsertFields ==
  ASSUME NEW w, NEW n \in Nodes, NEW d \in Nat, NEW v \in Wheels, v = remove(w, n),
         NEW at, at = SlotFor(v.now, d)
  PROVE  insert(w, n, d) =
           [now |-> v.now,
            slots |-> IF Far(v.now, d) THEN v.slots
                      ELSE [v.slots EXCEPT ![at] = Append(v.slots[at], n)],
            processing |-> v.processing,
            overflow |-> IF Far(v.now, d) THEN Append(v.overflow, n) ELSE v.overflow,
            count |-> v.count + 1,
            state |-> [v.state EXCEPT ![n] = IF Far(v.now, d) THEN "overflow" ELSE "queued"],
            deadline |-> [v.deadline EXCEPT ![n] = d]]
<1>1. CASE Far(v.now, d)
  BY <1>1 DEF insert, Wheels, Far, Delta
<1>2. CASE ~Far(v.now, d)
  BY <1>2 DEF insert, Wheels, Far, Delta, SlotFor
<1> QED
  BY <1>1, <1>2

-----------------------------------------------------------------------------
(* Levels, slots and their windows.                                        *)

\* Quotient and remainder.
LEMMA DivisionFacts ==
  ASSUME NEW a \in Nat, NEW b \in Nat \ {0}
  PROVE  /\ a = (b * (a \div b)) + (a % b)
         /\ a % b \in 0 .. b - 1 /\ a \div b \in Nat
  OBVIOUS

\* The sizes of levels, slots and ranges, from the assumptions on the constants.
LEMMA LevelFacts ==
  /\ Len(Sizes) \in Nat \ {0} /\ Levels = 1 .. Len(Sizes)
  /\ \A l \in 0 .. Len(Sizes) : Span(l) \in Nat \ {0}
  /\ \A l \in Levels : /\ Sizes[l] \in Nat \ {0} /\ Grain(l) \in Nat \ {0}
                       /\ Grain(l) = Span(l - 1) /\ Span(l) = Grain(l) * Sizes[l]
  /\ Grain(1) = 1 /\ 1 \in Levels /\ Len(Sizes) \in Levels
  /\ MaxExactDelay \in Nat
<1>1. Len(Sizes) \in Nat \ {0} /\ Levels = 1 .. Len(Sizes)
  BY SizesAssumption DEF Levels
<1>2. \A l \in Levels : Sizes[l] \in Nat \ {0}
  BY SizesAssumption, <1>1
<1>3. \A l \in 0 .. Len(Sizes) : Span(l) \in Nat \ {0}
  BY SpansAssumption, <1>1 DEF Span
<1>4. \A l \in Levels : l - 1 \in 0 .. Len(Sizes) /\ Span(l) = Span(l - 1) * Sizes[l]
  BY SpansAssumption, <1>1 DEF Span
<1>5. Span(0) = 1
  BY SpansAssumption DEF Span
<1>6. \A l \in Levels : Grain(l) \in Nat \ {0} /\ Grain(l) = Span(l - 1)
  BY <1>3, <1>4 DEF Grain
<1>7. Grain(1) = 1 /\ 1 \in Levels /\ Len(Sizes) \in Levels
  BY <1>1, <1>5 DEF Grain
<1>8. Span(Len(Sizes)) \in Nat \ {0}
  BY <1>1, <1>3
<1>9. MaxExactDelay \in Nat
  BY <1>8 DEF MaxExactDelay
<1>10. \A l \in Levels : Span(l) = Grain(l) * Sizes[l]
  BY <1>4, <1>6
<1> QED
  BY <1>1, <1>2, <1>3, <1>6, <1>7, <1>9, <1>10

\* A delay within the exact range has a level, and it is the finest that covers it.
LEMMA LevelForDelta ==
  ASSUME NEW delta \in Nat, delta <= MaxExactDelay
  PROVE  /\ level_for_delta(delta) \in Levels
         /\ delta < Span(level_for_delta(delta))
         /\ level_for_delta(delta) = 1 \/ delta >= Grain(level_for_delta(delta))
<1> DEFINE T == {l \in Levels : delta < Span(l)}
<1>1. Len(Sizes) \in T /\ T \in SUBSET Nat
  <2>1. Len(Sizes) \in Levels /\ Span(Len(Sizes)) \in Nat /\ Levels \in SUBSET Nat
    BY LevelFacts
  <2>2. PICK m \in Nat : m = Span(Len(Sizes))
    BY <2>1
  <2>3. delta <= m - 1
    BY <2>2 DEF MaxExactDelay
  <2>4. delta < Span(Len(Sizes))
    BY <2>2, <2>3
  <2> QED
    BY <2>1, <2>4, Zenon
<1>2. PICK l \in T : \A k \in T : l <= k
  BY <1>1, LeastNatural
<1>3. l = 1 \/ delta >= Span(l - 1)
  <2>1. CASE l = 1
    BY <2>1
  <2>2. CASE l # 1
    <3>1. l - 1 \in Levels /\ l - 1 \notin T /\ Span(l - 1) \in Nat
      BY <2>2, <1>2, LevelFacts
    <3> QED
      BY <3>1
  <2> QED
    BY <2>1, <2>2
<1>4. \E k \in Levels : delta < Span(k) /\ (k = 1 \/ delta >= Span(k - 1))
  BY <1>3
<1>5. /\ level_for_delta(delta) \in Levels
      /\ delta < Span(level_for_delta(delta))
      /\ level_for_delta(delta) = 1 \/ delta >= Span(level_for_delta(delta) - 1)
  BY <1>4, Zenon DEF level_for_delta
<1> QED
  BY <1>5 DEF Grain

\* The start of the window of level l that holds time t.
Start(l, t) == (t \div Grain(l)) * Grain(l)

\* Slot s is where time t is filed, and its window has not begun before now.
FiledAt(s, t, now) ==
  /\ s.index = (t \div Grain(s.level)) % Sizes[s.level]
  /\ now <= Start(s.level, t)
  /\ Start(s.level, t) < now + Span(s.level)

\* A time lies in the window it starts.
LEMMA StartFacts ==
  ASSUME NEW l \in Levels, NEW t \in Nat
  PROVE  /\ Start(l, t) \in Nat /\ Start(l, t) <= t /\ t < Start(l, t) + Grain(l)
         /\ l = 1 => Start(l, t) = t
<1>1. PICK g \in Nat \ {0} : g = Grain(l) /\ (l = 1 => g = 1)
  BY LevelFacts
<1>2. PICK q \in Nat, m \in Nat : q = t \div g /\ t = (g * q) + m /\ m < g
  BY DivisionFacts
<1>3. Start(l, t) = q * g
  BY <1>1, <1>2 DEF Start
<1>4. q * g \in Nat /\ q * g = g * q
  OBVIOUS
<1>5. CASE l = 1
  BY <1>1, <1>2, <1>3, <1>5
<1>6. CASE l # 1
  BY <1>1, <1>2, <1>3, <1>4, <1>6
<1> QED
  BY <1>5, <1>6

Later(d, now) == IF d > now THEN d ELSE now

\* insert files a node where its window comes at its deadline, or now if that is past.
LEMMA SlotForOK ==
  ASSUME NEW now \in Nat, NEW d \in Nat, ~Far(now, d)
  PROVE  SlotFor(now, d) \in Slots /\ FiledAt(SlotFor(now, d), Later(d, now), now)
<1> DEFINE delta == Delta(now, d)
           l == level_for_delta(delta)
           t == IF delta = 0 THEN now ELSE d
<1>1. delta \in Nat /\ delta <= MaxExactDelay /\ t = Later(d, now) /\ t = now + delta
  BY LevelFacts DEF Far, Delta, Later
<1>2. /\ l \in Levels /\ delta < Span(l) /\ (l = 1 \/ delta >= Grain(l))
  BY <1>1, LevelForDelta
<1>3. SlotFor(now, d) = [level |-> l, index |-> (t \div Grain(l)) % Sizes[l]]
  BY DEF SlotFor, Slot
<1> HIDE DEF delta, l, t
<1>4. t \in Nat
  BY <1>1
<1>5. (t \div Grain(l)) % Sizes[l] \in 0 .. Sizes[l] - 1
  <2>1. t \div Grain(l) \in Nat
    BY <1>2, <1>4, LevelFacts, DivisionFacts
  <2> QED
    BY <2>1, <1>2, LevelFacts, DivisionFacts
<1>6. SlotFor(now, d) \in Slots
  BY <1>2, <1>3, <1>5 DEF Slots
<1>7. /\ Start(l, t) \in Nat /\ Start(l, t) <= t /\ t < Start(l, t) + Grain(l)
      /\ l = 1 => Start(l, t) = t
  BY <1>2, <1>4, StartFacts
<1>8. Grain(l) \in Nat /\ Span(l) \in Nat
  BY <1>2, LevelFacts
<1>9. now <= Start(l, t) /\ Start(l, t) < now + Span(l)
  BY <1>1, <1>2, <1>7, <1>8
<1> QED
  BY <1>1, <1>3, <1>6, <1>9 DEF FiledAt

\* The arithmetic of slot_due, with its quotients and remainders named.
InWindow(p, a, b, u, r) ==
  /\ p \in Nat /\ a \in Nat /\ b \in Nat /\ u \in Nat /\ r \in Nat
  /\ u < p /\ r < p /\ b * p + r <= a * p + u /\ a * p + u < b * p + r + p

\* A window's start from its slot: this turn of the level or the next one.
LEMMA WindowStart ==
  ASSUME NEW p, NEW a, NEW b, NEW u, NEW r, InWindow(p, a, b, u, r)
  PROVE  /\ u < r => a * p + u = b * p + u + p
         /\ ~(u < r) => a * p + u = b * p + u
<1> USE DEF InWindow
<1>1. PICK k \in Int : k = a - b
  OBVIOUS
<1>2. a * p = b * p + k * p
  BY <1>1
<1>3. PICK c \in Nat, e \in Int : c = b * p /\ e = k * p
  OBVIOUS
<1>4. c + r <= c + e + u /\ c + e + u < c + r + p
  BY <1>2, <1>3
<1>5. k \in {0, 1}
  <2>1. CASE k <= -1
    <3>1. e <= -p
      BY <2>1, <1>3
    <3> QED
      BY <3>1, <1>4
  <2>2. CASE k >= 2
    <3>1. e >= 2 * p
      BY <2>2, <1>3
    <3> QED
      BY <3>1, <1>4
  <2> QED
    BY <2>1, <2>2
<1>6. e = (IF u < r THEN p ELSE 0)
  BY <1>3, <1>4, <1>5
<1> QED
  BY <1>2, <1>3, <1>6

\* slot_due tells when the window of every node on the slot starts.
LEMMA SlotDueIsStart ==
  ASSUME NEW s \in Slots, NEW t \in Nat, NEW now \in Nat, FiledAt(s, t, now)
  PROVE  slot_due(s.level, s.index, now) = Start(s.level, t)
<1>1. s.level \in Levels
  BY DEF Slots
<1>2. PICK l \in Levels : l = s.level
  BY <1>1
<1>3. PICK g \in Nat \ {0}, z \in Nat \ {0}, p \in Nat \ {0} :
        g = Grain(l) /\ z = Sizes[l] /\ p = Span(l) /\ p = g * z
  BY LevelFacts
<1>4. PICK q \in Nat : q = t \div g
  BY DivisionFacts
<1>5. PICK a \in Nat, i \in Nat : a = q \div z /\ i = q % z /\ q = (z * a) + i /\ i < z
  <2>1. /\ q = (z * (q \div z)) + (q % z) /\ q % z \in 0 .. z - 1 /\ q \div z \in Nat
    BY DivisionFacts, Zenon
  <2> QED
    BY <2>1
<1>6. PICK b \in Nat, r \in Nat : b = now \div p /\ now = (p * b) + r /\ r < p
  <2>1. /\ now = (p * (now \div p)) + (now % p) /\ now % p \in 0 .. p - 1 /\ now \div p \in Nat
    BY DivisionFacts, Zenon
  <2> QED
    BY <2>1
<1>7. s.index = i /\ Start(l, t) = q * g
  BY <1>2, <1>3, <1>4, <1>5 DEF FiledAt, Start
<1>8. PICK x \in Nat : x = q * g
  OBVIOUS
<1>9. now <= x /\ x < now + p
  BY <1>2, <1>3, <1>7, <1>8 DEF FiledAt
<1>10. x = a * p + i * g
  <2>1. q * g = ((z * a) + i) * g
    BY <1>5
  <2>2. ((z * a) + i) * g = a * (g * z) + i * g
    OBVIOUS
  <2> QED
    BY <2>1, <2>2, <1>3, <1>8
<1>11. PICK u \in Nat : u = i * g /\ u < p
  <2>1. PICK j \in Nat : z = i + 1 + j
    <3>1. z - i - 1 \in Nat /\ z = i + 1 + (z - i - 1)
      BY <1>5
    <3> QED
      BY <3>1
  <2>2. g * z = i * g + g + j * g
    BY <2>1
  <2>3. i * g \in Nat /\ j * g \in Nat
    OBVIOUS
  <2> QED
    BY <1>3, <2>2, <2>3
<1>12. b * p + r <= a * p + u /\ a * p + u < b * p + r + p
  BY <1>6, <1>9, <1>10, <1>11
<1>13. /\ u < r => a * p + u = b * p + u + p
       /\ ~(u < r) => a * p + u = b * p + u
  <2>1. p \in Nat /\ r < p /\ u < p
    BY <1>6, <1>11
  <2>2. InWindow(p, a, b, u, r)
    BY <2>1, <1>12, Zenon DEF InWindow
  <2> QED
    BY <2>2, WindowStart
<1>14. slot_due(l, i, now) = IF b * p + u < now THEN b * p + u + p ELSE b * p + u
  BY <1>3, <1>6, <1>11 DEF slot_due
<1>15. PICK c \in Nat : c = b * p /\ now = c + r
  BY <1>6
<1>16. slot_due(l, i, now) = c + u + (IF u < r THEN p ELSE 0)
  BY <1>14, <1>15
<1>17. slot_due(l, i, now) = x
  BY <1>10, <1>11, <1>13, <1>15, <1>16
<1> QED
  BY <1>2, <1>7, <1>8, <1>17

-----------------------------------------------------------------------------
(* The operations keep the lists and the count in order.                   *)

\* insert moves the node to the overflow list or to the slot of its deadline.
LEMMA InsertOK ==
  ASSUME NEW w, WheelOK(w), NEW n \in Nodes, NEW d \in Nat
  PROVE  /\ WheelOK(insert(w, n, d)) /\ SameBut(insert(w, n, d), w, n)
         /\ insert(w, n, d).deadline[n] = d
         /\ Far(w.now, d) => insert(w, n, d).state[n] = "overflow"
         /\ ~Far(w.now, d) => /\ insert(w, n, d).state[n] = "queued"
                              /\ SlotFor(w.now, d) \in Slots
                              /\ On(insert(w, n, d).slots[SlotFor(w.now, d)], n)
         /\ insert(w, n, d).processing = remove(w, n).processing
<1> DEFINE r == insert(w, n, d)
<1>1. PICK v : v = remove(w, n)
  OBVIOUS
<1>2. WheelOK(v) /\ SameBut(v, w, n) /\ v.state[n] = "idle" /\ v.deadline = w.deadline
  BY <1>1, RemoveOK
<1>3. v \in Wheels /\ Linked(v) /\ Counted(v) /\ v.now = w.now
  BY <1>2 DEF WheelOK, SameBut
<1>4. PICK at : at = SlotFor(v.now, d)
  OBVIOUS
<1>5. PICK far \in BOOLEAN : far <=> Far(v.now, d)
  OBVIOUS
<1>6. /\ r.now = v.now /\ r.count = v.count + 1
      /\ r.processing = v.processing
      /\ r.overflow = IF far THEN Append(v.overflow, n) ELSE v.overflow
      /\ r.slots = IF far THEN v.slots ELSE [v.slots EXCEPT ![at] = Append(v.slots[at], n)]
      /\ r.state = [v.state EXCEPT ![n] = IF far THEN "overflow" ELSE "queued"]
      /\ r.deadline = [v.deadline EXCEPT ![n] = d]
      /\ r = [now |-> r.now, slots |-> r.slots, processing |-> r.processing,
              overflow |-> r.overflow, count |-> r.count, state |-> r.state,
              deadline |-> r.deadline]
  <2>1. r = [now |-> v.now,
             slots |-> IF Far(v.now, d) THEN v.slots
                       ELSE [v.slots EXCEPT ![at] = Append(v.slots[at], n)],
             processing |-> v.processing,
             overflow |-> IF Far(v.now, d) THEN Append(v.overflow, n) ELSE v.overflow,
             count |-> v.count + 1,
             state |-> [v.state EXCEPT ![n] = IF Far(v.now, d) THEN "overflow" ELSE "queued"],
             deadline |-> [v.deadline EXCEPT ![n] = d]]
    BY <1>1, <1>3, <1>4, InsertFields
  <2> HIDE DEF r
  <2> QED
    BY <2>1, <1>5
<1> HIDE DEF r
<1>7. ~far => at \in Slots
  <2>1. v.now \in Nat
    BY <1>3 DEF Wheels
  <2> QED
    BY <2>1, <1>4, <1>5, SlotForOK
<1>8. /\ n \notin ToSet(v.processing) /\ n \notin ToSet(v.overflow)
      /\ \A s \in Slots : n \notin ToSet(v.slots[s])
  BY <1>2, <1>3 DEF Linked, On
<1>9. /\ r.overflow \in Seq(Nodes) /\ Distinct(r.overflow)
      /\ ToSet(r.overflow) = ToSet(v.overflow) \cup (IF far THEN {n} ELSE {})
  <2>1. v.overflow \in Seq(Nodes) /\ Distinct(v.overflow)
    BY <1>3 DEF Wheels, Linked
  <2>2. CASE far
    BY <2>1, <2>2, <1>6, <1>8, AppendToList
  <2>3. CASE ~far
    BY <2>1, <2>3, <1>6
  <2> QED
    BY <2>2, <2>3
<1>10. /\ r.slots \in [Slots -> Seq(Nodes)]
       /\ \A s \in Slots : /\ Distinct(r.slots[s])
                           /\ ToSet(r.slots[s]) = ToSet(v.slots[s]) \cup
                                                  (IF ~far /\ s = at THEN {n} ELSE {})
  <2>1. v.slots \in [Slots -> Seq(Nodes)] /\ \A s \in Slots : Distinct(v.slots[s])
    BY <1>3 DEF Wheels, Linked
  <2>2. CASE far
    BY <2>1, <2>2, <1>6
  <2>3. CASE ~far
    <3>1. /\ Append(v.slots[at], n) \in Seq(Nodes) /\ Distinct(Append(v.slots[at], n))
          /\ ToSet(Append(v.slots[at], n)) = ToSet(v.slots[at]) \cup {n}
      <4>1. v.slots[at] \in Seq(Nodes) /\ Distinct(v.slots[at]) /\ n \notin ToSet(v.slots[at])
        BY <2>1, <2>3, <1>7, <1>8
      <4> QED
        BY <4>1, AppendToList
    <3>2. \A s \in Slots : r.slots[s] = IF s = at THEN Append(v.slots[at], n) ELSE v.slots[s]
      BY <2>1, <2>3, <1>6, <1>7
    <3>3. r.slots \in [Slots -> Seq(Nodes)]
      BY <2>1, <2>3, <3>1, <1>6, <1>7
    <3> QED
      BY <2>1, <2>3, <3>1, <3>2, <3>3
  <2> QED
    BY <2>2, <2>3
<1>11. \A m \in Nodes :
         /\ r.state[m] = IF m = n THEN (IF far THEN "overflow" ELSE "queued") ELSE v.state[m]
         /\ r.deadline[m] = IF m = n THEN d ELSE v.deadline[m]
  BY <1>3, <1>6 DEF Wheels
<1>12. r \in Wheels
  <2>1. /\ r.now \in Nat /\ r.count \in Nat /\ r.deadline \in [Nodes -> Nat]
        /\ r.processing \in Seq(Nodes)
    BY <1>3, <1>6 DEF Wheels
  <2>2. r.state \in [Nodes -> NodeStates]
    BY <1>3, <1>6 DEF Wheels, NodeStates
  <2> QED
    BY <2>1, <2>2, <1>6, <1>9, <1>10 DEF Wheels
<1>13. Linked(r)
  <2>1. \A m \in Nodes : On(r.processing, m) <=> r.state[m] = "processing"
    BY <1>3, <1>6, <1>8, <1>11 DEF Linked, On
  <2>2. \A m \in Nodes : On(r.overflow, m) <=> r.state[m] = "overflow"
    BY <1>3, <1>8, <1>9, <1>11 DEF Linked, On
  <2>3. \A m \in Nodes, s \in Slots :
          On(r.slots[s], m) <=> (m # n /\ On(v.slots[s], m)) \/ (m = n /\ ~far /\ s = at)
    BY <1>8, <1>10 DEF On
  <2>4. \A m \in Nodes : (\E s \in Slots : On(r.slots[s], m)) <=> r.state[m] = "queued"
    <3>1. \A m \in Nodes : (\E s \in Slots : On(v.slots[s], m)) <=> v.state[m] = "queued"
      BY <1>3 DEF Linked
    <3> QED
      BY <3>1, <2>3, <1>7, <1>11
  <2>5. \A m \in Nodes, s, t \in Slots : On(r.slots[s], m) /\ On(r.slots[t], m) => s = t
    BY <2>3, <1>3 DEF Linked
  <2>6. Distinct(r.processing)
    BY <1>3, <1>6 DEF Linked
  <2> QED
    BY <2>1, <2>2, <2>4, <2>5, <2>6, <1>9, <1>10 DEF Linked
<1>14. Counted(r)
  <2>1. Cardinality(OwnedBy(r)) = Cardinality(OwnedBy(v)) + 1
    BY <1>2, <1>3, <1>11, <1>12, OwnedChanges
  <2> QED
    BY <2>1, <1>3, <1>6 DEF Counted
<1>15. SameBut(r, w, n)
  <2>1. SameBut(r, v, n)
    BY <1>6, <1>9, <1>10, <1>11, ZenonT(40) DEF SameBut, On
  <2> QED
    BY <2>1, <1>2 DEF SameBut
<1>16. /\ r.deadline[n] = d
       /\ far => r.state[n] = "overflow"
       /\ ~far => r.state[n] = "queued" /\ at \in Slots /\ On(r.slots[at], n)
  BY <1>7, <1>10, <1>11 DEF On
<1> QED
  BY <1>1, <1>3, <1>4, <1>5, <1>6, <1>12, <1>13, <1>14, <1>15, <1>16 DEF WheelOK, r

\* The fields detach_slot changes.
LEMMA DetachFields ==
  ASSUME NEW w \in Wheels, NEW s \in Slots
  PROVE  detach_slot(w, s) =
           [now |-> w.now, slots |-> [w.slots EXCEPT ![s] = <<>>],
            processing |-> w.processing \o w.slots[s], overflow |-> w.overflow,
            count |-> w.count,
            state |-> [n \in Nodes |-> IF n \in ToSet(w.slots[s]) THEN "processing"
                                       ELSE w.state[n]],
            deadline |-> w.deadline]
<1>1. PICK joined, states :
        /\ joined = w.processing \o w.slots[s]
        /\ states = [n \in Nodes |-> IF n \in ToSet(w.slots[s]) THEN "processing"
                                     ELSE w.state[n]]
  OBVIOUS
<1>2. detach_slot(w, s) = [w EXCEPT !.slots[s] = <<>>, !.processing = joined, !.state = states]
  BY <1>1, Zenon DEF detach_slot
<1>3. detach_slot(w, s) = [now |-> w.now, slots |-> [w.slots EXCEPT ![s] = <<>>],
                           processing |-> joined, overflow |-> w.overflow,
                           count |-> w.count, state |-> states, deadline |-> w.deadline]
  BY <1>2 DEF Wheels
<1> QED
  BY <1>1, <1>3, Zenon

\* expire_slot moves the nodes of one slot to the processing list, and no others.
LEMMA DetachOK ==
  ASSUME NEW w, WheelOK(w), NEW s \in Slots
  PROVE  LET r == detach_slot(w, s)
         IN  /\ WheelOK(r) /\ r.now = w.now /\ r.deadline = w.deadline
             /\ r.overflow = w.overflow
             /\ OwnedBy(r) = OwnedBy(w)
             /\ ToSet(r.processing) = ToSet(w.processing) \cup ToSet(w.slots[s])
             /\ \A q \in Slots : ToSet(r.slots[q]) =
                                  IF q = s THEN {} ELSE ToSet(w.slots[q])
<1> DEFINE r == detach_slot(w, s)
<1>1. w \in Wheels /\ Linked(w) /\ Counted(w)
  BY DEF WheelOK
<1>2. PICK list \in Seq(Nodes) : list = w.slots[s] /\ Distinct(list)
  BY <1>1 DEF Wheels, Linked
<1>3. /\ r.now = w.now /\ r.count = w.count /\ r.deadline = w.deadline
      /\ r.overflow = w.overflow
      /\ r.slots = [w.slots EXCEPT ![s] = <<>>]
      /\ r.processing = w.processing \o list
      /\ r.state = [n \in Nodes |-> IF n \in ToSet(list) THEN "processing" ELSE w.state[n]]
      /\ r = [now |-> r.now, slots |-> r.slots, processing |-> r.processing,
              overflow |-> r.overflow, count |-> r.count, state |-> r.state,
              deadline |-> r.deadline]
  <2>1. r = [now |-> w.now, slots |-> [w.slots EXCEPT ![s] = <<>>],
             processing |-> w.processing \o list, overflow |-> w.overflow,
             count |-> w.count,
             state |-> [n \in Nodes |-> IF n \in ToSet(list) THEN "processing" ELSE w.state[n]],
             deadline |-> w.deadline]
    BY <1>1, <1>2, DetachFields
  <2> HIDE DEF r
  <2> QED
    BY <2>1
<1> HIDE DEF r
<1>4. \A m \in Nodes : m \in ToSet(list) => w.state[m] = "queued"
  BY <1>1, <1>2 DEF Linked, On
<1>5. /\ r.processing \in Seq(Nodes) /\ Distinct(r.processing)
      /\ ToSet(r.processing) = ToSet(w.processing) \cup ToSet(list)
  <2>1. w.processing \in Seq(Nodes) /\ Distinct(w.processing)
    BY <1>1 DEF Wheels, Linked
  <2>2. \A m \in Nodes : m \in ToSet(w.processing) => w.state[m] = "processing"
    BY <1>1 DEF Linked, On
  <2>3. ToSet(w.processing) \in SUBSET Nodes
    BY <2>1, NonemptyList
  <2>4. ToSet(w.processing) \cap ToSet(list) = {}
    BY <2>2, <2>3, <1>4
  <2> QED
    BY <2>1, <2>4, <1>2, <1>3, JoinLists
<1>6. /\ r.slots \in [Slots -> Seq(Nodes)]
      /\ \A q \in Slots : /\ Distinct(r.slots[q])
                          /\ ToSet(r.slots[q]) = IF q = s THEN {} ELSE ToSet(w.slots[q])
  <2>1. w.slots \in [Slots -> Seq(Nodes)] /\ \A q \in Slots : Distinct(w.slots[q])
    BY <1>1 DEF Wheels, Linked
  <2>2. <<>> \in Seq(Nodes) /\ Distinct(<<>>) /\ ToSet(<<>>) = {}
    BY EmptyList
  <2>3. \A q \in Slots : r.slots[q] = IF q = s THEN <<>> ELSE w.slots[q]
    BY <2>1, <1>3
  <2>4. r.slots \in [Slots -> Seq(Nodes)]
    BY <2>1, <2>2, <1>3
  <2> QED
    BY <2>1, <2>2, <2>3, <2>4
<1>7. \A m \in Nodes : r.state[m] = IF m \in ToSet(list) THEN "processing" ELSE w.state[m]
  BY <1>3
<1>8. r \in Wheels
  <2>1. r.now \in Nat /\ r.count \in Nat /\ r.deadline \in [Nodes -> Nat]
        /\ r.overflow \in Seq(Nodes)
    BY <1>1, <1>3 DEF Wheels
  <2>2. r.state \in [Nodes -> NodeStates]
    BY <1>1, <1>3 DEF Wheels, NodeStates
  <2> QED
    BY <2>1, <2>2, <1>3, <1>5, <1>6 DEF Wheels
<1>9. Linked(r)
  <2>1. \A m \in Nodes : On(r.processing, m) <=> r.state[m] = "processing"
    BY <1>1, <1>5, <1>7 DEF Linked, On
  <2>2. \A m \in Nodes : On(r.overflow, m) <=> r.state[m] = "overflow"
    BY <1>1, <1>3, <1>4, <1>7 DEF Linked, On
  <2>3. \A m \in Nodes, q \in Slots :
          On(r.slots[q], m) <=> m \notin ToSet(list) /\ On(w.slots[q], m)
    <3>1. \A m \in Nodes, q \in Slots : On(r.slots[q], m) <=> q # s /\ On(w.slots[q], m)
      BY <1>6 DEF On
    <3>2. \A m \in Nodes, q \in Slots : On(w.slots[q], m) => (m \in ToSet(list) <=> q = s)
      BY <1>1, <1>2 DEF Linked, On
    <3> QED
      BY <3>1, <3>2, <1>2 DEF On
  <2>4. \A m \in Nodes : (\E q \in Slots : On(r.slots[q], m)) <=> r.state[m] = "queued"
    <3>1. \A m \in Nodes : (\E q \in Slots : On(w.slots[q], m)) <=> w.state[m] = "queued"
      BY <1>1 DEF Linked
    <3> QED
      BY <3>1, <2>3, <1>7
  <2>5. \A m \in Nodes, q, t \in Slots : On(r.slots[q], m) /\ On(r.slots[t], m) => q = t
    BY <2>3, <1>1 DEF Linked
  <2>6. Distinct(r.overflow)
    BY <1>1, <1>3 DEF Linked
  <2> QED
    BY <2>1, <2>2, <2>4, <2>5, <2>6, <1>5, <1>6 DEF Linked
<1>10. OwnedBy(r) = OwnedBy(w)
  BY <1>4, <1>7 DEF OwnedBy
<1>11. Counted(r)
  BY <1>1, <1>3, <1>10 DEF Counted
<1> QED
  BY <1>2, <1>3, <1>5, <1>6, <1>8, <1>9, <1>10, <1>11 DEF WheelOK, r

\* The fields that change when the head of the list being dispatched is taken.
LEMMA TakeHeadFields ==
  ASSUME NEW w \in Wheels
  PROVE  take_head(w) =
           [now |-> w.now, slots |-> w.slots, processing |-> Tail(w.processing),
            overflow |-> w.overflow, count |-> w.count - 1,
            state |-> [w.state EXCEPT ![Head(w.processing)] = "idle"],
            deadline |-> w.deadline]
<1>1. PICK n, rest : n = Head(w.processing) /\ rest = Tail(w.processing)
  OBVIOUS
<1>2. take_head(w) = [w EXCEPT !.processing = rest, !.state[n] = "idle", !.count = w.count - 1]
  BY <1>1, Zenon DEF take_head
<1>3. take_head(w) = [now |-> w.now, slots |-> w.slots, processing |-> rest,
                      overflow |-> w.overflow, count |-> w.count - 1,
                      state |-> [w.state EXCEPT ![n] = "idle"], deadline |-> w.deadline]
  BY <1>2 DEF Wheels
<1> QED
  BY <1>1, <1>3, Zenon

\* The head of the processing list becomes idle.
LEMMA TakeHeadOK ==
  ASSUME NEW w, WheelOK(w), w.processing # <<>>
  PROVE  LET r == take_head(w)
             n == Head(w.processing)
         IN  /\ n \in Nodes /\ On(w.processing, n)
             /\ WheelOK(r) /\ SameBut(r, w, n)
             /\ r.state[n] = "idle" /\ r.deadline = w.deadline
<1> DEFINE r == take_head(w)
<1>1. w \in Wheels /\ Linked(w) /\ Counted(w)
  BY DEF WheelOK
<1>2. w.processing \in Seq(Nodes) /\ Distinct(w.processing)
  BY <1>1 DEF Wheels, Linked
<1>3. PICK n \in Nodes : n = Head(w.processing) /\ n \in ToSet(w.processing)
  BY <1>2, NonemptyList
<1>4. w.state[n] = "processing" /\ w.count \in Nat \ {0}
  <2>1. w.state[n] = "processing"
    BY <1>1, <1>3 DEF Linked, On
  <2> QED
    BY <2>1, OwnedIsCounted
<1>5. /\ r.now = w.now /\ r.count = w.count - 1 /\ r.deadline = w.deadline
      /\ r.overflow = w.overflow /\ r.slots = w.slots
      /\ r.processing = Tail(w.processing)
      /\ r.state = [w.state EXCEPT ![n] = "idle"]
      /\ r = [now |-> r.now, slots |-> r.slots, processing |-> r.processing,
              overflow |-> r.overflow, count |-> r.count, state |-> r.state,
              deadline |-> r.deadline]
  <2>1. r = [now |-> w.now, slots |-> w.slots, processing |-> Tail(w.processing),
             overflow |-> w.overflow, count |-> w.count - 1,
             state |-> [w.state EXCEPT ![n] = "idle"], deadline |-> w.deadline]
    BY <1>1, <1>3, TakeHeadFields
  <2> HIDE DEF r
  <2> QED
    BY <2>1
<1> HIDE DEF r
<1>6. /\ r.processing \in Seq(Nodes) /\ Distinct(r.processing)
      /\ ToSet(r.processing) = ToSet(w.processing) \ {n}
  BY <1>2, <1>3, <1>5, TailOfList
<1>7. \A m \in Nodes : r.state[m] = IF m = n THEN "idle" ELSE w.state[m]
  BY <1>1, <1>5 DEF Wheels
<1>8. r \in Wheels
  <2>1. /\ r.now \in Nat /\ r.count \in Nat /\ r.deadline \in [Nodes -> Nat]
        /\ r.overflow \in Seq(Nodes) /\ r.slots \in [Slots -> Seq(Nodes)]
    BY <1>1, <1>4, <1>5 DEF Wheels
  <2>2. r.state \in [Nodes -> NodeStates]
    BY <1>1, <1>5 DEF Wheels, NodeStates
  <2> QED
    BY <2>1, <2>2, <1>5, <1>6 DEF Wheels
<1>9. Linked(r)
  <2>1. \A m \in Nodes : On(r.processing, m) <=> r.state[m] = "processing"
    BY <1>1, <1>6, <1>7 DEF Linked, On
  <2>2. \A m \in Nodes : On(r.overflow, m) <=> r.state[m] = "overflow"
    BY <1>1, <1>4, <1>5, <1>7 DEF Linked, On
  <2>3. \A m \in Nodes : (\E q \in Slots : On(r.slots[q], m)) <=> r.state[m] = "queued"
    BY <1>1, <1>4, <1>5, <1>7 DEF Linked
  <2> QED
    BY <2>1, <2>2, <2>3, <1>1, <1>5, <1>6 DEF Linked
<1>10. Counted(r)
  <2>1. Cardinality(OwnedBy(r)) = Cardinality(OwnedBy(w)) - 1
    BY <1>1, <1>4, <1>7, <1>8, OwnedChanges
  <2> QED
    BY <2>1, <1>1, <1>5 DEF Counted
<1>11. SameBut(r, w, n)
  BY <1>5, <1>6, <1>7 DEF SameBut, On
<1> QED
  BY <1>3, <1>5, <1>7, <1>8, <1>9, <1>10, <1>11 DEF WheelOK, On, r

-----------------------------------------------------------------------------
(* migrate_overflow.                                                       *)

InRange(w, n) == w.deadline[n] - w.now <= MaxExactDelay

\* One round of the loop over the overflow list.
MigrateStep(w, v, n) == IF InRange(w, n) THEN insert(v, n, w.deadline[n]) ELSE v

\* The loop, as a function of the number of rounds.
IsMigration(w, f) ==
  f = [k \in 0 .. Len(w.overflow) |->
         IF k = 0 THEN w ELSE MigrateStep(w, f[k - 1], w.overflow[k])]

\* The node is one of the first k of the overflow list and in range.
MovedBy(w, k, m) == (\E j \in 1 .. k : w.overflow[j] = m) /\ InRange(w, m)

\* What k rounds have done to a wheel.
Migrated(w, k, v) ==
  /\ WheelOK(v) /\ v.now = w.now
  /\ \A m \in Nodes :
       /\ v.deadline[m] = w.deadline[m]
       /\ MovedBy(w, k, m) => /\ v.state[m] = "queued"
                              /\ SlotFor(w.now, w.deadline[m]) \in Slots
                              /\ On(v.slots[SlotFor(w.now, w.deadline[m])], m)
       /\ ~MovedBy(w, k, m) => /\ v.state[m] = w.state[m]
                               /\ \A s \in Slots : On(v.slots[s], m) <=> On(w.slots[s], m)

\* A node is in range when it is not far.
LEMMA InRangeIsNear ==
  ASSUME NEW w, w \in Wheels, NEW n \in Nodes
  PROVE  InRange(w, n) <=> ~Far(w.now, w.deadline[n])
<1>1. w.now \in Nat /\ w.deadline[n] \in Nat
  BY DEF Wheels
<1> QED
  BY <1>1, LevelFacts DEF InRange, Far, Delta

\* The rounds of migrate_overflow exist as a function.
LEMMA MigrationExists ==
  ASSUME NEW w, WheelOK(w)
  PROVE  \E f : IsMigration(w, f)
<1> DEFINE S == {v \in Wheels : Linked(v) /\ Counted(v)}
           N == Len(w.overflow)
           g == [k \in 1 .. N |-> [v \in S |-> MigrateStep(w, v, w.overflow[k])]]
<1>1. w \in S /\ w \in Wheels
  BY DEF WheelOK
<1>2. N \in Nat /\ \A k \in 1 .. N : w.overflow[k] \in Nodes
  BY <1>1 DEF Wheels
<1>3. ASSUME NEW k \in 1 .. N, NEW v \in S PROVE MigrateStep(w, v, w.overflow[k]) \in S
  <2>1. WheelOK(v) /\ w.overflow[k] \in Nodes /\ w.deadline[w.overflow[k]] \in Nat
    BY <1>1, <1>2, <1>3 DEF WheelOK, Wheels
  <2>2. WheelOK(insert(v, w.overflow[k], w.deadline[w.overflow[k]]))
    BY <2>1, InsertOK
  <2> QED
    BY <2>1, <2>2 DEF MigrateStep, WheelOK
<1>4. g \in [1 .. N -> [S -> S]]
  BY <1>3
<1> HIDE DEF S, N
<1>5. PICK f \in [0 .. N -> S] : f[0] = w /\ \A k \in 1 .. N : f[k] = g[k][f[k - 1]]
  <2> HIDE DEF g
  <2> QED
    <3>1. IsLoop(S, w, N, g)
      BY <1>1, <1>2, <1>4, Zenon DEF IsLoop
    <3>2. PICK f : Runs(f, S, w, N, g)
      BY <3>1, RecursionExists, Zenon
    <3> QED
      BY <3>2, Zenon DEF Runs
<1>6. \A k \in 1 .. N : k - 1 \in 0 .. N /\ f[k - 1] \in S
  <2>1. \A k \in 1 .. N : k - 1 \in 0 .. N
    BY <1>2
  <2> QED
    BY <2>1, Zenon
<1>7. \A k \in 1 .. N : g[k][f[k - 1]] = MigrateStep(w, f[k - 1], w.overflow[k])
  BY <1>6
<1> HIDE DEF g
<1>8. f = [k \in 0 .. N |-> IF k = 0 THEN w ELSE MigrateStep(w, f[k - 1], w.overflow[k])]
  <2>1. \A k \in 0 .. N : k # 0 => k \in 1 .. N
    BY <1>2
  <2> QED
    BY <1>5, <1>7, <2>1
<1> QED
  BY <1>8, Zenon DEF IsMigration, N

\* Every round keeps the wheel in order and moves at most one node.
LEMMA MigrationRounds ==
  ASSUME NEW w, WheelOK(w), NEW f, IsMigration(w, f)
  PROVE  Migrated(w, Len(w.overflow), f[Len(w.overflow)])
<1>1. w \in Wheels /\ w.overflow \in Seq(Nodes) /\ w.now \in Nat
      /\ \A m \in Nodes : w.deadline[m] \in Nat
  BY DEF WheelOK, Wheels
<1>2. PICK N \in Nat : N = Len(w.overflow)
  BY <1>1
<1>3. /\ f[0] = w
      /\ \A k \in 1 .. N : f[k] = MigrateStep(w, f[k - 1], w.overflow[k])
  BY <1>2 DEF IsMigration
<1> DEFINE T == {k \in 0 .. N : Migrated(w, k, f[k])}
<1>4. 0 \in T
  <2>1. \A m \in Nodes : ~MovedBy(w, 0, m)
    BY DEF MovedBy
  <2>2. Migrated(w, 0, w)
    BY <2>1 DEF Migrated
  <2> QED
    BY <2>2, <1>3
<1>5. ASSUME NEW k \in 1 .. N, k - 1 \in T PROVE k \in T
  <2>1. Migrated(w, k - 1, f[k - 1])
    BY <1>5
  <2>2. PICK v : v = f[k - 1]
    OBVIOUS
  <2>3. PICK n \in Nodes : n = w.overflow[k]
    BY <1>1, <1>2
  <2>4. Migrated(w, k - 1, v) /\ f[k] = MigrateStep(w, v, n)
    BY <2>1, <2>2, <2>3, <1>3
  <2>5. \A m \in Nodes : MovedBy(w, k, m) <=> MovedBy(w, k - 1, m) \/ (m = n /\ InRange(w, n))
    <3>1. ASSUME NEW m
          PROVE  (\E j \in 1 .. k : w.overflow[j] = m)
                   <=> (\E j \in 1 .. k - 1 : w.overflow[j] = m) \/ m = n
      <4>1. \A j \in 1 .. k : j \in 1 .. k - 1 \/ j = k
        OBVIOUS
      <4>2. \A j \in 1 .. k - 1 : j \in 1 .. k
        OBVIOUS
      <4>3. k \in 1 .. k
        OBVIOUS
      <4> QED
        BY <4>1, <4>2, <4>3, <2>3
    <3> QED
      BY <3>1, Zenon DEF MovedBy
  <2>6. CASE ~InRange(w, n)
    <3>1. f[k] = v /\ \A m \in Nodes : MovedBy(w, k, m) <=> MovedBy(w, k - 1, m)
      BY <2>4, <2>5, <2>6 DEF MigrateStep
    <3> QED
      BY <3>1, <2>4 DEF Migrated
  <2>7. CASE InRange(w, n)
    <3>1. PICK r : r = insert(v, n, w.deadline[n]) /\ f[k] = r
      BY <2>4, <2>7 DEF MigrateStep
    <3>2. WheelOK(v) /\ v.now = w.now /\ w.deadline[n] \in Nat /\ ~Far(v.now, w.deadline[n])
      BY <2>4, <2>7, <1>1, InRangeIsNear DEF Migrated
    <3>3. /\ WheelOK(r) /\ SameBut(r, v, n) /\ r.deadline[n] = w.deadline[n]
          /\ r.state[n] = "queued" /\ SlotFor(w.now, w.deadline[n]) \in Slots
          /\ On(r.slots[SlotFor(w.now, w.deadline[n])], n)
      BY <3>1, <3>2, InsertOK
    <3>4. MovedBy(w, k, n)
      BY <2>5, <2>7
    <3>5. ASSUME NEW m \in Nodes, m # n
          PROVE  /\ r.deadline[m] = w.deadline[m]
                 /\ MovedBy(w, k, m) => /\ r.state[m] = "queued"
                                        /\ SlotFor(w.now, w.deadline[m]) \in Slots
                                        /\ On(r.slots[SlotFor(w.now, w.deadline[m])], m)
                 /\ ~MovedBy(w, k, m) =>
                      /\ r.state[m] = w.state[m]
                      /\ \A s \in Slots : On(r.slots[s], m) <=> On(w.slots[s], m)
      <4>1. MovedBy(w, k, m) <=> MovedBy(w, k - 1, m)
        BY <2>5, <3>5
      <4>2. /\ r.deadline[m] = v.deadline[m] /\ r.state[m] = v.state[m]
            /\ \A s \in Slots : On(r.slots[s], m) <=> On(v.slots[s], m)
        BY <3>3, <3>5 DEF SameBut
      <4> QED
        BY <4>1, <4>2, <2>4 DEF Migrated
    <3>6. r.now = w.now
      BY <3>2, <3>3 DEF SameBut
    <3>7. Migrated(w, k, r)
      BY <3>3, <3>4, <3>5, <3>6, Zenon DEF Migrated
    <3> QED
      BY <3>1, <3>7
  <2> QED
    BY <2>6, <2>7
<1> HIDE DEF T
<1>6. \A k \in 0 .. N : k \in T
  BY <1>4, <1>5, UpTo, Zenon
<1>7. N \in T
  BY <1>6
<1> QED
  BY <1>2, <1>7 DEF T

\* migrate_overflow files the nodes that came into range and leaves the others.
LEMMA MigrateOK ==
  ASSUME NEW w, WheelOK(w)
  PROVE  Migrated(w, Len(w.overflow), migrate_overflow(w))
<1>1. \E f : IsMigration(w, f)
  BY MigrationExists
<1>2. IsMigration(w, CHOOSE f : IsMigration(w, f))
  BY <1>1, Zenon
<1>3. migrate_overflow(w) = (CHOOSE f : IsMigration(w, f))[Len(w.overflow)]
  BY Zenon DEF migrate_overflow, IsMigration, MigrateStep, InRange
<1> QED
  BY <1>2, <1>3, MigrationRounds

-----------------------------------------------------------------------------
(* next_event.                                                             *)

\* Moving the wheel's time touches no list.
LEMMA SetNowOK ==
  ASSUME NEW w, WheelOK(w), NEW t \in Nat
  PROVE  LET v == [w EXCEPT !.now = t]
         IN  /\ WheelOK(v) /\ v.now = t /\ v.slots = w.slots
             /\ v.processing = w.processing /\ v.overflow = w.overflow
             /\ v.state = w.state /\ v.deadline = w.deadline
<1> DEFINE v == [w EXCEPT !.now = t]
<1>1. w \in Wheels /\ Linked(w) /\ Counted(w)
  BY DEF WheelOK
<1>2. /\ v \in Wheels /\ v.now = t /\ v.slots = w.slots /\ v.count = w.count
      /\ v.processing = w.processing /\ v.overflow = w.overflow
      /\ v.state = w.state /\ v.deadline = w.deadline
  BY <1>1 DEF Wheels
<1> HIDE DEF v
<1>3. Linked(v)
  BY <1>1, <1>2, Zenon DEF Linked
<1>4. Counted(v)
  BY <1>1, <1>2, Zenon DEF Counted, OwnedBy
<1> QED
  BY <1>2, <1>3, <1>4 DEF WheelOK, v

\* The time a slot is due is a natural number.
LEMMA DueType ==
  ASSUME NEW w, w \in Wheels, NEW s \in Slots
  PROVE  Due(w, s) \in Nat /\ s.level \in Nat /\ s.index \in Nat
<1>1. PICK l \in Levels : s \in [level : {l}, index : 0 .. Sizes[l] - 1]
  BY DEF Slots
<1>2. s.level = l /\ s.index \in 0 .. Sizes[l] - 1
  BY <1>1
<1>3. s.index \in Nat /\ l \in Nat
  BY <1>2, LevelFacts
<1>4. PICK p \in Nat \ {0}, g \in Nat : p = Span(l) /\ g = Grain(l)
  BY LevelFacts
<1>5. w.now \in Nat
  BY DEF Wheels
<1>6. PICK b \in Nat : b = w.now \div p
  BY <1>5, DivisionFacts
<1>7. PICK i \in Nat, now \in Nat : i = s.index /\ now = w.now
  BY <1>3, <1>5
<1>8. Due(w, s) = IF b * p + i * g < now THEN b * p + i * g + p ELSE b * p + i * g
  BY <1>2, <1>4, <1>6, <1>7 DEF Due, slot_due
<1>9. b * p + i * g \in Nat
  OBVIOUS
<1> QED
  BY <1>2, <1>3, <1>8, <1>9

\* The scan over the slots finds one of the earliest.
LEMMA EarliestSlotOK ==
  ASSUME NEW w, w \in Wheels, Occupied(w) # {}
  PROVE  /\ EarliestSlot(w) \in Occupied(w)
         /\ \A r \in Occupied(w) : Due(w, EarliestSlot(w)) <= Due(w, r)
<1> DEFINE Before(s, r) == \/ Due(w, s) < Due(w, r)
                           \/ Due(w, s) = Due(w, r) /\ s.level < r.level
                           \/ Due(w, s) = Due(w, r) /\ s.level = r.level /\ s.index <= r.index
<1>1. \A s \in Occupied(w) :
        s \in Slots /\ Due(w, s) \in Nat /\ s.level \in Nat /\ s.index \in Nat
  BY DueType DEF Occupied
<1> DEFINE D == {Due(w, s) : s \in Occupied(w)}
<1>2. PICK d \in D : \A e \in D : d <= e
  <2>1. D \in SUBSET Nat /\ D # {}
    BY <1>1
  <2> QED
    BY <2>1, LeastNatural, Zenon
<1> DEFINE O1 == {s \in Occupied(w) : Due(w, s) = d}
           L == {s.level : s \in O1}
<1>3. PICK l \in L : \A e \in L : l <= e
  <2>1. L \in SUBSET Nat /\ L # {}
    BY <1>1, <1>2
  <2> QED
    BY <2>1, LeastNatural, Zenon
<1> DEFINE O2 == {s \in O1 : s.level = l}
           I == {s.index : s \in O2}
<1>4. PICK i \in I : \A e \in I : i <= e
  <2>1. I \in SUBSET Nat /\ I # {}
    BY <1>1, <1>3
  <2> QED
    BY <2>1, LeastNatural, Zenon
<1>5. PICK s \in O2 : s.index = i
  BY <1>4
<1>6. s \in Occupied(w) /\ Due(w, s) = d /\ s.level = l
  BY <1>5
<1>7. ASSUME NEW r \in Occupied(w) PROVE Before(s, r)
  <2>1. d <= Due(w, r) /\ d \in Nat /\ Due(w, r) \in Nat /\ r.level \in Nat /\ r.index \in Nat
        /\ l \in Nat /\ i \in Nat
    BY <1>1, <1>2, <1>5, <1>6
  <2>2. CASE Due(w, r) # d
    <3>1. d < Due(w, r)
      BY <2>1, <2>2
    <3> QED
      BY <3>1, <1>6
  <2>3. CASE Due(w, r) = d
    <3>1. r \in O1 /\ l <= r.level
      BY <2>3, <1>3
    <3>2. CASE r.level # l
      <4>1. l < r.level
        BY <3>1, <3>2, <2>1
      <4> QED
        BY <4>1, <2>3, <1>6
    <3>3. CASE r.level = l
      <4>1. r \in O2
        BY <3>1, <3>3
      <4>2. i <= r.index
        BY <4>1, <1>4
      <4> QED
        BY <4>2, <3>3, <2>3, <1>5, <1>6
    <3> QED
      BY <3>2, <3>3
  <2> QED
    BY <2>2, <2>3
<1>8. \E q \in Occupied(w) : \A r \in Occupied(w) : Before(q, r)
  BY <1>6, <1>7, Zenon
<1>9. /\ EarliestSlot(w) \in Occupied(w)
      /\ \A r \in Occupied(w) : Before(EarliestSlot(w), r)
  BY <1>8, Zenon DEF EarliestSlot
<1>10. ASSUME NEW r \in Occupied(w) PROVE Due(w, EarliestSlot(w)) <= Due(w, r)
  <2>1. PICK a \in Nat, b \in Nat : a = Due(w, EarliestSlot(w)) /\ b = Due(w, r)
    BY <1>1, <1>9
  <2>2. a < b \/ a = b
    BY <1>9, <2>1
  <2> QED
    BY <2>1, <2>2
<1> QED
  BY <1>9, <1>10

EntersRangeOf(w) == EntersRange(w, Head(w.overflow))

\* No slot of the wheel and no head of the overflow list is due before the event.
NothingBefore(w, t) ==
  /\ \A s \in Occupied(w) : t <= Due(w, s)
  /\ w.overflow # <<>> => t <= EntersRangeOf(w)

\* next_event is no later than any occupied slot, nor than the head of the overflow list enters range.
LEMMA NextEventOK ==
  ASSUME NEW w, WheelOK(w)
  PROVE  /\ w.overflow # <<>> => EntersRangeOf(w) \in Nat
         /\ next_event(w) = NoEvent => Occupied(w) = {} /\ w.overflow = <<>>
         /\ next_event(w) # NoEvent =>
              /\ next_event(w).due \in Nat /\ NothingBefore(w, next_event(w).due)
              /\ next_event(w).kind = "slot" =>
                   /\ next_event(w).slot \in Occupied(w)
                   /\ next_event(w).due = Due(w, next_event(w).slot)
<1>1. w \in Wheels /\ w.overflow \in Seq(Nodes)
  BY DEF WheelOK, Wheels
<1>2. w.overflow # <<>> => EntersRangeOf(w) \in Nat
  <2>1. SUFFICES ASSUME w.overflow # <<>> PROVE EntersRangeOf(w) \in Nat
    OBVIOUS
  <2>2. Head(w.overflow) \in Nodes
    BY <1>1, <2>1
  <2>3. w.deadline[Head(w.overflow)] \in Nat
    BY <1>1, <2>2 DEF Wheels
  <2> QED
    BY <2>3, LevelFacts DEF EntersRangeOf, EntersRange
<1> DEFINE e == EarliestSlot(w)
<1>3. Occupied(w) # {} => /\ e \in Occupied(w) /\ \A r \in Occupied(w) : Due(w, e) <= Due(w, r)
  BY <1>1, EarliestSlotOK
<1>4. \A s \in Occupied(w) : Due(w, s) \in Nat
  BY <1>1, DueType DEF Occupied
<1>5. next_event(w) =
        IF w.overflow # <<>> /\ (Occupied(w) # {} => EntersRangeOf(w) < Due(w, e))
        THEN [kind |-> "overflow", due |-> EntersRangeOf(w)]
        ELSE IF Occupied(w) # {}
        THEN [kind |-> "slot", due |-> Due(w, e), slot |-> e]
        ELSE NoEvent
  BY Zenon DEF next_event, EntersRangeOf
<1>6. CASE w.overflow # <<>> /\ (Occupied(w) # {} => EntersRangeOf(w) < Due(w, e))
  <2>1. next_event(w) = [kind |-> "overflow", due |-> EntersRangeOf(w)]
    BY <1>5, <1>6
  <2>2. next_event(w).due = EntersRangeOf(w) /\ next_event(w).kind = "overflow"
        /\ next_event(w) # NoEvent
    BY <2>1 DEF NoEvent
  <2>3. PICK t \in Nat : t = EntersRangeOf(w)
    BY <1>2, <1>6
  <2>4. ASSUME NEW s \in Occupied(w) PROVE t <= Due(w, s)
    <3>1. PICK a \in Nat, b \in Nat : a = Due(w, e) /\ b = Due(w, s)
      BY <1>3, <1>4
    <3>2. t < a /\ a <= b
      BY <3>1, <2>3, <1>3, <1>6
    <3> QED
      BY <3>1, <3>2
  <2> QED
    BY <2>2, <2>3, <2>4, <1>2 DEF NothingBefore
<1>7. CASE ~(w.overflow # <<>> /\ (Occupied(w) # {} => EntersRangeOf(w) < Due(w, e)))
           /\ Occupied(w) # {}
  <2>1. next_event(w) = [kind |-> "slot", due |-> Due(w, e), slot |-> e]
    BY <1>5, <1>7
  <2> HIDE DEF e
  <2>2. /\ next_event(w).due = Due(w, e) /\ next_event(w).slot = e
        /\ next_event(w) # NoEvent /\ next_event(w).kind = "slot"
    BY <2>1 DEF NoEvent
  <2>3. Due(w, e) \in Nat
    BY <1>3, <1>4, <1>7
  <2>4. w.overflow # <<>> => Due(w, e) <= EntersRangeOf(w)
    BY <1>2, <1>7, <2>3
  <2> QED
    BY <2>2, <2>3, <2>4, <1>2, <1>3, <1>7 DEF NothingBefore
<1>8. CASE w.overflow = <<>> /\ Occupied(w) = {}
  BY <1>5, <1>8
<1> QED
  BY <1>6, <1>7, <1>8

-----------------------------------------------------------------------------
(* The inductive invariant.                                                *)

SchedulerTypes ==
  /\ clock \in Nat /\ target \in Nat
  /\ pc \in {"loop", "advance", "expire", "callback"}
  /\ armed \in [Nodes -> BOOLEAN] /\ since \in [Nodes -> Nat]

\* The wheel owns the armed nodes, and dispatches only inside expire_slot.
Owning ==
  /\ \A n \in Nodes : armed[n] <=> wheel.state[n] # "idle"
  /\ pc \in {"loop", "advance"} => wheel.processing = <<>>

ListInv == SchedulerTypes /\ WheelOK(wheel) /\ Owning

\* The wheel's time never passes the clock, nor the target of a running advance.
WheelBehindClock ==
  /\ wheel.now <= clock /\ target <= clock
  /\ pc # "loop" => wheel.now <= target
  /\ \A n \in Nodes : since[n] <= wheel.now

\* When a node is to fire, if it was scheduled at time t.
FireTime(w, n, t) == Later(w.deadline[n], t)

\* A queued node's window has not begun, and no owned node is late.
Timely(w, n, t) ==
  /\ \A s \in Slots : On(w.slots[s], n) => FiledAt(s, FireTime(w, n, t), w.now)
  /\ w.state[n] = "processing" => w.now <= FireTime(w, n, t)
  /\ w.state[n] = "overflow" => w.now <= w.deadline[n] /\ t < w.deadline[n]

TimeInv == WheelBehindClock /\ \A n \in Nodes : Timely(wheel, n, since[n])

(* The hypothesis of the theorems about time: no far timer hides behind a  *)
(* head of the overflow list that is due more than the exact range later.  *)
NoneHidden(w) ==
  \A n \in Nodes : w.state[n] = "overflow" =>
    w.deadline[Head(w.overflow)] <= w.deadline[n] + MaxExactDelay

NoHiddenOverflow == NoneHidden(wheel)

-----------------------------------------------------------------------------
(* Initially, and when nothing but the clock or the driver changes.        *)

\* The list invariant holds initially.
LEMMA ListInit == Init => ListInv
<1> SUFFICES ASSUME Init PROVE ListInv
  OBVIOUS
<1> DEFINE w == EmptyWheel(0)
<1>1. <<>> \in Seq(Nodes) /\ Distinct(<<>>) /\ ToSet(<<>>) = {}
  BY EmptyList
<1>2. /\ w.now = 0 /\ w.slots = [s \in Slots |-> <<>>] /\ w.processing = <<>>
      /\ w.overflow = <<>> /\ w.count = 0
      /\ w.state = [n \in Nodes |-> "idle"] /\ w.deadline = [n \in Nodes |-> 0]
      /\ w = [now |-> w.now, slots |-> w.slots, processing |-> w.processing,
              overflow |-> w.overflow, count |-> w.count, state |-> w.state,
              deadline |-> w.deadline]
  BY DEF EmptyWheel
<1> HIDE DEF w
<1>3. /\ w.slots \in [Slots -> Seq(Nodes)] /\ w.state \in [Nodes -> NodeStates]
      /\ w.deadline \in [Nodes -> Nat]
  BY <1>1, <1>2 DEF NodeStates
<1>4. w \in Wheels
  <2>1. /\ w.now \in Nat /\ w.count \in Nat /\ w.processing \in Seq(Nodes)
        /\ w.overflow \in Seq(Nodes)
    BY <1>1, <1>2
  <2> QED
    BY <2>1, <1>2, <1>3, Zenon DEF Wheels
<1>5. Linked(w)
  BY <1>1, <1>2 DEF Linked, On
<1>6. Counted(w)
  <2>1. OwnedBy(w) = {}
    BY <1>2 DEF OwnedBy
  <2> QED
    BY <2>1, <1>2, FS_EmptySet DEF Counted
<1>7. wheel = w
  BY DEF Init, w
<1> QED
  BY <1>2, <1>4, <1>5, <1>6, <1>7 DEF Init, ListInv, SchedulerTypes, WheelOK, Owning

\* The next time of the wheel in a step of advance.
NextNow(t) == IF t > wheel.now THEN t ELSE wheel.now

\* What migration leaves: the same nodes are owned, and nothing is dispatched.
LEMMA MigrateKeeps ==
  ASSUME NEW w, WheelOK(w), w.processing = <<>>
  PROVE  LET r == migrate_overflow(w)
         IN  /\ WheelOK(r) /\ r.now = w.now /\ r.processing = <<>>
             /\ \A n \in Nodes : r.state[n] # "idle" <=> w.state[n] # "idle"
<1>1. PICK r : r = migrate_overflow(w)
  OBVIOUS
<1>2. Migrated(w, Len(w.overflow), r)
  BY <1>1, MigrateOK
<1>3. w \in Wheels /\ Linked(w) /\ r \in Wheels /\ Linked(r) /\ WheelOK(r) /\ r.now = w.now
  BY <1>2 DEF Migrated, WheelOK
<1>4. ASSUME NEW n \in Nodes
      PROVE  /\ r.state[n] # "idle" <=> w.state[n] # "idle"
             /\ r.state[n] # "processing"
  <2>1. w.state[n] # "processing"
    <3>1. ~On(w.processing, n)
      BY EmptyList DEF On
    <3> QED
      BY <3>1, <1>3 DEF Linked
  <2>2. CASE MovedBy(w, Len(w.overflow), n)
    <3>1. PICK j \in 1 .. Len(w.overflow) : w.overflow[j] = n
      BY <2>2 DEF MovedBy
    <3>2. On(w.overflow, n)
      BY <3>1, <1>3, OnList DEF On, Wheels
    <3>3. w.state[n] = "overflow"
      BY <3>2, <1>3 DEF Linked
    <3> QED
      BY <3>3, <2>2, <1>2 DEF Migrated
  <2>3. CASE ~MovedBy(w, Len(w.overflow), n)
    BY <2>1, <2>3, <1>2 DEF Migrated
  <2> QED
    BY <2>2, <2>3
<1>5. r.processing = <<>>
  <2>1. r.processing \in Seq(Nodes)
    BY <1>3 DEF Wheels
  <2>2. ToSet(r.processing) \in SUBSET Nodes
    BY <2>1, NonemptyList
  <2>3. ToSet(r.processing) = {}
    BY <2>2, <1>3, <1>4 DEF Linked, On
  <2> QED
    BY <2>1, <2>3, NonemptyList
<1> QED
  BY <1>1, <1>3, <1>4, <1>5

\* A list that lost its only candidates stays empty.
LEMMA StillEmpty ==
  ASSUME NEW v, NEW w, WheelOK(v), WheelOK(w), NEW n \in Nodes, SameBut(v, w, n),
         v.state[n] # "processing", w.processing = <<>>
  PROVE  v.processing = <<>>
<1>1. v.processing \in Seq(Nodes) /\ Linked(v)
  BY DEF WheelOK, Wheels
<1>2. ToSet(v.processing) \in SUBSET Nodes
  BY <1>1, NonemptyList
<1>3. \A m \in Nodes : m \notin ToSet(v.processing)
  BY <1>1, EmptyList DEF SameBut, Linked, On
<1> QED
  BY <1>1, <1>2, <1>3, NonemptyList

-----------------------------------------------------------------------------
(* Every step keeps the lists in order.                                    *)

\* Every step keeps the list invariant.
LEMMA ListNext == ListInv /\ [Next]_vars => ListInv'
<1> SUFFICES ASSUME ListInv, [Next]_vars PROVE ListInv'
  OBVIOUS
<1> USE DEF ListInv
<1>1. WheelOK(wheel) /\ wheel \in Wheels /\ SchedulerTypes /\ Owning
  BY DEF WheelOK
<1>2. ASSUME UNCHANGED <<wheel, clock, armed, since>>, pc' = pc, target' = target
      PROVE  ListInv'
  BY <1>1, <1>2 DEF SchedulerTypes, Owning, WheelOK, Wheels, Linked, Counted, OwnedBy
<1>3. ASSUME WheelOK(wheel'), wheel'.processing = <<>> \/ pc' \in {"expire", "callback"},
             UNCHANGED <<armed, since>>, clock' \in Nat, target' \in Nat,
             pc' \in {"loop", "advance", "expire", "callback"},
             \A n \in Nodes : wheel'.state[n] # "idle" <=> wheel.state[n] # "idle"
      PROVE  ListInv'
  BY <1>1, <1>3 DEF SchedulerTypes, Owning
<1>4. ASSUME NEW n \in Nodes, cancel(n) PROVE ListInv'
  <2>1. /\ WheelOK(wheel') /\ SameBut(wheel', wheel, n) /\ wheel'.state[n] = "idle"
        /\ pc' = pc /\ pc \in {"loop", "callback"} /\ target' = target /\ clock' = clock
        /\ armed' = [armed EXCEPT ![n] = FALSE] /\ since' = [since EXCEPT ![n] = 0]
    BY <1>1, <1>4, RemoveOK DEF cancel, AppRuns, advancing
  <2>2. \A m \in Nodes : armed'[m] <=> wheel'.state[m] # "idle"
    BY <2>1, <1>1 DEF SchedulerTypes, Owning, SameBut
  <2>3. pc' = "loop" => wheel'.processing = <<>>
    BY <2>1, <1>1, StillEmpty DEF Owning
  <2>4. SchedulerTypes'
    BY <2>1, <1>1 DEF SchedulerTypes
  <2>5. Owning'
    BY <2>1, <2>2, <2>3 DEF Owning
  <2> QED
    BY <2>1, <2>4, <2>5
<1>5. ASSUME NEW n \in Nodes, NEW delay \in Delays, schedule_after(n, delay) PROVE ListInv'
  <2>1. clock + delay \in Nat
    BY <1>1, DelaysAssumption DEF SchedulerTypes
  <2>2. /\ WheelOK(wheel') /\ SameBut(wheel', wheel, n)
        /\ wheel'.state[n] \in {"queued", "overflow"}
        /\ pc' = pc /\ pc \in {"loop", "callback"} /\ target' = target /\ clock' = clock
        /\ armed' = [armed EXCEPT ![n] = TRUE] /\ since' = [since EXCEPT ![n] = wheel.now]
    BY <2>1, <1>1, <1>5, InsertOK DEF schedule_after, AppRuns, advancing
  <2>3. \A m \in Nodes : armed'[m] <=> wheel'.state[m] # "idle"
    BY <2>2, <1>1 DEF SchedulerTypes, Owning, SameBut
  <2>4. pc' = "loop" => wheel'.processing = <<>>
    BY <2>2, <1>1, StillEmpty DEF Owning
  <2>5. SchedulerTypes'
    BY <2>2, <1>1 DEF SchedulerTypes, Wheels
  <2>6. Owning'
    BY <2>2, <2>3, <2>4 DEF Owning
  <2> QED
    BY <2>2, <2>5, <2>6
<1>6. CASE ClockTicks
  <2>1. clock' \in Nat /\ UNCHANGED <<wheel, armed, since>> /\ pc' = pc /\ target' = target
    BY <1>1, <1>6, DelaysAssumption DEF ClockTicks, advancing, SchedulerTypes
  <2> QED
    BY <2>1, <1>1, <1>3 DEF SchedulerTypes, Owning
<1>7. CASE TickBegins
  <2>1. wheel.processing = <<>>
    BY <1>1, <1>7 DEF TickBegins, Owning
  <2>2. /\ WheelOK(wheel') /\ wheel'.processing = <<>>
        /\ \A n \in Nodes : wheel'.state[n] # "idle" <=> wheel.state[n] # "idle"
    BY <2>1, <1>1, <1>7, MigrateKeeps DEF TickBegins
  <2> QED
    BY <2>2, <1>1, <1>3, <1>7 DEF TickBegins, SchedulerTypes
<1>8. CASE SlotDone
  <2>1. /\ WheelOK(wheel') /\ wheel'.processing = <<>>
        /\ \A n \in Nodes : wheel'.state[n] # "idle" <=> wheel.state[n] # "idle"
    BY <1>1, <1>8, MigrateKeeps DEF SlotDone
  <2> QED
    BY <2>1, <1>1, <1>3, <1>8 DEF SlotDone, SchedulerTypes
<1>9. CASE TickEnds
  <2>1. IF target > wheel.now THEN target \in Nat ELSE wheel.now \in Nat
    BY <1>1 DEF SchedulerTypes, Wheels
  <2>2. NextNow(target) \in Nat
    BY <2>1 DEF NextNow
  <2>3. wheel' = [wheel EXCEPT !.now = NextNow(target)]
    BY <1>9 DEF TickEnds, NextNow
  <2>4. /\ WheelOK(wheel') /\ wheel'.processing = wheel.processing
        /\ wheel'.state = wheel.state
    BY <2>2, <2>3, <1>1, SetNowOK
  <2> QED
    BY <2>4, <1>1, <1>3, <1>9 DEF TickEnds, SchedulerTypes, Owning
<1>10. CASE AdvanceEvent
  <2>1. PICK event : event = next_event(wheel)
    OBVIOUS
  <2>2. /\ pc = "advance" /\ event # NoEvent
        /\ UNCHANGED <<clock, target, armed, since>>
    BY <2>1, <1>10 DEF AdvanceEvent, EventIsDue
  <2>3. /\ event.due \in Nat
        /\ event.kind = "slot" => event.slot \in Occupied(wheel)
    BY <2>1, <2>2, <1>1, NextEventOK
  <2>4. PICK w : w = [wheel EXCEPT !.now = NextNow(event.due)]
    OBVIOUS
  <2>5. NextNow(event.due) \in Nat
    BY <2>3, <1>1 DEF NextNow, Wheels
  <2>6. WheelOK(w) /\ w.processing = wheel.processing /\ w.state = wheel.state
    BY <2>4, <2>5, <1>1, SetNowOK
  <2>7. \/ wheel' = migrate_overflow(w) /\ pc' = pc
        \/ event.kind = "slot" /\ wheel' = detach_slot(w, event.slot) /\ pc' = "expire"
    BY <2>1, <2>4, <1>10 DEF AdvanceEvent, NextNow
  <2>8. wheel.processing = <<>>
    BY <2>2, <1>1 DEF Owning
  <2>9. CASE wheel' = migrate_overflow(w) /\ pc' = pc
    <3>1. /\ WheelOK(wheel') /\ wheel'.processing = <<>>
          /\ \A n \in Nodes : wheel'.state[n] # "idle" <=> wheel.state[n] # "idle"
      BY <2>6, <2>8, <2>9, MigrateKeeps
    <3> QED
      BY <3>1, <2>2, <2>9, <1>1, <1>3 DEF SchedulerTypes
  <2>10. CASE event.kind = "slot" /\ wheel' = detach_slot(w, event.slot) /\ pc' = "expire"
    <3>1. event.slot \in Slots
      BY <2>3, <2>10 DEF Occupied
    <3>2. WheelOK(wheel') /\ OwnedBy(wheel') = OwnedBy(w)
      BY <3>1, <2>6, <2>10, DetachOK
    <3>3. \A n \in Nodes : wheel'.state[n] # "idle" <=> wheel.state[n] # "idle"
      BY <3>2, <2>6 DEF OwnedBy
    <3> QED
      BY <3>2, <3>3, <2>2, <2>10, <1>1, <1>3 DEF SchedulerTypes
  <2> QED
    BY <2>7, <2>9, <2>10
<1>11. CASE Refile
  <2>1. PICK n, w : n = Head(wheel.processing) /\ w = take_head(wheel)
    OBVIOUS
  <2>2. /\ wheel.processing # <<>> /\ pc = "expire" /\ pc' = pc /\ target' = target
        /\ wheel' = insert(w, n, wheel.deadline[n])
        /\ UNCHANGED <<clock, armed, since>>
    BY <2>1, <1>11 DEF Refile, advancing
  <2>3. /\ n \in Nodes /\ On(wheel.processing, n) /\ WheelOK(w) /\ SameBut(w, wheel, n)
    BY <2>1, <2>2, <1>1, TakeHeadOK
  <2>4. wheel.deadline[n] \in Nat /\ wheel.state[n] = "processing"
    BY <2>3, <1>1 DEF Wheels, WheelOK, Linked
  <2>5. /\ WheelOK(wheel') /\ SameBut(wheel', w, n)
        /\ wheel'.state[n] \in {"queued", "overflow"}
    BY <2>2, <2>3, <2>4, InsertOK
  <2>6. \A m \in Nodes : wheel'.state[m] # "idle" <=> wheel.state[m] # "idle"
    BY <2>3, <2>4, <2>5 DEF SameBut
  <2> QED
    BY <2>2, <2>5, <2>6, <1>1, <1>3 DEF SchedulerTypes
<1>12. CASE Fire
  <2>1. PICK n : n = Head(wheel.processing)
    OBVIOUS
  <2>2. /\ wheel.processing # <<>> /\ pc' = "callback" /\ wheel' = take_head(wheel)
        /\ armed' = [armed EXCEPT ![n] = FALSE] /\ since' = [since EXCEPT ![n] = 0]
        /\ UNCHANGED <<clock, target>>
    BY <2>1, <1>12 DEF Fire
  <2>3. /\ n \in Nodes /\ WheelOK(wheel') /\ SameBut(wheel', wheel, n)
        /\ wheel'.state[n] = "idle"
    BY <2>1, <2>2, <1>1, TakeHeadOK
  <2>4. \A m \in Nodes : armed'[m] <=> wheel'.state[m] # "idle"
    BY <2>2, <2>3, <1>1 DEF SchedulerTypes, Owning, SameBut
  <2>5. SchedulerTypes' /\ Owning'
    BY <2>2, <2>4, <1>1 DEF SchedulerTypes, Owning
  <2> QED
    BY <2>3, <2>5
<1>13. CASE CallbackReturns
  BY <1>1, <1>3, <1>13 DEF CallbackReturns, SchedulerTypes
<1>14. CASE start \/ stop \/ TickFails \/ TickStops \/ UNCHANGED vars
  BY <1>2, <1>14 DEF start, stop, TickFails, TickStops, vars, advancing
<1> QED
  BY <1>4, <1>5, <1>6, <1>7, <1>8, <1>9, <1>10, <1>11, <1>12, <1>13, <1>14
  DEF Next, TickStep

(* The inductive invariant of the lists holds in every reachable state:    *)
(* the wheel is well typed, every node is on the list its state names and  *)
(* on it once, count is the number of owned nodes, the wheel owns exactly  *)
(* the armed nodes, and nothing is dispatched outside expire_slot.         *)
THEOREM ListsInOrder == Spec => []ListInv
<1>1. Init => ListInv
  BY ListInit
<1>2. ListInv /\ [Next]_vars => ListInv'
  BY ListNext
<1> QED
  BY <1>1, <1>2, PTL DEF Spec

\* The places of a node: one on the list that holds it, none elsewhere.
LEMMA PlacesOnList ==
  ASSUME NEW list \in Seq(Nodes), Distinct(list), NEW n
  PROVE  /\ n \in ToSet(list) => \E k : Places(list, n) = {k}
         /\ n \notin ToSet(list) => Places(list, n) = {}
<1>1. ASSUME n \in ToSet(list) PROVE \E k : Places(list, n) = {k}
  <2>1. PICK k \in 1 .. Len(list) : {j \in DOMAIN list : list[j] = n} = {k}
    BY <1>1, OnePlace
  <2> QED
    BY <2>1, Zenon DEF Places
<1>2. ASSUME n \notin ToSet(list) PROVE Places(list, n) = {}
  BY <1>2, NoPlace DEF Places
<1> QED
  BY <1>1, <1>2

\* The list invariant implies OnOneList.
LEMMA InvImpliesOnOneList == ListInv => OnOneList
<1> SUFFICES ASSUME ListInv PROVE OnOneList
  OBVIOUS
<1>1. wheel \in Wheels /\ Linked(wheel) /\ Counted(wheel) /\ Owning /\ SchedulerTypes
  BY DEF ListInv, WheelOK
<1>2. \A n \in Nodes : Owned(n) <=> armed[n]
  BY <1>1 DEF Owning, Owned
<1>3. wheel.count = Cardinality({n \in Nodes : armed[n]})
  <2>1. {n \in Nodes : armed[n]} = OwnedBy(wheel)
    BY <1>1 DEF OwnedBy, Owning
  <2> QED
    BY <2>1, <1>1 DEF Counted
<1>4. ASSUME NEW n \in Nodes PROVE Occurrences(n) = IF armed[n] THEN 1 ELSE 0
  <2> DEFINE P == Places(wheel.processing, n)
             O == Places(wheel.overflow, n)
             Q == UNION {{s} \X Places(wheel.slots[s], n) : s \in Slots}
  <2>1. /\ wheel.state[n] = "processing" => \E k : P = {k}
        /\ wheel.state[n] # "processing" => P = {}
    <3>1. wheel.processing \in Seq(Nodes) /\ Distinct(wheel.processing)
      BY <1>1 DEF Wheels, Linked
    <3>2. n \in ToSet(wheel.processing) <=> wheel.state[n] = "processing"
      BY <1>1 DEF Linked, On
    <3> QED
      BY <3>1, <3>2, PlacesOnList
  <2>2. /\ wheel.state[n] = "overflow" => \E k : O = {k}
        /\ wheel.state[n] # "overflow" => O = {}
    <3>1. wheel.overflow \in Seq(Nodes) /\ Distinct(wheel.overflow)
      BY <1>1 DEF Wheels, Linked
    <3>2. n \in ToSet(wheel.overflow) <=> wheel.state[n] = "overflow"
      BY <1>1 DEF Linked, On
    <3> QED
      BY <3>1, <3>2, PlacesOnList
  <2>3. /\ wheel.state[n] = "queued" => \E k : Q = {k}
        /\ wheel.state[n] # "queued" => Q = {}
    <3>1. \A s \in Slots : wheel.slots[s] \in Seq(Nodes) /\ Distinct(wheel.slots[s])
      BY <1>1 DEF Wheels, Linked
    <3>2. \A s \in Slots : n \notin ToSet(wheel.slots[s]) => Places(wheel.slots[s], n) = {}
      BY <3>1, PlacesOnList
    <3>3. CASE wheel.state[n] # "queued"
      <4>1. \A s \in Slots : Places(wheel.slots[s], n) = {}
        BY <3>2, <3>3, <1>1 DEF Linked, On
      <4> QED
        BY <4>1, <3>3
    <3>4. CASE wheel.state[n] = "queued"
      <4>1. PICK s \in Slots : n \in ToSet(wheel.slots[s])
        BY <3>4, <1>1 DEF Linked, On
      <4>2. \A r \in Slots : r # s => Places(wheel.slots[r], n) = {}
        BY <4>1, <3>2, <1>1 DEF Linked, On
      <4>3. PICK k : Places(wheel.slots[s], n) = {k}
        BY <4>1, <3>1, PlacesOnList
      <4>4. Q = {<<s, k>>}
        BY <4>2, <4>3
      <4> QED
        BY <4>4, <3>4
    <3> QED
      BY <3>3, <3>4
  <2>4. Occurrences(n) = Cardinality(P) + Cardinality(O) + Cardinality(Q)
    BY DEF Occurrences
  <2>5. Cardinality({}) = 0 /\ \A k : Cardinality({k}) = 1
    BY FS_EmptySet, FS_Singleton
  <2> HIDE DEF P, O, Q
  <2>6. wheel.state[n] \in NodeStates /\ (armed[n] <=> wheel.state[n] # "idle")
    BY <1>1 DEF Wheels, Owning
  <2>7. /\ Cardinality(P) = IF wheel.state[n] = "processing" THEN 1 ELSE 0
        /\ Cardinality(O) = IF wheel.state[n] = "overflow" THEN 1 ELSE 0
        /\ Cardinality(Q) = IF wheel.state[n] = "queued" THEN 1 ELSE 0
    BY <2>1, <2>2, <2>3, <2>5
  <2> QED
    BY <2>4, <2>6, <2>7 DEF NodeStates
<1> QED
  BY <1>2, <1>3, <1>4 DEF OnOneList

(* OnOneList for every number of nodes, every geometry of the wheel and    *)
(* every delay: whatever callbacks cancel or re-arm in the middle of a     *)
(* dispatch, a scheduled node is on exactly one list at one place, and a   *)
(* fired or cancelled one is on none.                                      *)
THEOREM NodesOnOneList == Spec => []OnOneList
  BY ListsInOrder, InvImpliesOnOneList, PTL

-----------------------------------------------------------------------------
(* Every operation keeps the nodes on time.                                *)

\* The later of two times.
LEMMA LaterFacts ==
  ASSUME NEW d \in Nat, NEW t \in Nat
  PROVE  Later(d, t) \in Nat /\ d <= Later(d, t) /\ t <= Later(d, t)
  BY DEF Later

\* A node that an operation does not move stays timely.
LEMMA TimelyFrame ==
  ASSUME NEW v, NEW w, NEW n, SameBut(v, w, n), NEW m \in Nodes, m # n, NEW t, Timely(w, m, t)
  PROVE  Timely(v, m, t)
<1>1. /\ v.now = w.now /\ v.state[m] = w.state[m] /\ v.deadline[m] = w.deadline[m]
      /\ \A s \in Slots : On(v.slots[s], m) <=> On(w.slots[s], m)
  BY DEF SameBut
<1>2. FireTime(v, m, t) = FireTime(w, m, t)
  BY <1>1 DEF FireTime
<1> QED
  BY <1>1, <1>2 DEF Timely

\* An idle node is timely.
LEMMA IdleIsTimely ==
  ASSUME NEW w, WheelOK(w), NEW n \in Nodes, w.state[n] = "idle", NEW t
  PROVE  Timely(w, n, t)
  BY DEF Timely, WheelOK, Linked

\* A node queued in one slot is timely if it is filed there.
LEMMA QueuedIsTimely ==
  ASSUME NEW w, WheelOK(w), NEW n \in Nodes, w.state[n] = "queued", NEW t,
         NEW s \in Slots, On(w.slots[s], n), FiledAt(s, FireTime(w, n, t), w.now)
  PROVE  Timely(w, n, t)
<1>1. \A q \in Slots : On(w.slots[q], n) => q = s
  BY DEF WheelOK, Linked
<1> QED
  BY <1>1 DEF Timely

\* A node that is inserted is timely.
LEMMA InsertTimely ==
  ASSUME NEW w, WheelOK(w), NEW n \in Nodes, NEW d \in Nat, NEW t \in Nat, t <= w.now,
         Later(d, t) = Later(d, w.now)
  PROVE  Timely(insert(w, n, d), n, t)
<1>1. PICK r : r = insert(w, n, d)
  OBVIOUS
<1>2. /\ WheelOK(r) /\ SameBut(r, w, n) /\ r.deadline[n] = d
      /\ Far(w.now, d) => r.state[n] = "overflow"
      /\ ~Far(w.now, d) => /\ r.state[n] = "queued" /\ SlotFor(w.now, d) \in Slots
                           /\ On(r.slots[SlotFor(w.now, d)], n)
  BY <1>1, InsertOK
<1>3. w.now \in Nat /\ r.now = w.now
  BY <1>2 DEF WheelOK, Wheels, SameBut
<1>4. CASE Far(w.now, d)
  <2>1. w.now < d
    BY <1>3, <1>4, LevelFacts DEF Far, Delta
  <2>2. r.state[n] = "overflow" /\ \A s \in Slots : ~On(r.slots[s], n)
    BY <1>2, <1>4 DEF WheelOK, Linked
  <2>3. r.now <= r.deadline[n] /\ t < r.deadline[n]
    BY <2>1, <1>2, <1>3
  <2> QED
    BY <1>1, <2>2, <2>3 DEF Timely
<1>5. CASE ~Far(w.now, d)
  <2>1. FiledAt(SlotFor(w.now, d), Later(d, w.now), w.now)
    BY <1>3, <1>5, SlotForOK
  <2>2. FireTime(r, n, t) = Later(d, w.now)
    BY <1>2 DEF FireTime
  <2>3. FiledAt(SlotFor(w.now, d), FireTime(r, n, t), r.now)
    BY <2>1, <2>2, <1>3
  <2> QED
    BY <1>1, <1>2, <1>5, <2>3, QueuedIsTimely
<1> QED
  BY <1>4, <1>5

\* migrate_overflow keeps nodes timely.
LEMMA MigrateTimely ==
  ASSUME NEW w, WheelOK(w), NEW n \in Nodes, NEW t \in Nat, Timely(w, n, t)
  PROVE  Timely(migrate_overflow(w), n, t)
<1>1. PICK r : r = migrate_overflow(w)
  OBVIOUS
<1>2. Migrated(w, Len(w.overflow), r)
  BY <1>1, MigrateOK
<1>3. /\ w \in Wheels /\ Linked(w) /\ WheelOK(r) /\ r.now = w.now
      /\ r.deadline[n] = w.deadline[n] /\ w.now \in Nat /\ w.deadline[n] \in Nat
  BY <1>2 DEF Migrated, WheelOK, Wheels
<1>4. FireTime(r, n, t) = FireTime(w, n, t)
  BY <1>3 DEF FireTime
<1>5. CASE ~MovedBy(w, Len(w.overflow), n)
  <2>1. /\ r.state[n] = w.state[n]
        /\ \A s \in Slots : On(r.slots[s], n) <=> On(w.slots[s], n)
    BY <1>2, <1>5 DEF Migrated
  <2> QED
    BY <2>1, <1>1, <1>3, <1>4 DEF Timely
<1>6. CASE MovedBy(w, Len(w.overflow), n)
  <2>1. PICK j \in 1 .. Len(w.overflow) : w.overflow[j] = n
    BY <1>6 DEF MovedBy
  <2>2. On(w.overflow, n)
    BY <2>1, <1>3, OnList DEF On, Wheels
  <2>3. w.now <= w.deadline[n] /\ t < w.deadline[n]
    BY <2>2, <1>3 DEF Linked, Timely
  <2>4. FireTime(r, n, t) = Later(w.deadline[n], w.now)
    BY <2>3, <1>3, <1>4 DEF FireTime, Later
  <2>5. InRange(w, n)
    BY <1>6 DEF MovedBy
  <2>6. ~Far(w.now, w.deadline[n])
    BY <2>5, <1>3, InRangeIsNear
  <2>7. FiledAt(SlotFor(w.now, w.deadline[n]), Later(w.deadline[n], w.now), w.now)
    BY <2>6, <1>3, SlotForOK
  <2>8. FiledAt(SlotFor(w.now, w.deadline[n]), FireTime(r, n, t), r.now)
    BY <2>4, <2>7, <1>3
  <2>9. /\ r.state[n] = "queued" /\ SlotFor(w.now, w.deadline[n]) \in Slots
        /\ On(r.slots[SlotFor(w.now, w.deadline[n])], n)
    BY <1>2, <1>6 DEF Migrated
  <2> QED
    BY <1>1, <1>3, <2>8, <2>9, QueuedIsTimely
<1> QED
  BY <1>5, <1>6

\* Time may move to any moment before which nothing is due.
LEMMA SetNowTimely ==
  ASSUME NEW w, WheelOK(w), w.processing = <<>>, NEW n \in Nodes, NEW t \in Nat,
         Timely(w, n, t), NoneHidden(w), NEW x \in Nat, w.now <= x,
         x = w.now \/ NothingBefore(w, x)
  PROVE  Timely([w EXCEPT !.now = x], n, t)
<1>1. PICK v : v = [w EXCEPT !.now = x]
  OBVIOUS
<1>2. /\ WheelOK(v) /\ v.now = x /\ v.slots = w.slots /\ v.processing = w.processing
      /\ v.overflow = w.overflow /\ v.state = w.state /\ v.deadline = w.deadline
  BY <1>1, SetNowOK
<1>3. /\ w \in Wheels /\ Linked(w) /\ w.now \in Nat /\ w.deadline[n] \in Nat
      /\ w.overflow \in Seq(Nodes)
  BY DEF WheelOK, Wheels
<1>4. FireTime(v, n, t) = FireTime(w, n, t) /\ FireTime(w, n, t) \in Nat
  BY <1>2, <1>3, LaterFacts DEF FireTime
<1>5. ASSUME NEW s \in Slots, On(v.slots[s], n) PROVE FiledAt(s, FireTime(v, n, t), v.now)
  <2>1. FiledAt(s, FireTime(w, n, t), w.now)
    BY <1>2, <1>5 DEF Timely
  <2>2. w.slots[s] # <<>>
    BY <1>2, <1>5, EmptyList DEF On
  <2>3. s \in Occupied(w)
    BY <2>2 DEF Occupied
  <2>4. Due(w, s) = Start(s.level, FireTime(w, n, t))
    BY <2>1, <1>3, <1>4, SlotDueIsStart DEF Due
  <2>5. PICK b \in Nat, p \in Nat : b = Start(s.level, FireTime(w, n, t)) /\ p = Span(s.level)
    <3>1. s.level \in Levels
      BY DEF Slots
    <3>2. Start(s.level, FireTime(w, n, t)) \in Nat
      BY <3>1, <1>4, StartFacts
    <3>3. Span(s.level) \in Nat
      BY <3>1, LevelFacts
    <3> QED
      BY <3>2, <3>3
  <2>6. w.now <= b /\ b < w.now + p
    BY <2>1, <2>5 DEF FiledAt
  <2>7. x <= b
    BY <2>3, <2>4, <2>5, <2>6 DEF NothingBefore
  <2>8. x <= b /\ b < x + p
    BY <2>6, <2>7, <1>3
  <2> QED
    BY <2>1, <2>5, <2>8, <1>2, <1>4 DEF FiledAt
<1>6. v.state[n] # "processing"
  <2>1. ~On(w.processing, n)
    BY EmptyList DEF On
  <2> QED
    BY <2>1, <1>2, <1>3 DEF Linked
<1>7. ASSUME v.state[n] = "overflow" PROVE v.now <= v.deadline[n] /\ t < v.deadline[n]
  <2>1. w.now <= w.deadline[n] /\ t < w.deadline[n]
    BY <1>2, <1>7 DEF Timely
  <2>2. PICK h \in Nodes : h = Head(w.overflow) /\ w.overflow # <<>>
    <3>1. On(w.overflow, n)
      BY <1>2, <1>3, <1>7 DEF Linked
    <3>2. w.overflow # <<>>
      BY <3>1, EmptyList DEF On
    <3> QED
      BY <3>2, <1>3
  <2>3. PICK e \in Nat, d \in Nat : e = w.deadline[h] /\ d = w.deadline[n]
    BY <1>3 DEF Wheels
  <2>4. e <= d + MaxExactDelay
    BY <2>2, <2>3, <1>2, <1>7 DEF NoneHidden
  <2>5. CASE x = w.now
    BY <2>1, <2>5, <1>2
  <2>6. CASE NothingBefore(w, x)
    <3>1. x <= IF e > MaxExactDelay THEN e - MaxExactDelay ELSE 0
      BY <2>2, <2>3, <2>6 DEF NothingBefore, EntersRangeOf, EntersRange
    <3>2. x <= d
      BY <3>1, <2>4, LevelFacts
    <3> QED
      BY <3>2, <2>1, <2>3, <1>2
  <2> QED
    BY <2>5, <2>6
<1> QED
  BY <1>1, <1>5, <1>6, <1>7 DEF Timely

\* A window that opens is not past the time of any of its nodes.
LEMMA DetachTimely ==
  ASSUME NEW w, WheelOK(w), NEW s \in Slots, NEW n \in Nodes, NEW t \in Nat, Timely(w, n, t)
  PROVE  Timely(detach_slot(w, s), n, t)
<1>1. PICK r : r = detach_slot(w, s)
  OBVIOUS
<1>2. /\ WheelOK(r) /\ r.now = w.now /\ r.deadline = w.deadline /\ r.overflow = w.overflow
      /\ ToSet(r.processing) = ToSet(w.processing) \cup ToSet(w.slots[s])
      /\ \A q \in Slots : ToSet(r.slots[q]) = IF q = s THEN {} ELSE ToSet(w.slots[q])
  BY <1>1, DetachOK, SMTT(30)
<1>3. Linked(w) /\ Linked(r) /\ w.now \in Nat /\ w.deadline[n] \in Nat
  BY <1>2 DEF WheelOK, Wheels
<1>4. FireTime(r, n, t) = FireTime(w, n, t) /\ FireTime(w, n, t) \in Nat
  BY <1>2, <1>3, LaterFacts DEF FireTime
<1>5. ASSUME NEW q \in Slots, On(r.slots[q], n) PROVE FiledAt(q, FireTime(r, n, t), r.now)
  <2>1. On(w.slots[q], n)
    BY <1>2, <1>5 DEF On
  <2> QED
    BY <2>1, <1>2, <1>4 DEF Timely
<1>6. ASSUME r.state[n] = "processing" PROVE r.now <= FireTime(r, n, t)
  <2>1. On(w.processing, n) \/ On(w.slots[s], n)
    BY <1>2, <1>3, <1>6 DEF Linked, On
  <2>2. CASE On(w.processing, n)
    BY <2>2, <1>2, <1>3, <1>4 DEF Timely, Linked
  <2>3. CASE On(w.slots[s], n)
    <3>1. s.level \in Levels
      BY DEF Slots
    <3>2. w.now <= Start(s.level, FireTime(w, n, t))
      BY <2>3 DEF Timely, FiledAt
    <3>3. /\ Start(s.level, FireTime(w, n, t)) \in Nat
          /\ Start(s.level, FireTime(w, n, t)) <= FireTime(w, n, t)
      BY <3>1, <1>4, StartFacts
    <3> QED
      BY <3>2, <3>3, <1>2, <1>3, <1>4
  <2> QED
    BY <2>1, <2>2, <2>3
<1>7. ASSUME r.state[n] = "overflow" PROVE r.now <= r.deadline[n] /\ t < r.deadline[n]
  <2>1. w.state[n] = "overflow"
    BY <1>2, <1>3, <1>7 DEF Linked
  <2> QED
    BY <2>1, <1>2 DEF Timely
<1> QED
  BY <1>1, <1>5, <1>6, <1>7 DEF Timely

-----------------------------------------------------------------------------
(* Every step keeps time.                                                  *)

\* The time invariant holds initially.
LEMMA TimeInit == Init => TimeInv
<1> SUFFICES ASSUME Init PROVE TimeInv
  OBVIOUS
<1>1. /\ wheel.now = 0 /\ clock = 0 /\ target = 0
      /\ \A n \in Nodes : since[n] = 0 /\ wheel.state[n] = "idle"
  BY DEF Init, EmptyWheel
<1>2. WheelOK(wheel)
  BY ListInit DEF ListInv
<1>3. \A n \in Nodes : Timely(wheel, n, since[n])
  BY <1>1, <1>2, IdleIsTimely
<1> QED
  BY <1>1, <1>3 DEF TimeInv, WheelBehindClock

\* next_event finds what is due first, and advance stops when that is past its target.
LEMMA NothingDueAtEnd ==
  ASSUME ListInv, ~EventIsDue
  PROVE  NothingBefore(wheel, target + 1)
<1>1. WheelOK(wheel) /\ wheel \in Wheels /\ target \in Nat
  BY DEF ListInv, WheelOK, SchedulerTypes
<1>2. CASE next_event(wheel) = NoEvent
  BY <1>1, <1>2, NextEventOK DEF NothingBefore
<1>3. CASE next_event(wheel) # NoEvent
  <2>1. PICK d \in Nat : d = next_event(wheel).due /\ NothingBefore(wheel, d)
    BY <1>1, <1>3, NextEventOK
  <2>2. target + 1 <= d
    BY <2>1, <1>1, <1>3 DEF EventIsDue
  <2>3. \A s \in Occupied(wheel) : Due(wheel, s) \in Nat
    BY <1>1, DueType DEF Occupied
  <2>4. wheel.overflow # <<>> => EntersRangeOf(wheel) \in Nat
    BY <1>1, NextEventOK
  <2> QED
    BY <2>1, <2>2, <2>3, <2>4, <1>1 DEF NothingBefore
<1> QED
  BY <1>2, <1>3

\* Every step keeps the time invariant while no far timer hides.
LEMMA TimeNext == ListInv /\ TimeInv /\ NoHiddenOverflow /\ [Next]_vars => TimeInv'
<1> SUFFICES ASSUME ListInv, TimeInv, NoHiddenOverflow, [Next]_vars PROVE TimeInv'
  OBVIOUS
<1>1. /\ WheelOK(wheel) /\ wheel \in Wheels /\ SchedulerTypes /\ Owning
      /\ wheel.now \in Nat /\ clock \in Nat /\ target \in Nat /\ since \in [Nodes -> Nat]
      /\ wheel.deadline \in [Nodes -> Nat] /\ armed \in [Nodes -> BOOLEAN]
  BY DEF ListInv, WheelOK, SchedulerTypes, Wheels
<1>2. /\ WheelBehindClock /\ NoneHidden(wheel)
      /\ \A n \in Nodes : Timely(wheel, n, since[n])
  BY DEF TimeInv, NoHiddenOverflow
<1>3. ASSUME wheel' = wheel, since' = since, clock' = clock, target' = target,
             pc' # "loop" => pc # "loop"
      PROVE  TimeInv'
  BY <1>2, <1>3 DEF TimeInv, WheelBehindClock, Timely, FireTime
<1>4. ASSUME NEW n \in Nodes, cancel(n) PROVE TimeInv'
  <2>1. /\ WheelOK(wheel') /\ SameBut(wheel', wheel, n) /\ wheel'.state[n] = "idle"
        /\ pc' = pc /\ target' = target /\ clock' = clock
        /\ since' = [since EXCEPT ![n] = 0]
    BY <1>1, <1>4, RemoveOK DEF cancel, advancing
  <2>2. WheelBehindClock'
    BY <2>1, <1>1, <1>2 DEF WheelBehindClock, SameBut
  <2>3. ASSUME NEW m \in Nodes PROVE Timely(wheel', m, since'[m])
    <3>1. CASE m = n
      BY <3>1, <2>1, IdleIsTimely
    <3>2. CASE m # n
      <4>1. since'[m] = since[m]
        BY <3>2, <2>1, <1>1
      <4> QED
        BY <4>1, <3>2, <2>1, <1>2, TimelyFrame
    <3> QED
      BY <3>1, <3>2
  <2> QED
    BY <2>2, <2>3 DEF TimeInv
<1>5. ASSUME NEW n \in Nodes, NEW delay \in Delays, schedule_after(n, delay) PROVE TimeInv'
  <2>1. PICK d \in Nat : d = clock + delay
    BY <1>1, DelaysAssumption
  <2>2. /\ wheel' = insert(wheel, n, d)
        /\ pc' = pc /\ target' = target /\ clock' = clock
        /\ since' = [since EXCEPT ![n] = wheel.now]
    BY <2>1, <1>5 DEF schedule_after, advancing
  <2>3. SameBut(wheel', wheel, n)
    BY <2>2, <1>1, InsertOK
  <2>4. WheelBehindClock'
    BY <2>2, <2>3, <1>1, <1>2 DEF WheelBehindClock, SameBut
  <2>5. ASSUME NEW m \in Nodes PROVE Timely(wheel', m, since'[m])
    <3>1. CASE m = n
      <4>1. since'[m] = wheel.now
        BY <3>1, <2>2, <1>1
      <4>2. Timely(wheel', n, wheel.now)
        BY <2>2, <1>1, InsertTimely
      <4> QED
        BY <4>1, <4>2, <3>1
    <3>2. CASE m # n
      <4>1. since'[m] = since[m]
        BY <3>2, <2>2, <1>1
      <4> QED
        BY <4>1, <3>2, <2>3, <1>2, TimelyFrame
    <3> QED
      BY <3>1, <3>2
  <2> QED
    BY <2>4, <2>5 DEF TimeInv
<1>6. CASE ClockTicks
  <2>1. /\ clock' \in Nat /\ clock < clock' /\ wheel' = wheel /\ since' = since
        /\ pc' = pc /\ target' = target
    BY <1>1, <1>6, DelaysAssumption DEF ClockTicks, advancing
  <2>2. WheelBehindClock'
    BY <2>1, <1>1, <1>2 DEF WheelBehindClock
  <2> QED
    BY <2>1, <2>2, <1>2 DEF TimeInv, Timely, FireTime
\* A migration at an unchanged time.
<1>7. ASSUME NEW w, WheelOK(w), w.processing = <<>>, wheel' = migrate_overflow(w),
             \A n \in Nodes : Timely(w, n, since[n]), since' = since, clock' = clock,
             w.now \in Nat, wheel.now <= w.now, w.now <= target', target' <= clock,
             target' \in Nat
      PROVE  TimeInv'
  <2>1. wheel'.now = w.now
    BY <1>7, MigrateKeeps
  <2>2. \A n \in Nodes : Timely(wheel', n, since'[n])
    BY <1>1, <1>7, MigrateTimely
  <2>3. WheelBehindClock'
    BY <2>1, <1>1, <1>2, <1>7 DEF WheelBehindClock
  <2> QED
    BY <2>2, <2>3 DEF TimeInv
<1>8. CASE TickBegins
  BY <1>1, <1>2, <1>7, <1>8 DEF TickBegins, Owning, WheelBehindClock
<1>9. CASE SlotDone
  BY <1>1, <1>2, <1>7, <1>9 DEF SlotDone, WheelBehindClock
<1>10. CASE TickEnds
  <2>1. PICK x \in Nat : x = NextNow(target)
    BY <1>1 DEF NextNow
  <2>2. /\ wheel' = [wheel EXCEPT !.now = x] /\ pc = "advance" /\ pc' = "loop"
        /\ target' = target /\ clock' = clock /\ since' = since /\ ~EventIsDue
    BY <2>1, <1>10 DEF TickEnds, NextNow
  <2>3. wheel.processing = <<>> /\ wheel.now <= target
    BY <2>2, <1>1, <1>2 DEF Owning, WheelBehindClock
  <2>4. x = target
    BY <2>1, <2>3, <1>1 DEF NextNow
  <2>5. NothingBefore(wheel, x)
    <3>1. \A s \in Occupied(wheel) : Due(wheel, s) \in Nat
      BY <1>1, DueType DEF Occupied
    <3>2. wheel.overflow # <<>> => EntersRangeOf(wheel) \in Nat
      BY <1>1, NextEventOK
    <3> QED
      BY <3>1, <3>2, <2>2, <2>4, <1>1, NothingDueAtEnd DEF NothingBefore
  <2>6. \A n \in Nodes : Timely(wheel', n, since'[n])
    BY <2>1, <2>2, <2>3, <2>4, <2>5, <1>1, <1>2, SetNowTimely
  <2>7. wheel'.now = x
    BY <2>2, <1>1, SetNowOK
  <2>8. WheelBehindClock'
    BY <2>2, <2>3, <2>4, <2>7, <1>1, <1>2 DEF WheelBehindClock
  <2> QED
    BY <2>6, <2>8 DEF TimeInv
<1>11. CASE AdvanceEvent
  <2>1. PICK event : event = next_event(wheel)
    OBVIOUS
  <2>2. /\ pc = "advance" /\ event # NoEvent /\ event.due <= target
        /\ clock' = clock /\ target' = target /\ since' = since
    BY <2>1, <1>11 DEF AdvanceEvent, EventIsDue
  <2>3. /\ event.due \in Nat /\ NothingBefore(wheel, event.due)
        /\ event.kind = "slot" => event.slot \in Occupied(wheel)
    BY <2>1, <2>2, <1>1, NextEventOK
  <2>4. PICK x \in Nat : x = NextNow(event.due)
    BY <2>3, <1>1 DEF NextNow
  <2>5. PICK w : w = [wheel EXCEPT !.now = x]
    OBVIOUS
  <2>6. wheel.processing = <<>> /\ wheel.now <= target
    BY <2>2, <1>1, <1>2 DEF Owning, WheelBehindClock
  <2>7. WheelOK(w) /\ w.processing = <<>> /\ w.now = x
    BY <2>5, <2>6, <1>1, SetNowOK
  <2>8. wheel.now <= x /\ x <= target /\ (x = wheel.now \/ NothingBefore(wheel, x))
    BY <2>2, <2>3, <2>4, <2>6, <1>1 DEF NextNow
  <2>9. \A n \in Nodes : Timely(w, n, since[n])
    BY <2>5, <2>6, <2>8, <1>1, <1>2, SetNowTimely
  <2>10. \/ wheel' = migrate_overflow(w)
         \/ event.kind = "slot" /\ wheel' = detach_slot(w, event.slot)
    BY <2>1, <2>4, <2>5, <1>11 DEF AdvanceEvent, NextNow
  <2>11. target <= clock
    BY <1>2 DEF WheelBehindClock
  <2>12. CASE wheel' = migrate_overflow(w)
    BY <2>2, <2>7, <2>8, <2>9, <2>11, <2>12, <1>1, <1>7
  <2>13. CASE event.kind = "slot" /\ wheel' = detach_slot(w, event.slot)
    <3>1. event.slot \in Slots
      BY <2>3, <2>13 DEF Occupied
    <3>2. wheel'.now = x
      BY <3>1, <2>7, <2>13, DetachOK
    <3>3. \A n \in Nodes : Timely(wheel', n, since'[n])
      BY <3>1, <2>2, <2>7, <2>9, <2>13, <1>1, DetachTimely
    <3>4. WheelBehindClock'
      BY <3>2, <2>2, <2>8, <2>11, <1>1, <1>2 DEF WheelBehindClock
    <3> QED
      BY <3>3, <3>4 DEF TimeInv
  <2> QED
    BY <2>10, <2>12, <2>13
<1>12. CASE Refile
  <2>1. PICK n, w : n = Head(wheel.processing) /\ w = take_head(wheel)
    OBVIOUS
  <2>2. /\ wheel.processing # <<>> /\ pc = "expire" /\ pc' = pc /\ target' = target
        /\ wheel.deadline[n] > wheel.now /\ wheel' = insert(w, n, wheel.deadline[n])
        /\ clock' = clock /\ since' = since
    BY <2>1, <1>12 DEF Refile, advancing
  <2>3. n \in Nodes /\ WheelOK(w) /\ SameBut(w, wheel, n)
    BY <2>1, <2>2, <1>1, TakeHeadOK
  <2>4. PICK d \in Nat, t \in Nat : d = wheel.deadline[n] /\ t = since[n]
    BY <2>3, <1>1
  <2>5. SameBut(wheel', w, n)
    BY <2>2, <2>3, <2>4, InsertOK
  <2>6. w.now = wheel.now /\ wheel'.now = wheel.now
    BY <2>3, <2>5 DEF SameBut
  <2>7. t <= w.now /\ Later(d, t) = Later(d, w.now)
    BY <2>2, <2>3, <2>4, <2>6, <1>1, <1>2 DEF WheelBehindClock, Later
  <2>8. Timely(wheel', n, since'[n])
    BY <2>2, <2>3, <2>4, <2>7, InsertTimely
  <2>9. ASSUME NEW m \in Nodes, m # n PROVE Timely(wheel', m, since'[m])
    <3>1. Timely(w, m, since[m])
      BY <2>3, <2>9, <1>2, TimelyFrame
    <3>2. Timely(wheel', m, since[m])
      BY <3>1, <2>5, <2>9, TimelyFrame
    <3> QED
      BY <3>2, <2>2
  <2>10. WheelBehindClock'
    BY <2>2, <2>6, <1>1, <1>2 DEF WheelBehindClock
  <2> QED
    BY <2>8, <2>9, <2>10 DEF TimeInv
<1>13. CASE Fire
  <2>1. PICK n : n = Head(wheel.processing)
    OBVIOUS
  <2>2. /\ wheel.processing # <<>> /\ pc = "expire" /\ wheel' = take_head(wheel)
        /\ since' = [since EXCEPT ![n] = 0] /\ clock' = clock /\ target' = target
    BY <2>1, <1>13 DEF Fire
  <2>3. /\ n \in Nodes /\ WheelOK(wheel') /\ SameBut(wheel', wheel, n)
        /\ wheel'.state[n] = "idle"
    BY <2>1, <2>2, <1>1, TakeHeadOK
  <2>4. ASSUME NEW m \in Nodes PROVE Timely(wheel', m, since'[m])
    <3>1. CASE m = n
      BY <3>1, <2>3, IdleIsTimely
    <3>2. CASE m # n
      <4>1. since'[m] = since[m]
        BY <3>2, <2>2, <1>1
      <4> QED
        BY <4>1, <3>2, <2>3, <1>2, TimelyFrame
    <3> QED
      BY <3>1, <3>2
  <2>5. WheelBehindClock'
    BY <2>2, <2>3, <1>1, <1>2 DEF WheelBehindClock, SameBut
  <2> QED
    BY <2>4, <2>5 DEF TimeInv
<1>14. CASE CallbackReturns \/ start \/ stop \/ TickFails \/ TickStops \/ UNCHANGED vars
  BY <1>3, <1>14 DEF CallbackReturns, start, stop, TickFails, TickStops, vars, advancing
<1> QED
  BY <1>4, <1>5, <1>6, <1>8, <1>9, <1>10, <1>11, <1>12, <1>13, <1>14 DEF Next, TickStep

-----------------------------------------------------------------------------
(* What the invariants say of the steps that fire and of the end of a tick. *)

\* A window opens at or before the time of its nodes; what fires then is due.
LEMMA FireIsOnTime ==
  ASSUME ListInv, TimeInv, [Next]_vars, pc = "expire", pc' = "callback"
  PROVE  wheel.now = FireTime(wheel, Head(wheel.processing), since[Head(wheel.processing)])
<1>1. Fire
  BY DEF Next, TickStep, start, stop, cancel, schedule_after, ClockTicks, TickFails,
         TickStops, TickBegins, AdvanceEvent, Refile, CallbackReturns, SlotDone, TickEnds,
         vars, advancing
<1>2. PICK n : n = Head(wheel.processing)
  OBVIOUS
<1>3. wheel.processing # <<>> /\ wheel.deadline[n] <= wheel.now
  BY <1>1, <1>2 DEF Fire
<1>4. WheelOK(wheel) /\ wheel \in Wheels
  BY DEF ListInv, WheelOK
<1>5. n \in Nodes /\ On(wheel.processing, n)
  BY <1>2, <1>3, <1>4, TakeHeadOK
<1>6. wheel.state[n] = "processing"
  BY <1>4, <1>5 DEF WheelOK, Linked
<1>7. PICK d \in Nat, t \in Nat : d = wheel.deadline[n] /\ t = since[n]
  BY <1>4, <1>5 DEF Wheels, ListInv, SchedulerTypes
<1>8. wheel.now \in Nat /\ t <= wheel.now /\ wheel.now <= Later(d, t)
  BY <1>4, <1>5, <1>6, <1>7 DEF TimeInv, WheelBehindClock, Timely, FireTime, Wheels
<1>9. wheel.now = Later(d, t)
  BY <1>3, <1>7, <1>8 DEF Later
<1> QED
  BY <1>2, <1>7, <1>9 DEF FireTime

\* When advance has nothing left to do, every owned node is due after its target.
LEMMA EndLeavesNothingDue ==
  ASSUME ListInv, TimeInv, NoHiddenOverflow, pc = "advance", ~EventIsDue,
         NEW n \in Nodes, armed[n]
  PROVE  wheel.deadline[n] > target
<1>1. /\ WheelOK(wheel) /\ wheel \in Wheels /\ Linked(wheel) /\ target \in Nat
      /\ wheel.now \in Nat /\ wheel.processing = <<>> /\ wheel.state[n] # "idle"
  BY DEF ListInv, WheelOK, SchedulerTypes, Owning, Wheels
<1>2. PICK d \in Nat, t \in Nat : d = wheel.deadline[n] /\ t = since[n]
  BY <1>1 DEF Wheels, ListInv, SchedulerTypes
<1>3. t <= target
  BY <1>1, <1>2 DEF TimeInv, WheelBehindClock
<1>4. NothingBefore(wheel, target + 1)
  BY NothingDueAtEnd
<1>5. Timely(wheel, n, t)
  BY <1>2 DEF TimeInv
<1>6. wheel.state[n] \in {"queued", "overflow"}
  <2>1. ~On(wheel.processing, n)
    BY <1>1, EmptyList DEF On
  <2>2. wheel.state[n] \in NodeStates
    BY <1>1 DEF Wheels
  <2> QED
    BY <2>1, <2>2, <1>1 DEF Linked, NodeStates
<1>7. CASE wheel.state[n] = "queued"
  <2>1. PICK s \in Slots : On(wheel.slots[s], n)
    BY <1>1, <1>7 DEF Linked
  <2>2. wheel.slots[s] # <<>>
    BY <2>1, EmptyList DEF On
  <2>3. PICK u \in Nat : u = FireTime(wheel, n, t) /\ u = Later(d, t)
    BY <1>2, LaterFacts DEF FireTime
  <2>4. FiledAt(s, u, wheel.now)
    BY <2>1, <2>3, <1>5 DEF Timely
  <2>5. Due(wheel, s) = Start(s.level, u)
    BY <2>3, <2>4, <1>1, SlotDueIsStart DEF Due
  <2>6. target + 1 <= Due(wheel, s)
    BY <2>2, <1>4 DEF NothingBefore, Occupied
  <2>7. s.level \in Levels
    BY DEF Slots
  <2>8. Start(s.level, u) \in Nat /\ Start(s.level, u) <= u
    BY <2>3, <2>7, StartFacts
  <2>9. target + 1 <= u
    BY <2>3, <2>5, <2>6, <2>8, <1>1
  <2> QED
    BY <2>3, <2>9, <1>1, <1>2, <1>3 DEF Later
<1>8. CASE wheel.state[n] = "overflow"
  <2>1. wheel.overflow \in Seq(Nodes) /\ On(wheel.overflow, n)
    BY <1>1, <1>8 DEF Linked, Wheels
  <2>2. wheel.overflow # <<>>
    BY <2>1, EmptyList DEF On
  <2>3. PICK h \in Nodes : h = Head(wheel.overflow)
    BY <2>1, <2>2
  <2>4. PICK e \in Nat : e = wheel.deadline[h]
    BY <1>1 DEF Wheels
  <2>5. e <= d + MaxExactDelay
    BY <2>3, <2>4, <1>2, <1>8 DEF NoHiddenOverflow, NoneHidden
  <2>6. target + 1 <= IF e > MaxExactDelay THEN e - MaxExactDelay ELSE 0
    BY <2>2, <2>3, <2>4, <1>4 DEF NothingBefore, EntersRangeOf, EntersRange
  <2> QED
    BY <2>5, <2>6, <1>1, <1>2, LevelFacts
<1> QED
  BY <1>6, <1>7, <1>8

(* While no far timer hides behind the head of the overflow list, no node  *)
(* is ever late: a window opens at or before the time of its nodes.        *)
THEOREM NodesAreTimely == Spec /\ []NoHiddenOverflow => []TimeInv
<1>1. Init => TimeInv
  BY TimeInit
<1>2. ListInv /\ TimeInv /\ NoHiddenOverflow /\ [Next]_vars => TimeInv'
  BY TimeNext
<1> QED
  BY <1>1, <1>2, ListsInOrder, PTL DEF Spec

(* Then every timer fires at its exact deadline, or at the time it was     *)
(* scheduled when that was later.                                          *)
THEOREM TimersFireOnTime == Spec /\ []NoHiddenOverflow => FiresOnTime
<1> DEFINE Exact == pc = "expire" /\ pc' = "callback" =>
             LET n == Head(wheel.processing)
             IN  wheel.now = IF wheel.deadline[n] > since[n] THEN wheel.deadline[n]
                                                             ELSE since[n]
<1>1. ListInv /\ TimeInv /\ [Next]_vars => [Exact]_vars
  BY FireIsOnTime DEF FireTime, Later
<1>2. [][Exact]_vars => FiresOnTime
  BY DEF FiresOnTime
<1> HIDE DEF Exact
<1> QED
  BY <1>1, <1>2, ListsInOrder, NodesAreTimely, PTL DEF Spec

(* And advance returns only when nothing is left that was due by its       *)
(* target, as its comment says.                                            *)
THEOREM TicksLeaveNothingDue == Spec /\ []NoHiddenOverflow => NothingDueIsLeft
<1> DEFINE Left == pc = "advance" /\ pc' = "loop"
             => \A n \in Nodes : armed[n] => wheel.deadline[n] > target
<1>1. ListInv /\ TimeInv /\ NoHiddenOverflow /\ [Next]_vars => [Left]_vars
  <2> SUFFICES ASSUME ListInv, TimeInv, NoHiddenOverflow, [Next]_vars,
                      pc = "advance", pc' = "loop", NEW n \in Nodes, armed[n]
               PROVE  wheel.deadline[n] > target
    OBVIOUS
  <2>1. TickEnds
    BY DEF Next, TickStep, start, stop, cancel, schedule_after, ClockTicks, TickFails,
           TickStops, TickBegins, AdvanceEvent, Refile, Fire, CallbackReturns, SlotDone,
           vars, advancing
  <2> QED
    BY <2>1, EndLeavesNothingDue DEF TickEnds
<1>2. [][Left]_vars => NothingDueIsLeft
  BY DEF NothingDueIsLeft
<1> HIDE DEF Left
<1> QED
  BY <1>1, <1>2, ListsInOrder, NodesAreTimely, PTL DEF Spec

-----------------------------------------------------------------------------
(* When no timer can hide.                                                 *)

\* How far past the wheel's time a deadline may be: two exact ranges.
Reach == 2 * MaxExactDelay + 1

(* No request asks for a deadline more than two exact ranges (37 hours in  *)
(* the code) past the wheel's time.                                        *)
RequestsInReach ==
  \A delay \in Delays : clock + delay <= MaxTime => clock + delay <= wheel.now + Reach

\* No owned node is further away, and the overflow list is in order, up to an exact range.
Within(w) == \A n \in Nodes : w.state[n] # "idle" => w.deadline[n] <= w.now + Reach
Spaced(w) ==
  \A x, y \in Nodes : Ahead(w.overflow, x, y) => w.deadline[x] <= w.deadline[y] + MaxExactDelay

InReach(w) == Within(w) /\ Spaced(w)
ReachInv == InReach(wheel)

\* remove keeps the overflow list within reach.
LEMMA RemoveReach ==
  ASSUME NEW w, WheelOK(w), InReach(w), NEW n \in Nodes
  PROVE  InReach(remove(w, n))
<1>1. PICK v : v = remove(w, n)
  OBVIOUS
<1>2. CASE w.state[n] = "idle"
  BY <1>2 DEF remove
<1>3. CASE w.state[n] # "idle"
  <2>1. w \in Wheels /\ w.overflow \in Seq(Nodes)
    BY DEF WheelOK, Wheels
  <2>2. SameBut(v, w, n) /\ v.state[n] = "idle" /\ v.deadline = w.deadline
    BY <1>1, RemoveOK
  <2>3. v.overflow = w.overflow \/ v.overflow = RemoveFirst(w.overflow, n)
    <3>1. v = [now |-> w.now,
               slots |-> IF w.state[n] = "queued" THEN unlink_slot(w.slots, n) ELSE w.slots,
               processing |-> IF w.state[n] = "processing" THEN RemoveFirst(w.processing, n)
                              ELSE w.processing,
               overflow |-> IF w.state[n] = "overflow" THEN RemoveFirst(w.overflow, n)
                            ELSE w.overflow,
               count |-> w.count - 1,
               state |-> [w.state EXCEPT ![n] = "idle"],
               deadline |-> w.deadline]
      BY <1>1, <1>3, <2>1, RemoveFields
    <3> QED
      BY <3>1
  <2>4. \A x, y \in Nodes : Ahead(v.overflow, x, y) => Ahead(w.overflow, x, y)
    BY <2>1, <2>3, RemoveKeepsOrder
  <2>5. Spaced(v)
    BY <2>2, <2>4 DEF InReach, Spaced
  <2>6. Within(v)
    BY <2>2 DEF InReach, Within, SameBut
  <2> QED
    BY <1>1, <2>5, <2>6 DEF InReach
<1> QED
  BY <1>2, <1>3

\* What goes to the end of the overflow list is past the exact range; nobody is past two.
LEMMA InsertReach ==
  ASSUME NEW w, WheelOK(w), InReach(w), NEW n \in Nodes, NEW d \in Nat, d <= w.now + Reach
  PROVE  InReach(insert(w, n, d))
<1>1. PICK v, r : v = remove(w, n) /\ r = insert(w, n, d)
  OBVIOUS
<1>2. WheelOK(v) /\ SameBut(v, w, n) /\ v.state[n] = "idle" /\ InReach(v)
  BY <1>1, RemoveOK, RemoveReach
<1>3. /\ v \in Wheels /\ Linked(v) /\ v.now = w.now /\ v.now \in Nat
      /\ v.overflow \in Seq(Nodes) /\ v.deadline \in [Nodes -> Nat]
      /\ v.state \in [Nodes -> NodeStates]
  BY <1>2 DEF WheelOK, SameBut, Wheels
<1>4. PICK far \in BOOLEAN : far <=> Far(v.now, d)
  OBVIOUS
<1>5. /\ r.now = v.now /\ r.overflow = IF far THEN Append(v.overflow, n) ELSE v.overflow
      /\ r.state = [v.state EXCEPT ![n] = IF far THEN "overflow" ELSE "queued"]
      /\ r.deadline = [v.deadline EXCEPT ![n] = d]
  <2>1. PICK at : at = SlotFor(v.now, d)
    OBVIOUS
  <2>2. r = [now |-> v.now,
             slots |-> IF Far(v.now, d) THEN v.slots
                       ELSE [v.slots EXCEPT ![at] = Append(v.slots[at], n)],
             processing |-> v.processing,
             overflow |-> IF Far(v.now, d) THEN Append(v.overflow, n) ELSE v.overflow,
             count |-> v.count + 1,
             state |-> [v.state EXCEPT ![n] = IF Far(v.now, d) THEN "overflow" ELSE "queued"],
             deadline |-> [v.deadline EXCEPT ![n] = d]]
    BY <2>1, <1>1, <1>3, InsertFields, SMTT(30)
  <2> QED
    BY <2>2, <1>4
<1>6. /\ r.deadline[n] = d
      /\ \A m \in Nodes : m # n => r.deadline[m] = v.deadline[m] /\ r.state[m] = v.state[m]
  BY <1>3, <1>5
<1>7. n \notin ToSet(v.overflow)
  BY <1>2, <1>3 DEF Linked, On
<1>8. Within(r)
  BY <1>2, <1>3, <1>5, <1>6 DEF InReach, Within
<1>9. ASSUME NEW x \in Nodes, NEW y \in Nodes, Ahead(r.overflow, x, y)
      PROVE  r.deadline[x] <= r.deadline[y] + MaxExactDelay
  <2>1. CASE Ahead(v.overflow, x, y)
    <3>1. x # n /\ y # n
      BY <2>1, <1>3, <1>7, AheadOnList
    <3> QED
      BY <3>1, <2>1, <1>2, <1>6 DEF InReach, Spaced
  <2>2. CASE ~Ahead(v.overflow, x, y)
    <3>1. far
      BY <2>2, <1>5, <1>9
    <3>2. y = n /\ x \in ToSet(v.overflow)
      BY <3>1, <2>2, <1>3, <1>5, <1>9, AppendKeepsOrder
    <3>3. v.state[x] = "overflow" /\ x # n
      BY <3>2, <1>3, <1>7 DEF Linked, On
    <3>4. PICK e \in Nat : e = v.deadline[x] /\ e <= v.now + Reach
      BY <3>3, <1>2, <1>3 DEF InReach, Within
    <3>5. d > v.now + MaxExactDelay
      BY <3>1, <1>3, <1>4, LevelFacts DEF Far, Delta
    <3>6. e <= d + MaxExactDelay
      BY <3>4, <3>5, <1>3, LevelFacts DEF Reach
    <3> QED
      BY <3>2, <3>3, <3>4, <3>6, <1>6
  <2> QED
    BY <2>1, <2>2
<1> QED
  BY <1>1, <1>8, <1>9 DEF InReach, Spaced

\* migrate_overflow keeps the overflow list within reach.
LEMMA MigrateReach ==
  ASSUME NEW w, WheelOK(w), InReach(w)
  PROVE  InReach(migrate_overflow(w))
<1>1. PICK f : f = (CHOOSE g : IsMigration(w, g))
  OBVIOUS
<1>2. IsMigration(w, f)
  BY <1>1, MigrationExists, Zenon
<1>3. migrate_overflow(w) = f[Len(w.overflow)]
  BY <1>1, Zenon DEF migrate_overflow, IsMigration, MigrateStep, InRange
<1>4. /\ w \in Wheels /\ w.overflow \in Seq(Nodes) /\ w.now \in Nat
      /\ \A m \in Nodes : w.deadline[m] \in Nat
  BY DEF WheelOK, Wheels
<1>5. PICK N \in Nat : N = Len(w.overflow)
  BY <1>4
<1>6. f[0] = w /\ \A k \in 1 .. N : f[k] = MigrateStep(w, f[k - 1], w.overflow[k])
  BY <1>2, <1>5 DEF IsMigration
<1> DEFINE T == {k \in 0 .. N : WheelOK(f[k]) /\ InReach(f[k]) /\ f[k].now = w.now}
<1>7. 0 \in T
  BY <1>6
<1>8. ASSUME NEW k \in 1 .. N, k - 1 \in T PROVE k \in T
  <2>1. PICK v : v = f[k - 1] /\ WheelOK(v) /\ InReach(v) /\ v.now = w.now
    BY <1>8
  <2>2. PICK n \in Nodes : n = w.overflow[k]
    BY <1>4, <1>5
  <2>3. f[k] = MigrateStep(w, v, n)
    BY <2>1, <2>2, <1>6
  <2>4. CASE ~InRange(w, n)
    BY <2>1, <2>3, <2>4 DEF MigrateStep
  <2>5. CASE InRange(w, n)
    <3>1. PICK d \in Nat : d = w.deadline[n] /\ f[k] = insert(v, n, d)
      BY <2>3, <2>5, <1>4 DEF MigrateStep
    <3>2. d <= v.now + Reach
      BY <3>1, <2>1, <2>5, <1>4, LevelFacts DEF InRange, Reach
    <3>3. InReach(f[k]) /\ WheelOK(f[k]) /\ SameBut(f[k], v, n)
      BY <3>1, <3>2, <2>1, InsertReach, InsertOK, SMTT(30)
    <3> QED
      BY <3>3, <2>1 DEF SameBut
  <2> QED
    BY <2>4, <2>5
<1> HIDE DEF T
<1>9. \A k \in 0 .. N : k \in T
  BY <1>7, <1>8, UpTo, Zenon
<1>10. N \in T
  BY <1>9
<1> QED
  BY <1>3, <1>5, <1>10 DEF T

\* Other steps only let time pass or take nodes off the other lists.
LEMMA LaterReach ==
  ASSUME NEW w \in Wheels, NEW v \in Wheels, InReach(w), w.now <= v.now,
         v.overflow = w.overflow, v.deadline = w.deadline,
         \A n \in Nodes : v.state[n] # "idle" => w.state[n] # "idle"
  PROVE  InReach(v)
<1>1. Spaced(v)
  BY DEF InReach, Spaced
<1>2. ASSUME NEW n \in Nodes, v.state[n] # "idle" PROVE v.deadline[n] <= v.now + Reach
  <2>1. w.deadline[n] \in Nat /\ w.now \in Nat /\ v.now \in Nat /\ Reach \in Nat
    BY LevelFacts DEF Wheels, Reach
  <2>2. w.deadline[n] <= w.now + Reach
    BY <1>2 DEF InReach, Within
  <2> QED
    BY <2>1, <2>2
<1> QED
  BY <1>1, <1>2 DEF InReach, Within

\* Taking the head keeps the overflow list within reach.
LEMMA TakeHeadReach ==
  ASSUME NEW w, WheelOK(w), InReach(w), w.processing # <<>>
  PROVE  InReach(take_head(w))
<1>1. PICK r, n : r = take_head(w) /\ n = Head(w.processing)
  OBVIOUS
<1>2. /\ WheelOK(r) /\ SameBut(r, w, n) /\ r.state[n] = "idle" /\ r.deadline = w.deadline
  BY <1>1, TakeHeadOK
<1>3. w \in Wheels /\ r \in Wheels /\ w.now \in Nat /\ r.now = w.now
  BY <1>2 DEF WheelOK, Wheels, SameBut
<1>4. r.overflow = w.overflow
  <2>1. r = [now |-> w.now, slots |-> w.slots, processing |-> Tail(w.processing),
             overflow |-> w.overflow, count |-> w.count - 1,
             state |-> [w.state EXCEPT ![Head(w.processing)] = "idle"],
             deadline |-> w.deadline]
    BY <1>1, <1>3, TakeHeadFields
  <2> QED
    BY <2>1
<1> QED
  BY <1>1, <1>2, <1>3, <1>4, LaterReach DEF SameBut

\* The overflow list is within reach initially.
LEMMA ReachInit == Init => ReachInv
<1> SUFFICES ASSUME Init PROVE ReachInv
  OBVIOUS
<1>1. wheel.overflow = <<>> /\ \A n \in Nodes : wheel.state[n] = "idle"
  BY DEF Init, EmptyWheel
<1>2. \A x, y \in Nodes : ~Ahead(wheel.overflow, x, y)
  BY <1>1 DEF Ahead
<1> QED
  BY <1>1, <1>2 DEF ReachInv, InReach, Within, Spaced

\* Every step keeps the overflow list within reach while requests are.
LEMMA ReachNext == ListInv /\ ReachInv /\ RequestsInReach /\ [Next]_vars => ReachInv'
<1> SUFFICES ASSUME ListInv, ReachInv, RequestsInReach, [Next]_vars PROVE ReachInv'
  OBVIOUS
<1>1. /\ WheelOK(wheel) /\ wheel \in Wheels /\ InReach(wheel) /\ wheel.now \in Nat
      /\ clock \in Nat /\ target \in Nat
  BY DEF ListInv, ReachInv, WheelOK, Wheels, SchedulerTypes
<1>2. ASSUME NEW n \in Nodes, cancel(n) PROVE ReachInv'
  BY <1>1, <1>2, RemoveReach DEF cancel, ReachInv
<1>3. ASSUME NEW n \in Nodes, NEW delay \in Delays, schedule_after(n, delay) PROVE ReachInv'
  <2>1. clock + delay \in Nat /\ clock + delay <= wheel.now + Reach
    BY <1>1, <1>3, DelaysAssumption DEF RequestsInReach, schedule_after
  <2> QED
    BY <2>1, <1>1, <1>3, InsertReach DEF schedule_after, ReachInv
<1>4. CASE TickBegins \/ SlotDone
  BY <1>1, <1>4, MigrateReach DEF TickBegins, SlotDone, ReachInv
<1>5. ASSUME NEW x \in Nat, wheel.now <= x
      PROVE  LET w == [wheel EXCEPT !.now = x] IN WheelOK(w) /\ InReach(w)
  <2>1. PICK w : w = [wheel EXCEPT !.now = x]
    OBVIOUS
  <2>2. /\ WheelOK(w) /\ w \in Wheels /\ w.now = x /\ w.overflow = wheel.overflow
        /\ w.deadline = wheel.deadline /\ w.state = wheel.state
    BY <2>1, <1>1, SetNowOK DEF WheelOK
  <2>3. InReach(w)
    BY <2>2, <1>1, <1>5, LaterReach
  <2> QED
    BY <2>1, <2>2, <2>3
<1>6. \A t \in Nat : NextNow(t) \in Nat /\ wheel.now <= NextNow(t)
  BY <1>1 DEF NextNow
<1>7. CASE TickEnds
  <2>1. wheel' = [wheel EXCEPT !.now = NextNow(target)]
    BY <1>7 DEF TickEnds, NextNow
  <2> QED
    BY <2>1, <1>1, <1>5, <1>6 DEF ReachInv
<1>8. CASE AdvanceEvent
  <2>1. PICK event : event = next_event(wheel)
    OBVIOUS
  <2>2. event # NoEvent
    BY <2>1, <1>8 DEF AdvanceEvent, EventIsDue
  <2>3. event.due \in Nat /\ (event.kind = "slot" => event.slot \in Slots)
    BY <2>1, <2>2, <1>1, NextEventOK DEF Occupied
  <2>4. PICK w : w = [wheel EXCEPT !.now = NextNow(event.due)]
    OBVIOUS
  <2>5. WheelOK(w) /\ InReach(w)
    BY <2>3, <2>4, <1>5, <1>6
  <2>6. \/ wheel' = migrate_overflow(w)
        \/ event.kind = "slot" /\ wheel' = detach_slot(w, event.slot)
    BY <2>1, <2>4, <1>8 DEF AdvanceEvent, NextNow
  <2>7. CASE wheel' = migrate_overflow(w)
    BY <2>5, <2>7, MigrateReach DEF ReachInv
  <2>8. CASE event.kind = "slot" /\ wheel' = detach_slot(w, event.slot)
    <3>1. /\ WheelOK(wheel') /\ wheel'.now = w.now /\ wheel'.deadline = w.deadline
          /\ wheel'.overflow = w.overflow /\ OwnedBy(wheel') = OwnedBy(w)
      BY <2>3, <2>5, <2>8, DetachOK
    <3>2. /\ w \in Wheels /\ wheel' \in Wheels /\ w.now \in Nat
          /\ \A n \in Nodes : wheel'.state[n] # "idle" => w.state[n] # "idle"
      BY <3>1, <2>5 DEF WheelOK, Wheels, OwnedBy
    <3> QED
      BY <3>1, <3>2, <2>5, LaterReach DEF ReachInv
  <2> QED
    BY <2>6, <2>7, <2>8
<1>9. CASE Refile
  <2>1. PICK n, w : n = Head(wheel.processing) /\ w = take_head(wheel)
    OBVIOUS
  <2>2. wheel.processing # <<>> /\ wheel' = insert(w, n, wheel.deadline[n])
    BY <2>1, <1>9 DEF Refile
  <2>3. /\ n \in Nodes /\ On(wheel.processing, n) /\ WheelOK(w) /\ SameBut(w, wheel, n)
        /\ InReach(w)
    BY <2>1, <2>2, <1>1, TakeHeadOK, TakeHeadReach
  <2>4. PICK d \in Nat : d = wheel.deadline[n]
    BY <2>3, <1>1 DEF Wheels
  <2>5. wheel.state[n] = "processing"
    BY <2>3, <1>1 DEF WheelOK, Linked
  <2>6. d <= w.now + Reach
    BY <2>3, <2>4, <2>5, <1>1 DEF InReach, Within, SameBut
  <2> QED
    BY <2>2, <2>3, <2>4, <2>6, InsertReach DEF ReachInv
<1>10. CASE Fire
  BY <1>1, <1>10, TakeHeadReach DEF Fire, ReachInv
<1>11. CASE wheel' = wheel
  BY <1>1, <1>11 DEF ReachInv
<1> QED
  BY <1>2, <1>3, <1>4, <1>7, <1>8, <1>9, <1>10, <1>11
  DEF Next, TickStep, start, stop, ClockTicks, TickFails, TickStops, CallbackReturns, vars

\* Within reach no far timer hides.
LEMMA ReachHidesNone == ListInv /\ ReachInv => NoHiddenOverflow
<1> SUFFICES ASSUME ListInv, ReachInv, NEW n \in Nodes, wheel.state[n] = "overflow"
             PROVE  wheel.deadline[Head(wheel.overflow)] <= wheel.deadline[n] + MaxExactDelay
  BY DEF NoHiddenOverflow, NoneHidden
<1>1. /\ wheel \in Wheels /\ Linked(wheel) /\ wheel.overflow \in Seq(Nodes)
      /\ wheel.deadline \in [Nodes -> Nat]
  BY DEF ListInv, WheelOK, Wheels
<1>2. n \in ToSet(wheel.overflow)
  BY <1>1 DEF Linked, On
<1>3. PICK k \in 1 .. Len(wheel.overflow) : wheel.overflow[k] = n
  BY <1>1, <1>2, OnList
<1>4. PICK h \in Nodes : h = Head(wheel.overflow) /\ h = wheel.overflow[1]
  BY <1>1, <1>3
<1>5. CASE k = 1
  BY <1>1, <1>3, <1>4, <1>5, LevelFacts
<1>6. CASE k # 1
  <2>1. 1 \in 1 .. Len(wheel.overflow) /\ 1 < k
    BY <1>1, <1>3, <1>6
  <2>2. Ahead(wheel.overflow, h, n)
    BY <2>1, <1>3, <1>4 DEF Ahead
  <2> QED
    BY <2>2, <1>4 DEF ReachInv, InReach, Spaced
<1> QED
  BY <1>5, <1>6

(* No timer hides in the overflow list as long as no request asks for a    *)
(* deadline more than two exact ranges past the wheel's time.              *)
THEOREM NearRequestsHideNone == Spec /\ []RequestsInReach => []NoHiddenOverflow
<1>1. Init => ReachInv
  BY ReachInit
<1>2. ListInv /\ ReachInv /\ RequestsInReach /\ [Next]_vars => ReachInv'
  BY ReachNext
<1>3. ListInv /\ ReachInv => NoHiddenOverflow
  BY ReachHidesNone
<1> QED
  BY <1>1, <1>2, <1>3, ListsInOrder, PTL DEF Spec

(* Hence, under that condition alone, timers fire exactly on time and a    *)
(* tick leaves nothing that was due.                                       *)
THEOREM NearRequestsAreExact == Spec /\ []RequestsInReach => FiresOnTime /\ NothingDueIsLeft
  BY NearRequestsHideNone, TimersFireOnTime, TicksLeaveNothingDue, PTL

(* In particular with no condition on the behaviour at all, when the clock *)
(* is bounded by two exact ranges: 37 hours after the loop started.        *)
THEOREM ExactFromTheStart ==
  ASSUME MaxTime <= Reach
  PROVE  Spec => FiresOnTime /\ NothingDueIsLeft
<1>1. ListInv => RequestsInReach
  <2> SUFFICES ASSUME ListInv, NEW delay \in Delays, clock + delay <= MaxTime
               PROVE  clock + delay <= wheel.now + Reach
    BY DEF RequestsInReach
  <2>1. /\ wheel.now \in Nat /\ clock \in Nat /\ delay \in Nat /\ MaxTime \in Nat
        /\ Reach \in Nat
    BY DelaysAssumption, LevelFacts DEF ListInv, SchedulerTypes, WheelOK, Wheels, Reach
  <2> QED
    BY <2>1
<1> QED
  BY <1>1, ListsInOrder, NearRequestsAreExact, PTL

=============================================================================
