----------------------------- MODULE StartupLists -----------------------------
(***************************************************************************)
(* What the definitions of Startup on lists denote: the elements at some   *)
(* positions of a line, the words that are values of flags, and what a     *)
(* document with references resolves to.  The facts hold for lists of any  *)
(* length and are proved by induction over a set of numbers.               *)
(***************************************************************************)
EXTENDS Startup, WellFoundedInduction, TLAPS

\* Every set of numbers that is not empty has a least element.
LEMMA LeastNumber ==
  ASSUME NEW T \in SUBSET Nat, T # {}
  PROVE  \E x \in T : \A y \in T : x <= y
<1> DEFINE R == {ss \in Nat \X Nat : ss[1] < ss[2]}
<1>1. IsWellFoundedOn(R, Nat)
  BY NatLessThanWellFounded DEF OpToRel
<1> HIDE DEF R
<1>2. PICK x \in T : \A y \in T : <<y, x>> \notin R
  BY <1>1, WFMin
<1>3. ASSUME NEW y \in T PROVE x <= y
  <2>1. <<y, x>> \notin R
    BY <1>2
  <2>2. x \in Nat /\ y \in Nat
    OBVIOUS
  <2> QED
    BY <2>1, <2>2 DEF R
<1> QED
  BY <1>2, <1>3

\* A set with zero, and with the successor of each of its numbers, has all.
LEMMA Induction ==
  ASSUME NEW S \in SUBSET Nat, 0 \in S, \A n \in S : n + 1 \in S
  PROVE  S = Nat
<1> SUFFICES ASSUME Nat \ S # {} PROVE FALSE
  OBVIOUS
<1>1. PICK x \in Nat \ S : \A y \in Nat \ S : x <= y
  BY LeastNumber
<1>2. x - 1 \in S
  BY <1>1
<1>3. (x - 1) + 1 \in S
  BY <1>2
<1> QED
  BY <1>1, <1>3

-----------------------------------------------------------------------------
(***************************************************************************)
(* Positions in ascending order.                                           *)
(***************************************************************************)

\* A position behind all others becomes the last one.
LEMMA OneMorePosition ==
  ASSUME NEW where \in SUBSET Nat, NEW m \in Nat, NEW at \in [1..m -> where],
         Ascending(at, where), NEW x \in Nat, \A w \in where : w < x,
         NEW more, more = [k \in 1..(m + 1) |-> IF k = m + 1 THEN x ELSE at[k]]
  PROVE  more \in [1..(m + 1) -> where \cup {x}] /\ Ascending(more, where \cup {x})
<1>1. /\ \A k \in 1..m : more[k] = at[k] /\ at[k] \in where
      /\ more[m + 1] = x /\ DOMAIN more = 1..(m + 1)
  OBVIOUS
<1>2. more \in [1..(m + 1) -> where \cup {x}]
  BY <1>1
<1>3. \A j, k \in 1..(m + 1) : j < k => more[j] < more[k]
  <2> SUFFICES ASSUME NEW j \in 1..(m + 1), NEW k \in 1..(m + 1), j < k
               PROVE  more[j] < more[k]
    OBVIOUS
  <2>1. j \in 1..m
    OBVIOUS
  <2>2. CASE k \in 1..m
    BY <1>1, <2>1, <2>2 DEF Ascending
  <2>3. CASE k = m + 1
    BY <1>1, <2>1, <2>3
  <2> QED
    BY <2>2, <2>3
<1>4. {more[k] : k \in 1..(m + 1)} = where \cup {x}
  <2>1. ASSUME NEW w \in where PROVE \E k \in 1..(m + 1) : w = more[k]
    <3>1. PICK k \in 1..m : w = at[k]
      BY DEF Ascending
    <3> QED
      BY <1>1, <3>1
  <2>2. \E k \in 1..(m + 1) : x = more[k]
    BY <1>1
  <2> QED
    BY <1>2, <2>1, <2>2
<1> QED
  BY <1>1, <1>2, <1>3, <1>4 DEF Ascending

\* Every set of positions can be listed in ascending order.
LEMMA Listable ==
  ASSUME NEW n \in Nat, NEW where \in SUBSET (1..n)
  PROVE  \E m \in 0..n : \E at \in [1..m -> where] : Ascending(at, where)
<1> DEFINE Good(k) == \A W \in SUBSET (1..k) : \E m \in 0..k : \E at \in [1..m -> W] : Ascending(at, W)
           S == {k \in Nat : Good(k)}
<1> HIDE DEF Good
<1>1. Good(0)
  <2> SUFFICES ASSUME NEW W \in SUBSET (1..0) PROVE \E m \in 0..0 : \E at \in [1..m -> W] : Ascending(at, W)
    BY DEF Good
  <2>1. W = {} /\ 1..0 = {}
    OBVIOUS
  <2>2. [k \in 1..0 |-> 0] \in [1..0 -> W] /\ Ascending([k \in 1..0 |-> 0], W)
    BY <2>1 DEF Ascending
  <2>3. 0 \in 0..0
    OBVIOUS
  <2> QED
    BY <2>2, <2>3, Zenon
<1>2. ASSUME NEW k \in Nat, Good(k) PROVE Good(k + 1)
  <2> SUFFICES ASSUME NEW W \in SUBSET (1..(k + 1))
               PROVE  \E m \in 0..(k + 1) : \E at \in [1..m -> W] : Ascending(at, W)
    BY DEF Good
  <2>0. k \in Nat /\ \A U \in SUBSET (1..k) : \E m \in 0..k : \E at \in [1..m -> U] : Ascending(at, U)
    BY <1>2 DEF Good
  <2>1. CASE k + 1 \notin W
    <3>1. W \in SUBSET (1..k)
      BY <2>0, <2>1
    <3>2. PICK m \in 0..k : \E at \in [1..m -> W] : Ascending(at, W)
      BY <2>0, <3>1
    <3>3. m \in 0..(k + 1)
      BY <2>0
    <3> QED
      BY <3>2, <3>3
  <2>2. CASE k + 1 \in W
    <3> DEFINE V == W \ {k + 1}
    <3>1. V \in SUBSET (1..k) /\ V \cup {k + 1} = W
      BY <2>0, <2>2
    <3>2. PICK m \in 0..k : \E at \in [1..m -> V] : Ascending(at, V)
      BY <2>0, <3>1
    <3>3. PICK at \in [1..m -> V] : Ascending(at, V)
      BY <3>2
    <3> DEFINE more == [i \in 1..(m + 1) |-> IF i = m + 1 THEN k + 1 ELSE at[i]]
    <3>4. V \in SUBSET Nat /\ m \in Nat /\ k + 1 \in Nat /\ \A w \in V : w < k + 1
      BY <2>0, <3>1
    <3> HIDE DEF V
    <3>5. more \in [1..(m + 1) -> V \cup {k + 1}] /\ Ascending(more, V \cup {k + 1})
      BY <3>3, <3>4, OneMorePosition
    <3>6. m + 1 \in 0..(k + 1)
      BY <2>0
    <3> QED
      BY <3>1, <3>5, <3>6
  <2> QED
    BY <2>1, <2>2
<1>3. S = Nat
  <2>1. S \in SUBSET Nat /\ 0 \in S /\ \A k \in S : k + 1 \in S
    BY <1>1, <1>2
  <2> HIDE DEF S
  <2> QED
    BY <2>1, Induction
<1>4. Good(n)
  BY <1>3
<1> QED
  BY <1>4 DEF Good

\* Two ascending lists of the same positions agree as far as both go.
LEMMA SamePositions ==
  ASSUME NEW where \in SUBSET Nat, NEW m \in Nat, NEW n \in Nat,
         NEW a \in [1..m -> where], Ascending(a, where),
         NEW b \in [1..n -> where], Ascending(b, where)
  PROVE  m = n /\ a = b
<1> DEFINE T == {k \in Nat : k \in 1..m /\ k \in 1..n /\ a[k] # b[k]}
<1>1. T = {}
  <2> SUFFICES ASSUME T # {} PROVE FALSE
    OBVIOUS
  <2>1. PICK x \in T : \A y \in T : x <= y
    BY LeastNumber
  <2>2. /\ x \in 1..m /\ x \in 1..n /\ a[x] # b[x] /\ a[x] \in where /\ b[x] \in where
        /\ a[x] \in Nat /\ b[x] \in Nat
    OBVIOUS
  <2>3. ASSUME NEW y \in 1..m, y \in 1..n, y < x PROVE a[y] = b[y]
    BY <2>1, <2>3
  <2>4. CASE a[x] < b[x]
    <3>1. PICK j \in 1..n : a[x] = b[j]
      BY <2>2 DEF Ascending
    <3>2. ~(x < j) /\ j # x
      BY <2>2, <2>4, <3>1 DEF Ascending
    <3>3. j < x /\ j \in 1..m
      BY <2>2, <3>2
    <3>4. a[j] = a[x]
      BY <2>3, <3>1, <3>3
    <3> QED
      BY <2>2, <3>3, <3>4 DEF Ascending
  <2>5. CASE b[x] < a[x]
    <3>1. PICK j \in 1..m : b[x] = a[j]
      BY <2>2 DEF Ascending
    <3>2. ~(x < j) /\ j # x
      BY <2>2, <2>5, <3>1 DEF Ascending
    <3>3. j < x /\ j \in 1..n
      BY <2>2, <3>2
    <3>4. b[j] = b[x]
      BY <2>3, <3>1, <3>3
    <3> QED
      BY <2>2, <3>3, <3>4 DEF Ascending
  <2> QED
    BY <2>2, <2>4, <2>5
<1>2. \A k \in Nat : k \in 1..m /\ k \in 1..n => a[k] = b[k]
  BY <1>1
<1> HIDE DEF T
<1>3. ~(m < n)
  <2> SUFFICES ASSUME m < n PROVE FALSE
    OBVIOUS
  <2>1. m + 1 \in 1..n /\ b[m + 1] \in where
    OBVIOUS
  <2>2. PICK j \in 1..m : b[m + 1] = a[j]
    BY <2>1 DEF Ascending
  <2>3. j \in 1..n /\ j < m + 1 /\ j \in Nat
    BY <2>2
  <2>4. a[j] = b[j] /\ b[j] \in Nat
    BY <1>2, <2>2, <2>3
  <2> QED
    BY <2>1, <2>2, <2>3, <2>4 DEF Ascending
<1>4. ~(n < m)
  <2> SUFFICES ASSUME n < m PROVE FALSE
    OBVIOUS
  <2>1. n + 1 \in 1..m /\ a[n + 1] \in where
    OBVIOUS
  <2>2. PICK j \in 1..n : a[n + 1] = b[j]
    BY <2>1 DEF Ascending
  <2>3. j \in 1..m /\ j < n + 1 /\ j \in Nat
    BY <2>2
  <2>4. a[j] = b[j] /\ a[j] \in Nat
    BY <1>2, <2>2, <2>3
  <2> QED
    BY <2>1, <2>2, <2>3, <2>4 DEF Ascending
<1>5. m = n
  BY <1>3, <1>4
<1> QED
  BY <1>2, <1>5

\* Positions lists the positions, and there is no other list of them.
LEMMA PositionsAre ==
  ASSUME NEW n \in Nat, NEW where \in SUBSET (1..n)
  PROVE  \E m \in 0..n : Positions(where, n) \in [1..m -> where] /\ Ascending(Positions(where, n), where)
<1> DEFINE Lists0 == UNION {[1..m -> where] : m \in 0..n}
<1>1. \E at \in Lists0 : Ascending(at, where)
  BY Listable
<1>2. Positions(where, n) \in Lists0 /\ Ascending(Positions(where, n), where)
  BY <1>1 DEF Positions
<1> QED
  BY <1>2

-----------------------------------------------------------------------------
(***************************************************************************)
(* The elements at these positions.                                        *)
(***************************************************************************)

\* Pick answers with the elements at any ascending list of the positions.
LEMMA PickIs ==
  ASSUME NEW S, NEW line \in Seq(S), NEW where \in SUBSET (1..Len(line)),
         NEW m \in Nat, NEW at \in [1..m -> where], Ascending(at, where)
  PROVE  Pick(line, where) = [k \in 1..m |-> line[at[k]]]
<1>1. Len(line) \in Nat /\ where \in SUBSET Nat
  OBVIOUS
<1>2. PICK n \in 0..Len(line) : /\ Positions(where, Len(line)) \in [1..n -> where]
                                /\ Ascending(Positions(where, Len(line)), where)
  BY <1>1, PositionsAre
<1>3. Positions(where, Len(line)) = at
  BY <1>1, <1>2, SamePositions
<1> QED
  BY <1>3 DEF Pick

\* p has the elements at an ascending list of the positions.
PickedAt(p, line, where, m, at) ==
  /\ at \in [1..m -> where] /\ Ascending(at, where)
  /\ p = [k \in 1..m |-> line[at[k]]]

\* What is picked, and from where.
LEMMA Picked ==
  ASSUME NEW S, NEW line \in Seq(S), NEW where \in SUBSET (1..Len(line))
  PROVE  \E m \in 0..Len(line) : \E at : PickedAt(Pick(line, where), line, where, m, at)
<1>1. Len(line) \in Nat
  OBVIOUS
<1>2. PICK m \in 0..Len(line) : /\ Positions(where, Len(line)) \in [1..m -> where]
                                /\ Ascending(Positions(where, Len(line)), where)
  BY <1>1, PositionsAre
<1>3. m \in Nat
  BY <1>1
<1>4. PickedAt(Pick(line, where), line, where, m, Positions(where, Len(line)))
  BY <1>2, <1>3, PickIs DEF PickedAt
<1> QED
  BY <1>4

LEMMA PickNothing ==
  ASSUME NEW S, NEW line \in Seq(S)
  PROVE  Pick(line, {}) = <<>>
<1>m. PICK m \in 0..Len(line) : \E at : PickedAt(Pick(line, {}), line, {}, m, at)
  BY Picked
<1>1. PICK at : PickedAt(Pick(line, {}), line, {}, m, at)
  BY <1>m
<1>2. m = 0
  BY <1>1 DEF PickedAt
<1> QED
  BY <1>1, <1>2 DEF PickedAt

\* A pick is a list of elements of the line, no longer than the line.
LEMMA PickType ==
  ASSUME NEW S, NEW line \in Seq(S), NEW where \in SUBSET (1..Len(line)),
         NEW m \in 0..Len(line), NEW at, PickedAt(Pick(line, where), line, where, m, at)
  PROVE  /\ Pick(line, where) \in Seq(S) /\ Len(Pick(line, where)) = m
         /\ Len(Pick(line, where)) <= Len(line)
<1>1. m \in Nat /\ m <= Len(line) /\ Len(line) \in Nat
  OBVIOUS
<1>2. ASSUME NEW k \in 1..m PROVE line[at[k]] \in S
  <2>1. at[k] \in where
    BY DEF PickedAt
  <2>2. at[k] \in 1..Len(line)
    BY <2>1
  <2> QED
    BY <2>2
<1>3. Pick(line, where) \in [1..m -> S]
  BY <1>2 DEF PickedAt
<1> QED
  BY <1>1, <1>3

\* One more position, behind the others, adds its element at the end.
LEMMA PickAppend ==
  ASSUME NEW S, NEW line \in Seq(S), NEW where \in SUBSET (1..Len(line)),
         NEW x \in 1..Len(line), \A w \in where : w < x
  PROVE  Pick(line, where \cup {x}) = Append(Pick(line, where), line[x])
<1>m. PICK m \in 0..Len(line) : \E at : PickedAt(Pick(line, where), line, where, m, at)
  BY Picked
<1>1. PICK at : PickedAt(Pick(line, where), line, where, m, at)
  BY <1>m
<1>2. at \in [1..m -> where] /\ Ascending(at, where) /\ Pick(line, where) = [k \in 1..m |-> line[at[k]]]
  BY <1>1 DEF PickedAt
<1> DEFINE more == [k \in 1..(m + 1) |-> IF k = m + 1 THEN x ELSE at[k]]
<1>3. /\ where \in SUBSET Nat /\ m \in Nat /\ m + 1 \in Nat /\ x \in Nat
      /\ where \cup {x} \in SUBSET (1..Len(line))
  OBVIOUS
<1>4. more \in [1..(m + 1) -> where \cup {x}] /\ Ascending(more, where \cup {x})
  BY <1>2, <1>3, OneMorePosition
<1>5. Pick(line, where \cup {x}) = [k \in 1..(m + 1) |-> line[more[k]]]
  <2> HIDE DEF more
  <2> QED
    BY <1>3, <1>4, PickIs
<1>6. Pick(line, where) \in Seq(S) /\ Len(Pick(line, where)) = m
  BY <1>1, PickType
<1>7. Append(Pick(line, where), line[x]) = [k \in 1..(m + 1) |-> line[more[k]]]
  BY <1>2, <1>3, <1>6
<1> QED
  BY <1>5, <1>7

-----------------------------------------------------------------------------
(***************************************************************************)
(* Which words of a command line are values of flags.                      *)
(***************************************************************************)

\* The first n words can be read.
ReadTo(v, line, n) ==
  \A k \in 1..n : v[k] = (k > 1 /\ line[k - 1] \in ValueFlags /\ ~v[k - 1])

LEMMA IsValueReads ==
  ASSUME NEW S, NEW line \in Seq(S)
  PROVE  IsValue(line) \in [1..Len(line) -> BOOLEAN] /\ ReadTo(IsValue(line), line, Len(line))
<1> DEFINE Readable(n) == \E v \in [1..n -> BOOLEAN] : ReadTo(v, line, n)
           N == {n \in Nat : Readable(n)}
<1> HIDE DEF Readable
<1>1. Readable(0)
  <2>1. [k \in 1..0 |-> TRUE] \in [1..0 -> BOOLEAN] /\ ReadTo([k \in 1..0 |-> TRUE], line, 0)
    BY DEF ReadTo
  <2> QED
    BY <2>1, Zenon DEF Readable
<1>2. ASSUME NEW n \in Nat, Readable(n) PROVE Readable(n + 1)
  <2>1. PICK v \in [1..n -> BOOLEAN] : ReadTo(v, line, n)
    BY <1>2 DEF Readable
  <2> DEFINE last == (n > 0 /\ line[n] \in ValueFlags /\ ~v[n])
             w == [k \in 1..(n + 1) |-> IF k = n + 1 THEN last ELSE v[k]]
  <2>2. last \in BOOLEAN
    OBVIOUS
  <2>3. w \in [1..(n + 1) -> BOOLEAN]
    <3> HIDE DEF last
    <3> QED
      BY <2>2
  <2>4. ASSUME NEW k \in 1..(n + 1)
        PROVE  w[k] = (k > 1 /\ line[k - 1] \in ValueFlags /\ ~w[k - 1])
    <3>1. CASE k \in 1..n
      <4>1. w[k] = v[k]
        BY <3>1
      <4>2. v[k] = (k > 1 /\ line[k - 1] \in ValueFlags /\ ~v[k - 1])
        BY <2>1, <3>1 DEF ReadTo
      <4>3. CASE k > 1
        <5>1. w[k - 1] = v[k - 1]
          BY <3>1, <4>3
        <5> QED
          BY <4>1, <4>2, <5>1
      <4>4. CASE ~(k > 1)
        BY <4>1, <4>2, <4>4
      <4> QED
        BY <4>3, <4>4
    <3>2. CASE k = n + 1
      <4>1. w[k] = last /\ k - 1 = n
        BY <3>2
      <4>2. CASE n > 0
        <5>1. w[n] = v[n] /\ k > 1
          BY <3>2, <4>2
        <5> QED
          BY <4>1, <4>2, <5>1
      <4>3. CASE ~(n > 0)
        <5>1. ~(k > 1)
          BY <3>2, <4>3
        <5> QED
          BY <4>1, <4>3, <5>1
      <4> QED
        BY <4>2, <4>3
    <3> QED
      BY <3>1, <3>2
  <2>5. ReadTo(w, line, n + 1)
    <3> HIDE DEF w
    <3> QED
      BY <2>4 DEF ReadTo
  <2> QED
    BY <2>3, <2>5 DEF Readable
<1>3. N = Nat
  <2>1. N \in SUBSET Nat /\ 0 \in N /\ \A n \in N : n + 1 \in N
    BY <1>1, <1>2
  <2> HIDE DEF N
  <2> QED
    BY <2>1, Induction
<1>4. Len(line) \in Nat /\ DOMAIN line = 1..Len(line)
  OBVIOUS
<1>5. \E v \in [DOMAIN line -> BOOLEAN] : ReadAsValues(v, line)
  <2>1. Readable(Len(line))
    BY <1>3, <1>4
  <2> QED
    BY <1>4, <2>1 DEF Readable, ReadTo, ReadAsValues
<1>6. IsValue(line) \in [DOMAIN line -> BOOLEAN] /\ ReadAsValues(IsValue(line), line)
  BY <1>5, Zenon DEF IsValue
<1> QED
  BY <1>4, <1>6 DEF ReadTo, ReadAsValues

-----------------------------------------------------------------------------
(***************************************************************************)
(* Documents with references.                                              *)
(***************************************************************************)

\* Every field has become text: its own or the one of the field it refers to.
Resolution(T, text) ==
  \A k \in 1..Len(text) : T[k] = IF text[k].kind = "field" THEN T[text[k].of] ELSE text[k]

\* All references are to fields of the document.
Closed(text) == \A k \in 1..Len(text) : text[k].kind = "field" => text[k].of \in 1..Len(text)

LEMMA Resolvable ==
  ASSUME NEW S, NEW text \in Seq(S), Closed(text), Forward(text)
  PROVE  \E T : Resolution(T, text)
<1> DEFINE N == Len(text)
           IsRef(k) == text[k].kind = "field"
           Step(T, k) == IF ~IsRef(k) THEN text[k]
                         ELSE IF IsRef(text[k].of) THEN T[text[k].of] ELSE text[text[k].of]
           Good(n) == \E T : \A k \in 1..N : k > N - n => T[k] = Step(T, k)
           M == {n \in Nat : Good(n)}
<1>0. N \in Nat /\ DOMAIN text = 1..N
  OBVIOUS
<1> HIDE DEF N, Good
<1>1. Good(0)
  BY <1>0 DEF Good
<1>2. ASSUME NEW n \in Nat, Good(n) PROVE Good(n + 1)
  <2>1. PICK T : \A k \in 1..N : k > N - n => T[k] = Step(T, k)
    BY <1>2 DEF Good
  <2> DEFINE U == [k \in 1..N |-> IF k = N - n THEN Step(T, k) ELSE T[k]]
  <2>2. ASSUME NEW k \in 1..N, k > N - (n + 1) PROVE U[k] = Step(U, k)
    <3>1. U[k] = Step(T, k)
      BY <1>0, <2>1, <2>2
    <3>2. ASSUME IsRef(k), IsRef(text[k].of) PROVE U[text[k].of] = T[text[k].of]
      <4>1. text[k].of \in 1..N /\ k < text[k].of
        BY <1>0, <2>2, <3>2 DEF Closed, Forward, N
      <4>2. text[k].of # N - n
        BY <1>0, <2>2, <4>1
      <4> QED
        BY <4>1, <4>2
    <3> QED
      BY <3>1, <3>2
  <2> HIDE DEF U
  <2> QED
    BY <2>2 DEF Good
<1>3. M = Nat
  <2>1. M \in SUBSET Nat /\ 0 \in M /\ \A n \in M : n + 1 \in M
    BY <1>1, <1>2
  <2> HIDE DEF M
  <2> QED
    BY <2>1, Induction
<1>4. PICK T : \A k \in 1..N : k > N - N => T[k] = Step(T, k)
  BY <1>0, <1>3 DEF Good
<1>5. \A k \in 1..N : T[k] = Step(T, k)
  BY <1>0, <1>4
<1>6. ASSUME NEW k \in 1..N
      PROVE  T[k] = IF text[k].kind = "field" THEN T[text[k].of] ELSE text[k]
  <2>1. CASE IsRef(k) /\ ~IsRef(text[k].of)
    <3>1. text[k].of \in 1..N
      BY <2>1 DEF Closed, N
    <3>2. T[text[k].of] = text[text[k].of]
      BY <1>5, <2>1, <3>1
    <3> QED
      BY <1>5, <2>1, <3>2
  <2>2. CASE ~IsRef(k) \/ IsRef(text[k].of)
    BY <1>5, <2>2
  <2> QED
    BY <2>1, <2>2
<1> QED
  BY <1>6 DEF Resolution, N
===============================================================================
