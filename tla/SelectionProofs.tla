-------------------------- MODULE SelectionProofs ---------------------------
(***************************************************************************)
(* Facts about numbers, sets of them and lists that the proofs about the   *)
(* terminal program's and the Windows program's lists share: the least and *)
(* the greatest of a set, and lists with elements taken out (Selection).   *)
(***************************************************************************)
EXTENDS Integers, SequencesExt, FiniteSetsExt, Selection, SequenceTheorems, FiniteSetTheorems, WellFoundedInduction, TLAPS

LEMMA LeastOf ==
  ASSUME NEW S \in SUBSET Nat, S # {}
  PROVE  \E x \in S : \A y \in S : x <= y
<1> DEFINE R == OpToRel(<, Nat)
<1>1. \A x, y \in Nat : x < y => <<x, y>> \in R
  BY DEF OpToRel
<1>2. IsWellFoundedOn(R, Nat)
  BY NatLessThanWellFounded, Zenon
<1> HIDE DEF R
<1>3. PICK x \in S : \A y \in S : ~(<<y, x>> \in R)
  BY <1>2, WFMin
<1>4. \A y \in S : x <= y
  <2> SUFFICES ASSUME NEW y \in S, ~(x <= y) PROVE FALSE
    OBVIOUS
  <2>1. x \in Nat /\ y \in Nat /\ y < x
    OBVIOUS
  <2> QED BY <1>1, <1>3, <2>1
<1> QED BY <1>4

LEMMA MinIs ==
  ASSUME NEW S \in SUBSET Nat, S # {}
  PROVE  Min(S) \in S /\ \A y \in S : Min(S) <= y
<1>1. PICK x \in S : \A y \in S : x <= y
  BY LeastOf
<1>2. Min(S) = CHOOSE m \in S : \A y \in S : m <= y
  BY DEF Min
<1> QED BY <1>1, <1>2, Zenon

LEMMA GreatestOf ==
  ASSUME NEW S \in SUBSET Int, S # {}, IsFiniteSet(S)
  PROVE  \E x \in S : \A y \in S : y <= x
<1> DEFINE Topless(T) == T \in SUBSET Int /\ T # {} /\ IsFiniteSet(T) /\ ~\E x \in T : \A y \in T : y <= x
           bad == {n \in Nat : \E T : Topless(T) /\ Cardinality(T) = n}
<1>1. SUFFICES ASSUME Topless(S) PROVE FALSE
  OBVIOUS
<1>2. bad # {} /\ bad \in SUBSET Nat
  <2>1. Cardinality(S) \in Nat
    BY FS_CardinalityType
  <2> HIDE DEF Topless
  <2> QED BY <1>1, <2>1
<1>3. PICK m \in bad : \A k \in bad : m <= k
  <2> HIDE DEF bad
  <2> QED BY <1>2, LeastOf
<1>4. PICK T : Topless(T) /\ Cardinality(T) = m
  <2> HIDE DEF Topless
  <2> QED BY <1>3
<1>5. PICK x \in T : TRUE
  BY <1>4
<1> DEFINE U == T \ {x}
<1>6. IsFiniteSet(U) /\ Cardinality(U) = m - 1 /\ Cardinality(U) \in Nat
  BY <1>4, <1>5, FS_RemoveElement, FS_CardinalityType
<1>7. ~Topless(U)
  <2> HIDE DEF Topless, U
  <2>1. m - 1 \notin bad /\ m - 1 \in Nat
    <3> HIDE DEF bad
    <3>1. m \in Nat
      BY <1>2, <1>3
    <3>2. m - 1 \in Nat
      BY <1>6
    <3> QED BY <1>3, <3>1, <3>2
  <2> QED BY <1>6, <2>1
<1>8. U # {}
  BY <1>4, <1>5
<1>9. PICK u \in U : \A y \in U : y <= u
  BY <1>4, <1>6, <1>7, <1>8
<1> DEFINE top == IF x <= u THEN u ELSE x
<1>10. top \in T /\ \A y \in T : y <= top
  BY <1>4, <1>5, <1>9
<1> QED BY <1>4, <1>10

LEMMA MaxIs ==
  ASSUME NEW S \in SUBSET Int, S # {}, IsFiniteSet(S)
  PROVE  Max(S) \in S
<1>1. PICK x \in S : \A y \in S : y <= x
  BY GreatestOf
<1>2. \A y \in S : x >= y
  BY <1>1
<1>3. Max(S) = CHOOSE m \in S : \A y \in S : m >= y
  BY DEF Max
<1> QED BY <1>2, <1>3, Zenon

LEMMA FirstIs ==
  ASSUME NEW n \in Nat, NEW bad \in SUBSET (1 .. n), bad # {}
  PROVE  LET i == CHOOSE i \in bad : \A j \in bad : i <= j
         IN  i \in bad /\ i - 1 \in Nat /\ i - 1 <= n /\ \A j \in 1 .. i - 1 : j \notin bad
<1>1. PICK x \in bad : \A j \in bad : x <= j
  BY LeastOf
<1> DEFINE i == CHOOSE i \in bad : \A j \in bad : i <= j
<1>2. i \in bad /\ \A j \in bad : i <= j
  BY <1>1, Zenon
<1> HIDE DEF i
<1>3. i - 1 \in Nat /\ i - 1 <= n /\ \A j \in 1 .. i - 1 : j \notin bad
  BY <1>2
<1> QED BY <1>2, <1>3 DEF i

-----------------------------------------------------------------------------
(* Lists *)

LEMMA TailIs ==
  ASSUME NEW S, NEW s \in Seq(S), s # <<>>
  PROVE  s[1] \in S /\ Tail(s) \in Seq(S)
OBVIOUS

\* The part of a sequence up to a place.
LEMMA StartIs ==
  ASSUME NEW S, NEW s \in Seq(S), NEW n \in Nat, n <= Len(s)
  PROVE  /\ SubSeq(s, 1, n) \in Seq(S) /\ Len(SubSeq(s, 1, n)) = n
         /\ \A i \in 1 .. n : SubSeq(s, 1, n)[i] = s[i]
OBVIOUS

\* A sequence without its element at i.
LEMMA RemovedIs ==
  ASSUME NEW S, NEW s \in Seq(S), NEW i \in 1 .. Len(s)
  PROVE  /\ RemoveAt(s, i) \in Seq(S) /\ Len(RemoveAt(s, i)) = Len(s) - 1
         /\ \A j \in 1 .. i - 1 : RemoveAt(s, i)[j] = s[j]
         /\ \A j \in i .. Len(s) - 1 : RemoveAt(s, i)[j] = s[j + 1]
<1> DEFINE a == SubSeq(s, 1, i - 1)  b == SubSeq(s, i + 1, Len(s))
<1>1. Len(s) \in Nat /\ i \in Nat /\ 1 <= i /\ i <= Len(s)
  OBVIOUS
<1>2. a \in Seq(S) /\ Len(a) = i - 1 /\ \A j \in 1 .. i - 1 : a[j] = s[j]
  BY <1>1
<1>3. b \in Seq(S) /\ Len(b) = Len(s) - i /\ \A j \in 1 .. Len(s) - i : b[j] = s[i + j]
  BY <1>1
<1>4. RemoveAt(s, i) = a \o b
  BY DEF RemoveAt
<1> HIDE DEF a, b
<1>5. /\ a \o b \in Seq(S) /\ Len(a \o b) = Len(s) - 1
      /\ \A j \in 1 .. Len(s) - 1 : (a \o b)[j] = IF j <= i - 1 THEN a[j] ELSE b[j - (i - 1)]
  <2>1. /\ a \o b \in Seq(S) /\ Len(a \o b) = Len(a) + Len(b)
        /\ \A j \in 1 .. Len(a) + Len(b) : (a \o b)[j] = IF j <= Len(a) THEN a[j] ELSE b[j - Len(a)]
    BY <1>2, <1>3, ConcatProperties
  <2>2. Len(a) + Len(b) = Len(s) - 1
    BY <1>1, <1>2, <1>3
  <2> QED BY <1>2, <2>1, <2>2
<1>6. ASSUME NEW j \in 1 .. i - 1 PROVE (a \o b)[j] = s[j]
  BY <1>1, <1>2, <1>5
<1>7. ASSUME NEW j \in i .. Len(s) - 1 PROVE (a \o b)[j] = s[j + 1]
  <2>1. j \in 1 .. Len(s) - 1 /\ ~(j <= i - 1) /\ j - (i - 1) \in 1 .. Len(s) - i /\ i + (j - (i - 1)) = j + 1
    BY <1>1
  <2> QED BY <1>3, <1>5, <2>1
<1> QED BY <1>4, <1>5, <1>6, <1>7

-----------------------------------------------------------------------------
(* What is picked *)

KeptUpTo(s, at, f, n) == IF n = 0 THEN <<>> ELSE IF n \in at THEN Append(f[n - 1], s[n]) ELSE f[n - 1]
Upto(s, at) == CHOOSE f : f = [n \in 0 .. Len(s) |-> KeptUpTo(s, at, f, n)]

LEMMA KeptIs ==
  ASSUME NEW s, NEW at
  PROVE  Picked(s, at) = Upto(s, at)[Len(s)]
BY DEF Picked, Upto, KeptUpTo

\* The function that Picked is the last value of exists: up to each place one does.
LEMMA UptoExists ==
  ASSUME NEW S, NEW s \in Seq(S), NEW at
  PROVE  \E f : f = [n \in 0 .. Len(s) |-> KeptUpTo(s, at, f, n)]
<1> DEFINE Solves(f, m) == f = [n \in 0 .. m |-> KeptUpTo(s, at, f, n)]
           bad == {m \in Nat : ~\E f : Solves(f, m)}
<1>1. SUFFICES ASSUME bad # {} PROVE FALSE
  BY DEF bad
<1>2. PICK m \in bad : \A k \in bad : m <= k
  BY <1>1, LeastOf
<1>3. m # 0
  <2>1. Solves([n \in 0 .. 0 |-> <<>>], 0)
    BY DEF KeptUpTo
  <2> QED BY <1>2, <2>1
<1>4. m - 1 \in Nat /\ m - 1 \notin bad
  BY <1>2, <1>3
<1>5. PICK f : Solves(f, m - 1)
  BY <1>4
<1> DEFINE g == [n \in 0 .. m |-> IF n < m THEN f[n] ELSE KeptUpTo(s, at, f, m)]
<1>6. ASSUME NEW n \in 0 .. m PROVE g[n] = KeptUpTo(s, at, g, n)
  <2>1. CASE n < m
    <3>1. n \in 0 .. m - 1 /\ (n # 0 => n - 1 \in 0 .. m /\ n - 1 < m)
      BY <1>2, <2>1
    <3>2. f[n] = KeptUpTo(s, at, f, n)
      BY <1>5, <3>1
    <3>3. n # 0 => g[n - 1] = f[n - 1]
      BY <3>1
    <3> QED BY <2>1, <3>2, <3>3 DEF KeptUpTo
  <2>2. CASE n = m
    <3>1. g[m - 1] = f[m - 1]
      BY <1>2, <1>4
    <3> QED BY <1>3, <2>2, <3>1 DEF KeptUpTo
  <2> QED BY <1>2, <2>1, <2>2
<1>7. Solves(g, m)
  <2> DEFINE h == [n \in 0 .. m |-> KeptUpTo(s, at, g, n)]
  <2>1. \A n \in 0 .. m : g[n] = h[n]
    BY <1>6
  <2>2. DOMAIN g = 0 .. m /\ DOMAIN h = 0 .. m
    OBVIOUS
  <2>3. g = [n \in 0 .. m |-> g[n]] /\ h = [n \in 0 .. m |-> h[n]]
    OBVIOUS
  <2>4. g = h
    <3> HIDE DEF g, h
    <3> QED BY <2>1, <2>3
  <2> QED BY <2>4
<1> QED BY <1>2, <1>7

LEMMA UptoIs ==
  ASSUME NEW S, NEW s \in Seq(S), NEW at
  PROVE  Upto(s, at) = [n \in 0 .. Len(s) |-> KeptUpTo(s, at, Upto(s, at), n)]
<1> DEFINE Solves(f) == f = [n \in 0 .. Len(s) |-> KeptUpTo(s, at, f, n)]
<1>1. \E f : Solves(f)
  BY UptoExists
<1>2. Upto(s, at) = CHOOSE f : Solves(f)
  BY DEF Upto
<1> HIDE DEF Solves
<1>3. Solves(CHOOSE f : Solves(f))
  BY <1>1, Zenon
<1>4. Solves(Upto(s, at))
  BY <1>2, <1>3
<1> QED BY <1>4, Zenon DEF Solves

\* What is kept are elements at the places asked for.
LEMMA KeptFrom ==
  ASSUME NEW S, NEW s \in Seq(S), NEW at, NEW T, \A i \in 1 .. Len(s) : i \in at => s[i] \in T
  PROVE  Picked(s, at) \in Seq(T)
<1> DEFINE u == Upto(s, at)
           bad == {m \in Nat : m <= Len(s) /\ u[m] \notin Seq(T)}
<1>1. Len(s) \in Nat /\ Picked(s, at) = u[Len(s)]
  BY KeptIs
<1>2. SUFFICES ASSUME bad # {} PROVE FALSE
  BY <1>1
<1>3. \A n \in 0 .. Len(s) : u[n] = KeptUpTo(s, at, u, n)
  BY UptoIs
<1> HIDE DEF u
<1>4. PICK m \in bad : \A k \in bad : m <= k
  BY <1>2, LeastOf
<1>5. m \in 0 .. Len(s) /\ u[m] \notin Seq(T) /\ u[m] = KeptUpTo(s, at, u, m)
  BY <1>1, <1>3, <1>4
<1>6. CASE m = 0
  BY <1>5, <1>6 DEF KeptUpTo
<1>7. CASE m # 0
  <2>1. m - 1 \in Nat /\ m - 1 \notin bad /\ m - 1 <= Len(s) /\ m \in 1 .. Len(s)
    BY <1>1, <1>4, <1>5, <1>7
  <2>2. u[m - 1] \in Seq(T)
    BY <2>1
  <2>3. m \in at => s[m] \in T
    BY <2>1
  <2>4. u[m] = IF m \in at THEN Append(u[m - 1], s[m]) ELSE u[m - 1]
    BY <1>5, <1>7 DEF KeptUpTo
  <2>5. u[m] \in Seq(T)
    BY <2>2, <2>3, <2>4, AppendProperties
  <2> QED BY <1>5, <2>5
<1> QED BY <1>6, <1>7

-----------------------------------------------------------------------------
(* Lists with elements taken out *)

\* Each element of t is one of s, and no two are the same one.
Within(t, s) ==
  \E f \in [1 .. Len(t) -> 1 .. Len(s)] :
    \A j, k \in 1 .. Len(t) : t[k] = s[f[k]] /\ (f[j] = f[k] => j = k)

\* What is picked from the first m elements.
PickedUpTo(s, at, m, t) ==
  /\ \E f \in [1 .. Len(t) -> 1 .. m] :
        \A j, k \in 1 .. Len(t) : t[k] = s[f[k]] /\ f[k] \in at /\ (f[j] = f[k] => j = k)
  /\ \A i \in 1 .. m : i \in at => \E k \in 1 .. Len(t) : t[k] = s[i]

LEMMA PickedNext ==
  ASSUME NEW S, NEW s \in Seq(S), NEW at, NEW m \in 0 .. Len(s) - 1, NEW t \in Seq(S),
         PickedUpTo(s, at, m, t)
  PROVE  PickedUpTo(s, at, m + 1, IF m + 1 \in at THEN Append(t, s[m + 1]) ELSE t)
<1>1. PICK f \in [1 .. Len(t) -> 1 .. m] :
         \A j, k \in 1 .. Len(t) : t[k] = s[f[k]] /\ f[k] \in at /\ (f[j] = f[k] => j = k)
  BY DEF PickedUpTo
<1>2. m \in Nat /\ Len(t) \in Nat /\ m + 1 \in 1 .. Len(s) /\ s[m + 1] \in S
  OBVIOUS
<1>3. CASE m + 1 \notin at
  <2>1. f \in [1 .. Len(t) -> 1 .. m + 1]
    <3>1. \A k \in 1 .. Len(t) : f[k] \in 1 .. m + 1
      BY <1>1, <1>2
    <3> QED BY <1>1, <3>1
  <2>2. \A i \in 1 .. m + 1 : i \in at => \E k \in 1 .. Len(t) : t[k] = s[i]
    <3>1. \A i \in 1 .. m + 1 : i \in at => i \in 1 .. m
      BY <1>2, <1>3
    <3> QED BY <3>1 DEF PickedUpTo
  <2> QED BY <1>1, <1>3, <2>1, <2>2 DEF PickedUpTo
<1>4. CASE m + 1 \in at
  <2> DEFINE u == Append(t, s[m + 1])  n == Len(t)
             g == [k \in 1 .. n + 1 |-> IF k <= n THEN f[k] ELSE m + 1]
  <2>1. u \in Seq(S) /\ Len(u) = n + 1 /\ u[n + 1] = s[m + 1] /\ \A k \in 1 .. n : u[k] = t[k]
    BY <1>2, AppendProperties
  <2>2. g \in [1 .. n + 1 -> 1 .. m + 1]
    <3>1. ASSUME NEW k \in 1 .. n + 1 PROVE g[k] \in 1 .. m + 1
      <4>1. CASE k <= n
        <5>1. k \in 1 .. n /\ f[k] \in 1 .. m
          BY <1>1, <1>2, <4>1
        <5> QED BY <1>2, <4>1, <5>1
      <4>2. CASE ~(k <= n)
        BY <1>2, <4>2
      <4> QED BY <4>1, <4>2
    <3> QED BY <3>1
  <2> HIDE DEF u
  <2>3. ASSUME NEW k \in 1 .. n + 1 PROVE u[k] = s[g[k]] /\ g[k] \in at
    <3>1. CASE k <= n
      <4>1. k \in 1 .. n /\ g[k] = f[k]
        BY <1>2, <3>1
      <4> QED BY <1>1, <2>1, <4>1
    <3>2. CASE k = n + 1
      <4>1. g[k] = m + 1
        BY <1>2, <3>2
      <4> QED BY <1>4, <2>1, <3>2, <4>1
    <3> QED BY <1>2, <3>1, <3>2
  <2>4. ASSUME NEW j \in 1 .. n + 1, NEW k \in 1 .. n + 1, g[j] = g[k] PROVE j = k
    <3>1. \A i \in 1 .. n : i <= n /\ g[i] = f[i] /\ f[i] \in 1 .. m /\ f[i] # m + 1
      <4> SUFFICES ASSUME NEW i \in 1 .. n PROVE i <= n /\ g[i] = f[i] /\ f[i] \in 1 .. m /\ f[i] # m + 1
        OBVIOUS
      <4>1. i <= n /\ i \in 1 .. n + 1 /\ f[i] \in 1 .. m
        BY <1>1, <1>2
      <4> QED BY <1>2, <4>1
    <3>2. g[n + 1] = m + 1
      BY <1>2
    <3>3. (j \in 1 .. n \/ j = n + 1) /\ (k \in 1 .. n \/ k = n + 1)
      BY <1>2
    <3> HIDE DEF g
    <3> QED BY <1>1, <2>4, <3>1, <3>2, <3>3
  <2>5. ASSUME NEW i \in 1 .. m + 1, i \in at PROVE \E k \in 1 .. n + 1 : u[k] = s[i]
    <3>1. CASE i = m + 1
      <4>1. n + 1 \in 1 .. n + 1
        BY <1>2
      <4> QED BY <2>1, <3>1, <4>1
    <3>2. CASE i # m + 1
      <4>1. i \in 1 .. m
        BY <1>2, <3>2
      <4>2. PICK k \in 1 .. n : t[k] = s[i]
        BY <2>5, <4>1 DEF PickedUpTo
      <4>3. k \in 1 .. n + 1 /\ u[k] = s[i]
        BY <1>2, <2>1, <4>2
      <4> QED BY <4>3
    <3> QED BY <3>1, <3>2
  <2> HIDE DEF g
  <2>6. PickedUpTo(s, at, m + 1, u)
    <3>1. Len(u) = n + 1
      BY <2>1
    <3> HIDE DEF n
    <3>2. \A j, k \in 1 .. Len(u) : u[k] = s[g[k]] /\ g[k] \in at /\ (g[j] = g[k] => j = k)
      BY <2>3, <2>4, <3>1
    <3>3. \A i \in 1 .. m + 1 : i \in at => \E k \in 1 .. Len(u) : u[k] = s[i]
      BY <2>5, <3>1
    <3>4. g \in [1 .. Len(u) -> 1 .. m + 1]
      BY <2>2, <3>1
    <3> QED BY <3>2, <3>3, <3>4, Zenon DEF PickedUpTo
  <2> QED BY <1>4, <2>6 DEF u
<1> QED BY <1>3, <1>4

LEMMA PickedIs ==
  ASSUME NEW S, NEW s \in Seq(S), NEW at
  PROVE  Picked(s, at) \in Seq(S) /\ PickedUpTo(s, at, Len(s), Picked(s, at))
<1> DEFINE u == Upto(s, at)
           bad == {m \in Nat : m <= Len(s) /\ ~(u[m] \in Seq(S) /\ PickedUpTo(s, at, m, u[m]))}
<1>1. Len(s) \in Nat /\ Picked(s, at) = u[Len(s)]
  BY KeptIs
<1>2. SUFFICES ASSUME bad # {} PROVE FALSE
  BY <1>1
<1>3. \A n \in 0 .. Len(s) : u[n] = KeptUpTo(s, at, u, n)
  BY UptoIs
<1> HIDE DEF u
<1>4. PICK m \in bad : \A k \in bad : m <= k
  BY <1>2, LeastOf
<1>5. /\ m \in 0 .. Len(s) /\ u[m] = KeptUpTo(s, at, u, m)
      /\ ~(u[m] \in Seq(S) /\ PickedUpTo(s, at, m, u[m]))
  BY <1>1, <1>3, <1>4
<1>6. CASE m = 0
  <2>1. u[0] = <<>>
    BY <1>5, <1>6 DEF KeptUpTo
  <2>2. PickedUpTo(s, at, 0, <<>>)
    <3> DEFINE none == <<>>
    <3>1. 1 .. Len(none) = {} /\ 1 .. 0 = {}
      OBVIOUS
    <3> HIDE DEF none
    <3>2. PICK f : f \in [1 .. Len(none) -> 1 .. 0]
      <4>1. [k \in 1 .. Len(none) |-> 1] \in [1 .. Len(none) -> 1 .. 0]
        BY <3>1
      <4> QED BY <4>1
    <3>3. PickedUpTo(s, at, 0, none)
      BY <3>1, <3>2 DEF PickedUpTo
    <3> QED BY <3>3, Zenon DEF none
  <2>3. <<>> \in Seq(S)
    OBVIOUS
  <2>4. u[0] \in Seq(S) /\ PickedUpTo(s, at, 0, u[0])
    BY <2>1, <2>2, <2>3, Zenon
  <2> QED BY <1>5, <1>6, <2>4
<1>7. CASE m # 0
  <2>1. m - 1 \in Nat /\ m - 1 \notin bad /\ m - 1 \in 0 .. Len(s) - 1 /\ (m - 1) + 1 = m
    BY <1>1, <1>4, <1>5, <1>7
  <2>2. u[m - 1] \in Seq(S) /\ PickedUpTo(s, at, m - 1, u[m - 1])
    BY <1>1, <2>1
  <2>3. u[m] = IF m \in at THEN Append(u[m - 1], s[m]) ELSE u[m - 1]
    BY <1>5, <1>7 DEF KeptUpTo
  <2>4. PickedUpTo(s, at, m, u[m])
    <3>1. PickedUpTo(s, at, (m - 1) + 1, IF (m - 1) + 1 \in at THEN Append(u[m - 1], s[(m - 1) + 1]) ELSE u[m - 1])
      BY <2>1, <2>2, PickedNext
    <3> QED BY <2>1, <2>3, <3>1
  <2>5. u[m] \in Seq(S)
    <3>1. s[m] \in S
      BY <1>1, <1>5, <1>7
    <3> QED BY <2>2, <2>3, <3>1, AppendProperties
  <2> QED BY <1>5, <2>4, <2>5
<1> QED BY <1>6, <1>7

IsSeq(s) == s \in Seq(Range(s))

LEMMA SeqIs ==
  ASSUME NEW S, NEW s \in Seq(S)
  PROVE  /\ IsSeq(s) /\ Len(s) \in Nat /\ Range(s) \subseteq S
         /\ \A i \in 1 .. Len(s) : s[i] \in Range(s)
         /\ \A e \in Range(s) : \E i \in 1 .. Len(s) : s[i] = e
<1>1. DOMAIN s = 1 .. Len(s) /\ Len(s) \in Nat
  OBVIOUS
<1>2. \A i \in 1 .. Len(s) : s[i] \in Range(s)
  BY <1>1 DEF Range
<1>3. \A e \in Range(s) : \E i \in 1 .. Len(s) : s[i] = e
  BY <1>1 DEF Range
<1>4. s \in Seq(Range(s))
  BY <1>1, <1>2
<1> QED BY <1>1, <1>2, <1>3, <1>4 DEF IsSeq

LEMMA PickedWithin ==
  ASSUME NEW s, IsSeq(s), NEW at
  PROVE  /\ IsSeq(Picked(s, at)) /\ Within(Picked(s, at), s)
         /\ \A e \in Range(Picked(s, at)) : \E i \in 1 .. Len(s) : i \in at /\ s[i] = e
         /\ \A i \in 1 .. Len(s) : i \in at => s[i] \in Range(Picked(s, at))
<1> DEFINE t == Picked(s, at)
<1>1. t \in Seq(Range(s)) /\ PickedUpTo(s, at, Len(s), t)
  BY PickedIs DEF IsSeq
<1> HIDE DEF t
<1>2. IsSeq(t)
  BY <1>1, SeqIs
<1>3. PICK f \in [1 .. Len(t) -> 1 .. Len(s)] :
         \A j, k \in 1 .. Len(t) : t[k] = s[f[k]] /\ f[k] \in at /\ (f[j] = f[k] => j = k)
  BY <1>1 DEF PickedUpTo
<1>4. Within(t, s)
  BY <1>3 DEF Within
<1>5. ASSUME NEW e \in Range(t) PROVE \E i \in 1 .. Len(s) : i \in at /\ s[i] = e
  <2>1. PICK k \in 1 .. Len(t) : t[k] = e
    BY <1>1, SeqIs
  <2> QED BY <1>3, <2>1
<1>6. ASSUME NEW i \in 1 .. Len(s), i \in at PROVE s[i] \in Range(t)
  <2>1. PICK k \in 1 .. Len(t) : t[k] = s[i]
    BY <1>1, <1>6 DEF PickedUpTo
  <2>2. t[k] \in Range(t)
    BY <1>1, SeqIs
  <2> QED BY <2>1, <2>2
<1> QED BY <1>2, <1>4, <1>5, <1>6 DEF t

LEMMA RemovedWithin ==
  ASSUME NEW s, IsSeq(s), NEW i \in 1 .. Len(s)
  PROVE  /\ IsSeq(RemoveAt(s, i)) /\ Within(RemoveAt(s, i), s)
         /\ \A e \in Range(RemoveAt(s, i)) : \E j \in 1 .. Len(s) : j # i /\ s[j] = e
<1> DEFINE t == RemoveAt(s, i)
<1>1. s \in Seq(Range(s)) /\ Len(s) \in Nat
  BY DEF IsSeq
<1>2. /\ t \in Seq(Range(s)) /\ Len(t) = Len(s) - 1
      /\ \A j \in 1 .. i - 1 : t[j] = s[j]
      /\ \A j \in i .. Len(s) - 1 : t[j] = s[j + 1]
  BY <1>1, RemovedIs
<1> HIDE DEF t
<1>3. IsSeq(t)
  BY <1>2, SeqIs
<1> DEFINE f == [k \in 1 .. Len(t) |-> IF k < i THEN k ELSE k + 1]
<1>4. \A k \in 1 .. Len(t) : f[k] \in 1 .. Len(s) /\ f[k] # i /\ t[k] = s[f[k]]
  BY <1>1, <1>2
<1>5. \A j, k \in 1 .. Len(t) : f[j] = f[k] => j = k
  BY <1>1, <1>2
<1>6. f \in [1 .. Len(t) -> 1 .. Len(s)]
  BY <1>4
<1> HIDE DEF f
<1>7. Within(t, s)
  BY <1>4, <1>5, <1>6 DEF Within
<1>8. ASSUME NEW e \in Range(t) PROVE \E j \in 1 .. Len(s) : j # i /\ s[j] = e
  <2>1. PICK k \in 1 .. Len(t) : t[k] = e
    BY <1>2, SeqIs
  <2> QED BY <1>4, <2>1
<1> QED BY <1>3, <1>7, <1>8 DEF t

LEMMA WithinWithin ==
  ASSUME NEW r, NEW s, NEW t, Within(t, s), Within(s, r)
  PROVE  Within(t, r)
<1>1. PICK f \in [1 .. Len(t) -> 1 .. Len(s)] :
         \A j, k \in 1 .. Len(t) : t[k] = s[f[k]] /\ (f[j] = f[k] => j = k)
  BY DEF Within
<1>2. PICK g \in [1 .. Len(s) -> 1 .. Len(r)] :
         \A j, k \in 1 .. Len(s) : s[k] = r[g[k]] /\ (g[j] = g[k] => j = k)
  BY DEF Within
<1> DEFINE h == [k \in 1 .. Len(t) |-> g[f[k]]]
<1>3. h \in [1 .. Len(t) -> 1 .. Len(r)]
  BY <1>1, <1>2
<1>4. \A j, k \in 1 .. Len(t) : t[k] = r[h[k]] /\ (h[j] = h[k] => j = k)
  BY <1>1, <1>2
<1> HIDE DEF h
<1> QED BY <1>3, <1>4 DEF Within

LEMMA AddedLast ==
  ASSUME NEW s, IsSeq(s), NEW e
  PROVE  IsSeq(Append(s, e)) /\ Range(Append(s, e)) = Range(s) \cup {e}
<1> DEFINE t == Append(s, e)
           S == Range(s) \cup {e}
<1>1. s \in Seq(S) /\ Len(s) \in Nat
  BY DEF IsSeq
<1>2. t \in Seq(S) /\ Len(t) = Len(s) + 1 /\ t[Len(s) + 1] = e /\ \A i \in 1 .. Len(s) : t[i] = s[i]
  BY <1>1, AppendProperties
<1> HIDE DEF t
<1>3. IsSeq(t) /\ Range(t) \subseteq S /\ \A i \in 1 .. Len(t) : t[i] \in Range(t)
  BY <1>2, SeqIs
<1>4. e \in Range(t)
  BY <1>1, <1>2, <1>3
<1>5. ASSUME NEW q \in Range(s) PROVE q \in Range(t)
  <2>1. PICK i \in 1 .. Len(s) : s[i] = q
    BY SeqIs DEF IsSeq
  <2>2. i \in 1 .. Len(t) /\ t[i] = q
    BY <1>1, <1>2, <2>1
  <2> QED BY <1>3, <2>2
<1> QED BY <1>3, <1>4, <1>5 DEF t

-----------------------------------------------------------------------------
(* Folds *)

\* What holds of 0 and goes from each number to the next holds of all.
LEMMA InTurn ==
  ASSUME NEW n \in Nat, NEW S, 0 \in S, \A k \in 1 .. n : k - 1 \in S => k \in S
  PROVE  \A k \in 0 .. n : k \in S
<1> DEFINE bad == {k \in Nat : k <= n /\ k \notin S}
<1> SUFFICES ASSUME bad # {} PROVE FALSE
  OBVIOUS
<1>1. bad \in SUBSET Nat
  OBVIOUS
<1>2. PICK m \in bad : \A k \in bad : m <= k
  <2> HIDE DEF bad
  <2> QED BY <1>1, LeastOf
<1>3. m \in Nat /\ m <= n /\ m \notin S /\ m # 0
  BY <1>2
<1>4. m - 1 \in Nat /\ m - 1 \notin bad /\ m \in 1 .. n
  BY <1>2, <1>3
<1>5. m - 1 \in S
  BY <1>3, <1>4
<1> QED BY <1>3, <1>4, <1>5

LEMMA GreatestIs ==
  ASSUME NEW k \in Nat, NEW t \in SUBSET (1 .. k), t # {}
  PROVE  Max(t) \in t /\ (k \in t => Max(t) = k)
<1>1. IsFiniteSet(t) /\ t \in SUBSET Int
  <2>1. IsFiniteSet(1 .. k)
    BY FS_Interval
  <2>2. IsFiniteSet(t)
    BY <2>1, FS_Subset
  <2> QED BY <2>2
<1>2. Max(t) \in t
  BY <1>1, MaxIs
<1>3. ASSUME k \in t PROVE Max(t) = k
  <2>1. Max(t) = CHOOSE m \in t : \A y \in t : m >= y
    BY DEF Max
  <2>2. \A y \in t : k >= y
    OBVIOUS
  <2>3. \A y \in t : Max(t) >= y
    BY <1>3, <2>1, <2>2, Zenon
  <2>4. Max(t) \in 1 .. k /\ Max(t) >= k
    BY <1>2, <1>3, <2>3
  <2> HIDE DEF Max
  <2> QED BY <2>4
<1> QED BY <1>2, <1>3

\* The value of a fold for each set of places: the greatest place is taken last.
FoldsDown(f, base, next, s) ==
    \A t \in SUBSET (1 .. Len(s)) :
        f[t] = IF t = {} THEN base ELSE next[<<f[t \ {Max(t)}], s[Max(t)]>>]
\* The values of a fold up to each place.
GoesUp(g, base, next, s, last) ==
    g[0] = base /\ g[Len(s)] = last /\ \A k \in 1 .. Len(s) : g[k] = next[<<g[k - 1], s[k]>>]
FallsTo(A, iter, base, next, s) ==
    /\ iter[{}] = base
    /\ \A t \in SUBSET (1 .. Len(s)) : t # {} /\ iter[t \ {Max(t)}] \in A =>
           iter[t] = next[<<iter[t \ {Max(t)}], s[Max(t)]>>]

\* FoldLeft goes down the sets of places: there is such a function.
LEMMA FoldExists ==
  ASSUME NEW A, NEW E, NEW base \in A, NEW next \in [A \X E -> A], NEW s \in Seq(E)
  PROVE  \E f \in [SUBSET (1 .. Len(s)) -> A] : FoldsDown(f, base, next, s)
<1> DEFINE Eq(f, t) == f[t] = IF t = {} THEN base ELSE next[<<f[t \ {Max(t)}], s[Max(t)]>>]
           Good(k) == \E f \in [SUBSET (1 .. k) -> A] : \A t \in SUBSET (1 .. k) : Eq(f, t)
           n == Len(s)
           S == {k \in 0 .. n : Good(k)}
<1>1. n \in Nat
  OBVIOUS
<1>2. 0 \in S
  <2>1. \A t \in SUBSET (1 .. 0) : Eq([u \in SUBSET (1 .. 0) |-> base], t)
    OBVIOUS
  <2>2. [u \in SUBSET (1 .. 0) |-> base] \in [SUBSET (1 .. 0) -> A]
    OBVIOUS
  <2>3. Good(0)
    <3> HIDE DEF Eq
    <3> QED BY <2>1, <2>2
  <2>4. 0 \in 0 .. n
    BY <1>1
  <2> HIDE DEF Good
  <2> QED BY <2>3, <2>4
<1>3. ASSUME NEW k \in 1 .. n, k - 1 \in S PROVE k \in S
  <2> DEFINE I == 1 .. k - 1
  <2>1. PICK f \in [SUBSET I -> A] : \A t \in SUBSET I : Eq(f, t)
    BY <1>3
  <2> DEFINE g == [t \in SUBSET (1 .. k) |->
                     IF k \in t THEN next[<<f[t \ {k}], s[k]>>] ELSE f[t]]
  <2>2. ASSUME NEW t \in SUBSET (1 .. k) PROVE g[t] \in A /\ Eq(g, t)
    <3>1. k \in Nat /\ k - 1 \in Nat /\ s[k] \in E
      OBVIOUS
    <3>2. CASE k \in t
      <4>1. Max(t) = k
        BY <3>1, <3>2, GreatestIs
      <4>2. t \ {k} \in SUBSET I /\ t \ {k} \in SUBSET (1 .. k)
        BY <3>1
      <4>3. g[t \ {k}] = f[t \ {k}] /\ f[t \ {k}] \in A
        BY <4>2
      <4>4. g[t] = next[<<f[t \ {k}], s[k]>>]
        BY <3>2
      <4>5. g[t] \in A
        BY <4>3, <4>4, <3>1
      <4> HIDE DEF g, I
      <4> QED BY <3>2, <4>1, <4>3, <4>4, <4>5
    <3>3. CASE k \notin t
      <4>1. t \in SUBSET I
        BY <3>1, <3>3
      <4>2. g[t] = f[t] /\ Eq(f, t) /\ f[t] \in A
        BY <2>1, <3>3, <4>1
      <4>3. t \ {Max(t)} \in SUBSET I /\ t \ {Max(t)} \in SUBSET (1 .. k) /\ k \notin t \ {Max(t)}
        BY <3>3, <4>1
      <4>4. g[t \ {Max(t)}] = f[t \ {Max(t)}]
        BY <4>3
      <4> HIDE DEF g, I
      <4> QED BY <4>2, <4>4
    <3> QED BY <3>2, <3>3
  <2>3. g \in [SUBSET (1 .. k) -> A]
    <3> HIDE DEF Eq
    <3> QED BY <2>2
  <2>4. Good(k)
    <3> HIDE DEF Eq, g
    <3> QED BY <2>2, <2>3
  <2>5. k \in 0 .. n
    BY <1>1
  <2> HIDE DEF Good
  <2> QED BY <2>4, <2>5
<1>4. \A k \in 0 .. n : k \in S
  <2> HIDE DEF S, n
  <2> QED BY <1>1, <1>2, <1>3, InTurn, Zenon
<1>5. Good(n)
  <2>1. n \in 0 .. n
    BY <1>1
  <2> HIDE DEF Good
  <2> QED BY <1>4, <2>1
<1> QED BY <1>5 DEF FoldsDown

\* Its values at the first places of the list are those of the fold from left to right.
LEMMA FoldGoes ==
  ASSUME NEW A, NEW E, NEW base \in A, NEW next \in [A \X E -> A], NEW s \in Seq(E),
         NEW iter, FallsTo(A, iter, base, next, s)
  PROVE  \E g \in [0 .. Len(s) -> A] : GoesUp(g, base, next, s, iter[1 .. Len(s)])
<1> DEFINE n == Len(s)
           S == {k \in 0 .. n : iter[1 .. k] \in A}
           g == [k \in 0 .. n |-> iter[1 .. k]]
<1>1. n \in Nat
  OBVIOUS
<1>2. iter[1 .. 0] = base
  <2>1. 1 .. 0 = {} /\ {} \in SUBSET (1 .. n)
    OBVIOUS
  <2> QED BY <2>1 DEF FallsTo
<1>3. ASSUME NEW k \in 1 .. n, iter[1 .. k - 1] \in A
      PROVE  iter[1 .. k] = next[<<iter[1 .. k - 1], s[k]>>] /\ s[k] \in E
  <2>1. k \in Nat /\ s[k] \in E /\ 1 .. k # {} /\ k \in 1 .. k
    BY <1>1
  <2>2. Max(1 .. k) = k
    BY <2>1, GreatestIs
  <2>3. (1 .. k) \ {k} = 1 .. k - 1
    OBVIOUS
  <2>4. 1 .. k \in SUBSET (1 .. n)
    OBVIOUS
  <2> QED BY <1>3, <2>1, <2>2, <2>3, <2>4 DEF FallsTo
<1>4. 0 \in S
  BY <1>1, <1>2
<1>5. ASSUME NEW k \in 1 .. n, k - 1 \in S PROVE k \in S
  <2>1. iter[1 .. k - 1] \in A /\ k \in 0 .. n
    BY <1>5
  <2> QED BY <1>3, <2>1
<1>6. \A k \in 0 .. n : k \in S
  <2> HIDE DEF S, n
  <2> QED BY <1>1, <1>4, <1>5, InTurn
<1>7. g \in [0 .. n -> A]
  BY <1>6
<1>8. g[0] = base /\ g[n] = iter[1 .. n]
  BY <1>1, <1>2
<1>9. \A k \in 1 .. n : g[k] = next[<<g[k - 1], s[k]>>]
  <2> TAKE k \in 1 .. n
  <2>1. g[k] = iter[1 .. k] /\ g[k - 1] = iter[1 .. k - 1] /\ g[k - 1] \in A
    BY <1>7
  <2> HIDE DEF g, n
  <2> QED BY <1>3, <2>1
<1> HIDE DEF g
<1> QED BY <1>7, <1>8, <1>9 DEF GoesUp

=============================================================================
