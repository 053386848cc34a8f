----------------------------- MODULE AnalyzerProofs -----------------------------
(***************************************************************************)
(* Analyzer's properties hold for every code and every table of symbols.   *)
(* The invariant has three parts: what the bits of collect_marks mean once *)
(* the flood has ended, which instructions analyze has collected, and which *)
(* pairs; the rest is what sorting and measuring runs do to sequences.     *)
(***************************************************************************)
EXTENDS Analyzer, InductionFacts, FiniteSetTheorems, SequenceTheorems

-----------------------------------------------------------------------------
(* Sequences as worklists: their elements, and whether each is there once. *)

Once(s) == \A j, k \in DOMAIN s : s[j] = s[k] => j = k

\* An element is at some place.
LEMMA AtPlace ==
  ASSUME NEW S, NEW s \in Seq(S)
  PROVE  /\ \A x : x \in Range(s) <=> \E k \in 1..Len(s) : s[k] = x
         /\ Range(s) \subseteq S
         /\ DOMAIN s = 1..Len(s) /\ Len(s) \in Nat
BY DEF Range

\* What is appended is one element more, and there once if it was not there.
LEMMA Appended ==
  ASSUME NEW S, NEW s \in Seq(S), NEW x \in S
  PROVE  /\ Append(s, x) \in Seq(S)
         /\ Range(Append(s, x)) = Range(s) \cup {x}
         /\ Once(s) /\ x \notin Range(s) => Once(Append(s, x))
<1> DEFINE t == Append(s, x)
<1>1. /\ t \in Seq(S) /\ Len(t) = Len(s) + 1 /\ t[Len(s) + 1] = x
      /\ \A k \in 1..Len(s) : t[k] = s[k]
  OBVIOUS
<1>2. \A k \in 1..Len(t) : k = Len(s) + 1 \/ k \in 1..Len(s) BY <1>1
<1>3. Len(s) + 1 \in 1..Len(t) /\ \A k \in 1..Len(s) : k \in 1..Len(t) BY <1>1
<1> HIDE DEF t
<1>4. ASSUME NEW y PROVE y \in Range(t) <=> y \in Range(s) \cup {x}
  BY <1>1, <1>2, <1>3, AtPlace
<1>5. ASSUME Once(s), x \notin Range(s) PROVE Once(t)
  BY <1>1, <1>2, <1>5, AtPlace DEF Once
<1> QED BY <1>1, <1>4, <1>5 DEF t

\* What is taken from the front leaves the others.
LEMMA Taken ==
  ASSUME NEW S, NEW s \in Seq(S), s # <<>>
  PROVE  /\ Head(s) \in S /\ Tail(s) \in Seq(S)
         /\ Range(s) = Range(Tail(s)) \cup {Head(s)}
         /\ Once(s) => Once(Tail(s)) /\ Head(s) \notin Range(Tail(s))
<1> DEFINE t == Tail(s)
<1>1. /\ t \in Seq(S) /\ Len(t) + 1 = Len(s) /\ Head(s) = s[1] /\ Head(s) \in S
      /\ \A k \in 1..Len(t) : t[k] = s[k + 1]
  OBVIOUS
<1>2. \A k \in 1..Len(s) : k = 1 \/ (k - 1 \in 1..Len(t) /\ (k - 1) + 1 = k) BY <1>1
<1>3. 1 \in 1..Len(s) /\ \A k \in 1..Len(t) : k + 1 \in 1..Len(s) /\ k + 1 # 1 BY <1>1
<1> HIDE DEF t
<1>4. ASSUME NEW y PROVE y \in Range(s) <=> y \in Range(t) \cup {Head(s)}
  <2>1. ASSUME y \in Range(s) PROVE y \in Range(t) \cup {Head(s)}
    <3>1. PICK k \in 1..Len(s) : s[k] = y BY <2>1, AtPlace
    <3>2. CASE k = 1 BY <1>1, <3>1, <3>2
    <3>3. CASE k - 1 \in 1..Len(t) /\ (k - 1) + 1 = k
      <4>1. t[k - 1] = y BY <1>1, <3>1, <3>3
      <4> QED BY <1>1, <3>3, <4>1, AtPlace
    <3> QED BY <1>2, <3>2, <3>3
  <2>2. ASSUME y \in Range(t) PROVE y \in Range(s)
    <3>1. PICK k \in 1..Len(t) : t[k] = y BY <1>1, <2>2, AtPlace
    <3>2. s[k + 1] = y /\ k + 1 \in 1..Len(s) BY <1>1, <1>3, <3>1
    <3> QED BY <3>2, AtPlace
  <2>3. Head(s) \in Range(s) BY <1>1, <1>3, AtPlace
  <2> QED BY <2>1, <2>2, <2>3
<1>5. ASSUME Once(s) PROVE Once(t) /\ Head(s) \notin Range(t)
  <2>1. ASSUME NEW j \in 1..Len(t), NEW k \in 1..Len(t), t[j] = t[k] PROVE j = k
    <3>1. s[j + 1] = s[k + 1] BY <1>1, <2>1
    <3>2. j + 1 = k + 1 BY <1>3, <1>5, <3>1, AtPlace DEF Once
    <3> QED BY <3>2
  <2>2. ASSUME NEW k \in 1..Len(t), t[k] = s[1] PROVE FALSE
    <3>1. s[k + 1] = s[1] BY <1>1, <2>2
    <3> QED BY <1>3, <1>5, <3>1, AtPlace DEF Once
  <2> QED BY <1>1, <2>1, <2>2, AtPlace DEF Once
<1> QED BY <1>1, <1>4, <1>5 DEF t

\* A sequence that holds each of its elements once is as long as their set.
LEMMA OnceLength ==
  ASSUME NEW S, NEW s \in Seq(S), Once(s)
  PROVE  EachOnce(s, Range(s))
<1>1. DOMAIN s = 1..Len(s) /\ Len(s) \in Nat OBVIOUS
<1>2. s \in Bijection(1..Len(s), Range(s))
  BY <1>1, SMTT(40) DEF Bijection, Injection, Surjection, IsInjective, Once, Range
<1>3. IsFiniteSet(1..Len(s)) /\ Cardinality(1..Len(s)) = Len(s)
  <2>1. PICK n \in Nat : n = Len(s) BY <1>1
  <2>2. IsFiniteSet(1..n) /\ Cardinality(1..n) = n BY FS_Interval, SMTT(40)
  <2> QED BY <2>1, <2>2
<1>4. Cardinality(Range(s)) = Len(s) BY <1>2, <1>3, FS_Bijection DEF ExistsBijection
<1> QED BY <1>4 DEF EachOnce, Range

-----------------------------------------------------------------------------
(* Sorting: insert puts a value in front of the first that it is less than. *)

\* A set of places that holds with each of them those in front of it.
LEMMA InFront ==
  ASSUME NEW n \in Nat, NEW J \in SUBSET (1..n), \A j \in J : \A i \in 1..j : i \in J
  PROVE  Cardinality(J) \in 0..n /\ J = 1..Cardinality(J)
<1>1. CASE J = {} BY <1>1, FS_EmptySet
<1>2. CASE J # {}
  <2>1. J \in SUBSET (0..n) OBVIOUS
  <2>2. PICK k \in J : \A j \in J : j <= k BY <1>2, <2>1, GreatestBelow
  <2>3. k \in 1..n OBVIOUS
  <2>4. J = 1..k
    <3>1. \A j \in J : j \in 1..n /\ j <= k BY <2>2
    <3>2. J \subseteq 1..k BY <2>3, <3>1
    <3>3. 1..k \subseteq J BY <2>2
    <3> QED BY <3>2, <3>3
  <2>5. Cardinality(1..k) = k BY <2>3, FS_Interval
  <2> QED BY <2>3, <2>4, <2>5
<1> QED BY <1>1, <1>2

Inserted(t, k, x) == SubSeq(t, 1, k) \o <<x>> \o SubSeq(t, k + 1, Len(t))

\* u is t with x after its first k elements.
IsInserted(u, t, k, x) ==
  /\ Len(u) = Len(t) + 1
  /\ \A i \in 1..k : u[i] = t[i]
  /\ u[k + 1] = x
  /\ \A i \in (k + 2)..(Len(t) + 1) : u[i] = t[i - 1]

\* Where the elements are after an insertion.
LEMMA InsertedPlaces ==
  ASSUME NEW S, NEW t \in Seq(S), NEW k \in 0..Len(t), NEW x \in S
  PROVE  Inserted(t, k, x) \in Seq(S) /\ IsInserted(Inserted(t, k, x), t, k, x)
<1> DEFINE a == SubSeq(t, 1, k)
           b == SubSeq(t, k + 1, Len(t))
           c == a \o <<x>>
<1>1. a \in Seq(S) /\ Len(a) = k /\ \A i \in 1..k : a[i] = t[i]
  BY SubSeqProperties
<1>2. b \in Seq(S) /\ Len(b) = Len(t) - k /\ \A i \in 1..(Len(t) - k) : b[i] = t[k + i]
  <2>1. k + 1 \in 1..(Len(t) + 1) /\ k + 1 \in Nat /\ Len(t) \in Nat OBVIOUS
  <2>2. \A i \in (k + 1)..Len(t) : i \in 1..Len(t) BY <2>1
  <2>3. \A i \in (k + 1)..Len(t) : t[i] \in S BY <2>2
  <2>4. b = [i \in 1..(Len(t) - k) |-> t[i + k]]
    <3>1. IF k + 1 <= Len(t) THEN Len(t) - (k + 1) + 1 = Len(t) - k ELSE Len(t) - k = 0 BY <2>1
    <3> QED BY <2>1, <2>3, <3>1, SubSeqProperties
  <2>5. \A i \in 1..(Len(t) - k) : t[i + k] \in S BY <2>1
  <2> HIDE DEF b
  <2>6. Len(t) - k \in Nat OBVIOUS
  <2>7. b \in Seq(S) BY <2>4, <2>5, <2>6, IsASeq
  <2>8. Len(b) = Len(t) - k BY <2>4, <2>6, <2>7, LenProperties
  <2>9. \A i \in 1..(Len(t) - k) : b[i] = t[k + i]
    <3>1. \A i \in 1..(Len(t) - k) : i + k = k + i OBVIOUS
    <3> QED BY <2>4, <3>1
  <2> QED BY <2>7, <2>8, <2>9
<1> HIDE DEF a, b
<1>3. c \in Seq(S) /\ Len(c) = k + 1 /\ c[k + 1] = x /\ \A i \in 1..k : c[i] = a[i]
  <2>1. <<x>> \in Seq(S) /\ Len(<<x>>) = 1 /\ <<x>>[1] = x OBVIOUS
  <2>2. /\ a \o <<x>> \in Seq(S) /\ Len(a \o <<x>>) = Len(a) + Len(<<x>>)
        /\ \A i \in 1..(Len(a) + Len(<<x>>)) :
             (a \o <<x>>)[i] = IF i <= Len(a) THEN a[i] ELSE <<x>>[i - Len(a)]
    BY <1>1, <2>1, ConcatProperties
  <2>3. (a \o <<x>>)[k + 1] = <<x>>[1]
    <3>1. k + 1 \in 1..(k + 1) /\ ~(k + 1 <= k) /\ (k + 1) - k = 1 OBVIOUS
    <3> QED BY <1>1, <2>1, <2>2, <3>1
  <2> QED BY <1>1, <2>1, <2>2, <2>3
<1> HIDE DEF c
<1> DEFINE d == c \o b
<1>4. /\ d \in Seq(S) /\ Len(d) = (k + 1) + (Len(t) - k)
      /\ \A i \in 1..((k + 1) + (Len(t) - k)) : d[i] = IF i <= k + 1 THEN c[i] ELSE b[i - (k + 1)]
  <2>1. /\ c \o b \in Seq(S) /\ Len(c \o b) = Len(c) + Len(b)
        /\ \A i \in 1..(Len(c) + Len(b)) :
             (c \o b)[i] = IF i <= Len(c) THEN c[i] ELSE b[i - Len(c)]
    BY <1>2, <1>3, ConcatProperties
  <2>2. Len(c) = k + 1 /\ Len(b) = Len(t) - k BY <1>2, <1>3
  <2> HIDE DEF d
  <2>3. d = c \o b BY DEF d
  <2> QED BY <2>1, <2>2, <2>3
<1> HIDE DEF d
<1>5. Inserted(t, k, x) = d BY DEF Inserted, a, b, c, d
<1>6. Len(d) = Len(t) + 1 BY <1>4
<1>7. (k + 1) + (Len(t) - k) = Len(t) + 1 /\ Len(t) \in Nat OBVIOUS
<1>8. \A i \in 1..k : d[i] = t[i]
  <2> SUFFICES ASSUME NEW i \in 1..k PROVE d[i] = t[i] OBVIOUS
  <2>1. i \in 1..(Len(t) + 1) /\ i <= k + 1 OBVIOUS
  <2> QED BY <1>1, <1>3, <1>4, <1>7, <2>1
<1>9. d[k + 1] = x
  <2>1. k + 1 \in 1..(Len(t) + 1) /\ k + 1 <= k + 1 OBVIOUS
  <2> QED BY <1>3, <1>4, <1>7, <2>1
<1>10. \A i \in (k + 2)..(Len(t) + 1) : d[i] = t[i - 1]
  <2> SUFFICES ASSUME NEW i \in (k + 2)..(Len(t) + 1) PROVE d[i] = t[i - 1] OBVIOUS
  <2>1. i \in 1..(Len(t) + 1) /\ ~(i <= k + 1) OBVIOUS
  <2>2. i - (k + 1) \in 1..(Len(t) - k) /\ k + (i - (k + 1)) = i - 1 OBVIOUS
  <2>3. d[i] = b[i - (k + 1)] BY <1>4, <1>7, <2>1
  <2> QED BY <1>2, <2>2, <2>3
<1> QED BY <1>4, <1>5, <1>6, <1>8, <1>9, <1>10 DEF IsInserted

PlaceOf(t, x, R) == Cardinality({j \in DOMAIN t : \A i \in 1..j : <<x, t[i]>> \notin R})

\* The place is in front of the first element that the value is less than.
LEMMA Places ==
  ASSUME NEW S, NEW t \in Seq(S), NEW x, NEW R
  PROVE  /\ PlaceOf(t, x, R) \in 0..Len(t)
         /\ \A i \in 1..PlaceOf(t, x, R) : <<x, t[i]>> \notin R
         /\ PlaceOf(t, x, R) < Len(t) => <<x, t[PlaceOf(t, x, R) + 1]>> \in R
<1> DEFINE J == {j \in DOMAIN t : \A i \in 1..j : <<x, t[i]>> \notin R}
           k == Cardinality(J)
<1>1. DOMAIN t = 1..Len(t) /\ Len(t) \in Nat OBVIOUS
<1>2. J \in SUBSET (1..Len(t)) /\ \A j \in J : \A i \in 1..j : i \in J
  <2> SUFFICES ASSUME NEW j \in J, NEW i \in 1..j PROVE i \in J BY <1>1
  <2>1. i \in 1..Len(t) /\ \A h \in 1..i : h \in 1..j BY <1>1
  <2> QED BY <1>1, <2>1
<1> HIDE DEF J
<1>3. k \in 0..Len(t) /\ J = 1..k BY <1>1, <1>2, InFront
<1> HIDE DEF k
<1>4. \A i \in 1..k : <<x, t[i]>> \notin R
  <2> SUFFICES ASSUME NEW i \in 1..k PROVE <<x, t[i]>> \notin R OBVIOUS
  <2>1. i \in J /\ i \in 1..i BY <1>3
  <2> QED BY <2>1 DEF J
<1>5. ASSUME k < Len(t), <<x, t[k + 1]>> \notin R PROVE FALSE
  <2>1. k + 1 \in 1..Len(t) BY <1>3, <1>5
  <2>2. \A i \in 1..(k + 1) : i = k + 1 \/ i \in 1..k BY <1>3
  <2>3. \A i \in 1..(k + 1) : <<x, t[i]>> \notin R BY <1>4, <1>5, <2>2
  <2>4. k + 1 \in J BY <1>1, <2>1, <2>3 DEF J
  <2> QED BY <1>3, <2>4
<1>6. PlaceOf(t, x, R) = k BY DEF PlaceOf, J, k
<1> QED BY <1>3, <1>4, <1>5, <1>6

\* A sort inserts one element after the other.
LEMMA SortSteps ==
  ASSUME NEW S, NEW s \in Seq(S), NEW R
  PROVE  \E f : /\ f[0] = <<>>
                /\ \A n \in 0..Len(s) : f[n] \in Seq(Range(s))
                /\ \A n \in 1..Len(s) :
                     f[n] = Inserted(f[n - 1], PlaceOf(f[n - 1], s[n], R), s[n])
                /\ Sorted(s, R) = f[Len(s)]
<1> DEFINE L == Len(s)
           X == Range(s)
           ins == [x \in X |-> [t \in Seq(X) |->
             LET k == Cardinality({j \in DOMAIN t : \A i \in 1..j : <<x, t[i]>> \notin R})
             IN  SubSeq(t, 1, k) \o <<x>> \o SubSeq(t, k + 1, Len(t))]]
           Sat(f) == f = [n \in 0..L |-> IF n = 0 THEN <<>> ELSE ins[s[n]][f[n - 1]]]
           step == [n \in 1..L |-> ins[s[n]]]
<1>1. L \in Nat /\ \A n \in 1..L : s[n] \in X BY AtPlace
<1>2. \A t \in Seq(X), x \in X :
        ins[x][t] = Inserted(t, PlaceOf(t, x, R), x) /\ ins[x][t] \in Seq(X)
  <2> SUFFICES ASSUME NEW t \in Seq(X), NEW x \in X
               PROVE  ins[x][t] = Inserted(t, PlaceOf(t, x, R), x) /\ ins[x][t] \in Seq(X)
    OBVIOUS
  <2>1. ins[x][t] = Inserted(t, PlaceOf(t, x, R), x) BY DEF Inserted, PlaceOf
  <2> HIDE DEF ins
  <2>2. PlaceOf(t, x, R) \in 0..Len(t) BY Places
  <2> QED BY <2>1, <2>2, InsertedPlaces
<1>3. Sorted(s, R) = (CHOOSE f : Sat(f))[L] BY DEF Sorted
<1> HIDE DEF ins, X, L
<1>4. \A n \in 1..L : step[n] = ins[s[n]] OBVIOUS
<1>5. \A n \in 1..L : \A t \in Seq(X) : step[n][t] \in Seq(X) BY <1>1, <1>2, <1>4
<1> HIDE DEF step
<1>6. <<>> \in Seq(X) OBVIOUS
<1>7. PICK g : IsRecursion(g, L, Seq(X), <<>>, step) BY <1>1, <1>5, <1>6, Recursion
<1>8. Sat(g)
  <2>1. \A n \in 0..L : n # 0 => n - 1 \in 0..L /\ n \in 1..L BY <1>1
  <2>2. g = [n \in 0..L |-> g[n]] BY <1>7 DEF IsRecursion
  <2>3. \A n \in 0..L : g[n] = IF n = 0 THEN <<>> ELSE ins[s[n]][g[n - 1]]
    BY <1>4, <1>7, <2>1 DEF IsRecursion
  <2> QED BY <2>2, <2>3
<1> DEFINE f == CHOOSE h : Sat(h)
<1>9. \E h : Sat(h) BY <1>8
<1>10. Sat(f)
  <2> HIDE DEF Sat
  <2> QED BY <1>9
<1> HIDE DEF f
<1>11. f[0] = <<>> BY <1>1, <1>10
<1>12. \A n \in 1..L : f[n] = ins[s[n]][f[n - 1]]
  <2>1. \A n \in 1..L : n \in 0..L /\ n # 0 BY <1>1
  <2> QED BY <1>10, <2>1
<1> HIDE DEF Sat
<1> DEFINE T == {n \in 0..L : f[n] \in Seq(X)}
<1>13. 0..L \subseteq T
  <2>1. 0 \in T
    <3>1. 0 \in 0..L /\ f[0] \in Seq(X) BY <1>1, <1>6, <1>11
    <3> QED BY <3>1
  <2>2. \A n \in 0..L : n < L /\ n \in T => n + 1 \in T
    <3> SUFFICES ASSUME NEW n \in 0..L, n < L, n \in T PROVE n + 1 \in T OBVIOUS
    <3>1. n + 1 \in 1..L /\ (n + 1) - 1 = n BY <1>1
    <3>2. f[n + 1] = ins[s[n + 1]][f[n]] BY <1>12, <3>1
    <3>3. f[n + 1] \in Seq(X) BY <1>1, <1>2, <3>1, <3>2
    <3> QED BY <1>1, <3>1, <3>3
  <2> HIDE DEF T
  <2> QED BY <1>1, <2>1, <2>2, IntervalInduction
<1>14. \A n \in 1..L : f[n] = Inserted(f[n - 1], PlaceOf(f[n - 1], s[n], R), s[n])
  <2> SUFFICES ASSUME NEW n \in 1..L
               PROVE  f[n] = Inserted(f[n - 1], PlaceOf(f[n - 1], s[n], R), s[n])
    OBVIOUS
  <2>1. n - 1 \in 0..L BY <1>1
  <2>2. f[n - 1] \in Seq(X) BY <1>13, <2>1
  <2> QED BY <1>1, <1>2, <1>12, <2>2
<1> QED BY <1>3, <1>11, <1>13, <1>14 DEF f, X, L

\* An order p of the numbers to n.
Order(p, n) == /\ p \in [1..n -> 1..n]
               /\ \A i, j \in 1..n : p[i] = p[j] => i = j
               /\ \A j \in 1..n : \E i \in 1..n : p[i] = j

\* The first n elements of s, in the order p, are those of t.
Reorders(p, n, s, t) == Order(p, n) /\ Len(t) = n /\ \A i \in 1..n : t[i] = s[p[i]]

\* Inserting the next element at any place keeps the order one of all so far.
LEMMA InsertReorders ==
  ASSUME NEW S, NEW s \in Seq(S), NEW n \in 1..Len(s), NEW t \in Seq(S),
         NEW p, Reorders(p, n - 1, s, t), NEW k \in 0..(n - 1)
  PROVE  \E r : Reorders(r, n, s, Inserted(t, k, s[n]))
<1> DEFINE r == [i \in 1..n |-> IF i <= k THEN p[i] ELSE IF i = k + 1 THEN n ELSE p[i - 1]]
           u == Inserted(t, k, s[n])
<1>1. s[n] \in S /\ n \in Nat /\ n >= 1 /\ k \in Int /\ Len(t) = n - 1 BY DEF Reorders
<1>2. /\ \A i \in 1..k : u[i] = t[i]
      /\ u[k + 1] = s[n]
      /\ \A i \in (k + 2)..n : u[i] = t[i - 1]
      /\ Len(u) = n
  <2>1. k \in 0..Len(t) /\ Len(t) + 1 = n BY <1>1
  <2>2. PICK x \in S : x = s[n] BY <1>1
  <2>3. IsInserted(Inserted(t, k, x), t, k, x) BY <2>1, InsertedPlaces
  <2> QED BY <2>1, <2>2, <2>3 DEF IsInserted
<1> HIDE DEF u
<1>10. /\ \A i \in 1..(n - 1) : p[i] \in 1..(n - 1)
       /\ \A i, j \in 1..(n - 1) : p[i] = p[j] => i = j
       /\ \A j \in 1..(n - 1) : \E i \in 1..(n - 1) : p[i] = j
       /\ \A i \in 1..(n - 1) : t[i] = s[p[i]]
  BY DEF Reorders, Order
<1>3. \A i \in 1..n : \/ i \in 1..k /\ i \in 1..(n - 1) /\ r[i] = p[i]
                      \/ i = k + 1 /\ r[i] = n
                      \/ i \in (k + 2)..n /\ i - 1 \in 1..(n - 1) /\ i - 1 > k /\ r[i] = p[i - 1]
  <2> SUFFICES ASSUME NEW i \in 1..n
               PROVE  \/ i \in 1..k /\ i \in 1..(n - 1) /\ r[i] = p[i]
                      \/ i = k + 1 /\ r[i] = n
                      \/ i \in (k + 2)..n /\ i - 1 \in 1..(n - 1) /\ i - 1 > k /\ r[i] = p[i - 1]
    OBVIOUS
  <2>1. CASE i <= k BY <2>1
  <2>2. CASE i = k + 1 BY <2>2
  <2>3. CASE i > k + 1 BY <2>3
  <2> QED BY <2>1, <2>2, <2>3
<1>4. r \in [1..n -> 1..n]
  <2> SUFFICES ASSUME NEW i \in 1..n PROVE r[i] \in 1..n OBVIOUS
  <2> HIDE DEF r
  <2>1. \A m \in 1..(n - 1) : p[m] \in 1..n
    <3>1. \A m \in 1..(n - 1) : m \in 1..n OBVIOUS
    <3> QED BY <1>10, <3>1
  <2>2. n \in 1..n BY <1>1
  <2> QED BY <1>3, <2>1, <2>2
<1> HIDE DEF r
<1>5. \A m \in 1..(n - 1) : p[m] # n
  <2>1. \A m \in 1..(n - 1) : m # n BY <1>1
  <2> QED BY <1>10, <2>1
<1>6. \A i, j \in 1..n : r[i] = r[j] => i = j
  <2> SUFFICES ASSUME NEW i \in 1..n, NEW j \in 1..n, r[i] = r[j] PROVE i = j OBVIOUS
  <2>1. CASE i = k + 1
    <3>1. r[i] = n BY <1>3, <2>1
    <3> QED BY <1>3, <1>5, <2>1, <3>1
  <2>2. CASE j = k + 1
    <3>1. r[j] = n BY <1>3, <2>2
    <3> QED BY <1>3, <1>5, <2>2, <3>1
  <2>3. CASE i # k + 1 /\ j # k + 1
    <3>1. /\ \/ i \in 1..k /\ i \in 1..(n - 1) /\ r[i] = p[i]
             \/ i - 1 \in 1..(n - 1) /\ i - 1 > k /\ r[i] = p[i - 1]
          /\ \/ j \in 1..k /\ j \in 1..(n - 1) /\ r[j] = p[j]
             \/ j - 1 \in 1..(n - 1) /\ j - 1 > k /\ r[j] = p[j - 1]
      BY <1>3, <2>3
    <3>2. CASE i \in 1..k /\ j \in 1..k
      <4>1. ~(i - 1 > k) /\ ~(j - 1 > k) BY <3>2
      <4> QED BY <1>10, <3>1, <4>1
    <3>3. CASE i - 1 > k /\ j - 1 > k
      <4>3. /\ i - 1 \in 1..(n - 1) /\ j - 1 \in 1..(n - 1)
            /\ r[i] = p[i - 1] /\ r[j] = p[j - 1]
        BY <3>1, <3>3
      <4>4. PICK x \in 1..(n - 1), y \in 1..(n - 1) : x = i - 1 /\ y = j - 1 /\ p[x] = p[y]
        BY <4>3
      <4>5. x = y BY <1>10, <4>4
      <4>1. i - 1 = j - 1 BY <4>4, <4>5
      <4>2. i \in Int /\ j \in Int OBVIOUS
      <4> QED BY <4>1, <4>2
    <3>4. CASE i \in 1..k /\ j - 1 > k
      <4>1. i = j - 1 BY <1>10, <3>1, <3>4
      <4> QED BY <3>4, <4>1
    <3>5. CASE j \in 1..k /\ i - 1 > k
      <4>1. j = i - 1 BY <1>10, <3>1, <3>5
      <4> QED BY <3>5, <4>1
    <3> QED BY <3>1, <3>2, <3>3, <3>4, <3>5
  <2> QED BY <2>1, <2>2, <2>3
<1>7. \A j \in 1..n : \E i \in 1..n : r[i] = j
  <2> SUFFICES ASSUME NEW j \in 1..n PROVE \E i \in 1..n : r[i] = j OBVIOUS
  <2>1. CASE j = n
    <3>1. k + 1 \in 1..n /\ k + 1 \notin 1..k /\ k + 1 \notin (k + 2)..n BY <1>1
    <3>2. r[k + 1] = n BY <1>3, <3>1
    <3> QED BY <2>1, <3>1, <3>2
  <2>2. CASE j # n
    <3>1. j \in 1..(n - 1) BY <2>2
    <3>2. PICK h \in 1..(n - 1) : p[h] = j BY <1>10, <3>1
    <3>3. CASE h <= k
      <4>1. h \in 1..n /\ h # k + 1 /\ h \notin (k + 2)..n BY <3>3
      <4>2. r[h] = p[h] BY <1>3, <4>1
      <4> QED BY <3>2, <4>1, <4>2
    <3>4. CASE h > k
      <4>1. h + 1 \in 1..n /\ h + 1 # k + 1 /\ h + 1 \notin 1..k /\ (h + 1) - 1 = h BY <3>4
      <4>2. r[h + 1] = p[h] BY <1>3, <4>1
      <4> QED BY <3>2, <4>1, <4>2
    <3>5. h \in Int /\ k \in Int BY <3>2
    <3>6. h <= k \/ h > k BY <3>5
    <3> QED BY <3>3, <3>4, <3>6
  <2> QED BY <2>1, <2>2
<1>8. \A i \in 1..n : u[i] = s[r[i]]
  <2> SUFFICES ASSUME NEW i \in 1..n PROVE u[i] = s[r[i]] OBVIOUS
  <2>1. CASE i \in 1..k /\ i \in 1..(n - 1) /\ r[i] = p[i] BY <1>2, <1>10, <2>1
  <2>2. CASE i = k + 1 /\ r[i] = n BY <1>2, <2>2
  <2>3. CASE i \in (k + 2)..n /\ i - 1 \in 1..(n - 1) /\ r[i] = p[i - 1]
    <3>1. PICK m \in 1..(n - 1) : m = i - 1 /\ r[i] = p[m] BY <2>3
    <3>2. p[m] \in 1..(n - 1) /\ t[m] = s[p[m]] BY <1>10
    <3>3. u[i] = t[m] BY <1>2, <2>3, <3>1
    <3> QED BY <3>1, <3>2, <3>3
  <2>4. \/ i \in 1..k /\ i \in 1..(n - 1) /\ r[i] = p[i]
        \/ i = k + 1 /\ r[i] = n
        \/ i \in (k + 2)..n /\ i - 1 \in 1..(n - 1) /\ r[i] = p[i - 1]
    BY <1>3, ZenonT(40)
  <2> QED BY <2>1, <2>2, <2>3, <2>4, Zenon
<1>9. Reorders(r, n, s, u) BY <1>2, <1>4, <1>6, <1>7, <1>8 DEF Reorders, Order
<1> QED BY <1>9 DEF u

\* A sort leaves the elements of a sequence in some order, by whatever R.
LEMMA SortReorders ==
  ASSUME NEW S, NEW s \in Seq(S), NEW R
  PROVE  Sorted(s, R) \in Seq(Range(s)) /\ \E p : Reorders(p, Len(s), s, Sorted(s, R))
<1> DEFINE L == Len(s)
           X == Range(s)
<1>1. PICK f : /\ f[0] = <<>>
               /\ \A n \in 0..L : f[n] \in Seq(X)
               /\ \A n \in 1..L : f[n] = Inserted(f[n - 1], PlaceOf(f[n - 1], s[n], R), s[n])
               /\ Sorted(s, R) = f[L]
  BY SortSteps
<1>2. L \in Nat /\ s \in Seq(X) /\ \A n \in 1..L : s[n] \in X BY AtPlace
<1> DEFINE T == {n \in 0..L : \E p : Reorders(p, n, s, f[n])}
<1> HIDE DEF L, X
<1>3. 0 \in T
  <2>1. Order([i \in 1..0 |-> 1], 0) BY DEF Order
  <2>2. Reorders([i \in 1..0 |-> 1], 0, s, <<>>) BY <2>1 DEF Reorders
  <2>3. 0 \in 0..L /\ \E p : Reorders(p, 0, s, f[0]) BY <1>1, <1>2, <2>2
  <2> QED BY <2>3
<1>4. \A n \in 0..L : n < L /\ n \in T => n + 1 \in T
  <2> SUFFICES ASSUME NEW n \in 0..L, n < L, n \in T PROVE n + 1 \in T OBVIOUS
  <2>1. PICK p : Reorders(p, n, s, f[n]) OBVIOUS
  <2>2. PICK m \in 1..L : m = n + 1 BY <1>2
  <2>3. m - 1 = n /\ m \in 0..L /\ m \in 1..Len(s) BY <2>2 DEF L
  <2>4. PICK t \in Seq(X) : t = f[n] BY <1>1
  <2>5. PICK k : k = PlaceOf(t, s[m], R) OBVIOUS
  <2>6. f[m] = Inserted(t, k, s[m]) BY <1>1, <2>3, <2>4, <2>5
  <2>7. Reorders(p, m - 1, s, t) BY <2>1, <2>3, <2>4
  <2>8. k \in 0..(m - 1)
    <3>1. k \in 0..Len(t) BY <2>5, Places
    <3> QED BY <2>7, <3>1 DEF Reorders
  <2>9. \E r : Reorders(r, m, s, Inserted(t, k, s[m])) BY <1>2, <2>3, <2>7, <2>8, InsertReorders
  <2> QED BY <2>2, <2>3, <2>6, <2>9
<1> HIDE DEF T
<1>5. 0..L \subseteq T BY <1>2, <1>3, <1>4, IntervalInduction
<1>6. L \in T /\ f[L] \in Seq(X) BY <1>1, <1>2, <1>5
<1> QED BY <1>1, <1>6 DEF T, L, X

\* So the elements are the same, and those there once still are.
LEMMA SortKeeps ==
  ASSUME NEW S, NEW s \in Seq(S), NEW R
  PROVE  /\ Sorted(s, R) \in Seq(S)
         /\ Range(Sorted(s, R)) = Range(s)
         /\ Len(Sorted(s, R)) = Len(s)
         /\ Once(s) => Once(Sorted(s, R))
<1>1. PICK t : t = Sorted(s, R) OBVIOUS
<1>2. PICK p : Reorders(p, Len(s), s, t) BY <1>1, SortReorders
<1>3. t \in Seq(S)
  <2>1. Range(s) \subseteq S /\ t \in Seq(Range(s)) BY <1>1, SortReorders, AtPlace
  <2> QED BY <2>1
<1>4. /\ Len(t) = Len(s)
      /\ \A i \in 1..Len(s) : p[i] \in 1..Len(s) /\ t[i] = s[p[i]]
      /\ \A i, j \in 1..Len(s) : p[i] = p[j] => i = j
      /\ \A j \in 1..Len(s) : \E i \in 1..Len(s) : p[i] = j
  BY <1>2 DEF Reorders, Order
<1>5. Range(t) = Range(s)
  <2>1. ASSUME NEW y, y \in Range(t) PROVE y \in Range(s)
    <3>1. PICK i \in 1..Len(s) : t[i] = y BY <1>3, <1>4, <2>1, AtPlace
    <3>2. p[i] \in 1..Len(s) /\ s[p[i]] = y BY <1>4, <3>1
    <3> QED BY <3>2, AtPlace
  <2>2. ASSUME NEW y, y \in Range(s) PROVE y \in Range(t)
    <3>1. PICK j \in 1..Len(s) : s[j] = y BY <2>2, AtPlace
    <3>2. PICK i \in 1..Len(s) : p[i] = j BY <1>4
    <3>3. t[i] = y BY <1>4, <3>1, <3>2
    <3> QED BY <1>3, <1>4, <3>3, AtPlace
  <2> QED BY <2>1, <2>2
<1>6. ASSUME Once(s) PROVE Once(t)
  <2>1. DOMAIN s = 1..Len(s) /\ DOMAIN t = 1..Len(s) BY <1>3, <1>4, AtPlace
  <2>2. ASSUME NEW i \in 1..Len(s), NEW j \in 1..Len(s), t[i] = t[j] PROVE i = j
    <3>1. s[p[i]] = s[p[j]] /\ p[i] \in 1..Len(s) /\ p[j] \in 1..Len(s) BY <1>4, <2>2
    <3>2. p[i] = p[j] BY <1>6, <2>1, <3>1 DEF Once
    <3> QED BY <1>4, <3>2
  <2> QED BY <2>1, <2>2 DEF Once
<1> QED BY <1>1, <1>3, <1>4, <1>5, <1>6

\* A relation by which a sequence can be sorted.
Sortable(R, X) == /\ \A x, y \in X : <<x, y>> \in R => <<y, x>> \notin R
                  /\ \A x, y, z \in X : <<x, y>> \in R /\ <<y, z>> \in R => <<x, z>> \in R

\* No element is less than one in front of it.
InOrder(t, R) == \A i, j \in 1..Len(t) : i < j => <<t[j], t[i]>> \notin R

\* Insertion keeps a sequence in order.
LEMMA InsertInOrder ==
  ASSUME NEW X, NEW R, Sortable(R, X), NEW t \in Seq(X), InOrder(t, R), NEW x \in X
  PROVE  InOrder(Inserted(t, PlaceOf(t, x, R), x), R)
<1>1. PICK k : k = PlaceOf(t, x, R) OBVIOUS
<1>2. /\ k \in 0..Len(t)
      /\ \A i \in 1..k : <<x, t[i]>> \notin R
      /\ k < Len(t) => <<x, t[k + 1]>> \in R
  BY <1>1, Places
<1>3. PICK u : u = Inserted(t, k, x) OBVIOUS
<1>4. IsInserted(u, t, k, x) BY <1>2, <1>3, InsertedPlaces
<1>5. PICK n \in Nat : n = Len(t) OBVIOUS
<1>6. \A i \in 1..n : t[i] \in X BY <1>5
<1>7. \A h \in 1..n : h > k => <<t[h], x>> \notin R
  <2> SUFFICES ASSUME NEW h \in 1..n, h > k, <<t[h], x>> \in R PROVE FALSE OBVIOUS
  <2>1. k + 1 \in 1..n /\ k < n BY <1>2, <1>5
  <2>2. <<x, t[k + 1]>> \in R /\ t[k + 1] \in X /\ t[h] \in X BY <1>2, <1>5, <1>6, <2>1
  <2>3. <<t[h], t[k + 1]>> \in R BY <2>2 DEF Sortable
  <2>4. CASE h = k + 1 BY <2>2, <2>3, <2>4 DEF Sortable
  <2>5. CASE h > k + 1 BY <1>5, <2>1, <2>3, <2>5 DEF InOrder
  <2>6. h \in Int /\ k \in Int BY <1>2
  <2>7. h = k + 1 \/ h > k + 1 BY <2>6
  <2> QED BY <2>4, <2>5, <2>7
<1>8. \A i \in 1..(n + 1) : \/ i \in 1..k /\ i \in 1..n /\ u[i] = t[i]
                            \/ i = k + 1 /\ u[i] = x
                            \/ i > k + 1 /\ i - 1 \in 1..n /\ i - 1 > k /\ u[i] = t[i - 1]
  <2> SUFFICES ASSUME NEW i \in 1..(n + 1)
               PROVE  \/ i \in 1..k /\ i \in 1..n /\ u[i] = t[i]
                      \/ i = k + 1 /\ u[i] = x
                      \/ i > k + 1 /\ i - 1 \in 1..n /\ i - 1 > k /\ u[i] = t[i - 1]
    OBVIOUS
  <2>1. i \in Int /\ k \in Int /\ k <= n BY <1>2, <1>5
  <2>2. CASE i <= k
    <3>1. i \in 1..k /\ i \in 1..n BY <2>1, <2>2
    <3> QED BY <1>4, <3>1 DEF IsInserted
  <2>3. CASE i = k + 1 BY <1>4, <2>3 DEF IsInserted
  <2>4. CASE i > k + 1
    <3>1. i \in (k + 2)..(n + 1) /\ i - 1 \in 1..n /\ i - 1 > k BY <1>2, <2>1, <2>4
    <3> QED BY <1>4, <1>5, <2>4, <3>1 DEF IsInserted
  <2> QED BY <2>1, <2>2, <2>3, <2>4
<1>9. ASSUME NEW i \in 1..(n + 1), NEW j \in 1..(n + 1), i < j PROVE <<u[j], u[i]>> \notin R
  <2>1. i \in Int /\ j \in Int /\ k \in Int BY <1>2
  <2>2. CASE i = k + 1
    <3>1. j - 1 \in 1..n /\ j - 1 > k /\ u[j] = t[j - 1] /\ u[i] = x
      <4>1. j \notin 1..k /\ j # k + 1 /\ i \notin 1..k /\ ~(i > k + 1) BY <1>9, <2>1, <2>2
      <4> QED BY <1>8, <4>1
    <3> QED BY <1>7, <3>1
  <2>3. CASE j = k + 1
    <3>1. i \in 1..k /\ u[i] = t[i] /\ u[j] = x
      <4>1. i # k + 1 /\ ~(i > k + 1) /\ ~(j > k + 1) /\ j \notin 1..k BY <1>9, <2>1, <2>3
      <4> QED BY <1>8, <4>1
    <3> QED BY <1>2, <3>1
  <2>4. CASE i # k + 1 /\ j # k + 1
    <3>1. PICK a \in 1..n : u[i] = t[a] /\ ((i <= k /\ a = i) \/ (i > k + 1 /\ a = i - 1))
      BY <1>8, <2>1, <2>4
    <3>2. PICK b \in 1..n : u[j] = t[b] /\ ((j <= k /\ b = j) \/ (j > k + 1 /\ b = j - 1))
      BY <1>8, <2>1, <2>4
    <3>3. a < b BY <1>9, <2>1, <3>1, <3>2
    <3> QED BY <1>5, <3>1, <3>2, <3>3 DEF InOrder
  <2> QED BY <2>2, <2>3, <2>4
<1>10. Len(u) = n + 1 BY <1>4, <1>5 DEF IsInserted
<1> QED BY <1>1, <1>3, <1>9, <1>10 DEF InOrder

\* A sort by an order puts the elements in order.
LEMMA SortOrders ==
  ASSUME NEW S, NEW s \in Seq(S), NEW R, Sortable(R, Range(s))
  PROVE  InOrder(Sorted(s, R), R)
<1> DEFINE L == Len(s)
           X == Range(s)
<1>1. PICK f : /\ f[0] = <<>>
               /\ \A n \in 0..L : f[n] \in Seq(X)
               /\ \A n \in 1..L : f[n] = Inserted(f[n - 1], PlaceOf(f[n - 1], s[n], R), s[n])
               /\ Sorted(s, R) = f[L]
  BY SortSteps
<1>2. L \in Nat /\ \A n \in 1..L : s[n] \in X BY AtPlace
<1> DEFINE T == {n \in 0..L : InOrder(f[n], R)}
<1>3. Sortable(R, X) OBVIOUS
<1> HIDE DEF L, X
<1>4. 0 \in T
  <2>1. InOrder(<<>>, R) BY DEF InOrder
  <2>2. 0 \in 0..L /\ InOrder(f[0], R) BY <1>1, <1>2, <2>1
  <2> QED BY <2>2
<1>5. \A n \in 0..L : n < L /\ n \in T => n + 1 \in T
  <2> SUFFICES ASSUME NEW n \in 0..L, n < L, n \in T PROVE n + 1 \in T OBVIOUS
  <2>1. PICK m \in 1..L : m = n + 1 BY <1>2
  <2>2. m - 1 = n /\ m \in 0..L BY <2>1
  <2>3. PICK t \in Seq(X) : t = f[n] BY <1>1
  <2>4. InOrder(t, R) /\ s[m] \in X BY <1>2, <2>3
  <2>5. f[m] = Inserted(t, PlaceOf(t, s[m], R), s[m]) BY <1>1, <2>2, <2>3
  <2>6. InOrder(Inserted(t, PlaceOf(t, s[m], R), s[m]), R) BY <1>3, <2>4, InsertInOrder
  <2> QED BY <2>1, <2>2, <2>5, <2>6
<1> HIDE DEF T
<1>6. 0..L \subseteq T BY <1>2, <1>4, <1>5, IntervalInduction
<1>7. L \in T BY <1>2, <1>6
<1> QED BY <1>1, <1>7 DEF T
-----------------------------------------------------------------------------
(* The public symbols, and what is reachable from them. *)

\* The worklists start with each public offset once.
LEMMA SymbolsOnce ==
  ASSUME NEW S, publics \in Seq(S)
  PROVE  Symbols \in Seq(S) /\ Range(Symbols) = SymbolSet /\ Once(Symbols) /\ SymbolSet \subseteq S
<1> DEFINE L == Len(publics)
           known(n) == \E k \in 1..(n - 1) : publics[k] = publics[n]
           add == [n \in 1..L |-> [t \in Seq(S) |-> IF known(n) THEN t ELSE Append(t, publics[n])]]
           Sat(f) == f = [n \in 0..L |-> IF n = 0 THEN <<>>
                                         ELSE IF \E k \in 1..(n - 1) : publics[k] = publics[n]
                                                THEN f[n - 1]
                                         ELSE Append(f[n - 1], publics[n])]
           f == CHOOSE g : Sat(g)
           To(n) == {publics[k] : k \in 1..n}
           T == {n \in 0..L : f[n] \in Seq(S) /\ Range(f[n]) = To(n) /\ Once(f[n])}
<1>1. L \in Nat /\ \A n \in 1..L : publics[n] \in S BY AtPlace
<1>2. Symbols = f[L] BY DEF Symbols
<1>3. SymbolSet = To(L) /\ SymbolSet \subseteq S BY <1>1 DEF SymbolSet
<1> HIDE DEF L
<1>4. \A n \in 1..L : \A t \in Seq(S) :
        add[n][t] = (IF known(n) THEN t ELSE Append(t, publics[n])) /\ add[n][t] \in Seq(S)
  BY <1>1
<1> HIDE DEF add
<1>5. PICK g : IsRecursion(g, L, Seq(S), <<>>, add)
  <2>1. \A n \in 1..L : \A t \in Seq(S) : add[n][t] \in Seq(S) BY <1>4
  <2>2. <<>> \in Seq(S) OBVIOUS
  <2> QED BY <1>1, <2>1, <2>2, Recursion
<1>6. Sat(g)
  <2>1. \A n \in 0..L : n # 0 => n - 1 \in 0..L /\ n \in 1..L BY <1>1
  <2>2. g = [n \in 0..L |-> g[n]] BY <1>5 DEF IsRecursion
  <2>3. \A n \in 0..L : n # 0 => g[n] = (IF known(n) THEN g[n - 1] ELSE Append(g[n - 1], publics[n]))
    BY <1>4, <1>5, <2>1 DEF IsRecursion
  <2>4. g[0] = <<>> BY <1>5 DEF IsRecursion
  <2>5. \A n \in 0..L : g[n] = IF n = 0 THEN <<>> ELSE IF known(n) THEN g[n - 1]
                               ELSE Append(g[n - 1], publics[n])
    BY <2>3, <2>4
  <2> QED BY <2>2, <2>5
<1>7. Sat(f)
  <2>1. \E h : Sat(h) BY <1>6
  <2> HIDE DEF Sat
  <2> QED BY <2>1
<1> HIDE DEF f
<1>8. f[0] = <<>>
  <2>1. 0 \in 0..L BY <1>1
  <2> QED BY <1>7, <2>1
<1>9. \A n \in 1..L : f[n] = IF known(n) THEN f[n - 1] ELSE Append(f[n - 1], publics[n])
  <2>1. \A n \in 1..L : n \in 0..L /\ n # 0 BY <1>1
  <2> QED BY <1>7, <2>1
<1> HIDE DEF Sat
<1>10. 0 \in T
  <2>1. f[0] \in Seq(S) /\ Range(f[0]) = {} /\ Once(f[0]) BY <1>8 DEF Range, Once
  <2>2. To(0) = {} /\ 0 \in 0..L BY <1>1
  <2> HIDE DEF To
  <2> QED BY <2>1, <2>2
<1>11. \A n \in 0..L : n < L /\ n \in T => n + 1 \in T
  <2> SUFFICES ASSUME NEW n \in 0..L, n < L, n \in T PROVE n + 1 \in T OBVIOUS
  <2>1. PICK m \in 1..L : m = n + 1 BY <1>1
  <2>2. m - 1 = n /\ m \in 0..L BY <2>1
  <2>3. PICK x \in S : x = publics[m] BY <1>1
  <2>4. PICK t \in Seq(S) : t = f[n] OBVIOUS
  <2>5. Range(t) = To(n) /\ Once(t) BY <2>4
  <2>6. To(m) = To(n) \cup {x}
    <3>1. \A k \in 1..m : k = m \/ k \in 1..n BY <2>1
    <3>2. m \in 1..m /\ \A k \in 1..n : k \in 1..m BY <2>1
    <3> QED BY <2>3, <3>1, <3>2
  <2>7. known(m) <=> x \in To(n) BY <2>2, <2>3
  <2> HIDE DEF To, known
  <2>8. CASE known(m)
    <3>1. f[m] = t BY <1>9, <2>2, <2>4, <2>8
    <3>2. To(m) = To(n) BY <2>6, <2>7, <2>8
    <3> QED BY <2>1, <2>2, <2>5, <3>1, <3>2
  <2>9. CASE ~known(m)
    <3>1. f[m] = Append(t, x) BY <1>9, <2>2, <2>3, <2>4, <2>9
    <3>2. x \notin Range(t) BY <2>5, <2>7, <2>9
    <3>3. f[m] \in Seq(S) /\ Range(f[m]) = To(m) /\ Once(f[m])
      BY <2>5, <2>6, <3>1, <3>2, Appended
    <3> QED BY <2>1, <2>2, <3>3
  <2> QED BY <2>8, <2>9
<1> HIDE DEF T
<1>12. 0..L \subseteq T BY <1>1, <1>10, <1>11, IntervalInduction
<1>13. L \in T BY <1>1, <1>12
<1> QED BY <1>2, <1>3, <1>13 DEF T

\* What the properties take from the code and its symbols.
CodeFacts ==
  /\ Len(program) \in Nat \ {0} /\ Offsets = 1..Len(program)
  /\ \A i \in Offsets : program[i].op \in Ops /\ (program[i].op = "EOF" <=> i = Len(program))
  /\ \A i \in Offsets : program[i].op \in Branches => program[i].a \in Offsets
  /\ publics \in Seq(Offsets)

FileInv == program \in Programs /\ publics \in Publics

LEMMA CodeOf == FileInv => CodeFacts
<1> SUFFICES ASSUME FileInv PROVE CodeFacts OBVIOUS
<1>1. IsCode(program) /\ \A i \in DOMAIN program : program[i].op \in Branches => program[i].a \in DOMAIN program
  BY AnalyzerAssumption DEF FileInv
<1>2. publics \in Seq(DOMAIN program) BY AnalyzerAssumption DEF FileInv
<1>3. program \in Seq(Instruction) /\ program # <<>> /\ \A i \in DOMAIN program : program[i].op = "EOF" <=> i = Len(program)
  BY <1>1 DEF IsCode
<1>4. DOMAIN program = 1..Len(program) /\ Len(program) \in Nat /\ Len(program) # 0 BY <1>3
<1>5. \A i \in 1..Len(program) : program[i] \in Instruction BY <1>3
<1>6. \A i \in 1..Len(program) : program[i].op \in Ops BY <1>5 DEF Instruction
<1> QED BY <1>1, <1>2, <1>3, <1>4, <1>6 DEF CodeFacts, Offsets

\* Where control may go from a position is in the code.
LEMMA GoesInCode ==
  ASSUME CodeFacts
  PROVE  /\ \A i \in Offsets : Falls(i) \cup Target(i) \subseteq Offsets
         /\ \A i \in Offsets : program[i].op # "EOF" => i + 1 \in Offsets
<1>1. \A i \in Offsets : program[i].op # "EOF" => i + 1 \in Offsets BY DEF CodeFacts
<1>2. \A i \in Offsets : Target(i) \subseteq Offsets BY DEF CodeFacts, Target
<1>3. \A i \in Offsets : Falls(i) \subseteq Offsets BY <1>1 DEF Falls
<1> QED BY <1>1, <1>2, <1>3

\* A proper subset has fewer elements, and one as large as the set is the set.
LEMMA Larger ==
  ASSUME NEW B, IsFiniteSet(B), NEW A \in SUBSET B, A # B
  PROVE  /\ IsFiniteSet(A) /\ Cardinality(A) \in Nat /\ Cardinality(B) \in Nat
         /\ Cardinality(A) < Cardinality(B)
<1>1. /\ IsFiniteSet(A) /\ Cardinality(A) <= Cardinality(B)
      /\ Cardinality(A) = Cardinality(B) => A = B
  BY FS_Subset
<1>2. Cardinality(A) \in Nat /\ Cardinality(B) \in Nat BY <1>1, FS_CardinalityType
<1> QED BY <1>1, <1>2

Closed(A) == \A i \in A : Falls(i) \cup Target(i) \subseteq A

\* As many rounds as the code has positions reach everything that can be
\* reached: a round adds a position, or no further round does.
LEMMA ReachableIsClosed ==
  ASSUME CodeFacts, SymbolSet \subseteq Offsets
  PROVE  /\ SymbolSet \subseteq Reachable /\ Reachable \subseteq Offsets /\ Closed(Reachable)
         /\ \A A : SymbolSet \subseteq A /\ Closed(A) => Reachable \subseteq A
<1> DEFINE L == Len(program)
           more(A) == A \cup UNION {Falls(i) \cup Target(i) : i \in A}
           X == SUBSET Offsets
           step == [n \in 1..L |-> [A \in X |-> more(A)]]
           Sat(R) == R = [n \in 0..L |-> IF n = 0 THEN SymbolSet
                            ELSE R[n - 1] \cup UNION {Falls(i) \cup Target(i) : i \in R[n - 1]}]
           R == CHOOSE g : Sat(g)
           T == {n \in 0..L : /\ R[n] \in X /\ SymbolSet \subseteq R[n]
                              /\ Cardinality(R[n]) >= n \/ more(R[n]) = R[n]}
           U == {n \in 0..L : \A A : SymbolSet \subseteq A /\ Closed(A) => R[n] \subseteq A}
<1>1. L \in Nat /\ Offsets = 1..L BY DEF CodeFacts
<1>2. Reachable = R[L] BY DEF Reachable
<1> HIDE DEF L
<1>3. \A A \in X : more(A) \in X /\ A \subseteq more(A) BY GoesInCode
<1>4. \A A : Closed(A) <=> more(A) = A BY DEF Closed
<1>5. \A n \in 1..L : \A A \in X : step[n][A] = more(A) OBVIOUS
<1> HIDE DEF step
<1>6. PICK g : IsRecursion(g, L, X, SymbolSet, step)
  <2>1. \A n \in 1..L : \A A \in X : step[n][A] \in X BY <1>3, <1>5
  <2>2. SymbolSet \in X OBVIOUS
  <2> HIDE DEF X
  <2> QED BY <1>1, <2>1, <2>2, Recursion
<1>7. Sat(g)
  <2>1. \A n \in 0..L : n # 0 => n - 1 \in 0..L /\ n \in 1..L BY <1>1
  <2>2. g = [n \in 0..L |-> g[n]] BY <1>6 DEF IsRecursion
  <2>3. \A n \in 0..L : n # 0 => g[n] = more(g[n - 1])
    <3> HIDE DEF more, X
    <3> QED BY <1>5, <1>6, <2>1 DEF IsRecursion
  <2>4. g[0] = SymbolSet BY <1>6 DEF IsRecursion
  <2>5. \A n \in 0..L : g[n] = IF n = 0 THEN SymbolSet ELSE more(g[n - 1]) BY <2>3, <2>4
  <2> QED BY <2>2, <2>5
<1>8. Sat(R)
  <2>1. \E h : Sat(h) BY <1>7
  <2> HIDE DEF Sat
  <2> QED BY <2>1
<1> HIDE DEF R
<1>9. R[0] = SymbolSet
  <2>1. 0 \in 0..L BY <1>1
  <2> QED BY <1>8, <2>1
<1>10. \A n \in 1..L : R[n] = more(R[n - 1])
  <2>1. \A n \in 1..L : n \in 0..L /\ n # 0 BY <1>1
  <2> QED BY <1>8, <2>1
<1> HIDE DEF Sat
<1>11. ASSUME NEW A \in X PROVE IsFiniteSet(A) /\ Cardinality(A) \in Nat
  <2>1. IsFiniteSet(1..L) BY <1>1, FS_Interval
  <2>2. IsFiniteSet(A) BY <1>1, <2>1, FS_Subset
  <2> QED BY <2>2, FS_CardinalityType
<1>12. 0 \in T /\ 0 \in U
  <2>1. SymbolSet \in X OBVIOUS
  <2>2. Cardinality(R[0]) \in Nat BY <1>9, <1>11, <2>1
  <2>3. 0 \in 0..L /\ Cardinality(R[0]) >= 0 BY <1>1, <2>2
  <2> QED BY <1>9, <2>1, <2>3
<1>13. \A n \in 0..L : n < L /\ n \in T => n + 1 \in T
  <2> SUFFICES ASSUME NEW n \in 0..L, n < L, n \in T PROVE n + 1 \in T OBVIOUS
  <2>1. PICK m \in 1..L : m = n + 1 BY <1>1
  <2>2. m - 1 = n /\ m \in 0..L BY <2>1
  <2>3. PICK A \in X : A = R[n] OBVIOUS
  <2>4. PICK B : B = more(A) OBVIOUS
  <2>5. B \in X /\ A \subseteq B BY <1>3, <2>4
  <2>6. R[m] = B BY <1>10, <2>2, <2>3, <2>4
  <2>7. SymbolSet \subseteq B BY <2>3, <2>5
  <2>8. CASE B = A BY <2>1, <2>2, <2>4, <2>5, <2>6, <2>7, <2>8
  <2>9. CASE B # A
    <3>1. IsFiniteSet(B) BY <1>11, <2>5
    <3>2. Cardinality(A) < Cardinality(B) /\ Cardinality(A) \in Nat /\ Cardinality(B) \in Nat
      BY <2>5, <2>9, <3>1, Larger
    <3>3. Cardinality(A) >= n BY <2>3, <2>4, <2>9
    <3>4. Cardinality(B) >= m BY <2>1, <3>2, <3>3
    <3> QED BY <2>1, <2>2, <2>5, <2>6, <2>7, <3>4
  <2> QED BY <2>8, <2>9
<1>14. \A n \in 0..L : n < L /\ n \in U => n + 1 \in U
  <2> SUFFICES ASSUME NEW n \in 0..L, n < L, n \in U,
                      NEW A, SymbolSet \subseteq A, Closed(A)
               PROVE  R[n + 1] \subseteq A
    BY <1>1
  <2>1. PICK m \in 1..L : m = n + 1 BY <1>1
  <2>2. m - 1 = n BY <2>1
  <2>3. R[n] \subseteq A OBVIOUS
  <2>4. R[m] = more(R[n]) BY <1>10, <2>2
  <2>5. more(R[n]) \subseteq A BY <2>3 DEF Closed
  <2> QED BY <2>1, <2>4, <2>5
<1>15. 0..L \subseteq T
  <2> HIDE DEF T
  <2> QED BY <1>1, <1>12, <1>13, IntervalInduction
<1>16. 0..L \subseteq U
  <2> HIDE DEF U
  <2> QED BY <1>1, <1>12, <1>14, IntervalInduction
<1>17. L \in T /\ L \in U BY <1>1, <1>15, <1>16
<1>18. more(R[L]) = R[L]
  <2>1. CASE R[L] = Offsets BY <1>3, <1>17, <2>1
  <2>2. CASE R[L] # Offsets
    <3>1. IsFiniteSet(Offsets) /\ Cardinality(Offsets) = L BY <1>1, FS_Interval
    <3>2. R[L] \in SUBSET Offsets BY <1>17
    <3>3. Cardinality(R[L]) < L /\ Cardinality(R[L]) \in Nat BY <2>2, <3>1, <3>2, Larger
    <3>4. ~(Cardinality(R[L]) >= L) BY <1>1, <3>3
    <3> QED BY <1>17, <3>4
  <2> QED BY <2>1, <2>2
<1> QED BY <1>2, <1>4, <1>17, <1>18
-----------------------------------------------------------------------------
(* The invariant *)

\* What collect_marks has seen to when it has taken i from its worklist.
Flooded(i) == /\ \A j \in Target(i) : 2 \in visited[j]
              /\ program[i].op \notin {"JMP", "EOF"} => 4 \in visited[i + 1]

\* The bits 2 and 4: a leader has been seen, everything seen is flooded or will
\* be, and a leader is what a symbol, a target or the end of a branch makes one.
MarksInv ==
  /\ visited \in [Offsets -> SUBSET Bits]
  /\ q \in Seq(Offsets) /\ \A i \in Range(q) : 4 \in visited[i]
  /\ \A i \in Offsets : 2 \in visited[i] => 4 \in visited[i]
  /\ \A i \in SymbolSet : 2 \in visited[i]
  /\ \A i \in Offsets : 4 \in visited[i] => i \in Range(q) \/ Flooded(i)
  /\ \A j \in Offsets : 2 \in visited[j] =>
       \/ j \in SymbolSet
       \/ \E i \in Offsets : j \in Target(i) \/ (j = i + 1 /\ program[i].op \in Branches)
  /\ \A i \in Offsets : i + 1 \in Offsets /\ 4 \in visited[i + 1] /\ 2 \notin visited[i + 1]
                          => program[i].op \notin Branches

\* Nothing is collected before the marks are.
PhaseInv ==
  /\ phase \in Phases /\ cur_ptr \in Offsets /\ prev \in Offsets \cup {0}
  /\ phase = "collect_marks" =>
       /\ labels = <<>> /\ collect_single = <<>> /\ collect_pairs = <<>>
       /\ \A i \in Offsets : 1 \notin visited[i]
  /\ phase # "collect_marks" => q = <<>>
  /\ phase = "done" => labels = <<>>

Done == Range(collect_single)
Held == Range(labels) \cup (IF phase = "process_label" THEN {cur_ptr} ELSE {})
Known == {i \in Offsets : 1 \in visited[i]}

\* The bit 1: what is known is collected, once, or waits for it, and is reachable;
\* where control goes from what is collected is known.
WalkInv ==
  /\ labels \in Seq(Offsets) /\ Once(labels)
  /\ \A i \in Range(labels) : 1 \in visited[i] /\ 2 \in visited[i]
  /\ phase = "process_label" => cur_ptr \in Known \ Range(labels)
  /\ \A i \in Known : 4 \in visited[i]
  /\ Known \subseteq Reachable
  /\ phase # "collect_marks" => SymbolSet \subseteq Known
  /\ collect_single \in Seq(Offsets) /\ Once(collect_single)
  /\ phase # "error" => Done \cap Held = {} /\ Done \cup Held = Known
  /\ \A i \in Done : Falls(i) \cup Target(i) \subseteq Known

\* The pairs are those both of whose instructions are collected and the second of
\* which is no leader; what is known and no leader is known from its predecessor.
PairsInv ==
  /\ collect_pairs \in Seq(Offsets) /\ Once(collect_pairs)
  /\ phase # "error" =>
       Range(collect_pairs) = {i \in Done : Falls(i) # {} /\ i + 1 \in Done /\ 2 \notin visited[i + 1]}
  /\ \A j \in Known : 2 \in visited[j] \/ \E i \in Done : Falls(i) = {j}
  /\ phase = "process_label" => \/ prev = 0 /\ 2 \in visited[cur_ptr]
                                \/ prev \in Done /\ Falls(prev) = {cur_ptr}

IInv == FileInv /\ MarksInv /\ PhaseInv /\ WalkInv /\ PairsInv

-----------------------------------------------------------------------------
(* The steps of collect_marks *)

\* What setting bits changes.
LEMMA BitsSet ==
  ASSUME NEW v \in [Offsets -> SUBSET Bits], NEW B \in SUBSET Bits, NEW S
  PROVE  /\ SetBits(B, v, S) \in [Offsets -> SUBSET Bits]
         /\ \A i \in Offsets : \A b : b \in SetBits(B, v, S)[i] <=> b \in v[i] \/ (b \in B /\ i \in S)
BY DEF SetBits

LEMMA Initially == Init => IInv
<1> SUFFICES ASSUME Init PROVE IInv OBVIOUS
<1>1. FileInv BY DEF Init, FileInv
<1>2. CodeFacts BY <1>1, CodeOf
<1>3. q \in Seq(Offsets) /\ Range(q) = SymbolSet /\ SymbolSet \subseteq Offsets
  BY <1>2, SymbolsOnce DEF Init, CodeFacts
<1>4. PICK v : v = [i \in Offsets |-> {}] OBVIOUS
<1>5. v \in [Offsets -> SUBSET Bits] /\ \A i \in Offsets : v[i] = {} BY <1>4
<1>6. {2, 4} \in SUBSET Bits BY DEF Bits
<1>7. visited = SetBits({2, 4}, v, SymbolSet) BY <1>4 DEF Init
<1>8. visited \in [Offsets -> SUBSET Bits]
  BY <1>5, <1>6, <1>7, BitsSet
<1>9. \A i \in Offsets : \A b : b \in visited[i] <=> b \in {2, 4} /\ i \in SymbolSet
  BY <1>5, <1>6, <1>7, BitsSet
<1>10. MarksInv BY <1>3, <1>8, <1>9 DEF MarksInv
<1>11. /\ labels = <<>> /\ collect_single = <<>> /\ collect_pairs = <<>>
       /\ phase = "collect_marks" /\ cur_ptr = 1 /\ prev = 0
  BY DEF Init
<1>12. 1 \in Offsets BY <1>2 DEF CodeFacts
<1>13. PhaseInv BY <1>9, <1>11, <1>12 DEF PhaseInv, Phases
<1>14. Known = {} BY <1>9 DEF Known
<1>15. Range(<<>>) = {} /\ Once(<<>>) BY DEF Range, Once
<1>16. Done = {} /\ Held = {} BY <1>11, <1>15 DEF Done, Held
<1>17. WalkInv BY <1>11, <1>14, <1>15, <1>16 DEF WalkInv
<1>18. PairsInv BY <1>11, <1>14, <1>15, <1>16 DEF PairsInv
<1> QED BY <1>1, <1>10, <1>13, <1>17, <1>18 DEF IInv

\* Nothing of the walk is there yet, and nothing of it appears.
LEMMA NotYetWalking ==
  ASSUME IInv, phase = "collect_marks", MarksInv',
         UNCHANGED <<file, labels, cur_ptr, prev, collected, phase>>,
         \A i \in Offsets : 1 \in visited'[i] => 1 \in visited[i]
  PROVE  IInv'
<1>1. FileInv' /\ Offsets' = Offsets BY DEF IInv, FileInv, file, Offsets
<1>2. PhaseInv' BY <1>1 DEF IInv, PhaseInv, collected
<1>3. /\ labels' = <<>> /\ collect_single' = <<>> /\ collect_pairs' = <<>>
      /\ phase' = "collect_marks"
  BY DEF IInv, PhaseInv, collected
<1>4. Known' = {} BY <1>1 DEF IInv, PhaseInv, Known
<1>5. Range(<<>>) = {} /\ Once(<<>>) BY DEF Range, Once
<1>6. Done' = {} /\ Held' = {} BY <1>3, <1>5 DEF Done, Held
<1>7. WalkInv' BY <1>3, <1>4, <1>5, <1>6 DEF WalkInv
<1>8. PairsInv' BY <1>3, <1>4, <1>5, <1>6 DEF PairsInv
<1> QED BY <1>1, <1>2, <1>7, <1>8 DEF IInv

\* One offset of the worklist: bits are only set; what is newly seen is on the
\* worklist, what is newly a leader has its reason, and the offset is flooded.
LEMMA FloodsOn ==
  ASSUME IInv, q # <<>>, phase = "collect_marks",
         UNCHANGED <<file, labels, cur_ptr, prev, collected, phase>>,
         visited' \in [Offsets -> SUBSET Bits],
         \A i \in Offsets : visited[i] \subseteq visited'[i],
         \A i \in Offsets : 1 \in visited'[i] => 1 \in visited[i],
         q' \in Seq(Offsets), Range(Tail(q)) \subseteq Range(q'),
         \A i \in Range(q') : 4 \in visited'[i],
         \A i \in Offsets : 4 \in visited'[i] => 4 \in visited[i] \/ i \in Range(q'),
         \A i \in Offsets : 2 \in visited'[i] =>
           2 \in visited[i] \/ (4 \in visited'[i] /\ (i \in Target(Idx) \/ (i = Idx + 1 /\ program[Idx].op \in Branches))),
         \A i \in Offsets : 4 \in visited'[i] /\ 2 \notin visited'[i] =>
           4 \in visited[i] \/ (i = Idx + 1 /\ program[Idx].op \notin Branches),
         \A j \in Target(Idx) : 2 \in visited'[j],
         program[Idx].op \notin {"JMP", "EOF"} => 4 \in visited'[Idx + 1]
  PROVE  IInv'
<1>1. CodeFacts BY CodeOf DEF IInv
<1>2. Offsets' = Offsets /\ SymbolSet' = SymbolSet /\ program' = program
  BY DEF file, Offsets, SymbolSet
<1>3. \A i : Target(i)' = Target(i) BY <1>2 DEF Target
<1>4. Idx \in Offsets /\ Range(q) = Range(Tail(q)) \cup {Idx}
  BY Taken DEF IInv, MarksInv, Idx
<1>5. SymbolSet \subseteq Offsets BY <1>1, SymbolsOnce DEF CodeFacts
<1>6. \A i \in Offsets : Target(i) \subseteq Offsets /\ (program[i].op # "EOF" => i + 1 \in Offsets)
  BY <1>1, GoesInCode
<1>7. MarksInv'
  <2>1. visited' \in [Offsets -> SUBSET Bits] /\ q' \in Seq(Offsets) /\ \A i \in Range(q') : 4 \in visited'[i]
    OBVIOUS
  <2>2. \A i \in Offsets : 2 \in visited'[i] => 4 \in visited'[i] BY DEF IInv, MarksInv
  <2>3. \A i \in SymbolSet : 2 \in visited'[i] BY <1>5 DEF IInv, MarksInv
  <2>4. \A i \in Offsets : 4 \in visited'[i] => i \in Range(q') \/ Flooded(i)'
    <3> SUFFICES ASSUME NEW i \in Offsets, 4 \in visited'[i], i \notin Range(q') PROVE Flooded(i)'
      OBVIOUS
    <3>1. CASE i = Idx BY <1>2, <1>3, <3>1 DEF Flooded
    <3>2. CASE i # Idx
      <4>1. 4 \in visited[i] /\ i \notin Range(q) BY <1>4, <3>2
      <4>2. Flooded(i) BY <4>1 DEF IInv, MarksInv
      <4>3. \A j \in Target(i) : 2 \in visited'[j] BY <1>6, <4>2 DEF Flooded
      <4>4. program[i].op \notin {"JMP", "EOF"} => 4 \in visited'[i + 1] BY <1>6, <4>2 DEF Flooded
      <4> QED BY <1>2, <1>3, <4>3, <4>4 DEF Flooded
    <3> QED BY <3>1, <3>2
  <2>5. \A j \in Offsets : 2 \in visited'[j] =>
       \/ j \in SymbolSet
       \/ \E i \in Offsets : j \in Target(i) \/ (j = i + 1 /\ program[i].op \in Branches)
    BY <1>4 DEF IInv, MarksInv
  <2>6. \A i \in Offsets : i + 1 \in Offsets /\ 4 \in visited'[i + 1] /\ 2 \notin visited'[i + 1]
                             => program[i].op \notin Branches
    <3> SUFFICES ASSUME NEW i \in Offsets, i + 1 \in Offsets, 4 \in visited'[i + 1], 2 \notin visited'[i + 1]
                 PROVE  program[i].op \notin Branches
      OBVIOUS
    <3>1. 2 \notin visited[i + 1] OBVIOUS
    <3>2. CASE 4 \in visited[i + 1] BY <3>1, <3>2 DEF IInv, MarksInv
    <3>3. CASE i + 1 = Idx + 1 /\ program[Idx].op \notin Branches
      <4>1. i \in Int /\ Idx \in Int BY <1>1, <1>4 DEF CodeFacts
      <4>2. i = Idx BY <3>3, <4>1
      <4> QED BY <3>3, <4>2
    <3> QED BY <3>2, <3>3
  <2> QED BY <1>2, <1>3, <2>1, <2>2, <2>3, <2>4, <2>5, <2>6 DEF MarksInv
<1> QED BY <1>7, NotYetWalking

\* The offset that collect_marks takes.
LEMMA MarkFacts ==
  ASSUME IInv, q # <<>>
  PROVE  /\ CodeFacts /\ visited \in [Offsets -> SUBSET Bits]
         /\ Idx \in Offsets /\ Tail(q) \in Seq(Offsets) /\ Range(Tail(q)) \subseteq Range(q)
         /\ \A i \in Range(Tail(q)) : i \in Offsets /\ 4 \in visited[i]
         /\ program[Idx].op # "EOF" => Idx + 1 \in Offsets
<1>1. CodeFacts BY CodeOf DEF IInv
<1>2. /\ Idx \in Offsets /\ Tail(q) \in Seq(Offsets) /\ Range(Tail(q)) \subseteq Range(q)
      /\ \A i \in Range(Tail(q)) : i \in Offsets
  BY Taken, AtPlace DEF IInv, MarksInv, Idx
<1>3. \A i \in Range(q) : 4 \in visited[i] BY DEF IInv, MarksInv
<1> QED BY <1>1, <1>2, <1>3, GoesInCode DEF IInv, MarksInv

LEMMA MarkEOFKeeps == ASSUME IInv, MarkEOF PROVE IInv'
<1>1. /\ q # <<>> /\ phase = "collect_marks" /\ program[Idx].op = "EOF" /\ q' = Tail(q)
      /\ visited' = visited /\ UNCHANGED <<file, labels, cur_ptr, prev, collected, phase>>
  BY DEF MarkEOF, Mark
<1>2. Target(Idx) = {} BY <1>1 DEF Target, Branches, Jumps, CondJumps
<1>3. MarksInv BY DEF IInv
<1>4. \A i \in Offsets : 4 \in visited[i] /\ 2 \notin visited[i] => 4 \in visited[i] OBVIOUS
<1> QED BY <1>1, <1>2, <1>4, MarkFacts, FloodsOn

LEMMA MarkOnKeeps == ASSUME IInv, MarkOn PROVE IInv'
<1>1. /\ q # <<>> /\ phase = "collect_marks" /\ program[Idx].op \notin Branches /\ program[Idx].op # "EOF"
      /\ UNCHANGED <<file, labels, cur_ptr, prev, collected, phase>>
  BY DEF MarkOn, Mark
<1>2. Target(Idx) = {} BY <1>1 DEF Target
<1>3. Idx + 1 \in Offsets BY <1>1, MarkFacts
<1>4. CASE 4 \in visited[Idx + 1]
  <2>1. q' = Tail(q) /\ visited' = visited BY <1>4 DEF MarkOn
  <2> QED BY <1>1, <1>2, <1>4, <2>1, MarkFacts, FloodsOn
<1>5. CASE 4 \notin visited[Idx + 1]
  <2>1. q' = Append(Tail(q), Idx + 1) /\ visited' = SetBits({4}, visited, {Idx + 1})
    BY <1>5 DEF MarkOn
  <2>2. /\ visited' \in [Offsets -> SUBSET Bits]
        /\ \A i \in Offsets : \A b : b \in visited'[i] <=> b \in visited[i] \/ (b = 4 /\ i = Idx + 1)
    <3>1. {4} \in SUBSET Bits BY DEF Bits
    <3>2. visited \in [Offsets -> SUBSET Bits] BY <1>1, MarkFacts
    <3>3. PICK v : v = SetBits({4}, visited, {Idx + 1}) OBVIOUS
    <3>4. /\ v \in [Offsets -> SUBSET Bits]
          /\ \A i \in Offsets : \A b : b \in v[i] <=> b \in visited[i] \/ (b \in {4} /\ i \in {Idx + 1})
      BY <3>1, <3>2, <3>3, BitsSet
    <3> QED BY <2>1, <3>3, <3>4
  <2>3. q' \in Seq(Offsets) /\ Range(q') = Range(Tail(q)) \cup {Idx + 1}
    <3>1. PICK t \in Seq(Offsets) : t = Tail(q) BY <1>1, MarkFacts
    <3>2. PICK x \in Offsets : x = Idx + 1 BY <1>3
    <3>3. Append(t, x) \in Seq(Offsets) /\ Range(Append(t, x)) = Range(t) \cup {x} BY Appended
    <3> QED BY <2>1, <3>1, <3>2, <3>3
  <2>4. \A i \in Offsets : visited[i] \subseteq visited'[i] BY <2>2
  <2>5. \A i \in Offsets : 1 \in visited'[i] => 1 \in visited[i] BY <2>2
  <2>6. \A i \in Range(q') : 4 \in visited'[i] BY <1>1, <1>3, <2>2, <2>3, MarkFacts
  <2>7. \A i \in Offsets : 4 \in visited'[i] => 4 \in visited[i] \/ i \in Range(q') BY <2>2, <2>3
  <2>8. \A i \in Offsets : 2 \in visited'[i] => 2 \in visited[i] BY <2>2
  <2>9. \A i \in Offsets : 4 \in visited'[i] => 4 \in visited[i] \/ i = Idx + 1 BY <2>2
  <2>10. 4 \in visited'[Idx + 1] BY <1>3, <2>2
  <2> QED BY <1>1, <1>2, <2>2, <2>3, <2>4, <2>5, <2>6, <2>7, <2>8, <2>9, <2>10, FloodsOn
<1> QED BY <1>4, <1>5

LEMMA MarkBranchKeeps == ASSUME IInv, MarkBranch PROVE IInv'
<1> DEFINE arg == program[Idx].a
           nxt == Idx + 1
           new == 2 \notin visited[arg]
           v1 == IF new THEN SetBits({2, 4}, visited, {arg}) ELSE visited
           q1 == IF new THEN Append(Tail(q), arg) ELSE Tail(q)
           on == program[Idx].op # "JMP" /\ 4 \notin v1[nxt]
<1>1. /\ q # <<>> /\ phase = "collect_marks" /\ program[Idx].op \in Branches
      /\ UNCHANGED <<file, labels, cur_ptr, prev, collected, phase>>
  BY DEF MarkBranch, Mark
<1>2. q' = (IF on THEN Append(q1, nxt) ELSE q1) /\ visited' = (IF on THEN SetBits({2, 4}, v1, {nxt}) ELSE v1)
  BY DEF MarkBranch
<1>3. program[Idx].op # "EOF" BY <1>1 DEF Branches, Jumps, CondJumps
<1>4. nxt \in Offsets /\ arg \in Offsets BY <1>1, <1>3, MarkFacts DEF CodeFacts
<1>5. Target(Idx) = {arg} BY <1>1 DEF Target
<1> HIDE DEF nxt, arg
<1>6. {2, 4} \in SUBSET Bits BY DEF Bits
<1>7. /\ v1 \in [Offsets -> SUBSET Bits]
      /\ \A i \in Offsets : \A b : b \in v1[i] <=> b \in visited[i] \/ (new /\ b \in {2, 4} /\ i = arg)
  <2>1. SetBits({2, 4}, visited, {arg}) \in [Offsets -> SUBSET Bits]
    BY <1>1, <1>6, MarkFacts, BitsSet
  <2>2. \A i \in Offsets : \A b : b \in SetBits({2, 4}, visited, {arg})[i] <=> b \in visited[i] \/ (b \in {2, 4} /\ i = arg)
    BY <1>1, <1>6, MarkFacts, BitsSet
  <2> QED BY <1>1, <2>1, <2>2, MarkFacts
<1>8. q1 \in Seq(Offsets) /\ Range(q1) = Range(Tail(q)) \cup (IF new THEN {arg} ELSE {})
  <2>1. PICK t \in Seq(Offsets) : t = Tail(q) BY <1>1, MarkFacts
  <2>2. Append(t, arg) \in Seq(Offsets) /\ Range(Append(t, arg)) = Range(t) \cup {arg}
    BY <1>4, Appended
  <2> QED BY <2>1, <2>2
<1> HIDE DEF v1, q1
<1>9. /\ visited' \in [Offsets -> SUBSET Bits]
      /\ \A i \in Offsets : \A b : b \in visited'[i] <=> b \in v1[i] \/ (on /\ b \in {2, 4} /\ i = nxt)
  <2>1. PICK v \in [Offsets -> SUBSET Bits] : v = v1 BY <1>7
  <2>2. SetBits({2, 4}, v, {nxt}) \in [Offsets -> SUBSET Bits]
    BY <1>6, BitsSet
  <2>3. \A i \in Offsets : \A b : b \in SetBits({2, 4}, v, {nxt})[i] <=> b \in v[i] \/ (b \in {2, 4} /\ i = nxt)
    BY <1>6, BitsSet
  <2> QED BY <1>2, <1>7, <2>1, <2>2, <2>3
<1>10. q' \in Seq(Offsets) /\ Range(q') = Range(q1) \cup (IF on THEN {nxt} ELSE {})
  BY <1>2, <1>4, <1>8, Appended
<1>11. \A i \in Offsets : \A b : b \in visited'[i] <=>
         b \in visited[i] \/ (b \in {2, 4} /\ ((new /\ i = arg) \/ (on /\ i = nxt)))
  BY <1>7, <1>9
<1>12. Range(q') = Range(Tail(q)) \cup (IF new THEN {arg} ELSE {}) \cup (IF on THEN {nxt} ELSE {})
  BY <1>8, <1>10
<1>13. program[Idx].op # "JMP" => on \/ 4 \in v1[nxt] OBVIOUS
<1> HIDE DEF on
<1>14. \A i \in Offsets : visited[i] \subseteq visited'[i] BY <1>11
<1>15. \A i \in Offsets : 1 \in visited'[i] => 1 \in visited[i] BY <1>11
<1>16. \A i \in Range(q') : 4 \in visited'[i]
  <2>1. \A i \in Range(Tail(q)) : 4 \in visited'[i] BY <1>1, <1>11, MarkFacts
  <2> QED BY <1>4, <1>11, <1>12, <2>1
<1>17. \A i \in Offsets : 4 \in visited'[i] => 4 \in visited[i] \/ i \in Range(q') BY <1>11, <1>12
<1>18. \A i \in Offsets : 2 \in visited'[i] => 2 \in visited[i] \/ (4 \in visited'[i] /\ (i = arg \/ i = nxt))
  BY <1>11
<1>19. \A i \in Offsets : 4 \in visited'[i] /\ 2 \notin visited'[i] => 4 \in visited[i] BY <1>11
<1>20. 2 \in visited'[arg] BY <1>4, <1>11
<1>21. program[Idx].op # "JMP" => 4 \in visited'[nxt] BY <1>4, <1>9, <1>13
<1> QED
  <2>1. Range(Tail(q)) \subseteq Range(q') BY <1>12
  <2> QED BY <1>1, <1>5, <1>9, <1>10, <1>14, <1>15, <1>16, <1>17, <1>18, <1>19, <1>20, <1>21, <2>1,
             FloodsOn DEF nxt

\* analyze begins where the symbols are, and they are reachable.
LEMMA MarksDoneKeeps == ASSUME IInv, MarksDone PROVE IInv'
<1>1. /\ phase = "collect_marks" /\ q = <<>> /\ phase' = "labels" /\ labels' = Symbols
      /\ visited' = SetBits({1, 2}, visited, SymbolSet)
      /\ UNCHANGED <<file, q, cur_ptr, prev, collected>>
  BY DEF MarksDone
<1>2. CodeFacts BY CodeOf DEF IInv
<1>3. Offsets' = Offsets /\ SymbolSet' = SymbolSet /\ program' = program /\ publics' = publics
  BY <1>1 DEF file, Offsets, SymbolSet
<1>4. \A i : Target(i)' = Target(i) /\ Falls(i)' = Falls(i) BY <1>3 DEF Target, Falls
<1>5. /\ Symbols \in Seq(Offsets) /\ Range(Symbols) = SymbolSet /\ Once(Symbols)
      /\ SymbolSet \subseteq Offsets
  BY <1>2, SymbolsOnce DEF CodeFacts
<1>6. visited \in [Offsets -> SUBSET Bits] /\ {1, 2} \in SUBSET Bits BY DEF IInv, MarksInv, Bits
<1>7. /\ visited' \in [Offsets -> SUBSET Bits]
      /\ \A i \in Offsets : \A b : b \in visited'[i] <=> b \in visited[i] \/ (b \in {1, 2} /\ i \in SymbolSet)
  BY <1>1, <1>6, BitsSet
<1>8. \A i \in SymbolSet : 2 \in visited[i] BY DEF IInv, MarksInv
<1>9. \A i \in Offsets : (2 \in visited'[i] <=> 2 \in visited[i]) /\ (4 \in visited'[i] <=> 4 \in visited[i])
  BY <1>7, <1>8
<1>10. \A i \in Offsets : Target(i) \subseteq Offsets /\ (program[i].op # "EOF" => i + 1 \in Offsets)
  BY <1>2, GoesInCode
<1>11. Range(<<>>) = {} /\ Once(<<>>) BY DEF Range, Once
<1>12. \A i \in Offsets : 4 \in visited[i] => Flooded(i) BY <1>1, <1>11 DEF IInv, MarksInv
<1>13. \A i \in Offsets : 4 \in visited'[i] => Flooded(i)'
  <2> SUFFICES ASSUME NEW i \in Offsets, 4 \in visited'[i] PROVE Flooded(i)' OBVIOUS
  <2>1. Flooded(i) BY <1>9, <1>12
  <2>2. \A j \in Target(i) : 2 \in visited'[j] BY <1>9, <1>10, <2>1 DEF Flooded
  <2>3. program[i].op \notin {"JMP", "EOF"} => 4 \in visited'[i + 1] BY <1>9, <1>10, <2>1 DEF Flooded
  <2> QED BY <1>3, <1>4, <2>2, <2>3 DEF Flooded
<1>14. MarksInv'
  <2>1. \A i \in Offsets : 2 \in visited'[i] => 4 \in visited'[i] BY <1>9 DEF IInv, MarksInv
  <2>2. \A i \in SymbolSet : 2 \in visited'[i] BY <1>5, <1>8, <1>9
  <2>3. \A j \in Offsets : 2 \in visited'[j] =>
          \/ j \in SymbolSet
          \/ \E i \in Offsets : j \in Target(i) \/ (j = i + 1 /\ program[i].op \in Branches)
    BY <1>9 DEF IInv, MarksInv
  <2>4. \A i \in Offsets : i + 1 \in Offsets /\ 4 \in visited'[i + 1] /\ 2 \notin visited'[i + 1]
                             => program[i].op \notin Branches
    BY <1>9 DEF IInv, MarksInv
  <2>5. q' \in Seq(Offsets) /\ \A i \in Range(q') : 4 \in visited'[i] BY <1>1, <1>11
  <2> QED BY <1>3, <1>4, <1>7, <1>13, <2>1, <2>2, <2>3, <2>4, <2>5 DEF MarksInv
<1>15. /\ collect_single = <<>> /\ collect_pairs = <<>> /\ \A i \in Offsets : 1 \notin visited[i]
  BY <1>1 DEF IInv, PhaseInv
<1>16. collect_single' = <<>> /\ collect_pairs' = <<>> BY <1>1, <1>15 DEF collected
<1>17. Known' = SymbolSet BY <1>3, <1>5, <1>7, <1>15 DEF Known
<1>18. Done' = {} /\ Held' = SymbolSet BY <1>1, <1>5, <1>11, <1>16 DEF Done, Held
<1>19. Reachable' = Reachable BY <1>3 DEF Reachable, Falls, Target, SymbolSet
<1>20. SymbolSet \subseteq Reachable BY <1>2, <1>5, ReachableIsClosed
<1>21. FileInv' BY <1>3 DEF IInv, FileInv
<1>22. PhaseInv' BY <1>1, <1>3 DEF IInv, PhaseInv, Phases
<1>23. \A i \in SymbolSet : 1 \in visited'[i] /\ 2 \in visited'[i] /\ 4 \in visited'[i]
  BY <1>5, <1>7, <1>8, <1>9 DEF IInv, MarksInv
<1>24. WalkInv'
  BY <1>1, <1>3, <1>5, <1>11, <1>16, <1>17, <1>18, <1>19, <1>20, <1>23 DEF WalkInv
<1>25. PairsInv' BY <1>1, <1>11, <1>16, <1>17, <1>18, <1>23 DEF PairsInv
<1> QED BY <1>14, <1>21, <1>22, <1>24, <1>25 DEF IInv

-----------------------------------------------------------------------------
(* The steps of process_label *)

\* What does not change in the file does not change what depends on it.
LEMMA SameFile ==
  ASSUME UNCHANGED file
  PROVE  /\ program' = program /\ publics' = publics /\ Offsets' = Offsets /\ SymbolSet' = SymbolSet
         /\ Reachable' = Reachable
         /\ \A i : Target(i)' = Target(i) /\ Falls(i)' = Falls(i)
<1>1. program' = program /\ publics' = publics BY DEF file
<1>2. Offsets' = Offsets /\ SymbolSet' = SymbolSet BY <1>1 DEF Offsets, SymbolSet
<1>3. \A i : Target(i)' = Target(i) /\ Falls(i)' = Falls(i) BY <1>1 DEF Target, Falls
<1>4. Reachable' = Reachable BY <1>1 DEF Reachable, Falls, Target, SymbolSet
<1> QED BY <1>1, <1>2, <1>3, <1>4

\* The bits 2 and 4 mean the same when none of them changes.
LEMMA MarksKept ==
  ASSUME IInv, phase # "collect_marks", UNCHANGED <<file, q>>,
         visited' \in [Offsets -> SUBSET Bits],
         \A i \in Offsets : (2 \in visited'[i] <=> 2 \in visited[i]) /\ (4 \in visited'[i] <=> 4 \in visited[i])
  PROVE  MarksInv'
<1>1. CodeFacts BY CodeOf DEF IInv
<1>2. /\ program' = program /\ Offsets' = Offsets /\ SymbolSet' = SymbolSet
      /\ \A i : Target(i)' = Target(i) /\ Falls(i)' = Falls(i)
  BY SameFile
<1>3. \A i \in Offsets : Target(i) \subseteq Offsets /\ (program[i].op # "EOF" => i + 1 \in Offsets)
  BY <1>1, GoesInCode
<1>4. q' = q /\ q = <<>> /\ Range(<<>>) = {} BY DEF IInv, PhaseInv, Range
<1>5. \A i \in Offsets : 4 \in visited[i] => Flooded(i) BY <1>4 DEF IInv, MarksInv
<1>6. \A i \in Offsets : 4 \in visited'[i] => Flooded(i)'
  <2> SUFFICES ASSUME NEW i \in Offsets, 4 \in visited'[i] PROVE Flooded(i)' OBVIOUS
  <2>1. Flooded(i) BY <1>5
  <2>2. \A j \in Target(i) : 2 \in visited'[j] BY <1>3, <2>1 DEF Flooded
  <2>3. program[i].op \notin {"JMP", "EOF"} => 4 \in visited'[i + 1] BY <1>3, <2>1 DEF Flooded
  <2> QED BY <1>2, <2>2, <2>3 DEF Flooded
<1>7. SymbolSet \subseteq Offsets BY <1>1, SymbolsOnce DEF CodeFacts
<1>8. \A i \in Offsets : 2 \in visited'[i] => 4 \in visited'[i] BY DEF IInv, MarksInv
<1>9. \A i \in SymbolSet : 2 \in visited'[i] BY <1>7 DEF IInv, MarksInv
<1>10. \A j \in Offsets : 2 \in visited'[j] =>
         \/ j \in SymbolSet
         \/ \E i \in Offsets : j \in Target(i) \/ (j = i + 1 /\ program[i].op \in Branches)
  BY DEF IInv, MarksInv
<1>11. \A i \in Offsets : i + 1 \in Offsets /\ 4 \in visited'[i + 1] /\ 2 \notin visited'[i + 1]
                            => program[i].op \notin Branches
  BY DEF IInv, MarksInv
<1>12. q' \in Seq(Offsets) /\ \A i \in Range(q') : 4 \in visited'[i] BY <1>4
<1> QED BY <1>2, <1>6, <1>8, <1>9, <1>10, <1>11, <1>12 DEF MarksInv

\* What process_label relies on at an instruction.
LEMMA AtInstruction ==
  ASSUME IInv, phase = "process_label", Instr.op # "EOF"
  PROVE  /\ CodeFacts /\ Closed(Reachable)
         /\ cur_ptr \in Offsets /\ cur_ptr + 1 \in Offsets /\ cur_ptr \in Int
         /\ cur_ptr \in Known /\ cur_ptr \notin Done /\ cur_ptr \notin Range(labels)
         /\ Known = Done \cup Range(labels) \cup {cur_ptr}
         /\ Falls(cur_ptr) \subseteq {cur_ptr + 1}
         /\ Falls(cur_ptr) \cup Target(cur_ptr) \subseteq Offsets \cap Reachable
         /\ \A j \in Target(cur_ptr) : 2 \in visited[j] /\ 4 \in visited[j]
         /\ \A j \in Falls(cur_ptr) : 4 \in visited[j]
<1>1. CodeFacts BY CodeOf DEF IInv
<1>2. SymbolSet \subseteq Offsets BY <1>1, SymbolsOnce DEF CodeFacts
<1>3. Closed(Reachable) BY <1>1, <1>2, ReachableIsClosed
<1>4. cur_ptr \in Offsets /\ cur_ptr \in Int BY <1>1 DEF IInv, PhaseInv, CodeFacts
<1>5. cur_ptr + 1 \in Offsets BY <1>1, <1>4, GoesInCode DEF Instr
<1>6. cur_ptr \in Known /\ cur_ptr \notin Range(labels) /\ cur_ptr \in Reachable
  BY DEF IInv, WalkInv
<1>7. Held = Range(labels) \cup {cur_ptr} BY DEF Held
<1>8. Done \cap Held = {} /\ Done \cup Held = Known BY DEF IInv, WalkInv
<1>9. Falls(cur_ptr) \subseteq {cur_ptr + 1} BY DEF Falls
<1>10. Falls(cur_ptr) \cup Target(cur_ptr) \subseteq Offsets \cap Reachable
  BY <1>1, <1>3, <1>4, <1>6, GoesInCode DEF Closed
<1>11. 4 \in visited[cur_ptr] BY <1>6 DEF IInv, WalkInv
<1>12. q = <<>> /\ Range(<<>>) = {} BY DEF IInv, PhaseInv, Range
<1>13. Flooded(cur_ptr) BY <1>4, <1>11, <1>12 DEF IInv, MarksInv
<1>14. \A j \in Target(cur_ptr) : 2 \in visited[j] /\ 4 \in visited[j]
  BY <1>10, <1>13 DEF IInv, MarksInv, Flooded
<1>15. \A j \in Falls(cur_ptr) : 4 \in visited[j]
  BY <1>13 DEF Flooded, Falls
<1> QED BY <1>1, <1>3, <1>4, <1>5, <1>6, <1>7, <1>8, <1>9, <1>10, <1>14, <1>15

\* An instruction is collected: where control goes from it becomes known, and a
\* target that was not becomes a label.
LEMMA Collects ==
  ASSUME IInv, phase = "process_label", AddInstruction, Instr.op # "EOF", UNCHANGED <<file, q>>,
         visited' \in [Offsets -> SUBSET Bits],
         \A i \in Offsets : \A b : b \in visited'[i] <=>
           b \in visited[i] \/ (b = 1 /\ i \in Falls(cur_ptr) \cup Target(cur_ptr)),
         labels' \in Seq(Offsets), Once(labels'),
         Range(labels') = Range(labels) \cup (Target(cur_ptr) \ Known),
         cur_ptr' \in Offsets,
         \/ phase' = "labels" /\ Falls(cur_ptr) \subseteq Known \cup Target(cur_ptr)
         \/ /\ phase' = "process_label" /\ Falls(cur_ptr) = {cur_ptr'}
            /\ cur_ptr' \notin Known \cup Target(cur_ptr)
  PROVE  IInv'
<1> DEFINE c == cur_ptr
           goes == Falls(c) \cup Target(c)
<1>1. /\ Closed(Reachable)
      /\ c \in Offsets /\ c + 1 \in Offsets /\ c \in Int
      /\ c \in Known /\ c \notin Done /\ c \notin Range(labels)
      /\ Known = Done \cup Range(labels) \cup {c}
      /\ Falls(c) \subseteq {c + 1}
      /\ goes \subseteq Offsets \cap Reachable
      /\ \A j \in Target(c) : 2 \in visited[j] /\ 4 \in visited[j]
      /\ \A j \in Falls(c) : 4 \in visited[j]
  BY AtInstruction
<1>2. /\ program' = program /\ publics' = publics /\ Offsets' = Offsets /\ SymbolSet' = SymbolSet
      /\ Reachable' = Reachable /\ \A i : Target(i)' = Target(i) /\ Falls(i)' = Falls(i)
  BY SameFile
<1>3. /\ collect_single' = Append(collect_single, c) /\ prev' = c
      /\ collect_pairs' = IF prev = 0 \/ 2 \in visited[c] THEN collect_pairs ELSE Append(collect_pairs, prev)
  BY DEF AddInstruction
<1>4. \A i \in Offsets : (2 \in visited'[i] <=> 2 \in visited[i]) /\ (4 \in visited'[i] <=> 4 \in visited[i])
  OBVIOUS
<1>5. Known' = Known \cup goes BY <1>1, <1>2 DEF Known
<1>6. collect_single \in Seq(Offsets) /\ Once(collect_single) BY DEF IInv, WalkInv
<1>7. Done' = Done \cup {c} /\ collect_single' \in Seq(Offsets) /\ Once(collect_single')
  BY <1>1, <1>3, <1>6, Appended DEF Done
<1>8. Held' = Range(labels') \cup (IF phase' = "process_label" THEN {cur_ptr'} ELSE {}) BY DEF Held
<1>9. FileInv' BY <1>2 DEF IInv, FileInv
<1>10. MarksInv' BY <1>4, MarksKept
<1>11. PhaseInv' BY <1>1, <1>2, <1>3 DEF IInv, PhaseInv, Phases
<1>12. WalkInv'
  <2>1. \A i \in Range(labels) : i \in Offsets /\ 1 \in visited[i] /\ 2 \in visited[i] /\ i \in Known
    BY <1>1 DEF IInv, WalkInv, Known
  <2>2. \A i \in Range(labels') : 1 \in visited'[i] /\ 2 \in visited'[i] BY <1>1, <2>1
  <2>3. phase' = "process_label" => cur_ptr' \in Known' \ Range(labels') BY <1>5, <2>1
  <2>4. \A i \in Known' : 4 \in visited'[i] BY <1>1, <1>4, <1>5 DEF IInv, WalkInv, Known
  <2>5. Known' \subseteq Reachable BY <1>1, <1>5 DEF IInv, WalkInv
  <2>6. SymbolSet \subseteq Known' BY <1>5 DEF IInv, WalkInv
  <2>7. Done' \cap Held' = {} /\ Done' \cup Held' = Known'
    <3>1. Done \cap Range(labels) = {} BY DEF IInv, WalkInv, Held
    <3>2. CASE phase' = "labels" BY <1>1, <1>5, <1>7, <1>8, <3>1, <3>2
    <3>3. CASE phase' = "process_label" BY <1>1, <1>5, <1>7, <1>8, <3>1, <3>3
    <3> QED BY <3>2, <3>3
  <2>8. \A i \in Done' : Falls(i) \cup Target(i) \subseteq Known' BY <1>5, <1>7 DEF IInv, WalkInv
  <2> QED BY <1>2, <1>7, <2>2, <2>3, <2>4, <2>5, <2>6, <2>7, <2>8 DEF WalkInv
<1>13. PairsInv'
  <2>1. /\ collect_pairs \in Seq(Offsets) /\ Once(collect_pairs)
        /\ Range(collect_pairs) = {i \in Done : Falls(i) # {} /\ i + 1 \in Done /\ 2 \notin visited[i + 1]}
        /\ \A j \in Known : 2 \in visited[j] \/ \E i \in Done : Falls(i) = {j}
        /\ (prev = 0 /\ 2 \in visited[c]) \/ (prev \in Done /\ Falls(prev) = {c})
    BY DEF IInv, PairsInv
  <2>2. Done \subseteq Offsets /\ Offsets \subseteq Nat \ {0} BY <1>1, AtInstruction DEF Known, CodeFacts
  <2>3. \A i \in Offsets : Falls(i) = {} \/ Falls(i) = {i + 1} BY DEF Falls
  <2>4. c + 1 \in Done => 2 \in visited[c + 1] \/ Falls(c) = {}
    <3> SUFFICES ASSUME c + 1 \in Done, 2 \notin visited[c + 1] PROVE FALSE OBVIOUS
    <3>1. PICK i \in Done : Falls(i) = {c + 1} BY <1>1, <2>1
    <3>2. i + 1 = c + 1 BY <2>2, <2>3, <3>1
    <3>3. i = c BY <1>1, <2>2, <3>2
    <3> QED BY <1>1, <3>1, <3>3
  <2>5. \A i \in Done : Falls(i) # {} /\ i + 1 = c /\ 2 \notin visited[c] => i = prev
    <3> SUFFICES ASSUME NEW i \in Done, i + 1 = c, 2 \notin visited[c] PROVE i = prev OBVIOUS
    <3>1. prev \in Done /\ Falls(prev) = {c} BY <2>1
    <3>2. prev + 1 = c BY <2>2, <2>3, <3>1
    <3> QED BY <2>2, <3>1, <3>2
  <2>6. prev = 0 \/ (prev \in Done /\ prev \in Offsets /\ Falls(prev) # {} /\ prev + 1 = c) BY <2>1, <2>2, <2>3
  <2>7. collect_pairs' \in Seq(Offsets) /\ Once(collect_pairs')
    <3>1. prev \notin Range(collect_pairs)
      <4>1. CASE prev = 0 BY <2>1, <2>2, <4>1
      <4>2. CASE prev + 1 = c BY <1>1, <2>1, <4>2
      <4> QED BY <2>6, <4>1, <4>2
    <3> QED BY <1>3, <2>1, <2>6, <3>1, Appended
  <2>8. Range(collect_pairs') = {i \in Done' : Falls(i) # {} /\ i + 1 \in Done' /\ 2 \notin visited'[i + 1]}
    <3>1. {i \in Done' : Falls(i) # {} /\ i + 1 \in Done' /\ 2 \notin visited'[i + 1]}
            = {i \in Done \cup {c} : Falls(i) # {} /\ i + 1 \in Done \cup {c} /\ 2 \notin visited[i + 1]}
      BY <1>1, <1>4, <1>7, <2>2
    <3>2. CASE prev = 0 \/ 2 \in visited[c]
      <4>1. collect_pairs' = collect_pairs BY <1>3, <3>2
      <4>2. 2 \in visited[c] BY <2>1, <2>2, <3>2
      <4>3. c + 1 # c BY <1>1
      <4> QED BY <2>1, <2>4, <3>1, <4>1, <4>2, <4>3
    <3>3. CASE prev # 0 /\ 2 \notin visited[c]
      <4>1. collect_pairs' = Append(collect_pairs, prev) BY <1>3, <3>3
      <4>2. Range(collect_pairs') = Range(collect_pairs) \cup {prev} BY <2>1, <2>6, <3>3, <4>1, Appended
      <4>3. c + 1 # c BY <1>1
      <4> QED BY <2>1, <2>4, <2>5, <2>6, <3>1, <3>3, <4>2, <4>3
    <3> QED BY <3>2, <3>3
  <2>9. \A j \in Known' : 2 \in visited'[j] \/ \E i \in Done' : Falls(i) = {j}
    <3> SUFFICES ASSUME NEW j \in Known' PROVE 2 \in visited'[j] \/ \E i \in Done' : Falls(i) = {j} OBVIOUS
    <3>1. CASE j \in Known BY <1>4, <1>7, <2>1, <3>1 DEF Known
    <3>2. CASE j \in Falls(c)
      <4>1. Falls(c) = {j} BY <1>1, <2>3, <3>2
      <4> QED BY <1>7, <4>1
    <3>3. CASE j \in Target(c) BY <1>1, <1>4, <3>3
    <3> QED BY <1>5, <3>1, <3>2, <3>3
  <2>10. phase' = "process_label" => prev' \in Done' /\ Falls(prev') = {cur_ptr'} BY <1>3, <1>7
  <2> QED BY <1>2, <2>7, <2>8, <2>9, <2>10 DEF PairsInv
<1> QED BY <1>9, <1>10, <1>11, <1>12, <1>13 DEF IInv

\* The labels after check_label.
LEMMA LabelChecked ==
  ASSUME IInv, phase = "process_label", Instr.op \in Branches
  PROVE  /\ CheckLabel(Instr.a) \in Seq(Offsets) /\ Once(CheckLabel(Instr.a))
         /\ Range(CheckLabel(Instr.a)) = Range(labels) \cup (Target(cur_ptr) \ Known)
         /\ Target(cur_ptr) = {Instr.a} /\ Instr.a \in Offsets
<1>1. CodeFacts BY CodeOf DEF IInv
<1>2. cur_ptr \in Offsets BY DEF IInv, PhaseInv
<1>3. Target(cur_ptr) = {Instr.a} /\ Instr.a \in Offsets BY <1>1, <1>2 DEF CodeFacts, Target, Instr
<1>4. labels \in Seq(Offsets) /\ Once(labels) /\ \A i \in Range(labels) : 1 \in visited[i]
  BY DEF IInv, WalkInv
<1>5. PICK a \in Offsets : a = Instr.a BY <1>3
<1>6. CASE 1 \in visited[a]
  <2>1. CheckLabel(a) = labels BY <1>6 DEF CheckLabel
  <2>2. a \in Known BY <1>6 DEF Known
  <2> QED BY <1>3, <1>4, <1>5, <2>1, <2>2
<1>7. CASE 1 \notin visited[a]
  <2>1. CheckLabel(a) = Append(labels, a) BY <1>7 DEF CheckLabel
  <2>2. a \notin Known /\ a \notin Range(labels) BY <1>4, <1>7 DEF Known
  <2>3. /\ Append(labels, a) \in Seq(Offsets) /\ Once(Append(labels, a))
        /\ Range(Append(labels, a)) = Range(labels) \cup {a}
    BY <1>4, <2>2, Appended
  <2> QED BY <1>3, <1>5, <2>1, <2>2, <2>3
<1> QED BY <1>6, <1>7

LEMMA ProcessStopKeeps == ASSUME IInv, ProcessStop PROVE IInv'
<1>1. /\ phase = "process_label" /\ Instr.op \in Stops \cup {"RET"} /\ AddInstruction /\ phase' = "labels"
      /\ UNCHANGED <<file, q>> /\ visited' = visited /\ labels' = labels /\ cur_ptr' = cur_ptr
  BY DEF ProcessStop, Process
<1>2. Instr.op # "EOF" /\ Instr.op \notin Branches BY <1>1 DEF Stops, Branches, Jumps, CondJumps
<1>3. Falls(cur_ptr) = {} /\ Target(cur_ptr) = {} BY <1>1, <1>2 DEF Falls, Target, Instr
<1>4. /\ visited \in [Offsets -> SUBSET Bits] /\ cur_ptr \in Offsets
      /\ labels \in Seq(Offsets) /\ Once(labels)
  BY DEF IInv, MarksInv, PhaseInv, WalkInv
<1> QED BY <1>1, <1>2, <1>3, <1>4, Collects

LEMMA ProcessJumpKeeps == ASSUME IInv, ProcessJump PROVE IInv'
<1>1. /\ phase = "process_label" /\ Instr.op = "JMP" /\ AddInstruction /\ phase' = "labels"
      /\ UNCHANGED <<file, q>> /\ labels' = CheckLabel(Instr.a) /\ cur_ptr' = cur_ptr
      /\ visited' = SetBits({1}, visited, {Instr.a})
  BY DEF ProcessJump, Process
<1>2. Instr.op # "EOF" /\ Instr.op \in Branches BY <1>1 DEF Branches, Jumps
<1>3. Falls(cur_ptr) = {} BY <1>1 DEF Falls, Instr
<1>4. visited \in [Offsets -> SUBSET Bits] /\ cur_ptr \in Offsets /\ {1} \in SUBSET Bits
  BY DEF IInv, MarksInv, PhaseInv, Bits
<1>5. /\ visited' \in [Offsets -> SUBSET Bits]
      /\ \A i \in Offsets : \A b : b \in visited'[i] <=> b \in visited[i] \/ (b \in {1} /\ i \in {Instr.a})
  BY <1>1, <1>4, BitsSet
<1>6. /\ labels' \in Seq(Offsets) /\ Once(labels')
      /\ Range(labels') = Range(labels) \cup (Target(cur_ptr) \ Known) /\ Target(cur_ptr) = {Instr.a}
  BY <1>1, <1>2, LabelChecked
<1> QED BY <1>1, <1>2, <1>3, <1>4, <1>5, <1>6, Collects

\* What check_nxt goes on with, the bits v being those with the target's.
LEMMA GoesOn ==
  ASSUME IInv, phase = "process_label", Instr.op # "EOF", Instr.op # "JMP", Instr.op \notin Stops \cup {"RET"},
         NEW v \in [Offsets -> SUBSET Bits],
         \A i \in Offsets : \A b : b \in v[i] <=> b \in visited[i] \/ (b = 1 /\ i \in Target(cur_ptr)),
         CheckNxt(v)
  PROVE  /\ visited' \in [Offsets -> SUBSET Bits]
         /\ \A i \in Offsets : \A b : b \in visited'[i] <=>
              b \in visited[i] \/ (b = 1 /\ i \in Falls(cur_ptr) \cup Target(cur_ptr))
         /\ cur_ptr' \in Offsets
         /\ \/ phase' = "labels" /\ Falls(cur_ptr) \subseteq Known \cup Target(cur_ptr)
            \/ /\ phase' = "process_label" /\ Falls(cur_ptr) = {cur_ptr'}
               /\ cur_ptr' \notin Known \cup Target(cur_ptr)
<1>1. /\ visited' = SetBits({1}, v, {cur_ptr + 1}) /\ cur_ptr' = cur_ptr + 1
      /\ phase' = IF 1 \in v[cur_ptr + 1] THEN "labels" ELSE "process_label"
  BY DEF CheckNxt
<1>2. Falls(cur_ptr) = {cur_ptr + 1} BY DEF Falls, Instr
<1>3. cur_ptr + 1 \in Offsets BY AtInstruction
<1>4. {1} \in SUBSET Bits BY DEF Bits
<1>5. /\ visited' \in [Offsets -> SUBSET Bits]
      /\ \A i \in Offsets : \A b : b \in visited'[i] <=> b \in v[i] \/ (b \in {1} /\ i \in {cur_ptr + 1})
  <2>1. PICK B \in SUBSET Bits : B = {1} BY <1>4
  <2>2. PICK S : S = {cur_ptr + 1} OBVIOUS
  <2>3. SetBits(B, v, S) \in [Offsets -> SUBSET Bits]
    BY BitsSet
  <2>4. \A i \in Offsets : \A b : b \in SetBits(B, v, S)[i] <=> b \in v[i] \/ (b \in B /\ i \in S)
    BY BitsSet
  <2> QED BY <1>1, <2>1, <2>2, <2>3, <2>4
<1>6. 1 \in v[cur_ptr + 1] <=> cur_ptr + 1 \in Known \cup Target(cur_ptr)
  BY <1>3 DEF Known
<1> QED BY <1>1, <1>2, <1>3, <1>5, <1>6

LEMMA ProcessBranchKeeps == ASSUME IInv, ProcessBranch PROVE IInv'
<1> DEFINE v == SetBits({1}, visited, {Instr.a})
<1>1. /\ phase = "process_label" /\ Instr.op \in Branches /\ Instr.op # "JMP" /\ AddInstruction
      /\ UNCHANGED <<file, q>> /\ labels' = CheckLabel(Instr.a) /\ CheckNxt(v)
  BY DEF ProcessBranch, Process
<1>2. Instr.op # "EOF" /\ Instr.op \notin Stops \cup {"RET"} BY <1>1 DEF Stops, Branches, Jumps, CondJumps
<1>3. /\ labels' \in Seq(Offsets) /\ Once(labels')
      /\ Range(labels') = Range(labels) \cup (Target(cur_ptr) \ Known) /\ Target(cur_ptr) = {Instr.a}
  BY <1>1, LabelChecked
<1>4. visited \in [Offsets -> SUBSET Bits] /\ {1} \in SUBSET Bits BY DEF IInv, MarksInv, Bits
<1>5. /\ v \in [Offsets -> SUBSET Bits]
      /\ \A i \in Offsets : \A b : b \in v[i] <=> b \in visited[i] \/ (b \in {1} /\ i \in {Instr.a})
  BY <1>4, BitsSet
<1> HIDE DEF v
<1>6. /\ visited' \in [Offsets -> SUBSET Bits]
      /\ \A i \in Offsets : \A b : b \in visited'[i] <=>
           b \in visited[i] \/ (b = 1 /\ i \in Falls(cur_ptr) \cup Target(cur_ptr))
      /\ cur_ptr' \in Offsets
      /\ \/ phase' = "labels" /\ Falls(cur_ptr) \subseteq Known \cup Target(cur_ptr)
         \/ /\ phase' = "process_label" /\ Falls(cur_ptr) = {cur_ptr'}
            /\ cur_ptr' \notin Known \cup Target(cur_ptr)
  BY <1>1, <1>2, <1>3, <1>5, GoesOn
<1> QED BY <1>1, <1>2, <1>3, <1>6, Collects

LEMMA ProcessOtherKeeps == ASSUME IInv, ProcessOther PROVE IInv'
<1>1. /\ phase = "process_label" /\ Instr.op \notin Stops \cup {"RET", "EOF"} \cup Branches /\ AddInstruction
      /\ UNCHANGED <<file, q>> /\ labels' = labels /\ CheckNxt(visited)
  BY DEF ProcessOther, Process
<1>2. Instr.op # "EOF" /\ Instr.op # "JMP" /\ Instr.op \notin Stops \cup {"RET"}
  BY <1>1 DEF Branches, Jumps
<1>3. Target(cur_ptr) = {} BY <1>1 DEF Target, Instr
<1>4. visited \in [Offsets -> SUBSET Bits] /\ labels \in Seq(Offsets) /\ Once(labels)
  BY DEF IInv, MarksInv, WalkInv
<1>5. \A i \in Offsets : \A b : b \in visited[i] <=> b \in visited[i] \/ (b = 1 /\ i \in Target(cur_ptr))
  BY <1>3
<1>6. /\ visited' \in [Offsets -> SUBSET Bits]
      /\ \A i \in Offsets : \A b : b \in visited'[i] <=>
           b \in visited[i] \/ (b = 1 /\ i \in Falls(cur_ptr) \cup Target(cur_ptr))
      /\ cur_ptr' \in Offsets
      /\ \/ phase' = "labels" /\ Falls(cur_ptr) \subseteq Known \cup Target(cur_ptr)
         \/ /\ phase' = "process_label" /\ Falls(cur_ptr) = {cur_ptr'}
            /\ cur_ptr' \notin Known \cup Target(cur_ptr)
  BY <1>1, <1>2, <1>4, <1>5, GoesOn
<1> QED BY <1>1, <1>2, <1>3, <1>4, <1>6, Collects

\* No bit changes, and what is collected at most its order.
LEMMA Rearranges ==
  ASSUME IInv, phase \in {"labels", "process_label"}, UNCHANGED <<file, visited, q>>,
         phase' \in {"process_label", "done", "error"},
         labels' \in Seq(Offsets), Once(labels'), Range(labels') \subseteq Range(labels),
         collect_single' \in Seq(Offsets), Once(collect_single'), Done' = Done,
         collect_pairs' \in Seq(Offsets), Once(collect_pairs'), Range(collect_pairs') = Range(collect_pairs),
         cur_ptr' \in Offsets, prev' \in Offsets \cup {0},
         phase' # "error" => Held' = Held,
         phase' = "process_label" => cur_ptr' \in Known \ Range(labels') /\ prev' = 0 /\ 2 \in visited[cur_ptr'],
         phase' = "done" => labels' = <<>>
  PROVE  IInv'
<1>1. /\ program' = program /\ publics' = publics /\ Offsets' = Offsets /\ SymbolSet' = SymbolSet
      /\ Reachable' = Reachable /\ \A i : Target(i)' = Target(i) /\ Falls(i)' = Falls(i)
  BY SameFile
<1>2. FileInv' BY <1>1 DEF IInv, FileInv
<1>3. MarksInv'
  <2>1. visited' \in [Offsets -> SUBSET Bits] BY DEF IInv, MarksInv
  <2> QED BY <2>1, MarksKept
<1>4. PhaseInv' BY <1>1 DEF IInv, PhaseInv, Phases
<1>5. Known' = Known BY <1>1 DEF Known
<1>6. WalkInv'
  <2>1. \A i \in Range(labels') : 1 \in visited'[i] /\ 2 \in visited'[i] BY DEF IInv, WalkInv
  <2>2. phase' = "process_label" => cur_ptr' \in Known' \ Range(labels') BY <1>5
  <2>3. \A i \in Known' : 4 \in visited'[i] BY <1>5 DEF IInv, WalkInv
  <2>4. Known' \subseteq Reachable /\ SymbolSet \subseteq Known' BY <1>5 DEF IInv, WalkInv
  <2>5. phase' # "error" => Done' \cap Held' = {} /\ Done' \cup Held' = Known'
    BY <1>5 DEF IInv, WalkInv
  <2>6. \A i \in Done' : Falls(i) \cup Target(i) \subseteq Known' BY <1>5 DEF IInv, WalkInv
  <2> QED BY <1>1, <2>1, <2>2, <2>3, <2>4, <2>5, <2>6 DEF WalkInv
<1>7. PairsInv'
  <2>1. phase' # "error" =>
          Range(collect_pairs') = {i \in Done' : Falls(i) # {} /\ i + 1 \in Done' /\ 2 \notin visited'[i + 1]}
    BY DEF IInv, PairsInv
  <2>2. \A j \in Known' : 2 \in visited'[j] \/ \E i \in Done' : Falls(i) = {j}
    BY <1>5 DEF IInv, PairsInv
  <2> QED BY <1>1, <2>1, <2>2 DEF PairsInv
<1> QED BY <1>2, <1>3, <1>4, <1>6, <1>7 DEF IInv

LEMMA ProcessEOFKeeps == ASSUME IInv, ProcessEOF PROVE IInv'
<1>1. /\ phase = "process_label" /\ phase' = "error"
      /\ UNCHANGED <<file, visited, q>> /\ labels' = labels /\ cur_ptr' = cur_ptr /\ prev' = prev
      /\ collect_single' = collect_single /\ collect_pairs' = collect_pairs
  BY DEF ProcessEOF, Process, collected
<1>2. Done' = Done BY <1>1 DEF Done
<1>3. /\ labels \in Seq(Offsets) /\ Once(labels) /\ collect_single \in Seq(Offsets) /\ Once(collect_single)
      /\ collect_pairs \in Seq(Offsets) /\ Once(collect_pairs)
      /\ cur_ptr \in Offsets /\ prev \in Offsets \cup {0}
  BY DEF IInv, PhaseInv, WalkInv, PairsInv
<1> QED BY <1>1, <1>2, <1>3, Rearranges

LEMMA TakeLabelKeeps == ASSUME IInv, TakeLabel PROVE IInv'
<1>1. /\ phase = "labels" /\ labels # <<>> /\ phase' = "process_label"
      /\ cur_ptr' = Head(labels) /\ labels' = Tail(labels) /\ prev' = 0
      /\ UNCHANGED <<file, visited, q>>
      /\ collect_single' = collect_single /\ collect_pairs' = collect_pairs
  BY DEF TakeLabel, collected
<1>2. Done' = Done BY <1>1 DEF Done
<1>3. /\ labels \in Seq(Offsets) /\ Once(labels) /\ collect_single \in Seq(Offsets) /\ Once(collect_single)
      /\ collect_pairs \in Seq(Offsets) /\ Once(collect_pairs)
      /\ \A i \in Range(labels) : 1 \in visited[i] /\ 2 \in visited[i]
  BY DEF IInv, WalkInv, PairsInv
<1>4. PICK l \in Seq(Offsets) : l = labels BY <1>3
<1>5. /\ Head(l) \in Offsets /\ Tail(l) \in Seq(Offsets) /\ Range(l) = Range(Tail(l)) \cup {Head(l)}
      /\ Once(Tail(l)) /\ Head(l) \notin Range(Tail(l))
  BY <1>1, <1>3, <1>4, Taken
<1>6. Held' = Held BY <1>1, <1>4, <1>5 DEF Held
<1>7. cur_ptr' \in Known \ Range(labels') /\ 2 \in visited[cur_ptr']
  BY <1>1, <1>3, <1>4, <1>5 DEF Known
<1> QED BY <1>1, <1>2, <1>3, <1>4, <1>5, <1>6, <1>7, Rearranges

LEMMA CountKeeps == ASSUME IInv, Count PROVE IInv'
<1>1. /\ phase = "labels" /\ labels = <<>> /\ phase' = "done"
      /\ collect_single' = Sorted(collect_single, Before(FALSE))
      /\ collect_pairs' = Sorted(collect_pairs, Before(TRUE))
      /\ UNCHANGED <<file, visited, q>> /\ labels' = labels /\ cur_ptr' = cur_ptr /\ prev' = prev
  BY DEF Count
<1>2. /\ labels \in Seq(Offsets) /\ Once(labels) /\ collect_single \in Seq(Offsets) /\ Once(collect_single)
      /\ collect_pairs \in Seq(Offsets) /\ Once(collect_pairs)
      /\ cur_ptr \in Offsets /\ prev \in Offsets \cup {0}
  BY DEF IInv, PhaseInv, WalkInv, PairsInv
<1>3. PICK R1 : R1 = Before(FALSE) OBVIOUS
<1>4. PICK R2 : R2 = Before(TRUE) OBVIOUS
<1>5. PICK s \in Seq(Offsets) : s = collect_single BY <1>2
<1>6. PICK p \in Seq(Offsets) : p = collect_pairs BY <1>2
<1>7. Sorted(s, R1) \in Seq(Offsets) /\ Range(Sorted(s, R1)) = Range(s) /\ Once(Sorted(s, R1))
  BY <1>2, <1>5, SortKeeps
<1>8. Sorted(p, R2) \in Seq(Offsets) /\ Range(Sorted(p, R2)) = Range(p) /\ Once(Sorted(p, R2))
  BY <1>2, <1>6, SortKeeps
<1>9. Done' = Done BY <1>1, <1>3, <1>5, <1>7 DEF Done
<1>10. Held' = Held BY <1>1 DEF Held
<1>11. /\ collect_single' \in Seq(Offsets) /\ Once(collect_single')
       /\ collect_pairs' \in Seq(Offsets) /\ Once(collect_pairs')
       /\ Range(collect_pairs') = Range(collect_pairs)
  BY <1>1, <1>3, <1>4, <1>5, <1>6, <1>7, <1>8
<1> QED BY <1>1, <1>2, <1>9, <1>10, <1>11, Rearranges

LEMMA Stutters == ASSUME IInv, UNCHANGED vars PROVE IInv'
<1>1. /\ program' = program /\ publics' = publics /\ visited' = visited /\ q' = q /\ labels' = labels
      /\ cur_ptr' = cur_ptr /\ prev' = prev /\ collect_single' = collect_single
      /\ collect_pairs' = collect_pairs /\ phase' = phase /\ UNCHANGED file
  BY DEF vars, file, collected
<1>2. /\ Offsets' = Offsets /\ SymbolSet' = SymbolSet /\ Reachable' = Reachable
      /\ \A i : Target(i)' = Target(i) /\ Falls(i)' = Falls(i)
  BY <1>1, SameFile
<1>3. \A i : Flooded(i)' = Flooded(i) BY <1>1, <1>2 DEF Flooded
<1>4. FileInv' BY <1>1 DEF IInv, FileInv
<1>5. MarksInv' BY <1>1, <1>2, <1>3 DEF IInv, MarksInv
<1>6. PhaseInv' BY <1>1, <1>2 DEF IInv, PhaseInv
<1>7. Known' = Known /\ Done' = Done /\ Held' = Held BY <1>1, <1>2 DEF Known, Done, Held
<1>8. WalkInv' BY <1>1, <1>2, <1>7 DEF IInv, WalkInv
<1>9. PairsInv' BY <1>1, <1>2, <1>7 DEF IInv, PairsInv
<1> QED BY <1>4, <1>5, <1>6, <1>8, <1>9 DEF IInv

\* Every step keeps the invariant.
LEMMA Steps == IInv /\ [Next]_vars => IInv'
<1> SUFFICES ASSUME IInv, [Next]_vars PROVE IInv' OBVIOUS
<1>1. CASE CollectMarks
  BY <1>1, MarkEOFKeeps, MarkBranchKeeps, MarkOnKeeps, MarksDoneKeeps DEF CollectMarks
<1>2. CASE Analyze
  BY <1>2, TakeLabelKeeps, ProcessStopKeeps, ProcessJumpKeeps, ProcessBranchKeeps,
     ProcessOtherKeeps, ProcessEOFKeeps, CountKeeps DEF Analyze
<1>3. CASE UNCHANGED vars BY <1>3, Stutters
<1> QED BY <1>1, <1>2, <1>3 DEF Next, Ended

\* The bits mean what they say, and what is collected is what they say, in every
\* state.
THEOREM Invariance == Spec => []IInv
BY Initially, Steps, PTL DEF Spec

-----------------------------------------------------------------------------
(* The properties *)

\* In every state, analyze has been only where collect_marks has, and a label it
\* has still to take is a leader.
THEOREM LabelsAreLeaders == Spec => []TraversalOnMarks
<1>1. ASSUME IInv PROVE TraversalOnMarks
  <2>1. \A i \in Offsets : 1 \in visited[i] => 4 \in visited[i] BY <1>1 DEF IInv, WalkInv, Known
  <2>2. labels \in Seq(Offsets) /\ \A i \in Range(labels) : 2 \in visited[i] BY <1>1 DEF IInv, WalkInv
  <2>3. \A k \in DOMAIN labels : labels[k] \in Range(labels) BY DEF Range
  <2> QED BY <2>1, <2>2, <2>3 DEF TraversalOnMarks
<1> QED BY <1>1, Invariance, PTL

\* At the end what is known has been collected: it is closed, and so everything
\* that can be reached.
LEMMA AllCollected ==
  ASSUME IInv, phase = "done"
  PROVE  Done = Known /\ Known = Reachable /\ CodeFacts /\ SymbolSet \subseteq Offsets
<1>1. CodeFacts BY CodeOf DEF IInv
<1>2. SymbolSet \subseteq Offsets BY <1>1, SymbolsOnce DEF CodeFacts
<1>3. labels = <<>> /\ Range(<<>>) = {} BY DEF IInv, PhaseInv, Range
<1>4. Held = {} BY <1>3 DEF Held
<1>5. Done = Known /\ SymbolSet \subseteq Known /\ Known \subseteq Reachable BY <1>4 DEF IInv, WalkInv
<1>6. Closed(Known) BY <1>5 DEF IInv, WalkInv, Closed
<1>7. Reachable \subseteq Known BY <1>1, <1>2, <1>5, <1>6, ReachableIsClosed
<1> QED BY <1>1, <1>2, <1>5, <1>7

\* analyze collects every instruction that can be reached, once, and no other.
THEOREM ReachableCollected == Spec => []SinglesAreReachable
<1>1. ASSUME IInv PROVE SinglesAreReachable
  <2> SUFFICES ASSUME phase = "done" PROVE EachOnce(collect_single, Reachable)
    BY DEF SinglesAreReachable
  <2>1. Range(collect_single) = Reachable BY <1>1, AllCollected DEF Done
  <2>2. collect_single \in Seq(Offsets) /\ Once(collect_single) BY <1>1 DEF IInv, WalkInv
  <2> QED BY <2>1, <2>2, OnceLength
<1> QED BY <1>1, Invariance, PTL

\* No pair analyze has collected spans a point where control may arrive from
\* elsewhere or turn, and each that certainly does not is collected, once.
THEOREM StraightCollected == Spec => []PairsAreStraight
<1>1. ASSUME IInv PROVE PairsAreStraight
  <2> DEFINE entries(S) == SymbolSet \cup UNION {Target(i) : i \in S}
             straight(S) == {i \in Reachable : /\ program[i].op \notin Branches
                                               /\ Falls(i) # {} /\ i + 1 \notin entries(S)}
             pairs == Range(collect_pairs)
  <2> SUFFICES ASSUME phase = "done"
               PROVE  /\ EachOnce(collect_pairs, pairs)
                      /\ pairs \subseteq straight(Reachable)
                      /\ straight(Offsets) \subseteq pairs
    BY DEF PairsAreStraight, Range
  <2>1. Done = Known /\ Known = Reachable /\ CodeFacts /\ SymbolSet \subseteq Offsets
    BY <1>1, AllCollected
  <2>2. /\ collect_pairs \in Seq(Offsets) /\ Once(collect_pairs)
        /\ pairs = {i \in Done : Falls(i) # {} /\ i + 1 \in Done /\ 2 \notin visited[i + 1]}
    BY <1>1 DEF IInv, PairsInv
  <2>3. EachOnce(collect_pairs, pairs) BY <2>2, OnceLength
  <2>4. Known \subseteq Offsets /\ Offsets \subseteq Nat BY <2>1 DEF Known, CodeFacts
  <2>5. \A i \in SymbolSet : 2 \in visited[i] BY <1>1 DEF IInv, MarksInv
  <2>6. \A i \in Known : \A j \in Target(i) : 2 \in visited[j]
    <3>1. q = <<>> /\ Range(<<>>) = {} BY <1>1 DEF IInv, PhaseInv, Range
    <3>2. \A i \in Known : i \in Offsets /\ 4 \in visited[i] BY <1>1, <2>4 DEF IInv, WalkInv
    <3>3. \A i \in Known : Flooded(i) BY <1>1, <3>1, <3>2 DEF IInv, MarksInv
    <3> QED BY <3>3 DEF Flooded
  <2>7. pairs \subseteq straight(Reachable)
    <3> SUFFICES ASSUME NEW i \in pairs PROVE i \in straight(Reachable) OBVIOUS
    <3>1. i \in Reachable /\ Falls(i) # {} /\ i + 1 \in Known /\ 2 \notin visited[i + 1]
      BY <2>1, <2>2
    <3>2. i + 1 \notin entries(Reachable) BY <2>1, <2>5, <2>6, <3>1
    <3>3. 4 \in visited[i + 1] BY <1>1, <3>1 DEF IInv, WalkInv
    <3>4. program[i].op \notin Branches
      BY <1>1, <2>1, <2>4, <3>1, <3>3 DEF IInv, MarksInv
    <3> QED BY <3>1, <3>2, <3>4
  <2>8. straight(Offsets) \subseteq pairs
    <3> SUFFICES ASSUME NEW i \in straight(Offsets) PROVE i \in pairs OBVIOUS
    <3>1. i \in Done /\ Falls(i) # {} BY <2>1
    <3>2. Falls(i) = {i + 1} BY <3>1 DEF Falls
    <3>3. i + 1 \in Known BY <1>1, <3>1, <3>2 DEF IInv, WalkInv
    <3>4. 2 \notin visited[i + 1]
      <4> SUFFICES ASSUME 2 \in visited[i + 1] PROVE FALSE OBVIOUS
      <4>1. i + 1 \notin SymbolSet /\ \A j \in Offsets : i + 1 \notin Target(j) OBVIOUS
      <4>2. PICK j \in Offsets : i + 1 = j + 1 /\ program[j].op \in Branches
        BY <1>1, <2>4, <3>3, <4>1 DEF IInv, MarksInv
      <4>3. i \in Nat /\ j \in Nat BY <2>1, <2>4
      <4>4. i = j BY <4>2, <4>3
      <4> QED BY <4>2, <4>4
    <3> QED BY <2>1, <2>2, <3>1, <3>3, <3>4
  <2> QED BY <2>3, <2>7, <2>8
<1> QED BY <1>1, Invariance, PTL

-----------------------------------------------------------------------------
(* The runs *)

\* What adding the n-th element of s to the runs so far gives.
Added(t, s, n, pair) ==
  IF t # <<>> /\ ~Cmp(s[t[Len(t)].i], s[n], pair)
    THEN [t EXCEPT ![Len(t)].count = @ + 1]
    ELSE Append(t, [count |-> 1, i |-> n, pair |-> pair])

LEMMA AddedIsRuns ==
  ASSUME NEW t \in Seq(Run), NEW s, NEW n \in Nat \ {0}, NEW pair \in BOOLEAN
  PROVE  Added(t, s, n, pair) \in Seq(Run)
<1>1. [count |-> 1, i |-> n, pair |-> pair] \in Run BY DEF Run
<1>2. CASE t # <<>>
  <2>1. Len(t) \in 1..Len(t) BY <1>2
  <2>2. t[Len(t)] \in Run BY <2>1
  <2>3. t[Len(t)].count \in Nat \ {0} BY <2>2 DEF Run
  <2>4. [t[Len(t)] EXCEPT !.count = @ + 1] \in Run BY <2>2, <2>3 DEF Run
  <2>5. [t EXCEPT ![Len(t)].count = @ + 1] = [t EXCEPT ![Len(t)] = [t[Len(t)] EXCEPT !.count = @ + 1]]
    OBVIOUS
  <2>6. [t EXCEPT ![Len(t)].count = @ + 1] \in Seq(Run) BY <2>1, <2>4, <2>5
  <2> QED BY <1>1, <2>6 DEF Added
<1>3. CASE t = <<>> BY <1>1, <1>3 DEF Added
<1> QED BY <1>2, <1>3

\* Runs takes the elements one by one.
LEMMA RunSteps ==
  ASSUME NEW S, NEW s \in Seq(S), NEW pair \in BOOLEAN
  PROVE  \E f : /\ f[0] = <<>>
                /\ \A n \in 0..Len(s) : f[n] \in Seq(Run)
                /\ \A n \in 1..Len(s) : f[n] = Added(f[n - 1], s, n, pair)
                /\ Runs(s, pair) = f[Len(s)]
<1> DEFINE L == Len(s)
           add == [n \in DOMAIN s |-> [t \in Seq(Run) |->
             IF t # <<>> /\ ~Cmp(s[t[Len(t)].i], s[n], pair)
               THEN [t EXCEPT ![Len(t)].count = @ + 1]
               ELSE Append(t, [count |-> 1, i |-> n, pair |-> pair])]]
           Sat(f) == f = [n \in 0..L |-> IF n = 0 THEN <<>> ELSE add[n][f[n - 1]]]
<1>1. L \in Nat /\ DOMAIN s = 1..L OBVIOUS
<1>2. \A n \in 1..L : \A t \in Seq(Run) : add[n][t] = Added(t, s, n, pair) /\ add[n][t] \in Seq(Run)
  <2> SUFFICES ASSUME NEW n \in 1..L, NEW t \in Seq(Run)
               PROVE  add[n][t] = Added(t, s, n, pair) /\ add[n][t] \in Seq(Run)
    OBVIOUS
  <2>1. add[n][t] = Added(t, s, n, pair) BY <1>1 DEF Added
  <2>2. n \in Nat \ {0} BY <1>1
  <2> HIDE DEF add
  <2> QED BY <2>1, <2>2, AddedIsRuns
<1>3. Runs(s, pair) = (CHOOSE f : Sat(f))[L] BY DEF Runs
<1> HIDE DEF add, L
<1>4. <<>> \in Seq(Run) OBVIOUS
<1>5. PICK g : IsRecursion(g, L, Seq(Run), <<>>, add) BY <1>1, <1>2, <1>4, Recursion
<1>6. Sat(g)
  <2>1. \A n \in 0..L : n # 0 => n - 1 \in 0..L /\ n \in 1..L BY <1>1
  <2>2. g = [n \in 0..L |-> g[n]] BY <1>5 DEF IsRecursion
  <2>3. \A n \in 0..L : g[n] = IF n = 0 THEN <<>> ELSE add[n][g[n - 1]]
    BY <1>5, <2>1 DEF IsRecursion
  <2> QED BY <2>2, <2>3
<1> DEFINE f == CHOOSE h : Sat(h)
<1>7. \E h : Sat(h) BY <1>6
<1>8. Sat(f)
  <2> HIDE DEF Sat
  <2> QED BY <1>7
<1> HIDE DEF f
<1>9. f[0] = <<>> BY <1>1, <1>8
<1>10. \A n \in 1..L : f[n] = add[n][f[n - 1]]
  <2>1. \A n \in 1..L : n \in 0..L /\ n # 0 BY <1>1
  <2> QED BY <1>8, <2>1
<1> HIDE DEF Sat
<1> DEFINE T == {n \in 0..L : f[n] \in Seq(Run)}
<1>11. 0..L \subseteq T
  <2>1. 0 \in T
    <3>1. 0 \in 0..L /\ f[0] \in Seq(Run) BY <1>1, <1>4, <1>9
    <3> QED BY <3>1
  <2>2. \A n \in 0..L : n < L /\ n \in T => n + 1 \in T
    <3> SUFFICES ASSUME NEW n \in 0..L, n < L, n \in T PROVE n + 1 \in T OBVIOUS
    <3>1. n + 1 \in 1..L /\ (n + 1) - 1 = n BY <1>1
    <3>2. f[n + 1] = add[n + 1][f[n]] BY <1>10, <3>1
    <3>3. f[n + 1] \in Seq(Run) BY <1>2, <3>1, <3>2
    <3> QED BY <1>1, <3>1, <3>3
  <2> HIDE DEF T
  <2> QED BY <1>1, <2>1, <2>2, IntervalInduction
<1>12. \A n \in 1..L : f[n] = Added(f[n - 1], s, n, pair)
  <2> SUFFICES ASSUME NEW n \in 1..L PROVE f[n] = Added(f[n - 1], s, n, pair) OBVIOUS
  <2>1. n - 1 \in 0..L BY <1>1
  <2>2. f[n - 1] \in Seq(Run) BY <1>11, <2>1
  <2> QED BY <1>2, <1>10, <2>2
<1> QED BY <1>3, <1>9, <1>11, <1>12 DEF f, L

LEMMA RunsAreRuns ==
  ASSUME NEW S, NEW s \in Seq(S), NEW pair \in BOOLEAN
  PROVE  Runs(s, pair) \in Seq(Run)
<1>1. PICK f : /\ \A n \in 0..Len(s) : f[n] \in Seq(Run)
               /\ Runs(s, pair) = f[Len(s)]
  BY RunSteps
<1>2. Len(s) \in 0..Len(s) OBVIOUS
<1> QED BY <1>1, <1>2

LEMMA CountedIsRuns ==
  ASSUME NEW r \in Seq(Run)
  PROVE  Counted(r) \in Seq(Run)
<1>1. PICK R : R = {xy \in Run \X Run : Ahead(xy[1], xy[2])} OBVIOUS
<1>2. Counted(r) = Sorted(r, R) BY <1>1 DEF Counted
<1> QED BY <1>2, SortKeeps

\* A sequence is one of the elements it has.
LEMMA ElementsType ==
  ASSUME NEW S, NEW s \in Seq(S), NEW T, Range(s) \subseteq T
  PROVE  s \in Seq(T)
<1>1. \A k \in 1..Len(s) : s[k] \in T BY AtPlace
<1>2. s = [k \in 1..Len(s) |-> s[k]] /\ Len(s) \in Nat OBVIOUS
<1> QED BY <1>1, <1>2, IsASeq

\* In every state, each variable is of its type, the worklists hold offsets whose
\* bits say so, and what is printed are counts that are not zero.
THEOREM TypesHold == Spec => []TypeOK
<1> DEFINE J == IInv /\ counter \in Seq(Run)
<1>1. Init => J
  <2>1. Init => counter \in Seq(Run) BY DEF Init
  <2> QED BY <2>1, Initially
<1>2. IInv /\ counter \in Seq(Run) /\ [Next]_vars => counter' \in Seq(Run)
  <2> SUFFICES ASSUME IInv, counter \in Seq(Run), [Next]_vars PROVE counter' \in Seq(Run) OBVIOUS
  <2>1. CASE Count
    <3>1. PICK s \in Seq(Offsets) : s = collect_single BY DEF IInv, WalkInv
    <3>2. PICK p \in Seq(Offsets) : p = collect_pairs BY DEF IInv, PairsInv
    <3>3. PICK R1 : R1 = Before(FALSE) OBVIOUS
    <3>4. PICK R2 : R2 = Before(TRUE) OBVIOUS
    <3>5. Sorted(s, R1) \in Seq(Offsets) /\ Sorted(p, R2) \in Seq(Offsets) BY SortKeeps
    <3>6. PICK s1 \in Seq(Offsets) : s1 = collect_single' BY <2>1, <3>1, <3>3, <3>5 DEF Count
    <3>7. PICK p1 \in Seq(Offsets) : p1 = collect_pairs' BY <2>1, <3>2, <3>4, <3>5 DEF Count
    <3>8. Runs(s1, FALSE) \in Seq(Run) /\ Runs(p1, TRUE) \in Seq(Run) BY RunsAreRuns
    <3>9. PICK r : r = Runs(s1, FALSE) \o Runs(p1, TRUE) OBVIOUS
    <3>10. counter' = Counted(r) BY <2>1, <3>6, <3>7, <3>9 DEF Count
    <3>11. r \in Seq(Run)
      <4>1. PICK u \in Seq(Run) : u = Runs(s1, FALSE) BY <3>8
      <4>2. PICK v \in Seq(Run) : v = Runs(p1, TRUE) BY <3>8
      <4>3. u \o v \in Seq(Run) OBVIOUS
      <4> QED BY <3>9, <4>1, <4>2, <4>3
    <3> QED BY <3>10, <3>11, CountedIsRuns
  <2>2. CASE ~Count
    <3>1. counter' = counter
      BY <2>2 DEF Next, CollectMarks, Analyze, Ended, MarkEOF, MarkBranch, MarkOn, MarksDone, Mark, TakeLabel,
                  ProcessStop, ProcessJump, ProcessBranch, ProcessOther, ProcessEOF, Process, vars
    <3> QED BY <3>1
  <2> QED BY <2>1, <2>2
<1>3. J => TypeOK
  <2> SUFFICES ASSUME J PROVE TypeOK OBVIOUS
  <2>1. /\ visited \in [Offsets -> SUBSET Bits] /\ cur_ptr \in Offsets /\ prev \in Offsets \cup {0}
        /\ collect_single \in Seq(Offsets) /\ collect_pairs \in Seq(Offsets)
        /\ counter \in Seq(Run) /\ phase \in Phases
    BY DEF IInv, MarksInv, PhaseInv, WalkInv, PairsInv
  <2>2. q \in Seq({i \in Offsets : 4 \in visited[i]})
    <3>1. q \in Seq(Offsets) /\ \A i \in Range(q) : 4 \in visited[i] BY DEF IInv, MarksInv
    <3>2. Range(q) \subseteq Offsets BY <3>1, AtPlace
    <3>3. PICK T : T = {i \in Offsets : 4 \in visited[i]} OBVIOUS
    <3>4. Range(q) \subseteq T BY <3>1, <3>2, <3>3
    <3>5. q \in Seq(T) BY <3>1, <3>4, ElementsType
    <3> QED BY <3>3, <3>5
  <2>3. labels \in Seq({i \in Offsets : 1 \in visited[i]})
    <3>1. labels \in Seq(Offsets) /\ \A i \in Range(labels) : 1 \in visited[i] BY DEF IInv, WalkInv
    <3>2. Range(labels) \subseteq Offsets BY <3>1, AtPlace
    <3>3. PICK T : T = {i \in Offsets : 1 \in visited[i]} OBVIOUS
    <3>4. Range(labels) \subseteq T BY <3>1, <3>2, <3>3
    <3>5. labels \in Seq(T) BY <3>1, <3>4, ElementsType
    <3> QED BY <3>3, <3>5
  <2> QED BY <2>1, <2>2, <2>3 DEF TypeOK
<1>4. J /\ [Next]_vars => J' BY <1>2, Steps
<1> HIDE DEF J
<1> QED BY <1>1, <1>3, <1>4, PTL DEF Spec

-----------------------------------------------------------------------------
(* compare_bytes is an order of sequences of bytes: the first place where two *)
(* differ decides, a place past the end going before every byte.              *)

Byte == 0..255

Less(x, y) == CompareBytes(x, y) < 0

Shown(x, k) == IF k \in DOMAIN x THEN Char(x[k]) ELSE -129

FirstLess(x, y) == \E k \in Nat \ {0} : /\ \A j \in 1..(k - 1) : Shown(x, j) = Shown(y, j)
                                        /\ Shown(x, k) < Shown(y, k)

LEMMA CharDistinct ==
  /\ \A b \in Byte : Char(b) \in Int /\ Char(b) > -129
  /\ \A b, c \in Byte : Char(b) = Char(c) => b = c
BY DEF Byte, Char

LEMMA ShownFacts ==
  ASSUME NEW x \in Seq(Byte)
  PROVE  /\ \A k : Shown(x, k) \in Int /\ Shown(x, k) >= -129
         /\ \A k \in 1..Len(x) : Shown(x, k) = Char(x[k]) /\ Shown(x, k) > -129 /\ x[k] \in Byte
         /\ \A k \in Nat : k > Len(x) => Shown(x, k) = -129
         /\ DOMAIN x = 1..Len(x) /\ Len(x) \in Nat
<1>1. DOMAIN x = 1..Len(x) /\ Len(x) \in Nat /\ \A k \in 1..Len(x) : x[k] \in Byte OBVIOUS
<1>2. \A k \in 1..Len(x) : Shown(x, k) = Char(x[k]) BY <1>1 DEF Shown
<1>3. \A k : k \notin 1..Len(x) => Shown(x, k) = -129 BY <1>1 DEF Shown
<1> QED BY <1>1, <1>2, <1>3, CharDistinct

LEMMA SameElements ==
  ASSUME NEW x \in Seq(Byte), NEW y \in Seq(Byte), Len(x) = Len(y), \A k \in 1..Len(x) : x[k] = y[k]
  PROVE  x = y
OBVIOUS

\* Two that agree at every place are the same.
LEMMA ShownDistinct ==
  ASSUME NEW x \in Seq(Byte), NEW y \in Seq(Byte), \A k \in Nat \ {0} : Shown(x, k) = Shown(y, k)
  PROVE  x = y
<1>1. PICK m \in Nat : m = Len(x) OBVIOUS
<1>2. PICK n \in Nat : n = Len(y) OBVIOUS
<1>3. /\ \A k \in 1..m : Shown(x, k) = Char(x[k]) /\ Shown(x, k) > -129 /\ x[k] \in Byte
      /\ \A k \in 1..n : Shown(y, k) = Char(y[k]) /\ Shown(y, k) > -129 /\ y[k] \in Byte
      /\ \A k \in Nat : k > m => Shown(x, k) = -129
      /\ \A k \in Nat : k > n => Shown(y, k) = -129
  BY <1>1, <1>2, ShownFacts
<1>4. ASSUME NEW i \in Nat, NEW j \in Nat, i < j PROVE i + 1 \in Nat \ {0} /\ i + 1 > i /\ i + 1 \in 1..j
  BY <1>4
<1>5. ~(m < n)
  <2> SUFFICES ASSUME m < n PROVE FALSE OBVIOUS
  <2>1. m + 1 \in Nat \ {0} /\ m + 1 > m /\ m + 1 \in 1..n BY <1>4
  <2>2. Shown(x, m + 1) = -129 /\ Shown(y, m + 1) > -129 BY <1>3, <2>1
  <2> QED BY <2>1, <2>2
<1>6. ~(n < m)
  <2> SUFFICES ASSUME n < m PROVE FALSE OBVIOUS
  <2>1. n + 1 \in Nat \ {0} /\ n + 1 > n /\ n + 1 \in 1..m BY <1>4
  <2>2. Shown(y, n + 1) = -129 /\ Shown(x, n + 1) > -129 BY <1>3, <2>1
  <2> QED BY <2>1, <2>2
<1>7. m = n BY <1>5, <1>6
<1>8. \A k \in 1..m : k \in Nat \ {0} /\ k \in 1..n BY <1>7
<1>9. \A k \in 1..m : x[k] = y[k] BY <1>3, <1>8, CharDistinct
<1> QED BY <1>1, <1>2, <1>7, <1>9, SameElements

LEMMA CompareFirst ==
  ASSUME NEW x \in Seq(Byte), NEW y \in Seq(Byte)
  PROVE  /\ CompareBytes(x, y) \in Int
         /\ CompareBytes(x, y) = 0 <=> x = y
         /\ CompareBytes(x, y) < 0 <=> FirstLess(x, y)
<1> DEFINE D == {k \in DOMAIN x \cap DOMAIN y : x[k] # y[k]}
           c == CompareBytes(x, y)
<1>1. PICK m \in Nat : m = Len(x) OBVIOUS
<1>2. PICK n \in Nat : n = Len(y) OBVIOUS
<1>3. /\ DOMAIN x = 1..m /\ DOMAIN y = 1..n
      /\ \A k : Shown(x, k) \in Int /\ Shown(y, k) \in Int /\ Shown(x, k) >= -129 /\ Shown(y, k) >= -129
      /\ \A k \in 1..m : Shown(x, k) = Char(x[k]) /\ Shown(x, k) > -129 /\ x[k] \in Byte
      /\ \A k \in 1..n : Shown(y, k) = Char(y[k]) /\ Shown(y, k) > -129 /\ y[k] \in Byte
      /\ \A k \in Nat : k > m => Shown(x, k) = -129
      /\ \A k \in Nat : k > n => Shown(y, k) = -129
  BY <1>1, <1>2, ShownFacts
<1>4. CASE x = y
  <2>1. c = 0 BY <1>4 DEF CompareBytes
  <2>2. ~FirstLess(x, y) BY <1>3, <1>4 DEF FirstLess
  <2> QED BY <1>4, <2>1, <2>2
<1>5. CASE x # y /\ D = {}
  <2>1. c = m - n BY <1>1, <1>2, <1>5 DEF CompareBytes
  <2>2. \A k \in 1..m : k \in 1..n => x[k] = y[k] BY <1>3, <1>5
  <2>3. m # n
    <3> SUFFICES ASSUME m = n PROVE FALSE OBVIOUS
    <3>1. \A k \in 1..m : x[k] = y[k] BY <2>2
    <3> QED BY <1>1, <1>2, <1>5, <3>1, SameElements
  <2> HIDE DEF D, c
  <2>4. m < n => FirstLess(x, y)
    <3> SUFFICES ASSUME m < n PROVE FirstLess(x, y) OBVIOUS
    <3>1. PICK k \in Nat \ {0} : k = m + 1 OBVIOUS
    <3>2. k \in 1..n /\ k > m BY <3>1
    <3>3. Shown(x, k) < Shown(y, k) BY <1>3, <3>2
    <3>4. \A j \in 1..(k - 1) : j \in 1..m /\ j \in 1..n BY <3>1
    <3>5. \A j \in 1..(k - 1) : Shown(x, j) = Shown(y, j) BY <1>3, <2>2, <3>4
    <3> QED BY <3>3, <3>5 DEF FirstLess
  <2>5. m > n => ~FirstLess(x, y)
    <3> SUFFICES ASSUME m > n, NEW k \in Nat \ {0}, Shown(x, k) < Shown(y, k) PROVE FALSE BY DEF FirstLess
    <3>1. k \in 1..n
      <4> SUFFICES ASSUME k > n PROVE FALSE OBVIOUS
      <4> QED BY <1>3
    <3>2. k \in 1..m BY <3>1
    <3> QED BY <1>3, <2>2, <3>1, <3>2
  <2>6. c \in Int /\ c # 0 /\ (c < 0 <=> m < n) BY <2>1, <2>3
  <2>7. m < n \/ m > n BY <2>3
  <2> QED BY <1>5, <2>4, <2>5, <2>6, <2>7 DEF c
<1>6. CASE D # {}
  <2>1. D \in SUBSET Nat BY <1>3
  <2>2. \E d \in D : \A e \in D : d <= e BY <1>6, <2>1, NatOrder
  <2>3. x # y BY <1>6
  <2>4. c = LET k == CHOOSE d \in D : \A e \in D : d <= e IN Char(x[k]) - Char(y[k])
    BY <1>6, <2>3 DEF CompareBytes
  <2> HIDE DEF D
  <2>5. PICK d \in D : (\A e \in D : d <= e) /\ c = Char(x[d]) - Char(y[d]) BY <2>2, <2>4
  <2>6. d \in Nat \ {0} /\ d \in 1..m /\ d \in 1..n /\ x[d] # y[d] BY <1>3 DEF D
  <2>7. \A j \in 1..(d - 1) : j \in 1..m /\ j \in 1..n /\ j \in Nat /\ j < d BY <2>6
  <2>8. \A j \in 1..(d - 1) : x[j] = y[j]
    <3> SUFFICES ASSUME NEW j \in 1..(d - 1), x[j] # y[j] PROVE FALSE OBVIOUS
    <3>1. j \in D BY <1>3, <2>7 DEF D
    <3> QED BY <2>5, <2>6, <2>7, <3>1
  <2>9. \A j \in 1..(d - 1) : Shown(x, j) = Shown(y, j) BY <1>3, <2>7, <2>8
  <2>10. /\ Shown(x, d) = Char(x[d]) /\ Shown(y, d) = Char(y[d]) /\ Shown(x, d) # Shown(y, d)
         /\ Shown(x, d) \in Int /\ Shown(y, d) \in Int
    BY <1>3, <2>6, CharDistinct
  <2>11. FirstLess(x, y) => Shown(x, d) < Shown(y, d)
    <3> SUFFICES ASSUME FirstLess(x, y) PROVE Shown(x, d) < Shown(y, d) OBVIOUS
    <3>1. PICK k \in Nat \ {0} : (\A j \in 1..(k - 1) : Shown(x, j) = Shown(y, j)) /\ Shown(x, k) < Shown(y, k)
      BY DEF FirstLess
    <3>2. ~(d < k)
      <4>1. d < k => d \in 1..(k - 1) BY <2>6
      <4> QED BY <2>10, <3>1, <4>1
    <3>3. ~(k < d)
      <4>1. k < d => k \in 1..(d - 1) BY <2>6
      <4> QED BY <1>3, <2>9, <3>1, <4>1
    <3>4. k = d BY <2>6, <3>2, <3>3
    <3> QED BY <3>1, <3>4
  <2>12. Shown(x, d) < Shown(y, d) => FirstLess(x, y) BY <2>6, <2>9 DEF FirstLess
  <2>13. c \in Int /\ c # 0 /\ (c < 0 <=> Shown(x, d) < Shown(y, d)) BY <2>5, <2>10
  <2> HIDE DEF c
  <2> QED BY <2>3, <2>11, <2>12, <2>13 DEF c
<1> QED BY <1>4, <1>5, <1>6

LEMMA LessIsOrder ==
  ASSUME NEW x \in Seq(Byte), NEW y \in Seq(Byte)
  PROVE  /\ CompareBytes(x, y) = 0 <=> x = y
         /\ ~(Less(x, y) /\ Less(y, x))
         /\ x # y => Less(x, y) \/ Less(y, x)
         /\ x = y => ~Less(x, y)
         /\ \A z \in Seq(Byte) : Less(x, y) /\ Less(y, z) => Less(x, z)
<1>1. \A k : Shown(x, k) \in Int /\ Shown(y, k) \in Int BY ShownFacts
<1>2. /\ CompareBytes(x, y) \in Int /\ (CompareBytes(x, y) = 0 <=> x = y) /\ (Less(x, y) <=> FirstLess(x, y))
      /\ CompareBytes(y, x) \in Int /\ (CompareBytes(y, x) = 0 <=> x = y) /\ (Less(y, x) <=> FirstLess(y, x))
  BY CompareFirst DEF Less
<1>3. ASSUME Less(x, y), Less(y, x) PROVE FALSE
  <2>1. PICK k \in Nat \ {0} : (\A j \in 1..(k - 1) : Shown(x, j) = Shown(y, j)) /\ Shown(x, k) < Shown(y, k)
    BY <1>2, <1>3 DEF FirstLess
  <2>2. PICK m \in Nat \ {0} : (\A j \in 1..(m - 1) : Shown(y, j) = Shown(x, j)) /\ Shown(y, m) < Shown(x, m)
    BY <1>2, <1>3 DEF FirstLess
  <2>3. k < m => k \in 1..(m - 1) OBVIOUS
  <2>4. m < k => m \in 1..(k - 1) OBVIOUS
  <2> QED BY <1>1, <2>1, <2>2, <2>3, <2>4
<1>4. ASSUME x # y PROVE Less(x, y) \/ Less(y, x)
  <2> DEFINE D == {k \in Nat \ {0} : Shown(x, k) # Shown(y, k)}
  <2>1. D # {}
    <3>1. ~ \A k \in Nat \ {0} : Shown(x, k) = Shown(y, k) BY <1>4, ShownDistinct
    <3> QED BY <3>1
  <2>2. D \in SUBSET Nat OBVIOUS
  <2>3. PICK k \in D : \A e \in D : k <= e BY <2>1, <2>2, NatOrder
  <2>4. k \in Nat \ {0} /\ Shown(x, k) # Shown(y, k) OBVIOUS
  <2>5. \A j \in 1..(k - 1) : Shown(x, j) = Shown(y, j)
    <3> SUFFICES ASSUME NEW j \in 1..(k - 1) PROVE Shown(x, j) = Shown(y, j) OBVIOUS
    <3>1. j \in Nat \ {0} /\ ~(k <= j) BY <2>4
    <3> QED BY <2>3, <3>1
  <2>6. Shown(x, k) < Shown(y, k) \/ Shown(y, k) < Shown(x, k) BY <1>1, <2>4
  <2> QED BY <1>2, <2>4, <2>5, <2>6 DEF FirstLess
<1>5. ASSUME NEW z \in Seq(Byte), Less(x, y), Less(y, z) PROVE Less(x, z)
  <2>1. PICK k \in Nat \ {0} : (\A j \in 1..(k - 1) : Shown(x, j) = Shown(y, j)) /\ Shown(x, k) < Shown(y, k)
    BY <1>2, <1>5 DEF FirstLess
  <2>2. (Less(y, z) <=> FirstLess(y, z)) /\ (Less(x, z) <=> FirstLess(x, z)) BY CompareFirst DEF Less
  <2>3. PICK m \in Nat \ {0} : (\A j \in 1..(m - 1) : Shown(y, j) = Shown(z, j)) /\ Shown(y, m) < Shown(z, m)
    BY <1>5, <2>2 DEF FirstLess
  <2>4. \A j : Shown(z, j) \in Int BY ShownFacts
  <2>5. PICK n \in Nat \ {0} : n <= k /\ n <= m /\ (n = k \/ n = m)
    <3>1. k <= m \/ m <= k OBVIOUS
    <3>2. k <= k /\ m <= m OBVIOUS
    <3> QED BY <3>1, <3>2
  <2>6. \A j \in 1..(n - 1) : j \in 1..(k - 1) /\ j \in 1..(m - 1) BY <2>5
  <2>7. \A j \in 1..(n - 1) : Shown(x, j) = Shown(z, j) BY <2>1, <2>3, <2>6
  <2>8. n = k \/ n \in 1..(k - 1) BY <2>5
  <2>9. n = m \/ n \in 1..(m - 1) BY <2>5
  <2>10. Shown(x, n) < Shown(z, n) BY <1>1, <2>1, <2>3, <2>4, <2>5, <2>8, <2>9
  <2> QED BY <2>2, <2>7, <2>10 DEF FirstLess
<1>6. x = y => ~Less(x, y) BY <1>2 DEF Less
<1> QED BY <1>2, <1>3, <1>4, <1>5, <1>6

\* The bytes of an instruction are bytes, and tell it from the others of the code.
BytesInv == /\ bytes \in [Offsets -> Seq(Byte)]
            /\ \A i, j \in Offsets : bytes[i] = bytes[j] <=> program[i] = program[j]

Same(pair, i, j) == program[i] = program[j] /\ (pair => program[i + 1] = program[j + 1])

\* Cmp is a strict order of S in which the same instructions alone are equivalent.
Orders(S, pair) ==
  /\ \A i, j \in S : ~(Cmp(i, j, pair) /\ Cmp(j, i, pair))
  /\ \A i, j, k \in S : Cmp(i, j, pair) /\ Cmp(j, k, pair) => Cmp(i, k, pair)
  /\ \A i, j \in S : Same(pair, i, j) <=> ~Cmp(i, j, pair) /\ ~Cmp(j, i, pair)

LEMMA CmpOrders ==
  ASSUME BytesInv, NEW pair \in BOOLEAN, NEW S \in SUBSET Offsets, pair => \A i \in S : i + 1 \in Offsets
  PROVE  Orders(S, pair)
<1>1. \A i, j \in Offsets : CmpSingle(i, j) <=> Less(bytes[i], bytes[j]) BY DEF CmpSingle, Less
<1>2. \A i \in Offsets : bytes[i] \in Seq(Byte) BY DEF BytesInv
<1>3. \A i, j \in Offsets : ~(CmpSingle(i, j) /\ CmpSingle(j, i))
  <2> SUFFICES ASSUME NEW i \in Offsets, NEW j \in Offsets PROVE ~(CmpSingle(i, j) /\ CmpSingle(j, i)) OBVIOUS
  <2>1. PICK x \in Seq(Byte) : x = bytes[i] BY <1>2
  <2>2. PICK y \in Seq(Byte) : y = bytes[j] BY <1>2
  <2> QED BY <1>1, <2>1, <2>2, LessIsOrder
<1>4. \A i, j \in Offsets : program[i] = program[j] <=> ~CmpSingle(i, j) /\ ~CmpSingle(j, i)
  <2> SUFFICES ASSUME NEW i \in Offsets, NEW j \in Offsets
               PROVE  program[i] = program[j] <=> ~CmpSingle(i, j) /\ ~CmpSingle(j, i)
    OBVIOUS
  <2>1. PICK x \in Seq(Byte) : x = bytes[i] BY <1>2
  <2>2. PICK y \in Seq(Byte) : y = bytes[j] BY <1>2
  <2>3. x = y <=> ~Less(x, y) /\ ~Less(y, x)
    <3>1. x = y => ~Less(x, y) BY LessIsOrder
    <3>2. x = y => ~Less(y, x) BY LessIsOrder
    <3>3. x # y => Less(x, y) \/ Less(y, x) BY LessIsOrder
    <3> QED BY <3>1, <3>2, <3>3
  <2>4. program[i] = program[j] <=> x = y BY <2>1, <2>2 DEF BytesInv
  <2> QED BY <1>1, <2>1, <2>2, <2>3, <2>4
<1>5. \A i, j, k \in Offsets : CmpSingle(i, j) /\ CmpSingle(j, k) => CmpSingle(i, k)
  <2> SUFFICES ASSUME NEW i \in Offsets, NEW j \in Offsets, NEW k \in Offsets, CmpSingle(i, j), CmpSingle(j, k)
               PROVE  CmpSingle(i, k)
    OBVIOUS
  <2>1. PICK x \in Seq(Byte) : x = bytes[i] BY <1>2
  <2>2. PICK y \in Seq(Byte) : y = bytes[j] BY <1>2
  <2>3. PICK z \in Seq(Byte) : z = bytes[k] BY <1>2
  <2>4. Less(x, y) /\ Less(y, z) BY <1>1, <2>1, <2>2, <2>3
  <2>5. Less(x, z) BY <2>4, LessIsOrder
  <2> QED BY <1>1, <2>1, <2>3, <2>5
<1>6. CASE ~pair
  <2>1. \A i, j : (Cmp(i, j, pair) <=> CmpSingle(i, j)) /\ (Same(pair, i, j) <=> program[i] = program[j])
    BY <1>6 DEF Cmp, Same
  <2>2. \A i \in S : i \in Offsets OBVIOUS
  <2> QED BY <1>3, <1>4, <1>5, <2>1, <2>2 DEF Orders
<1>7. CASE pair
  <2>1. \A i \in S : i \in Offsets /\ i + 1 \in Offsets BY <1>7
  <2>2. \A i, j \in S : CompareBytes(bytes[i], bytes[j]) = 0 <=> program[i] = program[j]
    <3> SUFFICES ASSUME NEW i \in S, NEW j \in S
                 PROVE  CompareBytes(bytes[i], bytes[j]) = 0 <=> program[i] = program[j]
      OBVIOUS
    <3>1. PICK x \in Seq(Byte) : x = bytes[i] BY <1>2, <2>1
    <3>2. PICK y \in Seq(Byte) : y = bytes[j] BY <1>2, <2>1
    <3>3. CompareBytes(x, y) = 0 <=> x = y BY LessIsOrder
    <3> QED BY <3>1, <3>2, <3>3 DEF BytesInv
  <2>3. \A i, j \in S : Cmp(i, j, pair) <=>
          IF program[i] = program[j] THEN CmpSingle(i + 1, j + 1) ELSE CmpSingle(i, j)
    BY <1>7, <2>2 DEF Cmp, CmpPair, CmpSingle
  <2>4. \A i, j \in S : Same(pair, i, j) <=> program[i] = program[j] /\ program[i + 1] = program[j + 1]
    BY <1>7 DEF Same
  <2>5. \A i, j \in S : ~(Cmp(i, j, pair) /\ Cmp(j, i, pair)) BY <1>3, <2>1, <2>3
  <2>6. \A i, j \in S : Same(pair, i, j) <=> ~Cmp(i, j, pair) /\ ~Cmp(j, i, pair)
    BY <1>4, <2>1, <2>3, <2>4
  <2>7. ASSUME NEW i \in S, NEW j \in S, NEW k \in S, Cmp(i, j, pair), Cmp(j, k, pair)
        PROVE  Cmp(i, k, pair)
    <3>1. CASE program[i] = program[j] /\ program[j] = program[k]
      BY <1>5, <2>1, <2>3, <2>7, <3>1
    <3>2. CASE program[i] = program[j] /\ program[j] # program[k]
      <4>1. CmpSingle(j, k) BY <2>3, <2>7, <3>2
      <4>2. bytes[i] = bytes[j] BY <2>1, <3>2 DEF BytesInv
      <4>3. CmpSingle(i, k) BY <4>1, <4>2 DEF CmpSingle
      <4> QED BY <2>3, <3>2, <4>3
    <3>3. CASE program[i] # program[j] /\ program[j] = program[k]
      <4>1. CmpSingle(i, j) BY <2>3, <2>7, <3>3
      <4>2. bytes[j] = bytes[k] BY <2>1, <3>3 DEF BytesInv
      <4>3. CmpSingle(i, k) BY <4>1, <4>2 DEF CmpSingle
      <4> QED BY <2>3, <3>3, <4>3
    <3>4. CASE program[i] # program[j] /\ program[j] # program[k]
      <4>1. CmpSingle(i, j) /\ CmpSingle(j, k) BY <2>3, <2>7, <3>4
      <4>2. CmpSingle(i, k) BY <1>5, <2>1, <4>1
      <4>3. program[i] # program[k] BY <1>4, <2>1, <4>2
      <4> QED BY <2>3, <4>2, <4>3
    <3> QED BY <3>1, <3>2, <3>3, <3>4
  <2> QED BY <2>5, <2>6, <2>7 DEF Orders
<1> QED BY <1>6, <1>7

-----------------------------------------------------------------------------
(* The runs of what is in order are its classes of equal elements *)

\* A run among the first n elements of s stands for all those equal to its first.
RunOf(r, s, n, pair) ==
  /\ r.pair = pair /\ r.i \in 1..n /\ r.count \in Nat \ {0} /\ r.i + r.count <= n + 1
  /\ \A m \in 1..n : Same(pair, s[r.i], s[m]) <=> r.i <= m /\ m < r.i + r.count

\* The runs t of the first n elements of s: one for each class, the last up to n.
Measured(t, s, n, pair) ==
  /\ t \in Seq(Run)
  /\ \A k \in 1..Len(t) : RunOf(t[k], s, n, pair)
  /\ \A k, l \in 1..Len(t) : k # l => ~Same(pair, s[t[k].i], s[t[l].i])
  /\ \A m \in 1..n : \E k \in 1..Len(t) : Same(pair, s[t[k].i], s[m])
  /\ n # 0 => t # <<>> /\ t[Len(t)].i + t[Len(t)].count = n + 1

\* The next element is equal to those of the last run: it is one more of it.
LEMMA RunGrows ==
  ASSUME NEW s, NEW n \in Nat, NEW pair \in BOOLEAN, NEW t, Measured(t, s, n, pair), t # <<>>,
         Same(pair, s[t[Len(t)].i], s[n + 1])
  PROVE  Measured([t EXCEPT ![Len(t)].count = @ + 1], s, n + 1, pair)
<1>1. t \in Seq(Run) BY DEF Measured
<1>2. PICK L \in Nat \ {0} : L = Len(t) BY <1>1
<1>3. L \in 1..L /\ DOMAIN t = 1..L BY <1>1, <1>2
<1>4. PICK last \in Run : last = t[L] BY <1>1, <1>2, <1>3
<1>5. last.count \in Nat \ {0} /\ last.i \in Nat \ {0} /\ last.pair \in BOOLEAN BY <1>4 DEF Run
<1>6. PICK r : r = [last EXCEPT !.count = @ + 1] OBVIOUS
<1>7. r \in Run /\ r.i = last.i /\ r.count = last.count + 1 /\ r.pair = last.pair
  BY <1>4, <1>5, <1>6 DEF Run
<1>8. PICK u : u = [t EXCEPT ![Len(t)].count = @ + 1] OBVIOUS
<1>9. u = [t EXCEPT ![L] = r] BY <1>2, <1>4, <1>6, <1>8
<1>10. /\ u \in Seq(Run) /\ Len(u) = L /\ u[L] = r
       /\ \A k \in 1..L : k # L => u[k] = t[k]
  BY <1>1, <1>2, <1>3, <1>7, <1>9
<1>11. RunOf(last, s, n, pair) /\ last.i + last.count = n + 1
  <2>1. RunOf(t[L], s, n, pair) BY <1>2, <1>3 DEF Measured
  <2>2. n # 0 BY <1>4, <2>1 DEF RunOf
  <2> QED BY <1>2, <1>4, <2>1, <2>2 DEF Measured
<1>12. Same(pair, s[last.i], s[n + 1]) BY <1>2, <1>4
<1>13. \A m \in 1..(n + 1) : m = n + 1 \/ m \in 1..n OBVIOUS
<1>14. RunOf(r, s, n + 1, pair)
  <2>1. r.pair = pair /\ r.i \in 1..(n + 1) /\ r.count \in Nat \ {0} /\ r.i + r.count <= (n + 1) + 1
    BY <1>5, <1>7, <1>11 DEF RunOf
  <2>2. \A m \in 1..n : Same(pair, s[r.i], s[m]) <=> r.i <= m /\ m < r.i + r.count
    BY <1>5, <1>7, <1>11 DEF RunOf
  <2>3. r.i <= n + 1 /\ n + 1 < r.i + r.count BY <1>5, <1>7, <1>11
  <2> QED BY <1>7, <1>12, <1>13, <2>1, <2>2, <2>3 DEF RunOf
<1>15. \A k \in 1..L : k # L => ~Same(pair, s[t[k].i], s[n + 1])
  <2> SUFFICES ASSUME NEW k \in 1..L, k # L, Same(pair, s[t[k].i], s[n + 1]) PROVE FALSE OBVIOUS
  <2>1. Same(pair, s[t[k].i], s[last.i]) BY <1>12 DEF Same
  <2> QED BY <1>2, <1>3, <1>4, <2>1 DEF Measured
<1>16. \A k \in 1..L : RunOf(u[k], s, n + 1, pair)
  <2> SUFFICES ASSUME NEW k \in 1..L, k # L PROVE RunOf(u[k], s, n + 1, pair) BY <1>10, <1>14
  <2>1. PICK c : c = t[k] OBVIOUS
  <2>2. RunOf(c, s, n, pair) BY <1>2, <2>1 DEF Measured
  <2>3. ~Same(pair, s[c.i], s[n + 1]) BY <1>15, <2>1
  <2>4. c.pair = pair /\ c.i \in 1..(n + 1) /\ c.count \in Nat \ {0} /\ c.i + c.count <= (n + 1) + 1
    BY <2>2 DEF RunOf
  <2>5. ~(n + 1 < c.i + c.count) BY <2>2 DEF RunOf
  <2>6. \A m \in 1..n : Same(pair, s[c.i], s[m]) <=> c.i <= m /\ m < c.i + c.count BY <2>2 DEF RunOf
  <2>7. RunOf(c, s, n + 1, pair) BY <1>13, <2>3, <2>4, <2>5, <2>6 DEF RunOf
  <2> QED BY <1>10, <2>1, <2>7
<1>17. \A k \in 1..L : u[k].i = t[k].i BY <1>4, <1>7, <1>10
<1>18. \A k, l \in 1..L : k # l => ~Same(pair, s[u[k].i], s[u[l].i]) BY <1>2, <1>17 DEF Measured
<1>19. \A m \in 1..(n + 1) : \E k \in 1..L : Same(pair, s[u[k].i], s[m])
  <2> SUFFICES ASSUME NEW m \in 1..(n + 1) PROVE \E k \in 1..L : Same(pair, s[u[k].i], s[m]) OBVIOUS
  <2>1. CASE m = n + 1 BY <1>3, <1>4, <1>12, <1>17, <2>1
  <2>2. CASE m \in 1..n BY <1>2, <1>17, <2>2 DEF Measured
  <2> QED BY <1>13, <2>1, <2>2
<1>20. u # <<>> /\ u[Len(u)].i + u[Len(u)].count = (n + 1) + 1 BY <1>5, <1>7, <1>10, <1>11
<1>21. Measured(u, s, n + 1, pair) BY <1>10, <1>16, <1>18, <1>19, <1>20 DEF Measured
<1> QED BY <1>8, <1>21

\* The next element is equal to none so far: it begins a run.
LEMMA RunBegins ==
  ASSUME NEW s, NEW n \in Nat, NEW pair \in BOOLEAN, NEW t, Measured(t, s, n, pair),
         \A m \in 1..n : ~Same(pair, s[m], s[n + 1])
  PROVE  Measured(Append(t, [count |-> 1, i |-> n + 1, pair |-> pair]), s, n + 1, pair)
<1>1. t \in Seq(Run) BY DEF Measured
<1>2. PICK L \in Nat : L = Len(t) BY <1>1
<1>3. PICK r : r = [count |-> 1, i |-> n + 1, pair |-> pair] OBVIOUS
<1>4. r \in Run /\ r.i = n + 1 /\ r.count = 1 /\ r.pair = pair BY <1>3 DEF Run
<1>5. PICK u : u = Append(t, r) OBVIOUS
<1>6. /\ u \in Seq(Run) /\ Len(u) = L + 1 /\ u[L + 1] = r
      /\ \A k \in 1..L : u[k] = t[k]
  BY <1>1, <1>2, <1>4, <1>5
<1>7. \A k \in 1..(L + 1) : k = L + 1 \/ k \in 1..L BY <1>2
<1>8. L + 1 \in 1..(L + 1) /\ \A k \in 1..L : k \in 1..(L + 1) BY <1>2
<1>9. \A m \in 1..(n + 1) : m = n + 1 \/ m \in 1..n OBVIOUS
<1>10. \A k \in 1..L : RunOf(t[k], s, n, pair) BY <1>2 DEF Measured
<1>11. \A m \in 1..n : ~Same(pair, s[n + 1], s[m]) BY DEF Same
<1>12. Same(pair, s[n + 1], s[n + 1]) BY DEF Same
<1>13. RunOf(r, s, n + 1, pair)
  <2>1. r.pair = pair /\ r.i \in 1..(n + 1) /\ r.count \in Nat \ {0} /\ r.i + r.count <= (n + 1) + 1
    BY <1>4
  <2>2. \A m \in 1..n : ~(r.i <= m) BY <1>4
  <2>3. r.i <= n + 1 /\ n + 1 < r.i + r.count BY <1>4
  <2> QED BY <1>4, <1>9, <1>11, <1>12, <2>1, <2>2, <2>3 DEF RunOf
<1>14. \A k \in 1..L : RunOf(t[k], s, n + 1, pair)
  <2> SUFFICES ASSUME NEW k \in 1..L PROVE RunOf(t[k], s, n + 1, pair) OBVIOUS
  <2>1. PICK c : c = t[k] OBVIOUS
  <2>2. RunOf(c, s, n, pair) BY <1>10, <2>1
  <2>3. ~Same(pair, s[c.i], s[n + 1]) BY <2>2 DEF RunOf
  <2>4. c.pair = pair /\ c.i \in 1..(n + 1) /\ c.count \in Nat \ {0} /\ c.i + c.count <= (n + 1) + 1
    BY <2>2 DEF RunOf
  <2>5. ~(n + 1 < c.i + c.count) BY <2>2 DEF RunOf
  <2>6. \A m \in 1..n : Same(pair, s[c.i], s[m]) <=> c.i <= m /\ m < c.i + c.count BY <2>2 DEF RunOf
  <2>7. RunOf(c, s, n + 1, pair) BY <1>9, <2>3, <2>4, <2>5, <2>6 DEF RunOf
  <2> QED BY <2>1, <2>7
<1>15. \A k \in 1..(L + 1) : RunOf(u[k], s, n + 1, pair) BY <1>6, <1>7, <1>13, <1>14
<1>16. \A k \in 1..L : ~Same(pair, s[t[k].i], s[n + 1]) /\ ~Same(pair, s[n + 1], s[t[k].i])
  BY <1>10, <1>11 DEF RunOf
<1>17. \A k, l \in 1..L : k # l => ~Same(pair, s[t[k].i], s[t[l].i]) BY <1>2 DEF Measured
<1>18. \A k, l \in 1..(L + 1) : k # l => ~Same(pair, s[u[k].i], s[u[l].i])
  BY <1>4, <1>6, <1>7, <1>16, <1>17
<1>19. \A m \in 1..n : \E k \in 1..L : Same(pair, s[t[k].i], s[m]) BY <1>2 DEF Measured
<1>20. \A m \in 1..(n + 1) : \E k \in 1..(L + 1) : Same(pair, s[u[k].i], s[m])
  <2> SUFFICES ASSUME NEW m \in 1..(n + 1) PROVE \E k \in 1..(L + 1) : Same(pair, s[u[k].i], s[m]) OBVIOUS
  <2>1. CASE m = n + 1 BY <1>4, <1>6, <1>8, <1>12, <2>1
  <2>2. CASE m \in 1..n
    <3>1. PICK k \in 1..L : Same(pair, s[t[k].i], s[m]) BY <1>19, <2>2
    <3> QED BY <1>6, <1>8, <3>1
  <2> QED BY <1>9, <2>1, <2>2
<1>21. u # <<>> /\ u[Len(u)].i + u[Len(u)].count = (n + 1) + 1 BY <1>2, <1>4, <1>6
<1>22. Measured(u, s, n + 1, pair) BY <1>6, <1>15, <1>18, <1>20, <1>21 DEF Measured
<1> QED BY <1>3, <1>5, <1>22

LEMMA MeasuredOn ==
  ASSUME NEW S, NEW s \in Seq(S), NEW pair \in BOOLEAN, Orders(S, pair),
         \A i, j \in 1..Len(s) : i < j => ~Cmp(s[j], s[i], pair),
         NEW n \in Nat, n < Len(s), NEW t, Measured(t, s, n, pair)
  PROVE  Measured(Added(t, s, n + 1, pair), s, n + 1, pair)
<1>1. PICK x \in S : x = s[n + 1] OBVIOUS
<1>2. \A m \in 1..n : m \in 1..Len(s) /\ s[m] \in S OBVIOUS
<1>3. n + 1 \in 1..Len(s) OBVIOUS
<1>4. t \in Seq(Run) BY DEF Measured
<1>5. CASE t = <<>>
  <2>1. n = 0 BY <1>5 DEF Measured
  <2>2. \A m \in 1..n : ~Same(pair, s[m], s[n + 1]) BY <2>1
  <2>3. Added(t, s, n + 1, pair) = Append(t, [count |-> 1, i |-> n + 1, pair |-> pair])
    BY <1>5 DEF Added
  <2> QED BY <2>2, <2>3, RunBegins
<1>6. CASE t # <<>>
  <2>1. Len(t) \in 1..Len(t) BY <1>4, <1>6
  <2>2. PICK r \in Run : r = t[Len(t)] BY <1>4, <2>1
  <2>3. RunOf(r, s, n, pair) BY <2>1, <2>2 DEF Measured
  <2>4. r.i \in 1..n /\ r.count \in Nat \ {0} BY <2>3 DEF RunOf
  <2>5. r.i + r.count = n + 1 BY <1>6, <2>2, <2>4 DEF Measured
  <2>6. PICK y \in S : y = s[r.i] BY <1>2, <2>4
  <2>7. ~Cmp(x, y, pair)
    <3>1. r.i < n + 1 /\ r.i \in 1..Len(s) BY <2>4
    <3> QED BY <1>1, <1>3, <2>6, <3>1
  <2>8. CASE ~Cmp(y, x, pair)
    <3>1. Same(pair, y, x) BY <2>7, <2>8 DEF Orders
    <3>2. Added(t, s, n + 1, pair) = [t EXCEPT ![Len(t)].count = @ + 1]
      BY <1>1, <1>6, <2>2, <2>6, <2>8 DEF Added
    <3>3. Same(pair, s[t[Len(t)].i], s[n + 1]) BY <1>1, <2>2, <2>6, <3>1
    <3> QED BY <1>6, <3>2, <3>3, RunGrows
  <2>9. CASE Cmp(y, x, pair)
    <3>1. \A m \in 1..n : ~Same(pair, s[m], s[n + 1])
      <4> SUFFICES ASSUME NEW m \in 1..n, Same(pair, s[m], x) PROVE FALSE BY <1>1
      <4>1. PICK z \in S : z = s[m] BY <1>2
      <4>2. ~Same(pair, y, x) BY <2>9 DEF Orders
      <4>3. ~Same(pair, y, z) BY <4>1, <4>2 DEF Same
      <4>4. m < r.i
        <5>1. m < n + 1 OBVIOUS
        <5>2. ~(r.i <= m /\ m < r.i + r.count) BY <2>3, <2>6, <4>1, <4>3 DEF RunOf
        <5> QED BY <2>4, <2>5, <5>1, <5>2
      <4>5. ~Cmp(y, z, pair)
        <5>1. m \in 1..Len(s) /\ r.i \in 1..Len(s) BY <1>2, <2>4
        <5> QED BY <2>6, <4>1, <4>4, <5>1
      <4>6. Cmp(z, y, pair) BY <4>3, <4>5 DEF Orders
      <4>7. Cmp(z, x, pair) BY <2>9, <4>6 DEF Orders
      <4>8. ~Same(pair, z, x) BY <4>7 DEF Orders
      <4> QED BY <4>1, <4>8
    <3>2. Added(t, s, n + 1, pair) = Append(t, [count |-> 1, i |-> n + 1, pair |-> pair])
      BY <1>1, <2>2, <2>6, <2>9 DEF Added
    <3> QED BY <3>1, <3>2, RunBegins
  <2> QED BY <2>8, <2>9
<1> QED BY <1>5, <1>6

LEMMA RunsMeasured ==
  ASSUME NEW S, NEW s \in Seq(S), NEW pair \in BOOLEAN, Orders(S, pair),
         \A i, j \in 1..Len(s) : i < j => ~Cmp(s[j], s[i], pair)
  PROVE  Measured(Runs(s, pair), s, Len(s), pair)
<1>1. PICK f : /\ f[0] = <<>>
               /\ \A n \in 1..Len(s) : f[n] = Added(f[n - 1], s, n, pair)
               /\ Runs(s, pair) = f[Len(s)]
  BY RunSteps
<1> DEFINE T == {n \in 0..Len(s) : Measured(f[n], s, n, pair)}
<1>2. 0 \in T
  <2>1. <<>> \in Seq(Run) /\ Len(<<>>) = 0 OBVIOUS
  <2>2. Measured(<<>>, s, 0, pair) BY <2>1 DEF Measured
  <2> QED BY <1>1, <2>2
<1>3. \A n \in 0..Len(s) : n < Len(s) /\ n \in T => n + 1 \in T
  <2> SUFFICES ASSUME NEW n \in 0..Len(s), n < Len(s), n \in T PROVE n + 1 \in T OBVIOUS
  <2>1. n \in Nat /\ n + 1 \in 1..Len(s) /\ n + 1 \in 0..Len(s) /\ (n + 1) - 1 = n OBVIOUS
  <2>2. PICK t : t = f[n] OBVIOUS
  <2>3. Measured(t, s, n, pair) BY <2>2
  <2>4. Measured(Added(t, s, n + 1, pair), s, n + 1, pair) BY <2>1, <2>3, MeasuredOn
  <2>5. f[n + 1] = Added(t, s, n + 1, pair) BY <1>1, <2>1, <2>2
  <2> QED BY <2>1, <2>4, <2>5
<1> HIDE DEF T
<1>4. Len(s) \in Nat /\ Len(s) \in 0..Len(s) OBVIOUS
<1>5. 0..Len(s) \subseteq T BY <1>2, <1>3, <1>4, IntervalInduction
<1>6. Len(s) \in T BY <1>4, <1>5
<1> QED BY <1>1, <1>6 DEF T

-----------------------------------------------------------------------------
(* What is printed *)

\* Each of r is a run of s or, the pairs, of p; all different, and all there are.
Counting(r, s, p) ==
  /\ r \in Seq(Run)
  /\ \A k \in 1..Len(r) : IF r[k].pair THEN RunOf(r[k], p, Len(p), TRUE) ELSE RunOf(r[k], s, Len(s), FALSE)
  /\ \A k, l \in 1..Len(r) : k # l /\ r[k].pair = r[l].pair =>
       IF r[k].pair THEN ~Same(TRUE, p[r[k].i], p[r[l].i]) ELSE ~Same(FALSE, s[r[k].i], s[r[l].i])
  /\ \A m \in 1..Len(s) : \E k \in 1..Len(r) : ~r[k].pair /\ Same(FALSE, s[r[k].i], s[m])
  /\ \A m \in 1..Len(p) : \E k \in 1..Len(r) : r[k].pair /\ Same(TRUE, p[r[k].i], p[m])

LEMMA Joined ==
  ASSUME NEW s, NEW p, NEW u, NEW v, Len(s) \in Nat, Len(p) \in Nat,
         Measured(u, s, Len(s), FALSE), Measured(v, p, Len(p), TRUE)
  PROVE  Counting(u \o v, s, p)
<1>1. u \in Seq(Run) /\ v \in Seq(Run) BY DEF Measured
<1>2. PICK a \in Nat : a = Len(u) BY <1>1
<1>3. PICK b \in Nat : b = Len(v) BY <1>1
<1>4. PICK r : r = u \o v OBVIOUS
<1>5. /\ r \in Seq(Run) /\ Len(r) = a + b
      /\ \A k \in 1..a : r[k] = u[k]
      /\ \A k \in 1..b : r[a + k] = v[k]
  BY <1>1, <1>2, <1>3, <1>4
<1>6. \A k \in 1..(a + b) : k \in 1..a \/ (k - a \in 1..b /\ k = a + (k - a)) OBVIOUS
<1>7. (\A k \in 1..a : k \in 1..(a + b)) /\ \A k \in 1..b : a + k \in 1..(a + b) OBVIOUS
<1>8. \A k \in 1..a : RunOf(u[k], s, Len(s), FALSE) /\ u[k].pair = FALSE BY <1>2 DEF Measured, RunOf
<1>9. \A k \in 1..b : RunOf(v[k], p, Len(p), TRUE) /\ v[k].pair = TRUE BY <1>3 DEF Measured, RunOf
<1>10. \A k \in 1..(a + b) :
         \/ k \in 1..a /\ r[k] = u[k] /\ r[k].pair = FALSE /\ RunOf(r[k], s, Len(s), FALSE)
         \/ k - a \in 1..b /\ r[k] = v[k - a] /\ r[k].pair = TRUE /\ RunOf(r[k], p, Len(p), TRUE)
  <2> TAKE k \in 1..(a + b)
  <2>1. CASE k \in 1..a
    <3>1. r[k] = u[k] BY <1>5, <2>1
    <3> QED BY <1>8, <2>1, <3>1
  <2>2. CASE k - a \in 1..b /\ k = a + (k - a)
    <3>1. PICK m \in 1..b : m = k - a /\ k = a + m BY <2>2
    <3>2. r[k] = v[m] BY <1>5, <3>1
    <3> QED BY <1>9, <3>1, <3>2
  <2> QED BY <1>6, <2>1, <2>2
<1>11. \A k \in 1..Len(r) : IF r[k].pair THEN RunOf(r[k], p, Len(p), TRUE) ELSE RunOf(r[k], s, Len(s), FALSE)
  BY <1>5, <1>10
<1>12. \A k, l \in 1..Len(r) : k # l /\ r[k].pair = r[l].pair =>
         IF r[k].pair THEN ~Same(TRUE, p[r[k].i], p[r[l].i]) ELSE ~Same(FALSE, s[r[k].i], s[r[l].i])
  <2> SUFFICES ASSUME NEW k \in 1..(a + b), NEW l \in 1..(a + b), k # l, r[k].pair = r[l].pair
               PROVE  IF r[k].pair THEN ~Same(TRUE, p[r[k].i], p[r[l].i]) ELSE ~Same(FALSE, s[r[k].i], s[r[l].i])
    BY <1>5
  <2>1. CASE r[k].pair = FALSE
    <3>1. k \in 1..a /\ l \in 1..a /\ r[k] = u[k] /\ r[l] = u[l] BY <1>10, <2>1
    <3> QED BY <1>2, <2>1, <3>1 DEF Measured
  <2>2. CASE r[k].pair = TRUE
    <3>1. k - a \in 1..b /\ l - a \in 1..b /\ r[k] = v[k - a] /\ r[l] = v[l - a] BY <1>10, <2>2
    <3>2. k - a # l - a OBVIOUS
    <3> QED BY <1>3, <2>2, <3>1, <3>2 DEF Measured
  <2> QED BY <1>10, <2>1, <2>2
<1>13. \A m \in 1..Len(s) : \E k \in 1..Len(r) : ~r[k].pair /\ Same(FALSE, s[r[k].i], s[m])
  <2> SUFFICES ASSUME NEW m \in 1..Len(s)
               PROVE  \E k \in 1..Len(r) : ~r[k].pair /\ Same(FALSE, s[r[k].i], s[m])
    OBVIOUS
  <2>1. PICK k \in 1..a : Same(FALSE, s[u[k].i], s[m]) BY <1>2 DEF Measured
  <2>2. k \in 1..Len(r) /\ r[k] = u[k] /\ ~r[k].pair BY <1>5, <1>7, <1>8
  <2> QED BY <2>1, <2>2
<1>14. \A m \in 1..Len(p) : \E k \in 1..Len(r) : r[k].pair /\ Same(TRUE, p[r[k].i], p[m])
  <2> SUFFICES ASSUME NEW m \in 1..Len(p)
               PROVE  \E k \in 1..Len(r) : r[k].pair /\ Same(TRUE, p[r[k].i], p[m])
    OBVIOUS
  <2>1. PICK k \in 1..b : Same(TRUE, p[v[k].i], p[m]) BY <1>3 DEF Measured
  <2>2. a + k \in 1..Len(r) /\ r[a + k] = v[k] /\ r[a + k].pair BY <1>5, <1>7, <1>9
  <2> QED BY <2>1, <2>2
<1> QED BY <1>4, <1>5, <1>11, <1>12, <1>13, <1>14 DEF Counting

LEMMA Reordered ==
  ASSUME NEW s, NEW p, NEW r, NEW c \in Seq(Run), NEW o, Counting(r, s, p), Reorders(o, Len(r), r, c)
  PROVE  Counting(c, s, p)
<1>1. r \in Seq(Run) BY DEF Counting
<1>2. PICK n \in Nat : n = Len(r) BY <1>1
<1>3. PICK N : N = 1..n OBVIOUS
<1>4. /\ \A k \in N : o[k] \in N /\ c[k] = r[o[k]]
      /\ \A k, l \in N : o[k] = o[l] => k = l
      /\ \A j \in N : \E k \in N : o[k] = j
      /\ Len(c) = n
  BY <1>2, <1>3 DEF Reorders, Order
<1>5. \A k \in N : IF r[k].pair THEN RunOf(r[k], p, Len(p), TRUE) ELSE RunOf(r[k], s, Len(s), FALSE)
  BY <1>2, <1>3 DEF Counting
<1>6. \A k, l \in N : k # l /\ r[k].pair = r[l].pair =>
        IF r[k].pair THEN ~Same(TRUE, p[r[k].i], p[r[l].i]) ELSE ~Same(FALSE, s[r[k].i], s[r[l].i])
  BY <1>2, <1>3 DEF Counting
<1>7. \A m \in 1..Len(s) : \E k \in N : ~r[k].pair /\ Same(FALSE, s[r[k].i], s[m])
  BY <1>2, <1>3 DEF Counting
<1>8. \A m \in 1..Len(p) : \E k \in N : r[k].pair /\ Same(TRUE, p[r[k].i], p[m])
  BY <1>2, <1>3 DEF Counting
<1>9. \A k \in N : IF c[k].pair THEN RunOf(c[k], p, Len(p), TRUE) ELSE RunOf(c[k], s, Len(s), FALSE)
  <2> SUFFICES ASSUME NEW k \in N
               PROVE  IF c[k].pair THEN RunOf(c[k], p, Len(p), TRUE) ELSE RunOf(c[k], s, Len(s), FALSE)
    OBVIOUS
  <2>1. PICK i \in N : c[k] = r[i] BY <1>4
  <2> QED BY <1>5, <2>1
<1>10. \A k, l \in N : k # l /\ c[k].pair = c[l].pair =>
        IF c[k].pair THEN ~Same(TRUE, p[c[k].i], p[c[l].i]) ELSE ~Same(FALSE, s[c[k].i], s[c[l].i])
  <2> SUFFICES ASSUME NEW k \in N, NEW l \in N, k # l, c[k].pair = c[l].pair
               PROVE  IF c[k].pair THEN ~Same(TRUE, p[c[k].i], p[c[l].i]) ELSE ~Same(FALSE, s[c[k].i], s[c[l].i])
    OBVIOUS
  <2>1. PICK i \in N : i = o[k] /\ c[k] = r[i] BY <1>4
  <2>2. PICK j \in N : j = o[l] /\ c[l] = r[j] BY <1>4
  <2>3. i # j BY <1>4, <2>1, <2>2
  <2> QED BY <1>6, <2>1, <2>2, <2>3
<1>11. \A j \in N : \E k \in N : c[k] = r[j] BY <1>4
<1>12. \A m \in 1..Len(s) : \E k \in N : ~c[k].pair /\ Same(FALSE, s[c[k].i], s[m])
  BY <1>7, <1>11
<1>13. \A m \in 1..Len(p) : \E k \in N : c[k].pair /\ Same(TRUE, p[c[k].i], p[m])
  BY <1>8, <1>11
<1> QED BY <1>4, <1>3, <1>9, <1>10, <1>12, <1>13 DEF Counting

\* A code whose cells are bytes, and whose instructions differ in their bytes: what
\* the file holds of an instruction is all there is to it.
Readable(p) == /\ \A i \in DOMAIN p : Encode(p[i]) \in Seq(Byte)
               /\ \A i, j \in DOMAIN p : Encode(p[i]) = Encode(p[j]) => p[i] = p[j]

LEMMA InOrderOf ==
  ASSUME NEW S \in SUBSET Offsets, NEW s \in Seq(S), NEW pair \in BOOLEAN, Orders(S, pair)
  PROVE  LET t == Sorted(s, Before(pair))
         IN  /\ t \in Seq(S)
             /\ \A i, j \in 1..Len(t) : i < j => ~Cmp(t[j], t[i], pair)
<1>1. PICK R : R = Before(pair) OBVIOUS
<1>2. \A i, j \in S : <<i, j>> \in R <=> Cmp(i, j, pair) BY <1>1 DEF Before
<1>3. Range(s) \subseteq S BY AtPlace
<1>4. Sortable(R, Range(s)) BY <1>2, <1>3 DEF Orders, Sortable
<1>5. PICK t : t = Sorted(s, R) OBVIOUS
<1>6. t \in Seq(S) BY <1>5, SortKeeps
<1>7. InOrder(t, R) BY <1>4, <1>5, SortOrders
<1>8. \A i \in 1..Len(t) : t[i] \in S BY <1>6
<1>9. \A i, j \in 1..Len(t) : i < j => ~Cmp(t[j], t[i], pair) BY <1>2, <1>7, <1>8 DEF InOrder
<1> QED BY <1>1, <1>5, <1>6, <1>9

\* Count counts.
LEMMA CountCounts ==
  ASSUME IInv, BytesInv, Count
  PROVE  Counting(counter', collect_single', collect_pairs')
<1>1. /\ phase = "labels" /\ collect_single' = Sorted(collect_single, Before(FALSE))
      /\ collect_pairs' = Sorted(collect_pairs, Before(TRUE))
      /\ counter' = Counted(Runs(collect_single', FALSE) \o Runs(collect_pairs', TRUE))
  BY DEF Count
<1>2. CodeFacts BY CodeOf DEF IInv
<1>3. PICK S \in SUBSET Offsets : S = Offsets OBVIOUS
<1>4. PICK P \in SUBSET Offsets : P = {i \in Offsets : i + 1 \in Offsets} OBVIOUS
<1>5. Orders(S, FALSE) BY CmpOrders
<1>6. Orders(P, TRUE)
  <2>1. \A i \in P : i + 1 \in Offsets BY <1>4
  <2> QED BY <2>1, CmpOrders
<1>7. PICK s0 \in Seq(S) : s0 = collect_single BY <1>3 DEF IInv, WalkInv
<1>8. PICK p0 \in Seq(P) : p0 = collect_pairs
  <2>1. collect_pairs \in Seq(Offsets) BY DEF IInv, PairsInv
  <2>2. Done \subseteq Offsets
    <3>1. collect_single \in Seq(Offsets) BY DEF IInv, WalkInv
    <3> QED BY <3>1, AtPlace DEF Done
  <2>3. Range(collect_pairs) \subseteq P BY <1>1, <1>4, <2>2 DEF IInv, PairsInv
  <2> QED BY <2>1, <2>3, ElementsType
<1>9. PICK s : s = collect_single' OBVIOUS
<1>10. PICK p : p = collect_pairs' OBVIOUS
<1>11. s \in Seq(S) /\ \A i, j \in 1..Len(s) : i < j => ~Cmp(s[j], s[i], FALSE)
  <2>1. s = Sorted(s0, Before(FALSE)) BY <1>1, <1>7, <1>9
  <2> QED BY <1>5, <2>1, InOrderOf
<1>12. p \in Seq(P) /\ \A i, j \in 1..Len(p) : i < j => ~Cmp(p[j], p[i], TRUE)
  <2>1. p = Sorted(p0, Before(TRUE)) BY <1>1, <1>8, <1>10
  <2> QED BY <1>6, <2>1, InOrderOf
<1>13. Measured(Runs(s, FALSE), s, Len(s), FALSE) BY <1>5, <1>11, RunsMeasured
<1>14. Measured(Runs(p, TRUE), p, Len(p), TRUE) BY <1>6, <1>12, RunsMeasured
<1>15. PICK r : r = Runs(s, FALSE) \o Runs(p, TRUE) OBVIOUS
<1>16. Counting(r, s, p)
  <2>1. Len(s) \in Nat /\ Len(p) \in Nat BY <1>11, <1>12
  <2> QED BY <1>13, <1>14, <1>15, <2>1, Joined
<1>17. PICK R : R = {xy \in Run \X Run : Ahead(xy[1], xy[2])} OBVIOUS
<1>18. counter' = Sorted(r, R) BY <1>1, <1>9, <1>10, <1>15, <1>17 DEF Counted
<1>19. r \in Seq(Run) BY <1>16 DEF Counting
<1>20. PICK c \in Seq(Run) : c = Sorted(r, R) BY <1>19, SortKeeps
<1>21. PICK o : Reorders(o, Len(r), r, c) BY <1>19, <1>20, SortReorders
<1>22. Counting(c, s, p) BY <1>16, <1>21, Reordered
<1> QED BY <1>9, <1>10, <1>18, <1>20, <1>22

\* The length of a run is the number of those equal to its first.
LEMMA RunCounts ==
  ASSUME NEW S, NEW s \in Seq(S), NEW pair \in BOOLEAN, NEW r, RunOf(r, s, Len(s), pair)
  PROVE  r.count = Cardinality({m \in DOMAIN s : Same(pair, s[r.i], s[m])})
<1>1. PICK n \in Nat : n = Len(s) /\ DOMAIN s = 1..n OBVIOUS
<1>2. PICK i \in Nat \ {0} : i = r.i BY DEF RunOf
<1>3. PICK c \in Nat \ {0} : c = r.count BY DEF RunOf
<1>4. PICK M : M = {m \in DOMAIN s : Same(pair, s[r.i], s[m])} OBVIOUS
<1>5. i + c <= n + 1 /\ \A m \in 1..n : m \in M <=> i <= m /\ m < i + c BY <1>1, <1>2, <1>3, <1>4 DEF RunOf
<1>6. M \subseteq 1..n BY <1>1, <1>4
<1>7. M = i..(i + c - 1)
  <2>1. \A m \in i..(i + c - 1) : m \in 1..n BY <1>5
  <2>2. \A m \in 1..n : m \in i..(i + c - 1) <=> i <= m /\ m < i + c OBVIOUS
  <2> QED BY <1>5, <1>6, <2>1, <2>2
<1>8. Cardinality(i..(i + c - 1)) = c
  <2>1. i \in Int /\ i + c - 1 \in Int /\ i <= i + c - 1 /\ (i + c - 1) - i + 1 = c OBVIOUS
  <2> QED BY <2>1, FS_Interval
<1> QED BY <1>3, <1>4, <1>7, <1>8

\* The bytes of the file are those of its code, and tell its instructions apart.
LEMMA BytesTell ==
  ASSUME FileInv, \A p \in Programs : Readable(p), bytes = [i \in Offsets |-> Encode(program[i])]
  PROVE  BytesInv
<1>1. Readable(program) BY DEF FileInv
<1>2. \A i \in Offsets : bytes[i] = Encode(program[i]) OBVIOUS
<1>3. \A i, j \in Offsets : program[i] = program[j] => bytes[i] = bytes[j] BY <1>2
<1> QED BY <1>1, <1>2, <1>3 DEF BytesInv, Readable, Offsets

\* No step changes the file.
LEMMA FileKept == [Next]_vars => UNCHANGED file
BY DEF Next, CollectMarks, Analyze, Ended, MarkEOF, MarkBranch, MarkOn, MarksDone, Mark, TakeLabel,
       ProcessStop, ProcessJump, ProcessBranch, ProcessOther, ProcessEOF, Process, Count, vars, file

\* What is printed of an instruction or a pair is how often it has been collected,
\* and of each there is one line, if all there is to an instruction is in its bytes.
THEOREM OccurrencesCounted ==
  ASSUME \A p \in Programs : Readable(p)
  PROVE  Spec => []CountsAreOccurrences
<1> DEFINE J == /\ IInv /\ bytes = [i \in Offsets |-> Encode(program[i])]
                /\ phase = "done" => Counting(counter, collect_single, collect_pairs)
<1>1. Init => J
  <2> SUFFICES ASSUME Init PROVE J OBVIOUS
  <2>1. phase # "done" /\ bytes = [i \in Offsets |-> Encode(program[i])] BY DEF Init
  <2> QED BY <2>1, Initially
<1>2. J /\ [Next]_vars => J'
  <2> SUFFICES ASSUME J, [Next]_vars PROVE J' OBVIOUS
  <2>1. /\ IInv /\ bytes = [i \in Offsets |-> Encode(program[i])]
        /\ phase = "done" => Counting(counter, collect_single, collect_pairs)
    OBVIOUS
  <2> HIDE DEF J
  <2>2. IInv' BY <2>1, Steps
  <2>3. UNCHANGED file BY FileKept
  <2>4. program' = program /\ bytes' = [i \in Offsets |-> Encode(program[i])]'
    BY <2>1, <2>3 DEF file, Offsets
  <2>5. BytesInv BY <2>1, BytesTell DEF IInv
  <2>6. Counting(counter', collect_single', collect_pairs') => Counting(counter, collect_single, collect_pairs)'
    BY <2>4 DEF Counting, RunOf, Same
  <2>7. CASE Count
    <3>1. Counting(counter', collect_single', collect_pairs') BY <2>1, <2>5, <2>7, CountCounts
    <3> QED BY <2>2, <2>4, <2>6, <3>1 DEF J
  <2>8. CASE UNCHANGED vars
    <3>1. phase' = phase /\ counter' = counter /\ collect_single' = collect_single /\ collect_pairs' = collect_pairs
      BY <2>8 DEF vars, file, collected
    <3>2. phase = "done" => Counting(counter', collect_single', collect_pairs') BY <2>1, <3>1
    <3> QED BY <2>2, <2>4, <2>6, <3>1, <3>2 DEF J
  <2>9. CASE phase' # "done" BY <2>2, <2>4, <2>9 DEF J
  <2>10. Count \/ UNCHANGED vars \/ phase' # "done"
    BY DEF Next, CollectMarks, Analyze, Ended, MarkEOF, MarkBranch, MarkOn, MarksDone, Mark, TakeLabel,
           ProcessStop, ProcessJump, ProcessBranch, ProcessOther, ProcessEOF, Process, CheckNxt
  <2> QED BY <2>7, <2>8, <2>9, <2>10
<1>3. J => CountsAreOccurrences
  <2> SUFFICES ASSUME J, phase = "done" PROVE CountsAreOccurrences BY DEF CountsAreOccurrences
  <2>1. IInv /\ Counting(counter, collect_single, collect_pairs) OBVIOUS
  <2> HIDE DEF J
  <2>2. PICK s \in Seq(Offsets) : s = collect_single BY <2>1 DEF IInv, WalkInv
  <2>3. PICK p \in Seq(Offsets) : p = collect_pairs BY <2>1 DEF IInv, PairsInv
  <2>4. PICK c : c = counter OBVIOUS
  <2>5. Counting(c, s, p) /\ c \in Seq(Run) BY <2>1, <2>2, <2>3, <2>4 DEF Counting
  <2>6. DOMAIN c = 1..Len(c) /\ DOMAIN s = 1..Len(s) /\ DOMAIN p = 1..Len(p) BY <2>5
  <2>7. \A k \in DOMAIN c : c[k] \in Run BY <2>5
  <2>8. \A k \in DOMAIN c : c[k].pair \in BOOLEAN BY <2>7 DEF Run
  <2> DEFINE of(pair) == IF pair THEN p ELSE s
  <2>9. ASSUME NEW k \in DOMAIN c
        PROVE  c[k].count = Cardinality({j \in DOMAIN of(c[k].pair) :
                              Same(c[k].pair, of(c[k].pair)[c[k].i], of(c[k].pair)[j])})
    <3>1. PICK r : r = c[k] OBVIOUS
    <3>2. CASE r.pair = TRUE
      <4>1. RunOf(r, p, Len(p), TRUE) BY <2>5, <2>6, <3>1, <3>2 DEF Counting
      <4>2. r.count = Cardinality({m \in DOMAIN p : Same(TRUE, p[r.i], p[m])}) BY <4>1, RunCounts
      <4> QED BY <3>1, <3>2, <4>2
    <3>3. CASE r.pair = FALSE
      <4>1. RunOf(r, s, Len(s), FALSE) BY <2>5, <2>6, <3>1, <3>3 DEF Counting
      <4>2. r.count = Cardinality({m \in DOMAIN s : Same(FALSE, s[r.i], s[m])}) BY <4>1, RunCounts
      <4> QED BY <3>1, <3>3, <4>2
    <3> QED BY <2>8, <3>1, <3>2, <3>3
  <2>10. ASSUME NEW j \in DOMAIN c, NEW k \in DOMAIN c, j # k, c[j].pair = c[k].pair
         PROVE  ~Same(c[j].pair, of(c[j].pair)[c[j].i], of(c[k].pair)[c[k].i])
    <3>1. CASE c[j].pair = TRUE
      <4>1. ~Same(TRUE, p[c[j].i], p[c[k].i]) BY <2>5, <2>6, <2>10, <3>1 DEF Counting
      <4> QED BY <2>10, <3>1, <4>1
    <3>2. CASE c[j].pair = FALSE
      <4>1. ~Same(FALSE, s[c[j].i], s[c[k].i]) BY <2>5, <2>6, <2>10, <3>2 DEF Counting
      <4> QED BY <2>10, <3>2, <4>1
    <3> QED BY <2>8, <3>1, <3>2
  <2>11. ASSUME NEW pair \in BOOLEAN, NEW n \in DOMAIN of(pair)
         PROVE  \E k \in DOMAIN c : c[k].pair = pair /\ Same(pair, of(c[k].pair)[c[k].i], of(pair)[n])
    <3>1. CASE pair = TRUE
      <4>1. PICK k \in DOMAIN c : c[k].pair /\ Same(TRUE, p[c[k].i], p[n]) BY <2>5, <2>6, <3>1 DEF Counting
      <4>2. c[k].pair = TRUE BY <2>8, <4>1
      <4> QED BY <3>1, <4>1, <4>2
    <3>2. CASE pair = FALSE
      <4>1. PICK k \in DOMAIN c : ~c[k].pair /\ Same(FALSE, s[c[k].i], s[n]) BY <2>5, <2>6, <3>2 DEF Counting
      <4>2. c[k].pair = FALSE BY <2>8, <4>1
      <4> QED BY <3>2, <4>1, <4>2
    <3> QED BY <3>1, <3>2
  <2> DEFINE Of(pair) == IF pair THEN collect_pairs ELSE collect_single
  <2>12. \A pair : of(pair) = Of(pair) BY <2>2, <2>3
  <2> HIDE DEF of, Of
  <2>13. \A k \in DOMAIN counter :
           counter[k].count = Cardinality({j \in DOMAIN Of(counter[k].pair) :
             Same(counter[k].pair, Of(counter[k].pair)[counter[k].i], Of(counter[k].pair)[j])})
    BY <2>4, <2>9, <2>12
  <2>14. \A j, k \in DOMAIN counter : (j # k /\ counter[j].pair = counter[k].pair) =>
           ~Same(counter[j].pair, Of(counter[j].pair)[counter[j].i], Of(counter[k].pair)[counter[k].i])
    BY <2>4, <2>10, <2>12
  <2>15. \A pair \in BOOLEAN : \A n \in DOMAIN Of(pair) :
           \E k \in DOMAIN counter : counter[k].pair = pair /\ Same(pair, Of(counter[k].pair)[counter[k].i], Of(pair)[n])
    BY <2>4, <2>11, <2>12
  <2> QED BY <2>13, <2>14, <2>15 DEF CountsAreOccurrences, Same, Of
<1> HIDE DEF J
<1> QED BY <1>1, <1>2, <1>3, PTL DEF Spec
=============================================================================
