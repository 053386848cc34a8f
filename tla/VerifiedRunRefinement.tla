------------------------- MODULE VerifiedRunRefinement -------------------------
(***************************************************************************)
(* A verified run in order implements ActivationRecords: every step of it, *)
(* on the words of the flat memory, is a step on records of calls.  The    *)
(* records are those of the frames that RunInv follows.                    *)
(***************************************************************************)
EXTENDS VerifiedRunProofs

(* Sequences *)

\* f is a sequence of n elements.
Listed(f, n) == f = [k \in 1..n |-> f[k]]

LEMMA AsSeq ==
  ASSUME NEW S, NEW n \in Nat, NEW f, Listed(f, n), \A k \in 1..n : f[k] \in S
  PROVE  f \in Seq(S) /\ Len(f) = n
<1>1. f \in [1..n -> S] BY DEF Listed
<1> QED BY <1>1

\* A sequence is its first elements and the others.
LEMMA HeadAndRest ==
  ASSUME NEW S, NEW h \in Seq(S), NEW t \in Seq(S), NEW g, Listed(g, Len(h) + Len(t)),
         \A k \in 1..Len(h) : g[k] = h[k],
         \A k \in 1..Len(t) : g[Len(h) + k] = t[k]
  PROVE  g = h \o t
<1>1. PICK c, l, m, n : c = h \o t /\ l = Len(h) /\ m = Len(t) /\ n = Len(h) + Len(t) OBVIOUS
<1>2. /\ c \in Seq(S) /\ Len(c) = n /\ l \in Nat /\ m \in Nat /\ n = l + m
      /\ \A k \in 1..n : c[k] = IF k <= l THEN h[k] ELSE t[k - l]
  BY <1>1, ConcatProperties
<1>3. ASSUME NEW k \in 1..n PROVE c[k] = g[k]
  <2>1. CASE k <= l
    <3>1. k \in 1..l BY <1>2, <2>1
    <3>2. g[k] = h[k] BY <1>1, <3>1
    <3> QED BY <1>2, <2>1, <3>2
  <2>2. CASE ~(k <= l)
    <3>1. PICK i : i = k - l OBVIOUS
    <3>2. i \in 1..m /\ l + i = k BY <1>2, <2>2, <3>1
    <3> QED BY <1>1, <1>2, <2>2, <3>1, <3>2
  <2> QED BY <2>1, <2>2
<1>4. Listed(c, n) BY <1>2 DEF Listed
<1>5. Listed(g, n) BY <1>1
<1>6. c = g BY <1>3, <1>4, <1>5 DEF Listed
<1> QED BY <1>1, <1>6

\* The elements after the first stay; after the first, which two take the place of;
\* or after the first two, which one takes the place of.
LEMMA NewHead ==
  ASSUME NEW n \in Nat \ {0}, NEW f, NEW g, Listed(f, n), Listed(g, n),
         \A k \in 2..n : g[k] = f[k]
  PROVE  g = <<g[1]>> \o Tail(f)
<1>1. PICK S : S = {f[k] : k \in 1..n} \cup {g[k] : k \in 1..n} OBVIOUS
<1>2. g[1] \in S /\ \A k \in 1..n : f[k] \in S BY <1>1
<1>3. f \in Seq(S) /\ Len(f) = n /\ f # <<>> BY <1>2, AsSeq
<1>4. PICK h, t : h = <<g[1]>> /\ t = Tail(f) OBVIOUS
<1>5. t \in Seq(S) /\ Len(t) = n - 1 /\ \A k \in 1..(n - 1) : t[k] = f[k + 1]
  BY <1>3, <1>4, HeadTailProperties
<1>6. h \in Seq(S) /\ Len(h) = 1 /\ h[1] = g[1] BY <1>2, <1>4
<1>7. \A k \in 1..Len(h) : g[k] = h[k] BY <1>6
<1>8. \A k \in 1..Len(t) : g[Len(h) + k] = t[k]
  <2> SUFFICES ASSUME NEW k \in 1..(n - 1) PROVE g[1 + k] = t[k] BY <1>5, <1>6
  <2>1. k + 1 \in 2..n /\ 1 + k = k + 1 OBVIOUS
  <2> QED BY <1>5, <2>1
<1>9. Listed(g, Len(h) + Len(t))
  <2>1. Len(h) + Len(t) = n BY <1>5, <1>6
  <2> QED BY <2>1
<1>10. g = h \o t BY <1>5, <1>6, <1>7, <1>8, <1>9, HeadAndRest
<1> QED BY <1>4, <1>10

LEMMA NewHeads ==
  ASSUME NEW n \in Nat \ {0}, NEW f, NEW g, Listed(f, n),
         Listed(g, n + 1),
         \A k \in 2..n : g[k + 1] = f[k]
  PROVE  g = <<g[1], g[2]>> \o Tail(f)
<1>1. PICK S : S = {f[k] : k \in 1..n} \cup {g[k] : k \in 1..(n + 1)} OBVIOUS
<1>2. g[1] \in S /\ g[2] \in S /\ \A k \in 1..n : f[k] \in S BY <1>1
<1>3. f \in Seq(S) /\ Len(f) = n /\ f # <<>> BY <1>2, AsSeq
<1>4. PICK h, t : h = <<g[1], g[2]>> /\ t = Tail(f) OBVIOUS
<1>5. t \in Seq(S) /\ Len(t) = n - 1 /\ \A k \in 1..(n - 1) : t[k] = f[k + 1]
  BY <1>3, <1>4, HeadTailProperties
<1>6. h \in Seq(S) /\ Len(h) = 2 /\ h[1] = g[1] /\ h[2] = g[2] BY <1>2, <1>4
<1>7. \A k \in 1..Len(h) : g[k] = h[k] BY <1>6
<1>8. \A k \in 1..Len(t) : g[Len(h) + k] = t[k]
  <2> SUFFICES ASSUME NEW k \in 1..(n - 1) PROVE g[2 + k] = t[k] BY <1>5, <1>6
  <2>1. k + 1 \in 2..n /\ 2 + k = (k + 1) + 1 OBVIOUS
  <2> QED BY <1>5, <2>1
<1>9. Listed(g, Len(h) + Len(t))
  <2>1. Len(h) + Len(t) = n + 1 BY <1>5, <1>6
  <2> QED BY <2>1
<1>10. g = h \o t BY <1>5, <1>6, <1>7, <1>8, <1>9, HeadAndRest
<1> QED BY <1>4, <1>10

\* What follows from the a-th element on.
LEMMA Remainder ==
  ASSUME NEW S, NEW s \in Seq(S), NEW a \in Nat \ {0}
  PROVE  /\ SubSeq(s, a, Len(s)) \in Seq(S)
         /\ Len(SubSeq(s, a, Len(s))) = IF a <= Len(s) THEN Len(s) - a + 1 ELSE 0
         /\ \A k \in 1..(Len(s) - a + 1) : SubSeq(s, a, Len(s))[k] = s[a + k - 1]
OBVIOUS

LEMMA HeadTaken ==
  ASSUME NEW n \in Nat, n >= 2, NEW f, NEW g, Listed(f, n),
         Listed(g, n - 1),
         \A k \in 3..n : g[k - 1] = f[k]
  PROVE  g = <<g[1]>> \o SubSeq(f, 3, Len(f))
<1>1. PICK S : S = {f[k] : k \in 1..n} \cup {g[k] : k \in 1..(n - 1)} OBVIOUS
<1>2. g[1] \in S /\ \A k \in 1..n : f[k] \in S BY <1>1
<1>3. f \in Seq(S) /\ Len(f) = n BY <1>2, AsSeq
<1>4. PICK h, t : h = <<g[1]>> /\ t = SubSeq(f, 3, n) OBVIOUS
<1>5. t \in Seq(S) /\ Len(t) = n - 2 /\ \A k \in 1..(n - 2) : t[k] = f[k + 2]
  <2>1. PICK a, l : a = 3 /\ l = Len(f) OBVIOUS
  <2>2. a \in Nat \ {0} /\ t = SubSeq(f, a, Len(f)) /\ l = n BY <1>3, <1>4, <2>1
  <2>5. /\ t \in Seq(S) /\ Len(t) = IF a <= l THEN l - a + 1 ELSE 0
        /\ \A i \in 1..(l - a + 1) : t[i] = f[a + i - 1]
    BY <1>3, <2>1, <2>2, Remainder
  <2>3. Len(t) = n - 2 BY <2>1, <2>2, <2>5
  <2>4. ASSUME NEW k \in 1..(n - 2) PROVE t[k] = f[k + 2]
    <3>1. k \in 1..(l - a + 1) /\ a + k - 1 = k + 2 BY <2>1, <2>2
    <3> QED BY <2>5, <3>1
  <2> QED BY <2>3, <2>4, <2>5
<1>6. h \in Seq(S) /\ Len(h) = 1 /\ h[1] = g[1] BY <1>2, <1>4
<1>7. \A k \in 1..Len(h) : g[k] = h[k] BY <1>6
<1>8. \A k \in 1..Len(t) : g[Len(h) + k] = t[k]
  <2> SUFFICES ASSUME NEW k \in 1..(n - 2) PROVE g[1 + k] = t[k] BY <1>5, <1>6
  <2>1. k + 2 \in 3..n /\ 1 + k = (k + 2) - 1 OBVIOUS
  <2> QED BY <1>5, <2>1
<1>9. Listed(g, Len(h) + Len(t))
  <2>1. Len(h) + Len(t) = n - 1 BY <1>5, <1>6
  <2> QED BY <2>1
<1>10. g = h \o t BY <1>5, <1>6, <1>7, <1>8, <1>9, HeadAndRest
<1> QED BY <1>3, <1>4, <1>10

\* g is s with the first n of its d elements replaced by us.
Replaces(g, s, d, n, us) ==
  /\ Listed(g, Len(us) + d - n) /\ \A k \in 1..Len(us) : g[k] = us[k]
  /\ \A k \in (n + 1)..d : g[k - n + Len(us)] = s[k]

LEMMA FirstReplaced ==
  ASSUME NEW S, NEW us \in Seq(S), NEW d \in Nat, NEW s, Listed(s, d),
         \A k \in 1..d : s[k] \in S, NEW n \in 0..d, NEW g, Replaces(g, s, d, n, us)
  PROVE  g = us \o SubSeq(s, n + 1, Len(s))
<1> USE DEF Replaces
<1>1. s \in Seq(S) /\ Len(s) = d BY AsSeq
<1>2. PICK t, l : t = SubSeq(s, n + 1, d) /\ l = Len(us) OBVIOUS
<1>3. t \in Seq(S) /\ Len(t) = d - n /\ \A k \in 1..(d - n) : t[k] = s[n + k]
  <2>1. PICK a : a = n + 1 OBVIOUS
  <2>2. a \in Nat \ {0} /\ t = SubSeq(s, a, Len(s)) BY <1>1, <1>2, <2>1
  <2>3. /\ t \in Seq(S) /\ Len(t) = IF a <= d THEN d - a + 1 ELSE 0
        /\ \A k \in 1..(d - a + 1) : t[k] = s[a + k - 1]
    BY <1>1, <2>2, Remainder
  <2>4. Len(t) = d - n BY <2>1, <2>3
  <2>5. ASSUME NEW k \in 1..(d - n) PROVE t[k] = s[n + k]
    <3>1. k \in 1..(d - a + 1) /\ a + k - 1 = n + k BY <2>1
    <3> QED BY <2>3, <3>1
  <2> QED BY <2>3, <2>4, <2>5
<1>4. \A k \in 1..Len(t) : g[Len(us) + k] = t[k]
  <2> SUFFICES ASSUME NEW k \in 1..(d - n) PROVE g[l + k] = t[k] BY <1>2, <1>3
  <2>1. l \in Nat BY <1>2
  <2>2. n + k \in (n + 1)..d /\ (n + k) - n + l = l + k BY <2>1
  <2> QED BY <1>2, <1>3, <2>2
<1>5. Listed(g, Len(us) + Len(t))
  <2>1. Len(us) + Len(t) = Len(us) + d - n BY <1>2, <1>3
  <2> QED BY <2>1
<1>6. g = us \o t BY <1>3, <1>4, <1>5, HeadAndRest
<1> QED BY <1>1, <1>2, <1>6

-----------------------------------------------------------------------------
(* The records of the frames *)

\* The frame pointers that the words of m lead to from f.
FpOf(m, f, n) ==
  CHOOSE g : g = [k \in 1..n |->
    IF k = 1 THEN f ELSE (IF g[k - 1] + 2 \in Interpret!Words THEN m[g[k - 1] + 2] ELSE Interpret!Junk)[2]]

LEMMA FpRead ==
  /\ Interpret!Fp = FpOf(memory, fp, Len(arg_sizes))
  /\ Interpret!Fp' = FpOf(memory', fp', Len(arg_sizes'))
<1>1. Interpret!Fp = FpOf(memory, fp, Len(arg_sizes))
  BY DEF Interpret!Fp, FpOf, Interpret!Read, Interpret!Depth
<1>2. Interpret!Fp' = FpOf(memory', fp', Len(arg_sizes'))
  BY DEF Interpret!Fp, FpOf, Interpret!Read, Interpret!Depth, Interpret!Words
<1> QED BY <1>1, <1>2

\* They are the bases of a chain of frames.
LEMMA FpIs ==
  ASSUME NEW m, NEW f, NEW n \in Nat \ {0}, NEW b, b \in [1..n -> Int], b[1] = f,
         \A k \in 2..n : b[k - 1] + 2 \in Interpret!Words /\ m[b[k - 1] + 2][2] = b[k]
  PROVE  FpOf(m, f, n) = b
<1> DEFINE Next1(g) == [k \in 1..n |->
      IF k = 1 THEN f ELSE (IF g[k - 1] + 2 \in Interpret!Words THEN m[g[k - 1] + 2] ELSE Interpret!Junk)[2]]
<1>1. b = Next1(b)
  <2>1. ASSUME NEW k \in 1..n PROVE b[k] = Next1(b)[k]
    <3>1. CASE k = 1 BY <3>1
    <3>2. CASE k # 1
      <4>1. k \in 2..n BY <3>2
      <4> QED BY <3>2, <4>1
    <3> QED BY <3>1, <3>2
  <2> QED BY <2>1
<1>2. ASSUME NEW g, g = Next1(g) PROVE g = b
  <2> DEFINE S == {0} \cup {k \in 1..n : g[k] = b[k]}
  <2>1. 0 \in S OBVIOUS
  <2>2. \A k \in 1..n : g[k] = Next1(g)[k] BY <1>2
  <2>3. ASSUME NEW k \in 0..n, k < n, k \in S PROVE k + 1 \in S
    <3>1. k + 1 \in 1..n /\ (k + 1) - 1 = k BY <2>3
    <3>2. PICK l : l = k + 1 OBVIOUS
    <3>3. l \in 1..n /\ l - 1 = k BY <3>1, <3>2
    <3>4. g[l] = Next1(g)[l] BY <2>2, <3>3
    <3>5. CASE k = 0 BY <3>2, <3>3, <3>4, <3>5
    <3>6. CASE k # 0
      <4>1. g[k] = b[k] /\ l # 1 /\ l \in 2..n BY <2>3, <3>2, <3>3, <3>6
      <4>2. b[k] + 2 \in Interpret!Words /\ m[b[k] + 2][2] = b[l] BY <3>3, <4>1
      <4>3. g[l] = m[b[k] + 2][2] BY <3>3, <3>4, <4>1, <4>2
      <4> QED BY <3>2, <3>3, <4>2, <4>3
    <3> QED BY <3>5, <3>6
  <2> HIDE DEF S
  <2>4. 0..n \subseteq S BY <2>1, <2>3, IntervalInduction
  <2>5. \A k \in 1..n : g[k] = b[k]
    <3>1. \A k \in 1..n : k \in 0..n /\ k # 0 OBVIOUS
    <3> QED BY <2>4, <3>1 DEF S
  <2>6. g = [k \in 1..n |-> g[k]] BY <1>2
  <2> QED BY <2>5, <2>6
<1>3. \E g : g = Next1(g) BY <1>1
<1>4. FpOf(m, f, n) = Next1(FpOf(m, f, n)) BY <1>3 DEF FpOf
<1> QED BY <1>2, <1>4

\* The record of the frame at base of a function at i, called with n arguments,
\* with its operands above lo.
ArgsAt(base, n) == [k \in 1..n |-> Interpret!Read(base + 3 + k)]
ClosureAt(base, n) == IF Interpret!Read(base + 1)[2] = base + 3 + n + 1
                        THEN Interpret!Read(base + 4 + n) ELSE Null
LocalsAt(base, n) == [k \in 1..n |-> Interpret!Read(base - k + 1)]
OperandsAt(lo, n) == [k \in 1..n |-> Interpret!Read(lo + k)]
RecordAt(base, i, lo, n) ==
  [args |-> ArgsAt(base, n), closure |-> ClosureAt(base, n), locals |-> LocalsAt(base, Reserved(i)),
   operands |-> OperandsAt(lo, base - Reserved(i) - lo), ra |-> Interpret!Read(base + 3)]

\* The record of the running call.
Current == RecordAt(fp, ip, top, arg_sizes[1])

\* The frames read off the memory are those of a chain.
FramesFollow ==
  \A b, at, free : Accepted /\ ArgSizesOK /\ Chain(b, at, free) =>
    /\ Interpret!Frames = [k \in 1..Len(arg_sizes) |->
         RecordAt(b[k], at[k], IF k = 1 THEN top ELSE free[k] + 1, arg_sizes[k])]
    /\ Interpret!Frames[1] = Current

LEMMA FramesAre == FramesFollow
<1> SUFFICES ASSUME Accepted, ArgSizesOK, NEW b, NEW at, NEW free, Chain(b, at, free)
             PROVE  /\ Interpret!Frames = [k \in 1..Len(arg_sizes) |->
                         RecordAt(b[k], at[k], IF k = 1 THEN top ELSE free[k] + 1, arg_sizes[k])]
                    /\ Interpret!Frames[1] = Current
  BY DEF FramesFollow
<1>1. PICK n : n = Len(arg_sizes) OBVIOUS
<1>2. /\ n \in Nat \ {0} /\ 1 \in 1..n /\ b \in [1..n -> Int]
      /\ b[1] = fp /\ at[1] = ip /\ free[1] = top
  BY <1>1 DEF ArgSizesOK, Chain
<1>3. ASSUME NEW k \in 2..n
      PROVE  LET w == b[k - 1] IN
             /\ {w + 1, w + 2, w + 3} \subseteq Interpret!Words
             /\ memory[w + 1] = At(free[k] + 1) /\ memory[w + 2] = At(b[k])
             /\ memory[w + 3] = Code(at[k])
  <2>1. k - 1 \in 1..n BY <1>2
  <2>2. {b[k - 1] + 1, b[k - 1] + 2, b[k - 1] + 3} \subseteq Interpret!Words
    BY <1>1, <2>1, FrameFacts
  <2>3. Stands(b[k - 1], arg_sizes[k - 1], at[k], b[k], free[k]) BY <1>1 DEF Chain
  <2> QED BY <2>2, <2>3 DEF Stands
<1>4. Interpret!Fp = b
  <2>1. \A k \in 2..n : b[k - 1] + 2 \in Interpret!Words /\ memory[b[k - 1] + 2][2] = b[k]
    BY <1>3 DEF At
  <2>2. n \in Nat \ {0} /\ b \in [1..n -> Int] /\ b[1] = fp BY <1>2
  <2>3. FpOf(memory, fp, n) = b
    <3>1. n \in Nat \ {0} BY <2>2
    <3>2. b \in [1..n -> Int] BY <2>2
    <3>3. b[1] = fp BY <2>2
    <3> QED BY <2>1, <3>1, <3>2, <3>3, FpIs
  <2> QED BY <1>1, <2>3, FpRead
<1>5. ASSUME NEW k \in 1..n
      PROVE  /\ Interpret!Position(k) = at[k]
             /\ Interpret!Floor(k) = IF k = 1 THEN top ELSE free[k] + 1
  <2>1. CASE k = 1 BY <1>2, <2>1 DEF Interpret!Position, Interpret!Floor
  <2>2. CASE k # 1
    <3>1. k \in 2..n BY <1>2, <2>2
    <3>2. PICK w : w = b[k - 1] OBVIOUS
    <3>3. /\ w + 1 \in Interpret!Words /\ w + 3 \in Interpret!Words
          /\ memory[w + 1] = At(free[k] + 1) /\ memory[w + 3] = Code(at[k])
      BY <1>3, <3>1, <3>2
    <3>4. Interpret!Position(k) = memory[w + 3][2] /\ Interpret!Floor(k) = memory[w + 1][2]
      BY <1>4, <2>2, <3>2, <3>3 DEF Interpret!Position, Interpret!Floor, Interpret!Read
    <3> QED BY <2>2, <3>3, <3>4 DEF At, Code
  <2> QED BY <2>1, <2>2
<1>6. ASSUME NEW k \in 1..n
      PROVE  Interpret!FrameOf(k)
               = RecordAt(b[k], at[k], IF k = 1 THEN top ELSE free[k] + 1, arg_sizes[k])
  <2>1. PICK i, lo, w : i = at[k] /\ lo = (IF k = 1 THEN top ELSE free[k] + 1) /\ w = b[k] OBVIOUS
  <2>2. Interpret!Position(k) = i /\ Interpret!Floor(k) = lo /\ Interpret!Fp[k] = w
    BY <1>4, <1>5, <2>1
  <2>3. Interpret!Locals(k) = Reserved(i)
    BY <2>2, WordNames DEF Interpret!Locals, Reserved, Interpret!BeginOf, BeginOf
  <2>4. Interpret!IsClosureCall(k) <=> Interpret!Read(w + 1)[2] = w + 3 + arg_sizes[k] + 1
    BY <2>2 DEF Interpret!IsClosureCall
  <2>5. Interpret!FrameOf(k) = RecordAt(w, i, lo, arg_sizes[k])
    BY <2>2, <2>3, <2>4, WordNames
       DEF Interpret!FrameOf, RecordAt, ArgsAt, ClosureAt, LocalsAt, OperandsAt
  <2> QED BY <2>1, <2>5
<1>7. Interpret!Frames = [k \in 1..n |->
         RecordAt(b[k], at[k], IF k = 1 THEN top ELSE free[k] + 1, arg_sizes[k])]
  BY <1>1, <1>6 DEF Interpret!Frames, Interpret!Depth
<1>8. Interpret!Frames[1] = Current BY <1>2, <1>7 DEF Current
<1> QED BY <1>1, <1>7, <1>8

LEMMA FramesAreNext == FramesFollow'
BY FramesAre, PTL

-----------------------------------------------------------------------------
(* Frames that a step leaves *)

\* The words of a frame are those of the stack.
LEMMA Extent ==
  ASSUME Accepted, ArgSizesOK, NEW b, NEW at, NEW free, Chain(b, at, free),
         NEW k \in 1..Len(arg_sizes)
  PROVE  /\ b[k] \in Int /\ arg_sizes[k] \in Nat /\ -1 <= b[k]
         /\ b[k] + 3 + arg_sizes[k] <= Interpret!START
         /\ Interpret!Read(b[k] + 1)[2] = b[k] + 3 + arg_sizes[k] + 1 =>
              b[k] + 4 + arg_sizes[k] <= Interpret!START
<1>1. PICK n, x, a, s : /\ n = Len(arg_sizes) /\ x = b[k] /\ a = arg_sizes[k]
                        /\ s = Interpret!START
  OBVIOUS
<1>2. /\ n \in Nat \ {0} /\ x \in Int /\ a \in Nat /\ -1 <= x /\ s \in Nat /\ k \in 1..n
      /\ x + 1 \in Interpret!Words
  BY <1>1, FrameFacts, StartFacts
<1>3. CASE k = n
  <2>1. x = s - 3 /\ a = 0 /\ memory[x + 1] = At(x + 3) BY <1>1, <1>3 DEF Chain
  <2>2. Interpret!Read(x + 1)[2] = x + 3 BY <1>2, <2>1 DEF Interpret!Read, At
  <2> QED BY <1>1, <1>2, <2>1, <2>2
<1>4. CASE k # n
  <2>1. PICK l : l = k + 1 OBVIOUS
  <2>2. l \in 2..n /\ l \in 1..n /\ l - 1 = k BY <1>2, <1>4, <2>1
  <2>3. PICK y, f, i : y = b[l] /\ f = free[l] /\ i = at[l] OBVIOUS
  <2>4. Stands(b[l - 1], arg_sizes[l - 1], at[l], b[l], free[l]) BY <1>1, <2>2 DEF Chain
  <2>5. Stands(x, a, i, y, f) BY <1>1, <2>2, <2>3, <2>4
  <2>6. x + 3 + a <= f + 1 /\ memory[x + 1] = At(f + 1) /\ Operands(i, y, f) >= 1
    BY <2>5 DEF Stands
  <2>7. y \in Int /\ f \in Int /\ i \in Offsets /\ y + 3 <= s /\ Accounted(i, y, f)
    BY <1>1, <2>2, <2>3, FrameFacts DEF Function
  <2>8. f + 1 <= y
    <3>1. PICK d, r : d = Operands(i, y, f) /\ r = Reserved(i) OBVIOUS
    <3>2. d \in Nat /\ f + d + r = y BY <2>7, <3>1, AccountFacts
    <3>3. r \in Nat BY <2>7, <3>1, InFunction
    <3> QED BY <2>6, <2>7, <3>1, <3>2, <3>3
  <2>9. Interpret!Read(x + 1)[2] = f + 1 BY <1>2, <2>6 DEF Interpret!Read, At
  <2>10. x + 3 + a <= s /\ (f + 1 = x + 3 + a + 1 => x + 4 + a <= s)
    BY <1>2, <2>6, <2>7, <2>8
  <2> QED BY <1>1, <1>2, <2>9, <2>10
<1> QED BY <1>3, <1>4

\* A caller's operands begin above the arguments of the frames on it.
LEMMA Above ==
  ASSUME Accepted, ArgSizesOK, NEW b, NEW at, NEW free, Chain(b, at, free),
         NEW p \in 1..Len(arg_sizes), NEW k \in (p + 1)..Len(arg_sizes)
  PROVE  /\ free[k] \in Int /\ at[k] \in Offsets /\ Reserved(at[k]) \in Nat
         /\ b[p] + 3 + arg_sizes[p] <= free[k] + 1
         /\ free[k] + 1 <= b[k] - Reserved(at[k])
<1>1. PICK n : n = Len(arg_sizes) OBVIOUS
<1>2. n \in Nat \ {0} /\ p \in 1..n /\ k \in 2..n /\ k \in 1..n /\ k - 1 \in 1..n /\ p <= k - 1
  BY <1>1, FrameFacts
<1>3. PICK x, a, y, f, i : /\ x = b[k - 1] /\ a = arg_sizes[k - 1]
                           /\ y = b[k] /\ f = free[k] /\ i = at[k]
  OBVIOUS
<1>4. Stands(x, a, i, y, f) BY <1>1, <1>2, <1>3 DEF Chain
<1>5. x \in Int /\ a \in Nat /\ y \in Int /\ f \in Int /\ i \in Offsets /\ Accounted(i, y, f)
  BY <1>1, <1>2, <1>3, FrameFacts DEF Function
<1>6. f + 1 <= y - Reserved(i) /\ Reserved(i) \in Nat
  <2>1. PICK d, r : d = Operands(i, y, f) /\ r = Reserved(i) OBVIOUS
  <2>2. d \in Nat /\ f + d + r = y BY <1>5, <2>1, AccountFacts
  <2>3. r \in Nat BY <1>5, <2>1, InFunction
  <2>4. d >= 1 BY <1>4, <2>1 DEF Stands
  <2> QED BY <1>5, <2>1, <2>2, <2>3, <2>4
<1>7. x + 3 + a <= f + 1 BY <1>4 DEF Stands
<1>8. b[p] + 3 + arg_sizes[p] <= f + 1
  <2>1. CASE p = k - 1 BY <1>3, <1>7, <2>1
  <2>2. CASE p # k - 1
    <3>1. PICK l : l = p + 1 OBVIOUS
    <3>2. l \in 2..n /\ l \in 1..n /\ l - 1 = p /\ (l = k - 1 \/ l < k - 1) BY <1>2, <2>2, <3>1
    <3>3. PICK z, g, j, q, c : /\ z = b[l] /\ g = free[l] /\ j = at[l]
                               /\ q = b[p] /\ c = arg_sizes[p]
      OBVIOUS
    <3>4. Stands(b[l - 1], arg_sizes[l - 1], at[l], b[l], free[l]) BY <1>1, <3>2 DEF Chain
    <3>5. q + 3 + c <= g + 1 /\ Operands(j, z, g) >= 1 BY <3>2, <3>3, <3>4 DEF Stands
    <3>6. z \in Int /\ g \in Int /\ j \in Offsets /\ Accounted(j, z, g) /\ q \in Int /\ c \in Nat
      BY <1>1, <1>2, <3>2, <3>3, FrameFacts DEF Function
    <3>7. g + 1 <= z
      <4>1. PICK d, r : d = Operands(j, z, g) /\ r = Reserved(j) OBVIOUS
      <4>2. d \in Nat /\ g + d + r = z BY <3>6, <4>1, AccountFacts
      <4>3. r \in Nat BY <3>6, <4>1, InFunction
      <4> QED BY <3>5, <3>6, <4>1, <4>2, <4>3
    <3>8. z <= x
      <4>1. l = k - 1 \/ b[l] + 3 <= b[k - 1] BY <1>1, <1>2, <3>2 DEF Chain
      <4> QED BY <1>3, <1>5, <3>3, <3>6, <4>1
    <3>9. q + 3 + c <= f + 1
      <4>1. g + 1 <= x BY <1>5, <3>6, <3>7, <3>8
      <4>2. x <= f + 1 BY <1>5, <1>7
      <4> QED BY <1>5, <3>5, <3>6, <4>1, <4>2
    <3> QED BY <3>3, <3>9
  <2> QED BY <2>1, <2>2
<1> QED BY <1>3, <1>5, <1>6, <1>8

\* A record whose words are not written.
Untouched(lo) ==
  \A j \in Interpret!Words : lo < j /\ j <= Interpret!START => memory'[j] = memory[j]

LEMMA RecordKept ==
  ASSUME Accepted, UNCHANGED vars, NEW base \in Int, NEW i \in Offsets, NEW lo \in Int,
         NEW n \in Nat, lo <= base - Reserved(i), -1 <= lo,
         base + 3 + n <= Interpret!START,
         Interpret!Read(base + 1)[2] = base + 3 + n + 1 => base + 4 + n <= Interpret!START,
         Untouched(lo)
  PROVE  RecordAt(base, i, lo, n)' = RecordAt(base, i, lo, n)
<1> USE DEF Untouched
<1>1. PICK r, s : r = Reserved(i) /\ s = Interpret!START OBVIOUS
<1>2. r \in Nat /\ Reserved(i)' = r /\ s \in Nat /\ s < STACK
  <2>1. Reserved(i)' = Reserved(i) BY DEF Reserved, vars, code
  <2> QED BY <1>1, <2>1, InFunction, StartFacts
<1>3. lo <= base - r /\ base + 3 + n <= s BY <1>1
<1>4. ASSUME NEW j \in Int, lo < j, j <= s PROVE Interpret!Read(j)' = Interpret!Read(j)
  BY <1>1, <1>2, <1>4, StartFacts DEF Interpret!Read, Interpret!Words, Interpret!Junk
<1>5. ArgsAt(base, n)' = ArgsAt(base, n)
  <2>1. ASSUME NEW k \in 1..n PROVE Interpret!Read(base + 3 + k)' = Interpret!Read(base + 3 + k)
    <3>1. PICK j : j = base + 3 + k OBVIOUS
    <3>2. j \in Int /\ lo < j /\ j <= s BY <1>2, <1>3, <3>1
    <3> QED BY <1>4, <3>1, <3>2
  <2> QED BY <2>1 DEF ArgsAt
<1>6. LocalsAt(base, r)' = LocalsAt(base, r)
  <2>1. ASSUME NEW k \in 1..r PROVE Interpret!Read(base - k + 1)' = Interpret!Read(base - k + 1)
    <3>1. PICK j : j = base - k + 1 OBVIOUS
    <3>2. j \in Int /\ lo < j /\ j <= s BY <1>2, <1>3, <3>1
    <3> QED BY <1>4, <3>1, <3>2
  <2> QED BY <2>1 DEF LocalsAt
<1>7. PICK d : d = base - r - lo OBVIOUS
<1>8. OperandsAt(lo, d)' = OperandsAt(lo, d)
  <2>1. ASSUME NEW k \in 1..d PROVE Interpret!Read(lo + k)' = Interpret!Read(lo + k)
    <3>1. PICK j : j = lo + k OBVIOUS
    <3>2. j \in Int /\ lo < j /\ j <= s BY <1>2, <1>3, <1>7, <3>1
    <3> QED BY <1>4, <3>1, <3>2
  <2> QED BY <2>1 DEF OperandsAt
<1>9. /\ Interpret!Read(base + 1)' = Interpret!Read(base + 1)
      /\ Interpret!Read(base + 3)' = Interpret!Read(base + 3)
  <2>1. PICK j, l : j = base + 1 /\ l = base + 3 OBVIOUS
  <2>2. j \in Int /\ lo < j /\ j <= s /\ l \in Int /\ lo < l /\ l <= s BY <1>2, <1>3, <2>1
  <2> QED BY <1>4, <2>1, <2>2
<1>10. ClosureAt(base, n)' = ClosureAt(base, n)
  <2>1. CASE Interpret!Read(base + 1)[2] = base + 3 + n + 1
    <3>1. PICK j : j = base + 4 + n OBVIOUS
    <3>2. j \in Int /\ lo < j /\ j <= s BY <1>1, <1>2, <1>3, <2>1, <3>1
    <3> QED BY <1>4, <1>9, <2>1, <3>1, <3>2 DEF ClosureAt
  <2>2. CASE Interpret!Read(base + 1)[2] # base + 3 + n + 1 BY <1>9, <2>2 DEF ClosureAt
  <2> QED BY <2>1, <2>2
<1> QED BY <1>1, <1>2, <1>5, <1>6, <1>7, <1>8, <1>9, <1>10 DEF RecordAt

\* The frames from the p-th on are e places further on, and the words that are not
\* arguments stay in the frame at base, of a call with n arguments, and above it.
SizesStay(p, e) == \A k \in p..Len(arg_sizes) : arg_sizes'[k + e] = arg_sizes[k]
WordsStay(base, n) == \A j \in Interpret!Words :
  base < j /\ j <= Interpret!START /\ (j <= base + 3 \/ base + 3 + n < j) => memory'[j] = memory[j]

\* The frames below the p-th one stay, with others of theirs pushed or popped
\* above it, while no word above its arguments is written.
LEMMA RestStays ==
  ASSUME Accepted, Accepted', ArgSizesOK, ArgSizesOK', UNCHANGED vars,
         NEW b, NEW at, NEW free, Chain(b, at, free),
         NEW c, NEW at2, NEW free2, Chain(c, at2, free2)',
         NEW p \in 1..Len(arg_sizes), NEW e \in Int, p + e >= 1,
         Len(arg_sizes') = Len(arg_sizes) + e, c[p + e] = b[p],
         SizesStay(p, e), WordsStay(b[p], arg_sizes[p])
  PROVE  \A k \in (p + 1)..Len(arg_sizes) :
           /\ Interpret!Frames'[k + e] = Interpret!Frames[k]
           /\ c[k + e] = b[k] /\ at2[k + e] = at[k] /\ free2[k + e] = free[k]
<1> USE DEF SizesStay, WordsStay
<1>1. PICK N, M : N = Len(arg_sizes) /\ M = Len(arg_sizes') OBVIOUS
<1>2. /\ N \in Nat \ {0} /\ M \in Nat /\ M = N + e /\ p \in 1..N
      /\ \A k \in p..N : k \in 1..N /\ k + e \in 1..M
  <2>1. N \in Nat /\ N # 0 BY <1>1 DEF ArgSizesOK
  <2>2. M \in Nat BY <1>1 DEF ArgSizesOK
  <2>3. M = N + e /\ p \in 1..N BY <1>1
  <2>4. ASSUME NEW k \in p..N PROVE k \in 1..N /\ k + e \in 1..M
    BY <2>1, <2>2, <2>3
  <2> QED BY <2>1, <2>2, <2>3, <2>4
<1>3. ASSUME NEW k \in p..N, NEW j \in {b[k] + 1, b[k] + 2, b[k] + 3}
      PROVE  memory'[j] = memory[j]
  <2>1. /\ b[k] \in Int /\ b[k] + 3 <= Interpret!START /\ b[p] \in Int
        /\ b[k] + 1 \in Interpret!Words /\ b[k] + 2 \in Interpret!Words
        /\ b[k] + 3 \in Interpret!Words
    BY <1>1, <1>2, FrameFacts
  <2>2. j \in Interpret!Words /\ b[k] < j /\ j <= b[k] + 3 /\ j \in Int
    <3>1. PICK x : x = b[k] OBVIOUS
    <3>2. j = x + 1 \/ j = x + 2 \/ j = x + 3 BY <3>1
    <3>3. j \in Interpret!Words BY <2>1, <3>1, <3>2
    <3>4. x \in Int BY <2>1, <3>1
    <3>5. x < j /\ j <= x + 3 /\ j \in Int BY <3>2, <3>4
    <3> QED BY <3>1, <3>3, <3>5
  <2>3. CASE k = p
    <3>1. PICK x, s : x = b[k] /\ s = Interpret!START OBVIOUS
    <3>2. x \in Int /\ s \in Int /\ x + 3 <= s /\ x < j /\ j <= x + 3 /\ j \in Int
      BY <2>1, <2>2, <3>1, StartFacts
    <3>3. x < j /\ j <= s /\ j <= x + 3 BY <3>2
    <3>4. b[p] = x BY <2>3, <3>1
    <3>5. b[p] < j /\ j <= Interpret!START /\ j <= b[p] + 3 BY <3>1, <3>3, <3>4
    <3> QED BY <2>2, <3>5
  <2>4. CASE k # p
    <3>1. k \in (p + 1)..N BY <1>2, <2>4
    <3>2. PICK x, f, r, a : x = b[p] /\ f = free[k] /\ r = Reserved(at[k]) /\ a = arg_sizes[p]
      OBVIOUS
    <3>3. /\ f \in Int /\ r \in Nat /\ x + 3 + a <= f + 1 /\ f + 1 <= b[k] - r
          /\ x \in Int /\ a \in Nat
      BY <1>1, <1>2, <2>1, <3>1, <3>2, Above, FrameFacts
    <3>4. x < j /\ j <= Interpret!START /\ x + 3 + a < j
      <4>1. PICK y, s : y = b[k] /\ s = Interpret!START OBVIOUS
      <4>2. /\ y \in Int /\ s \in Int /\ j \in Int /\ y + 3 <= s /\ y < j /\ j <= y + 3
            /\ f + 1 <= y - r
        BY <2>1, <2>2, <3>3, <4>1, StartFacts
      <4>3. PICK l : l = x + 3 + a OBVIOUS
      <4>4. l \in Int /\ l <= f + 1 /\ f \in Int /\ x < l
        BY <3>3, <4>3
      <4>5. l <= y - r /\ r \in Nat BY <3>3, <4>2, <4>4
      <4>6. l < j BY <4>2, <4>4, <4>5
      <4>7. j <= s BY <4>2
      <4>8. x < j BY <3>3, <4>2, <4>4, <4>6
      <4> QED BY <4>1, <4>3, <4>6, <4>7, <4>8
    <3> QED BY <2>2, <3>2, <3>4
  <2> QED BY <2>3, <2>4
<1>4. ASSUME NEW k \in p..N, k # N, c[k + e] = b[k]
      PROVE  /\ c[(k + 1) + e] = b[k + 1] /\ at2[(k + 1) + e] = at[k + 1]
             /\ free2[(k + 1) + e] = free[k + 1]
  <2>1. PICK l : l = k + 1 OBVIOUS
  <2>2. /\ l \in 2..N /\ l \in 1..N /\ l - 1 = k /\ l + e \in 2..M /\ (l + e) - 1 = k + e
        /\ l + e \in 1..M
    BY <1>2, <1>4, <2>1
  <2>3. PICK x : x = b[k] OBVIOUS
  <2>4. Stands(b[l - 1], arg_sizes[l - 1], at[l], b[l], free[l]) BY <1>1, <2>2 DEF Chain
  <2>5. memory[x + 1] = At(free[l] + 1) /\ memory[x + 2] = At(b[l]) /\ memory[x + 3] = Code(at[l])
    BY <2>2, <2>3, <2>4 DEF Stands
  <2>6. \A h \in 2..M : Stands(c[h - 1], arg_sizes[h - 1], at2[h], c[h], free2[h])'
    BY <1>1 DEF Chain
  <2>7. PICK h : h = l + e OBVIOUS
  <2>8. Stands(c[h - 1], arg_sizes[h - 1], at2[h], c[h], free2[h])' BY <2>2, <2>6, <2>7
  <2>9. c[h - 1] = x BY <1>4, <2>2, <2>3, <2>7
  <2>10. /\ memory'[x + 1] = At(free2[h] + 1) /\ memory'[x + 2] = At(c[h])
         /\ memory'[x + 3] = Code(at2[h])
    BY <2>8, <2>9 DEF Stands
  <2>11. /\ memory'[x + 1] = memory[x + 1] /\ memory'[x + 2] = memory[x + 2]
         /\ memory'[x + 3] = memory[x + 3]
    BY <1>3, <2>3
  <2>12. free2[h] + 1 = free[l] + 1 /\ c[h] = b[l] /\ at2[h] = at[l]
    BY <2>5, <2>10, <2>11 DEF At, Code
  <2>13. free[l] \in Int /\ free2[h] \in Int
    <3>1. free \in [1..N -> Int] BY <1>1 DEF Chain
    <3>2. free2 \in [1..M -> Int] BY <1>1 DEF Chain
    <3> QED BY <2>2, <2>7, <3>1, <3>2
  <2>14. free2[h] = free[l]
    <3>1. PICK u, v : u = free2[h] /\ v = free[l] OBVIOUS
    <3>2. u \in Int /\ v \in Int /\ u + 1 = v + 1 BY <2>12, <2>13, <3>1
    <3>3. u = v BY <3>2
    <3> QED BY <3>1, <3>3
  <2> QED BY <2>1, <2>7, <2>12, <2>14
<1>5. \A k \in p..N : c[k + e] = b[k]
  <2> DEFINE S == {d \in Nat : p + d \in p..N => c[(p + d) + e] = b[p + d]}
  <2>1. 0 \in S BY <1>2
  <2>2. ASSUME NEW d \in Nat, d \in S PROVE d + 1 \in S
    <3> SUFFICES ASSUME p + (d + 1) \in p..N
                 PROVE  c[(p + (d + 1)) + e] = b[p + (d + 1)]
      OBVIOUS
    <3>1. PICK k : k = p + d OBVIOUS
    <3>2. k \in p..N /\ k # N /\ p + (d + 1) = k + 1 BY <1>2, <3>1
    <3>3. c[k + e] = b[k] BY <2>2, <3>1, <3>2
    <3> QED BY <1>4, <3>2, <3>3
  <2> HIDE DEF S
  <2>3. Nat \subseteq S BY <2>1, <2>2, SetInduction
  <2> SUFFICES ASSUME NEW k \in p..N PROVE c[k + e] = b[k] OBVIOUS
  <2>4. k - p \in Nat /\ p + (k - p) = k BY <1>2
  <2> QED BY <2>3, <2>4 DEF S
<1>6. ASSUME NEW k \in (p + 1)..N
      PROVE  c[k + e] = b[k] /\ at2[k + e] = at[k] /\ free2[k + e] = free[k]
  <2>1. PICK l : l = k - 1 OBVIOUS
  <2>2. l \in p..N /\ l # N /\ k = l + 1 BY <1>2, <2>1
  <2> QED BY <1>4, <1>5, <2>2
<1>7. ASSUME NEW k \in (p + 1)..N PROVE Interpret!Frames'[k + e] = Interpret!Frames[k]
  <2>1. PICK x, i, lo, a, h : /\ x = b[k] /\ i = at[k] /\ lo = free[k] + 1 /\ a = arg_sizes[k]
                              /\ h = k + e
    OBVIOUS
  <2>2. k \in p..N /\ k \in 1..N /\ k # 1 /\ h \in 1..M /\ h # 1 BY <1>2, <2>1
  <2>3. Interpret!Frames[k] = RecordAt(x, i, lo, a) BY <1>1, <2>1, <2>2, FramesAre DEF FramesFollow
  <2>4. Interpret!Frames'[h] = RecordAt(c[h], at2[h], free2[h] + 1, arg_sizes[h])'
    BY <1>1, <2>2, FramesAreNext DEF FramesFollow
  <2>5. c[h] = x /\ at2[h] = i /\ free2[h] + 1 = lo /\ arg_sizes'[h] = a
    BY <1>1, <1>6, <2>1, <2>2
  <2>6. Interpret!Frames'[h] = RecordAt(x, i, lo, a)' BY <2>4, <2>5
  <2>7. /\ x \in Int /\ i \in Offsets /\ a \in Nat /\ -1 <= x
        /\ x + 3 + a <= Interpret!START
        /\ Interpret!Read(x + 1)[2] = x + 3 + a + 1 => x + 4 + a <= Interpret!START
    BY <1>1, <2>1, <2>2, Extent, FrameFacts
  <2>8. /\ lo \in Int /\ -1 <= lo /\ lo <= x - Reserved(i) /\ b[p] + 3 + arg_sizes[p] <= lo
    <3>1. free[k] \in Int /\ -1 <= free[k] BY <1>1, <2>2, FrameFacts
    <3>2. /\ b[p] + 3 + arg_sizes[p] <= free[k] + 1 /\ free[k] + 1 <= b[k] - Reserved(at[k])
      BY <1>1, <1>7, Above
    <3>3. lo \in Int /\ -1 <= lo
      <4>1. PICK f : f = free[k] OBVIOUS
      <4>2. f \in Int /\ -1 <= f /\ lo = f + 1 BY <2>1, <3>1, <4>1
      <4> QED BY <4>2
    <3> QED BY <2>1, <3>2, <3>3
  <2>9. Untouched(lo)
    <3>1. b[p] \in Int /\ arg_sizes[p] \in Nat BY <1>1, <1>2, FrameFacts
    <3>2. ASSUME NEW j \in Interpret!Words, lo < j PROVE b[p] < j /\ b[p] + 3 + arg_sizes[p] < j
      <4>1. PICK q, z : q = b[p] /\ z = arg_sizes[p] OBVIOUS
      <4>2. q \in Int /\ z \in Nat /\ q + 3 + z <= lo /\ lo \in Int /\ j \in Int
        BY <2>8, <3>1, <4>1, StartFacts
      <4>3. q < j /\ q + 3 + z < j BY <3>2, <4>2
      <4> QED BY <4>1, <4>3
    <3> QED BY <3>2 DEF Untouched
  <2>10. RecordAt(x, i, lo, a)' = RecordAt(x, i, lo, a) BY <2>7, <2>8, <2>9, RecordKept
  <2> QED BY <2>1, <2>3, <2>6, <2>10
<1> QED BY <1>1, <1>6, <1>7

-----------------------------------------------------------------------------
(* A step within the running call *)

\* The words and instructions of the specification are those of the code.
LEMMA RecordNames ==
  /\ \A n : /\ Interpret!Records!Integer(n) = Integer(n) /\ Interpret!Records!Code(n) = Code(n)
            /\ Interpret!Records!Closure(n) = Closure(n) /\ Interpret!Records!Needs(n) = Needs(n)
            /\ (Interpret!Records!IsInt(n) <=> IsInt(n))
  /\ Interpret!Records!Box = Box /\ Interpret!Records!Null = Null /\ Interpret!Records!Junk = Junk
  /\ Interpret!Records!Bools = Bools /\ Interpret!Records!AnyWord = AnyWord
  /\ Interpret!Records!Instr = program[ip] /\ Interpret!Records!Begins = Begins
  /\ Interpret!Records!CondJumps = CondJumps
BY DEF Interpret!Records!Integer, Integer, Interpret!Records!Code, Code, Interpret!Records!Closure,
       Closure, Interpret!Records!Needs, Needs, Interpret!Records!IsInt, IsInt, Interpret!Records!Box,
       Box, Interpret!Records!Null, Null, Interpret!Records!Junk, Junk, Interpret!Records!Bools, Bools,
       Interpret!Records!AnyWord, AnyWord, Interpret!Records!Instr, Interpret!Records!Begins, Begins,
       Interpret!Records!CondJumps, CondJumps

\* A state of a run that goes on, and the next one.
Onward ==
  Ready /\ Scoped(program) /\ status' = "running" /\ Accepted' /\ WordsInv' /\ ChainInv'

\* Nothing of the records changes with the memory, the position and the frames.
LEMMA RecordsSame ==
  ASSUME UNCHANGED <<program, memory, ip, top, fp, arg_sizes>>
  PROVE  Interpret!Frames' = Interpret!Frames /\ Interpret!GlobalValues' = Interpret!GlobalValues
<1>1. Interpret!Fp' = Interpret!Fp BY FpRead
<1>2. \A j : Interpret!Read(j)' = Interpret!Read(j) BY DEF Interpret!Read, Interpret!Words, Interpret!Junk
<1>3. Interpret!GlobalValues' = Interpret!GlobalValues
  BY <1>2 DEF Interpret!GlobalValues, Interpret!GlobalAt
<1>4. Interpret!Depth' = Interpret!Depth BY DEF Interpret!Depth
<1>5. \A k : /\ Interpret!Position(k)' = Interpret!Position(k) /\ Interpret!Floor(k)' = Interpret!Floor(k)
  BY <1>1, <1>2 DEF Interpret!Position, Interpret!Floor
<1>6. ASSUME NEW k PROVE Interpret!Locals(k)' = Interpret!Locals(k)
  <2>1. Interpret!Locals(k) = Reserved(Interpret!Position(k))
    BY WordNames DEF Interpret!Locals, Reserved, Interpret!BeginOf, BeginOf
  <2>2. Interpret!Locals(k)' = Reserved(Interpret!Position(k))'
    BY DEF Interpret!Locals, Reserved, Interpret!BeginOf, BeginOf, Interpret!Begins, Begins
  <2>3. \A i : Reserved(i)' = Reserved(i) BY DEF Reserved
  <2>4. PICK i : i = Interpret!Position(k) /\ i = Interpret!Position(k)' BY <1>5
  <2>5. Reserved(Interpret!Position(k))' = Reserved(i)' BY <2>4
  <2> QED BY <2>1, <2>2, <2>3, <2>4, <2>5
<1>7. \A k : Interpret!IsClosureCall(k)' <=> Interpret!IsClosureCall(k)
  BY <1>1, <1>2 DEF Interpret!IsClosureCall
<1>8. \A k : Interpret!FrameOf(k)' = Interpret!FrameOf(k)
  BY <1>1, <1>2, <1>5, <1>6, <1>7 DEF Interpret!FrameOf, Interpret!Null
<1> QED BY <1>3, <1>4, <1>8 DEF Interpret!Frames

\* The globals lie above the frames.
LEMMA GlobalsAbove ==
  ASSUME NEW k \in 0..(global_area_size - 1)
  PROVE  Interpret!GlobalAt(k) \in Interpret!Words /\ Interpret!START < Interpret!GlobalAt(k)
BY VerifiedRunAssumption, VerifierAssumption DEF Interpret!GlobalAt, Interpret!Words, Interpret!START

LEMMA GlobalsSame ==
  ASSUME \A j \in Interpret!Words : Interpret!START < j => memory'[j] = memory[j]
  PROVE  Interpret!GlobalValues' = Interpret!GlobalValues
<1>1. ASSUME NEW k \in 0..(global_area_size - 1)
      PROVE  Interpret!Read(Interpret!GlobalAt(k))' = Interpret!Read(Interpret!GlobalAt(k))
  BY GlobalsAbove DEF Interpret!Read, Interpret!GlobalAt, Interpret!Words, Interpret!Junk
<1> QED BY <1>1 DEF Interpret!GlobalValues

\* A step within the running call changes the record of that call only.
LEMMA InFrame ==
  ASSUME Onward, UNCHANGED <<fp, arg_sizes>>, Kept(memory')
  PROVE  /\ Interpret!Frames[1] = Current /\ Interpret!Records!Becomes(Current')
         /\ Interpret!Frames \in Seq({Interpret!Frames[k] : k \in 1..Len(arg_sizes)})
<1>1. PICK b, at, free : Chain(b, at, free) BY DEF Onward, Ready, ChainInv
<1>2. \E c, at2, free2 : Chain(c, at2, free2)' BY DEF Onward, ChainInv
<1>3. PICK c, at2, free2 : Chain(c, at2, free2)' BY <1>2
<1>4. /\ Accepted /\ Accepted' /\ ArgSizesOK /\ ArgSizesOK' /\ UNCHANGED vars
  BY DEF Onward, Ready, ChainInv, ArgSizesOK
<1>5. PICK n : n = Len(arg_sizes) OBVIOUS
<1>6. n \in Nat \ {0} /\ 1 \in 1..n /\ Len(arg_sizes') = n BY <1>4, <1>5 DEF ArgSizesOK
<1>7. b[1] = fp /\ c[1] = fp
  <2>1. b[1] = fp BY <1>1 DEF Chain
  <2>2. c[1] = fp' BY <1>3 DEF Chain
  <2> QED BY <2>1, <2>2
<1>8. \A k \in 2..n : Interpret!Frames'[k] = Interpret!Frames[k]
  <2>1. PICK p, e : p = 1 /\ e = 0 OBVIOUS
  <2>2. /\ p \in 1..Len(arg_sizes) /\ e \in Int /\ p + e >= 1
        /\ Len(arg_sizes') = Len(arg_sizes) + e /\ p + e = 1 /\ c[p + e] = b[p]
    BY <1>5, <1>6, <1>7, <2>1
  <2>3. SizesStay(p, e)
    <3>1. \A k \in p..Len(arg_sizes) : k + e = k BY <2>1, <1>5, <1>6
    <3> QED BY <3>1 DEF SizesStay
  <2>4. WordsStay(b[p], arg_sizes[p]) BY <1>7, <2>1 DEF Kept, WordsStay
  <2>5. \A k \in (p + 1)..Len(arg_sizes) : Interpret!Frames'[k + e] = Interpret!Frames[k]
    BY <1>1, <1>3, <1>4, <2>2, <2>3, <2>4, RestStays
  <2>6. \A k \in 2..n : k \in (p + 1)..Len(arg_sizes) /\ k + e = k BY <1>5, <1>6, <2>1
  <2> QED BY <2>5, <2>6
<1>9. /\ Listed(Interpret!Frames, n) /\ Interpret!Frames[1] = Current
      /\ Listed(Interpret!Frames', n) /\ Interpret!Frames'[1] = Current'
  <2>1. Listed(Interpret!Frames, n) /\ Listed(Interpret!Frames', n)
    BY <1>5, <1>6 DEF Interpret!Frames, Interpret!Depth, Listed
  <2>2. Interpret!Frames[1] = Current BY <1>1, <1>4, FramesAre DEF FramesFollow
  <2>3. Interpret!Frames'[1] = Current' BY <1>3, <1>4, FramesAreNext DEF FramesFollow
  <2> QED BY <2>1, <2>2, <2>3
<1>10. Interpret!Frames' = <<Interpret!Frames'[1]>> \o Tail(Interpret!Frames)
  BY <1>6, <1>8, <1>9, NewHead
<1>11. Interpret!Frames \in Seq({Interpret!Frames[k] : k \in 1..n})
  <2>1. PICK g, S : g = Interpret!Frames /\ S = {Interpret!Frames[k] : k \in 1..n} OBVIOUS
  <2>2. Listed(g, n) /\ n \in Nat /\ \A k \in 1..n : g[k] \in S BY <1>6, <1>9, <2>1
  <2>3. g \in Seq(S) BY <2>2, AsSeq
  <2> QED BY <2>1, <2>3
<1> QED BY <1>5, <1>9, <1>10, <1>11 DEF Interpret!Records!Becomes

\* The words of m above the operands that the instruction takes.
Untaken(m) == \A j \in Interpret!Words : top + Needs(program[ip]) < j => m[j] = memory[j]

\* In the place of those operands us is left, the last word pushed first.
Left(us) == /\ top' = top + Needs(program[ip]) - Len(us)
            /\ \A k \in 1..Len(us) : Interpret!Peek(k)' = us[k]

LEMMA Leaves ==
  ASSUME Onward, UNCHANGED <<fp, arg_sizes>>, NEW S, Sound \subseteq S, NEW us \in Seq(S), Left(us),
         Untaken(memory'), NEW i, ip' = i, Reserved(i) = Reserved(ip)
  PROVE  Interpret!Records!Leave(us, i) /\ Interpret!GlobalValues' = Interpret!GlobalValues
<1>1. /\ Accepted /\ ArgSizesOK /\ fp \in Int /\ top \in Int /\ ip \in Offsets /\ WordsInv
      /\ -1 <= top /\ top <= fp /\ fp + 3 <= Interpret!START
      /\ Needs(program[ip]) \in Nat /\ Reserved(ip) \in Nat /\ Operands(ip, fp, top) \in Nat
      /\ top + Operands(ip, fp, top) + Reserved(ip) = fp
      /\ Needs(program[ip]) <= Operands(ip, fp, top)
      /\ UNCHANGED vars
  BY ReadyFacts DEF Onward, Ready
<1>2. PICK B, i0, t0, t, n, d, r, l, hi, a, s :
        /\ B = fp /\ i0 = ip /\ t0 = top /\ t = top' /\ n = Needs(program[ip])
        /\ d = Operands(ip, fp, top) /\ r = Reserved(ip) /\ l = Len(us) /\ hi = top + n
        /\ a = arg_sizes[1] /\ s = Interpret!START
  OBVIOUS
<1>3. /\ B \in Int /\ t0 \in Int /\ i0 \in Offsets /\ n \in Nat /\ d \in Nat /\ r \in Nat /\ l \in Nat
      /\ s \in Nat /\ STACK \in Nat /\ s < STACK /\ Interpret!Words = 0..(STACK - 1)
      /\ -1 <= t0 /\ n <= d /\ t0 + d + r = B /\ hi = t0 + n /\ t = t0 + n - l /\ B + 3 <= s
      /\ a \in Nat
  BY <1>1, <1>2, StartFacts, FirstSize DEF Left
<1>4. hi \in Int /\ -1 <= hi /\ hi <= B - r /\ t \in Int BY <1>3
<1>5. \A j \in Interpret!Words : hi < j => memory'[j] = memory[j] BY <1>2 DEF Untaken
<1>6. Kept(memory')
  <2>1. \A j \in Interpret!Words : B < j => hi < j BY <1>3, <1>4
  <2> QED BY <1>2, <1>5, <2>1 DEF Kept
<1>7. /\ Interpret!Frames[1] = Current /\ Interpret!Records!Becomes(Current') BY <1>6, InFrame
<1>8. RecordAt(B, i0, hi, a)' = RecordAt(B, i0, hi, a)
  <2>1. PICK b, at, free : Chain(b, at, free) BY DEF Onward, Ready, ChainInv
  <2>2. 1 \in 1..Len(arg_sizes) /\ b[1] = fp BY <1>1, <2>1 DEF ArgSizesOK, Chain
  <2>3. /\ B + 3 + a <= s
        /\ Interpret!Read(B + 1)[2] = B + 3 + a + 1 => B + 4 + a <= s
    BY <1>1, <1>2, <2>1, <2>2, Extent
  <2>4. Untouched(hi) BY <1>5 DEF Untouched
  <2>5. hi <= B - Reserved(i0) /\ B + 3 + a <= Interpret!START BY <1>2, <1>4, <2>3
  <2>6. Interpret!Read(B + 1)[2] = B + 3 + a + 1 => B + 4 + a <= Interpret!START BY <1>2, <2>3
  <2> QED BY <1>1, <1>3, <1>4, <2>4, <2>5, <2>6, RecordKept
<1>9. /\ Current = RecordAt(B, i0, t0, a) /\ Current' = RecordAt(B, i, t, a)' /\ Reserved(i) = r
      /\ Reserved(i)' = r /\ Reserved(i0)' = r
  BY <1>1, <1>2 DEF Current, Reserved, vars, code
<1>10. PICK o, p : o = OperandsAt(t0, d) /\ p = OperandsAt(t, l + d - n)' OBVIOUS
<1>11. p = us \o SubSeq(o, n + 1, Len(o))
  <2>1. PICK m : m = l + d - n OBVIOUS
  <2>2. m \in Nat /\ n \in 0..d /\ m = Len(us) + d - n
    <3>1. l = Len(us) BY <1>2
    <3> QED BY <1>3, <2>1, <3>1
  <2>3. Listed(o, d) /\ \A k \in 1..d : o[k] = Interpret!Read(t0 + k) BY <1>10 DEF OperandsAt, Listed
  <2>4. Listed(p, m) /\ \A k \in 1..m : p[k] = Interpret!Read(t + k)'
    BY <1>10, <2>1 DEF OperandsAt, Listed
  <2>5. \A k \in 1..d : o[k] \in S BY <1>1, <2>3, ReadSound
  <2>6. \A k \in 1..Len(us) : p[k] = us[k]
    <3> SUFFICES ASSUME NEW k \in 1..l PROVE p[k] = us[k] BY <1>2
    <3>1. k \in 1..m BY <1>3, <2>1
    <3>2. Interpret!Peek(k)' = us[k] BY <1>2 DEF Left
    <3>3. Interpret!Peek(k)' = Interpret!Read(t + k)'
      BY <1>2 DEF Interpret!Peek, Interpret!Read, Interpret!Words, Interpret!Junk
    <3> QED BY <2>4, <3>1, <3>2, <3>3
  <2>7. \A k \in (n + 1)..d : p[k - n + Len(us)] = o[k]
    <3> SUFFICES ASSUME NEW k \in (n + 1)..d PROVE p[k - n + l] = o[k] BY <1>2
    <3>1. PICK h, j : h = k - n + l /\ j = t0 + k OBVIOUS
    <3>2. h \in 1..m /\ t + h = j /\ k \in 1..d /\ hi < j BY <1>3, <2>1, <3>1
    <3>6. j \in Interpret!Words BY <1>3, <3>1
    <3>3. p[h] = Interpret!Read(j)' /\ o[k] = Interpret!Read(j) BY <2>3, <2>4, <3>1, <3>2
    <3>4. memory'[j] = memory[j] BY <1>5, <3>2, <3>6
    <3>5. Interpret!Read(j)' = Interpret!Read(j)
      BY <3>6, <3>4 DEF Interpret!Read, Interpret!Words
    <3> QED BY <3>1, <3>3, <3>5
  <2>8. Replaces(p, o, d, n, us) BY <2>2, <2>4, <2>6, <2>7 DEF Replaces
  <2> QED BY <1>3, <2>2, <2>3, <2>5, <2>8, FirstReplaced
<1>12. Current' = [Current EXCEPT !.operands = us \o SubSeq(@, n + 1, Len(@))]
  <2>1. B - r - t0 = d /\ B - r - t = l + d - n
    <3>1. B - r - t0 = d BY <1>3
    <3>2. t = t0 + n - l /\ B = t0 + d + r /\ t \in Int /\ t0 \in Int /\ B \in Int BY <1>3, <1>4
    <3>3. l \in Int /\ d \in Int /\ n \in Int /\ r \in Int BY <1>3
    <3>4. B - r - t = l + d - n BY <3>2, <3>3
    <3> QED BY <3>1, <3>4
  <2>2. Current.operands = o /\ Current'.operands = p
    BY <1>2, <1>9, <1>10, <2>1 DEF RecordAt
  <2>3. /\ Current'.args = Current.args /\ Current'.closure = Current.closure
        /\ Current'.locals = Current.locals /\ Current'.ra = Current.ra
    BY <1>2, <1>8, <1>9 DEF RecordAt
  <2>4. /\ Current = [args |-> Current.args, closure |-> Current.closure, locals |-> Current.locals,
                      operands |-> Current.operands, ra |-> Current.ra]
        /\ Current' = [args |-> Current'.args, closure |-> Current'.closure, locals |-> Current'.locals,
                       operands |-> Current'.operands, ra |-> Current'.ra]
    BY DEF Current, RecordAt
  <2> QED BY <1>11, <2>2, <2>3, <2>4
<1>13. Interpret!GlobalValues' = Interpret!GlobalValues
  <2>1. \A j \in Interpret!Words : s < j => hi < j BY <1>3, <1>4
  <2> QED BY <1>2, <1>5, <2>1, GlobalsSame
<1>14. UNCHANGED <<program, status>> BY <1>1 DEF vars, code, Onward, Ready
<1>15. Interpret!Records!Becomes([Interpret!Frames[1] EXCEPT !.operands = us \o SubSeq(@, n + 1, Len(@))])
  BY <1>7, <1>12
<1> QED BY <1>2, <1>13, <1>14, <1>15, RecordNames DEF Interpret!Records!Leave

\* What ExecOn leaves of the memory m.
LEMMA ExecFacts ==
  ASSUME Onward, NEW S, NEW m \in [Interpret!Words -> S], NEW temp, NEW n \in Nat,
         n <= Needs(program[ip]), NEW ws \in Seq(S), Interpret!ExecOn(m, temp, n, ws)
  PROVE  /\ top' = top + n - Len(ws) /\ ip' = ip + 1 /\ UNCHANGED <<fp, arg_sizes>>
         /\ \A k \in 1..Len(ws) : Interpret!Peek(k)' = ws[Len(ws) - k + 1]
         /\ \A j \in Interpret!Words : top + n < j => memory'[j] = m[j]
<1>1. /\ fp \in Int /\ top \in Int /\ -1 <= top /\ fp + 3 <= Interpret!START
      /\ Needs(program[ip]) \in Nat /\ Reserved(ip) \in Nat /\ Operands(ip, fp, top) \in Nat
      /\ top + Operands(ip, fp, top) + Reserved(ip) = fp
      /\ Needs(program[ip]) <= Operands(ip, fp, top)
  BY ReadyFacts DEF Onward
<1>2. PICK t0, t, l, f : t0 = top /\ t = top + n /\ l = Len(ws) /\ f = top' OBVIOUS
<1>3. t \in Int /\ t < STACK /\ l \in Nat /\ STACK \in Nat /\ Interpret!Words = 0..(STACK - 1)
  <2>1. PICK d, c, r, s : /\ d = Operands(ip, fp, top) /\ c = Needs(program[ip])
                          /\ r = Reserved(ip) /\ s = Interpret!START
    OBVIOUS
  <2>2. d \in Nat /\ r \in Nat /\ s \in Nat /\ s < STACK /\ t0 + d + r = fp /\ n <= d /\ fp + 3 <= s
        /\ fp \in Int /\ t0 \in Int /\ STACK \in Nat
    BY <1>1, <1>2, <2>1, StartFacts
  <2>3. t = t0 + n BY <1>2
  <2>4. t \in Int /\ t < STACK BY <2>2, <2>3
  <2> QED BY <1>2, <2>4, StartFacts
<1>4. /\ Interpret!Fits(t, l) /\ memory' = Interpret!Written(m, t, ws) /\ f = t - l
      /\ ip' = ip + 1 /\ UNCHANGED <<fp, arg_sizes>>
  <2>1. Interpret!Fits(top + n, l)
    <3> SUFFICES ASSUME ~Interpret!Fits(top + n, l) PROVE FALSE OBVIOUS
    <3>1. Interpret!Stop("outside") BY <1>2 DEF Interpret!ExecOn
    <3> QED BY <3>1 DEF Interpret!Stop, Onward
  <2>2. Interpret!Fits(top, temp)
    <3> SUFFICES ASSUME ~Interpret!Fits(top, temp) PROVE FALSE OBVIOUS
    <3>1. Interpret!Stop("outside") BY DEF Interpret!ExecOn
    <3> QED BY <3>1 DEF Interpret!Stop, Onward
  <2>3. /\ memory' = Interpret!Written(m, top + n, ws) /\ top' = top + n - Len(ws)
        /\ ip' = ip + 1 /\ UNCHANGED <<fp, arg_sizes>>
    BY <1>2, <2>1, <2>2 DEF Interpret!ExecOn, Interpret!frame
  <2>4. Interpret!Fits(t, l) /\ memory' = Interpret!Written(m, t, ws) BY <1>2, <2>1, <2>3
  <2>5. f = t - l BY <1>1, <1>2, <1>3, <2>3
  <2> QED BY <2>3, <2>4, <2>5
<1>5. t - l + 1 >= 0 BY <1>4 DEF Interpret!Fits
<1>6. /\ \A j \in Interpret!Words : t < j => memory'[j] = m[j]
      /\ \A k \in 1..l : t - k + 1 \in Interpret!Words => memory'[t - k + 1] = ws[k]
  <2>1. PICK w : w = Interpret!Written(m, t, ws) OBVIOUS
  <2>2. /\ \A j \in Interpret!Words : t < j => w[j] = m[j]
        /\ \A k \in 1..Len(ws) : t - k + 1 \in Interpret!Words => w[t - k + 1] = ws[k]
    BY <1>3, <2>1, WrittenFacts
  <2> QED BY <1>2, <1>4, <2>1, <2>2
<1>7. ASSUME NEW k \in 1..l PROVE Interpret!Peek(k)' = ws[l - k + 1]
  <2>1. PICK h, j : h = l - k + 1 /\ j = f + k OBVIOUS
  <2>2. h \in 1..l /\ t - h + 1 = j /\ j \in Interpret!Words BY <1>3, <1>4, <1>5, <2>1
  <2>3. memory'[j] = ws[h] BY <1>6, <2>2
  <2>4. Interpret!Peek(k)' = memory'[j]
    BY <1>2, <2>1, <2>2 DEF Interpret!Peek, Interpret!Read, Interpret!Words
  <2> QED BY <2>1, <2>3, <2>4
<1>8. \A k \in 1..Len(ws) : Interpret!Peek(k)' = ws[Len(ws) - k + 1] BY <1>2, <1>7
<1>9. \A j \in Interpret!Words : top + n < j => memory'[j] = m[j] BY <1>2, <1>6
<1>10. top' = top + n - Len(ws) BY <1>1, <1>2, <1>3, <1>4
<1> QED BY <1>4, <1>8, <1>9, <1>10

\* The code goes on after the instruction, with the same locals.
LEMMA OnwardPlain ==
  ASSUME Onward, program[ip].op \in Plain
  PROVE  Reserved(ip + 1) = Reserved(ip)
<1>1. Accepted /\ ip \in Offsets BY ReadyFacts DEF Onward, Ready
<1>2. FollowedBy(ip, ip + 1) /\ program[ip].op \notin Begins BY PlainOps DEF FollowedBy
<1> QED BY <1>1, <1>2, SameFunction

\* A handler that leaves one word in the place of the operands.
LEMMA OneWordLeaves ==
  ASSUME Onward, program[ip].op \in Plain, NEW S, Sound \subseteq S, NEW m \in [Interpret!Words -> S],
         Untaken(m), NEW temp, NEW w \in S, NEW n, n = Needs(program[ip]),
         Interpret!ExecOn(m, temp, n, <<w>>)
  PROVE  /\ Interpret!Records!Leave(<<w>>, ip + 1)
         /\ Interpret!GlobalValues' = Interpret!GlobalValues
<1>1. n \in Nat /\ n <= Needs(program[ip]) BY ReadyFacts DEF Onward
<1>2. PICK us, i : us = <<w>> /\ i = ip + 1 OBVIOUS
<1>3. us \in Seq(S) /\ Len(us) = 1 /\ us[1] = w BY <1>2
<1>4. Interpret!ExecOn(m, temp, n, us) BY <1>2
<1>5. /\ top' = top + n - Len(us) /\ ip' = i /\ UNCHANGED <<fp, arg_sizes>>
      /\ \A k \in 1..Len(us) : Interpret!Peek(k)' = us[Len(us) - k + 1]
      /\ \A j \in Interpret!Words : top + n < j => memory'[j] = m[j]
  BY <1>1, <1>2, <1>3, <1>4, ExecFacts
<1>6. Left(us)
  <2>1. \A k \in 1..Len(us) : Len(us) - k + 1 = k BY <1>3
  <2> QED BY <1>5, <2>1 DEF Left
<1>7. Untaken(memory') BY <1>5 DEF Untaken
<1>8. Reserved(i) = Reserved(ip) BY <1>2, OnwardPlain
<1> QED BY <1>2, <1>3, <1>5, <1>6, <1>7, <1>8, Leaves

-----------------------------------------------------------------------------
(* The operands and variables of the running call *)

LEMMA RunningRecord ==
  ASSUME Ready
  PROVE  /\ Interpret!Frames[1] = Current /\ Interpret!Records!Operands = Current.operands
         /\ Interpret!Frames = [k \in 1..Len(arg_sizes) |-> Interpret!Frames[k]]
<1>1. PICK b, at, free : Chain(b, at, free) BY DEF Ready, ChainInv
<1>2. Accepted /\ ArgSizesOK BY DEF Ready, ChainInv, ArgSizesOK
<1>3. Interpret!Frames[1] = Current BY <1>1, <1>2, FramesAre DEF FramesFollow
<1>4. Interpret!Frames = [k \in 1..Len(arg_sizes) |-> Interpret!Frames[k]]
  BY DEF Interpret!Frames, Interpret!Depth
<1> QED BY <1>3, <1>4 DEF Interpret!Records!Operands

LEMMA OperandsArePeeks ==
  ASSUME Ready
  PROVE  /\ Interpret!Records!Operands = [k \in 1..Operands(ip, fp, top) |-> Interpret!Peek(k)]
         /\ \A k \in 1..Needs(program[ip]) : Interpret!Records!Operands[k] = Interpret!Peek(k)
<1>1. /\ top \in Int /\ fp \in Int /\ Reserved(ip) \in Nat /\ Operands(ip, fp, top) \in Nat
      /\ Needs(program[ip]) \in Nat /\ Needs(program[ip]) <= Operands(ip, fp, top)
  BY ReadyFacts
<1>2. PICK d, n : d = Operands(ip, fp, top) /\ n = Needs(program[ip]) OBVIOUS
<1>3. fp - Reserved(ip) - top = d
  <2>1. PICK r : r = Reserved(ip) OBVIOUS
  <2>2. d = fp - top - r BY <1>2, <2>1 DEF Operands
  <2> QED BY <1>1, <2>1, <2>2
<1>4. Current.operands = OperandsAt(top, d) BY <1>3 DEF Current, RecordAt
<1>5. Interpret!Records!Operands = [k \in 1..d |-> Interpret!Peek(k)]
  BY <1>4, RunningRecord DEF OperandsAt, Interpret!Peek
<1>6. \A k \in 1..n : k \in 1..d BY <1>1, <1>2
<1> QED BY <1>2, <1>5, <1>6

\* A variable the running function names lies where its record has it.
LEMMA VariableIs ==
  ASSUME Ready, Scoped(program), program[ip].op \in Variables \cup {"CLOSURE"},
         NEW low, NEW k \in Nat, [mem_var |-> low, value |-> k] \in Named(program[ip])
  PROVE  /\ low = "Global" => /\ k \in 0..(global_area_size - 1)
                              /\ Interpret!Value(low, k) = Interpret!GlobalValues[k]
         /\ low = "Local" => /\ k + 1 \in 1..Reserved(ip)
                             /\ Interpret!Value(low, k) = Current.locals[k + 1]
         /\ low = "Argument" => /\ k + 1 \in 1..arg_sizes[1]
                                /\ Interpret!Value(low, k) = Current.args[k + 1]
         /\ low = "Closure" => Current.closure = Interpret!Running
         /\ low \in Designations => Interpret!Records!Variable(low, k) = Interpret!Value(low, k)
<1>1. /\ Accepted /\ ArgSizesOK /\ ip \in Offsets /\ fp \in Int /\ Exist(ip) /\ Reserved(ip) \in Nat
  BY ReadyFacts DEF Ready
<1>2. PICK b, at, free : Chain(b, at, free) BY DEF Ready, ChainInv
<1>3. PICK a, r : a = arg_sizes[1] /\ r = Reserved(ip) OBVIOUS
<1>4. a \in Nat /\ r \in Nat BY <1>1, <1>3, FirstSize
<1>5. program[ip].op \notin Begins BY DEF Begins, Variables
<1>6. /\ low = "Global" => k < global_area_size
      /\ low = "Local" => k < program[BeginOf(program, ip)].b
      /\ low = "Argument" => k < Declared(ip)
  BY <1>1 DEF Exist, Declared
<1>7. /\ low = "Closure" => program[BeginOf(program, ip)].op = "CBEGIN"
      /\ low = "Argument" => BeginOf(program, ip) # MAIN
  BY <1>1 DEF Scoped, Offsets
<1>8. CASE low = "Global"
  <2>1. k \in 0..(global_area_size - 1) BY <1>6, <1>8, VerifierAssumption
  <2>2. Interpret!GlobalValues[k] = Interpret!Read(Interpret!GlobalAt(k))
    BY <2>1 DEF Interpret!GlobalValues
  <2>3. Interpret!Value(low, k) = Interpret!Read(Interpret!GlobalAt(k))
    BY <1>8 DEF Interpret!Value, Interpret!Place
  <2> QED BY <1>8, <2>1, <2>2, <2>3 DEF Interpret!Records!Variable
<1>9. CASE low = "Local"
  <2>1. k + 1 \in 1..r BY <1>3, <1>4, <1>5, <1>6, <1>9 DEF Reserved
  <2>2. Current.locals[k + 1] = Interpret!Read(fp - (k + 1) + 1)
    BY <1>3, <2>1 DEF Current, RecordAt, LocalsAt
  <2>3. fp - (k + 1) + 1 = fp - k BY <1>1
  <2>4. Interpret!Value(low, k) = Interpret!Read(fp - k)
    BY <1>9 DEF Interpret!Value, Interpret!Place
  <2>5. Interpret!Value(low, k) = Current.locals[k + 1] BY <2>2, <2>3, <2>4
  <2> QED BY <1>3, <1>9, <2>1, <2>5, RunningRecord DEF Interpret!Records!Variable
<1>10. CASE low = "Argument"
  <2>1. Len(arg_sizes) # 1
    <3> SUFFICES ASSUME Len(arg_sizes) = 1 PROVE FALSE OBVIOUS
    <3>1. BeginOf(program, at[Len(arg_sizes)]) = MAIN /\ at[1] = ip BY <1>2 DEF Chain
    <3> QED BY <1>7, <1>10, <3>1
  <2>2. Declared(ip) <= a BY <1>1, <1>3, <2>1 DEF Ready, InOrder, Accepted, Declared
  <2>3. k + 1 \in 1..a
    <3>1. PICK d : d = Declared(ip) OBVIOUS
    <3>2. d \in Nat /\ k < d /\ d <= a BY <1>1, <1>6, <1>10, <2>2, <3>1, InFunction DEF Declared
    <3> QED BY <1>4, <3>2
  <2>4. Current.args[k + 1] = Interpret!Read(fp + 3 + (k + 1))
    BY <1>3, <2>3 DEF Current, RecordAt, ArgsAt
  <2>5. fp + 3 + (k + 1) = fp + 4 + k BY <1>1
  <2>6. Interpret!Value(low, k) = Interpret!Read(fp + 4 + k)
    BY <1>10 DEF Interpret!Value, Interpret!Place
  <2>7. Interpret!Value(low, k) = Current.args[k + 1] BY <2>4, <2>5, <2>6
  <2> QED BY <1>3, <1>10, <2>3, <2>7, RunningRecord DEF Interpret!Records!Variable
<1>11. CASE low = "Closure"
  <2>1. 1 \in 1..Len(arg_sizes) BY <1>1 DEF ArgSizesOK
  <2>2. Called(at[1], b[1], arg_sizes[1]) /\ at[1] = ip /\ b[1] = fp BY <1>2, <2>1 DEF Chain
  <2>3. Called(ip, fp, a) BY <1>3, <2>2
  <2>4. memory[fp + 1] = At(fp + 4 + a) BY <1>7, <1>11, <2>3 DEF Called
  <2>5. fp + 1 \in Interpret!Words BY <1>1, <1>2, <2>1, <2>2, FrameFacts
  <2>6. Interpret!Read(fp + 1)[2] = fp + 3 + a + 1 BY <1>1, <1>4, <2>4, <2>5 DEF Interpret!Read, At
  <2>7. Current.closure = Interpret!Running
    BY <1>3, <2>6 DEF Current, RecordAt, ClosureAt, Interpret!Running
  <2>8. Interpret!Records!Variable(low, k) = closures[Interpret!Running[2]].captured[k + 1]
    BY <1>11, <2>7, RunningRecord DEF Interpret!Records!Variable, Interpret!Records!Captured
  <2> QED BY <1>11, <2>7, <2>8 DEF Interpret!Value, Interpret!Captured
<1> QED BY <1>3, <1>8, <1>9, <1>10, <1>11 DEF Designations

-----------------------------------------------------------------------------
(* Steps that stop *)

\* A handler stops, or leaves the status as it is.
LEMMA ExecStops ==
  ASSUME status = "running", status' # "running", NEW m, NEW temp, NEW n, NEW ws,
         Interpret!ExecOn(m, temp, n, ws)
  PROVE  Interpret!Stop("outside")
BY DEF Interpret!ExecOn

Stopping == \/ \E how \in {"error", "outside", "undefined"} : Interpret!Stop(how) /\ UNCHANGED closures
            \/ Interpret!EndFunction /\ Interpret!Read(fp + 3) = Interpret!Null /\ Interpret!Stop("finished")

LEMMA StepStops ==
  ASSUME Interpret!Step, status = "running", status' # "running"
  PROVE  Stopping
<1>1. ASSUME NEW how \in {"error", "outside", "undefined"}, Interpret!Stop(how) PROVE Stopping
  BY <1>1 DEF Stopping, Interpret!Stop
<1>2. ASSUME NEW m, NEW temp, NEW n, NEW ws, Interpret!ExecOn(m, temp, n, ws) PROVE Stopping
  <2>1. Interpret!Stop("outside") BY <1>2, ExecStops
  <2> QED BY <1>1, <2>1
<1>3. ASSUME NEW n, NEW ws, Interpret!Exec(n, ws) PROVE Stopping
  BY <1>2, <1>3 DEF Interpret!Exec
<1>4. CASE Interpret!Fetch BY <1>1, <1>4 DEF Interpret!Fetch
<1>5. CASE Interpret!Const BY <1>3, <1>5 DEF Interpret!Const
<1>6. CASE Interpret!Str BY <1>3, <1>6 DEF Interpret!Str
<1>7. CASE Interpret!ReadInt BY <1>3, <1>7 DEF Interpret!ReadInt
<1>8. CASE Interpret!Dup BY <1>3, <1>8 DEF Interpret!Dup
<1>9. CASE Interpret!Drop BY <1>3, <1>9 DEF Interpret!Drop
<1>10. CASE Interpret!Swap BY <1>3, <1>10 DEF Interpret!Swap
<1>11. CASE Interpret!Keep BY <1>3, <1>11 DEF Interpret!Keep
<1>12. CASE Interpret!Fail BY <1>1, <1>12 DEF Interpret!Fail
<1>13. CASE Interpret!Binop BY <1>1, <1>3, <1>13 DEF Interpret!Binop
<1>14. CASE Interpret!Test BY <1>3, <1>14 DEF Interpret!Test
<1>15. CASE Interpret!Length BY <1>1, <1>3, <1>15 DEF Interpret!Length
<1>16. CASE Interpret!ToString BY <1>3, <1>16 DEF Interpret!ToString
<1>17. CASE Interpret!Elem BY <1>1, <1>3, <1>17 DEF Interpret!Elem
<1>18. CASE Interpret!Array BY <1>2, <1>18 DEF Interpret!Array
<1>19. CASE Interpret!Sexp BY <1>2, <1>19 DEF Interpret!Sexp
<1>20. CASE Interpret!Jump BY <1>20 DEF Interpret!Jump
<1>21. CASE Interpret!CondJump BY <1>21 DEF Interpret!CondJump
<1>22. CASE Interpret!Load BY <1>1, <1>3, <1>22 DEF Interpret!Load
<1>23. CASE Interpret!LoadLink BY <1>1, <1>3, <1>23 DEF Interpret!LoadLink
<1>24. CASE Interpret!Store BY <1>1, <1>24 DEF Interpret!Store
<1>25. ASSUME Interpret!StoreThrough PROVE Stopping
  BY <1>1, <1>2, <1>3, <1>25 DEF Interpret!StoreThrough
<1>26. CASE Interpret!StoreElem BY <1>1, <1>3, <1>25, <1>26 DEF Interpret!StoreElem
<1>27. CASE Interpret!StoreIndirect BY <1>1, <1>25, <1>27 DEF Interpret!StoreIndirect
<1>28. CASE Interpret!MakeClosure
  <2>1. \/ Interpret!Stop("error") \/ Interpret!Stop("undefined")
        \/ \E m, temp, n, ws : Interpret!ExecOn(m, temp, n, ws)
    BY <1>28 DEF Interpret!MakeClosure
  <2> QED BY <1>1, <1>2, <2>1
<1>29. ASSUME NEW n, NEW c, NEW t, Interpret!Enter(n, c, t) PROVE Stopping
  BY <1>1, <1>29 DEF Interpret!Enter
<1>30. CASE Interpret!Call BY <1>29, <1>30 DEF Interpret!Call
<1>31. CASE Interpret!CallClosure BY <1>1, <1>29, <1>31 DEF Interpret!CallClosure
<1>32. CASE Interpret!BeginFunction BY <1>1, <1>32 DEF Interpret!BeginFunction
<1>33. CASE Interpret!EndFunction BY <1>1, <1>33 DEF Interpret!EndFunction, Stopping
<1> QED
  BY <1>4, <1>5, <1>6, <1>7, <1>8, <1>9, <1>10, <1>11, <1>12, <1>13, <1>14, <1>15, <1>16, <1>17, <1>18,
     <1>19, <1>20, <1>21, <1>22, <1>23, <1>24, <1>26, <1>27, <1>28, <1>30, <1>31, <1>32, <1>33
     DEF Interpret!Step

\* The return address is missing from main's frame only.
LEMMA MainReturns ==
  ASSUME Ready, Interpret!Read(fp + 3) = Null
  PROVE  Len(arg_sizes) = 1
<1>1. PICK b, at, free : Chain(b, at, free) BY DEF Ready, ChainInv
<1>2. Accepted /\ ArgSizesOK BY DEF Ready, ChainInv, ArgSizesOK
<1>3. PICK n : n = Len(arg_sizes) OBVIOUS
<1>4. n \in Nat \ {0} /\ 1 \in 1..n BY <1>2, <1>3 DEF ArgSizesOK
<1> SUFFICES ASSUME n # 1 PROVE FALSE BY <1>3
<1>5. 2 \in 2..n /\ 2 - 1 = 1 BY <1>4
<1>6. Stands(b[1], arg_sizes[1], at[2], b[2], free[2]) /\ b[1] = fp BY <1>1, <1>3, <1>5 DEF Chain
<1>7. memory[fp + 3] = Code(at[2]) /\ fp + 3 \in Interpret!Words
  BY <1>1, <1>2, <1>3, <1>4, <1>6, FrameFacts DEF Stands
<1> QED BY <1>7 DEF Interpret!Read, Code, Null

LEMMA StopMaps ==
  ASSUME Ready, Stopping
  PROVE  Interpret!Records!Next
<1>1. /\ UNCHANGED <<program, memory, ip, top, fp, arg_sizes, closures>>
  BY DEF Stopping, Interpret!Stop, Interpret!frame, Ready, vars, code
<1>2. Interpret!Frames' = Interpret!Frames /\ Interpret!GlobalValues' = Interpret!GlobalValues
  BY <1>1, RecordsSame
<1>3. CASE \E how \in {"error", "outside", "undefined"} : Interpret!Stop(how)
  <2>1. Interpret!Records!Fault BY <1>1, <1>2, <1>3 DEF Interpret!Records!Fault, Interpret!Stop
  <2> QED BY <2>1 DEF Interpret!Records!Next, Ready
<1>4. CASE /\ Interpret!EndFunction /\ Interpret!Read(fp + 3) = Interpret!Null
           /\ Interpret!Stop("finished")
  <2>1. program[ip].op = "END" /\ status' = "finished"
    BY <1>4, WordNames DEF Interpret!EndFunction, Interpret!Handles, Interpret!Stop
  <2>2. Len(arg_sizes) = 1 BY <1>4, WordNames, MainReturns
  <2>3. Len(Interpret!Frames) = 1
    <3>1. PICK g : g = Interpret!Frames OBVIOUS
    <3>2. Listed(g, 1) BY <2>2, <3>1, RunningRecord DEF Listed
    <3>3. Len(g) = 1 BY <3>2 DEF Listed
    <3> QED BY <3>1, <3>3
  <2>4. Interpret!Records!End
    BY <1>1, <1>2, <2>1, <2>3, RecordNames DEF Interpret!Records!End
  <2> QED BY <2>4 DEF Interpret!Records!Next, Ready
<1> QED BY <1>3, <1>4 DEF Stopping

-----------------------------------------------------------------------------
(* Steps of the running call *)

Computing == {"CONST", "STRING", "CALL_ARRAY", "SEXP", "CALL_READ", "CALL_LENGTH", "BINOP", "ELEM",
              "TAG", "ARRAY", "PATT", "LD", "LDA", "STA"}

\* A handler that replaces the operands by a word.
LEMMA Computes ==
  ASSUME Onward, program[ip].op \in Computing, NEW m \in [Interpret!Words -> Sound], Untaken(m),
         NEW temp, NEW w \in Sound, w \in Interpret!Records!Results, UNCHANGED closures,
         program[ip].op = "STA" => IsInt(Interpret!Peek(2)),
         NEW n, n = Needs(program[ip]), Interpret!ExecOn(m, temp, n, <<w>>)
  PROVE  Interpret!Records!Next
<1>1. program[ip].op \in Plain BY DEF Computing, Plain
<1>2. Interpret!Records!Leave(<<w>>, ip + 1) BY <1>1, OneWordLeaves
<1>3. program[ip].op = "STA" => IsInt(Interpret!Records!Operands[2])
  <2> SUFFICES ASSUME program[ip].op = "STA" PROVE IsInt(Interpret!Records!Operands[2]) OBVIOUS
  <2>1. Needs(program[ip]) = 3 BY ReadyFacts, EffectOf DEF Onward
  <2>2. 2 \in 1..Needs(program[ip]) BY <2>1
  <2>3. Interpret!Records!Operands[2] = Interpret!Peek(2) BY <2>2, OperandsArePeeks DEF Onward
  <2> QED BY <2>3
<1>4. Interpret!Records!Compute
  BY <1>2, <1>3, RecordNames DEF Interpret!Records!Compute, Computing
<1> QED BY <1>4 DEF Interpret!Records!Next, Onward, Ready

\* The same, on the memory as it is.
LEMMA ExecComputes ==
  ASSUME Onward, program[ip].op \in Computing, NEW w \in Sound, w \in Interpret!Records!Results,
         program[ip].op = "STA" => IsInt(Interpret!Peek(2)),
         NEW n, n = Needs(program[ip]), Interpret!Exec(n, <<w>>)
  PROVE  Interpret!Records!Next
<1>1. Untaken(memory) /\ memory \in [Interpret!Words -> Sound]
  BY DEF Untaken, Onward, Ready, WordsInv
<1>2. Interpret!ExecOn(memory, 0, n, <<w>>) /\ UNCHANGED closures BY DEF Interpret!Exec
<1> QED BY <1>1, <1>2, Computes

LEMMA ResultsAre ==
  /\ program[ip].op = "CONST" => Interpret!Records!Results = {Integer(program[ip].a)}
  /\ program[ip].op \in {"STRING", "CALL_ARRAY", "SEXP"} => Interpret!Records!Results = {Box}
  /\ program[ip].op \in {"CALL_READ", "CALL_LENGTH", "BINOP"} =>
       Interpret!Records!Results = {Integer(n) : n \in Ints}
  /\ program[ip].op = "ELEM" => Interpret!Records!Results = {Integer(n) : n \in Ints} \cup {Box}
  /\ program[ip].op \in {"TAG", "ARRAY", "PATT"} => Interpret!Records!Results = Bools
  /\ program[ip].op = "LD" =>
       Interpret!Records!Results = {Interpret!Records!Variable(program[ip].low, program[ip].a)}
  /\ program[ip].op = "LDA" =>
       Interpret!Records!Results =
         IF program[ip].low = "Closure" THEN {Interpret!Records!Captured[program[ip].a + 1]}
                                        ELSE {At(j) : j \in Interpret!Words}
  /\ program[ip].op = "STA" => Interpret!Records!Results = {Interpret!Records!Operands[1]}
BY RecordNames, WordNames DEF Interpret!Records!Results

\* Constants, strings, input and variables are pushed.
LEMMA PushMaps ==
  ASSUME Onward, Interpret!Const \/ Interpret!Str \/ Interpret!ReadInt \/ Interpret!Load
  PROVE  Interpret!Records!Next
<1>1. ip \in Offsets /\ program[ip] \in Instruction /\ WordsInv
  BY ReadyFacts DEF Onward, Ready
<1>2. ASSUME NEW w \in Sound, Interpret!Exec(0, <<w>>), w \in Interpret!Records!Results,
             program[ip].op \in {"CONST", "STRING", "CALL_READ", "LD"}
      PROVE  Interpret!Records!Next
  <2>1. 0 = Needs(program[ip]) BY <1>1, <1>2, EffectOf
  <2>2. program[ip].op \in Computing /\ program[ip].op # "STA" BY <1>2 DEF Computing
  <2> QED BY <1>2, <2>1, <2>2, ExecComputes
<1>3. CASE Interpret!Const
  <2>1. program[ip].op = "CONST" /\ Interpret!Exec(0, <<Integer(program[ip].a)>>)
    BY <1>3, WordNames DEF Interpret!Const, Interpret!Handles
  <2>2. Integer(program[ip].a) \in Sound BY <1>1, EffectOf, SoundWords
  <2> QED BY <1>2, <2>1, <2>2, ResultsAre
<1>4. CASE Interpret!Str
  <2>1. program[ip].op = "STRING" /\ Interpret!Exec(0, <<Box>>)
    BY <1>4, WordNames DEF Interpret!Str, Interpret!Handles
  <2> QED BY <1>2, <2>1, ResultsAre, SoundWords
<1>5. CASE Interpret!ReadInt
  <2>1. /\ program[ip].op = "CALL_READ"
        /\ \E n \in Ints : Interpret!Exec(0, <<Integer(n)>>)
    BY <1>5, WordNames DEF Interpret!ReadInt, Interpret!Handles
  <2>2. \A n \in Ints : Integer(n) \in Sound BY SoundWords, VerifiedRunAssumption
  <2> QED BY <1>2, <2>1, <2>2, ResultsAre
<1>6. CASE Interpret!Load
  <2>1. program[ip].op = "LD" /\ program[ip].a \in Nat
    BY <1>1, <1>6, WordNames, EffectOf DEF Interpret!Load, Interpret!Handles
  <2>2. Interpret!Known(program[ip].low, program[ip].a)
    <3> SUFFICES ASSUME ~Interpret!Known(program[ip].low, program[ip].a) PROVE FALSE OBVIOUS
    <3>1. Interpret!Stop("undefined") BY <1>6, WordNames DEF Interpret!Load
    <3> QED BY <3>1 DEF Interpret!Stop, Onward
  <2>3. PICK v : v = Interpret!Value(program[ip].low, program[ip].a) OBVIOUS
  <2>4. Interpret!Exec(0, <<v>>) BY <1>6, <2>2, <2>3, WordNames DEF Interpret!Load
  <2>5. v \in Sound BY <1>1, <2>1, <2>2, <2>3, ValueSound
  <2>6. /\ program[ip].low \in Designations
        /\ [mem_var |-> program[ip].low, value |-> program[ip].a] \in Named(program[ip])
    BY <1>1, <2>1 DEF Onward, Ready, Accepted, Traceable, Designated, Offsets, Variables, Named
  <2>7. v = Interpret!Records!Variable(program[ip].low, program[ip].a)
    BY <2>1, <2>3, <2>6, VariableIs DEF Onward, Variables
  <2> QED BY <1>2, <2>1, <2>4, <2>5, <2>7, ResultsAre
<1> QED BY <1>3, <1>4, <1>5, <1>6

\* The variables of the running call and the globals are words of the stack.
LEMMA PlaceInside ==
  ASSUME Ready, Scoped(program), program[ip].op \in Variables, program[ip].low # "Closure",
         NEW j, j = Interpret!Place(program[ip].low, program[ip].a)
  PROVE  /\ j \in Interpret!Words /\ program[ip].low \in {"Global", "Local", "Argument"}
         /\ program[ip].low = "Global" => Interpret!START < j
         /\ program[ip].low = "Local" => fp - Reserved(ip) < j /\ j <= fp
         /\ program[ip].low = "Argument" => fp + 3 < j /\ j <= fp + 3 + arg_sizes[1]
<1>1. /\ Accepted /\ ArgSizesOK /\ ip \in Offsets /\ program[ip] \in Instruction /\ fp \in Int /\ top \in Int
      /\ -1 <= top /\ fp + 3 <= Interpret!START
      /\ Reserved(ip) \in Nat /\ Operands(ip, fp, top) \in Nat
      /\ top + Operands(ip, fp, top) + Reserved(ip) = fp
  BY ReadyFacts DEF Ready
<1>2. PICK k, low, a, r, d, s : /\ k = program[ip].a /\ low = program[ip].low /\ a = arg_sizes[1]
                                /\ r = Reserved(ip) /\ d = Operands(ip, fp, top) /\ s = Interpret!START
  OBVIOUS
<1>3. /\ k \in Nat /\ a \in Nat /\ r \in Nat /\ d \in Nat /\ s \in Nat /\ s < STACK /\ STACK \in Nat
      /\ top + d + r = fp /\ Interpret!Words = 0..(STACK - 1) /\ fp + 3 <= s
  BY <1>1, <1>2, StartFacts, FirstSize, EffectOf
<1>4. low \in {"Global", "Local", "Argument"} BY <1>2, PlaceType
<1>5. [mem_var |-> low, value |-> k] \in Named(program[ip]) BY <1>2 DEF Named, Variables
<1>6. /\ low = "Global" => k \in 0..(global_area_size - 1)
      /\ low = "Local" => k + 1 \in 1..r
      /\ low = "Argument" => k + 1 \in 1..a
  BY <1>2, <1>3, <1>5, VariableIs
<1>7. CASE low = "Global"
  <2>1. j = Interpret!GlobalAt(k) BY <1>2, <1>7 DEF Interpret!Place
  <2> QED BY <1>2, <1>6, <1>7, <2>1, GlobalsAbove
<1>8. CASE low = "Local"
  <2>1. j = fp - k BY <1>2, <1>8 DEF Interpret!Place
  <2>2. PICK B, t : B = fp /\ t = top OBVIOUS
  <2>3. B \in Int /\ t \in Int /\ -1 <= t /\ t + d + r = B /\ B + 3 <= s /\ k < r /\ j = B - k
    BY <1>1, <1>3, <1>6, <1>8, <2>1, <2>2
  <2>4. j \in Int /\ B - r < j /\ j <= B BY <1>3, <2>3
  <2>5. 0 <= j /\ j < STACK BY <1>3, <2>3
  <2>6. j \in Interpret!Words BY <1>3, <2>4, <2>5
  <2> QED BY <1>2, <1>8, <2>2, <2>4, <2>6
<1>9. CASE low = "Argument"
  <2>1. j = fp + 4 + k BY <1>2, <1>9 DEF Interpret!Place
  <2>2. PICK b, at, free : Chain(b, at, free) BY DEF Ready, ChainInv
  <2>3. 1 \in 1..Len(arg_sizes) /\ b[1] = fp BY <1>1, <2>2 DEF ArgSizesOK, Chain
  <2>4. fp + 3 + a <= s BY <1>1, <1>2, <2>2, <2>3, Extent
  <2>5. fp + 3 < j /\ j <= fp + 3 + a BY <1>1, <1>3, <1>6, <1>9, <2>1
  <2>6. j \in Interpret!Words BY <1>1, <1>3, <1>6, <1>9, <2>1, <2>4
  <2> QED BY <1>2, <1>9, <2>5, <2>6
<1> QED BY <1>4, <1>7, <1>8, <1>9

LEMMA LinkMaps ==
  ASSUME Onward, Interpret!LoadLink
  PROVE  Interpret!Records!Next
<1>1. ip \in Offsets /\ program[ip] \in Instruction /\ WordsInv BY ReadyFacts DEF Onward, Ready
<1>2. /\ program[ip].op = "LDA" /\ program[ip].a \in Nat
      /\ 0 = Needs(program[ip]) /\ program[ip].op \in Computing
  BY <1>1, WordNames, EffectOf DEF Interpret!LoadLink, Interpret!Handles, Computing
<1>3. Interpret!Known(program[ip].low, program[ip].a)
  <2> SUFFICES ASSUME ~Interpret!Known(program[ip].low, program[ip].a) PROVE FALSE OBVIOUS
  <2>1. Interpret!Stop("undefined") BY WordNames DEF Interpret!LoadLink
  <2> QED BY <2>1 DEF Interpret!Stop, Onward
<1>4. PICK w : w = IF program[ip].low = "Closure" THEN Interpret!Captured(program[ip].a)
                   ELSE Interpret!At(Interpret!Place(program[ip].low, program[ip].a))
  OBVIOUS
<1>5. Interpret!Exec(0, <<w>>) BY <1>3, <1>4, WordNames DEF Interpret!LoadLink
<1>6. CASE program[ip].low = "Closure"
  <2>1. w \in Sound BY <1>1, <1>2, <1>3, <1>4, <1>6, CapturedSound DEF Interpret!Known
  <2>2. [mem_var |-> program[ip].low, value |-> program[ip].a] \in Named(program[ip])
    BY <1>2 DEF Named
  <2>3. Current.closure = Interpret!Running
    BY <1>2, <1>6, <2>2, VariableIs DEF Onward, Variables
  <2>4. w = Interpret!Records!Captured[program[ip].a + 1]
    BY <1>4, <1>6, <2>3, RunningRecord DEF Onward, Interpret!Records!Captured, Interpret!Captured
  <2>5. w \in Interpret!Records!Results BY <1>2, <1>6, <2>4, ResultsAre
  <2> QED BY <1>2, <1>5, <2>1, <2>5, ExecComputes
<1>7. CASE program[ip].low # "Closure"
  <2>1. PICK j : j = Interpret!Place(program[ip].low, program[ip].a) OBVIOUS
  <2>2. j \in Interpret!Words BY <1>2, <1>7, <2>1, PlaceInside DEF Onward, Variables
  <2>3. w = At(j) BY <1>4, <1>7, <2>1, WordNames
  <2>4. w \in Sound BY <2>2, <2>3, SoundWords, StartFacts
  <2>5. w \in Interpret!Records!Results BY <1>2, <1>7, <2>2, <2>3, ResultsAre
  <2> QED BY <1>2, <1>5, <2>4, <2>5, ExecComputes
<1> QED BY <1>6, <1>7

\* Operators, tests and elements replace their operands by the result.
LEMMA OperatorMaps ==
  ASSUME Onward, \/ Interpret!Binop \/ Interpret!Test \/ Interpret!Length \/ Interpret!Elem
                 \/ Interpret!StoreElem
  PROVE  Interpret!Records!Next
<1>1. ip \in Offsets /\ program[ip] \in Instruction /\ WordsInv /\ InOrder /\ Accepted
  BY ReadyFacts DEF Onward, Ready
<1>2. \A how : ~(how # "running" /\ Interpret!Stop(how)) BY DEF Interpret!Stop, Onward
<1>3. ASSUME NEW w \in Sound, Interpret!Exec(Needs(program[ip]), <<w>>), w \in Interpret!Records!Results,
             program[ip].op \in {"BINOP", "TAG", "ARRAY", "PATT", "CALL_LENGTH", "ELEM"}
      PROVE  Interpret!Records!Next
  <2>1. program[ip].op \in Computing /\ program[ip].op # "STA" BY <1>3 DEF Computing
  <2> QED BY <1>3, <2>1, ExecComputes
<1>4. \A n \in Ints : Integer(n) \in Sound BY SoundWords, VerifiedRunAssumption
<1>5. CASE Interpret!Binop
  <2>1. program[ip].op = "BINOP" /\ \E n \in Ints : Interpret!Exec(2, <<Integer(n)>>)
    BY <1>2, <1>5, WordNames DEF Interpret!Binop, Interpret!Handles
  <2>2. Needs(program[ip]) = 2 BY <1>1, <2>1, EffectOf
  <2> QED BY <1>3, <1>4, <2>1, <2>2, ResultsAre
<1>6. CASE Interpret!Test
  <2>1. /\ program[ip].op \in {"TAG", "ARRAY", "PATT"}
        /\ \E w \in Bools : Interpret!Exec(Needs(program[ip]), <<w>>)
    BY <1>6, WordNames DEF Interpret!Test, Interpret!Handles, Interpret!Bools, Bools
  <2>2. Bools \subseteq Sound BY SoundWords DEF Bools
  <2> QED BY <1>3, <2>1, <2>2, ResultsAre
<1>7. CASE Interpret!Length
  <2>1. program[ip].op = "CALL_LENGTH" /\ \E n \in Ints : Interpret!Exec(1, <<Integer(n)>>)
    BY <1>2, <1>7, WordNames DEF Interpret!Length, Interpret!Handles
  <2>2. Needs(program[ip]) = 1 BY <1>1, <2>1, EffectOf
  <2> QED BY <1>3, <1>4, <2>1, <2>2, ResultsAre
<1>8. CASE Interpret!Elem
  <2>1. program[ip].op = "ELEM" /\ \E w \in Interpret!Values : Interpret!Exec(2, <<w>>)
    BY <1>2, <1>8, WordNames DEF Interpret!Elem, Interpret!Handles
  <2>2. Needs(program[ip]) = 2 BY <1>1, <2>1, EffectOf
  <2>3. Interpret!Values = {Integer(n) : n \in Ints} \cup {Box} BY WordNames DEF Interpret!Values
  <2> QED BY <1>3, <2>1, <2>2, <2>3, ResultsAre, SoundWords
<1>9. CASE Interpret!StoreElem
  <2>1. program[ip].op = "STA"
    BY <1>9, WordNames DEF Interpret!StoreElem, Interpret!Handles
  <2>2. IsInt(Interpret!Peek(2)) BY <1>1, <2>1 DEF InOrder, Accepted, Onward, Ready
  <2>3. PICK w : w = Interpret!Peek(1) OBVIOUS
  <2>4. Interpret!Exec(3, <<w>>) BY <1>2, <1>9, <2>2, <2>3, WordNames DEF Interpret!StoreElem
  <2>5. w \in Sound BY <1>1, <2>3, ReadSound DEF Interpret!Peek
  <2>6. 3 = Needs(program[ip]) BY <1>1, <2>1, EffectOf
  <2>7. w = Interpret!Records!Operands[1]
    <3>1. 1 \in 1..Needs(program[ip]) BY <2>6
    <3> QED BY <2>3, <3>1, OperandsArePeeks DEF Onward
  <2> QED BY <2>1, <2>2, <2>4, <2>5, <2>6, <2>7, ResultsAre, ExecComputes DEF Computing
<1> QED BY <1>5, <1>6, <1>7, <1>8, <1>9

\* Array and s-expression take the elements off.
LEMMA ObjectMaps ==
  ASSUME Onward, Interpret!Array \/ Interpret!Sexp
  PROVE  Interpret!Records!Next
<1>1. /\ ip \in Offsets /\ program[ip] \in Instruction /\ fp \in Int /\ top \in Int /\ -1 <= top
      /\ Needs(program[ip]) \in Nat /\ Operands(ip, fp, top) \in Nat /\ Reserved(ip) \in Nat
      /\ top + Operands(ip, fp, top) + Reserved(ip) = fp /\ fp + 3 <= Interpret!START
      /\ Needs(program[ip]) <= Operands(ip, fp, top) /\ Ready
      /\ memory \in [Interpret!Words -> Sound]
  BY ReadyFacts DEF Onward, Ready, WordsInv
<1>2. PICK n : n = Needs(program[ip]) OBVIOUS
<1>3. n \in Nat /\ top + n <= fp /\ top <= fp /\ top + 1 \in Nat /\ top + 1 + n <= STACK
  <2>1. PICK d, r, t, s : d = Operands(ip, fp, top) /\ r = Reserved(ip) /\ t = top /\ s = Interpret!START
    OBVIOUS
  <2>2. /\ d \in Nat /\ r \in Nat /\ n \in Nat /\ n <= d /\ t + d + r = fp /\ t \in Int /\ -1 <= t
        /\ s < STACK /\ s \in Nat /\ STACK \in Nat /\ fp + 3 <= s
    BY <1>1, <1>2, <2>1, StartFacts
  <2>3. t + n <= fp /\ t <= fp /\ t + 1 \in Nat /\ t + 1 + n <= STACK BY <1>1, <2>2
  <2> QED BY <1>1, <1>2, <2>1, <2>3
<1>4. CASE Interpret!Array
  <2>1. /\ program[ip].op = "CALL_ARRAY" /\ UNCHANGED closures
        /\ Interpret!ExecOn(Interpret!Reversed(memory, top + 1, program[ip].a), 0, program[ip].a, <<Box>>)
    BY <1>4, WordNames DEF Interpret!Array, Interpret!Handles
  <2>2. PICK m, t : m = Interpret!Reversed(memory, t, n) /\ t = top + 1 OBVIOUS
  <2>3. program[ip].a = n BY <1>1, <1>2, <2>1, EffectOf
  <2>4. /\ m \in [Interpret!Words -> Sound]
        /\ \A j \in Interpret!Words : t + n <= j => m[j] = memory[j]
    <3>1. t \in Nat /\ t + n <= STACK BY <1>3, <2>2
    <3>2. /\ Interpret!Reversed(memory, t, n) \in [Interpret!Words -> Sound]
          /\ \A j \in Interpret!Words : t + n <= j => Interpret!Reversed(memory, t, n)[j] = memory[j]
      <4>1. memory \in [Interpret!Words -> Sound] /\ n \in Nat BY <1>1, <1>3
      <4> QED BY <3>1, <4>1, ReversedFacts
    <3> QED BY <2>2, <3>2
  <2>5. Untaken(m)
    <3>1. \A j \in Interpret!Words : top + n < j => t + n <= j BY <1>1, <1>3, <2>2, StartFacts
    <3> QED BY <1>2, <2>4, <3>1 DEF Untaken
  <2>6. Interpret!ExecOn(m, 0, n, <<Box>>) BY <2>1, <2>2, <2>3
  <2> QED BY <1>2, <2>1, <2>4, <2>5, <2>6, SoundWords, ResultsAre, Computes DEF Computing
<1>5. CASE Interpret!Sexp
  <2>1. /\ program[ip].op = "SEXP" /\ UNCHANGED closures
        /\ Interpret!ExecOn(Interpret!Written(memory, top, <<Integer(0)>>), 1, program[ip].b, <<Box>>)
    BY <1>5, WordNames DEF Interpret!Sexp, Interpret!Handles
  <2>2. PICK tag : tag = <<Integer(0)>> OBVIOUS
  <2>3. PICK m : m = Interpret!Written(memory, top, tag) OBVIOUS
  <2>4. program[ip].b = n BY <1>1, <1>2, <2>1, EffectOf
  <2>5. tag \in Seq(Sound) BY <2>2, SoundWords, ShortSeqs
  <2>6. /\ m \in [Interpret!Words -> Sound]
        /\ \A j \in Interpret!Words : top < j => m[j] = memory[j]
    BY <1>1, <2>3, <2>5, WrittenFacts
  <2>7. Untaken(m)
    <3>1. \A j \in Interpret!Words : top + n < j => top < j BY <1>1, <1>3, StartFacts
    <3> QED BY <1>2, <2>6, <3>1 DEF Untaken
  <2>8. Interpret!ExecOn(m, 1, n, <<Box>>) BY <2>1, <2>2, <2>3, <2>4
  <2> QED BY <1>2, <2>1, <2>6, <2>7, <2>8, SoundWords, ResultsAre, Computes DEF Computing
<1> QED BY <1>4, <1>5

\* Of the operands it needs an instruction replaces the first n by ws, last word
\* first, and leaves the others.
Rearranged(us, n, ws) ==
  /\ Len(us) = Needs(program[ip]) - n + Len(ws)
  /\ \A k \in 1..Len(ws) : us[k] = ws[Len(ws) - k + 1]
  /\ \A k \in (Len(ws) + 1)..Len(us) : us[k] = Interpret!Peek(n + k - Len(ws))

LEMMA ExecLeaves ==
  ASSUME Onward, program[ip].op \in Plain, NEW n \in Nat, n <= Needs(program[ip]),
         NEW ws \in Seq(Sound), Interpret!Exec(n, ws), NEW us \in Seq(Sound), Rearranged(us, n, ws)
  PROVE  Interpret!Records!Leave(us, ip + 1) /\ UNCHANGED closures
<1>1. /\ top \in Int /\ -1 <= top /\ fp \in Int /\ fp + 3 <= Interpret!START
      /\ Needs(program[ip]) \in Nat /\ Operands(ip, fp, top) \in Nat /\ Reserved(ip) \in Nat
      /\ top + Operands(ip, fp, top) + Reserved(ip) = fp
      /\ Needs(program[ip]) <= Operands(ip, fp, top)
      /\ memory \in [Interpret!Words -> Sound]
  BY ReadyFacts DEF Onward, Ready, WordsInv
<1>2. Interpret!ExecOn(memory, 0, n, ws) /\ UNCHANGED closures BY DEF Interpret!Exec
<1>3. /\ top' = top + n - Len(ws) /\ ip' = ip + 1 /\ UNCHANGED <<fp, arg_sizes>>
      /\ \A k \in 1..Len(ws) : Interpret!Peek(k)' = ws[Len(ws) - k + 1]
      /\ \A j \in Interpret!Words : top + n < j => memory'[j] = memory[j]
  BY <1>1, <1>2, ExecFacts
<1>4. PICK c, l, t, f, i : /\ c = Needs(program[ip]) /\ l = Len(ws) /\ t = top /\ f = top' /\ i = ip + 1
  OBVIOUS
<1>5. c \in Nat /\ n <= c /\ l \in Nat /\ t \in Int /\ -1 <= t /\ f = t + n - l /\ t + c < STACK
      /\ STACK \in Nat /\ Interpret!Words = 0..(STACK - 1) /\ Len(us) = c - n + l
  <2>1. PICK d, r, s : d = Operands(ip, fp, top) /\ r = Reserved(ip) /\ s = Interpret!START OBVIOUS
  <2>2. /\ d \in Nat /\ r \in Nat /\ c \in Nat /\ c <= d /\ t + d + r = fp /\ t \in Int
        /\ s < STACK /\ s \in Nat /\ STACK \in Nat /\ fp + 3 <= s
    BY <1>1, <1>4, <2>1, StartFacts
  <2>3. t + c < STACK BY <1>1, <2>2
  <2>4. l \in Nat /\ n <= c /\ f = t + n - l /\ -1 <= t BY <1>1, <1>3, <1>4
  <2>5. Len(us) = c - n + l BY <1>4 DEF Rearranged
  <2> QED BY <2>2, <2>3, <2>4, <2>5, StartFacts
<1>6. Left(us)
  <2>1. top' = top + Needs(program[ip]) - Len(us)
    <3>1. PICK q : q = Len(us) OBVIOUS
    <3>2. q = c - n + l /\ q \in Int /\ f = t + c - q BY <1>5, <3>1
    <3> QED BY <1>4, <3>1, <3>2
  <2>2. ASSUME NEW k \in 1..Len(us) PROVE Interpret!Peek(k)' = us[k]
    <3>1. CASE k \in 1..l BY <1>3, <1>4, <3>1 DEF Rearranged
    <3>2. CASE k \notin 1..l
      <4>1. PICK h, j : h = n + k - l /\ j = f + k OBVIOUS
      <4>2. k \in (l + 1)..Len(us) BY <1>5, <3>2
      <4>3. j = t + h /\ t + n < j /\ j \in Interpret!Words BY <1>5, <4>1, <4>2
      <4>4. us[k] = Interpret!Peek(h) BY <1>4, <4>1, <4>2 DEF Rearranged
      <4>5. Interpret!Peek(h) = memory[j] BY <1>4, <4>3 DEF Interpret!Peek, Interpret!Read
      <4>6. Interpret!Peek(k)' = memory'[j]
        BY <1>4, <4>1, <4>3 DEF Interpret!Peek, Interpret!Read, Interpret!Words
      <4>7. memory'[j] = memory[j] BY <1>3, <1>4, <4>3
      <4> QED BY <4>4, <4>5, <4>6, <4>7
    <3> QED BY <3>1, <3>2
  <2> QED BY <2>1, <2>2 DEF Left
<1>7. Untaken(memory')
  <2>1. \A j \in Interpret!Words : t + c < j => t + n < j BY <1>5
  <2> QED BY <1>3, <1>4, <2>1 DEF Untaken
<1>8. Reserved(i) = Reserved(ip) BY <1>4, OnwardPlain
<1>9. ip' = i BY <1>3, <1>4
<1> QED BY <1>2, <1>3, <1>4, <1>6, <1>7, <1>8, <1>9, Leaves

\* Operands that are copied, dropped and exchanged.
Arranged(us) ==
  \/ program[ip].op = "DUP" /\ us = <<Interpret!Peek(1), Interpret!Peek(1)>>
  \/ program[ip].op = "SWAP" /\ us = <<Interpret!Peek(2), Interpret!Peek(1)>>
  \/ program[ip].op = "CALL_WRITE" /\ us = <<Interpret!Peek(1)>>
  \/ program[ip].op \in {"DROP", "LINE"} /\ us = <<>>

LEMMA ArrangeMaps ==
  ASSUME Onward, Interpret!Dup \/ Interpret!Drop \/ Interpret!Swap \/ Interpret!Keep
  PROVE  Interpret!Records!Next
<1>1. ip \in Offsets /\ program[ip] \in Instruction /\ WordsInv BY ReadyFacts DEF Onward, Ready
<1>2. \A j : Interpret!Peek(j) \in Sound BY <1>1, ReadSound DEF Interpret!Peek
<1>3. ASSUME NEW us \in Seq(Sound), Interpret!Records!Leave(us, ip + 1), UNCHANGED closures,
             Arranged(us)
      PROVE  Interpret!Records!Next
  <2>1. \A k \in 1..Needs(program[ip]) : Interpret!Records!Operands[k] = Interpret!Peek(k)
    BY OperandsArePeeks DEF Onward
  <2>2. /\ program[ip].op \in {"DUP", "CALL_WRITE"} => 1 \in 1..Needs(program[ip])
        /\ program[ip].op = "SWAP" => {1, 2} \subseteq 1..Needs(program[ip])
    BY <1>1, EffectOf
  <2>3. Interpret!Records!Arrange
    BY <1>3, <2>1, <2>2, RecordNames DEF Arranged, Interpret!Records!Arrange
  <2> QED BY <2>3 DEF Interpret!Records!Next, Onward, Ready
<1>4. ASSUME program[ip].op \in Plain, NEW n \in Nat, n <= Needs(program[ip]),
             NEW ws \in Seq(Sound), Interpret!Exec(n, ws), NEW us \in Seq(Sound), Rearranged(us, n, ws),
             Arranged(us)
      PROVE  Interpret!Records!Next
  BY <1>3, <1>4, ExecLeaves
<1>5. CASE Interpret!Dup
  <2>1. program[ip].op = "DUP" /\ Interpret!Exec(0, <<Interpret!Peek(1)>>)
    BY <1>5, WordNames DEF Interpret!Dup, Interpret!Handles
  <2>2. PICK w, ws, us : w = Interpret!Peek(1) /\ ws = <<w>> /\ us = <<w, w>> OBVIOUS
  <2>3. ws \in Seq(Sound) /\ us \in Seq(Sound) BY <1>2, <2>2, ShortSeqs
  <2>4. Rearranged(us, 0, ws)
    <3>1. Needs(program[ip]) = 1 BY <1>1, <2>1, EffectOf
    <3>2. Len(ws) = 1 /\ Len(us) = 2 /\ ws[1] = w /\ us[1] = w /\ us[2] = w BY <2>2
    <3>3. /\ \A k \in 1..1 : k = 1
          /\ \A k \in 2..2 : k = 2 /\ 0 + k - 1 = 1
      OBVIOUS
    <3> QED BY <2>2, <3>1, <3>2, <3>3 DEF Rearranged
  <2>5. 0 \in Nat /\ 0 <= Needs(program[ip]) BY ReadyFacts DEF Onward
  <2>6. Arranged(us) /\ program[ip].op \in Plain BY <2>1, <2>2 DEF Arranged, Plain
  <2> QED BY <1>4, <2>1, <2>2, <2>3, <2>4, <2>5, <2>6
<1>6. CASE Interpret!Drop
  <2>1. program[ip].op = "DROP" /\ Interpret!Exec(1, <<>>)
    BY <1>6, WordNames DEF Interpret!Drop, Interpret!Handles
  <2>2. 1 = Needs(program[ip]) BY <1>1, <2>1, EffectOf
  <2>3. PICK ws : ws = <<>> OBVIOUS
  <2>4. ws \in Seq(Sound) /\ Len(ws) = 0 BY <2>3, ShortSeqs
  <2>5. Rearranged(ws, 1, ws) BY <2>2, <2>4 DEF Rearranged
  <2>6. Arranged(ws) /\ program[ip].op \in Plain BY <2>1, <2>2, <2>3 DEF Arranged, Plain
  <2>7. PICK n : n = 1 OBVIOUS
  <2>8. n \in Nat /\ n <= Needs(program[ip]) /\ Interpret!Exec(n, ws) /\ Rearranged(ws, n, ws)
    BY <2>1, <2>2, <2>3, <2>5, <2>7
  <2> QED BY <1>4, <2>4, <2>6, <2>8
<1>7. CASE Interpret!Swap
  <2>1. program[ip].op = "SWAP" /\ Interpret!Exec(2, <<Interpret!Peek(1), Interpret!Peek(2)>>)
    BY <1>7, WordNames DEF Interpret!Swap, Interpret!Handles
  <2>2. PICK w, v, ws, us : /\ w = Interpret!Peek(1) /\ v = Interpret!Peek(2)
                            /\ ws = <<w, v>> /\ us = <<v, w>>
    OBVIOUS
  <2>3. ws \in Seq(Sound) /\ us \in Seq(Sound) BY <1>2, <2>2, ShortSeqs
  <2>4. 2 = Needs(program[ip]) BY <1>1, <2>1, EffectOf
  <2>5. Rearranged(us, 2, ws)
    <3>1. Len(ws) = 2 /\ Len(us) = 2 /\ ws[1] = w /\ ws[2] = v /\ us[1] = v /\ us[2] = w BY <2>2
    <3>2. \A k \in 1..2 : (k = 1 /\ 2 - k + 1 = 2) \/ (k = 2 /\ 2 - k + 1 = 1) OBVIOUS
    <3> QED BY <2>4, <3>1, <3>2 DEF Rearranged
  <2>6. Arranged(us) /\ program[ip].op \in Plain BY <2>1, <2>2 DEF Arranged, Plain
  <2>7. PICK n : n = 2 OBVIOUS
  <2>8. n \in Nat /\ n <= Needs(program[ip]) /\ Interpret!Exec(n, ws) /\ Rearranged(us, n, ws)
    BY <2>1, <2>2, <2>4, <2>5, <2>7
  <2> QED BY <1>4, <2>3, <2>6, <2>8
<1>8. CASE Interpret!Keep
  <2>1. program[ip].op \in {"LINE", "CALL_WRITE"} /\ Interpret!Exec(0, <<>>)
    BY <1>8, WordNames DEF Interpret!Keep, Interpret!Handles
  <2>2. PICK w, ws, us : /\ w = Interpret!Peek(1) /\ ws = <<>>
                         /\ us = IF program[ip].op = "LINE" THEN <<>> ELSE <<w>>
    OBVIOUS
  <2>3. ws \in Seq(Sound) /\ us \in Seq(Sound) BY <1>2, <2>2, ShortSeqs
  <2>4. 0 \in Nat /\ 0 <= Needs(program[ip]) BY ReadyFacts DEF Onward
  <2>5. Rearranged(us, 0, ws)
    <3>1. Len(ws) = 0 BY <2>2
    <3>2. CASE program[ip].op = "LINE"
      <4>1. Needs(program[ip]) = 0 BY <1>1, <3>2, EffectOf
      <4>2. Len(us) = 0 BY <2>2, <3>2
      <4> QED BY <3>1, <4>1, <4>2 DEF Rearranged
    <3>3. CASE program[ip].op = "CALL_WRITE"
      <4>1. Needs(program[ip]) = 1 BY <1>1, <3>3, EffectOf
      <4>2. Len(us) = 1 /\ us[1] = w BY <2>2, <3>3
      <4>3. \A k \in 1..1 : k = 1 /\ 0 + k - 0 = 1 OBVIOUS
      <4> QED BY <2>2, <3>1, <4>1, <4>2, <4>3 DEF Rearranged
    <3> QED BY <2>1, <3>2, <3>3
  <2>6. Arranged(us) /\ program[ip].op \in Plain BY <2>1, <2>2 DEF Arranged, Plain
  <2> QED BY <1>4, <2>1, <2>2, <2>3, <2>4, <2>5, <2>6
<1> QED BY <1>5, <1>6, <1>7, <1>8

\* A jump takes its condition off and leaves nothing.
LEMMA JumpMaps ==
  ASSUME Onward, Interpret!Jump \/ Interpret!CondJump
  PROVE  Interpret!Records!Next
<1>1. /\ ip \in Offsets /\ program[ip] \in Instruction /\ Accepted /\ Ready
      /\ top \in Int
  BY ReadyFacts DEF Onward, Ready
<1>2. PICK us, taken : /\ us = <<>>
                       /\ taken = \/ program[ip].op = "JMP"
                                  \/ program[ip].op = "CJMPz" /\ Interpret!Peek(1) = Integer(0)
                                  \/ program[ip].op = "CJMPnz" /\ Interpret!Peek(1) # Integer(0)
  OBVIOUS
<1>3. us \in Seq(Sound) /\ Len(us) = 0 BY <1>2, ShortSeqs
<1>4. PICK t : t = IF taken THEN program[ip].a ELSE ip + 1 OBVIOUS
<1>5. /\ program[ip].op \in {"JMP"} \cup CondJumps /\ ip' = t /\ top' = top + Needs(program[ip])
      /\ UNCHANGED <<memory, fp, arg_sizes, closures>>
  <2>1. CASE Interpret!Jump
    <3>1. /\ program[ip].op = "JMP" /\ ip' = program[ip].a
          /\ UNCHANGED <<memory, top, fp, arg_sizes, closures>>
      BY <2>1, WordNames DEF Interpret!Jump, Interpret!Handles, Interpret!frame
    <3>2. Needs(program[ip]) = 0 BY <1>1, <3>1, EffectOf
    <3> QED BY <1>1, <1>2, <1>4, <3>1, <3>2
  <2>2. CASE Interpret!CondJump
    <3>1. /\ program[ip].op \in CondJumps /\ top' = top + 1
          /\ ip' = IF (Interpret!Peek(1) = Integer(0)) = (program[ip].op = "CJMPz")
                     THEN program[ip].a ELSE ip + 1
          /\ UNCHANGED <<memory, fp, arg_sizes, closures>>
      BY <2>2, WordNames DEF Interpret!CondJump, Interpret!Handles, Interpret!frame
    <3>2. Needs(program[ip]) = 1 BY <1>1, <3>1, EffectOf
    <3>3. ip' = t
      <4>1. CASE program[ip].op = "CJMPz" BY <1>2, <1>4, <3>1, <4>1
      <4>2. CASE program[ip].op = "CJMPnz" BY <1>2, <1>4, <3>1, <4>2
      <4> QED BY <3>1, <4>1, <4>2 DEF CondJumps
    <3> QED BY <3>1, <3>2, <3>3
  <2> QED BY <2>1, <2>2
<1>6. Reserved(t) = Reserved(ip)
  <2>1. FollowedBy(ip, t) BY <1>2, <1>4, <1>5 DEF FollowedBy, Jumps, CondJumps
  <2>2. program[ip].op \notin Begins BY <1>5 DEF Begins, CondJumps
  <2> QED BY <1>1, <2>1, <2>2, SameFunction
<1>7. Left(us)
  <2>1. Needs(program[ip]) \in Nat BY <1>1, ReadyFacts
  <2>2. top' = top + Needs(program[ip]) - Len(us) BY <1>1, <1>3, <1>5, <2>1
  <2> QED BY <1>3, <2>2 DEF Left
<1>8. Untaken(memory') BY <1>5 DEF Untaken
<1>9. Interpret!Records!Leave(us, t) BY <1>3, <1>5, <1>6, <1>7, <1>8, Leaves
<1>10. program[ip].op \in CondJumps => Interpret!Records!Operands[1] = Interpret!Peek(1)
  <2> SUFFICES ASSUME program[ip].op \in CondJumps
               PROVE  Interpret!Records!Operands[1] = Interpret!Peek(1)
    OBVIOUS
  <2>1. 1 = Needs(program[ip]) BY <1>1, EffectOf
  <2>2. 1 \in 1..Needs(program[ip]) BY <2>1
  <2> QED BY <1>1, <2>2, OperandsArePeeks
<1>11. Interpret!Records!Jump
  <2>1. taken = (\/ program[ip].op = "JMP"
                 \/ program[ip].op = "CJMPz" /\ Interpret!Records!Operands[1] = Integer(0)
                 \/ program[ip].op = "CJMPnz" /\ Interpret!Records!Operands[1] # Integer(0))
    BY <1>2, <1>10 DEF CondJumps
  <2> QED BY <1>2, <1>4, <1>5, <1>9, <2>1, RecordNames DEF Interpret!Records!Jump
<1> QED BY <1>11 DEF Interpret!Records!Next, Onward, Ready

-----------------------------------------------------------------------------
(* Stores *)

LEMMA WordStored ==
  ASSUME WordsInv, NEW j \in Interpret!Words, NEW w, memory' = [memory EXCEPT ![j] = w]
  PROVE  \A x : Interpret!Read(x)' = IF x = j THEN w ELSE Interpret!Read(x)
<1>1. DOMAIN memory = Interpret!Words BY DEF WordsInv
<1>2. \A x : Interpret!Read(x)' = IF x \in Interpret!Words THEN memory'[x] ELSE Interpret!Junk
  BY DEF Interpret!Read, Interpret!Words, Interpret!Junk
<1>3. \A x \in Interpret!Words : memory'[x] = IF x = j THEN w ELSE memory[x] BY <1>1
<1> QED BY <1>2, <1>3 DEF Interpret!Read

\* The parts of the running call's record, before and after a step that leaves its
\* size as it is.
LEMMA PartsOfCurrent ==
  ASSUME Onward, UNCHANGED <<top, fp, arg_sizes>>, NEW i, ip' = i, Reserved(i) = Reserved(ip),
         NEW B, B = fp, NEW t, t = top, NEW a, a = arg_sizes[1], NEW r, r = Reserved(ip),
         NEW d, d = Operands(ip, fp, top)
  PROVE  /\ Current = [args |-> ArgsAt(B, a), closure |-> ClosureAt(B, a), locals |-> LocalsAt(B, r),
                       operands |-> OperandsAt(t, d), ra |-> Interpret!Read(B + 3)]
         /\ Current' = [args |-> ArgsAt(B, a)', closure |-> ClosureAt(B, a)', locals |-> LocalsAt(B, r)',
                        operands |-> OperandsAt(t, d)', ra |-> Interpret!Read(B + 3)']
<1>1. /\ top \in Int /\ fp \in Int /\ Reserved(ip) \in Nat /\ UNCHANGED vars
  BY ReadyFacts DEF Onward, Ready
<1>2. d = B - r - t
  <2>1. d = B - t - r BY DEF Operands
  <2> QED BY <1>1, <2>1
<1>3. Current = RecordAt(B, ip, t, a) /\ Current' = RecordAt(B, i, t, a)' BY DEF Current
<1>4. Reserved(i)' = r BY <1>1 DEF Reserved, vars, code
<1> QED BY <1>2, <1>3, <1>4 DEF RecordAt

LEMMA FramesUnmoved ==
  ASSUME Onward, UNCHANGED <<fp, arg_sizes>>, Kept(memory'), Current' = Current
  PROVE  Interpret!Frames' = Interpret!Frames
<1>1. Interpret!Frames[1] = Current /\ Interpret!Frames' = <<Current'>> \o Tail(Interpret!Frames)
  BY InFrame DEF Interpret!Records!Becomes
<1>2. PICK g, n : g = Interpret!Frames /\ n = Len(arg_sizes) OBVIOUS
<1>3. Listed(g, n) /\ n \in Nat \ {0}
  BY <1>2, RunningRecord DEF Listed, Onward, Ready, ChainInv
<1>4. g = <<g[1]>> \o Tail(g) BY <1>3, NewHead
<1> QED BY <1>1, <1>2, <1>4

\* ST of a variable of the stack.
LEMMA PlacedStoreMaps ==
  ASSUME Onward, program[ip].op = "ST", program[ip].low # "Closure",
         NEW j, j = Interpret!Place(program[ip].low, program[ip].a),
         NEW w, w = Interpret!Peek(1), memory' = [memory EXCEPT ![j] = w],
         ip' = ip + 1, UNCHANGED <<top, fp, arg_sizes, closures>>
  PROVE  Interpret!Records!Store
<1>1. /\ Accepted /\ ArgSizesOK /\ ip \in Offsets /\ program[ip] \in Instruction /\ fp \in Int /\ top \in Int
      /\ -1 <= top /\ fp + 3 <= Interpret!START /\ Needs(program[ip]) \in Nat
      /\ Reserved(ip) \in Nat /\ Operands(ip, fp, top) \in Nat
      /\ top + Operands(ip, fp, top) + Reserved(ip) = fp /\ WordsInv /\ Ready
      /\ program[ip].op \in Variables /\ Scoped(program)
  BY ReadyFacts DEF Ready, Onward, Variables
<1>2. PICK i, k, low, a, r, d, s, B, t :
        /\ i = ip + 1 /\ k = program[ip].a /\ low = program[ip].low /\ a = arg_sizes[1] /\ B = fp /\ t = top
        /\ r = Reserved(ip) /\ d = Operands(ip, fp, top) /\ s = Interpret!START
  OBVIOUS
<1>3. /\ k \in Nat /\ a \in Nat /\ r \in Nat /\ d \in Nat /\ s \in Nat /\ B \in Int /\ t \in Int /\ -1 <= t
      /\ t + d + r = B /\ B + 3 <= s
  BY <1>1, <1>2, StartFacts, FirstSize, EffectOf
<1>4. /\ j \in Interpret!Words /\ low \in {"Global", "Local", "Argument"}
      /\ low = "Global" => s < j
      /\ low = "Local" => B - r < j /\ j <= B
      /\ low = "Argument" => B + 3 < j /\ j <= B + 3 + a
  BY <1>1, <1>2, PlaceInside
<1>5. j \in Int BY <1>4, StartFacts
<1>6. /\ low = "Global" => k \in 0..(global_area_size - 1)
      /\ low = "Local" => k + 1 \in 1..r
      /\ low = "Argument" => k + 1 \in 1..a
  <2>1. [mem_var |-> low, value |-> k] \in Named(program[ip]) BY <1>1, <1>2 DEF Named, Variables
  <2> QED BY <1>1, <1>2, <1>3, <2>1, VariableIs
<1>7. Kept(memory')
  <2>1. w \in Sound BY <1>1, ReadSound DEF Interpret!Peek
  <2>2. \/ j <= fp
        \/ fp + 3 < j /\ j <= fp + 3 + arg_sizes[1]
        \/ Interpret!START < j
    BY <1>2, <1>4
  <2> QED BY <1>1, <1>4, <2>1, <2>2, UpdateKept
<1>8. \A x : Interpret!Read(x)' = IF x = j THEN w ELSE Interpret!Read(x) BY <1>1, <1>4, WordStored
<1>9. Reserved(i) = Reserved(ip)
  <2>1. program[ip].op \in Plain BY DEF Plain
  <2> QED BY <1>2, <2>1, OnwardPlain
<1>10. /\ Current = [args |-> ArgsAt(B, a), closure |-> ClosureAt(B, a), locals |-> LocalsAt(B, r),
                     operands |-> OperandsAt(t, d), ra |-> Interpret!Read(B + 3)]
       /\ Current' = [args |-> ArgsAt(B, a)', closure |-> ClosureAt(B, a)', locals |-> LocalsAt(B, r)',
                      operands |-> OperandsAt(t, d)', ra |-> Interpret!Read(B + 3)']
  <2>1. ip' = i BY <1>2
  <2> QED BY <1>2, <1>9, <2>1, PartsOfCurrent
<1>11. Interpret!Frames[1] = Current /\ Interpret!Records!Becomes(Current') BY <1>7, InFrame
<1>12. OperandsAt(t, d)' = OperandsAt(t, d)
  <2>1. \A x \in 1..d : t + x # j BY <1>3, <1>4, <1>5
  <2> QED BY <1>8, <2>1 DEF OperandsAt
<1>13. Interpret!Read(B + 3)' = Interpret!Read(B + 3) /\ Interpret!Read(B + 1)' = Interpret!Read(B + 1)
  <2>1. B + 3 # j /\ B + 1 # j BY <1>3, <1>4, <1>5
  <2> QED BY <1>8, <2>1
<1>14. ClosureAt(B, a)' = ClosureAt(B, a)
  <2>1. CASE Interpret!Read(B + 1)[2] = B + 3 + a + 1
    <3>1. PICK b, at, free : Chain(b, at, free) BY <1>1 DEF Ready, ChainInv
    <3>2. 1 \in 1..Len(arg_sizes) /\ b[1] = fp BY <1>1, <3>1 DEF ArgSizesOK, Chain
    <3>3. B + 4 + a <= s BY <1>1, <1>2, <2>1, <3>1, <3>2, Extent
    <3>4. B + 4 + a # j BY <1>3, <1>4, <1>5, <3>3
    <3> QED BY <1>8, <1>13, <3>4 DEF ClosureAt
  <2>2. CASE Interpret!Read(B + 1)[2] # B + 3 + a + 1 BY <1>13, <2>2 DEF ClosureAt
  <2> QED BY <2>1, <2>2
<1>15. low # "Argument" => ArgsAt(B, a)' = ArgsAt(B, a)
  <2> SUFFICES ASSUME low # "Argument" PROVE ArgsAt(B, a)' = ArgsAt(B, a) OBVIOUS
  <2>1. PICK b, at, free : Chain(b, at, free) BY <1>1 DEF Ready, ChainInv
  <2>2. 1 \in 1..Len(arg_sizes) /\ b[1] = fp BY <1>1, <2>1 DEF ArgSizesOK, Chain
  <2>3. B + 3 + a <= s BY <1>1, <1>2, <2>1, <2>2, Extent
  <2>4. \A x \in 1..a : B + 3 + x # j BY <1>3, <1>4, <1>5, <2>3
  <2> QED BY <1>8, <2>4 DEF ArgsAt
<1>16. low # "Local" => LocalsAt(B, r)' = LocalsAt(B, r)
  <2> SUFFICES ASSUME low # "Local" PROVE LocalsAt(B, r)' = LocalsAt(B, r) OBVIOUS
  <2>1. \A x \in 1..r : B - x + 1 # j BY <1>3, <1>4, <1>5
  <2> QED BY <1>8, <2>1 DEF LocalsAt
<1>17. w = Interpret!Records!Operands[1]
  <2>1. 1 = Needs(program[ip]) BY <1>1, EffectOf
  <2>2. 1 \in 1..Needs(program[ip]) BY <2>1
  <2> QED BY <1>1, <2>2, OperandsArePeeks
<1>18. /\ Interpret!Records!Instr = program[ip] /\ UNCHANGED <<program, status>>
  BY RecordNames DEF Onward, Ready, vars, code
<1>19. low # "Global" => Interpret!GlobalValues' = Interpret!GlobalValues
  <2> SUFFICES ASSUME low # "Global" PROVE Interpret!GlobalValues' = Interpret!GlobalValues OBVIOUS
  <2>1. PICK b, at, free : Chain(b, at, free) BY <1>1 DEF Ready, ChainInv
  <2>2. 1 \in 1..Len(arg_sizes) /\ b[1] = fp BY <1>1, <2>1 DEF ArgSizesOK, Chain
  <2>3. B + 3 + a <= s BY <1>1, <1>2, <2>1, <2>2, Extent
  <2>4. j <= s BY <1>3, <1>4, <1>5, <2>3
  <2>5. \A x \in Interpret!Words : s < x => memory'[x] = memory[x]
    <3>1. \A x \in Interpret!Words : s < x => x # j BY <1>3, <1>5, <2>4, StartFacts
    <3> QED BY <1>1, <3>1 DEF WordsInv
  <2> QED BY <1>2, <2>5, GlobalsSame
<1>20. CASE low = "Global"
  <2>1. Current' = Current BY <1>10, <1>12, <1>13, <1>14, <1>15, <1>16, <1>20
  <2>2. Interpret!Frames' = Interpret!Frames BY <1>7, <2>1, FramesUnmoved
  <2>3. j = Interpret!GlobalAt(k) BY <1>2, <1>20 DEF Interpret!Place
  <2>4. \A x \in 0..(global_area_size - 1) : Interpret!GlobalAt(x) = j <=> x = k
    BY <1>3, <2>3, StartFacts, VerifiedRunAssumption DEF Interpret!GlobalAt
  <2>5. PICK g : g = Interpret!GlobalValues OBVIOUS
  <2>6. g = [x \in 0..(global_area_size - 1) |-> Interpret!Read(Interpret!GlobalAt(x))]
    BY <2>5 DEF Interpret!GlobalValues
  <2>7. Interpret!GlobalValues' = [x \in 0..(global_area_size - 1) |-> Interpret!Read(Interpret!GlobalAt(x))']
    BY DEF Interpret!GlobalValues, Interpret!Read, Interpret!GlobalAt
  <2>8. Interpret!GlobalValues' = [g EXCEPT ![k] = w] BY <1>8, <2>4, <2>6, <2>7
  <2> QED BY <1>2, <1>17, <1>18, <1>20, <2>2, <2>5, <2>8 DEF Interpret!Records!Store
<1>21. CASE low = "Local"
  <2>1. j = B - k BY <1>2, <1>21 DEF Interpret!Place
  <2>2. \A x \in 1..r : B - x + 1 = j <=> x = k + 1 BY <1>3, <2>1
  <2>3. LocalsAt(B, r)' = [LocalsAt(B, r) EXCEPT ![k + 1] = w]
    BY <1>8, <2>2 DEF LocalsAt
  <2>4. Current' = [Current EXCEPT !.locals[k + 1] = w]
    BY <1>10, <1>12, <1>13, <1>14, <1>15, <1>21, <2>3
  <2>5. Interpret!Records!Becomes([Interpret!Frames[1] EXCEPT !.locals[k + 1] = w]) BY <1>11, <2>4
  <2> QED BY <1>2, <1>17, <1>18, <1>19, <1>21, <2>5 DEF Interpret!Records!Store
<1>22. CASE low = "Argument"
  <2>1. j = B + 4 + k BY <1>2, <1>22 DEF Interpret!Place
  <2>2. \A x \in 1..a : B + 3 + x = j <=> x = k + 1 BY <1>3, <2>1
  <2>3. ArgsAt(B, a)' = [ArgsAt(B, a) EXCEPT ![k + 1] = w]
    BY <1>8, <2>2 DEF ArgsAt
  <2>4. Current' = [Current EXCEPT !.args[k + 1] = w]
    BY <1>10, <1>12, <1>13, <1>14, <1>16, <1>22, <2>3
  <2>5. Interpret!Records!Becomes([Interpret!Frames[1] EXCEPT !.args[k + 1] = w]) BY <1>11, <2>4
  <2> QED BY <1>2, <1>17, <1>18, <1>19, <1>22, <2>5 DEF Interpret!Records!Store
<1> QED BY <1>4, <1>20, <1>21, <1>22

\* ST.
LEMMA StoreMaps ==
  ASSUME Onward, Interpret!Store
  PROVE  Interpret!Records!Next
<1>1. /\ ip \in Offsets /\ program[ip] \in Instruction /\ Ready /\ program[ip].op = "ST"
      /\ WordsInv /\ Scoped(program)
  BY ReadyFacts, WordNames DEF Onward, Ready, Interpret!Store, Interpret!Handles
<1>2. PICK j, w : j = Interpret!Place(program[ip].low, program[ip].a) /\ w = Interpret!Peek(1)
  OBVIOUS
<1>3. CASE /\ program[ip].low # "Closure" /\ memory' = [memory EXCEPT ![j] = w]
           /\ ip' = ip + 1 /\ UNCHANGED <<top, fp, arg_sizes, closures>>
  <2>1. Interpret!Records!Store BY <1>1, <1>2, <1>3, PlacedStoreMaps
  <2> QED BY <2>1 DEF Interpret!Records!Next, Onward, Ready
<1>4. CASE /\ program[ip].low = "Closure" /\ Interpret!HasCapture(program[ip].a)
           /\ closures' = [closures EXCEPT ![Interpret!Running[2]].captured[program[ip].a + 1] = w]
           /\ ip' = ip + 1 /\ UNCHANGED <<memory, top, fp, arg_sizes>>
  <2>1. PICK i, B, t, a, r, d : /\ i = ip + 1 /\ B = fp /\ t = top /\ a = arg_sizes[1]
                                /\ r = Reserved(ip) /\ d = Operands(ip, fp, top)
    OBVIOUS
  <2>2. Reserved(i) = Reserved(ip)
    <3>1. program[ip].op \in Plain BY <1>1 DEF Plain
    <3> QED BY <2>1, <3>1, OnwardPlain
  <2>3. Current' = Current
    <3>1. \A x : Interpret!Read(x)' = Interpret!Read(x)
      BY <1>4 DEF Interpret!Read, Interpret!Words, Interpret!Junk
    <3>2. /\ ArgsAt(B, a)' = ArgsAt(B, a) /\ ClosureAt(B, a)' = ClosureAt(B, a)
          /\ LocalsAt(B, r)' = LocalsAt(B, r) /\ OperandsAt(t, d)' = OperandsAt(t, d)
      BY <3>1 DEF ArgsAt, ClosureAt, LocalsAt, OperandsAt
    <3>3. ip' = i BY <1>4, <2>1
    <3> QED BY <1>4, <2>1, <2>2, <3>1, <3>2, <3>3, PartsOfCurrent
  <2>4. Interpret!Frames' = Interpret!Frames
    <3>1. Kept(memory') BY <1>4 DEF Kept
    <3> QED BY <1>4, <2>3, <3>1, FramesUnmoved
  <2>5. Interpret!GlobalValues' = Interpret!GlobalValues BY <1>4, GlobalsSame
  <2>6. Interpret!Frames[1].closure = Interpret!Running
    <3>1. [mem_var |-> program[ip].low, value |-> program[ip].a] \in Named(program[ip])
      BY <1>1 DEF Named
    <3>2. program[ip].a \in Nat BY <1>1, EffectOf
    <3> QED BY <1>1, <1>4, <3>1, <3>2, VariableIs, RunningRecord DEF Variables
  <2>7. w = Interpret!Records!Operands[1]
    <3>1. 1 = Needs(program[ip]) BY <1>1, EffectOf
    <3>2. 1 \in 1..Needs(program[ip]) BY <3>1
    <3> QED BY <1>1, <1>2, <3>2, OperandsArePeeks
  <2>8. UNCHANGED <<program, status>> BY DEF Onward, Ready, vars, code
  <2>9. Interpret!Records!Store
    BY <1>1, <1>4, <2>4, <2>5, <2>6, <2>7, <2>8, RecordNames DEF Interpret!Records!Store
  <2> QED BY <2>9 DEF Interpret!Records!Next, Onward, Ready
<1>5. ~Interpret!Stop("undefined") BY DEF Interpret!Stop, Onward
<1> QED BY <1>2, <1>3, <1>4, <1>5, WordNames DEF Interpret!Store, Interpret!frame

\* CLOSURE.
LEMMA ClosureMaps ==
  ASSUME Onward, Interpret!MakeClosure
  PROVE  Interpret!Records!Next
<1> DEFINE I == program[ip]
<1> DEFINE n == Len(I.caps)
<1> DEFINE value(k) == Interpret!Value(I.caps[k].mem_var, I.caps[k].value)
<1> DEFINE captured == [k \in 1..n |-> value(k)]
<1> DEFINE temps == [k \in 1..n |-> value(n + 1 - k)] \o <<Integer(I.a)>>
<1> DEFINE made == Closure(Len(closures) + 1)
<1>1. /\ ip \in Offsets /\ I \in Instruction /\ WordsInv /\ Ready /\ Scoped(program) /\ top \in Int
  BY ReadyFacts DEF Onward, Ready
<1>2. I.op = "CLOSURE" BY WordNames DEF Interpret!MakeClosure, Interpret!Handles
<1>3. 0 = Needs(I) /\ I.a \in Nat /\ I.caps \in Seq(Capture) /\ I.op \in Plain
  BY <1>1, <1>2, EffectOf DEF Plain
<1>4. \A how : ~(how # "running" /\ Interpret!Stop(how)) BY DEF Interpret!Stop, Onward
<1>5. /\ \A k \in 1..n : Interpret!Known(I.caps[k].mem_var, I.caps[k].value)
      /\ Interpret!ExecOn(Interpret!Written(memory, top, temps), n + 1, 0, <<made>>)
      /\ closures' = IF Interpret!Fits(top, n + 1)
                       THEN Append(closures, [at |-> I.a, captured |-> captured]) ELSE closures
  BY <1>4, WordNames DEF Interpret!MakeClosure
<1>6. n \in Nat /\ DOMAIN I.caps = 1..n /\ \A k \in 1..n : I.caps[k] \in Capture
  <2>1. PICK c : c = I.caps OBVIOUS
  <2>2. c \in Seq(Capture) BY <1>3, <2>1
  <2>3. Len(c) \in Nat /\ DOMAIN c = 1..Len(c) /\ \A k \in 1..Len(c) : c[k] \in Capture BY <2>2
  <2> QED BY <2>1, <2>3
<1>7. \A k \in 1..n : value(k) \in Sound BY <1>1, <1>5, <1>6, ValueSound DEF Capture
<1>8. \A k \in 1..n : value(k) = Interpret!Records!Variable(I.caps[k].mem_var, I.caps[k].value)
  <2> SUFFICES ASSUME NEW k \in 1..n
               PROVE  value(k) = Interpret!Records!Variable(I.caps[k].mem_var, I.caps[k].value)
    OBVIOUS
  <2>1. PICK low, v : low = I.caps[k].mem_var /\ v = I.caps[k].value OBVIOUS
  <2>2. low \in Designations /\ v \in Nat /\ I.caps[k] = [mem_var |-> low, value |-> v]
    BY <1>6, <2>1 DEF Capture
  <2>3. [mem_var |-> low, value |-> v] \in Named(I) BY <1>2, <1>6, <2>2 DEF Named
  <2> QED BY <1>1, <1>2, <2>1, <2>2, <2>3, VariableIs
<1> HIDE DEF value
<1>9. temps \in Seq(Sound)
  <2>1. \A k \in 1..n : n + 1 - k \in 1..n BY <1>6
  <2>2. [k \in 1..n |-> value(n + 1 - k)] \in Seq(Sound) BY <1>6, <1>7, <2>1
  <2>3. <<Integer(I.a)>> \in Seq(Sound) BY <1>3, SoundWords, ShortSeqs
  <2> QED BY <2>2, <2>3
<1> HIDE DEF temps
<1>10. PICK m : m = Interpret!Written(memory, top, temps) OBVIOUS
<1>11. /\ m \in [Interpret!Words -> Sound]
       /\ \A j \in Interpret!Words : top < j => m[j] = memory[j]
  <2>1. memory \in [Interpret!Words -> Sound] BY <1>1 DEF WordsInv
  <2> QED BY <1>1, <1>9, <1>10, <2>1, WrittenFacts
<1>12. Untaken(m) BY <1>1, <1>3, <1>11 DEF Untaken
<1>13. PICK S : S = AnyWord OBVIOUS
<1>14. Sound \subseteq S /\ m \in [Interpret!Words -> S] BY <1>11, <1>13 DEF Sound
<1>15. made \in S
  <2>1. Len(closures) \in Nat BY <1>1 DEF WordsInv
  <2> QED BY <1>13, <2>1 DEF AnyWord, Closure
<1>16. Interpret!Records!Leave(<<made>>, ip + 1)
  <2>1. Interpret!ExecOn(m, n + 1, 0, <<made>>) BY <1>5, <1>10
  <2> HIDE DEF made
  <2> QED BY <1>3, <1>12, <1>14, <1>15, <2>1, OneWordLeaves
<1>17. Interpret!Fits(top, n + 1)
  <2> SUFFICES ASSUME ~Interpret!Fits(top, n + 1) PROVE FALSE OBVIOUS
  <2>1. Interpret!Stop("outside") BY <1>5 DEF Interpret!ExecOn
  <2> QED BY <1>4, <2>1
<1>18. closures' = Append(closures, [at |-> I.a, captured |-> captured]) BY <1>5, <1>17
<1>19. captured = [k \in DOMAIN I.caps |-> Interpret!Records!Variable(I.caps[k].mem_var, I.caps[k].value)]
  BY <1>6, <1>8
<1>20. Interpret!Records!MakeClosure
  <2> HIDE DEF captured
  <2> QED BY <1>2, <1>16, <1>18, <1>19, RecordNames DEF Interpret!Records!MakeClosure
<1> QED BY <1>20 DEF Interpret!Records!Next, Onward, Ready

-----------------------------------------------------------------------------
(* Calls and returns *)

\* What push_stack_frame leaves: the frame on the arguments, and those in the order
\* in which they were pushed.
LEMMA EnterFacts ==
  ASSUME Onward, NEW n \in Nat, NEW c \in {0, 1}, Needs(program[ip]) = n + c, NEW t,
         Interpret!Enter(n, c, t)
  PROVE  /\ top' = top - 3 /\ fp' = top - 3 /\ arg_sizes' = <<n>> \o arg_sizes /\ ip' = t
         /\ UNCHANGED closures /\ 2 <= top /\ top + n + c <= fp - Reserved(ip)
         /\ memory'[top] = Code(ip + 1) /\ memory'[top - 1] = At(fp)
         /\ memory'[top - 2] = At(top + n + c)
         /\ \A k \in 1..n : memory'[top + k] = memory[top + (n + 1 - k)]
         /\ \A j \in Interpret!Words : top + n < j => memory'[j] = memory[j]
<1>1. /\ fp \in Int /\ top \in Int /\ fp + 3 <= Interpret!START /\ -1 <= top
      /\ Reserved(ip) \in Nat /\ Operands(ip, fp, top) \in Nat
      /\ top + Operands(ip, fp, top) + Reserved(ip) = fp
      /\ Needs(program[ip]) <= Operands(ip, fp, top)
      /\ memory \in [Interpret!Words -> Sound] /\ ip \in Offsets /\ Accepted
  BY ReadyFacts DEF Onward, Ready, WordsInv
<1>2. Interpret!Fits(top, 3)
  <2> SUFFICES ASSUME ~Interpret!Fits(top, 3) PROVE FALSE OBVIOUS
  <2>1. Interpret!Stop("outside") BY DEF Interpret!Enter
  <2> QED BY <2>1 DEF Interpret!Stop, Onward
<1>3. PICK u, B, s : u = top /\ B = fp /\ s = Interpret!START OBVIOUS
<1>4. /\ u \in Int /\ 2 <= u /\ B \in Int /\ s \in Nat /\ s < STACK /\ STACK \in Nat /\ B + 3 <= s
      /\ u + n + c <= B - Reserved(ip) /\ u + n <= B /\ u <= B /\ Interpret!Words = 0..(STACK - 1)
  <2>1. PICK d, r : d = Operands(ip, fp, top) /\ r = Reserved(ip) OBVIOUS
  <2>2. d \in Nat /\ r \in Nat /\ n + c <= d /\ u + d + r = B /\ c \in {0, 1}
        /\ u \in Int /\ B \in Int /\ s \in Nat /\ s < STACK /\ STACK \in Nat /\ B + 3 <= s
    BY <1>1, <1>3, <2>1, StartFacts
  <2>3. 2 <= u BY <1>2, <1>3, <2>2 DEF Interpret!Fits
  <2>4. u + n + c <= B - r /\ u + n <= B /\ u <= B BY <2>2
  <2> QED BY <2>1, <2>2, <2>3, <2>4, StartFacts
<1>5. PICK m : m = IF n > 1 THEN Interpret!Reversed(memory, u + 1, n) ELSE memory OBVIOUS
<1>6. PICK x, y, z : x = Code(ip + 1) /\ y = At(B) /\ z = At(u + n + c) OBVIOUS
<1>7. /\ memory' = Interpret!Written(m, u, <<x, y, z>>)
      /\ top' = u - 3 /\ fp' = u - 3 /\ arg_sizes' = <<n>> \o arg_sizes /\ ip' = t
      /\ UNCHANGED closures
  BY <1>2, <1>3, <1>5, <1>6, WordNames DEF Interpret!Enter, Interpret!Frame
<1>8. /\ m \in [Interpret!Words -> Sound]
      /\ \A j \in Interpret!Words : u + n < j => m[j] = memory[j]
      /\ \A k \in 1..n : m[u + k] = memory[u + (n + 1 - k)]
  <2>1. CASE n > 1
    <3>1. PICK lo : lo = u + 1 OBVIOUS
    <3>2. lo \in Nat /\ lo + n <= STACK BY <1>4, <3>1
    <3>3. m = Interpret!Reversed(memory, lo, n) BY <1>5, <2>1, <3>1
    <3>4. /\ m \in [Interpret!Words -> Sound]
          /\ \A j \in Interpret!Words : lo + n <= j => m[j] = memory[j]
      <4>1. memory \in [Interpret!Words -> Sound] BY <1>1
      <4> QED BY <3>2, <3>3, <4>1, ReversedFacts
    <3>5. \A j \in Interpret!Words : u + n < j => lo + n <= j BY <1>4, <3>1
    <3>6. ASSUME NEW k \in 1..n PROVE m[u + k] = memory[u + (n + 1 - k)]
      <4>1. PICK j : j = u + k OBVIOUS
      <4>2. j \in Interpret!Words /\ lo <= j /\ j < lo + n /\ lo + n - 1 - (j - lo) = u + (n + 1 - k)
        BY <1>4, <3>1, <4>1
      <4>3. m[j] = memory[lo + n - 1 - (j - lo)] BY <3>3, <4>2 DEF Interpret!Reversed
      <4> QED BY <4>1, <4>2, <4>3
    <3> QED BY <3>4, <3>5, <3>6
  <2>2. CASE ~(n > 1)
    <3>1. \A k \in 1..n : n + 1 - k = k BY <2>2
    <3> QED BY <1>1, <1>5, <2>2, <3>1
  <2> QED BY <2>1, <2>2
<1>9. memory'[u] = x /\ memory'[u - 1] = y /\ memory'[u - 2] = z
  <2>1. u \in Interpret!Words /\ u - 1 \in Interpret!Words /\ u - 2 \in Interpret!Words BY <1>4
  <2> QED BY <1>4, <1>7, <2>1, FrameWritten
<1>10. \A j \in Interpret!Words : u < j => memory'[j] = m[j]
  <2>1. PICK ws : ws = <<x, y, z>> OBVIOUS
  <2>2. ws \in Seq({x, y, z} \cup Sound) BY <2>1
  <2>3. m \in [Interpret!Words -> {x, y, z} \cup Sound] BY <1>8
  <2>4. \A j \in Interpret!Words : u < j => Interpret!Written(m, u, ws)[j] = m[j]
    <3>1. PICK S : S = {x, y, z} \cup Sound OBVIOUS
    <3>2. m \in [Interpret!Words -> S] BY <2>3, <3>1
    <3>3. ws \in Seq(S) BY <2>2, <3>1
    <3>4. u \in Int BY <1>4
    <3> QED BY <3>2, <3>3, <3>4, WrittenFacts
  <2> QED BY <1>7, <2>1, <2>4
<1>11. \A k \in 1..n : memory'[u + k] = memory[u + (n + 1 - k)]
  <2>1. \A k \in 1..n : u + k \in Interpret!Words /\ u < u + k BY <1>4
  <2> QED BY <1>8, <1>10, <2>1
<1>12. \A j \in Interpret!Words : u + n < j => memory'[j] = memory[j]
  <2>1. \A j \in Interpret!Words : u + n < j => u < j BY <1>4
  <2> QED BY <1>8, <1>10, <2>1
<1> QED BY <1>3, <1>4, <1>6, <1>7, <1>9, <1>11, <1>12

\* The operands of a record without the first n.
LEMMA OperandsBelow ==
  ASSUME WordsInv, NEW lo \in Int, NEW d \in Nat, NEW n \in 0..d
  PROVE  OperandsAt(lo + n, d - n) = SubSeq(OperandsAt(lo, d), n + 1, Len(OperandsAt(lo, d)))
<1>1. PICK us, o, p : us = <<>> /\ o = OperandsAt(lo, d) /\ p = OperandsAt(lo + n, d - n) OBVIOUS
<1>2. us \in Seq(Sound) /\ Len(us) = 0 BY <1>1, ShortSeqs
<1>3. Listed(o, d) /\ \A k \in 1..d : o[k] = Interpret!Read(lo + k) BY <1>1 DEF OperandsAt, Listed
<1>4. Listed(p, d - n) /\ \A k \in 1..(d - n) : p[k] = Interpret!Read(lo + n + k)
  BY <1>1 DEF OperandsAt, Listed
<1>5. \A k \in 1..d : o[k] \in Sound BY <1>3, ReadSound
<1>6. \A k \in (n + 1)..d : p[k - n + 0] = o[k]
  <2> SUFFICES ASSUME NEW k \in (n + 1)..d PROVE p[k - n + 0] = o[k] OBVIOUS
  <2>1. PICK h : h = k - n OBVIOUS
  <2>2. h \in 1..(d - n) /\ k \in 1..d /\ lo + n + h = lo + k /\ k - n + 0 = h BY <2>1
  <2> QED BY <1>3, <1>4, <2>2
<1>7. Replaces(p, o, d, n, us)
  <2>1. Len(us) + d - n = d - n BY <1>2
  <2> QED BY <1>2, <1>4, <1>6, <2>1 DEF Replaces
<1>8. p = us \o SubSeq(o, n + 1, Len(o))
  <2>1. PICK S : S = Sound OBVIOUS
  <2>2. us \in Seq(S) /\ Listed(o, d) /\ \A k \in 1..d : o[k] \in S BY <1>2, <1>3, <1>5, <2>1
  <2>3. d \in Nat /\ n \in 0..d OBVIOUS
  <2> QED BY <1>7, <2>2, <2>3, FirstReplaced
<1>9. us \o SubSeq(o, n + 1, Len(o)) = SubSeq(o, n + 1, Len(o))
  <2>1. o \in Seq(Sound) BY <1>3, <1>5, AsSeq
  <2>2. n + 1 \in Nat \ {0} OBVIOUS
  <2>3. SubSeq(o, n + 1, Len(o)) \in Seq(Sound) BY <2>1, <2>2, Remainder
  <2> QED BY <1>1, <2>3
<1> QED BY <1>1, <1>8, <1>9

\* The callee's record: the arguments in the order of their pushing, the closure if
\* the call goes through one, no locals and no operands.
LEMMA CalleeRecord ==
  ASSUME Onward, NEW n \in Nat, NEW c \in {0, 1}, Needs(program[ip]) = n + c, NEW t \in Entries,
         Interpret!Enter(n, c, t)
  PROVE  Current' = Interpret!Records!Record([k \in 1..n |-> Interpret!Peek(n + 1 - k)],
                                             IF c = 0 THEN Null ELSE Interpret!Peek(n + 1), Code(ip + 1))
<1>1. /\ fp \in Int /\ top \in Int /\ fp + 3 <= Interpret!START /\ Reserved(ip) \in Nat
      /\ memory \in [Interpret!Words -> Sound] /\ ArgSizesOK /\ UNCHANGED vars
  BY ReadyFacts DEF Onward, Ready, WordsInv
<1>2. PICK u, q, r : u = top /\ q = top - 3 /\ r = Reserved(ip) OBVIOUS
<1>3. /\ top' = top - 3 /\ fp' = top - 3 /\ arg_sizes' = <<n>> \o arg_sizes /\ ip' = t
      /\ 2 <= top /\ top + n + c <= fp - Reserved(ip)
      /\ memory'[top] = Code(ip + 1) /\ memory'[top - 2] = At(top + n + c)
      /\ \A k \in 1..n : memory'[top + k] = memory[top + (n + 1 - k)]
      /\ \A j \in Interpret!Words : top + n < j => memory'[j] = memory[j]
  BY EnterFacts
<1>4. /\ u \in Int /\ 2 <= u /\ r \in Nat /\ u + n + c <= fp - r /\ c \in {0, 1} /\ q = u - 3
  BY <1>1, <1>2, <1>3
<1>5. top' = q /\ fp' = q /\ arg_sizes' = <<n>> \o arg_sizes /\ ip' = t
      /\ memory'[u] = Code(ip + 1) /\ memory'[u - 2] = At(u + n + c)
  BY <1>2, <1>3
<1>6. /\ \A k \in 1..n : memory'[u + k] = memory[u + (n + 1 - k)]
      /\ \A j \in Interpret!Words : u + n < j => memory'[j] = memory[j]
  BY <1>2, <1>3
<1>7. q \in Int /\ q + 1 = u - 2 /\ q + 2 = u - 1 /\ q + 3 = u BY <1>4
<1>8. arg_sizes'[1] = n
  <2>1. PICK s : s = arg_sizes OBVIOUS
  <2>2. s \in Seq(Nat) BY <1>1, <2>1 DEF ArgSizesOK
  <2>3. (<<n>> \o s)[1] = n BY <2>2
  <2> QED BY <1>5, <2>1, <2>3
<1>9. Reserved(t)' = 0 BY <1>1 DEF Reserved, vars, code, Entries
<1>10. \A j \in Interpret!Words : Interpret!Read(j) = memory[j] /\ Interpret!Read(j)' = memory'[j]
  BY DEF Interpret!Read, Interpret!Words
<1>11. \A j \in Int : 0 <= j /\ j <= u + n + c => j \in Interpret!Words
  <2>1. PICK B, s : B = fp /\ s = Interpret!START OBVIOUS
  <2>2. B \in Int /\ s \in Nat /\ s < STACK /\ STACK \in Nat /\ B + 3 <= s /\ u + n + c <= B - r
    BY <1>1, <1>4, <2>1, StartFacts
  <2>3. u + n + c < STACK
    <3>1. PICK y : y = u + n + c OBVIOUS
    <3>2. y \in Int BY <1>4, <3>1
    <3>3. r \in Nat BY <1>4
    <3> QED BY <2>2, <3>1, <3>2, <3>3
  <2>4. PICK y : y = u + n + c OBVIOUS
  <2>5. y \in Int /\ y < STACK BY <1>4, <2>3, <2>4
  <2> QED BY <2>2, <2>4, <2>5, StartFacts
<1>12. Current' = RecordAt(q, t, q, n)' BY <1>5, <1>8 DEF Current
<1>13. ArgsAt(q, n)' = [k \in 1..n |-> Interpret!Peek(n + 1 - k)]
  <2>1. ASSUME NEW k \in 1..n PROVE Interpret!Read(q + 3 + k)' = Interpret!Peek(n + 1 - k)
    <3>1. PICK j, l : j = u + k /\ l = u + (n + 1 - k) OBVIOUS
    <3>2. q + 3 + k = j BY <1>7, <3>1
    <3>3. j \in Int /\ 0 <= j /\ j <= u + n + c /\ l \in Int /\ 0 <= l /\ l <= u + n + c
      BY <1>4, <3>1
    <3>4. j \in Interpret!Words /\ l \in Interpret!Words /\ q + 3 + k = j
      BY <1>11, <3>2, <3>3
    <3>5. memory'[j] = memory[l] BY <1>6, <3>1
    <3>6. Interpret!Peek(n + 1 - k) = Interpret!Read(l) BY <1>2, <3>1 DEF Interpret!Peek
    <3> QED BY <1>10, <3>4, <3>5, <3>6
  <2>2. ArgsAt(q, n)' = [k \in 1..n |-> Interpret!Read(q + 3 + k)'] BY DEF ArgsAt
  <2> QED BY <2>1, <2>2
<1>14. ClosureAt(q, n)' = IF c = 0 THEN Null ELSE Interpret!Peek(n + 1)
  <2>1. u - 2 \in Interpret!Words
    <3>1. u - 2 \in Int /\ 0 <= u - 2 /\ u - 2 <= u + n + c BY <1>4
    <3> QED BY <1>11, <3>1
  <2>2. Interpret!Read(q + 1)' = At(u + n + c) BY <1>5, <1>7, <1>10, <2>1
  <2>3. At(u + n + c)[2] = u + n + c BY DEF At
  <2>4. ClosureAt(q, n)' = IF u + n + c = q + 3 + n + 1 THEN Interpret!Read(q + 4 + n)' ELSE Null
    BY <2>2, <2>3 DEF ClosureAt, Null
  <2>5. CASE c = 0
    <3>1. u + n + c # q + 3 + n + 1 BY <1>4, <1>7, <2>5
    <3> QED BY <2>4, <2>5, <3>1
  <2>6. CASE c = 1
    <3>1. u + n + c = q + 3 + n + 1 BY <1>4, <1>7, <2>6
    <3>2. PICK j : j = u + (n + 1) OBVIOUS
    <3>3. j \in Int /\ 0 <= j /\ j <= u + n + c /\ u + n < j /\ q + 4 + n = j
      BY <1>4, <1>7, <2>6, <3>2
    <3>4. j \in Interpret!Words BY <1>11, <3>3
    <3>5. Interpret!Peek(n + 1) = Interpret!Read(j) BY <1>2, <3>2 DEF Interpret!Peek
    <3>6. Interpret!Read(j)' = Interpret!Read(j) BY <1>6, <1>10, <3>4, <3>3
    <3> QED BY <2>4, <2>6, <3>1, <3>5, <3>6, <3>3
  <2> QED BY <1>4, <2>5, <2>6
<1>15. LocalsAt(q, 0)' = <<>> BY DEF LocalsAt
<1>16. OperandsAt(q, q - 0 - q)' = <<>>
  <2>1. q - 0 - q = 0 BY <1>7
  <2>2. OperandsAt(q, 0)' = <<>> BY DEF OperandsAt
  <2> QED BY <2>1, <2>2
<1>17. Interpret!Read(q + 3)' = Code(ip + 1)
  <2>1. u \in Interpret!Words
    <3>1. u \in Int /\ 0 <= u /\ u <= u + n + c BY <1>4
    <3> QED BY <1>11, <3>1
  <2> QED BY <1>5, <1>7, <1>10, <2>1
<1> QED
  BY <1>9, <1>12, <1>13, <1>14, <1>15, <1>16, <1>17 DEF RecordAt, Interpret!Records!Record

\* The caller's frame is the one that the callee's words lead to.
LEMMA CallerIs ==
  ASSUME Onward, NEW n \in Nat, NEW c \in {0, 1}, Needs(program[ip]) = n + c, NEW t \in Entries,
         Interpret!Enter(n, c, t), NEW x, NEW at2, NEW free2, Chain(x, at2, free2)'
  PROVE  /\ Len(arg_sizes') = Len(arg_sizes) + 1
         /\ \A k \in 1..Len(arg_sizes) : arg_sizes'[k + 1] = arg_sizes[k]
         /\ x[1 + 1] = fp /\ at2[1 + 1] = ip + 1 /\ free2[1 + 1] + 1 = top + n + c
<1>1. PICK s, z : s = arg_sizes /\ z = arg_sizes' OBVIOUS
<1>2. s \in Seq(Nat) /\ s # <<>> BY <1>1 DEF Onward, Ready, ChainInv
<1>3. /\ top' = top - 3 /\ fp' = top - 3 /\ z = <<n>> \o s
      /\ memory'[top] = Code(ip + 1) /\ memory'[top - 1] = At(fp) /\ memory'[top - 2] = At(top + n + c)
  BY <1>1, EnterFacts
<1>4. Len(z) = Len(s) + 1 /\ \A k \in 1..Len(s) : z[k + 1] = s[k]
  <2>1. Len(s) \in Nat BY <1>2
  <2>2. <<n>> \in Seq(Nat) /\ Len(<<n>>) = 1 OBVIOUS
  <2>3. Len(z) = 1 + Len(s) BY <1>2, <1>3, <2>2
  <2>4. ASSUME NEW k \in 1..Len(s) PROVE z[k + 1] = s[k]
    <3>1. PICK j : j = k + 1 OBVIOUS
    <3>2. j \in 1..(1 + Len(s)) /\ j > 1 /\ j - 1 = k BY <2>1, <3>1
    <3>3. z[j] = s[j - 1] BY <1>2, <1>3, <2>2, <3>2
    <3> QED BY <3>1, <3>2, <3>3
  <2> QED BY <2>1, <2>3, <2>4
<1>5. PICK l, m : l = 2 /\ m = Len(z) OBVIOUS
<1>6. l \in 2..m /\ l - 1 = 1
  <2>1. Len(s) \in Nat /\ Len(s) # 0 BY <1>2
  <2> QED BY <1>4, <1>5, <2>1
<1>7. Stands(x[l - 1], arg_sizes[l - 1], at2[l], x[l], free2[l])' /\ x[1] = fp'
  BY <1>1, <1>5, <1>6 DEF Chain
<1>8. PICK y : y = x[l - 1] OBVIOUS
<1>9. y = fp' BY <1>6, <1>7, <1>8
<1>10. memory'[y + 1] = At(free2[l] + 1) /\ memory'[y + 2] = At(x[l]) /\ memory'[y + 3] = Code(at2[l])
  BY <1>7, <1>8 DEF Stands
<1>11. y + 1 = top - 2 /\ y + 2 = top - 1 /\ y + 3 = top
  <2>1. top \in Int BY ReadyFacts DEF Onward
  <2> QED BY <1>3, <1>9, <2>1
<1>12. free2[l] + 1 = top + n + c /\ x[l] = fp /\ at2[l] = ip + 1
  BY <1>3, <1>10, <1>11 DEF At, Code
<1>13. l = 1 + 1 BY <1>5
<1> QED BY <1>1, <1>4, <1>12, <1>13

\* The caller's record: without the operands that the call takes.
LEMMA CallerRecord ==
  ASSUME Onward, program[ip].op \in {"CALL", "CALLC"},
         NEW n \in Nat, NEW c \in {0, 1}, Needs(program[ip]) = n + c, NEW t \in Entries,
         Interpret!Enter(n, c, t)
  PROVE  \E B, i, hi, a :
           /\ B = fp /\ i = ip + 1 /\ hi = top + n + c /\ a = arg_sizes[1]
           /\ RecordAt(B, i, hi, a)' = RecordAt(B, i, hi, a)
           /\ RecordAt(B, i, hi, a)
                = [Current EXCEPT !.operands = SubSeq(@, Needs(program[ip]) + 1, Len(@))]
<1>0. PICK B, i, hi, a : B = fp /\ i = ip + 1 /\ hi = top + n + c /\ a = arg_sizes[1] OBVIOUS
<1>1. /\ Accepted /\ ArgSizesOK /\ fp \in Int /\ top \in Int /\ ip \in Offsets /\ WordsInv
      /\ -1 <= top /\ fp + 3 <= Interpret!START
      /\ Needs(program[ip]) \in Nat /\ Reserved(ip) \in Nat /\ Operands(ip, fp, top) \in Nat
      /\ top + Operands(ip, fp, top) + Reserved(ip) = fp
      /\ Needs(program[ip]) <= Operands(ip, fp, top)
      /\ UNCHANGED vars
  BY ReadyFacts DEF Onward, Ready
<1>2. PICK t0, m, d, r, s :
        /\ t0 = top /\ m = Needs(program[ip]) /\ d = Operands(ip, fp, top)
        /\ r = Reserved(ip) /\ s = Interpret!START
  OBVIOUS
<1>3. /\ B \in Int /\ t0 \in Int /\ m \in Nat /\ d \in Nat /\ r \in Nat /\ s \in Nat /\ a \in Nat
      /\ -1 <= t0 /\ m <= d /\ t0 + d + r = B /\ hi = t0 + m /\ B + 3 <= s /\ m = n + c
      /\ c \in {0, 1}
  BY <1>0, <1>1, <1>2, StartFacts, FirstSize
<1>4. hi \in Int /\ -1 <= hi /\ hi <= B - r /\ B - r - t0 = d /\ B - r - hi = d - m
  <2>1. hi \in Int /\ -1 <= hi /\ hi <= B - r /\ B - r - t0 = d BY <1>3
  <2>2. B - r - hi = d - m
    <3>1. B = t0 + d + r /\ hi = t0 + m BY <1>3
    <3>2. t0 \in Int /\ d \in Int /\ r \in Int /\ m \in Int BY <1>3
    <3> QED BY <3>1, <3>2
  <2> QED BY <2>1, <2>2
<1>5. i \in Offsets /\ Reserved(i) = r
  <2>1. FollowedBy(ip, i) /\ program[ip].op \notin Begins BY <1>0 DEF FollowedBy, Begins
  <2> QED BY <1>1, <1>2, <2>1, SameFunction
<1>6. Reserved(i)' = r
  <2>1. UNCHANGED program BY <1>1 DEF vars, code
  <2>2. Reserved(i)' = Reserved(i) BY <2>1 DEF Reserved
  <2> QED BY <1>5, <2>2
<1>7. Untouched(hi)
  <2>1. \A j \in Interpret!Words : top + n < j => memory'[j] = memory[j] BY EnterFacts
  <2>2. \A j \in Interpret!Words : hi < j => top + n < j
    <3>1. t0 + n <= hi /\ t0 + n \in Int /\ Interpret!Words \subseteq Int BY <1>3, StartFacts
    <3> QED BY <1>0, <1>2, <1>4, <3>1
  <2> QED BY <2>1, <2>2 DEF Untouched
<1>8. RecordAt(B, i, hi, a)' = RecordAt(B, i, hi, a)
  <2>1. PICK b, at, free : Chain(b, at, free) BY DEF Onward, Ready, ChainInv
  <2>2. 1 \in 1..Len(arg_sizes) /\ b[1] = fp BY <1>1, <2>1 DEF ArgSizesOK, Chain
  <2>3. /\ B + 3 + a <= s
        /\ Interpret!Read(B + 1)[2] = B + 3 + a + 1 => B + 4 + a <= s
    BY <1>0, <1>1, <1>2, <2>1, <2>2, Extent
  <2>4. hi <= B - Reserved(i) /\ B + 3 + a <= Interpret!START BY <1>2, <1>4, <1>5, <2>3
  <2>5. Interpret!Read(B + 1)[2] = B + 3 + a + 1 => B + 4 + a <= Interpret!START BY <1>2, <2>3
  <2>6. Accepted /\ UNCHANGED vars /\ i \in Offsets BY <1>1, <1>5
  <2>7. B \in Int /\ hi \in Int /\ a \in Nat /\ -1 <= hi BY <1>3, <1>4
  <2> QED BY <1>7, <2>4, <2>5, <2>6, <2>7, RecordKept
<1>9. OperandsAt(hi, d - m) = SubSeq(OperandsAt(t0, d), m + 1, Len(OperandsAt(t0, d)))
  <2>1. m \in 0..d BY <1>3
  <2>2. hi = t0 + m /\ t0 \in Int /\ d \in Nat BY <1>3
  <2> QED BY <1>1, <2>1, <2>2, OperandsBelow
<1>10. PICK o : o = OperandsAt(t0, d) OBVIOUS
<1>11. Current = [args |-> ArgsAt(B, a), closure |-> ClosureAt(B, a), locals |-> LocalsAt(B, r),
                  operands |-> o, ra |-> Interpret!Read(B + 3)]
  BY <1>0, <1>2, <1>4, <1>10 DEF Current, RecordAt
<1>12. RecordAt(B, i, hi, a)
         = [args |-> ArgsAt(B, a), closure |-> ClosureAt(B, a), locals |-> LocalsAt(B, r),
            operands |-> SubSeq(o, m + 1, Len(o)), ra |-> Interpret!Read(B + 3)]
  BY <1>4, <1>5, <1>9, <1>10 DEF RecordAt
<1>13. RecordAt(B, i, hi, a) = [Current EXCEPT !.operands = SubSeq(@, m + 1, Len(@))]
  <2>1. PICK C, D, x, y, z, w, q :
          /\ C = Current /\ D = RecordAt(B, i, hi, a) /\ x = ArgsAt(B, a) /\ y = ClosureAt(B, a)
          /\ z = LocalsAt(B, r) /\ w = Interpret!Read(B + 3) /\ q = SubSeq(o, m + 1, Len(o))
    OBVIOUS
  <2>2. /\ C = [args |-> x, closure |-> y, locals |-> z, operands |-> o, ra |-> w]
        /\ D = [args |-> x, closure |-> y, locals |-> z, operands |-> q, ra |-> w]
    BY <1>11, <1>12, <2>1
  <2>3. C.operands = o BY <2>2
  <2>4. D = [C EXCEPT !.operands = q] BY <2>2
  <2> QED BY <2>1, <2>3, <2>4
<1> QED BY <1>0, <1>2, <1>8, <1>13

\* The frames below the first one are one place further on.
LEMMA FramesFurther ==
  ASSUME Accepted, Accepted', ArgSizesOK, ArgSizesOK', UNCHANGED vars,
         NEW b, NEW at, NEW free, Chain(b, at, free),
         NEW x, NEW at2, NEW free2, Chain(x, at2, free2)',
         Len(arg_sizes') = Len(arg_sizes) + 1, x[1 + 1] = b[1], SizesStay(1, 1),
         WordsStay(b[1], arg_sizes[1])
  PROVE  \A k \in (1 + 1)..Len(arg_sizes) : Interpret!Frames'[k + 1] = Interpret!Frames[k]
<1>1. PICK p, e : p = 1 /\ e = 1 OBVIOUS
<1>2. e \in Int /\ p + e >= 1 BY <1>1
<1>3. p \in 1..Len(arg_sizes)
  <2>1. PICK n : n = Len(arg_sizes) OBVIOUS
  <2>2. n \in Nat /\ n # 0 BY <2>1 DEF ArgSizesOK
  <2> QED BY <1>1, <2>1, <2>2
<1>4. Len(arg_sizes') = Len(arg_sizes) + e /\ x[p + e] = b[p] BY <1>1
<1>5. SizesStay(p, e) /\ WordsStay(b[p], arg_sizes[p]) BY <1>1
<1>6. \A k \in (p + 1)..Len(arg_sizes) :
        /\ Interpret!Frames'[k + e] = Interpret!Frames[k]
        /\ x[k + e] = b[k] /\ at2[k + e] = at[k] /\ free2[k + e] = free[k]
  <2>1. e \in Int /\ p + e >= 1 BY <1>2
  <2>2. Len(arg_sizes') = Len(arg_sizes) + e BY <1>4
  <2>3. x[p + e] = b[p] BY <1>4
  <2>4. SizesStay(p, e) BY <1>5
  <2>5. WordsStay(b[p], arg_sizes[p]) BY <1>5
  <2> QED BY <1>3, <2>1, <2>2, <2>3, <2>4, <2>5, RestStays
<1> QED BY <1>1, <1>6

\* A call pushes the record of the callee, and the caller's loses its operands.
LEMMA EnterMaps ==
  ASSUME Onward, program[ip].op \in {"CALL", "CALLC"},
         NEW n \in Nat, NEW c \in {0, 1}, Needs(program[ip]) = n + c, NEW t \in Entries,
         Interpret!Enter(n, c, t)
  PROVE  /\ Interpret!Frames'
              = <<Interpret!Records!Record([k \in 1..n |-> Interpret!Peek(n + 1 - k)],
                                           IF c = 0 THEN Null ELSE Interpret!Peek(n + 1), Code(ip + 1)),
                  [Interpret!Frames[1] EXCEPT !.operands = SubSeq(@, Needs(program[ip]) + 1, Len(@))]>>
                \o Tail(Interpret!Frames)
         /\ Interpret!GlobalValues' = Interpret!GlobalValues
<1>1. PICK b, at, free : Chain(b, at, free) BY DEF Onward, Ready, ChainInv
<1>2. \E x, at2, free2 : Chain(x, at2, free2)' BY DEF Onward, ChainInv
<1>3. PICK x, at2, free2 : Chain(x, at2, free2)' BY <1>2
<1>4. /\ Accepted /\ Accepted' /\ ArgSizesOK /\ ArgSizesOK' /\ UNCHANGED vars
  BY DEF Onward, Ready, ChainInv, ArgSizesOK
<1>5. PICK N, M, B, i, hi, a : /\ N = Len(arg_sizes) /\ M = Len(arg_sizes') /\ B = fp /\ i = ip + 1
                               /\ hi = top + n + c /\ a = arg_sizes[1]
  OBVIOUS
<1>6. N \in Nat \ {0} /\ M = N + 1 /\ 1 \in 1..N /\ 2 \in 1..M
  <2>1. N \in Nat /\ N # 0 BY <1>4, <1>5 DEF ArgSizesOK
  <2>2. M = N + 1 BY <1>3, <1>5, CallerIs
  <2> QED BY <2>1, <2>2
<1>7. b[1] = B /\ x[1] = fp' BY <1>1, <1>3, <1>5 DEF Chain
<1>8. /\ \A k \in 1..N : arg_sizes'[k + 1] = arg_sizes[k]
      /\ x[1 + 1] = B /\ at2[1 + 1] = i /\ free2[1 + 1] + 1 = hi
  <2>1. /\ \A k \in 1..Len(arg_sizes) : arg_sizes'[k + 1] = arg_sizes[k]
        /\ x[1 + 1] = fp /\ at2[1 + 1] = ip + 1 /\ free2[1 + 1] + 1 = top + n + c
    BY <1>3, CallerIs
  <2> QED BY <1>5, <2>1
<1>9. \A j \in Interpret!Words : B < j => memory'[j] = memory[j]
  <2>1. PICK u, r : u = top /\ r = Reserved(ip) OBVIOUS
  <2>2. u \in Int /\ r \in Nat /\ B \in Int BY <1>5, <2>1, ReadyFacts DEF Onward
  <2>3. u + n + c <= B - r /\ \A j \in Interpret!Words : u + n < j => memory'[j] = memory[j]
    BY <1>5, <2>1, EnterFacts
  <2>4. u + n <= B
    <3>1. u + n + c <= B - r BY <2>3
    <3>2. c \in Nat OBVIOUS
    <3> QED BY <2>2, <3>1, <3>2
  <2>5. \A j \in Interpret!Words : B < j => u + n < j
    <3>1. Interpret!Words \subseteq Int BY StartFacts
    <3> QED BY <2>2, <2>4, <3>1
  <2> QED BY <2>3, <2>5
<1>10. \A k \in 2..N : Interpret!Frames'[k + 1] = Interpret!Frames[k]
  <2>1. Accepted /\ Accepted' /\ ArgSizesOK /\ ArgSizesOK' /\ UNCHANGED vars BY <1>4
  <2>2. Len(arg_sizes') = Len(arg_sizes) + 1 BY <1>5, <1>6
  <2>3. x[1 + 1] = b[1] BY <1>7, <1>8
  <2>4. SizesStay(1, 1) BY <1>5, <1>8 DEF SizesStay
  <2>5. WordsStay(b[1], arg_sizes[1]) BY <1>7, <1>9 DEF WordsStay
  <2>6. \A k \in (1 + 1)..Len(arg_sizes) : Interpret!Frames'[k + 1] = Interpret!Frames[k]
    BY <1>1, <1>3, <2>1, <2>2, <2>3, <2>4, <2>5, FramesFurther
  <2>7. \A k \in 2..N : k \in (1 + 1)..Len(arg_sizes) BY <1>5, <1>6
  <2> QED BY <2>6, <2>7
<1>11. PICK f, g : f = Interpret!Frames /\ g = Interpret!Frames' OBVIOUS
<1>12. Listed(f, N) /\ Listed(g, N + 1) /\ f[1] = Current /\ g[1] = Current'
  <2>1. Listed(f, N) BY <1>5, <1>11 DEF Interpret!Frames, Interpret!Depth, Listed
  <2>2. Listed(g, M) BY <1>5, <1>11 DEF Interpret!Frames, Interpret!Depth, Listed
  <2>3. f[1] = Current BY <1>1, <1>4, <1>11, FramesAre DEF FramesFollow
  <2>4. g[1] = Current' BY <1>3, <1>4, <1>11, FramesAreNext DEF FramesFollow
  <2> QED BY <1>6, <2>1, <2>2, <2>3, <2>4
<1>13. g = <<g[1], g[2]>> \o Tail(f)
  <2>1. \A k \in 2..N : g[k + 1] = f[k] BY <1>10, <1>11
  <2> QED BY <1>6, <1>12, <2>1, NewHeads
<1>14. g[2] = [f[1] EXCEPT !.operands = SubSeq(@, Needs(program[ip]) + 1, Len(@))]
  <2>1. PICK k : k = 2 OBVIOUS
  <2>2. k \in 1..Len(arg_sizes') /\ k # 1 BY <1>5, <1>6, <2>1
  <2>3. g[k] = RecordAt(x[k], at2[k], free2[k] + 1, arg_sizes[k])'
    BY <1>3, <1>4, <1>11, <2>2, FramesAreNext DEF FramesFollow
  <2>4. k = 1 + 1 BY <2>1
  <2>5. x[k] = B /\ at2[k] = i /\ free2[k] + 1 = hi /\ arg_sizes'[k] = a
    <3>1. arg_sizes'[1 + 1] = arg_sizes[1] BY <1>6, <1>8
    <3> QED BY <1>5, <1>8, <2>4, <3>1
  <2>6. g[k] = RecordAt(B, i, hi, a)' BY <2>3, <2>5
  <2>7. RecordAt(B, i, hi, a)'
          = [Current EXCEPT !.operands = SubSeq(@, Needs(program[ip]) + 1, Len(@))]
    <3>1. PICK y, j, l, m :
            /\ y = fp /\ j = ip + 1 /\ l = top + n + c /\ m = arg_sizes[1]
            /\ RecordAt(y, j, l, m)' = RecordAt(y, j, l, m)
            /\ RecordAt(y, j, l, m)
                 = [Current EXCEPT !.operands = SubSeq(@, Needs(program[ip]) + 1, Len(@))]
      BY CallerRecord
    <3>2. y = B /\ j = i /\ l = hi /\ m = a BY <1>5, <3>1
    <3> QED BY <3>1, <3>2
  <2> QED BY <1>12, <2>1, <2>6, <2>7
<1>15. g[1] = Interpret!Records!Record([k \in 1..n |-> Interpret!Peek(n + 1 - k)],
                                        IF c = 0 THEN Null ELSE Interpret!Peek(n + 1), Code(ip + 1))
  BY <1>12, CalleeRecord
<1>16. Interpret!GlobalValues' = Interpret!GlobalValues
  <2>1. PICK s : s = Interpret!START OBVIOUS
  <2>2. B + 3 <= s /\ B \in Int /\ s \in Int /\ Interpret!Words \subseteq Int
    BY <1>5, <2>1, ReadyFacts, StartFacts DEF Onward
  <2>3. \A j \in Interpret!Words : s < j => B < j BY <2>2
  <2> QED BY <1>9, <2>1, <2>3, GlobalsSame
<1> QED BY <1>11, <1>13, <1>14, <1>15, <1>16

LEMMA EnterIsCall ==
  ASSUME Onward, program[ip].op \in {"CALL", "CALLC"},
         NEW n \in Nat, NEW c \in {0, 1}, Needs(program[ip]) = n + c, NEW t \in Entries,
         Interpret!Enter(n, c, t),
         program[ip].op = "CALL" => n = program[ip].b /\ c = 0 /\ t = program[ip].a,
         program[ip].op = "CALLC" =>
           n = program[ip].a /\ c = 1 /\ t = closures[Interpret!Peek(n + 1)[2]].at
  PROVE  Interpret!Records!Call
<1>1. /\ Interpret!Frames'
           = <<Interpret!Records!Record([k \in 1..n |-> Interpret!Peek(n + 1 - k)],
                                        IF c = 0 THEN Null ELSE Interpret!Peek(n + 1), Code(ip + 1)),
               [Interpret!Frames[1] EXCEPT !.operands = SubSeq(@, Needs(program[ip]) + 1, Len(@))]>>
             \o Tail(Interpret!Frames)
      /\ Interpret!GlobalValues' = Interpret!GlobalValues
  BY EnterMaps
<1>2. ip' = t /\ UNCHANGED closures BY EnterFacts
<1>3. UNCHANGED <<program, status>> BY DEF vars, code, Onward, Ready
<1>4. PICK o : o = Interpret!Records!Operands OBVIOUS
<1>5. \A k \in 1..(n + c) : o[k] = Interpret!Peek(k)
  <2>1. Ready BY DEF Onward
  <2>2. \A k \in 1..Needs(program[ip]) : Interpret!Records!Operands[k] = Interpret!Peek(k)
    BY <2>1, OperandsArePeeks
  <2> QED BY <1>4, <2>2
<1>6. [k \in 1..n |-> Interpret!Peek(n + 1 - k)] = [k \in 1..n |-> o[n + 1 - k]]
  <2>1. ASSUME NEW k \in 1..n PROVE Interpret!Peek(n + 1 - k) = o[n + 1 - k]
    <3>1. n + 1 - k \in 1..(n + c) OBVIOUS
    <3> QED BY <1>5, <3>1
  <2> QED BY <2>1
<1>7. c = 1 => Interpret!Peek(n + 1) = o[n + 1]
  <2>1. c = 1 => n + 1 \in 1..(n + c) OBVIOUS
  <2> QED BY <1>5, <2>1
<1>8. Interpret!Frames[1].operands = o BY <1>4 DEF Interpret!Records!Operands
<1>9. PICK cl, as : /\ cl = (IF c = 0 THEN Null ELSE Interpret!Peek(n + 1))
                    /\ as = [k \in 1..n |-> o[n + 1 - k]]
  OBVIOUS
<1>10. Interpret!Frames'
         = <<Interpret!Records!Record(as, cl, Code(ip + 1)),
             [Interpret!Frames[1] EXCEPT !.operands = SubSeq(o, Needs(program[ip]) + 1, Len(o))]>>
           \o Tail(Interpret!Frames)
  BY <1>1, <1>6, <1>8, <1>9
<1>11. CASE program[ip].op = "CALL"
  <2>1. n = program[ip].b /\ cl = Null /\ t = program[ip].a BY <1>9, <1>11
  <2> QED BY <1>1, <1>2, <1>3, <1>4, <1>9, <1>10, <1>11, <2>1, RecordNames DEF Interpret!Records!Call
<1>12. CASE program[ip].op = "CALLC"
  <2>1. n = program[ip].a /\ cl = o[n + 1] /\ t = closures[cl[2]].at BY <1>7, <1>9, <1>12
  <2> QED BY <1>1, <1>2, <1>3, <1>4, <1>9, <1>10, <1>12, <2>1, RecordNames DEF Interpret!Records!Call
<1> QED BY <1>11, <1>12

LEMMA CallMaps ==
  ASSUME Onward, Interpret!Call \/ Interpret!CallClosure
  PROVE  Interpret!Records!Next
<1>1. /\ Ready /\ Accepted /\ WordsInv /\ ip \in Offsets /\ program[ip] \in Instruction
      /\ Entered(program) /\ Compiled(program)
  BY ReadyFacts DEF Onward, Ready, Accepted, Traceable, Coverable
<1>2. CASE Interpret!Call
  <2>1. program[ip].op = "CALL" /\ Interpret!Enter(program[ip].b, 0, program[ip].a)
    BY <1>2, WordNames DEF Interpret!Call, Interpret!Handles
  <2>2. PICK n, c, t : n = program[ip].b /\ c = 0 /\ t = program[ip].a OBVIOUS
  <2>3. n \in Nat /\ Needs(program[ip]) = n + c /\ c \in {0, 1}
    BY <1>1, <2>1, <2>2, EffectOf
  <2>4. t \in Entries
    <3>1. t \in Offsets BY <1>1, <2>1, <2>2 DEF Entered, Jumps, Offsets
    <3>2. program[t].op \in Begins BY <1>1, <2>1, <2>2, <3>1 DEF Compiled, Jumps, Offsets
    <3> QED BY <3>1, <3>2 DEF Entries
  <2>5. Interpret!Enter(n, c, t) BY <2>1, <2>2
  <2>6. program[ip].op = "CALL" => n = program[ip].b /\ c = 0 /\ t = program[ip].a BY <2>2
  <2>7. program[ip].op # "CALLC" BY <2>1
  <2>8. program[ip].op \in {"CALL", "CALLC"} BY <2>1
  <2>9. Interpret!Records!Call BY <2>3, <2>4, <2>5, <2>6, <2>7, <2>8, EnterIsCall
  <2> QED BY <1>1, <2>9 DEF Interpret!Records!Next, Ready
<1>3. CASE Interpret!CallClosure
  <2>1. PICK n, c : n = program[ip].a /\ c = 1 OBVIOUS
  <2>2. PICK w : w = Interpret!Peek(n + 1) OBVIOUS
  <2>3. PICK t : t = closures[w[2]].at OBVIOUS
  <2>4. /\ program[ip].op = "CALLC" /\ w[1] = "closure" /\ Interpret!Enter(n, c, t)
    <3>1. /\ program[ip].op = "CALLC"
          /\ \/ w[1] = "closure" /\ Interpret!Enter(n, c, t)
             \/ Interpret!Stop("undefined")
      BY <1>3, <2>1, <2>2, <2>3, WordNames DEF Interpret!CallClosure, Interpret!Handles
    <3>2. ~Interpret!Stop("undefined") BY DEF Interpret!Stop, Onward
    <3> QED BY <3>1, <3>2
  <2>5. t \in Entries
    <3>1. w \in Sound BY <1>1, <2>2, ReadSound DEF Interpret!Peek
    <3>2. w[2] \in DOMAIN closures BY <2>4, <3>1 DEF Sound
    <3>3. closures[w[2]] \in [at : Entries, captured : Seq(Sound)] BY <1>1, <3>2, ClosureSound
    <3> QED BY <2>3, <3>3
  <2>6. n \in Nat /\ Needs(program[ip]) = n + c /\ c \in {0, 1}
    BY <1>1, <2>1, <2>4, EffectOf
  <2>7. program[ip].op = "CALLC" =>
          n = program[ip].a /\ c = 1 /\ t = closures[Interpret!Peek(n + 1)[2]].at
    BY <2>1, <2>2, <2>3
  <2>8. program[ip].op # "CALL" BY <2>4
  <2>9. program[ip].op \in {"CALL", "CALLC"} BY <2>4
  <2>10. Interpret!Records!Call BY <2>4, <2>5, <2>6, <2>7, <2>8, <2>9, EnterIsCall
  <2> QED BY <1>1, <2>10 DEF Interpret!Records!Next, Ready
<1> QED BY <1>2, <1>3

\* BEGIN gives the record its locals: whatever words lie there.
LEMMA BeginMaps ==
  ASSUME Onward, Interpret!BeginFunction
  PROVE  Interpret!Records!Next
<1>1. /\ Ready /\ Accepted /\ WordsInv /\ ArgSizesOK /\ fp \in Int /\ top \in Int /\ ip \in Offsets
      /\ program[ip] \in Instruction /\ UNCHANGED vars
  BY ReadyFacts DEF Onward, Ready
<1>2. program[ip].op \in Begins
  BY WordNames DEF Interpret!BeginFunction, Interpret!Handles
<1>3. PICK B, i, t, a, r : /\ B = fp /\ i = ip + 1 /\ t = top' /\ a = arg_sizes[1]
                           /\ r = program[ip].b
  OBVIOUS
<1>4. ip' = i /\ top' = top - r /\ UNCHANGED <<memory, fp, arg_sizes, closures>>
  <2>1. ~Interpret!Stop("error") BY DEF Interpret!Stop, Onward
  <2> QED BY <1>3, <2>1, WordNames DEF Interpret!BeginFunction, Interpret!frame
<1>5. r \in Nat BY <1>1, <1>3, EffectOf
<1>6. top = B
  <2>1. PICK b, at, free : Chain(b, at, free) BY <1>1 DEF Ready, ChainInv
  <2> QED BY <1>2, <1>3, <2>1 DEF Chain
<1>7. Reserved(ip) = 0 BY <1>2 DEF Reserved
<1>8. Reserved(i)' = r
  <2>1. FollowedBy(ip, i) BY <1>2, <1>3 DEF FollowedBy, Begins
  <2>2. BeginOf(program, i) = BeginOf(program, ip) /\ program[i].op \notin Begins
    BY <1>1, <2>1, SameFunction
  <2>3. ip \in Nat \ {0} BY <1>1, InFunction
  <2>4. BeginOf(program, ip) = ip BY <1>2, <2>3, BeginOfBegin
  <2>5. Reserved(i) = r BY <1>3, <2>2, <2>4 DEF Reserved
  <2>6. Reserved(i)' = Reserved(i) BY <1>1 DEF Reserved, vars, code
  <2> QED BY <2>5, <2>6
<1>9. \A j : Interpret!Read(j)' = Interpret!Read(j)
  BY <1>4 DEF Interpret!Read, Interpret!Words, Interpret!Junk
<1>10. ArgsAt(B, a)' = ArgsAt(B, a) /\ ClosureAt(B, a)' = ClosureAt(B, a)
  BY <1>9 DEF ArgsAt, ClosureAt
<1>11. PICK ls : ls = LocalsAt(B, r)' OBVIOUS
<1>12. ls \in [1..r -> AnyWord]
  <2>1. ls = [k \in 1..r |-> Interpret!Read(B - k + 1)'] BY <1>11 DEF LocalsAt
  <2>2. \A k \in 1..r : Interpret!Read(B - k + 1)' \in Sound BY <1>1, <1>9, ReadSound
  <2>3. Sound \subseteq AnyWord BY DEF Sound
  <2> QED BY <2>1, <2>2, <2>3
<1>13. Current = [args |-> ArgsAt(B, a), closure |-> ClosureAt(B, a), locals |-> LocalsAt(B, 0),
                  operands |-> OperandsAt(B, 0), ra |-> Interpret!Read(B + 3)]
  <2>1. B - 0 - B = 0 BY <1>1, <1>3
  <2>2. Current = RecordAt(B, ip, B, a) BY <1>3, <1>6 DEF Current
  <2> QED BY <1>7, <2>1, <2>2 DEF RecordAt
<1>14. Current' = [args |-> ArgsAt(B, a)', closure |-> ClosureAt(B, a)', locals |-> ls,
                   operands |-> OperandsAt(t, 0)', ra |-> Interpret!Read(B + 3)']
  <2>1. B - r - t = 0
    <3>1. t = B - r BY <1>3, <1>4, <1>6
    <3> QED BY <1>1, <1>3, <1>5, <3>1
  <2>2. Current' = RecordAt(B, i, t, a)' BY <1>3, <1>4 DEF Current
  <2> QED BY <1>8, <1>11, <2>1, <2>2 DEF RecordAt
<1>15. OperandsAt(B, 0) = <<>> /\ OperandsAt(t, 0)' = <<>> BY DEF OperandsAt
<1>16. Current' = [Current EXCEPT !.locals = ls] /\ Current'.locals = ls
  <2>1. PICK C, D, x, y, z, w :
          /\ C = Current /\ D = Current' /\ x = ArgsAt(B, a) /\ y = ClosureAt(B, a)
          /\ z = LocalsAt(B, 0) /\ w = Interpret!Read(B + 3)
    OBVIOUS
  <2>2. C = [args |-> x, closure |-> y, locals |-> z, operands |-> <<>>, ra |-> w]
    BY <1>13, <1>15, <2>1
  <2>3. D = [args |-> x, closure |-> y, locals |-> ls, operands |-> <<>>, ra |-> w]
    BY <1>9, <1>10, <1>14, <1>15, <2>1
  <2>4. D = [C EXCEPT !.locals = ls] /\ D.locals = ls BY <2>2, <2>3
  <2> QED BY <2>1, <2>4
<1>17. /\ Interpret!Frames[1] = Current /\ Interpret!Records!Becomes(Current')
  <2>1. Kept(memory') BY <1>4 DEF Kept
  <2>2. UNCHANGED <<fp, arg_sizes>> BY <1>4
  <2> QED BY <2>1, <2>2, InFrame
<1>18. Interpret!Frames'[1] = Current'
  <2>1. \E x, at2, free2 : Chain(x, at2, free2)' BY DEF Onward, ChainInv
  <2>2. PICK x, at2, free2 : Chain(x, at2, free2)' BY <2>1
  <2>3. Accepted' /\ ArgSizesOK' BY DEF Onward, ChainInv, ArgSizesOK
  <2> QED BY <2>2, <2>3, FramesAreNext DEF FramesFollow
<1>19. Interpret!GlobalValues' = Interpret!GlobalValues BY <1>4, GlobalsSame
<1>20. UNCHANGED <<program, status>> BY <1>1 DEF vars, code, Onward, Ready
<1>21. Interpret!Records!Begin
  <2>1. Interpret!Frames'[1].locals = ls BY <1>16, <1>18
  <2>2. Interpret!Records!Becomes([Interpret!Frames[1] EXCEPT !.locals = Interpret!Frames'[1].locals])
    BY <1>16, <1>17, <2>1
  <2>3. Interpret!Frames'[1].locals \in [1..program[ip].b -> AnyWord] BY <1>3, <1>12, <2>1
  <2> QED BY <1>2, <1>3, <1>4, <1>19, <1>20, <2>2, <2>3, RecordNames DEF Interpret!Records!Begin
<1> QED BY <1>1, <1>21 DEF Interpret!Records!Next, Ready

\* What END leaves: the frame that the running one stands on, with the result on it.
LEMMA PopFacts ==
  ASSUME Onward, Interpret!EndFunction, NEW b, NEW at, NEW free, Chain(b, at, free)
  PROVE  /\ Len(arg_sizes) # 1 /\ program[ip].op = "END"
         /\ top' = free[2] /\ fp' = b[2] /\ ip' = at[2] /\ arg_sizes' = Tail(arg_sizes)
         /\ UNCHANGED closures /\ Interpret!Read(fp + 3) = Code(at[2])
         /\ memory'[free[2] + 1] = Interpret!Peek(1)
         /\ \A j \in Interpret!Words : free[2] + 1 < j => memory'[j] = memory[j]
         /\ at[2] \in Offsets /\ b[2] \in Int /\ free[2] \in Int /\ -1 <= free[2]
         /\ free[2] + 1 \in Interpret!Words /\ Reserved(at[2]) \in Nat
         /\ free[2] + 1 <= b[2] - Reserved(at[2])
<1>1. /\ Accepted /\ WordsInv /\ ArgSizesOK /\ fp \in Int /\ top \in Int /\ Ready
      /\ memory \in [Interpret!Words -> Sound]
  BY ReadyFacts DEF Onward, Ready, WordsInv
<1>2. PICK val, back, saved, ra :
        /\ val = Interpret!Peek(1) /\ back = Interpret!Read(fp + 1)
        /\ saved = Interpret!Read(fp + 2) /\ ra = Interpret!Read(fp + 3)
  OBVIOUS
<1>3. /\ back[1] = "at" /\ saved[1] = "at" /\ ra[1] = "code"
      /\ memory' = Interpret!Written(memory, back[2], <<val>>)
      /\ top' = back[2] - 1 /\ fp' = saved[2] /\ arg_sizes' = Tail(arg_sizes) /\ ip' = ra[2]
      /\ UNCHANGED <<closures, status>>
  <2>1. ~Interpret!Stop("finished") /\ ~Interpret!Stop("undefined") BY DEF Interpret!Stop, Onward
  <2> QED BY <1>2, <2>1 DEF Interpret!EndFunction
<1>4. Len(arg_sizes) # 1
  <2> SUFFICES ASSUME Len(arg_sizes) = 1 PROVE FALSE OBVIOUS
  <2>1. fp + 3 = Interpret!START BY <1>1, MainBase
  <2>2. memory[Interpret!START] = Null
    <3>1. b[1] = Interpret!START - 3 /\ memory[b[1] + 3] = Null BY DEF Chain
    <3>2. Interpret!START - 3 + 3 = Interpret!START BY StartFacts
    <3> QED BY <3>1, <3>2
  <2>3. Interpret!START \in Interpret!Words BY StartFacts
  <2>4. ra = Null BY <1>2, <2>1, <2>2, <2>3 DEF Interpret!Read
  <2> QED BY <1>3, <2>4 DEF Null
<1>5. 1 \in 1..Len(arg_sizes) /\ 2 \in 1..Len(arg_sizes) /\ 2 \in 2..Len(arg_sizes)
  <2>1. PICK n : n = Len(arg_sizes) OBVIOUS
  <2>2. n \in Nat /\ n # 0 /\ n # 1 BY <1>1, <1>4, <2>1 DEF ArgSizesOK
  <2> QED BY <2>1, <2>2
<1>6. b[1] = fp BY DEF Chain
<1>7. PICK i, caller, g : i = at[2] /\ caller = b[2] /\ g = free[2] OBVIOUS
<1>8. Stands(fp, arg_sizes[1], i, caller, g)
  <2>1. Stands(b[2 - 1], arg_sizes[2 - 1], at[2], b[2], free[2]) BY <1>5 DEF Chain
  <2>2. 2 - 1 = 1 OBVIOUS
  <2> QED BY <1>6, <1>7, <2>1, <2>2
<1>9. /\ i \in Offsets /\ caller \in Int /\ g \in Int /\ -1 <= g
      /\ Accounted(i, caller, g) /\ caller + 3 <= Interpret!START
  BY <1>1, <1>5, <1>7, FrameFacts DEF Function
<1>10. back = At(g + 1) /\ saved = At(caller) /\ ra = Code(i)
  <2>1. {fp + 1, fp + 2, fp + 3} \subseteq Interpret!Words
    BY <1>1, <1>5, <1>6, FrameFacts
  <2>2. memory[fp + 1] = At(g + 1) /\ memory[fp + 2] = At(caller) /\ memory[fp + 3] = Code(i)
    BY <1>8 DEF Stands
  <2> QED BY <1>2, <2>1, <2>2 DEF Interpret!Read
<1>11. back[2] = g + 1 /\ saved[2] = caller /\ ra[2] = i BY <1>10 DEF At, Code
<1>12. PICK ws, t, r, s : ws = <<val>> /\ t = g + 1 /\ r = Reserved(i) /\ s = Interpret!START
  OBVIOUS
<1>13. ws \in Seq(Sound) /\ Len(ws) = 1 /\ ws[1] = val
  <2>1. val \in Sound BY <1>1, <1>2, ReadSound DEF Interpret!Peek
  <2> QED BY <1>12, <2>1, ShortSeqs
<1>14. r \in Nat /\ t \in Int /\ t <= caller - r /\ 0 <= t /\ t < STACK /\ t - 1 = g
  <2>1. PICK d : d = Operands(i, caller, g) OBVIOUS
  <2>2. d \in Nat /\ g + d + r = caller /\ d >= 1 /\ r \in Nat
    BY <1>1, <1>8, <1>9, <1>12, <2>1, AccountFacts, InFunction DEF Stands
  <2>3. t \in Int /\ t <= caller - r /\ 0 <= t /\ t - 1 = g BY <1>9, <1>12, <2>2
  <2>4. s \in Nat /\ s < STACK /\ STACK \in Nat /\ caller + 3 <= s BY <1>9, <1>12, StartFacts
  <2>5. t < STACK BY <1>9, <2>2, <2>3, <2>4
  <2> QED BY <2>2, <2>3, <2>5
<1>15. t \in Interpret!Words BY <1>14, StartFacts
<1>16. memory' = Interpret!Written(memory, t, ws) BY <1>3, <1>11, <1>12
<1>17. /\ \A j \in Interpret!Words : t < j => memory'[j] = memory[j]
       /\ memory'[t] = val
  <2>1. /\ \A j \in Interpret!Words : t < j => memory'[j] = memory[j]
        /\ \A k \in 1..Len(ws) : t - k + 1 \in Interpret!Words => memory'[t - k + 1] = ws[k]
    <3>1. PICK S, w : S = Sound /\ w = Interpret!Written(memory, t, ws) OBVIOUS
    <3>2. memory \in [Interpret!Words -> S] BY <1>1, <3>1
    <3>3. ws \in Seq(S) BY <1>13, <3>1
    <3>4. t \in Int BY <1>14
    <3>5. /\ \A j \in Interpret!Words : t < j => w[j] = memory[j]
          /\ \A k \in 1..Len(ws) : t - k + 1 \in Interpret!Words => w[t - k + 1] = ws[k]
      BY <3>1, <3>2, <3>3, <3>4, WrittenFacts
    <3> QED BY <1>16, <3>1, <3>5
  <2>2. 1 \in 1..Len(ws) /\ t - 1 + 1 = t BY <1>13, <1>14
  <2>3. memory'[t] = val BY <1>13, <1>15, <2>1, <2>2
  <2> QED BY <2>1, <2>3
<1>18. ip' = i /\ top' = g /\ fp' = caller /\ arg_sizes' = Tail(arg_sizes)
  <2>1. top' = t - 1 BY <1>3, <1>11, <1>12
  <2> QED BY <1>3, <1>11, <1>14, <2>1
<1>19. program[ip].op = "END" BY WordNames DEF Interpret!EndFunction, Interpret!Handles
<1>20. /\ top' = free[2] /\ fp' = b[2] /\ ip' = at[2] /\ arg_sizes' = Tail(arg_sizes)
       /\ UNCHANGED closures /\ Interpret!Read(fp + 3) = Code(at[2])
  BY <1>2, <1>3, <1>7, <1>10, <1>18
<1>21. /\ memory'[free[2] + 1] = Interpret!Peek(1)
       /\ \A j \in Interpret!Words : free[2] + 1 < j => memory'[j] = memory[j]
  BY <1>2, <1>7, <1>12, <1>17
<1>22. /\ at[2] \in Offsets /\ b[2] \in Int /\ free[2] \in Int /\ -1 <= free[2]
       /\ free[2] + 1 \in Interpret!Words /\ Reserved(at[2]) \in Nat
       /\ free[2] + 1 <= b[2] - Reserved(at[2])
  BY <1>7, <1>9, <1>12, <1>14, <1>15
<1> QED BY <1>4, <1>19, <1>20, <1>21, <1>22

\* The caller's record has the result on its operands, and is the same otherwise.
WithResult(record, w) == [record EXCEPT !.operands = <<w>> \o @]

LEMMA ResultPushed ==
  ASSUME Accepted, UNCHANGED vars, NEW base \in Int, NEW i \in Offsets, NEW g \in Int,
         NEW n \in Nat, -1 <= g, g + 1 \in Interpret!Words, g + 1 <= base - Reserved(i),
         base + 3 + n <= Interpret!START,
         Interpret!Read(base + 1)[2] = base + 3 + n + 1 => base + 4 + n <= Interpret!START,
         Untouched(g + 1), NEW w, memory'[g + 1] = w
  PROVE  RecordAt(base, i, g, n)' = WithResult(RecordAt(base, i, g + 1, n), w)
<1>1. PICK t, r, d : t = g + 1 /\ r = Reserved(i) /\ d = base - Reserved(i) - (g + 1) OBVIOUS
<1>2. r \in Nat BY <1>1, InFunction
<1>3. t \in Int /\ d \in Nat /\ base - r - t = d /\ base - r - g = 1 + d
  <2>1. t \in Int /\ t = g + 1 /\ t <= base - r /\ d = base - r - t BY <1>1
  <2>2. d \in Nat BY <1>2, <2>1
  <2>3. base - r - g = 1 + d BY <1>2, <2>1
  <2> QED BY <2>1, <2>2, <2>3
<1>4. RecordAt(base, i, t, n)' = RecordAt(base, i, t, n)
  <2>1. t <= base - Reserved(i) /\ -1 <= t /\ Untouched(t) BY <1>1
  <2> QED BY <1>3, <2>1, RecordKept
<1>5. Reserved(i)' = r
  <2>1. Reserved(i)' = Reserved(i) BY DEF Reserved, vars, code
  <2> QED BY <1>1, <2>1
<1>6. PICK C, D, o, p : /\ C = RecordAt(base, i, t, n) /\ D = RecordAt(base, i, g, n)'
                        /\ o = OperandsAt(t, d) /\ p = OperandsAt(g, 1 + d)'
  OBVIOUS
<1>7. PICK x, y, z, q : /\ x = ArgsAt(base, n)' /\ y = ClosureAt(base, n)' /\ z = LocalsAt(base, r)'
                        /\ q = Interpret!Read(base + 3)'
  OBVIOUS
<1>8. C = [args |-> x, closure |-> y, locals |-> z, operands |-> OperandsAt(t, d)', ra |-> q]
  BY <1>3, <1>4, <1>5, <1>6, <1>7 DEF RecordAt
<1>9. C.operands = o BY <1>1, <1>3, <1>6 DEF RecordAt
<1>10. OperandsAt(t, d)' = o BY <1>8, <1>9
<1>11. C = [args |-> x, closure |-> y, locals |-> z, operands |-> o, ra |-> q] BY <1>8, <1>10
<1>12. D = [args |-> x, closure |-> y, locals |-> z, operands |-> p, ra |-> q]
  BY <1>3, <1>5, <1>6, <1>7 DEF RecordAt
<1>13. p = <<w>> \o o
  <2>1. PICK S, h : S = {w} \cup {o[k] : k \in 1..d} /\ h = <<w>> OBVIOUS
  <2>2. h \in Seq(S) /\ Len(h) = 1 /\ h[1] = w BY <2>1
  <2>3. Listed(o, d)
    <3>1. o = [k \in 1..d |-> Interpret!Read(t + k)] BY <1>6 DEF OperandsAt
    <3> QED BY <3>1 DEF Listed
  <2>4. o \in Seq(S) /\ Len(o) = d
    <3>1. \A k \in 1..d : o[k] \in S BY <2>1
    <3> QED BY <1>3, <2>3, <3>1, AsSeq
  <2>5. p = [k \in 1..(1 + d) |-> Interpret!Read(g + k)'] BY <1>6 DEF OperandsAt
  <2>6. o = [k \in 1..d |-> Interpret!Read(t + k)'] BY <1>10 DEF OperandsAt
  <2>7. \A k \in 1..Len(h) : p[k] = h[k]
    <3>1. Interpret!Read(g + 1)' = w BY DEF Interpret!Read, Interpret!Words
    <3>2. 1 \in 1..(1 + d) BY <1>3
    <3>3. p[1] = w BY <2>5, <3>1, <3>2
    <3> QED BY <2>2, <3>3
  <2>8. \A k \in 1..Len(o) : p[Len(h) + k] = o[k]
    <3> SUFFICES ASSUME NEW k \in 1..d PROVE p[1 + k] = o[k] BY <2>2, <2>4
    <3>1. 1 + k \in 1..(1 + d) /\ g + (1 + k) = t + k BY <1>1, <1>3
    <3>2. p[1 + k] = Interpret!Read(g + (1 + k))' BY <2>5, <3>1
    <3> QED BY <2>6, <3>1, <3>2
  <2>9. Listed(p, Len(h) + Len(o)) BY <2>2, <2>4, <2>5 DEF Listed
  <2>10. p = h \o o BY <2>2, <2>4, <2>7, <2>8, <2>9, HeadAndRest
  <2> QED BY <2>1, <2>10
<1>14. D = [C EXCEPT !.operands = <<w>> \o @]
  <2>1. D = [C EXCEPT !.operands = p] BY <1>11, <1>12
  <2> QED BY <1>9, <1>13, <2>1
<1> QED BY <1>1, <1>6, <1>14 DEF WithResult

\* END pops the record of the running call and gives the caller's the result.
LEMMA EndMaps ==
  ASSUME Onward, Interpret!EndFunction
  PROVE  Interpret!Records!Next
<1>1. PICK b, at, free : Chain(b, at, free) BY DEF Onward, Ready, ChainInv
<1>2. \E x, at2, free2 : Chain(x, at2, free2)' BY DEF Onward, ChainInv
<1>3. PICK x, at2, free2 : Chain(x, at2, free2)' BY <1>2
<1>4. /\ Accepted /\ Accepted' /\ ArgSizesOK /\ ArgSizesOK' /\ UNCHANGED vars /\ Ready
      /\ program[ip] \in Instruction /\ ip \in Offsets
  BY ReadyFacts DEF Onward, Ready, ChainInv, ArgSizesOK
<1>5. /\ Len(arg_sizes) # 1 /\ program[ip].op = "END"
      /\ top' = free[2] /\ fp' = b[2] /\ ip' = at[2] /\ arg_sizes' = Tail(arg_sizes)
      /\ UNCHANGED closures /\ Interpret!Read(fp + 3) = Code(at[2])
      /\ memory'[free[2] + 1] = Interpret!Peek(1)
      /\ \A j \in Interpret!Words : free[2] + 1 < j => memory'[j] = memory[j]
      /\ at[2] \in Offsets /\ b[2] \in Int /\ free[2] \in Int /\ -1 <= free[2]
      /\ free[2] + 1 \in Interpret!Words /\ Reserved(at[2]) \in Nat
      /\ free[2] + 1 <= b[2] - Reserved(at[2])
  BY <1>1, PopFacts
<1>6. PICK N, M, B, i, g, a, w : /\ N = Len(arg_sizes) /\ M = Len(arg_sizes') /\ B = b[2] /\ i = at[2]
                                 /\ g = free[2] /\ a = arg_sizes[2] /\ w = Interpret!Peek(1)
  OBVIOUS
<1>7. N \in Nat /\ N >= 2 /\ M = N - 1 /\ \A k \in 1..M : arg_sizes'[k] = arg_sizes[k + 1]
  <2>1. PICK s : s = arg_sizes OBVIOUS
  <2>2. s \in Seq(Nat) /\ s # <<>> BY <1>4, <2>1 DEF ArgSizesOK
  <2>3. N = Len(s) /\ N # 1 /\ arg_sizes' = Tail(s) BY <1>5, <1>6, <2>1
  <2>4. Len(Tail(s)) = Len(s) - 1 /\ \A k \in 1..(Len(s) - 1) : Tail(s)[k] = s[k + 1]
    BY <2>2, HeadTailProperties
  <2>5. N \in Nat /\ N # 0 BY <2>2, <2>3
  <2> QED BY <1>6, <2>1, <2>3, <2>4, <2>5
<1>8. x[1] = B BY <1>3, <1>5, <1>6 DEF Chain
<1>9. \A j \in Interpret!Words : B < j => memory'[j] = memory[j]
  <2>1. PICK r : r = Reserved(at[2]) OBVIOUS
  <2>2. r \in Nat /\ g + 1 <= B - r /\ B \in Int /\ g \in Int BY <1>5, <1>6, <2>1
  <2>3. \A j \in Interpret!Words : B < j => g + 1 < j
    <3>1. Interpret!Words \subseteq Int BY StartFacts
    <3> QED BY <2>2, <3>1
  <2> QED BY <1>5, <1>6, <2>3
<1>10. \A k \in 3..N : Interpret!Frames'[k - 1] = Interpret!Frames[k]
  <2>1. PICK p, e : p = 2 /\ e = -1 OBVIOUS
  <2>2. p \in 1..Len(arg_sizes) BY <1>6, <1>7, <2>1
  <2>3. e \in Int /\ p + e >= 1 BY <2>1
  <2>4. Len(arg_sizes') = Len(arg_sizes) + e BY <1>6, <1>7, <2>1
  <2>5. x[p + e] = b[p]
    <3>1. p + e = 1 BY <2>1
    <3> QED BY <1>6, <1>8, <2>1, <3>1
  <2>6. SizesStay(p, e)
    <3>1. ASSUME NEW k \in p..N PROVE arg_sizes'[k + e] = arg_sizes[k]
      <4>1. PICK l : l = k + e OBVIOUS
      <4>2. l \in 1..M /\ l + 1 = k BY <1>7, <2>1, <4>1
      <4> QED BY <1>7, <4>1, <4>2
    <3> QED BY <1>6, <3>1 DEF SizesStay
  <2>7. WordsStay(b[p], arg_sizes[p]) BY <1>6, <1>9, <2>1 DEF WordsStay
  <2>8. Accepted /\ Accepted' /\ ArgSizesOK /\ ArgSizesOK' /\ UNCHANGED vars BY <1>4
  <2>9. \A k \in (p + 1)..Len(arg_sizes) :
          /\ Interpret!Frames'[k + e] = Interpret!Frames[k]
          /\ x[k + e] = b[k] /\ at2[k + e] = at[k] /\ free2[k + e] = free[k]
    BY <1>1, <1>3, <2>2, <2>3, <2>4, <2>5, <2>6, <2>7, <2>8, RestStays
  <2>10. \A k \in 3..N : k \in (p + 1)..Len(arg_sizes) /\ k + e = k - 1 BY <1>6, <2>1
  <2> QED BY <2>9, <2>10
<1>11. PICK f, h : f = Interpret!Frames /\ h = Interpret!Frames' OBVIOUS
<1>12. /\ Listed(f, N) /\ Listed(h, N - 1) /\ f[1] = Current /\ h[1] = Current'
       /\ f[2] = RecordAt(B, i, g + 1, a)
  <2>1. Listed(f, N) BY <1>6, <1>11 DEF Interpret!Frames, Interpret!Depth, Listed
  <2>2. Listed(h, M) BY <1>6, <1>11 DEF Interpret!Frames, Interpret!Depth, Listed
  <2>3. f[1] = Current BY <1>1, <1>4, <1>11, FramesAre DEF FramesFollow
  <2>4. h[1] = Current' BY <1>3, <1>4, <1>11, FramesAreNext DEF FramesFollow
  <2>5. f[2] = RecordAt(B, i, g + 1, a)
    <3>1. PICK k : k = 2 OBVIOUS
    <3>2. k \in 1..Len(arg_sizes) /\ k # 1 BY <1>6, <1>7, <3>1
    <3>3. f[k] = RecordAt(b[k], at[k], free[k] + 1, arg_sizes[k])
      BY <1>1, <1>4, <1>11, <3>2, FramesAre DEF FramesFollow
    <3> QED BY <1>6, <3>1, <3>3
  <2> QED BY <1>7, <2>1, <2>2, <2>3, <2>4, <2>5
<1>13. h = <<h[1]>> \o SubSeq(f, 3, Len(f))
  <2>1. \A k \in 3..N : h[k - 1] = f[k] BY <1>10, <1>11
  <2> QED BY <1>7, <1>12, <2>1, HeadTaken
<1>14. h[1] = [f[2] EXCEPT !.operands = <<w>> \o @]
  <2>1. arg_sizes'[1] = a
    <3>1. 1 \in 1..M /\ 1 + 1 = 2 BY <1>7
    <3> QED BY <1>6, <1>7, <3>1
  <2>2. Current' = RecordAt(B, i, g, a)' BY <1>5, <1>6, <2>1 DEF Current
  <2>3. /\ B \in Int /\ i \in Offsets /\ g \in Int /\ -1 <= g /\ g + 1 \in Interpret!Words
        /\ g + 1 <= B - Reserved(i) /\ memory'[g + 1] = w
    BY <1>5, <1>6
  <2>4. /\ a \in Nat /\ B + 3 + a <= Interpret!START
        /\ Interpret!Read(B + 1)[2] = B + 3 + a + 1 => B + 4 + a <= Interpret!START
    <3>1. PICK k : k = 2 OBVIOUS
    <3>2. k \in 1..Len(arg_sizes) BY <1>6, <1>7, <3>1
    <3>3. /\ arg_sizes[k] \in Nat /\ b[k] + 3 + arg_sizes[k] <= Interpret!START
          /\ Interpret!Read(b[k] + 1)[2] = b[k] + 3 + arg_sizes[k] + 1 =>
               b[k] + 4 + arg_sizes[k] <= Interpret!START
      BY <1>1, <1>4, <3>2, Extent
    <3> QED BY <1>6, <3>1, <3>3
  <2>5. Untouched(g + 1) BY <1>5, <1>6 DEF Untouched
  <2>6. RecordAt(B, i, g, a)' = WithResult(RecordAt(B, i, g + 1, a), w)
    <3>1. Accepted /\ UNCHANGED vars BY <1>4
    <3>2. B + 3 + a <= Interpret!START BY <2>4
    <3>3. Interpret!Read(B + 1)[2] = B + 3 + a + 1 => B + 4 + a <= Interpret!START BY <2>4
    <3>4. g + 1 <= B - Reserved(i) BY <2>3
    <3>5. a \in Nat BY <2>4
    <3> QED BY <2>3, <2>5, <3>1, <3>2, <3>3, <3>4, <3>5, ResultPushed
  <2> QED BY <1>12, <2>2, <2>6 DEF WithResult
<1>15. ip' = f[1].ra[2]
  <2>1. Current.ra = Interpret!Read(fp + 3) BY DEF Current, RecordAt
  <2> QED BY <1>5, <1>12, <2>1 DEF Code
<1>16. w = Interpret!Records!Operands[1]
  <2>1. Needs(program[ip]) = 1 BY <1>4, <1>5, EffectOf
  <2>2. 1 \in 1..Needs(program[ip]) BY <2>1
  <2> QED BY <1>4, <1>6, <2>2, OperandsArePeeks
<1>17. Interpret!GlobalValues' = Interpret!GlobalValues
  <2>1. PICK s : s = Interpret!START OBVIOUS
  <2>2. B + 3 <= s /\ B \in Int /\ s \in Int /\ Interpret!Words \subseteq Int
    <3>1. 2 \in 1..Len(arg_sizes) BY <1>6, <1>7
    <3> QED BY <1>1, <1>4, <1>6, <2>1, <3>1, FrameFacts, StartFacts
  <2>3. \A j \in Interpret!Words : s < j => B < j BY <2>2
  <2> QED BY <1>9, <2>1, <2>3, GlobalsSame
<1>18. Len(f) # 1
  <2>1. PICK S : S = {f[k] : k \in 1..N} OBVIOUS
  <2>2. \A k \in 1..N : f[k] \in S BY <2>1
  <2>3. Len(f) = N BY <1>7, <1>12, <2>2, AsSeq
  <2> QED BY <1>7, <2>3
<1>19. UNCHANGED <<program, status>> BY <1>4 DEF vars, code, Onward, Ready
<1>20. Interpret!Records!End
  BY <1>5, <1>11, <1>13, <1>14, <1>15, <1>16, <1>17, <1>18, <1>19, RecordNames
     DEF Interpret!Records!End
<1> QED BY <1>4, <1>20 DEF Interpret!Records!Next, Ready

\* Every step of a ready run.
LEMMA StepMaps ==
  ASSUME Ready, Scoped(program), Interpret!Step, Accepted'
  PROVE  Interpret!Records!Next
<1>1. CASE status' # "running"
  <2>1. Stopping BY <1>1, StepStops DEF Ready
  <2> QED BY <2>1, StopMaps
<1>2. CASE status' = "running"
  <2>1. Goes BY StepGoes
  <2>2. Onward BY <1>2, <2>1 DEF Onward, Goes
  <2>3. ip \in Offsets /\ Counted(program)
    BY ReadyFacts DEF Ready, Accepted, Traceable, Coverable
  <2>4. ~Interpret!Fetch /\ ~Interpret!Fail
    BY <1>2 DEF Interpret!Fetch, Interpret!Fail, Interpret!Stop
  <2>5. ~Interpret!ToString
    <3>1. program[ip].op # "CALL_STRING" BY <2>3 DEF Counted, Offsets
    <3> QED BY <3>1, WordNames DEF Interpret!ToString, Interpret!Handles
  <2>6. ~Interpret!StoreIndirect
    <3>1. program[ip].op # "STI" BY <2>3 DEF Scoped, Offsets
    <3> QED BY <3>1, WordNames DEF Interpret!StoreIndirect, Interpret!Handles
  <2> QED
    BY <2>2, <2>4, <2>5, <2>6, PushMaps, LinkMaps, OperatorMaps, ObjectMaps, ArrangeMaps, JumpMaps,
       StoreMaps, ClosureMaps, CallMaps, BeginMaps, EndMaps
       DEF Interpret!Step
<1> QED BY <1>1, <1>2

-----------------------------------------------------------------------------
(* Runs *)

\* What the code and the run keep to.
InKeeping ==
  /\ Traceable(program) /\ Scoped(program) /\ orderly
  /\ outcome = "accepted" => OperandsSuffice

\* interpret starts with the record of main.
LEMMA InitMaps ==
  ASSUME RunInit, InKeeping
  PROVE  Interpret!Records!Init
<1>1. /\ ip = 1 /\ memory = Interpret!Frame(Interpret!Cleared, Interpret!START, 0, Null, Null, 0)
      /\ top = Interpret!START - 3 /\ fp = Interpret!START - 3 /\ arg_sizes = <<0>>
      /\ closures = <<>> /\ status = "running"
  BY WordNames DEF RunInit, Interpret!MachineInit
<1>2. PICK s, base : s = Interpret!START /\ base = Interpret!START - 3 OBVIOUS
<1>3. /\ s \in Nat /\ 2 <= s /\ s \in Interpret!Words /\ s - 1 \in Interpret!Words
      /\ s - 2 \in Interpret!Words /\ base \in Int /\ base + 3 = s /\ base + 1 = s - 2
  BY <1>2, StartFacts
<1>4. PICK ws : ws = <<Null, Null, At(s)>> OBVIOUS
<1>5. memory = Interpret!Written(Interpret!Cleared, s, ws)
  <2>1. s + 0 + 0 = s BY <1>3
  <2> QED BY <1>1, <1>2, <1>4, <2>1, WordNames DEF Interpret!Frame
<1>6. memory[s] = Null /\ memory[s - 2] = At(s) BY <1>3, <1>4, <1>5, FrameWritten
<1>7. Interpret!Cleared \in [Interpret!Words -> AnyWord]
  BY SoundWords, WordNames DEF Interpret!Cleared, Sound
<1>8. ws \in Seq(AnyWord)
  <2>1. Null \in AnyWord /\ At(s) \in AnyWord BY <1>3, SoundWords DEF Sound
  <2> QED BY <1>4, <2>1
<1>9. \A j \in Interpret!Words : s < j => memory[j] = Interpret!Cleared[j]
  BY <1>3, <1>5, <1>7, <1>8, WrittenFacts
<1>10. Interpret!GlobalValues = [k \in 0..(global_area_size - 1) |-> Junk]
  <2>1. ASSUME NEW k \in 0..(global_area_size - 1) PROVE Interpret!Read(Interpret!GlobalAt(k)) = Junk
    <3>1. PICK j : j = Interpret!GlobalAt(k) OBVIOUS
    <3>2. j \in Interpret!Words /\ s < j BY <1>2, <3>1, GlobalsAbove
    <3>3. ~(j >= STACK - string_counter)
      BY <3>1, VerifiedRunAssumption, VerifierAssumption DEF Interpret!GlobalAt
    <3>4. Interpret!Cleared[j] = Junk BY <3>2, <3>3, WordNames DEF Interpret!Cleared
    <3> QED BY <1>9, <3>1, <3>2, <3>4 DEF Interpret!Read
  <2> QED BY <2>1 DEF Interpret!GlobalValues
<1>11. Interpret!Frames = <<Interpret!Records!Record(<<>>, Null, Null)>>
  <2>1. Interpret!Depth = 1 /\ arg_sizes[1] = 0 BY <1>1 DEF Interpret!Depth
  <2>2. Interpret!Fp[1] = base
    <3>1. PICK b : b = [k \in 1..1 |-> base] OBVIOUS
    <3>2. FpOf(memory, fp, 1) = b
      <4>1. PICK n : n = 1 OBVIOUS
      <4>2. n \in Nat \ {0} BY <4>1
      <4>3. b \in [1..n -> Int] BY <1>3, <3>1, <4>1
      <4>4. b[1] = fp BY <1>1, <1>2, <3>1
      <4>5. \A k \in 2..n : b[k - 1] + 2 \in Interpret!Words /\ memory[b[k - 1] + 2][2] = b[k]
        BY <4>1
      <4>6. FpOf(memory, fp, n) = b BY <4>2, <4>3, <4>4, <4>5, FpIs
      <4> QED BY <4>1, <4>6
    <3>3. Len(arg_sizes) = 1 BY <1>1
    <3> QED BY <3>1, <3>2, <3>3, FpRead
  <2>3. Interpret!Position(1) = 1 /\ Interpret!Floor(1) = base
    BY <1>1, <1>2 DEF Interpret!Position, Interpret!Floor
  <2>4. Interpret!Locals(1) = 0
    <3>1. program[1].op \in Interpret!Begins
      BY WordNames DEF InKeeping, Scoped, MAIN, Begins
    <3> QED BY <2>3, <3>1 DEF Interpret!Locals
  <2>5. ~Interpret!IsClosureCall(1)
    <3>1. Interpret!Read(base + 1)[2] = s BY <1>3, <1>6 DEF Interpret!Read, At
    <3>2. base + 3 + 0 + 1 # s BY <1>3
    <3> QED BY <2>1, <2>2, <3>1, <3>2 DEF Interpret!IsClosureCall
  <2>6. Interpret!Read(base + 3) = Null BY <1>3, <1>6 DEF Interpret!Read
  <2>7. Interpret!FrameOf(1) = Interpret!Records!Record(<<>>, Null, Null)
    <3>1. base - 0 - base = 0 BY <1>3
    <3>2. \A e : [n \in 1..0 |-> e] = <<>> OBVIOUS
    <3> QED
      BY <2>1, <2>2, <2>3, <2>4, <2>5, <2>6, <3>1, <3>2, WordNames
         DEF Interpret!FrameOf, Interpret!Records!Record
  <2>8. Interpret!Frames = [k \in 1..1 |-> Interpret!FrameOf(k)]
    BY <2>1 DEF Interpret!Frames
  <2> QED BY <2>7, <2>8
<1>12. Interpret!Records!IsCode(program)
  <2>1. IsCode(program) BY VerifierAssumption DEF RunInit, Init
  <2>2. Interpret!Records!Instruction = Instruction
    BY DEF Interpret!Records!Instruction, Instruction,
           Interpret!Records!Capture, Capture, Interpret!Records!Ops, Ops, Interpret!Records!Begins,
           Begins, Interpret!Records!Variables, Variables, Interpret!Records!Jumps, Jumps,
           Interpret!Records!CondJumps, CondJumps, Interpret!Records!Stops, Stops,
           Interpret!Records!Designations, Designations, Interpret!Records!Patts, Patts
  <2> QED BY <2>1, <2>2 DEF IsCode, Interpret!Records!IsCode
<1> QED BY <1>1, <1>10, <1>11, <1>12, RecordNames DEF Interpret!Records!Init

\* A step of the run is one on the records, or none.
LEMMA RunMaps ==
  ASSUME Context, Context', RunInv, InKeeping, InKeeping', [RunNext]_runVars
  PROVE  [Interpret!Records!Next]_Interpret!Records!vars
<1>1. ASSUME UNCHANGED <<program, machine>> PROVE UNCHANGED Interpret!Records!vars
  <2>1. UNCHANGED <<program, memory, ip, top, fp, arg_sizes, closures, status>>
    BY <1>1 DEF machine
  <2> QED BY <2>1, RecordsSame DEF Interpret!Records!vars
<1>2. program' = program BY RunVerifies, ProgramKept
<1>3. CASE UNCHANGED runVars \/ Rejected \/ Verifying
  BY <1>1, <1>2, <1>3 DEF runVars, Rejected, Verifying
<1>4. CASE Interpreting
  <2>1. UNCHANGED vars /\ outcome = "accepted" /\ Interpret!Next /\ orderly' = (orderly /\ InOrder)
    BY <1>4, RunVerifies DEF Interpreting
  <2>2. CASE Interpret!Ended
    <3>1. UNCHANGED machine
      BY <2>2 DEF Interpret!Ended, Interpret!vars, Interpret!frame, machine
    <3> QED BY <1>1, <1>2, <3>1
  <2>3. CASE Interpret!Step
    <3>1. status = "running"
      BY <2>3 DEF Interpret!Step, Interpret!Fetch, Interpret!Const, Interpret!Str,
         Interpret!ReadInt, Interpret!Dup, Interpret!Drop, Interpret!Swap, Interpret!Keep,
         Interpret!Fail, Interpret!Binop, Interpret!Test, Interpret!Length, Interpret!ToString,
         Interpret!Elem, Interpret!Array, Interpret!Sexp, Interpret!Jump, Interpret!CondJump,
         Interpret!Load, Interpret!LoadLink, Interpret!Store, Interpret!StoreElem,
         Interpret!StoreIndirect, Interpret!MakeClosure, Interpret!Call, Interpret!CallClosure,
         Interpret!BeginFunction, Interpret!EndFunction, Interpret!Handles
    <3>2. Accepted BY <2>1, ContextAccepts DEF InKeeping
    <3>3. WordsInv /\ ChainInv BY <2>1, <3>1 DEF RunInv, InKeeping
    <3>4. Ready BY <2>1, <3>1, <3>2, <3>3 DEF Ready, InKeeping
    <3>5. outcome' = "accepted" BY <2>1 DEF vars, marks
    <3>6. Accepted'
      BY <3>5 DEF Context, Accepted, Traceable, Coverable, LayoutInv, EntryInv, InKeeping
    <3> QED BY <2>3, <3>4, <3>6, StepMaps DEF InKeeping
  <2> QED BY <2>1, <2>2, <2>3 DEF Interpret!Next
<1> QED BY <1>3, <1>4 DEF RunNext

\* Of a code that is accepted and laid out as lamac lays codes out, a run in order
\* implements the records: whatever the interpreter does to the words of its flat
\* memory, a call works on a record of its own, its arguments are in the order
\* declared, and END leaves its caller as it was.
THEOREM RunsImplementRecords ==
  RunSpec /\ []InKeeping => Interpret!ImplementsActivationRecords
<1>1. RunInit /\ InKeeping => Interpret!Records!Init BY InitMaps
<1>2. Context /\ Context' /\ RunInv /\ InKeeping /\ InKeeping' /\ [RunNext]_runVars
      => [Interpret!Records!Next]_Interpret!Records!vars
  BY RunMaps
<1> QED
  BY <1>1, <1>2, ContextHolds, RunIsFramed, PTL
     DEF RunSpec, Interpret!ImplementsActivationRecords, Interpret!Records!Spec

\* No run of a direct code is out of order, so that all of them implement the
\* records, whatever the run does.
THEOREM DirectRunsImplementRecords ==
  RunSpec /\ [](/\ Traceable(program) /\ Scoped(program) /\ Direct(program)
                /\ outcome = "accepted" => OperandsSuffice)
  => Interpret!ImplementsActivationRecords
<1>1. DirectInOrder /\ Traceable(program) /\ Scoped(program) /\ Direct(program)
      /\ (outcome = "accepted" => OperandsSuffice) => InKeeping
  BY DEF DirectInOrder, InKeeping
<1> QED BY <1>1, DirectRunsAreInOrder, RunsImplementRecords, PTL
================================================================================
