----------------------------- MODULE RecursionLemmas -----------------------------
(***************************************************************************)
(* Induction for the proofs about functions that are defined by recursion  *)
(* over the places of a sequence.  A set of naturals takes the place of a  *)
(* predicate, and a function that of an operator.                          *)
(***************************************************************************)
EXTENDS Integers, SequencesExt, FiniteSetTheorems, SequenceTheorems, TLAPS

\* A nonempty set of naturals has a least member.
LEMMA LeastMember ==
    ASSUME NEW S \in SUBSET Nat, S # {}
    PROVE  \E x \in S : \A y \in S : x <= y
<1> DEFINE T == {0..x : x \in S}
           Less == StrictSubsetOrdering(Nat)
<1>1. IsWellFoundedOn(Less, FiniteSubsetsOf(Nat))
  BY FS_StrictSubsetOrderingWellFounded
<1>2. T \subseteq FiniteSubsetsOf(Nat) /\ T # {}
  <2>1. \A x \in S : 0..x \in SUBSET Nat /\ IsFiniteSet(0..x)
    BY FS_Interval
  <2> QED
    BY <2>1 DEF FiniteSubsetsOf
<1>3. ASSUME NEW x \in Nat, NEW y \in Nat, x < y
      PROVE  <<0..x, 0..y>> \in Less
  <2>1. 0..x \in SUBSET Nat /\ 0..y \in SUBSET Nat /\ 0..x \subseteq 0..y
    BY <1>3
  <2>2. y \in 0..y /\ y \notin 0..x
    BY <1>3
  <2> QED
    BY <2>1, <2>2, Zenon DEF StrictSubsetOrdering
<1> HIDE DEF Less
<1>4. PICK t \in T : \A u \in T : ~ (<<u, t>> \in Less)
  BY <1>1, <1>2, WFMin
<1>5. PICK x \in S : t = 0..x
  BY <1>4
<1>6. \A y \in S : ~ y < x
  BY <1>3, <1>4, <1>5
<1> QED
  BY <1>6

LEMMA MinMember ==
    ASSUME NEW S \in SUBSET Nat, S # {}
    PROVE  Min(S) \in S
BY LeastMember DEF Min

\* A nonempty set of bounded naturals has a greatest member.
LEMMA MaxMember ==
    ASSUME NEW n \in Nat, NEW S \in SUBSET (0..n), S # {}
    PROVE  Max(S) \in S /\ \A y \in S : y <= Max(S)
<1> DEFINE T == {n - x : x \in S}
<1>1. T \in SUBSET Nat /\ T # {}
  <2>1. \A x \in S : n - x \in Nat
    OBVIOUS
  <2>2. PICK x : x \in S
    OBVIOUS
  <2>3. n - x \in T
    BY <2>2
  <2> QED
    BY <2>1, <2>3
<1> HIDE DEF T
<1>2. PICK t \in T : \A u \in T : t <= u
  BY <1>1, LeastMember
<1>3. PICK x \in S : t = n - x
  BY <1>2 DEF T
<1>4. ASSUME NEW y \in S PROVE x >= y
  <2>1. n - y \in T
    BY DEF T
  <2>2. n - x <= n - y
    BY <1>2, <1>3, <2>1
  <2> QED
    BY <2>2
<1> QED
  BY <1>4 DEF Max

\* Induction: a set that has 0 and with each number the next one has all numbers.
LEMMA Induction ==
    ASSUME NEW S, 0 \in S, \A n \in Nat : n \in S => n + 1 \in S
    PROVE  Nat \subseteq S
<1> SUFFICES ASSUME Nat \ S # {} PROVE FALSE
  OBVIOUS
<1>1. PICK x \in Nat \ S : \A y \in Nat \ S : x <= y
  BY LeastMember
<1>2. x # 0 /\ x - 1 \in Nat
  BY <1>1
<1>3. x - 1 \in S
  BY <1>1, <1>2
<1> QED
  BY <1>1, <1>2, <1>3

\* Induction up to n.
LEMMA InductionUpTo ==
    ASSUME NEW n \in Nat, NEW S, 0 \in S, \A i \in 1..n : i - 1 \in S => i \in S
    PROVE  0..n \subseteq S
<1> DEFINE T == {m \in Nat : m <= n => m \in S}
<1>1. 0 \in T
  OBVIOUS
<1>2. ASSUME NEW m \in Nat, m \in T PROVE m + 1 \in T
  <2>1. ASSUME m + 1 <= n PROVE m + 1 \in S
    <3>1. m + 1 \in 1..n /\ (m + 1) - 1 \in S
      BY <1>2, <2>1
    <3> QED
      BY <3>1
  <2> QED
    BY <2>1
<1> HIDE DEF T
<1>3. Nat \subseteq T
  BY <1>1, <1>2, Induction
<1> QED
  BY <1>3 DEF T

\* f and h begin alike and, once alike, go on alike.
Alike(f, h, n) ==
    f[0] = h[0] /\ \A i \in 1..n : f[i - 1] = h[i - 1] => f[i] = h[i]

\* Two such functions are equal.
LEMMA Agree ==
    ASSUME NEW n \in Nat, NEW f, NEW h, Alike(f, h, n)
    PROVE  \A i \in 0..n : f[i] = h[i]
<1> DEFINE S == {i \in 0..n : f[i] = h[i]}
<1>1. 0 \in S /\ \A i \in 1..n : i - 1 \in S => i \in S
  BY DEF Alike
<1> HIDE DEF S
<1>2. 0..n \subseteq S
  BY <1>1, InductionUpTo
<1> QED
  BY <1>2 DEF S

\* h starts with base and goes on to n as g says.
Recurs(h, n, T, base, g) ==
    /\ h \in [0..n -> T] /\ h[0] = base
    /\ \A i \in 1..n : h[i] = g[<<h[i - 1], i>>]

\* Recursion: there is such a function.
LEMMA Recursion ==
    ASSUME NEW n \in Nat, NEW T, NEW base \in T, NEW g \in [T \X (1..n) -> T]
    PROVE  \E h : Recurs(h, n, T, base, g)
<1> DEFINE S == {m \in 0..n : \E h : Recurs(h, m, T, base, g)}
<1>1. 0 \in S
  <2> DEFINE h == [i \in 0..0 |-> base]
  <2>1. Recurs(h, 0, T, base, g)
    BY DEF Recurs
  <2>2. \E k : Recurs(k, 0, T, base, g)
    BY <2>1
  <2> QED
    BY <2>2
<1>2. ASSUME NEW m \in 1..n, m - 1 \in S PROVE m \in S
  <2>1. PICK h : Recurs(h, m - 1, T, base, g)
    BY <1>2
  <2> DEFINE e == g[<<h[m - 1], m>>]
             k == [i \in 0..m |-> IF i = m THEN e ELSE h[i]]
  <2>2. h \in [0..(m - 1) -> T] /\ h[0] = base
    BY <2>1 DEF Recurs
  <2>3. h[m - 1] \in T
    BY <2>2
  <2>4. e \in T
    BY <2>3
  <2>5. k \in [0..m -> T] /\ k[0] = base
    BY <2>2, <2>4
  <2>6. ASSUME NEW i \in 1..m PROVE k[i] = g[<<k[i - 1], i>>]
    <3>1. CASE i = m
      <4>1. k[i] = e /\ k[i - 1] = h[m - 1]
        BY <3>1
      <4> QED
        BY <3>1, <4>1
    <3>2. CASE i # m
      <4>1. i \in 1..(m - 1)
        BY <3>2
      <4>2. h[i] = g[<<h[i - 1], i>>]
        BY <2>1, <4>1 DEF Recurs
      <4>3. k[i] = h[i] /\ k[i - 1] = h[i - 1]
        BY <4>1
      <4> QED
        BY <4>2, <4>3
    <3> QED
      BY <3>1, <3>2
  <2> HIDE DEF k
  <2>7. Recurs(k, m, T, base, g)
    BY <2>5, <2>6 DEF Recurs
  <2>8. \E c : Recurs(c, m, T, base, g)
    BY <2>7
  <2> QED
    BY <2>8
<1> HIDE DEF S
<1>3. 0..n \subseteq S
  BY <1>1, <1>2, InductionUpTo
<1>4. n \in S
  BY <1>3
<1> QED
  BY <1>4 DEF S

--------------------------------------------------------------------------------
(* Sequences.                                                               *)

\* Induction: a set that has the empty sequence and with each sequence those that are
\* longer by one has all sequences.
LEMMA SeqInduction ==
    ASSUME NEW C, NEW P, <<>> \in P,
           \A s \in Seq(C), c \in C : s \in P => Append(s, c) \in P
    PROVE  Seq(C) \subseteq P
<1> DEFINE L == {n \in Nat : \A s \in Seq(C) : Len(s) = n => s \in P}
<1>1. 0 \in L
  <2>1. ASSUME NEW s \in Seq(C), Len(s) = 0 PROVE s \in P
    <3>1. s = <<>>
      BY <2>1, EmptySeq
    <3> QED
      BY <3>1
  <2> QED
    BY <2>1
<1>2. ASSUME NEW n \in Nat, n \in L PROVE n + 1 \in L
  <2>1. ASSUME NEW s \in Seq(C), Len(s) = n + 1 PROVE s \in P
    <3>1. s # <<>>
      BY <2>1
    <3>2. PICK t \in Seq(C), c \in C : s = Append(t, c)
      BY <3>1, SequenceEmptyOrAppend, Zenon
    <3>3. Len(t) = n
      BY <2>1, <3>2
    <3>4. t \in P
      BY <1>2, <3>3
    <3> QED
      BY <3>2, <3>4
  <2> QED
    BY <2>1
<1> HIDE DEF L
<1>3. Nat \subseteq L
  BY <1>1, <1>2, Induction
<1>4. ASSUME NEW s \in Seq(C) PROVE s \in P
  <2>1. Len(s) \in L
    BY <1>3
  <2> QED
    BY <2>1 DEF L
<1> QED
  BY <1>4

\* What g makes of x when it meets c.
Meet(g, x, c) == g[<<x, c>>]

\* f follows g along s from base.
Follows(f, g, base, s) ==
    f[0] = base /\ \A i \in 1..Len(s) : f[i] = Meet(g, f[i - 1], s[i])

\* Where g goes along s from base.
Fold(g, base, s) == CHOOSE x : \E f : Follows(f, g, base, s) /\ x = f[Len(s)]

LEMMA FoldExists ==
    ASSUME NEW T, NEW C, NEW base \in T, NEW g \in [T \X C -> T], NEW s \in Seq(C)
    PROVE  \E f \in [0..Len(s) -> T] : Follows(f, g, base, s)
<1> DEFINE n == Len(s)
           k == [q \in T \X (1..n) |-> g[<<q[1], s[q[2]]>>]]
<1>1. n \in Nat
  OBVIOUS
<1>2. k \in [T \X (1..n) -> T]
  <2>1. ASSUME NEW q \in T \X (1..n) PROVE g[<<q[1], s[q[2]]>>] \in T
    <3>1. q[1] \in T /\ s[q[2]] \in C
      OBVIOUS
    <3>2. <<q[1], s[q[2]]>> \in T \X C
      BY <3>1
    <3> QED
      BY <3>2
  <2> QED
    BY <2>1
<1>3. \A x \in T, i \in 1..n : k[<<x, i>>] = Meet(g, x, s[i])
  BY DEF Meet
<1> HIDE DEF k
<1>4. PICK f : Recurs(f, n, T, base, k)
  BY <1>1, <1>2, Recursion, Zenon
<1>5. f \in [0..n -> T] /\ f[0] = base /\ \A i \in 1..n : f[i] = k[<<f[i - 1], i>>]
  BY <1>4 DEF Recurs
<1>6. ASSUME NEW i \in 1..n PROVE f[i] = Meet(g, f[i - 1], s[i])
  <2>1. f[i - 1] \in T
    BY <1>5
  <2> QED
    BY <1>3, <1>5, <2>1
<1>7. Follows(f, g, base, s)
  BY <1>5, <1>6 DEF Follows
<1> QED
  BY <1>5, <1>7

\* Every function that follows g along s ends there.
LEMMA FoldIs ==
    ASSUME NEW C, NEW s \in Seq(C), NEW g, NEW base, NEW f, Follows(f, g, base, s)
    PROVE  Fold(g, base, s) = f[Len(s)]
<1>1. Len(s) \in Nat
  OBVIOUS
<1>2. ASSUME NEW h, Follows(h, g, base, s) PROVE h[Len(s)] = f[Len(s)]
  <2>1. Alike(h, f, Len(s))
    BY <1>2 DEF Alike, Follows
  <2>2. \A i \in 0..Len(s) : h[i] = f[i]
    BY <1>1, <2>1, Agree
  <2> QED
    BY <1>1, <2>2
<1> DEFINE End(x) == \E h : Follows(h, g, base, s) /\ x = h[Len(s)]
<1>3. End(f[Len(s)])
  OBVIOUS
<1>4. \A x : End(x) => x = f[Len(s)]
  BY <1>2
<1> HIDE DEF End
<1>5. (CHOOSE x : End(x)) = f[Len(s)]
  BY <1>3, <1>4
<1> QED
  BY <1>5 DEF Fold, End

LEMMA FoldNone ==
    ASSUME NEW g, NEW base
    PROVE  Fold(g, base, <<>>) = base
<1> DEFINE f == [i \in {0} |-> base]
<1>1. <<>> \in Seq({}) /\ Len(<<>>) = 0
  OBVIOUS
<1>2. Follows(f, g, base, <<>>)
  BY <1>1 DEF Follows
<1>3. f[0] = base
  OBVIOUS
<1> HIDE DEF f
<1>4. Fold(g, base, <<>>) = f[Len(<<>>)]
  BY <1>1, <1>2, FoldIs
<1> QED
  BY <1>1, <1>3, <1>4

\* c more than s: one step more.  (A statement about an operator of its own is
\* what the provers find in a lemma.)
GoesOn(g, base, s, c) ==
    Fold(g, base, Append(s, c)) = Meet(g, Fold(g, base, s), c)

\* Along s and then along t.
Joins(g, base, s, t) == Fold(g, base, s \o t) = Fold(g, Fold(g, base, s), t)

LEMMA FoldGoesOn ==
    ASSUME NEW T, NEW C, NEW base \in T, NEW g \in [T \X C -> T], NEW s \in Seq(C)
    PROVE  /\ Fold(g, base, s) \in T
           /\ \A c \in C : GoesOn(g, base, s, c)
<1>1. PICK f \in [0..Len(s) -> T] : Follows(f, g, base, s)
  BY FoldExists
<1>2. Fold(g, base, s) = f[Len(s)]
  BY <1>1, FoldIs
<1>3. Len(s) \in Nat
  OBVIOUS
<1>4. Fold(g, base, s) \in T
  BY <1>1, <1>2, <1>3
<1>6. ASSUME NEW c \in C PROVE GoesOn(g, base, s, c)
  <2> DEFINE n == Len(s)
             t == Append(s, c)
  <2>1. t \in Seq(C) /\ Len(t) = n + 1 /\ t[n + 1] = c /\ \A i \in 1..n : t[i] = s[i]
    OBVIOUS
  <2>2. PICK h \in [0..Len(t) -> T] : Follows(h, g, base, t)
    BY <2>1, FoldExists
  <2>3. Fold(g, base, t) = h[Len(t)]
    BY <2>1, <2>2, FoldIs
  <2> HIDE DEF t
  <2>4. Follows(h, g, base, s)
    BY <1>3, <2>1, <2>2 DEF Follows
  <2>5. Fold(g, base, s) = h[Len(s)]
    BY <2>4, FoldIs, Zenon
  <2>6. h[n + 1] = Meet(g, h[n], t[n + 1])
    <3>1. n + 1 \in 1..Len(t) /\ (n + 1) - 1 = n
      BY <1>3, <2>1
    <3> HIDE DEF n
    <3> QED
      BY <3>1, <2>2 DEF Follows
  <2>7. Fold(g, base, t) = Meet(g, Fold(g, base, s), c)
    BY <2>1, <2>3, <2>5, <2>6
  <2> QED
    BY <2>7 DEF t, GoesOn
<1> QED
  BY <1>4, <1>6

LEMMA FoldConcat ==
    ASSUME NEW T, NEW C, NEW base \in T, NEW g \in [T \X C -> T], NEW s \in Seq(C),
           NEW t \in Seq(C)
    PROVE  Joins(g, base, s, t)
<1> DEFINE P == {u \in Seq(C) : Joins(g, base, s, u)}
           b == Fold(g, base, s)
<1>1. b \in T
  BY FoldGoesOn
<1> HIDE DEF b
<1>2. <<>> \in P
  <2>1. s \o <<>> = s /\ <<>> \in Seq(C)
    BY ConcatEmptySeq
  <2>2. Fold(g, b, <<>>) = b
    BY FoldNone
  <2> QED
    BY <2>1, <2>2 DEF Joins, b
<1>3. ASSUME NEW u \in Seq(C), NEW c \in C, u \in P PROVE Append(u, c) \in P
  <2>1. s \o Append(u, c) = Append(s \o u, c) /\ s \o u \in Seq(C) /\ Append(u, c) \in Seq(C)
    OBVIOUS
  <2>2. GoesOn(g, base, s \o u, c)
    BY <2>1, FoldGoesOn, Zenon
  <2>3. GoesOn(g, b, u, c)
    BY <1>1, FoldGoesOn, Zenon
  <2>4. Fold(g, base, s \o u) = Fold(g, b, u)
    BY <1>3 DEF Joins, b
  <2>5. Fold(g, base, Append(s \o u, c)) = Fold(g, b, Append(u, c))
    BY <2>2, <2>3, <2>4 DEF GoesOn
  <2>6. Fold(g, base, s \o Append(u, c)) = Fold(g, b, Append(u, c))
    BY <2>1, <2>5
  <2>7. Joins(g, base, s, Append(u, c))
    BY <2>6 DEF Joins, b
  <2> QED
    BY <2>1, <2>7
<1> HIDE DEF P
<1>4. Seq(C) \subseteq P
  BY <1>2, <1>3, SeqInduction
<1> QED
  BY <1>4 DEF P

--------------------------------------------------------------------------------
(* FlattenSeq.                                                              *)

Concatenate(C) == [q \in Seq(C) \X Seq(C) |-> q[1] \o q[2]]

LEMMA ConcatenateTyped ==
    ASSUME NEW C
    PROVE  /\ Concatenate(C) \in [Seq(C) \X Seq(C) -> Seq(C)]
           /\ \A x, y \in Seq(C) : Meet(Concatenate(C), x, y) = x \o y
<1> DEFINE T == Seq(C)
<1>1. ASSUME NEW x \in T, NEW y \in T PROVE x \o y \in T
  BY ConcatProperties
<1> HIDE DEF T
<1>2. \A q \in T \X T : q[1] \in T /\ q[2] \in T
  OBVIOUS
<1>3. \A q \in T \X T : q[1] \o q[2] \in T
  BY <1>1, <1>2
<1>4. [q \in T \X T |-> q[1] \o q[2]] \in [T \X T -> T]
  BY <1>3
<1>5. \A x, y \in T : Meet([q \in T \X T |-> q[1] \o q[2]], x, y) = x \o y
  BY DEF Meet
<1> QED
  BY <1>4, <1>5 DEF Concatenate, T

LEMMA FlattenIsFold ==
    ASSUME NEW C, NEW ss \in Seq(Seq(C))
    PROVE  FlattenSeq(ss) = Fold(Concatenate(C), <<>>, ss)
<1> DEFINE n == Len(ss)
           g == Concatenate(C)
           Eq(f) == f = [i \in 1..n |-> IF i = 1 THEN ss[i] ELSE f[i - 1] \o ss[i]]
           flatten == CHOOSE f : Eq(f)
<1>1. n \in Nat /\ <<>> \in Seq(C) /\ (n = 0 => ss = <<>>) /\ \A i \in 1..n : ss[i] \in Seq(C)
  BY EmptySeq
<1>2. g \in [Seq(C) \X Seq(C) -> Seq(C)] /\ \A x, y \in Seq(C) : Meet(g, x, y) = x \o y
  BY ConcatenateTyped, Zenon
<1>3. CASE n = 0
  <2>1. FlattenSeq(ss) = <<>>
    BY <1>1, <1>3 DEF FlattenSeq
  <2>2. Fold(g, <<>>, <<>>) = <<>>
    BY FoldNone
  <2> QED
    BY <1>1, <1>3, <2>1, <2>2
<1>4. CASE n # 0
  <2> HIDE DEF g
  <2>1. PICK h \in [0..Len(ss) -> Seq(C)] : Follows(h, g, <<>>, ss)
    BY <1>1, <1>2, FoldExists
  <2>a. h[0] = <<>> /\ \A i \in 1..n : h[i] = Meet(g, h[i - 1], ss[i])
    BY <2>1, Zenon DEF Follows
  <2>b. \A i \in 1..n : i - 1 \in 0..n
    BY <1>1
  <2>c. \A i \in 1..n : h[i - 1] \in Seq(C)
    BY <2>b
  <2>2. h[0] = <<>> /\ \A i \in 1..n : h[i] = h[i - 1] \o ss[i]
    BY <1>1, <1>2, <2>a, <2>c, Zenon
  <2>3. h[1] = ss[1] /\ 1 \in 1..n
    <3>1. 1 \in 1..n /\ 1 - 1 = 0
      BY <1>1, <1>4
    <3>2. h[1] = <<>> \o ss[1] /\ ss[1] \in Seq(C)
      BY <1>1, <2>2, <3>1
    <3> QED
      BY <3>1, <3>2, ConcatEmptySeq
  <2>4. Eq([i \in 1..n |-> h[i]])
    <3> DEFINE k == [i \in 1..n |-> h[i]]
    <3>1. ASSUME NEW i \in 1..n PROVE k[i] = IF i = 1 THEN ss[i] ELSE k[i - 1] \o ss[i]
      <4>1. k[i] = h[i]
        OBVIOUS
      <4>2. i # 1 => k[i - 1] = h[i - 1]
        BY <1>1
      <4> HIDE DEF k
      <4> QED
        BY <2>2, <2>3, <4>1, <4>2, Zenon
    <3> QED
      BY <3>1
  <2>5. Eq(flatten)
    BY <2>4
  <2>6. FlattenSeq(ss) = flatten[n]
    BY <1>4 DEF FlattenSeq
  <2> HIDE DEF flatten
  <2>7. \A i \in 1..n : flatten[i] = IF i = 1 THEN ss[i] ELSE flatten[i - 1] \o ss[i]
    BY <2>5
  <2> DEFINE S == {i \in 0..n : i = 0 \/ flatten[i] = h[i]}
  <2>8. 0 \in S /\ \A i \in 1..n : i - 1 \in S => i \in S
    <3>1. ASSUME NEW i \in 1..n, i - 1 \in S PROVE flatten[i] = h[i]
      <4>1. CASE i = 1
        BY <2>3, <2>7, <4>1
      <4>2. CASE i # 1
        <5>1. flatten[i - 1] = h[i - 1]
          BY <1>1, <3>1, <4>2
        <5> HIDE DEF S
        <5> QED
          BY <2>2, <2>7, <4>2, <5>1, Zenon
      <4> QED
        BY <4>1, <4>2
    <3> QED
      BY <1>1, <3>1
  <2> HIDE DEF S
  <2>9. n \in S
    <3> HIDE DEF n
    <3>1. 0..n \subseteq S
      BY <1>1, <2>8, InductionUpTo
    <3> QED
      BY <1>1, <3>1
  <2>10. flatten[n] = h[n]
    BY <1>4, <2>9 DEF S
  <2>11. Fold(g, <<>>, ss) = h[Len(ss)]
    BY <2>1, FoldIs
  <2> QED
    BY <2>6, <2>10, <2>11 DEF g
<1> QED
  BY <1>3, <1>4

FlattenGoesOn(ss, s) == FlattenSeq(Append(ss, s)) = FlattenSeq(ss) \o s

LEMMA FlattenNone == FlattenSeq(<<>>) = <<>>
BY DEF FlattenSeq

LEMMA FlattenTyped ==
    ASSUME NEW C, NEW ss \in Seq(Seq(C))
    PROVE  FlattenSeq(ss) \in Seq(C) /\ \A s \in Seq(C) : FlattenGoesOn(ss, s)
<1> DEFINE g == Concatenate(C)
<1>1. <<>> \in Seq(C) /\ g \in [Seq(C) \X Seq(C) -> Seq(C)]
  BY ConcatenateTyped, EmptySeq, Zenon
<1> HIDE DEF g
<1>2. Fold(g, <<>>, ss) \in Seq(C) /\ \A s \in Seq(C) : GoesOn(g, <<>>, ss, s)
  BY <1>1, FoldGoesOn
<1>3. FlattenSeq(ss) = Fold(g, <<>>, ss)
  BY FlattenIsFold DEF g
<1>4. ASSUME NEW s \in Seq(C) PROVE FlattenGoesOn(ss, s)
  <2>1. Append(ss, s) \in Seq(Seq(C))
    BY AppendProperties
  <2>2. FlattenSeq(Append(ss, s)) = Fold(g, <<>>, Append(ss, s))
    BY <2>1, FlattenIsFold DEF g
  <2>3. Fold(g, <<>>, Append(ss, s)) = Meet(g, Fold(g, <<>>, ss), s)
    BY <1>2 DEF GoesOn
  <2>4. Meet(g, FlattenSeq(ss), s) = FlattenSeq(ss) \o s
    <3>1. FlattenSeq(ss) \in Seq(C)
      BY <1>2, <1>3
    <3> QED
      BY <3>1, ConcatenateTyped, Zenon DEF g
  <2> QED
    BY <1>3, <2>2, <2>3, <2>4 DEF FlattenGoesOn
<1> QED
  BY <1>2, <1>3, <1>4

================================================================================
