------------------------------ MODULE Data_proofs ------------------------------
(***************************************************************************)
(* What the DLL makes of data of any size: the hash of a tree of any       *)
(* depth, with files changing under it; the places of code in any image,   *)
(* found by signatures or by a cache from any earlier start; the messages  *)
(* of a stream that is cut anywhere; the assets of bundles of any size.    *)
(* The facts that need induction come first.                               *)
(***************************************************************************)
EXTENDS Hashing, SignatureCache, DebugConnection, DieselDb,
        FiniteSetTheorems, SequenceTheorems, WellFoundedInduction, TLAPS

-----------------------------------------------------------------------------
(* Induction over the naturals, for a set in place of a predicate: the     *)
(* intervals below the elements of a set are well-founded, being finite.   *)

LEMMA Smallest ==
  ASSUME NEW T, T \subseteq Nat, T # {}
  PROVE  \E x \in T : \A y \in T : x <= y
<1> DEFINE R == StrictSubsetOrdering(Nat)
           U == {0..x : x \in T}
<1>1. IsWellFoundedOn(R, FiniteSubsetsOf(Nat))
  BY FS_StrictSubsetOrderingWellFounded
<1>2. U \subseteq FiniteSubsetsOf(Nat) /\ U # {}
  <2>1. ASSUME NEW x \in T  PROVE 0..x \in FiniteSubsetsOf(Nat)
    <3>1. IsFiniteSet(0..x)
      <4>1. x \in Int
        OBVIOUS
      <4> QED
        BY <4>1, FS_Interval
    <3> QED
      BY <3>1 DEF FiniteSubsetsOf
  <2> QED
    BY <2>1
<1>3. \E u \in U : \A v \in U : ~ (<<v, u>> \in R)
  <2> HIDE DEF U, R
  <2> QED
    BY <1>1, <1>2, WFMin
<1>4. PICK x \in T : \A v \in U : ~ (<<v, 0..x>> \in R)
  BY <1>3
<1>5. \A y \in T : ~ (<<0..y, 0..x>> \in R)
  BY <1>4
<1>6. ASSUME NEW y \in T, y < x PROVE FALSE
  <2>1. /\ 0..y \subseteq 0..x /\ 0..y # 0..x
        /\ 0..y \in SUBSET Nat /\ 0..x \in SUBSET Nat
    BY <1>6
  <2>2. <<0..y, 0..x>> \in R
     BY <2>1 DEF StrictSubsetOrdering
  <2> QED
    BY <2>2, <1>5
<1> QED
  BY <1>6

LEMMA Induct ==
  ASSUME NEW S, 0 \in S, \A n \in Nat : n \in S => n + 1 \in S
  PROVE  \A n \in Nat : n \in S
<1> SUFFICES ASSUME Nat \ S # {}
             PROVE  FALSE
  OBVIOUS
<1>1. PICK x \in Nat \ S : \A y \in Nat \ S : x <= y
  BY Smallest
<1>2. x # 0 /\ x - 1 \in Nat
  BY <1>1
<1>3. x - 1 \in S
  BY <1>1, <1>2
<1> QED
  BY <1>1, <1>2, <1>3

Steps(S) == [Nat -> [S -> S]]
Iterates(f, S, e, next) ==
  f \in [Nat -> S] /\ f[0] = e /\ \A n \in Nat : f[n + 1] = next[n][f[n]]

(* A step for every number can be iterated. *)
LEMMA Iteration ==
  ASSUME NEW S, NEW e \in S, NEW next \in Steps(S)
  PROVE  \E f : Iterates(f, S, e, next)
<1> DEFINE Of(n, g) == /\ g \in [0..n -> S] /\ g[0] = e
                       /\ \A i \in Nat : i + 1 \in 0..n => g[i + 1] = next[i][g[i]]
           G(n) == CHOOSE g : Of(n, g)
           Good == {n \in Nat : \E g : Of(n, g)}
           f == [n \in Nat |-> G(n)[n]]
<1>0. next \in [Nat -> [S -> S]]
  BY DEF Steps
<1>1. \A n \in Nat : n \in Good
  <2>1. 0 \in Good
    <3>1. Of(0, [i \in 0..0 |-> e])
      OBVIOUS
    <3> QED
      BY <3>1
  <2>2. ASSUME NEW n \in Nat, n \in Good
        PROVE  n + 1 \in Good
    <3>1. PICK g : Of(n, g)
      BY <2>2
    <3> DEFINE h == [i \in 0..(n + 1) |-> IF i = n + 1 THEN next[n][g[n]] ELSE g[i]]
    <3>2. Of(n + 1, h)
      <4>1. h \in [0..(n + 1) -> S]
        BY <1>0, <3>1
      <4>2. h[0] = e
        BY <3>1
      <4>3. ASSUME NEW i \in Nat, i + 1 \in 0..(n + 1)
            PROVE  h[i + 1] = next[i][h[i]]
        <5>1. h[i] = g[i]
          BY <4>3
        <5>2. CASE i = n
          BY <5>1, <5>2
        <5>3. CASE i # n
          <6>1. i + 1 \in 0..n /\ h[i + 1] = g[i + 1]
            BY <4>3, <5>3
          <6> QED
            BY <3>1, <5>1, <6>1
        <5> QED
          BY <5>2, <5>3
      <4> QED
        BY <4>1, <4>2, <4>3
    <3> HIDE DEF h, Of
    <3> QED
      BY <3>2
  <2> HIDE DEF Good
  <2> QED
    BY <2>1, <2>2, Induct
<1>2. ASSUME NEW n \in Nat
      PROVE  Of(n, G(n))
  <2>1. \E g : Of(n, g)
    BY <1>1
  <2> HIDE DEF Of
  <2> QED
    BY <2>1
<1>3. ASSUME NEW n \in Nat
      PROVE  G(n + 1)[n] = G(n)[n]
  <2> DEFINE Same == {i \in Nat : i \in 0..n => G(n + 1)[i] = G(n)[i]}
  <2>1. Of(n, G(n)) /\ Of(n + 1, G(n + 1))
    <3> HIDE DEF Of, G
    <3> QED
      BY <1>2
  <2>2. 0 \in Same
    BY <2>1
  <2>3. ASSUME NEW i \in Nat, i \in Same
        PROVE  i + 1 \in Same
    <3> HIDE DEF G
    <3>1. ASSUME i + 1 \in 0..n
          PROVE  G(n + 1)[i + 1] = G(n)[i + 1]
      <4>1. i \in 0..n /\ i + 1 \in 0..(n + 1)
        BY <3>1
      <4>2. G(n + 1)[i] = G(n)[i]
        BY <2>3, <4>1
      <4> QED
        BY <2>1, <3>1, <4>1, <4>2
    <3> QED
      BY <3>1
  <2>4. \A i \in Nat : i \in Same
    <3> HIDE DEF Same
    <3> QED
      BY <2>2, <2>3, Induct
  <2> HIDE DEF G
  <2> QED
    BY <2>4
<1>4. f \in [Nat -> S] /\ f[0] = e
  <2> HIDE DEF G
  <2> QED
    BY <1>2
<1>5. ASSUME NEW n \in Nat
      PROVE  f[n + 1] = next[n][f[n]]
  <2> HIDE DEF G
  <2>1. f[n + 1] = G(n + 1)[n + 1] /\ f[n] = G(n)[n]
    OBVIOUS
  <2>2. G(n + 1)[n + 1] = next[n][G(n + 1)[n]]
    BY <1>2
  <2> QED
    BY <1>3, <2>1, <2>2
<1>6. Iterates(f, S, e, next)
  <2> HIDE DEF f
  <2> QED
    BY <1>4, <1>5 DEF Iterates
<1> QED
  BY <1>6

-----------------------------------------------------------------------------
(* The elements of a sequence that are in a set. *)

(* What the function of Chosen is, for every length. *)
Selects(c, s, S) ==
  /\ DOMAIN c = 0..Len(s) /\ c[0] = <<>>
  /\ \A n \in 1..Len(s) : c[n] = IF s[n] \in S THEN Append(c[n - 1], s[n]) ELSE c[n - 1]

LEMMA ChosenUnfolds ==
  ASSUME NEW P, NEW s \in Seq(P), NEW S
  PROVE  \E c : /\ Selects(c, s, S) /\ Chosen(s, S) = c[Len(s)]
               /\ \A n \in 0..Len(s) : c[n] \in Seq(P)
<1> DEFINE N == Len(s)
           T == Seq(P)
           Choice(h) ==
             [n \in 0..N |-> IF n = 0 THEN <<>>
                             ELSE IF s[n] \in S THEN Append(h[n - 1], s[n])
                             ELSE h[n - 1]]
           next == [n \in Nat |-> [t \in T |->
                      IF n + 1 \in 1..N /\ s[n + 1] \in S
                      THEN Append(t, s[n + 1]) ELSE t]]
           c == CHOOSE h : h = Choice(h)
<1>1. N \in Nat
  OBVIOUS
<1>2. PICK f \in [Nat -> T] : f[0] = <<>> /\ \A n \in Nat : f[n + 1] = next[n][f[n]]
  <2> DEFINE nil == <<>>
  <2>1. next \in Steps(T) /\ nil \in T
    <3>1. next \in Steps(T)
      BY DEF Steps
    <3>2. nil \in T
      OBVIOUS
    <3> QED
      BY <3>1, <3>2
  <2> HIDE DEF next, T, nil
  <2>2. PICK f : Iterates(f, T, nil, next)
    BY <2>1, Iteration
  <2> QED
    BY <2>2 DEF nil, Iterates
<1> DEFINE g == [n \in 0..N |-> f[n]]
<1>3. g = Choice(g)
  <2>1. ASSUME NEW n \in 0..N
        PROVE  g[n] = Choice(g)[n]
    <3>1. CASE n = 0
      BY <1>2, <3>1
    <3>2. CASE n # 0
      <4>1. n - 1 \in Nat /\ n - 1 \in 0..N /\ n \in 1..N /\ (n - 1) + 1 = n
        BY <1>1, <3>2
      <4>2. f[n] = next[n - 1][f[n - 1]] /\ f[n - 1] \in T
        BY <1>2, <4>1
      <4> QED
        BY <3>2, <4>1, <4>2
    <3> QED
      BY <3>1, <3>2
  <2> QED
    BY <2>1
<1>4. c = Choice(c)
  <2> HIDE DEF Choice
  <2> QED
    BY <1>3
<1>5. Chosen(s, S) = c[N]
  BY DEF Chosen
<1> HIDE DEF c
<1>6. Selects(c, s, S)
  <2>1. DOMAIN c = 0..N /\ c[0] = <<>>
    BY <1>1, <1>4
  <2>2. ASSUME NEW n \in 1..N
        PROVE  c[n] = IF s[n] \in S THEN Append(c[n - 1], s[n]) ELSE c[n - 1]
    <3>1. n \in 0..N /\ n # 0
      BY <1>1
    <3> QED
      BY <1>4, <3>1
  <2> QED
    BY <2>1, <2>2 DEF Selects
<1> DEFINE Typed == {n \in Nat : n \in 0..N => c[n] \in T}
<1>7. \A n \in Nat : n \in Typed
  <2>1. 0 \in Typed
    <3>1. c[0] = <<>>
      BY <1>6 DEF Selects
    <3>2. <<>> \in T
      OBVIOUS
    <3> HIDE DEF T
    <3> QED
      BY <3>1, <3>2
  <2>2. ASSUME NEW n \in Nat, n \in Typed
        PROVE  n + 1 \in Typed
    <3>1. ASSUME n + 1 \in 0..N
          PROVE  c[n + 1] \in T
      <4>1. n \in 0..N /\ n + 1 \in 1..N /\ (n + 1) - 1 = n /\ s[n + 1] \in P
        <5>1. PICK z : z = N /\ z \in Nat /\ n + 1 \in 0..z
          BY <1>1, <3>1
        <5>2. n \in 0..z /\ n + 1 \in 1..z /\ (n + 1) - 1 = n
          BY ONLY <5>1, n \in Nat
        <5>3. n + 1 \in DOMAIN s
          BY <1>1, <5>1, <5>2
        <5>4. s[n + 1] \in P
          BY <5>3, ElementOfSeq
        <5> QED
          BY ONLY <5>1, <5>2, <5>4
      <4>2. c[n] \in T
        BY <2>2, <4>1
      <4>3. c[n + 1] = IF s[n + 1] \in S THEN Append(c[n], s[n + 1]) ELSE c[n]
        BY <1>6, <4>1 DEF Selects
      <4> QED
        BY <4>1, <4>2, <4>3
    <3> QED
      BY <3>1
  <2> HIDE DEF Typed
  <2> QED
    BY <2>1, <2>2, Induct
<1>8. \A n \in 0..N : c[n] \in Seq(P)
  BY <1>1, <1>7
<1> QED
  BY <1>5, <1>6, <1>8

(* Where the chosen elements are in the sequence. *)
Picks(ix, s, S, n, c) ==
  /\ DOMAIN ix = DOMAIN c
  /\ \A i \in DOMAIN c : ix[i] \in 1..n /\ s[ix[i]] \in S /\ c[i] = s[ix[i]]
  /\ \A i, j \in DOMAIN c : i < j => ix[i] < ix[j]
  /\ \A j \in 1..n : s[j] \in S => \E i \in DOMAIN c : ix[i] = j

LEMMA ChosenPicks ==
  ASSUME NEW P, NEW s \in Seq(P), NEW S
  PROVE  /\ Chosen(s, S) \in Seq(P)
         /\ \E ix : Picks(ix, s, S, Len(s), Chosen(s, S))
<1> DEFINE N == Len(s)
<1>0. N \in Nat
  OBVIOUS
<1>1. PICK c : /\ Selects(c, s, S) /\ Chosen(s, S) = c[N]
               /\ \A n \in 0..N : c[n] \in Seq(P)
  BY ChosenUnfolds
<1> DEFINE Good == {n \in Nat : n \in 0..N => \E ix : Picks(ix, s, S, n, c[n])}
<1>2. 0 \in Good
  <2>1. DOMAIN c[0] = {} /\ c[0] = <<>>
    BY <1>1 DEF Selects
  <2>2. Picks(<<>>, s, S, 0, c[0])
    BY <2>1 DEF Picks
  <2> QED
    BY <2>2
<1>3. ASSUME NEW n \in Nat, n \in Good
      PROVE  n + 1 \in Good
  <2>1. ASSUME n + 1 \in 0..N
        PROVE  \E ix : Picks(ix, s, S, n + 1, c[n + 1])
    <3>1. /\ n \in 0..N /\ n + 1 \in 1..N /\ (n + 1) - 1 = n
          /\ 1..(n + 1) = 1..n \cup {n + 1} /\ n + 1 \notin 1..n
      BY <1>0, <2>1
    <3>2. c[n + 1] = IF s[n + 1] \in S THEN Append(c[n], s[n + 1]) ELSE c[n]
      BY <1>1, <3>1 DEF Selects
    <3>3. PICK ix : Picks(ix, s, S, n, c[n])
      BY <1>3, <3>1
    <3>4. CASE s[n + 1] \notin S
      <4>1. Picks(ix, s, S, n + 1, c[n])
        BY <3>1, <3>3, <3>4 DEF Picks
      <4> QED
        BY <3>2, <3>4, <4>1
    <3>5. CASE s[n + 1] \in S
      <4> DEFINE d == c[n]
                 k == Len(d) + 1
                 e == Append(d, s[n + 1])
                 jx == [i \in 1..k |-> IF i = k THEN n + 1 ELSE ix[i]]
      <4>1. d \in Seq(P) /\ s[n + 1] \in P
        BY <1>1, <3>1
      <4>2. Len(d) \in Nat /\ DOMAIN d = 1..Len(d)
        BY <4>1
      <4> HIDE DEF d
      <4>3. e \in Seq(P) /\ Len(e) = k /\ e[k] = s[n + 1] /\ \A i \in 1..Len(d) : e[i] = d[i]
        BY <4>1, AppendProperties
      <4>4. DOMAIN e = 1..k /\ 1..k = DOMAIN d \cup {k} /\ k \notin DOMAIN d
            /\ \A i \in DOMAIN d : i < k
            /\ k \in Nat
        BY <4>2, <4>3
      <4> HIDE DEF e, k
      <4>5. DOMAIN jx = DOMAIN e /\ jx[k] = n + 1 /\ \A i \in DOMAIN d : jx[i] = ix[i]
        BY <4>4
      <4> HIDE DEF jx
      <4>6. Picks(ix, s, S, n, d)
        BY <3>3 DEF d
      <4>7. \A i \in DOMAIN e : jx[i] \in 1..(n + 1) /\ s[jx[i]] \in S /\ e[i] = s[jx[i]]
        BY <3>1, <3>5, <4>2, <4>3, <4>4, <4>5, <4>6 DEF Picks
      <4>8. ASSUME NEW i \in DOMAIN e, NEW j \in DOMAIN e, i < j
            PROVE  jx[i] < jx[j]
        <5>1. i \in DOMAIN d
          BY <4>2, <4>4, <4>8
        <5>2. CASE j = k
          <6>1. jx[i] \in 1..n
            BY <4>5, <4>6, <5>1 DEF Picks
          <6> QED
            BY <4>5, <5>2, <6>1
        <5>3. CASE j # k
          BY <4>4, <4>5, <4>6, <4>8, <5>1, <5>3 DEF Picks
        <5> QED
          BY <5>2, <5>3
      <4>9. ASSUME NEW j \in 1..(n + 1), s[j] \in S
            PROVE  \E i \in DOMAIN e : jx[i] = j
        BY <3>1, <4>4, <4>5, <4>6, <4>9 DEF Picks
      <4>10. Picks(jx, s, S, n + 1, e)
        BY <4>5, <4>7, <4>8, <4>9 DEF Picks
      <4> QED
        BY <3>2, <3>5, <4>10 DEF e, d
    <3> QED
      BY <3>4, <3>5
  <2> QED
    BY <2>1
<1>4. \A n \in Nat : n \in Good
  <2> HIDE DEF Good
  <2> QED
    BY <1>2, <1>3, Induct
<1>5. N \in Good /\ N \in 0..N
  BY <1>0, <1>4
<1> QED
  BY <1>1, <1>5

(* They are elements of the set, and none comes twice if none did before.  *)
LEMMA ChosenAre ==
  ASSUME NEW P, NEW s \in Seq(P), NEW S
  PROVE  /\ Chosen(s, S) \in Seq(P \cap S)
         /\ \A j \in 1..Len(s) : s[j] \in S =>
              \E i \in DOMAIN Chosen(s, S) : Chosen(s, S)[i] = s[j]
         /\ IsInjective(s) => IsInjective(Chosen(s, S))
<1> DEFINE c == Chosen(s, S)
<1>1. c \in Seq(P) /\ \E ix : Picks(ix, s, S, Len(s), c)
  BY ChosenPicks
<1>2. PICK ix : Picks(ix, s, S, Len(s), c)
  BY <1>1
<1> HIDE DEF c
<1>3. DOMAIN c = 1..Len(c) /\ Len(c) \in Nat /\ \A i \in DOMAIN c : c[i] \in P
  BY <1>1
<1>4. c \in Seq(P \cap S)
  <2>1. \A i \in DOMAIN c : c[i] \in P \cap S
    BY <1>2, <1>3 DEF Picks
  <2>2. c = [i \in 1..Len(c) |-> c[i]]
    BY <1>1, <1>3
  <2>3. c \in [1..Len(c) -> P \cap S]
    BY <1>3, <2>1, <2>2
  <2> QED
    BY <1>3, <2>3
<1>5. \A j \in 1..Len(s) : s[j] \in S => \E i \in DOMAIN c : c[i] = s[j]
  BY <1>2 DEF Picks
<1>6. ASSUME IsInjective(s)
      PROVE  IsInjective(c)
  <2>1. \A i \in DOMAIN c : ix[i] \in DOMAIN s /\ c[i] = s[ix[i]]
    BY <1>2 DEF Picks
  <2>2. ASSUME NEW i \in DOMAIN c, NEW j \in DOMAIN c, c[i] = c[j]
        PROVE  i = j
    <3>1. ix[i] = ix[j]
      BY <1>6, <2>1, <2>2 DEF IsInjective
    <3>2. ~(i < j) /\ ~(j < i)
      <4>1. ix[i] \in Nat
        BY <1>2 DEF Picks
      <4> QED
        BY <1>2, <3>1, <4>1 DEF Picks
    <3> QED
      BY <1>3, <3>2
  <2> QED
    BY <2>2 DEF IsInjective
<1> QED
  BY <1>4, <1>5, <1>6 DEF c

-----------------------------------------------------------------------------
(* Sets that are enumerated. *)

(* What a function makes of a finite set is finite. *)
LEMMA FiniteImage ==
  ASSUME NEW S, IsFiniteSet(S), NEW f, DOMAIN f = S, f = [x \in S |-> f[x]]
  PROVE  IsFiniteSet({f[x] : x \in S})
<1> DEFINE T == {f[x] : x \in S}
<1>1. f \in Surjection(S, T)
  BY DEF Surjection
<1> HIDE DEF T
<1>2. IsFiniteSet(T)
  BY <1>1, FS_Surjection
<1> QED
  BY <1>2 DEF T

LEMMA FiniteElements ==
  ASSUME NEW S, NEW s \in Seq(S)
  PROVE  IsFiniteSet({s[i] : i \in DOMAIN s})
<1>1. DOMAIN s = 1..Len(s) /\ Len(s) \in Nat /\ s = [i \in DOMAIN s |-> s[i]]
  OBVIOUS
<1>2. IsFiniteSet(1..Len(s))
  <2>1. 1 \in Int /\ Len(s) \in Int
    BY <1>1
  <2> QED
    BY <2>1, FS_Interval
<1>3. IsFiniteSet(DOMAIN s)
  BY <1>1, <1>2
<1> QED
  BY <1>1, <1>3, FiniteImage

(* The sequence that is made of a finite set has all of its elements.      *)
LEMMA Enumerated ==
  ASSUME NEW S, IsFiniteSet(S)
  PROVE  /\ SetToSeq(S) \in Seq(S)
         /\ \A x \in S : \E i \in DOMAIN SetToSeq(S) : SetToSeq(S)[i] = x
<1> DEFINE n == Cardinality(S)
           P(f) == f \in [1..n -> S] /\ IsInjective(f)
           s == CHOOSE f : P(f)
<1>1. n \in Nat /\ ExistsBijection(1..n, S)
  BY FS_CardinalityType
<1>2. \E f : P(f)
  <2>1. PICK f : f \in Bijection(1..n, S)
    BY <1>1 DEF ExistsBijection
  <2>2. P(f)
    BY <2>1 DEF Bijection, Injection, IsInjective
  <2> QED
    BY <2>2
<1>3. SetToSeq(S) = s
  BY DEF SetToSeq
<1>4. P(s)
  <2> HIDE DEF P
  <2> QED
    BY <1>2
<1> HIDE DEF s
<1>5. s \in Injection(1..n, S)
  BY <1>4 DEF Injection, IsInjective
<1>6. s \in Surjection(1..n, S)
  <2>1. IsFiniteSet(1..n) /\ Cardinality(1..n) = n
    <3>1. 1 \in Int /\ n \in Int
      BY <1>1
    <3> QED
      BY <1>1, <3>1, FS_Interval
  <2> QED
    BY <1>5, <2>1, FS_Injection
<1>7. s \in Seq(S) /\ DOMAIN s = 1..n
  BY <1>1, <1>4
<1> QED
  BY <1>3, <1>6, <1>7 DEF Surjection

(* Where the elements of two sequences are in the sequence of both.        *)
Places(a, b, c) ==
  /\ DOMAIN c = 1..(Len(a) + Len(b))
  /\ Len(a) \in Nat /\ Len(b) \in Nat /\ DOMAIN a = 1..Len(a) /\ DOMAIN b = 1..Len(b)
  /\ \A i \in DOMAIN a : i \in DOMAIN c /\ c[i] = a[i]
  /\ \A i \in DOMAIN b : Len(a) + i \in DOMAIN c /\ c[Len(a) + i] = b[i]
  /\ \A i \in DOMAIN c : i \in DOMAIN a \/ (i - Len(a) \in DOMAIN b
                                           /\ c[i] = b[i - Len(a)])

LEMMA Joined ==
  ASSUME NEW S, NEW a \in Seq(S), NEW b \in Seq(S)
  PROVE  a \o b \in Seq(S) /\ Places(a, b, a \o b)
<1> DEFINE m == Len(a)
           n == Len(b)
           c == a \o b
<1>1. /\ c \in Seq(S) /\ Len(c) = m + n
      /\ \A i \in 1..(m + n) : c[i] = IF i <= m THEN a[i] ELSE b[i - m]
  BY ConcatProperties
<1>2. m \in Nat /\ n \in Nat /\ DOMAIN a = 1..m /\ DOMAIN b = 1..n /\ DOMAIN c = 1..(m + n)
  BY <1>1
<1> HIDE DEF m, n, c
<1>3. \A i \in 1..m : i \in 1..(m + n) /\ c[i] = a[i]
  BY <1>1, <1>2
<1>4. ASSUME NEW i \in 1..n
      PROVE  m + i \in 1..(m + n) /\ c[m + i] = b[i]
  <2>1. m + i \in 1..(m + n) /\ ~(m + i <= m) /\ (m + i) - m = i
    BY <1>2
  <2> QED
    BY <1>1, <2>1
<1>5. ASSUME NEW i \in 1..(m + n), i \notin 1..m
      PROVE  i - m \in 1..n /\ c[i] = b[i - m]
  <2>1. i - m \in 1..n /\ ~(i <= m)
    BY <1>2, <1>5
  <2> QED
    BY <1>1, <2>1
<1> QED
  <2>1. Places(a, b, c)
    BY <1>2, <1>3, <1>4, <1>5 DEF m, n, Places
  <2> QED
    BY <1>1, <2>1 DEF c

-----------------------------------------------------------------------------
(* Paths. *)

AnyPath == Seq(STRING)

LEMMA FilesArePaths == Files \subseteq AnyPath \ {<<>>} /\ IsFiniteSet(Files)
<1> DEFINE P == AnyPath \ {<<>>}
<1>1. HashPaths \in Seq(P)
  BY HashingAssumption DEF AnyPath
<1> HIDE DEF P
<1>2. IsFiniteSet(Files)
  BY <1>1, FiniteElements DEF Files, ToSet
<1>3. Files \subseteq P
  BY <1>1 DEF Files, ToSet
<1> QED
  BY <1>2, <1>3 DEF P

LEMMA UnderMeans ==
  ASSUME NEW p \in AnyPath, NEW d \in AnyPath
  PROVE  Under(p, d) <=> Len(d) < Len(p) /\ \A i \in 1..Len(d) : p[i] = d[i]
<1>1. Len(p) \in Nat /\ Len(d) \in Nat
  BY DEF AnyPath
<1>2. ASSUME Len(d) <= Len(p)
      PROVE  /\ SubSeq(d, 1, Len(d)) = d
             /\ SubSeq(p, 1, Len(d)) \in AnyPath /\ Len(SubSeq(p, 1, Len(d))) = Len(d)
             /\ \A i \in 1..Len(d) : SubSeq(p, 1, Len(d))[i] = p[i]
  <2>1. SubSeq(d, 1, Len(d)) = d
    BY DEF AnyPath
  <2> QED
    BY <1>1, <1>2, <2>1 DEF AnyPath
<1>3. ASSUME Under(p, d)
      PROVE  Len(d) < Len(p) /\ \A i \in 1..Len(d) : p[i] = d[i]
  <2>1. Len(d) <= Len(p) /\ SubSeq(d, 1, Len(d)) = SubSeq(p, 1, Len(d)) /\ d # p
    BY <1>3 DEF Under, IsStrictPrefix, IsPrefix
  <2>2. \A i \in 1..Len(d) : p[i] = d[i]
    BY <1>2, <2>1
  <2>3. Len(d) # Len(p)
    BY <2>1, <2>2, SeqEqual DEF AnyPath
  <2> QED
    BY <1>1, <2>1, <2>2, <2>3
<1>4. ASSUME Len(d) < Len(p), \A i \in 1..Len(d) : p[i] = d[i]
      PROVE  Under(p, d)
  <2>1. Len(d) <= Len(p) /\ d # p
    BY <1>1, <1>4
  <2>2. SubSeq(p, 1, Len(d)) = d
    <3> DEFINE q == SubSeq(p, 1, Len(d))
    <3>1. /\ q \in Seq(STRING) /\ Len(q) = Len(d) /\ d \in Seq(STRING)
          /\ \A i \in 1..Len(d) : q[i] = d[i]
      BY <1>2, <1>4, <2>1 DEF AnyPath
    <3> HIDE DEF q
    <3>2. q = d
      BY <3>1, SeqEqual
    <3> QED
      BY <3>2 DEF q
  <2> QED
    BY <1>2, <2>1, <2>2 DEF Under, IsStrictPrefix, IsPrefix
<1> QED
  BY <1>3, <1>4

(* The directories below a directory: each is one name longer and holds a  *)
(* file, and a file further down is under one of them.                     *)
LEMMA DirsBelow ==
  ASSUME NEW dir \in AnyPath
  PROVE  /\ IsFiniteSet(DirsIn(dir))
         /\ \A sub \in DirsIn(dir) :
              /\ sub \in AnyPath /\ Len(sub) = Len(dir) + 1
              /\ \A i \in 1..Len(dir) : sub[i] = dir[i]
              /\ \E p \in Files : disk[p] # Absent /\ Under(p, sub)
         /\ \A p \in Files : disk[p] # Absent /\ Under(p, dir) /\ p \notin FilesIn(dir) =>
              \E sub \in DirsIn(dir) : Under(p, sub)
<1> DEFINE n == Len(dir) + 1
           Deep == {q \in Files : disk[q] # Absent /\ Under(q, dir) /\ Len(q) > n}
           cut == [q \in Deep |-> SubSeq(q, 1, n)]
<1>1. n \in Nat /\ n # 0 /\ Len(dir) \in Nat
  BY DEF AnyPath
<1>2. DirsIn(dir) = {cut[q] : q \in Deep}
  BY DEF DirsIn
<1>3. IsFiniteSet(DirsIn(dir))
  <2>1. IsFiniteSet(Deep)
    BY FilesArePaths, FS_Subset
  <2>2. DOMAIN cut = Deep /\ cut = [q \in Deep |-> cut[q]]
    OBVIOUS
  <2> HIDE DEF cut, Deep
  <2>3. IsFiniteSet({cut[q] : q \in Deep})
    BY <2>1, <2>2, FiniteImage
  <2> QED
    BY <1>2, <2>3
<1>4. ASSUME NEW q \in Deep
      PROVE  /\ q \in AnyPath /\ cut[q] \in AnyPath /\ Len(cut[q]) = n
             /\ \A i \in 1..Len(dir) : cut[q][i] = dir[i]
             /\ Under(q, cut[q])
  <2>1. q \in AnyPath /\ Len(q) > n /\ \A i \in 1..Len(dir) : q[i] = dir[i]
    BY FilesArePaths, UnderMeans
  <2>2. /\ cut[q] \in AnyPath /\ Len(cut[q]) = n
        /\ \A i \in 1..n : cut[q][i] = q[i]
    <3>1. q \in Seq(STRING) /\ n <= Len(q) /\ Len(q) \in Nat
      BY <1>1, <2>1 DEF AnyPath
    <3>2. cut[q] = SubSeq(q, 1, n)
      OBVIOUS
    <3> HIDE DEF n, cut
    <3>3. \A i \in 1..n : q[i] \in STRING
      BY <1>1, <3>1
    <3>4. /\ SubSeq(q, 1, n) \in Seq(STRING) /\ Len(SubSeq(q, 1, n)) = n
          /\ \A i \in 1..n : SubSeq(q, 1, n)[i] = q[i]
      BY <1>1, <3>1, <3>3, SubSeqProperties
    <3> QED
      BY <3>2, <3>4 DEF AnyPath
  <2>3. Under(q, cut[q])
    <3> HIDE DEF cut
    <3> QED
      BY <2>1, <2>2, UnderMeans
  <2>4. \A i \in 1..Len(dir) : cut[q][i] = dir[i]
    <3> HIDE DEF cut
    <3> QED
      BY <1>1, <2>1, <2>2
  <2> QED
    BY <2>1, <2>2, <2>3, <2>4
<1>5. ASSUME NEW p \in Files, disk[p] # Absent, Under(p, dir), p \notin FilesIn(dir)
      PROVE  \E sub \in DirsIn(dir) : Under(p, sub)
  <2>1. p \in AnyPath /\ Len(p) \in Nat /\ Len(p) > Len(dir) /\ Len(p) # n
    BY <1>5, FilesArePaths, UnderMeans DEF FilesIn, AnyPath
  <2>2. p \in Deep
    BY <1>1, <1>5, <2>1
  <2> QED
    BY <1>2, <1>4, <2>2
<1>6. ASSUME NEW sub \in DirsIn(dir)
      PROVE  /\ sub \in AnyPath /\ Len(sub) = Len(dir) + 1
             /\ \A i \in 1..Len(dir) : sub[i] = dir[i]
             /\ \E p \in Files : disk[p] # Absent /\ Under(p, sub)
  <2>1. PICK q \in Deep : sub = cut[q]
    BY <1>2
  <2>2. q \in Files /\ disk[q] # Absent
    OBVIOUS
  <2> HIDE DEF cut, Deep
  <2> QED
    BY <1>4, <2>1, <2>2
<1> QED
  BY <1>3, <1>5, <1>6

LEMMA FilesBelow ==
  ASSUME NEW dir \in AnyPath, NEW p \in FilesIn(dir)
  PROVE  /\ p \in Files /\ disk[p] # Absent /\ Under(p, dir)
         /\ p \in AnyPath /\ Len(p) = Len(dir) + 1
         /\ \A i \in 1..Len(dir) : p[i] = dir[i]
BY FilesArePaths, UnderMeans DEF FilesIn

-----------------------------------------------------------------------------
(* A hash that is made while no file changes: what it has found and the    *)
(* files under the directories it has still to visit are the files it      *)
(* stands for, every such directory holds a file, and its text is what is  *)
(* in the first of its files.                                              *)

Stages == {"walk", "done", "raised"}
Contents == 0..(MaxChanges + 1)
Hashers ==
  [kind : {"dir", "file"}, dirs : Seq(AnyPath), found : SUBSET Files,
   slash : BOOLEAN, async : BOOLEAN, at : Stages, text : Seq(Contents),
   disturbed : BOOLEAN]

HashTypes ==
  /\ disk \in [Files -> Contents] /\ barred \subseteq TreePaths
  /\ hashes \in Seq(Hashers)
  /\ asking \in BOOLEAN /\ changes \in 0..MaxChanges
  /\ hashProgram \in {"running", "terminated"}

Wanted(d) == {p \in Files : d[p] # Absent /\ ~(Len(p) > 1 /\ p[1] \in Versioning)}
Visited(d, dir) ==
  dir # <<>> => dir[1] \notin Versioning /\ \E p \in Files : d[p] # Absent /\ Under(p, dir)
Undisturbed(h) == h.at = "walk" /\ ~h.disturbed

Walks(d, h) ==
  Undisturbed(h) /\ h.kind = "dir" /\ h.slash =>
    /\ h.found \subseteq Wanted(d)
    /\ \A p \in Wanted(d) \ h.found : \E i \in DOMAIN h.dirs : Under(p, h.dirs[i])
    /\ \A i \in DOMAIN h.dirs : Visited(d, h.dirs[i])

Reads(d, h) ==
  /\ h.kind = "file" => /\ h.dirs = <<>> /\ h.slash
                        /\ Undisturbed(h) => \A p \in h.found : d[p] # Absent
  /\ h.dirs # <<>> => h.text = <<>>
  /\ Len(h.text) <= Len(InOrder(h.found))
  /\ Undisturbed(h) => \A i \in DOMAIN h.text : h.text[i] = d[InOrder(h.found)[i]]

HashersInv == \A r \in DOMAIN hashes : Walks(disk, hashes[r]) /\ Reads(disk, hashes[r])

(* One directory of the walk: its files and its directories in its place.  *)
LEMMA WalkOn ==
  ASSUME NEW h \in Hashers, Walks(disk, h), Undisturbed(h), h.kind = "dir", h.slash,
         h.dirs # <<>>,
         NEW subs, subs = {sub \in DirsIn(Head(h.dirs)) : ~Ignored(sub)},
         NEW g \in Hashers, g.found = h.found \cup FilesIn(Head(h.dirs)),
         g.dirs = SetToSeq(subs) \o Tail(h.dirs)
  PROVE  Walks(disk, g)
<1> DEFINE dir == Head(h.dirs)
           a == SetToSeq(subs)
           b == Tail(h.dirs)
<1>0. /\ h.dirs \in Seq(AnyPath) /\ dir \in AnyPath /\ b \in Seq(AnyPath)
      /\ h.dirs[1] = dir /\ 1 \in DOMAIN h.dirs
      /\ Len(h.dirs) \in Nat /\ Len(dir) \in Nat
      /\ \A i \in DOMAIN b : b[i] = h.dirs[i + 1] /\ i + 1 \in DOMAIN h.dirs
      /\ \A i \in DOMAIN h.dirs : i = 1 \/ (i - 1 \in DOMAIN b /\ h.dirs[i] = b[i - 1])
  <2>1. h.dirs \in Seq(AnyPath)
    BY DEF Hashers
  <2>2. dir \in AnyPath /\ b \in Seq(AnyPath) /\ Len(h.dirs) \in Nat /\ h.dirs[1] = dir
    BY <2>1
  <2>3. Len(b) = Len(h.dirs) - 1 /\ DOMAIN b = 1..Len(b) /\ DOMAIN h.dirs = 1..Len(h.dirs)
    BY <2>1, <2>2
  <2>4. Len(h.dirs) # 0
    BY <2>1
  <2>5. \A i \in DOMAIN b : b[i] = h.dirs[i + 1]
    BY <2>1, <2>3
  <2> HIDE DEF b, dir
  <2>6. ASSUME NEW i \in DOMAIN h.dirs, i # 1
        PROVE  i - 1 \in DOMAIN b /\ h.dirs[i] = b[i - 1]
    <3>1. i - 1 \in DOMAIN b /\ (i - 1) + 1 = i
      BY <2>2, <2>3, <2>6
    <3> QED
      BY <2>5, <3>1
  <2>7. Len(dir) \in Nat
    BY <2>2 DEF AnyPath
  <2> QED
    BY <2>1, <2>2, <2>3, <2>4, <2>5, <2>6, <2>7
<1>1. /\ h.found \subseteq Wanted(disk)
      /\ \A p \in Wanted(disk) \ h.found : \E i \in DOMAIN h.dirs : Under(p, h.dirs[i])
      /\ \A i \in DOMAIN h.dirs : Visited(disk, h.dirs[i])
  BY DEF Walks
<1> HIDE DEF dir, b
<1>2. a \in Seq(subs) /\ a \in Seq(AnyPath) /\ \A x \in subs : \E i \in DOMAIN a : a[i] = x
  <2>1. subs \subseteq DirsIn(dir) /\ subs \subseteq AnyPath
    BY <1>0, DirsBelow DEF dir
  <2>2. IsFiniteSet(subs)
    BY <1>0, <2>1, DirsBelow, FS_Subset
  <2>3. a \in Seq(subs) /\ \A x \in subs : \E i \in DOMAIN a : a[i] = x
    BY <2>2, Enumerated
  <2> QED
    BY <2>1, <2>3, SeqMonotonic
<1> HIDE DEF a
<1>3. /\ DOMAIN g.dirs = 1..(Len(a) + Len(b))
      /\ Len(a) \in Nat /\ Len(b) \in Nat /\ DOMAIN a = 1..Len(a) /\ DOMAIN b = 1..Len(b)
      /\ \A i \in DOMAIN a : i \in DOMAIN g.dirs /\ g.dirs[i] = a[i]
      /\ \A i \in DOMAIN b : Len(a) + i \in DOMAIN g.dirs /\ g.dirs[Len(a) + i] = b[i]
      /\ \A i \in DOMAIN g.dirs : i \in DOMAIN a \/ (i - Len(a) \in DOMAIN b
                                                     /\ g.dirs[i] = b[i - Len(a)])
  <2>1. g.dirs = a \o b
    BY DEF a, b
  <2>2. Places(a, b, g.dirs)
    <3>1. a \in Seq(AnyPath) /\ b \in Seq(AnyPath)
      BY <1>0, <1>2
    <3>2. Places(a, b, a \o b)
      BY <3>1, Joined
    <3> QED
      BY <2>1, <3>2
  <2> QED
    BY <2>2 DEF Places
<1>4. g.found \subseteq Wanted(disk)
  <2>1. ASSUME NEW p \in FilesIn(dir)
        PROVE  p \in Wanted(disk)
    <3>1. /\ p \in Files /\ disk[p] # Absent /\ Len(p) = Len(dir) + 1
          /\ \A i \in 1..Len(dir) : p[i] = dir[i]
      BY <1>0, FilesBelow
    <3>2. ASSUME Len(p) > 1
          PROVE  p[1] \notin Versioning
      <4>1. Len(dir) # 0 /\ 1 \in 1..Len(dir)
        BY <1>0, <3>1, <3>2
      <4>2. dir # <<>>
        BY <4>1
      <4>3. dir[1] \notin Versioning
        BY <1>0, <1>1, <4>2 DEF Visited
      <4> QED
        BY <3>1, <4>1, <4>3
    <3> QED
      BY <3>1, <3>2 DEF Wanted
  <2> QED
    BY <1>1, <2>1 DEF dir
<1>5. ASSUME NEW p \in Wanted(disk) \ g.found
      PROVE  \E i \in DOMAIN g.dirs : Under(p, g.dirs[i])
  <2>1. p \notin h.found /\ p \notin FilesIn(dir) /\ p \in Files /\ disk[p] # Absent
        /\ p \in AnyPath /\ (Len(p) > 1 => p[1] \notin Versioning)
    BY <1>5, FilesArePaths DEF Wanted, dir
  <2>2. PICK i \in DOMAIN h.dirs : Under(p, h.dirs[i])
    BY <1>1, <2>1
  <2>3. CASE i = 1
    <3>1. PICK sub \in DirsIn(dir) : Under(p, sub)
      BY <1>0, <2>1, <2>2, <2>3, DirsBelow
    <3>2. sub \in AnyPath /\ Len(sub) \in Nat /\ Len(sub) = Len(dir) + 1
      BY <1>0, DirsBelow DEF AnyPath
    <3>3. Len(sub) < Len(p) /\ \A j \in 1..Len(sub) : p[j] = sub[j]
      BY <2>1, <3>1, <3>2, UnderMeans
    <3>4. ~Ignored(sub)
      <4>1. CASE Len(sub) = 1
        <5>1. p[1] = sub[1] /\ Len(p) > 1
          BY <3>3, <4>1
        <5>2. Last(sub) = sub[1]
          BY <4>1 DEF Last
        <5> QED
          BY <2>1, <5>1, <5>2 DEF Ignored
      <4> QED
        BY <4>1 DEF Ignored
    <3>5. sub \in subs
      BY <3>4 DEF dir
    <3>6. PICK j \in DOMAIN a : a[j] = sub
      BY <1>2, <3>5
    <3> QED
      BY <1>3, <3>1, <3>6
  <2>4. CASE i # 1
    <3>1. i - 1 \in DOMAIN b /\ h.dirs[i] = b[i - 1]
      BY <1>0, <2>4
    <3>2. Len(a) + (i - 1) \in DOMAIN g.dirs /\ g.dirs[Len(a) + (i - 1)] = b[i - 1]
      BY <1>3, <3>1
    <3> QED
      BY <2>2, <3>1, <3>2
  <2> QED
    BY <2>3, <2>4
<1>6. ASSUME NEW i \in DOMAIN g.dirs
      PROVE  Visited(disk, g.dirs[i])
  <2>1. CASE i \in DOMAIN a
    <3>1. g.dirs[i] = a[i] /\ a[i] \in subs
      <4>1. a[i] \in subs
        BY <1>2, <2>1, ElementOfSeq
      <4> QED
        BY <1>3, <2>1, <4>1
    <3> DEFINE sub == a[i]
    <3>2. sub \in DirsIn(dir) /\ ~Ignored(sub)
      BY <3>1 DEF dir
    <3> HIDE DEF sub
    <3>3. /\ sub \in AnyPath /\ Len(sub) = Len(dir) + 1
          /\ \A j \in 1..Len(dir) : sub[j] = dir[j]
          /\ \E p \in Files : disk[p] # Absent /\ Under(p, sub)
      BY <1>0, <3>2, DirsBelow
    <3>4. sub[1] \notin Versioning
      <4>1. CASE Len(dir) = 0
        BY <3>2, <3>3, <4>1 DEF Ignored, Last
      <4>2. CASE Len(dir) # 0
        <5>1. 1 \in 1..Len(dir) /\ dir # <<>>
          BY <1>0, <4>2
        <5>2. dir[1] \notin Versioning
          BY <1>0, <1>1, <5>1 DEF Visited
        <5> QED
          BY <3>3, <5>1, <5>2
      <4> QED
        BY <4>1, <4>2
    <3>5. Visited(disk, sub)
      BY <3>3, <3>4 DEF Visited
    <3> QED
      BY <3>1, <3>5 DEF sub
  <2>2. CASE i \notin DOMAIN a
    <3>1. i - Len(a) \in DOMAIN b /\ g.dirs[i] = b[i - Len(a)]
      BY <1>3, <2>2
    <3> QED
      BY <1>0, <1>1, <3>1
  <2> QED
    BY <2>1, <2>2
<1> QED
  BY <1>4, <1>5, <1>6 DEF Walks

-----------------------------------------------------------------------------
(* Each result is given to the main thread once, and a hash ends the       *)
(* process only if it was disturbed, its directory was named without a     *)
(* slash, or what it has to open cannot be opened.                         *)

Answers ==
  /\ hashCalls \in Seq(DOMAIN hashes) /\ hashQueue \in Seq(DOMAIN hashes)
  /\ IsInjective(hashCalls) /\ IsInjective(hashQueue)
  /\ \A i \in DOMAIN hashCalls, j \in DOMAIN hashQueue : hashCalls[i] # hashQueue[j]
  /\ \A r \in DOMAIN hashes : hashes[r].at = "walk" =>
       /\ \A i \in DOMAIN hashCalls : hashCalls[i] # r
       /\ \A j \in DOMAIN hashQueue : hashQueue[j] # r

Excused(h) == h.disturbed \/ ~h.slash \/ barred \cap Opened(h) # {}
Ended ==
  hashProgram = "terminated" =>
    \E r \in DOMAIN hashes :
      hashes[r].async /\ hashes[r].at = "walk" /\ Excused(hashes[r])

HashInv == HashTypes /\ HashersInv /\ Answers /\ Ended

LEMMA InOrderMeans ==
  ASSUME NEW S \in SUBSET Files
  PROVE  InOrder(S) \in Seq(S) /\ Len(InOrder(S)) \in Nat
<1>1. HashPaths \in Seq(AnyPath)
  BY HashingAssumption, SeqMonotonic DEF AnyPath
<1>2. InOrder(S) \in Seq(AnyPath \cap S)
  BY <1>1, ChosenAre DEF InOrder
<1>3. AnyPath \cap S \subseteq S
  OBVIOUS
<1>4. InOrder(S) \in Seq(S)
  BY <1>2, <1>3, SeqMonotonic
<1> QED
  BY <1>4

(* A request that is new. *)
LEMMA OneAsked ==
  ASSUME HashInv, NEW h \in Hashers, h.at = "walk", Walks(disk, h), Reads(disk, h),
         hashes' = Append(hashes, h), disk' = disk, hashProgram = "running",
         UNCHANGED <<barred, hashQueue, hashCalls, asking, changes, hashProgram>>
  PROVE  HashInv'
<1>1. hashes \in Seq(Hashers) /\ Len(hashes) \in Nat /\ DOMAIN hashes = 1..Len(hashes)
  <2>1. hashes \in Seq(Hashers)
    BY DEF HashInv, HashTypes
  <2> QED
    BY <2>1
<1>2. /\ hashes' \in Seq(Hashers) /\ DOMAIN hashes' = DOMAIN hashes \cup {Len(hashes) + 1}
      /\ hashes'[Len(hashes) + 1] = h
      /\ \A r \in DOMAIN hashes : hashes'[r] = hashes[r]
      /\ Len(hashes) + 1 \notin DOMAIN hashes
  <2>1. /\ hashes' \in Seq(Hashers) /\ Len(hashes') = Len(hashes) + 1
        /\ hashes'[Len(hashes) + 1] = h
        /\ \A r \in 1..Len(hashes) : hashes'[r] = hashes[r]
    BY <1>1, AppendProperties
  <2>2. DOMAIN hashes' = 1..(Len(hashes) + 1)
    BY <2>1
  <2> QED
    BY <1>1, <2>1, <2>2
<1>3. HashTypes'
  BY <1>2 DEF HashInv, HashTypes
<1>4. HashersInv'
  BY <1>2 DEF HashInv, HashersInv
<1>5. Answers'
  <2>1. DOMAIN hashes \subseteq DOMAIN hashes'
    BY <1>2
  <2>2. hashCalls' \in Seq(DOMAIN hashes') /\ hashQueue' \in Seq(DOMAIN hashes')
    <3>1. hashCalls \in Seq(DOMAIN hashes) /\ hashQueue \in Seq(DOMAIN hashes)
      BY DEF HashInv, Answers
    <3> QED
      BY <2>1, <3>1, SeqMonotonic
  <2>3. ASSUME NEW r \in DOMAIN hashes', hashes'[r].at = "walk"
        PROVE  /\ \A i \in DOMAIN hashCalls : hashCalls[i] # r
               /\ \A j \in DOMAIN hashQueue : hashQueue[j] # r
    <3>1. CASE r \in DOMAIN hashes
      BY <1>2, <2>3, <3>1 DEF HashInv, Answers
    <3>2. CASE r = Len(hashes) + 1
      <4>1. /\ \A i \in DOMAIN hashCalls : hashCalls[i] \in DOMAIN hashes
            /\ \A j \in DOMAIN hashQueue : hashQueue[j] \in DOMAIN hashes
        BY DEF HashInv, Answers
      <4> QED
        BY <1>2, <3>2, <4>1
    <3> QED
      BY <1>2, <3>1, <3>2
  <2> QED
    BY <2>2, <2>3 DEF HashInv, Answers
<1>6. Ended'
  BY DEF Ended
<1> QED
  BY <1>3, <1>4, <1>5, <1>6 DEF HashInv

(* A request that has come further. *)
LEMMA OneChanged ==
  ASSUME HashInv, NEW r \in DOMAIN hashes, NEW h \in Hashers,
         Walks(disk, h), Reads(disk, h), hashes[r].at = "walk",
         hashes' = [hashes EXCEPT ![r] = h], disk' = disk, hashProgram = "running",
         UNCHANGED <<barred, asking, changes, hashProgram>>
  PROVE  /\ HashTypes' /\ HashersInv' /\ Ended'
         /\ DOMAIN hashes' = DOMAIN hashes /\ hashes'[r] = h
         /\ UNCHANGED <<hashQueue, hashCalls>> => Answers'
<1>1. hashes \in Seq(Hashers)
  BY DEF HashInv, HashTypes
<1>2. /\ hashes' \in Seq(Hashers) /\ DOMAIN hashes' = DOMAIN hashes /\ hashes'[r] = h
      /\ \A s \in DOMAIN hashes : s # r => hashes'[s] = hashes[s]
  BY <1>1
<1>3. HashTypes'
  BY <1>2 DEF HashInv, HashTypes
<1>4. HashersInv'
  BY <1>2 DEF HashInv, HashersInv
<1>5. Ended'
  BY DEF Ended
<1>6. ASSUME UNCHANGED <<hashQueue, hashCalls>>
      PROVE  Answers'
  BY <1>2, <1>6 DEF HashInv, Answers
<1> QED
  BY <1>2, <1>3, <1>4, <1>5, <1>6

(* What a thread throws ends the process; the main thread reports it.      *)
LEMMA OneThrown ==
  ASSUME HashInv, NEW r \in DOMAIN hashes, Walking(r), Throw(r), Keep,
         Excused(hashes[r])
  PROVE  HashInv'
<1>1. hashes \in Seq(Hashers) /\ hashes[r] \in Hashers /\ hashes[r].async \in BOOLEAN
  <2>1. hashes \in Seq(Hashers)
    BY DEF HashInv, HashTypes
  <2>2. hashes[r] \in Hashers
    BY <2>1
  <2> QED
    BY <2>1, <2>2 DEF Hashers
<1>2. CASE hashes[r].async
  <2>1. /\ hashProgram' = "terminated"
        /\ UNCHANGED <<disk, barred, hashes, hashQueue, hashCalls, asking, changes>>
    BY <1>2 DEF Throw, Keep
  <2>2. HashTypes' /\ HashersInv' /\ Answers'
    BY <2>1 DEF HashInv, HashTypes, HashersInv, Answers
  <2>3. Excused(hashes[r])' <=> Excused(hashes[r])
    BY <2>1 DEF Excused, Opened, HashedFiles, TreePaths
  <2>4. Ended'
    <3>1. hashes'[r].async /\ hashes'[r].at = "walk" /\ r \in DOMAIN hashes'
      BY <1>2, <2>1 DEF Walking
    <3> QED
      BY <2>3, <3>1 DEF Ended
  <2> QED
    BY <2>2, <2>4 DEF HashInv
<1>3. CASE ~hashes[r].async
  <2> DEFINE h == [hashes[r] EXCEPT !.at = "raised"]
  <2>1. /\ hashes' = [hashes EXCEPT ![r] = h]
        /\ UNCHANGED <<disk, barred, hashQueue, hashCalls, asking, changes, hashProgram>>
    BY <1>3 DEF Throw, Keep
  <2>2. /\ h \in Hashers /\ h.at = "raised" /\ h.async = hashes[r].async
        /\ h.disturbed = hashes[r].disturbed /\ h.slash = hashes[r].slash
        /\ h.kind = hashes[r].kind /\ h.dirs = hashes[r].dirs /\ h.text = hashes[r].text
        /\ h.found = hashes[r].found
    BY <1>1 DEF Hashers, Stages
  <2> HIDE DEF h
  <2>3. Walks(disk, h)
    BY <2>2 DEF Walks, Undisturbed
  <2>4. Reads(disk, h)
    <3>1. Reads(disk, hashes[r])
      BY DEF HashInv, HashersInv
    <3> QED
      BY <2>2, <3>1 DEF Reads, Undisturbed
  <2> QED
    BY <2>1, <2>2, <2>3, <2>4, OneChanged DEF Walking, HashInv
<1> QED
  BY <1>2, <1>3

LEMMA AskHashStep ==
  ASSUME HashInv, AskHash
  PROVE  HashInv'
<1>1. PICK async \in BOOLEAN :
        \/ \E slash \in BOOLEAN :
             hashes' = Append(hashes, Hasher("dir", <<<<>>>>, {}, slash, async))
        \/ \E p \in {q \in Files : disk[q] # Absent} :
             hashes' = Append(hashes, Hasher("file", <<>>, {p}, TRUE, async))
  BY DEF AskHash
<1>2. /\ hashProgram = "running"
      /\ UNCHANGED <<disk, barred, hashQueue, hashCalls, asking, changes, hashProgram>>
  BY DEF AskHash, MainFree
<1>3. <<>> \in AnyPath /\ <<>> \in Seq(Contents) /\ <<>> \in Seq(AnyPath) /\ Len(<<>>) = 0
  BY DEF AnyPath
<1>4. <<<<>>>> \in Seq(AnyPath) /\ DOMAIN <<<<>>>> = {1} /\ <<<<>>>>[1] = <<>>
      /\ <<<<>>>> # <<>>
  <2> DEFINE root == <<>>
  <2>1. root \in AnyPath
    BY <1>3
  <2> HIDE DEF root
  <2>2. /\ <<root>> \in Seq(AnyPath) /\ DOMAIN <<root>> = {1} /\ <<root>>[1] = root
        /\ <<root>> # <<>>
    BY <2>1
  <2> QED
    BY <2>2 DEF root
<1>5. ASSUME NEW slash \in BOOLEAN,
             hashes' = Append(hashes, Hasher("dir", <<<<>>>>, {}, slash, async))
      PROVE  HashInv'
  <2> DEFINE h == Hasher("dir", <<<<>>>>, {}, slash, async)
  <2>1. /\ h.kind = "dir" /\ h.dirs = <<<<>>>> /\ h.found = {} /\ h.text = <<>>
        /\ h.at = "walk" /\ h.slash = slash
    BY DEF Hasher
  <2>2. h \in Hashers
    BY <1>3, <1>4 DEF Hasher, Hashers, Stages
  <2> HIDE DEF h
  <2>3. Walks(disk, h)
    <3>1. ASSUME NEW p \in Wanted(disk)
          PROVE  Under(p, h.dirs[1]) /\ 1 \in DOMAIN h.dirs
      <4>1. p \in AnyPath /\ p # <<>> /\ h.dirs[1] = <<>> /\ 1 \in DOMAIN h.dirs
        BY <1>4, <2>1, FilesArePaths DEF Wanted
      <4>2. Len(p) > 0
        BY <4>1 DEF AnyPath
      <4>3. Under(p, <<>>)
        BY <1>3, <4>1, <4>2, UnderMeans
      <4> QED
        BY <4>1, <4>3
    <3>2. \A i \in DOMAIN h.dirs : Visited(disk, h.dirs[i])
      BY <1>4, <2>1 DEF Visited
    <3> QED
      BY <2>1, <3>1, <3>2 DEF Walks
  <2>4. Reads(disk, h)
    <3>1. Len(InOrder(h.found)) \in Nat
      BY <2>1, InOrderMeans
    <3>2. DOMAIN h.text = {} /\ Len(h.text) = 0
      BY <2>1
    <3> QED
      BY <2>1, <3>1, <3>2 DEF Reads
  <2> QED
    BY <1>2, <1>5, <2>1, <2>2, <2>3, <2>4, OneAsked DEF h
<1>6. ASSUME NEW p \in Files, disk[p] # Absent,
             hashes' = Append(hashes, Hasher("file", <<>>, {p}, TRUE, async))
      PROVE  HashInv'
  <2> DEFINE h == Hasher("file", <<>>, {p}, TRUE, async)
  <2>1. /\ h.kind = "file" /\ h.dirs = <<>> /\ h.found = {p} /\ h.text = <<>>
        /\ h.at = "walk" /\ h.slash = TRUE
    BY DEF Hasher
  <2>2. h \in Hashers
    BY <1>3 DEF Hasher, Hashers, Stages
  <2> HIDE DEF h
  <2>3. Walks(disk, h)
    BY <2>1 DEF Walks
  <2>4. Reads(disk, h)
    <3>1. Len(InOrder(h.found)) \in Nat
      BY <2>1, InOrderMeans
    <3>2. DOMAIN h.text = {} /\ Len(h.text) = 0
      BY <2>1
    <3> QED
      BY <1>6, <2>1, <3>1, <3>2 DEF Reads
  <2> QED
    BY <1>2, <1>6, <2>1, <2>2, <2>3, <2>4, OneAsked DEF h
<1> QED
  BY <1>1, <1>5, <1>6

LEMMA RecurseStep ==
  ASSUME HashInv, NEW r \in DOMAIN hashes, RecurseDirectoryPaths(r)
  PROVE  HashInv'
<1> DEFINE h == hashes[r]
           dir == Head(h.dirs)
           subs == {sub \in DirsIn(dir) : ~Ignored(sub)}
           g == [h EXCEPT !.found = @ \cup FilesIn(dir),
                          !.dirs = SetToSeq(subs) \o Tail(@)]
<1>1. h \in Hashers /\ Walking(r) /\ h.dirs # <<>> /\ Keep
  <2>1. hashes \in Seq(Hashers)
    BY DEF HashInv, HashTypes
  <2>2. h \in Hashers
    BY <2>1
  <2> QED
    BY <2>2 DEF RecurseDirectoryPaths
<1>2. /\ h.kind = "dir" /\ h.text = <<>> /\ h.dirs \in Seq(AnyPath) /\ dir \in AnyPath
      /\ Tail(h.dirs) \in Seq(AnyPath) /\ h.dirs[1] = dir /\ 1 \in DOMAIN h.dirs
      /\ h.found \subseteq Files
  <2>1. Reads(disk, h)
    BY DEF HashInv, HashersInv
  <2>2. h.kind = "dir" /\ h.text = <<>>
    BY <1>1, <2>1 DEF Reads, Hashers
  <2>3. h.dirs \in Seq(AnyPath) /\ h.found \subseteq Files
    BY <1>1 DEF Hashers
  <2> DEFINE d == h.dirs
  <2> HIDE DEF h, d
  <2>4. d \in Seq(AnyPath) /\ d # <<>>
    BY <1>1, <2>3 DEF d
  <2>5. Head(d) \in AnyPath /\ Tail(d) \in Seq(AnyPath) /\ d[1] = Head(d) /\ 1 \in DOMAIN d
    BY <2>4
  <2> QED
    BY <2>2, <2>3, <2>5 DEF d
<1>3. CASE Throw(r) /\ (\/ dir \in barred
                        \/ dir # <<>> /\ FilesIn(dir) = {} /\ DirsIn(dir) = {}
                        \/ dir # <<>> /\ ~h.slash)
  <2>1. ASSUME h.slash, ~h.disturbed
        PROVE  dir \in barred /\ dir \in Opened(h)
    <3>1. Visited(disk, dir)
      <4>1. Walks(disk, h)
        BY DEF HashInv, HashersInv
      <4> HIDE DEF h, dir
      <4> QED
        BY <1>1, <1>2, <2>1, <4>1 DEF Walks, Undisturbed, Walking, h
    <3> HIDE DEF dir, h
    <3>2. CASE dir = <<>>
      <4>1. dir \in barred
        BY <1>3, <3>2
      <4> QED
        BY <1>2, <3>2, <4>1 DEF Opened, TreePaths
    <3>3. CASE dir # <<>>
      <4>1. PICK p \in Files : disk[p] # Absent /\ Under(p, dir)
        BY <3>1, <3>3 DEF Visited
      <4>2. dir \in barred
        <5>1. p \in FilesIn(dir) \/ DirsIn(dir) # {}
          BY <1>2, <4>1, DirsBelow
        <5> QED
          BY <1>3, <2>1, <5>1
      <4>3. dir \in TreePaths
        BY <4>2 DEF HashInv, HashTypes
      <4>4. p \in HashedFiles
        <5>1. p[1] = dir[1]
          <6>1. Len(dir) \in Nat /\ Len(dir) # 0 /\ p \in AnyPath
            BY <1>2, <3>3, FilesArePaths DEF AnyPath
          <6>2. \A i \in 1..Len(dir) : p[i] = dir[i]
            BY <1>2, <4>1, <6>1, UnderMeans
          <6>3. 1 \in 1..Len(dir)
            BY <6>1
          <6> QED
            BY <6>2, <6>3
        <5>2. dir[1] \notin Versioning
          BY <3>1, <3>3 DEF Visited
        <5> QED
          BY <4>1, <5>1, <5>2 DEF HashedFiles
      <4>5. IsPrefix(dir, p)
        BY <4>1 DEF Under, IsStrictPrefix
      <4>6. h.kind # "file"
        BY <1>2
      <4> QED
        BY <4>2, <4>3, <4>4, <4>5, <4>6 DEF Opened
    <3> QED
      BY <3>2, <3>3
  <2>2. Excused(h)
    BY <2>1 DEF Excused
  <2> QED
    BY <1>1, <1>3, <2>2, OneThrown
<1>4. CASE /\ dir \notin barred
           /\ h.slash \/ dir = <<>>
           /\ hashes' = [hashes EXCEPT ![r] = g]
           /\ UNCHANGED <<hashQueue, hashProgram>>
  <2>1. /\ g.found = h.found \cup FilesIn(dir) /\ g.dirs = SetToSeq(subs) \o Tail(h.dirs)
        /\ g.kind = h.kind /\ g.slash = h.slash /\ g.async = h.async /\ g.at = h.at
        /\ g.text = h.text /\ g.disturbed = h.disturbed
    BY <1>1 DEF Hashers
  <2>2. g \in Hashers
    <3> DEFINE ds == SetToSeq(subs) \o Tail(h.dirs)
               fs == h.found \cup FilesIn(dir)
    <3>1. ds \in Seq(AnyPath)
      <4>1. subs \subseteq DirsIn(dir) /\ subs \subseteq AnyPath /\ IsFiniteSet(DirsIn(dir))
        <5> HIDE DEF dir
        <5> QED
          BY <1>2, DirsBelow
      <4> HIDE DEF subs
      <4>2. IsFiniteSet(subs)
        BY <4>1, FS_Subset
      <4>3. SetToSeq(subs) \in Seq(subs)
        BY <4>2, Enumerated
      <4>4. SetToSeq(subs) \in Seq(AnyPath)
        BY <4>1, <4>3, SeqMonotonic
      <4> QED
        BY <1>2, <4>4, Joined
    <3>2. fs \in SUBSET Files
      BY <1>2 DEF FilesIn
    <3>3. g = [h EXCEPT !.found = fs, !.dirs = ds]
      BY <1>1 DEF Hashers
    <3> HIDE DEF fs, ds, g, h
    <3>4. [h EXCEPT !.found = fs, !.dirs = ds] \in Hashers
      BY <1>1, <3>1, <3>2 DEF Hashers
    <3> QED
      BY <3>3, <3>4
  <2>3. Walks(disk, g)
    <3>1. CASE Undisturbed(h) /\ h.slash
      <4>1. Walks(disk, h)
        BY DEF HashInv, HashersInv
      <4> HIDE DEF g, h
      <4> QED
        BY <1>1, <1>2, <2>1, <2>2, <3>1, <4>1, WalkOn
    <3>2. CASE ~(Undisturbed(h) /\ h.slash)
      <4> HIDE DEF g, h
      <4> QED
        BY <2>1, <3>2 DEF Walks, Undisturbed
    <3> QED
      BY <3>1, <3>2
  <2>4. Reads(disk, g)
    <3>1. Len(InOrder(g.found)) \in Nat
      <4>1. g.found \subseteq Files
        BY <2>2 DEF Hashers
      <4> QED
        BY <4>1, InOrderMeans
    <3>2. g.kind = "dir" /\ g.text = <<>> /\ DOMAIN <<>> = {} /\ Len(<<>>) = 0
      BY <1>2, <2>1
    <3> HIDE DEF g
    <3> QED
      BY <3>1, <3>2 DEF Reads
  <2>5. UNCHANGED <<disk, barred, asking, changes, hashProgram, hashQueue, hashCalls>>
    BY <1>1, <1>4 DEF Keep
  <2> HIDE DEF g
  <2> QED
    BY <1>1, <1>4, <2>1, <2>2, <2>3, <2>4, <2>5, OneChanged DEF Walking, HashInv
<1>5. hashes' = [hashes EXCEPT ![r].found = @ \cup FilesIn(dir),
                               ![r].dirs = SetToSeq(subs) \o Tail(@)]
        => hashes' = [hashes EXCEPT ![r] = g]
  BY <1>1 DEF HashInv, HashTypes, Hashers
<1> QED
  BY <1>3, <1>4, <1>5 DEF RecurseDirectoryPaths

LEMMA GetFileContentsStep ==
  ASSUME HashInv, NEW r \in DOMAIN hashes, GetFileContents(r)
  PROVE  HashInv'
<1> DEFINE h == hashes[r]
           s == InOrder(h.found)
           k == Len(h.text) + 1
           p == s[k]
           g == [h EXCEPT !.text = Append(@, disk[p])]
<1>1. h \in Hashers /\ Walking(r) /\ h.dirs = <<>> /\ Keep
  <2>1. hashes \in Seq(Hashers)
    BY DEF HashInv, HashTypes
  <2>2. h \in Hashers
    BY <2>1
  <2> QED
    BY <2>2 DEF GetFileContents
<1>2. h.text \in Seq(Contents) /\ h.found \subseteq Files /\ Len(h.text) \in Nat
  <2>1. h.text \in Seq(Contents) /\ h.found \subseteq Files
    BY <1>1 DEF Hashers
  <2> QED
    BY <2>1
<1>3. s \in Seq(h.found) /\ Len(s) \in Nat /\ Len(h.text) < Len(s)
  BY <1>2, InOrderMeans DEF GetFileContents, Sorted
<1>4. k \in 1..Len(s) /\ p \in h.found /\ p \in Files
  <2>1. k \in 1..Len(s)
    BY <1>2, <1>3
  <2>2. p \in h.found
    BY <1>3, <2>1, ElementOfSeq
  <2> QED
    BY <1>2, <2>1, <2>2
<1>5. CASE Throw(r) /\ (disk[p] = Absent \/ p \in barred \/ ~h.slash)
  <2>1. ASSUME h.slash, ~h.disturbed
        PROVE  disk[p] # Absent /\ (p \in TreePaths => p \in Opened(h))
    <3>1. Walks(disk, h) /\ Reads(disk, h) /\ Undisturbed(h) /\ h.kind \in {"dir", "file"}
      BY <1>1, <2>1 DEF HashInv, HashersInv, Undisturbed, Walking, Hashers
    <3>2. CASE h.kind = "dir"
      <4>1. p \in HashedFiles
        BY <1>4, <2>1, <3>1, <3>2 DEF Walks, Wanted, HashedFiles
      <4>2. IsPrefix(p, p)
        <5>1. p \in AnyPath
          BY <1>4, FilesArePaths
        <5> HIDE DEF p
        <5>2. p \in Seq(STRING) /\ Len(p) \in Nat /\ SubSeq(p, 1, Len(p)) = p
          BY <5>1 DEF AnyPath
        <5> QED
          BY <5>2 DEF IsPrefix
      <4> HIDE DEF p, h
      <4> QED
        BY <3>2, <4>1, <4>2 DEF Opened, HashedFiles
    <3>3. CASE h.kind = "file"
      <4>1. disk[p] # Absent
        BY <1>4, <3>1, <3>3 DEF Reads
      <4> HIDE DEF p, h
      <4> QED
        BY <1>4, <3>3, <4>1 DEF Opened
    <3> QED
      BY <3>1, <3>2, <3>3
  <2>2. barred \subseteq TreePaths
    BY DEF HashInv, HashTypes
  <2>3. Excused(h)
    BY <1>5, <2>1, <2>2 DEF Excused
  <2> QED
    BY <1>1, <1>5, <2>3, OneThrown
<1>6. CASE hashes' = [hashes EXCEPT ![r] = g] /\ UNCHANGED <<hashQueue, hashProgram>>
  <2> DEFINE t == Append(h.text, disk[p])
  <2>1. /\ g.found = h.found /\ g.dirs = h.dirs /\ g.text = t
        /\ g.kind = h.kind /\ g.slash = h.slash /\ g.async = h.async /\ g.at = h.at
        /\ g.disturbed = h.disturbed
    BY <1>1 DEF Hashers
  <2>2. disk[p] \in Contents
    BY <1>4 DEF HashInv, HashTypes
  <2>3. /\ t \in Seq(Contents) /\ Len(t) = k /\ t[k] = disk[p]
        /\ \A i \in 1..Len(h.text) : t[i] = h.text[i]
    BY <1>2, <2>2, AppendProperties
  <2>4. g \in Hashers
    <3>1. g = [h EXCEPT !.text = t]
      OBVIOUS
    <3> HIDE DEF g, t, h
    <3> QED
      BY <1>1, <2>3, <3>1 DEF Hashers
  <2>5. Walks(disk, h) /\ Reads(disk, h)
    BY DEF HashInv, HashersInv
  <2>6. Walks(disk, g)
    <3> HIDE DEF g, h
    <3> QED
      BY <2>1, <2>5 DEF Walks, Undisturbed
  <2>7. Reads(disk, g)
    <3>1. Len(g.text) <= Len(InOrder(g.found))
      BY <1>4, <2>1, <2>3
    <3>2. ASSUME Undisturbed(g), NEW i \in DOMAIN g.text
          PROVE  g.text[i] = disk[InOrder(g.found)[i]]
      <4>1. i \in 1..k /\ DOMAIN h.text = 1..Len(h.text)
        BY <1>2, <2>1, <2>3, <3>2
      <4>2. Undisturbed(h)
        BY <2>1, <3>2 DEF Undisturbed
      <4>3. CASE i = k
        BY <2>1, <2>3, <4>3
      <4>4. CASE i # k
        <5>1. i \in 1..Len(h.text)
          BY <1>2, <4>1, <4>4
        <5>2. h.text[i] = disk[InOrder(h.found)[i]]
          BY <2>5, <4>1, <4>2, <5>1 DEF Reads
        <5> QED
          BY <2>1, <2>3, <5>1, <5>2
      <4> QED
        BY <4>3, <4>4
    <3>3. Undisturbed(g) <=> Undisturbed(h)
      <4> HIDE DEF g, h
      <4> QED
        BY <2>1 DEF Undisturbed
    <3> HIDE DEF g, h, t
    <3> QED
      BY <1>1, <2>1, <2>5, <3>1, <3>2, <3>3 DEF Reads, h
  <2>8. UNCHANGED <<disk, barred, asking, changes, hashProgram, hashQueue, hashCalls>>
    BY <1>1, <1>6 DEF Keep
  <2> HIDE DEF g
  <2> QED
    BY <1>1, <1>6, <2>1, <2>4, <2>6, <2>7, <2>8, OneChanged DEF Walking, HashInv
<1>7. hashes' = [hashes EXCEPT ![r].text = Append(@, disk[p])]
        => hashes' = [hashes EXCEPT ![r] = g]
  BY <1>1 DEF HashInv, HashTypes, Hashers
<1> QED
  BY <1>5, <1>6, <1>7 DEF GetFileContents, Sorted

LEMMA FinishHashStep ==
  ASSUME HashInv, NEW r \in DOMAIN hashes, FinishHash(r)
  PROVE  HashInv'
<1> DEFINE h == hashes[r]
           g == [h EXCEPT !.at = "done"]
<1>1. h \in Hashers /\ Walking(r) /\ Keep /\ hashes \in Seq(Hashers)
  <2>1. hashes \in Seq(Hashers)
    BY DEF HashInv, HashTypes
  <2>2. h \in Hashers
    BY <2>1
  <2> QED
    BY <2>1, <2>2 DEF FinishHash
<1>2. /\ hashes' = [hashes EXCEPT ![r] = g] /\ UNCHANGED hashProgram
      /\ hashQueue' = IF h.async THEN Append(hashQueue, r) ELSE hashQueue
  BY <1>1 DEF FinishHash, Hashers
<1>3. /\ g \in Hashers /\ g.at = "done" /\ g.async = h.async
      /\ g.disturbed = h.disturbed /\ g.slash = h.slash
      /\ g.kind = h.kind /\ g.dirs = h.dirs /\ g.text = h.text /\ g.found = h.found
  BY <1>1 DEF Hashers, Stages
<1> HIDE DEF g
<1>4. Walks(disk, g)
  BY <1>3 DEF Walks, Undisturbed
<1>5. Reads(disk, g)
  <2>1. Reads(disk, h)
    BY DEF HashInv, HashersInv
  <2> QED
    BY <1>3, <2>1 DEF Reads, Undisturbed
<1>6. UNCHANGED <<disk, barred, hashCalls, asking, changes>>
  BY <1>1 DEF Keep
<1>7. /\ HashTypes' /\ HashersInv' /\ Ended'
      /\ DOMAIN hashes' = DOMAIN hashes /\ hashes'[r] = g
      /\ \A s \in DOMAIN hashes : s # r => hashes'[s] = hashes[s]
  <2>1. /\ HashTypes' /\ HashersInv' /\ Ended'
        /\ DOMAIN hashes' = DOMAIN hashes /\ hashes'[r] = g
    BY <1>1, <1>2, <1>3, <1>4, <1>5, <1>6, OneChanged DEF Walking
  <2> QED
    BY <1>1, <1>2, <2>1
<1>8. Answers'
  <2> DEFINE D == DOMAIN hashes
  <2>1. /\ hashCalls \in Seq(D) /\ hashQueue \in Seq(D) /\ r \in D
        /\ IsInjective(hashCalls) /\ IsInjective(hashQueue)
        /\ \A i \in DOMAIN hashCalls, j \in DOMAIN hashQueue : hashCalls[i] # hashQueue[j]
        /\ \A i \in DOMAIN hashCalls : hashCalls[i] # r
        /\ \A j \in DOMAIN hashQueue : hashQueue[j] # r
    BY <1>1 DEF HashInv, Answers, Walking
  <2>2. \A s \in D : hashes'[s].at = "walk" =>
           /\ s # r
           /\ \A i \in DOMAIN hashCalls : hashCalls[i] # s
           /\ \A j \in DOMAIN hashQueue : hashQueue[j] # s
    BY <1>3, <1>7 DEF HashInv, Answers
  <2> HIDE DEF D
  <2>3. CASE hashQueue' = hashQueue
    BY <1>6, <1>7, <2>1, <2>2, <2>3 DEF Answers, D
  <2>4. CASE hashQueue' = Append(hashQueue, r)
    <3> DEFINE n == Len(hashQueue)
               q == Append(hashQueue, r)
    <3>1. n \in Nat /\ DOMAIN hashQueue = 1..n
      BY <2>1
    <3>2. q \in Seq(D) /\ Len(q) = n + 1 /\ q[n + 1] = r /\ \A i \in 1..n : q[i] = hashQueue[i]
      BY <2>1, AppendProperties
    <3>3. DOMAIN q = 1..(n + 1)
      BY <3>2
    <3> HIDE DEF q, n
    <3>4. \A i \in DOMAIN q : (i \in DOMAIN hashQueue /\ q[i] = hashQueue[i]) \/ (i = n + 1 /\ q[i] = r)
      BY <3>1, <3>2, <3>3
    <3>5. IsInjective(q)
      BY <2>1, <3>4 DEF IsInjective
    <3>6. hashQueue' = q
      BY <2>4 DEF q
    <3>7. \A i \in DOMAIN hashCalls, j \in DOMAIN q : hashCalls[i] # q[j]
      BY <2>1, <3>4
    <3>8. \A s \in D : hashes'[s].at = "walk" =>
            /\ \A i \in DOMAIN hashCalls : hashCalls[i] # s
            /\ \A j \in DOMAIN q : q[j] # s
      BY <2>2, <3>4
    <3> QED
      BY <1>6, <1>7, <2>1, <3>2, <3>5, <3>6, <3>7, <3>8 DEF Answers, D
  <2> QED
    BY <1>2, <2>3, <2>4
<1> QED
  BY <1>7, <1>8 DEF HashInv

LEMMA CallHashResultStep ==
  ASSUME HashInv, CallHashResult
  PROVE  HashInv'
<1>1. /\ hashQueue # <<>> /\ hashQueue' = Tail(hashQueue)
      /\ hashCalls' = IF asking THEN Append(hashCalls, Head(hashQueue)) ELSE hashCalls
      /\ hashProgram = "running"
      /\ UNCHANGED <<disk, barred, hashes, asking, changes, hashProgram>>
  BY DEF CallHashResult, MainFree
<1>2. HashTypes' /\ HashersInv' /\ Ended'
  BY <1>1 DEF HashInv, HashTypes, HashersInv, Ended
<1> DEFINE D == DOMAIN hashes
           t == Tail(hashQueue)
           x == Head(hashQueue)
<1>3. /\ hashCalls \in Seq(D) /\ hashQueue \in Seq(D)
      /\ IsInjective(hashCalls) /\ IsInjective(hashQueue)
      /\ \A i \in DOMAIN hashCalls, j \in DOMAIN hashQueue : hashCalls[i] # hashQueue[j]
      /\ \A s \in D : hashes[s].at = "walk" =>
           /\ \A i \in DOMAIN hashCalls : hashCalls[i] # s
           /\ \A j \in DOMAIN hashQueue : hashQueue[j] # s
  BY DEF HashInv, Answers
<1> HIDE DEF D
<1>4. /\ t \in Seq(D) /\ x \in D /\ x = hashQueue[1] /\ 1 \in DOMAIN hashQueue
      /\ \A i \in DOMAIN t : i + 1 \in DOMAIN hashQueue /\ i + 1 # 1 /\ t[i] = hashQueue[i + 1]
      /\ \A i, j \in DOMAIN t : i + 1 = j + 1 => i = j
  <2>1. t \in Seq(D) /\ x \in D /\ x = hashQueue[1] /\ Len(hashQueue) \in Nat
        /\ DOMAIN hashQueue = 1..Len(hashQueue) /\ Len(hashQueue) # 0
    BY <1>1, <1>3
  <2>2. Len(t) = Len(hashQueue) - 1 /\ DOMAIN t = 1..(Len(hashQueue) - 1)
    BY <1>1, <1>3
  <2>3. \A i \in DOMAIN t : t[i] = hashQueue[i + 1]
    BY <1>1, <1>3, <2>2
  <2> HIDE DEF t, x
  <2> QED
    BY <2>1, <2>2, <2>3
<1> HIDE DEF t, x
<1>5. /\ IsInjective(t) /\ \A i \in DOMAIN t : t[i] # x
      /\ \A i \in DOMAIN hashCalls : hashCalls[i] # x
      /\ \A i \in DOMAIN hashCalls, j \in DOMAIN t : hashCalls[i] # t[j]
      /\ \A s \in D : hashes[s].at = "walk" => s # x /\ \A j \in DOMAIN t : t[j] # s
  BY <1>3, <1>4 DEF IsInjective
<1>6. Answers'
  <2>1. hashQueue' = t
    BY <1>1 DEF t
  <2>2. CASE hashCalls' = hashCalls
    BY <1>1, <1>3, <1>4, <1>5, <2>1, <2>2 DEF Answers, D
  <2>3. CASE hashCalls' = Append(hashCalls, x)
    <3> DEFINE n == Len(hashCalls)
               c == Append(hashCalls, x)
    <3>1. n \in Nat /\ DOMAIN hashCalls = 1..n
      BY <1>3
    <3>2. c \in Seq(D) /\ Len(c) = n + 1 /\ c[n + 1] = x /\ \A i \in 1..n : c[i] = hashCalls[i]
      BY <1>3, <1>4, AppendProperties
    <3>3. DOMAIN c = 1..(n + 1)
      BY <3>2
    <3> HIDE DEF c, n
    <3>4. \A i \in DOMAIN c : (i \in DOMAIN hashCalls /\ c[i] = hashCalls[i]) \/ (i = n + 1 /\ c[i] = x)
      BY <3>1, <3>2, <3>3
    <3>5. /\ IsInjective(c)
          /\ \A i \in DOMAIN c, j \in DOMAIN t : c[i] # t[j]
      BY <1>3, <1>5, <3>4 DEF IsInjective
    <3>6. \A s \in D : hashes[s].at = "walk" =>
            /\ \A i \in DOMAIN c : c[i] # s
            /\ \A j \in DOMAIN t : t[j] # s
      BY <1>3, <1>5, <3>4
    <3>7. hashCalls' = c /\ hashQueue' = t /\ hashes' = hashes
      BY <1>1, <2>1, <2>3 DEF c
    <3>8. c \in Seq(D) /\ t \in Seq(D) /\ IsInjective(t)
      BY <1>4, <1>5, <3>2
    <3> QED
      BY <3>5, <3>6, <3>7, <3>8 DEF Answers, D
  <2> QED
    BY <1>1, <2>2, <2>3 DEF x
<1> QED
  BY <1>2, <1>6 DEF HashInv

(* A change disturbs whatever is being hashed. *)
LEMMA ChangeFileStep ==
  ASSUME HashInv, NEW p \in Files, ChangeFile(p)
  PROVE  HashInv'
<1>1. /\ hashProgram = "running" /\ changes < MaxChanges /\ changes' = changes + 1
      /\ UNCHANGED <<barred, hashQueue, hashCalls, asking, hashProgram>>
      /\ hashes' = [r \in DOMAIN hashes |->
           [hashes[r] EXCEPT !.disturbed = @ \/ hashes[r].at = "walk"]]
  BY DEF ChangeFile
<1>2. hashes \in Seq(Hashers) /\ changes \in 0..MaxChanges /\ disk \in [Files -> Contents]
      /\ MaxChanges \in Nat
  BY HashingAssumption DEF HashInv, HashTypes
<1>3. disk' \in [Files -> Contents] /\ changes' \in 0..MaxChanges
  <2>1. PICK content \in {Absent, changes + 2} : disk' = [disk EXCEPT ![p] = content]
    BY DEF ChangeFile
  <2>2. content \in Contents
    BY <1>1, <1>2 DEF Absent, Contents
  <2> QED
    BY <1>1, <1>2, <2>1, <2>2
<1>4. ASSUME NEW r \in DOMAIN hashes
      PROVE  /\ hashes'[r] \in Hashers
             /\ hashes'[r].kind = hashes[r].kind /\ hashes'[r].dirs = hashes[r].dirs
             /\ hashes'[r].text = hashes[r].text /\ hashes'[r].found = hashes[r].found
             /\ hashes'[r].at = hashes[r].at /\ hashes'[r].slash = hashes[r].slash
             /\ hashes'[r].async = hashes[r].async
             /\ ~Undisturbed(hashes'[r])
  <2> DEFINE h == hashes[r]
             b == (h.disturbed \/ h.at = "walk")
             g == [h EXCEPT !.disturbed = b]
  <2>1. hashes'[r] = g
    BY <1>1
  <2>2. h \in Hashers
    BY <1>2
  <2>3. b \in BOOLEAN /\ (h.at = "walk" => b)
    OBVIOUS
  <2> HIDE DEF b, h
  <2>4. /\ g \in Hashers
        /\ g.kind = h.kind /\ g.dirs = h.dirs /\ g.text = h.text /\ g.found = h.found
        /\ g.at = h.at /\ g.slash = h.slash /\ g.async = h.async /\ g.disturbed = b
    BY <2>2, <2>3 DEF Hashers
  <2>5. ~Undisturbed(g)
    BY <2>3, <2>4 DEF Undisturbed
  <2> HIDE DEF g
  <2> QED
    BY <2>1, <2>4, <2>5 DEF h
<1>5. hashes' \in Seq(Hashers) /\ DOMAIN hashes' = DOMAIN hashes
  <2>1. Len(hashes) \in Nat /\ DOMAIN hashes = 1..Len(hashes)
    BY <1>2
  <2>2. DOMAIN hashes' = DOMAIN hashes
    BY <1>1
  <2>3. hashes' = [i \in 1..Len(hashes) |-> hashes'[i]]
    BY <1>1, <2>1
  <2>4. hashes' \in [1..Len(hashes) -> Hashers]
    BY <1>4, <2>1, <2>3
  <2> QED
    BY <2>1, <2>2, <2>4
<1>6. HashTypes'
  BY <1>1, <1>3, <1>5 DEF HashInv, HashTypes
<1>7. HashersInv'
  <2>1. ASSUME NEW r \in DOMAIN hashes
        PROVE  Walks(disk', hashes'[r]) /\ Reads(disk', hashes'[r])
    <3>1. Walks(disk', hashes'[r])
      BY <1>4 DEF Walks
    <3>2. Reads(disk, hashes[r])
      BY DEF HashInv, HashersInv
    <3>3. Reads(disk', hashes'[r])
      BY <1>4, <3>2 DEF Reads
    <3> QED
      BY <3>1, <3>3
  <2> QED
    BY <1>5, <2>1 DEF HashersInv
<1>8. Answers'
  BY <1>1, <1>4, <1>5 DEF HashInv, Answers
<1>9. Ended'
  BY <1>1 DEF Ended
<1> QED
  BY <1>6, <1>7, <1>8, <1>9 DEF HashInv

(* What can be opened matters to no hash before it comes there. *)
LEMMA ChangeAccessStep ==
  ASSUME HashInv, NEW q \in TreePaths, ChangeAccess(q)
  PROVE  HashInv'
<1>1. /\ hashProgram = "running" /\ changes < MaxChanges /\ changes' = changes + 1
      /\ barred' = (barred \ {q}) \cup ({q} \ barred)
      /\ UNCHANGED <<disk, hashes, hashQueue, hashCalls, asking, hashProgram>>
  BY DEF ChangeAccess, SymDiff
<1>2. barred \subseteq TreePaths /\ changes \in 0..MaxChanges /\ MaxChanges \in Nat
  BY HashingAssumption DEF HashInv, HashTypes
<1>3. barred' \subseteq TreePaths /\ changes' \in 0..MaxChanges
  BY <1>1, <1>2
<1>4. HashTypes' /\ HashersInv' /\ Answers'
  BY <1>1, <1>3 DEF HashInv, HashTypes, HashersInv, Answers, TreePaths
<1>5. Ended'
  BY <1>1 DEF Ended
<1> QED
  BY <1>4, <1>5 DEF HashInv

LEMMA HashInvariant == HashSpec => []HashInv
<1>1. ASSUME HashInit
      PROVE  HashInv
  <2>1. disk = [p \in Files |-> 1] /\ barred = {} /\ hashes = <<>>
        /\ hashQueue = <<>> /\ hashCalls = <<>>
        /\ asking = TRUE /\ changes = 0 /\ hashProgram = "running"
    BY <1>1 DEF HashInit
  <2>2. hashes \in Seq(Hashers) /\ DOMAIN hashes = {}
    BY <2>1
  <2>3. HashTypes
    <3>1. 1 \in Contents
      BY HashingAssumption DEF Contents
    <3> QED
      BY <2>1, <2>2, <3>1, HashingAssumption DEF HashTypes
  <2>4. Answers
    <3>1. hashCalls \in Seq(DOMAIN hashes) /\ hashQueue \in Seq(DOMAIN hashes)
          /\ DOMAIN hashCalls = {} /\ DOMAIN hashQueue = {}
      BY <2>1
    <3> QED
      BY <2>2, <3>1 DEF Answers, IsInjective
  <2> QED
    BY <2>1, <2>2, <2>3, <2>4 DEF HashInv, HashersInv, Ended
<1>2. HashInv /\ [HashNext]_hashVars => HashInv'
  <2> SUFFICES ASSUME HashInv, [HashNext]_hashVars
               PROVE  HashInv'
    OBVIOUS
  <2>1. CASE AskHash
    BY <2>1, AskHashStep
  <2>2. CASE CallHashResult
    BY <2>2, CallHashResultStep
  <2>3. CASE CloseAskingState
    <3>1. /\ asking' = FALSE /\ hashProgram = "running"
          /\ UNCHANGED <<disk, barred, hashes, hashQueue, hashCalls, changes, hashProgram>>
      BY <2>3 DEF CloseAskingState, MainFree
    <3>2. HashTypes' /\ HashersInv' /\ Answers'
      BY <3>1 DEF HashInv, HashTypes, HashersInv, Answers, TreePaths
    <3>3. Ended'
      BY <3>1 DEF Ended
    <3> QED
      BY <3>2, <3>3 DEF HashInv
  <2>4. ASSUME NEW r \in DOMAIN hashes,
               RecurseDirectoryPaths(r) \/ GetFileContents(r) \/ FinishHash(r)
        PROVE  HashInv'
    BY <2>4, RecurseStep, GetFileContentsStep, FinishHashStep
  <2>5. ASSUME NEW p \in Files, ChangeFile(p)
        PROVE  HashInv'
    BY <2>5, ChangeFileStep
  <2>6. ASSUME NEW q \in TreePaths, ChangeAccess(q)
        PROVE  HashInv'
    BY <2>6, ChangeAccessStep
  <2>7. CASE UNCHANGED hashVars
    <3>1. UNCHANGED <<disk, barred, hashes, hashQueue, hashCalls, asking, changes,
                      hashProgram>>
      BY <2>7 DEF hashVars
    <3>2. HashTypes' /\ HashersInv' /\ Answers'
      BY <3>1 DEF HashInv, HashTypes, HashersInv, Answers, TreePaths
    <3>3. Ended'
      BY <3>1 DEF HashInv, Ended, Excused, Opened, HashedFiles, TreePaths
    <3> QED
      BY <3>2, <3>3 DEF HashInv
  <2> QED
    BY <2>1, <2>2, <2>3, <2>4, <2>5, <2>6, <2>7 DEF HashNext
<1> QED
  BY <1>1, <1>2, PTL DEF HashSpec

(* The requests, the posted results and the files keep their types.        *)
THEOREM HashTypeCorrect == HashSpec => []HashTypeOK
<1>1. HashInv => HashTypeOK
  <2> SUFFICES ASSUME HashInv
               PROVE  HashTypeOK
    OBVIOUS
  <2>1. disk \in [Files -> 0..(MaxChanges + 1)] /\ hashProgram \in {"running", "terminated"}
    BY DEF HashInv, HashTypes, Contents
  <2>2. barred \subseteq TreePaths
    BY DEF HashInv, HashTypes
  <2>3. \A r \in DOMAIN hashes : hashes[r].at \in {"walk", "done", "raised"}
    <3>1. hashes \in Seq(Hashers)
      BY DEF HashInv, HashTypes
    <3>2. \A r \in DOMAIN hashes : hashes[r] \in Hashers
      BY <3>1
    <3> QED
      BY <3>2 DEF Hashers, Stages
  <2>4. ToSet(hashQueue) \cup ToSet(hashCalls) \subseteq DOMAIN hashes
    <3>1. hashCalls \in Seq(DOMAIN hashes) /\ hashQueue \in Seq(DOMAIN hashes)
      BY DEF HashInv, Answers
    <3> QED
      BY <3>1 DEF ToSet
  <2> QED
    BY <2>1, <2>2, <2>3, <2>4 DEF HashTypeOK
<1> QED
  BY <1>1, HashInvariant, PTL

(* A hash made while no file changed stands for the whole tree but the     *)
(* repositories directly below it, in an order that does not depend on the *)
(* walk; nobody gets a result twice; and a hash ends the process only if   *)
(* files changed under it, its directory was named without a slash, or     *)
(* something it stands for cannot be opened.                               *)
THEOREM HashesAgreeAlways == HashSpec => []HashesAgree
<1>1. HashInv => HashesAgree
  <2> SUFFICES ASSUME HashInv
               PROVE  HashesAgree
    OBVIOUS
  <2>1. ASSUME NEW r \in DOMAIN hashes, hashes[r].kind = "dir", hashes[r].slash,
               ~hashes[r].disturbed, hashes[r].at = "walk", hashes[r].dirs = <<>>
        PROVE  Sorted(r) = InOrder(HashedFiles)
    <3>1. Walks(disk, hashes[r]) /\ DOMAIN hashes[r].dirs = {}
      BY <2>1 DEF HashInv, HashersInv
    <3>2. hashes[r].found = Wanted(disk)
      BY <2>1, <3>1 DEF Walks, Undisturbed
    <3>3. Wanted(disk) = HashedFiles
      BY DEF Wanted, HashedFiles
    <3> QED
      BY <3>2, <3>3 DEF Sorted
  <2>2. ASSUME NEW r \in DOMAIN hashes, ~hashes[r].disturbed, hashes[r].at = "walk",
               NEW i \in DOMAIN hashes[r].text
        PROVE  hashes[r].text[i] = disk[Sorted(r)[i]]
    BY <2>2 DEF HashInv, HashersInv, Reads, Undisturbed, Sorted
  <2>3. IsInjective(hashCalls \o hashQueue)
    <3>1. hashCalls \in Seq(DOMAIN hashes) /\ hashQueue \in Seq(DOMAIN hashes)
      BY DEF HashInv, Answers
    <3> DEFINE c == hashCalls \o hashQueue
    <3>2. Places(hashCalls, hashQueue, c)
      BY <3>1, Joined
    <3> HIDE DEF c
    <3>3. \A i, j \in DOMAIN c : i - Len(hashCalls) = j - Len(hashCalls) => i = j
      BY <3>2 DEF Places
    <3>4. IsInjective(c)
      <4>1. \A i \in DOMAIN c :
              \/ i \in DOMAIN hashCalls /\ c[i] = hashCalls[i]
              \/ /\ i - Len(hashCalls) \in DOMAIN hashQueue
                 /\ c[i] = hashQueue[i - Len(hashCalls)]
        BY <3>2 DEF Places
      <4>2. /\ IsInjective(hashCalls) /\ IsInjective(hashQueue)
            /\ \A i \in DOMAIN hashCalls, j \in DOMAIN hashQueue : hashCalls[i] # hashQueue[j]
        BY DEF HashInv, Answers
      <4> QED
        BY <3>3, <4>1, <4>2 DEF IsInjective
    <3> QED
      BY <3>4 DEF c
  <2>4. hashProgram = "terminated" => \E r \in DOMAIN hashes :
          /\ hashes[r].async /\ hashes[r].at = "walk"
          /\ \/ hashes[r].disturbed \/ ~hashes[r].slash
             \/ barred \cap Opened(hashes[r]) # {}
    BY DEF HashInv, Ended, Excused
  <2> QED
    BY <2>1, <2>2, <2>3, <2>4 DEF HashesAgree
<1> QED
  BY <1>1, HashInvariant, PTL

-----------------------------------------------------------------------------
(* The signature cache.  The search is stated for any image and any        *)
(* entries, since what a file was saved for is searched again by the next  *)
(* start.                                                                  *)

At(e, name) == IF name \in DOMAIN e THEN e[name] ELSE -1
Hits(img, p) ==
  {i \in 0..(Len(img) - Len(p) - 1) :
     \A j \in DOMAIN p : p[j] \in {Masked, img[i + j]}}
FirstHit(img, p) == IF Hits(img, p) = {} THEN NotFound ELSE Min(Hits(img, p))
FindAt(img, p, hint) == IF hint \in Hits(img, p) THEN hint ELSE FirstHit(img, p)

CodeOf(s) == Signatures[s].signature
FoundIn(img, e, s) == FindAt(img, CodeOf(s), At(e, NameOf(s)))
MissedIn(img, e) ==
  {s \in DOMAIN Signatures :
     /\ At(e, NameOf(s)) \notin Hits(img, CodeOf(s))
     /\ FoundIn(img, e, s) + Signatures[s].offset # NotFound
     /\ FoundIn(img, e, s) \notin {0, NotFound}}
ResolversIn(img, e) ==
  Chosen([i \in 1..Len(img) |-> i - 1],
         Hits(img, AssetPattern)
           \ {FoundIn(img, e, Excluded) + Signatures[Excluded].offset})
CacheGoodIn(img, e) ==
  /\ At(e, CountName) = TargetCount
  /\ \A i \in 1..TargetCount : At(e, IdOf(i - 1)) \in Hits(img, AssetPattern)

(* Entries the search would leave as they are: the functions need none     *)
(* that are not there, and the resolvers are there or wrong in number.     *)
ResolversSettled(img, e) ==
  CacheGoodIn(img, e) \/ Len(ResolversIn(img, e)) # TargetCount
Settled(img, e) == MissedIn(img, e) = {} /\ ResolversSettled(img, e)

(* No resolver is listed twice. *)
IdsDiffer(e) ==
  At(e, CountName) = TargetCount =>
    \A i, j \in 1..TargetCount :
      At(e, IdOf(i - 1)) = At(e, IdOf(j - 1)) /\ At(e, IdOf(i - 1)) # -1 => i = j

FunctionsFound ==
  /\ \A s \in DOMAIN Signatures :
       address[s] = FoundIn(image, locations, s) + Signatures[s].offset
  /\ MissedIn(image, locations) = {}
  /\ ~hasError => \A s \in DOMAIN Signatures : address[s] # NotFound

ResolversFound ==
  /\ \A i \in DOMAIN try_open_functions :
       try_open_functions[i] \in Hits(image, AssetPattern)
  /\ ~hasError => Len(try_open_functions) = TargetCount
  /\ ~junkRead => IsInjective(try_open_functions)
  /\ ResolversSettled(image, locations)

NoneTwice ==
  ~junkRead => /\ IdsDiffer(locations)
               /\ cacheFile.whole => IdsDiffer(cacheFile.entries)

(* A file that is current needs no other search. *)
CurrentSettled ==
  current =>
    /\ cacheFile.whole /\ Settled(image, cacheFile.entries)
    /\ searching = "loaded" => locations = cacheFile.entries
    /\ searching = "functions" => cacheMisses = 0 /\ Settled(image, locations)
    /\ searching = "save" => hasError

(* The inductive invariant of the signature cache. *)
SigInv ==
  /\ SigTypeOK
  /\ searching \in {"off", "loaded"} => cacheMisses = 0
  /\ searching = "functions" => cacheMisses <= Len(Signatures)
  /\ searching \in {"functions", "save", "done"} => FunctionsFound
  /\ searching \in {"save", "done"} => ResolversFound
  /\ NoneTwice
  /\ CurrentSettled

LEMMA SignaturesTyped ==
  /\ \A s \in DOMAIN Signatures :
       CodeOf(s) \in Seq(Int) /\ Signatures[s].offset \in Int
  /\ \A s \in DOMAIN Signatures : NameOf(s) # CountName
  /\ \A s \in DOMAIN Signatures : \A i : NameOf(s) # IdOf(i)
  /\ \A i : IdOf(i) # CountName
  /\ \A s, t \in DOMAIN Signatures : NameOf(s) = NameOf(t) => s = t
<1>1. Signatures \in Seq([funcname : STRING, signature : Seq(Int), offset : Int])
  BY SignatureAssumption
<1>2. \A s \in DOMAIN Signatures :
        Signatures[s] \in [funcname : STRING, signature : Seq(Int), offset : Int]
  <2> DEFINE R == [funcname : STRING, signature : Seq(Int), offset : Int]
  <2>1. Signatures \in Seq(R)
    BY <1>1
  <2> HIDE DEF R
  <2>2. \A s \in DOMAIN Signatures : Signatures[s] \in R
    BY <2>1
  <2> QED
    BY <2>2 DEF R
<1>3. \A s \in DOMAIN Signatures :
        CodeOf(s) \in Seq(Int) /\ Signatures[s].offset \in Int
  BY <1>2 DEF CodeOf
<1>4. /\ \A s \in DOMAIN Signatures : NameOf(s) # CountName
      /\ \A s \in DOMAIN Signatures : \A i : NameOf(s) # IdOf(i)
  BY SignatureAssumption DEF NameOf, CountName, IdOf
<1>5. \A i : IdOf(i) # CountName
  BY DEF IdOf, CountName
<1>6. \A s, t \in DOMAIN Signatures : NameOf(s) = NameOf(t) => s = t
  BY SignatureAssumption DEF NameOf
<1> QED
  BY <1>3, <1>4, <1>5, <1>6

LEMMA HitsAre ==
  ASSUME NEW img \in Seq(Int), NEW p \in Seq(Int)
  PROVE  /\ \A i \in Hits(img, p) : i \in Nat /\ i + 1 \in 1..Len(img)
         /\ NotFound \notin Hits(img, p)
<1>1. Len(img) \in Nat /\ Len(p) \in Nat
  OBVIOUS
<1> QED
  BY <1>1 DEF Hits, NotFound

(* What is found is where the code is, if it is anywhere, and stays found  *)
(* when it is the next hint.                                               *)
LEMMA FindAgain ==
  ASSUME NEW img \in Seq(Int), NEW p \in Seq(Int), NEW hint
  PROVE  /\ FindAt(img, p, hint) \in Hits(img, p) \cup {NotFound}
         /\ Hits(img, p) = {} => FindAt(img, p, hint) = NotFound
         /\ Hits(img, p) # {} => FindAt(img, p, hint) \in Hits(img, p)
         /\ FindAt(img, p, FindAt(img, p, hint)) = FindAt(img, p, hint)
<1>1. ASSUME Hits(img, p) # {}
      PROVE  FirstHit(img, p) \in Hits(img, p)
  <2> DEFINE T == Hits(img, p)
  <2>1. T \subseteq Nat /\ T # {}
    BY <1>1, HitsAre
  <2>2. Min(T) \in T
    <3> HIDE DEF T
    <3>1. \E x \in T : \A y \in T : x <= y
      BY <2>1, Smallest
    <3> QED
      BY <3>1 DEF Min
  <2> QED
    BY <1>1, <2>2 DEF FirstHit
<1>2. NotFound \notin Hits(img, p)
  BY HitsAre
<1>3. Hits(img, p) = {} => FirstHit(img, p) = NotFound
  BY DEF FirstHit
<1> QED
  BY <1>1, <1>2, <1>3 DEF FindAt

(* The operators of the search, and those that name the image and entries. *)
LEMMA SearchIn ==
  /\ \A p, h : HintCorrect(p, h) <=> h \in Hits(image, p)
  /\ \A p : Occurrences(p) = Hits(image, p)
  /\ \A p, h : FindPattern(p, h) = FindAt(image, p, h)
  /\ \A name : GetAddress(name) = At(locations, name)
  /\ \A s : Found(s) = FoundIn(image, locations, s)
  /\ Missed = MissedIn(image, locations)
  /\ CacheGood <=> CacheGoodIn(image, locations)
<1>1. \A p, h : HintCorrect(p, h) <=> h \in Hits(image, p)
  BY DEF HintCorrect, Hits, Scanned, CheckSignature
<1>2. \A p : Occurrences(p) = Hits(image, p)
  BY DEF Occurrences, Hits, Scanned, CheckSignature
<1>3. \A p, h : FindPattern(p, h) = FindAt(image, p, h)
  BY <1>1, <1>2 DEF FindPattern, FindAt, FirstHit
<1>4. \A name : GetAddress(name) = At(locations, name)
  BY DEF GetAddress, At
<1>5. \A s : Found(s) = FoundIn(image, locations, s)
  BY <1>3, <1>4 DEF Found, FoundIn, CodeOf
<1>6. Missed = MissedIn(image, locations)
  BY <1>1, <1>4, <1>5 DEF Missed, MissedIn, CodeOf
<1>7. CacheGood <=> CacheGoodIn(image, locations)
  <2>1. \A i \in 1..TargetCount : Cached[i] = At(locations, IdOf(i - 1))
    BY <1>4 DEF Cached
  <2> QED
    BY <1>1, <1>4, <2>1 DEF CacheGood, CacheGoodIn
<1> QED
  BY <1>1, <1>2, <1>3, <1>4, <1>5, <1>6, <1>7

(* Only the entries' values matter to the search. *)
LEMMA SameEntries ==
  ASSUME NEW img, NEW d, NEW e, \A name : At(d, name) = At(e, name)
  PROVE  /\ Settled(img, d) <=> Settled(img, e)
         /\ IdsDiffer(d) <=> IdsDiffer(e)
<1>1. \A s : FoundIn(img, d, s) = FoundIn(img, e, s)
  BY DEF FoundIn
<1>2. MissedIn(img, d) = MissedIn(img, e)
  BY <1>1 DEF MissedIn
<1>3. ResolversIn(img, d) = ResolversIn(img, e)
  BY <1>1 DEF ResolversIn
<1>4. CacheGoodIn(img, d) <=> CacheGoodIn(img, e)
  BY DEF CacheGoodIn
<1>5. IdsDiffer(d) <=> IdsDiffer(e)
  BY DEF IdsDiffer
<1> QED
  BY <1>2, <1>3, <1>4, <1>5 DEF Settled, ResolversSettled

(* The addresses that a scan gives the resolvers. *)
LEMMA ResolversAre ==
  ASSUME NEW img \in Seq(Int), NEW S
  PROVE  LET r == Chosen([i \in 1..Len(img) |-> i - 1], S) IN
         /\ r \in Seq(Int) /\ IsInjective(r)
         /\ \A i \in DOMAIN r : r[i] \in S
<1> DEFINE scan == [i \in 1..Len(img) |-> i - 1]
           r == Chosen(scan, S)
<1>1. scan \in Seq(Int) /\ Len(scan) = Len(img)
  OBVIOUS
<1>2. r \in Seq(Int) /\ \E ix : Picks(ix, scan, S, Len(scan), r)
  <2> HIDE DEF scan
  <2> QED
    BY <1>1, ChosenPicks
<1>3. PICK ix : Picks(ix, scan, S, Len(scan), r)
  BY <1>2
<1> HIDE DEF r
<1>4. ASSUME NEW i \in DOMAIN r
      PROVE  r[i] \in S /\ r[i] = ix[i] - 1 /\ ix[i] \in Int
  <2>1. ix[i] \in 1..Len(scan) /\ scan[ix[i]] \in S /\ r[i] = scan[ix[i]]
    BY <1>3 DEF Picks
  <2>2. ix[i] \in 1..Len(img) /\ Len(img) \in Nat
    BY <1>1, <2>1
  <2> QED
    BY <2>1, <2>2
<1>5. ASSUME NEW a \in DOMAIN r, NEW b \in DOMAIN r, r[a] = r[b]
      PROVE  a = b
  <2>1. DOMAIN r = 1..Len(r) /\ Len(r) \in Nat
    BY <1>2
  <2>2. \A i, j \in DOMAIN r : i < j => ix[i] < ix[j]
    BY <1>3 DEF Picks
  <2>3. ix[a] = ix[b]
    BY <1>4, <1>5
  <2>4. ~(a < b) /\ ~(b < a)
    BY <2>2, <2>3, <1>4
  <2> QED
    BY <2>1, <2>4
<1>6. IsInjective(r)
  BY <1>5 DEF IsInjective
<1> QED
  BY <1>2, <1>4, <1>6 DEF r

-----------------------------------------------------------------------------
(* What a step leaves of the entries. *)

LEMMA EntriesAre ==
  ASSUME NEW map, NEW new
  PROVE  \A name : At(WithEntries(map, new), name) =
                     IF name \in DOMAIN new THEN new[name] ELSE At(map, name)
BY DEF WithEntries, At

(* The search of the functions: every function has the address that the    *)
(* entries give it from now on.                                            *)
LEMMA FunctionsSettled ==
  ASSUME NEW img \in Seq(Int), NEW d, NEW e,
         \A s \in MissedIn(img, e) : At(d, NameOf(s)) = FoundIn(img, e, s),
         \A s \in DOMAIN Signatures \ MissedIn(img, e) :
           At(d, NameOf(s)) = At(e, NameOf(s))
  PROVE  /\ \A s \in DOMAIN Signatures : FoundIn(img, d, s) = FoundIn(img, e, s)
         /\ MissedIn(img, d) = {}
<1>1. ASSUME NEW s \in DOMAIN Signatures
      PROVE  FoundIn(img, d, s) = FoundIn(img, e, s)
  <2>1. CASE s \in MissedIn(img, e)
    <3>1. CodeOf(s) \in Seq(Int)
      BY SignaturesTyped
    <3>2. FindAt(img, CodeOf(s), FoundIn(img, e, s)) = FoundIn(img, e, s)
      BY <3>1, FindAgain DEF FoundIn
    <3> QED
      BY <2>1, <3>2 DEF FoundIn
  <2>2. CASE s \notin MissedIn(img, e)
    BY <2>2 DEF FoundIn
  <2> QED
    BY <2>1, <2>2
<1>2. ASSUME NEW s \in DOMAIN Signatures
      PROVE  s \notin MissedIn(img, d)
  <2>1. CASE s \in MissedIn(img, e)
    <3>1. CodeOf(s) \in Seq(Int)
      BY SignaturesTyped
    <3>2. FoundIn(img, e, s) \in Hits(img, CodeOf(s))
      BY <2>1, <3>1, FindAgain DEF MissedIn, FoundIn
    <3> QED
      BY <2>1, <3>2 DEF MissedIn
  <2>2. CASE s \notin MissedIn(img, e)
    <3>1. At(d, NameOf(s)) = At(e, NameOf(s))
      BY <2>2
    <3> QED
      BY <1>1, <2>2, <3>1 DEF MissedIn
  <2> QED
    BY <2>1, <2>2
<1>3. MissedIn(img, d) \subseteq DOMAIN Signatures
  BY DEF MissedIn
<1> QED
  BY <1>1, <1>2, <1>3

(* The scan for the resolvers: what is cached then is right, or has the    *)
(* wrong number.                                                           *)
LEMMA ResolversCached ==
  ASSUME NEW img \in Seq(Int), NEW d, NEW e,
         \A s \in DOMAIN Signatures : At(d, NameOf(s)) = At(e, NameOf(s)),
         At(d, CountName) = Len(ResolversIn(img, e)),
         \A i \in 1..Len(ResolversIn(img, e)) :
           At(d, IdOf(i - 1)) = ResolversIn(img, e)[i]
  PROVE  /\ \A s \in DOMAIN Signatures : FoundIn(img, d, s) = FoundIn(img, e, s)
         /\ MissedIn(img, d) = MissedIn(img, e)
         /\ ResolversSettled(img, d)
         /\ IdsDiffer(d)
         /\ \A i \in DOMAIN ResolversIn(img, e) :
              ResolversIn(img, e)[i] \in Hits(img, AssetPattern)
         /\ IsInjective(ResolversIn(img, e))
         /\ ResolversIn(img, e) \in Seq(Int)
<1> DEFINE r == ResolversIn(img, e)
<1>1. /\ r \in Seq(Int) /\ IsInjective(r)
      /\ \A i \in DOMAIN r : r[i] \in Hits(img, AssetPattern)
  BY ResolversAre DEF ResolversIn
<1>2. \A s \in DOMAIN Signatures : FoundIn(img, d, s) = FoundIn(img, e, s)
  BY DEF FoundIn
<1>3. MissedIn(img, d) = MissedIn(img, e)
  BY <1>2 DEF MissedIn
<1>4. ResolversIn(img, d) = r
  BY <1>2, SignatureAssumption DEF ResolversIn
<1>5. DOMAIN r = 1..Len(r)
  BY <1>1
<1> HIDE DEF r
<1>6. \A i \in 1..Len(r) : At(d, IdOf(i - 1)) = r[i]
  BY DEF r
<1>7. At(d, CountName) = Len(r)
  BY DEF r
<1>8. ResolversSettled(img, d)
  <2>1. CASE Len(r) = TargetCount
    BY <1>1, <1>5, <1>6, <1>7, <2>1 DEF ResolversSettled, CacheGoodIn
  <2>2. CASE Len(r) # TargetCount
    BY <1>4, <2>2 DEF ResolversSettled
  <2> QED
    BY <2>1, <2>2
<1>9. IdsDiffer(d)
  <2>1. ASSUME NEW i \in 1..Len(r), NEW j \in 1..Len(r),
               At(d, IdOf(i - 1)) = At(d, IdOf(j - 1))
        PROVE  i = j
    <3>1. r[i] = r[j]
      BY <1>6, <2>1
    <3> QED
      BY <1>1, <1>5, <3>1 DEF IsInjective
  <2> QED
    BY <1>7, <2>1 DEF IdsDiffer
<1> QED
  BY <1>1, <1>2, <1>3, <1>8, <1>9 DEF r

-----------------------------------------------------------------------------
LEMMA SigInitInv == SigInit => SigInv
<1> SUFFICES ASSUME SigInit
             PROVE  SigInv
  OBVIOUS
<1>1. Len(Signatures) \in Nat /\ TargetCount \in Nat /\ MaxStarts \in Nat
  BY SignatureAssumption
<1>2. SigTypeOK
  <2>1. DOMAIN try_open_functions = {}
    BY DEF SigInit
  <2>2. cacheMisses = 0 /\ starts = 0
    BY DEF SigInit
  <2>3. cacheMisses \in 0..(Len(Signatures) + 1) /\ starts \in 0..MaxStarts
    BY <1>1, <2>2
  <2> QED
    BY <2>1, <2>3 DEF SigInit, SigTypeOK
<1>3. IdsDiffer(NoEntries)
  BY <1>1 DEF IdsDiffer, At, NoEntries
<1>4. NoneTwice /\ CurrentSettled
  BY <1>3 DEF SigInit, NoneTwice, CurrentSettled
<1> QED
  BY <1>2, <1>4 DEF SigInit, SigInv

LEMMA LoadCacheInv == SigInv /\ LoadCache => SigInv'
<1> SUFFICES ASSUME SigInv, LoadCache
             PROVE  SigInv'
  OBVIOUS
<1>1. SigTypeOK'
  <2>1. starts + 1 \in 0..MaxStarts
    BY SignatureAssumption DEF SigInv, SigTypeOK, LoadCache
  <2>2. junkRead' \in BOOLEAN
    BY DEF SigInv, SigTypeOK, LoadCache
  <2> QED
    BY <2>1, <2>2 DEF SigInv, SigTypeOK, LoadCache
<1>2. ASSUME cacheFile.whole
      PROVE  locations' = cacheFile.entries
  BY <1>2 DEF LoadCache
<1>3. NoneTwice'
  BY <1>2 DEF SigInv, SigTypeOK, NoneTwice, LoadCache
<1>4. CurrentSettled'
  BY <1>2 DEF SigInv, CurrentSettled, LoadCache
<1> QED
  BY <1>1, <1>3, <1>4 DEF SigInv, LoadCache

LEMMA SearchFunctionsInv == SigInv /\ SearchFunctions => SigInv'
<1> SUFFICES ASSUME SigInv, SearchFunctions
             PROVE  SigInv'
  OBVIOUS
<1> DEFINE M == MissedIn(image, locations)
           new == [name \in {NameOf(s) : s \in M} |->
                     FoundIn(image, locations, CHOOSE s \in M : NameOf(s) = name)]
<1>1. image \in Seq(Int) /\ image' = image
  BY SignatureAssumption DEF SigInv, SigTypeOK, SearchFunctions
<1>2. M \subseteq DOMAIN Signatures
  BY DEF MissedIn
<1>3. cacheMisses' = Cardinality(M) /\ Cardinality(M) \in 0..Len(Signatures)
  <2>1. Len(Signatures) \in Nat /\ DOMAIN Signatures = 1..Len(Signatures)
    BY SignatureAssumption
  <2>2. IsFiniteSet(1..Len(Signatures)) /\ Cardinality(1..Len(Signatures)) = Len(Signatures)
    <3> DEFINE n == Len(Signatures)
    <3>1. n \in Nat
      BY <2>1
    <3> HIDE DEF n
    <3>2. IsFiniteSet(1..n) /\ Cardinality(1..n) = IF 1 > n THEN 0 ELSE n - 1 + 1
      BY <3>1, FS_Interval
    <3> QED
      BY <3>1, <3>2 DEF n
  <2>3. IsFiniteSet(M) /\ Cardinality(M) <= Len(Signatures) /\ Cardinality(M) \in Nat
    <3> HIDE DEF M
    <3> QED
      BY <1>2, <2>1, <2>2, FS_Subset, FS_CardinalityType
  <2>4. cacheMisses' = Cardinality(M)
    BY SearchIn DEF SearchFunctions
  <2> QED
    BY <2>1, <2>3, <2>4
<1>4. locations' = WithEntries(locations, new)
  BY SearchIn DEF SearchFunctions
<1>5. \A s \in DOMAIN Signatures :
        address'[s] = FoundIn(image, locations, s) + Signatures[s].offset
  BY SearchIn DEF SearchFunctions
<1>6. \A s \in M : At(locations', NameOf(s)) = FoundIn(image, locations, s)
  <2>1. ASSUME NEW s \in M
        PROVE  /\ NameOf(s) \in DOMAIN new
               /\ new[NameOf(s)] = FoundIn(image, locations, s)
    <3>1. (CHOOSE t \in M : NameOf(t) = NameOf(s)) = s
      <4> HIDE DEF M
      <4> QED
        BY <1>2, <2>1, SignaturesTyped
    <3> HIDE DEF M
    <3> QED
      BY <2>1, <3>1
  <2> HIDE DEF new, M
  <2> QED
    BY <1>4, <2>1, EntriesAre
<1>7. \A name : name \notin {NameOf(s) : s \in M} => At(locations', name) = At(locations, name)
  <2>1. DOMAIN new = {NameOf(s) : s \in M}
    OBVIOUS
  <2> HIDE DEF new, M
  <2> QED
    BY <1>4, <2>1, EntriesAre
<1>8. \A s \in DOMAIN Signatures \ M : At(locations', NameOf(s)) = At(locations, NameOf(s))
  <2>1. \A s \in DOMAIN Signatures \ M : NameOf(s) \notin {NameOf(t) : t \in M}
    <3> HIDE DEF M
    <3> QED
      BY <1>2, SignaturesTyped
  <2> HIDE DEF M
  <2> QED
    BY <1>7, <2>1
<1>9. /\ \A s \in DOMAIN Signatures :
           FoundIn(image, locations', s) = FoundIn(image, locations, s)
      /\ MissedIn(image, locations') = {}
  BY <1>1, <1>6, <1>8, FunctionsSettled
<1>10. FunctionsFound'
  <2>1. ~hasError' => \A s \in DOMAIN Signatures : address'[s] # NotFound
    BY DEF SearchFunctions
  <2> QED
    BY <1>1, <1>5, <1>9, <2>1 DEF FunctionsFound
<1>11. IdsDiffer(locations') <=> IdsDiffer(locations)
  <2>1. /\ CountName \notin {NameOf(s) : s \in M}
        /\ \A i : IdOf(i) \notin {NameOf(s) : s \in M}
    <3> HIDE DEF M
    <3> QED
      BY <1>2, SignaturesTyped
  <2>2. /\ At(locations', CountName) = At(locations, CountName)
        /\ \A i : At(locations', IdOf(i)) = At(locations, IdOf(i))
    <3> HIDE DEF M
    <3> QED
      BY <1>7, <2>1
  <2> QED
    BY <2>2 DEF IdsDiffer
<1>12. SigTypeOK'
  <2>1. hasError' \in BOOLEAN
    BY DEF SearchFunctions
  <2>2. cacheMisses' \in 0..(Len(Signatures) + 1)
    BY <1>3, SignatureAssumption
  <2> QED
    BY <2>1, <2>2 DEF SigInv, SigTypeOK, SearchFunctions
<1>13. NoneTwice'
  BY <1>11 DEF SigInv, NoneTwice, SearchFunctions
<1>14. CurrentSettled'
  <2>1. ASSUME current
        PROVE  cacheMisses' = 0 /\ Settled(image, locations')
    <3>1. Settled(image, locations)
      BY <2>1 DEF SigInv, CurrentSettled, SearchFunctions
    <3>2. M = {}
      BY <3>1 DEF Settled
    <3>3. \A name : At(locations', name) = At(locations, name)
      <4> HIDE DEF M
      <4> QED
        BY <1>7, <3>2
    <3>4. Settled(image, locations')
      BY <3>1, <3>3, SameEntries
    <3> QED
      BY <1>3, <3>2, <3>4, FS_EmptySet
  <2> QED
    BY <1>1, <2>1 DEF SigInv, CurrentSettled, SearchFunctions
<1>15. cacheMisses' <= Len(Signatures)
  BY <1>3, SignatureAssumption
<1> QED
  BY <1>10, <1>12, <1>13, <1>14, <1>15 DEF SigInv, SearchFunctions

LEMMA ResolversInv == SigInv /\ FindAssetLoadSignatures => SigInv'
<1> SUFFICES ASSUME SigInv, FindAssetLoadSignatures
             PROVE  SigInv'
  OBVIOUS
<1>1. /\ image \in Seq(Int) /\ image' = image /\ address' = address
      /\ cacheFile' = cacheFile /\ junkRead' = junkRead /\ current' = current
      /\ AssetPattern \in Seq(Int) /\ TargetCount \in Nat
  BY SignatureAssumption DEF SigInv, SigTypeOK, FindAssetLoadSignatures
<1>2. /\ FunctionsFound /\ NoneTwice /\ hasError \in BOOLEAN
      /\ cacheMisses \in 0..Len(Signatures)
      /\ current => cacheFile.whole /\ Settled(image, cacheFile.entries)
      /\ current => cacheMisses = 0 /\ Settled(image, locations)
  <2>1. Len(Signatures) \in Nat
    BY SignatureAssumption
  <2> QED
    BY <2>1 DEF SigInv, SigTypeOK, CurrentSettled, FindAssetLoadSignatures
<1>3. CASE CacheGood
  <2>1. /\ try_open_functions' = Cached /\ locations' = locations
        /\ cacheMisses' = cacheMisses /\ hasError' = hasError
        /\ searching' = IF cacheMisses > 0 THEN "save" ELSE "done"
    BY <1>3 DEF FindAssetLoadSignatures
  <2>2. CacheGoodIn(image, locations)
    BY <1>3, SearchIn
  <2>3. /\ DOMAIN Cached = 1..TargetCount /\ Len(Cached) = TargetCount
        /\ \A i \in 1..TargetCount : Cached[i] = At(locations, IdOf(i - 1))
    <3>1. \A i \in 1..TargetCount : Cached[i] = At(locations, IdOf(i - 1))
      BY SearchIn DEF Cached
    <3> QED
      BY <1>1, <3>1 DEF Cached
  <2>4. \A i \in 1..TargetCount : Cached[i] \in Hits(image, AssetPattern)
    BY <2>2, <2>3 DEF CacheGoodIn
  <2>5. \A i \in 1..TargetCount : Cached[i] \in Nat
    BY <1>1, <2>4, HitsAre
  <2>6. ~junkRead => IsInjective(Cached)
    <3>1. ASSUME ~junkRead, NEW i \in 1..TargetCount, NEW j \in 1..TargetCount,
                 Cached[i] = Cached[j]
          PROVE  i = j
      <4>1. At(locations, IdOf(i - 1)) # -1
        BY <2>3, <2>5
      <4>2. IdsDiffer(locations) /\ At(locations, CountName) = TargetCount
        BY <1>2, <2>2, <3>1 DEF NoneTwice, CacheGoodIn
      <4> QED
        BY <2>3, <3>1, <4>1, <4>2 DEF IdsDiffer
    <3> QED
      BY <2>3, <3>1 DEF IsInjective
  <2>7. ResolversFound'
    BY <1>1, <2>1, <2>2, <2>3, <2>4, <2>6 DEF ResolversFound, ResolversSettled
  <2>8. FunctionsFound' /\ NoneTwice'
    BY <1>1, <1>2, <2>1 DEF FunctionsFound, NoneTwice
  <2>9. CurrentSettled'
    BY <1>1, <1>2, <2>1 DEF CurrentSettled
  <2>10. SigTypeOK'
    <3>1. cacheMisses \in 0..(Len(Signatures) + 1)
      BY <1>2, SignatureAssumption
    <3> QED
      BY <1>1, <2>1, <2>3, <2>5, <3>1
      DEF SigInv, SigTypeOK, FindAssetLoadSignatures
  <2> QED
    BY <2>1, <2>7, <2>8, <2>9, <2>10 DEF SigInv
<1>4. CASE ~CacheGood
  <2> DEFINE r == ResolversIn(image, locations)
             counted == UpdateAddress(locations, CountName, Len(r))
             ids == [id \in {IdOf(k - 1) : k \in DOMAIN r} |-> r[id[2] + 1]]
  <2>1. Resolvers = r
    BY <1>2, SignatureAssumption, SearchIn DEF Resolvers, ResolversIn, FunctionsFound
  <2>2. /\ try_open_functions' = r /\ cacheMisses' = cacheMisses + 1
        /\ hasError' = (hasError \/ Len(r) # TargetCount)
        /\ locations' = WithEntries(counted, ids)
    BY <1>4, <2>1 DEF FindAssetLoadSignatures
  <2>3. searching' = "save"
    BY <1>2, <2>2 DEF FindAssetLoadSignatures
  <2>4. r \in Seq(Int)
    BY <1>1, ResolversAre DEF ResolversIn
  <2>5. DOMAIN r = 1..Len(r) /\ Len(r) \in Nat
    BY <2>4
  <2>6. \A name : At(counted, name) = IF name = CountName THEN Len(r) ELSE At(locations, name)
    <3> HIDE DEF r
    <3>1. \A name : At(counted, name) =
            IF name \in DOMAIN OneEntry(CountName, Len(r))
            THEN OneEntry(CountName, Len(r))[name] ELSE At(locations, name)
      BY EntriesAre DEF UpdateAddress
    <3> QED
      BY <3>1 DEF OneEntry
  <2>7. \A name : At(locations', name) = IF name \in DOMAIN ids THEN ids[name] ELSE At(counted, name)
    <3> HIDE DEF ids, counted, r
    <3> QED
      BY <2>2, EntriesAre
  <2>8. DOMAIN ids = {IdOf(k - 1) : k \in 1..Len(r)}
    BY <2>5
  <2>9. /\ At(locations', CountName) = Len(r)
        /\ \A s \in DOMAIN Signatures : At(locations', NameOf(s)) = At(locations, NameOf(s))
    <3>1. /\ CountName \notin DOMAIN ids
          /\ \A s \in DOMAIN Signatures : NameOf(s) \notin DOMAIN ids /\ NameOf(s) # CountName
      <4> HIDE DEF ids, r
      <4> QED
        BY <2>8, SignaturesTyped
    <3> HIDE DEF ids, counted, r
    <3> QED
      BY <2>6, <2>7, <3>1
  <2>10. \A i \in 1..Len(r) : At(locations', IdOf(i - 1)) = r[i]
    <3>1. ASSUME NEW i \in 1..Len(r)
          PROVE  IdOf(i - 1) \in DOMAIN ids /\ ids[IdOf(i - 1)] = r[i]
      <4>1. IdOf(i - 1) \in DOMAIN ids
        <5> HIDE DEF ids, r
        <5> QED
          BY <2>8, <3>1
      <4>2. IdOf(i - 1)[2] + 1 = i
        <5> HIDE DEF r
        <5>1. i \in Int
          BY <2>5, <3>1
        <5>2. IdOf(i - 1)[2] = i - 1
          BY DEF IdOf
        <5> QED
          BY <5>1, <5>2
      <4> HIDE DEF r
      <4>3. ids[IdOf(i - 1)] = r[IdOf(i - 1)[2] + 1]
        BY <4>1
      <4> QED
        BY <4>1, <4>2, <4>3
    <3> HIDE DEF ids, counted, r
    <3> QED
      BY <2>7, <3>1
  <2>11. /\ \A s \in DOMAIN Signatures :
              FoundIn(image, locations', s) = FoundIn(image, locations, s)
         /\ MissedIn(image, locations') = MissedIn(image, locations)
         /\ ResolversSettled(image, locations') /\ IdsDiffer(locations')
         /\ \A i \in DOMAIN r : r[i] \in Hits(image, AssetPattern)
         /\ IsInjective(r)
    BY <1>1, <2>9, <2>10, ResolversCached
  <2> HIDE DEF r, counted, ids
  <2>12. ResolversFound'
    BY <1>1, <2>2, <2>11 DEF ResolversFound
  <2>13. FunctionsFound'
    BY <1>1, <1>2, <2>2, <2>11 DEF FunctionsFound
  <2>14. NoneTwice'
    BY <1>1, <1>2, <2>11 DEF NoneTwice
  <2>15. CurrentSettled'
    <3>1. ASSUME current
          PROVE  hasError'
      <4>1. ~CacheGoodIn(image, locations)
        BY <1>4, SearchIn
      <4>2. Len(r) # TargetCount
        BY <1>2, <3>1, <4>1 DEF Settled, ResolversSettled, r
      <4> QED
        BY <2>2, <4>2
    <3> QED
      BY <1>1, <1>2, <2>3, <3>1 DEF CurrentSettled
  <2>16. SigTypeOK'
    <3>1. cacheMisses' \in 0..(Len(Signatures) + 1)
      BY <1>2, <2>2, SignatureAssumption
    <3>2. \A i \in DOMAIN r : r[i] \in Nat
      BY <1>1, <2>11, HitsAre
    <3>3. hasError' \in BOOLEAN
      BY <1>2, <2>2
    <3> QED
      BY <2>2, <2>3, <3>1, <3>2, <3>3 DEF SigInv, SigTypeOK, FindAssetLoadSignatures
  <2> QED
    BY <2>3, <2>12, <2>13, <2>14, <2>15, <2>16 DEF SigInv
<1> QED
  BY <1>3, <1>4

LEMMA BeginSaveInv == SigInv /\ BeginSave => SigInv'
<1> SUFFICES ASSUME SigInv, BeginSave
             PROVE  SigInv'
  OBVIOUS
<1>1. cacheFile'.whole = FALSE /\ current' = FALSE
  BY DEF BeginSave
<1>2. SigTypeOK'
  BY <1>1 DEF SigInv, SigTypeOK, BeginSave
<1>3. FunctionsFound' /\ ResolversFound'
  BY DEF SigInv, FunctionsFound, ResolversFound, BeginSave
<1>4. NoneTwice' /\ CurrentSettled'
  BY <1>1 DEF SigInv, NoneTwice, CurrentSettled, BeginSave
<1> QED
  BY <1>2, <1>3, <1>4 DEF SigInv, BeginSave

LEMMA EndSaveInv == SigInv /\ EndSave => SigInv'
<1> SUFFICES ASSUME SigInv, EndSave
             PROVE  SigInv'
  OBVIOUS
<1>1. FunctionsFound' /\ ResolversFound'
  BY DEF SigInv, FunctionsFound, ResolversFound, EndSave
<1>2. CASE cacheFile' = [entries |-> locations, whole |-> TRUE] /\ current' = TRUE
  <2>1. cacheFile'.whole = TRUE /\ cacheFile'.entries = locations
    BY <1>2
  <2>2. SigTypeOK'
    BY <1>2, <2>1 DEF SigInv, SigTypeOK, EndSave
  <2>3. Settled(image, locations)
    BY DEF SigInv, FunctionsFound, ResolversFound, Settled, EndSave
  <2>4. NoneTwice'
    BY <2>1 DEF SigInv, NoneTwice, EndSave
  <2>5. CurrentSettled'
    BY <2>1, <2>3 DEF CurrentSettled, EndSave
  <2> QED
    BY <1>1, <2>2, <2>4, <2>5 DEF SigInv, EndSave
<1>3. CASE cacheFile' = cacheFile /\ current' = current
  <2>1. SigTypeOK'
    BY <1>3 DEF SigInv, SigTypeOK, EndSave
  <2>2. NoneTwice' /\ CurrentSettled'
    BY <1>3 DEF SigInv, NoneTwice, CurrentSettled, EndSave
  <2> QED
    BY <1>1, <2>1, <2>2 DEF SigInv, EndSave
<1> QED
  BY <1>2, <1>3 DEF EndSave

LEMMA StopGameInv == SigInv /\ StopGame => SigInv'
<1> SUFFICES ASSUME SigInv, StopGame
             PROVE  SigInv'
  OBVIOUS
<1>1. IdsDiffer(locations')
  <2>1. locations' = NoEntries
    BY DEF StopGame, Unsearched
  <2> QED
    BY <2>1, SignatureAssumption DEF IdsDiffer, At, NoEntries
<1>2. SigTypeOK'
  <2>1. DOMAIN try_open_functions' = {} /\ cacheMisses' = 0
    BY DEF StopGame, Unsearched
  <2>2. cacheMisses' \in 0..(Len(Signatures) + 1)
    BY <2>1, SignatureAssumption
  <2>3. current' \in BOOLEAN
    BY DEF SigInv, SigTypeOK, StopGame
  <2> QED
    BY <2>1, <2>2, <2>3 DEF SigInv, SigTypeOK, StopGame, Unsearched
<1>3. NoneTwice'
  BY <1>1 DEF SigInv, NoneTwice, StopGame
<1>4. CurrentSettled'
  BY DEF SigInv, CurrentSettled, StopGame
<1> QED
  BY <1>2, <1>3, <1>4 DEF SigInv, StopGame, Unsearched

LEMMA SigInvariant == SigSpec => []SigInv
<1>1. SigInv /\ [SigNext]_sigVars => SigInv'
  <2>1. SigInv /\ SigNext => SigInv'
    BY LoadCacheInv, SearchFunctionsInv, ResolversInv, BeginSaveInv, EndSaveInv,
       StopGameInv DEF SigNext
  <2>2. SigInv /\ UNCHANGED sigVars => SigInv'
    BY DEF SigInv, SigTypeOK, FunctionsFound, ResolversFound, NoneTwice,
           CurrentSettled, sigVars
  <2> QED
    BY <2>1, <2>2
<1> QED
  BY <1>1, SigInitInv, PTL DEF SigSpec

(* Every variable of the signature cache keeps its shape, for any builds   *)
(* and signatures.                                                         *)
THEOREM SignaturesTypeCorrect == SigSpec => []SigTypeOK
<1>1. SigInv => SigTypeOK
  BY DEF SigInv
<1> QED
  BY <1>1, SigInvariant, PTL

(* Whatever the file held, the search gives every function the address of  *)
(* its code and no resolver twice, and what it saved needs no saving again.*)
THEOREM AddressesMatchAlways == SigSpec => []AddressesMatch
<1>1. SigInv => AddressesMatch
  <2> SUFFICES ASSUME SigInv, searching \in {"save", "done"}
               PROVE  AddressesMatch
    BY DEF AddressesMatch
  <2>1. FunctionsFound /\ ResolversFound
    BY DEF SigInv
  <2>2. image \in Seq(Int)
    BY SignatureAssumption DEF SigInv, SigTypeOK
  <2>3. ASSUME NEW s \in DOMAIN Signatures
        PROVE  IF Occurrences(Signatures[s].signature) = {}
                 THEN address[s] = NotFound + Signatures[s].offset
                 ELSE address[s] - Signatures[s].offset
                        \in Occurrences(Signatures[s].signature)
    <3>1. /\ CodeOf(s) \in Seq(Int) /\ Signatures[s].offset \in Int
          /\ Occurrences(Signatures[s].signature) = Hits(image, CodeOf(s))
          /\ address[s] = FoundIn(image, locations, s) + Signatures[s].offset
      BY <2>1, SignaturesTyped, SearchIn DEF FunctionsFound, CodeOf
    <3>2. CASE Hits(image, CodeOf(s)) = {}
      <4>1. FoundIn(image, locations, s) = NotFound
        BY <2>2, <3>1, <3>2, FindAgain DEF FoundIn
      <4> QED
        BY <3>1, <3>2, <4>1
    <3>3. CASE Hits(image, CodeOf(s)) # {}
      <4>1. FoundIn(image, locations, s) \in Hits(image, CodeOf(s))
        BY <2>2, <3>1, <3>3, FindAgain DEF FoundIn
      <4>2. FoundIn(image, locations, s) \in Nat
        BY <2>2, <3>1, <4>1, HitsAre
      <4>3. address[s] - Signatures[s].offset = FoundIn(image, locations, s)
        BY <3>1, <4>2
      <4> QED
        BY <3>1, <3>3, <4>1, <4>3
    <3> QED
      BY <3>2, <3>3
  <2>4. \A i \in DOMAIN try_open_functions :
          try_open_functions[i] \in Occurrences(AssetPattern)
    BY <2>1, SearchIn DEF ResolversFound
  <2>5. ~hasError => /\ Len(try_open_functions) = TargetCount
                     /\ \A s \in DOMAIN Signatures : address[s] # NotFound
    BY <2>1 DEF FunctionsFound, ResolversFound
  <2>6. ~junkRead => IsInjective(try_open_functions)
    BY <2>1 DEF ResolversFound
  <2>7. current /\ ~hasError => searching = "done"
    BY DEF SigInv, CurrentSettled
  <2> QED
    BY <2>3, <2>4, <2>5, <2>6, <2>7 DEF AddressesMatch
<1> QED
  BY <1>1, SigInvariant, PTL

-----------------------------------------------------------------------------
(* The debug connection.  The parser stands between two messages: it has   *)
(* taken the first k off the stream, and the buffer holds what came since. *)

Msgs == [kind : Kinds, length : Nat, id : Nat]
ByteOf == Kinds \cup {"length", "text"}
ByteSet == [of : ByteOf, length : Nat, id : Nat, place : Nat]

Taken(k) ==
  /\ \A i \in 1..k : session[i].kind \in {"continue", "lua"}
  /\ Len(StreamTo(session, k)) + Len(buffer) = received
  /\ \A i \in 1..Len(buffer) :
       buffer[i] = Stream(session)[Len(StreamTo(session, k)) + i]
  /\ given \o luaMessageQueue = LuaMessages(session, k)

(* The inductive invariant of the debug connection: a buffer that no       *)
(* parser is at work on holds no whole message the parser knows.           *)
DbgInv ==
  /\ DebugTypeOK
  /\ session \in Seq(Msgs) /\ buffer \in Seq(ByteSet)
  /\ given \in Seq(Nat) /\ luaMessageQueue \in Seq(Nat)
  /\ \E k \in 0..Len(session) : Taken(k)
  /\ reading.next \in {"start", "idle", "recv"} => ~Processable
  /\ connected \/ reading.caller = "connect" =>
       outgoing # <<>> /\ Head(outgoing) = "init"

(* A sequence that a step for each number makes. *)
Unfolds(g, S, e, next, N) ==
  /\ \A n \in 0..N : g[n] \in S
  /\ g = [n \in 0..N |-> IF n = 0 THEN e ELSE next[n - 1][g[n - 1]]]

LEMMA Unfolding ==
  ASSUME NEW S, NEW e \in S, NEW next \in Steps(S), NEW N \in Nat
  PROVE  \E g : Unfolds(g, S, e, next, N)
<1>1. PICK f : Iterates(f, S, e, next)
  BY Iteration
<1> DEFINE g == [n \in 0..N |-> f[n]]
           h == [n \in 0..N |-> IF n = 0 THEN e ELSE next[n - 1][g[n - 1]]]
<1>2. ASSUME NEW n \in 0..N
      PROVE  g[n] = h[n] /\ g[n] \in S
  <2>1. CASE n = 0
    BY <1>1, <2>1 DEF Iterates
  <2>2. CASE n # 0
    <3>1. n - 1 \in Nat /\ n - 1 \in 0..N /\ (n - 1) + 1 = n
      BY <2>2
    <3>2. f[n] = next[n - 1][f[n - 1]] /\ f[n] \in S
      BY <1>1, <3>1 DEF Iterates
    <3> QED
      BY <2>2, <3>1, <3>2
  <2> QED
    BY <2>1, <2>2
<1>3. g = h
  BY <1>2
<1>4. \A n \in 0..N : g[n] \in S
  BY <1>2
<1>5. Unfolds(g, S, e, next, N)
  <2> HIDE DEF g
  <2> QED
    BY <1>3, <1>4 DEF Unfolds
<1> QED
  BY <1>5

LEMMA WordSizeIs == WordSize \in Nat /\ WordSize >= 1
<1>1. WordSize \in Nat \ {0}
  BY DebugAssumption
<1> QED
  BY <1>1

LEMMA BytesAre ==
  ASSUME NEW msg \in Msgs, NEW of \in ByteOf, NEW n \in Nat
  PROVE  /\ Bytes(of, n, msg) \in Seq(ByteSet) /\ Len(Bytes(of, n, msg)) = n
         /\ \A i \in 1..n : /\ Bytes(of, n, msg)[i].of = of
                            /\ Bytes(of, n, msg)[i].length = msg.length
                            /\ Bytes(of, n, msg)[i].id = msg.id
<1> DEFINE b == [i \in 1..n |->
                   [of |-> of, length |-> msg.length, id |-> msg.id, place |-> i]]
<1>1. \A i \in 1..n : b[i] \in ByteSet
  BY DEF Msgs, ByteSet
<1>2. b \in Seq(ByteSet) /\ Len(b) = n
  BY <1>1
<1> QED
  BY <1>2 DEF Bytes

(* The words at the start of a message, and its length. *)
LEMMA EncodedIs ==
  ASSUME NEW msg \in Msgs
  PROVE  /\ Encoded(msg) \in Seq(ByteSet)
         /\ Len(Encoded(msg)) = WordSize + IF msg.kind = "lua"
                                           THEN WordSize + msg.length ELSE 0
         /\ Encoded(msg)[1].of = msg.kind
         /\ msg.kind = "lua" => /\ Encoded(msg)[WordSize + 1].length = msg.length
                                /\ Encoded(msg)[WordSize + 1].id = msg.id
<1>1. WordSize \in Nat /\ WordSize >= 1
  BY WordSizeIs
<1>2. msg.kind \in ByteOf /\ msg.length \in Nat
  BY DEF Msgs, ByteOf
<1> DEFINE a == Bytes(msg.kind, WordSize, msg)
           b == Bytes("length", WordSize, msg)
           c == Bytes("text", msg.length, msg)
<1>0. "length" \in ByteOf /\ "text" \in ByteOf
  BY DEF ByteOf
<1>3. /\ a \in Seq(ByteSet) /\ Len(a) = WordSize
      /\ \A i \in 1..WordSize : a[i].of = msg.kind
  BY <1>1, <1>2, BytesAre
<1>4. /\ b \in Seq(ByteSet) /\ Len(b) = WordSize
      /\ \A i \in 1..WordSize : b[i].length = msg.length /\ b[i].id = msg.id
  BY <1>0, <1>1, BytesAre
<1>5. c \in Seq(ByteSet) /\ Len(c) = msg.length
  BY <1>0, <1>2, BytesAre
<1>6. Encoded(msg) = IF msg.kind = "lua" THEN a \o (b \o c) ELSE a \o <<>>
  BY DEF Encoded
<1> HIDE DEF a, b, c
<1>7. CASE msg.kind = "lua"
  <2> DEFINE d == b \o c
  <2>1. /\ d \in Seq(ByteSet) /\ Len(d) = WordSize + msg.length
        /\ \A i \in 1..(WordSize + msg.length) :
             d[i] = IF i <= WordSize THEN b[i] ELSE c[i - WordSize]
    <3>1. /\ d \in Seq(ByteSet) /\ Len(d) = Len(b) + Len(c)
          /\ \A i \in 1..(Len(b) + Len(c)) :
               d[i] = IF i <= Len(b) THEN b[i] ELSE c[i - Len(b)]
      BY <1>4, <1>5, ConcatProperties
    <3> HIDE DEF d
    <3> QED
      BY <1>4, <1>5, <3>1
  <2> HIDE DEF d
  <2>2. /\ a \o d \in Seq(ByteSet) /\ Len(a \o d) = WordSize + (WordSize + msg.length)
        /\ \A i \in 1..(WordSize + (WordSize + msg.length)) :
             (a \o d)[i] = IF i <= WordSize THEN a[i] ELSE d[i - WordSize]
    <3>1. /\ a \o d \in Seq(ByteSet) /\ Len(a \o d) = Len(a) + Len(d)
          /\ \A i \in 1..(Len(a) + Len(d)) :
               (a \o d)[i] = IF i <= Len(a) THEN a[i] ELSE d[i - Len(a)]
      BY <1>3, <2>1, ConcatProperties
    <3> QED
      BY <1>3, <2>1, <3>1
  <2>3. (a \o d)[1] = a[1] /\ (a \o d)[WordSize + 1] = b[1]
    <3>1. 1 \in 1..(WordSize + (WordSize + msg.length)) /\ 1 <= WordSize
      BY <1>1, <1>2
    <3>2. /\ WordSize + 1 \in 1..(WordSize + (WordSize + msg.length))
          /\ ~(WordSize + 1 <= WordSize) /\ (WordSize + 1) - WordSize = 1
          /\ 1 \in 1..(WordSize + msg.length)
      BY <1>1, <1>2
    <3> QED
      BY <2>1, <2>2, <3>1, <3>2
  <2>4. Encoded(msg) = a \o d
    BY <1>6, <1>7 DEF d
  <2>5. 1 \in 1..WordSize
    BY <1>1
  <2> QED
    BY <1>3, <1>4, <1>7, <2>2, <2>3, <2>4, <2>5
<1>8. CASE msg.kind # "lua"
  <2>1. Encoded(msg) = a
    BY <1>3, <1>6, <1>8, ConcatEmptySeq
  <2> QED
    BY <1>1, <1>3, <1>8, <2>1
<1> QED
  BY <1>7, <1>8

(* The stream, message by message. *)
LEMMA StreamUnfolds ==
  ASSUME NEW msgs \in Seq(Msgs)
  PROVE  /\ StreamTo(msgs, 0) = <<>>
         /\ \A n \in 1..Len(msgs) :
              StreamTo(msgs, n) = StreamTo(msgs, n - 1) \o Encoded(msgs[n])
         /\ \A n \in 0..Len(msgs) : StreamTo(msgs, n) \in Seq(ByteSet)
<1> DEFINE N == Len(msgs)
           T == Seq(ByteSet)
           Bytewise(h) ==
             [n \in 0..N |-> IF n = 0 THEN <<>> ELSE h[n - 1] \o Encoded(msgs[n])]
           next == [n \in Nat |-> [t \in T |->
                      IF n + 1 \in 1..N THEN t \o Encoded(msgs[n + 1]) ELSE t]]
           c == CHOOSE h : h = Bytewise(h)
           nil == <<>>
<1>1. N \in Nat /\ nil \in T
  OBVIOUS
<1>2. \A n \in 1..N : Encoded(msgs[n]) \in T
  <2>1. \A n \in 1..N : msgs[n] \in Msgs
    OBVIOUS
  <2> QED
    BY <2>1, EncodedIs
<1>3. next \in Steps(T)
  <2>1. ASSUME NEW n \in Nat, NEW t \in T
        PROVE  (IF n + 1 \in 1..N THEN t \o Encoded(msgs[n + 1]) ELSE t) \in T
    BY <1>2
  <2> QED
    BY <2>1 DEF Steps
<1>4. PICK g : /\ \A n \in 0..N : g[n] \in T
               /\ g = [n \in 0..N |-> IF n = 0 THEN nil ELSE next[n - 1][g[n - 1]]]
  <2> HIDE DEF next, T, nil, N
  <2>1. PICK g : Unfolds(g, T, nil, next, N)
    BY <1>1, <1>3, Unfolding
  <2> QED
    BY <2>1 DEF Unfolds
<1>5. g = Bytewise(g)
  <2>1. ASSUME NEW n \in 0..N, n # 0
        PROVE  next[n - 1][g[n - 1]] = g[n - 1] \o Encoded(msgs[n])
    <3>1. n - 1 \in Nat /\ n - 1 \in 0..N /\ (n - 1) + 1 = n /\ n \in 1..N
      BY <1>1, <2>1
    <3>2. g[n - 1] \in T
      BY <1>4, <3>1
    <3> HIDE DEF T
    <3> QED
      BY <3>1, <3>2
  <2> HIDE DEF next
  <2> QED
    BY <1>4, <2>1
<1>6. c = Bytewise(c)
  <2> HIDE DEF Bytewise
  <2> QED
    BY <1>5
<1>7. \A k : StreamTo(msgs, k) = c[k]
  BY DEF StreamTo
<1> HIDE DEF c
<1>8. c[0] = <<>> /\ \A n \in 1..N : c[n] = c[n - 1] \o Encoded(msgs[n])
  <2>1. 0 \in 0..N /\ \A n \in 1..N : n \in 0..N /\ n # 0
    BY <1>1
  <2> QED
    BY <1>6, <2>1
<1> DEFINE Typed == {n \in Nat : n \in 0..N => c[n] \in T}
<1>9. \A n \in Nat : n \in Typed
  <2>1. 0 \in Typed
    BY <1>1, <1>8
  <2>2. ASSUME NEW n \in Nat, n \in Typed
        PROVE  n + 1 \in Typed
    <3>1. ASSUME n + 1 \in 0..N
          PROVE  c[n + 1] \in T
      <4>1. n \in 0..N /\ n + 1 \in 1..N /\ (n + 1) - 1 = n
        BY <1>1, <3>1
      <4>2. c[n] \in T /\ Encoded(msgs[n + 1]) \in T
        BY <1>2, <2>2, <4>1
      <4>3. c[n] \o Encoded(msgs[n + 1]) \in T
        BY <4>2, ConcatProperties
      <4> HIDE DEF T
      <4> QED
        BY <1>8, <4>1, <4>3
    <3> QED
      BY <3>1
  <2> HIDE DEF Typed
  <2> QED
    BY <2>1, <2>2, Induct
<1>10. \A n \in 0..N : n \in Nat /\ c[n] \in T
  <2>1. ASSUME NEW n \in 0..N
        PROVE  n \in Nat /\ c[n] \in T
    BY <1>1, <1>9
  <2> QED
    BY <2>1
<1>11. \A n \in 0..N : StreamTo(msgs, n) \in T
  BY <1>7, <1>10
<1>12. StreamTo(msgs, 0) = <<>> /\ \A n \in 1..N :
         StreamTo(msgs, n) = StreamTo(msgs, n - 1) \o Encoded(msgs[n])
  BY <1>7, <1>8
<1> QED
  BY <1>11, <1>12

LEMMA LuaMessagesUnfold ==
  ASSUME NEW msgs \in Seq(Msgs)
  PROVE  /\ LuaMessages(msgs, 0) = <<>>
         /\ \A n \in 1..Len(msgs) :
              LuaMessages(msgs, n) =
                IF msgs[n].kind = "lua"
                THEN Append(LuaMessages(msgs, n - 1), msgs[n].id)
                ELSE LuaMessages(msgs, n - 1)
         /\ \A n \in 0..Len(msgs) : LuaMessages(msgs, n) \in Seq(Nat)
<1> DEFINE N == Len(msgs)
           T == Seq(Nat)
           OneByOne(h) ==
             [n \in 0..N |-> IF n = 0 THEN <<>>
                             ELSE IF msgs[n].kind = "lua"
                             THEN Append(h[n - 1], msgs[n].id)
                             ELSE h[n - 1]]
           next == [n \in Nat |-> [t \in T |->
                      IF n + 1 \in 1..N /\ msgs[n + 1].kind = "lua"
                      THEN Append(t, msgs[n + 1].id) ELSE t]]
           c == CHOOSE h : h = OneByOne(h)
           nil == <<>>
<1>1. N \in Nat /\ nil \in T
  OBVIOUS
<1>2. \A n \in 1..N : msgs[n].id \in Nat
  <2>1. \A n \in 1..N : msgs[n] \in Msgs
    OBVIOUS
  <2> QED
    BY <2>1 DEF Msgs
<1>3. next \in Steps(T)
  <2>1. ASSUME NEW n \in Nat, NEW t \in T
        PROVE  (IF n + 1 \in 1..N /\ msgs[n + 1].kind = "lua"
                THEN Append(t, msgs[n + 1].id) ELSE t) \in T
    BY <1>2
  <2> QED
    BY <2>1 DEF Steps
<1>4. PICK g : /\ \A n \in 0..N : g[n] \in T
               /\ g = [n \in 0..N |-> IF n = 0 THEN nil ELSE next[n - 1][g[n - 1]]]
  <2> HIDE DEF next, T, nil, N
  <2>1. PICK g : Unfolds(g, T, nil, next, N)
    BY <1>1, <1>3, Unfolding
  <2> QED
    BY <2>1 DEF Unfolds
<1>5. g = OneByOne(g)
  <2>1. ASSUME NEW n \in 0..N, n # 0
        PROVE  next[n - 1][g[n - 1]] =
                 IF msgs[n].kind = "lua" THEN Append(g[n - 1], msgs[n].id) ELSE g[n - 1]
    <3>1. n - 1 \in Nat /\ n - 1 \in 0..N /\ (n - 1) + 1 = n /\ n \in 1..N
      BY <1>1, <2>1
    <3>2. g[n - 1] \in T
      BY <1>4, <3>1
    <3> HIDE DEF T
    <3> QED
      BY <3>1, <3>2
  <2> HIDE DEF next
  <2> QED
    BY <1>4, <2>1
<1>6. c = OneByOne(c)
  <2> HIDE DEF OneByOne
  <2> QED
    BY <1>5
<1>7. \A k : LuaMessages(msgs, k) = c[k]
  BY DEF LuaMessages
<1> HIDE DEF c
<1>8. c[0] = <<>> /\ \A n \in 1..N :
        c[n] = IF msgs[n].kind = "lua" THEN Append(c[n - 1], msgs[n].id) ELSE c[n - 1]
  <2>1. 0 \in 0..N /\ \A n \in 1..N : n \in 0..N /\ n # 0
    BY <1>1
  <2> QED
    BY <1>6, <2>1
<1> DEFINE Typed == {n \in Nat : n \in 0..N => c[n] \in T}
<1>9. \A n \in Nat : n \in Typed
  <2>1. 0 \in Typed
    BY <1>1, <1>8
  <2>2. ASSUME NEW n \in Nat, n \in Typed
        PROVE  n + 1 \in Typed
    <3>1. ASSUME n + 1 \in 0..N
          PROVE  c[n + 1] \in T
      <4>1. n \in 0..N /\ n + 1 \in 1..N /\ (n + 1) - 1 = n
        BY <1>1, <3>1
      <4>2. c[n] \in T /\ msgs[n + 1].id \in Nat
        BY <1>2, <2>2, <4>1
      <4>3. Append(c[n], msgs[n + 1].id) \in T
        BY <4>2
      <4> HIDE DEF T
      <4> QED
        BY <1>8, <4>1, <4>2, <4>3
    <3> QED
      BY <3>1
  <2> HIDE DEF Typed
  <2> QED
    BY <2>1, <2>2, Induct
<1>10. \A n \in 0..N : c[n] \in T
  <2>1. ASSUME NEW n \in 0..N
        PROVE  c[n] \in T
    BY <1>1, <1>9
  <2> QED
    BY <2>1
<1>11. \A n \in 0..N : LuaMessages(msgs, n) \in T
  BY <1>7, <1>10
<1>12. LuaMessages(msgs, 0) = <<>> /\ \A n \in 1..N :
         LuaMessages(msgs, n) =
           IF msgs[n].kind = "lua"
           THEN Append(LuaMessages(msgs, n - 1), msgs[n].id)
           ELSE LuaMessages(msgs, n - 1)
  BY <1>7, <1>8
<1> QED
  BY <1>11, <1>12

(* The first messages are a prefix of the stream, and of what is for Lua   *)
(* more messages hold no less.                                             *)
Prefixed(msgs, n, m) ==
  /\ Len(StreamTo(msgs, n)) <= Len(StreamTo(msgs, m))
  /\ \A i \in 1..Len(StreamTo(msgs, n)) : StreamTo(msgs, m)[i] = StreamTo(msgs, n)[i]
  /\ Len(LuaMessages(msgs, n)) <= Len(LuaMessages(msgs, m))

LEMMA FirstMessages ==
  ASSUME NEW msgs \in Seq(Msgs), NEW n \in 0..Len(msgs), NEW k \in 0..Len(msgs),
         n <= k
  PROVE  Prefixed(msgs, n, k)
<1> DEFINE N == Len(msgs)
           Good == {m \in Nat : m \in n..N => Prefixed(msgs, n, m)}
<1>1. N \in Nat /\ n \in Nat
  OBVIOUS
<1>2. ASSUME NEW m \in 0..N
      PROVE  /\ StreamTo(msgs, m) \in Seq(ByteSet) /\ Len(StreamTo(msgs, m)) \in Nat
             /\ LuaMessages(msgs, m) \in Seq(Nat) /\ Len(LuaMessages(msgs, m)) \in Nat
  <2>1. StreamTo(msgs, m) \in Seq(ByteSet) /\ LuaMessages(msgs, m) \in Seq(Nat)
    BY StreamUnfolds, LuaMessagesUnfold
  <2> QED
    BY <2>1
<1>3. Prefixed(msgs, n, n)
  BY <1>2 DEF Prefixed
<1>4. 0 \in Good
  <2>1. 0 \in n..N => n = 0
    BY <1>1
  <2> QED
    BY <1>3, <2>1
<1>5. ASSUME NEW m \in Nat, m \in Good
      PROVE  m + 1 \in Good
  <2>1. ASSUME m + 1 \in n..N, m + 1 # n
        PROVE  Prefixed(msgs, n, m + 1)
    <3>1. m \in n..N /\ m \in 0..N /\ m + 1 \in 1..N /\ (m + 1) - 1 = m
      BY <1>1, <2>1
    <3>2. Prefixed(msgs, n, m)
      BY <1>5, <3>1
    <3>3. /\ StreamTo(msgs, m + 1) = StreamTo(msgs, m) \o Encoded(msgs[m + 1])
          /\ LuaMessages(msgs, m + 1) =
               IF msgs[m + 1].kind = "lua"
               THEN Append(LuaMessages(msgs, m), msgs[m + 1].id)
               ELSE LuaMessages(msgs, m)
      BY <3>1, StreamUnfolds, LuaMessagesUnfold
    <3>4. msgs[m + 1] \in Msgs /\ msgs[m + 1].id \in Nat
      <4>1. msgs[m + 1] \in Msgs
        BY <3>1
      <4> QED
        BY <4>1 DEF Msgs
    <3> DEFINE a == StreamTo(msgs, m)
               b == Encoded(msgs[m + 1])
               l == LuaMessages(msgs, m)
    <3>5. a \in Seq(ByteSet) /\ b \in Seq(ByteSet) /\ Len(a) \in Nat
          /\ l \in Seq(Nat) /\ Len(l) \in Nat
      BY <1>2, <3>1, <3>4, EncodedIs
    <3>6. Len(b) \in Nat
      BY <3>5
    <3>7. /\ Len(a \o b) = Len(a) + Len(b)
          /\ \A i \in 1..(Len(a) + Len(b)) :
               (a \o b)[i] = IF i <= Len(a) THEN a[i] ELSE b[i - Len(a)]
      <4> HIDE DEF a, b
      <4> QED
        BY <3>5, ConcatProperties
    <3>8. Len(LuaMessages(msgs, m + 1)) >= Len(l)
      <4>1. Len(Append(l, msgs[m + 1].id)) = Len(l) + 1
        <5> HIDE DEF l
        <5> QED
          BY <3>4, <3>5, AppendProperties
      <4>2. LuaMessages(msgs, m + 1) \in {Append(l, msgs[m + 1].id), l}
        BY <3>3
      <4> HIDE DEF l
      <4> QED
        BY <3>5, <4>1, <4>2
    <3>9. Len(StreamTo(msgs, n)) \in Nat /\ Len(LuaMessages(msgs, n)) \in Nat
      BY <1>2
    <3>10. Len(LuaMessages(msgs, m + 1)) \in Nat
      BY <1>1, <1>2, <3>1
    <3>11. Len(StreamTo(msgs, n)) <= Len(a) /\ Len(LuaMessages(msgs, n)) <= Len(l)
           /\ \A i \in 1..Len(StreamTo(msgs, n)) : a[i] = StreamTo(msgs, n)[i]
      BY <3>2 DEF Prefixed
    <3>12. StreamTo(msgs, m + 1) = a \o b
      BY <3>3
    <3> HIDE DEF a, b, l
    <3> QED
      BY <3>5, <3>6, <3>7, <3>8, <3>9, <3>10, <3>11, <3>12 DEF Prefixed
  <2> QED
    BY <1>3, <2>1
<1>6. k \in Nat /\ k \in n..N
  BY <1>1
<1>7. k \in Good
  <2> HIDE DEF Good
  <2> QED
    BY <1>4, <1>5, <1>6, Induct
<1> HIDE DEF N
<1> QED
  BY <1>6, <1>7

(* Where a message is in the stream. *)
LEMMA MessageAt ==
  ASSUME NEW msgs \in Seq(Msgs), NEW k \in 0..(Len(msgs) - 1)
  PROVE  /\ Len(StreamTo(msgs, k + 1)) = Len(StreamTo(msgs, k)) + Len(Encoded(msgs[k + 1]))
         /\ \A i \in 1..Len(Encoded(msgs[k + 1])) :
              Stream(msgs)[Len(StreamTo(msgs, k)) + i] = Encoded(msgs[k + 1])[i]
<1>1. /\ Len(msgs) \in Nat /\ k \in 0..Len(msgs) /\ k + 1 \in 1..Len(msgs)
      /\ (k + 1) - 1 = k /\ k + 1 \in 0..Len(msgs)
      /\ Len(msgs) \in 0..Len(msgs) /\ k + 1 <= Len(msgs)
  OBVIOUS
<1>2. StreamTo(msgs, k + 1) = StreamTo(msgs, k) \o Encoded(msgs[k + 1])
  BY <1>1, StreamUnfolds
<1> DEFINE a == StreamTo(msgs, k)
           b == Encoded(msgs[k + 1])
<1>3. msgs[k + 1] \in Msgs
  BY <1>1
<1>4. a \in Seq(ByteSet) /\ b \in Seq(ByteSet)
  BY <1>1, <1>3, StreamUnfolds, EncodedIs
<1>5. StreamTo(msgs, k + 1) = a \o b
  BY <1>2
<1>6. Prefixed(msgs, k + 1, Len(msgs))
  BY <1>1, FirstMessages
<1>7. \A i \in 1..Len(a \o b) : Stream(msgs)[i] = (a \o b)[i]
  BY <1>5, <1>6 DEF Prefixed, Stream
<1> HIDE DEF a, b
<1>8. Len(a) \in Nat /\ Len(b) \in Nat
  BY <1>4
<1>9. /\ Len(a \o b) = Len(a) + Len(b)
      /\ \A i \in 1..(Len(a) + Len(b)) :
           (a \o b)[i] = IF i <= Len(a) THEN a[i] ELSE b[i - Len(a)]
  BY <1>4, ConcatProperties
<1>10. ASSUME NEW i \in 1..Len(b)
       PROVE  Stream(msgs)[Len(a) + i] = b[i]
  <2>1. Len(a) + i \in 1..(Len(a) + Len(b)) /\ ~(Len(a) + i <= Len(a))
        /\ (Len(a) + i) - Len(a) = i
    BY <1>8
  <2> QED
    BY <1>7, <1>9, <2>1
<1> QED
  BY <1>5, <1>9, <1>10 DEF a, b

(* What the parser sees, while it has taken the first k messages. *)
LEMMA AtTheFront ==
  ASSUME session \in Seq(Msgs), buffer \in Seq(ByteSet), received \in Nat,
         received <= Len(Stream(session)),
         NEW k \in 0..Len(session), Taken(k), HasWord(0)
  PROVE  /\ k + 1 \in 1..Len(session) /\ MessageType = session[k + 1].kind
         /\ session[k + 1].kind = "lua" /\ HasWord(WordSize) =>
              /\ MessageLength = session[k + 1].length
              /\ buffer[WordSize + 1].id = session[k + 1].id
<1> DEFINE N == Len(session)
           P == Len(StreamTo(session, k))
           E == Encoded(session[k + 1])
<1>1. N \in Nat /\ k \in Nat /\ Len(buffer) \in Nat /\ WordSize \in Nat /\ WordSize >= 1
  BY WordSizeIs
<1>2. P \in Nat
  <2>1. StreamTo(session, k) \in Seq(ByteSet)
    BY StreamUnfolds
  <2> QED
    BY <2>1
<1>3. Len(buffer) >= WordSize
  BY <1>1 DEF HasWord
<1>4. P + Len(buffer) = received
  BY DEF Taken
<1>5. k # N
  <2>1. ASSUME k = N
        PROVE  Len(Stream(session)) = P
    BY <2>1 DEF Stream
  <2> HIDE DEF P
  <2> QED
    BY <1>1, <1>2, <1>3, <1>4, <2>1
<1>6. k \in 0..(N - 1) /\ k + 1 \in 1..N
  BY <1>1, <1>5
<1>7. \A i \in 1..Len(E) : Stream(session)[P + i] = E[i]
  BY <1>6, MessageAt
<1>8. session[k + 1] \in Msgs
  BY <1>6
<1>9. /\ session[k + 1].length \in Nat
      /\ Len(E) = WordSize + IF session[k + 1].kind = "lua"
                             THEN WordSize + session[k + 1].length ELSE 0
      /\ E[1].of = session[k + 1].kind
      /\ session[k + 1].kind = "lua" => /\ E[WordSize + 1].length = session[k + 1].length
                                        /\ E[WordSize + 1].id = session[k + 1].id
  BY <1>8, EncodedIs DEF Msgs
<1>10. \A i \in 1..Len(buffer) : buffer[i] = Stream(session)[P + i]
  BY DEF Taken
<1> HIDE DEF E, P
<1>13. PICK w, b, e, l : w = WordSize /\ b = Len(buffer) /\ e = Len(E)
                        /\ l = session[k + 1].length
  OBVIOUS
<1>14. /\ w \in Nat /\ w >= 1 /\ b \in Nat /\ b >= w /\ l \in Nat
       /\ e = w \/ e = w + (w + l)
       /\ session[k + 1].kind = "lua" => e = w + (w + l)
  BY ONLY <1>1, <1>3, <1>9, <1>13
<1>15. 1 \in 1..b /\ 1 \in 1..e
  BY ONLY <1>14
<1>11. buffer[1] = E[1]
  <2>1. 1 \in 1..Len(buffer) /\ 1 \in 1..Len(E)
    BY ONLY <1>13, <1>15
  <2> QED
    BY ONLY <1>7, <1>10, <2>1
<1>12. ASSUME session[k + 1].kind = "lua", HasWord(WordSize)
       PROVE  buffer[WordSize + 1] = E[WordSize + 1]
  <2>1. WordSize + 1 \in 1..Len(buffer) /\ WordSize + 1 \in 1..Len(E)
    <3>1. b >= w + w
      BY ONLY <1>12, <1>13 DEF HasWord
    <3>2. e = w + (w + l)
      BY ONLY <1>12, <1>14
    <3>3. w + 1 \in 1..b /\ w + 1 \in 1..e
      BY ONLY <1>14, <3>1, <3>2
    <3> QED
      BY ONLY <1>13, <3>3
  <2> QED
    BY ONLY <1>7, <1>10, <2>1
<1> QED
  BY <1>6, <1>9, <1>11, <1>12 DEF MessageType, MessageLength

(* A message the parser knows is taken as soon as all of it has arrived.   *)
LEMMA WholeIsProcessable ==
  ASSUME session \in Seq(Msgs), buffer \in Seq(ByteSet), received \in Nat,
         received <= Len(Stream(session)),
         NEW k \in 0..Len(session), Taken(k), k < Len(session),
         session[k + 1].kind \in {"continue", "lua"},
         Len(StreamTo(session, k + 1)) <= received
  PROVE  Processable
<1>1. /\ Len(session) \in Nat /\ k \in 0..(Len(session) - 1) /\ k + 1 \in 1..Len(session)
      /\ Len(buffer) \in Nat /\ WordSize \in Nat /\ WordSize >= 1
  BY WordSizeIs
<1>2. session[k + 1] \in Msgs
  BY <1>1
<1> DEFINE P == Len(StreamTo(session, k))
           E == Encoded(session[k + 1])
<1>3. P \in Nat
  <2>1. StreamTo(session, k) \in Seq(ByteSet)
    BY StreamUnfolds
  <2> QED
    BY <2>1
<1>4. /\ session[k + 1].length \in Nat
      /\ Len(E) = WordSize + IF session[k + 1].kind = "lua"
                             THEN WordSize + session[k + 1].length ELSE 0
  BY <1>2, EncodedIs DEF Msgs
<1>5. Len(StreamTo(session, k + 1)) = P + Len(E)
  BY <1>1, MessageAt
<1>6. P + Len(buffer) = received
  BY DEF Taken
<1> HIDE DEF P, E
<1>12. PICK w, b, e, l : w = WordSize /\ b = Len(buffer) /\ e = Len(E)
                        /\ l = session[k + 1].length
  OBVIOUS
<1>13. /\ w \in Nat /\ w >= 1 /\ b \in Nat /\ l \in Nat
       /\ e = w \/ e = w + (w + l)
       /\ session[k + 1].kind = "lua" => e = w + (w + l)
  BY ONLY <1>1, <1>4, <1>12
<1>7. e <= b
  <2>1. PICK x, y : x = Len(StreamTo(session, k + 1)) /\ y = received
    OBVIOUS
  <2>2. x = P + e /\ P + b = y /\ x <= y /\ P \in Nat
    BY <1>3, <1>5, <1>6, <1>12, <2>1
  <2> QED
    BY ONLY <1>13, <2>2
<1>8. HasWord(0)
  <2>1. b >= 0 + w
    BY ONLY <1>7, <1>13
  <2> QED
    BY ONLY <1>12, <2>1 DEF HasWord
<1>9. MessageType = session[k + 1].kind
  BY <1>8, AtTheFront
<1>10. CASE session[k + 1].kind = "lua"
  <2>0. e = w + (w + l)
    BY ONLY <1>10, <1>13
  <2>1. HasWord(WordSize)
    <3>1. b >= w + w
      BY ONLY <1>7, <1>13, <2>0
    <3> QED
      BY ONLY <1>12, <3>1 DEF HasWord
  <2>2. MessageLength = session[k + 1].length
    BY <1>8, <1>10, <2>1, AtTheFront
  <2>3. HasText
    <3>1. 2 * w + l <= b
      BY ONLY <1>7, <1>13, <2>0
    <3> QED
      BY ONLY <1>12, <2>2, <3>1 DEF HasText
  <2> QED
    BY <1>8, <1>9, <1>10, <2>1, <2>3 DEF Processable
<1>11. CASE session[k + 1].kind = "continue"
  BY <1>8, <1>9, <1>11 DEF Processable
<1> QED
  BY <1>10, <1>11

LEMMA NextIndex ==
  ASSUME NEW n \in Nat, NEW k \in 0..n, k < n
  PROVE  k \in 0..(n - 1) /\ k + 1 \in 1..n /\ (k + 1) - 1 = k /\ k \in Nat
  OBVIOUS

(* Taking the next message off the buffer. *)
LEMMA TakeNext ==
  ASSUME session \in Seq(Msgs), buffer \in Seq(ByteSet), received \in Nat,
         received <= Len(Stream(session)),
         given \in Seq(Nat), luaMessageQueue \in Seq(Nat),
         NEW k \in 0..Len(session), Taken(k), k < Len(session),
         session[k + 1].kind \in {"continue", "lua"},
         Len(Encoded(session[k + 1])) <= Len(buffer),
         buffer' = Drop(Len(Encoded(session[k + 1]))),
         session' = session, received' = received, given' = given,
         luaMessageQueue' = IF session[k + 1].kind = "lua"
                            THEN Append(luaMessageQueue, session[k + 1].id)
                            ELSE luaMessageQueue
  PROVE  buffer' \in Seq(ByteSet) /\ luaMessageQueue' \in Seq(Nat) /\ Taken(k + 1)'
<1> DEFINE P == Len(StreamTo(session, k))
           E == Encoded(session[k + 1])
           m == Len(E)
           L == Len(buffer)
<1>1. /\ Len(session) \in Nat /\ k \in 0..(Len(session) - 1) /\ k + 1 \in 1..Len(session)
      /\ L \in Nat /\ (k + 1) - 1 = k /\ k \in Nat
  <2>1. Len(session) \in Nat /\ L \in Nat
    OBVIOUS
  <2> QED
    BY <2>1, NextIndex
<1>2. session[k + 1] \in Msgs
  BY <1>1
<1>3. P \in Nat
  <2>1. StreamTo(session, k) \in Seq(ByteSet)
    BY StreamUnfolds
  <2> QED
    BY <2>1
<1>4. m \in Nat /\ m <= L
  <2>1. E \in Seq(ByteSet)
    BY <1>2, EncodedIs
  <2> QED
    BY <2>1
<1>5. Len(StreamTo(session, k + 1)) = P + m
  BY <1>1, MessageAt
<1>6. P + L = received /\ \A i \in 1..L : buffer[i] = Stream(session)[P + i]
  BY DEF Taken
<1>7. buffer' = SubSeq(buffer, m + 1, L)
  BY DEF Drop
<1> HIDE DEF P, E, m
<1>8. \A i \in 1..L : buffer[i] \in ByteSet
  OBVIOUS
<1> HIDE DEF L
<1>9. /\ buffer' \in Seq(ByteSet) /\ Len(buffer') = L - m
      /\ \A i \in 1..(L - m) : buffer'[i] = buffer[m + i]
  <2>1. \A i \in (m + 1)..L : buffer[i] \in ByteSet
    BY <1>1, <1>4, <1>8
  <2>2. /\ SubSeq(buffer, m + 1, L) \in Seq(ByteSet)
        /\ Len(SubSeq(buffer, m + 1, L)) = IF m + 1 <= L THEN L - (m + 1) + 1 ELSE 0
        /\ \A i \in 1..(L - (m + 1) + 1) :
             SubSeq(buffer, m + 1, L)[i] = buffer[(m + 1) + i - 1]
    BY <1>1, <1>4, <2>1, SubSeqProperties
  <2>3. \A i \in 1..(L - m) : (m + 1) + i - 1 = m + i /\ i \in 1..(L - (m + 1) + 1)
    BY <1>1, <1>4
  <2> QED
    BY <1>1, <1>4, <1>7, <2>2, <2>3
<1>10. ASSUME NEW i \in 1..(L - m)
       PROVE  buffer'[i] = Stream(session)[(P + m) + i]
  <2>1. m + i \in 1..L /\ P + (m + i) = (P + m) + i
    BY <1>1, <1>3, <1>4
  <2> QED
    BY <1>6, <1>9, <2>1
<1>11. session[k + 1].id \in Nat
  BY <1>2 DEF Msgs
<1>12. luaMessageQueue' \in Seq(Nat)
  BY <1>11
<1>13. given \o luaMessageQueue' = LuaMessages(session, k + 1)
  <2>1. LuaMessages(session, k + 1) =
          IF session[k + 1].kind = "lua"
          THEN Append(LuaMessages(session, k), session[k + 1].id)
          ELSE LuaMessages(session, k)
    BY <1>1, LuaMessagesUnfold
  <2>2. given \o luaMessageQueue = LuaMessages(session, k)
    BY DEF Taken
  <2>3. given \o Append(luaMessageQueue, session[k + 1].id) =
          Append(given \o luaMessageQueue, session[k + 1].id)
    <3>1. /\ Append(luaMessageQueue, session[k + 1].id) =
               luaMessageQueue \o <<session[k + 1].id>>
          /\ Append(given \o luaMessageQueue, session[k + 1].id) =
               (given \o luaMessageQueue) \o <<session[k + 1].id>>
      <4>1. given \o luaMessageQueue \in Seq(Nat)
        BY ConcatProperties
      <4> QED
        BY <1>11, <4>1, AppendIsConcat
    <3> DEFINE one == <<session[k + 1].id>>
    <3>2. one \in Seq(Nat) /\ given \in Seq(Nat) /\ luaMessageQueue \in Seq(Nat)
      BY <1>11
    <3> HIDE DEF one
    <3>3. (given \o luaMessageQueue) \o one = given \o (luaMessageQueue \o one)
      <4>1. PICK S, a, b, c : S = Nat /\ a = given /\ b = luaMessageQueue /\ c = one
        OBVIOUS
      <4>2. a \in Seq(S) /\ b \in Seq(S) /\ c \in Seq(S)
        BY ONLY <3>2, <4>1, Zenon
      <4>3. (a \o b) \o c = a \o (b \o c)
        BY ONLY <4>2, ConcatAssociative, SMT
      <4> QED
        BY ONLY <4>1, <4>3, Zenon
    <3> QED
      BY <3>1, <3>3 DEF one
  <2> QED
    BY <2>1, <2>2, <2>3
<1>14. \A i \in 1..(k + 1) : session[i].kind \in {"continue", "lua"}
  <2>1. \A i \in 1..k : session[i].kind \in {"continue", "lua"}
    BY DEF Taken
  <2>2. ASSUME NEW i \in 1..(k + 1), i # k + 1
        PROVE  i \in 1..k
    BY ONLY <1>1, <2>2, i \in 1..(k + 1)
  <2>3. session[k + 1].kind \in {"continue", "lua"}
    OBVIOUS
  <2> QED
    BY ONLY <2>1, <2>2, <2>3
<1>15. Len(StreamTo(session, k + 1)) + Len(buffer') = received
  <2>1. PICK x, y, z : /\ x = Len(StreamTo(session, k + 1))
                       /\ y = Len(buffer') /\ z = received
    OBVIOUS
  <2>2. y = L - m /\ x = P + m /\ P + L = z
    BY ONLY <1>5, <1>6, <1>9, <2>1
  <2>3. P \in Nat /\ m \in Nat /\ L \in Nat
    BY ONLY <1>1, <1>3, <1>4
  <2>4. x + y = z
    BY ONLY <2>2, <2>3
  <2> QED
    BY ONLY <2>1, <2>4
<1> QED
  BY <1>5, <1>9, <1>10, <1>12, <1>13, <1>14, <1>15 DEF Taken

-----------------------------------------------------------------------------
LEMMA DbgTyped ==
  ASSUME DbgInv
  PROVE  /\ received \in Nat /\ Len(Stream(session)) \in Nat
         /\ received <= Len(Stream(session))
         /\ Stream(session) \in Seq(ByteSet)
<1>1. session \in Seq(Msgs) /\ Len(session) \in 0..Len(session)
  BY DEF DbgInv
<1>2. Stream(session) \in Seq(ByteSet)
  BY <1>1, StreamUnfolds DEF Stream
<1>3. Len(Stream(session)) \in Nat
  BY <1>2
<1>4. received \in 0..Len(Stream(session))
  BY DEF DbgInv, DebugTypeOK
<1> QED
  BY <1>2, <1>3, <1>4

LEMMA SameParse ==
  ASSUME buffer' = buffer
  PROVE  Processable' <=> Processable
BY DEF Processable, HasWord, MessageType, MessageLength, HasText

(* A step that takes nothing off the buffer and loses nothing for Lua. *)
LEMMA SameTaken ==
  ASSUME DbgInv, session' = session, received' = received, buffer' = buffer,
         given' \o luaMessageQueue' = given \o luaMessageQueue
  PROVE  \E k \in 0..Len(session') : Taken(k)'
<1>1. PICK k \in 0..Len(session) : Taken(k)
  BY DEF DbgInv
<1>2. Taken(k)'
  BY <1>1 DEF Taken
<1> QED
  BY <1>1, <1>2

Readers == [caller : {"connect", "update", "wait"}, min : {0, 1},
            processed : {0, 1}, next : {"recv", "process"}]
Outsiders == {Outside(next) : next \in {"start", "idle"} \cup Ends}

LEMMA ReadingTyped ==
  /\ \A caller \in {"connect", "update", "wait"}, min \in {0, 1} :
       Reader(caller, min) \in Readers
  /\ \A next \in {"start", "idle", "exit", "crash"} : Outside(next) \in Outsiders
  /\ \A caller, min : Reader(caller, min).caller = caller /\ Reader(caller, min).next = "recv"
  /\ \A next : Outside(next).caller = "none" /\ Outside(next).next = next
BY DEF Reader, Readers, Outside, Outsiders, Ends

LEMMA ReadingIs ==
  ASSUME DbgInv, Reading
  PROVE  reading \in Readers
<1>1. reading \in Readers \cup Outsiders
  BY DEF DbgInv, DebugTypeOK, Readers, Outsiders
<1>2. reading \notin Outsiders
  BY DEF Reading, Outsiders, Outside
<1> QED
  BY <1>1, <1>2

(* A step that leaves the stream alone, but for whom it is read. *)
LEMMA OnlyReading ==
  ASSUME DbgInv, UNCHANGED <<session, received, buffer>>,
         dbgOptions' \in Seq({"reachable", "unreachable", "bad port"}),
         given' \o luaMessageQueue' = given \o luaMessageQueue,
         given' \in Seq(Nat), luaMessageQueue' \in Seq(Nat),
         connected' \in BOOLEAN, outgoing' \in Seq({"init", "log", "lua"}),
         reading' \in Readers \cup Outsiders,
         reading'.next \in {"start", "idle", "recv"} => ~Processable,
         connected' \/ reading'.caller = "connect" =>
           outgoing' # <<>> /\ Head(outgoing') = "init"
  PROVE  DbgInv'
<1>1. \E k \in 0..Len(session') : Taken(k)'
  BY SameTaken
<1>2. Processable' <=> Processable
  BY SameParse
<1>3. DebugTypeOK'
  BY DEF DbgInv, DebugTypeOK, Readers, Outsiders
<1>4. session' \in Seq(Msgs) /\ buffer' \in Seq(ByteSet)
  BY DEF DbgInv
<1> QED
  BY <1>1, <1>2, <1>3, <1>4 DEF DbgInv

LEMMA ReturnsInv ==
  ASSUME DbgInv, Reading, ~Processable, ReadMessageReturns,
         UNCHANGED <<dbgOptions, session, received, buffer, outgoing>>
  PROVE  DbgInv'
<1>1. reading \in Readers
  BY ReadingIs
<1>2. /\ dbgOptions' \in Seq({"reachable", "unreachable", "bad port"})
      /\ outgoing' \in Seq({"init", "log", "lua"}) /\ connected \in BOOLEAN
      /\ given \in Seq(Nat) /\ luaMessageQueue \in Seq(Nat)
      /\ connected \/ reading.caller = "connect" =>
           outgoing' # <<>> /\ Head(outgoing') = "init"
  BY DEF DbgInv, DebugTypeOK
<1>3. CASE reading.caller = "wait"
  <2>1. /\ reading' = Reader("update", 0)
        /\ UNCHANGED <<connected, luaMessageQueue, given>>
    BY <1>3 DEF ReadMessageReturns
  <2>2. reading' \in Readers /\ reading'.caller = "update"
    BY <2>1, ReadingTyped
  <2> QED
    BY <1>2, <2>1, <2>2, OnlyReading
<1>4. CASE reading.caller = "connect"
  <2>1. /\ connected' = TRUE /\ reading' = Outside("start")
        /\ UNCHANGED <<luaMessageQueue, given>>
    BY <1>4 DEF ReadMessageReturns, DebugReturned
  <2>2. reading' \in Outsiders
    BY <2>1, ReadingTyped
  <2> QED
    BY <1>2, <1>4, <2>1, <2>2, OnlyReading
<1>5. CASE reading.caller = "update"
  <2>1. /\ reading' = Outside("idle") /\ connected' = connected
        /\ luaMessageQueue' = <<>> /\ given' = given \o luaMessageQueue
    BY <1>5 DEF ReadMessageReturns, DebugReturned
  <2>2. reading' \in Outsiders /\ reading'.caller = "none"
    BY <2>1, ReadingTyped
  <2>3. given' \in Seq(Nat) /\ luaMessageQueue' \in Seq(Nat)
        /\ given' \o luaMessageQueue' = given \o luaMessageQueue
    <3>1. given' \in Seq(Nat)
      BY <1>2, <2>1, ConcatProperties
    <3>2. given' \o <<>> = given'
      BY <3>1, ConcatEmptySeq
    <3> QED
      BY <2>1, <3>1, <3>2
  <2> QED
    BY <1>2, <2>1, <2>2, <2>3, OnlyReading
<1> QED
  BY <1>1, <1>3, <1>4, <1>5 DEF Readers

LEMMA DbgInitInv == DebugInit => DbgInv
<1> SUFFICES ASSUME DebugInit
             PROVE  DbgInv
  OBVIOUS
<1>1. /\ session = <<>> /\ buffer = <<>> /\ given = <<>> /\ luaMessageQueue = <<>>
      /\ received = 0 /\ connected = FALSE /\ outgoing = <<>> /\ reading = Outside("start")
  BY DEF DebugInit
<1>2. session \in Seq(Msgs) /\ buffer \in Seq(ByteSet) /\ given \in Seq(Nat)
      /\ luaMessageQueue \in Seq(Nat) /\ Len(session) = 0 /\ Len(buffer) = 0
  BY <1>1
<1>3. StreamTo(session, 0) = <<>> /\ LuaMessages(session, 0) = <<>>
  BY <1>2, StreamUnfolds, LuaMessagesUnfold
<1>4. Stream(session) = <<>>
  BY <1>2, <1>3 DEF Stream
<1>5. Taken(0)
  <2>1. given \o luaMessageQueue = <<>>
    BY <1>1
  <2> QED
    BY <1>1, <1>2, <1>3, <2>1 DEF Taken
<1>6. dbgOptions \in Seq({"reachable", "unreachable", "bad port"})
  BY DebugAssumption DEF DebugInit
<1>7. DebugTypeOK
  <2>1. reading \in Outsiders
    BY <1>1, ReadingTyped
  <2>2. received \in 0..Len(Stream(session)) /\ Len(buffer) <= received
    <3>1. Len(Stream(session)) = 0
      BY <1>4
    <3> QED
      BY <1>1, <1>2, <3>1
  <2>3. outgoing \in Seq({"init", "log", "lua"})
    BY <1>1
  <2> QED
    BY <1>1, <1>6, <2>1, <2>2, <2>3 DEF DebugTypeOK, Outsiders
<1>8. ~Processable
  BY <1>2, WordSizeIs DEF Processable, HasWord
<1>9. reading.caller = "none"
  BY <1>1, ReadingTyped
<1> QED
  BY <1>1, <1>2, <1>5, <1>7, <1>8, <1>9 DEF DbgInv

LEMMA InitializeInv == DbgInv /\ Initialize => DbgInv'
<1> SUFFICES ASSUME DbgInv, Initialize
             PROVE  DbgInv'
  OBVIOUS
<1> DEFINE Options == {"reachable", "unreachable", "bad port"}
<1>1. /\ reading = Outside("start") /\ connected' = connected
      /\ dbgOptions \in Seq(Options)
      /\ given \in Seq(Nat) /\ luaMessageQueue \in Seq(Nat)
      /\ connected \in BOOLEAN /\ outgoing \in Seq({"init", "log", "lua"})
      /\ connected => outgoing # <<>> /\ Head(outgoing) = "init"
  BY DEF Initialize, DbgInv, DebugTypeOK
<1>2. ~Processable
  BY <1>1, ReadingTyped DEF DbgInv
<1>3. CASE dbgOptions = <<>>
  <2>1. /\ reading' = Outside("idle")
        /\ UNCHANGED <<dbgOptions, session, received, buffer, luaMessageQueue,
                       given, outgoing>>
    BY <1>3 DEF Initialize
  <2>2. reading' \in Outsiders /\ reading'.caller = "none"
    BY <2>1, ReadingTyped
  <2> QED
    BY <1>1, <1>2, <2>1, <2>2, OnlyReading
<1>4. CASE dbgOptions # <<>>
  <2>0. Tail(dbgOptions) \in Seq(Options) /\ Head(dbgOptions) \in Options
    <3> HIDE DEF Options
    <3> QED
      BY <1>1, <1>4, HeadTailProperties
  <2>1. dbgOptions' \in Seq(Options) /\ ConnectFromParameters(Head(dbgOptions))
    <3>1. dbgOptions' = Tail(dbgOptions) /\ ConnectFromParameters(Head(dbgOptions))
      BY <1>4 DEF Initialize
    <3> HIDE DEF Options
    <3> QED
      BY <2>0, <3>1
  <2>2. CASE Head(dbgOptions) = "bad port"
    <3>1. /\ reading' = Outside("crash")
          /\ UNCHANGED <<session, received, buffer, luaMessageQueue, given, outgoing>>
      BY <2>1, <2>2 DEF ConnectFromParameters
    <3>2. reading' \in Outsiders /\ reading'.caller = "none"
      BY <3>1, ReadingTyped
    <3> QED
      BY <1>1, <1>2, <2>1, <3>1, <3>2, OnlyReading
  <2>3. CASE Head(dbgOptions) = "unreachable"
    <3>1. UNCHANGED <<reading, session, received, buffer, luaMessageQueue, given,
                      outgoing>>
      BY <2>1, <2>3 DEF ConnectFromParameters
    <3>2. reading' \in Outsiders /\ reading'.caller = "none"
      BY <1>1, <3>1, ReadingTyped
    <3> QED
      BY <1>1, <1>2, <2>1, <3>1, <3>2, OnlyReading
  <2>4. CASE Head(dbgOptions) = "reachable"
    <3>1. /\ session' \in Sessions /\ received' = 0 /\ buffer' = <<>>
          /\ luaMessageQueue' = <<>> /\ given' = <<>> /\ outgoing' = <<"init">>
          /\ reading' = Reader("connect", 1)
      BY <2>1, <2>4 DEF ConnectFromParameters
    <3>2. session' \in Seq(Msgs)
      BY <3>1, DebugAssumption DEF Msgs
    <3>3. /\ StreamTo(session', 0) = <<>> /\ LuaMessages(session', 0) = <<>>
          /\ Stream(session') \in Seq(ByteSet)
      <4>1. Len(session') \in 0..Len(session')
        BY <3>2
      <4> QED
        BY <3>2, <4>1, StreamUnfolds, LuaMessagesUnfold DEF Stream
    <3>4. Len(Stream(session')) \in Nat /\ Len(session') \in Nat
      BY <3>2, <3>3
    <3>5. Len(buffer') = 0 /\ buffer' \in Seq(ByteSet) /\ given' \in Seq(Nat)
          /\ luaMessageQueue' \in Seq(Nat) /\ given' \o luaMessageQueue' = <<>>
      BY <3>1
    <3>6. Taken(0)'
      BY <3>1, <3>3, <3>5 DEF Taken
    <3>7. ~Processable'
      BY <3>5, WordSizeIs DEF Processable, HasWord
    <3>8. reading' \in Readers
      BY <3>1, ReadingTyped
    <3>9. outgoing' \in Seq({"init", "log", "lua"}) /\ Head(outgoing') = "init"
          /\ outgoing' # <<>>
      BY <3>1
    <3>10. received' \in 0..Len(Stream(session')) /\ Len(buffer') <= received'
      BY <3>1, <3>4, <3>5
    <3>11. DebugTypeOK'
      BY <1>1, <2>1, <3>1, <3>8, <3>9, <3>10 DEF DebugTypeOK, Readers
    <3>12. \E k \in 0..Len(session') : Taken(k)'
      BY <3>4, <3>6
    <3> QED
      BY <3>2, <3>5, <3>7, <3>9, <3>11, <3>12 DEF DbgInv
  <2> QED
    BY <2>0, <2>2, <2>3, <2>4
<1> QED
  BY <1>3, <1>4

LEMMA ReceiveBytesInv == DbgInv /\ ReceiveBytes => DbgInv'
<1> SUFFICES ASSUME DbgInv, ReceiveBytes
             PROVE  DbgInv'
  OBVIOUS
<1>1. /\ UNCHANGED <<dbgOptions, connected, session, luaMessageQueue, given, outgoing>>
      /\ Reading /\ reading' = [reading EXCEPT !.next = "process"]
  BY DEF ReceiveBytes
<1>2. PICK n \in 1..BufferLength :
        /\ received + n <= Len(Stream(session)) /\ received' = received + n
        /\ buffer' = buffer \o SubSeq(Stream(session), received + 1, received + n)
  BY DEF ReceiveBytes
<1>3. PICK k \in 0..Len(session) : Taken(k)
  BY DEF DbgInv
<1>4. n \in Nat
  <2>1. BufferLength \in Nat \ {0}
    BY DebugAssumption
  <2> QED
    BY <1>2, <2>1
<1> DEFINE S == Stream(session)
           b == SubSeq(S, received + 1, received + n)
           P == Len(StreamTo(session, k))
<1>5. received \in Nat /\ Len(S) \in Nat /\ S \in Seq(ByteSet)
  BY DbgTyped
<1>6. buffer \in Seq(ByteSet) /\ Len(buffer) \in Nat /\ session \in Seq(Msgs)
  BY DEF DbgInv
<1>7. P \in Nat
  <2>1. StreamTo(session, k) \in Seq(ByteSet)
    BY <1>3, <1>6, StreamUnfolds
  <2> QED
    BY <2>1
<1>8. P + Len(buffer) = received /\ \A i \in 1..Len(buffer) : buffer[i] = S[P + i]
  BY <1>3 DEF Taken
<1> HIDE DEF S, P
<1>9. /\ b \in Seq(ByteSet) /\ Len(b) = n
      /\ \A i \in 1..n : b[i] = S[received + i]
  <2>1. \A i \in (received + 1)..(received + n) : S[i] \in ByteSet
    <3>1. \A i \in 1..Len(S) : S[i] \in ByteSet
      BY <1>5
    <3>2. received + n <= Len(S)
      BY <1>2 DEF S
    <3> QED
      BY <1>4, <1>5, <3>1, <3>2
  <2>2. /\ b \in Seq(ByteSet)
        /\ Len(b) = IF received + 1 <= received + n
                    THEN (received + n) - (received + 1) + 1 ELSE 0
        /\ \A i \in 1..((received + n) - (received + 1) + 1) :
             b[i] = S[(received + 1) + i - 1]
    BY <1>4, <1>5, <2>1, SubSeqProperties
  <2>3. \A i \in 1..n : /\ i \in 1..((received + n) - (received + 1) + 1)
                        /\ (received + 1) + i - 1 = received + i
    BY <1>4, <1>5
  <2>4. n >= 1
    BY <1>2, <1>4
  <2> HIDE DEF b
  <2> QED
    BY <1>4, <1>5, <2>2, <2>3, <2>4
<1>10. buffer' = buffer \o b
  BY <1>2 DEF S
<1> HIDE DEF b
<1>11. /\ buffer' \in Seq(ByteSet) /\ Len(buffer') = Len(buffer) + Len(b)
       /\ \A i \in 1..(Len(buffer) + Len(b)) :
            buffer'[i] = IF i <= Len(buffer) THEN buffer[i] ELSE b[i - Len(buffer)]
  BY <1>6, <1>9, <1>10, ConcatProperties
<1>12. Len(buffer') = Len(buffer) + n
  BY <1>9, <1>11
<1>13. P + Len(buffer) = received /\ received' = received + n
  BY <1>2, <1>8
<1>14. P + Len(buffer') = received' /\ Len(buffer') \in Nat /\ Len(buffer') <= received'
  <2>1. Len(buffer) \in Nat /\ P \in Nat /\ n \in Nat /\ received \in Nat
    BY <1>4, <1>5, <1>6, <1>7
  <2> DEFINE old == Len(buffer)
             new == Len(buffer')
  <2>2. new = old + n
    BY <1>12
  <2>3. old \in Nat /\ P + old = received
    BY <1>13, <2>1
  <2> HIDE DEF old, new
  <2>4. P + new = received' /\ new \in Nat /\ new <= received'
    BY <1>13, <2>1, <2>2, <2>3
  <2> QED
    BY <2>4 DEF new
<1>15. ASSUME NEW i \in 1..(Len(buffer) + n)
       PROVE  buffer'[i] = S[P + i]
  <2>1. CASE i <= Len(buffer)
    <3>1. i \in 1..Len(buffer) /\ buffer'[i] = buffer[i]
      BY <1>6, <1>9, <1>11, <2>1
    <3> QED
      BY <1>8, <3>1
  <2>2. CASE ~(i <= Len(buffer))
    <3>1. i - Len(buffer) \in 1..n /\ received + (i - Len(buffer)) = P + i
      BY <1>4, <1>6, <1>7, <1>8, <2>2
    <3>2. buffer'[i] = b[i - Len(buffer)]
      BY <1>9, <1>11, <2>2
    <3> QED
      BY <1>9, <3>1, <3>2
  <2> QED
    BY <2>1, <2>2
<1>16. Taken(k)'
  <2>1. \A i \in 1..Len(buffer') : buffer'[i] = S[P + i]
    BY <1>12, <1>15
  <2> QED
    BY <1>1, <1>3, <1>14, <2>1 DEF Taken, S, P
<1>17. reading' \in Readers /\ reading'.next = "process" /\ reading'.caller = reading.caller
  BY <1>1, ReadingIs DEF Readers
<1>18. received' \in 0..Len(Stream(session')) /\ Len(buffer') <= received'
  <2>1. session' = session /\ received + n <= Len(S)
    BY <1>1, <1>2 DEF S
  <2>2. received' \in 0..Len(S)
    BY <1>4, <1>5, <1>13, <2>1
  <2> QED
    BY <1>14, <2>1, <2>2 DEF S
<1>19. DebugTypeOK'
  BY <1>1, <1>17, <1>18 DEF DbgInv, DebugTypeOK, Readers
<1>20. \E j \in 0..Len(session') : Taken(j)'
  BY <1>1, <1>3, <1>16
<1> QED
  BY <1>1, <1>11, <1>17, <1>19, <1>20 DEF DbgInv

LEMMA NoMoreBytesInv ==
  DbgInv /\ (NoBytes \/ ReceiveFails \/ NothingToProcess) => DbgInv'
<1> SUFFICES ASSUME DbgInv, NoBytes \/ ReceiveFails \/ NothingToProcess
             PROVE  DbgInv'
  OBVIOUS
<1>1. /\ Reading /\ ~Processable
      /\ UNCHANGED <<dbgOptions, session, received, buffer, outgoing>>
  BY DEF NoBytes, ReceiveFails, NothingToProcess, DbgInv
<1>2. CASE ReadMessageReturns
  BY <1>1, <1>2, ReturnsInv
<1>3. CASE ~ReadMessageReturns
  <2>1. /\ reading' = [reading EXCEPT !.next = "recv"]
        /\ UNCHANGED <<connected, luaMessageQueue, given>>
    BY <1>3 DEF NoBytes, ReceiveFails, NothingToProcess
  <2>2. reading' \in Readers /\ reading'.caller = reading.caller
    BY <1>1, <2>1, ReadingIs DEF Readers
  <2>3. /\ dbgOptions' \in Seq({"reachable", "unreachable", "bad port"})
        /\ outgoing' \in Seq({"init", "log", "lua"}) /\ connected' \in BOOLEAN
        /\ given' \in Seq(Nat) /\ luaMessageQueue' \in Seq(Nat)
        /\ connected' \/ reading'.caller = "connect" =>
             outgoing' # <<>> /\ Head(outgoing') = "init"
    BY <1>1, <2>1, <2>2 DEF DbgInv, DebugTypeOK
  <2> QED
    BY <1>1, <2>1, <2>2, <2>3, OnlyReading
<1> QED
  BY <1>2, <1>3

LEMMA ProcessMessageInv == DbgInv /\ ProcessMessage => DbgInv'
<1> SUFFICES ASSUME DbgInv, ProcessMessage
             PROVE  DbgInv'
  OBVIOUS
<1>1. /\ Reading /\ reading.next = "process" /\ Processable
      /\ UNCHANGED <<dbgOptions, connected, session, received, given, outgoing>>
  BY DEF ProcessMessage
<1>2. /\ dbgOptions' \in Seq({"reachable", "unreachable", "bad port"})
      /\ outgoing' \in Seq({"init", "log", "lua"}) /\ connected' \in BOOLEAN
      /\ given' \in Seq(Nat) /\ luaMessageQueue \in Seq(Nat)
      /\ connected' \/ reading.caller = "connect" =>
           outgoing' # <<>> /\ Head(outgoing') = "init"
      /\ session \in Seq(Msgs) /\ buffer \in Seq(ByteSet)
  BY <1>1 DEF DbgInv, DebugTypeOK
<1>3. CASE MessageType = "startVR"
  <2>1. reading' = Outside("crash") /\ UNCHANGED <<buffer, luaMessageQueue>>
    BY <1>3 DEF ProcessMessage
  <2>2. reading' \in Outsiders /\ reading'.caller = "none" /\ reading'.next = "crash"
    BY <2>1, ReadingTyped
  <2> QED
    BY <1>1, <1>2, <2>1, <2>2, OnlyReading
<1>4. CASE MessageType \in {"continue", "lua"}
  <2>1. PICK k \in 0..Len(session) : Taken(k)
    BY DEF DbgInv
  <2>2. HasWord(0)
    BY <1>1 DEF Processable
  <2>3. received \in Nat /\ Len(Stream(session)) \in Nat /\ received <= Len(Stream(session))
    BY DbgTyped
  <2>4. /\ k + 1 \in 1..Len(session) /\ MessageType = session[k + 1].kind
        /\ session[k + 1].kind = "lua" /\ HasWord(WordSize) =>
             /\ MessageLength = session[k + 1].length
             /\ buffer[WordSize + 1].id = session[k + 1].id
    BY <1>2, <2>1, <2>2, <2>3, AtTheFront
  <2>5. session[k + 1] \in Msgs /\ session[k + 1].length \in Nat
    <3>1. session[k + 1] \in Msgs
      <4>1. session \in Seq(Msgs)
        BY <1>2
      <4> QED
        BY <2>4, <4>1
    <3> QED
      BY <3>1 DEF Msgs
  <2>6. Len(Encoded(session[k + 1])) =
          WordSize + IF session[k + 1].kind = "lua"
                     THEN WordSize + session[k + 1].length ELSE 0
    BY <2>5, EncodedIs
  <2>7. WordSize \in Nat /\ Len(buffer) \in Nat /\ k \in Nat /\ Len(session) \in Nat
    <3>1. session \in Seq(Msgs) /\ buffer \in Seq(ByteSet)
      BY <1>2
    <3>2. Len(session) \in Nat /\ Len(buffer) \in Nat
      BY <3>1
    <3> QED
      BY <2>1, <3>2, WordSizeIs
  <2>8. /\ Len(Encoded(session[k + 1])) <= Len(buffer)
        /\ buffer' = Drop(Len(Encoded(session[k + 1])))
        /\ luaMessageQueue' = IF session[k + 1].kind = "lua"
                              THEN Append(luaMessageQueue, session[k + 1].id)
                              ELSE luaMessageQueue
    <3>1. CASE MessageType = "lua"
      <4>1. HasWord(WordSize) /\ HasText
        BY <1>1, <3>1 DEF Processable
      <4>2. MessageLength = session[k + 1].length
            /\ buffer[WordSize + 1].id = session[k + 1].id
        BY <2>4, <3>1, <4>1
      <4>3. 2 * WordSize + MessageLength = Len(Encoded(session[k + 1]))
        BY <2>4, <2>5, <2>6, <2>7, <3>1, <4>2
      <4>4. buffer' = Drop(2 * WordSize + MessageLength)
            /\ luaMessageQueue' = Append(luaMessageQueue, buffer[WordSize + 1].id)
        BY <3>1 DEF ProcessMessage
      <4> QED
        BY <2>4, <3>1, <4>1, <4>2, <4>3, <4>4 DEF HasText
    <3>2. CASE MessageType = "continue"
      <4>1. Len(Encoded(session[k + 1])) = WordSize
        BY <2>4, <2>6, <2>7, <3>2
      <4>2. WordSize <= Len(buffer)
        BY <2>2, <2>7 DEF HasWord
      <4>3. buffer' = Drop(WordSize) /\ luaMessageQueue' = luaMessageQueue
        BY <3>2 DEF ProcessMessage
      <4> QED
        BY <2>4, <3>2, <4>1, <4>2, <4>3
    <3> QED
      BY <1>4, <3>1, <3>2
  <2>9. given \in Seq(Nat)
    BY DEF DbgInv
  <2>10. k < Len(session) /\ session[k + 1].kind \in {"continue", "lua"}
    BY <1>4, <2>4, <2>7
  <2>11. buffer' \in Seq(ByteSet) /\ luaMessageQueue' \in Seq(Nat) /\ Taken(k + 1)'
    BY <1>1, <1>2, <2>1, <2>3, <2>8, <2>9, <2>10, TakeNext
  <2>12. reading' = [reading EXCEPT !.processed = Counted]
    BY <1>4 DEF ProcessMessage
  <2>13. reading' \in Readers /\ reading'.caller = reading.caller
         /\ reading'.next = "process"
    <3>1. reading \in Readers
      BY <1>1, ReadingIs
    <3>2. Counted \in {0, 1}
      BY <3>1 DEF Counted, Readers
    <3> QED
      BY <1>1, <2>12, <3>1, <3>2 DEF Readers
  <2>14. Len(buffer') <= received'
    <3>1. Len(StreamTo(session, k + 1)) + Len(buffer') = received'
      BY <1>1, <2>11 DEF Taken
    <3>2. StreamTo(session, k + 1) \in Seq(ByteSet)
      <4>1. k + 1 \in 0..Len(session)
        BY <2>4, <2>7
      <4> QED
        BY <1>2, <4>1, StreamUnfolds
    <3>3. Len(StreamTo(session, k + 1)) \in Nat /\ Len(buffer') \in Nat
      BY <2>11, <3>2
    <3> QED
      BY <3>1, <3>3
  <2>15. DebugTypeOK'
    BY <1>1, <1>2, <2>13, <2>14 DEF DbgInv, DebugTypeOK, Readers
  <2>16. \E j \in 0..Len(session') : Taken(j)'
    BY <1>1, <2>4, <2>7, <2>11
  <2> QED
    BY <1>1, <1>2, <2>11, <2>13, <2>15, <2>16 DEF DbgInv
<1> QED
  BY <1>3, <1>4 DEF ProcessMessage

LEMMA OtherDbgInv ==
  DbgInv /\ (PeerCloses \/ DebugUpdate \/ WaitForMessage
               \/ \E kind \in {"log", "lua"} : SendMessage(kind)) => DbgInv'
<1>1. ASSUME DbgInv
      PROVE  /\ dbgOptions \in Seq({"reachable", "unreachable", "bad port"})
             /\ outgoing \in Seq({"init", "log", "lua"}) /\ connected \in BOOLEAN
             /\ given \in Seq(Nat) /\ luaMessageQueue \in Seq(Nat)
             /\ connected \/ reading.caller = "connect" =>
                  outgoing # <<>> /\ Head(outgoing) = "init"
             /\ reading.next \in {"start", "idle", "recv"} => ~Processable
             /\ reading \in Readers \cup Outsiders
  BY <1>1 DEF DbgInv, DebugTypeOK, Readers, Outsiders
<1>2. ASSUME DbgInv, PeerCloses
      PROVE  DbgInv'
  <2>1. /\ reading' = Outside("exit")
        /\ UNCHANGED <<dbgOptions, connected, session, received, buffer,
                       luaMessageQueue, given, outgoing>>
    BY <1>2 DEF PeerCloses
  <2>2. reading' \in Outsiders /\ reading'.caller = "none" /\ reading'.next = "exit"
    BY <2>1, ReadingTyped
  <2> QED
    BY <1>1, <1>2, <2>1, <2>2, OnlyReading
<1>3. ASSUME DbgInv, DebugUpdate \/ WaitForMessage
      PROVE  DbgInv'
  <2>1. /\ reading = Outside("idle")
        /\ reading' \in {Reader("update", 0), Reader("wait", 1), Outside("crash")}
        /\ UNCHANGED <<dbgOptions, connected, session, received, buffer,
                       luaMessageQueue, given, outgoing>>
    BY <1>3 DEF DebugUpdate, WaitForMessage
  <2>2. reading' \in Readers \cup Outsiders /\ reading'.caller # "connect"
    BY <2>1, ReadingTyped
  <2>3. ~Processable
    BY <1>1, <1>3, <2>1, ReadingTyped
  <2> QED
    BY <1>1, <1>3, <2>1, <2>2, <2>3, OnlyReading
<1>4. ASSUME DbgInv, NEW kind \in {"log", "lua"}, SendMessage(kind)
      PROVE  DbgInv'
  <2>1. /\ connected /\ outgoing' = Append(outgoing, kind)
        /\ UNCHANGED <<dbgOptions, connected, session, received, buffer,
                       luaMessageQueue, given, reading>>
    BY <1>4 DEF SendMessage
  <2>2. outgoing' \in Seq({"init", "log", "lua"}) /\ outgoing' # <<>>
        /\ Head(outgoing') = "init"
    <3> DEFINE O == {"init", "log", "lua"}
    <3>1. outgoing \in Seq(O) /\ kind \in O /\ outgoing # <<>> /\ Head(outgoing) = "init"
      BY <1>1, <1>4, <2>1
    <3> HIDE DEF O
    <3>2. Append(outgoing, kind) \in Seq(O) /\ Append(outgoing, kind) # <<>>
          /\ Head(Append(outgoing, kind)) = Head(outgoing)
      BY <3>1, AppendProperties, HeadTailAppend
    <3> QED
      BY <2>1, <3>1, <3>2 DEF O
  <2> QED
    BY <1>1, <1>4, <2>1, <2>2, OnlyReading
<1> QED
  BY <1>2, <1>3, <1>4

LEMMA DbgInvariant == DebugSpec => []DbgInv
<1>1. DbgInv /\ [DebugNext]_dbgVars => DbgInv'
  <2>1. DbgInv /\ DebugNext => DbgInv'
    BY InitializeInv, ReceiveBytesInv, NoMoreBytesInv, ProcessMessageInv, OtherDbgInv
    DEF DebugNext
  <2>2. DbgInv /\ UNCHANGED dbgVars => DbgInv'
    <3> SUFFICES ASSUME DbgInv, UNCHANGED dbgVars
                 PROVE  DbgInv'
      OBVIOUS
    <3>1. (\E k \in 0..Len(session') : Taken(k)') /\ (Processable' <=> Processable)
      BY SameTaken, SameParse DEF dbgVars
    <3> QED
      BY <3>1 DEF DbgInv, DebugTypeOK, dbgVars
  <2> QED
    BY <2>1, <2>2
<1> QED
  BY <1>1, DbgInitInv, PTL DEF DebugSpec

(* Every variable of the debug connection keeps its shape, whatever the    *)
(* debugger sends and however it is cut.                                   *)
THEOREM DebugTypeCorrect == DebugSpec => []DebugTypeOK
<1>1. DbgInv => DebugTypeOK
  BY DEF DbgInv
<1> QED
  BY <1>1, DbgInvariant, PTL

(* However recv cuts the stream, Lua is given exactly the messages that    *)
(* have arrived whole, in order and each once.                             *)
THEOREM MessagesInOrderAlways == DebugSpec => []MessagesInOrder
<1>1. DbgInv => MessagesInOrder
  <2> SUFFICES ASSUME DbgInv
               PROVE  MessagesInOrder
    OBVIOUS
  <2>1. PICK k \in 0..Len(session) : Taken(k)
    BY DEF DbgInv
  <2>2. session \in Seq(Msgs) /\ buffer \in Seq(ByteSet) /\ Len(buffer) \in Nat
        /\ Len(session) \in Nat
    BY DEF DbgInv
  <2>3. received \in Nat /\ Len(Stream(session)) \in Nat /\ received <= Len(Stream(session))
    BY DbgTyped
  <2>4. ASSUME NEW n \in 0..Len(session)
        PROVE  Len(StreamTo(session, n)) \in Nat /\ Len(LuaMessages(session, n)) \in Nat
    <3>1. StreamTo(session, n) \in Seq(ByteSet) /\ LuaMessages(session, n) \in Seq(Nat)
      BY <2>2, StreamUnfolds, LuaMessagesUnfold
    <3> QED
      BY <3>1
  <2>5. Reachable(k)
    <3>1. Len(StreamTo(session, k)) + Len(buffer) = received
      BY <2>1 DEF Taken
    <3>2. Len(StreamTo(session, k)) <= received
      BY <2>2, <2>3, <2>4, <3>1
    <3> QED
      BY <2>1, <3>2 DEF Reachable, Taken
  <2>6. given \o luaMessageQueue = LuaMessages(session, k)
    BY <2>1 DEF Taken
  <2>7. ASSUME reading.next \in {"start", "idle"}, NEW n \in 0..Len(session), Reachable(n)
        PROVE  Len(LuaMessages(session, n)) <= Len(LuaMessages(session, k))
    <3>1. CASE n <= k
      BY <2>1, <2>2, <3>1, FirstMessages DEF Prefixed
    <3>2. CASE ~(n <= k)
      <4>1. k + 1 \in 0..Len(session) /\ k + 1 <= n /\ k < Len(session) /\ k + 1 \in 1..n
        BY <2>1, <2>2, <2>7, <3>2
      <4>2. session[k + 1].kind \in {"continue", "lua"}
        BY <2>7, <4>1 DEF Reachable
      <4>3. Len(StreamTo(session, k + 1)) <= Len(StreamTo(session, n))
        BY <2>2, <2>7, <4>1, FirstMessages DEF Prefixed
      <4>4. Len(StreamTo(session, k + 1)) <= received
        BY <2>3, <2>4, <2>7, <4>1, <4>3 DEF Reachable
      <4>5. Processable
        BY <2>1, <2>2, <2>3, <4>1, <4>2, <4>4, WholeIsProcessable
      <4>6. ~Processable
        BY <2>7 DEF DbgInv
      <4> QED
        BY <4>5, <4>6
    <3> QED
      BY <3>1, <3>2
  <2>8. connected => Head(outgoing) = "init"
    BY DEF DbgInv
  <2> QED
    BY <2>1, <2>5, <2>6, <2>7, <2>8 DEF MessagesInOrder
<1> QED
  BY <1>1, DbgInvariant, PTL

-----------------------------------------------------------------------------
(* The asset database. *)

LEMMA LesserOfTwo ==
  ASSUME NEW a \in Int, NEW b \in Int
  PROVE  Min({a, b}) = IF a <= b THEN a ELSE b
<1> DEFINE m == IF a <= b THEN a ELSE b
           P(x) == x \in {a, b} /\ \A y \in {a, b} : x <= y
<1>1. P(m)
  OBVIOUS
<1>2. \A x : P(x) => x = m
  OBVIOUS
<1>3. Min({a, b}) = CHOOSE x : P(x)
  BY DEF Min
<1> HIDE DEF P, m
<1>4. (CHOOSE x : P(x)) = m
  BY <1>1, <1>2
<1> QED
  BY <1>3, <1>4 DEF m

(* A record with two fields replaced. *)
LEMMA StoreWith ==
  ASSUME NEW K, NEW S, NEW old \in [kind : K, pieces : Nat, got : S], NEW m \in Nat, NEW g \in S
  PROVE  /\ [old EXCEPT !.pieces = m, !.got = g] \in [kind : K, pieces : Nat, got : S]
         /\ [old EXCEPT !.pieces = m, !.got = g].kind = old.kind
         /\ [old EXCEPT !.pieces = m, !.got = g].pieces = m
         /\ [old EXCEPT !.pieces = m, !.got = g].got = g
<1> DEFINE a == [old EXCEPT !.pieces = m]
<1>1. a \in [kind : K, pieces : Nat, got : S] /\ a.kind = old.kind /\ a.pieces = m
  OBVIOUS
<1>2. [a EXCEPT !.got = g] = [old EXCEPT !.pieces = m, !.got = g]
  OBVIOUS
<1> HIDE DEF a
<1> QED
  BY <1>1, <1>2

(* Normalising. *)
LEMMA NormalisingAgrees == TextsAgree
<1> SUFFICES ASSUME NEW text \in AssetTexts, normalise_hash(text) # Refused
             PROVE  parseHash(text) = normalise_hash(text)
  BY DEF TextsAgree
<1>1. CASE text.sign # "@"
  BY <1>1 DEF parseHash, normalise_hash
<1>2. CASE text.sign = "@"
  <2>1. text.size = 17 /\ text.digits # "some"
    BY <1>2 DEF normalise_hash
  <2> QED
    BY <1>2, <2>1 DEF parseHash, normalise_hash
<1> QED
  BY <1>1, <1>2

StoreInv ==
  /\ dbStore \in [kind : {"none", "file", "string"}, pieces : Nat, got : Seq(Int)]
  /\ dbStore.pieces = 0 => dbStore.got = <<>>
  /\ StoresAgree

(* A piece continues what the game has of a file. *)
LEMMA StoreReadInv ==
  ASSUME StoreInv, NEW length \in 1..StoreSize, ReadStore(length)
  PROVE  StoreInv'
<1> DEFINE n == Len(dbStore.got)
           c == Min({length, StoreSize - n})
           first == IF dbStore.kind = "file" THEN n ELSE 0
           piece == [k \in 1..c |-> first + k - 1]
<1>1. /\ StoreSize \in Nat /\ n \in Nat /\ n < StoreSize /\ dbStore.pieces \in Nat
      /\ dbStore.got \in Seq(Int) /\ dbStore.kind \in {"none", "file", "string"}
  BY DieselDbAssumption DEF StoreInv, ReadStore
<1>2. c \in Nat
  <2>1. StoreSize - n \in Int /\ length \in Int /\ length >= 0 /\ StoreSize - n >= 0
    BY <1>1
  <2>2. c = IF length <= StoreSize - n THEN length ELSE StoreSize - n
    BY <2>1, LesserOfTwo
  <2> HIDE DEF c
  <2> QED
    BY <2>1, <2>2
<1> HIDE DEF c
<1>3. piece \in Seq(Int) /\ Len(piece) = c /\ \A k \in 1..c : piece[k] = first + k - 1
  <2>1. \A k \in 1..c : first + k - 1 \in Int
    BY <1>1, <1>2
  <2> QED
    BY <1>2, <2>1
<1>4. StoreRead(dbStore.kind, n, length) = piece
  BY DEF StoreRead, c
<1> HIDE DEF piece
<1> DEFINE got == dbStore.got \o piece
<1>8. /\ got \in Seq(Int) /\ Len(got) = n + c
      /\ \A k \in 1..(n + c) : got[k] = IF k <= n THEN dbStore.got[k] ELSE piece[k - n]
  BY <1>1, <1>2, <1>3, ConcatProperties
<1>9. dbStore' = [dbStore EXCEPT !.pieces = @ + 1, !.got = got]
  BY <1>4 DEF ReadStore
<1> HIDE DEF got
<1>10. got = [k \in 1..(n + c) |-> got[k]]
  BY <1>8
<1>5. /\ dbStore'.kind = dbStore.kind /\ dbStore'.pieces = dbStore.pieces + 1
      /\ dbStore'.got = got
      /\ dbStore' \in [kind : {"none", "file", "string"}, pieces : Nat, got : Seq(Int)]
  <2>1. dbStore \in [kind : {"none", "file", "string"}, pieces : Nat, got : Seq(Int)]
    BY DEF StoreInv
  <2>2. dbStore.pieces + 1 \in Nat /\ got \in Seq(Int)
    BY <1>1, <1>8
  <2>3. dbStore' = [dbStore EXCEPT !.pieces = dbStore.pieces + 1, !.got = got]
    BY <1>9
  <2> DEFINE K == {"none", "file", "string"}
             m == dbStore.pieces + 1
             store == [dbStore EXCEPT !.pieces = m, !.got = got]
  <2>4. dbStore \in [kind : K, pieces : Nat, got : Seq(Int)] /\ m \in Nat
    BY <2>1, <2>2
  <2> HIDE DEF K, m
  <2>5. /\ store \in [kind : K, pieces : Nat, got : Seq(Int)]
        /\ store.kind = dbStore.kind /\ store.pieces = m /\ store.got = got
    BY <2>2, <2>4, StoreWith
  <2> HIDE DEF store
  <2>6. dbStore' = store
    BY <2>3 DEF store, m
  <2> QED
    BY <2>5, <2>6 DEF K, m
<1>6. ASSUME dbStore'.kind = "file" \/ dbStore'.pieces <= 1
      PROVE  got = [k \in 1..Len(got) |-> k - 1]
  <2>1. dbStore.got = [k \in 1..n |-> k - 1] /\ first = n
    <3>1. CASE dbStore.kind = "file"
      BY <3>1 DEF StoreInv, StoresAgree
    <3>2. CASE dbStore.kind # "file"
      <4>1. dbStore.pieces = 0
        BY <3>2, <1>1, <1>5, <1>6
      <4>2. dbStore.got = <<>>
        BY <4>1 DEF StoreInv
      <4> QED
        BY <3>2, <4>2
    <3> QED
      BY <3>1, <3>2
  <2>2. \A k \in 1..(n + c) : got[k] = k - 1
    <3> SUFFICES ASSUME NEW k \in 1..(n + c)
                 PROVE  got[k] = k - 1
      OBVIOUS
    <3>1. CASE k <= n
      <4>1. k \in 1..n
        BY <3>1, <1>1, <1>2
      <4> QED
        BY <4>1, <3>1, <2>1, <1>8
    <3>2. CASE ~(k <= n)
      <4>1. k - n \in 1..c /\ n + (k - n) - 1 = k - 1
        BY <3>2, <1>1, <1>2
      <4>2. piece[k - n] = n + (k - n) - 1
        BY <1>3, <2>1, <4>1
      <4> QED
        BY <4>1, <4>2, <3>2, <1>8
    <3> QED
      BY <3>1, <3>2
  <2> QED
    BY <1>8, <1>10, <2>2
<1>7. dbStore'.pieces # 0
  BY <1>1, <1>5
<1> QED
  BY <1>5, <1>6, <1>7 DEF StoreInv, StoresAgree

-----------------------------------------------------------------------------
(* The headers of the asset database. *)

DbFile == [name : AssetNames \cup {NoName}, lang : Languages, bundle : Nat,
           offset : Int, length : Int]

(* The names of the index are kept. *)
SameNames(f, g) ==
  /\ DOMAIN g = DOMAIN f
  /\ \A id \in DOMAIN f : g[id].name = f[id].name /\ g[id].lang = f[id].lang

LEMMA EntryReplaced ==
  ASSUME NEW S, NEW f, NEW id, NEW x, f \in Seq(S), id \in DOMAIN f => x \in S
  PROVE  /\ [f EXCEPT ![id] = x] \in Seq(S) /\ DOMAIN [f EXCEPT ![id] = x] = DOMAIN f
         /\ \A k \in DOMAIN f \ {id} : [f EXCEPT ![id] = x][k] = f[k]
         /\ id \in DOMAIN f => [f EXCEPT ![id] = x][id] = x
<1> DEFINE g == [f EXCEPT ![id] = x]
<1>1. Len(f) \in Nat /\ DOMAIN f = 1..Len(f) /\ f \in [1..Len(f) -> S]
  OBVIOUS
<1>2. /\ g \in [1..Len(f) -> S] /\ \A k \in DOMAIN f \ {id} : g[k] = f[k]
      /\ id \in DOMAIN f => g[id] = x
  BY <1>1
<1> HIDE DEF g
<1>3. g \in Seq(S) /\ DOMAIN g = DOMAIN f
  BY <1>1, <1>2
<1> QED
  BY <1>2, <1>3 DEF g

LEMMA PlaceIs ==
  ASSUME NEW f, NEW id, NEW b, NEW offset, NEW p,
         f \in Seq(DbFile), id \in Nat, b \in Nat, offset \in Int,
         p = Place(f, id, b, offset)
  PROVE  /\ p \in Seq(DbFile) /\ SameNames(f, p) /\ DOMAIN p = DOMAIN f
         /\ \A k \in DOMAIN f : /\ p[k].bundle = (IF k = id THEN b ELSE f[k].bundle)
                                /\ p[k].offset = (IF k = id THEN offset ELSE f[k].offset)
                                /\ p[k].length = f[k].length
<1> DEFINE g == [f EXCEPT ![id].bundle = b]
           h == [g EXCEPT ![id].offset = offset]
<1>1. \A k \in DOMAIN f : f[k] \in DbFile
  OBVIOUS
<1>2. /\ g \in Seq(DbFile) /\ DOMAIN g = DOMAIN f
      /\ \A k \in DOMAIN f \ {id} : g[k] = f[k]
      /\ id \in DOMAIN f => /\ g[id].name = f[id].name /\ g[id].lang = f[id].lang
                            /\ g[id].bundle = b /\ g[id].length = f[id].length
  <2> DEFINE x == [f[id] EXCEPT !.bundle = b]
  <2>1. g = [f EXCEPT ![id] = x]
    OBVIOUS
  <2>2. id \in DOMAIN f =>
          /\ x \in DbFile /\ x.name = f[id].name /\ x.lang = f[id].lang
          /\ x.bundle = b /\ x.length = f[id].length
    <3>1. PICK e : e = f[id]
      OBVIOUS
    <3>2. id \in DOMAIN f => e \in DbFile
      BY ONLY <1>1, <3>1
    <3>3. PICK y : y = [e EXCEPT !.bundle = b]
      OBVIOUS
    <3>4. x = y
      BY ONLY <3>1, <3>3
    <3>5. ASSUME e \in DbFile
          PROVE  /\ y \in DbFile /\ y.name = e.name /\ y.lang = e.lang
                 /\ y.bundle = b /\ y.offset = e.offset /\ y.length = e.length
      BY ONLY <3>3, <3>5, b \in Nat DEF DbFile
    <3> HIDE DEF x
    <3> QED
      BY ONLY <3>1, <3>2, <3>4, <3>5
  <2> HIDE DEF x, g
  <2> QED
    BY <2>1, <2>2, EntryReplaced
<1> HIDE DEF g
<1>3. \A k \in DOMAIN g : g[k] \in DbFile
  BY <1>2
<1>4. /\ h \in Seq(DbFile) /\ DOMAIN h = DOMAIN g
      /\ \A k \in DOMAIN g \ {id} : h[k] = g[k]
      /\ id \in DOMAIN g => /\ h[id].name = g[id].name /\ h[id].lang = g[id].lang
                            /\ h[id].bundle = g[id].bundle /\ h[id].length = g[id].length
                            /\ h[id].offset = offset
  <2> DEFINE x == [g[id] EXCEPT !.offset = offset]
  <2>1. h = [g EXCEPT ![id] = x]
    OBVIOUS
  <2>2. id \in DOMAIN g =>
          /\ x \in DbFile /\ x.name = g[id].name /\ x.lang = g[id].lang
          /\ x.bundle = g[id].bundle /\ x.length = g[id].length /\ x.offset = offset
    <3>1. PICK e : e = g[id]
      OBVIOUS
    <3>2. id \in DOMAIN g => e \in DbFile
      BY ONLY <1>3, <3>1
    <3>3. PICK y : y = [e EXCEPT !.offset = offset]
      OBVIOUS
    <3>4. x = y
      BY ONLY <3>1, <3>3
    <3>5. ASSUME e \in DbFile
          PROVE  /\ y \in DbFile /\ y.name = e.name /\ y.lang = e.lang
                 /\ y.bundle = e.bundle /\ y.offset = offset /\ y.length = e.length
      BY ONLY <3>3, <3>5, offset \in Int DEF DbFile
    <3> HIDE DEF x
    <3> QED
      BY ONLY <3>1, <3>2, <3>4, <3>5
  <2> HIDE DEF x, h
  <2> QED
    BY <1>2, <2>1, <2>2, EntryReplaced
<1>5. Place(f, id, b, offset) = h
  BY DEF Place, g
<1> HIDE DEF h
<1>6. SameNames(f, h)
  <2> SUFFICES ASSUME NEW k \in DOMAIN f
               PROVE  h[k].name = f[k].name /\ h[k].lang = f[k].lang
    BY <1>2, <1>4 DEF SameNames
  <2> QED
    BY <1>2, <1>4
<1> QED
  BY <1>2, <1>4, <1>5, <1>6

LEMMA SetLengthIs ==
  ASSUME NEW f, NEW id, NEW length, NEW p,
         f \in Seq(DbFile), id \in Int, length \in Int, p = SetLength(f, id, length)
  PROVE  /\ p \in Seq(DbFile) /\ SameNames(f, p) /\ DOMAIN p = DOMAIN f
         /\ \A k \in DOMAIN f : p[k].bundle = f[k].bundle /\ p[k].offset = f[k].offset
         /\ \A k \in DOMAIN f \ {id} : p[k].length = f[k].length
         /\ id \in DOMAIN f => p[id].length = length
<1> DEFINE g == [f EXCEPT ![id].length = length]
<1>1. \A k \in DOMAIN f : f[k] \in DbFile
  OBVIOUS
<1>2. /\ g \in Seq(DbFile) /\ DOMAIN g = DOMAIN f
      /\ \A k \in DOMAIN f \ {id} : g[k] = f[k]
      /\ id \in DOMAIN f => /\ g[id].name = f[id].name /\ g[id].lang = f[id].lang
                            /\ g[id].bundle = f[id].bundle /\ g[id].offset = f[id].offset
                            /\ g[id].length = length
  <2> DEFINE x == [f[id] EXCEPT !.length = length]
  <2>1. g = [f EXCEPT ![id] = x]
    OBVIOUS
  <2>2. id \in DOMAIN f =>
          /\ x \in DbFile /\ x.name = f[id].name /\ x.lang = f[id].lang
          /\ x.bundle = f[id].bundle /\ x.offset = f[id].offset /\ x.length = length
    <3>1. PICK e : e = f[id]
      OBVIOUS
    <3>2. id \in DOMAIN f => e \in DbFile
      BY ONLY <1>1, <3>1
    <3>3. PICK y : y = [e EXCEPT !.length = length]
      OBVIOUS
    <3>4. x = y
      BY ONLY <3>1, <3>3
    <3>5. ASSUME e \in DbFile
          PROVE  /\ y \in DbFile /\ y.name = e.name /\ y.lang = e.lang
                 /\ y.bundle = e.bundle /\ y.offset = e.offset /\ y.length = length
      BY ONLY <3>3, <3>5, length \in Int DEF DbFile
    <3> HIDE DEF x
    <3> QED
      BY ONLY <3>1, <3>2, <3>4, <3>5
  <2> HIDE DEF x, g
  <2> QED
    BY <2>1, <2>2, EntryReplaced
<1>3. SetLength(f, id, length) = g
  BY DEF SetLength
<1> HIDE DEF g
<1> QED
  BY <1>2, <1>3 DEF SameNames

Pos(b) == dbBundles[b].items

LEMMA HeaderTyped ==
  ASSUME dbBundles \in BundleLists
  PROVE  /\ Len(dbBundles) \in Nat /\ DOMAIN dbBundles = 1..Len(dbBundles)
         /\ \A b \in DOMAIN dbBundles :
              /\ b \in Nat /\ b >= 1 /\ dbBundles[b].size \in Nat
              /\ dbBundles[b].package \in BOOLEAN
              /\ Len(Pos(b)) \in Nat /\ DOMAIN Pos(b) = 1..Len(Pos(b))
              /\ \A i \in DOMAIN Pos(b) :
                   /\ Pos(b)[i].id \in Nat /\ Pos(b)[i].id >= 1
                   /\ Pos(b)[i].offset \in Nat /\ Pos(b)[i].length \in Nat
                   /\ Pos(b)[i].offset <= dbBundles[b].size
              /\ \A i, j \in DOMAIN Pos(b) : Pos(b)[i].id = Pos(b)[j].id => i = j
              /\ dbBundles[b].package => \A i, j \in DOMAIN Pos(b) :
                   i <= j => Pos(b)[i].offset <= Pos(b)[j].offset
<1>1. dbBundles \in Seq(Bundles)
  BY DieselDbAssumption
<1>2. Len(dbBundles) \in Nat /\ DOMAIN dbBundles = 1..Len(dbBundles)
  BY <1>1
<1> SUFFICES ASSUME NEW b \in DOMAIN dbBundles
             PROVE  /\ b \in Nat /\ b >= 1 /\ dbBundles[b].size \in Nat
                    /\ dbBundles[b].package \in BOOLEAN
                    /\ Len(Pos(b)) \in Nat /\ DOMAIN Pos(b) = 1..Len(Pos(b))
                    /\ \A i \in DOMAIN Pos(b) :
                         /\ Pos(b)[i].id \in Nat /\ Pos(b)[i].id >= 1
                         /\ Pos(b)[i].offset \in Nat /\ Pos(b)[i].length \in Nat
                         /\ Pos(b)[i].offset <= dbBundles[b].size
                    /\ \A i, j \in DOMAIN Pos(b) : Pos(b)[i].id = Pos(b)[j].id => i = j
                    /\ dbBundles[b].package => \A i, j \in DOMAIN Pos(b) :
                         i <= j => Pos(b)[i].offset <= Pos(b)[j].offset
  BY <1>2
<1>3. dbBundles[b] \in Bundles
  BY <1>1
<1>4. /\ dbBundles[b].size \in Nat /\ dbBundles[b].package \in BOOLEAN
      /\ Pos(b) \in Seq(Items)
  BY <1>3 DEF Bundles, Pos
<1>5. Len(Pos(b)) \in Nat /\ DOMAIN Pos(b) = 1..Len(Pos(b))
  BY <1>4
<1>6. \A i \in DOMAIN Pos(b) : Pos(b)[i] \in Items
  BY <1>4
<1>7. \A i \in DOMAIN Pos(b) :
         /\ Pos(b)[i].id \in Nat /\ Pos(b)[i].id >= 1
         /\ Pos(b)[i].offset \in Nat /\ Pos(b)[i].length \in Nat
  BY <1>6 DEF Items
<1>8. /\ \A i, j \in DOMAIN Pos(b) : Pos(b)[i].id = Pos(b)[j].id => i = j
      /\ \A i \in DOMAIN Pos(b) : Pos(b)[i].offset <= dbBundles[b].size
      /\ dbBundles[b].package => \A i, j \in DOMAIN Pos(b) :
           i <= j => Pos(b)[i].offset <= Pos(b)[j].offset
  BY DieselDbAssumption DEF Pos
<1> QED
  BY <1>2, <1>4, <1>5, <1>7, <1>8

(* The list entry i - 1 that the rule for shared offsets takes. *)
Hit(b, g, id) ==
  /\ dbBundles[b].package /\ id + 1 \in DOMAIN Pos(b)
  /\ Pos(b)[id + 1].offset = g[id].offset

(* The files g after the first i items of bundle b, if they were f.  *)
ReadTo(f, g, b, i) ==
  /\ g \in Seq(DbFile) /\ SameNames(f, g)
  /\ \A id \in DOMAIN f, k \in 1..i : Pos(b)[k].id = id =>
       /\ g[id].bundle = b /\ g[id].offset = Pos(b)[k].offset
       /\ dbBundles[b].package /\ k < Len(Pos(b)) =>
            \/ g[id].length = Pos(b)[k + 1].offset - Pos(b)[k].offset
            \/ Hit(b, g, id)
       /\ ~dbBundles[b].package => g[id].length = Pos(b)[k].length
  /\ \A id \in DOMAIN f : (\A k \in 1..i : Pos(b)[k].id # id) =>
       /\ g[id].bundle = f[id].bundle /\ g[id].offset = f[id].offset
       /\ g[id].length = f[id].length \/ Hit(b, g, id)

(* One more item, of either kind of bundle. *)
LEMMA OneMoreRead ==
  ASSUME dbBundles \in BundleLists, NEW b \in DOMAIN dbBundles, NEW f, NEW g,
         NEW i \in Nat, i + 1 \in DOMAIN Pos(b), ReadTo(f, g, b, i),
         NEW h \in Seq(DbFile), SameNames(g, h),
         NEW x, x = Pos(b)[i + 1].id,
         x \in DOMAIN f => /\ h[x].bundle = b /\ h[x].offset = Pos(b)[i + 1].offset
                           /\ dbBundles[b].package /\ i + 1 < Len(Pos(b)) =>
                                h[x].length = Pos(b)[i + 2].offset - Pos(b)[i + 1].offset
                           /\ ~dbBundles[b].package => h[x].length = Pos(b)[i + 1].length,
         \A id \in DOMAIN f \ {x} :
           /\ h[id].bundle = g[id].bundle /\ h[id].offset = g[id].offset
           /\ h[id].length = g[id].length \/ Hit(b, h, id)
  PROVE  ReadTo(f, h, b, i + 1)
<1>1. /\ DOMAIN h = DOMAIN f
      /\ \A id \in DOMAIN f : h[id].name = f[id].name /\ h[id].lang = f[id].lang
  BY DEF ReadTo, SameNames
<1>2. SameNames(f, h)
  BY <1>1 DEF SameNames
<1>3. \A id \in DOMAIN f \ {x} : Hit(b, g, id) => Hit(b, h, id)
  BY DEF Hit
<1>4. /\ DOMAIN Pos(b) = 1..Len(Pos(b)) /\ Len(Pos(b)) \in Nat
      /\ \A k, j \in DOMAIN Pos(b) : Pos(b)[k].id = Pos(b)[j].id => k = j
  BY HeaderTyped
<1>5. ASSUME NEW id \in DOMAIN f, NEW k \in 1..(i + 1), Pos(b)[k].id = id
      PROVE  /\ h[id].bundle = b /\ h[id].offset = Pos(b)[k].offset
             /\ dbBundles[b].package /\ k < Len(Pos(b)) =>
                  \/ h[id].length = Pos(b)[k + 1].offset - Pos(b)[k].offset
                  \/ Hit(b, h, id)
             /\ ~dbBundles[b].package => h[id].length = Pos(b)[k].length
  <2>1. CASE k = i + 1
    <3>1. id = x /\ (i + 1) + 1 = i + 2
      BY <1>5, <2>1
    <3> QED
      BY <2>1, <3>1
  <2>2. CASE k # i + 1
    <3>1. k \in 1..i /\ k \in DOMAIN Pos(b)
      BY <1>4, <2>2
    <3>2. id # x
      BY <1>4, <1>5, <2>2, <3>1
    <3>3. /\ g[id].bundle = b /\ g[id].offset = Pos(b)[k].offset
          /\ dbBundles[b].package /\ k < Len(Pos(b)) =>
               \/ g[id].length = Pos(b)[k + 1].offset - Pos(b)[k].offset
               \/ Hit(b, g, id)
          /\ ~dbBundles[b].package => g[id].length = Pos(b)[k].length
      BY <1>5, <3>1 DEF ReadTo
    <3>4. ~dbBundles[b].package => ~Hit(b, h, id)
      BY DEF Hit
    <3> QED
      BY <1>3, <3>2, <3>3, <3>4
  <2> QED
    BY <2>1, <2>2
<1>6. ASSUME NEW id \in DOMAIN f, \A k \in 1..(i + 1) : Pos(b)[k].id # id
      PROVE  /\ h[id].bundle = f[id].bundle /\ h[id].offset = f[id].offset
             /\ h[id].length = f[id].length \/ Hit(b, h, id)
  <2>1. /\ i + 1 \in 1..(i + 1) /\ \A k \in 1..i : k \in 1..(i + 1)
    OBVIOUS
  <2>2. id # x /\ \A k \in 1..i : Pos(b)[k].id # id
    BY <1>6, <2>1
  <2>3. /\ g[id].bundle = f[id].bundle /\ g[id].offset = f[id].offset
        /\ g[id].length = f[id].length \/ Hit(b, g, id)
    BY <2>2 DEF ReadTo
  <2> QED
    BY <1>3, <2>2, <2>3
<1> QED
  BY <1>2, <1>5, <1>6 DEF ReadTo

LEMMA SameNamesTwice ==
  ASSUME NEW f, NEW g, NEW h, SameNames(f, g), SameNames(g, h)
  PROVE  SameNames(f, h)
  BY DEF SameNames

LEMMA ItemReadStep ==
  ASSUME dbBundles \in BundleLists, NEW b \in DOMAIN dbBundles, NEW f, NEW g,
         NEW i \in Nat, i + 1 \in DOMAIN Pos(b), ReadTo(f, g, b, i),
         ~dbBundles[b].package
  PROVE  ReadTo(f, ItemRead(g, b, i + 1), b, i + 1)
<1> DEFINE e == Pos(b)[i + 1]
           x == e.id
           o == e.offset
           p == Place(g, x, b, o)
           h == SetLength(p, x, e.length)
<1>1. x \in Nat /\ b \in Nat /\ o \in Int /\ e.length \in Int
  BY HeaderTyped
<1>2. g \in Seq(DbFile) /\ DOMAIN g = DOMAIN f
  BY DEF ReadTo, SameNames
<1>3. ItemRead(g, b, i + 1) = h
  BY DEF ItemRead, Pos
<1> DEFINE l == e.length
<1>0. /\ x = Pos(b)[i + 1].id /\ o = Pos(b)[i + 1].offset /\ l = Pos(b)[i + 1].length
      /\ l \in Int /\ p = Place(g, x, b, o) /\ h = SetLength(p, x, l)
  BY <1>1
<1> HIDE DEF x, o, l, e, p, h
<1>4. /\ p \in Seq(DbFile) /\ SameNames(g, p)
      /\ \A k \in DOMAIN g \ {x} : /\ p[k].bundle = g[k].bundle
                                  /\ p[k].offset = g[k].offset /\ p[k].length = g[k].length
      /\ x \in DOMAIN g => p[x].bundle = b /\ p[x].offset = o
  <2>1. g \in Seq(DbFile) /\ p = Place(g, x, b, o)
    BY <1>0, <1>2
  <2>2. x \in Nat /\ b \in Nat /\ o \in Int
    BY <1>1
  <2> QED
    BY <2>1, <2>2, PlaceIs
<1>5. DOMAIN p = DOMAIN g
  BY <1>4 DEF SameNames
<1>6. /\ h \in Seq(DbFile) /\ SameNames(p, h)
      /\ \A k \in DOMAIN p : h[k].bundle = p[k].bundle /\ h[k].offset = p[k].offset
      /\ \A k \in DOMAIN p \ {x} : h[k].length = p[k].length
      /\ x \in DOMAIN p => h[x].length = l
  BY <1>0, <1>1, <1>4, SetLengthIs
<1>7. SameNames(g, h)
  BY <1>4, <1>6, SameNamesTwice
<1>8. x \in DOMAIN f => /\ h[x].bundle = b /\ h[x].offset = Pos(b)[i + 1].offset
                        /\ ~dbBundles[b].package => h[x].length = Pos(b)[i + 1].length
  BY <1>0, <1>2, <1>4, <1>5, <1>6
<1>9. \A id \in DOMAIN f \ {x} :
        /\ h[id].bundle = g[id].bundle /\ h[id].offset = g[id].offset
        /\ h[id].length = g[id].length \/ Hit(b, h, id)
  BY <1>2, <1>4, <1>5, <1>6
<1>10. x = Pos(b)[i + 1].id
  BY <1>0
<1> QED
  BY <1>3, <1>6, <1>7, <1>8, <1>9, <1>10, OneMoreRead

LEMMA PositionReadStep ==
  ASSUME dbBundles \in BundleLists, NEW b \in DOMAIN dbBundles, NEW f, NEW g,
         NEW i \in Nat, i + 1 \in DOMAIN Pos(b), ReadTo(f, g, b, i),
         dbBundles[b].package
  PROVE  ReadTo(f, PositionRead(g, b, i + 1), b, i + 1)
<1> DEFINE e == Pos(b)[i + 1]
           x == e.id
           o == e.offset
           p == Place(g, x, b, o)
           length == Pos(b)[(i + 1) + 1].offset - o
           c == SetLength(p, x, length)
           m == SetLength(c, (i + 1) - 1, length)
           h == PositionRead(g, b, i + 1)
<1>1. x \in Nat /\ b \in Nat /\ o \in Int
  BY HeaderTyped
<1>2. g \in Seq(DbFile) /\ DOMAIN g = DOMAIN f
  BY DEF ReadTo, SameNames
<1>3. h = IF i + 1 = Len(Pos(b)) THEN p
          ELSE IF i + 1 > 1 /\ o = c[(i + 1) - 1].offset THEN m ELSE c
  BY DEF PositionRead, Pos
<1>0. /\ x = Pos(b)[i + 1].id /\ o = Pos(b)[i + 1].offset /\ p = Place(g, x, b, o)
      /\ length = Pos(b)[(i + 1) + 1].offset - o /\ c = SetLength(p, x, length)
      /\ m = SetLength(c, (i + 1) - 1, length)
  OBVIOUS
<1> HIDE DEF x, e, o, p, h, length, c, m
<1>4. /\ p \in Seq(DbFile) /\ SameNames(g, p)
      /\ \A k \in DOMAIN g \ {x} : /\ p[k].bundle = g[k].bundle
                                  /\ p[k].offset = g[k].offset /\ p[k].length = g[k].length
      /\ x \in DOMAIN g => p[x].bundle = b /\ p[x].offset = o
  <2>1. g \in Seq(DbFile) /\ p = Place(g, x, b, o)
    BY <1>0, <1>2
  <2>2. x \in Nat /\ b \in Nat /\ o \in Int
    BY <1>1
  <2> QED
    BY <2>1, <2>2, PlaceIs
<1>5. DOMAIN p = DOMAIN g
  BY <1>4 DEF SameNames
<1>6. CASE i + 1 = Len(Pos(b))
  <2>1. h = p
    BY <1>3, <1>6
  <2>2. x \in DOMAIN f => h[x].bundle = b /\ h[x].offset = Pos(b)[i + 1].offset
    BY <1>0, <2>1, <1>2, <1>4
  <2>3. \A id \in DOMAIN f \ {x} :
          /\ h[id].bundle = g[id].bundle /\ h[id].offset = g[id].offset
          /\ h[id].length = g[id].length \/ Hit(b, h, id)
    BY <2>1, <1>2, <1>4
  <2>4. ~(i + 1 < Len(Pos(b)))
    BY <1>6
  <2>5. h \in Seq(DbFile) /\ SameNames(g, h)
    BY <2>1, <1>4
  <2>6. ReadTo(f, h, b, i + 1)
    BY <1>0, <2>2, <2>3, <2>4, <2>5, OneMoreRead
  <2> QED
    BY <2>6 DEF h
<1>7. CASE i + 1 # Len(Pos(b))
  <2>1. /\ (i + 1) + 1 \in DOMAIN Pos(b) /\ (i + 1) + 1 = i + 2 /\ (i + 1) - 1 = i
        /\ i + 1 < Len(Pos(b)) /\ i \in Int
    BY <1>7, HeaderTyped
  <2>2. length \in Int /\ length = Pos(b)[i + 2].offset - Pos(b)[i + 1].offset
    <3>1. Pos(b)[(i + 1) + 1].offset \in Int
      BY <2>1, HeaderTyped
    <3> QED
      BY <1>0, <1>1, <2>1, <3>1
  <2>3. /\ c \in Seq(DbFile) /\ SameNames(p, c)
        /\ \A k \in DOMAIN p : c[k].bundle = p[k].bundle /\ c[k].offset = p[k].offset
        /\ \A k \in DOMAIN p \ {x} : c[k].length = p[k].length
        /\ x \in DOMAIN p => c[x].length = length
    BY <1>0, <1>1, <1>4, <2>2, SetLengthIs
  <2>4. SameNames(g, c) /\ DOMAIN c = DOMAIN f
    <3>1. SameNames(g, c)
      BY <1>4, <2>3, SameNamesTwice
    <3> QED
      BY <1>2, <3>1 DEF SameNames
  <2>5. ASSUME h = c
        PROVE  ReadTo(f, h, b, i + 1)
    <3>1. x \in DOMAIN f =>
             /\ h[x].bundle = b /\ h[x].offset = Pos(b)[i + 1].offset
             /\ dbBundles[b].package /\ i + 1 < Len(Pos(b)) =>
                  h[x].length = Pos(b)[i + 2].offset - Pos(b)[i + 1].offset
      <4> SUFFICES ASSUME x \in DOMAIN f
                   PROVE  /\ h[x].bundle = b /\ h[x].offset = o
                          /\ h[x].length = length
        BY <1>0, <2>2
      <4>1. x \in DOMAIN p /\ x \in DOMAIN g
        BY <1>2, <1>5
      <4>2. h[x].bundle = b /\ h[x].offset = o /\ h[x].length = length
        BY <1>4, <2>3, <2>5, <4>1
      <4> QED
        BY <4>2
    <3>2. \A id \in DOMAIN f \ {x} :
            /\ h[id].bundle = g[id].bundle /\ h[id].offset = g[id].offset
            /\ h[id].length = g[id].length \/ Hit(b, h, id)
      BY <1>2, <1>4, <1>5, <2>3, <2>5
    <3>3. h \in Seq(DbFile) /\ SameNames(g, h)
      BY <2>3, <2>4, <2>5
    <3> QED
      BY <1>0, <3>1, <3>2, <3>3, OneMoreRead
  <2>6. ASSUME h = m, o = c[i].offset
        PROVE  ReadTo(f, h, b, i + 1)
    <3>0. (i + 1) - 1 \in Int
      BY <2>1
    <3>1. /\ m \in Seq(DbFile) /\ SameNames(c, m)
          /\ \A k \in DOMAIN c : m[k].bundle = c[k].bundle /\ m[k].offset = c[k].offset
          /\ \A k \in DOMAIN c \ {(i + 1) - 1} : m[k].length = c[k].length
          /\ (i + 1) - 1 \in DOMAIN c => m[(i + 1) - 1].length = length
      <4>1. PICK z : z = (i + 1) - 1
        OBVIOUS
      <4>2. /\ z \in Int /\ length \in Int /\ c \in Seq(DbFile)
            /\ m = SetLength(c, z, length)
        BY ONLY <1>0, <2>2, <2>3, <3>0, <4>1
      <4>3. /\ m \in Seq(DbFile) /\ SameNames(c, m)
            /\ \A k \in DOMAIN c : m[k].bundle = c[k].bundle /\ m[k].offset = c[k].offset
            /\ \A k \in DOMAIN c \ {z} : m[k].length = c[k].length
            /\ z \in DOMAIN c => m[z].length = length
        BY ONLY <4>2, SetLengthIs, SMT
      <4> QED
        BY ONLY <4>1, <4>3, Zenon
    <3>2. /\ \A k \in DOMAIN c \ {i} : m[k].length = c[k].length
          /\ i \in DOMAIN c => m[i].length = length
      BY <2>1, <3>1
    <3>3. x \in DOMAIN f =>
             /\ h[x].bundle = b /\ h[x].offset = Pos(b)[i + 1].offset
             /\ dbBundles[b].package /\ i + 1 < Len(Pos(b)) =>
                  h[x].length = Pos(b)[i + 2].offset - Pos(b)[i + 1].offset
      <4> SUFFICES ASSUME x \in DOMAIN f
                   PROVE  /\ h[x].bundle = b /\ h[x].offset = o
                          /\ h[x].length = length
        BY <1>0, <2>2
      <4>1. /\ x \in DOMAIN p /\ x \in DOMAIN c
            /\ c[x].bundle = b /\ c[x].offset = o /\ c[x].length = length
        BY <1>2, <1>4, <1>5, <2>3, <2>4
      <4> QED
        BY <2>6, <3>1, <3>2, <4>1
    <3>4. \A id \in DOMAIN f \ {x} :
            /\ h[id].bundle = g[id].bundle /\ h[id].offset = g[id].offset
            /\ h[id].length = g[id].length \/ Hit(b, h, id)
      <4> SUFFICES ASSUME NEW id \in DOMAIN f \ {x}
                   PROVE  /\ h[id].bundle = g[id].bundle /\ h[id].offset = g[id].offset
                          /\ h[id].length = g[id].length \/ Hit(b, h, id)
        OBVIOUS
      <4>1. /\ c[id].bundle = g[id].bundle /\ c[id].offset = g[id].offset
            /\ c[id].length = g[id].length /\ id \in DOMAIN c
        BY <1>2, <1>4, <1>5, <2>3, <2>4
      <4>2. h[id].bundle = g[id].bundle /\ h[id].offset = g[id].offset
        BY <2>6, <3>1, <4>1
      <4>3. CASE id = i
        <5>1. Pos(b)[id + 1].offset = h[id].offset /\ id + 1 \in DOMAIN Pos(b)
          BY <1>0, <2>6, <4>1, <4>2, <4>3
        <5> QED
          BY <4>2, <5>1 DEF Hit
      <4>4. CASE id # i
        BY <2>6, <3>2, <4>1, <4>2, <4>4
      <4> QED
        BY <4>3, <4>4
    <3>5. h \in Seq(DbFile) /\ SameNames(g, h)
      BY <2>4, <2>6, <3>1, SameNamesTwice
    <3> QED
      BY <1>0, <3>3, <3>4, <3>5, OneMoreRead
  <2>7. h = c \/ (h = m /\ o = c[i].offset)
    BY <1>3, <1>7, <2>1
  <2> QED
    BY <2>5, <2>6, <2>7 DEF h
<1> QED
  BY <1>6, <1>7 DEF h


(* Item i of bundle b, of either kind. *)
OneRead(t, b, i) ==
  IF dbBundles[b].package THEN PositionRead(t, b, i) ELSE ItemRead(t, b, i)

LEMMA OneReadTyped ==
  ASSUME dbBundles \in BundleLists, NEW b \in DOMAIN dbBundles, NEW t \in Seq(DbFile),
         NEW i \in DOMAIN Pos(b)
  PROVE  OneRead(t, b, i) \in Seq(DbFile)
<1> DEFINE x == Pos(b)[i].id
           o == Pos(b)[i].offset
           p == Place(t, x, b, o)
           l == Pos(b)[i].length
           length == Pos(b)[i + 1].offset - o
           c == SetLength(p, x, length)
<1>1. x \in Nat /\ x \in Int /\ b \in Nat /\ o \in Int /\ l \in Int /\ i \in Int /\ i - 1 \in Int
  BY HeaderTyped
<1>2. p \in Seq(DbFile)
  <2> HIDE DEF x, o
  <2> QED
    BY <1>1, PlaceIs
<1>3. CASE ~dbBundles[b].package
  <2>1. OneRead(t, b, i) = SetLength(p, x, l)
    BY <1>3 DEF OneRead, ItemRead, Pos
  <2>2. SetLength(p, x, l) \in Seq(DbFile)
    <3> HIDE DEF x, o, l, p
    <3> QED
      BY <1>1, <1>2, SetLengthIs
  <2> QED
    BY <2>1, <2>2
<1>4. CASE dbBundles[b].package
  <2>1. OneRead(t, b, i) =
          IF i = Len(Pos(b)) THEN p
          ELSE IF i > 1 /\ o = c[i - 1].offset THEN SetLength(c, i - 1, length) ELSE c
    BY <1>4 DEF OneRead, PositionRead, Pos
  <2>2. CASE i = Len(Pos(b))
    BY <1>2, <2>1, <2>2
  <2>3. CASE i # Len(Pos(b))
    <3>1. length \in Int
      <4>1. i + 1 \in DOMAIN Pos(b)
        BY <2>3, HeaderTyped
      <4> QED
        BY <4>1, HeaderTyped
    <3>2. c \in Seq(DbFile)
      <4> HIDE DEF x, o, length, p
      <4> QED
        BY <1>1, <1>2, <3>1, SetLengthIs
    <3>3. SetLength(c, i - 1, length) \in Seq(DbFile)
      <4> HIDE DEF length, c
      <4> QED
        BY <1>1, <3>1, <3>2, SetLengthIs
    <3> HIDE DEF c, length, o
    <3> QED
      BY <2>1, <2>3, <3>2, <3>3
  <2> QED
    BY <2>2, <2>3
<1> QED
  BY <1>3, <1>4

LEMMA OneReadStep ==
  ASSUME dbBundles \in BundleLists, NEW b \in DOMAIN dbBundles, NEW f, NEW g,
         NEW i \in Nat, i + 1 \in DOMAIN Pos(b), ReadTo(f, g, b, i)
  PROVE  ReadTo(f, OneRead(g, b, i + 1), b, i + 1)
<1>1. CASE dbBundles[b].package
  BY <1>1, PositionReadStep DEF OneRead
<1>2. CASE ~dbBundles[b].package
  BY <1>2, ItemReadStep DEF OneRead
<1> QED
  BY <1>1, <1>2

(* What a header makes of the files, but for the lengths of its last items. *)
LEMMA HeaderIsRead ==
  ASSUME dbBundles \in BundleLists, NEW b \in DOMAIN dbBundles, filesList \in Seq(DbFile)
  PROVE  ReadTo(filesList, HeaderRead(b, Len(Pos(b))), b, Len(Pos(b)))
<1> DEFINE N == Len(Pos(b))
           T == Seq(DbFile)
           ItemByItem(h) ==
             [i \in 0..N |-> IF i = 0 THEN filesList
                             ELSE IF dbBundles[b].package THEN PositionRead(h[i - 1], b, i)
                             ELSE ItemRead(h[i - 1], b, i)]
           next == [n \in Nat |-> [t \in T |->
                      IF n + 1 \in 1..N THEN OneRead(t, b, n + 1) ELSE t]]
           c == CHOOSE h : h = ItemByItem(h)
<1>1. N \in Nat /\ filesList \in T /\ DOMAIN Pos(b) = 1..N
  BY HeaderTyped
<1>2. next \in Steps(T)
  <2>1. ASSUME NEW n \in Nat, NEW t \in T
        PROVE  (IF n + 1 \in 1..N THEN OneRead(t, b, n + 1) ELSE t) \in T
    BY <1>1, OneReadTyped
  <2> HIDE DEF T
  <2> QED
    BY <2>1 DEF Steps
<1>3. PICK g : /\ \A n \in 0..N : g[n] \in T
               /\ g = [n \in 0..N |-> IF n = 0 THEN filesList ELSE next[n - 1][g[n - 1]]]
  <2> HIDE DEF next, T, N
  <2>1. PICK g : Unfolds(g, T, filesList, next, N)
    BY <1>1, <1>2, Unfolding
  <2> QED
    BY <2>1 DEF Unfolds
<1>4. g = ItemByItem(g)
  <2>1. ASSUME NEW n \in 0..N, n # 0
        PROVE  next[n - 1][g[n - 1]] =
                 IF dbBundles[b].package THEN PositionRead(g[n - 1], b, n)
                 ELSE ItemRead(g[n - 1], b, n)
    <3>1. n - 1 \in Nat /\ n - 1 \in 0..N /\ (n - 1) + 1 = n /\ n \in 1..N
      BY <1>1, <2>1
    <3>2. g[n - 1] \in T
      BY <1>3, <3>1
    <3> HIDE DEF T, N
    <3>3. next[n - 1][g[n - 1]] = OneRead(g[n - 1], b, n)
      BY <3>1, <3>2
    <3> QED
      BY <3>3 DEF OneRead
  <2> HIDE DEF next
  <2> QED
    BY <1>3, <2>1
<1>5. c = ItemByItem(c)
  <2> HIDE DEF ItemByItem
  <2> QED
    BY <1>4
<1>6. HeaderRead(b, N) = c[N]
  BY DEF HeaderRead
<1> HIDE DEF c
<1>7. c[0] = filesList /\ \A n \in 1..N : c[n] = OneRead(c[n - 1], b, n)
  <2>1. 0 \in 0..N /\ \A n \in 1..N : n \in 0..N /\ n # 0
    BY <1>1
  <2> QED
    BY <1>5, <2>1 DEF OneRead
<1> DEFINE Read == {n \in Nat : n \in 0..N => ReadTo(filesList, c[n], b, n)}
<1>8. \A n \in Nat : n \in Read
  <2>1. 0 \in Read
    <3>1. ReadTo(filesList, filesList, b, 0)
      BY <1>1 DEF ReadTo, SameNames
    <3> QED
      BY <1>7, <3>1
  <2>2. ASSUME NEW n \in Nat, n \in Read
        PROVE  n + 1 \in Read
    <3>1. ASSUME n + 1 \in 0..N
          PROVE  ReadTo(filesList, c[n + 1], b, n + 1)
      <4>1. n \in 0..N /\ n + 1 \in 1..N /\ (n + 1) - 1 = n
        BY <1>1, <3>1
      <4>2. ReadTo(filesList, c[n], b, n) /\ n + 1 \in DOMAIN Pos(b)
        BY <1>1, <2>2, <4>1
      <4>3. ReadTo(filesList, OneRead(c[n], b, n + 1), b, n + 1)
        BY <4>2, OneReadStep
      <4> HIDE DEF N
      <4> QED
        BY <1>7, <4>1, <4>3
    <3> QED
      BY <3>1
  <2> HIDE DEF Read
  <2> QED
    BY <2>1, <2>2, Induct
<1>9. N \in Nat /\ N \in 0..N
  BY <1>1
<1> HIDE DEF N
<1> QED
  BY <1>6, <1>8, <1>9 DEF N


LEMMA LeastIs ==
  ASSUME NEW S, S \subseteq Nat, NEW m, m \in S, \A y \in S : m <= y
  PROVE  Min(S) = m
<1> DEFINE P(x) == x \in S /\ \A y \in S : x <= y
<1>1. P(m)
  OBVIOUS
<1>2. \A x : P(x) => x = m
  <2> SUFFICES ASSUME NEW x, P(x)
               PROVE  x = m
    OBVIOUS
  <2>1. x \in Nat /\ m \in Nat /\ x <= m /\ m <= x
    OBVIOUS
  <2> QED
    BY <2>1
<1>3. Min(S) = CHOOSE x : P(x)
  BY DEF Min
<1> HIDE DEF P
<1> QED
  BY <1>1, <1>2, <1>3

(* What counts as the end of an item of a package. *)
EndsBeyond(b, i) ==
  {o \in {Pos(b)[j].offset : j \in DOMAIN Pos(b)} \cup {dbBundles[b].size} :
      o > Pos(b)[i].offset} \cup {dbBundles[b].size}

LEMMA TrueLengthIs ==
  ASSUME dbBundles \in BundleLists, NEW b \in DOMAIN dbBundles, NEW i \in DOMAIN Pos(b)
  PROVE  /\ ~dbBundles[b].package => TrueLength(b, i) = Pos(b)[i].length
         /\ dbBundles[b].package =>
              /\ TrueLength(b, i) = Min(EndsBeyond(b, i)) - Pos(b)[i].offset
              /\ Min(EndsBeyond(b, i)) \in Nat /\ Min(EndsBeyond(b, i)) <= dbBundles[b].size
              /\ i < Len(Pos(b)) /\ Pos(b)[i].offset < Pos(b)[i + 1].offset =>
                   Min(EndsBeyond(b, i)) = Pos(b)[i + 1].offset
              /\ i = Len(Pos(b)) => Min(EndsBeyond(b, i)) = dbBundles[b].size
<1>1. ~dbBundles[b].package => TrueLength(b, i) = Pos(b)[i].length
  BY DEF TrueLength, Pos
<1> SUFFICES ASSUME dbBundles[b].package
             PROVE  /\ TrueLength(b, i) = Min(EndsBeyond(b, i)) - Pos(b)[i].offset
                    /\ Min(EndsBeyond(b, i)) \in Nat /\ Min(EndsBeyond(b, i)) <= dbBundles[b].size
                    /\ i < Len(Pos(b)) /\ Pos(b)[i].offset < Pos(b)[i + 1].offset =>
                         Min(EndsBeyond(b, i)) = Pos(b)[i + 1].offset
                    /\ i = Len(Pos(b)) => Min(EndsBeyond(b, i)) = dbBundles[b].size
  BY <1>1
<1>2. TrueLength(b, i) = Min(EndsBeyond(b, i)) - Pos(b)[i].offset
  BY DEF TrueLength, EndsBeyond, Pos
<1>3. /\ dbBundles[b].size \in Nat /\ Len(Pos(b)) \in Nat /\ DOMAIN Pos(b) = 1..Len(Pos(b))
      /\ \A j \in DOMAIN Pos(b) : Pos(b)[j].offset \in Nat /\ Pos(b)[j].offset <= dbBundles[b].size
      /\ \A k, j \in DOMAIN Pos(b) : k <= j => Pos(b)[k].offset <= Pos(b)[j].offset
  BY HeaderTyped
<1>4. /\ EndsBeyond(b, i) \subseteq Nat /\ dbBundles[b].size \in EndsBeyond(b, i)
      /\ \A o \in EndsBeyond(b, i) : o <= dbBundles[b].size
      /\ \A o \in EndsBeyond(b, i) : \/ o = dbBundles[b].size
                               \/ \E j \in DOMAIN Pos(b) : o = Pos(b)[j].offset /\ o > Pos(b)[i].offset
      /\ \A j \in DOMAIN Pos(b) : Pos(b)[j].offset > Pos(b)[i].offset =>
                                    Pos(b)[j].offset \in EndsBeyond(b, i)
  BY <1>3 DEF EndsBeyond
<1>5. Min(EndsBeyond(b, i)) \in Nat /\ Min(EndsBeyond(b, i)) <= dbBundles[b].size
  <2>1. PICK m \in EndsBeyond(b, i) : \A o \in EndsBeyond(b, i) : m <= o
    BY <1>4, Smallest
  <2>2. Min(EndsBeyond(b, i)) = m
    BY <1>4, <2>1, LeastIs
  <2> QED
    BY <1>4, <2>1, <2>2
<1>6. ASSUME i < Len(Pos(b)), Pos(b)[i].offset < Pos(b)[i + 1].offset
      PROVE  Min(EndsBeyond(b, i)) = Pos(b)[i + 1].offset
  <2>1. i + 1 \in DOMAIN Pos(b) /\ Pos(b)[i + 1].offset \in EndsBeyond(b, i)
    <3>1. i + 1 \in DOMAIN Pos(b)
      BY <1>3, <1>6
    <3> QED
      BY <1>3, <1>4, <1>6, <3>1
  <2>2. ASSUME NEW o \in EndsBeyond(b, i)
        PROVE  Pos(b)[i + 1].offset <= o
    <3>1. CASE o = dbBundles[b].size
      BY <1>3, <2>1, <3>1
    <3>2. CASE \E j \in DOMAIN Pos(b) : o = Pos(b)[j].offset /\ o > Pos(b)[i].offset
      <4>1. PICK j \in DOMAIN Pos(b) : o = Pos(b)[j].offset /\ o > Pos(b)[i].offset
        BY <3>2
      <4>2. ~(j <= i)
        BY <1>3, <4>1
      <4>3. i + 1 <= j
        BY <1>3, <4>2
      <4> QED
        BY <1>3, <2>1, <4>1, <4>3
    <3> QED
      BY <1>4, <3>1, <3>2
  <2> QED
    BY <1>4, <2>1, <2>2, LeastIs
<1>7. ASSUME i = Len(Pos(b))
      PROVE  Min(EndsBeyond(b, i)) = dbBundles[b].size
  <2>1. \A j \in DOMAIN Pos(b) : ~(Pos(b)[j].offset > Pos(b)[i].offset)
    BY <1>3, <1>7
  <2>2. \A o \in EndsBeyond(b, i) : o = dbBundles[b].size
    BY <1>4, <2>1
  <2> QED
    BY <1>3, <1>4, <2>2, LeastIs
<1> QED
  BY <1>2, <1>5, <1>6, <1>7

(* The files g after the header of bundle b, if they were f. *)
HeaderLoaded(f, g, b) ==
  /\ g \in Seq(DbFile) /\ SameNames(f, g)
  /\ \A id \in DOMAIN f, k \in DOMAIN Pos(b) : Pos(b)[k].id = id =>
       /\ g[id].bundle = b /\ g[id].offset = Pos(b)[k].offset
       /\ \/ g[id].length = TrueLength(b, k)
          \/ dbBundles[b].package /\ Shares(b, k)
          \/ Hit(b, g, id)
  /\ \A id \in DOMAIN f : (\A k \in DOMAIN Pos(b) : Pos(b)[k].id # id) =>
       /\ g[id].bundle = f[id].bundle /\ g[id].offset = f[id].offset
       /\ g[id].length = f[id].length \/ Hit(b, g, id)

LEMMA BundleIsLoaded ==
  ASSUME dbBundles \in BundleLists, NEW b \in DOMAIN dbBundles, filesList \in Seq(DbFile),
         ~dbBundles[b].package
  PROVE  HeaderLoaded(filesList, loadBundleHeader(b), b)
<1> DEFINE g == loadBundleHeader(b)
<1>1. ReadTo(filesList, g, b, Len(Pos(b)))
  BY HeaderIsRead DEF loadBundleHeader, Pos
<1> HIDE DEF g
<1>2. DOMAIN Pos(b) = 1..Len(Pos(b))
  BY HeaderTyped
<1>3. \A k \in DOMAIN Pos(b) : TrueLength(b, k) = Pos(b)[k].length
  BY TrueLengthIs
<1>4. HeaderLoaded(filesList, g, b)
  BY <1>1, <1>2, <1>3 DEF ReadTo, HeaderLoaded
<1> QED
  BY <1>4 DEF g

(* The length between two neighbours is the true one, unless they coincide. *)
LEMMA GapIsLength ==
  ASSUME dbBundles \in BundleLists, NEW b \in DOMAIN dbBundles, dbBundles[b].package,
         NEW k \in DOMAIN Pos(b), k < Len(Pos(b))
  PROVE  \/ Pos(b)[k + 1].offset - Pos(b)[k].offset = TrueLength(b, k)
         \/ Shares(b, k)
<1>1. /\ k + 1 \in DOMAIN Pos(b) /\ k + 1 # k
      /\ Pos(b)[k].offset \in Nat /\ Pos(b)[k + 1].offset \in Nat
      /\ Pos(b)[k].offset <= Pos(b)[k + 1].offset
  <2>1. /\ DOMAIN Pos(b) = 1..Len(Pos(b)) /\ Len(Pos(b)) \in Nat
        /\ \A j \in DOMAIN Pos(b) : Pos(b)[j].offset \in Nat
        /\ \A i, j \in DOMAIN Pos(b) : i <= j => Pos(b)[i].offset <= Pos(b)[j].offset
    BY HeaderTyped
  <2>2. k + 1 \in DOMAIN Pos(b) /\ k + 1 # k /\ k <= k + 1
    BY <2>1
  <2> QED
    BY <2>1, <2>2
<1>2. CASE Pos(b)[k].offset = Pos(b)[k + 1].offset
  <2>1. k + 1 \in DOMAIN Pos(b) \ {k} /\ Pos(b)[k + 1].offset = Pos(b)[k].offset
    BY <1>1, <1>2
  <2> QED
    BY <2>1 DEF Shares, Pos
<1>3. CASE Pos(b)[k].offset < Pos(b)[k + 1].offset
  BY <1>3, TrueLengthIs
<1> QED
  BY <1>1, <1>2, <1>3

LEMMA PackageIsLoaded ==
  ASSUME dbBundles \in BundleLists, NEW b \in DOMAIN dbBundles, filesList \in Seq(DbFile),
         dbBundles[b].package
  PROVE  HeaderLoaded(filesList, loadPackageHeader(b), b)
<1> DEFINE f == filesList
           n == Len(Pos(b))
           r == HeaderRead(b, n)
           length == dbBundles[b].size - Pos(b)[n].offset
           last == SetLength(r, Pos(b)[n].id, length)
           both == SetLength(last, Pos(b)[n - 1].id, length)
           g == loadPackageHeader(b)
<1>1. ReadTo(f, r, b, n)
  BY HeaderIsRead
<1>2. g = IF n = 0 THEN f
          ELSE IF n > 1 /\ Pos(b)[n - 1].offset = Pos(b)[n].offset THEN both ELSE last
  BY DEF loadPackageHeader, Pos
<1>3. /\ n \in Nat /\ DOMAIN Pos(b) = 1..n /\ dbBundles[b].size \in Nat
      /\ \A k \in DOMAIN Pos(b) : Pos(b)[k].id \in Int /\ Pos(b)[k].offset \in Nat
      /\ \A k, j \in DOMAIN Pos(b) : Pos(b)[k].id = Pos(b)[j].id => k = j
  BY HeaderTyped
<1>4. /\ last = SetLength(r, Pos(b)[n].id, length)
      /\ both = SetLength(last, Pos(b)[n - 1].id, length)
      /\ length = dbBundles[b].size - Pos(b)[n].offset
  OBVIOUS
<1> HIDE DEF f, n, r, length, last, both, g
<1>5. r \in Seq(DbFile) /\ SameNames(f, r) /\ DOMAIN r = DOMAIN f
  BY <1>1 DEF ReadTo, SameNames
<1>6. CASE n = 0
  <2>1. g = f
    BY <1>2, <1>6
  <2>2. f \in Seq(DbFile) /\ SameNames(f, f)
    BY DEF f, SameNames
  <2>3. DOMAIN Pos(b) = {}
    BY <1>3, <1>6
  <2>4. HeaderLoaded(f, g, b)
    BY <2>1, <2>2, <2>3 DEF HeaderLoaded
  <2> QED
    BY <2>4 DEF g, f
<1>7. CASE n # 0
  <2>1. n \in DOMAIN Pos(b) /\ Pos(b)[n].id \in Int /\ length \in Int
    BY <1>3, <1>4, <1>7
  <2>2. /\ last \in Seq(DbFile) /\ SameNames(r, last) /\ DOMAIN last = DOMAIN r
        /\ \A k \in DOMAIN r : last[k].bundle = r[k].bundle /\ last[k].offset = r[k].offset
        /\ \A k \in DOMAIN r \ {Pos(b)[n].id} : last[k].length = r[k].length
        /\ Pos(b)[n].id \in DOMAIN r => last[Pos(b)[n].id].length = length
    BY <1>4, <1>5, <2>1, SetLengthIs
  <2>3. SameNames(f, last)
    BY <1>5, <2>2, SameNamesTwice
  (* The length of the last item, and of the one before if it shares its place. *)
  <2>4. /\ g \in Seq(DbFile) /\ SameNames(f, g)
        /\ \A id \in DOMAIN f : g[id].bundle = r[id].bundle /\ g[id].offset = r[id].offset
        /\ \A id \in DOMAIN f : id = Pos(b)[n].id => g[id].length = length
        /\ \A id \in DOMAIN f : id # Pos(b)[n].id =>
             \/ g[id].length = r[id].length
             \/ /\ n - 1 \in DOMAIN Pos(b) /\ id = Pos(b)[n - 1].id
                /\ Pos(b)[n - 1].offset = Pos(b)[n].offset
    <3>1. CASE n > 1 /\ Pos(b)[n - 1].offset = Pos(b)[n].offset
      <4>1. /\ g = both /\ n - 1 \in DOMAIN Pos(b) /\ Pos(b)[n - 1].id \in Int
            /\ Pos(b)[n - 1].id # Pos(b)[n].id
        <5>1. g = both
          BY <1>2, <1>7, <3>1
        <5>2. n - 1 \in DOMAIN Pos(b) /\ n - 1 # n
          BY <1>3, <3>1
        <5> QED
          BY <1>3, <2>1, <5>1, <5>2
      <4>2. /\ both \in Seq(DbFile) /\ SameNames(last, both) /\ DOMAIN both = DOMAIN last
            /\ \A k \in DOMAIN last : both[k].bundle = last[k].bundle /\ both[k].offset = last[k].offset
            /\ \A k \in DOMAIN last \ {Pos(b)[n - 1].id} : both[k].length = last[k].length
        BY <1>4, <2>1, <2>2, <4>1, SetLengthIs
      <4>3. SameNames(f, both)
        BY <2>3, <4>2, SameNamesTwice
      <4>4. \A id \in DOMAIN f : id \in DOMAIN last /\ id \in DOMAIN r
        BY <1>5, <2>2
      <4> QED
        BY <2>2, <3>1, <4>1, <4>2, <4>3, <4>4
    <3>2. CASE ~(n > 1 /\ Pos(b)[n - 1].offset = Pos(b)[n].offset)
      <4>1. g = last
        BY <1>2, <1>7, <3>2
      <4> QED
        BY <1>5, <2>2, <2>3, <4>1
    <3> QED
      BY <3>1, <3>2
  <2>5. ASSUME NEW id \in DOMAIN f, NEW k \in DOMAIN Pos(b), Pos(b)[k].id = id
        PROVE  /\ g[id].bundle = b /\ g[id].offset = Pos(b)[k].offset
               /\ \/ g[id].length = TrueLength(b, k)
                  \/ Shares(b, k)
                  \/ Hit(b, g, id)
    <3>1. /\ r[id].bundle = b /\ r[id].offset = Pos(b)[k].offset
          /\ k < n => \/ r[id].length = Pos(b)[k + 1].offset - Pos(b)[k].offset
                      \/ Hit(b, r, id)
      BY <1>1, <1>3, <2>5 DEF ReadTo, n
    <3>2. g[id].bundle = b /\ g[id].offset = Pos(b)[k].offset
      BY <2>4, <3>1
    <3>3. CASE k = n
      <4>1. g[id].length = length
        BY <2>4, <2>5, <3>3
      <4>2. TrueLength(b, k) = length
        BY <1>4, <3>3, TrueLengthIs DEF n
      <4> QED
        BY <3>2, <4>1, <4>2
    <3>4. CASE k # n
      <4>1. k < n /\ id # Pos(b)[n].id
        BY <1>3, <2>1, <2>5, <3>4
      <4>2. CASE g[id].length = r[id].length
        <5>1. Hit(b, r, id) => Hit(b, g, id)
          BY <3>1, <3>2 DEF Hit
        <5>2. \/ Pos(b)[k + 1].offset - Pos(b)[k].offset = TrueLength(b, k)
              \/ Shares(b, k)
          BY <4>1, GapIsLength DEF n
        <5> QED
          BY <3>1, <3>2, <4>1, <4>2, <5>1, <5>2
      <4>3. CASE /\ n - 1 \in DOMAIN Pos(b) /\ id = Pos(b)[n - 1].id
                 /\ Pos(b)[n - 1].offset = Pos(b)[n].offset
        <5>1. k = n - 1 /\ n # n - 1
          BY <1>3, <2>5, <4>3
        <5>2. n \in DOMAIN Pos(b) \ {k} /\ Pos(b)[n].offset = Pos(b)[k].offset
          BY <2>1, <4>3, <5>1
        <5>3. Shares(b, k)
          BY <5>2 DEF Shares, Pos
        <5> QED
          BY <3>2, <5>3
      <4> QED
        BY <2>4, <4>1, <4>2, <4>3
    <3> QED
      BY <3>3, <3>4
  <2>6. ASSUME NEW id \in DOMAIN f, \A k \in DOMAIN Pos(b) : Pos(b)[k].id # id
        PROVE  /\ g[id].bundle = f[id].bundle /\ g[id].offset = f[id].offset
               /\ g[id].length = f[id].length \/ Hit(b, g, id)
    <3>1. /\ r[id].bundle = f[id].bundle /\ r[id].offset = f[id].offset
          /\ r[id].length = f[id].length \/ Hit(b, r, id)
      BY <1>1, <1>3, <2>6 DEF ReadTo
    <3>2. g[id].length = r[id].length
      BY <2>1, <2>4, <2>6
    <3>3. Hit(b, r, id) => Hit(b, g, id)
      BY <2>4 DEF Hit
    <3> QED
      BY <2>4, <3>1, <3>2, <3>3
  <2>7. HeaderLoaded(f, g, b)
    BY <2>4, <2>5, <2>6 DEF HeaderLoaded
  <2> QED
    BY <2>7 DEF g, f
<1> QED
  BY <1>6, <1>7


-----------------------------------------------------------------------------
(* The invariant of the asset database. *)

ReaderAt == {"idle", "reading", "done"}
Outcomes == {"none", "missing", "error", "data", "thrown", "garbage"}
AskedNames == AssetNames \cup {NoName}

DbTyped ==
  /\ dbIndex \in Indexes /\ dbBundles \in BundleLists
  /\ dbStage \in {"closed", "index", "headers", "ready", "undefined"}
  /\ dbDone \in Nat
  /\ filesList \in Seq(DbFile) /\ fileKeys \in [AssetNames -> Seq(Nat)]
  /\ staleFiles \subseteq DOMAIN filesList
  /\ dbReader \in [at : ReaderAt, name : AskedNames, lang : Languages, file : Nat,
                   block : Nat, got : Seq(Int), outcome : Outcomes]

NoFiles == filesList = <<>> /\ \A name \in AssetNames : fileKeys[name] = <<>>

(* The first m entries of the index, and nothing else, are in the lists. *)
Recorded(m) ==
  /\ Len(filesList) >= Len(dbIndex)
  /\ \A i \in 1..m :
       /\ dbIndex[i].id \in DOMAIN filesList
       /\ filesList[dbIndex[i].id].name = dbIndex[i].name
       /\ filesList[dbIndex[i].id].lang = dbIndex[i].lang
       /\ \E k \in DOMAIN fileKeys[dbIndex[i].name] :
             fileKeys[dbIndex[i].name][k] = dbIndex[i].id
  /\ \A name \in AssetNames : \A k \in DOMAIN fileKeys[name] :
       \E i \in 1..m : dbIndex[i].id = fileKeys[name][k] /\ dbIndex[i].name = name

(* A file has its place from one of the first m bundles. *)
PlacedIn(id, m) ==
  LET b == filesList[id].bundle
  IN \/ b = NoBundle /\ filesList[id].offset = Unset
     \/ /\ b \in 1..m
        /\ \E i \in DOMAIN Pos(b) :
             /\ Pos(b)[i].id = id /\ filesList[id].offset = Pos(b)[i].offset
             /\ \/ filesList[id].length = TrueLength(b, i)
                \/ dbBundles[b].package /\ Shares(b, i)
                \/ Mistaken(id, b)
PlacedTo(m) == \A id \in DOMAIN filesList : PlacedIn(id, m)

StageInv ==
  /\ dbStage = "closed" => NoFiles /\ dbDone = 0
  /\ dbStage = "index" =>
       dbDone <= Len(dbIndex) /\ Recorded(dbDone) /\ PlacedTo(0)
  /\ dbStage = "headers" =>
       dbDone <= Len(dbBundles) /\ Recorded(Len(dbIndex)) /\ PlacedTo(dbDone)
  /\ dbStage \in {"ready", "undefined"} =>
       PlacedTo(Len(dbBundles)) /\ (NoFiles \/ Recorded(Len(dbIndex)))

(* The list only moves for an id that leaves a gap. *)
DanglingInv ==
  staleFiles # {} => \E i \in DOMAIN dbIndex : dbIndex[i].id > Len(dbIndex)

Slice(offset, n) == [k \in 1..n |-> offset + k - 1]

(* How far the chunks of a package have been read. *)
ChunksRead(file, bundle, block, got) ==
  \/ got = <<>> /\ block = file.offset \div ChunkSize
  \/ got # <<>> /\ block * ChunkSize = file.offset + Len(got)
  \/ file.offset + Len(got) = bundle.size /\ block * ChunkSize >= bundle.size
  \/ Len(got) >= file.length

ReadingInv ==
  dbReader.at = "reading" =>
    LET file == filesList[dbReader.file]
    IN /\ dbReader.file # NoFileId /\ file.bundle # NoBundle
       /\ dbReader.got = Slice(file.offset, Len(dbReader.got))
       /\ dbReader.got # <<>> => Len(dbReader.got) <= file.length
       /\ ChunksRead(file, dbBundles[file.bundle], dbReader.block, dbReader.got)

ReaderInv ==
  /\ dbReader.at = "idle" => dbReader.file = NoFileId
  /\ dbReader.at # "idle" => dbStage \in {"ready", "undefined"}
  /\ dbReader.file \in DOMAIN filesList \cup {NoFileId}
  /\ FindsAsked /\ ReadingInv /\ ReadsSlice

DbInv == DbTyped /\ StageInv /\ DanglingInv /\ ReaderInv /\ StoreInv


LEMMA IndexTyped ==
  ASSUME dbIndex \in Indexes
  PROVE  /\ Len(dbIndex) \in Nat /\ DOMAIN dbIndex = 1..Len(dbIndex)
         /\ \A i \in DOMAIN dbIndex :
              /\ dbIndex[i].id \in Nat /\ dbIndex[i].id >= 1
              /\ dbIndex[i].name \in AssetNames /\ dbIndex[i].lang \in Languages
         /\ \A i, j \in DOMAIN dbIndex : dbIndex[i].id = dbIndex[j].id => i = j
<1>1. dbIndex \in Seq(Entries)
  BY DieselDbAssumption
<1>2. Len(dbIndex) \in Nat /\ DOMAIN dbIndex = 1..Len(dbIndex)
  BY <1>1
<1>3. \A i \in DOMAIN dbIndex :
         dbIndex[i] \in Entries
  BY <1>1
<1>4. \A i \in DOMAIN dbIndex :
         /\ dbIndex[i].id \in Nat /\ dbIndex[i].id >= 1
         /\ dbIndex[i].name \in AssetNames /\ dbIndex[i].lang \in Languages
  BY <1>3 DEF Entries
<1>5. \A i, j \in DOMAIN dbIndex : dbIndex[i].id = dbIndex[j].id => i = j
  BY DieselDbAssumption
<1> QED
  BY <1>2, <1>4, <1>5

LEMMA BlankTyped ==
  /\ BlankFile \in DbFile /\ BlankFile.bundle = NoBundle /\ BlankFile.offset = Unset
  BY DieselDbAssumption DEF BlankFile, DbFile, NoBundle, Unset

LEMMA IdleReads ==
  ASSUME dbReader.at = "idle", dbReader.file = NoFileId
  PROVE  ReaderInv
  BY DEF ReaderInv, FindsAsked, ReadingInv, ReadsSlice

LEMMA SameInterval ==
  ASSUME NEW m \in Nat, NEW n \in Nat, 1..m = 1..n
  PROVE  m = n
<1>1. m # 0 => m \in 1..n
  OBVIOUS
<1>2. n # 0 => n \in 1..m
  OBVIOUS
<1> QED
  BY <1>1, <1>2

LEMMA SameLength ==
  ASSUME NEW S, NEW f, NEW g, f \in Seq(S), g \in Seq(S), DOMAIN f = DOMAIN g
  PROVE  Len(f) = Len(g)
<1>1. PICK m \in Nat : m = Len(f) /\ DOMAIN f = 1..m
  OBVIOUS
<1>2. PICK n \in Nat : n = Len(g) /\ DOMAIN g = 1..n
  OBVIOUS
<1>3. m = n
  BY <1>1, <1>2, SameInterval
<1> QED
  BY <1>1, <1>2, <1>3

Named(f, id, name, lang) == [f EXCEPT ![id].name = name, ![id].lang = lang]
LEMMA NamedIs ==
  ASSUME NEW f, NEW id, NEW name, NEW lang, NEW p,
         f \in Seq(DbFile), id \in DOMAIN f, name \in AssetNames, lang \in Languages,
         p = Named(f, id, name, lang)
  PROVE  /\ p \in Seq(DbFile) /\ DOMAIN p = DOMAIN f
         /\ \A k \in DOMAIN f : p[k].bundle = f[k].bundle /\ p[k].offset = f[k].offset
         /\ \A k \in DOMAIN f \ {id} : p[k] = f[k]
         /\ p[id].name = name /\ p[id].lang = lang
<1> DEFINE x == [f[id] EXCEPT !.name = name, !.lang = lang]
<1>1. f[id] \in DbFile /\ f \in [DOMAIN f -> DbFile]
  BY SeqDef
<1>2. /\ x \in DbFile /\ x.name = name /\ x.lang = lang
      /\ x.bundle = f[id].bundle /\ x.offset = f[id].offset
  BY <1>1 DEF DbFile
<1>3. p = [f EXCEPT ![id] = x]
  BY <1>1 DEF Named
<1> HIDE DEF x
<1>4. /\ p \in Seq(DbFile) /\ DOMAIN p = DOMAIN f
      /\ \A k \in DOMAIN f \ {id} : p[k] = f[k]
  BY <1>2, <1>3, EntryReplaced
<1>5. p[id] = x
  BY <1>1, <1>3
<1> QED
  BY <1>2, <1>4, <1>5

(* The list with room for an id. *)
Grown(f, n) == [i \in 1..n |-> IF i <= Len(f) THEN f[i] ELSE BlankFile]
LEMMA GrownIs ==
  ASSUME NEW f, NEW n, NEW g, f \in Seq(DbFile), n \in Nat, n > Len(f),
         g = Grown(f, n)
  PROVE  /\ g \in Seq(DbFile) /\ Len(g) = n
         /\ \A k \in DOMAIN f : k \in DOMAIN g /\ g[k] = f[k]
         /\ \A k \in DOMAIN g : k \notin DOMAIN f => g[k] = BlankFile
<1>1. Len(f) \in Nat /\ DOMAIN f = 1..Len(f) /\ \A k \in DOMAIN f : f[k] \in DbFile
  OBVIOUS
<1>2. \A i \in 1..n : (IF i <= Len(f) THEN f[i] ELSE BlankFile) \in DbFile
  <2>1. \A i \in 1..n : i <= Len(f) => i \in DOMAIN f
    BY <1>1
  <2> QED
    BY <1>1, <2>1, BlankTyped
<1>3. g \in Seq(DbFile) /\ Len(g) = n
  BY <1>2 DEF Grown
<1>4. \A k \in DOMAIN f : k \in 1..n /\ k <= Len(f)
  BY <1>1
<1>5. \A k \in 1..n : k \notin DOMAIN f => ~(k <= Len(f))
  BY <1>1
<1> QED
  BY <1>3, <1>4, <1>5 DEF Grown

LEMMA OpenIndexInv ==
  ASSUME DbInv, OpenIndex
  PROVE  DbInv'
<1>1. /\ dbStage = "closed" /\ filesList = <<>> /\ dbDone = 0
      /\ \A name \in AssetNames : fileKeys[name] = <<>>
  BY DEF OpenIndex, DbInv, StageInv, NoFiles
<1>2. dbReader.at = "idle" /\ dbReader.file = NoFileId
  BY <1>1 DEF DbInv, ReaderInv
<1>3. UNCHANGED <<dbIndex, dbBundles, dbDone, fileKeys, staleFiles, dbReader, dbStore>>
  BY DEF OpenIndex, installedDb
<1>4. ReaderInv' /\ StoreInv'
  <2>1. dbReader'.at = "idle" /\ dbReader'.file = NoFileId
    BY <1>2, <1>3
  <2>2. ReaderInv'
    BY <2>1 DEF ReaderInv, FindsAsked, ReadingInv, ReadsSlice
  <2> QED
    BY <1>3, <2>2 DEF DbInv, StoreInv, StoresAgree
<1>5. DanglingInv'
  BY <1>3 DEF DbInv, DanglingInv
<1>6. staleFiles = {}
  BY <1>1 DEF DbInv, DbTyped
<1>7. CASE dbStage' = "ready" /\ UNCHANGED filesList
  <2>1. DbTyped'
    BY <1>3, <1>7 DEF DbInv, DbTyped
  <2>2. NoFiles' /\ PlacedTo(Len(dbBundles))'
    BY <1>1, <1>3, <1>7 DEF NoFiles, PlacedTo
  <2>3. StageInv'
    BY <1>7, <2>2 DEF StageInv
  <2> QED
    BY <1>4, <1>5, <2>1, <2>3 DEF DbInv
<1>8. CASE /\ dbStage' = "index"
           /\ filesList' = [i \in 1..Len(dbIndex) |-> BlankFile]
  <2>1. Len(dbIndex) \in Nat
    BY IndexTyped DEF DbInv, DbTyped
  <2>2. /\ filesList' \in Seq(DbFile) /\ Len(filesList') = Len(dbIndex)
        /\ DOMAIN filesList' = 1..Len(dbIndex)
        /\ \A i \in DOMAIN filesList' : filesList'[i] = BlankFile
    BY <1>8, <2>1, BlankTyped
  <2>3. DbTyped'
    BY <1>3, <1>6, <1>8, <2>2 DEF DbInv, DbTyped
  <2>4. Recorded(0)'
    <3>1. \A name \in AssetNames : DOMAIN fileKeys'[name] = {}
      BY <1>1, <1>3
    <3>2. 1..0 = {} /\ Len(filesList') >= Len(dbIndex')
      BY <1>3, <2>1, <2>2
    <3> QED
      BY <3>1, <3>2 DEF Recorded
  <2>5. PlacedTo(0)'
    BY <2>2, BlankTyped DEF PlacedTo, PlacedIn
  <2>6. StageInv'
    BY <1>1, <1>3, <1>8, <2>1, <2>4, <2>5 DEF StageInv
  <2> QED
    BY <1>4, <1>5, <2>3, <2>6 DEF DbInv
<1> QED
  BY <1>7, <1>8 DEF OpenIndex

LEMMA ReadMiniFileInv ==
  ASSUME DbInv, ReadMiniFile
  PROVE  DbInv'
<1>0. PICK m : m = dbDone
  OBVIOUS
<1> DEFINE id == dbIndex[m + 1].id
           of == dbIndex[m + 1].name
           lang == dbIndex[m + 1].lang
           grows == id > Len(filesList)
           grown == [i \in 1..id |-> IF i <= Len(filesList) THEN filesList[i] ELSE BlankFile]
           list == IF grows THEN grown ELSE filesList
<1>1. /\ dbStage = "index" /\ m \in Nat /\ m < Len(dbIndex) /\ m + 1 \in DOMAIN dbIndex
      /\ filesList \in Seq(DbFile) /\ fileKeys \in [AssetNames -> Seq(Nat)]
      /\ Recorded(m) /\ PlacedTo(0) /\ dbIndex \in Indexes /\ Len(dbIndex) \in Nat
  <2>1. /\ dbStage = "index" /\ m \in Nat /\ m < Len(dbIndex) /\ dbIndex \in Indexes
        /\ filesList \in Seq(DbFile) /\ fileKeys \in [AssetNames -> Seq(Nat)]
        /\ Recorded(m) /\ PlacedTo(0)
    BY <1>0 DEF ReadMiniFile, DbInv, DbTyped, StageInv
  <2>2. Len(dbIndex) \in Nat /\ DOMAIN dbIndex = 1..Len(dbIndex)
    BY <2>1, IndexTyped
  <2>3. m + 1 \in DOMAIN dbIndex
    BY <2>1, <2>2
  <2> QED
    BY <2>1, <2>2, <2>3
<1>2. dbReader.at = "idle" /\ dbReader.file = NoFileId
  BY <1>1 DEF DbInv, ReaderInv
<1>3. /\ id \in Nat /\ id >= 1 /\ of \in AssetNames /\ lang \in Languages
      /\ \A i \in 1..m : i \in DOMAIN dbIndex /\ dbIndex[i].id # id
      /\ \A i \in DOMAIN dbIndex : dbIndex[i].name \in AssetNames
  <2>1. \A i \in 1..m : i \in DOMAIN dbIndex /\ i # m + 1
    BY <1>1, IndexTyped
  <2> QED
    BY <1>1, <2>1, IndexTyped
<1>4. /\ filesList' = Named(list, id, of, lang)
      /\ fileKeys' = [fileKeys EXCEPT ![of] = <<id>> \o @]
      /\ staleFiles' \in {staleFiles} \cup (IF grows THEN {Filed} ELSE {})
      /\ dbDone' = m + 1
      /\ UNCHANGED <<dbIndex, dbBundles, dbStage, dbReader, dbStore>>
  BY <1>0 DEF ReadMiniFile, installedDb, Named
<1> HIDE DEF id, of, lang
<1>5. /\ list \in Seq(DbFile) /\ id \in DOMAIN list /\ Len(list) >= Len(filesList)
      /\ Len(list) \in Nat
      /\ \A k \in DOMAIN filesList : k \in DOMAIN list /\ list[k] = filesList[k]
      /\ \A k \in DOMAIN list : k \notin DOMAIN filesList => list[k] = BlankFile
  <2>1. Len(filesList) \in Nat /\ DOMAIN filesList = 1..Len(filesList)
    BY <1>1
  <2>2. CASE grows
    <3>1. /\ grown \in Seq(DbFile) /\ Len(grown) = id
          /\ \A k \in DOMAIN filesList : k \in DOMAIN grown /\ grown[k] = filesList[k]
          /\ \A k \in DOMAIN grown : k \notin DOMAIN filesList => grown[k] = BlankFile
      <4>1. grown = Grown(filesList, id)
        BY DEF Grown
      <4> HIDE DEF grown
      <4> QED
        BY <1>1, <1>3, <2>2, <4>1, GrownIs
    <3> HIDE DEF grown
    <3>2. id \in DOMAIN grown /\ id >= Len(filesList)
      BY <1>3, <2>1, <2>2, <3>1
    <3> QED
      BY <1>3, <2>2, <3>1, <3>2
  <2>3. CASE ~grows
    <3>1. id \in DOMAIN filesList
      BY <1>3, <2>1, <2>3
    <3> QED
      BY <1>1, <2>1, <2>3, <3>1
  <2> QED
    BY <2>2, <2>3
<1> HIDE DEF list
<1>6. /\ filesList' \in Seq(DbFile) /\ DOMAIN filesList' = DOMAIN list
      /\ \A k \in DOMAIN list : /\ filesList'[k].bundle = list[k].bundle
                                /\ filesList'[k].offset = list[k].offset
      /\ \A k \in DOMAIN list \ {id} : filesList'[k] = list[k]
      /\ filesList'[id].name = of /\ filesList'[id].lang = lang
  BY <1>3, <1>4, <1>5, NamedIs
<1>7. Len(filesList') = Len(list)
  BY <1>5, <1>6, SameLength
<1>8. /\ fileKeys' \in [AssetNames -> Seq(Nat)]
      /\ \A name \in AssetNames : name # of => fileKeys'[name] = fileKeys[name]
      /\ Len(fileKeys'[of]) = Len(fileKeys[of]) + 1
      /\ fileKeys'[of][1] = id
      /\ \A k \in DOMAIN fileKeys[of] : fileKeys'[of][k + 1] = fileKeys[of][k]
  <2> DEFINE old == fileKeys[of]
             new == <<id>> \o old
  <2>1. old \in Seq(Nat) /\ Len(old) \in Nat /\ DOMAIN old = 1..Len(old)
    BY <1>1, <1>3
  <2>2. /\ new \in Seq(Nat) /\ Len(new) = Len(old) + 1 /\ new[1] = id
        /\ \A k \in DOMAIN old : new[k + 1] = old[k]
    <3>1. <<id>> \in Seq(Nat) /\ Len(<<id>>) = 1 /\ <<id>>[1] = id
      BY <1>3
    <3> DEFINE one == <<id>>
    <3> HIDE DEF one
    <3>2. /\ one \o old \in Seq(Nat) /\ Len(one \o old) = Len(one) + Len(old)
          /\ \A k \in 1..(Len(one) + Len(old)) :
               (one \o old)[k] = IF k <= Len(one) THEN one[k] ELSE old[k - Len(one)]
      BY <2>1, <3>1, ConcatProperties DEF one
    <3>3. new = one \o old /\ Len(one) = 1 /\ one[1] = id
      BY <3>1 DEF one
    <3> HIDE DEF new, old
    <3>4. new[1] = id
      <4>1. 1 \in 1..(Len(one) + Len(old)) /\ 1 <= Len(one)
        BY <2>1, <3>3
      <4> QED
        BY <3>2, <3>3, <4>1
    <3>5. ASSUME NEW k \in DOMAIN old
          PROVE  new[k + 1] = old[k]
      <4>1. k + 1 \in 1..(Len(one) + Len(old)) /\ ~(k + 1 <= Len(one)) /\ k + 1 - Len(one) = k
        BY <2>1, <3>3
      <4> QED
        BY <3>2, <3>3, <4>1
    <3>6. new \in Seq(Nat) /\ Len(new) = Len(old) + 1
      BY <2>1, <3>2, <3>3
    <3> QED
      BY <3>4, <3>5, <3>6
  <2>3. fileKeys' = [fileKeys EXCEPT ![of] = new]
    BY <1>4
  <2> HIDE DEF new
  <2> QED
    BY <1>1, <1>3, <2>2, <2>3
<1>9. \A i \in 1..m : dbIndex[i].id \in DOMAIN list /\ dbIndex[i].id \in DOMAIN filesList
  BY <1>1, <1>5 DEF Recorded
<1>10. Recorded(m + 1)'
  <2>1. Len(filesList') >= Len(dbIndex')
    <3>1. Len(filesList) >= Len(dbIndex) /\ Len(filesList) \in Nat
      BY <1>1 DEF Recorded
    <3> QED
      BY <1>1, <1>4, <1>5, <1>7, <3>1
  <2>2. ASSUME NEW i \in 1..(m + 1)
        PROVE  /\ dbIndex[i].id \in DOMAIN filesList'
               /\ filesList'[dbIndex[i].id].name = dbIndex[i].name
               /\ filesList'[dbIndex[i].id].lang = dbIndex[i].lang
               /\ \E k \in DOMAIN fileKeys'[dbIndex[i].name] :
                     fileKeys'[dbIndex[i].name][k] = dbIndex[i].id
    <3>1. CASE i = m + 1
      <4>1. dbIndex[i].id = id /\ dbIndex[i].name = of /\ dbIndex[i].lang = lang
        BY <3>1 DEF id, of, lang
      <4>2. 1 \in DOMAIN fileKeys'[of]
        <5>1. fileKeys'[of] \in Seq(Nat) /\ Len(fileKeys[of]) \in Nat
          BY <1>1, <1>3, <1>8
        <5> QED
          BY <1>8, <5>1
      <4> QED
        BY <1>5, <1>6, <1>8, <4>1, <4>2
    <3>2. CASE i # m + 1
      <4>1. i \in 1..m
        BY <1>1, <3>2
      <4>2. /\ filesList[dbIndex[i].id].name = dbIndex[i].name
            /\ filesList[dbIndex[i].id].lang = dbIndex[i].lang
            /\ dbIndex[i].id # id
            /\ dbIndex[i].name \in AssetNames
        BY <1>1, <1>3, <4>1 DEF Recorded
      <4>3. filesList'[dbIndex[i].id] = filesList[dbIndex[i].id]
        BY <1>5, <1>6, <1>9, <4>1, <4>2
      <4>4. PICK k \in DOMAIN fileKeys[dbIndex[i].name] :
              fileKeys[dbIndex[i].name][k] = dbIndex[i].id
        BY <1>1, <4>1 DEF Recorded
      <4>5. \E j \in DOMAIN fileKeys'[dbIndex[i].name] :
              fileKeys'[dbIndex[i].name][j] = dbIndex[i].id
        <5>1. CASE dbIndex[i].name = of
          <6>1. k + 1 \in DOMAIN fileKeys'[of]
            <7>1. /\ fileKeys'[of] \in Seq(Nat) /\ fileKeys[of] \in Seq(Nat)
                  /\ k \in DOMAIN fileKeys[of]
              BY <1>1, <1>3, <1>8, <4>4, <5>1
            <7>2. k \in 1..Len(fileKeys[of]) /\ Len(fileKeys[of]) \in Nat
              BY <7>1
            <7>3. k + 1 \in 1..Len(fileKeys'[of])
              BY <1>8, <7>2
            <7> QED
              BY <7>1, <7>3
          <6> QED
            BY <1>8, <4>4, <5>1, <6>1
        <5>2. CASE dbIndex[i].name # of
          BY <1>8, <4>2, <4>4, <5>2
        <5> QED
          BY <5>1, <5>2
      <4> QED
        BY <1>6, <1>9, <4>1, <4>2, <4>3, <4>5
    <3> QED
      BY <3>1, <3>2
  <2>3. ASSUME NEW name \in AssetNames, NEW k \in DOMAIN fileKeys'[name]
        PROVE  \E i \in 1..(m + 1) : dbIndex[i].id = fileKeys'[name][k] /\ dbIndex[i].name = name
    <3>0. m + 1 \in 1..(m + 1) /\ \A i \in 1..m : i \in 1..(m + 1)
      BY <1>1
    <3>1. CASE name # of
      <4>1. k \in DOMAIN fileKeys[name] /\ fileKeys'[name][k] = fileKeys[name][k]
        BY <1>8, <3>1
      <4>2. \E i \in 1..m : dbIndex[i].id = fileKeys[name][k] /\ dbIndex[i].name = name
        BY <1>1, <4>1 DEF Recorded
      <4> QED
        BY <3>0, <4>1, <4>2
    <3>2. CASE name = of
      <4>1. /\ k \in 1..(Len(fileKeys[of]) + 1) /\ Len(fileKeys[of]) \in Nat
            /\ DOMAIN fileKeys[of] = 1..Len(fileKeys[of])
        BY <1>1, <1>3, <1>8, <3>2
      <4>2. CASE k = 1
        BY <1>8, <3>0, <3>2, <4>2 DEF id, of
      <4>3. CASE k # 1
        <5>1. k - 1 \in DOMAIN fileKeys[of] /\ (k - 1) + 1 = k
          BY <4>1, <4>3
        <5>2. fileKeys'[of][k] = fileKeys[of][k - 1]
          BY <1>8, <5>1
        <5>3. \E i \in 1..m : dbIndex[i].id = fileKeys[of][k - 1] /\ dbIndex[i].name = of
          BY <1>1, <1>3, <5>1 DEF Recorded
        <5> QED
          BY <3>0, <3>2, <5>2, <5>3
      <4> QED
        BY <4>2, <4>3
    <3> QED
      BY <3>1, <3>2
  <2> QED
    <3>1. dbIndex' = dbIndex
      BY <1>4
    <3>2. /\ \A i \in 1..(m + 1) :
               /\ dbIndex'[i].id \in DOMAIN filesList'
               /\ filesList'[dbIndex'[i].id].name = dbIndex'[i].name
               /\ filesList'[dbIndex'[i].id].lang = dbIndex'[i].lang
               /\ \E k \in DOMAIN fileKeys'[dbIndex'[i].name] :
                     fileKeys'[dbIndex'[i].name][k] = dbIndex'[i].id
          /\ \A name \in AssetNames : \A k \in DOMAIN fileKeys'[name] :
               \E i \in 1..(m + 1) :
                 dbIndex'[i].id = fileKeys'[name][k] /\ dbIndex'[i].name = name
      BY ONLY <2>2, <2>3, <3>1, Zenon
    <3> QED
      BY ONLY <2>1, <3>2, Zenon DEF Recorded
<1>11. PlacedTo(0)'
  <2> SUFFICES ASSUME NEW k \in DOMAIN filesList'
               PROVE  filesList'[k].bundle = NoBundle /\ filesList'[k].offset = Unset
    BY DEF PlacedTo, PlacedIn
  <2>1. k \in DOMAIN list
    BY <1>6
  <2>2. list[k].bundle = NoBundle /\ list[k].offset = Unset
    <3>1. CASE k \in DOMAIN filesList
      <4>1. 1..0 = {}
        OBVIOUS
      <4>2. filesList[k].bundle = NoBundle /\ filesList[k].offset = Unset
        BY <1>1, <3>1, <4>1 DEF PlacedTo, PlacedIn
      <4> QED
        BY <1>5, <3>1, <4>2
    <3>2. CASE k \notin DOMAIN filesList
      BY <1>5, <2>1, <3>2, BlankTyped
    <3> QED
      BY <3>1, <3>2
  <2> QED
    BY <1>6, <2>1, <2>2
<1>12. staleFiles' \subseteq DOMAIN filesList'
  <2>1. staleFiles \subseteq DOMAIN filesList
    BY DEF DbInv, DbTyped
  <2>2. Filed \subseteq DOMAIN filesList
    <3> SUFFICES ASSUME NEW name \in AssetNames, NEW x \in ToSet(fileKeys[name])
                 PROVE  x \in DOMAIN filesList
      BY DEF Filed
    <3>1. PICK k \in DOMAIN fileKeys[name] : x = fileKeys[name][k]
      BY DEF ToSet
    <3>2. PICK i \in 1..m : dbIndex[i].id = fileKeys[name][k]
      BY <1>1 DEF Recorded
    <3> QED
      BY <1>9, <3>1, <3>2
  <2>3. DOMAIN filesList \subseteq DOMAIN filesList'
    BY <1>5, <1>6
  <2>4. staleFiles' \subseteq DOMAIN filesList
    BY <1>4, <2>1, <2>2
  <2> QED
    BY <2>3, <2>4
<1>13. DanglingInv'
  <2> SUFFICES ASSUME staleFiles' # {}
               PROVE  \E i \in DOMAIN dbIndex : dbIndex[i].id > Len(dbIndex)
    BY <1>4 DEF DanglingInv
  <2>1. CASE staleFiles' = staleFiles
    BY <2>1 DEF DbInv, DanglingInv
  <2>2. CASE grows
    <3>1. Len(filesList) >= Len(dbIndex) /\ Len(filesList) \in Nat
      BY <1>1 DEF Recorded
    <3>2. id > Len(dbIndex)
      BY <1>1, <1>3, <2>2, <3>1
    <3> QED
      BY <1>1, <3>2 DEF id
  <2> QED
    BY <1>4, <2>1, <2>2
<1>14. ReaderInv' /\ StoreInv'
  <2>1. dbReader'.at = "idle" /\ dbReader'.file = NoFileId
    BY <1>2, <1>4
  <2>2. ReaderInv'
    BY <2>1 DEF ReaderInv, FindsAsked, ReadingInv, ReadsSlice
  <2> QED
    BY <1>4, <2>2 DEF DbInv, StoreInv, StoresAgree
<1>15. m + 1 \in Nat /\ m + 1 <= Len(dbIndex)
  BY <1>1
<1>16. DbTyped'
  <2>1. dbDone' \in Nat
    BY <1>4, <1>15
  <2> QED
    BY <1>1, <1>4, <1>6, <1>8, <1>12, <2>1 DEF DbInv, DbTyped
<1>17. StageInv'
  <2>1. dbStage' = "index" /\ dbDone' = m + 1 /\ dbDone' <= Len(dbIndex')
    BY <1>1, <1>4, <1>15
  <2>2. Recorded(dbDone)'
    BY <1>4, <1>10 DEF Recorded
  <2> QED
    BY <1>11, <2>1, <2>2 DEF StageInv
<1> QED
  BY <1>13, <1>14, <1>16, <1>17 DEF DbInv


LEMMA IndexReadInv ==
  ASSUME DbInv, IndexRead
  PROVE  DbInv'
<1>1. /\ dbStage = "index" /\ Recorded(Len(dbIndex)) /\ PlacedTo(0)
  BY DEF DbInv, StageInv, IndexRead
<1>2. dbReader.at = "idle" /\ dbReader.file = NoFileId
  BY <1>1 DEF DbInv, ReaderInv
<1>3. /\ dbStage' = "headers" /\ dbDone' = 0
      /\ UNCHANGED <<dbIndex, dbBundles, filesList, fileKeys, staleFiles, dbReader, dbStore>>
  BY DEF IndexRead, installedDb
<1>4. DbTyped'
  BY <1>3 DEF DbInv, DbTyped
<1>5. Len(dbBundles) \in Nat
  BY HeaderTyped DEF DbInv, DbTyped
<1>6. StageInv'
  <2>1. Recorded(Len(dbIndex))'
    BY <1>1, <1>3 DEF Recorded
  <2>2. PlacedTo(dbDone)'
    <3>1. \A id \in DOMAIN filesList : PlacedIn(id, 0)
      BY <1>1 DEF PlacedTo
    <3>2. 1..0 = {}
      OBVIOUS
    <3>3. \A id \in DOMAIN filesList :
            filesList[id].bundle = NoBundle /\ filesList[id].offset = Unset
      BY <3>1, <3>2 DEF PlacedIn
    <3> QED
      BY <1>3, <3>3 DEF PlacedTo, PlacedIn
  <2> QED
    BY <1>3, <1>5, <2>1, <2>2 DEF StageInv
<1>7. ReaderInv' /\ StoreInv' /\ DanglingInv'
  <2>1. dbReader'.at = "idle" /\ dbReader'.file = NoFileId
    BY <1>2, <1>3
  <2>2. ReaderInv'
    BY <2>1 DEF ReaderInv, FindsAsked, ReadingInv, ReadsSlice
  <2> QED
    BY <1>3, <2>2 DEF DbInv, StoreInv, StoresAgree, DanglingInv
<1> QED
  BY <1>4, <1>6, <1>7 DEF DbInv

LEMMA LoadThrowsInv ==
  ASSUME DbInv, LoadThrows
  PROVE  DbInv'
<1>1. dbReader.at = "idle" /\ dbReader.file = NoFileId
  BY DEF LoadThrows, DbInv, ReaderInv
<1>2. /\ dbStage' = "closed" /\ dbDone' = 0 /\ filesList' = <<>> /\ staleFiles' = {}
      /\ fileKeys' = [name \in AssetNames |-> <<>>]
      /\ UNCHANGED <<dbIndex, dbBundles, dbReader, dbStore>>
  BY DEF LoadThrows, installedDb
<1>3. DbTyped'
  <2>1. <<>> \in Seq(DbFile) /\ <<>> \in Seq(Nat)
    OBVIOUS
  <2>2. fileKeys' \in [AssetNames -> Seq(Nat)]
    BY <1>2, <2>1
  <2> QED
    BY <1>2, <2>1, <2>2 DEF DbInv, DbTyped
<1>4. StageInv' /\ DanglingInv'
  BY <1>2 DEF StageInv, NoFiles, DanglingInv
<1>5. ReaderInv' /\ StoreInv'
  <2>1. dbReader'.at = "idle" /\ dbReader'.file = NoFileId
    BY <1>1, <1>2
  <2>2. ReaderInv'
    BY <2>1 DEF ReaderInv, FindsAsked, ReadingInv, ReadsSlice
  <2> QED
    BY <1>2, <2>2 DEF DbInv, StoreInv, StoresAgree
<1> QED
  BY <1>3, <1>4, <1>5 DEF DbInv

LEMMA SameBundles ==
  ASSUME dbBundles' = dbBundles, NEW b, NEW i
  PROVE  TrueLength(b, i)' = TrueLength(b, i) /\ Shares(b, i)' = Shares(b, i)
  BY DEF TrueLength, Shares

LEMMA LoadHeaderInv ==
  ASSUME DbInv, LoadHeader
  PROVE  DbInv'
<1>0. PICK b : b = dbDone + 1
  OBVIOUS
<1>1. /\ dbStage = "headers" /\ b \in DOMAIN dbBundles /\ b \in Nat /\ b <= Len(dbBundles)
      /\ Recorded(Len(dbIndex)) /\ PlacedTo(b - 1) /\ dbBundles \in BundleLists
      /\ filesList \in Seq(DbFile) /\ Len(dbBundles) \in Nat
      /\ DOMAIN dbBundles = 1..Len(dbBundles)
  <2>1. /\ dbStage = "headers" /\ dbDone \in Nat /\ dbDone < Len(dbBundles)
        /\ Recorded(Len(dbIndex)) /\ PlacedTo(dbDone) /\ dbBundles \in BundleLists
        /\ filesList \in Seq(DbFile)
    BY DEF DbInv, DbTyped, StageInv, LoadHeader
  <2>2. Len(dbBundles) \in Nat /\ DOMAIN dbBundles = 1..Len(dbBundles)
    BY <2>1, HeaderTyped
  <2>3. b \in DOMAIN dbBundles /\ b \in Nat /\ b <= Len(dbBundles) /\ b - 1 = dbDone
    BY <1>0, <2>1, <2>2
  <2> QED
    BY <2>1, <2>2, <2>3
<1>2. dbReader.at = "idle" /\ dbReader.file = NoFileId
  BY <1>1 DEF DbInv, ReaderInv
<1>3. /\ dbDone' = b
      /\ UNCHANGED <<dbIndex, dbBundles, dbStage, fileKeys, staleFiles, dbReader, dbStore>>
      /\ filesList' = IF dbBundles[b].package THEN loadPackageHeader(b) ELSE loadBundleHeader(b)
  BY <1>0 DEF LoadHeader, installedDb
<1>4. HeaderLoaded(filesList, filesList', b)
  BY <1>1, <1>3, PackageIsLoaded, BundleIsLoaded
<1>5. /\ filesList' \in Seq(DbFile) /\ DOMAIN filesList' = DOMAIN filesList
      /\ \A id \in DOMAIN filesList : /\ filesList'[id].name = filesList[id].name
                                      /\ filesList'[id].lang = filesList[id].lang
  BY <1>4 DEF HeaderLoaded, SameNames
<1>6. Len(filesList') = Len(filesList)
  BY <1>1, <1>5, SameLength
<1>7. Recorded(Len(dbIndex))'
  <2>1. /\ Len(filesList') >= Len(dbIndex')
    BY <1>1, <1>3, <1>6 DEF Recorded
  <2> QED
    BY <1>1, <1>3, <1>5, <2>1 DEF Recorded
<1>8. ASSUME NEW id \in DOMAIN filesList
      PROVE  PlacedIn(id, b)'
  <2>1. ASSUME NEW a \in 1..b, Hit(b, filesList', id)
        PROVE  Mistaken(id, a)'
    <3>1. b \in a..Len(dbBundles)
      BY <1>1
    <3> QED
      BY <1>3, <2>1, <3>1 DEF Hit, Mistaken, Pos
  <2>2. CASE \E k \in DOMAIN Pos(b) : Pos(b)[k].id = id
    <3>1. PICK k \in DOMAIN Pos(b) : Pos(b)[k].id = id
      BY <2>2
    <3>2. /\ filesList'[id].bundle = b /\ filesList'[id].offset = Pos(b)[k].offset
          /\ \/ filesList'[id].length = TrueLength(b, k)
             \/ dbBundles[b].package /\ Shares(b, k)
             \/ Hit(b, filesList', id)
      BY <1>4, <3>1 DEF HeaderLoaded
    <3>3. b \in 1..b
      BY <1>1
    <3>4. Hit(b, filesList', id) => Mistaken(id, b)'
      BY <2>1, <3>3
    <3>5. TrueLength(b, k)' = TrueLength(b, k) /\ Shares(b, k)' = Shares(b, k)
      BY <1>3, SameBundles
    <3>6. Pos(b)' = Pos(b)
      BY <1>3 DEF Pos
    <3>7. \E i \in DOMAIN Pos(b)' :
            /\ Pos(b)'[i].id = id /\ filesList'[id].offset = Pos(b)'[i].offset
            /\ \/ filesList'[id].length = TrueLength(b, i)'
               \/ dbBundles'[b].package /\ Shares(b, i)'
               \/ Mistaken(id, b)'
      BY <1>3, <3>1, <3>2, <3>4, <3>5, <3>6
    <3> QED
      BY <3>2, <3>3, <3>7 DEF PlacedIn
  <2>3. CASE \A k \in DOMAIN Pos(b) : Pos(b)[k].id # id
    <3>1. /\ filesList'[id].bundle = filesList[id].bundle
          /\ filesList'[id].offset = filesList[id].offset
          /\ filesList'[id].length = filesList[id].length \/ Hit(b, filesList', id)
      BY <1>4, <2>3 DEF HeaderLoaded
    <3>2. PICK a : a = filesList[id].bundle
      OBVIOUS
    <3>3. PlacedIn(id, b - 1)
      BY <1>1 DEF PlacedTo
    <3>4. CASE a = NoBundle /\ filesList[id].offset = Unset
      BY <3>1, <3>2, <3>4 DEF PlacedIn
    <3>5. CASE a \in 1..(b - 1) /\ \E i \in DOMAIN Pos(a) :
                 /\ Pos(a)[i].id = id /\ filesList[id].offset = Pos(a)[i].offset
                 /\ \/ filesList[id].length = TrueLength(a, i)
                    \/ dbBundles[a].package /\ Shares(a, i)
                    \/ Mistaken(id, a)
      <4>1. PICK i \in DOMAIN Pos(a) :
                 /\ Pos(a)[i].id = id /\ filesList[id].offset = Pos(a)[i].offset
                 /\ \/ filesList[id].length = TrueLength(a, i)
                    \/ dbBundles[a].package /\ Shares(a, i)
                    \/ Mistaken(id, a)
        BY <3>5
      <4>2. a \in 1..b
        BY <1>1, <3>5
      <4>3. Mistaken(id, a) => Mistaken(id, a)'
        BY <1>3, <3>1 DEF Mistaken
      <4>4. Hit(b, filesList', id) => Mistaken(id, a)'
        BY <2>1, <4>2
      <4>5. /\ TrueLength(a, i)' = TrueLength(a, i) /\ Shares(a, i)' = Shares(a, i)
            /\ Pos(a)' = Pos(a)
        BY <1>3, SameBundles DEF Pos
      <4>6. \E j \in DOMAIN Pos(a)' :
              /\ Pos(a)'[j].id = id /\ filesList'[id].offset = Pos(a)'[j].offset
              /\ \/ filesList'[id].length = TrueLength(a, j)'
                 \/ dbBundles'[a].package /\ Shares(a, j)'
                 \/ Mistaken(id, a)'
        BY <1>3, <3>1, <4>1, <4>3, <4>4, <4>5
      <4> QED
        BY <3>1, <3>2, <4>2, <4>6 DEF PlacedIn
    <3> QED
      BY <3>2, <3>3, <3>4, <3>5 DEF PlacedIn
  <2> QED
    BY <2>2, <2>3
<1>9. PlacedTo(dbDone)'
  BY <1>3, <1>5, <1>8 DEF PlacedTo
<1>10. DbTyped'
  BY <1>1, <1>3, <1>5 DEF DbInv, DbTyped
<1>11. StageInv'
  BY <1>1, <1>3, <1>7, <1>9 DEF StageInv
<1>12. ReaderInv' /\ StoreInv' /\ DanglingInv'
  <2>1. dbReader'.at = "idle" /\ dbReader'.file = NoFileId
    BY <1>2, <1>3
  <2>2. ReaderInv'
    BY <2>1 DEF ReaderInv, FindsAsked, ReadingInv, ReadsSlice
  <2> QED
    BY <1>3, <2>2 DEF DbInv, StoreInv, StoresAgree, DanglingInv
<1> QED
  BY <1>10, <1>11, <1>12 DEF DbInv

LEMMA PlacesStay ==
  ASSUME UNCHANGED <<dbBundles, filesList>>, NEW m, PlacedTo(m)
  PROVE  PlacedTo(m)'
<1> SUFFICES ASSUME NEW id \in DOMAIN filesList
             PROVE  PlacedIn(id, m)'
  BY DEF PlacedTo
<1>1. PlacedIn(id, m)
  BY DEF PlacedTo
<1>2. \A b, i : TrueLength(b, i)' = TrueLength(b, i) /\ Shares(b, i)' = Shares(b, i)
  BY SameBundles
<1>3. \A b : Mistaken(id, b)' = Mistaken(id, b)
  BY DEF Mistaken
<1> QED
  BY <1>1, <1>2, <1>3 DEF PlacedIn, Pos

LEMMA HeadersReadInv ==
  ASSUME DbInv, HeadersRead
  PROVE  DbInv'
<1>1. /\ dbStage = "headers" /\ Recorded(Len(dbIndex)) /\ PlacedTo(Len(dbBundles))
  BY DEF DbInv, StageInv, HeadersRead
<1>2. dbReader.at = "idle" /\ dbReader.file = NoFileId
  BY <1>1 DEF DbInv, ReaderInv
<1>3. /\ dbStage' = "ready"
      /\ UNCHANGED <<dbIndex, dbBundles, dbDone, filesList, fileKeys, staleFiles, dbReader, dbStore>>
  BY DEF HeadersRead, installedDb
<1>4. DbTyped'
  BY <1>3 DEF DbInv, DbTyped
<1>5. Recorded(Len(dbIndex))'
  BY <1>1, <1>3 DEF Recorded
<1>6. PlacedTo(Len(dbBundles))'
  <2>1. PICK m : m = Len(dbBundles)
    OBVIOUS
  <2>2. PlacedTo(m)'
    BY <1>1, <1>3, <2>1, PlacesStay
  <2>3. m = Len(dbBundles')
    BY <1>3, <2>1
  <2> QED
    BY <2>2, <2>3 DEF PlacedTo
<1>7. StageInv'
  BY <1>3, <1>5, <1>6 DEF StageInv
<1>8. ReaderInv' /\ StoreInv' /\ DanglingInv'
  <2>1. dbReader'.at = "idle" /\ dbReader'.file = NoFileId
    BY <1>2, <1>3
  <2>2. ReaderInv'
    BY <2>1 DEF ReaderInv, FindsAsked, ReadingInv, ReadsSlice
  <2> QED
    BY <1>3, <2>2 DEF DbInv, StoreInv, StoresAgree, DanglingInv
<1> QED
  BY <1>4, <1>7, <1>8 DEF DbInv


-----------------------------------------------------------------------------
(* Reading a file of a package. *)

LEMMA Division ==
  ASSUME NEW o \in Nat, NEW c \in Nat, c # 0
  PROVE  /\ o \div c \in Nat /\ o % c \in Nat /\ o % c < c
         /\ (o \div c) * c + (o % c) = o
<1>1. o \div c \in Nat /\ o % c \in 0..(c - 1)
  OBVIOUS
<1>2. (o \div c) * c + (o % c) = o
  OBVIOUS
<1> QED
  BY <1>1, <1>2

LEMMA NextMultiple ==
  ASSUME NEW s \in Nat, NEW c \in Nat
  PROVE  (s + 1) * c = s * c + c /\ s * c \in Nat
  OBVIOUS

LEMMA SliceIs ==
  ASSUME NEW o, NEW n, o \in Int, n \in Nat
  PROVE  /\ Slice(o, n) \in Seq(Int) /\ Len(Slice(o, n)) = n
         /\ \A k \in 1..n : Slice(o, n)[k] = o + k - 1
<1>1. \A k \in 1..n : o + k - 1 \in Int
  OBVIOUS
<1> QED
  BY <1>1 DEF Slice

(* A slice and the m bytes that follow it. *)
Follows(part, o, n, m) ==
  part \in Seq(Int) /\ Len(part) = m /\ \A k \in 1..m : part[k] = o + n + k - 1
LEMMA SlicesJoin ==
  ASSUME NEW o, NEW n, NEW m, NEW got, NEW part, NEW all, NEW l,
         o \in Int, n \in Nat, m \in Nat, got = Slice(o, n), Follows(part, o, n, m),
         all = got \o part, l = n + m
  PROVE  all = Slice(o, l)
<1>0. part \in Seq(Int) /\ Len(part) = m /\ \A k \in 1..m : part[k] = o + n + k - 1
  BY DEF Follows
<1>1. /\ got \in Seq(Int) /\ Len(got) = n /\ \A k \in 1..n : got[k] = o + k - 1
  BY SliceIs
<1>2. /\ got \o part \in Seq(Int) /\ Len(got \o part) = n + m
      /\ \A k \in 1..(n + m) : (got \o part)[k] = IF k <= n THEN got[k] ELSE part[k - n]
  <2>1. /\ got \o part \in Seq(Int) /\ Len(got \o part) = Len(got) + Len(part)
        /\ \A k \in 1..(Len(got) + Len(part)) :
             (got \o part)[k] = IF k <= Len(got) THEN got[k] ELSE part[k - Len(got)]
    BY <1>0, <1>1, ConcatProperties
  <2>2. Len(got) = n /\ Len(part) = m
    BY <1>0, <1>1
  <2> QED
    BY <2>1, <2>2
<1> DEFINE new == got \o part
<1> HIDE DEF new
<1>3. /\ new \in Seq(Int) /\ Len(new) = n + m
      /\ \A k \in 1..(n + m) : new[k] = IF k <= n THEN got[k] ELSE part[k - n]
  BY <1>2 DEF new
<1>4. new = [k \in 1..(n + m) |-> new[k]]
  BY <1>3
<1>5. \A k \in 1..(n + m) : new[k] = o + k - 1
  <2> SUFFICES ASSUME NEW k \in 1..(n + m)
               PROVE  new[k] = o + k - 1
    OBVIOUS
  <2>1. CASE k <= n
    <3>1. k \in 1..n
      BY <2>1
    <3> QED
      BY <1>1, <1>3, <2>1, <3>1
  <2>2. CASE ~(k <= n)
    <3>1. k - n \in 1..m /\ o + n + (k - n) - 1 = o + k - 1
      BY <2>2
    <3>2. part[k - n] = o + n + (k - n) - 1
      BY <1>0, <3>1
    <3> QED
      BY <1>3, <2>2, <3>1, <3>2
  <2> QED
    BY <2>1, <2>2
<1>6. new = [k \in 1..(n + m) |-> o + k - 1]
  BY <1>4, <1>5
<1> QED
  BY <1>6 DEF new, Slice

(* How much of a chunk of c bytes, from byte s, is taken for a file at o     *)
(* of which n of L bytes are read.                                           *)
LEMMA ChunkArithmetic ==
  ASSUME NEW o, NEW L, NEW size, NEW n, NEW C, NEW s, NEW from, o \in Nat, L \in Int,
         size \in Nat, n \in Nat, C \in Nat, s \in Nat, from \in Nat, o <= size, n < L, s < size, C # 0,
         s + from = o + n, n = 0 => from < C, n # 0 => from = 0,
         NEW c, c = IF C <= size - s THEN C ELSE size - s,
         NEW e, e = IF c <= from + (L - n) THEN c ELSE from + (L - n),
         NEW m, m = e - from
  PROVE  /\ c \in Nat /\ c > 0 /\ c <= C /\ s + c <= size /\ (c = C \/ s + c = size)
         /\ e \in Nat /\ e <= c /\ m \in Nat /\ n + m <= L /\ (e = c \/ n + m = L)
         /\ e = c => o + (n + m) = s + c
         /\ e = c /\ c = C => n + m # 0
<1>1. c \in Nat /\ c > 0 /\ c <= C /\ s + c <= size /\ (c = C \/ s + c = size)
  OBVIOUS
<1>2. from <= c
  <2>1. CASE n = 0
    BY <1>1, <2>1
  <2>2. CASE n # 0
    BY <1>1, <2>2
  <2> QED
    BY <2>1, <2>2
<1>3. e \in Nat /\ e <= c /\ m \in Nat /\ n + m <= L /\ (e = c \/ n + m = L)
  BY <1>1, <1>2
<1>4. e = c => o + (n + m) = s + c
  BY <1>1, <1>3
<1>5. e = c /\ c = C => n + m # 0
  BY <1>1, <1>3
<1> QED
  BY <1>1, <1>3, <1>4, <1>5

(* A file of which a chunk more is to be read, and what is taken from it. *)
MoreToRead(file, bundle, block, got) ==
  /\ file.offset \in Nat /\ file.length \in Int /\ bundle.size \in Nat
  /\ file.offset <= bundle.size /\ block \in Nat /\ got \in Seq(Int)
  /\ got = Slice(file.offset, Len(got))
  /\ ChunksRead(file, bundle, block, got)
  /\ Len(got) < file.length /\ block * ChunkSize < bundle.size
ChunkPart(file, bundle, block, got) ==
  LET chunk == Chunk(bundle, block)
      from == StartInChunk(file.offset, got)
      left == file.length - Len(got)
  IN SubSeq(chunk, from + 1, Min({Len(chunk), from + left}))

LEMMA ChunkContinues ==
  ASSUME NEW file, NEW bundle, NEW got, NEW block, NEW part,
         MoreToRead(file, bundle, block, got), part = ChunkPart(file, bundle, block, got)
  PROVE  /\ got \o part \in Seq(Int)
         /\ got \o part = Slice(file.offset, Len(got \o part))
         /\ Len(got \o part) <= file.length
         /\ ChunksRead(file, bundle, block + 1, got \o part)
<1> DEFINE from == StartInChunk(file.offset, got)
           chunk == Chunk(bundle, block)
<1> HIDE DEF from, chunk
<1>0. PICK o \in Nat, L \in Int, size \in Nat, n \in Nat, C \in Nat, s \in Nat :
        /\ o = file.offset /\ L = file.length /\ size = bundle.size /\ n = Len(got)
        /\ C = ChunkSize /\ C # 0 /\ s = block * ChunkSize
        /\ (block + 1) * ChunkSize = s + C
  <2>1. ChunkSize \in Nat /\ ChunkSize # 0
    BY DieselDbAssumption
  <2>2. block * ChunkSize \in Nat /\ (block + 1) * ChunkSize = block * ChunkSize + ChunkSize
    BY <2>1, NextMultiple DEF MoreToRead
  <2>3. Len(got) \in Nat /\ file.offset \in Nat /\ file.length \in Int /\ bundle.size \in Nat
    BY DEF MoreToRead
  <2> QED
    BY <2>1, <2>2, <2>3
<1>1. /\ o <= size /\ n < L /\ s < size /\ L \in Nat /\ (got = <<>> <=> n = 0)
  <2>1. (got = <<>>) <=> (n = 0)
    BY <1>0 DEF MoreToRead
  <2>2. o <= size /\ n < L /\ s < size
    BY <1>0 DEF MoreToRead
  <2>3. L \in Nat
    BY <2>2
  <2> QED
    BY <2>1, <2>2, <2>3
<1>2. from \in Nat /\ s + from = o + n /\ (n = 0 => from < C) /\ (n # 0 => from = 0)
  <2>1. CASE got = <<>>
    <3>1. from = o % C /\ o % C \in Nat /\ o % C < C /\ (o \div C) * C + (o % C) = o
      BY <1>0, <2>1, Division DEF StartInChunk, from
    <3>2. block = o \div C
      BY <1>0, <1>1, <2>1 DEF ChunksRead, MoreToRead
    <3>3. s + (o % C) = o
      BY <1>0, <3>1, <3>2
    <3>4. from \in Nat /\ from < C /\ s + from = o
      BY <3>1, <3>3
    <3>5. n = 0
      BY <1>1, <2>1
    <3> QED
      BY <3>4, <3>5
  <2>2. CASE got # <<>>
    <3>1. from = 0
      BY <2>2 DEF StartInChunk, from
    <3>2. s = o + n
      BY <1>0, <1>1, <2>2 DEF ChunksRead, MoreToRead
    <3>3. n # 0
      BY <1>1, <2>2
    <3> QED
      BY <3>1, <3>2, <3>3
  <2> QED
    BY <2>1, <2>2
<1> DEFINE c == IF C <= size - s THEN C ELSE size - s
           e == IF c <= from + (L - n) THEN c ELSE from + (L - n)
           m == e - from
<1>3. /\ c \in Nat /\ c > 0 /\ c <= C /\ s + c <= size /\ (c = C \/ s + c = size)
      /\ e \in Nat /\ e <= c /\ m \in Nat /\ n + m <= L /\ (e = c \/ n + m = L)
      /\ e = c => o + (n + m) = s + c
      /\ e = c /\ c = C => n + m # 0
  <2>1. C # 0
    BY <1>0
  <2>2. /\ c = IF C <= size - s THEN C ELSE size - s
        /\ e = IF c <= from + (L - n) THEN c ELSE from + (L - n)
        /\ m = e - from
    OBVIOUS
  <2> HIDE DEF c, e, m
  <2> QED
    BY <1>1, <1>2, <2>1, <2>2, ChunkArithmetic
<1> DEFINE left == L - n
<1>5. m = e - from
  OBVIOUS
<1> HIDE DEF m
<1>4. /\ chunk \in Seq(Int) /\ Len(chunk) = c
      /\ \A k \in 1..c : chunk[k] = s + k - 1
  <2>1. Min({ChunkSize, bundle.size - block * ChunkSize}) = c
    <3>1. C \in Int /\ size - s \in Int
      BY <1>0
    <3>2. Min({C, size - s}) = c
      BY <3>1, LesserOfTwo DEF c
    <3> QED
      BY <1>0, <3>2
  <2>2. chunk = [k \in 1..c |-> s + k - 1]
    BY <1>0, <2>1 DEF Chunk, chunk
  <2>3. \A k \in 1..c : s + k - 1 \in Int
    BY <1>0
  <2>4. c \in Nat
    BY <1>3
  <2> HIDE DEF chunk, c
  <2> QED
    BY ONLY <2>2, <2>3, <2>4
<1>6. Min({Len(chunk), from + (file.length - Len(got))}) = e
  <2>1. c \in Int /\ from + left \in Int
    <3>1. c \in Nat /\ from \in Nat /\ left = L - n /\ L \in Int /\ n \in Nat
      BY <1>2, <1>3
    <3> QED
      BY ONLY <3>1
  <2>2. Min({c, from + left}) = e
    BY <2>1, LesserOfTwo
  <2> QED
    BY <1>0, <1>4, <2>2
<1> HIDE DEF e, c, left
<1>8. /\ part \in Seq(Int) /\ Len(part) = m
      /\ \A k \in 1..m : part[k] = o + n + k - 1
  <2>0. from + 1 \in Int /\ e \in Int
    BY <1>2, <1>3
  <2>1. \A k \in (from + 1)..e : k \in 1..c
    BY <1>2, <1>3
  <2>2. \A k \in (from + 1)..e : chunk[k] \in Int
    BY <1>4, <2>1, <1>3
  <2>3. part = SubSeq(chunk, from + 1, e)
    BY <1>6 DEF ChunkPart, chunk, from
  <2>4. /\ part \in Seq(Int)
        /\ Len(part) = IF from + 1 <= e THEN e - (from + 1) + 1 ELSE 0
        /\ \A k \in 1..(e - (from + 1) + 1) : part[k] = chunk[(from + 1) + k - 1]
    <3> DEFINE T == Int
               a == from + 1
    <3>1. a \in Int /\ e \in Int /\ \A k \in a..e : chunk[k] \in T
      BY <2>0, <2>2
    <3> HIDE DEF T, a
    <3>2. /\ SubSeq(chunk, a, e) \in Seq(T)
          /\ Len(SubSeq(chunk, a, e)) = IF a <= e THEN e - a + 1 ELSE 0
          /\ \A k \in 1..(e - a + 1) : SubSeq(chunk, a, e)[k] = chunk[a + k - 1]
      BY <3>1, SubSeqProperties
    <3> QED
      BY <2>3, <3>2 DEF T, a
  <2>5. Len(part) = m
    BY <1>2, <1>3, <1>5, <2>4
  <2>6. ASSUME NEW k \in 1..m
        PROVE  part[k] = o + n + k - 1
    <3>0. k \in Int /\ k >= 1 /\ k <= e - from /\ from \in Nat /\ e <= c /\ e \in Nat
      BY <1>2, <1>3, <1>5
    <3>1. /\ k \in 1..(e - (from + 1) + 1) /\ (from + 1) + k - 1 \in 1..c
          /\ (from + 1) + k - 1 = from + k
      BY <1>3, <3>0
    <3>2. part[k] = chunk[from + k] /\ chunk[from + k] = s + (from + k) - 1
      BY <1>4, <2>4, <3>1
    <3>3. s + (from + k) - 1 = o + n + k - 1
      BY <1>2, <3>0
    <3> QED
      BY <3>2, <3>3
  <2> QED
    BY <2>4, <2>5, <2>6
<1>9. got \o part = Slice(o, n + m)
  <2>1. got = Slice(o, n)
    BY <1>0 DEF MoreToRead
  <2>2. m \in Nat /\ o \in Int /\ n \in Nat
    BY <1>3
  <2>3. Follows(part, o, n, m)
    BY <1>8 DEF Follows
  <2>4. PICK l : l = n + m
    OBVIOUS
  <2>5. PICK all : all = got \o part
    OBVIOUS
  <2>6. all = Slice(o, l)
    BY <2>1, <2>2, <2>3, <2>4, <2>5, SlicesJoin, Zenon
  <2> QED
    BY <2>4, <2>5, <2>6
<1>10. got \o part \in Seq(Int) /\ Len(got \o part) = n + m
  <2>1. n + m \in Nat /\ o \in Int
    BY <1>3
  <2> QED
    BY <1>9, <2>1, SliceIs
<1>11. ChunksRead(file, bundle, block + 1, got \o part)
  <2>1. CASE n + m = L
    <3>1. Len(got \o part) >= file.length
      BY <1>0, <1>10, <2>1
    <3> QED
      BY <3>1 DEF ChunksRead
  <2>2. CASE e = c
    <3>1. o + (n + m) = s + c
      BY <1>3, <2>2
    <3>2. CASE s + c = size
      <4>1. file.offset + Len(got \o part) = bundle.size
        BY <1>0, <1>10, <3>1, <3>2
      <4>2. s + C >= size
        BY <1>3, <2>2, <3>2
      <4>3. (block + 1) * ChunkSize >= bundle.size
        BY <1>0, <4>2
      <4> QED
        BY <4>1, <4>3 DEF ChunksRead
    <3>3. CASE c = C
      <4>1. n + m # 0
        BY <1>3, <2>2, <3>3
      <4>2. got \o part # <<>>
        BY <1>10, <4>1
      <4>3. (block + 1) * ChunkSize = file.offset + Len(got \o part)
        BY <1>0, <1>10, <3>1, <3>3
      <4> QED
        BY <4>2, <4>3 DEF ChunksRead
    <3> QED
      BY <1>3, <3>2, <3>3
  <2> QED
    BY <1>3, <2>1, <2>2
<1>12. Len(got \o part) <= file.length
  BY <1>0, <1>3, <1>10
<1>13. got \o part = Slice(file.offset, Len(got \o part))
  BY <1>0, <1>9, <1>10
<1> QED
  BY <1>10, <1>11, <1>12, <1>13


-----------------------------------------------------------------------------
(* What a reader is asked, and gets. *)

DbReaders == [at : ReaderAt, name : AskedNames, lang : Languages, file : Nat,
            block : Nat, got : Seq(Int), outcome : Outcomes]

LEMMA FinishedIs ==
  ASSUME dbReader \in DbReaders, NEW o, o \in Outcomes, NEW r, r = Finish(o)
  PROVE  /\ r \in DbReaders /\ r.at = "done" /\ r.outcome = o /\ r.file = dbReader.file
         /\ r.name = dbReader.name /\ r.lang = dbReader.lang /\ r.got = dbReader.got
<1>1. "done" \in ReaderAt
  BY DEF ReaderAt
<1>2. r = [dbReader EXCEPT !.at = "done", !.outcome = o]
  BY DEF Finish
<1> QED
  BY <1>1, <1>2 DEF DbReaders

(* The reader with what it has got replaced. *)
LEMMA GotIs ==
  ASSUME NEW q, NEW g, NEW r, q \in DbReaders, g \in Seq(Int), r = [q EXCEPT !.got = g]
  PROVE  /\ r \in DbReaders /\ r.at = q.at /\ r.outcome = q.outcome /\ r.file = q.file
         /\ r.name = q.name /\ r.lang = q.lang /\ r.got = g
  BY DEF DbReaders

ReadOn(q, b, g) == [q EXCEPT !.block = b, !.got = g]
LEMMA ReadOnIs ==
  ASSUME NEW q, NEW g, NEW b, NEW r, q \in DbReaders, g \in Seq(Int), b \in Nat,
         r = ReadOn(q, b, g)
  PROVE  /\ r \in DbReaders /\ r.at = q.at /\ r.outcome = q.outcome /\ r.file = q.file
         /\ r.name = q.name /\ r.lang = q.lang /\ r.got = g /\ r.block = b
  BY DEF DbReaders, ReadOn

LEMMA StartIs ==
  ASSUME NEW name, NEW lang, NEW file, NEW r, name \in AssetNames, lang \in Languages,
         file \in Nat, r \in StartRead(name, lang, file),
         file # NoFileId /\ filesList[file].bundle # NoBundle => filesList[file].offset \in Nat
  PROVE  /\ r \in DbReaders /\ r.name = name /\ r.lang = lang /\ r.file = file /\ r.got = <<>>
         /\ r.at = "done" \/ r.at = "reading"
         /\ r.at = "done" => r.outcome \in {"missing", "error"}
         /\ r.at = "reading" => /\ file # NoFileId /\ filesList[file].bundle # NoBundle
                                /\ r.block = filesList[file].offset \div ChunkSize
<1> DEFINE asked == [IdleReader EXCEPT !.name = name, !.lang = lang, !.file = file]
<1>1. /\ "done" \in ReaderAt /\ "reading" \in ReaderAt /\ "idle" \in ReaderAt
      /\ "missing" \in Outcomes /\ "error" \in Outcomes /\ "none" \in Outcomes
      /\ NoName \in AskedNames /\ 0 \in Languages /\ name \in AskedNames
  BY DieselDbAssumption DEF ReaderAt, Outcomes, AskedNames
<1>2. IdleReader \in DbReaders /\ IdleReader.got = <<>>
  <2>1. <<>> \in Seq(Int) /\ NoFileId \in Nat /\ 0 \in Nat
    BY DEF NoFileId
  <2> QED
    BY <1>1, <2>1 DEF IdleReader, DbReaders
<1>3. /\ asked \in DbReaders /\ asked.name = name /\ asked.lang = lang
      /\ asked.file = file /\ asked.got = <<>>
  BY <1>1, <1>2 DEF DbReaders
<1> DEFINE missing == [asked EXCEPT !.at = "done", !.outcome = "missing"]
           error == [asked EXCEPT !.at = "done", !.outcome = "error"]
           block == filesList[file].offset \div ChunkSize
           started == [asked EXCEPT !.at = "reading", !.block = block]
<1>4. r \in IF file = NoFileId THEN {missing}
           ELSE {error} \cup (IF filesList[file].bundle = NoBundle THEN {} ELSE {started})
  BY DEF StartRead
<1> HIDE DEF asked
<1>5. /\ missing \in DbReaders /\ missing.name = name /\ missing.lang = lang
      /\ missing.file = file /\ missing.got = <<>> /\ missing.at = "done"
      /\ missing.outcome = "missing"
  BY <1>1, <1>3 DEF DbReaders
<1>6. /\ error \in DbReaders /\ error.name = name /\ error.lang = lang
      /\ error.file = file /\ error.got = <<>> /\ error.at = "done"
      /\ error.outcome = "error"
  BY <1>1, <1>3 DEF DbReaders
<1>7. ASSUME block \in Nat
      PROVE  /\ started \in DbReaders /\ started.name = name /\ started.lang = lang
             /\ started.file = file /\ started.got = <<>> /\ started.at = "reading"
             /\ started.block = block
  <2> HIDE DEF block
  <2> QED
    BY <1>1, <1>3, <1>7 DEF DbReaders
<1>8. file # NoFileId /\ filesList[file].bundle # NoBundle => block \in Nat
  BY DieselDbAssumption, Division
<1> HIDE DEF missing, error, started, block
<1>9. CASE r = missing
  BY <1>5, <1>9
<1>10. CASE r = error
  BY <1>6, <1>10
<1>11. CASE r = started /\ file # NoFileId /\ filesList[file].bundle # NoBundle
  BY <1>7, <1>8, <1>11 DEF block
<1> QED
  BY <1>4, <1>9, <1>10, <1>11

LEMMA FirstIs ==
  ASSUME NEW S, S \subseteq Nat, S # {}
  PROVE  Min(S) \in S
<1>1. PICK m \in S : \A y \in S : m <= y
  BY Smallest
<1>2. Min(S) = m
  BY <1>1, LeastIs
<1> QED
  BY <1>2

(* Which file a search yields. *)
Yields(file, name, lang) ==
  /\ file \in DOMAIN filesList \cup {NoFileId}
  /\ file # NoFileId => filesList[file].name = name /\ filesList[file].lang = lang
  /\ file = NoFileId /\ filesList # <<>> =>
       ~\E i \in DOMAIN dbIndex : dbIndex[i].name = name /\ dbIndex[i].lang = lang

LEMMA ListedIs ==
  ASSUME DbTyped, NoFiles \/ Recorded(Len(dbIndex)), NEW name \in AssetNames,
         NEW k \in DOMAIN fileKeys[name]
  PROVE  /\ fileKeys[name][k] \in DOMAIN filesList /\ fileKeys[name][k] # NoFileId
         /\ filesList[fileKeys[name][k]].name = name
<1>1. Recorded(Len(dbIndex))
  BY DEF NoFiles
<1>2. PICK i \in 1..Len(dbIndex) : dbIndex[i].id = fileKeys[name][k] /\ dbIndex[i].name = name
  BY <1>1 DEF Recorded
<1>3. i \in DOMAIN dbIndex /\ dbIndex[i].id # NoFileId
  BY IndexTyped DEF DbTyped, NoFileId
<1> QED
  BY <1>1, <1>2, <1>3 DEF Recorded

LEMMA FoundIs ==
  ASSUME DbTyped, NoFiles \/ Recorded(Len(dbIndex)), NEW name \in AssetNames, NEW lang
  PROVE  Yields(find_file(name, lang), name, lang)
<1> DEFINE W == WithLanguage(name, lang)
<1>0. fileKeys[name] \in Seq(Nat)
  BY DEF DbTyped
<1>1. W \subseteq Nat
  BY <1>0 DEF WithLanguage
<1>2. CASE W = {}
  <2>1. find_file(name, lang) = NoFileId
    BY <1>2 DEF find_file
  <2>2. ASSUME filesList # <<>>, NEW i \in DOMAIN dbIndex, dbIndex[i].name = name,
               dbIndex[i].lang = lang
        PROVE  FALSE
    <3>1. Recorded(Len(dbIndex)) /\ i \in 1..Len(dbIndex)
      BY <2>2, IndexTyped DEF NoFiles, DbTyped
    <3>2. PICK k \in DOMAIN fileKeys[name] : fileKeys[name][k] = dbIndex[i].id
      BY <2>2, <3>1 DEF Recorded
    <3>3. filesList[fileKeys[name][k]].lang = lang
      BY <2>2, <3>1, <3>2 DEF Recorded
    <3>4. k \in W
      BY <3>3 DEF WithLanguage
    <3> QED
      BY <1>2, <3>4
  <2> QED
    BY <2>1, <2>2 DEF Yields
<1>3. CASE W # {}
  <2>1. Min(W) \in W
    BY <1>1, <1>3, FirstIs
  <2>2. PICK k \in DOMAIN fileKeys[name] :
          find_file(name, lang) = fileKeys[name][k] /\ filesList[fileKeys[name][k]].lang = lang
    BY <1>3, <2>1 DEF find_file, WithLanguage
  <2> QED
    BY <2>2, ListedIs DEF Yields
<1> QED
  BY <1>2, <1>3

LEMMA NewestIs ==
  ASSUME DbTyped, NoFiles \/ Recorded(Len(dbIndex)), NEW name \in AssetNames
  PROVE  Yields(Find(name), name,
                 IF Find(name) \in DOMAIN filesList THEN filesList[Find(name)].lang ELSE 0)
<1>0. fileKeys[name] \in Seq(Nat)
  BY DEF DbTyped
<1>1. CASE fileKeys[name] = <<>>
  <2>1. Find(name) = NoFileId /\ DOMAIN fileKeys[name] = {}
    BY <1>1 DEF Find
  <2>2. ASSUME filesList # <<>>, NEW i \in DOMAIN dbIndex, dbIndex[i].name = name
        PROVE  FALSE
    <3>1. Recorded(Len(dbIndex)) /\ i \in 1..Len(dbIndex)
      BY <2>2, IndexTyped DEF NoFiles, DbTyped
    <3>2. \E k \in DOMAIN fileKeys[name] : fileKeys[name][k] = dbIndex[i].id
      BY <2>2, <3>1 DEF Recorded
    <3> QED
      BY <2>1, <3>2
  <2> QED
    BY <2>1, <2>2 DEF Yields
<1>2. CASE fileKeys[name] # <<>>
  <2>1. 1 \in DOMAIN fileKeys[name] /\ Find(name) = fileKeys[name][1]
    BY <1>0, <1>2 DEF Find
  <2> QED
    BY <2>1, ListedIs DEF Yields
<1> QED
  BY <1>1, <1>2

(* Where a file lies that has a place. *)
LEMMA PlaceOf ==
  ASSUME NEW id, DbTyped, PlacedTo(Len(dbBundles)), id \in DOMAIN filesList,
         filesList[id].bundle # NoBundle
  PROVE  /\ filesList[id].bundle \in DOMAIN dbBundles /\ filesList[id].offset \in Nat
         /\ filesList[id].length \in Int
         /\ dbBundles[filesList[id].bundle].size \in Nat
         /\ filesList[id].offset <= dbBundles[filesList[id].bundle].size
<1>1. PICK b : b = filesList[id].bundle
  OBVIOUS
<1>2. /\ b \in 1..Len(dbBundles)
      /\ \E i \in DOMAIN Pos(b) : filesList[id].offset = Pos(b)[i].offset
  BY <1>1 DEF PlacedTo, PlacedIn
<1>3. b \in DOMAIN dbBundles
  BY <1>2, HeaderTyped DEF DbTyped
<1>4. PICK i \in DOMAIN Pos(b) : filesList[id].offset = Pos(b)[i].offset
  BY <1>2
<1>5. /\ Pos(b)[i].offset \in Nat /\ Pos(b)[i].offset <= dbBundles[b].size
      /\ dbBundles[b].size \in Nat
  BY <1>3, HeaderTyped DEF DbTyped
<1>6. filesList[id].length \in Int
  <2>1. filesList[id] \in DbFile
    BY DEF DbTyped
  <2> QED
    BY <2>1 DEF DbFile
<1> QED
  BY <1>1, <1>3, <1>4, <1>5, <1>6

(* An item of a package ends in it. *)
LEMMA ItemEnds ==
  ASSUME DbTyped, NEW b \in DOMAIN dbBundles, dbBundles[b].package,
         NEW id, NEW i \in DOMAIN Pos(b), IsItem(id, b, i)
  PROVE  filesList[id].offset + filesList[id].length <= dbBundles[b].size
<1>1. /\ TrueLength(b, i) = Min(EndsBeyond(b, i)) - Pos(b)[i].offset
      /\ Min(EndsBeyond(b, i)) \in Nat /\ Min(EndsBeyond(b, i)) <= dbBundles[b].size
  BY TrueLengthIs DEF DbTyped
<1>2. /\ Pos(b)[i].offset \in Nat /\ dbBundles[b].size \in Nat
  BY HeaderTyped DEF DbTyped
<1>3. filesList[id].offset = Pos(b)[i].offset /\ filesList[id].length = TrueLength(b, i)
  BY DEF IsItem, Pos
<1> QED
  BY <1>1, <1>2, <1>3


-----------------------------------------------------------------------------
(* The steps of the readers. *)

LEMMA ReadersAre == DbTyped => dbReader \in DbReaders
  BY DEF DbTyped, DbReaders

(* A reader changes nothing that is loaded. *)
LEMMA LoadedStays ==
  ASSUME DbInv, UNCHANGED <<dbIndex, dbBundles, dbDone, filesList, fileKeys, staleFiles>>,
         dbStage' = dbStage \/ (dbStage \in {"ready", "undefined"} /\ dbStage' = "undefined"),
         dbReader' \in DbReaders
  PROVE  DbTyped' /\ StageInv' /\ DanglingInv'
<1>1. DbTyped'
  BY DEF DbInv, DbTyped, DbReaders
<1>2. DanglingInv'
  BY DEF DbInv, DanglingInv
<1>3. \A m : PlacedTo(m) => PlacedTo(m)'
  BY PlacesStay
<1>4. \A m : Recorded(m) => Recorded(m)'
  BY DEF Recorded
<1>5. NoFiles => NoFiles'
  BY DEF NoFiles
<1>6. PICK n : n = Len(dbBundles) /\ n = Len(dbBundles')
  OBVIOUS
<1>7. PICK k : k = Len(dbIndex) /\ k = Len(dbIndex')
  OBVIOUS
<1>8. PICK d : d = dbDone /\ d = dbDone'
  OBVIOUS
<1>9. /\ PlacedTo(n)' => PlacedTo(Len(dbBundles))'
      /\ PlacedTo(d)' => PlacedTo(dbDone)'
      /\ Recorded(k)' => Recorded(Len(dbIndex))'
      /\ Recorded(d)' => Recorded(dbDone)'
  <2>1. /\ PlacedTo(n)' => PlacedTo(Len(dbBundles))'
        /\ PlacedTo(d)' => PlacedTo(dbDone)'
    BY <1>6, <1>8 DEF PlacedTo
  <2>2. /\ Recorded(k)' => Recorded(Len(dbIndex))'
        /\ Recorded(d)' => Recorded(dbDone)'
    BY <1>7, <1>8 DEF Recorded
  <2> QED
    BY <2>1, <2>2
<1>10. StageInv
  BY DEF DbInv
<1>11. CASE dbStage' = dbStage
  <2>1. dbStage' = "closed" => NoFiles' /\ dbDone' = 0
    BY <1>5, <1>10, <1>11 DEF StageInv
  <2>2. dbStage' = "index" =>
          dbDone' <= Len(dbIndex') /\ Recorded(dbDone)' /\ PlacedTo(0)'
    BY <1>3, <1>4, <1>8, <1>9, <1>10, <1>11 DEF StageInv
  <2>3. dbStage' = "headers" =>
          dbDone' <= Len(dbBundles') /\ Recorded(Len(dbIndex))' /\ PlacedTo(dbDone)'
    BY <1>3, <1>4, <1>7, <1>8, <1>9, <1>10, <1>11 DEF StageInv
  <2>4. dbStage' \in {"ready", "undefined"} =>
          PlacedTo(Len(dbBundles))' /\ (NoFiles' \/ Recorded(Len(dbIndex))')
    BY <1>3, <1>4, <1>5, <1>6, <1>7, <1>9, <1>10, <1>11 DEF StageInv
  <2>5. StageInv'
    BY <2>1, <2>2, <2>3, <2>4 DEF StageInv
  <2> QED
    BY <1>1, <1>2, <2>5
<1>12. CASE dbStage \in {"ready", "undefined"} /\ dbStage' = "undefined"
  <2>1. PlacedTo(Len(dbBundles))' /\ (NoFiles' \/ Recorded(Len(dbIndex))')
    BY <1>3, <1>4, <1>5, <1>6, <1>7, <1>9, <1>10, <1>12 DEF StageInv
  <2>2. StageInv'
    BY <1>12, <2>1 DEF StageInv
  <2> QED
    BY <1>1, <1>2, <2>2
<1> QED
  BY <1>1, <1>2, <1>11, <1>12

LEMMA AnswerInv ==
  ASSUME DbInv, Asked, NEW touched, NEW name \in AssetNames, NEW lang \in Languages,
         NEW file, Yields(file, name, lang), AnswerFrom(touched, name, lang, file)
  PROVE  DbInv'
<1>1. /\ dbStage = "ready" /\ dbReader.at = "idle" /\ dbReader.file = NoFileId
      /\ DbTyped /\ PlacedTo(Len(dbBundles))
  BY DEF Asked, DbInv, ReaderInv, StageInv
<1>2. UNCHANGED <<dbIndex, dbBundles, dbDone, filesList, fileKeys, staleFiles, dbStore>>
  BY DEF AnswerFrom, installedDb
<1>3. StoreInv'
  BY <1>2 DEF DbInv, StoreInv, StoresAgree
<1>4. file \in Nat /\ (file # NoFileId => file \in DOMAIN filesList)
  <2>1. filesList \in Seq(DbFile)
    BY <1>1 DEF DbTyped
  <2>2. file \in DOMAIN filesList => file \in Nat
    BY <2>1
  <2> QED
    BY <2>2 DEF Yields, NoFileId
<1>5. CASE dbStage' = "undefined" /\ UNCHANGED dbReader
  <2>1. dbReader' \in DbReaders
    BY <1>1, <1>5, ReadersAre
  <2>2. DbTyped' /\ StageInv' /\ DanglingInv'
    BY <1>1, <1>2, <1>5, <2>1, LoadedStays
  <2>3. ReaderInv'
    <3>1. dbReader'.at = "idle" /\ dbReader'.file = NoFileId
      BY <1>1, <1>5
    <3> QED
      BY <3>1 DEF ReaderInv, FindsAsked, ReadingInv, ReadsSlice
  <2> QED
    BY <1>3, <2>2, <2>3 DEF DbInv
<1>6. CASE dbReader' \in StartRead(name, lang, file) /\ UNCHANGED dbStage
  <2>1. file # NoFileId /\ filesList[file].bundle # NoBundle => filesList[file].offset \in Nat
    BY <1>1, <1>4, PlaceOf
  <2>2. PICK r : r = dbReader'
    OBVIOUS
  <2>3. r \in StartRead(name, lang, file)
    BY <1>6, <2>2
  <2>4. /\ r \in DbReaders /\ r.name = name /\ r.lang = lang /\ r.file = file /\ r.got = <<>>
        /\ r.at = "done" \/ r.at = "reading"
        /\ r.at = "done" => r.outcome \in {"missing", "error"}
        /\ r.at = "reading" => /\ file # NoFileId /\ filesList[file].bundle # NoBundle
                               /\ r.block = filesList[file].offset \div ChunkSize
    BY <1>4, <2>1, <2>3, StartIs
  <2>5. DbTyped' /\ StageInv' /\ DanglingInv'
    BY <1>2, <1>6, <2>2, <2>4, LoadedStays
  <2>6. FindsAsked'
    BY <1>2, <2>2, <2>4 DEF FindsAsked, Yields
  <2>7. ReadsSlice'
    BY <2>2, <2>4 DEF ReadsSlice
  <2>8. ReadingInv'
    <3> SUFFICES ASSUME r.at = "reading"
                 PROVE  /\ r.file # NoFileId /\ filesList[r.file].bundle # NoBundle
                        /\ r.got = Slice(filesList[r.file].offset, Len(r.got))
                        /\ r.got # <<>> => Len(r.got) <= filesList[r.file].length
                        /\ ChunksRead(filesList[r.file], dbBundles[filesList[r.file].bundle],
                                      r.block, r.got)
      BY <1>2, <2>2 DEF ReadingInv
    <3>1. <<>> = Slice(filesList[file].offset, 0) /\ Len(<<>>) = 0
      BY DEF Slice
    <3>2. r.got = Slice(filesList[r.file].offset, Len(r.got))
      BY <2>4, <3>1
    <3>3. ChunksRead(filesList[r.file], dbBundles[filesList[r.file].bundle], r.block, r.got)
      BY <2>4 DEF ChunksRead
    <3> QED
      BY <2>4, <3>2, <3>3
  <2>9. ReaderInv'
    <3>1. r.at # "idle" /\ dbStage' \in {"ready", "undefined"}
      BY <1>1, <1>6, <2>4
    <3>2. r.file \in DOMAIN filesList' \cup {NoFileId}
      BY <1>2, <2>4 DEF Yields
    <3> QED
      BY <2>2, <2>6, <2>7, <2>8, <3>1, <3>2 DEF ReaderInv
  <2> QED
    BY <1>3, <2>5, <2>9 DEF DbInv
<1> QED
  BY <1>5, <1>6 DEF AnswerFrom

(* What a read that has ended must satisfy. *)
LEMMA EndedInv ==
  ASSUME DbInv, dbReader.at = "reading", NEW o, o \in Outcomes,
         UNCHANGED <<dbIndex, dbBundles, dbStage, dbDone, filesList, fileKeys, staleFiles,
                     dbStore>>,
         dbReader' \in DbReaders, dbReader'.at = "done", dbReader'.outcome = o,
         dbReader'.file = dbReader.file, dbReader'.name = dbReader.name,
         dbReader'.lang = dbReader.lang,
         o = "data" =>
           dbReader'.got = Slice(filesList[dbReader.file].offset, filesList[dbReader.file].length),
         o \in {"thrown", "garbage"} =>
           ~\E i \in DOMAIN Pos(filesList[dbReader.file].bundle) :
              IsItem(dbReader.file, filesList[dbReader.file].bundle, i)
  PROVE  DbInv'
<1>1. DbTyped' /\ StageInv' /\ DanglingInv'
  BY LoadedStays
<1>2. StoreInv'
  BY DEF DbInv, StoreInv, StoresAgree
<1>3. FindsAsked'
  <2>1. FindsAsked
    BY DEF DbInv, ReaderInv
  <2> QED
    BY <2>1 DEF FindsAsked
<1>4. ReadingInv'
  BY DEF ReadingInv
<1>5. ReadsSlice'
  <2>1. \A id, b, i : IsItem(id, b, i)' = IsItem(id, b, i)
    <3>1. \A b, i : TrueLength(b, i)' = TrueLength(b, i)
      BY SameBundles
    <3> QED
      BY <3>1 DEF IsItem
  <2> DEFINE file == filesList'[dbReader'.file]
  <2>2. file = filesList[dbReader.file]
    OBVIOUS
  <2>3. CASE o = "data"
    BY <2>2, <2>3 DEF ReadsSlice, Slice
  <2>4. CASE o \in {"thrown", "garbage"}
    <3>1. PICK id, b : id = dbReader.file /\ b = filesList[id].bundle
      OBVIOUS
    <3>2. id = dbReader'.file /\ b = filesList'[dbReader'.file].bundle
      BY <3>1
    <3>3. ~\E i \in DOMAIN Pos(b) : IsItem(id, b, i)
      BY <2>4, <3>1
    <3>4. \A i : IsItem(id, b, i)' = IsItem(id, b, i)
      BY <2>1, <3>1
    <3>5. \A i : IsItem(dbReader.file, filesList[dbReader.file].bundle, i)' = IsItem(id, b, i)'
      BY ONLY <3>2 DEF IsItem, TrueLength
    <3>6. ~\E i \in DOMAIN dbBundles'[b].items :
             IsItem(dbReader.file, filesList[dbReader.file].bundle, i)'
      BY <3>3, <3>4, <3>5 DEF Pos
    <3>7. dbReader'.outcome # "data"
      BY <2>4
    <3> QED
      BY <3>2, <3>6, <3>7 DEF ReadsSlice
  <2>5. CASE o \notin {"data", "thrown", "garbage"}
    BY <2>5 DEF ReadsSlice
  <2> QED
    BY <2>3, <2>4, <2>5
<1>6. ReaderInv'
  <2>1. dbStage \in {"ready", "undefined"} /\ dbReader.file \in DOMAIN filesList \cup {NoFileId}
    BY DEF DbInv, ReaderInv
  <2> QED
    BY <1>3, <1>4, <1>5, <2>1 DEF ReaderInv
<1> QED
  BY <1>1, <1>2, <1>6 DEF DbInv


LEMMA SliceTyped ==
  ASSUME NEW o, NEW l, o \in Int, l \in Int
  PROVE  Slice(o, l) \in Seq(Int) /\ (l <= 0 => Slice(o, l) = <<>>)
<1>1. CASE l >= 0
  <2>1. Slice(o, l) \in Seq(Int) /\ Len(Slice(o, l)) = l
    BY <1>1, SliceIs
  <2> QED
    BY <1>1, <2>1
<1>2. CASE l < 0
  <2>1. 1..l = {}
    BY <1>2
  <2>2. Slice(o, l) = <<>>
    BY <2>1 DEF Slice
  <2>3. <<>> \in Seq(Int)
    OBVIOUS
  <2> QED
    BY <2>2, <2>3
<1> QED
  BY <1>1, <1>2

(* What is read of a file in a place. *)
ReadingOf(file, bundle, block, got) ==
  /\ file.offset \in Nat /\ file.length \in Int /\ bundle.size \in Nat
  /\ file.offset <= bundle.size /\ got \in Seq(Int) /\ block \in Nat
  /\ got = Slice(file.offset, Len(got))
  /\ got # <<>> => Len(got) <= file.length
  /\ ChunksRead(file, bundle, block, got)
LEMMA BeingRead ==
  ASSUME NEW id, NEW b, DbInv, dbReader.at = "reading", id = dbReader.file,
         b = filesList[id].bundle
  PROVE  /\ DbTyped /\ dbReader \in DbReaders /\ id \in DOMAIN filesList
         /\ b \in DOMAIN dbBundles
         /\ ReadingOf(filesList[id], dbBundles[b], dbReader.block, dbReader.got)
<1>1. DbTyped /\ dbReader \in DbReaders
  BY ReadersAre DEF DbInv
<1>2. PlacedTo(Len(dbBundles)) /\ ReadingInv /\ dbReader.file \in DOMAIN filesList \cup {NoFileId}
  <2>1. ReaderInv /\ StageInv
    BY DEF DbInv
  <2>2. dbStage \in {"ready", "undefined"} /\ ReadingInv
        /\ dbReader.file \in DOMAIN filesList \cup {NoFileId}
    BY <2>1 DEF ReaderInv
  <2> QED
    BY <2>1, <2>2 DEF StageInv
<1>3. /\ id \in DOMAIN filesList /\ b # NoBundle
      /\ dbReader.got = Slice(filesList[id].offset, Len(dbReader.got))
      /\ dbReader.got # <<>> => Len(dbReader.got) <= filesList[id].length
      /\ ChunksRead(filesList[id], dbBundles[b], dbReader.block, dbReader.got)
  BY <1>2 DEF ReadingInv
<1>4. dbReader.got \in Seq(Int) /\ dbReader.block \in Nat
  BY <1>1 DEF DbReaders
<1>5. filesList[id].bundle # NoBundle
  BY <1>3
<1>6. /\ filesList[id].bundle \in DOMAIN dbBundles /\ filesList[id].offset \in Nat
      /\ filesList[id].length \in Int
      /\ dbBundles[filesList[id].bundle].size \in Nat
      /\ filesList[id].offset <= dbBundles[filesList[id].bundle].size
  BY <1>1, <1>2, <1>3, <1>5, PlaceOf
<1>7. /\ b \in DOMAIN dbBundles /\ dbBundles[b].size \in Nat
      /\ filesList[id].offset <= dbBundles[b].size
  BY <1>6
<1>8. ReadingOf(filesList[id], dbBundles[b], dbReader.block, dbReader.got)
  BY <1>3, <1>4, <1>6, <1>7 DEF ReadingOf
<1> QED
  BY <1>1, <1>3, <1>7, <1>8, Zenon

LEMMA ReadBlockInv ==
  ASSUME NEW id, NEW b, DbInv, dbReader.at = "reading", id = dbReader.file,
         b = filesList[id].bundle, ~dbBundles[b].package,
         UNCHANGED <<dbIndex, dbBundles, dbDone, filesList, fileKeys, staleFiles, dbStore>>,
         ReadBlock(filesList[id], dbBundles[b])
  PROVE  DbInv'
<1>0. /\ DbTyped /\ dbReader \in DbReaders /\ b \in DOMAIN dbBundles
      /\ filesList[id].offset \in Int /\ filesList[id].length \in Int
  <2>1. /\ DbTyped /\ dbReader \in DbReaders /\ b \in DOMAIN dbBundles
        /\ filesList[id].offset \in Nat /\ filesList[id].length \in Int
    <3>1. /\ DbTyped /\ dbReader \in DbReaders /\ b \in DOMAIN dbBundles
          /\ ReadingOf(filesList[id], dbBundles[b], dbReader.block, dbReader.got)
      BY BeingRead, Zenon
    <3> QED
      BY <3>1 DEF ReadingOf
  <2> QED
    BY <2>1
<1>1. CASE /\ dbReader' = [Finish("data") EXCEPT
              !.got = [k \in 1..filesList[id].length |-> filesList[id].offset + k - 1]]
           /\ UNCHANGED dbStage
  <2>1. "data" \in Outcomes
    BY DEF Outcomes
  <2>2. PICK q : q = Finish("data")
    OBVIOUS
  <2>3. /\ q \in DbReaders /\ q.at = "done" /\ q.outcome = "data" /\ q.file = id
        /\ q.name = dbReader.name /\ q.lang = dbReader.lang
    BY <1>0, <2>1, <2>2, FinishedIs
  <2>4. PICK g : g = Slice(filesList[id].offset, filesList[id].length)
    OBVIOUS
  <2>5. g \in Seq(Int) /\ 0 \in Nat
    BY <1>0, <2>4, SliceTyped
  <2>6. dbReader' = [q EXCEPT !.got = g]
    BY <1>1, <2>2, <2>4 DEF Slice
  <2>7. /\ dbReader' \in DbReaders /\ dbReader'.at = "done" /\ dbReader'.outcome = "data"
        /\ dbReader'.file = id /\ dbReader'.name = dbReader.name
        /\ dbReader'.lang = dbReader.lang /\ dbReader'.got = g
    BY <2>3, <2>5, <2>6, GotIs
  <2>8. "data" \notin {"thrown", "garbage"}
    OBVIOUS
  <2> QED
    BY <1>1, <2>1, <2>4, <2>7, <2>8, EndedInv
<1>2. CASE /\ ~IsBlock(filesList[id], dbBundles[b]) /\ UNCHANGED dbStage
           /\ dbReader' \in {Finish("thrown"), Finish("garbage")}
  <2>1. PICK o \in {"thrown", "garbage"} : dbReader' = Finish(o)
    BY <1>2
  <2>2. o \in Outcomes /\ o # "data"
    BY DEF Outcomes
  <2>3. PICK q : q = Finish(o)
    OBVIOUS
  <2>4. /\ q \in DbReaders /\ q.at = "done" /\ q.outcome = o /\ q.file = id
        /\ q.name = dbReader.name /\ q.lang = dbReader.lang
    BY <1>0, <2>2, <2>3, FinishedIs
  <2>5. ASSUME NEW i \in DOMAIN Pos(b), IsItem(id, b, i)
        PROVE  FALSE
    <3>1. /\ filesList[id].offset = Pos(b)[i].offset
          /\ filesList[id].length = TrueLength(b, i)
      BY <2>5 DEF IsItem, Pos
    <3>2. TrueLength(b, i) = Pos(b)[i].length
      BY <1>0, TrueLengthIs DEF DbTyped
    <3>3. IsBlock(filesList[id], dbBundles[b])
      BY <3>1, <3>2 DEF IsBlock, Pos
    <3> QED
      BY <1>2, <3>3
  <2> QED
    BY <1>2, <2>1, <2>2, <2>3, <2>4, <2>5, EndedInv
<1>3. CASE dbStage' = "undefined" /\ UNCHANGED dbReader
  <2>1. dbStage \in {"ready", "undefined"}
    BY DEF DbInv, ReaderInv
  <2>2. DbTyped' /\ StageInv' /\ DanglingInv'
    BY <1>0, <1>3, <2>1, LoadedStays
  <2>3. ReaderInv /\ StoreInv
    BY DEF DbInv
  <2>4. ReaderInv'
    <3>1. FindsAsked'
      BY <1>3, <2>3 DEF ReaderInv, FindsAsked
    <3>2. ReadingInv'
      BY <1>3, <2>3 DEF ReaderInv, ReadingInv
    <3>3. ReadsSlice'
      <4>1. dbReader'.at # "done"
        BY <1>3
      <4> QED
        BY <4>1 DEF ReadsSlice
    <3> QED
      BY <1>3, <2>3, <3>1, <3>2, <3>3 DEF ReaderInv
  <2>5. StoreInv'
    BY <2>3 DEF StoreInv, StoresAgree
  <2> QED
    BY <2>2, <2>4, <2>5 DEF DbInv
<1> QED
  BY <1>1, <1>2, <1>3 DEF ReadBlock

LEMMA ReadChunkInv ==
  ASSUME NEW id, NEW b, DbInv, dbReader.at = "reading", id = dbReader.file,
         b = filesList[id].bundle, dbBundles[b].package,
         UNCHANGED <<dbIndex, dbBundles, dbDone, filesList, fileKeys, staleFiles, dbStore>>,
         ReadChunk(filesList[id], dbBundles[b])
  PROVE  DbInv'
<1>0. PICK n, l, o, got : /\ n = Len(got) /\ l = filesList[id].length
                          /\ o = filesList[id].offset /\ got = dbReader.got
  OBVIOUS
<1>1. /\ DbTyped /\ dbReader \in DbReaders /\ id \in DOMAIN filesList
      /\ b \in DOMAIN dbBundles /\ o \in Nat /\ l \in Int /\ dbBundles[b].size \in Nat
      /\ o <= dbBundles[b].size /\ got \in Seq(Int) /\ dbReader.block \in Nat
      /\ got = Slice(o, n) /\ (got # <<>> => n <= l)
      /\ ChunksRead(filesList[id], dbBundles[b], dbReader.block, got)
  <2>1. /\ DbTyped /\ dbReader \in DbReaders /\ id \in DOMAIN filesList
        /\ b \in DOMAIN dbBundles
        /\ ReadingOf(filesList[id], dbBundles[b], dbReader.block, dbReader.got)
    BY BeingRead, Zenon
  <2> QED
    BY <1>0, <2>1 DEF ReadingOf
<1>2. n \in Nat /\ (n = 0 <=> got = <<>>)
  BY <1>0, <1>1
<1>3. dbStage' = dbStage
  BY DEF ReadChunk
<1>4. CASE l - n <= 0 /\ dbReader' = Finish("data")
  <2>1. Slice(o, l) = got
    <3>1. CASE got = <<>>
      <4>1. l <= 0 /\ o \in Int
        BY <1>1, <1>2, <1>4, <3>1
      <4> QED
        BY <1>1, <3>1, <4>1, SliceTyped
    <3>2. CASE got # <<>>
      <4>1. l = n
        BY <1>1, <1>2, <1>4, <3>2
      <4> QED
        BY <1>1, <4>1
    <3> QED
      BY <3>1, <3>2
  <2>2. "data" \in Outcomes /\ "data" \notin {"thrown", "garbage"}
    BY DEF Outcomes
  <2>3. PICK q : q = Finish("data")
    OBVIOUS
  <2>4. /\ q \in DbReaders /\ q.at = "done" /\ q.outcome = "data" /\ q.file = id
        /\ q.name = dbReader.name /\ q.lang = dbReader.lang /\ q.got = got
    BY <1>0, <1>1, <2>2, <2>3, FinishedIs
  <2> QED
    BY <1>0, <1>3, <1>4, <2>1, <2>2, <2>3, <2>4, EndedInv
<1>5. CASE /\ ~(l - n <= 0) /\ dbReader.block * ChunkSize >= dbBundles[b].size
           /\ dbReader' = Finish("thrown")
  <2>1. "thrown" \in Outcomes /\ "thrown" # "data"
    BY DEF Outcomes
  <2>2. PICK q : q = Finish("thrown")
    OBVIOUS
  <2>3. /\ q \in DbReaders /\ q.at = "done" /\ q.outcome = "thrown" /\ q.file = id
        /\ q.name = dbReader.name /\ q.lang = dbReader.lang
    BY <1>1, <2>1, <2>2, FinishedIs
  (* The file would have to end beyond its bundle. *)
  <2>4. o + l > dbBundles[b].size
    <3>1. PICK s : s = dbReader.block * ChunkSize
      OBVIOUS
    <3>2. s \in Nat /\ s >= dbBundles[b].size
      <4>1. ChunkSize \in Nat
        BY DieselDbAssumption
      <4>2. dbReader.block * ChunkSize \in Nat
        BY <1>1, <4>1, NextMultiple
      <4> QED
        BY <1>5, <3>1, <4>2
    <3>3. n < l
      BY <1>1, <1>2, <1>5
    <3>4. CASE got = <<>> /\ dbReader.block = o \div ChunkSize
      <4>1. ChunkSize \in Nat /\ ChunkSize # 0
        BY DieselDbAssumption
      <4>2. /\ o % ChunkSize \in Nat
            /\ (o \div ChunkSize) * ChunkSize + (o % ChunkSize) = o
        BY <1>1, <4>1, Division
      <4>3. s + (o % ChunkSize) = o
        BY <3>1, <3>4, <4>2
      <4>4. s <= o
        BY <1>1, <3>2, <4>2, <4>3
      <4> QED
        BY <1>1, <1>2, <3>2, <3>3, <4>4
    <3>5. CASE s = o + n
      BY <1>1, <1>2, <3>2, <3>3, <3>5
    <3>6. CASE o + n = dbBundles[b].size
      BY <1>1, <1>2, <3>3, <3>6
    <3>7. \/ got = <<>> /\ dbReader.block = o \div ChunkSize
          \/ s = o + n
          \/ o + n = dbBundles[b].size
          \/ n >= l
      BY <1>0, <1>1, <3>1 DEF ChunksRead
    <3> QED
      BY <1>1, <1>2, <3>3, <3>4, <3>5, <3>6, <3>7
  <2>5. ASSUME NEW i \in DOMAIN Pos(b), IsItem(id, b, i)
        PROVE  FALSE
    <3>1. o + l <= dbBundles[b].size
      BY <1>0, <1>1, <2>5, ItemEnds
    <3> QED
      BY <1>1, <2>4, <3>1
  <2> QED
    BY <1>0, <1>3, <1>5, <2>1, <2>2, <2>3, <2>5, EndedInv
<1>6. CASE /\ ~(l - n <= 0) /\ ~(dbReader.block * ChunkSize >= dbBundles[b].size)
           /\ dbReader' = [dbReader EXCEPT !.block = @ + 1,
                !.got = @ \o ChunkPart(filesList[id], dbBundles[b], dbReader.block, got)]
  <2>1. PICK part : part = ChunkPart(filesList[id], dbBundles[b], dbReader.block, got)
    OBVIOUS
  <2>2. PICK all, next : all = got \o part /\ next = dbReader.block + 1
    OBVIOUS
  <2>3. MoreToRead(filesList[id], dbBundles[b], dbReader.block, got)
    <3>1. n < l
      BY <1>1, <1>2, <1>6
    <3>2. dbReader.block * ChunkSize < dbBundles[b].size
      <4>1. ChunkSize \in Nat
        BY DieselDbAssumption
      <4>2. PICK s : s = dbReader.block * ChunkSize
        OBVIOUS
      <4>3. s \in Nat
        BY <1>1, <4>1, <4>2, NextMultiple
      <4>4. ~(s >= dbBundles[b].size)
        BY <1>6, <4>2
      <4>5. s < dbBundles[b].size
        BY <1>1, <4>3, <4>4
      <4> QED
        BY <4>2, <4>5
    <3> QED
      BY <1>0, <1>1, <3>1, <3>2 DEF MoreToRead
  <2>4. /\ all \in Seq(Int) /\ all = Slice(o, Len(all)) /\ Len(all) <= l
        /\ ChunksRead(filesList[id], dbBundles[b], next, all)
    <3>1. PICK file, bundle, block : /\ file = filesList[id] /\ bundle = dbBundles[b]
                                     /\ block = dbReader.block
      OBVIOUS
    <3>2. MoreToRead(file, bundle, block, got) /\ part = ChunkPart(file, bundle, block, got)
      BY <2>1, <2>3, <3>1
    <3>3. /\ all \in Seq(Int) /\ all = Slice(file.offset, Len(all))
          /\ Len(all) <= file.length /\ ChunksRead(file, bundle, block + 1, all)
      BY <2>2, <3>2, ChunkContinues
    <3> QED
      BY <1>0, <2>2, <3>1, <3>3
  <2>5. dbReader' = ReadOn(dbReader, next, all)
    BY <1>0, <1>6, <2>1, <2>2 DEF ReadOn
  <2>6. next \in Nat
    BY <1>1, <2>2
  <2>7. /\ dbReader' \in DbReaders /\ dbReader'.at = "reading"
        /\ dbReader'.outcome = dbReader.outcome /\ dbReader'.file = id
        /\ dbReader'.name = dbReader.name /\ dbReader'.lang = dbReader.lang
        /\ dbReader'.got = all /\ dbReader'.block = next
    <3>1. PICK r : r = dbReader'
      OBVIOUS
    <3>2. /\ r \in DbReaders /\ r.at = dbReader.at
          /\ r.outcome = dbReader.outcome /\ r.file = dbReader.file
          /\ r.name = dbReader.name /\ r.lang = dbReader.lang
          /\ r.got = all /\ r.block = next
      BY <1>1, <2>4, <2>5, <2>6, <3>1, ReadOnIs
    <3> QED
      BY <3>1, <3>2
  <2>8. DbTyped' /\ StageInv' /\ DanglingInv'
    BY <1>3, <2>7, LoadedStays
  <2>9. StoreInv'
    BY DEF DbInv, StoreInv, StoresAgree
  <2>10. ReaderInv /\ ReadingInv
    BY DEF DbInv, ReaderInv
  <2>11. FindsAsked'
    BY <2>7, <2>10 DEF ReaderInv, FindsAsked
  <2>12. ReadingInv'
    <3>1. id # NoFileId /\ b # NoBundle
      BY <2>10 DEF ReadingInv
    <3>2. /\ filesList'[dbReader'.file] = filesList[id]
          /\ dbBundles'[filesList[id].bundle] = dbBundles[b]
      BY <2>7
    <3> QED
      BY <1>0, <2>4, <2>7, <3>1, <3>2 DEF ReadingInv
  <2>13. ReadsSlice'
    <3>1. dbReader'.at # "done"
      BY <2>7
    <3> QED
      BY <3>1 DEF ReadsSlice
  <2>14. ReaderInv'
    BY <1>3, <2>7, <2>10, <2>11, <2>12, <2>13 DEF ReaderInv
  <2> QED
    BY <2>8, <2>9, <2>14 DEF DbInv
<1>7. ReadChunk(filesList[id], dbBundles[b]) =>
        \/ l - n <= 0 /\ dbReader' = Finish("data")
        \/ /\ ~(l - n <= 0) /\ dbReader.block * ChunkSize >= dbBundles[b].size
           /\ dbReader' = Finish("thrown")
        \/ /\ ~(l - n <= 0) /\ ~(dbReader.block * ChunkSize >= dbBundles[b].size)
           /\ dbReader' = [dbReader EXCEPT !.block = @ + 1,
                !.got = @ \o ChunkPart(filesList[id], dbBundles[b], dbReader.block, got)]
  BY <1>0 DEF ReadChunk, ChunkPart
<1> QED
  BY <1>4, <1>5, <1>6, <1>7


LEMMA ReadContentsInv ==
  ASSUME DbInv, ReadContents
  PROVE  DbInv'
<1>1. PICK id, b : id = dbReader.file /\ b = filesList[id].bundle
  OBVIOUS
<1>2. /\ dbReader.at = "reading"
      /\ UNCHANGED <<dbIndex, dbBundles, dbDone, filesList, fileKeys, staleFiles, dbStore>>
  BY DEF ReadContents, installedDb
<1>3. CASE dbBundles[b].package
  <2>1. ReadChunk(filesList[id], dbBundles[b])
    BY <1>1, <1>3 DEF ReadContents
  <2> QED
    BY <1>1, <1>2, <1>3, <2>1, ReadChunkInv
<1>4. CASE ~dbBundles[b].package
  <2>1. ReadBlock(filesList[id], dbBundles[b])
    BY <1>1, <1>4 DEF ReadContents
  <2> QED
    BY <1>1, <1>2, <1>4, <2>1, ReadBlockInv
<1> QED
  BY <1>3, <1>4

LEMMA ReadFailsInv ==
  ASSUME DbInv, ReadFails
  PROVE  DbInv'
<1>1. /\ dbReader.at = "reading" /\ dbReader' = Finish("error")
      /\ UNCHANGED <<dbIndex, dbBundles, dbStage, dbDone, filesList, fileKeys, staleFiles,
                     dbStore>>
  BY DEF ReadFails, installedDb, loadedDb
<1>2. "error" \in Outcomes /\ "error" # "data" /\ "error" \notin {"thrown", "garbage"}
  BY DEF Outcomes
<1>3. dbReader \in DbReaders
  BY ReadersAre DEF DbInv
<1>4. PICK q : q = Finish("error")
  OBVIOUS
<1>5. /\ q \in DbReaders /\ q.at = "done" /\ q.outcome = "error" /\ q.file = dbReader.file
      /\ q.name = dbReader.name /\ q.lang = dbReader.lang
  BY <1>2, <1>3, <1>4, FinishedIs
<1> QED
  BY <1>1, <1>2, <1>4, <1>5, EndedInv

LEMMA IdleTyped == IdleReader \in DbReaders
<1>1. /\ "idle" \in ReaderAt /\ "none" \in Outcomes /\ NoName \in AskedNames /\ 0 \in Languages
      /\ <<>> \in Seq(Int) /\ NoFileId \in Nat /\ 0 \in Nat
  BY DieselDbAssumption DEF ReaderAt, Outcomes, AskedNames, NoFileId
<1> QED
  BY <1>1 DEF IdleReader, DbReaders

LEMMA TakeAnswerInv ==
  ASSUME DbInv, TakeAnswer
  PROVE  DbInv'
<1>1. /\ dbReader' = IdleReader
      /\ UNCHANGED <<dbIndex, dbBundles, dbStage, dbDone, filesList, fileKeys, staleFiles,
                     dbStore>>
  BY DEF TakeAnswer, installedDb, loadedDb
<1>2. dbReader' \in DbReaders
  BY <1>1, IdleTyped
<1>3. DbTyped' /\ StageInv' /\ DanglingInv'
  BY <1>1, <1>2, LoadedStays
<1>4. StoreInv'
  BY <1>1 DEF DbInv, StoreInv, StoresAgree
<1>5. dbReader'.at = "idle" /\ dbReader'.file = NoFileId
  BY <1>1 DEF IdleReader
<1>6. ReaderInv'
  BY <1>5 DEF ReaderInv, FindsAsked, ReadingInv, ReadsSlice
<1> QED
  BY <1>3, <1>4, <1>6 DEF DbInv

(* A step of a data store leaves the database alone. *)
LEMMA DatabaseStays ==
  ASSUME DbInv, UNCHANGED <<installedDb, loadedDb, dbReader>>, StoreInv'
  PROVE  DbInv'
<1>1. UNCHANGED <<dbIndex, dbBundles, dbStage, dbDone, filesList, fileKeys, staleFiles, dbReader>>
  BY DEF installedDb, loadedDb
<1>2. dbReader' \in DbReaders
  BY <1>1, ReadersAre DEF DbInv
<1>3. DbTyped' /\ StageInv' /\ DanglingInv'
  BY <1>1, <1>2, LoadedStays
<1>4. ReaderInv
  BY DEF DbInv
<1>5. FindsAsked'
  BY <1>1, <1>4 DEF ReaderInv, FindsAsked
<1>6. ReadingInv'
  BY <1>1, <1>4 DEF ReaderInv, ReadingInv
<1>7. ReadsSlice'
  <2>1. \A id, b, i : IsItem(id, b, i)' = IsItem(id, b, i)
    <3>1. \A b, i : TrueLength(b, i)' = TrueLength(b, i)
      BY <1>1, SameBundles
    <3> QED
      BY <1>1, <3>1 DEF IsItem
  <2>2. PICK id, b : id = dbReader.file /\ b = filesList[id].bundle
    OBVIOUS
  <2>3. id = dbReader'.file /\ b = filesList'[dbReader'.file].bundle
    BY <1>1, <2>2
  <2>4. \A i : IsItem(dbReader.file, filesList[dbReader.file].bundle, i)' = IsItem(id, b, i)
    <3>1. \A i : IsItem(dbReader.file, filesList[dbReader.file].bundle, i)' = IsItem(id, b, i)'
      BY <2>3 DEF IsItem, TrueLength
    <3> QED
      BY <2>1, <3>1
  <2>5. (\E i \in DOMAIN dbBundles'[b].items :
           IsItem(dbReader.file, filesList[dbReader.file].bundle, i)')
        => \E i \in DOMAIN dbBundles[b].items : IsItem(id, b, i)
    BY <1>1, <2>4
  <2>6. ReadsSlice
    BY <1>4 DEF ReaderInv
  <2>7. CASE dbReader.at # "done" \/ dbReader.outcome \notin {"data", "thrown", "garbage"}
    BY <1>1, <2>7 DEF ReadsSlice
  <2>8. CASE /\ dbReader.outcome = "data"
             /\ dbReader.got = [k \in 1..filesList[id].length |-> filesList[id].offset + k - 1]
    BY <1>1, <2>2, <2>3, <2>8 DEF ReadsSlice
  <2>9. CASE /\ dbReader.outcome # "data"
             /\ ~\E i \in DOMAIN dbBundles[b].items : IsItem(id, b, i)
    BY <1>1, <2>2, <2>3, <2>5, <2>9 DEF ReadsSlice
  <2> QED
    BY <2>2, <2>6, <2>7, <2>8, <2>9 DEF ReadsSlice
<1>8. ReaderInv'
  BY <1>1, <1>4, <1>5, <1>6, <1>7 DEF ReaderInv
<1> QED
  BY <1>3, <1>8 DEF DbInv

LEMMA OpenStoreInv ==
  ASSUME DbInv, NEW kind \in {"file", "string"}, OpenStore(kind)
  PROVE  DbInv'
<1>1. dbStore' = [kind |-> kind, pieces |-> 0, got |-> <<>>]
  BY DEF OpenStore, NoStore
<1>2. StoreInv'
  <2>1. <<>> \in Seq(Int) /\ <<>> = [k \in 1..Len(<<>>) |-> k - 1]
    OBVIOUS
  <2>2. dbStore'.got = <<>>
    BY <1>1
  <2>3. StoresAgree'
    BY <2>1, <2>2 DEF StoresAgree
  <2> QED
    BY <1>1, <2>1, <2>3 DEF StoreInv
<1> QED
  BY <1>2, DatabaseStays DEF OpenStore

LEMMA ReadInv ==
  ASSUME DbInv, NEW length \in 1..StoreSize, ReadStore(length)
  PROVE  DbInv'
<1>1. StoreInv'
  BY StoreReadInv DEF DbInv
<1> QED
  BY <1>1, DatabaseStays DEF ReadStore

LEMMA AskedIs ==
  ASSUME DbInv, Asked
  PROVE  DbTyped /\ (NoFiles \/ Recorded(Len(dbIndex)))
  BY DEF DbInv, Asked, StageInv

LEMMA LdbLoadInv ==
  ASSUME DbInv, NEW name \in AssetNames, NEW lang \in Languages, ldb_load(name, lang)
  PROVE  DbInv'
<1>1. Asked /\ AnswerFrom(Walked(name, lang), name, lang, find_file(name, lang))
  BY DEF ldb_load
<1>2. Yields(find_file(name, lang), name, lang)
  BY <1>1, AskedIs, FoundIs
<1>3. PICK file, touched : file = find_file(name, lang) /\ touched = Walked(name, lang)
  OBVIOUS
<1>4. Yields(file, name, lang) /\ AnswerFrom(touched, name, lang, file)
  BY <1>1, <1>2, <1>3
<1> QED
  BY <1>1, <1>4, AnswerInv

LEMMA LoadContentsInv ==
  ASSUME DbInv, NEW name \in AssetNames, wrenLoadAssetContents(name)
  PROVE  DbInv'
<1> DEFINE lang == IF Find(name) \in DOMAIN filesList THEN filesList[Find(name)].lang ELSE 0
<1>1. Asked /\ AnswerFrom({Find(name)}, name, lang, Find(name))
  BY DEF wrenLoadAssetContents
<1>2. Yields(Find(name), name, lang)
  BY <1>1, AskedIs, NewestIs
<1>3. lang \in Languages
  <2>1. filesList \in Seq(DbFile)
    BY DEF DbInv, DbTyped
  <2>2. CASE Find(name) \in DOMAIN filesList
    <3>1. filesList[Find(name)] \in DbFile
      BY <2>1, <2>2
    <3>2. filesList[Find(name)].lang \in Languages
      BY <3>1 DEF DbFile
    <3> QED
      BY <2>2, <3>2
  <2>3. CASE Find(name) \notin DOMAIN filesList
    BY <2>3, DieselDbAssumption
  <2> QED
    BY <2>2, <2>3
<1> HIDE DEF lang
<1>4. PICK file, touched : file = Find(name) /\ touched = {Find(name)}
  OBVIOUS
<1>5. Yields(file, name, lang) /\ AnswerFrom(touched, name, lang, file)
  BY <1>1, <1>2, <1>4
<1> QED
  BY <1>1, <1>3, <1>5, AnswerInv


LEMMA DbInitInv == DbInit => DbInv
<1> SUFFICES ASSUME DbInit
             PROVE  DbInv
  OBVIOUS
<1>1. DbTyped
  <2>1. dbReader \in DbReaders
    BY IdleTyped DEF DbInit
  <2>2. filesList \in Seq(DbFile) /\ fileKeys \in [AssetNames -> Seq(Nat)]
    BY DEF DbInit
  <2> QED
    BY <2>1, <2>2 DEF DbInit, DbTyped, DbReaders
<1>2. StageInv
  BY DEF DbInit, StageInv, NoFiles
<1>3. DanglingInv
  BY DEF DbInit, DanglingInv
<1>4. ReaderInv
  BY IdleReads DEF DbInit, IdleReader
<1>5. StoreInv
  <2>1. <<>> \in Seq(Int) /\ <<>> = [k \in 1..Len(<<>>) |-> k - 1]
    OBVIOUS
  <2>2. dbStore = [kind |-> "none", pieces |-> 0, got |-> <<>>]
    BY DEF DbInit, NoStore
  <2>3. StoresAgree
    BY <2>1, <2>2 DEF StoresAgree
  <2> QED
    BY <2>1, <2>2, <2>3 DEF StoreInv
<1> QED
  BY <1>1, <1>2, <1>3, <1>4, <1>5 DEF DbInv

(* Nothing changes. *)
LEMMA DbStutters ==
  ASSUME DbInv, UNCHANGED dbVars
  PROVE  DbInv'
<1>1. UNCHANGED <<installedDb, loadedDb, dbReader>> /\ dbStore' = dbStore
  BY DEF dbVars, installedDb, loadedDb
<1>2. StoreInv'
  BY <1>1 DEF DbInv, StoreInv, StoresAgree
<1> QED
  BY <1>1, <1>2, DatabaseStays

LEMMA DbNextInv == DbInv /\ [DbNext]_dbVars => DbInv'
<1> SUFFICES ASSUME DbInv, [DbNext]_dbVars
             PROVE  DbInv'
  OBVIOUS
<1>1. CASE OpenIndex
  BY <1>1, OpenIndexInv
<1>2. CASE ReadMiniFile
  BY <1>2, ReadMiniFileInv
<1>3. CASE IndexRead
  BY <1>3, IndexReadInv
<1>4. CASE LoadThrows
  BY <1>4, LoadThrowsInv
<1>5. CASE LoadHeader
  BY <1>5, LoadHeaderInv
<1>6. CASE HeadersRead
  BY <1>6, HeadersReadInv
<1>7. CASE \E name \in AssetNames : \E lang \in Languages : ldb_load(name, lang)
  BY <1>7, LdbLoadInv
<1>8. CASE \E name \in AssetNames : wrenLoadAssetContents(name)
  BY <1>8, LoadContentsInv
<1>9. CASE ReadContents
  BY <1>9, ReadContentsInv
<1>10. CASE ReadFails
  BY <1>10, ReadFailsInv
<1>11. CASE TakeAnswer
  BY <1>11, TakeAnswerInv
<1>12. CASE \E kind \in {"file", "string"} : OpenStore(kind)
  BY <1>12, OpenStoreInv
<1>13. CASE \E length \in 1..StoreSize : ReadStore(length)
  BY <1>13, ReadInv
<1>14. CASE UNCHANGED dbVars
  BY <1>14, DbStutters
<1> QED
  BY <1>1, <1>2, <1>3, <1>4, <1>5, <1>6, <1>7, <1>8, <1>9, <1>10, <1>11, <1>12, <1>13, <1>14
  DEF DbNext

(* A file has a place, if it has one, in a bundle. *)
LEMMA PlacesTyped ==
  ASSUME DbInv, NEW id \in DOMAIN filesList
  PROVE  /\ filesList[id].bundle \in 0..Len(dbBundles)
         /\ filesList[id].offset \in Nat \cup {Unset}
<1>0. DbTyped /\ Len(dbBundles) \in Nat
  <2>1. dbBundles \in Seq(Bundles)
    BY DieselDbAssumption DEF DbInv, DbTyped
  <2> QED
    BY <2>1 DEF DbInv
<1>1. PICK m : m \in Nat /\ m <= Len(dbBundles) /\ PlacedIn(id, m)
  <2>1. dbStage # "closed"
    BY DEF DbInv, StageInv, NoFiles
  <2>2. CASE dbStage = "index"
    BY <1>0, <2>2 DEF DbInv, StageInv, PlacedTo
  <2>3. CASE dbStage = "headers"
    <3>1. dbDone \in Nat /\ dbDone <= Len(dbBundles) /\ PlacedTo(dbDone)
      BY <1>0, <2>3 DEF DbInv, StageInv, DbTyped
    <3> QED
      BY <3>1 DEF PlacedTo
  <2>4. CASE dbStage \in {"ready", "undefined"}
    <3>1. PlacedTo(Len(dbBundles))
      BY <2>4 DEF DbInv, StageInv
    <3> QED
      BY <1>0, <3>1 DEF PlacedTo
  <2> QED
    BY <1>0, <2>1, <2>2, <2>3, <2>4 DEF DbTyped
<1>2. CASE filesList[id].bundle = NoBundle /\ filesList[id].offset = Unset
  BY <1>0, <1>2 DEF NoBundle
<1>3. CASE /\ filesList[id].bundle \in 1..m
           /\ \E i \in DOMAIN Pos(filesList[id].bundle) :
                filesList[id].offset = Pos(filesList[id].bundle)[i].offset
  <2>1. PICK b : b = filesList[id].bundle
    OBVIOUS
  <2>2. b \in 1..Len(dbBundles)
    BY <1>0, <1>1, <1>3, <2>1
  <2>3. b \in DOMAIN dbBundles
    BY <1>0, <2>2, HeaderTyped DEF DbTyped
  <2>4. PICK i \in DOMAIN Pos(b) : filesList[id].offset = Pos(b)[i].offset
    BY <1>3, <2>1
  <2>5. Pos(b)[i].offset \in Nat
    BY <1>0, <2>3, HeaderTyped DEF DbTyped
  <2> QED
    BY <1>0, <2>1, <2>2, <2>4, <2>5
<1> QED
  BY <1>1, <1>2, <1>3 DEF PlacedIn

(* The keys are ids of the list, at every stage. *)
LEMMA KeysTyped ==
  ASSUME DbInv, NEW name \in AssetNames
  PROVE  ToSet(fileKeys[name]) \subseteq DOMAIN filesList
<1>0. DbTyped
  BY DEF DbInv
<1>1. CASE fileKeys[name] = <<>>
  BY <1>1 DEF ToSet
<1>2. CASE fileKeys[name] # <<>>
  <2>1. PICK m : m \in Nat /\ Recorded(m)
    <3>1. CASE dbStage = "index"
      BY <3>1 DEF DbInv, StageInv, DbTyped
    <3>2. CASE dbStage = "headers" \/ dbStage \in {"ready", "undefined"}
      <4>1. Recorded(Len(dbIndex))
        BY <1>2, <3>2 DEF DbInv, StageInv, NoFiles
      <4> QED
        BY <1>0, <4>1, IndexTyped DEF DbTyped
    <3>3. dbStage # "closed"
      BY <1>2 DEF DbInv, StageInv, NoFiles
    <3> QED
      BY <1>0, <3>1, <3>2, <3>3 DEF DbTyped
  <2>2. \A k \in DOMAIN fileKeys[name] : fileKeys[name][k] \in DOMAIN filesList
    BY <2>1 DEF Recorded
  <2>3. ToSet(fileKeys[name]) = {fileKeys[name][k] : k \in DOMAIN fileKeys[name]}
    BY DEF ToSet
  <2> QED
    BY <2>2, <2>3
<1> QED
  BY <1>1, <1>2

LEMMA DbInvTypes == DbInv => DbTypeOK
<1> SUFFICES ASSUME DbInv
             PROVE  DbTypeOK
  OBVIOUS
<1>1. DbTyped
  BY DEF DbInv
<1>2. ASSUME NEW i \in DOMAIN filesList
      PROVE  filesList[i] \in
               [name : AssetNames \cup {NoName}, lang : Languages,
                bundle : 0..Len(dbBundles), offset : Nat \cup {Unset}, length : Int]
  <2>1. filesList[i] \in DbFile
    BY <1>1 DEF DbTyped
  <2>2. /\ filesList[i].bundle \in 0..Len(dbBundles)
        /\ filesList[i].offset \in Nat \cup {Unset}
    BY PlacesTyped
  <2> DEFINE B == 0..Len(dbBundles)
             O == Nat \cup {Unset}
  <2>3. filesList[i].bundle \in B /\ filesList[i].offset \in O
    BY <2>2
  <2> HIDE DEF B, O
  <2>4. filesList[i] \in
               [name : AssetNames \cup {NoName}, lang : Languages,
                bundle : B, offset : O, length : Int]
    BY <2>1, <2>3 DEF DbFile
  <2> QED
    BY <2>4 DEF B, O
<1>3. \A name \in AssetNames : ToSet(fileKeys[name]) \subseteq DOMAIN filesList
  BY KeysTyped
<1>4. /\ dbReader.at \in {"idle", "reading", "done"}
      /\ dbReader.file \in DOMAIN filesList \cup {NoFileId}
  BY <1>1 DEF DbInv, DbTyped, ReaderInv, ReaderAt
<1>5. dbStore.kind \in {"none", "file", "string"}
  BY DEF DbInv, StoreInv
<1>6. /\ dbStage \in {"closed", "index", "headers", "ready", "undefined"}
      /\ dbDone \in Nat /\ staleFiles \subseteq DOMAIN filesList
  BY <1>1 DEF DbTyped
<1> QED
  BY <1>2, <1>3, <1>4, <1>5, <1>6 DEF DbTypeOK

LEMMA DbInvAgrees == DbInv => DatabaseAgrees
<1> SUFFICES ASSUME DbInv
             PROVE  DatabaseAgrees
  OBVIOUS
<1>1. DbTyped /\ StageInv
  BY DEF DbInv
<1>2. LengthsRight
  <2> SUFFICES ASSUME dbStage = "ready", NEW id \in DOMAIN filesList,
                      filesList[id].bundle # NoBundle
               PROVE  \E i \in DOMAIN dbBundles[filesList[id].bundle].items :
                        /\ dbBundles[filesList[id].bundle].items[i].id = id
                        /\ \/ IsItem(id, filesList[id].bundle, i)
                           \/ /\ dbBundles[filesList[id].bundle].package
                              /\ Shares(filesList[id].bundle, i)
                           \/ Mistaken(id, filesList[id].bundle)
    BY DEF LengthsRight
  <2>1. PlacedIn(id, Len(dbBundles))
    BY <1>1 DEF StageInv, PlacedTo
  <2>2. PICK b : b = filesList[id].bundle
    OBVIOUS
  <2>3. PICK i \in DOMAIN Pos(b) :
             /\ Pos(b)[i].id = id /\ filesList[id].offset = Pos(b)[i].offset
             /\ \/ filesList[id].length = TrueLength(b, i)
                \/ dbBundles[b].package /\ Shares(b, i)
                \/ Mistaken(id, b)
    BY <2>1, <2>2 DEF PlacedIn
  <2>4. \/ IsItem(id, b, i)
        \/ dbBundles[b].package /\ Shares(b, i)
        \/ Mistaken(id, b)
    BY <2>3 DEF IsItem, Pos
  <2> QED
    BY <2>2, <2>3, <2>4 DEF Pos
<1>3. OnlyGapsDangle
  <2> SUFFICES ASSUME {dbIndex[i].id : i \in DOMAIN dbIndex} = 1..Len(dbIndex),
                      staleFiles # {}
               PROVE  FALSE
    BY DEF OnlyGapsDangle
  <2>1. PICK i \in DOMAIN dbIndex : dbIndex[i].id > Len(dbIndex)
    BY DEF DbInv, DanglingInv
  <2>2. dbIndex[i].id \in 1..Len(dbIndex)
    OBVIOUS
  <2> QED
    BY <1>1, <2>1, <2>2, IndexTyped DEF DbTyped
<1>4. FindsAsked /\ ReadsSlice
  BY DEF DbInv, ReaderInv
<1>5. StoresAgree
  BY DEF DbInv, StoreInv
<1> QED
  BY <1>2, <1>3, <1>4, <1>5, NormalisingAgrees DEF DatabaseAgrees

(* The type invariant of the database. *)
THEOREM DatabaseTypeCorrect == DbSpec => []DbTypeOK
  BY DbInitInv, DbNextInv, DbInvTypes, PTL DEF DbSpec

(* Assets are found and read as they are in the bundles. *)
THEOREM DatabaseAgreesAlways == DbSpec => []DatabaseAgrees
  BY DbInitInv, DbNextInv, DbInvAgrees, PTL DEF DbSpec
=============================================================================
