--------------------------- MODULE SeqFilterProofs ---------------------------
(***************************************************************************)
(* What KeepAt, Keep, KeepFirst and FlattenSeq return, for every sequence. *)
(* The induction is an appeal to the least counterexample.                 *)
(***************************************************************************)
EXTENDS SeqFilter, SequencesExt, FiniteSetTheorems, TLAPS

\* A set of natural numbers that is not empty has a least member.
LEMMA LeastNat ==
    ASSUME NEW T \in SUBSET Nat, T # {}
    PROVE  \E n \in T : \A m \in T : n <= m
  <1>1. PICK k \in T : TRUE
    OBVIOUS
  <1> DEFINE S == 0..k
             F == {0..m : m \in {j \in T : j <= k}}
             R == StrictSubsetOrdering(S)
  <1>2. IsFiniteSet(S)
    BY FS_Interval
  <1>3. IsWellFoundedOn(R, FiniteSubsetsOf(S))
    BY FS_StrictSubsetOrderingWellFounded
  <1>4. F # {} /\ F \subseteq SUBSET S
    OBVIOUS
  <1>5. F \subseteq FiniteSubsetsOf(S)
    BY <1>2, <1>4, FS_Subset DEF FiniteSubsetsOf
  <1>6. PICK x \in F : \A y \in F : ~(<<y, x>> \in R)
    <2> HIDE DEF F, R, S
    <2> QED
      BY <1>3, <1>4, <1>5, WFMin
  <1>7. PICK n \in T : n <= k /\ x = 0..n
    OBVIOUS
  <1>8. ASSUME NEW m \in T, m < n
        PROVE  FALSE
    <2>1. 0..m \in F
      BY <1>7, <1>8
    <2>2. 0..m \subseteq 0..n /\ n \in 0..n /\ n \notin 0..m
      BY <1>8
    <2>3. <<0..m, 0..n>> \in R
      BY <1>4, <1>7, <2>1, <2>2 DEF StrictSubsetOrdering
    <2> QED
      BY <1>6, <1>7, <2>1, <2>3
  <1> QED
    BY <1>8

\* Induction up to a bound, stated with a set: one that has 0, and with n the
\* next number, has all numbers up to the bound.
LEMMA SetInduction ==
    ASSUME NEW N \in Nat, NEW P, 0 \in P,
           \A n \in 0..N : n \in P /\ n < N => n + 1 \in P
    PROVE  \A n \in 0..N : n \in P
  <1> DEFINE Bad == {n \in 0..N : n \notin P}
  <1> SUFFICES ASSUME Bad # {} PROVE FALSE
    OBVIOUS
  <1>1. PICK n \in Bad : \A m \in Bad : n <= m
    <2>1. Bad \in SUBSET Nat
      OBVIOUS
    <2> HIDE DEF Bad
    <2> QED
      BY <2>1, LeastNat
  <1>2. n # 0 /\ n - 1 \in 0..N /\ n - 1 < N
    BY <1>1
  <1>3. n - 1 \in P
    BY <1>1, <1>2
  <1> QED
    BY <1>1, <1>2, <1>3

\* A function with values in V that is b at 0 and G of its value at the number
\* before, up to N.
HasSteps(N, V, b, G) ==
    \E f \in [0..N -> V] : f[0] = b /\ \A i \in 1..N : f[i] = G[i][f[i - 1]]

\* Such a function exists.
LEMMA RecursiveFunction ==
    ASSUME NEW N \in Nat, NEW V, NEW b \in V, NEW G \in [1..N -> [V -> V]]
    PROVE  HasSteps(N, V, b, G)
  <1> DEFINE Good(n, f) == f \in [0..n -> V] /\ f[0] = b
                           /\ \A i \in 1..n : f[i] = G[i][f[i - 1]]
             P == {n \in 0..N : \E f : Good(n, f)}
  <1>1. 0 \in P
    <2> DEFINE f == [i \in 0..0 |-> b]
    <2>1. f \in [0..0 -> V] /\ f[0] = b /\ 1..0 = {}
      OBVIOUS
    <2>2. Good(0, f)
      BY <2>1
    <2> HIDE DEF Good, f
    <2> QED
      BY <2>2
  <1>2. ASSUME NEW n \in 0..N, n \in P, n < N
        PROVE  n + 1 \in P
    <2>1. PICK f : Good(n, f)
      BY <1>2
    <2> DEFINE v == G[n + 1][f[n]]
               g == [i \in 0..(n + 1) |-> IF i <= n THEN f[i] ELSE v]
    <2>2. f[n] \in V /\ n + 1 \in 1..N
      BY <1>2, <2>1
    <2>3. v \in V
      BY <2>2
    <2> HIDE DEF v
    <2>4. \A i \in 0..n : g[i] = f[i] /\ f[i] \in V
      BY <2>1
    <2>5. g[n + 1] = v
      OBVIOUS
    <2>6. \A i \in 0..(n + 1) : i \in 0..n \/ i = n + 1
      OBVIOUS
    <2>7. g \in [0..(n + 1) -> V] /\ g[0] = b
      BY <2>1, <2>3, <2>4, <2>5, <2>6
    <2>8. ASSUME NEW i \in 1..(n + 1) PROVE g[i] = G[i][g[i - 1]]
      <3>1. i - 1 \in 0..n
        OBVIOUS
      <3>2. g[i - 1] = f[i - 1]
        BY <2>4, <3>1
      <3>3. CASE i = n + 1
        <4>1. i - 1 = n
          BY <1>2, <3>3
        <4>2. g[i] = v /\ g[i - 1] = f[n]
          BY <2>5, <3>2, <3>3, <4>1
        <4> HIDE DEF g
        <4> QED
          BY <3>3, <4>2 DEF v
      <3>4. CASE i # n + 1
        <4>1. i \in 1..n /\ i \in 0..n
          BY <3>4
        <4>2. f[i] = G[i][f[i - 1]]
          BY <2>1, <4>1
        <4>3. g[i] = f[i]
          BY <2>4, <4>1
        <4> HIDE DEF g, Good, P
        <4> QED
          BY <3>2, <4>2, <4>3
      <3> QED
        BY <3>3, <3>4
    <2>9. Good(n + 1, g)
      BY <2>7, <2>8
    <2> HIDE DEF Good, g
    <2> QED
      BY <1>2, <2>9
  <1>3. N \in P
    <2> HIDE DEF P
    <2>1. \A n \in 0..N : n \in P
      BY <1>1, <1>2, SetInduction
    <2> QED
      BY <2>1
  <1> QED
    BY <1>3 DEF HasSteps

\* The recursive function behind KeepAt exists and keeps its promise.
LEMMA KeepSteps ==
    ASSUME NEW S, NEW s \in Seq(S), NEW I
    PROVE  \E f : /\ f[0] = <<>>
                  /\ \A i \in 1..Len(s) :
                        f[i] = IF i \in I THEN Append(f[i - 1], s[i]) ELSE f[i - 1]
                  /\ KeepAt(s, I) = f[Len(s)]
  <1> DEFINE N == Len(s)
             V == Seq(S)
             G == [i \in 1..N |-> [r \in V |-> IF i \in I THEN Append(r, s[i]) ELSE r]]
             next(f, i) == IF i = 0 THEN <<>>
                           ELSE IF i \in I THEN Append(f[i - 1], s[i]) ELSE f[i - 1]
  <1>1. N \in Nat /\ <<>> \in V
    OBVIOUS
  <1>2. G \in [1..N -> [V -> V]]
    OBVIOUS
  <1>3. PICK f \in [0..N -> V] : f[0] = <<>> /\ \A i \in 1..N : f[i] = G[i][f[i - 1]]
    <2> DEFINE b == <<>>
    <2>1. b \in V
      BY <1>1
    <2> HIDE DEF N, V, G, b, next
    <2>3. N \in Nat
      BY <1>1
    <2>4. G \in [1..N -> [V -> V]]
      BY <1>2
    <2>2. HasSteps(N, V, b, G)
      BY <2>1, <2>3, <2>4, RecursiveFunction
    <2> QED
      BY <2>2 DEF b, HasSteps
  <1>4. ASSUME NEW i \in 0..N PROVE f[i] = next(f, i)
    <2>1. CASE i = 0
      BY <1>3, <2>1
    <2>2. CASE i # 0
      <3>1. i \in 1..N /\ i - 1 \in 0..N
        BY <2>2
      <3>2. f[i - 1] \in V
        BY <3>1
      <3>3. G[i][f[i - 1]] = next(f, i)
        BY <2>2, <3>2
      <3> HIDE DEF G, next
      <3> QED
        BY <1>3, <3>1, <3>3
    <2> QED
      BY <2>1, <2>2
  <1>5. f = [i \in 0..N |-> next(f, i)]
    <2> HIDE DEF next
    <2> QED
      BY <1>4
  <1> DEFINE kept == CHOOSE h : h = [i \in 0..Len(s) |-> next(h, i)]
  <1>6. kept = [i \in 0..Len(s) |-> next(kept, i)]
    BY <1>5
  <1>7. KeepAt(s, I) = kept[Len(s)]
    BY DEF KeepAt
  <1> HIDE DEF kept
  <1>8. kept[0] = <<>>
    BY <1>6
  <1>9. ASSUME NEW i \in 1..Len(s)
        PROVE  kept[i] = IF i \in I THEN Append(kept[i - 1], s[i]) ELSE kept[i - 1]
    <2>1. i \in 0..Len(s) /\ i # 0
      OBVIOUS
    <2>2. kept[i] = next(kept, i)
      BY <1>6, <2>1
    <2> QED
      BY <2>1, <2>2
  <1> QED
    BY <1>7, <1>8, <1>9

\* KeepAt returns the members at the positions in I, in their order.
LEMMA KeepAtOrder ==
    ASSUME NEW S, NEW s \in Seq(S), NEW I
    PROVE  /\ KeepAt(s, I) \in Seq(S)
           /\ \E h \in Seq(1..Len(s)) :
                 /\ Len(h) = Len(KeepAt(s, I))
                 /\ \A j \in 1..Len(h) : h[j] \in I /\ KeepAt(s, I)[j] = s[h[j]]
                 /\ \A j, k \in 1..Len(h) : j < k => h[j] < h[k]
                 /\ \A i \in I \cap (1..Len(s)) : \E j \in 1..Len(h) : h[j] = i
  <1> DEFINE N == Len(s)
  <1>1. N \in Nat
    OBVIOUS
  <1>2. PICK f : /\ f[0] = <<>>
                 /\ \A i \in 1..N : f[i] = IF i \in I THEN Append(f[i - 1], s[i]) ELSE f[i - 1]
                 /\ KeepAt(s, I) = f[N]
    BY KeepSteps
  <1> DEFINE Good(n, h) ==
                /\ f[n] \in Seq(S) /\ h \in Seq(1..N) /\ Len(h) = Len(f[n])
                /\ \A j \in 1..Len(h) : h[j] \in I /\ h[j] <= n /\ f[n][j] = s[h[j]]
                /\ \A j, k \in 1..Len(h) : j < k => h[j] < h[k]
                /\ \A i \in I \cap (1..n) : \E j \in 1..Len(h) : h[j] = i
             P == {n \in 0..N : \E h : Good(n, h)}
  <1>3. 0 \in P
    <2>1. Good(0, <<>>)
      BY <1>2
    <2> HIDE DEF Good
    <2> QED
      BY <1>1, <2>1
  <1>4. ASSUME NEW n \in 0..N, n \in P, n < N
        PROVE  n + 1 \in P
    <2>1. PICK h : Good(n, h)
      BY <1>4
    <2> DEFINE m == n + 1
    <2>2. m \in 1..N /\ m - 1 = n /\ s[m] \in S /\ m \in 0..N
      BY <1>4
    <2>3. f[m] = IF m \in I THEN Append(f[n], s[m]) ELSE f[n]
      BY <1>2, <2>2, Zenon
    <2>4. /\ h \in Seq(1..N) /\ f[n] \in Seq(S) /\ Len(h) = Len(f[n]) /\ Len(h) \in Nat
          /\ \A j \in 1..Len(h) : h[j] \in I /\ h[j] <= n /\ f[n][j] = s[h[j]] /\ h[j] \in 1..N
          /\ \A j, k \in 1..Len(h) : j < k => h[j] < h[k]
          /\ \A i \in I \cap (1..n) : \E j \in 1..Len(h) : h[j] = i
      BY <2>1
    <2>5. \A i \in 1..m : i \in 1..n \/ i = m
      OBVIOUS
    <2>6. n <= m
      OBVIOUS
    <2> HIDE DEF m, N
    <2>7. CASE m \in I
      <3> DEFINE e == Append(h, m)
                 l == Len(h)
      <3>1. f[m] = Append(f[n], s[m])
        BY <2>3, <2>7
      <3>2. /\ e \in Seq(1..N) /\ Len(e) = l + 1 /\ e[l + 1] = m
            /\ \A j \in 1..l : e[j] = h[j]
        BY <2>2, <2>4
      <3>3. /\ f[m] \in Seq(S) /\ Len(f[m]) = l + 1 /\ f[m][l + 1] = s[m]
            /\ \A j \in 1..l : f[m][j] = f[n][j]
        BY <2>2, <2>4, <3>1
      <3>4. l \in Nat /\ \A j \in 1..(l + 1) : j \in 1..l \/ j = l + 1
        BY <2>4
      <3>5. \A j \in 1..l : j \in 1..(l + 1) /\ l + 1 \in 1..(l + 1) /\ j < l + 1
        BY <3>4
      <3> HIDE DEF e
      <3>6. ASSUME NEW j \in 1..(l + 1)
            PROVE  e[j] \in I /\ e[j] <= m /\ f[m][j] = s[e[j]]
        <4>1. CASE j \in 1..l
          <5>1. h[j] \in I /\ h[j] <= n /\ f[n][j] = s[h[j]] /\ h[j] \in 1..N
            BY <2>4, <4>1
          <5>2. e[j] = h[j] /\ f[m][j] = f[n][j]
            BY <3>2, <3>3, <4>1
          <5> QED
            BY <5>1, <5>2 DEF m
        <4>2. CASE j = l + 1
          <5>1. e[j] = m /\ f[m][j] = s[m] /\ m \in 1..N
            BY <2>2, <3>2, <3>3, <4>2
          <5> QED
            BY <2>7, <5>1
        <4> QED
          BY <3>4, <4>1, <4>2
      <3>7. ASSUME NEW j \in 1..(l + 1), NEW k \in 1..(l + 1), j < k
            PROVE  e[j] < e[k]
        <4>1. j \in 1..l
          BY <3>4, <3>7
        <4>2. CASE k \in 1..l
          BY <2>4, <3>2, <3>7, <4>1, <4>2
        <4>3. CASE k = l + 1
          <5>1. e[j] = h[j] /\ h[j] <= n /\ h[j] \in 1..N /\ e[k] = n + 1
            BY <2>4, <3>2, <4>1, <4>3 DEF m
          <5> QED
            BY <5>1
        <4> QED
          BY <3>4, <4>2, <4>3
      <3>8. ASSUME NEW i \in I \cap (1..m)
            PROVE  \E j \in 1..(l + 1) : e[j] = i
        <4>1. CASE i \in 1..n
          BY <2>4, <3>2, <3>5, <4>1
        <4>2. CASE i = m
          <5>1. l + 1 \in 1..(l + 1)
            BY <3>4
          <5> QED
            BY <3>2, <4>2, <5>1
        <4> QED
          BY <2>5, <4>1, <4>2
      <3>9. Good(m, e)
        BY <3>2, <3>3, <3>6, <3>7, <3>8
      <3> HIDE DEF Good
      <3> QED
        BY <2>2, <3>9 DEF m
    <2>8. CASE m \notin I
      <3>1. f[m] = f[n]
        BY <2>3, <2>8
      <3>2. \A i \in I \cap (1..m) : i \in I \cap (1..n)
        BY <2>5, <2>8
      <3>3. \A j \in 1..Len(h) : h[j] <= m
        BY <2>4 DEF m
      <3>4. Good(m, h)
        BY <2>4, <3>1, <3>2, <3>3
      <3> HIDE DEF Good
      <3> QED
        BY <2>2, <3>4 DEF m
    <2> QED
      BY <2>7, <2>8
  <1>5. N \in P
    <2> HIDE DEF P
    <2>1. \A n \in 0..N : n \in P
      BY <1>1, <1>3, <1>4, SetInduction
    <2> QED
      BY <1>1, <2>1
  <1>6. PICK h : Good(N, h)
    BY <1>5
  <1>7. /\ f[N] \in Seq(S) /\ h \in Seq(1..N) /\ Len(h) = Len(f[N])
        /\ \A j \in 1..Len(h) : h[j] \in I /\ f[N][j] = s[h[j]]
        /\ \A j, k \in 1..Len(h) : j < k => h[j] < h[k]
        /\ \A i \in I \cap (1..N) : \E j \in 1..Len(h) : h[j] = i
    BY <1>6
  <1> HIDE DEF Good, P
  <1>8. KeepAt(s, I) = f[N]
    BY <1>2
  <1> DEFINE r == f[N]
  <1>9. KeepAt(s, I) = r
    BY <1>8
  <1> HIDE DEF r
  <1> QED
    BY <1>7, <1>9 DEF r

\* The same, with a name for what is kept.
LEMMA KeptOrder ==
    ASSUME NEW S, NEW s \in Seq(S), NEW I, NEW kept, kept = KeepAt(s, I)
    PROVE  \E h \in Seq(1..Len(s)) :
              /\ Len(h) = Len(kept)
              /\ \A j \in 1..Len(h) : h[j] \in I /\ kept[j] = s[h[j]]
              /\ \A j, k \in 1..Len(h) : j < k => h[j] < h[k]
              /\ \A i \in I \cap (1..Len(s)) : \E j \in 1..Len(h) : h[j] = i
  <1>1. PICK h \in Seq(1..Len(s)) :
            /\ Len(h) = Len(KeepAt(s, I))
            /\ \A j \in 1..Len(h) : h[j] \in I /\ KeepAt(s, I)[j] = s[h[j]]
            /\ \A j, k \in 1..Len(h) : j < k => h[j] < h[k]
            /\ \A i \in I \cap (1..Len(s)) : \E j \in 1..Len(h) : h[j] = i
    BY KeepAtOrder
  <1>2. /\ Len(h) = Len(kept)
        /\ \A j \in 1..Len(h) : h[j] \in I /\ kept[j] = s[h[j]]
        /\ \A j, k \in 1..Len(h) : j < k => h[j] < h[k]
        /\ \A i \in I \cap (1..Len(s)) : \E j \in 1..Len(h) : h[j] = i
    BY <1>1
  <1> QED
    BY <1>2, Zenon

\* Keep returns a sequence of exactly the members that are in the set.
LEMMA KeepMembers ==
    ASSUME NEW S, NEW s \in Seq(S), NEW T
    PROVE  /\ Keep(s, T) \in Seq(S)
           /\ \A j \in 1..Len(Keep(s, T)) :
                 Keep(s, T)[j] \in T /\ \E i \in 1..Len(s) : Keep(s, T)[j] = s[i]
           /\ \A i \in 1..Len(s) :
                 s[i] \in T => \E j \in 1..Len(Keep(s, T)) : Keep(s, T)[j] = s[i]
  <1> DEFINE I == {i \in 1..Len(s) : s[i] \in T}
             k == KeepAt(s, I)
  <1>1. Keep(s, T) = k
    BY DEF Keep
  <1>2. \A i \in 1..Len(s) : s[i] \in T <=> i \in I
    OBVIOUS
  <1>3. I \subseteq 1..Len(s)
    OBVIOUS
  <1> HIDE DEF I, k
  <1>0. k = KeepAt(s, I)
    BY DEF k
  <1>4. /\ k \in Seq(S)
        /\ \E h \in Seq(1..Len(s)) :
              /\ Len(h) = Len(k)
              /\ \A j \in 1..Len(h) : h[j] \in I /\ k[j] = s[h[j]]
              /\ \A i \in I \cap (1..Len(s)) : \E j \in 1..Len(h) : h[j] = i
    BY <1>0, KeepAtOrder
  <1>5. PICK h \in Seq(1..Len(s)) :
              /\ Len(h) = Len(k)
              /\ \A j \in 1..Len(h) : h[j] \in I /\ k[j] = s[h[j]]
              /\ \A i \in I \cap (1..Len(s)) : \E j \in 1..Len(h) : h[j] = i
    BY <1>4
  <1>6. ASSUME NEW j \in 1..Len(k)
        PROVE  k[j] \in T /\ \E i \in 1..Len(s) : k[j] = s[i]
    <2>1. h[j] \in I /\ k[j] = s[h[j]]
      BY <1>5
    <2> QED
      BY <1>2, <1>3, <2>1
  <1>7. ASSUME NEW i \in 1..Len(s), s[i] \in T
        PROVE  \E j \in 1..Len(k) : k[j] = s[i]
    <2>1. i \in I \cap (1..Len(s))
      BY <1>2, <1>7
    <2>2. PICK j \in 1..Len(h) : h[j] = i
      BY <1>5, <2>1
    <2> QED
      BY <1>5, <2>2
  <1> QED
    BY <1>1, <1>4, <1>6, <1>7

\* The members of a sequence with one more element.
LEMMA AppendMembers ==
    ASSUME NEW S, NEW s \in Seq(S), NEW e \in S
    PROVE  {Append(s, e)[j] : j \in 1..Len(Append(s, e))} = {s[j] : j \in 1..Len(s)} \cup {e}
  <1>1. Len(Append(s, e)) = Len(s) + 1 /\ Len(s) \in Nat
    OBVIOUS
  <1>2. \A j \in 1..Len(s) : Append(s, e)[j] = s[j]
    OBVIOUS
  <1>3. Append(s, e)[Len(s) + 1] = e
    OBVIOUS
  <1> DEFINE a == Append(s, e)
             n == Len(s)
  <1>4. \A j \in 1..n : a[j] = s[j] /\ a[n + 1] = e
    BY <1>2, <1>3
  <1>5. 1..(n + 1) = (1..n) \cup {n + 1}
    BY <1>1
  <1>6. Len(a) = n + 1
    BY <1>1
  <1> HIDE DEF a, n
  <1>7. {a[j] : j \in 1..Len(a)} = {a[j] : j \in 1..n} \cup {a[n + 1]}
    BY <1>5, <1>6, Zenon
  <1>8. {a[j] : j \in 1..n} = {s[j] : j \in 1..n}
    BY <1>4, Zenon
  <1>9. a[n + 1] = e
    BY <1>3 DEF a, n
  <1> QED
    BY <1>7, <1>8, <1>9, Zenon DEF a, n

\* A set of positions that is not empty has a last one.
LEMMA MaxPosition ==
    ASSUME NEW n \in Nat, NEW I \in SUBSET (1..n), I # {}
    PROVE  Max(I) \in I
  <1> DEFINE T == {n - i : i \in I}
  <1>1. T \in SUBSET Nat /\ T # {}
    <2>1. \A i \in I : i \in 1..n /\ n - i \in Nat
      OBVIOUS
    <2>2. PICK i \in I : TRUE
      OBVIOUS
    <2>3. n - i \in T
      BY <2>2
    <2> QED
      BY <2>1, <2>3
  <1>2. PICK t \in T : \A u \in T : t <= u
    <2> HIDE DEF T
    <2> QED
      BY <1>1, LeastNat
  <1>3. n - t \in I /\ \A i \in I : n - t >= i
    BY <1>2
  <1> QED
    BY <1>3 DEF Max

\* A function on the first numbers is a sequence.
LEMMA FunctionIsSequence ==
    ASSUME NEW n \in Nat, NEW S, NEW f \in [1..n -> S]
    PROVE  f \in Seq(S) /\ Len(f) = n
  OBVIOUS

\* Where the members are when a sequence is put behind another one.
LEMMA ConcatPositions ==
    ASSUME NEW S, NEW s \in Seq(S), NEW t \in Seq(S)
    PROVE  /\ s \o t \in Seq(S)
           /\ Len(s \o t) = Len(s) + Len(t)
           /\ \A i \in 1..Len(s) : (s \o t)[i] = s[i]
           /\ \A i \in 1..Len(t) : (s \o t)[Len(s) + i] = t[i]
  <1>1. s \o t \in Seq(S) /\ Len(s \o t) = Len(s) + Len(t)
    OBVIOUS
  <1>2. \A i \in 1..Len(s) : (s \o t)[i] = s[i]
    OBVIOUS
  <1>3. \A i \in 1..Len(t) : (s \o t)[Len(s) + i] = t[i]
    OBVIOUS
  <1> QED
    BY <1>1, <1>2, <1>3

\* The members of a sequence behind another one.
LEMMA ConcatMembers ==
    ASSUME NEW S, NEW s \in Seq(S), NEW t \in Seq(S)
    PROVE  s \o t \in Seq(S) /\ Range(s \o t) = Range(s) \cup Range(t)
  <1> DEFINE m == Len(s)
             n == Len(t)
             u == s \o t
  <1>1. u \in Seq(S) /\ Len(u) = m + n /\ m \in Nat /\ n \in Nat
    OBVIOUS
  <1>2. \A j \in 1..m : u[j] = s[j]
    OBVIOUS
  <1>3. \A j \in 1..n : u[m + j] = t[j]
    OBVIOUS
  <1>4. DOMAIN u = 1..(m + n) /\ DOMAIN s = 1..m /\ DOMAIN t = 1..n
    BY <1>1
  <1> HIDE DEF m, n, u
  <1>5. \A j \in 1..(m + n) : j \in 1..m \/ (j - m \in 1..n /\ j = m + (j - m))
    BY <1>1
  <1>6. \A j \in 1..n : m + j \in 1..(m + n)
    BY <1>1
  <1>7. \A j \in 1..m : j \in 1..(m + n)
    BY <1>1
  <1>8. Range(u) \subseteq Range(s) \cup Range(t)
    BY <1>2, <1>3, <1>4, <1>5 DEF Range
  <1>9. Range(s) \subseteq Range(u)
    BY <1>2, <1>4, <1>7 DEF Range
  <1>10. Range(t) \subseteq Range(u)
    BY <1>3, <1>4, <1>6 DEF Range
  <1> QED
    BY <1>1, <1>8, <1>9, <1>10 DEF u

\* The members of a sequence that is not empty.
LEMMA TailMembers ==
    ASSUME NEW S, NEW s \in Seq(S), s # <<>>
    PROVE  /\ Head(s) \in S /\ Tail(s) \in Seq(S)
           /\ Range(s) = {Head(s)} \cup Range(Tail(s))
  <1> DEFINE n == Len(s)
             t == Tail(s)
  <1>1. /\ n \in Nat /\ n > 0 /\ Head(s) = s[1] /\ s[1] \in S
        /\ t \in Seq(S) /\ Len(t) = n - 1
    OBVIOUS
  <1>2. \A j \in 1..(n - 1) : t[j] = s[j + 1]
    OBVIOUS
  <1>3. DOMAIN s = 1..n /\ DOMAIN t = 1..(n - 1)
    BY <1>1
  <1> HIDE DEF n, t
  <1>4. \A j \in 1..n : j = 1 \/ (j - 1 \in 1..(n - 1) /\ j = (j - 1) + 1)
    BY <1>1
  <1>5. 1 \in 1..n /\ \A j \in 1..(n - 1) : j + 1 \in 1..n
    BY <1>1
  <1>6. Range(s) \subseteq {s[1]} \cup Range(t)
    BY <1>2, <1>3, <1>4 DEF Range
  <1>7. {s[1]} \cup Range(t) \subseteq Range(s)
    BY <1>2, <1>3, <1>5 DEF Range
  <1> QED
    BY <1>1, <1>6, <1>7 DEF t

\* A sequence is one of its members.
LEMMA SequenceOfRange ==
    ASSUME NEW S, NEW s \in Seq(S), NEW T, Range(s) \subseteq T
    PROVE  s \in Seq(T)
  <1>1. Len(s) \in Nat /\ DOMAIN s = 1..Len(s)
    OBVIOUS
  <1>2. s \in [1..Len(s) -> T]
    BY <1>1 DEF Range
  <1> QED
    BY <1>1, <1>2, FunctionIsSequence

\* The members KeepAt returns.
LEMMA KeepAtMembers ==
    ASSUME NEW S, NEW s \in Seq(S), NEW I
    PROVE  /\ KeepAt(s, I) \in Seq(S)
           /\ Range(KeepAt(s, I)) = {s[i] : i \in I \cap (1..Len(s))}
  <1> DEFINE k == KeepAt(s, I)
             J == I \cap (1..Len(s))
  <1>1. /\ k \in Seq(S)
        /\ \E h \in Seq(1..Len(s)) :
              /\ Len(h) = Len(k)
              /\ \A j \in 1..Len(h) : h[j] \in I /\ k[j] = s[h[j]]
              /\ \A i \in J : \E j \in 1..Len(h) : h[j] = i
    <2>1. k = KeepAt(s, I)
      OBVIOUS
    <2> HIDE DEF k
    <2> QED
      BY <2>1, KeepAtOrder
  <1> HIDE DEF k
  <1>2. PICK h \in Seq(1..Len(s)) :
              /\ Len(h) = Len(k)
              /\ \A j \in 1..Len(h) : h[j] \in I /\ k[j] = s[h[j]]
              /\ \A i \in J : \E j \in 1..Len(h) : h[j] = i
    BY <1>1
  <1>3. DOMAIN k = 1..Len(h)
    BY <1>1, <1>2
  <1>4. \A j \in 1..Len(h) : h[j] \in J
    BY <1>2
  <1> HIDE DEF J
  <1>5. Range(k) \subseteq {s[i] : i \in J}
    BY <1>2, <1>3, <1>4 DEF Range
  <1>6. {s[i] : i \in J} \subseteq Range(k)
    BY <1>2, <1>3 DEF Range
  <1> QED
    BY <1>1, <1>5, <1>6 DEF k, J

\* KeepFirst returns the members that are in the set.
LEMMA KeepFirstMembers ==
    ASSUME NEW S, NEW s \in Seq(S), NEW T
    PROVE  KeepFirst(s, T) \in Seq(S) /\ Range(KeepFirst(s, T)) = Range(s) \cap T
  <1> DEFINE I == {i \in 1..Len(s) : s[i] \in T /\ \A j \in 1..(i - 1) : s[j] # s[i]}
             k == KeepFirst(s, T)
  <1>1. k \in Seq(S) /\ Range(k) = {s[i] : i \in I \cap (1..Len(s))}
    <2>1. k = KeepAt(s, I)
      BY DEF KeepFirst
    <2> HIDE DEF k, I
    <2> QED
      BY <2>1, KeepAtMembers
  <1>2. DOMAIN s = 1..Len(s)
    OBVIOUS
  <1>3. ASSUME NEW i \in 1..Len(s), s[i] \in T
        PROVE  \E j \in I : s[j] = s[i]
    <2> DEFINE Same == {j \in 1..Len(s) : s[j] = s[i]}
    <2>1. Same \in SUBSET Nat /\ Same # {}
      OBVIOUS
    <2>2. PICK j \in Same : \A l \in Same : j <= l
      <3> HIDE DEF Same
      <3> QED
        BY <2>1, LeastNat
    <2>3. ASSUME NEW l \in 1..(j - 1)
          PROVE  s[l] # s[j]
      <3>1. l \in 1..Len(s) /\ ~(j <= l)
        BY <2>2
      <3> QED
        BY <2>2, <3>1
    <2>4. j \in I
      BY <1>3, <2>2, <2>3
    <2> HIDE DEF I
    <2> QED
      BY <2>2, <2>4
  <1>4. \A i \in I : i \in 1..Len(s) /\ s[i] \in T
    OBVIOUS
  <1> HIDE DEF I, k
  <1>5. Range(k) \subseteq Range(s) \cap T
    BY <1>1, <1>2, <1>4 DEF Range
  <1>6. Range(s) \cap T \subseteq Range(k)
    <2> SUFFICES ASSUME NEW i \in 1..Len(s), s[i] \in T
                 PROVE  s[i] \in Range(k)
      BY <1>2 DEF Range
    <2>1. PICK j \in I : s[j] = s[i]
      BY <1>3
    <2> QED
      BY <1>1, <1>4, <2>1
  <1> QED
    BY <1>1, <1>5, <1>6 DEF k

\* The recursive function behind FlattenSeq exists and keeps its promise.
LEMMA FlattenSteps ==
    ASSUME NEW S, NEW ss \in Seq(Seq(S)), Len(ss) # 0
    PROVE  \E f : /\ f[1] = ss[1]
                  /\ \A i \in 2..Len(ss) : f[i] = f[i - 1] \o ss[i]
                  /\ FlattenSeq(ss) = f[Len(ss)]
  <1> DEFINE N == Len(ss)
             V == Seq(S)
             G == [i \in 1..N |-> [r \in V |-> r \o ss[i]]]
             b == <<>>
             next(f, i) == IF i = 1 THEN ss[i] ELSE f[i - 1] \o ss[i]
  <1>1. N \in Nat /\ N # 0 /\ b \in V /\ \A i \in 1..N : ss[i] \in V
    OBVIOUS
  <1>2. G \in [1..N -> [V -> V]]
    OBVIOUS
  <1>3. PICK f \in [0..N -> V] : f[0] = b /\ \A i \in 1..N : f[i] = G[i][f[i - 1]]
    <2>1. HasSteps(N, V, b, G)
      <3> HIDE DEF N, V, G, b
      <3>1. N \in Nat /\ b \in V
        BY <1>1
      <3> QED
        BY <1>2, <3>1, RecursiveFunction
    <2> HIDE DEF N, V, G, b
    <2> QED
      BY <2>1 DEF HasSteps
  <1>4. ASSUME NEW i \in 1..N
        PROVE  i - 1 \in 0..N /\ f[i - 1] \in V /\ f[i] = f[i - 1] \o ss[i]
    <2>1. i - 1 \in 0..N
      OBVIOUS
    <2>2. f[i - 1] \in V
      <3> HIDE DEF V
      <3> QED
        BY <1>3, <2>1
    <2>3. G[i] = [r \in V |-> r \o ss[i]] /\ f[i] = G[i][f[i - 1]]
      <3> HIDE DEF V
      <3> QED
        BY <1>3
    <2> HIDE DEF G, V
    <2> QED
      BY <2>1, <2>2, <2>3
  <1>5. f[0] = <<>> /\ \A r \in V : <<>> \o r = r
    BY <1>3
  <1> DEFINE g == [i \in 1..N |-> f[i]]
  <1>6. ASSUME NEW i \in 1..N PROVE f[i] = next(g, i)
    <2>1. CASE i = 1
      <3>1. f[1] = f[0] \o ss[1] /\ ss[1] \in V
        <4>1. 1 - 1 = 0 /\ 1 \in 1..N
          BY <1>1
        <4> HIDE DEF G, V
        <4> QED
          BY <1>1, <1>4, <4>1
      <3> QED
        BY <1>5, <2>1, <3>1
    <2>2. CASE i # 1
      <3>1. i - 1 \in 1..N
        BY <2>2
      <3>2. g[i - 1] = f[i - 1]
        BY <3>1
      <3> HIDE DEF g
      <3> QED
        BY <1>4, <2>2, <3>2
    <2> QED
      BY <2>1, <2>2
  <1>7. g = [i \in 1..Len(ss) |-> next(g, i)]
    <2> HIDE DEF next
    <2> QED
      BY <1>6
  <1> DEFINE flatten == CHOOSE h : h = [i \in 1..Len(ss) |-> next(h, i)]
  <1>8. flatten = [i \in 1..Len(ss) |-> next(flatten, i)]
    <2> HIDE DEF g
    <2> QED
      BY <1>7
  <1>9. FlattenSeq(ss) = flatten[Len(ss)]
    BY <1>1 DEF FlattenSeq
  <1> HIDE DEF flatten
  <1>10. flatten[1] = ss[1]
    BY <1>1, <1>8
  <1>11. ASSUME NEW i \in 2..Len(ss)
         PROVE  flatten[i] = flatten[i - 1] \o ss[i]
    <2>1. i \in 1..Len(ss) /\ i # 1
      OBVIOUS
    <2>2. flatten[i] = next(flatten, i)
      BY <1>8, <2>1
    <2> QED
      BY <2>1, <2>2
  <1> QED
    BY <1>9, <1>10, <1>11

\* The members of a flattened sequence are those of its members.
LEMMA FlattenMembers ==
    ASSUME NEW S, NEW ss \in Seq(Seq(S))
    PROVE  /\ FlattenSeq(ss) \in Seq(S)
           /\ Range(FlattenSeq(ss)) = UNION {Range(ss[i]) : i \in 1..Len(ss)}
  <1> DEFINE N == Len(ss)
  <1>1. N \in Nat /\ \A i \in 1..N : ss[i] \in Seq(S)
    OBVIOUS
  <1>2. CASE N = 0
    <2>1. FlattenSeq(ss) = ss /\ ss = <<>>
      BY <1>2 DEF FlattenSeq
    <2>2. Range(ss) = {} /\ 1..Len(ss) = {} /\ ss \in Seq(S)
      BY <2>1 DEF Range
    <2> QED
      BY <2>1, <2>2
  <1>3. CASE N # 0
    <2>1. PICK f : /\ f[1] = ss[1]
                   /\ \A i \in 2..N : f[i] = f[i - 1] \o ss[i]
                   /\ FlattenSeq(ss) = f[N]
      BY <1>3, FlattenSteps
    <2> DEFINE All(n) == UNION {Range(ss[i]) : i \in 1..n}
               P == {n \in 0..N : n > 0 => f[n] \in Seq(S) /\ Range(f[n]) = All(n)}
    <2>2. 0 \in P
      BY <1>1
    <2>3. ASSUME NEW n \in 0..N, n \in P, n < N
          PROVE  n + 1 \in P
      <3>1. CASE n = 0
        <4>1. f[1] \in Seq(S) /\ 1..1 = {1}
          BY <1>1, <1>3, <2>1
        <4>2. All(1) = Range(ss[1])
          BY <4>1
        <4> HIDE DEF All
        <4> QED
          BY <1>1, <1>3, <2>1, <3>1, <4>1, <4>2
      <3>2. CASE n # 0
        <4> DEFINE m == n + 1
        <4>1. m \in 2..N /\ m - 1 = n /\ m \in 1..N /\ n > 0 /\ m \in 0..N
          BY <2>3, <3>2, <1>1
        <4>2. f[n] \in Seq(S) /\ Range(f[n]) = All(n)
          BY <2>3, <4>1
        <4>3. 1..m = (1..n) \cup {m}
          BY <4>1
        <4> HIDE DEF m
        <4>4. f[m] = f[n] \o ss[m] /\ ss[m] \in Seq(S)
          BY <1>1, <2>1, <4>1
        <4>5. All(m) = All(n) \cup Range(ss[m])
          BY <4>3
        <4> HIDE DEF All
        <4>6. f[m] \in Seq(S) /\ Range(f[m]) = All(m)
          BY <4>2, <4>4, <4>5, ConcatMembers
        <4>7. m \in P
          BY <4>1, <4>6
        <4> HIDE DEF P
        <4> QED
          BY <4>7 DEF m
      <3> QED
        BY <3>1, <3>2
    <2>4. \A n \in 0..N : n \in P
      <3> HIDE DEF P, N
      <3> QED
        BY <1>1, <2>2, <2>3, SetInduction
    <2>5. N \in 0..N /\ N > 0
      BY <1>1, <1>3
    <2>6. N \in P
      <3> HIDE DEF P, N
      <3> QED
        BY <2>4, <2>5
    <2> QED
      BY <2>1, <2>5, <2>6
  <1> QED
    BY <1>2, <1>3

\* KeepAt of a sequence that is one longer.
LEMMA KeepAtAppend ==
    ASSUME NEW S, NEW s \in Seq(S), NEW e \in S, NEW I, NEW J,
           \A i \in 1..Len(s) : i \in I <=> i \in J
    PROVE  KeepAt(Append(s, e), J) =
              IF Len(s) + 1 \in J THEN Append(KeepAt(s, I), e) ELSE KeepAt(s, I)
  <1> DEFINE u == Append(s, e)
             N == Len(s)
  <1>1. u \in Seq(S) /\ Len(u) = N + 1 /\ N \in Nat /\ u[N + 1] = e
    OBVIOUS
  <1>2. \A i \in 1..N : u[i] = s[i]
    OBVIOUS
  <1>3. PICK f : /\ f[0] = <<>>
                 /\ \A i \in 1..Len(s) :
                       f[i] = IF i \in I THEN Append(f[i - 1], s[i]) ELSE f[i - 1]
                 /\ KeepAt(s, I) = f[Len(s)]
    BY KeepSteps
  <1>4. PICK g : /\ g[0] = <<>>
                 /\ \A i \in 1..Len(u) :
                       g[i] = IF i \in J THEN Append(g[i - 1], u[i]) ELSE g[i - 1]
                 /\ KeepAt(u, J) = g[Len(u)]
    <2> HIDE DEF u
    <2> QED
      BY <1>1, KeepSteps
  <1> DEFINE P == {n \in 0..N : f[n] = g[n]}
  <1> HIDE DEF u, N
  <1>5. 0 \in P
    BY <1>1, <1>3, <1>4
  <1>6. ASSUME NEW n \in 0..N, n \in P, n < N PROVE n + 1 \in P
    <2> DEFINE k == n + 1
    <2>1. k \in 1..N /\ k - 1 = n /\ k \in 0..N
      BY <1>1, <1>6
    <2> HIDE DEF k
    <2>2. f[k] = IF k \in I THEN Append(f[n], s[k]) ELSE f[n]
      BY <1>3, <2>1 DEF N
    <2>3. k \in 1..Len(u)
      BY <1>1, <2>1
    <2>4. g[k] = IF k \in J THEN Append(g[n], u[k]) ELSE g[n]
      BY <1>4, <2>1, <2>3
    <2>5. (k \in I <=> k \in J) /\ u[k] = s[k] /\ f[n] = g[n]
      BY <1>2, <1>6, <2>1 DEF N
    <2>6. f[k] = g[k]
      BY <2>2, <2>4, <2>5
    <2> QED
      BY <2>1, <2>6 DEF k
  <1>7. \A n \in 0..N : n \in P
    <2> HIDE DEF P
    <2> QED
      BY <1>1, <1>5, <1>6, SetInduction
  <1>8. f[N] = g[N]
    BY <1>1, <1>7
  <1> DEFINE k == N + 1
  <1>9. k \in 1..Len(u) /\ k - 1 = N /\ k = Len(u)
    BY <1>1
  <1>10. g[k] = IF k \in J THEN Append(g[N], u[k]) ELSE g[N]
    <2> HIDE DEF k
    <2> QED
      BY <1>4, <1>9
  <1>11. KeepAt(u, J) = IF k \in J THEN Append(KeepAt(s, I), e) ELSE KeepAt(s, I)
    BY <1>1, <1>3, <1>4, <1>8, <1>9, <1>10 DEF N
  <1> QED
    BY <1>11 DEF u, N

LEMMA KeepAtEmpty == ASSUME NEW I PROVE KeepAt(<<>>, I) = <<>>
  <1> DEFINE s == <<>>
  <1>1. s \in Seq({}) /\ Len(s) = 0
    OBVIOUS
  <1> HIDE DEF s
  <1>2. PICK f : /\ f[0] = <<>>
                 /\ \A i \in 1..Len(s) :
                       f[i] = IF i \in I THEN Append(f[i - 1], s[i]) ELSE f[i - 1]
                 /\ KeepAt(s, I) = f[Len(s)]
    BY <1>1, KeepSteps
  <1> QED
    BY <1>1, <1>2 DEF s

\* FlattenSeq of a sequence that is one longer.
LEMMA FlattenAppend ==
    ASSUME NEW S, NEW ss \in Seq(Seq(S)), NEW t \in Seq(S)
    PROVE  FlattenSeq(Append(ss, t)) = FlattenSeq(ss) \o t
  <1> DEFINE u == Append(ss, t)
             N == Len(ss)
  <1>1. u \in Seq(Seq(S)) /\ Len(u) = N + 1 /\ N \in Nat /\ u[N + 1] = t
    OBVIOUS
  <1>2. \A i \in 1..N : u[i] = ss[i]
    OBVIOUS
  <1>3. PICK g : /\ g[1] = u[1]
                 /\ \A i \in 2..Len(u) : g[i] = g[i - 1] \o u[i]
                 /\ FlattenSeq(u) = g[Len(u)]
    <2>1. Len(u) # 0
      BY <1>1
    <2> HIDE DEF u
    <2> QED
      BY <1>1, <2>1, FlattenSteps
  <1>4. CASE N = 0
    <2>1. FlattenSeq(ss) = <<>>
      <3>1. ss = <<>>
        BY <1>4
      <3> QED
        BY <3>1 DEF FlattenSeq
    <2>2. <<>> \o t = t
      OBVIOUS
    <2>3. FlattenSeq(u) = t
      <3> HIDE DEF u, N
      <3> QED
        BY <1>1, <1>3, <1>4
    <2> QED
      BY <2>1, <2>2, <2>3
  <1>5. CASE N # 0
    <2>1. PICK f : /\ f[1] = ss[1]
                   /\ \A i \in 2..Len(ss) : f[i] = f[i - 1] \o ss[i]
                   /\ FlattenSeq(ss) = f[Len(ss)]
      BY <1>5, FlattenSteps
    <2> DEFINE P == {n \in 0..N : n = 0 \/ f[n] = g[n]}
    <2> HIDE DEF u, N
    <2>2. 0 \in P
      BY <1>1
    <2>3. ASSUME NEW n \in 0..N, n \in P, n < N PROVE n + 1 \in P
      <3> DEFINE k == n + 1
      <3>1. k \in 1..N /\ k - 1 = n /\ k \in 0..N
        BY <1>1, <2>3
      <3> HIDE DEF k
      <3>2. CASE n = 0
        <4>1. k = 1 /\ u[1] = ss[1]
          BY <1>2, <3>1, <3>2
        <4> QED
          BY <1>3, <2>1, <3>1, <4>1 DEF k
      <3>3. CASE n # 0
        <4>1. k \in 2..N /\ k \in 2..Len(u)
          BY <1>1, <3>1, <3>3
        <4>2. f[k] = f[n] \o ss[k] /\ g[k] = g[n] \o u[k] /\ u[k] = ss[k]
          BY <1>2, <1>3, <2>1, <3>1, <4>1 DEF N
        <4>3. f[n] = g[n]
          BY <2>3, <3>3
        <4> QED
          BY <3>1, <4>2, <4>3 DEF k
      <3> QED
        BY <3>2, <3>3
    <2>4. \A n \in 0..N : n \in P
      <3> HIDE DEF P
      <3> QED
        BY <1>1, <2>2, <2>3, SetInduction
    <2>5. f[N] = g[N]
      BY <1>1, <1>5, <2>4
    <2> DEFINE k == N + 1
    <2>6. k \in 2..Len(u) /\ k - 1 = N /\ k = Len(u)
      BY <1>1, <1>5
    <2>7. g[k] = g[N] \o u[k]
      <3> HIDE DEF k
      <3> QED
        BY <1>3, <2>6
    <2>8. FlattenSeq(u) = FlattenSeq(ss) \o t
      BY <1>1, <1>3, <2>1, <2>5, <2>6, <2>7 DEF N
    <2> QED
      BY <2>8 DEF u
  <1> QED
    BY <1>4, <1>5

\* The beginnings of a sequence.
LEMMA PrefixFacts ==
    ASSUME NEW S, NEW s \in Seq(S)
    PROVE  /\ SubSeq(s, 1, 0) = <<>>
           /\ SubSeq(s, 1, Len(s)) = s
           /\ \A n \in 0..Len(s) : SubSeq(s, 1, n) \in Seq(S) /\ Len(SubSeq(s, 1, n)) = n
           /\ \A n \in 1..Len(s) :
                 SubSeq(s, 1, n) = Append(SubSeq(s, 1, n - 1), s[n]) /\ s[n] \in S
  <1>1. SubSeq(s, 1, 0) = <<>>
    OBVIOUS
  <1>2. SubSeq(s, 1, Len(s)) = s
    OBVIOUS
  <1>3. \A n \in 0..Len(s) : SubSeq(s, 1, n) \in Seq(S) /\ Len(SubSeq(s, 1, n)) = n
    OBVIOUS
  <1>4. \A n \in 1..Len(s) :
            SubSeq(s, 1, n) = Append(SubSeq(s, 1, n - 1), s[n]) /\ s[n] \in S
    OBVIOUS
  <1> QED
    BY <1>1, <1>2, <1>3, <1>4
=============================================================================
