--------------------------- MODULE FixOverlapsProofs ---------------------------
(***************************************************************************)
(* Theorems about the passes of FixOverlaps, for every code, any number of *)
(* blocks and every order of them in the module.                           *)
(*                                                                         *)
(* The invariant has three parts.  ModuleInv is about the list of the      *)
(* functions while TransformBBToVoid goes through it.  CodeInv says which  *)
(* operations each function has: those of the kinds that the passes so far *)
(* have left, of the instructions of its block, in their order, up to      *)
(* where the function is linked.  LinksInv says which functions are linked *)
(* and why a pass has stopped opt.  The first two sections are about what  *)
(* QEMU translates and about single functions, whatever the state is.      *)
(***************************************************************************)
EXTENDS FixOverlaps, SeqFilterProofs

----------------------------------------------------------------------------
(* The instructions of blocks, and sequences of addresses.                 *)

\* Instructions one behind the other, none but the last of which ends a block.
Chain(m, s, q) ==
    /\ q \in Seq(Addr) /\ Len(q) >= 1 /\ q[1] = s
    /\ \A i \in 1..(Len(q) - 1) : ~EndsBlock(m, q[i]) /\ q[i + 1] = q[i] + m[q[i]].len

\* An instruction is one or two units long, and the next one is in the code
\* unless the block ends.
LEMMA MemoryFacts ==
    ASSUME NEW m \in Memories, NEW p \in Addr
    PROVE  /\ p \in Nat /\ m[p].len \in {1, 2} /\ m[p].work \in BOOLEAN
           /\ ~EndsBlock(m, p) => p + m[p].len \in Addr
  <1>1. m[p] \in Instruction
    BY InputsAssumption
  <1>2. p \in Nat /\ m[p].len \in {1, 2} /\ m[p].work \in BOOLEAN
    BY <1>1, SizesAssumption DEF Instruction, Addr
  <1> QED
    BY <1>2, SizesAssumption DEF EndsBlock, Addr

\* A chain can be continued.
LEMMA ChainAppend ==
    ASSUME NEW m \in Memories, NEW s, NEW q, Chain(m, s, q), ~EndsBlock(m, Last(q))
    PROVE  LET r == Append(q, Last(q) + m[Last(q)].len)
           IN  Chain(m, s, r) /\ Len(r) = Len(q) + 1
  <1> DEFINE p == Last(q)
             e == p + m[p].len
             r == Append(q, e)
  <1>1. /\ q \in Seq(Addr) /\ Len(q) \in Nat /\ Len(q) >= 1 /\ q[1] = s
        /\ \A i \in 1..(Len(q) - 1) : ~EndsBlock(m, q[i]) /\ q[i + 1] = q[i] + m[q[i]].len
    BY DEF Chain
  <1>2. p = q[Len(q)] /\ p \in Addr
    BY <1>1 DEF Last
  <1>3. e \in Addr
    BY <1>2, MemoryFacts
  <1> HIDE DEF e
  <1>4. r \in Seq(Addr) /\ Len(r) = Len(q) + 1 /\ r[Len(q) + 1] = e
        /\ \A i \in 1..Len(q) : r[i] = q[i]
    BY <1>1, <1>3
  <1> HIDE DEF r
  <1>5. r[1] = s /\ Len(r) >= 1
    BY <1>1, <1>4
  <1>6. ASSUME NEW i \in 1..(Len(r) - 1)
        PROVE  ~EndsBlock(m, r[i]) /\ r[i + 1] = r[i] + m[r[i]].len
    <2>1. i \in 1..Len(q) /\ r[i] = q[i]
      BY <1>1, <1>4
    <2>2. CASE i = Len(q)
      BY <1>2, <1>4, <2>1, <2>2 DEF e
    <2>3. CASE i # Len(q)
      <3>1. i \in 1..(Len(q) - 1) /\ i + 1 \in 1..Len(q)
        BY <1>1, <2>1, <2>3
      <3> QED
        BY <1>1, <1>4, <2>1, <3>1
    <2> QED
      BY <2>2, <2>3
  <1>7. Chain(m, s, r)
    BY <1>4, <1>5, <1>6 DEF Chain
  <1> QED
    BY <1>4, <1>7 DEF r, e

\* A block has the instructions from its start to the one that ends it, or as
\* many as QEMU puts in a block.
LEMMA InstructionsFacts ==
    ASSUME NEW m \in Memories, NEW s \in Addr
    PROVE  /\ Chain(m, s, Instructions(m, s))
           /\ EndsBlock(m, Last(Instructions(m, s))) \/ Len(Instructions(m, s)) = MaxInsts
  <1> DEFINE N == MaxInsts - 1
             V == Seq(Addr) \ {<<>>}
             step(q) == IF EndsBlock(m, Last(q)) THEN q
                        ELSE Append(q, Last(q) + m[Last(q)].len)
             G == [i \in 1..N |-> [q \in V |-> step(q)]]
             b == <<s>>
             after(f, n) == IF n = 0 THEN <<s>> ELSE step(f[n - 1])
  <1>1. N \in Nat /\ b \in V
    BY SizesAssumption
  <1>2. ASSUME NEW q \in V PROVE step(q) \in V
    <2>1. q \in Seq(Addr) /\ Len(q) \in Nat /\ Len(q) >= 1 /\ q[Len(q)] \in Addr
      OBVIOUS
    <2>2. CASE EndsBlock(m, Last(q))
      BY <2>2
    <2>3. CASE ~EndsBlock(m, Last(q))
      <3>1. Last(q) + m[Last(q)].len \in Addr
        BY <2>1, <2>3, MemoryFacts DEF Last
      <3> QED
        BY <2>1, <2>3, <3>1
    <2> QED
      BY <2>2, <2>3
  <1>3. G \in [1..N -> [V -> V]]
    <2> HIDE DEF step, V
    <2> QED
      BY <1>2
  <1>4. PICK f \in [0..N -> V] : f[0] = b /\ \A i \in 1..N : f[i] = G[i][f[i - 1]]
    <2> HIDE DEF N, V, G, b
    <2>1. HasSteps(N, V, b, G)
      BY <1>1, <1>3, RecursiveFunction
    <2> QED
      BY <2>1 DEF HasSteps
  <1>5. ASSUME NEW i \in 0..N PROVE f[i] = after(f, i)
    <2>1. CASE i = 0
      BY <1>4, <2>1
    <2>2. CASE i # 0
      <3>1. i \in 1..N /\ i - 1 \in 0..N
        BY <1>1, <2>2
      <3>2. f[i - 1] \in V
        BY <3>1
      <3>3. G[i][f[i - 1]] = step(f[i - 1])
        <4> HIDE DEF step, V
        <4> QED
          BY <3>1, <3>2
      <3> HIDE DEF G, step
      <3> QED
        BY <1>4, <2>2, <3>1, <3>3
    <2> QED
      BY <2>1, <2>2
  <1> DEFINE walk == CHOOSE h : h = [n \in 0..(MaxInsts - 1) |-> after(h, n)]
  <1>6. walk = [n \in 0..(MaxInsts - 1) |-> after(walk, n)]
    <2>1. f = [n \in 0..(MaxInsts - 1) |-> after(f, n)]
      <3> HIDE DEF after, V
      <3> QED
        BY <1>5
    <2> HIDE DEF after
    <2> QED
      BY <2>1
  <1>7. Instructions(m, s) = walk[MaxInsts - 1]
    BY DEF Instructions
  <1> HIDE DEF walk
  <1>8. walk[0] = <<s>> /\ \A n \in 1..N : walk[n] = step(walk[n - 1])
    <2>1. \A n \in 0..N : walk[n] = after(walk, n)
      <3> HIDE DEF after
      <3> QED
        BY <1>6
    <2> HIDE DEF step
    <2> QED
      BY <1>1, <2>1
  <1> DEFINE Good(n, q) == /\ Chain(m, s, q) /\ Len(q) <= n + 1
                           /\ Len(q) = n + 1 \/ EndsBlock(m, Last(q))
             P == {n \in 0..N : Good(n, walk[n])}
  <1>9. 0 \in P
    <2>1. Chain(m, s, <<s>>) /\ Len(<<s>>) = 1
      BY DEF Chain
    <2>2. walk[0] = <<s>>
      BY <1>8
    <2>3. Good(0, walk[0])
      BY <2>1, <2>2
    <2> HIDE DEF Good
    <2> QED
      BY <1>1, <2>3
  <1>10. ASSUME NEW n \in 0..N, n \in P, n < N PROVE n + 1 \in P
    <2> DEFINE q == walk[n]
    <2>1. Good(n, q) /\ walk[n + 1] = step(q) /\ n + 1 \in 0..N
      <3>1. n + 1 \in 1..N /\ (n + 1) - 1 = n
        BY <1>1, <1>10
      <3>2. walk[n + 1] = step(walk[(n + 1) - 1])
        BY <1>8, <3>1
      <3> HIDE DEF step
      <3> QED
        BY <1>10, <3>1, <3>2
    <2> HIDE DEF q
    <2>2. Len(q) \in Nat
      BY <2>1 DEF Chain
    <2>3. CASE EndsBlock(m, Last(q))
      <3>1. step(q) = q
        BY <2>3
      <3> HIDE DEF step
      <3>2. Good(n + 1, step(q))
        BY <2>1, <2>2, <2>3, <3>1
      <3> HIDE DEF Good
      <3> QED
        BY <2>1, <3>2
    <2>4. CASE ~EndsBlock(m, Last(q))
      <3>1. step(q) = Append(q, Last(q) + m[Last(q)].len)
        BY <2>4
      <3>2. Chain(m, s, step(q)) /\ Len(step(q)) = Len(q) + 1
        BY <2>1, <2>4, <3>1, ChainAppend
      <3> HIDE DEF step
      <3>3. Good(n + 1, step(q))
        BY <2>1, <2>2, <2>4, <3>2
      <3> HIDE DEF Good
      <3> QED
        BY <2>1, <3>3
    <2> QED
      BY <2>3, <2>4
  <1>11. N \in P
    <2> HIDE DEF P, N
    <2>1. \A n \in 0..N : n \in P
      BY <1>1, <1>9, <1>10, SetInduction
    <2> QED
      BY <1>1, <2>1
  <1>12. Good(N, walk[N]) /\ N + 1 = MaxInsts
    BY <1>11, SizesAssumption
  <1> QED
    BY <1>7, <1>12

\* Its addresses increase.
LEMMA ChainIncreases ==
    ASSUME NEW m \in Memories, NEW s, NEW q, Chain(m, s, q)
    PROVE  \A i, j \in 1..Len(q) : i < j => q[i] < q[j]
  <1>1. /\ q \in Seq(Addr) /\ Len(q) \in Nat
        /\ \A i \in 1..Len(q) : q[i] \in Addr /\ q[i] \in Nat
        /\ \A i \in 1..(Len(q) - 1) : q[i + 1] = q[i] + m[q[i]].len
    BY SizesAssumption DEF Chain, Addr
  <1>2. \A i \in 1..(Len(q) - 1) : q[i] < q[i + 1]
    <2> TAKE i \in 1..(Len(q) - 1)
    <2>1. i \in 1..Len(q) /\ q[i] \in Addr
      BY <1>1
    <2>2. m[q[i]].len \in {1, 2}
      BY <2>1, MemoryFacts
    <2> QED
      BY <1>1, <2>1, <2>2
  <1> SUFFICES ASSUME NEW i \in 1..Len(q)
               PROVE  \A j \in 1..Len(q) : i < j => q[i] < q[j]
    OBVIOUS
  <1> DEFINE N == Len(q)
             P == {j \in 0..N : i < j => q[i] < q[j]}
  <1>3. 0 \in P
    BY <1>1
  <1>4. ASSUME NEW j \in 0..N, j \in P, j < N PROVE j + 1 \in P
    <2>1. j + 1 \in 0..N
      BY <1>1, <1>4
    <2>2. CASE i < j
      <3>1. j \in 1..(Len(q) - 1) /\ j \in 1..Len(q) /\ j + 1 \in 1..Len(q)
        BY <1>1, <1>4, <2>2
      <3>2. q[i] < q[j] /\ q[j] < q[j + 1]
        BY <1>2, <1>4, <2>2, <3>1
      <3>3. q[i] \in Nat /\ q[j] \in Nat /\ q[j + 1] \in Nat
        BY <1>1, <3>1
      <3>4. q[i] < q[j + 1]
        BY <3>2, <3>3
      <3> QED
        BY <2>1, <3>4
    <2>3. CASE i = j
      <3>1. j \in 1..(Len(q) - 1)
        BY <1>1, <1>4, <2>3
      <3> QED
        BY <1>2, <2>1, <2>3, <3>1
    <2>4. CASE i > j
      BY <1>1, <2>1, <2>4
    <2> QED
      BY <1>1, <2>2, <2>3, <2>4
  <1>5. \A j \in 0..N : j \in P
    <2> HIDE DEF P
    <2>1. N \in Nat
      BY <1>1
    <2> QED
      BY <1>3, <1>4, <2>1, SetInduction
  <1> QED
    BY <1>1, <1>5

Increasing(a) == \A i, j \in 1..Len(a) : i < j => a[i] < a[j]

\* The members of a are members of b.
Within(a, b) == \A i \in 1..Len(a) : \E j \in 1..Len(b) : b[j] = a[i]

\* A sequence that increases is determined by its members.
LEMMA IncreasingPrefix ==
    ASSUME NEW a \in Seq(Int), NEW b \in Seq(Int), Increasing(a), Increasing(b),
           Within(a, b), Within(b, a)
    PROVE  Len(a) <= Len(b) /\ \A i \in 1..Len(a) : a[i] = b[i]
  <1> DEFINE N == Len(a)
             P == {n \in 0..N : n <= Len(b) /\ \A i \in 1..n : a[i] = b[i]}
  <1>1. /\ N \in Nat /\ Len(b) \in Nat
        /\ \A i \in 1..N : a[i] \in Int
        /\ \A i \in 1..Len(b) : b[i] \in Int
    OBVIOUS
  <1>2. 0 \in P
    BY <1>1
  <1>3. ASSUME NEW n \in 0..N, n \in P, n < N PROVE n + 1 \in P
    <2>1. n \in Nat /\ n + 1 \in 1..N /\ n <= Len(b) /\ \A i \in 1..n : a[i] = b[i]
      BY <1>1, <1>3
    <2> HIDE DEF P
    <2>2. PICK k \in 1..Len(b) : a[n + 1] = b[k]
      BY <2>1 DEF Within
    <2>3. k > n
      <3> SUFFICES ASSUME k \in 1..n PROVE FALSE
        BY <1>1, <2>1, <2>2
      <3>1. a[k] = b[k] /\ k \in 1..N /\ k < n + 1
        BY <1>1, <2>1
      <3>2. a[k] < a[n + 1]
        BY <2>1, <3>1 DEF Increasing
      <3>3. a[k] \in Int /\ a[n + 1] = a[k]
        BY <1>1, <2>2, <3>1
      <3> QED
        BY <3>2, <3>3
    <2>4. n + 1 \in 1..Len(b)
      BY <1>1, <2>1, <2>2, <2>3
    <2>5. PICK j \in 1..N : a[j] = b[n + 1]
      BY <2>4 DEF Within
    <2>6. j > n
      <3> SUFFICES ASSUME j \in 1..n PROVE FALSE
        BY <1>1, <2>1, <2>5
      <3>1. a[j] = b[j] /\ j \in 1..Len(b) /\ j < n + 1
        BY <1>1, <2>1
      <3>2. b[j] < b[n + 1]
        BY <2>4, <3>1 DEF Increasing
      <3>3. b[j] \in Int /\ b[n + 1] = b[j]
        BY <1>1, <2>5, <3>1
      <3> QED
        BY <3>2, <3>3
    <2>7. b[n + 1] <= b[k]
      <3>0. b[n + 1] \in Int /\ b[k] \in Int
        BY <1>1, <2>4
      <3>1. CASE k = n + 1
        BY <3>0, <3>1
      <3>2. CASE k # n + 1
        <4>1. n + 1 < k
          BY <1>1, <2>1, <2>2, <2>3, <3>2
        <4>2. b[n + 1] < b[k]
          BY <2>2, <2>4, <4>1 DEF Increasing
        <4> QED
          BY <3>0, <4>2
      <3> QED
        BY <3>1, <3>2
    <2>8. a[n + 1] <= a[j]
      <3>0. a[n + 1] \in Int /\ a[j] \in Int
        BY <1>1, <2>1
      <3>1. CASE j = n + 1
        BY <3>0, <3>1
      <3>2. CASE j # n + 1
        <4>1. n + 1 < j
          BY <1>1, <2>1, <2>5, <2>6, <3>2
        <4>2. a[n + 1] < a[j]
          BY <2>1, <2>5, <4>1 DEF Increasing
        <4> QED
          BY <3>0, <4>2
      <3> QED
        BY <3>1, <3>2
    <2>9. a[n + 1] = b[n + 1]
      <3>1. a[n + 1] \in Int /\ b[n + 1] \in Int
        BY <1>1, <2>1, <2>4
      <3>2. b[n + 1] <= a[n + 1] /\ a[n + 1] <= b[n + 1]
        BY <2>2, <2>5, <2>7, <2>8
      <3> HIDE DEF N
      <3> QED
        BY <3>1, <3>2
    <2>10. \A i \in 1..(n + 1) : a[i] = b[i]
      <3>1. \A i \in 1..(n + 1) : i \in 1..n \/ i = n + 1
        BY <1>1
      <3> QED
        BY <2>1, <2>9, <3>1
    <2> QED
      BY <1>1, <2>1, <2>4, <2>10 DEF P
  <1>4. \A n \in 0..N : n \in P
    <2> HIDE DEF P
    <2>1. N \in Nat
      BY <1>1
    <2> HIDE DEF N
    <2> QED
      BY <1>2, <1>3, <2>1, SetInduction
  <1>5. N \in P
    <2> HIDE DEF P
    <2> QED
      BY <1>1, <1>4
  <1> QED
    BY <1>5

\* Sequences that increase and have the same members are equal.
LEMMA IncreasingEqual ==
    ASSUME NEW a \in Seq(Int), NEW b \in Seq(Int), Increasing(a), Increasing(b),
           Within(a, b), Within(b, a)
    PROVE  a = b
  <1>1. Len(a) <= Len(b) /\ \A i \in 1..Len(a) : a[i] = b[i]
    BY IncreasingPrefix
  <1>2. Len(b) <= Len(a)
    BY IncreasingPrefix
  <1>3. Len(a) \in Nat /\ Len(b) \in Nat
    OBVIOUS
  <1>4. Len(a) = Len(b)
    BY <1>1, <1>2, <1>3
  <1> QED
    BY <1>1, <1>4, SMTT(30)

\* The members of a in T are members of k.
KeptIn(a, T, k) == \A j \in 1..Len(a) : a[j] \in T => \E i \in 1..Len(k) : k[i] = a[j]

\* What Keep returns are the members of a that are in T.
LEMMA KeepFacts ==
    ASSUME NEW S, NEW a \in Seq(S), NEW T, NEW k, k = Keep(a, T)
    PROVE  /\ k \in Seq(S) /\ Within(k, a) /\ KeptIn(a, T, k)
           /\ \A i \in 1..Len(k) : k[i] \in T
  <1>1. k \in Seq(S)
    BY KeepMembers
  <1>2. \A i \in 1..Len(k) : k[i] \in T /\ \E j \in 1..Len(a) : k[i] = a[j]
    BY KeepMembers
  <1>3. \A j \in 1..Len(a) : a[j] \in T => \E i \in 1..Len(k) : k[i] = a[j]
    BY KeepMembers
  <1>4. Within(k, a)
    BY <1>2 DEF Within
  <1> QED
    BY <1>1, <1>2, <1>3, <1>4 DEF KeptIn

\* The positions of the members that are kept.
LEMMA KeepPositions ==
    ASSUME NEW S, NEW a \in Seq(S), NEW T, NEW k, k = Keep(a, T)
    PROVE  \E h \in Seq(1..Len(a)) :
              /\ Len(h) = Len(k)
              /\ \A j \in 1..Len(h) : k[j] = a[h[j]]
              /\ \A i, j \in 1..Len(h) : i < j => h[i] < h[j]
  <1> DEFINE I == {i \in 1..Len(a) : a[i] \in T}
  <1>1. k = KeepAt(a, I)
    BY DEF Keep
  <1> HIDE DEF I
  <1>2. PICK h \in Seq(1..Len(a)) :
              /\ Len(h) = Len(k)
              /\ \A j \in 1..Len(h) : h[j] \in I /\ k[j] = a[h[j]]
              /\ \A i, j \in 1..Len(h) : i < j => h[i] < h[j]
              /\ \A i \in I \cap (1..Len(a)) : \E j \in 1..Len(h) : h[j] = i
    BY <1>1, KeptOrder
  <1> QED
    BY <1>2

\* Keep does not change the order of the members.
LEMMA KeepIncreases ==
    ASSUME NEW S, NEW a \in Seq(S), Increasing(a), NEW T, NEW k, k = Keep(a, T)
    PROVE  Increasing(k)
  <1>1. PICK h \in Seq(1..Len(a)) :
              /\ Len(h) = Len(k)
              /\ \A j \in 1..Len(h) : k[j] = a[h[j]]
              /\ \A i, j \in 1..Len(h) : i < j => h[i] < h[j]
    BY KeepPositions
  <1> SUFFICES ASSUME NEW i \in 1..Len(k), NEW j \in 1..Len(k), i < j
               PROVE  k[i] < k[j]
    BY DEF Increasing
  <1>2. h[i] \in 1..Len(a) /\ h[j] \in 1..Len(a) /\ h[i] < h[j]
    BY <1>1
  <1> QED
    BY <1>1, <1>2 DEF Increasing

Distinct(a) == \A i, j \in 1..Len(a) : a[i] = a[j] => i = j

\* It adds none.
LEMMA KeepDistinct ==
    ASSUME NEW S, NEW a \in Seq(S), Distinct(a), NEW T, NEW k, k = Keep(a, T)
    PROVE  Distinct(k)
  <1>1. PICK h \in Seq(1..Len(a)) :
              /\ Len(h) = Len(k)
              /\ \A j \in 1..Len(h) : k[j] = a[h[j]]
              /\ \A i, j \in 1..Len(h) : i < j => h[i] < h[j]
    BY KeepPositions
  <1> SUFFICES ASSUME NEW i \in 1..Len(k), NEW j \in 1..Len(k), k[i] = k[j]
               PROVE  i = j
    BY DEF Distinct
  <1>2. h[i] \in 1..Len(a) /\ h[j] \in 1..Len(a) /\ k[i] = a[h[i]] /\ k[j] = a[h[j]]
    BY <1>1
  <1>3. h[i] = h[j]
    BY <1>2 DEF Distinct
  <1>4. (i < j => h[i] < h[j]) /\ (j < i => h[j] < h[i]) /\ h[i] \in Int
        /\ i \in Int /\ j \in Int
    BY <1>1, <1>2
  <1> QED
    BY <1>3, <1>4

LastInst(m, s) == Last(Instructions(m, s))

\* The addresses of a block.
IsBlock(m, s, q) ==
    /\ q \in Seq(Addr) /\ Len(q) \in Nat /\ Len(q) >= 1 /\ q[1] = s
    /\ DOMAIN q = 1..Len(q)
    /\ \A i \in 1..Len(q) : q[i] \in Addr /\ q[i] \in Int
    /\ Increasing(q)
    /\ LastInst(m, s) = q[Len(q)] /\ LastInst(m, s) \in Addr
    /\ \A p : p \in Range(q) <=> \E i \in 1..Len(q) : p = q[i]
    /\ LastInst(m, s) \in Range(q) /\ s \in Range(q)
    /\ \A p \in Range(q) : s <= p /\ p <= LastInst(m, s) /\ p \in Int /\ p \in Addr

\* QEMU translates a block at every address: it has its start, its last
\* instruction is the greatest, and each is in the code.
LEMMA BlockFacts ==
    ASSUME NEW m \in Memories, NEW s \in Addr
    PROVE  IsBlock(m, s, Instructions(m, s))
  <1> DEFINE q == Instructions(m, s)
  <1>0. LastInst(m, s) = Last(q)
    BY DEF LastInst
  <1>1. Chain(m, s, q)
    BY InstructionsFacts
  <1> HIDE DEF q
  <1>2. /\ q \in Seq(Addr) /\ Len(q) \in Nat /\ Len(q) >= 1 /\ q[1] = s
        /\ DOMAIN q = 1..Len(q)
    BY <1>1 DEF Chain
  <1>3. \A i \in 1..Len(q) : q[i] \in Addr /\ q[i] \in Int
    BY <1>2, SizesAssumption DEF Addr
  <1>4. Increasing(q)
    BY <1>1, ChainIncreases DEF Increasing
  <1>5. LastInst(m, s) = q[Len(q)] /\ Len(q) \in 1..Len(q) /\ 1 \in 1..Len(q)
    BY <1>0, <1>2 DEF Last
  <1>6. \A p : p \in Range(q) <=> \E i \in 1..Len(q) : p = q[i]
    BY <1>2 DEF Range
  <1>60. Len(q) \in Nat
    BY <1>2
  <1>7. ASSUME NEW i \in 1..Len(q) PROVE s <= q[i] /\ q[i] <= q[Len(q)]
    <2>1. i = 1 \/ q[1] < q[i]
      <3>1. i = 1 \/ 1 < i
        BY <1>60
      <3> QED
        BY <1>5, <1>4, <3>1 DEF Increasing
    <2>2. i = Len(q) \/ q[i] < q[Len(q)]
      <3>1. i = Len(q) \/ i < Len(q)
        BY <1>60
      <3> QED
        BY <1>5, <1>4, <3>1 DEF Increasing
    <2>3. q[i] \in Int /\ q[1] \in Int /\ q[Len(q)] \in Int
      BY <1>3, <1>5
    <2>4. s = q[1]
      BY <1>2
    <2>5. s <= q[i]
      BY <2>1, <2>3, <2>4
    <2>6. q[i] <= q[Len(q)]
      BY <2>2, <2>3
    <2> QED
      BY <2>5, <2>6
  <1>8. \A p \in Range(q) : s <= p /\ p <= LastInst(m, s) /\ p \in Int /\ p \in Addr
    BY <1>3, <1>5, <1>6, <1>7
  <1>9. LastInst(m, s) \in Addr /\ LastInst(m, s) \in Range(q) /\ s \in Range(q)
    BY <1>2, <1>3, <1>5, <1>6
  <1>10. IsBlock(m, s, q)
    BY <1>2, <1>3, <1>4, <1>5, <1>6, <1>8, <1>9 DEF IsBlock
  <1> QED
    BY <1>10 DEF q

\* Where two blocks meet they go on together.
LEMMA ChainsMeet ==
    ASSUME NEW m, NEW s, NEW t, NEW q, NEW r, Chain(m, s, q), Chain(m, t, r),
           NEW i \in 1..Len(q), NEW j \in 1..Len(r), q[i] = r[j],
           NEW d \in Nat, i + d <= Len(q), j + d <= Len(r)
    PROVE  q[i + d] = r[j + d]
  <1> DEFINE P == {e \in 0..d : q[i + e] = r[j + e]}
  <1>1. Len(q) \in Nat /\ Len(r) \in Nat
    BY DEF Chain
  <1>2. 0 \in P
    BY <1>1
  <1>3. ASSUME NEW e \in 0..d, e \in P, e < d PROVE e + 1 \in P
    <2>1. i + e \in 1..(Len(q) - 1) /\ j + e \in 1..(Len(r) - 1)
          /\ i + (e + 1) = (i + e) + 1 /\ j + (e + 1) = (j + e) + 1 /\ e + 1 \in 0..d
      BY <1>1, <1>3
    <2>2. q[(i + e) + 1] = q[i + e] + m[q[i + e]].len
          /\ r[(j + e) + 1] = r[j + e] + m[r[j + e]].len
      BY <2>1 DEF Chain
    <2>3. q[i + e] = r[j + e]
      BY <1>3
    <2> QED
      BY <2>1, <2>2, <2>3
  <1>4. \A e \in 0..d : e \in P
    <2> HIDE DEF P
    <2> QED
      BY <1>2, <1>3, SetInduction
  <1> QED
    BY <1>4

\* Two blocks that meet and end together have as many instructions from there.
LEMMA SameRest ==
    ASSUME NEW m, NEW s, NEW t, NEW q, NEW r,
           Chain(m, s, q), Chain(m, t, r), IsBlock(m, s, q), IsBlock(m, t, r),
           NEW i \in 1..Len(q), NEW j \in 1..Len(r), q[i] = r[j],
           LastInst(m, s) = LastInst(m, t)
    PROVE  Len(q) - i = Len(r) - j
  <1>1. Len(q) \in Nat /\ Len(r) \in Nat
    BY DEF IsBlock
  <1>2. q[Len(q)] = r[Len(r)]
    BY DEF IsBlock
  <1>3. ASSUME Len(q) - i < Len(r) - j PROVE FALSE
    <2> DEFINE d == Len(q) - i
    <2>1. d \in Nat /\ i + d = Len(q) /\ j + d \in 1..Len(r) /\ j + d < Len(r)
          /\ Len(r) \in 1..Len(r)
      BY <1>1, <1>3
    <2>2. q[i + d] = r[j + d]
      <3> HIDE DEF d
      <3> QED
        BY <1>1, <2>1, ChainsMeet
    <2>3. r[j + d] < r[Len(r)]
      <3>1. Increasing(r)
        BY DEF IsBlock
      <3> QED
        BY <2>1, <3>1 DEF Increasing
    <2>4. r[Len(r)] \in Int
      BY <2>1 DEF IsBlock
    <2> HIDE DEF d
    <2> QED
      BY <1>2, <2>1, <2>2, <2>3, <2>4
  <1>4. ASSUME Len(r) - j < Len(q) - i PROVE FALSE
    <2> DEFINE d == Len(r) - j
    <2>1. d \in Nat /\ j + d = Len(r) /\ i + d \in 1..Len(q) /\ i + d < Len(q)
          /\ Len(q) \in 1..Len(q)
      BY <1>1, <1>4
    <2>2. q[i + d] = r[j + d]
      <3> HIDE DEF d
      <3> QED
        BY <1>1, <2>1, ChainsMeet
    <2>3. q[i + d] < q[Len(q)]
      <3>1. Increasing(q)
        BY DEF IsBlock
      <3> QED
        BY <2>1, <3>1 DEF Increasing
    <2>4. q[Len(q)] \in Int
      BY <2>1 DEF IsBlock
    <2> HIDE DEF d
    <2> QED
      BY <1>2, <2>1, <2>2, <2>3, <2>4
  <1> QED
    BY <1>1, <1>3, <1>4

\* A block that is met at its start and ends with the other one is its rest.
LEMMA MeetingBlocks ==
    ASSUME NEW m \in Memories, NEW s \in Addr, NEW t \in Range(Instructions(m, s)),
           LastInst(m, s) = LastInst(m, t)
    PROVE  \A p \in Addr : p \in Range(Instructions(m, t)) <=>
                           p \in Range(Instructions(m, s)) /\ t <= p
  <1> DEFINE q == Instructions(m, s)
             r == Instructions(m, t)
  <1>1. Chain(m, s, q) /\ IsBlock(m, s, q)
    BY InstructionsFacts, BlockFacts
  <1>2. t \in Range(q)
    OBVIOUS
  <1>3. t \in Addr
    <2> HIDE DEF q
    <2> QED
      BY <1>1, <1>2 DEF IsBlock
  <1>4. Chain(m, t, r) /\ IsBlock(m, t, r)
    BY <1>3, InstructionsFacts, BlockFacts
  <1> HIDE DEF q, r
  <1>5. PICK i \in 1..Len(q) : q[i] = t
    BY <1>1, <1>2 DEF IsBlock
  <1>6. Len(q) \in Nat /\ Len(r) \in Nat /\ 1 \in 1..Len(r) /\ r[1] = t
    BY <1>1, <1>4 DEF IsBlock
  <1>7. Len(q) - i = Len(r) - 1
    <2>1. q[i] = r[1]
      BY <1>5, <1>6
    <2> QED
      BY <1>1, <1>4, <1>6, <2>1, SameRest
  <1>8. ASSUME NEW d \in 0..(Len(r) - 1) PROVE q[i + d] = r[1 + d]
    <2>1. d \in Nat /\ i + d <= Len(q) /\ 1 + d <= Len(r)
      BY <1>6, <1>7
    <2>2. q[i] = r[1]
      BY <1>5, <1>6
    <2> QED
      BY <1>1, <1>4, <1>6, <2>1, <2>2, ChainsMeet
  <1>9. ASSUME NEW p \in Range(r) PROVE p \in Range(q) /\ t <= p
    <2>1. PICK k \in 1..Len(r) : p = r[k]
      BY <1>4 DEF IsBlock
    <2>2. k - 1 \in 0..(Len(r) - 1) /\ i + (k - 1) \in 1..Len(q) /\ 1 + (k - 1) = k
      BY <1>6, <1>7, <2>1
    <2>3. q[i + (k - 1)] = r[1 + (k - 1)]
      BY <1>8, <2>2
    <2>4. p \in Range(q)
      BY <1>1, <2>1, <2>2, <2>3 DEF IsBlock
    <2> QED
      BY <1>4, <2>4 DEF IsBlock
  <1>10. ASSUME NEW p \in Range(q), t <= p PROVE p \in Range(r)
    <2>1. PICK k \in 1..Len(q) : p = q[k]
      BY <1>1 DEF IsBlock
    <2>2. k >= i
      <3> SUFFICES ASSUME k < i PROVE FALSE
        BY <1>6
      <3>1. q[k] < q[i]
        BY <1>1 DEF IsBlock, Increasing
      <3>2. q[k] \in Int /\ q[i] \in Int
        BY <1>1 DEF IsBlock
      <3> QED
        BY <1>5, <1>10, <2>1, <3>1, <3>2
    <2>3. k - i \in 0..(Len(r) - 1) /\ i + (k - i) = k /\ 1 + (k - i) \in 1..Len(r)
      BY <1>6, <1>7, <2>1, <2>2
    <2>4. q[i + (k - i)] = r[1 + (k - i)]
      BY <1>8, <2>3
    <2> QED
      BY <1>4, <2>1, <2>3, <2>4 DEF IsBlock
  <1> QED
    BY <1>9, <1>10 DEF q, r

\* Blocks that share an instruction and end where a block must end, end there
\* together.
LEMMA SharedEnd ==
    ASSUME NEW m \in Memories, NEW s \in Addr, NEW t \in Addr, NEW p,
           p \in Range(Instructions(m, s)), p \in Range(Instructions(m, t)),
           EndsBlock(m, LastInst(m, s)), EndsBlock(m, LastInst(m, t))
    PROVE  LastInst(m, s) = LastInst(m, t)
  <1> DEFINE q == Instructions(m, s)
             r == Instructions(m, t)
  <1>0. /\ Chain(m, s, q) /\ Chain(m, t, r) /\ IsBlock(m, s, q) /\ IsBlock(m, t, r)
        /\ p \in Range(q) /\ p \in Range(r)
    BY InstructionsFacts, BlockFacts
  <1> HIDE DEF q, r
  <1>1. /\ Chain(m, s, q) /\ Chain(m, t, r) /\ Len(q) \in Nat /\ Len(r) \in Nat
        /\ LastInst(m, s) = q[Len(q)] /\ LastInst(m, t) = r[Len(r)]
    BY <1>0 DEF IsBlock
  <1>2. PICK i \in 1..Len(q) : q[i] = p
    BY <1>0 DEF IsBlock
  <1>3. PICK j \in 1..Len(r) : r[j] = p
    BY <1>0 DEF IsBlock
  <1>30. q[i] = r[j]
    BY <1>2, <1>3
  <1>4. ASSUME Len(q) - i < Len(r) - j PROVE FALSE
    <2> DEFINE d == Len(q) - i
    <2>1. d \in Nat /\ i + d = Len(q) /\ i + d <= Len(q) /\ j + d \in 1..(Len(r) - 1) /\ j + d <= Len(r)
      BY <1>1, <1>4
    <2>2. q[i + d] = r[j + d]
      <3> HIDE DEF d
      <3> QED
        BY <1>1, <1>30, <2>1, ChainsMeet
    <2> HIDE DEF d
    <2>3. ~EndsBlock(m, r[j + d])
      BY <1>1, <2>1 DEF Chain
    <2> QED
      BY <1>1, <2>1, <2>2, <2>3
  <1>5. ASSUME Len(r) - j < Len(q) - i PROVE FALSE
    <2> DEFINE d == Len(r) - j
    <2>1. d \in Nat /\ j + d = Len(r) /\ j + d <= Len(r) /\ i + d \in 1..(Len(q) - 1) /\ i + d <= Len(q)
      BY <1>1, <1>5
    <2>2. q[i + d] = r[j + d]
      <3> HIDE DEF d
      <3> QED
        BY <1>1, <1>30, <2>1, ChainsMeet
    <2> HIDE DEF d
    <2>3. ~EndsBlock(m, q[i + d])
      BY <1>1, <2>1 DEF Chain
    <2> QED
      BY <1>1, <2>1, <2>2, <2>3
  <1>6. Len(q) - i = Len(r) - j
    BY <1>1, <1>4, <1>5
  <1> DEFINE d == Len(q) - i
  <1>7. d \in Nat /\ i + d = Len(q) /\ j + d = Len(r) /\ i + d <= Len(q) /\ j + d <= Len(r)
    BY <1>1, <1>6
  <1> HIDE DEF d
  <1>8. q[i + d] = r[j + d]
    BY <1>1, <1>30, <1>7, ChainsMeet
  <1> QED
    BY <1>1, <1>7, <1>8

----------------------------------------------------------------------------
(* The operations of a function, and what each pass makes of them.         *)

Rank(kind) ==
    IF kind = "pc" THEN 1 ELSE IF kind = "count" THEN 2 ELSE IF kind = "icount" THEN 3 ELSE 4

\* Operations are in the order of their instructions.
Ordered(body) ==
    \A i, j \in DOMAIN body : i < j =>
        \/ body[i].pc < body[j].pc
        \/ body[i].pc = body[j].pc /\ Rank(body[i].kind) < Rank(body[j].kind)

HasOp(body, kind, p) == \E i \in DOMAIN body : body[i].kind = kind /\ body[i].pc = p

\* A cut leaves the operations before the instruction at link, and the first
\* one of that, which counts it.
BeforeLink(f, kind, p) == f.link = None \/ p < f.link \/ (p = f.link /\ kind = "count")

\* The code of the block at s when the kinds K are left.
BodyOK(m, s, f, K, tagged) ==
    /\ Ordered(f.body)
    /\ \A i \in DOMAIN f.body : f.body[i].cur = IF tagged THEN f.body[i].pc ELSE None
    /\ \A kind \in Range(Kinds), p \in Addr :
            HasOp(f.body, kind, p) <=>
                /\ kind \in K
                /\ p \in Range(Instructions(m, s))
                /\ kind = "work" => m[p].work
                /\ BeforeLink(f, kind, p)

LLVMFunction ==
    [pcStart : Addr, pcEnd : Nat, body : Seq(Op), own : BOOLEAN,
     exits : Addr \cup {None}, live : BOOLEAN, link : Addr \cup {None}]

\* A block is linked with a later one that it meets and that ends with it.
LinkOK(m, D, s, f) ==
    IF f.link = None THEN f.exits = LastInst(m, s)
    ELSE /\ f.link \in D /\ s < f.link
         /\ f.link \in Range(Instructions(m, s))
         /\ LastInst(m, f.link) = LastInst(m, s)
         /\ f.exits \in {LastInst(m, s), None}

FunctionOK(m, D, s, f, K, tagged) ==
    /\ f \in LLVMFunction
    /\ f.pcStart = s
    /\ f.pcEnd = LastInst(m, s) + m[LastInst(m, s)].len
    /\ f.live <=> f.link = None
    /\ BodyOK(m, s, f, K, tagged)
    /\ LinkOK(m, D, s, f)

\* The kinds of operations, and that they have an order.
LEMMA KindsFacts ==
    /\ Range(Kinds) = {"pc", "count", "icount", "work"}
    /\ \A kind : Rank(kind) \in Int
  <1>1. DOMAIN Kinds = 1..4
    BY DEF Kinds
  <1>2. Range(Kinds) = {Kinds[i] : i \in 1..4}
    BY <1>1 DEF Range
  <1>3. Kinds[1] = "pc" /\ Kinds[2] = "count" /\ Kinds[3] = "icount" /\ Kinds[4] = "work"
    BY DEF Kinds
  <1>4. \A i \in 1..4 : i = 1 \/ i = 2 \/ i = 3 \/ i = 4
    OBVIOUS
  <1>5. Range(Kinds) = {"pc", "count", "icount", "work"}
    BY <1>2, <1>3, <1>4
  <1> QED
    BY <1>5 DEF Rank

\* The operations of a body.
LEMMA BodyFacts ==
    ASSUME NEW b \in Seq(Op)
    PROVE  /\ Len(b) \in Nat /\ DOMAIN b = 1..Len(b)
           /\ \A i \in 1..Len(b) :
                 /\ b[i] \in Op /\ b[i].pc \in Addr /\ b[i].pc \in Int
                 /\ b[i].kind \in Range(Kinds)
  <1>1. Len(b) \in Nat /\ DOMAIN b = 1..Len(b) /\ \A i \in 1..Len(b) : b[i] \in Op
    OBVIOUS
  <1>2. \A o \in Op : o.pc \in Addr /\ o.pc \in Int /\ o.kind \in Range(Kinds)
    BY SizesAssumption DEF Op, Addr
  <1> QED
    BY <1>1, <1>2

\* In a body in order, the instructions and the kinds tell the positions.
LEMMA OrderedFacts ==
    ASSUME NEW b \in Seq(Op), Ordered(b), NEW i \in 1..Len(b), NEW j \in 1..Len(b)
    PROVE  /\ b[i].pc < b[j].pc => i < j
           /\ b[i].pc = b[j].pc /\ Rank(b[i].kind) < Rank(b[j].kind) => i < j
           /\ i <= j => b[i].pc <= b[j].pc
           /\ b[i].pc = b[j].pc /\ b[i].kind = b[j].kind => i = j
  <1>1. /\ i \in Int /\ j \in Int /\ b[i].pc \in Int /\ b[j].pc \in Int
        /\ Rank(b[i].kind) \in Int /\ Rank(b[j].kind) \in Int
    BY BodyFacts, KindsFacts
  <1>2. i < j => \/ b[i].pc < b[j].pc
                 \/ b[i].pc = b[j].pc /\ Rank(b[i].kind) < Rank(b[j].kind)
    BY BodyFacts DEF Ordered
  <1>3. j < i => \/ b[j].pc < b[i].pc
                 \/ b[j].pc = b[i].pc /\ Rank(b[j].kind) < Rank(b[i].kind)
    BY BodyFacts DEF Ordered
  <1> QED
    BY <1>1, <1>2, <1>3

\* The members of c are those of b at the positions in I.
From(c, b, I) == \A i \in 1..Len(c) : \E j \in 1..Len(b) : j \in I /\ c[i] = b[j]
Into(b, c, I) == \A j \in 1..Len(b) : j \in I => \E i \in 1..Len(c) : c[i] = b[j]

\* What is left of a body is in order.
LEMMA KeepOps ==
    ASSUME NEW b \in Seq(Op), Ordered(b), NEW I, NEW c, c = KeepAt(b, I)
    PROVE  c \in Seq(Op) /\ Ordered(c) /\ From(c, b, I) /\ Into(b, c, I)
  <1>1. c \in Seq(Op)
    BY KeepAtOrder
  <1>2. PICK h \in Seq(1..Len(b)) :
              /\ Len(h) = Len(c)
              /\ \A j \in 1..Len(h) : h[j] \in I /\ c[j] = b[h[j]]
              /\ \A j, k \in 1..Len(h) : j < k => h[j] < h[k]
              /\ \A i \in I \cap (1..Len(b)) : \E j \in 1..Len(h) : h[j] = i
    BY KeptOrder, SMTT(30)
  <1>3. DOMAIN c = 1..Len(h) /\ \A j \in 1..Len(h) : h[j] \in 1..Len(b)
    BY <1>1, <1>2
  <1>4. Ordered(c)
    <2> SUFFICES ASSUME NEW i \in 1..Len(h), NEW j \in 1..Len(h), i < j
                 PROVE  \/ c[i].pc < c[j].pc
                        \/ c[i].pc = c[j].pc /\ Rank(c[i].kind) < Rank(c[j].kind)
      BY <1>3 DEF Ordered
    <2>1. h[i] \in DOMAIN b /\ h[j] \in DOMAIN b /\ h[i] < h[j]
      BY <1>2, <1>3, BodyFacts
    <2>2. c[i] = b[h[i]] /\ c[j] = b[h[j]]
      BY <1>2
    <2> QED
      BY <2>1, <2>2 DEF Ordered
  <1>5. From(c, b, I)
    BY <1>2, <1>3 DEF From
  <1>6. Into(b, c, I)
    BY <1>2, <1>3 DEF Into
  <1> QED
    BY <1>1, <1>4, <1>5, <1>6

\* Operations are removed only from the body.
LEMMA WithoutLink ==
    ASSUME NEW f \in LLVMFunction, NEW kind
    PROVE  Without(f, kind).link = f.link
  BY DEF Without, LLVMFunction

\* A kind of operation is removed.
LEMMA FunctionWithout ==
    ASSUME NEW m, NEW D, NEW s, NEW f, NEW K, NEW kind \in Range(Kinds),
           FunctionOK(m, D, s, f, K, TRUE)
    PROVE  FunctionOK(m, D, s, Without(f, kind), K \ {kind}, TRUE)
  <1> DEFINE b == f.body
             I == {i \in DOMAIN b : b[i].kind # kind}
             c == KeepAt(b, I)
             g == Without(f, kind)
  <1>1. f \in LLVMFunction /\ b \in Seq(Op) /\ Ordered(b)
    BY DEF FunctionOK, BodyOK, LLVMFunction
  <1>2. g = [f EXCEPT !.body = c]
    BY DEF Without
  <1> HIDE DEF b
  <1>3. DOMAIN b = 1..Len(b)
    BY <1>1
  <1>4. c \in Seq(Op) /\ Ordered(c) /\ From(c, b, I) /\ Into(b, c, I)
    <2>1. c = KeepAt(b, I)
      OBVIOUS
    <2> HIDE DEF I, c
    <2> QED
      BY <1>1, <2>1, KeepOps
  <1> HIDE DEF c
  <1>5. DOMAIN c = 1..Len(c)
    BY <1>4
  <1>6. \A k, p : HasOp(c, k, p) <=> HasOp(b, k, p) /\ k # kind
    <2> SUFFICES ASSUME NEW k, NEW p
                 PROVE  HasOp(c, k, p) <=> HasOp(b, k, p) /\ k # kind
      OBVIOUS
    <2>1. HasOp(c, k, p) => HasOp(b, k, p) /\ k # kind
      BY <1>3, <1>4, <1>5 DEF HasOp, From
    <2>2. HasOp(b, k, p) /\ k # kind => HasOp(c, k, p)
      BY <1>3, <1>4, <1>5 DEF HasOp, Into
    <2> QED
      BY <2>1, <2>2
  <1>7. \A i \in DOMAIN c : c[i].cur = c[i].pc
    <2>1. \A j \in DOMAIN b : b[j].cur = b[j].pc
      BY DEF b, FunctionOK, BodyOK
    <2> QED
      BY <1>3, <1>4, <1>5, <2>1 DEF From
  <1>8. /\ g \in LLVMFunction
        /\ g.body = c /\ g.pcStart = f.pcStart /\ g.pcEnd = f.pcEnd /\ g.own = f.own
        /\ g.exits = f.exits /\ g.live = f.live /\ g.link = f.link
    <2> HIDE DEF g
    <2> QED
      BY <1>1, <1>2, <1>4 DEF LLVMFunction
  <1> HIDE DEF g
  <1>9. BodyOK(m, s, g, K \ {kind}, TRUE)
    <2>1. \A k, p : BeforeLink(g, k, p) <=> BeforeLink(f, k, p)
      BY <1>8 DEF BeforeLink
    <2>2. ASSUME NEW k \in Range(Kinds), NEW p \in Addr
          PROVE  HasOp(b, k, p) <=>
                    /\ k \in K
                    /\ p \in Range(Instructions(m, s))
                    /\ k = "work" => m[p].work
                    /\ BeforeLink(f, k, p)
      <3>1. BodyOK(m, s, f, K, TRUE)
        BY DEF FunctionOK
      <3> QED
        BY <3>1 DEF b, BodyOK
    <2>3. ASSUME NEW k \in Range(Kinds), NEW p \in Addr
          PROVE  HasOp(c, k, p) <=>
                    /\ k \in K \ {kind}
                    /\ p \in Range(Instructions(m, s))
                    /\ k = "work" => m[p].work
                    /\ BeforeLink(g, k, p)
      <3>1. HasOp(c, k, p) <=> HasOp(b, k, p) /\ k # kind
        BY <1>6
      <3>2. BeforeLink(g, k, p) <=> BeforeLink(f, k, p)
        BY <2>1
      <3> QED
        BY <2>2, <3>1, <3>2
    <2> QED
      BY <1>4, <1>7, <1>8, <2>3 DEF BodyOK
  <1>10. LinkOK(m, D, s, g)
    BY <1>8 DEF FunctionOK, LinkOK
  <1> QED
    BY <1>8, <1>9, <1>10 DEF FunctionOK, g

\* The position of an operation among those of four of every instruction.
LEMMA DivFacts ==
    ASSUME NEW n \in Nat, NEW i \in 1..(4 * n)
    PROVE  /\ ((i - 1) \div 4) + 1 \in 1..n
           /\ ((i - 1) % 4) + 1 \in 1..4
           /\ i = 4 * (((i - 1) \div 4) + 1) + (((i - 1) % 4) + 1) - 4
  OBVIOUS

\* Every instruction has a position for each kind.
LEMMA DivBack ==
    ASSUME NEW n \in Nat, NEW a \in 1..n, NEW r \in 1..4
    PROVE  /\ 4 * a + r - 4 \in 1..(4 * n)
           /\ ((4 * a + r - 4 - 1) \div 4) + 1 = a
           /\ ((4 * a + r - 4 - 1) % 4) + 1 = r
  OBVIOUS

\* The last position of a set of positions.
LEMMA LastPosition ==
    ASSUME NEW n \in Nat, NEW I \in SUBSET (1..n), NEW j \in I
    PROVE  Max(I) \in I /\ j <= Max(I)
  <1>1. Max(I) \in I
    BY MaxPosition
  <1> DEFINE T == {n - i : i \in I}
  <1>2. T \in SUBSET Nat /\ T # {}
    <2>1. \A i \in I : i \in 1..n /\ n - i \in Nat
      OBVIOUS
    <2>2. n - j \in T
      OBVIOUS
    <2> QED
      BY <2>1, <2>2
  <1>3. PICK t \in T : \A u \in T : t <= u
    <2> HIDE DEF T
    <2> QED
      BY <1>2, LeastNat
  <1>4. n - t \in I /\ \A i \in I : n - t >= i
    <2>1. PICK k \in I : t = n - k
      OBVIOUS
    <2>2. k \in 1..n /\ n - t = k
      BY <2>1
    <2>3. ASSUME NEW i \in I PROVE k >= i
      <3>1. n - i \in T /\ i \in 1..n
        OBVIOUS
      <3>2. t <= n - i
        BY <1>3, <3>1
      <3> QED
        BY <2>1, <2>2, <3>1, <3>2
    <2> QED
      BY <2>2, <2>3
  <1>5. \E x \in I : \A i \in I : x >= i
    BY <1>4
  <1>6. \A i \in I : Max(I) >= i
    BY <1>5 DEF Max
  <1>7. Max(I) \in 1..n /\ j \in 1..n /\ Max(I) >= j
    BY <1>1, <1>6
  <1> QED
    BY <1>1, <1>7

\* The first position of a set of positions.
LEMMA FirstPosition ==
    ASSUME NEW n \in Nat, NEW I \in SUBSET (1..n), NEW j \in I
    PROVE  Min(I) \in I /\ Min(I) <= j
  <1>1. I \in SUBSET Nat /\ I # {}
    OBVIOUS
  <1>2. PICK t \in I : \A u \in I : t <= u
    BY <1>1, LeastNat
  <1>3. Min(I) \in I /\ \A u \in I : Min(I) <= u
    BY <1>2 DEF Min
  <1> QED
    BY <1>3

\* The store to PC before an operation of an instruction is that of the
\* instruction.
LEMMA StoredPc ==
    ASSUME NEW b \in Seq(Op), Ordered(b), NEW i \in 1..Len(b), b[i].kind # "pc",
           HasOp(b, "pc", b[i].pc), NEW J \in SUBSET (1..(i - 1)),
           \A j \in 1..(i - 1) : b[j].kind = "pc" => j \in J
    PROVE  J # {} /\ Max(J) \in J /\ Max(J) \in 1..Len(b) /\ b[Max(J)].pc = b[i].pc
  <1>1. Len(b) \in Nat /\ DOMAIN b = 1..Len(b)
    BY BodyFacts
  <1>2. PICK j \in 1..Len(b) : b[j].kind = "pc" /\ b[j].pc = b[i].pc
    BY <1>1 DEF HasOp
  <1>3. Rank(b[j].kind) < Rank(b[i].kind)
    <2>1. b[i].kind \in {"pc", "count", "icount", "work"}
      BY BodyFacts, KindsFacts
    <2> QED
      BY <1>2, <2>1 DEF Rank
  <1>4. j < i
    BY <1>2, <1>3, OrderedFacts
  <1>5. j \in J /\ i - 1 \in Nat
    BY <1>1, <1>2, <1>4
  <1>6. Max(J) \in J /\ j <= Max(J)
    BY <1>5, LastPosition
  <1>7. Max(J) \in 1..Len(b) /\ Max(J) <= i
    BY <1>1, <1>6
  <1>8. b[j].pc <= b[Max(J)].pc /\ b[Max(J)].pc <= b[i].pc
    BY <1>6, <1>7, OrderedFacts
  <1>9. b[Max(J)].pc \in Int /\ b[i].pc \in Int
    BY <1>7, BodyFacts
  <1> QED
    BY <1>2, <1>5, <1>6, <1>7, <1>8, <1>9

\* Every operation of an untagged function is at an instruction of the block
\* that begins with a store to PC.
LEMMA UntaggedFacts ==
    ASSUME NEW m \in Memories, NEW D, NEW s \in Addr, NEW f, NEW b, b = f.body,
           FunctionOK(m, D, s, f, Range(Kinds), FALSE), f.link = None
    PROVE  /\ b \in Seq(Op) /\ Ordered(b) /\ f.pcStart = s
           /\ \A i \in 1..Len(b) : /\ b[i].pc \in Range(Instructions(m, s))
                                   /\ HasOp(b, "pc", b[i].pc)
           /\ \A p \in Range(Instructions(m, s)) :
                 HasOp(b, "pc", p) /\ HasOp(b, "icount", p)
  <1>1. b \in Seq(Op) /\ f.pcStart = s /\ BodyOK(m, s, f, Range(Kinds), FALSE)
    BY DEF FunctionOK, LLVMFunction
  <1>2. Ordered(b)
    BY <1>1 DEF BodyOK
  <1>3. \A kind \in Range(Kinds), p \in Addr :
            HasOp(b, kind, p) <=> /\ p \in Range(Instructions(m, s))
                                  /\ kind = "work" => m[p].work
    BY <1>1 DEF BodyOK, BeforeLink
  <1>4. Range(Instructions(m, s)) \subseteq Addr
    BY BlockFacts DEF IsBlock
  <1>5. \A p \in Range(Instructions(m, s)) : HasOp(b, "pc", p) /\ HasOp(b, "icount", p)
    <2> TAKE p \in Range(Instructions(m, s))
    <2>1. p \in Addr /\ "pc" \in Range(Kinds) /\ "icount" \in Range(Kinds)
      BY <1>4, KindsFacts
    <2>2. "pc" # "work" /\ "icount" # "work"
      OBVIOUS
    <2> QED
      BY <1>3, <2>1, <2>2
  <1>6. ASSUME NEW i \in 1..Len(b) PROVE b[i].pc \in Range(Instructions(m, s))
    <2>1. b[i].kind \in Range(Kinds) /\ b[i].pc \in Addr /\ i \in DOMAIN b
      BY <1>1, BodyFacts
    <2>2. HasOp(b, b[i].kind, b[i].pc)
      BY <2>1 DEF HasOp
    <2> QED
      BY <1>3, <2>1, <2>2
  <1> QED
    BY <1>1, <1>2, <1>5, <1>6

\* TagInstPc finds the last instruction.
LEMMA LastPcIsLast ==
    ASSUME NEW m \in Memories, NEW D, NEW s \in Addr, NEW f,
           FunctionOK(m, D, s, f, Range(Kinds), FALSE), f.link = None
    PROVE  LastPc(f.body) = LastInst(m, s)
  <1> DEFINE b == f.body
             R == Range(Instructions(m, s))
             C == {i \in DOMAIN b : b[i].kind = "icount"}
             E == {PcStore(b, i) : i \in C}
  <1>1. /\ b \in Seq(Op) /\ Ordered(b)
        /\ \A i \in 1..Len(b) : b[i].pc \in R /\ HasOp(b, "pc", b[i].pc)
        /\ \A p \in R : HasOp(b, "icount", p)
    BY UntaggedFacts
  <1> HIDE DEF b
  <1>2. LastInst(m, s) \in R /\ \A p \in R : p <= LastInst(m, s) /\ p \in Int
    BY BlockFacts DEF IsBlock
  <1> HIDE DEF R
  <1>3. Len(b) \in Nat /\ DOMAIN b = 1..Len(b)
    BY <1>1, BodyFacts
  <1>4. ASSUME NEW i \in C PROVE PcStore(b, i) = b[i].pc
    <2> DEFINE J == {j \in 1..(i - 1) : b[j].kind \in Stores}
    <2>1. i \in 1..Len(b) /\ b[i].kind # "pc" /\ HasOp(b, "pc", b[i].pc)
      BY <1>1, <1>3
    <2>2. J \in SUBSET (1..(i - 1)) /\ \A j \in 1..(i - 1) : b[j].kind = "pc" => j \in J
      BY DEF Stores
    <2>3. PcStore(b, i) = b[Max(J)].pc
      BY DEF PcStore
    <2> HIDE DEF J
    <2> QED
      BY <1>1, <2>1, <2>2, <2>3, StoredPc
  <1>5. E = R
    <2>1. ASSUME NEW p \in R PROVE p \in E
      <3>1. PICK i \in DOMAIN b : b[i].kind = "icount" /\ b[i].pc = p
        BY <1>1 DEF HasOp
      <3>2. i \in C
        BY <3>1
      <3>3. PcStore(b, i) = p
        BY <1>4, <3>1, <3>2
      <3> QED
        BY <3>2, <3>3
    <2>2. ASSUME NEW i \in C PROVE PcStore(b, i) \in R
      BY <1>1, <1>3, <1>4
    <2> HIDE DEF C
    <2> QED
      BY <2>1, <2>2
  <1>6. LastPc(b) = Max(R)
    BY <1>5 DEF LastPc
  <1>7. Max(R) \in R /\ \A p \in R : Max(R) >= p
    BY <1>2 DEF Max
  <1>8. Max(R) = LastInst(m, s)
    BY <1>2, <1>7
  <1> QED
    BY <1>6, <1>8 DEF b

\* RemoveExtraStoreToPC tags the operations with their instruction.
LEMMA FunctionTagged ==
    ASSUME NEW m \in Memories, NEW D, NEW s \in Addr, NEW f,
           FunctionOK(m, D, s, f, Range(Kinds), FALSE), f.link = None
    PROVE  /\ InsideBlock(f)
           /\ FunctionOK(m, D, s, RemoveExtra(f), {"count", "icount", "work"}, TRUE)
           /\ RemoveExtra(f).link = None
  <1> DEFINE b == f.body
             t == [i \in DOMAIN b |-> [b[i] EXCEPT !.cur = CurrPC(f, i)]]
             I == {i \in DOMAIN b : b[i].kind # "pc"}
             c == KeepAt(t, I)
             g == RemoveExtra(f)
             R == Range(Instructions(m, s))
  <1>1. g = [f EXCEPT !.body = c]
    BY DEF RemoveExtra
  <1>2. b = f.body
    OBVIOUS
  <1> HIDE DEF b
  <1>3. /\ b \in Seq(Op) /\ Ordered(b) /\ f.pcStart = s
        /\ \A i \in 1..Len(b) : b[i].pc \in R /\ HasOp(b, "pc", b[i].pc)
    BY <1>2, UntaggedFacts
  <1>4. /\ Len(b) \in Nat /\ DOMAIN b = 1..Len(b)
        /\ \A i \in 1..Len(b) : b[i] \in Op /\ b[i].pc \in Addr /\ b[i].kind \in Range(Kinds)
    BY <1>3, BodyFacts
  <1>5. InsideBlock(f)
    <2>1. LastInst(m, s) \in Addr /\ m[LastInst(m, s)].len \in {1, 2}
      BY BlockFacts, MemoryFacts DEF IsBlock
    <2>2. f.pcEnd = LastInst(m, s) + m[LastInst(m, s)].len
      BY DEF FunctionOK
    <2>3. LastInst(m, s) \in Int
      BY <2>1, MemoryFacts
    <2>4. \A p \in R : s <= p /\ p <= LastInst(m, s) /\ p \in Int
      BY BlockFacts DEF IsBlock
    <2>5. s \in Int
      BY MemoryFacts
    <2>6. ASSUME NEW p \in R PROVE p \in s..f.pcEnd
      BY <2>1, <2>2, <2>3, <2>4, <2>5
    <2>7. \A i \in DOMAIN b : b[i].pc \in s..f.pcEnd
      <3> HIDE DEF R
      <3> QED
        BY <1>3, <1>4, <2>6
    <2> QED
      BY <1>2, <1>3, <2>7 DEF InsideBlock
  <1>6. ASSUME NEW i \in 1..Len(b)
        PROVE  /\ CurrPC(f, i) \in Addr \cup {None}
               /\ b[i].kind # "pc" => CurrPC(f, i) = b[i].pc
    <2> DEFINE J == {j \in 1..(i - 1) : b[j].kind = "pc"}
    <2>1. J \in SUBSET (1..(i - 1)) /\ \A j \in 1..(i - 1) : b[j].kind = "pc" => j \in J
      OBVIOUS
    <2>2. CurrPC(f, i) = IF J = {} THEN f.pcStart ELSE b[Max(J)].pc
      BY <1>2 DEF CurrPC
    <2> HIDE DEF J
    <2>3. CurrPC(f, i) \in Addr
      <3>1. CASE J = {}
        BY <1>3, <2>2, <3>1
      <3>2. CASE J # {}
        <4>1. i - 1 \in Nat
          BY <1>4
        <4>2. Max(J) \in J
          BY <2>1, <3>2, <4>1, MaxPosition
        <4>3. Max(J) \in 1..Len(b)
          <5>1. Max(J) \in 1..(i - 1)
            BY <2>1, <4>2
          <5> QED
            BY <1>4, <5>1
        <4> QED
          BY <1>4, <2>2, <3>2, <4>3
      <3> QED
        BY <3>1, <3>2
    <2>4. ASSUME b[i].kind # "pc" PROVE CurrPC(f, i) = b[i].pc
      <3>1. HasOp(b, "pc", b[i].pc)
        BY <1>3
      <3>2. J # {} /\ b[Max(J)].pc = b[i].pc
        BY <1>3, <2>1, <2>4, <3>1, StoredPc
      <3> QED
        BY <2>2, <3>2
    <2> QED
      BY <2>3, <2>4
  <1>7. \A i \in 1..Len(b) : /\ t[i] \in Op /\ t[i].kind = b[i].kind /\ t[i].pc = b[i].pc
                             /\ t[i].cur = CurrPC(f, i)
    <2> TAKE i \in 1..Len(b)
    <2>1. t[i] = [b[i] EXCEPT !.cur = CurrPC(f, i)]
      BY <1>4
    <2> HIDE DEF t
    <2> QED
      BY <1>4, <1>6, <2>1 DEF Op
  <1>8. t \in Seq(Op) /\ Len(t) = Len(b)
    <2>1. t \in [1..Len(b) -> Op]
      <3>1. t = [i \in 1..Len(b) |-> t[i]]
        BY <1>4
      <3> HIDE DEF t
      <3> QED
        BY <1>7, <3>1
    <2> HIDE DEF t
    <2> QED
      BY <1>4, <2>1, FunctionIsSequence
  <1>9. c = KeepAt(t, I)
    OBVIOUS
  <1> HIDE DEF t, c
  <1>10. Ordered(t)
    <2>1. DOMAIN t = 1..Len(b)
      BY <1>8
    <2> QED
      BY <1>3, <1>4, <1>7, <2>1 DEF Ordered
  <1>11. c \in Seq(Op) /\ Ordered(c) /\ From(c, t, I) /\ Into(t, c, I)
    <2> HIDE DEF I
    <2> QED
      BY <1>8, <1>9, <1>10, KeepOps
  <1>12. DOMAIN c = 1..Len(c)
    BY <1>11
  <1>13. \A i \in DOMAIN c : c[i].cur = c[i].pc
    BY <1>4, <1>6, <1>7, <1>8, <1>11, <1>12 DEF From
  <1>14. \A k, p : HasOp(c, k, p) <=> HasOp(b, k, p) /\ k # "pc"
    <2> SUFFICES ASSUME NEW k, NEW p
                 PROVE  HasOp(c, k, p) <=> HasOp(b, k, p) /\ k # "pc"
      OBVIOUS
    <2>1. ASSUME HasOp(c, k, p) PROVE HasOp(b, k, p) /\ k # "pc"
      <3>1. PICK i \in 1..Len(c) : c[i].kind = k /\ c[i].pc = p
        BY <1>12, <2>1 DEF HasOp
      <3>2. PICK j \in 1..Len(b) : j \in I /\ c[i] = t[j]
        BY <1>8, <1>11 DEF From
      <3>3. b[j].kind = k /\ b[j].pc = p /\ k # "pc"
        BY <1>7, <3>1, <3>2
      <3> QED
        BY <1>4, <3>3 DEF HasOp
    <2>2. ASSUME HasOp(b, k, p), k # "pc" PROVE HasOp(c, k, p)
      <3>1. PICK j \in 1..Len(b) : b[j].kind = k /\ b[j].pc = p
        BY <1>4, <2>2 DEF HasOp
      <3>2. j \in I
        BY <1>4, <2>2, <3>1
      <3>3. PICK i \in 1..Len(c) : c[i] = t[j]
        BY <1>8, <1>11, <3>2 DEF Into
      <3>4. c[i].kind = k /\ c[i].pc = p
        BY <1>7, <3>1, <3>3
      <3> QED
        BY <1>12, <3>4 DEF HasOp
    <2> QED
      BY <2>1, <2>2
  <1>15. /\ g \in LLVMFunction
         /\ g.body = c /\ g.pcStart = f.pcStart /\ g.pcEnd = f.pcEnd /\ g.own = f.own
         /\ g.exits = f.exits /\ g.live = f.live /\ g.link = f.link
    <2>1. f \in LLVMFunction
      BY DEF FunctionOK
    <2> HIDE DEF g
    <2> QED
      BY <1>1, <1>11, <2>1 DEF LLVMFunction
  <1> HIDE DEF g, R
  <1>16. BodyOK(m, s, g, {"count", "icount", "work"}, TRUE)
    <2>1. BodyOK(m, s, f, Range(Kinds), FALSE)
      BY DEF FunctionOK
    <2>2. ASSUME NEW k \in Range(Kinds), NEW p \in Addr
          PROVE  HasOp(c, k, p) <=>
                    /\ k \in {"count", "icount", "work"}
                    /\ p \in Range(Instructions(m, s))
                    /\ k = "work" => m[p].work
                    /\ BeforeLink(g, k, p)
      <3>1. HasOp(c, k, p) <=> HasOp(b, k, p) /\ k # "pc"
        BY <1>14
      <3>2. BeforeLink(g, k, p) /\ BeforeLink(f, k, p)
        BY <1>15 DEF BeforeLink
      <3>3. HasOp(b, k, p) <=> /\ p \in Range(Instructions(m, s))
                               /\ k = "work" => m[p].work
        BY <1>2, <2>1, <3>2 DEF BodyOK
      <3>4. k \in {"count", "icount", "work"} <=> k # "pc"
        BY KindsFacts
      <3> QED
        BY <3>1, <3>2, <3>3, <3>4
    <2> QED
      BY <1>11, <1>13, <1>15, <2>2 DEF BodyOK
  <1>17. LinkOK(m, D, s, g)
    BY <1>15 DEF FunctionOK, LinkOK
  <1>18. FunctionOK(m, D, s, g, {"count", "icount", "work"}, TRUE) /\ g.link = None
    BY <1>15, <1>16, <1>17 DEF FunctionOK
  <1> QED
    BY <1>5, <1>18 DEF g

\* The first operation at an instruction counts it, and what is before it
\* belongs to the instructions before that.
LEMMA FunctionLinked ==
    ASSUME NEW m \in Memories, NEW D, NEW s \in Addr, NEW f,
           FunctionOK(m, D, s, f, {"count", "work"}, TRUE), f.link = None,
           NEW t \in D, t \in Addr, s < t, t \in Range(Instructions(m, s)),
           LastInst(m, t) = LastInst(m, s),
           NEW g, g = LinkWith(f, Min(Aligned(f, t)), t)
    PROVE  FunctionOK(m, D, s, g, {"count", "work"}, TRUE)
  <1> DEFINE b == f.body
             A == Aligned(f, t)
             k == Min(A)
             c == SubSeq(b, 1, k)
             R == Range(Instructions(m, s))
  <1>1. f \in LLVMFunction /\ b \in Seq(Op) /\ Ordered(b)
    BY DEF FunctionOK, BodyOK, LLVMFunction
  <1>2. /\ BodyOK(m, s, f, {"count", "work"}, TRUE)
        /\ \A i \in DOMAIN b : b[i].cur = b[i].pc
    BY DEF FunctionOK, BodyOK
  <1>3. \A kind \in Range(Kinds), p \in Addr :
            HasOp(b, kind, p) <=> /\ kind \in {"count", "work"}
                                  /\ p \in R
                                  /\ kind = "work" => m[p].work
    BY <1>2 DEF BodyOK, BeforeLink
  <1>4. A = {i \in DOMAIN b : b[i].cur = t}
    BY DEF Aligned
  <1>5. /\ g = [f EXCEPT !.body = c, !.link = t, !.live = FALSE,
                         !.exits = IF f.own THEN f.exits ELSE None]
    BY DEF LinkWith
  <1>50. t \in R
    OBVIOUS
  <1> HIDE DEF b, A, R
  <1>6. /\ Len(b) \in Nat /\ DOMAIN b = 1..Len(b)
        /\ \A i \in 1..Len(b) : b[i] \in Op /\ b[i].pc \in Addr /\ b[i].pc \in Int
                                /\ b[i].kind \in Range(Kinds)
    BY <1>1, BodyFacts
  <1>7. PICK i \in 1..Len(b) : b[i].kind = "count" /\ b[i].pc = t
    <2>1. "count" \in Range(Kinds) /\ "count" # "work"
      BY KindsFacts
    <2>2. HasOp(b, "count", t)
      BY <1>3, <1>50, <2>1
    <2> QED
      BY <1>6, <2>2 DEF HasOp
  <1>8. A \in SUBSET (1..Len(b)) /\ i \in A
    BY <1>2, <1>4, <1>6, <1>7
  <1>9. k \in A /\ k <= i
    BY <1>6, <1>8, FirstPosition
  <1> HIDE DEF k
  <1>10. k = i
    <2>1. k \in 1..Len(b) /\ b[k].pc = t
      BY <1>2, <1>4, <1>6, <1>8, <1>9
    <2>2. b[k].kind \in {"count", "work"}
      <3>1. HasOp(b, b[k].kind, b[k].pc) /\ b[k].kind \in Range(Kinds) /\ b[k].pc \in Addr
        BY <1>6, <2>1 DEF HasOp
      <3> QED
        BY <1>3, <3>1
    <2>3. CASE b[k].kind = "work"
      <3>1. Rank(b[i].kind) < Rank(b[k].kind)
        BY <1>7, <2>3 DEF Rank
      <3>2. i < k
        BY <1>1, <1>7, <2>1, <3>1, OrderedFacts
      <3> QED
        BY <1>6, <1>9, <2>1, <3>2
    <2>4. CASE b[k].kind = "count"
      BY <1>1, <1>7, <2>1, <2>4, OrderedFacts
    <2> QED
      BY <2>2, <2>3, <2>4
  <1>11. c \in Seq(Op) /\ Len(c) = k /\ DOMAIN c = 1..k /\ \A j \in 1..k : c[j] = b[j]
    BY <1>1, <1>6, <1>10
  <1> HIDE DEF c
  <1>12. /\ g \in LLVMFunction
         /\ g.body = c /\ g.pcStart = f.pcStart /\ g.pcEnd = f.pcEnd
         /\ g.live = FALSE /\ g.link = t /\ g.exits \in {f.exits, None}
    BY <1>1, <1>5, <1>11 DEF LLVMFunction
  <1>13. t \in Int /\ t # None
    BY SizesAssumption DEF Addr, None
  <1>14. Ordered(c)
    BY <1>1, <1>6, <1>10, <1>11 DEF Ordered
  <1>15. \A j \in DOMAIN c : c[j].cur = c[j].pc
    BY <1>2, <1>6, <1>10, <1>11
  <1>16. ASSUME NEW j \in 1..Len(b)
         PROVE  j \in 1..k <=> b[j].pc < t \/ (b[j].pc = t /\ b[j].kind = "count")
    <2>1. ASSUME j <= k PROVE b[j].pc < t \/ (b[j].pc = t /\ b[j].kind = "count")
      <3>1. b[j].pc <= t
        BY <1>1, <1>7, <1>10, <2>1, OrderedFacts
      <3>2. CASE b[j].pc = t
        <4>1. j \in A
          BY <1>2, <1>4, <1>6, <3>2
        <4>2. k <= j
          BY <1>6, <1>8, <4>1, FirstPosition DEF k
        <4>3. j = i
          BY <1>6, <1>10, <2>1, <4>2
        <4> QED
          BY <1>7, <4>3
      <3> QED
        BY <1>6, <1>13, <3>1, <3>2
    <2>2. ASSUME k < j PROVE ~(b[j].pc < t \/ (b[j].pc = t /\ b[j].kind = "count"))
      <3>1. b[k].pc <= b[j].pc
        BY <1>1, <1>6, <1>7, <1>10, <2>2, OrderedFacts
      <3>2. t <= b[j].pc
        BY <1>7, <1>10, <3>1
      <3>3. ASSUME b[j].pc = t, b[j].kind = "count" PROVE FALSE
        <4>1. j = i
          BY <1>1, <1>7, <3>3, OrderedFacts
        <4> QED
          BY <1>6, <1>10, <2>2, <4>1
      <3>4. ~(b[j].pc < t)
        BY <1>6, <1>13, <3>2
      <3> QED
        BY <3>3, <3>4
    <2> QED
      BY <1>6, <1>10, <2>1, <2>2
  <1>17. ASSUME NEW kind, NEW p
         PROVE  HasOp(c, kind, p) <=> HasOp(b, kind, p) /\ BeforeLink(g, kind, p)
    <2>1. BeforeLink(g, kind, p) <=> p < t \/ (p = t /\ kind = "count")
      BY <1>12, <1>13 DEF BeforeLink
    <2>2. ASSUME HasOp(c, kind, p) PROVE HasOp(b, kind, p) /\ (p < t \/ (p = t /\ kind = "count"))
      <3>1. PICK j \in 1..k : c[j].kind = kind /\ c[j].pc = p
        BY <1>11, <2>2 DEF HasOp
      <3>2. j \in 1..Len(b) /\ b[j].kind = kind /\ b[j].pc = p
        BY <1>6, <1>10, <1>11, <3>1
      <3> QED
        BY <1>6, <1>16, <3>2 DEF HasOp
    <2>3. ASSUME HasOp(b, kind, p), p < t \/ (p = t /\ kind = "count") PROVE HasOp(c, kind, p)
      <3>1. PICK j \in 1..Len(b) : b[j].kind = kind /\ b[j].pc = p
        BY <1>6, <2>3 DEF HasOp
      <3>2. j \in 1..k
        BY <1>16, <2>3, <3>1
      <3> QED
        BY <1>11, <3>1, <3>2 DEF HasOp
    <2> QED
      BY <2>1, <2>2, <2>3
  <1>18. BodyOK(m, s, g, {"count", "work"}, TRUE)
    <2>1. ASSUME NEW kind \in Range(Kinds), NEW p \in Addr
          PROVE  HasOp(c, kind, p) <=>
                    /\ kind \in {"count", "work"}
                    /\ p \in Range(Instructions(m, s))
                    /\ kind = "work" => m[p].work
                    /\ BeforeLink(g, kind, p)
      BY <1>3, <1>17 DEF R
    <2> QED
      BY <1>12, <1>14, <1>15, <2>1 DEF BodyOK
  <1>19. LinkOK(m, D, s, g)
    <2>1. f.exits = LastInst(m, s)
      BY DEF FunctionOK, LinkOK
    <2> QED
      BY <1>12, <1>13, <2>1 DEF LinkOK
  <1>20. /\ g.pcStart = s
         /\ g.pcEnd = LastInst(m, s) + m[LastInst(m, s)].len
         /\ g.live <=> g.link = None
    BY <1>12, <1>13 DEF FunctionOK
  <1> QED
    BY <1>12, <1>18, <1>19, <1>20 DEF FunctionOK

\* Positions of the same instruction are less than four apart.
LEMMA FourApart ==
    ASSUME NEW k \in Nat, NEW l \in Nat, NEW r \in 1..4, NEW t \in 1..4,
           4 * k + r - 4 < 4 * l + t - 4
    PROVE  k < l \/ (k = l /\ r < t)
  OBVIOUS

\* Four operations for each instruction, in the order of Kinds, but no work
\* for those that have none.
LEMMA TranslatedBody ==
    ASSUME NEW m \in Memories, NEW q \in Seq(Addr), Increasing(q), NEW c, c = Body(m, q)
    PROVE  /\ c \in Seq(Op) /\ Ordered(c)
           /\ \A i \in DOMAIN c : c[i].cur = None
           /\ \A kind \in Range(Kinds), p \in Addr :
                 HasOp(c, kind, p) <=> p \in Range(q) /\ (kind = "work" => m[p].work)
  <1> DEFINE n == Len(q)
             a(i) == ((i - 1) \div 4) + 1
             r(i) == ((i - 1) % 4) + 1
             ops == [i \in 1..4 * Len(q) |-> [kind |-> Kinds[((i - 1) % 4) + 1],
                                              pc   |-> q[((i - 1) \div 4) + 1],
                                              cur  |-> None]]
             I == {i \in DOMAIN ops : ops[i].kind = "work" => m[ops[i].pc].work}
  <1>1. c = KeepAt(ops, I)
    BY DEF Body
  <1>2. /\ n \in Nat /\ 4 * n \in Nat /\ DOMAIN q = 1..n
        /\ \A i \in 1..n : q[i] \in Addr /\ q[i] \in Int
    BY SizesAssumption DEF Addr
  <1>3. /\ \A i \in 1..4 : Kinds[i] \in Range(Kinds) /\ Rank(Kinds[i]) = i
        /\ \A kind \in Range(Kinds) : \E i \in 1..4 : Kinds[i] = kind
    <2>1. Kinds[1] = "pc" /\ Kinds[2] = "count" /\ Kinds[3] = "icount" /\ Kinds[4] = "work"
      BY DEF Kinds
    <2>2. \A i \in 1..4 : i = 1 \/ i = 2 \/ i = 3 \/ i = 4
      OBVIOUS
    <2>3. \A i \in 1..4 : Kinds[i] \in Range(Kinds) /\ Rank(Kinds[i]) = i
      BY <2>1, <2>2, KindsFacts DEF Rank
    <2>4. \A kind \in Range(Kinds) : \E i \in 1..4 : Kinds[i] = kind
      BY <2>1, KindsFacts
    <2> QED
      BY <2>3, <2>4
  <1>4. ASSUME NEW i \in 1..(4 * n)
        PROVE  /\ a(i) \in 1..n /\ r(i) \in 1..4 /\ i = 4 * a(i) + r(i) - 4
               /\ ops[i].kind = Kinds[r(i)] /\ ops[i].pc = q[a(i)] /\ ops[i].cur = None
               /\ ops[i] \in Op
    <2>1. a(i) \in 1..n /\ r(i) \in 1..4 /\ i = 4 * a(i) + r(i) - 4
      BY <1>2, DivFacts
    <2>2. ops[i] = [kind |-> Kinds[r(i)], pc |-> q[a(i)], cur |-> None]
      OBVIOUS
    <2> HIDE DEF ops, a, r
    <2> QED
      BY <1>2, <1>3, <2>1, <2>2 DEF Op
  <1>5. ASSUME NEW k \in 1..n, NEW l \in 1..4
        PROVE  \E i \in 1..(4 * n) : ops[i].kind = Kinds[l] /\ ops[i].pc = q[k]
    <2> DEFINE i == 4 * k + l - 4
    <2>1. i \in 1..(4 * n) /\ a(i) = k /\ r(i) = l
      BY <1>2, DivBack
    <2> HIDE DEF i, a, r, ops
    <2> QED
      BY <1>4, <2>1
  <1>6. ops \in Seq(Op) /\ Len(ops) = 4 * n /\ DOMAIN ops = 1..(4 * n)
    <2>1. ops \in [1..(4 * n) -> Op]
      <3>1. ops = [i \in 1..(4 * n) |-> ops[i]]
        OBVIOUS
      <3> HIDE DEF ops
      <3> QED
        BY <1>4, <3>1
    <2>2. DOMAIN ops = 1..(4 * n)
      OBVIOUS
    <2> HIDE DEF ops
    <2> QED
      BY <1>2, <2>1, <2>2, FunctionIsSequence
  <1> HIDE DEF ops, a, r
  <1>7. Ordered(ops)
    <2> SUFFICES ASSUME NEW i \in 1..(4 * n), NEW j \in 1..(4 * n), i < j
                 PROVE  \/ ops[i].pc < ops[j].pc
                        \/ ops[i].pc = ops[j].pc /\ Rank(ops[i].kind) < Rank(ops[j].kind)
      BY <1>6 DEF Ordered
    <2>1. /\ a(i) \in 1..n /\ r(i) \in 1..4 /\ i = 4 * a(i) + r(i) - 4
          /\ a(j) \in 1..n /\ r(j) \in 1..4 /\ j = 4 * a(j) + r(j) - 4
          /\ ops[i].pc = q[a(i)] /\ ops[j].pc = q[a(j)]
          /\ ops[i].kind = Kinds[r(i)] /\ ops[j].kind = Kinds[r(j)]
      BY <1>4
    <2>2. a(i) < a(j) \/ (a(i) = a(j) /\ r(i) < r(j))
      <3>1. a(i) \in Nat /\ a(j) \in Nat
        BY <2>1
      <3>2. 4 * a(i) + r(i) - 4 < 4 * a(j) + r(j) - 4
        BY <2>1
      <3> QED
        BY <2>1, <3>1, <3>2, FourApart
    <2>3. CASE a(i) < a(j)
      BY <2>1, <2>3 DEF Increasing
    <2>4. CASE a(i) = a(j) /\ r(i) < r(j)
      BY <1>3, <2>1, <2>4
    <2> QED
      BY <2>2, <2>3, <2>4
  <1>8. c \in Seq(Op) /\ Ordered(c) /\ From(c, ops, I) /\ Into(ops, c, I)
    <2> HIDE DEF I
    <2> QED
      BY <1>1, <1>6, <1>7, KeepOps
  <1>9. DOMAIN c = 1..Len(c)
    BY <1>8
  <1>10. \A i \in DOMAIN c : c[i].cur = None
    BY <1>4, <1>6, <1>8, <1>9 DEF From
  <1>11. ASSUME NEW kind \in Range(Kinds), NEW p \in Addr
         PROVE  HasOp(c, kind, p) <=> p \in Range(q) /\ (kind = "work" => m[p].work)
    <2>1. ASSUME HasOp(c, kind, p) PROVE p \in Range(q) /\ (kind = "work" => m[p].work)
      <3>1. PICK i \in 1..Len(c) : c[i].kind = kind /\ c[i].pc = p
        BY <1>9, <2>1 DEF HasOp
      <3>2. PICK j \in 1..(4 * n) : j \in I /\ c[i] = ops[j]
        BY <1>6, <1>8 DEF From
      <3>3. ops[j].kind = kind /\ ops[j].pc = p /\ a(j) \in 1..n /\ p = q[a(j)]
        BY <1>4, <3>1, <3>2
      <3>4. kind = "work" => m[p].work
        BY <3>2, <3>3
      <3>5. p \in Range(q)
        BY <1>2, <3>3 DEF Range
      <3> QED
        BY <3>4, <3>5
    <2>2. ASSUME p \in Range(q), kind = "work" => m[p].work PROVE HasOp(c, kind, p)
      <3>1. PICK k \in 1..n : p = q[k]
        BY <1>2, <2>2 DEF Range
      <3>2. PICK l \in 1..4 : Kinds[l] = kind
        BY <1>3
      <3>3. PICK i \in 1..(4 * n) : ops[i].kind = Kinds[l] /\ ops[i].pc = q[k]
        BY <1>5
      <3>4. i \in I
        BY <1>6, <2>2, <3>1, <3>2, <3>3
      <3>5. PICK j \in 1..Len(c) : c[j] = ops[i]
        BY <1>6, <1>8, <3>4 DEF Into
      <3> QED
        BY <1>9, <3>1, <3>2, <3>3, <3>5 DEF HasOp
    <2> QED
      BY <2>1, <2>2
  <1> QED
    BY <1>8, <1>10, <1>11

\* What QEMU hands over is a function with the operations of all kinds.
LEMMA FunctionTranslated ==
    ASSUME NEW m \in Memories, NEW D, NEW s \in Addr, NEW f, f = Translate(m, s)
    PROVE  FunctionOK(m, D, s, f, Range(Kinds), FALSE) /\ f.link = None
  <1> DEFINE q == Instructions(m, s)
             l == LastInst(m, s)
  <1>1. f = [pcStart |-> s, pcEnd |-> l + m[l].len, body |-> Body(m, q),
             own |-> m[l].ends = "cond", exits |-> l, live |-> TRUE, link |-> None]
    BY DEF Translate, LastInst
  <1>2. l \in Addr /\ l \in Nat /\ m[l].len \in Nat
    <2>1. l \in Addr
      BY BlockFacts DEF IsBlock
    <2> QED
      BY <2>1, MemoryFacts
  <1>3. q \in Seq(Addr) /\ Increasing(q)
    BY BlockFacts DEF IsBlock
  <1>40. q = Instructions(m, s) /\ l = LastInst(m, s)
    OBVIOUS
  <1> HIDE DEF q, l
  <1>4. /\ f.body \in Seq(Op) /\ Ordered(f.body)
        /\ \A i \in DOMAIN f.body : f.body[i].cur = None
        /\ \A kind \in Range(Kinds), p \in Addr :
              HasOp(f.body, kind, p) <=> p \in Range(q) /\ (kind = "work" => m[p].work)
    <2>1. f.body = Body(m, q)
      BY <1>1
    <2> QED
      BY <1>3, <2>1, TranslatedBody
  <1>5. /\ f.pcStart = s /\ f.pcEnd = l + m[l].len /\ f.own = (m[l].ends = "cond")
        /\ f.exits = l /\ f.live = TRUE /\ f.link = None
    BY <1>1
  <1>6. f \in LLVMFunction
    <2>1. Body(m, q) \in Seq(Op)
      BY <1>1, <1>4
    <2> QED
      BY <1>1, <1>2, <2>1 DEF LLVMFunction
  <1>7. BodyOK(m, s, f, Range(Kinds), FALSE)
    BY <1>4, <1>5, <1>40 DEF BodyOK, BeforeLink
  <1>8. LinkOK(m, D, s, f)
    BY <1>5, <1>40 DEF LinkOK
  <1> QED
    BY <1>5, <1>6, <1>7, <1>8, <1>40 DEF FunctionOK

----------------------------------------------------------------------------
(* The lists of FindOverlaps, and the links.                               *)

\* The functions at the positions in e end at p, and no others do.
EndTogether(e, p) ==
    /\ e \in Seq(Starts) /\ Increasing(e)
    /\ \A i \in 1..Len(e) : LastInst(memory, e[i]) = p
    /\ \A s \in Starts : LastInst(memory, s) = p => \E i \in 1..Len(e) : e[i] = s

\* Function i of the list for p is linked with the one behind it.
Linked(p, i) ==
    /\ i < Len(endings[p])
    /\ \/ \A j \in 1..Len(overlaps) : overlaps[j] # p
       \/ p = Head(overlaps) /\ i + 1 < next

\* The list for an instruction has the blocks that end there, by their start;
\* all but the last are linked with the next one when the list is done.
EndingsInv ==
    /\ endings \in [Addr -> Seq(Starts)]
    /\ \A p \in Addr :
          /\ EndTogether(endings[p], p)
          /\ \A i \in 1..Len(endings[p]) :
                code[endings[p][i]].link = IF Linked(p, i) THEN endings[p][i + 1] ELSE None
    /\ overlaps \in Seq(Addr) /\ Distinct(overlaps)
    /\ \A i \in 1..Len(overlaps) : Len(endings[overlaps[i]]) >= 2
    /\ overlaps # <<>> => next \in 2..Len(endings[Head(overlaps)])

\* The list of the blocks that end at an instruction.
LEMMA EndingFacts ==
    ASSUME order \in Seq(Addr), Distinct(order), NEW p, NEW e, e = EndingAt(p)
    PROVE  /\ e \in Seq(Addr) /\ Distinct(e)
           /\ \A i \in 1..Len(e) : e[i] \in Starts /\ lastpc[e[i]] = p
           /\ \A s \in Starts : lastpc[s] = p => \E i \in 1..Len(e) : e[i] = s
  <1> DEFINE T == {s \in Starts : lastpc[s] = p}
  <1>1. e = Keep(order, T)
    BY DEF EndingAt
  <1>2. /\ e \in Seq(Addr) /\ KeptIn(order, T, e) /\ Distinct(e)
        /\ \A i \in 1..Len(e) : e[i] \in T
    <2> HIDE DEF T
    <2> QED
      BY <1>1, KeepFacts, KeepDistinct
  <1>3. ASSUME NEW s \in Starts, lastpc[s] = p PROVE \E i \in 1..Len(e) : e[i] = s
    <2>1. PICK i \in 1..Len(order) : order[i] = s
      BY DEF Starts, Range
    <2>2. order[i] \in T
      BY <1>3, <2>1
    <2> QED
      BY <1>2, <2>1, <2>2 DEF KeptIn
  <1> QED
    BY <1>2, <1>3

\* ByStart sorts a list of addresses and loses none.
LEMMA SortedFacts ==
    ASSUME NEW a \in Seq(Addr), NEW e, e = ByStart(a)
    PROVE  /\ e \in Seq(Addr) /\ Increasing(e)
           /\ \A i \in 1..Len(e) : \E j \in 1..Len(a) : a[j] = e[i]
           /\ Within(a, e)
  <1> DEFINE asc == [i \in 1..PageEnd |-> i - 1]
             R == Range(a)
  <1>1. e = Keep(asc, R)
    BY DEF ByStart
  <1>2. asc \in [1..PageEnd -> Addr] /\ PageEnd \in Nat
    BY SizesAssumption DEF Addr
  <1>3. asc \in Seq(Addr) /\ Len(asc) = PageEnd /\ \A i \in 1..PageEnd : asc[i] = i - 1
    <2>1. \A i \in 1..PageEnd : asc[i] = i - 1
      OBVIOUS
    <2> HIDE DEF asc
    <2> QED
      BY <1>2, <2>1, FunctionIsSequence
  <1> HIDE DEF asc
  <1>4. Increasing(asc)
    BY <1>2, <1>3 DEF Increasing
  <1>5. Addr \subseteq Int
    BY SizesAssumption DEF Addr
  <1>6. \A p : p \in R <=> \E j \in 1..Len(a) : a[j] = p
    BY DEF Range
  <1> HIDE DEF R
  <1>7. /\ e \in Seq(Addr) /\ KeptIn(asc, R, e) /\ Increasing(e)
        /\ \A i \in 1..Len(e) : e[i] \in R
    BY <1>1, <1>3, <1>4, KeepFacts, KeepIncreases
  <1>8. ASSUME NEW j \in 1..Len(a) PROVE \E i \in 1..Len(e) : e[i] = a[j]
    <2>1. a[j] \in Addr /\ a[j] \in R
      BY <1>6
    <2>2. a[j] + 1 \in 1..PageEnd /\ (a[j] + 1) - 1 = a[j]
      BY <1>2, <2>1 DEF Addr
    <2>3. asc[a[j] + 1] = a[j]
      BY <1>3, <2>2
    <2> QED
      BY <1>3, <1>7, <2>1, <2>2, <2>3 DEF KeptIn
  <1>9. Within(a, e)
    BY <1>8 DEF Within
  <1> QED
    BY <1>6, <1>7, <1>9

\* The lists of FindOverlaps have the blocks that end at an instruction.
LEMMA FoundEndings ==
    ASSUME order \in Seq(Addr), Distinct(order), memory \in Memories,
           Starts \subseteq Addr, \A s \in Starts : lastpc[s] = LastInst(memory, s),
           NEW p \in Addr, NEW e, e = ByStart(EndingAt(p))
    PROVE  EndTogether(e, p) /\ (Len(e) >= 2 <=> Len(EndingAt(p)) >= 2)
  <1> DEFINE a == EndingAt(p)
  <1>1. /\ a \in Seq(Addr) /\ Distinct(a)
        /\ \A i \in 1..Len(a) : a[i] \in Starts /\ lastpc[a[i]] = p
        /\ \A s \in Starts : lastpc[s] = p => \E i \in 1..Len(a) : a[i] = s
    BY EndingFacts
  <1>2. /\ e \in Seq(Addr) /\ Increasing(e)
        /\ \A i \in 1..Len(e) : \E j \in 1..Len(a) : a[j] = e[i]
        /\ Within(a, e)
    BY <1>1, SortedFacts, SMTT(30)
  <1> HIDE DEF a
  <1>3. \A i \in 1..Len(e) : e[i] \in Starts /\ LastInst(memory, e[i]) = p
    BY <1>1, <1>2
  <1>4. DOMAIN e = 1..Len(e) /\ Len(e) \in Nat /\ Len(a) \in Nat
    BY <1>1, <1>2
  <1>5. e \in Seq(Starts)
    <2>1. e \in [1..Len(e) -> Starts]
      BY <1>2, <1>3, <1>4
    <2> QED
      BY <1>4, <2>1, FunctionIsSequence
  <1>6. ASSUME NEW s \in Starts, LastInst(memory, s) = p PROVE \E i \in 1..Len(e) : e[i] = s
    <2>1. PICK i \in 1..Len(a) : a[i] = s
      BY <1>1, <1>6
    <2> QED
      BY <1>2, <2>1 DEF Within
  <1>7. EndTogether(e, p)
    BY <1>2, <1>3, <1>5, <1>6 DEF EndTogether
  <1>8. ASSUME Len(e) >= 2 PROVE Len(a) >= 2
    <2>1. 1 \in 1..Len(e) /\ 2 \in 1..Len(e)
      BY <1>4, <1>8
    <2>2. e[1] < e[2] /\ e[1] \in Int
      BY <1>2, <2>1, SizesAssumption DEF Increasing, Addr
    <2>3. e[1] # e[2]
      BY <2>2
    <2>4. PICK i \in 1..Len(a) : a[i] = e[1]
      BY <1>2, <2>1
    <2>5. PICK j \in 1..Len(a) : a[j] = e[2]
      BY <1>2, <2>1
    <2>6. i # j
      BY <2>3, <2>4, <2>5
    <2> QED
      BY <1>4, <2>6
  <1>9. ASSUME Len(a) >= 2 PROVE Len(e) >= 2
    <2>1. 1 \in 1..Len(a) /\ 2 \in 1..Len(a)
      BY <1>4, <1>9
    <2>2. a[1] # a[2]
      BY <1>1, <2>1 DEF Distinct
    <2>3. PICK i \in 1..Len(e) : e[i] = a[1]
      BY <1>2, <2>1 DEF Within
    <2>4. PICK j \in 1..Len(e) : e[j] = a[2]
      BY <1>2, <2>1 DEF Within
    <2>5. i # j
      BY <2>2, <2>3, <2>4
    <2> QED
      BY <1>4, <2>5
  <1> QED
    BY <1>7, <1>8, <1>9 DEF a

\* FindOverlaps lists every instruction at which several functions end once.
LEMMA FoundOverlaps ==
    ASSUME order \in Seq(Addr), Distinct(order), DOMAIN code = Starts,
           memory \in Memories, Starts \subseteq Addr,
           \A s \in Starts : lastpc[s] = LastInst(memory, s) /\ code[s].link = None,
           FindOverlaps
    PROVE  EndingsInv'
  <1> DEFINE T == {s \in Starts : /\ Len(EndingAt(lastpc[s])) >= 2
                                  /\ EndingAt(lastpc[s])[2] = s}
             seconds == Keep(order, T)
  <1>1. /\ endings' = [p \in Addr |-> ByStart(EndingAt(p))]
        /\ overlaps' = [i \in DOMAIN seconds |-> lastpc[seconds[i]]]
        /\ next' = 2 /\ memory' = memory /\ order' = order /\ code' = code
        /\ Starts' = Starts
    BY DEF FindOverlaps, Starts
  <1>2. \A p \in Addr : /\ endings'[p] = ByStart(EndingAt(p))
                        /\ EndTogether(endings'[p], p)
                        /\ Len(endings'[p]) >= 2 <=> Len(EndingAt(p)) >= 2
    <2> TAKE p \in Addr
    <2>1. endings'[p] = ByStart(EndingAt(p))
      BY <1>1
    <2> QED
      BY <2>1, FoundEndings
  <1>3. /\ seconds \in Seq(Addr)
        /\ \A j \in 1..Len(seconds) : seconds[j] \in T
        /\ \A i \in 1..Len(order) :
              order[i] \in T => \E j \in 1..Len(seconds) : seconds[j] = order[i]
        /\ Distinct(seconds)
    <2> HIDE DEF T
    <2> QED
      BY KeepMembers, KeepDistinct
  <1> HIDE DEF seconds
  <1>4. DOMAIN seconds = 1..Len(seconds) /\ Len(seconds) \in Nat
    BY <1>3
  <1>5. \A s \in Starts : lastpc[s] \in Addr
    BY BlockFacts DEF IsBlock
  <1>6. /\ overlaps' \in Seq(Addr) /\ Len(overlaps') = Len(seconds)
        /\ \A i \in 1..Len(seconds) : overlaps'[i] = lastpc[seconds[i]]
    <2>1. \A i \in 1..Len(seconds) : overlaps'[i] = lastpc[seconds[i]] /\ seconds[i] \in Starts
      BY <1>1, <1>3, <1>4
    <2>2. overlaps' \in [1..Len(seconds) -> Addr]
      BY <1>1, <1>4, <1>5, <2>1
    <2> QED
      BY <1>4, <2>1, <2>2, FunctionIsSequence
  <1>7. Distinct(overlaps')
    <2> SUFFICES ASSUME NEW i \in 1..Len(seconds), NEW j \in 1..Len(seconds),
                        overlaps'[i] = overlaps'[j]
                 PROVE  i = j
      BY <1>6 DEF Distinct
    <2>1. lastpc[seconds[i]] = lastpc[seconds[j]]
      BY <1>6
    <2>2. seconds[i] \in T /\ seconds[j] \in T
      BY <1>3
    <2>3. seconds[i] = seconds[j]
      BY <2>1, <2>2
    <2> QED
      BY <1>3, <2>3 DEF Distinct
  <1>8. \A i \in 1..Len(overlaps') : Len(endings'[overlaps'[i]]) >= 2
    <2> TAKE i \in 1..Len(overlaps')
    <2>1. /\ i \in 1..Len(seconds) /\ seconds[i] \in T /\ overlaps'[i] = lastpc[seconds[i]]
      BY <1>3, <1>6
    <2>2. overlaps'[i] \in Addr /\ Len(EndingAt(overlaps'[i])) >= 2
      BY <1>5, <2>1
    <2> QED
      BY <1>2, <2>2
  <1>9. ASSUME NEW p \in Addr, Len(endings'[p]) >= 2
        PROVE  \E j \in 1..Len(overlaps') : overlaps'[j] = p
    <2> DEFINE a == EndingAt(p)
    <2>1. /\ a \in Seq(Addr)
          /\ \A i \in 1..Len(a) : a[i] \in Starts /\ lastpc[a[i]] = p
      BY EndingFacts
    <2>2. Len(a) >= 2
      BY <1>2, <1>9
    <2>3. Len(a) \in Nat
      BY <2>1
    <2> HIDE DEF a
    <2>4. 2 \in 1..Len(a) /\ a[2] \in Starts /\ lastpc[a[2]] = p
      BY <2>1, <2>2, <2>3
    <2>5. a[2] \in T
      BY <2>2, <2>4 DEF a
    <2>6. PICK i \in 1..Len(order) : order[i] = a[2]
      BY <2>4 DEF Starts, Range
    <2>7. PICK j \in 1..Len(seconds) : seconds[j] = a[2]
      BY <1>3, <2>5, <2>6
    <2> QED
      BY <1>6, <2>4, <2>7
  <1>10. ASSUME NEW p \in Addr, NEW i \in 1..Len(endings'[p]) PROVE ~Linked(p, i)'
    <2> SUFFICES ASSUME i < Len(endings'[p]),
                        \/ \A j \in 1..Len(overlaps') : overlaps'[j] # p
                        \/ i + 1 < next'
                 PROVE  FALSE
      BY DEF Linked
    <2>1. Len(endings'[p]) \in Nat
      <3>1. endings'[p] \in Seq(Starts)
        BY <1>2 DEF EndTogether
      <3> QED
        BY <3>1
    <2>2. Len(endings'[p]) >= 2 /\ ~(i + 1 < next')
      BY <1>1, <2>1
    <2> QED
      BY <1>9, <2>2
  <1>11. endings' \in [Addr -> Seq(Starts')]
    <2>1. \A p \in Addr : endings'[p] \in Seq(Starts)
      BY <1>2 DEF EndTogether
    <2>2. endings' \in [Addr -> Seq(Starts)]
      BY <1>1, <2>1
    <2> QED
      BY <1>1, <2>2
  <1>12. \A p \in Addr : EndTogether(endings[p], p)'
    <2> TAKE p \in Addr
    <2>1. EndTogether(endings'[p], p)
      BY <1>2
    <2> QED
      BY <1>1, <2>1 DEF EndTogether
  <1>13. \A p \in Addr : \A i \in 1..Len(endings'[p]) :
            code'[endings'[p][i]].link = IF Linked(p, i)' THEN endings'[p][i + 1] ELSE None
    <2> TAKE p \in Addr
    <2> TAKE i \in 1..Len(endings'[p])
    <2>1. endings'[p][i] \in Starts
      BY <1>2 DEF EndTogether
    <2> QED
      BY <1>1, <1>10, <2>1
  <1>14. overlaps' # <<>> => next' \in 2..Len(endings'[Head(overlaps')])
    <2> SUFFICES ASSUME overlaps' # <<>> PROVE next' \in 2..Len(endings'[Head(overlaps')])
      OBVIOUS
    <2>1. 1 \in 1..Len(overlaps') /\ Head(overlaps') = overlaps'[1] /\ overlaps'[1] \in Addr
      BY <1>6
    <2>2. Len(endings'[overlaps'[1]]) >= 2
      BY <1>8, <2>1
    <2>3. Len(endings'[overlaps'[1]]) \in Nat
      <3>1. endings'[overlaps'[1]] \in Seq(Starts)
        BY <1>2, <2>1 DEF EndTogether
      <3> QED
        BY <3>1
    <2> QED
      BY <1>1, <2>1, <2>2, <2>3
  <1> QED
    BY <1>6, <1>7, <1>8, <1>11, <1>12, <1>13, <1>14 DEF EndingsInv, Distinct

\* The operations of the kinds K are left in all functions.
AllOK(K, tagged) ==
    \A s \in Starts : FunctionOK(memory, Starts, s, code[s], K, tagged)

Untagged == {"transfrombbtovoid", "tag-inst-pc", "rmexterstoretopc"}
Uncut == Untagged \cup {"s2edeleteinstructioncount", "fixoverlappedbbs"}
Marking == {"armmarkcall", "done"}

CodeInv ==
    /\ memory \in Memories
    /\ DOMAIN code = Starts /\ Starts \subseteq Addr
    /\ order \in Seq(Addr) /\ Distinct(order)
    /\ pass \in Uncut \cup {"truncate", "aborted"} \cup Marking
    /\ pass \in Untagged => AllOK(Range(Kinds), FALSE)
    /\ pass = "s2edeleteinstructioncount" => AllOK({"count", "icount", "work"}, TRUE)
    /\ pass \in {"fixoverlappedbbs", "truncate"} => AllOK({"count", "work"}, TRUE)
    /\ pass \in Marking => AllOK({"work"}, TRUE)
    /\ pass = "aborted" => AllOK({"count", "work"}, TRUE) \/ AllOK({"work"}, TRUE)

\* Which functions are linked, and why a pass stops opt.
LinksInv ==
    /\ pass \in Uncut => overlaps = <<>> /\ \A s \in Starts : code[s].link = None
    /\ pass \notin {"transfrombbtovoid", "tag-inst-pc"} =>
            \A s \in Starts : lastpc[s] = LastInst(memory, s)
    /\ pass \in {"truncate"} \cup Marking => EndingsInv
    /\ pass \in Marking => overlaps = <<>>
    /\ pass = "done" => \A s \in Starts : HasPCStart(code[s])
    /\ pass = "aborted" =>
            IF overlaps # <<>> THEN ~Consistent
            ELSE \E s \in Starts : NothingBeforeCut(s)

\* The cut of a function whose list is being handled.
LEMMA TruncateFacts ==
    ASSUME CodeInv, EndingsInv, pass = "truncate", overlaps # <<>>
    PROVE  /\ Head(overlaps) \in Addr /\ Head(overlaps) = overlaps[1]
           /\ 1 \in 1..Len(overlaps) /\ Len(overlaps) \in Nat
           /\ EndTogether(endings[Head(overlaps)], Head(overlaps))
           /\ Len(endings[Head(overlaps)]) \in Nat
           /\ next \in 2..Len(endings[Head(overlaps)])
           /\ next - 1 \in 1..Len(endings[Head(overlaps)])
           /\ next \in 1..Len(endings[Head(overlaps)])
           /\ Curr \in Starts /\ NextFunc \in Starts
           /\ Curr \in Addr /\ NextFunc \in Addr /\ Curr < NextFunc
           /\ LastInst(memory, Curr) = Head(overlaps)
           /\ LastInst(memory, NextFunc) = Head(overlaps)
           /\ code[Curr].link = None
  <1> DEFINE p == Head(overlaps)
             e == endings[p]
  <1>1. p \in Addr /\ p = overlaps[1] /\ 1 \in 1..Len(overlaps) /\ Len(overlaps) \in Nat
    BY DEF EndingsInv
  <1> HIDE DEF p
  <1>2. EndTogether(e, p)
    BY <1>1 DEF EndingsInv
  <1>3. next \in 2..Len(e)
    BY DEF EndingsInv, p
  <1>4. \A i \in 1..Len(e) : code[e[i]].link = IF Linked(p, i) THEN e[i + 1] ELSE None
    BY <1>1 DEF EndingsInv
  <1>5. Curr = e[next - 1] /\ NextFunc = e[next]
    BY DEF Curr, NextFunc, p
  <1>6. ~Linked(p, next - 1)
    <2>1. next \in Int /\ ~((next - 1) + 1 < next)
      BY <1>3
    <2> QED
      BY <1>1, <2>1 DEF Linked
  <1>7. p = Head(overlaps) /\ e = endings[Head(overlaps)]
    BY DEF p
  <1> HIDE DEF e
  <1>8. Len(e) \in Nat /\ e \in Seq(Starts) /\ Increasing(e)
    BY <1>2 DEF EndTogether
  <1>9. next - 1 \in 1..Len(e) /\ next \in 1..Len(e) /\ next - 1 < next
    BY <1>3, <1>8
  <1>10. Curr \in Starts /\ NextFunc \in Starts
    BY <1>5, <1>8, <1>9
  <1>11. Curr \in Addr /\ NextFunc \in Addr
    BY <1>10 DEF CodeInv
  <1>12. Curr < NextFunc
    BY <1>5, <1>8, <1>9 DEF Increasing
  <1>13. LastInst(memory, Curr) = p /\ LastInst(memory, NextFunc) = p
    BY <1>2, <1>5, <1>9 DEF EndTogether
  <1>14. code[Curr].link = None
    BY <1>4, <1>5, <1>6, <1>9
  <1> QED
    BY <1>1, <1>2, <1>3, <1>7, <1>8, <1>9, <1>10, <1>11, <1>12, <1>13, <1>14

\* A function that is not cut has operations of all its instructions.
LEMMA AlignedFacts ==
    ASSUME NEW m \in Memories, NEW D, NEW s \in Addr, NEW f, NEW t \in Addr,
           FunctionOK(m, D, s, f, {"count", "work"}, TRUE), f.link = None
    PROVE  Aligned(f, t) # {} <=> t \in Range(Instructions(m, s))
  <1>1. /\ BodyOK(m, s, f, {"count", "work"}, TRUE) /\ f.body \in Seq(Op)
        /\ \A i \in DOMAIN f.body : f.body[i].cur = f.body[i].pc
    BY DEF FunctionOK, BodyOK, LLVMFunction
  <1>2. \A kind \in Range(Kinds), p \in Addr :
            HasOp(f.body, kind, p) <=> /\ kind \in {"count", "work"}
                                       /\ p \in Range(Instructions(m, s))
                                       /\ kind = "work" => m[p].work
    BY <1>1 DEF BodyOK, BeforeLink
  <1>3. ASSUME Aligned(f, t) # {} PROVE t \in Range(Instructions(m, s))
    <2>1. PICK i \in DOMAIN f.body : f.body[i].cur = t
      BY <1>3 DEF Aligned
    <2>2. f.body[i].pc = t
      BY <1>1, <2>1
    <2>3. HasOp(f.body, f.body[i].kind, t)
      BY <2>2 DEF HasOp
    <2>4. f.body[i].kind \in Range(Kinds)
      <3> DEFINE b == f.body
      <3>1. b \in Seq(Op) /\ i \in DOMAIN b
        BY <1>1
      <3> HIDE DEF b
      <3>2. b[i].kind \in Range(Kinds)
        BY <3>1, BodyFacts
      <3> QED
        BY <3>2 DEF b
    <2> QED
      BY <1>2, <2>3, <2>4
  <1>4. ASSUME t \in Range(Instructions(m, s)) PROVE Aligned(f, t) # {}
    <2>1. "count" \in Range(Kinds) /\ "count" # "work"
      BY KindsFacts
    <2>2. HasOp(f.body, "count", t)
      BY <1>2, <1>4, <2>1
    <2>3. PICK i \in DOMAIN f.body : f.body[i].pc = t
      BY <2>2 DEF HasOp
    <2>4. f.body[i].cur = t
      BY <1>1, <2>3
    <2> QED
      BY <2>4 DEF Aligned
  <1> QED
    BY <1>3, <1>4

\* The asserts fail when an instruction is in the middle of another one.
LEMMA AssertMeansMisaligned ==
    ASSUME CodeInv, EndingsInv, AssertFails
    PROVE  ~Consistent
  <1>1. pass = "truncate" /\ overlaps # <<>>
        /\ (Curr >= NextFunc \/ Aligned(code[Curr], NextFunc) = {})
    BY DEF AssertFails
  <1>2. /\ Curr \in Starts /\ NextFunc \in Starts
        /\ Curr \in Addr /\ NextFunc \in Addr /\ Curr < NextFunc
        /\ LastInst(memory, Curr) = LastInst(memory, NextFunc)
        /\ code[Curr].link = None
    BY <1>1, TruncateFacts
  <1>3. Curr \in Int /\ NextFunc \in Int
    BY <1>2, SizesAssumption DEF Addr
  <1>4. Aligned(code[Curr], NextFunc) = {}
    BY <1>1, <1>2, <1>3
  <1>5. FunctionOK(memory, Starts, Curr, code[Curr], {"count", "work"}, TRUE)
    BY <1>1, <1>2 DEF CodeInv, AllOK
  <1>6. NextFunc \notin Range(Instructions(memory, Curr))
    <2>1. memory \in Memories
      BY DEF CodeInv
    <2> QED
      BY <1>2, <1>4, <1>5, <2>1, AlignedFacts
  <1> QED
    BY <1>2, <1>6 DEF Consistent, LastInst

\* Advance handles the list that follows the function that was linked.
LEMMA TruncateStep ==
    ASSUME CodeInv, EndingsInv, TruncateFuncAndLinkWith,
           NEW g, g = LinkWith(code[Curr], Min(Aligned(code[Curr], NextFunc)), NextFunc)
    PROVE  /\ FunctionOK(memory, Starts, Curr, g, {"count", "work"}, TRUE)
           /\ g.link = NextFunc
           /\ Curr \in Starts
           /\ code' = [code EXCEPT ![Curr] = g]
  <1>1. /\ pass = "truncate" /\ overlaps # <<>>
        /\ Aligned(code[Curr], NextFunc) # {}
        /\ code' = [code EXCEPT ![Curr] =
                        LinkWith(@, Min(Aligned(@, NextFunc)), NextFunc)]
    BY DEF TruncateFuncAndLinkWith
  <1>2. /\ Curr \in Starts /\ NextFunc \in Starts
        /\ Curr \in Addr /\ NextFunc \in Addr /\ Curr < NextFunc
        /\ LastInst(memory, NextFunc) = LastInst(memory, Curr)
        /\ code[Curr].link = None
    BY <1>1, TruncateFacts
  <1>3. /\ FunctionOK(memory, Starts, Curr, code[Curr], {"count", "work"}, TRUE)
        /\ memory \in Memories
    BY <1>1, <1>2 DEF CodeInv, AllOK
  <1>4. NextFunc \in Range(Instructions(memory, Curr))
    BY <1>1, <1>2, <1>3, AlignedFacts
  <1>5. FunctionOK(memory, Starts, Curr, g, {"count", "work"}, TRUE) /\ g.link = NextFunc
    <2> DEFINE f == code[Curr]
               c == Curr
               t == NextFunc
    <2>1. f = code[Curr] /\ c = Curr /\ t = NextFunc /\ g = LinkWith(f, Min(Aligned(f, t)), t)
      OBVIOUS
    <2>2. /\ FunctionOK(memory, Starts, c, f, {"count", "work"}, TRUE) /\ memory \in Memories
          /\ c \in Addr /\ t \in Starts /\ t \in Addr /\ c < t
          /\ LastInst(memory, t) = LastInst(memory, c) /\ f.link = None
          /\ t \in Range(Instructions(memory, c))
      BY <1>2, <1>3, <1>4
    <2> HIDE DEF f, c, t
    <2>3. FunctionOK(memory, Starts, c, g, {"count", "work"}, TRUE)
      BY <2>1, <2>2, FunctionLinked
    <2>4. g.link = t
      <3>1. f \in LLVMFunction
        BY <2>2 DEF FunctionOK
      <3> QED
        BY <2>1, <3>1 DEF LinkWith, LLVMFunction
    <2> QED
      BY <2>1, <2>3, <2>4
  <1>6. code' = [code EXCEPT ![Curr] = g]
    BY <1>1
  <1> QED
    BY <1>2, <1>5, <1>6

\* A list is done when its last but one function is linked.
LEMMA AdvanceKeepsEndings ==
    ASSUME CodeInv, EndingsInv, TruncateFuncAndLinkWith, Starts' = Starts
    PROVE  EndingsInv'
  <1> DEFINE p == Head(overlaps)
             e == endings[p]
             N == Len(overlaps)
             k == next - 1
             g == LinkWith(code[Curr], Min(Aligned(code[Curr], NextFunc)), NextFunc)
  <1>1. /\ pass = "truncate" /\ overlaps # <<>> /\ Advance
        /\ endings' = endings /\ memory' = memory
    BY DEF TruncateFuncAndLinkWith
  <1>2. /\ p \in Addr /\ p = overlaps[1] /\ N \in Nat /\ N >= 1
        /\ EndTogether(e, p) /\ Len(e) \in Nat /\ next \in 2..Len(e)
        /\ k \in 1..Len(e) /\ Curr \in Starts
        /\ LastInst(memory, Curr) = p
    BY <1>1, TruncateFacts
  <1>3. Curr = e[k] /\ NextFunc = e[k + 1]
    <2>1. k + 1 = next
      BY <1>2
    <2>2. Curr = e[k]
      BY DEF Curr
    <2>3. NextFunc = e[next]
      BY DEF NextFunc
    <2> HIDE DEF e, k
    <2> QED
      BY <2>1, <2>2, <2>3
  <1>4. g.link = NextFunc /\ code' = [code EXCEPT ![Curr] = g] /\ DOMAIN code = Starts
    BY TruncateStep DEF CodeInv
  <1>5. /\ overlaps \in Seq(Addr) /\ Distinct(overlaps)
        /\ \A i \in 1..N : Len(endings[overlaps[i]]) >= 2
        /\ \A q \in Addr : EndTogether(endings[q], q)
        /\ \A q \in Addr : \A i \in 1..Len(endings[q]) :
              code[endings[q][i]].link = IF Linked(q, i) THEN endings[q][i + 1] ELSE None
        /\ endings \in [Addr -> Seq(Starts)]
    BY DEF EndingsInv
  <1>6. Advance <=> IF next = Len(e) THEN overlaps' = Tail(overlaps) /\ next' = 2
                    ELSE overlaps' = overlaps /\ next' = next + 1
    BY DEF Advance
  <1> HIDE DEF g, N
  <1>7. /\ Tail(overlaps) \in Seq(Addr) /\ Len(Tail(overlaps)) = N - 1
        /\ \A i \in 1..(N - 1) : Tail(overlaps)[i] = overlaps[i + 1]
    BY <1>1, <1>5 DEF N
  <1> HIDE DEF k, p, e
  <1>8. /\ overlaps' \in Seq(Addr) /\ Distinct(overlaps')
        /\ \A i \in 1..Len(overlaps') : Len(endings[overlaps'[i]]) >= 2
        /\ overlaps' # <<>> => next' \in 2..Len(endings[Head(overlaps')])
    <2>1. CASE next = Len(e)
      <3>1. overlaps' = Tail(overlaps) /\ next' = 2
        BY <1>1, <1>6, <2>1
      <3> DEFINE r == Tail(overlaps)
      <3>2. r \in Seq(Addr) /\ Len(r) = N - 1 /\ \A i \in 1..(N - 1) : r[i] = overlaps[i + 1]
        BY <1>7
      <3>3. overlaps' = r
        BY <3>1
      <3> HIDE DEF r
      <3>4. \A i \in 1..(N - 1) : i + 1 \in 1..N /\ i \in Int
        BY <1>2
      <3>5. Distinct(r)
        <4> SUFFICES ASSUME NEW i \in 1..(N - 1), NEW j \in 1..(N - 1), r[i] = r[j]
                     PROVE  i = j
          BY <3>2 DEF Distinct
        <4>1. overlaps[i + 1] = overlaps[j + 1] /\ i + 1 \in 1..N /\ j + 1 \in 1..N
          BY <3>2, <3>4
        <4>2. i + 1 = j + 1
          BY <1>5, <4>1 DEF Distinct, N
        <4> QED
          BY <3>4, <4>2
      <3>6. \A i \in 1..Len(r) : Len(endings[r[i]]) >= 2
        BY <1>5, <3>2, <3>4
      <3>7. ASSUME r # <<>> PROVE 2 \in 2..Len(endings[Head(r)])
        <4>1. 1 \in 1..Len(r) /\ Head(r) = r[1] /\ r[1] \in Addr
          BY <3>2, <3>7
        <4>2. Len(endings[r[1]]) >= 2
          BY <3>6, <4>1
        <4>3. endings[r[1]] \in Seq(Starts)
          BY <1>5, <4>1
        <4>4. Len(endings[r[1]]) \in Nat
          BY <4>3
        <4> QED
          BY <4>1, <4>2, <4>4
      <3> QED
        BY <3>1, <3>2, <3>3, <3>5, <3>6, <3>7
    <2>2. CASE next # Len(e)
      <3>1. overlaps' = overlaps /\ next' = next + 1
        BY <1>1, <1>6, <2>2
      <3>2. next + 1 \in 2..Len(e)
        BY <1>2, <2>2
      <3> QED
        BY <1>5, <3>1, <3>2 DEF p, e, N
    <2> QED
      BY <2>1, <2>2
  <1>9. ASSUME NEW q \in Addr, NEW i \in 1..Len(endings[q])
        PROVE  Linked(q, i)' <=> Linked(q, i) \/ (q = p /\ i = k)
    <2>1. /\ i \in Int /\ i >= 1 /\ Len(endings[q]) \in Nat
      <3>1. endings[q] \in Seq(Starts)
        BY <1>5
      <3> QED
        BY <3>1
    <2>2. \A j \in 1..(N - 1) : overlaps[j + 1] # p /\ j + 1 \in 1..N
      <3> TAKE j \in 1..(N - 1)
      <3>1. j + 1 \in 1..N /\ 1 \in 1..N /\ j + 1 # 1
        BY <1>2
      <3> QED
        BY <1>2, <1>5, <3>1 DEF Distinct, N
    <2>3. Linked(q, i) <=> /\ i < Len(endings[q])
                           /\ \/ \A j \in 1..N : overlaps[j] # q
                              \/ q = p /\ i + 1 < next
      BY DEF Linked, p, N
    <2>4. Linked(q, i)' <=> /\ i < Len(endings[q])
                            /\ \/ \A j \in 1..Len(overlaps') : overlaps'[j] # q
                               \/ q = Head(overlaps') /\ i + 1 < next'
      BY <1>1 DEF Linked
    <2>5. k = next - 1 /\ next \in Int /\ 1 \in 1..N
      BY <1>2 DEF k
    <2>6. CASE next = Len(e)
      <3>1. overlaps' = Tail(overlaps) /\ next' = 2 /\ ~(i + 1 < next')
        BY <1>1, <1>6, <2>1, <2>6
      <3>2. Linked(q, i)' <=> /\ i < Len(endings[q])
                              /\ \A j \in 1..(N - 1) : overlaps[j + 1] # q
        BY <1>7, <2>4, <3>1
      <3>3. CASE q = p
        <4>1. Linked(q, i)' <=> i < Len(e)
          BY <2>2, <3>2, <3>3 DEF e
        <4>2. Linked(q, i) <=> i < Len(e) /\ i + 1 < Len(e)
          BY <1>2, <2>3, <2>5, <2>6, <3>3 DEF e
        <4> QED
          BY <1>2, <2>1, <2>5, <2>6, <3>3, <4>1, <4>2
      <3>4. CASE q # p
        <4>1. (\A j \in 1..(N - 1) : overlaps[j + 1] # q) <=> (\A j \in 1..N : overlaps[j] # q)
          <5>1. ASSUME \A j \in 1..(N - 1) : overlaps[j + 1] # q, NEW j \in 1..N
                PROVE  overlaps[j] # q
            <6>1. CASE j = 1
              BY <1>2, <3>4, <6>1
            <6>2. CASE j # 1
              <7>1. j - 1 \in 1..(N - 1) /\ (j - 1) + 1 = j
                BY <1>2, <6>2
              <7>2. overlaps[(j - 1) + 1] # q
                BY <5>1, <7>1
              <7> QED
                BY <7>1, <7>2
            <6> QED
              BY <6>1, <6>2
          <5>2. ASSUME \A j \in 1..N : overlaps[j] # q, NEW j \in 1..(N - 1)
                PROVE  overlaps[j + 1] # q
            BY <2>2, <5>2
          <5> QED
            BY <5>1, <5>2
        <4> QED
          BY <2>3, <3>2, <3>4, <4>1
      <3> QED
        BY <3>3, <3>4
    <2>7. CASE next # Len(e)
      <3>1. overlaps' = overlaps /\ next' = next + 1
        BY <1>1, <1>6, <2>7
      <3>2. Linked(q, i)' <=> /\ i < Len(endings[q])
                              /\ \/ \A j \in 1..N : overlaps[j] # q
                                 \/ q = p /\ i + 1 < next + 1
        BY <2>4, <3>1 DEF p, N
      <3>3. CASE q = p
        <4>1. ~\A j \in 1..N : overlaps[j] # q
          BY <1>2, <2>5, <3>3
        <4>2. Linked(q, i)' <=> i < Len(e) /\ i + 1 < next + 1
          BY <3>2, <3>3, <4>1 DEF e
        <4>3. Linked(q, i) <=> i < Len(e) /\ i + 1 < next
          BY <2>3, <3>3, <4>1 DEF e
        <4> QED
          BY <1>2, <2>1, <2>5, <2>7, <3>3, <4>2, <4>3
      <3>4. CASE q # p
        BY <2>3, <3>2, <3>4
      <3> QED
        BY <3>3, <3>4
    <2> QED
      BY <2>6, <2>7
  <1>10. ASSUME NEW q \in Addr, NEW i \in 1..Len(endings[q])
         PROVE  code'[endings[q][i]].link = IF Linked(q, i)' THEN endings[q][i + 1] ELSE None
    <2>1. /\ endings[q] \in Seq(Starts) /\ Increasing(endings[q])
          /\ LastInst(memory, endings[q][i]) = q /\ endings[q][i] \in Starts
      BY <1>5 DEF EndTogether
    <2>2. CASE q = p /\ i = k
      <3>1. endings[q][i] = Curr /\ endings[q][i + 1] = NextFunc
        BY <1>3, <2>2 DEF e
      <3>2. code'[Curr].link = NextFunc
        BY <1>2, <1>4
      <3>3. Linked(q, i)'
        BY <1>9, <2>2
      <3> QED
        BY <3>1, <3>2, <3>3
    <2>3. CASE ~(q = p /\ i = k)
      <3>1. endings[q][i] # Curr
        <4> SUFFICES ASSUME endings[q][i] = Curr PROVE FALSE
          OBVIOUS
        <4>1. q = p
          BY <1>2, <2>1
        <4>2. i \in 1..Len(e) /\ e[i] = e[k] /\ i # k
          BY <1>3, <2>3, <4>1 DEF e
        <4>3. e[i] \in Int /\ i \in Int /\ k \in Int
          <5>1. e[i] \in Addr
            BY <1>2, <1>3, <4>2 DEF CodeInv
          <5> QED
            BY <1>2, <4>2, <5>1, SizesAssumption DEF Addr
        <4>4. (i < k => e[i] < e[k]) /\ (k < i => e[k] < e[i])
          BY <1>2, <4>2 DEF EndTogether, Increasing
        <4> QED
          BY <4>2, <4>3, <4>4
      <3>2. code'[endings[q][i]] = code[endings[q][i]]
        BY <1>4, <2>1, <3>1
      <3>3. Linked(q, i)' <=> Linked(q, i)
        BY <1>9, <2>3
      <3> QED
        BY <1>5, <3>2, <3>3
    <2> QED
      BY <2>2, <2>3
  <1>11. \A q \in Addr : EndTogether(endings[q], q)'
    <2> TAKE q \in Addr
    <2>1. EndTogether(endings[q], q)
      BY <1>5
    <2> QED
      BY <1>1, <2>1 DEF EndTogether
  <1>12. \A q \in Addr : \A i \in 1..Len(endings'[q]) :
            code'[endings'[q][i]].link = IF Linked(q, i)' THEN endings'[q][i + 1] ELSE None
    BY <1>1, <1>10
  <1> QED
    BY <1>1, <1>5, <1>8, <1>11, <1>12 DEF EndingsInv, Distinct

----------------------------------------------------------------------------
(* The functions of the module.                                            *)

Helper == [start |-> None, voids |-> 0]
Block(s, n) == [start |-> s, voids |-> n]

\* The functions of the module before TransformBBToVoid.
Before == Len(order) + 1

\* The functions that were added when the first k were looked at and there
\* are n blocks.
Added(k, n) == IF k = 0 THEN 0 ELSE IF k <= n + 1 THEN k - 1 ELSE n

\* The loop has the module as it was in front of it, and behind that the
\* copies of the blocks it went past, in their order; the copies it meets
\* in the end add nothing.
RewritingInv ==
    /\ order \in Orders
    /\ DOMAIN code = Range(order)
    /\ funcs \in Seq(Function)
    /\ next \in 1..(Len(funcs) + 1)
    /\ Len(funcs) = Before + Added(next - 1, Len(order))
    /\ funcs[1] = Helper
    /\ \A i \in 1..Len(order) : funcs[i + 1] = Block(order[i], 0)
    /\ \A i \in 1..Len(order) :
            Before + i <= Len(funcs) => funcs[Before + i] = Block(order[i], 1)

\* Then every block of the module has one copy, and is gone itself.
RewrittenInv ==
    /\ Range(order) = DOMAIN code
    /\ order \in Seq(Addr) /\ Distinct(order)
    /\ funcs \in Seq(Function)
    /\ \A i \in DOMAIN funcs : funcs[i].voids = IF funcs[i].start = None THEN 0 ELSE 1
    /\ \A i, j \in DOMAIN funcs : funcs[i].start = funcs[j].start => i = j
    /\ \A s \in DOMAIN code : \E i \in DOMAIN funcs : funcs[i].start = s

ModuleInv == IF pass = "transfrombbtovoid" THEN RewritingInv ELSE RewrittenInv

\* A block is at two addresses of the list only if it is at one of the module.
LEMMA OrderFacts ==
    ASSUME NEW o \in Orders
    PROVE  /\ o \in Seq(Addr)
           /\ \A i, j \in 1..Len(o) : o[i] = o[j] => i = j
  <1>1. o \in Seq(Addr)
    BY InputsAssumption
  <1>2. DOMAIN o = 1..Len(o)
    BY <1>1
  <1> QED
    BY <1>1, <1>2, InputsAssumption

\* An address is not None.
LEMMA AddrFacts == \A a \in Addr : a # None
  BY SizesAssumption DEF Addr, None

\* The list begins with the module.
LEMMA ModuleInit == Init => ModuleInv
  <1> SUFFICES ASSUME Init PROVE RewritingInv
    BY DEF ModuleInv, Init
  <1> DEFINE n == Len(order)
             t == [i \in DOMAIN order |-> [start |-> order[i], voids |-> 0]]
             h == <<[start |-> None, voids |-> 0]>>
  <1>1. order \in Orders /\ order \in Seq(Addr) /\ n \in Nat /\ DOMAIN order = 1..n
    BY OrderFacts DEF Init
  <1>2. t \in [1..n -> Function]
    BY <1>1 DEF Function
  <1>3. t \in Seq(Function) /\ Len(t) = n /\ \A i \in 1..n : t[i] = Block(order[i], 0)
    <2>1. \A i \in 1..n : t[i] = Block(order[i], 0)
      BY <1>1 DEF Block
    <2> HIDE DEF t
    <2> QED
      BY <1>1, <1>2, <2>1, FunctionIsSequence
  <1>4. h \in Seq(Function) /\ Len(h) = 1 /\ h[1] = Helper
    BY DEF Function, Helper
  <1>5. funcs = h \o t /\ next = 1
    BY DEF Init
  <1> HIDE DEF t, h
  <1>6. /\ funcs \in Seq(Function)
        /\ Len(funcs) = n + 1
        /\ funcs[1] = Helper
        /\ \A i \in 1..n : funcs[i + 1] = t[i]
    <2>1. /\ h \o t \in Seq(Function)
          /\ Len(h \o t) = Len(h) + Len(t)
          /\ \A i \in 1..Len(h) : (h \o t)[i] = h[i]
          /\ \A i \in 1..Len(t) : (h \o t)[Len(h) + i] = t[i]
      <3>1. h \in Seq(Function) /\ t \in Seq(Function)
        BY <1>3, <1>4
      <3>2. h \o t \in Seq(Function)
        BY <3>1, ConcatPositions
      <3>3. Len(h \o t) = Len(h) + Len(t)
        BY <3>1, ConcatPositions
      <3>4. \A i \in 1..Len(h) : (h \o t)[i] = h[i]
        BY <3>1, ConcatPositions
      <3>5. \A i \in 1..Len(t) : (h \o t)[Len(h) + i] = t[i]
        BY <3>1, ConcatPositions
      <3> QED
        BY <3>2, <3>3, <3>4, <3>5
    <2> HIDE DEF n
    <2>2. Len(h \o t) = n + 1 /\ (h \o t)[1] = h[1]
          /\ \A i \in 1..n : (h \o t)[1 + i] = t[i]
      BY <1>1, <1>3, <1>4, <2>1
    <2>3. \A i \in 1..n : 1 + i = i + 1
      BY <1>1
    <2>4. \A i \in 1..n : funcs[i + 1] = t[i]
      BY <1>5, <2>2, <2>3
    <2>5. funcs \in Seq(Function) /\ Len(funcs) = n + 1 /\ funcs[1] = Helper
      BY <1>4, <1>5, <2>1, <2>2
    <2> QED
      BY <2>4, <2>5
  <1>7. DOMAIN code = Range(order)
    BY DEF Init, Starts
  <1>8. Len(funcs) = Before + Added(next - 1, Len(order)) /\ Before = n + 1
    BY <1>1, <1>5, <1>6 DEF Before, Added
  <1> QED
    BY <1>1, <1>3, <1>5, <1>6, <1>7, <1>8 DEF RewritingInv

\* What the loop has in front of it and behind it.
LEMMA RewritingFacts ==
    ASSUME RewritingInv
    PROVE  /\ Len(order) \in Nat /\ Before = Len(order) + 1
           /\ Len(funcs) \in Nat /\ next \in Nat
           /\ DOMAIN funcs = 1..Len(funcs)
           /\ order \in Seq(Addr) /\ DOMAIN order = 1..Len(order)
           /\ Before <= Len(funcs) /\ Len(funcs) <= Before + Len(order)
           /\ \A i \in DOMAIN funcs :
                 \/ i = 1 /\ funcs[i] = Helper
                 \/ i - 1 \in 1..Len(order) /\ funcs[i] = Block(order[i - 1], 0)
                 \/ i - Before \in 1..Len(order) /\ funcs[i] = Block(order[i - Before], 1)
  <1>1. Len(order) \in Nat /\ order \in Seq(Addr) /\ DOMAIN order = 1..Len(order)
    BY OrderFacts DEF RewritingInv
  <1>2. Before = Len(order) + 1 /\ Len(funcs) \in Nat /\ next \in Nat
        /\ DOMAIN funcs = 1..Len(funcs)
    BY DEF RewritingInv, Before
  <1>3. Before <= Len(funcs) /\ Len(funcs) <= Before + Len(order)
    <2>1. Len(funcs) = Before + Added(next - 1, Len(order)) /\ next >= 1
      BY <1>2 DEF RewritingInv
    <2>2. Added(next - 1, Len(order)) \in 0..Len(order)
      BY <1>1, <1>2, <2>1 DEF Added
    <2> QED
      BY <1>1, <1>2, <2>1, <2>2
  <1>4. ASSUME NEW i \in DOMAIN funcs
        PROVE  \/ i = 1 /\ funcs[i] = Helper
               \/ i - 1 \in 1..Len(order) /\ funcs[i] = Block(order[i - 1], 0)
               \/ i - Before \in 1..Len(order) /\ funcs[i] = Block(order[i - Before], 1)
    <2>1. CASE i = 1
      BY <2>1 DEF RewritingInv
    <2>2. CASE i \in 2..Before
      <3> DEFINE k == i - 1
      <3>1. k \in 1..Len(order) /\ i = k + 1
        BY <1>1, <1>2, <2>2
      <3> HIDE DEF k
      <3>2. funcs[k + 1] = Block(order[k], 0)
        BY <3>1 DEF RewritingInv
      <3> QED
        BY <3>1, <3>2 DEF k
    <2>3. CASE i > Before
      <3> DEFINE k == i - Before
      <3>1. k \in 1..Len(order) /\ i = Before + k /\ Before + k <= Len(funcs)
        BY <1>1, <1>2, <1>3, <2>3
      <3> HIDE DEF k
      <3>2. funcs[Before + k] = Block(order[k], 1)
        BY <3>1 DEF RewritingInv
      <3> QED
        BY <3>1, <3>2 DEF k
    <2> QED
      BY <1>1, <1>2, <2>1, <2>2, <2>3
  <1> QED
    BY <1>1, <1>2, <1>3, <1>4

\* The loop adds the copy of a block, and nothing for another function.
LEMMA RewriteStep ==
    ASSUME RewritingInv, RewriteFunc
    PROVE  RewritingInv' /\ pass' = pass
  <1> DEFINE n == Len(order)
             N == Len(funcs)
             f == funcs[next]
             e == [f EXCEPT !.voids = @ + 1]
  <1>1. /\ n \in Nat /\ N \in Nat /\ next \in Nat /\ Before = n + 1
        /\ order \in Seq(Addr) /\ DOMAIN order = 1..n /\ DOMAIN funcs = 1..N
    BY RewritingFacts
  <1>2. /\ next \in 1..N /\ next' = next + 1
        /\ order' = order /\ code' = code /\ pass' = pass
        /\ Before' = Before
    BY <1>1 DEF RewriteFunc, RewritingInv, Before
  <1>3. f \in Function
    BY <1>1, <1>2 DEF RewritingInv
  <1>4. CASE next \in 2..Before
    <2> DEFINE k == next - 1
    <2>1. k \in 1..n /\ next = k + 1
      BY <1>1, <1>4
    <2> HIDE DEF k
    <2>2. funcs[k + 1] = Block(order[k], 0) /\ order[k] \in Addr
      BY <1>1, <2>1 DEF RewritingInv
    <2>3. IsOldBlock(f) /\ e = Block(order[k], 1)
      BY <2>1, <2>2, AddrFacts DEF IsOldBlock, Block
    <2>4. e \in Function
      BY <2>2, <2>3 DEF Function, Block
    <2>5. funcs' = Append(funcs, e)
      BY <2>3 DEF RewriteFunc
    <2> HIDE DEF e, f
    <2>6. /\ funcs' \in Seq(Function) /\ Len(funcs') = N + 1 /\ funcs'[N + 1] = e
          /\ \A i \in 1..N : funcs'[i] = funcs[i]
      BY <1>1, <2>4, <2>5 DEF RewritingInv
    <2>7. Added(next - 1, Len(order)) = k - 1 /\ Added(next, n) = k
      BY <1>1, <2>1 DEF Added
    <2>8. N = Before + k - 1
      BY <1>1, <2>1, <2>7 DEF RewritingInv
    <2>9. Len(funcs') = Before' + Added(next' - 1, Len(order'))
      <3>1. next' - 1 = next
        BY <1>1, <1>2
      <3> QED
        BY <1>1, <1>2, <2>1, <2>6, <2>7, <2>8, <3>1
    <2>10. ASSUME NEW i \in 1..n, Before + i <= Len(funcs')
           PROVE  funcs'[Before + i] = Block(order[i], 1)
      <3>1. CASE i = k
        BY <1>1, <2>1, <2>3, <2>6, <2>8, <3>1
      <3>2. CASE i # k
        <4>1. Before + i \in 1..N
          BY <1>1, <2>1, <2>6, <2>8, <2>10, <3>2
        <4>2. funcs[Before + i] = Block(order[i], 1)
          BY <4>1 DEF RewritingInv
        <4> QED
          BY <2>6, <4>1, <4>2
      <3> QED
        BY <3>1, <3>2
    <2>11. /\ funcs'[1] = Helper
           /\ \A i \in 1..n : funcs'[i + 1] = Block(order[i], 0)
      <3>1. N >= n + 1
        BY <1>1, <2>1, <2>8
      <3>2. 1 \in 1..N /\ \A i \in 1..n : i + 1 \in 1..N
        BY <1>1, <3>1
      <3>3. /\ funcs[1] = Helper
            /\ \A i \in 1..n : funcs[i + 1] = Block(order[i], 0)
        BY DEF RewritingInv
      <3> QED
        BY <2>6, <3>2, <3>3
    <2>12. next' \in 1..(Len(funcs') + 1)
      BY <1>1, <1>2, <2>6
    <2> QED
      BY <1>2, <2>6, <2>9, <2>10, <2>11, <2>12 DEF RewritingInv
  <1>5. CASE next \notin 2..Before
    <2>1. ~IsOldBlock(f)
      <3>1. \/ next = 1 /\ f = Helper
            \/ next - 1 \in 1..n /\ f = Block(order[next - 1], 0)
            \/ next - Before \in 1..n /\ f = Block(order[next - Before], 1)
        BY <1>1, <1>2, RewritingFacts
      <3>2. next - 1 \notin 1..n
        BY <1>1, <1>2, <1>5
      <3> QED
        BY <3>1, <3>2 DEF IsOldBlock, Helper, Block, None
    <2>2. funcs' = funcs
      BY <2>1 DEF RewriteFunc
    <2>3. Added(next - 1, Len(order)) = Added(next, n)
      BY <1>1, <1>2, <1>5 DEF Added
    <2>4. Len(funcs') = Before' + Added(next' - 1, Len(order'))
      <3>1. next' - 1 = next
        BY <1>1, <1>2
      <3> QED
        BY <1>2, <2>2, <2>3, <3>1 DEF RewritingInv
    <2>5. next' \in 1..(Len(funcs') + 1)
      BY <1>1, <1>2, <2>2
    <2> QED
      BY <1>2, <2>2, <2>4, <2>5 DEF RewritingInv
  <1> QED
    BY <1>2, <1>4, <1>5

\* Functions at different addresses are at different addresses in any
\* selection of them.
LEMMA PickedDistinct ==
    ASSUME NEW k \in Seq(Function), NEW J, NEW b, b = KeepAt(k, J),
           \A i \in J : i \in 1..Len(k) /\ k[i].start \in Addr,
           \A i, j \in 1..Len(k) : k[i].start = k[j].start => i = j,
           NEW o, o = [i \in DOMAIN b |-> b[i].start]
    PROVE  o \in Seq(Addr) /\ Distinct(o)
  <1>1. b \in Seq(Function) /\ Len(b) \in Nat /\ DOMAIN b = 1..Len(b)
    <2>1. b \in Seq(Function)
      BY KeepAtOrder
    <2> QED
      BY <2>1
  <1>2. PICK h \in Seq(1..Len(k)) :
            /\ Len(h) = Len(b)
            /\ \A j \in 1..Len(h) : h[j] \in J /\ b[j] = k[h[j]]
            /\ \A i, j \in 1..Len(h) : i < j => h[i] < h[j]
            /\ \A i \in J \cap (1..Len(k)) : \E j \in 1..Len(h) : h[j] = i
    BY KeptOrder, SMTT(30)
  <1>3. \A i \in 1..Len(b) : o[i] = k[h[i]].start /\ h[i] \in J
    BY <1>1, <1>2
  <1>4. o \in [1..Len(b) -> Addr]
    <2>1. \A i \in 1..Len(b) : o[i] \in Addr
      BY <1>3
    <2> QED
      BY <1>1, <2>1
  <1>5. o \in Seq(Addr) /\ Len(o) = Len(b)
    BY <1>1, <1>4, FunctionIsSequence
  <1>6. ASSUME NEW i \in 1..Len(b), NEW j \in 1..Len(b), o[i] = o[j]
        PROVE  i = j
    <2>0. h[i] \in J /\ h[j] \in J /\ k[h[i]].start = k[h[j]].start
      BY <1>3, <1>6
    <2>10. h[i] \in 1..Len(k) /\ h[j] \in 1..Len(k)
      BY <2>0
    <2>1. h[i] = h[j] /\ h[i] \in Int
      BY <2>0, <2>10
    <2>2. (i < j => h[i] < h[j]) /\ (j < i => h[j] < h[i])
      BY <1>2
    <2>3. i \in Int /\ j \in Int
      BY <1>1
    <2> QED
      BY <2>1, <2>2, <2>3
  <1>7. Len(o) = Len(b)
    BY <1>5
  <1>8. Distinct(o)
    <2>1. ASSUME NEW i \in 1..Len(o), NEW j \in 1..Len(o), o[i] = o[j] PROVE i = j
      <3>1. i \in 1..Len(b) /\ j \in 1..Len(b)
        BY <1>7
      <3> QED
        BY <1>6, <2>1, <3>1, Zenon
    <2> QED
      BY <2>1, Zenon DEF Distinct
  <1> QED
    BY <1>5, <1>8

\* When the loop is over, every block has its copy.
LEMMA EraseStep ==
    ASSUME RewritingInv, EraseFuncs
    PROVE  RewrittenInv' /\ pass' = "tag-inst-pc"
  <1> DEFINE n == Len(order)
             N == Len(funcs)
             I == {i \in DOMAIN funcs : ~IsOldBlock(funcs[i])}
             kept == KeepAt(funcs, I)
             J == {i \in DOMAIN kept : kept[i].start # None}
             blocks == KeepAt(kept, J)
  <1>1. /\ n \in Nat /\ N \in Nat /\ next \in Nat /\ Before = n + 1
        /\ order \in Seq(Addr) /\ DOMAIN order = 1..n /\ DOMAIN funcs = 1..N
        /\ \A i, j \in 1..n : order[i] = order[j] => i = j
        /\ funcs \in Seq(Function)
    BY RewritingFacts, OrderFacts DEF RewritingInv
  <1>2. /\ next = N + 1
        /\ funcs' = kept
        /\ order' = [i \in DOMAIN blocks |-> blocks[i].start]
        /\ code' = code /\ pass' = "tag-inst-pc"
    <2>1. next > N /\ next \in 1..(N + 1)
      BY DEF EraseFuncs, RewritingInv
    <2>2. next = N + 1
      BY <1>1, <2>1
    <2> QED
      BY <2>2 DEF EraseFuncs
  <1>3. N = Before + n
    <2>1. N = Before + Added(next - 1, n)
      BY DEF RewritingInv
    <2>2. next - 1 = N
      BY <1>1, <1>2
    <2>3. N = Before + Added(N, n)
      BY <2>1, <2>2
    <2> HIDE DEF n, N
    <2> QED
      BY <1>1, <2>3 DEF Added
  <1>4. \A i \in I :
            \/ i = 1 /\ funcs[i] = Helper
            \/ i - Before \in 1..n /\ funcs[i] = Block(order[i - Before], 1)
    <2> SUFFICES ASSUME NEW i \in I, i - 1 \in 1..n, funcs[i] = Block(order[i - 1], 0)
                 PROVE  FALSE
      BY RewritingFacts
    <2>1. order[i - 1] \in Addr
      BY <1>1
    <2> QED
      BY <2>1, AddrFacts DEF IsOldBlock, Block
  <1>5. \A k \in 1..n : Before + k \in I /\ funcs[Before + k] = Block(order[k], 1)
    <2> SUFFICES ASSUME NEW k \in 1..n
                 PROVE  Before + k \in I /\ funcs[Before + k] = Block(order[k], 1)
      OBVIOUS
    <2>1. Before + k \in DOMAIN funcs /\ Before + k <= Len(funcs)
      BY <1>1, <1>3
    <2>2. funcs[Before + k] = Block(order[k], 1)
      BY <2>1 DEF RewritingInv
    <2> QED
      BY <2>1, <2>2 DEF IsOldBlock, Block
  <1>6. \A i, j \in I : funcs[i].start = funcs[j].start => i = j
    <2> SUFFICES ASSUME NEW i \in I, NEW j \in I, funcs[i].start = funcs[j].start
                 PROVE  i = j
      OBVIOUS
    <2>1. i \in Int /\ j \in Int
      BY <1>1
    <2>2. /\ i = 1 \/ (i - Before \in 1..n /\ funcs[i].start = order[i - Before])
          /\ j = 1 \/ (j - Before \in 1..n /\ funcs[j].start = order[j - Before])
          /\ i = 1 => funcs[i].start = None \/ i - Before \in 1..n
          /\ j = 1 => funcs[j].start = None \/ j - Before \in 1..n
      BY <1>4 DEF Helper, Block
    <2>3. \A k \in 1..n : order[k] # None
      BY <1>1, AddrFacts
    <2>4. 1 - Before \notin 1..n
      BY <1>1
    <2>5. CASE i = 1
      BY <2>2, <2>3, <2>4, <2>5
    <2>6. CASE j = 1
      BY <2>2, <2>3, <2>4, <2>6
    <2>7. CASE i # 1 /\ j # 1
      <3>1. i - Before = j - Before
        BY <1>1, <2>2, <2>7
      <3> QED
        BY <1>1, <2>1, <3>1
    <2> QED
      BY <2>5, <2>6, <2>7
  <1>7. PICK h \in Seq(1..Len(funcs)) :
            /\ Len(h) = Len(kept)
            /\ \A j \in 1..Len(h) : h[j] \in I /\ kept[j] = funcs[h[j]]
            /\ \A j, k \in 1..Len(h) : j < k => h[j] < h[k]
            /\ \A i \in I \cap (1..Len(funcs)) : \E j \in 1..Len(h) : h[j] = i
    <2>1. kept = KeepAt(funcs, I) /\ funcs \in Seq(Function)
      BY <1>1
    <2> HIDE DEF I, kept, n, N, J, blocks
    <2> QED
      BY <2>1, KeptOrder
  <1>8. /\ kept \in Seq(Function)
        /\ Len(kept) \in Nat
        /\ DOMAIN kept = 1..Len(kept)
    <2>1. kept \in Seq(Function)
      BY <1>1, KeepAtOrder
    <2> QED
      BY <2>1
  <1>9. \A i \in DOMAIN kept : kept[i].voids = IF kept[i].start = None THEN 0 ELSE 1
    <2> SUFFICES ASSUME NEW i \in DOMAIN kept
                 PROVE  kept[i].voids = IF kept[i].start = None THEN 0 ELSE 1
      OBVIOUS
    <2>1. h[i] \in I /\ kept[i] = funcs[h[i]]
      BY <1>7, <1>8
    <2>2. kept[i] = Helper \/ \E k \in 1..n : kept[i] = Block(order[k], 1)
      <3> HIDE DEF kept, I, n
      <3> QED
        BY <1>4, <2>1
    <2>3. \A k \in 1..n : order[k] # None
      BY <1>1, AddrFacts
    <2> HIDE DEF kept, n
    <2>4. CASE kept[i] = Helper
      BY <2>4 DEF Helper
    <2>5. ASSUME NEW k \in 1..n, kept[i] = Block(order[k], 1)
          PROVE  kept[i].start # None /\ kept[i].voids = 1
      BY <2>3, <2>5 DEF Block
    <2> QED
      BY <2>2, <2>4, <2>5
  <1>10. \A i, j \in DOMAIN kept : kept[i].start = kept[j].start => i = j
    <2> SUFFICES ASSUME NEW i \in DOMAIN kept, NEW j \in DOMAIN kept,
                        kept[i].start = kept[j].start
                 PROVE  i = j
      OBVIOUS
    <2>1. /\ h[i] \in I /\ kept[i] = funcs[h[i]]
          /\ h[j] \in I /\ kept[j] = funcs[h[j]]
      BY <1>7, <1>8
    <2>2. h[i] = h[j] /\ h[i] \in Int
      BY <1>1, <1>6, <2>1
    <2>3. i \in 1..Len(h) /\ j \in 1..Len(h) /\ i \in Int /\ j \in Int
      BY <1>7, <1>8
    <2>4. (i < j => h[i] < h[j]) /\ (j < i => h[j] < h[i])
      BY <1>7, <2>3
    <2> QED
      BY <2>2, <2>3, <2>4
  <1>11. \A s \in DOMAIN code : \E i \in DOMAIN kept : kept[i].start = s
    <2> SUFFICES ASSUME NEW s \in DOMAIN code PROVE \E i \in DOMAIN kept : kept[i].start = s
      OBVIOUS
    <2>1. PICK k \in 1..n : order[k] = s
      BY <1>1 DEF RewritingInv, Range
    <2>2. Before + k \in I \cap (1..N) /\ funcs[Before + k].start = s
      <3>1. Before + k \in I /\ funcs[Before + k] = Block(order[k], 1)
        BY <1>5
      <3>2. Before + k \in 1..N
        BY <1>1, <3>1
      <3> QED
        BY <2>1, <3>1, <3>2 DEF Block
    <2>3. PICK j \in 1..Len(h) : h[j] = Before + k
      BY <1>7, <2>2
    <2> QED
      BY <1>7, <1>8, <2>2, <2>3
  <1>12. \A i \in DOMAIN kept : kept[i].start # None => kept[i].start \in DOMAIN code
    <2> SUFFICES ASSUME NEW i \in DOMAIN kept, kept[i].start # None
                 PROVE  kept[i].start \in DOMAIN code
      OBVIOUS
    <2>1. h[i] \in I /\ kept[i] = funcs[h[i]]
      BY <1>7, <1>8
    <2>2. kept[i] = Helper \/ \E k \in 1..n : kept[i] = Block(order[k], 1)
      <3> HIDE DEF kept, I, n
      <3> QED
        BY <1>4, <2>1
    <2>3. kept[i].start = None \/ \E k \in 1..n : kept[i].start = order[k]
      <3> HIDE DEF kept, n
      <3> QED
        BY <2>2 DEF Helper, Block
    <2> QED
      BY <1>1, <2>3 DEF RewritingInv, Range
  <1>13. Range(blocks) = {kept[i] : i \in J \cap (1..Len(kept))}
    BY <1>8, KeepAtMembers
  <1>14. Range(order') = DOMAIN code
    <2>1. Range(order') = {b.start : b \in Range(blocks)}
      <3> HIDE DEF blocks
      <3> QED
        BY <1>2 DEF Range
    <2>2. Range(order') = {kept[i].start : i \in J}
      <3> HIDE DEF blocks
      <3> QED
        BY <1>8, <1>13, <2>1
    <2>3. \A s \in DOMAIN code : s # None
      BY <1>1, AddrFacts DEF RewritingInv, Range
    <2> QED
      BY <1>11, <1>12, <2>2, <2>3
  <1>15. order' \in Seq(Addr) /\ Distinct(order')
    <2>1. \A i \in J : i \in 1..Len(kept) /\ kept[i].start \in Addr
      <3>1. DOMAIN code \subseteq Addr
        BY <1>1 DEF RewritingInv, Range
      <3>2. \A i \in J : i \in DOMAIN kept /\ kept[i].start # None
        OBVIOUS
      <3> HIDE DEF kept, J
      <3> QED
        BY <1>8, <1>12, <3>1, <3>2
    <2>2. /\ blocks = KeepAt(kept, J) /\ kept \in Seq(Function)
          /\ \A i, j \in 1..Len(kept) : kept[i].start = kept[j].start => i = j
      BY <1>8, <1>10
    <2> HIDE DEF kept, blocks, I, J, n, N
    <2> QED
      BY <1>2, <2>1, <2>2, PickedDistinct
  <1> HIDE DEF kept, blocks
  <1> QED
    BY <1>2, <1>8, <1>9, <1>10, <1>11, <1>14, <1>15 DEF RewrittenInv

\* The passes behind TransformBBToVoid keep the functions of the module.
LEMMA LaterSteps ==
    ASSUME RewrittenInv, pass # "transfrombbtovoid",
           Next \/ UNCHANGED vars
    PROVE  RewrittenInv' /\ pass' # "transfrombbtovoid"
  <1>1. /\ funcs' = funcs /\ order' = order /\ pass' # "transfrombbtovoid"
        /\ code' = code \/ DOMAIN code' = Range(order) \/ DOMAIN code' = DOMAIN code
    <2>1. ~RewriteFunc /\ ~EraseFuncs
      BY DEF RewriteFunc, EraseFuncs
    <2>2. CASE TagInstPc
      BY <2>2 DEF TagInstPc
    <2>3. CASE RemoveExtraStoreToPC
      BY <2>3 DEF RemoveExtraStoreToPC, Starts
    <2>4. CASE DeleteInstructionCount
      BY <2>4 DEF DeleteInstructionCount, Starts
    <2>5. CASE FindOverlaps
      BY <2>5 DEF FindOverlaps
    <2>6. CASE TruncateFuncAndLinkWith
      BY <2>6 DEF TruncateFuncAndLinkWith
    <2>7. CASE AssertFails
      BY <2>7 DEF AssertFails
    <2>8. CASE Dce
      BY <2>8 DEF Dce, Starts
    <2>9. CASE MarkCallStarts
      BY <2>9 DEF MarkCallStarts
    <2>10. CASE UNCHANGED vars
      BY <2>10 DEF vars
    <2> QED
      BY <2>1, <2>2, <2>3, <2>4, <2>5, <2>6, <2>7, <2>8, <2>9, <2>10 DEF Next
  <1>2. DOMAIN code' = DOMAIN code
    BY <1>1 DEF RewrittenInv
  <1> QED
    BY <1>1, <1>2 DEF RewrittenInv, Distinct

\* Every step keeps what is known of the functions of the module.
LEMMA ModuleNext == ModuleInv /\ [Next]_vars => ModuleInv'
  <1> SUFFICES ASSUME ModuleInv, [Next]_vars PROVE ModuleInv'
    OBVIOUS
  <1>1. CASE pass # "transfrombbtovoid"
    BY <1>1, LaterSteps DEF ModuleInv
  <1>2. CASE pass = "transfrombbtovoid"
    <2>1. RewritingInv
      BY <1>2 DEF ModuleInv
    <2>2. CASE RewriteFunc
      BY <1>2, <2>1, <2>2, RewriteStep DEF ModuleInv
    <2>3. CASE EraseFuncs
      BY <2>1, <2>3, EraseStep DEF ModuleInv
    <2>4. CASE UNCHANGED vars
      <3>1. RewritingInv'
        BY <2>1, <2>4 DEF RewritingInv, vars, Before
      <3> QED
        BY <1>2, <2>4, <3>1 DEF ModuleInv, vars
    <2> QED
      BY <1>2, <2>2, <2>3, <2>4
      DEF Next, TagInstPc, RemoveExtraStoreToPC, DeleteInstructionCount,
          FindOverlaps, TruncateFuncAndLinkWith, AssertFails, Dce, MarkCallStarts
  <1> QED
    BY <1>1, <1>2

\* A subset of a pair has at most two members.
LEMMA PairCardinality ==
    ASSUME NEW a, NEW b, NEW T, T \subseteq {a, b}
    PROVE  Cardinality(T) <= 2
  <1> DEFINE P == {a} \cup {b}
  <1>1. IsFiniteSet({a}) /\ Cardinality({a}) = 1
    BY FS_Singleton
  <1>2. IsFiniteSet(P) /\ (Cardinality(P) = 1 \/ Cardinality(P) = 1 + 1)
    BY <1>1, FS_AddElement
  <1>3. T \subseteq P
    OBVIOUS
  <1> HIDE DEF P
  <1>4. IsFiniteSet(T) /\ Cardinality(T) <= Cardinality(P)
    BY <1>2, <1>3, FS_Subset
  <1>5. Cardinality(T) \in Nat
    BY <1>4, FS_CardinalityType
  <1> QED
    BY <1>2, <1>4, <1>5

\* So every block is rewritten once.
LEMMA ModuleRewritten == ModuleInv => RewrittenOnce
  <1>1. CASE pass = "transfrombbtovoid"
    <2> SUFFICES ASSUME ModuleInv, NEW s \in DOMAIN code PROVE Cardinality(Versions(s)) <= 2
      BY <1>1 DEF RewrittenOnce
    <2>1. RewritingInv
      BY <1>1 DEF ModuleInv
    <2>2. PICK k \in 1..Len(order) : order[k] = s
      BY <2>1, RewritingFacts DEF RewritingInv, Range
    <2>3. Versions(s) \subseteq {k + 1, Before + k}
      <3> SUFFICES ASSUME NEW i \in DOMAIN funcs, funcs[i].start = s
                   PROVE  i \in {k + 1, Before + k}
        BY DEF Versions
      <3>1. s # None /\ \A l \in 1..Len(order) : order[l] = s => l = k
        BY <2>1, <2>2, RewritingFacts, OrderFacts, AddrFacts DEF RewritingInv
      <3>2. i - 1 = k \/ i - Before = k
        BY <2>1, <3>1, RewritingFacts DEF Helper, Block
      <3> QED
        BY <2>1, <3>2, RewritingFacts
    <2> QED
      BY <2>3, PairCardinality
  <1>2. CASE pass # "transfrombbtovoid"
    <2> SUFFICES ASSUME ModuleInv, NEW s \in DOMAIN code PROVE Cardinality(Versions(s)) = 1
      BY <1>2 DEF RewrittenOnce, ModuleInv, RewrittenInv
    <2>1. PICK i \in DOMAIN funcs : funcs[i].start = s
      BY <1>2 DEF ModuleInv, RewrittenInv
    <2>2. Versions(s) = {i}
      BY <1>2, <2>1 DEF ModuleInv, RewrittenInv, Versions
    <2> QED
      BY <2>2, FS_Singleton
  <1> QED
    BY <1>1, <1>2

----------------------------------------------------------------------------
(* The steps of the passes.                                                *)

\* The blocks of the module stay the same.
SameBlocks ==
    /\ memory' = memory /\ Starts' = Starts
    /\ order' \in Seq(Addr) /\ Distinct(order')

\* QEMU's functions have the operations of all kinds, and none is linked.
LEMMA StartBody ==
    ASSUME Init
    PROVE  CodeInv /\ LinksInv
  <1>1. /\ memory \in Memories /\ order \in Orders
        /\ pass = "transfrombbtovoid" /\ overlaps = <<>>
        /\ code = [s \in Starts |-> Translate(memory, s)]
    BY DEF Init
  <1>2. /\ order \in Seq(Addr) /\ Distinct(order) /\ Starts \subseteq Addr
    <2>1. order \in Seq(Addr) /\ \A i, j \in DOMAIN order : order[i] = order[j] => i = j
      BY <1>1, InputsAssumption
    <2>2. DOMAIN order = 1..Len(order)
      BY <2>1
    <2> QED
      BY <2>1, <2>2 DEF Distinct, Starts, Range
  <1>3. ASSUME NEW s \in Starts
        PROVE  FunctionOK(memory, Starts, s, code[s], Range(Kinds), FALSE) /\ code[s].link = None
    <2>1. code[s] = Translate(memory, s) /\ s \in Addr
      BY <1>1, <1>2
    <2> QED
      BY <1>1, <2>1, FunctionTranslated
  <1>4. AllOK(Range(Kinds), FALSE)
    BY <1>3 DEF AllOK
  <1>5. CodeInv
    BY <1>1, <1>2, <1>4 DEF CodeInv, Untagged, Uncut, Marking
  <1>6. LinksInv
    BY <1>1, <1>3 DEF LinksInv, Uncut, Untagged, Marking
  <1> QED
    BY <1>5, <1>6

\* TransformBBToVoid
LEMMA StepTransform ==
    ASSUME CodeInv, LinksInv, SameBlocks, RewriteFunc \/ EraseFuncs
    PROVE  CodeInv' /\ LinksInv'
  <1>1. /\ pass = "transfrombbtovoid" /\ pass' \in {"transfrombbtovoid", "tag-inst-pc"}
        /\ code' = code /\ overlaps' = overlaps /\ memory' = memory
    BY DEF RewriteFunc, EraseFuncs
  <1>2. Starts' = Starts /\ order' \in Seq(Addr) /\ Distinct(order')
    BY DEF SameBlocks
  <1>3. AllOK(Range(Kinds), FALSE)'
    <2>1. AllOK(Range(Kinds), FALSE)
      BY <1>1 DEF CodeInv, Untagged
    <2> QED
      BY <1>1, <1>2, <2>1 DEF AllOK
  <1>4. CodeInv'
    BY <1>1, <1>2, <1>3 DEF CodeInv, Untagged, Uncut, Marking, Distinct
  <1>5. LinksInv'
    <2>1. overlaps = <<>> /\ \A s \in Starts : code[s].link = None
      BY <1>1 DEF LinksInv, Uncut, Untagged
    <2> QED
      BY <1>1, <1>2, <2>1 DEF LinksInv, Uncut, Untagged, Marking
  <1> QED
    BY <1>4, <1>5

\* TagInstPc finds the last instruction of every block.
LEMMA StepTag ==
    ASSUME CodeInv, LinksInv, SameBlocks, TagInstPc
    PROVE  CodeInv' /\ LinksInv'
  <1>1. /\ pass = "tag-inst-pc" /\ pass' = "rmexterstoretopc"
        /\ code' = code /\ overlaps' = overlaps /\ memory' = memory
        /\ lastpc' = [s \in Starts |-> LastPc(code[s].body)]
    BY DEF TagInstPc
  <1>2. Starts' = Starts /\ order' \in Seq(Addr) /\ Distinct(order')
    BY DEF SameBlocks
  <1>3. AllOK(Range(Kinds), FALSE) /\ overlaps = <<>> /\ \A s \in Starts : code[s].link = None
    BY <1>1 DEF CodeInv, LinksInv, Untagged, Uncut
  <1>4. AllOK(Range(Kinds), FALSE)'
    BY <1>1, <1>2, <1>3 DEF AllOK
  <1>5. \A s \in Starts : lastpc'[s] = LastInst(memory, s)
    <2> TAKE s \in Starts
    <2>1. FunctionOK(memory, Starts, s, code[s], Range(Kinds), FALSE) /\ code[s].link = None
      BY <1>3 DEF AllOK
    <2>2. memory \in Memories /\ s \in Addr
      BY DEF CodeInv
    <2>3. LastPc(code[s].body) = LastInst(memory, s)
      BY <2>1, <2>2, LastPcIsLast
    <2> QED
      BY <1>1, <2>3
  <1>6. CodeInv'
    BY <1>1, <1>2, <1>4 DEF CodeInv, Untagged, Uncut, Marking, Distinct
  <1>7. LinksInv'
    BY <1>1, <1>2, <1>3, <1>5 DEF LinksInv, Uncut, Untagged, Marking
  <1> QED
    BY <1>6, <1>7

\* RemoveExtraStoreToPC does not fail: every store is inside its block.
LEMMA StepRemoveExtra ==
    ASSUME CodeInv, LinksInv, SameBlocks, RemoveExtraStoreToPC
    PROVE  CodeInv' /\ LinksInv'
  <1>1. pass = "rmexterstoretopc" /\ lastpc' = lastpc /\ overlaps' = overlaps /\ memory' = memory
    BY DEF RemoveExtraStoreToPC
  <1>2. Starts' = Starts /\ order' \in Seq(Addr) /\ Distinct(order')
    BY DEF SameBlocks
  <1>3. /\ AllOK(Range(Kinds), FALSE) /\ overlaps = <<>> /\ \A s \in Starts : code[s].link = None
        /\ \A s \in Starts : lastpc[s] = LastInst(memory, s)
    BY <1>1 DEF CodeInv, LinksInv, Untagged, Uncut
  <1>4. ASSUME NEW s \in Starts
        PROVE  /\ InsideBlock(code[s])
               /\ FunctionOK(memory, Starts, s, RemoveExtra(code[s]),
                             {"count", "icount", "work"}, TRUE)
               /\ RemoveExtra(code[s]).link = None
    <2>1. FunctionOK(memory, Starts, s, code[s], Range(Kinds), FALSE) /\ code[s].link = None
      BY <1>3 DEF AllOK
    <2>2. memory \in Memories /\ s \in Addr
      BY DEF CodeInv
    <2> QED
      BY <2>1, <2>2, FunctionTagged
  <1>5. /\ pass' = "s2edeleteinstructioncount"
        /\ code' = [s \in Starts |-> RemoveExtra(code[s])]
    BY <1>4 DEF RemoveExtraStoreToPC
  <1>6. \A s \in Starts : code'[s] = RemoveExtra(code[s])
    BY <1>5
  <1>7. AllOK({"count", "icount", "work"}, TRUE)'
    BY <1>1, <1>2, <1>4, <1>6 DEF AllOK
  <1>8. CodeInv'
    <2>1. DOMAIN code' = Starts
      BY <1>5
    <2> QED
      BY <1>1, <1>2, <1>5, <1>7, <2>1 DEF CodeInv, Untagged, Uncut, Marking, Distinct
  <1>9. LinksInv'
    <2>1. \A s \in Starts : code'[s].link = None
      BY <1>4, <1>6
    <2> QED
      BY <1>1, <1>2, <1>3, <1>5, <2>1 DEF LinksInv, Uncut, Untagged, Marking
  <1> QED
    BY <1>8, <1>9

\* S2EDeleteInstructionCount removes the stores of the counter.
LEMMA StepDeleteCount ==
    ASSUME CodeInv, LinksInv, SameBlocks, DeleteInstructionCount
    PROVE  CodeInv' /\ LinksInv'
  <1>1. /\ pass = "s2edeleteinstructioncount" /\ pass' = "fixoverlappedbbs"
        /\ lastpc' = lastpc /\ overlaps' = overlaps /\ memory' = memory
        /\ code' = [s \in Starts |-> Without(code[s], "icount")]
    BY DEF DeleteInstructionCount
  <1>2. Starts' = Starts /\ order' \in Seq(Addr) /\ Distinct(order')
    BY DEF SameBlocks
  <1>3. /\ AllOK({"count", "icount", "work"}, TRUE)
        /\ overlaps = <<>> /\ \A s \in Starts : code[s].link = None
        /\ \A s \in Starts : lastpc[s] = LastInst(memory, s)
    BY <1>1 DEF CodeInv, LinksInv, Untagged, Uncut
  <1>4. \A s \in Starts : code'[s] = Without(code[s], "icount")
    BY <1>1
  <1>5. {"count", "icount", "work"} \ {"icount"} = {"count", "work"} /\ "icount" \in Range(Kinds)
    BY KindsFacts
  <1>6. ASSUME NEW s \in Starts
        PROVE  /\ FunctionOK(memory, Starts, s, code'[s], {"count", "work"}, TRUE)
               /\ code'[s].link = None
    <2>1. FunctionOK(memory, Starts, s, code[s], {"count", "icount", "work"}, TRUE)
      BY <1>3 DEF AllOK
    <2>2. FunctionOK(memory, Starts, s, Without(code[s], "icount"),
                     {"count", "icount", "work"} \ {"icount"}, TRUE)
      BY <1>5, <2>1, FunctionWithout
    <2>3. Without(code[s], "icount").link = code[s].link
      BY <2>1, WithoutLink DEF FunctionOK
    <2> QED
      BY <1>3, <1>4, <1>5, <2>2, <2>3
  <1>7. AllOK({"count", "work"}, TRUE)'
    BY <1>1, <1>2, <1>6 DEF AllOK
  <1>8. CodeInv'
    <2>1. DOMAIN code' = Starts
      BY <1>1
    <2> QED
      BY <1>1, <1>2, <1>7, <2>1 DEF CodeInv, Untagged, Uncut, Marking, Distinct
  <1>9. LinksInv'
    BY <1>1, <1>2, <1>3, <1>6 DEF LinksInv, Uncut, Untagged, Marking
  <1> QED
    BY <1>8, <1>9

\* FindOverlaps makes the lists, and no function is linked yet.
LEMMA StepFindOverlaps ==
    ASSUME CodeInv, LinksInv, SameBlocks, FindOverlaps
    PROVE  CodeInv' /\ LinksInv'
  <1>1. /\ pass = "fixoverlappedbbs" /\ pass' = "truncate"
        /\ lastpc' = lastpc /\ code' = code /\ memory' = memory
    BY DEF FindOverlaps
  <1>2. Starts' = Starts /\ order' \in Seq(Addr) /\ Distinct(order')
    BY DEF SameBlocks
  <1>3. /\ AllOK({"count", "work"}, TRUE) /\ \A s \in Starts : code[s].link = None
        /\ \A s \in Starts : lastpc[s] = LastInst(memory, s)
    BY <1>1 DEF CodeInv, LinksInv, Untagged, Uncut
  <1>4. EndingsInv'
    <2>1. /\ order \in Seq(Addr) /\ Distinct(order) /\ DOMAIN code = Starts
          /\ memory \in Memories /\ Starts \subseteq Addr
      BY DEF CodeInv
    <2> QED
      BY <1>3, <2>1, FoundOverlaps
  <1>5. AllOK({"count", "work"}, TRUE)'
    BY <1>1, <1>2, <1>3 DEF AllOK
  <1>6. CodeInv'
    BY <1>1, <1>2, <1>5 DEF CodeInv, Untagged, Uncut, Marking, Distinct
  <1>7. LinksInv'
    BY <1>1, <1>2, <1>3, <1>4 DEF LinksInv, Uncut, Untagged, Marking
  <1> QED
    BY <1>6, <1>7

\* A cut keeps the function in order and moves on in its list.
LEMMA StepTruncate ==
    ASSUME CodeInv, LinksInv, SameBlocks, TruncateFuncAndLinkWith
    PROVE  CodeInv' /\ LinksInv'
  <1> DEFINE g == LinkWith(code[Curr], Min(Aligned(code[Curr], NextFunc)), NextFunc)
  <1>1. /\ pass = "truncate" /\ pass' = "truncate"
        /\ lastpc' = lastpc /\ memory' = memory
    BY DEF TruncateFuncAndLinkWith
  <1>2. Starts' = Starts /\ order' \in Seq(Addr) /\ Distinct(order')
    BY DEF SameBlocks
  <1>3. /\ AllOK({"count", "work"}, TRUE) /\ EndingsInv /\ DOMAIN code = Starts
        /\ \A s \in Starts : lastpc[s] = LastInst(memory, s)
    BY <1>1 DEF CodeInv, LinksInv
  <1>4. EndingsInv'
    BY <1>2, <1>3, AdvanceKeepsEndings
  <1>5. /\ FunctionOK(memory, Starts, Curr, g, {"count", "work"}, TRUE)
        /\ code' = [code EXCEPT ![Curr] = g]
    BY <1>3, TruncateStep
  <1> HIDE DEF g
  <1>6. ASSUME NEW s \in Starts
        PROVE  FunctionOK(memory, Starts, s, code'[s], {"count", "work"}, TRUE)
    <2>1. CASE s = Curr
      BY <1>3, <1>5, <2>1
    <2>2. CASE s # Curr
      <3>1. code'[s] = code[s]
        BY <1>3, <1>5, <2>2
      <3> QED
        BY <1>3, <3>1 DEF AllOK
    <2> QED
      BY <2>1, <2>2
  <1>7. AllOK({"count", "work"}, TRUE)'
    BY <1>1, <1>2, <1>6 DEF AllOK
  <1>8. CodeInv'
    <2>1. DOMAIN code' = Starts
      BY <1>3, <1>5
    <2> QED
      BY <1>1, <1>2, <1>7, <2>1 DEF CodeInv, Untagged, Uncut, Marking, Distinct
  <1>9. LinksInv'
    BY <1>1, <1>2, <1>3, <1>4 DEF LinksInv, Uncut, Untagged, Marking
  <1> QED
    BY <1>8, <1>9

\* An assertion fails only on blocks that are misaligned.
LEMMA StepAssert ==
    ASSUME CodeInv, LinksInv, SameBlocks, AssertFails
    PROVE  CodeInv' /\ LinksInv'
  <1>1. /\ pass = "truncate" /\ overlaps # <<>> /\ pass' = "aborted" /\ code' = code
        /\ lastpc' = lastpc /\ memory' = memory /\ overlaps' = overlaps
    BY DEF AssertFails
  <1>2. Starts' = Starts /\ order' \in Seq(Addr) /\ Distinct(order')
    BY DEF SameBlocks
  <1>3. /\ AllOK({"count", "work"}, TRUE) /\ EndingsInv
        /\ \A s \in Starts : lastpc[s] = LastInst(memory, s)
    BY <1>1 DEF CodeInv, LinksInv
  <1>4. ~Consistent
    BY <1>3, AssertMeansMisaligned
  <1>5. ~Consistent'
    BY <1>1, <1>2, <1>4 DEF Consistent
  <1>6. AllOK({"count", "work"}, TRUE)'
    BY <1>1, <1>2, <1>3 DEF AllOK
  <1>7. CodeInv'
    BY <1>1, <1>2, <1>6 DEF CodeInv, Untagged, Uncut, Marking, Distinct
  <1>8. LinksInv'
    BY <1>1, <1>2, <1>3, <1>5 DEF LinksInv, Uncut, Untagged, Marking
  <1> QED
    BY <1>7, <1>8

\* -dce leaves the work, and the links.
LEMMA StepDce ==
    ASSUME CodeInv, LinksInv, SameBlocks, Dce
    PROVE  CodeInv' /\ LinksInv'
  <1>1. /\ pass = "truncate" /\ overlaps = <<>> /\ pass' = "armmarkcall"
        /\ lastpc' = lastpc /\ overlaps' = overlaps /\ memory' = memory
        /\ endings' = endings /\ next' = next
        /\ code' = [s \in Starts |-> Without(code[s], "count")]
    BY DEF Dce
  <1>2. Starts' = Starts /\ order' \in Seq(Addr) /\ Distinct(order')
    BY DEF SameBlocks
  <1>3. /\ AllOK({"count", "work"}, TRUE) /\ EndingsInv
        /\ \A s \in Starts : lastpc[s] = LastInst(memory, s)
    BY <1>1 DEF CodeInv, LinksInv
  <1>4. \A s \in Starts : code'[s] = Without(code[s], "count")
    BY <1>1
  <1>5. {"count", "work"} \ {"count"} = {"work"} /\ "count" \in Range(Kinds)
    BY KindsFacts
  <1>6. ASSUME NEW s \in Starts
        PROVE  /\ FunctionOK(memory, Starts, s, code'[s], {"work"}, TRUE)
               /\ code'[s].link = code[s].link
    <2>1. FunctionOK(memory, Starts, s, code[s], {"count", "work"}, TRUE)
      BY <1>3 DEF AllOK
    <2>2. FunctionOK(memory, Starts, s, Without(code[s], "count"),
                     {"count", "work"} \ {"count"}, TRUE)
      BY <1>5, <2>1, FunctionWithout
    <2>3. Without(code[s], "count").link = code[s].link
      BY <2>1, WithoutLink DEF FunctionOK
    <2> QED
      BY <1>4, <1>5, <2>2, <2>3
  <1>7. AllOK({"work"}, TRUE)'
    BY <1>1, <1>2, <1>6 DEF AllOK
  <1>8. CodeInv'
    <2>1. DOMAIN code' = Starts
      BY <1>1
    <2> QED
      BY <1>1, <1>2, <1>7, <2>1 DEF CodeInv, Untagged, Uncut, Marking, Distinct
  <1>9. EndingsInv'
    <2>1. \A p \in Addr : EndTogether(endings[p], p)'
      BY <1>1, <1>2, <1>3 DEF EndingsInv, EndTogether
    <2>2. ASSUME NEW p \in Addr, NEW i \in 1..Len(endings[p])
          PROVE  code'[endings[p][i]].link = IF Linked(p, i)' THEN endings[p][i + 1] ELSE None
      <3>1. Linked(p, i)' <=> Linked(p, i)
        BY <1>1 DEF Linked
      <3>2. endings[p][i] \in Starts
        BY <1>3 DEF EndingsInv, EndTogether
      <3>3. code[endings[p][i]].link = IF Linked(p, i) THEN endings[p][i + 1] ELSE None
        BY <1>3 DEF EndingsInv
      <3> QED
        BY <1>6, <3>1, <3>2, <3>3
    <2>3. \A p \in Addr : \A i \in 1..Len(endings'[p]) :
             code'[endings'[p][i]].link = IF Linked(p, i)' THEN endings'[p][i + 1] ELSE None
      BY <1>1, <2>2
    <2>4. /\ endings' \in [Addr -> Seq(Starts')]
          /\ overlaps' \in Seq(Addr) /\ Distinct(overlaps)'
          /\ \A i \in 1..Len(overlaps') : Len(endings'[overlaps'[i]]) >= 2
          /\ overlaps' # <<>> => next' \in 2..Len(endings'[Head(overlaps')])
      BY <1>1, <1>2, <1>3 DEF EndingsInv, Distinct
    <2> QED
      BY <2>1, <2>3, <2>4 DEF EndingsInv
  <1>10. LinksInv'
    BY <1>1, <1>2, <1>3, <1>9 DEF LinksInv, Uncut, Untagged, Marking
  <1> QED
    BY <1>8, <1>10

----------------------------------------------------------------------------
(* What the functions still do.                                            *)

\* p is in the sequence q.
Has(q, p) == \E i \in 1..Len(q) : q[i] = p

\* The effects of a block are those of its instructions.
LEMMA EffectsFacts ==
    ASSUME NEW m \in Memories, NEW s \in Addr, NEW e, e = Effects(m, s)
    PROVE  /\ e \in Seq(Addr) /\ Increasing(e)
           /\ \A p : Has(e, p) <=> p \in Range(Instructions(m, s)) /\ m[p].work
  <1> DEFINE q == Instructions(m, s)
             T == {p \in Addr : m[p].work}
  <1>1. IsBlock(m, s, q) /\ e = Keep(q, T)
    BY BlockFacts DEF Effects
  <1>2. q = Instructions(m, s)
    OBVIOUS
  <1> HIDE DEF q
  <1>3. /\ q \in Seq(Addr) /\ Increasing(q) /\ Range(q) \subseteq Addr
        /\ \A p : p \in Range(q) <=> \E i \in 1..Len(q) : p = q[i]
    BY <1>1 DEF IsBlock
  <1>4. /\ e \in Seq(Addr) /\ Within(e, q) /\ KeptIn(q, T, e) /\ Increasing(e)
        /\ \A i \in 1..Len(e) : e[i] \in T
    <2> HIDE DEF T
    <2> QED
      BY <1>1, <1>3, KeepFacts, KeepIncreases
  <1>5. ASSUME NEW i \in 1..Len(e) PROVE e[i] \in Range(q) /\ m[e[i]].work
    <2>1. PICK j \in 1..Len(q) : q[j] = e[i]
      BY <1>4 DEF Within
    <2> QED
      BY <1>3, <1>4, <2>1
  <1>6. ASSUME NEW p \in Range(q), m[p].work PROVE \E i \in 1..Len(e) : e[i] = p
    <2>1. PICK j \in 1..Len(q) : q[j] = p
      BY <1>3
    <2>2. q[j] \in T
      BY <1>3, <1>6, <2>1
    <2> QED
      BY <1>4, <2>1, <2>2 DEF KeptIn
  <1>7. ASSUME NEW p PROVE Has(e, p) <=> p \in Range(q) /\ m[p].work
    BY <1>5, <1>6 DEF Has
  <1> QED
    BY <1>2, <1>4, <1>7

\* So are those that are left of a function.
LEMMA WorksFacts ==
    ASSUME NEW m \in Memories, NEW D, NEW s \in Addr, NEW f, NEW K, NEW tagged,
           FunctionOK(m, D, s, f, K, tagged), "work" \in K,
           NEW w, w = Works(f)
    PROVE  /\ w \in Seq(Addr) /\ Increasing(w)
           /\ \A p : Has(w, p) <=>
                 /\ p \in Range(Instructions(m, s)) /\ m[p].work
                 /\ f.link = None \/ p < f.link
  <1> DEFINE b == f.body
             I == {i \in DOMAIN b : b[i].kind = "work"}
             c == KeepAt(b, I)
  <1>1. b \in Seq(Op) /\ BodyOK(m, s, f, K, tagged) /\ Ordered(b)
    BY DEF FunctionOK, BodyOK, LLVMFunction
  <1>2. w = [i \in DOMAIN c |-> c[i].pc]
    BY DEF Works
  <1>3. ASSUME NEW p \in Addr
        PROVE  HasOp(b, "work", p) <=> /\ p \in Range(Instructions(m, s)) /\ m[p].work
                                       /\ f.link = None \/ p < f.link
    <2>1. "work" \in Range(Kinds) /\ "work" # "count"
      BY KindsFacts
    <2> QED
      BY <1>1, <2>1 DEF BodyOK, BeforeLink
  <1>4. Range(Instructions(m, s)) \subseteq Addr
    BY BlockFacts DEF IsBlock
  <1>50. c = KeepAt(b, I)
    OBVIOUS
  <1> HIDE DEF b, c
  <1>5. c \in Seq(Op) /\ Ordered(c) /\ From(c, b, I) /\ Into(b, c, I)
    <2> HIDE DEF I
    <2> QED
      BY <1>1, <1>50, KeepOps
  <1>6. /\ DOMAIN c = 1..Len(c) /\ Len(c) \in Nat
        /\ \A i \in 1..Len(c) : c[i].pc \in Addr /\ c[i].pc \in Int
    BY <1>5, BodyFacts
  <1>7. DOMAIN b = 1..Len(b)
    BY <1>1
  <1>8. w \in Seq(Addr) /\ Len(w) = Len(c) /\ \A i \in 1..Len(c) : w[i] = c[i].pc
    <2>1. \A i \in 1..Len(c) : w[i] = c[i].pc
      BY <1>2, <1>6
    <2>2. w \in [1..Len(c) -> Addr]
      BY <1>2, <1>6
    <2> QED
      BY <1>6, <2>1, <2>2, FunctionIsSequence
  <1>9. \A i \in 1..Len(c) : c[i].kind = "work"
    BY <1>5 DEF From
  <1>10. Increasing(w)
    <2> SUFFICES ASSUME NEW i \in 1..Len(c), NEW j \in 1..Len(c), i < j
                 PROVE  w[i] < w[j]
      BY <1>8 DEF Increasing
    <2>1. \/ c[i].pc < c[j].pc
          \/ c[i].pc = c[j].pc /\ Rank(c[i].kind) < Rank(c[j].kind)
      BY <1>5, <1>6 DEF Ordered
    <2>2. Rank(c[i].kind) = 4 /\ Rank(c[j].kind) = 4
      BY <1>9 DEF Rank
    <2> QED
      BY <1>8, <2>1, <2>2
  <1>11. ASSUME NEW p PROVE Has(w, p) <=> HasOp(b, "work", p)
    <2>1. ASSUME NEW i \in 1..Len(w), w[i] = p PROVE HasOp(b, "work", p)
      <3>1. i \in 1..Len(c) /\ c[i].pc = p
        BY <1>8, <2>1
      <3>2. PICK j \in 1..Len(b) : j \in I /\ c[i] = b[j]
        BY <1>5, <3>1 DEF From
      <3> QED
        BY <1>7, <3>1, <3>2 DEF HasOp
    <2>2. ASSUME HasOp(b, "work", p) PROVE Has(w, p)
      <3>1. PICK j \in 1..Len(b) : b[j].kind = "work" /\ b[j].pc = p
        BY <1>7, <2>2 DEF HasOp
      <3>2. PICK i \in 1..Len(c) : c[i] = b[j]
        BY <1>5, <1>7, <3>1 DEF Into
      <3> QED
        BY <1>8, <3>1, <3>2 DEF Has
    <2> QED
      BY <2>1, <2>2 DEF Has
  <1>12. \A i \in 1..Len(w) : w[i] \in Addr
    BY <1>8, <1>6
  <1>13. ASSUME NEW p
         PROVE  Has(w, p) <=>
                   /\ p \in Range(Instructions(m, s)) /\ m[p].work
                   /\ f.link = None \/ p < f.link
    <2>1. CASE p \in Addr
      BY <1>3, <1>11, <2>1
    <2>2. CASE p \notin Addr
      BY <1>4, <1>12, <2>2 DEF Has
    <2> QED
      BY <2>1, <2>2
  <1> QED
    BY <1>8, <1>10, <1>13

\* The members of a are less than those of b.
AllLess(a, b) == \A i \in 1..Len(a), j \in 1..Len(b) : a[i] < b[j]

\* Two sequences that increase one behind the other.
LEMMA IncreasingConcat ==
    ASSUME NEW a \in Seq(Addr), NEW b \in Seq(Addr), Increasing(a), Increasing(b),
           AllLess(a, b), NEW c, c = a \o b
    PROVE  /\ c \in Seq(Addr) /\ Increasing(c)
           /\ \A p : Has(c, p) <=>
                     Has(a, p) \/ Has(b, p)
  <1> DEFINE N == Len(a)
             M == Len(b)
  <1>1. /\ c \in Seq(Addr) /\ Len(c) = N + M
        /\ \A i \in 1..N : c[i] = a[i]
        /\ \A i \in 1..M : c[N + i] = b[i]
    BY ConcatPositions
  <1>2. N \in Nat /\ M \in Nat
    OBVIOUS
  <1>3. \A i \in 1..M : N + i \in 1..(N + M)
    BY <1>2
  <1>30. \A i \in 1..N : i \in 1..(N + M)
    BY <1>2
  <1>31. N = Len(a) /\ M = Len(b)
    OBVIOUS
  <1> HIDE DEF N, M
  <1>4. ASSUME NEW i \in 1..(N + M)
        PROVE  (i \in 1..N /\ c[i] = a[i]) \/ (i - N \in 1..M /\ c[i] = b[i - N] /\ N < i)
    <2>0. i \in Int /\ i >= 1 /\ i <= N + M
      BY <1>2
    <2>1. CASE i <= N
      <3>1. i \in 1..N
        BY <1>2, <2>0, <2>1
      <3> QED
        BY <1>1, <3>1
    <2>2. CASE N < i
      <3>1. i - N \in 1..M /\ N + (i - N) = i
        BY <1>2, <2>0, <2>2
      <3>2. c[N + (i - N)] = b[i - N]
        BY <1>1, <3>1
      <3> QED
        BY <2>2, <3>1, <3>2
    <2>3. i <= N \/ N < i
      BY <1>2, <2>0
    <2> QED
      BY <2>1, <2>2, <2>3
  <1>5. Increasing(c)
    <2> SUFFICES ASSUME NEW i \in 1..(N + M), NEW j \in 1..(N + M), i < j
                 PROVE  c[i] < c[j]
      BY <1>1 DEF Increasing
    <2>0. i \in Int /\ j \in Int
      OBVIOUS
    <2>1. CASE i \in 1..N /\ c[i] = a[i] /\ j \in 1..N /\ c[j] = a[j]
      BY <1>31, <2>1 DEF Increasing
    <2>2. CASE i \in 1..N /\ c[i] = a[i] /\ j - N \in 1..M /\ c[j] = b[j - N]
      BY <1>31, <2>2 DEF AllLess
    <2>3. CASE i - N \in 1..M /\ c[i] = b[i - N] /\ N < i
      <3>1. N < j /\ j \notin 1..N
        BY <1>2, <2>0, <2>3
      <3>2. j - N \in 1..M /\ c[j] = b[j - N]
        BY <1>4, <3>1
      <3>3. i - N < j - N
        BY <1>2, <2>0
      <3> QED
        BY <1>31, <2>3, <3>2, <3>3 DEF Increasing
    <2> QED
      BY <1>4, <2>1, <2>2, <2>3
  <1>6. ASSUME NEW p
        PROVE  Has(c, p) <=> Has(a, p) \/ Has(b, p)
    <2>1. ASSUME NEW i \in 1..(N + M), c[i] = p
          PROVE  (\E k \in 1..N : a[k] = p) \/ (\E k \in 1..M : b[k] = p)
      BY <1>4, <2>1
    <2>2. ASSUME NEW i \in 1..N, a[i] = p PROVE \E k \in 1..(N + M) : c[k] = p
      BY <1>1, <1>30, <2>2
    <2>3. ASSUME NEW i \in 1..M, b[i] = p PROVE \E k \in 1..(N + M) : c[k] = p
      BY <1>1, <1>3, <2>3
    <2>4. Len(c) = N + M
      BY <1>1
    <2> QED
      BY <1>31, <2>1, <2>2, <2>3, <2>4 DEF Has
  <1> QED
    BY <1>1, <1>5, <1>6

\* A sequence of addresses is one of integers.
LEMMA IntegerSequence ==
    ASSUME NEW S, \A y \in S : y \in Int, NEW x \in Seq(S)
    PROVE  x \in Seq(Int)
  <1>1. Len(x) \in Nat /\ x \in [1..Len(x) -> S]
    OBVIOUS
  <1>2. x \in [1..Len(x) -> Int]
    BY <1>1
  <1> QED
    BY <1>1, <1>2, FunctionIsSequence

\* Sequences that increase and have the same members are the same.
LEMMA SameMembers ==
    ASSUME NEW a \in Seq(Addr), NEW b \in Seq(Addr), Increasing(a), Increasing(b),
           \A p : Has(a, p) <=> Has(b, p)
    PROVE  a = b
  <1>1. Addr \subseteq Int
    BY SizesAssumption DEF Addr
  <1>2. a \in Seq(Int) /\ b \in Seq(Int)
    BY <1>1, IntegerSequence
  <1>3. Within(a, b)
    BY DEF Within, Has
  <1>4. Within(b, a)
    BY DEF Within, Has
  <1> QED
    BY <1>2, <1>3, <1>4, IncreasingEqual

\* A function has the effects of its block up to where it is linked.
LEMMA FunctionEffects ==
    ASSUME NEW m \in Memories, NEW D \in SUBSET Addr, NEW s \in Addr, NEW f, NEW K, NEW tagged,
           FunctionOK(m, D, s, f, K, tagged), "work" \in K
    PROVE  /\ f.link = None => Works(f) = Effects(m, s)
           /\ f.link # None => Works(f) \o Effects(m, f.link) = Effects(m, s)
  <1> DEFINE w == Works(f)
             e == Effects(m, s)
             t == f.link
             R == Range(Instructions(m, s))
  <1>0. w = Works(f)
    OBVIOUS
  <1> HIDE DEF w
  <1>1. /\ w \in Seq(Addr) /\ Increasing(w)
        /\ \A p : Has(w, p) <=> p \in R /\ m[p].work /\ (t = None \/ p < t)
    BY <1>0, WorksFacts
  <1>2. /\ e \in Seq(Addr) /\ Increasing(e)
        /\ \A p : Has(e, p) <=> p \in R /\ m[p].work
    BY EffectsFacts
  <1>3. ASSUME t = None PROVE w = e
    <2> HIDE DEF w, e, R, t
    <2>1. \A p : Has(w, p) <=> Has(e, p)
      BY <1>1, <1>2, <1>3
    <2> QED
      BY <1>1, <1>2, <2>1, SameMembers
  <1>4. ASSUME t # None PROVE w \o Effects(m, t) = e
    <2> DEFINE d == Effects(m, t)
               c == w \o d
    <2>1. t \in Addr /\ t \in R /\ LastInst(m, t) = LastInst(m, s)
      BY <1>4 DEF FunctionOK, LinkOK
    <2>2. /\ d \in Seq(Addr) /\ Increasing(d)
          /\ \A p : Has(d, p) <=>
                       p \in Range(Instructions(m, t)) /\ m[p].work
      BY <2>1, EffectsFacts
    <2>3. \A p \in Addr : p \in Range(Instructions(m, t)) <=> p \in R /\ t <= p
      BY <2>1, MeetingBlocks
    <2>4. R \subseteq Addr /\ Range(Instructions(m, t)) \subseteq Addr
      <3>1. R \subseteq Addr
        BY BlockFacts DEF IsBlock
      <3>2. Range(Instructions(m, t)) \subseteq Addr
        BY <2>1, BlockFacts DEF IsBlock
      <3> QED
        BY <3>1, <3>2
    <2>5. Addr \subseteq Int
      BY SizesAssumption DEF Addr
    <2>6. c = w \o d
      OBVIOUS
    <2> HIDE DEF w, e, R, t, d, c
    <2>7. ASSUME NEW i \in 1..Len(w), NEW j \in 1..Len(d) PROVE w[i] < d[j]
      <3>0. Has(w, w[i]) /\ Has(d, d[j])
        BY DEF Has
      <3>1. w[i] \in R /\ w[i] < t
        BY <1>1, <1>4, <3>0
      <3>2. d[j] \in Range(Instructions(m, t))
        BY <2>2, <3>0
      <3>3. t <= d[j]
        BY <2>3, <2>4, <3>2
      <3>4. w[i] \in Int /\ d[j] \in Int /\ t \in Int
        BY <2>1, <2>4, <2>5, <3>1, <3>2
      <3> QED
        BY <3>1, <3>3, <3>4
    <2>70. AllLess(w, d)
      BY <2>7 DEF AllLess
    <2>8. /\ c \in Seq(Addr) /\ Increasing(c)
          /\ \A p : Has(c, p) <=>
                       Has(w, p) \/ Has(d, p)
      BY <1>1, <2>2, <2>6, <2>70, IncreasingConcat
    <2>9. ASSUME NEW p
          PROVE  Has(c, p) <=> Has(e, p)
      <3>1. Has(c, p) <=>
               \/ p \in R /\ m[p].work /\ p < t
               \/ p \in Range(Instructions(m, t)) /\ m[p].work
        BY <1>1, <1>4, <2>2, <2>8
      <3>2. p \in Range(Instructions(m, t)) <=> p \in R /\ t <= p
        BY <2>3, <2>4
      <3>3. p \in R => (p < t \/ t <= p)
        BY <2>1, <2>4, <2>5
      <3> QED
        BY <1>2, <3>1, <3>2, <3>3
    <2>10. c = e
      BY <1>2, <2>8, <2>9, SameMembers
    <2> QED
      BY <2>10 DEF c, d
  <1> QED
    BY <1>0, <1>3, <1>4

\* A set of addresses has a greatest one.
LEMMA GreatestAddress ==
    ASSUME NEW B, B \subseteq Addr, B # {}
    PROVE  \E s \in B : \A t \in B : t <= s
  <1> DEFINE M == {n \in Nat : \E s \in B : n = PageEnd - s}
  <1>1. \A s \in B : s \in Int /\ PageEnd \in Int /\ PageEnd - s \in Nat
    BY SizesAssumption DEF Addr
  <1>2. M \in SUBSET Nat /\ M # {}
    BY <1>1
  <1>3. PICK n \in M : \A k \in M : n <= k
    <2> HIDE DEF M
    <2> QED
      BY <1>2, LeastNat
  <1>4. PICK s \in B : n = PageEnd - s
    BY <1>3
  <1>5. ASSUME NEW t \in B PROVE t <= s
    <2>1. PageEnd - t \in M
      BY <1>1
    <2>2. PageEnd - s <= PageEnd - t
      BY <1>3, <1>4, <2>1
    <2> QED
      BY <1>1, <2>2
  <1> QED
    BY <1>5

\* When the lists are done, a block is linked with the next one that ends
\* with it, and has every later one of them.
LEMMA LinkedList ==
    ASSUME CodeInv, EndingsInv, overlaps = <<>>, NEW K, NEW tagged, AllOK(K, tagged),
           NEW s \in Starts, NEW t \in Starts, s < t,
           LastInst(memory, s) = LastInst(memory, t)
    PROVE  /\ code[s].link # None /\ code[s].link \in Starts /\ code[s].link <= t
           /\ t \in Range(Instructions(memory, s))
  <1> DEFINE p == LastInst(memory, s)
             e == endings[p]
             n == Len(e)
  <1>1. memory \in Memories /\ s \in Addr /\ t \in Addr /\ Starts \subseteq Addr
    BY DEF CodeInv
  <1>2. p \in Addr
    BY <1>1, BlockFacts DEF IsBlock
  <1>3. p = LastInst(memory, s) /\ p = LastInst(memory, t)
    OBVIOUS
  <1>30. e = endings[p] /\ n = Len(e)
    OBVIOUS
  <1> HIDE DEF p
  <1>4. EndTogether(e, p)
    BY <1>2 DEF EndingsInv
  <1>5. \A k \in 1..n : code[e[k]].link = IF Linked(p, k) THEN e[k + 1] ELSE None
    BY <1>2 DEF EndingsInv
  <1>6. \A k \in 1..n : Linked(p, k) <=> k < n
    <2>1. ~\E j \in 1..Len(overlaps) : TRUE
      OBVIOUS
    <2> QED
      BY <2>1 DEF Linked
  <1> HIDE DEF e, n
  <1>7. e \in Seq(Starts) /\ n \in Nat /\ Increasing(e) /\ \A k \in 1..n : e[k] \in Starts
    BY <1>4 DEF EndTogether, n
  <1>8. PICK i \in 1..n : e[i] = s
    BY <1>3, <1>4 DEF EndTogether, n
  <1>9. PICK j \in 1..n : e[j] = t
    BY <1>3, <1>4 DEF EndTogether, n
  <1>10. \A x \in Starts : x \in Int
    BY <1>1, SizesAssumption DEF Addr
  <1>11. i < j
    <2>1. CASE j < i
      <3>1. t < s
        BY <1>7, <1>8, <1>9, <2>1 DEF Increasing, n
      <3> QED
        BY <1>10, <3>1
    <2>2. CASE j = i
      BY <1>8, <1>9, <1>10, <2>2
    <2>3. i \in Int /\ j \in Int
      OBVIOUS
    <2> QED
      BY <2>1, <2>2, <2>3
  <1>12. ASSUME NEW k \in 1..n, k < n
         PROVE  /\ k + 1 \in 1..n /\ code[e[k]].link = e[k + 1]
                /\ e[k + 1] \in Range(Instructions(memory, e[k]))
    <2>1. k + 1 \in 1..n
      BY <1>7, <1>12
    <2>2. code[e[k]].link = e[k + 1]
      BY <1>5, <1>6, <1>12
    <2>3. e[k] \in Starts /\ e[k + 1] \in Starts
      BY <1>7, <2>1
    <2>4. e[k + 1] # None
      BY <1>1, <2>3, SizesAssumption DEF Addr, None
    <2>5. FunctionOK(memory, Starts, e[k], code[e[k]], K, tagged)
      BY <2>3 DEF AllOK
    <2> QED
      BY <2>1, <2>2, <2>4, <2>5 DEF FunctionOK, LinkOK
  <1> DEFINE R == Range(Instructions(memory, s))
             N == n - (i + 1)
             P == {d \in 0..N : e[(i + 1) + d] \in R}
  <1>13. N \in Nat /\ i < n /\ i + 1 \in 1..n /\ i \in Int /\ n = (i + 1) + N
    BY <1>7, <1>11
  <1>14. 0 \in P
    <2>1. e[i + 1] \in R
      BY <1>8, <1>12, <1>13
    <2>2. (i + 1) + 0 = i + 1
      BY <1>13
    <2> QED
      BY <1>13, <2>1, <2>2
  <1>15. ASSUME NEW d \in 0..N, d \in P, d < N PROVE d + 1 \in P
    <2> DEFINE k == (i + 1) + d
    <2>1. k \in 1..n /\ k < n /\ d + 1 \in 0..N /\ (i + 1) + (d + 1) = k + 1
      BY <1>7, <1>13, <1>15
    <2>2. e[k] \in R
      BY <1>15
    <2> HIDE DEF k, N, R
    <2>3. e[k + 1] \in Range(Instructions(memory, e[k])) /\ k + 1 \in 1..n
      BY <1>12, <2>1
    <2>4. LastInst(memory, s) = LastInst(memory, e[k])
      BY <1>3, <1>4, <2>1 DEF EndTogether, n
    <2>5. e[k + 1] \in Addr
      BY <1>1, <1>7, <2>3
    <2>6. e[k + 1] \in R
      BY <1>1, <2>2, <2>3, <2>4, <2>5, MeetingBlocks DEF R
    <2> QED
      BY <2>1, <2>6
  <1>16. j - (i + 1) \in 0..N /\ (i + 1) + (j - (i + 1)) = j
    BY <1>7, <1>11, <1>13
  <1>17. t \in R
    <2>1. \A d \in 0..N : d \in P
      <3> HIDE DEF P, N
      <3> QED
        BY <1>13, <1>14, <1>15, SetInduction
    <2>2. j - (i + 1) \in P
      BY <1>16, <2>1
    <2> QED
      BY <1>9, <1>16, <2>2
  <1>18. e[i + 1] \in Starts /\ e[i + 1] <= t
    <2>1. i + 1 = j \/ i + 1 < j
      BY <1>7, <1>11
    <2>2. e[i + 1] \in Starts
      BY <1>7, <1>13
    <2>3. i + 1 = j \/ e[i + 1] < e[j]
      BY <1>7, <1>13, <2>1 DEF Increasing, n
    <2> QED
      BY <1>9, <1>10, <2>2, <2>3
  <1>19. code[s].link = e[i + 1] /\ e[i + 1] # None
    <2>1. code[s].link = e[i + 1]
      BY <1>8, <1>12, <1>13
    <2>2. e[i + 1] # None
      BY <1>1, <1>18, SizesAssumption DEF Addr, None
    <2> QED
      BY <2>1, <2>2
  <1> QED
    BY <1>17, <1>18, <1>19

\* When the lists are done, the blocks that end together have their
\* instructions in common.
LEMMA ListsConsistent ==
    ASSUME CodeInv, EndingsInv, overlaps = <<>>, NEW K, NEW tagged, AllOK(K, tagged)
    PROVE  Consistent
  <1> SUFFICES ASSUME NEW s \in Starts, NEW t \in Starts, s < t,
                      LastInst(memory, s) = LastInst(memory, t)
               PROVE  t \in Range(Instructions(memory, s))
    BY DEF Consistent, LastInst
  <1> QED
    BY LinkedList

\* A function whose work alone is left has lost all of it exactly when the
\* block does nothing before it is linked.
LEMMA StartFacts ==
    ASSUME CodeInv, EndingsInv, overlaps = <<>>, AllOK({"work"}, TRUE), NEW s \in Starts
    PROVE  HasPCStart(code[s]) <=> ~NothingBeforeCut(s)
  <1> DEFINE f == code[s]
             e == Effects(memory, s)
             t == f.link
  <1>1. memory \in Memories /\ s \in Addr /\ Starts \subseteq Addr
    BY DEF CodeInv
  <1>2. FunctionOK(memory, Starts, s, f, {"work"}, TRUE)
    BY DEF AllOK
  <1>3. /\ f.body \in Seq(Op)
        /\ \A kind \in Range(Kinds), p \in Addr :
              HasOp(f.body, kind, p) <=> /\ kind \in {"work"}
                                         /\ p \in Range(Instructions(memory, s))
                                         /\ kind = "work" => memory[p].work
                                         /\ BeforeLink(f, kind, p)
    BY <1>2 DEF FunctionOK, BodyOK, LLVMFunction
  <1>4. /\ e \in Seq(Addr)
        /\ \A p : Has(e, p) <=> p \in Range(Instructions(memory, s)) /\ memory[p].work
    BY <1>1, EffectsFacts
  <1>5. e = Effects(memory, s) /\ f = code[s] /\ t = f.link
    OBVIOUS
  <1>6. \A p \in Range(e) : Has(e, p) /\ p \in Addr
    BY <1>4 DEF Range, Has
  <1>7. \A p : Has(e, p) => p \in Range(e)
    BY <1>4 DEF Range, Has
  <1> HIDE DEF e, f, t
  <1>8. "work" \in Range(Kinds)
    BY KindsFacts
  <1>9. ASSUME ~HasPCStart(f) PROVE NothingBeforeCut(s)
    <2>1. f.body = <<>> /\ t # None
      BY <1>5, <1>9 DEF HasPCStart
    <2>2. t \in Starts /\ s < t /\ LastInst(memory, t) = LastInst(memory, s)
      BY <1>2, <1>5, <2>1 DEF FunctionOK, LinkOK
    <2>3. ASSUME NEW p \in Range(e) PROVE p >= t
      <3>1. p \in Range(Instructions(memory, s)) /\ memory[p].work /\ p \in Addr
        BY <1>4, <1>6
      <3>2. ~HasOp(f.body, "work", p)
        BY <2>1 DEF HasOp
      <3>3. ~(p < t)
        BY <1>3, <1>5, <1>8, <3>1, <3>2 DEF BeforeLink
      <3>4. p \in Int /\ t \in Int
        BY <1>1, <2>2, <3>1, SizesAssumption DEF Addr
      <3> QED
        BY <3>3, <3>4
    <2> QED
      BY <1>5, <2>2, <2>3 DEF NothingBeforeCut, LastInst
  <1>10. ASSUME HasPCStart(f), NothingBeforeCut(s) PROVE FALSE
    <2>1. PICK u \in Starts : /\ s < u /\ LastInst(memory, s) = LastInst(memory, u)
                              /\ \A p \in Range(e) : p >= u
      BY <1>5, <1>10 DEF NothingBeforeCut, LastInst
    <2>2. t # None /\ t \in Starts /\ t <= u
      BY <1>5, <2>1, LinkedList
    <2>3. f.body # <<>>
      BY <1>5, <1>10, <2>2 DEF HasPCStart
    <2>4. 1 \in DOMAIN f.body /\ f.body[1].pc \in Addr /\ f.body[1].kind \in Range(Kinds)
      <3> DEFINE b == f.body
      <3>1. b \in Seq(Op) /\ b # <<>>
        BY <1>3, <2>3
      <3> HIDE DEF b
      <3>2. 1 \in 1..Len(b) /\ DOMAIN b = 1..Len(b)
        BY <3>1
      <3>3. b[1].pc \in Addr /\ b[1].kind \in Range(Kinds)
        BY <3>1, <3>2, BodyFacts
      <3> QED
        BY <3>2, <3>3 DEF b
    <2> DEFINE p == f.body[1].pc
    <2>5. HasOp(f.body, f.body[1].kind, p) /\ p \in Addr
      BY <2>4 DEF HasOp
    <2> HIDE DEF p
    <2>6. /\ p \in Range(Instructions(memory, s)) /\ memory[p].work
          /\ BeforeLink(f, "work", p)
      BY <1>3, <2>4, <2>5
    <2>7. p < t
      <3>1. "work" # "count"
        OBVIOUS
      <3> QED
        BY <1>5, <2>2, <2>6, <3>1 DEF BeforeLink
    <2>8. p >= u
      BY <1>4, <1>7, <2>1, <2>6
    <2>9. p \in Int /\ t \in Int /\ u \in Int
      BY <1>1, <2>1, <2>2, <2>5, SizesAssumption DEF Addr
    <2> QED
      BY <2>2, <2>7, <2>8, <2>9
  <1> QED
    BY <1>5, <1>9, <1>10

\* The lists depend on these variables only.
LEMMA EndingsStay ==
    ASSUME EndingsInv, Starts' = Starts, memory' = memory, code' = code,
           endings' = endings, overlaps' = overlaps, next' = next
    PROVE  EndingsInv'
  <1>1. ASSUME NEW p \in Addr PROVE EndTogether(endings[p], p)'
    <2>1. EndTogether(endings[p], p)
      BY DEF EndingsInv
    <2> QED
      BY <2>1 DEF EndTogether
  <1>2. \A p, i : Linked(p, i)' <=> Linked(p, i)
    BY DEF Linked
  <1>3. \A p \in Addr : \A i \in 1..Len(endings'[p]) :
            code'[endings'[p][i]].link = IF Linked(p, i)' THEN endings'[p][i + 1] ELSE None
    BY <1>2 DEF EndingsInv
  <1>4. /\ endings' \in [Addr -> Seq(Starts')]
        /\ overlaps' \in Seq(Addr) /\ Distinct(overlaps)'
        /\ \A i \in 1..Len(overlaps') : Len(endings'[overlaps'[i]]) >= 2
        /\ overlaps' # <<>> => next' \in 2..Len(endings'[Head(overlaps')])
    BY DEF EndingsInv, Distinct
  <1> QED
    BY <1>1, <1>3, <1>4 DEF EndingsInv

\* A start address is missing only where a block does nothing before its cut.
LEMMA StepMark ==
    ASSUME CodeInv, LinksInv, SameBlocks, MarkCallStarts
    PROVE  CodeInv' /\ LinksInv'
  <1>1. /\ pass = "armmarkcall" /\ code' = code /\ lastpc' = lastpc /\ memory' = memory
        /\ overlaps' = overlaps /\ endings' = endings /\ next' = next
        /\ pass' = IF \A s \in Starts : HasPCStart(code[s]) THEN "done" ELSE "aborted"
    BY DEF MarkCallStarts
  <1>2. Starts' = Starts /\ order' \in Seq(Addr) /\ Distinct(order')
    BY DEF SameBlocks
  <1>3. /\ AllOK({"work"}, TRUE) /\ EndingsInv /\ overlaps = <<>>
        /\ \A s \in Starts : lastpc[s] = LastInst(memory, s)
    BY <1>1 DEF CodeInv, LinksInv, Marking
  <1>4. AllOK({"work"}, TRUE)'
    BY <1>1, <1>2, <1>3 DEF AllOK
  <1>5. EndingsInv'
    BY <1>1, <1>2, <1>3, EndingsStay
  <1>6. CodeInv'
    BY <1>1, <1>2, <1>4 DEF CodeInv, Untagged, Uncut, Marking, Distinct
  <1>7. CASE \A s \in Starts : HasPCStart(code[s])
    <2>1. pass' = "done" /\ \A s \in Starts' : HasPCStart(code'[s])
      BY <1>1, <1>2, <1>7
    <2>2. LinksInv'
      BY <1>1, <1>2, <1>3, <1>5, <2>1 DEF LinksInv, Uncut, Untagged, Marking
    <2> QED
      BY <1>6, <2>2
  <1>8. ASSUME NEW s \in Starts, ~HasPCStart(code[s])
        PROVE  CodeInv' /\ LinksInv'
    <2>1. pass' = "aborted"
      BY <1>1, <1>8
    <2>2. NothingBeforeCut(s)
      BY <1>3, <1>8, StartFacts
    <2>3. NothingBeforeCut(s)'
      BY <1>1, <1>2, <2>2 DEF NothingBeforeCut
    <2>4. LinksInv'
      BY <1>1, <1>2, <1>3, <2>1, <2>3 DEF LinksInv, Uncut, Untagged, Marking
    <2> QED
      BY <1>6, <2>4
  <1> QED
    BY <1>7, <1>8

\* Stuttering changes nothing of this.
LEMMA StepNothing ==
    ASSUME CodeInv, LinksInv, UNCHANGED vars
    PROVE  CodeInv' /\ LinksInv'
  <1>1. /\ memory' = memory /\ order' = order /\ pass' = pass /\ code' = code
        /\ lastpc' = lastpc /\ endings' = endings /\ overlaps' = overlaps /\ next' = next
        /\ Starts' = Starts
    BY DEF vars, Starts
  <1>2. CodeInv'
    BY <1>1 DEF CodeInv, AllOK, Distinct
  <1>3. EndingsInv => EndingsInv'
    BY <1>1, EndingsStay
  <1>4. ~Consistent => ~Consistent'
    BY <1>1 DEF Consistent
  <1>5. \A s \in Starts : NothingBeforeCut(s) => NothingBeforeCut(s)'
    BY <1>1 DEF NothingBeforeCut
  <1>6. LinksInv'
    BY <1>1, <1>3, <1>4, <1>5 DEF LinksInv
  <1> QED
    BY <1>2, <1>6

\* Every step of the passes keeps what is known of the functions.
LEMMA CodeStep ==
    ASSUME CodeInv, LinksInv, [Next]_vars, SameBlocks
    PROVE  CodeInv' /\ LinksInv'
  <1>1. CASE RewriteFunc \/ EraseFuncs
    BY <1>1, StepTransform
  <1>2. CASE TagInstPc
    BY <1>2, StepTag
  <1>3. CASE RemoveExtraStoreToPC
    BY <1>3, StepRemoveExtra
  <1>4. CASE DeleteInstructionCount
    BY <1>4, StepDeleteCount
  <1>5. CASE FindOverlaps
    BY <1>5, StepFindOverlaps
  <1>6. CASE TruncateFuncAndLinkWith
    BY <1>6, StepTruncate
  <1>7. CASE AssertFails
    BY <1>7, StepAssert
  <1>8. CASE Dce
    BY <1>8, StepDce
  <1>9. CASE MarkCallStarts
    BY <1>9, StepMark
  <1>10. CASE UNCHANGED vars
    BY <1>10, StepNothing
  <1> QED
    BY <1>1, <1>2, <1>3, <1>4, <1>5, <1>6, <1>7, <1>8, <1>9, <1>10 DEF Next

----------------------------------------------------------------------------

\* Whatever is left of the functions, their work is.
LEMMA WorkStays ==
    ASSUME CodeInv
    PROVE  \E K \in SUBSET Range(Kinds), tagged \in BOOLEAN : "work" \in K /\ AllOK(K, tagged)
  <1>1. /\ Range(Kinds) \in SUBSET Range(Kinds)
        /\ {"count", "icount", "work"} \in SUBSET Range(Kinds)
        /\ {"count", "work"} \in SUBSET Range(Kinds) /\ {"work"} \in SUBSET Range(Kinds)
        /\ "work" \in Range(Kinds)
    BY KindsFacts
  <1>2. \/ AllOK(Range(Kinds), FALSE) \/ AllOK({"count", "icount", "work"}, TRUE)
        \/ AllOK({"count", "work"}, TRUE) \/ AllOK({"work"}, TRUE)
    BY DEF CodeInv, Uncut, Untagged, Marking
  <1> QED
    BY <1>1, <1>2

\* The links lead to later blocks, so there is one value that satisfies the
\* equation of Runs.
LEMMA RunsAreEffects ==
    ASSUME CodeInv
    PROVE  \A s \in Starts : Runs[s] = Effects(memory, s)
  <1> DEFINE step(r, s) == IF code[s].link = None THEN Works(code[s])
                           ELSE Works(code[s]) \o r[code[s].link]
             E == [s \in Starts |-> Effects(memory, s)]
             Bad == {s \in Starts : Runs[s] # Effects(memory, s)}
  <1>1. memory \in Memories /\ Starts \subseteq Addr
    BY DEF CodeInv
  <1>0. \A s \in Starts : s \in Int
    BY <1>1, SizesAssumption DEF Addr
  <1>2. PICK K, tagged : "work" \in K /\ AllOK(K, tagged)
    BY WorkStays
  <1>3. ASSUME NEW s \in Starts
        PROVE  /\ code[s].link = None => Works(code[s]) = Effects(memory, s)
               /\ code[s].link # None => /\ code[s].link \in Starts /\ s < code[s].link
                                         /\ Works(code[s]) \o Effects(memory, code[s].link)
                                                = Effects(memory, s)
    <2>1. FunctionOK(memory, Starts, s, code[s], K, tagged) /\ s \in Addr
      BY <1>1, <1>2 DEF AllOK
    <2>2. code[s].link # None => code[s].link \in Starts /\ s < code[s].link
      BY <2>1 DEF FunctionOK, LinkOK
    <2> QED
      BY <1>1, <1>2, <2>1, <2>2, FunctionEffects
  <1>4. E = [s \in Starts |-> step(E, s)]
    <2>1. ASSUME NEW s \in Starts PROVE E[s] = step(E, s)
      BY <1>3
    <2> QED
      BY <2>1
  <1>5. Runs = [s \in Starts |-> step(Runs, s)]
    <2>1. Runs = CHOOSE r : r = [s \in Starts |-> step(r, s)]
      BY DEF Runs
    <2> HIDE DEF step, E
    <2> QED
      BY <1>4, <2>1
  <1>6. \A s \in Starts : Runs[s] = step(Runs, s)
    <2> HIDE DEF step
    <2> QED
      BY <1>5
  <1>7. ASSUME Bad # {} PROVE FALSE
    <2>1. PICK s \in Bad : \A t \in Bad : t <= s
      <3>1. Bad \subseteq Addr
        BY <1>1
      <3> HIDE DEF Bad
      <3> QED
        BY <1>7, <3>1, GreatestAddress
    <2>2. s \in Starts /\ Runs[s] # Effects(memory, s)
      BY <2>1
    <2>3. code[s].link # None
      BY <1>3, <1>6, <2>2
    <2> DEFINE t == code[s].link
    <2>4. t \in Starts /\ s < t
      BY <1>3, <2>2, <2>3
    <2>5. t \notin Bad
      <3>1. s \in Int /\ t \in Int
        BY <1>0, <2>2, <2>4
      <3> QED
        BY <2>1, <2>4, <3>1
    <2>6. Runs[t] = Effects(memory, t)
      BY <2>4, <2>5
    <2>7. Runs[s] = Works(code[s]) \o Runs[t]
      BY <1>6, <2>2, <2>3
    <2> QED
      BY <1>3, <2>2, <2>3, <2>6, <2>7
  <1> QED
    BY <1>7

\* The same of the exits.
LEMMA LeavesAtLast ==
    ASSUME CodeInv
    PROVE  \A s \in Starts : /\ Leaves[s] = LastInst(memory, s)
                             /\ code[s].exits \in {LastInst(memory, s), None}
  <1> DEFINE step(r, s) == IF code[s].link = None THEN code[s].exits ELSE r[code[s].link]
             E == [s \in Starts |-> LastInst(memory, s)]
             Bad == {s \in Starts : Leaves[s] # LastInst(memory, s)}
  <1>1. Starts \subseteq Addr
    BY DEF CodeInv
  <1>0. \A s \in Starts : s \in Int
    BY <1>1, SizesAssumption DEF Addr
  <1>2. PICK K, tagged : "work" \in K /\ AllOK(K, tagged)
    BY WorkStays
  <1>3. ASSUME NEW s \in Starts
        PROVE  /\ code[s].link = None => code[s].exits = LastInst(memory, s)
               /\ code[s].link # None => /\ code[s].link \in Starts /\ s < code[s].link
                                         /\ LastInst(memory, code[s].link) = LastInst(memory, s)
               /\ code[s].exits \in {LastInst(memory, s), None}
    BY <1>2 DEF AllOK, FunctionOK, LinkOK
  <1>4. E = [s \in Starts |-> step(E, s)]
    <2>1. ASSUME NEW s \in Starts PROVE E[s] = step(E, s)
      BY <1>3
    <2> QED
      BY <2>1
  <1>5. Leaves = [s \in Starts |-> step(Leaves, s)]
    <2>1. Leaves = CHOOSE r : r = [s \in Starts |-> step(r, s)]
      BY DEF Leaves
    <2> HIDE DEF step, E
    <2> QED
      BY <1>4, <2>1
  <1>6. \A s \in Starts : Leaves[s] = step(Leaves, s)
    <2> HIDE DEF step
    <2> QED
      BY <1>5
  <1>7. ASSUME Bad # {} PROVE FALSE
    <2>1. PICK s \in Bad : \A t \in Bad : t <= s
      <3>1. Bad \subseteq Addr
        BY <1>1
      <3> HIDE DEF Bad
      <3> QED
        BY <1>7, <3>1, GreatestAddress
    <2>2. s \in Starts /\ Leaves[s] # LastInst(memory, s)
      BY <2>1
    <2>3. code[s].link # None
      BY <1>3, <1>6, <2>2
    <2> DEFINE t == code[s].link
    <2>4. t \in Starts /\ s < t
      BY <1>3, <2>2, <2>3
    <2>5. t \notin Bad
      <3>1. s \in Int /\ t \in Int
        BY <1>0, <2>2, <2>4
      <3> QED
        BY <2>1, <2>4, <3>1
    <2>6. Leaves[t] = LastInst(memory, t)
      BY <2>4, <2>5
    <2>7. Leaves[s] = Leaves[t]
      BY <1>6, <2>2, <2>3
    <2> QED
      BY <1>3, <2>2, <2>3, <2>6, <2>7
  <1> QED
    BY <1>3, <1>7

\* The functions keep the effects of their blocks.
LEMMA EffectsKept == CodeInv => SplitKeepsEffects
  <1> SUFFICES ASSUME CodeInv PROVE SplitKeepsEffects
    OBVIOUS
  <1> QED
    BY RunsAreEffects, LeavesAtLast DEF SplitKeepsEffects, LastInst

\* Two blocks that end together, or neither at QEMU's limit.
LEMMA NothingShared ==
    ASSUME CodeInv, LinksInv, pass \in Marking, NEW s \in Starts, NEW t \in Starts, s < t,
           lastpc[s] = lastpc[t] \/ ~(AtLimit(s) \/ AtLimit(t))
    PROVE  Range(Works(code[s])) \cap Range(Works(code[t])) = {}
  <1> DEFINE w == Works(code[s])
             v == Works(code[t])
  <1>1. /\ memory \in Memories /\ s \in Addr /\ t \in Addr /\ Starts \subseteq Addr
        /\ AllOK({"work"}, TRUE) /\ EndingsInv /\ overlaps = <<>>
        /\ lastpc[s] = LastInst(memory, s) /\ lastpc[t] = LastInst(memory, t)
    BY DEF CodeInv, LinksInv, Marking
  <1>2. w = Works(code[s]) /\ v = Works(code[t])
    OBVIOUS
  <1>3. /\ FunctionOK(memory, Starts, s, code[s], {"work"}, TRUE)
        /\ FunctionOK(memory, Starts, t, code[t], {"work"}, TRUE)
        /\ "work" \in {"work"}
    BY <1>1 DEF AllOK
  <1> HIDE DEF w, v
  <1>4. /\ w \in Seq(Addr)
        /\ \A p : Has(w, p) <=> /\ p \in Range(Instructions(memory, s)) /\ memory[p].work
                                /\ code[s].link = None \/ p < code[s].link
    BY <1>1, <1>2, <1>3, WorksFacts
  <1>5. /\ v \in Seq(Addr)
        /\ \A p : Has(v, p) <=> /\ p \in Range(Instructions(memory, t)) /\ memory[p].work
                                /\ code[t].link = None \/ p < code[t].link
    BY <1>1, <1>2, <1>3, WorksFacts
  <1>6. ASSUME NEW p, p \in Range(w), p \in Range(v) PROVE FALSE
    <2>1. Has(w, p) /\ Has(v, p)
      BY <1>4, <1>5, <1>6 DEF Has, Range
    <2>2. p \in Range(Instructions(memory, s)) /\ p \in Range(Instructions(memory, t))
      BY <1>4, <1>5, <2>1
    <2>3. LastInst(memory, s) = LastInst(memory, t)
      <3>1. CASE ~(AtLimit(s) \/ AtLimit(t))
        BY <1>1, <2>2, <3>1, SharedEnd DEF AtLimit, LastInst
      <3> QED
        BY <1>1, <3>1
    <2>4. code[s].link # None /\ code[s].link \in Starts /\ code[s].link <= t
      BY <1>1, <2>3, LinkedList
    <2>5. p < code[s].link
      BY <1>4, <2>1, <2>4
    <2>6. t <= p /\ p \in Int
      BY <1>1, <2>2, BlockFacts DEF IsBlock
    <2>7. code[s].link \in Int /\ t \in Int
      BY <1>1, <2>4, SizesAssumption DEF Addr
    <2> QED
      BY <2>4, <2>5, <2>6, <2>7
  <1> QED
    BY <1>2, <1>6

\* The works of two functions are apart, whichever begins first.
LEMMA NothingTwice == CodeInv /\ LinksInv => NoInstructionTwice
  <1> SUFFICES ASSUME CodeInv, LinksInv, pass \in Marking, NEW s \in Starts, NEW t \in Starts,
                      s # t, lastpc[s] = lastpc[t] \/ ~(AtLimit(s) \/ AtLimit(t))
               PROVE  Range(Works(code[s])) \cap Range(Works(code[t])) = {}
    BY DEF NoInstructionTwice, Marking
  <1>1. s \in Int /\ t \in Int
    BY SizesAssumption DEF CodeInv, Addr
  <1>2. CASE s < t
    BY <1>2, NothingShared
  <1>3. CASE t < s
    BY <1>3, NothingShared
  <1> QED
    BY <1>1, <1>2, <1>3

\* The assertions fail on misaligned blocks only, and on all of them.
LEMMA AbortsRightly == CodeInv /\ LinksInv => AbortsIffMisaligned
  <1> SUFFICES ASSUME CodeInv, LinksInv PROVE AbortsIffMisaligned
    OBVIOUS
  <1>1. pass = "aborted" /\ overlaps # <<>> => ~Consistent
    BY DEF LinksInv
  <1>2. ASSUME pass \in Marking PROVE Consistent
    <2>1. AllOK({"work"}, TRUE) /\ EndingsInv /\ overlaps = <<>>
      BY <1>2 DEF CodeInv, LinksInv, Marking
    <2> QED
      BY <2>1, ListsConsistent
  <1> QED
    BY <1>1, <1>2 DEF AbortsIffMisaligned, Marking

\* The next pass stops on blocks without work before their cut only, and on
\* all of them.
LEMMA LosesStarts == CodeInv /\ LinksInv => StartLostIffEmpty
  <1> SUFFICES ASSUME CodeInv, LinksInv PROVE StartLostIffEmpty
    OBVIOUS
  <1>1. pass = "aborted" /\ overlaps = <<>> => \E s \in Starts : NothingBeforeCut(s)
    BY DEF LinksInv
  <1>2. ASSUME pass = "done", NEW s \in Starts PROVE ~NothingBeforeCut(s)
    <2>1. /\ AllOK({"work"}, TRUE) /\ EndingsInv /\ overlaps = <<>>
          /\ HasPCStart(code[s])
      BY <1>2 DEF CodeInv, LinksInv, Marking
    <2> QED
      BY <2>1, StartFacts
  <1> QED
    BY <1>1, <1>2 DEF StartLostIffEmpty

----------------------------------------------------------------------------
(* The theorems                                                            *)

IInv == ModuleInv /\ CodeInv /\ LinksInv

\* No pass changes which blocks there are.
LEMMA BlocksStay ==
    ASSUME ModuleInv, ModuleInv', CodeInv, [Next]_vars
    PROVE  SameBlocks
  <1>1. memory' = memory /\ DOMAIN code' = DOMAIN code
    <2>1. DOMAIN code = Starts
      BY DEF CodeInv
    <2>2. CASE RewriteFunc \/ EraseFuncs
      BY <2>2 DEF RewriteFunc, EraseFuncs
    <2>3. CASE TagInstPc
      BY <2>3 DEF TagInstPc
    <2>4. CASE RemoveExtraStoreToPC
      BY <2>1, <2>4 DEF RemoveExtraStoreToPC
    <2>5. CASE DeleteInstructionCount
      BY <2>1, <2>5 DEF DeleteInstructionCount
    <2>6. CASE FindOverlaps
      BY <2>6 DEF FindOverlaps
    <2>7. CASE TruncateFuncAndLinkWith
      BY <2>7 DEF TruncateFuncAndLinkWith
    <2>8. CASE AssertFails
      BY <2>8 DEF AssertFails
    <2>9. CASE Dce
      BY <2>1, <2>9 DEF Dce
    <2>10. CASE MarkCallStarts
      BY <2>10 DEF MarkCallStarts
    <2>11. CASE UNCHANGED vars
      BY <2>11 DEF vars
    <2> QED
      BY <2>2, <2>3, <2>4, <2>5, <2>6, <2>7, <2>8, <2>9, <2>10, <2>11 DEF Next
  <1>2. Starts = DOMAIN code
    BY DEF CodeInv
  <1>3. Starts' = DOMAIN code' /\ order' \in Seq(Addr) /\ Distinct(order')
    <2>1. CASE pass' = "transfrombbtovoid"
      <3>1. order' \in Orders /\ DOMAIN code' = Range(order')
        BY <2>1 DEF ModuleInv, RewritingInv
      <3> QED
        BY <3>1, OrderFacts DEF Starts, Distinct
    <2>2. CASE pass' # "transfrombbtovoid"
      BY <2>2 DEF ModuleInv, RewrittenInv, Starts, Distinct
    <2> QED
      BY <2>1, <2>2
  <1> QED
    BY <1>1, <1>2, <1>3 DEF SameBlocks

\* The invariant holds initially.
LEMMA InitInvariant == Init => IInv
  BY ModuleInit, StartBody DEF IInv

\* Every step keeps it.
LEMMA NextInvariant == IInv /\ [Next]_vars => IInv'
  <1> SUFFICES ASSUME IInv, [Next]_vars PROVE IInv'
    OBVIOUS
  <1>1. ModuleInv'
    BY ModuleNext DEF IInv
  <1>2. SameBlocks
    BY <1>1, BlocksStay DEF IInv
  <1>3. CodeInv' /\ LinksInv'
    BY <1>2, CodeStep DEF IInv
  <1> QED
    BY <1>1, <1>3 DEF IInv

\* TransformBBToVoid::runOnModule appends the new functions to the list it
\* goes through, and eraseFuncs drops the old ones: every block is rewritten
\* once, whatever their number and order.
THEOREM FixOverlapsRewritesOnce == Spec => []RewrittenOnce
  <1>1. Init => IInv
    BY InitInvariant
  <1>2. IInv /\ [Next]_vars => IInv'
    BY NextInvariant
  <1>3. IInv => RewrittenOnce
    BY ModuleRewritten DEF IInv
  <1> QED
    BY <1>1, <1>2, <1>3, PTL DEF Spec

\* A block has the effects it had when QEMU translated it, in order and each
\* once, and leaves through the same exits, in every state: whatever the code
\* is, however many blocks end together, and also between two cuts of
\* FixOverlappedBBs::truncateFuncAndLinkWith.
THEOREM FixOverlapsKeepsEffects == Spec => []SplitKeepsEffects
  <1>1. Init => IInv
    BY InitInvariant
  <1>2. IInv /\ [Next]_vars => IInv'
    BY NextInvariant
  <1>3. IInv => SplitKeepsEffects
    BY EffectsKept DEF IInv
  <1> QED
    BY <1>1, <1>2, <1>3, PTL DEF Spec

\* FixOverlappedBBs::runOnModule leaves no instruction with its effect in two
\* functions, unless QEMU ended one of them at its limit.
THEOREM FixOverlapsNothingTwice == Spec => []NoInstructionTwice
  <1>1. Init => IInv
    BY InitInvariant
  <1>2. IInv /\ [Next]_vars => IInv'
    BY NextInvariant
  <1>3. IInv => NoInstructionTwice
    BY NothingTwice DEF IInv
  <1> QED
    BY <1>1, <1>2, <1>3, PTL DEF Spec

\* The assertions of FixOverlappedBBs::truncateFuncAndLinkWith fail on blocks
\* that disagree on the boundaries of instructions, and on nothing else.
THEOREM FixOverlapsAbortsRightly == Spec => []AbortsIffMisaligned
  <1>1. Init => IInv
    BY InitInvariant
  <1>2. IInv /\ [Next]_vars => IInv'
    BY NextInvariant
  <1>3. IInv => AbortsIffMisaligned
    BY AbortsRightly DEF IInv
  <1> QED
    BY <1>1, <1>2, <1>3, PTL DEF Spec

\* getHexMetadataFromIns of the next pass fails exactly when a block does
\* nothing before the point where it was cut.
THEOREM FixOverlapsLosesStarts == Spec => []StartLostIffEmpty
  <1>1. Init => IInv
    BY InitInvariant
  <1>2. IInv /\ [Next]_vars => IInv'
    BY NextInvariant
  <1>3. IInv => StartLostIffEmpty
    BY LosesStarts DEF IInv
  <1> QED
    BY <1>1, <1>2, <1>3, PTL DEF Spec
================================================================================
