------------------------- MODULE HarvestPassesProofs -------------------------
(***************************************************************************)
(* Theorems about HarvestPasses, for functions of any number of basic      *)
(* blocks with any number of stores of any constants.                      *)
(***************************************************************************)
EXTENDS HarvestPasses, SeqFilterProofs, SequenceTheorems

BB == BasicBlock(Nat)
Registers == {"PC", "LR", "thumb"}

\* The stores of b the loop has seen.
Part(b, n) == [b EXCEPT !.stores = SubSeq(@, 1, n)]

-----------------------------------------------------------------------------
(* What the operators of Harvest return.                                   *)

\* There is no last constant, or it is a number.
LEMMA LastConstType ==
    ASSUME NEW b \in BB, NEW r
    PROVE  LastConst(b, r) = <<>> \/ \E v \in Nat : LastConst(b, r) = <<v>>
  <1> DEFINE T == Store(Nat)
             s == b.stores
             I == {i \in DOMAIN s : s[i].reg = r /\ s[i].val # NonConst}
             cs == KeepAt(s, I)
  <1>1. s \in Seq(T)
    BY DEF BB, BasicBlock
  <1>2. LastConst(b, r) = IF cs = <<>> THEN <<>> ELSE <<Last(cs).val>>
    BY DEF LastConst, ConstStores
  <1>3. cs \in Seq(T) /\ Range(cs) = {s[i] : i \in I \cap (1..Len(s))}
    <2> HIDE DEF T, s, I
    <2> QED
      BY <1>1, KeepAtMembers
  <1>4. CASE cs = <<>>
    BY <1>2, <1>4
  <1>5. CASE cs # <<>>
    <2> HIDE DEF cs
    <2>1. Last(cs) \in Range(cs)
      <3>1. Len(cs) \in DOMAIN cs
        BY <1>3, <1>5
      <3> QED
        BY <3>1 DEF Last, Range
    <2>2. PICK i \in I \cap (1..Len(s)) : Last(cs) = s[i]
      BY <1>3, <2>1
    <2>3. s[i] \in T /\ s[i].val # NonConst
      BY <1>1, <2>2
    <2>4. s[i].val \in Nat
      BY <2>3 DEF Store, NonConst
    <2> QED
      BY <1>2, <1>5, <2>2, <2>4
  <1> QED
    BY <1>4, <1>5

LEMMA LastConstSeq ==
    ASSUME NEW b \in BB, NEW r
    PROVE  LastConst(b, r) \in Seq(Nat) /\ Len(LastConst(b, r)) <= 1
  <1>1. CASE LastConst(b, r) = <<>>
    BY <1>1
  <1>2. ASSUME NEW v \in Nat, LastConst(b, r) = <<v>>
        PROVE  LastConst(b, r) \in Seq(Nat) /\ Len(LastConst(b, r)) <= 1
    BY <1>2
  <1> QED
    BY <1>1, <1>2, LastConstType

\* One store more: it is the last constant, or makes no difference.
LEMMA LastConstStep ==
    ASSUME NEW b \in BB, NEW n \in 1..Len(b.stores), NEW r
    PROVE  LastConst(Part(b, n), r) =
              IF b.stores[n].reg = r /\ b.stores[n].val # NonConst
              THEN <<b.stores[n].val>> ELSE LastConst(Part(b, n - 1), r)
  <1> DEFINE T == Store(Nat)
             p == SubSeq(b.stores, 1, n - 1)
             q == SubSeq(b.stores, 1, n)
             e == b.stores[n]
             I == {i \in DOMAIN p : p[i].reg = r /\ p[i].val # NonConst}
             J == {i \in DOMAIN q : q[i].reg = r /\ q[i].val # NonConst}
  <1>1. b.stores \in Seq(T) /\ b = [ret |-> b.ret, stores |-> b.stores]
    BY DEF BB, BasicBlock
  <1>2. Part(b, n).stores = q /\ Part(b, n - 1).stores = p
    BY <1>1 DEF Part
  <1>3. ConstStores(Part(b, n), r) = KeepAt(q, J)
        /\ ConstStores(Part(b, n - 1), r) = KeepAt(p, I)
    BY <1>2 DEF ConstStores
  <1>4. p \in Seq(T) /\ Len(p) = n - 1 /\ q = Append(p, e) /\ e \in T /\ n \in Nat
    <2> DEFINE s == b.stores
    <2>1. s \in Seq(T) /\ n \in 1..Len(s) /\ n - 1 \in 0..Len(s)
      BY <1>1
    <2> HIDE DEF s, T
    <2>2. SubSeq(s, 1, n - 1) \in Seq(T) /\ Len(SubSeq(s, 1, n - 1)) = n - 1
      BY <2>1, PrefixFacts
    <2>3. SubSeq(s, 1, n) = Append(SubSeq(s, 1, n - 1), s[n]) /\ s[n] \in T
      BY <2>1, PrefixFacts
    <2> QED
      BY <2>1, <2>2, <2>3 DEF s
  <1> HIDE DEF T, p, q, e
  <1>5. /\ DOMAIN p = 1..(n - 1) /\ DOMAIN q = 1..n /\ q[n] = e
        /\ \A i \in 1..(n - 1) : q[i] = p[i]
    BY <1>4
  <1>6. \A i \in 1..Len(p) : i \in I <=> i \in J
    BY <1>4, <1>5
  <1>7. Len(p) + 1 \in J <=> (e.reg = r /\ e.val # NonConst)
    BY <1>4, <1>5
  <1> HIDE DEF I, J
  <1>8. KeepAt(q, J) = IF Len(p) + 1 \in J THEN Append(KeepAt(p, I), e) ELSE KeepAt(p, I)
    <2>1. p \in Seq(T) /\ e \in T /\ \A i \in 1..Len(p) : i \in I <=> i \in J
      BY <1>4, <1>6
    <2>2. KeepAt(Append(p, e), J) =
             IF Len(p) + 1 \in J THEN Append(KeepAt(p, I), e) ELSE KeepAt(p, I)
      BY <2>1, KeepAtAppend
    <2> QED
      BY <1>4, <2>2
  <1>9. KeepAt(p, I) \in Seq(T)
    BY <1>4, KeepAtMembers
  <1>10. CASE e.reg = r /\ e.val # NonConst
    <2> DEFINE k == KeepAt(p, I)
    <2>1. KeepAt(q, J) = Append(k, e)
      BY <1>7, <1>8, <1>10
    <2> HIDE DEF k
    <2>2. Append(k, e) # <<>> /\ Last(Append(k, e)) = e
      <3>1. k \in Seq(T) /\ e \in T
        BY <1>4, <1>9 DEF k
      <3> QED
        BY <3>1 DEF Last
    <2>3. LastConst(Part(b, n), r) = <<e.val>>
      BY <1>3, <2>1, <2>2 DEF LastConst
    <2> QED
      BY <1>10, <2>3 DEF e
  <1>11. CASE ~(e.reg = r /\ e.val # NonConst)
    <2>1. KeepAt(q, J) = KeepAt(p, I)
      BY <1>7, <1>8, <1>11
    <2>2. LastConst(Part(b, n), r) = LastConst(Part(b, n - 1), r)
      BY <1>3, <2>1 DEF LastConst
    <2> QED
      BY <1>11, <2>2 DEF e
  <1> QED
    BY <1>10, <1>11

\* No store, and all of them.
LEMMA LastConstEnds ==
    ASSUME NEW b \in BB, NEW r
    PROVE  /\ LastConst(Part(b, 0), r) = <<>>
           /\ LastConst(Part(b, Len(b.stores)), r) = LastConst(b, r)
  <1>1. b.stores \in Seq(Store(Nat)) /\ b = [ret |-> b.ret, stores |-> b.stores]
    BY DEF BB, BasicBlock
  <1>2. Part(b, 0).stores = <<>> /\ Part(b, Len(b.stores)).stores = b.stores
    BY <1>1, PrefixFacts DEF Part
  <1>3. ConstStores(Part(b, 0), r) = <<>>
    BY <1>2, KeepAtEmpty DEF ConstStores
  <1>4. ConstStores(Part(b, Len(b.stores)), r) = ConstStores(b, r)
    BY <1>2 DEF ConstStores
  <1> QED
    BY <1>3, <1>4 DEF LastConst

\* What the exits of p contribute, one after the other, when each contributes
\* G of itself.
OverExits(p, G) == FlattenSeq([i \in DOMAIN Exits(p) |-> G[Exits(p)[i]]])

LEMMA ExitsFacts ==
    ASSUME NEW p \in Seq(BB)
    PROVE  /\ Exits(p) \in Seq(BB)
           /\ Exits(<<>>) = <<>>
           /\ \A b \in BB : Exits(Append(p, b)) =
                                IF b.ret THEN Append(Exits(p), b) ELSE Exits(p)
  <1>1. Exits(p) \in Seq(BB)
    BY KeepAtMembers DEF Exits
  <1>2. Exits(<<>>) = <<>>
    BY KeepAtEmpty DEF Exits
  <1>3. ASSUME NEW b \in BB
        PROVE  Exits(Append(p, b)) = IF b.ret THEN Append(Exits(p), b) ELSE Exits(p)
    <2> DEFINE q == Append(p, b)
               I == {i \in DOMAIN p : p[i].ret}
               J == {i \in DOMAIN q : q[i].ret}
               n == Len(p)
    <2>1. /\ n \in Nat /\ DOMAIN p = 1..n /\ DOMAIN q = 1..(n + 1)
          /\ q[n + 1] = b /\ \A i \in 1..n : q[i] = p[i]
      OBVIOUS
    <2>2. Exits(p) = KeepAt(p, I) /\ Exits(q) = KeepAt(q, J)
      BY DEF Exits
    <2> HIDE DEF q
    <2>3. \A i \in 1..n : i \in I <=> i \in J
      BY <2>1
    <2>4. n + 1 \in J <=> b.ret
      BY <2>1
    <2>5. KeepAt(q, J) = IF n + 1 \in J THEN Append(KeepAt(p, I), b) ELSE KeepAt(p, I)
      <3> HIDE DEF I, J
      <3> QED
        BY <2>3, KeepAtAppend DEF q
    <2> HIDE DEF I, J
    <2> QED
      BY <2>2, <2>4, <2>5 DEF q
  <1> QED
    BY <1>1, <1>2, <1>3

LEMMA OverExitsFacts ==
    ASSUME NEW p \in Seq(BB), NEW G \in [BB -> Seq(Nat)]
    PROVE  /\ OverExits(p, G) \in Seq(Nat)
           /\ OverExits(<<>>, G) = <<>>
           /\ \A b \in BB : OverExits(Append(p, b), G) =
                 IF b.ret THEN OverExits(p, G) \o G[b] ELSE OverExits(p, G)
  <1> DEFINE e == Exits(p)
             m(s) == [i \in DOMAIN s |-> G[s[i]]]
  <1>1. e \in Seq(BB)
    BY ExitsFacts
  <1>2. ASSUME NEW s \in Seq(BB) PROVE m(s) \in Seq(Seq(Nat)) /\ Len(m(s)) = Len(s)
    <2>1. m(s) \in [1..Len(s) -> Seq(Nat)] /\ Len(s) \in Nat
      OBVIOUS
    <2> HIDE DEF m
    <2> QED
      BY <2>1, FunctionIsSequence
  <1>3. OverExits(p, G) \in Seq(Nat)
    <2>1. OverExits(p, G) = FlattenSeq(m(e))
      BY DEF OverExits
    <2> HIDE DEF m, e
    <2> QED
      BY <1>1, <1>2, <2>1, FlattenMembers
  <1>4. OverExits(<<>>, G) = <<>>
    <2>1. OverExits(<<>>, G) = FlattenSeq(m(<<>>))
      BY ExitsFacts DEF OverExits
    <2>2. m(<<>>) = <<>>
      OBVIOUS
    <2> QED
      BY <2>1, <2>2 DEF FlattenSeq
  <1>5. ASSUME NEW b \in BB
        PROVE  OverExits(Append(p, b), G) =
                 IF b.ret THEN OverExits(p, G) \o G[b] ELSE OverExits(p, G)
    <2>1. CASE ~b.ret
      BY <2>1, ExitsFacts DEF OverExits
    <2>2. CASE b.ret
      <3>1. Exits(Append(p, b)) = Append(e, b)
        BY <2>2, ExitsFacts
      <3>2. m(Append(e, b)) = Append(m(e), G[b])
        <4> HIDE DEF e
        <4>1. m(Append(e, b)) = [i \in 1..(Len(e) + 1) |-> IF i = Len(e) + 1 THEN G[b] ELSE G[e[i]]]
          BY <1>1
        <4>2. Append(m(e), G[b]) = [i \in 1..(Len(e) + 1) |-> IF i = Len(e) + 1 THEN G[b] ELSE G[e[i]]]
          BY <1>1, <1>2
        <4> QED
          BY <4>1, <4>2
      <3>3. OverExits(Append(p, b), G) = FlattenSeq(m(Append(e, b)))
            /\ OverExits(p, G) = FlattenSeq(m(e))
        BY <3>1 DEF OverExits
      <3>4. m(e) \in Seq(Seq(Nat)) /\ G[b] \in Seq(Nat)
        <4> HIDE DEF m, e
        <4> QED
          BY <1>1, <1>2
      <3> HIDE DEF m, e
      <3>5. FlattenSeq(Append(m(e), G[b])) = FlattenSeq(m(e)) \o G[b]
        BY <3>4, FlattenAppend
      <3> QED
        BY <2>2, <3>2, <3>3, <3>5
    <2> QED
      BY <2>1, <2>2
  <1> QED
    BY <1>3, <1>4, <1>5

PCThenLR == [b \in BB |-> LastConst(b, "PC") \o LastConst(b, "LR")]
OnlyLR == [b \in BB |-> LastConst(b, "LR")]
OnlyThumb == [b \in BB |-> LastConst(b, "thumb")]

LEMMA PerExitTypes ==
    /\ PCThenLR \in [BB -> Seq(Nat)]
    /\ OnlyLR \in [BB -> Seq(Nat)]
    /\ OnlyThumb \in [BB -> Seq(Nat)]
  <1>1. \A b \in BB : /\ LastConst(b, "PC") \in Seq(Nat)
                     /\ LastConst(b, "LR") \in Seq(Nat)
                     /\ LastConst(b, "thumb") \in Seq(Nat)
    BY LastConstSeq
  <1>2. \A s, t \in Seq(Nat) : s \o t \in Seq(Nat)
    OBVIOUS
  <1> HIDE DEF BB
  <1> QED
    BY <1>1, <1>2 DEF PCThenLR, OnlyLR, OnlyThumb

LEMMA AnswersOverExits ==
    ASSUME NEW p \in Seq(BB)
    PROVE  /\ Targets(p) = OverExits(p, PCThenLR)
           /\ ImplicitTargets(p) = OverExits(p, OnlyLR)
           /\ ThumbBits(p) = OverExits(p, OnlyThumb)
  <1>1. \A i \in DOMAIN Exits(p) : Exits(p)[i] \in BB
    BY ExitsFacts
  <1>2. [i \in DOMAIN Exits(p) |-> PCThenLR[Exits(p)[i]]]
          = [i \in DOMAIN Exits(p) |->
                LastConst(Exits(p)[i], "PC") \o LastConst(Exits(p)[i], "LR")]
    BY <1>1 DEF PCThenLR
  <1>3. [i \in DOMAIN Exits(p) |-> OnlyLR[Exits(p)[i]]]
          = [i \in DOMAIN Exits(p) |-> LastConst(Exits(p)[i], "LR")]
    BY <1>1 DEF OnlyLR
  <1>4. [i \in DOMAIN Exits(p) |-> OnlyThumb[Exits(p)[i]]]
          = [i \in DOMAIN Exits(p) |-> LastConst(Exits(p)[i], "thumb")]
    BY <1>1 DEF OnlyThumb
  <1> QED
    BY <1>2, <1>3, <1>4 DEF OverExits, Targets, ImplicitTargets, ThumbBits

\* One basic block more: an exit adds what it stores, another adds nothing.
LEMMA AnswersStep ==
    ASSUME NEW p \in Seq(BB), NEW b \in BB
    PROVE  /\ Targets(Append(p, b)) =
                 IF b.ret THEN Targets(p) \o (LastConst(b, "PC") \o LastConst(b, "LR"))
                 ELSE Targets(p)
           /\ ImplicitTargets(Append(p, b)) =
                 IF b.ret THEN ImplicitTargets(p) \o LastConst(b, "LR")
                 ELSE ImplicitTargets(p)
           /\ ThumbBits(Append(p, b)) =
                 IF b.ret THEN ThumbBits(p) \o LastConst(b, "thumb") ELSE ThumbBits(p)
  <1>1. Append(p, b) \in Seq(BB)
    OBVIOUS
  <1>2. /\ PCThenLR[b] = LastConst(b, "PC") \o LastConst(b, "LR")
        /\ OnlyLR[b] = LastConst(b, "LR")
        /\ OnlyThumb[b] = LastConst(b, "thumb")
    BY DEF PCThenLR, OnlyLR, OnlyThumb
  <1>3. OverExits(Append(p, b), PCThenLR) =
            IF b.ret THEN OverExits(p, PCThenLR) \o PCThenLR[b] ELSE OverExits(p, PCThenLR)
    BY PerExitTypes, OverExitsFacts
  <1>4. OverExits(Append(p, b), OnlyLR) =
            IF b.ret THEN OverExits(p, OnlyLR) \o OnlyLR[b] ELSE OverExits(p, OnlyLR)
    BY PerExitTypes, OverExitsFacts
  <1>5. OverExits(Append(p, b), OnlyThumb) =
            IF b.ret THEN OverExits(p, OnlyThumb) \o OnlyThumb[b] ELSE OverExits(p, OnlyThumb)
    BY PerExitTypes, OverExitsFacts
  <1> QED
    BY <1>1, <1>2, <1>3, <1>4, <1>5, AnswersOverExits

LEMMA AnswersType ==
    ASSUME NEW p \in Seq(BB)
    PROVE  /\ Targets(p) \in Seq(Nat)
           /\ ImplicitTargets(p) \in Seq(Nat)
           /\ ThumbBits(p) \in Seq(Nat)
  <1>1. OverExits(p, PCThenLR) \in Seq(Nat)
    BY PerExitTypes, OverExitsFacts
  <1>2. OverExits(p, OnlyLR) \in Seq(Nat)
    BY PerExitTypes, OverExitsFacts
  <1>3. OverExits(p, OnlyThumb) \in Seq(Nat)
    BY PerExitTypes, OverExitsFacts
  <1> QED
    BY <1>1, <1>2, <1>3, AnswersOverExits

LEMMA AnswersEmpty ==
    Targets(<<>>) = <<>> /\ ImplicitTargets(<<>>) = <<>> /\ ThumbBits(<<>>) = <<>>
  <1>1. <<>> \in Seq(BB)
    OBVIOUS
  <1>2. OverExits(<<>>, PCThenLR) = <<>>
    BY <1>1, PerExitTypes, OverExitsFacts
  <1>3. OverExits(<<>>, OnlyLR) = <<>>
    BY <1>1, PerExitTypes, OverExitsFacts
  <1>4. OverExits(<<>>, OnlyThumb) = <<>>
    BY <1>1, PerExitTypes, OverExitsFacts
  <1> QED
    BY <1>1, <1>2, <1>3, <1>4, AnswersOverExits

\* What the whole function stores to LR is no less than what a part of it does.
LEMMA ImplicitTargetsGrow ==
    ASSUME NEW f \in Seq(BB), NEW n \in 0..Len(f)
    PROVE  Len(ImplicitTargets(SubSeq(f, 1, n))) <= Len(ImplicitTargets(f))
  <1> DEFINE N == Len(f)
             L(k) == Len(ImplicitTargets(SubSeq(f, 1, k)))
             P == {k \in 0..(N - n) : L(n) <= L(n + k)}
  <1>1. N \in Nat /\ n \in Nat /\ n <= N /\ N - n \in Nat
    OBVIOUS
  <1>2. \A k \in 0..N : SubSeq(f, 1, k) \in Seq(BB) /\ L(k) \in Nat
    <2> SUFFICES ASSUME NEW k \in 0..N PROVE SubSeq(f, 1, k) \in Seq(BB) /\ L(k) \in Nat
      OBVIOUS
    <2>1. SubSeq(f, 1, k) \in Seq(BB)
      BY PrefixFacts
    <2>2. ImplicitTargets(SubSeq(f, 1, k)) \in Seq(Nat)
      BY <2>1, AnswersType
    <2> QED
      BY <2>1, <2>2
  <1>3. \A k \in 1..N : L(k - 1) <= L(k)
    <2> SUFFICES ASSUME NEW k \in 1..N PROVE L(k - 1) <= L(k)
      OBVIOUS
    <2> DEFINE p == SubSeq(f, 1, k - 1)
               b == f[k]
    <2>1. k - 1 \in 0..N /\ SubSeq(f, 1, k) = Append(p, b) /\ b \in BB
      BY PrefixFacts
    <2>2. p \in Seq(BB)
      BY <1>2, <2>1
    <2> HIDE DEF p, b
    <2>3. ImplicitTargets(Append(p, b)) =
                 IF b.ret THEN ImplicitTargets(p) \o LastConst(b, "LR")
                 ELSE ImplicitTargets(p)
      BY <2>1, <2>2, AnswersStep
    <2>4. ImplicitTargets(p) \in Seq(Nat) /\ LastConst(b, "LR") \in Seq(Nat)
      BY <2>1, <2>2, AnswersType, LastConstSeq
    <2>5. Len(ImplicitTargets(p)) <= Len(ImplicitTargets(Append(p, b)))
      BY <2>3, <2>4
    <2> QED
      BY <2>1, <2>5 DEF p
  <1>4. SubSeq(f, 1, N) = f
    BY PrefixFacts
  <1> HIDE DEF N, L
  <1>5. 0 \in P
    BY <1>1, <1>2
  <1>6. ASSUME NEW k \in 0..(N - n), k \in P, k < N - n PROVE k + 1 \in P
    <2> DEFINE j == n + k + 1
    <2>1. j \in 1..N /\ j - 1 = n + k /\ j = n + (k + 1) /\ k + 1 \in 0..(N - n)
          /\ n + k \in 0..N /\ j \in 0..N
      BY <1>1, <1>6
    <2> HIDE DEF j
    <2>2. L(n + k) <= L(j)
      BY <1>3, <2>1
    <2>3. L(n) <= L(n + k) /\ L(n) \in Nat /\ L(n + k) \in Nat /\ L(j) \in Nat
      BY <1>1, <1>2, <1>6, <2>1
    <2>4. L(n) <= L(j)
      BY <2>2, <2>3
    <2> QED
      BY <2>1, <2>4
  <1>7. N - n \in P
    <2> DEFINE M == N - n
    <2>1. M \in Nat /\ M \in 0..M
      BY <1>1
    <2> HIDE DEF M, P
    <2>2. \A k \in 0..M : k \in P
      BY <1>5, <1>6, <2>1, SetInduction DEF M
    <2> QED
      BY <2>1, <2>2 DEF M
  <1>8. n + (N - n) = N
    BY <1>1
  <1>9. L(n) <= L(N)
    BY <1>7, <1>8
  <1> QED
    BY <1>4, <1>9 DEF L

-----------------------------------------------------------------------------
(* The loops.                                                              *)

\* The basic blocks the running pass has gone through.
Seen == SubSeq(fn, 1, bb - 1)

InExit == bb <= Len(fn) /\ fn[bb].ret

Implicit(p) == IF ImplicitTargets(p) = <<>> THEN NoTarget ELSE Head(ImplicitTargets(p))

\* The positions, and what was found so far in the exit the loop is in: of
\* another basic block no store is looked at.
PositionInv ==
    /\ bb \in 1..(Len(fn) + 1)
    /\ ins \in 1..(IF InExit THEN Len(fn[bb].stores) + 1 ELSE 1)
    /\ found \in [Registers -> Seq(Nat)]
    /\ \A r \in Registers :
          found[r] = IF r \in Watched /\ InExit THEN LastConst(Part(fn[bb], ins - 1), r)
                     ELSE <<>>

\* The answers of the first pass, for the part p of the function.
Extracted(p) ==
    /\ targetPCs = Targets(p)
    /\ implicit = Implicit(p)
    /\ Len(ImplicitTargets(p)) <= 1

IInv ==
    /\ fn \in TranslatedFunctions
    /\ pass \in {"extract", "thumb", "done", "aborted"}
    /\ Running => PositionInv
    /\ pass = "extract" => Extracted(Seen) /\ thumbBits = <<>>
    /\ pass = "thumb" => Extracted(fn) /\ thumbBits = ThumbBits(Seen)
    /\ pass = "done" => Extracted(fn) /\ thumbBits = ThumbBits(fn)
    /\ pass = "aborted" => Len(ImplicitTargets(fn)) > 1

LEMMA InitInvariant == Init => IInv
  <1> SUFFICES ASSUME Init PROVE IInv
    OBVIOUS
  <1>1. fn \in Seq(BB) /\ Len(fn) \in Nat
    BY FunctionsAssumption DEF Init, BB
  <1>2. /\ pass = "extract" /\ bb = 1 /\ ins = 1 /\ found = NothingFound
        /\ targetPCs = <<>> /\ implicit = NoTarget /\ thumbBits = <<>>
        /\ fn \in TranslatedFunctions
    BY DEF Init
  <1>3. bb - 1 = 0 /\ ins - 1 = 0
    BY <1>2
  <1>4. Seen = <<>>
    BY <1>1, <1>3, PrefixFacts DEF Seen
  <1>5. Extracted(Seen)
    BY <1>2, <1>4, AnswersEmpty DEF Extracted, Implicit
  <1>6. \A r \in Registers : InExit => LastConst(Part(fn[bb], ins - 1), r) = <<>>
    BY <1>1, <1>2, <1>3, LastConstEnds DEF InExit
  <1>7. NothingFound \in [Registers -> Seq(Nat)] /\ \A r \in Registers : NothingFound[r] = <<>>
    BY DEF NothingFound, Registers
  <1>8. ins \in 1..(IF InExit THEN Len(fn[bb].stores) + 1 ELSE 1)
    <2>1. InExit => Len(fn[bb].stores) \in Nat
      BY <1>1, <1>2 DEF InExit, BB, BasicBlock
    <2> QED
      BY <1>2, <2>1
  <1>9. PositionInv
    BY <1>1, <1>2, <1>6, <1>7, <1>8 DEF PositionInv
  <1> QED
    BY <1>2, <1>5, <1>9 DEF IInv

LEMMA RunningFacts ==
    ASSUME IInv, Running
    PROVE  /\ fn \in Seq(BB) /\ Len(fn) \in Nat /\ DOMAIN fn = 1..Len(fn)
           /\ bb \in Nat /\ bb \in 1..(Len(fn) + 1) /\ bb - 1 \in 0..Len(fn)
           /\ Seen \in Seq(BB)
           /\ bb <= Len(fn) =>
                 /\ fn[bb] \in BB /\ fn[bb].ret \in BOOLEAN
                 /\ fn[bb].stores \in Seq(Store(Nat)) /\ Len(fn[bb].stores) \in Nat
                 /\ SubSeq(fn, 1, bb) = Append(Seen, fn[bb])
           /\ bb > Len(fn) => Seen = fn
           /\ ins \in Nat /\ ins >= 1
           /\ PositionInv
  <1>1. fn \in Seq(BB) /\ Len(fn) \in Nat /\ DOMAIN fn = 1..Len(fn) /\ PositionInv
    BY FunctionsAssumption DEF IInv, BB
  <1>2. bb \in Nat /\ bb \in 1..(Len(fn) + 1) /\ bb - 1 \in 0..Len(fn)
    BY <1>1 DEF PositionInv
  <1>3. Seen \in Seq(BB)
    BY <1>1, <1>2, PrefixFacts DEF Seen
  <1>4. ASSUME bb <= Len(fn)
        PROVE  /\ fn[bb] \in BB /\ fn[bb].ret \in BOOLEAN
               /\ fn[bb].stores \in Seq(Store(Nat)) /\ Len(fn[bb].stores) \in Nat
               /\ SubSeq(fn, 1, bb) = Append(Seen, fn[bb])
    <2>1. bb \in 1..Len(fn)
      BY <1>2, <1>4
    <2>2. SubSeq(fn, 1, bb) = Append(SubSeq(fn, 1, bb - 1), fn[bb]) /\ fn[bb] \in BB
      BY <1>1, <2>1, PrefixFacts
    <2>3. fn[bb].ret \in BOOLEAN /\ fn[bb].stores \in Seq(Store(Nat))
      BY <2>2 DEF BB, BasicBlock
    <2>4. Len(fn[bb].stores) \in Nat
      BY <2>3
    <2>5. SubSeq(fn, 1, bb) = Append(Seen, fn[bb])
      BY <2>2 DEF Seen
    <2> QED
      BY <2>2, <2>3, <2>4, <2>5
  <1>5. bb > Len(fn) => Seen = fn
    <2>1. bb > Len(fn) => bb - 1 = Len(fn)
      BY <1>1, <1>2
    <2> QED
      BY <1>1, <2>1, PrefixFacts DEF Seen
  <1>6. ins \in Nat /\ ins >= 1
    <2>1. InExit => Len(fn[bb].stores) \in Nat
      BY <1>4 DEF InExit
    <2> QED
      BY <1>1, <2>1 DEF PositionInv
  <1> QED
    BY <1>1, <1>2, <1>3, <1>4, <1>5, <1>6

\* The next basic block, with nothing found in it yet.
LEMMA NextBlock ==
    ASSUME IInv, Running, bb <= Len(fn), fn' = fn, pass' = pass,
           bb' = bb + 1, ins' = 1, found' = NothingFound
    PROVE  PositionInv' /\ Seen' = Append(Seen, fn[bb])
  <1>1. Seen' = Append(Seen, fn[bb])
    <2>1. bb' - 1 = bb
      BY RunningFacts
    <2> QED
      BY <2>1, RunningFacts DEF Seen
  <1>2. bb' \in 1..(Len(fn') + 1) /\ ins' - 1 = 0
    BY RunningFacts
  <1>3. InExit' => fn[bb'] \in BB /\ Len(fn[bb'].stores) \in Nat
    <2>1. InExit' => bb' \in 1..Len(fn)
      BY <1>2, RunningFacts DEF InExit
    <2>2. InExit' => fn[bb'] \in BB
      BY <2>1, RunningFacts
    <2> QED
      BY <2>2 DEF BB, BasicBlock
  <1>4. \A r \in Registers : InExit' => LastConst(Part(fn'[bb'], ins' - 1), r) = <<>>
    BY <1>2, <1>3, LastConstEnds
  <1>5. NothingFound \in [Registers -> Seq(Nat)] /\ \A r \in Registers : NothingFound[r] = <<>>
    BY DEF NothingFound, Registers
  <1>6. ins' \in 1..(IF InExit' THEN Len(fn'[bb'].stores) + 1 ELSE 1)
    BY <1>3
  <1>7. PositionInv'
    BY <1>2, <1>4, <1>5, <1>6 DEF PositionInv
  <1> QED
    BY <1>1, <1>7

LEMMA SkipStep == ASSUME IInv, SkipBasicBlock PROVE IInv'
  <1>1. /\ Running /\ bb <= Len(fn) /\ ~fn[bb].ret /\ bb' = bb + 1
        /\ fn' = fn /\ pass' = pass /\ ins' = ins /\ found' = found
        /\ targetPCs' = targetPCs /\ implicit' = implicit /\ thumbBits' = thumbBits
    BY DEF SkipBasicBlock
  <1>2. ins = 1 /\ found = NothingFound
    <2>1. ~InExit /\ PositionInv
      BY <1>1, RunningFacts DEF InExit
    <2>2. ins = 1 /\ \A r \in Registers : found[r] = <<>>
      BY <2>1 DEF PositionInv
    <2>3. found = [r \in Registers |-> <<>>]
      BY <2>1, <2>2 DEF PositionInv
    <2> QED
      BY <2>2, <2>3 DEF NothingFound, Registers
  <1>3. PositionInv' /\ Seen' = Append(Seen, fn[bb])
    BY <1>1, <1>2, NextBlock
  <1>4. /\ Targets(Seen') = Targets(Seen)
        /\ ImplicitTargets(Seen') = ImplicitTargets(Seen)
        /\ ThumbBits(Seen') = ThumbBits(Seen)
    BY <1>1, <1>3, RunningFacts, AnswersStep
  <1>5. pass = "extract" => Extracted(Seen)'
    BY <1>1, <1>4 DEF IInv, Extracted, Implicit
  <1>6. pass = "thumb" => Extracted(fn)'
    BY <1>1 DEF IInv, Extracted
  <1> QED
    BY <1>1, <1>3, <1>4, <1>5, <1>6 DEF IInv, Running

LEMMA VisitStep == ASSUME IInv, VisitStore PROVE IInv'
  <1> DEFINE b == fn[bb]
             e == b.stores[ins]
  <1>1. /\ Running /\ bb <= Len(fn) /\ b.ret /\ ins <= Len(b.stores)
        /\ found' = IF e.reg \in Watched /\ e.val # NonConst
                    THEN [found EXCEPT ![e.reg] = <<e.val>>] ELSE found
        /\ ins' = ins + 1 /\ fn' = fn /\ pass' = pass /\ bb' = bb
        /\ targetPCs' = targetPCs /\ implicit' = implicit /\ thumbBits' = thumbBits
    BY DEF VisitStore
  <1>2. /\ b \in BB /\ ins \in 1..Len(b.stores) /\ ins' - 1 = ins
        /\ e \in Store(Nat) /\ InExit /\ PositionInv
    BY <1>1, RunningFacts DEF InExit
  <1>3. e.reg \in Registers /\ (e.val # NonConst => e.val \in Nat)
    BY <1>2 DEF Store, Registers
  <1>4. InExit' /\ Watched' = Watched /\ Seen' = Seen
    BY <1>1, <1>2 DEF InExit, Watched, Seen
  <1>5. \A r \in Registers : LastConst(Part(b, ins), r) =
              IF e.reg = r /\ e.val # NonConst THEN <<e.val>>
              ELSE LastConst(Part(b, ins - 1), r)
    BY <1>2, LastConstStep
  <1> HIDE DEF b, e
  <1>6. found' \in [Registers -> Seq(Nat)]
    BY <1>1, <1>2, <1>3 DEF PositionInv
  <1>7. \A r \in Registers :
            found'[r] = IF r \in Watched THEN LastConst(Part(b, ins), r) ELSE <<>>
    <2> SUFFICES ASSUME NEW r \in Registers
                 PROVE  found'[r] = IF r \in Watched THEN LastConst(Part(b, ins), r) ELSE <<>>
      OBVIOUS
    <2>1. found[r] = IF r \in Watched THEN LastConst(Part(b, ins - 1), r) ELSE <<>>
      BY <1>2 DEF PositionInv, b
    <2>2. found \in [Registers -> Seq(Nat)]
      BY <1>2 DEF PositionInv
    <2>3. CASE e.reg = r /\ e.reg \in Watched /\ e.val # NonConst
      BY <1>1, <1>5, <2>2, <2>3
    <2>4. CASE ~(e.reg = r /\ e.reg \in Watched /\ e.val # NonConst)
      <3>1. found'[r] = found[r]
        BY <1>1, <1>3, <2>2, <2>4
      <3> QED
        BY <1>5, <2>1, <2>4, <3>1
    <2> QED
      BY <2>3, <2>4
  <1>8. ins' \in 1..(Len(b.stores) + 1)
    BY <1>1, <1>2
  <1>9. PositionInv'
    BY <1>1, <1>2, <1>4, <1>6, <1>7, <1>8 DEF PositionInv, b
  <1>10. (pass = "extract" => Extracted(Seen)') /\ (pass = "thumb" => Extracted(fn)')
    BY <1>1, <1>4 DEF IInv, Extracted, Implicit
  <1> QED
    BY <1>1, <1>4, <1>9, <1>10 DEF IInv, Running

\* At the end of an exit all of its stores have been seen.
LEMMA EndOfExit ==
    ASSUME IInv, Running, AtEndOfExit
    PROVE  /\ bb <= Len(fn) /\ fn[bb].ret /\ fn[bb] \in BB
           /\ \A r \in Watched : found[r] = LastConst(fn[bb], r)
           /\ Targets(Append(Seen, fn[bb])) =
                 Targets(Seen) \o (LastConst(fn[bb], "PC") \o LastConst(fn[bb], "LR"))
           /\ ImplicitTargets(Append(Seen, fn[bb])) =
                 ImplicitTargets(Seen) \o LastConst(fn[bb], "LR")
           /\ ThumbBits(Append(Seen, fn[bb])) =
                 ThumbBits(Seen) \o LastConst(fn[bb], "thumb")
  <1>1. InExit /\ bb <= Len(fn) /\ fn[bb].ret /\ ins > Len(fn[bb].stores)
    BY DEF AtEndOfExit, InExit
  <1>2. fn[bb] \in BB /\ PositionInv /\ Len(fn[bb].stores) \in Nat /\ Seen \in Seq(BB)
    BY <1>1, RunningFacts
  <1>3. ins - 1 = Len(fn[bb].stores)
    <2>1. ins \in 1..(Len(fn[bb].stores) + 1)
      BY <1>1, <1>2 DEF PositionInv
    <2> QED
      BY <1>1, <1>2, <2>1
  <1>4. \A r \in Watched : r \in Registers
    BY DEF Watched, Registers
  <1>5. \A r \in Watched : found[r] = LastConst(Part(fn[bb], Len(fn[bb].stores)), r)
    BY <1>1, <1>2, <1>3, <1>4 DEF PositionInv
  <1>6. \A r \in Watched : found[r] = LastConst(fn[bb], r)
    BY <1>2, <1>5, LastConstEnds
  <1> QED
    BY <1>1, <1>2, <1>6, AnswersStep

LEMMA PushTargetsStep == ASSUME IInv, PushTargets PROVE IInv'
  <1> DEFINE b == fn[bb]
             pc == LastConst(b, "PC")
             lr == LastConst(b, "LR")
             it == ImplicitTargets(Seen)
             q == Append(Seen, b)
  <1>1. Running /\ pass = "extract" /\ AtEndOfExit /\ Watched = {"PC", "LR"}
    BY DEF PushTargets, Running, Watched
  <1>2. /\ bb <= Len(fn) /\ b \in BB
        /\ found["PC"] = pc /\ found["LR"] = lr
        /\ Targets(q) = Targets(Seen) \o (pc \o lr)
        /\ ImplicitTargets(q) = it \o lr
    BY <1>1, EndOfExit
  <1>3. /\ Seen \in Seq(BB) /\ fn \in Seq(BB) /\ bb \in 1..Len(fn) /\ bb \in 0..Len(fn)
        /\ SubSeq(fn, 1, bb) = q
    BY <1>1, <1>2, RunningFacts
  <1>4. /\ targetPCs = Targets(Seen) /\ implicit = Implicit(Seen) /\ Len(it) <= 1
        /\ thumbBits = <<>> /\ fn \in TranslatedFunctions
    BY <1>1 DEF IInv, Extracted
  <1>5. /\ Targets(Seen) \in Seq(Nat) /\ it \in Seq(Nat)
        /\ pc \in Seq(Nat) /\ lr \in Seq(Nat) /\ Len(lr) <= 1
    BY <1>2, <1>3, AnswersType, LastConstSeq
  <1>6. fn' = fn /\ thumbBits' = thumbBits /\ targetPCs' = targetPCs \o pc \o lr
    BY <1>2 DEF PushTargets
  <1>7. implicit = IF it = <<>> THEN NoTarget ELSE Head(it)
    BY <1>4 DEF Implicit
  <1> HIDE DEF b, pc, lr, it, q
  <1>8. it # <<>> => Len(it) = 1 /\ Head(it) \in Nat
    <2> SUFFICES ASSUME it # <<>> PROVE Len(it) = 1 /\ Head(it) \in Nat
      OBVIOUS
    <2>1. Len(it) \in Nat /\ Len(it) # 0
      BY <1>5
    <2>2. Head(it) \in Nat
      BY <1>5
    <2> QED
      BY <1>4, <2>1, <2>2
  <1>9. implicit # NoTarget <=> it # <<>>
    BY <1>7, <1>8 DEF NoTarget
  <1>10. CASE lr # <<>> /\ implicit # NoTarget
    <2>1. pass' = "aborted"
      BY <1>2, <1>10 DEF PushTargets
    <2>2. Len(ImplicitTargets(q)) = 2
      <3>1. Len(lr) = 1 /\ Len(it) = 1
        BY <1>5, <1>8, <1>9, <1>10
      <3>2. Len(it \o lr) = Len(it) + Len(lr)
        BY <1>5
      <3> QED
        BY <1>2, <3>1, <3>2
    <2>3. Len(ImplicitTargets(q)) <= Len(ImplicitTargets(fn))
      BY <1>3, ImplicitTargetsGrow
    <2>4. Len(ImplicitTargets(fn)) > 1
      <3>1. ImplicitTargets(fn) \in Seq(Nat)
        BY <1>3, AnswersType
      <3>2. Len(ImplicitTargets(fn)) \in Nat
        BY <3>1
      <3> QED
        BY <2>2, <2>3, <3>2
    <2> QED
      BY <1>4, <1>6, <2>1, <2>4 DEF IInv, Running
  <1>11. CASE ~(lr # <<>> /\ implicit # NoTarget)
    <2>1. /\ implicit' = IF lr = <<>> THEN implicit ELSE Head(lr)
          /\ bb' = bb + 1 /\ ins' = 1 /\ found' = NothingFound /\ pass' = pass
      BY <1>2, <1>11 DEF PushTargets
    <2>2. PositionInv' /\ Seen' = q
      BY <1>1, <1>2, <1>6, <2>1, NextBlock DEF b, q
    <2>3. targetPCs' = Targets(q)
      <3> DEFINE t == Targets(Seen)
      <3>1. t \in Seq(Nat) /\ targetPCs = t /\ targetPCs' = targetPCs \o pc \o lr
            /\ Targets(q) = t \o (pc \o lr)
        BY <1>2, <1>4, <1>5, <1>6
      <3> HIDE DEF t
      <3>2. (t \o pc) \o lr = t \o (pc \o lr)
        <4> DEFINE Z == Nat
        <4>1. t \in Seq(Z) /\ pc \in Seq(Z) /\ lr \in Seq(Z)
          BY <1>5, <3>1
        <4> HIDE DEF Z
        <4> QED
          BY <4>1, ConcatAssociative
      <3> QED
        BY <3>1, <3>2
    <2>4. ImplicitTargets(q) = (IF lr = <<>> THEN it ELSE lr)
      <3>1. CASE lr = <<>>
        BY <1>2, <1>5, <3>1
      <3>2. CASE lr # <<>>
        <4>1. it = <<>>
          BY <1>9, <1>11, <3>2
        <4> QED
          BY <1>2, <1>5, <3>2, <4>1
      <3> QED
        BY <3>1, <3>2
    <2>5. implicit' = Implicit(q) /\ Len(ImplicitTargets(q)) <= 1
      BY <1>4, <1>5, <1>7, <2>1, <2>4 DEF Implicit
    <2>6. Extracted(Seen)'
      BY <2>2, <2>3, <2>5 DEF Extracted, Implicit
    <2> QED
      BY <1>1, <1>4, <1>6, <2>1, <2>2, <2>6 DEF IInv, Running
  <1> QED
    BY <1>10, <1>11

LEMMA PushThumbBitStep == ASSUME IInv, PushThumbBit PROVE IInv'
  <1>1. Running /\ pass = "thumb" /\ AtEndOfExit /\ Watched = {"thumb"}
    BY DEF PushThumbBit, Running, Watched
  <1>2. /\ thumbBits' = thumbBits \o found["thumb"]
        /\ bb' = bb + 1 /\ ins' = 1 /\ found' = NothingFound
        /\ fn' = fn /\ pass' = pass /\ targetPCs' = targetPCs /\ implicit' = implicit
    BY DEF PushThumbBit
  <1>3. /\ bb <= Len(fn)
        /\ ThumbBits(Append(Seen, fn[bb])) = ThumbBits(Seen) \o found["thumb"]
    BY <1>1, EndOfExit
  <1>4. PositionInv' /\ Seen' = Append(Seen, fn[bb])
    BY <1>1, <1>2, <1>3, NextBlock
  <1>5. Extracted(fn)' /\ thumbBits = ThumbBits(Seen) /\ fn \in TranslatedFunctions
    BY <1>1, <1>2 DEF IInv, Extracted
  <1> QED
    BY <1>1, <1>2, <1>3, <1>4, <1>5 DEF IInv, Running

LEMMA EndOfFunctionStep == ASSUME IInv, EndOfFunction PROVE IInv'
  <1>1. /\ Running /\ bb > Len(fn) /\ bb' = 1
        /\ pass' = IF pass = "extract" THEN "thumb" ELSE "done"
        /\ fn' = fn /\ ins' = ins /\ found' = found
        /\ targetPCs' = targetPCs /\ implicit' = implicit /\ thumbBits' = thumbBits
    BY DEF EndOfFunction
  <1>2. /\ Seen = fn /\ fn \in Seq(BB) /\ Len(fn) \in Nat /\ PositionInv /\ bb \in Nat
        /\ fn \in TranslatedFunctions
    BY <1>1, RunningFacts DEF IInv
  <1>3. Extracted(fn)'
    BY <1>1, <1>2 DEF IInv, Running, Extracted
  <1>4. CASE pass = "thumb"
    BY <1>1, <1>2, <1>3, <1>4 DEF IInv, Running
  <1>5. CASE pass = "extract"
    <2>1. ~InExit
      BY <1>1, <1>2 DEF InExit
    <2>2. ins = 1 /\ found \in [Registers -> Seq(Nat)] /\ \A r \in Registers : found[r] = <<>>
      BY <1>2, <2>1 DEF PositionInv
    <2>3. bb' - 1 = 0 /\ ins' - 1 = 0
      BY <1>1, <2>2
    <2>4. Seen' = <<>>
      BY <1>1, <1>2, <2>3, PrefixFacts DEF Seen
    <2>5. InExit' => fn[1] \in BB /\ Len(fn[1].stores) \in Nat
      <3>1. InExit' => 1 \in 1..Len(fn)
        BY <1>1, <1>2 DEF InExit
      <3>2. InExit' => fn[1] \in BB
        BY <1>2, <3>1
      <3> QED
        BY <3>2 DEF BB, BasicBlock
    <2>6. \A r \in Registers : InExit' => LastConst(Part(fn'[bb'], ins' - 1), r) = <<>>
      BY <1>1, <2>3, <2>5, LastConstEnds
    <2>7. ins' \in 1..(IF InExit' THEN Len(fn'[bb'].stores) + 1 ELSE 1)
      BY <1>1, <2>2, <2>5
    <2>8. bb' \in 1..(Len(fn') + 1)
      BY <1>1, <1>2
    <2>9. PositionInv'
      BY <1>1, <2>2, <2>6, <2>7, <2>8 DEF PositionInv
    <2>10. thumbBits' = ThumbBits(Seen')
      BY <1>1, <1>5, <2>4, AnswersEmpty DEF IInv
    <2> QED
      BY <1>1, <1>2, <1>3, <1>5, <2>9, <2>10 DEF IInv, Running
  <1> QED
    BY <1>1, <1>4, <1>5 DEF Running

LEMMA NextInvariant == IInv /\ [Next]_vars => IInv'
  <1> SUFFICES ASSUME IInv, [Next]_vars PROVE IInv'
    OBVIOUS
  <1>1. CASE UNCHANGED vars
    <2>1. /\ fn' = fn /\ pass' = pass /\ bb' = bb /\ ins' = ins /\ found' = found
          /\ targetPCs' = targetPCs /\ implicit' = implicit /\ thumbBits' = thumbBits
      BY <1>1 DEF vars
    <2> QED
      BY <2>1 DEF IInv, Running, PositionInv, Extracted, Implicit, Seen, InExit, Watched
  <1> QED
    BY <1>1, SkipStep, VisitStep, PushTargetsStep, PushThumbBitStep, EndOfFunctionStep DEF Next

LEMMA IInvComputes == IInv => LoopsComputeHarvest
  <1> SUFFICES ASSUME IInv PROVE LoopsComputeHarvest
    OBVIOUS
  <1>1. ASSUME pass = "done"
        PROVE  [end |-> 0, targets |-> targetPCs, implicit |-> implicit,
                thumbBit |-> GetThumbBit, harvestable |-> TRUE] = HarvestBlock(0, fn)
    <2>1. /\ targetPCs = Targets(fn) /\ implicit = Implicit(fn)
          /\ (Len(ImplicitTargets(fn)) <= 1) = TRUE /\ thumbBits = ThumbBits(fn)
      BY <1>1 DEF IInv, Extracted
    <2>2. GetThumbBit = ThumbBit(fn)
      BY <2>1 DEF GetThumbBit, ThumbBit
    <2> QED
      BY <2>1, <2>2 DEF HarvestBlock, Implicit
  <1>2. ASSUME pass = "aborted"
        PROVE  ~HarvestBlock(0, fn).harvestable
    <2>1. Len(ImplicitTargets(fn)) > 1
      BY <1>2 DEF IInv
    <2>2. Len(ImplicitTargets(fn)) \in Nat
      <3>1. fn \in Seq(BB)
        BY FunctionsAssumption DEF IInv, BB
      <3>2. ImplicitTargets(fn) \in Seq(Nat)
        BY <3>1, AnswersType
      <3> QED
        BY <3>2
    <2>3. ~(Len(ImplicitTargets(fn)) <= 1)
      BY <2>1, <2>2
    <2> QED
      BY <2>3 DEF HarvestBlock
  <1> QED
    BY <1>1, <1>2 DEF LoopsComputeHarvest

\* While a pass runs, its answers are those of the part it went through.
THEOREM HarvestInvariant == Spec => []IInv
  <1> QED
    BY InitInvariant, NextInvariant, PTL DEF Spec

\* ExtractPossibleTargetsPass::runOnFunction and ARMGetThumbBit::runOnFunction
\* answer what Harvest says of the block, and the assertion fails exactly
\* when two exits store a constant to LR.
THEOREM HarvestComputed == Spec => []LoopsComputeHarvest
  <1> QED
    BY HarvestInvariant, IInvComputes, PTL
=============================================================================
