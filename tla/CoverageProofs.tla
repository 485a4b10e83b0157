---------------------------- MODULE CoverageProofs ----------------------------
(***************************************************************************)
(* Theorems about Coverage, for every set of logs of any length.           *)
(***************************************************************************)
EXTENDS Coverage, SeqFilterProofs

\* The interval being read, as a set of none or one.
Open == IF pc_prev = None THEN {} ELSE {<<interval_start, pc_prev>>}

\* The PCs of this log read so far.
Read == {log[i] : i \in 1..(pos - 1)}

\* One of the intervals has the PC.
Covers(I, pc) == \E iv \in I : iv[1] <= pc /\ pc <= iv[2]

\* All that the intervals have lies at most three bytes behind a PC of S.
Near(pc, S) == \E d \in 0..3 : pc - d \in S

Tight(I, S) == \A iv \in I : \A pc \in iv[1]..iv[2] : Near(pc, S)

\* An interval is open as soon as a line was read; it ends at the last one.
ScanInv ==
    phase = "scan" =>
       /\ pos = 1 <=> pc_prev = None
       /\ pc_prev # None => /\ interval_start \in Nat
                            /\ interval_start <= pc_prev
                            /\ pc_prev = log[pos - 1]
       /\ \A iv \in ToSet(found) : iv[1] <= iv[2]

\* The intervals of the current log are on their way through found and ret;
\* those of the earlier ones through intervals and ret.
Held == ToSet(ret) \cup ToSet(intervals) \cup ToSet(found)

CoverInv ==
    /\ phase # "merge" => \A pc \in logged : Covers(ToSet(intervals), pc)
    /\ phase = "scan" => \A pc \in Read : Covers(ToSet(found) \cup Open, pc)
    /\ phase = "sort" => \A pc \in ToSet(log) : Covers(ToSet(found), pc)
    /\ phase = "merge" => \A pc \in logged \cup ToSet(log) : Covers(Held, pc)

TightInv ==
    /\ phase # "merge" => Tight(ToSet(intervals), logged)
    /\ phase = "scan" => Tight(ToSet(found) \cup Open, Read)
    /\ phase = "sort" => Tight(ToSet(found), ToSet(log))
    /\ phase = "merge" => Tight(Held, logged \cup ToSet(log))

\* No interval of s starts after one of t.
Below(s, t) == \A i \in DOMAIN s : \A j \in DOMAIN t : s[i][1] <= t[j][1]

SortInv ==
    /\ SortedByStart(intervals)
    /\ phase = "merge" => /\ SortedByStart(found)
                          /\ SortedByStart(ret)
                          /\ Below(ret, intervals)
                          /\ Below(ret, found)

IInv == TypeOK /\ ScanInv /\ CoverInv /\ TightInv /\ SortInv

-----------------------------------------------------------------------------
(***************************************************************************)
(* The members of the lists.                                               *)
(***************************************************************************)

\* append adds one member.
LEMMA ToSetAppend ==
    ASSUME NEW S, NEW s \in Seq(S), NEW e \in S
    PROVE  ToSet(Append(s, e)) = ToSet(s) \cup {e}
  <1>1. /\ DOMAIN Append(s, e) = 1..Len(Append(s, e))
        /\ DOMAIN s = 1..Len(s)
    OBVIOUS
  <1> QED
    BY <1>1, AppendMembers DEF ToSet

\* + joins the members.
LEMMA ToSetConcat ==
    ASSUME NEW S, NEW s \in Seq(S), NEW t \in Seq(S)
    PROVE  ToSet(s \o t) = ToSet(s) \cup ToSet(t)
  <1> DEFINE c == s \o t
  <1>1. /\ DOMAIN c = 1..Len(c) /\ DOMAIN s = 1..Len(s) /\ DOMAIN t = 1..Len(t)
        /\ Len(c) = Len(s) + Len(t) /\ Len(s) \in Nat /\ Len(t) \in Nat
    OBVIOUS
  <1>2. \A j \in 1..Len(s) : c[j] = s[j] /\ j \in 1..Len(c)
    BY <1>1
  <1>3. \A j \in 1..Len(t) : c[Len(s) + j] = t[j] /\ Len(s) + j \in 1..Len(c)
    BY <1>1
  <1> HIDE DEF c
  <1>4. ToSet(s) \subseteq ToSet(c)
    BY <1>1, <1>2 DEF ToSet
  <1>5. ToSet(t) \subseteq ToSet(c)
    BY <1>1, <1>3 DEF ToSet
  <1>6. ASSUME NEW j \in 1..Len(c) PROVE c[j] \in ToSet(s) \cup ToSet(t)
    <2>1. CASE j \in 1..Len(s)
      BY <1>1, <1>2, <2>1 DEF ToSet
    <2>2. CASE j \notin 1..Len(s)
      <3>1. j - Len(s) \in 1..Len(t) /\ j = Len(s) + (j - Len(s))
        BY <1>1, <2>2
      <3>2. c[j] = t[j - Len(s)]
        BY <1>3, <3>1
      <3> QED
        BY <1>1, <3>1, <3>2 DEF ToSet
    <2> QED
      BY <2>1, <2>2
  <1>7. ToSet(c) \subseteq ToSet(s) \cup ToSet(t)
    BY <1>1, <1>6 DEF ToSet
  <1> QED
    BY <1>4, <1>5, <1>7 DEF c

\* pop(0) takes one member.
LEMMA ToSetTail ==
    ASSUME NEW S, NEW s \in Seq(S), s # <<>>
    PROVE  ToSet(s) = {Head(s)} \cup ToSet(Tail(s))
  <1> DEFINE t == Tail(s)
  <1>1. /\ DOMAIN s = 1..Len(s) /\ Len(s) \in Nat /\ Len(s) >= 1
        /\ t \in Seq(S) /\ Len(t) = Len(s) - 1 /\ DOMAIN t = 1..Len(t)
        /\ Head(s) = s[1]
    OBVIOUS
  <1>2. \A i \in 1..Len(t) : t[i] = s[i + 1] /\ i + 1 \in 1..Len(s)
    OBVIOUS
  <1>3. \A i \in 1..Len(s) : i = 1 \/ (i - 1 \in 1..Len(t) /\ s[i] = t[i - 1])
    OBVIOUS
  <1>4. 1 \in 1..Len(s)
    BY <1>1
  <1> HIDE DEF t
  <1>5. ToSet(t) \subseteq ToSet(s) /\ Head(s) \in ToSet(s)
    BY <1>1, <1>2, <1>4 DEF ToSet
  <1>6. ASSUME NEW i \in 1..Len(s) PROVE s[i] \in {Head(s)} \cup ToSet(t)
    <2>1. CASE i = 1
      BY <1>1, <2>1
    <2>2. CASE i # 1
      BY <1>1, <1>3, <2>2 DEF ToSet
    <2> QED
      BY <2>1, <2>2
  <1>7. ToSet(s) \subseteq {Head(s)} \cup ToSet(t)
    BY <1>1, <1>6 DEF ToSet
  <1> QED
    BY <1>5, <1>7 DEF t

\* Sorting permutes the members.
LEMMA ToSetPermute ==
    ASSUME NEW S, NEW s \in Seq(S), NEW p \in Bijection(DOMAIN s, DOMAIN s)
    PROVE  /\ [i \in DOMAIN s |-> s[p[i]]] \in Seq(S)
           /\ ToSet([i \in DOMAIN s |-> s[p[i]]]) = ToSet(s)
  <1> DEFINE t == [i \in DOMAIN s |-> s[p[i]]]
  <1>1. DOMAIN s = 1..Len(s) /\ Len(s) \in Nat
    OBVIOUS
  <1>2. /\ \A i \in DOMAIN s : p[i] \in DOMAIN s
        /\ \A j \in DOMAIN s : \E i \in DOMAIN s : p[i] = j
    BY DEF Bijection, Injection, Surjection
  <1>3. \A i \in DOMAIN s : s[i] \in S
    OBVIOUS
  <1>4. t \in [1..Len(s) -> S]
    BY <1>1, <1>2, <1>3
  <1>5. t \in Seq(S)
    BY <1>1, <1>4
  <1>6. DOMAIN t = DOMAIN s /\ \A i \in DOMAIN s : t[i] = s[p[i]]
    OBVIOUS
  <1> HIDE DEF t
  <1>7. ToSet(t) \subseteq ToSet(s)
    <2> SUFFICES ASSUME NEW i \in DOMAIN t PROVE t[i] \in ToSet(s)
      BY DEF ToSet
    <2>1. p[i] \in DOMAIN s /\ t[i] = s[p[i]]
      BY <1>2, <1>6
    <2> QED
      BY <2>1 DEF ToSet
  <1>8. ASSUME NEW j \in DOMAIN s PROVE s[j] \in ToSet(t)
    <2>1. PICK i \in DOMAIN s : p[i] = j
      BY <1>2
    <2> QED
      BY <1>6, <2>1 DEF ToSet
  <1>9. ToSet(s) \subseteq ToSet(t)
    BY <1>8 DEF ToSet
  <1> QED
    BY <1>5, <1>7, <1>9 DEF t

\* Filtering keeps the members of the set.
LEMMA ToSetKeep ==
    ASSUME NEW S, NEW s \in Seq(S), NEW T
    PROVE  Keep(s, T) \in Seq(S) /\ ToSet(Keep(s, T)) = ToSet(s) \cap T
  <1> DEFINE k == Keep(s, T)
  <1>1. /\ k \in Seq(S)
        /\ \A j \in 1..Len(k) : k[j] \in T /\ \E i \in 1..Len(s) : k[j] = s[i]
        /\ \A i \in 1..Len(s) : s[i] \in T => \E j \in 1..Len(k) : k[j] = s[i]
    BY KeepMembers
  <1> HIDE DEF k
  <1>2. DOMAIN k = 1..Len(k) /\ DOMAIN s = 1..Len(s)
    BY <1>1
  <1>3. ASSUME NEW j \in 1..Len(k) PROVE k[j] \in ToSet(s) \cap T
    BY <1>1, <1>2, <1>3 DEF ToSet
  <1>4. ASSUME NEW i \in 1..Len(s), s[i] \in T PROVE s[i] \in ToSet(k)
    <2>1. PICK j \in 1..Len(k) : k[j] = s[i]
      BY <1>1, <1>4
    <2> QED
      BY <1>2, <2>1 DEF ToSet
  <1>5. ToSet(k) \subseteq ToSet(s) \cap T
    BY <1>2, <1>3 DEF ToSet
  <1>6. ToSet(s) \cap T \subseteq ToSet(k)
    BY <1>2, <1>4 DEF ToSet
  <1> QED
    BY <1>1, <1>5, <1>6 DEF k

-----------------------------------------------------------------------------
(***************************************************************************)
(* What the steps do to the lists.                                         *)
(***************************************************************************)

\* An open interval is a pair of addresses with the start in front.
LEMMA OpenInterval ==
    ASSUME TypeOK, ScanInv, phase = "scan", pc_prev # None
    PROVE  /\ <<interval_start, pc_prev>> \in Pairs
           /\ interval_start <= pc_prev
           /\ Open = {<<interval_start, pc_prev>>}
           /\ interval_start \in Nat /\ pc_prev \in Nat
  BY DEF TypeOK, ScanInv, Open, Pairs

\* NewInterval adds the open interval.
LEMMA NewIntervalMembers ==
    ASSUME TypeOK, ScanInv, NewInterval
    PROVE  found' \in Seq(Pairs) /\ ToSet(found') = ToSet(found) \cup Open
  <1>1. <<interval_start, pc_prev>> \in Pairs /\ Open = {<<interval_start, pc_prev>>}
    BY OpenInterval DEF NewInterval
  <1>2. found \in Seq(Pairs) /\ found' = Append(found, <<interval_start, pc_prev>>)
    BY DEF TypeOK, NewInterval
  <1>3. ToSet(found') = ToSet(found) \cup {<<interval_start, pc_prev>>}
    BY <1>1, <1>2, ToSetAppend
  <1> QED
    BY <1>1, <1>2, <1>3

\* LastInterval adds it too, and no interval is dropped as meaningless.
LEMMA LastIntervalMembers ==
    ASSUME TypeOK, ScanInv, LastInterval
    PROVE  found' \in Seq(Pairs) /\ ToSet(found') = ToSet(found) \cup Open
  <1> DEFINE all == IF pc_prev = None THEN found
                    ELSE Append(found, <<interval_start, pc_prev>>)
             T == {i \in Nat \X Nat : i[1] <= i[2]}
  <1>1. all \in Seq(Pairs) /\ ToSet(all) = ToSet(found) \cup Open
    <2>1. CASE pc_prev = None
      BY <2>1 DEF TypeOK, Open
    <2>2. CASE pc_prev # None
      <3>1. <<interval_start, pc_prev>> \in Pairs /\ Open = {<<interval_start, pc_prev>>}
        BY <2>2, OpenInterval DEF LastInterval
      <3>2. found \in Seq(Pairs) /\ all = Append(found, <<interval_start, pc_prev>>)
        BY <2>2 DEF TypeOK
      <3>3. ToSet(all) = ToSet(found) \cup {<<interval_start, pc_prev>>}
        BY <3>1, <3>2, ToSetAppend
      <3> QED
        BY <3>1, <3>2, <3>3
    <2> QED
      BY <2>1, <2>2
  <1>2. found' = Keep(all, T)
    BY DEF LastInterval
  <1>3. \A iv \in ToSet(found) \cup Open : iv \in T
    <2>1. \A iv \in ToSet(found) : iv \in Pairs /\ iv[1] <= iv[2]
      <3>1. phase = "scan" /\ found \in Seq(Pairs)
        BY DEF TypeOK, LastInterval
      <3>2. \A iv \in ToSet(found) : iv[1] <= iv[2]
        BY <3>1 DEF ScanInv
      <3>3. \A iv \in ToSet(found) : iv \in Pairs
        BY <3>1 DEF ToSet
      <3> QED
        BY <3>2, <3>3
    <2>2. \A iv \in Open : iv \in Pairs /\ iv[1] <= iv[2]
      BY OpenInterval DEF LastInterval, Open
    <2> QED
      BY <2>1, <2>2 DEF Pairs
  <1> HIDE DEF all, T
  <1>4. Keep(all, T) \in Seq(Pairs) /\ ToSet(Keep(all, T)) = ToSet(all) \cap T
    BY <1>1, ToSetKeep
  <1> QED
    BY <1>1, <1>2, <1>3, <1>4

\* SortIntervals orders the intervals and keeps them all.
LEMMA SortIntervalsMembers ==
    ASSUME TypeOK, SortIntervals
    PROVE  /\ found' \in Seq(Pairs)
           /\ ToSet(found') = ToSet(found)
           /\ SortedByStart(found')
           /\ ret' = <<>> /\ ToSet(ret') = {}
  <1>1. PICK p \in Bijection(DOMAIN found, DOMAIN found) :
           /\ \A i, j \in DOMAIN found :
                 i < j => \/ found[p[i]][1] < found[p[j]][1]
                          \/ found[p[i]][1] = found[p[j]][1] /\ p[i] < p[j]
           /\ found' = [i \in DOMAIN found |-> found[p[i]]]
    BY DEF SortIntervals
  <1>2. found \in Seq(Pairs)
    BY DEF TypeOK
  <1>3. found' \in Seq(Pairs) /\ ToSet(found') = ToSet(found)
    BY <1>1, <1>2, ToSetPermute
  <1>4. \A i \in DOMAIN found : p[i] \in DOMAIN found
    BY DEF Bijection, Injection
  <1>5. \A i \in DOMAIN found : found[p[i]][1] \in Nat
    <2>1. \A j \in DOMAIN found : found[j] \in Pairs
      BY <1>2
    <2>2. \A j \in DOMAIN found : found[j][1] \in Nat
      BY <2>1 DEF Pairs
    <2> QED
      BY <1>4, <2>2
  <1>6. SortedByStart(found')
    <2> SUFFICES ASSUME NEW i \in DOMAIN found, NEW j \in DOMAIN found, i < j
                 PROVE  found[p[i]][1] <= found[p[j]][1]
      BY <1>1 DEF SortedByStart
    <2> QED
      BY <1>1, <1>5
  <1>7. ret' = <<>> /\ ToSet(ret') = {}
    BY DEF SortIntervals, ToSet
  <1> QED
    BY <1>3, <1>6, <1>7

\* MergeStep moves the smaller head, and so holds what it held.
LEMMA MergeStepMembers ==
    ASSUME TypeOK, MergeStep
    PROVE  /\ ret' \in Seq(Pairs) /\ intervals' \in Seq(Pairs) /\ found' \in Seq(Pairs)
           /\ Held' = Held
  <1>1. /\ ret \in Seq(Pairs) /\ intervals \in Seq(Pairs) /\ found \in Seq(Pairs)
        /\ intervals # <<>> /\ found # <<>>
    BY DEF TypeOK, MergeStep
  <1>2. Head(intervals) \in Pairs /\ Head(found) \in Pairs
    BY <1>1
  <1>3. /\ ToSet(intervals) = {Head(intervals)} \cup ToSet(Tail(intervals))
        /\ ToSet(found) = {Head(found)} \cup ToSet(Tail(found))
    BY <1>1, ToSetTail
  <1>4. /\ ToSet(Append(ret, Head(intervals))) = ToSet(ret) \cup {Head(intervals)}
        /\ ToSet(Append(ret, Head(found))) = ToSet(ret) \cup {Head(found)}
    BY <1>1, <1>2, ToSetAppend
  <1>5. CASE PairLess(Head(intervals), Head(found))
    <2>1. /\ ret' = Append(ret, Head(intervals))
          /\ intervals' = Tail(intervals) /\ found' = found
      BY <1>5 DEF MergeStep
    <2>2. ret' \in Seq(Pairs) /\ intervals' \in Seq(Pairs) /\ found' \in Seq(Pairs)
      BY <1>1, <1>2, <2>1
    <2> QED
      BY <1>3, <1>4, <2>1, <2>2 DEF Held
  <1>6. CASE ~PairLess(Head(intervals), Head(found))
    <2>1. ret' = Append(ret, Head(found)) /\ found' = Tail(found) /\ intervals' = intervals
      BY <1>6 DEF MergeStep
    <2>2. ret' \in Seq(Pairs) /\ intervals' \in Seq(Pairs) /\ found' \in Seq(Pairs)
      BY <1>1, <1>2, <2>1
    <2> QED
      BY <1>3, <1>4, <2>1, <2>2 DEF Held
  <1> QED
    BY <1>5, <1>6

\* EndMerge leaves all of it in intervals.
LEMMA EndMergeMembers ==
    ASSUME TypeOK, EndMerge
    PROVE  intervals' \in Seq(Pairs) /\ ToSet(intervals') = Held
  <1>1. /\ ret \in Seq(Pairs) /\ intervals \in Seq(Pairs) /\ found \in Seq(Pairs)
        /\ intervals' = (ret \o intervals) \o found
    BY DEF TypeOK, EndMerge
  <1>2. ret \o intervals \in Seq(Pairs)
    BY <1>1
  <1>3. ToSet(ret \o intervals) = ToSet(ret) \cup ToSet(intervals)
    BY <1>1, ToSetConcat
  <1>4. ToSet((ret \o intervals) \o found) = ToSet(ret \o intervals) \cup ToSet(found)
    <2> DEFINE a == ret \o intervals
    <2>1. a \in Seq(Pairs) /\ found \in Seq(Pairs)
      BY <1>1, <1>2
    <2> HIDE DEF a
    <2>2. ToSet(a \o found) = ToSet(a) \cup ToSet(found)
      BY <2>1, ToSetConcat
    <2> QED
      BY <2>2 DEF a
  <1>5. intervals' \in Seq(Pairs)
    BY <1>1, <1>2
  <1> QED
    BY <1>1, <1>3, <1>4, <1>5 DEF Held

-----------------------------------------------------------------------------
(***************************************************************************)
(* Each part of the invariant is kept by every step.                       *)
(***************************************************************************)

\* The types.
LEMMA TypeStep == TypeOK /\ ScanInv /\ [Next]_vars => TypeOK'
  <1> SUFFICES ASSUME TypeOK, ScanInv, [Next]_vars PROVE TypeOK'
    OBVIOUS
  <1>1. CASE ExtendWithQemuLog
    <2>1. log' \in Seq(Nat)
      BY <1>1, LogsAssumption DEF ExtendWithQemuLog
    <2>2. pos' \in 1..(Len(log') + 1) /\ runs' \in 0..MaxLogs
      BY <1>1, <2>1, LogsAssumption DEF ExtendWithQemuLog, TypeOK
    <2>3. found' \in Seq(Pairs)
      BY <1>1 DEF ExtendWithQemuLog
    <2> QED
      BY <1>1, <2>1, <2>2, <2>3 DEF ExtendWithQemuLog, TypeOK
  <1>2. CASE FirstPC
    <2>1. log[pos] \in Nat /\ pos + 1 \in 1..(Len(log) + 1)
      BY <1>2 DEF FirstPC, TypeOK
    <2> QED
      BY <1>2, <2>1 DEF FirstPC, TypeOK
  <1>3. CASE ExpandInterval
    <2>1. log[pos] \in Nat /\ pos + 1 \in 1..(Len(log) + 1)
      BY <1>3 DEF ExpandInterval, TypeOK
    <2> QED
      BY <1>3, <2>1 DEF ExpandInterval, TypeOK
  <1>4. CASE NewInterval
    <2>1. log[pos] \in Nat /\ pos + 1 \in 1..(Len(log) + 1)
      <3>1. log \in Seq(Nat) /\ pos \in 1..(Len(log) + 1) /\ pos <= Len(log)
        BY <1>4 DEF NewInterval, TypeOK
      <3> QED
        BY <3>1
    <2>2. found' \in Seq(Pairs)
      BY <1>4, NewIntervalMembers
    <2> QED
      BY <1>4, <2>1, <2>2 DEF NewInterval, TypeOK
  <1>5. CASE LastInterval
    <2>1. found' \in Seq(Pairs)
      BY <1>5, LastIntervalMembers
    <2> QED
      BY <1>5, <2>1 DEF LastInterval, TypeOK
  <1>6. CASE SortIntervals
    <2>1. found' \in Seq(Pairs) /\ ret' \in Seq(Pairs)
      BY <1>6, SortIntervalsMembers
    <2> QED
      BY <1>6, <2>1 DEF SortIntervals, TypeOK
  <1>7. CASE MergeStep
    <2>1. ret' \in Seq(Pairs) /\ intervals' \in Seq(Pairs) /\ found' \in Seq(Pairs)
      BY <1>7, MergeStepMembers
    <2> QED
      BY <1>7, <2>1 DEF MergeStep, TypeOK
  <1>8. CASE EndMerge
    <2>1. intervals' \in Seq(Pairs)
      BY <1>8, EndMergeMembers
    <2>2. logged' \subseteq Nat
      <3>1. \A i \in DOMAIN log : log[i] \in Nat
        BY DEF TypeOK
      <3> QED
        BY <1>8, <3>1 DEF EndMerge, TypeOK
    <2>3. found' \in Seq(Pairs) /\ ret' \in Seq(Pairs)
      BY <1>8 DEF EndMerge
    <2> QED
      BY <1>8, <2>1, <2>2, <2>3 DEF EndMerge, TypeOK
  <1>9. CASE UNCHANGED vars
    BY <1>9 DEF vars, TypeOK
  <1> QED
    BY <1>1, <1>2, <1>3, <1>4, <1>5, <1>6, <1>7, <1>8, <1>9 DEF Next

\* The interval being read.
LEMMA ScanStep == TypeOK /\ ScanInv /\ [Next]_vars => ScanInv'
  <1> SUFFICES ASSUME TypeOK, ScanInv, [Next]_vars PROVE ScanInv'
    OBVIOUS
  <1>1. CASE ExtendWithQemuLog
    BY <1>1 DEF ExtendWithQemuLog, ScanInv, ToSet
  <1>2. CASE FirstPC
    <2>1. log[pos] \in Nat /\ log' = log /\ pos' - 1 = pos /\ pos \in Nat /\ pos >= 1
      <3>1. /\ log \in Seq(Nat) /\ pos \in 1..(Len(log) + 1) /\ pos <= Len(log)
            /\ log' = log /\ pos' = pos + 1
        BY <1>2 DEF FirstPC, TypeOK
      <3> QED
        BY <3>1
    <2> QED
      BY <1>2, <2>1 DEF FirstPC, ScanInv, None
  <1>3. CASE ExpandInterval
    <2>1. log[pos] \in Nat /\ log' = log /\ pos' - 1 = pos /\ pos \in Nat /\ pos >= 1
      <3>1. /\ log \in Seq(Nat) /\ pos \in 1..(Len(log) + 1) /\ pos <= Len(log)
            /\ log' = log /\ pos' = pos + 1
        BY <1>3 DEF ExpandInterval, TypeOK
      <3> QED
        BY <3>1
    <2>2. interval_start \in Nat /\ interval_start <= pc_prev /\ pc_prev \in Nat
      BY <1>3, OpenInterval DEF ExpandInterval
    <2>3. interval_start <= log[pos]
      BY <1>3, <2>1, <2>2 DEF ExpandInterval, Follows
    <2> QED
      BY <1>3, <2>1, <2>2, <2>3 DEF ExpandInterval, ScanInv, None
  <1>4. CASE NewInterval
    <2>1. log[pos] \in Nat /\ log' = log /\ pos' - 1 = pos /\ pos \in Nat /\ pos >= 1
      <3>1. /\ log \in Seq(Nat) /\ pos \in 1..(Len(log) + 1) /\ pos <= Len(log)
            /\ log' = log /\ pos' = pos + 1
        BY <1>4 DEF NewInterval, TypeOK
      <3> QED
        BY <3>1
    <2>2. \A iv \in ToSet(found') : iv[1] <= iv[2]
      <3>1. interval_start <= pc_prev /\ Open = {<<interval_start, pc_prev>>}
        BY <1>4, OpenInterval DEF NewInterval
      <3>2. \A iv \in ToSet(found) : iv[1] <= iv[2]
        BY <1>4 DEF NewInterval, ScanInv
      <3> QED
        BY <1>4, <3>1, <3>2, NewIntervalMembers
    <2>3. pc_prev' = log[pos] /\ interval_start' = log[pos] /\ pos' = pos + 1
      BY <1>4 DEF NewInterval
    <2>4. pos' # 1 /\ pc_prev' # None /\ pc_prev' = log'[pos' - 1]
      BY <2>1, <2>3 DEF None
    <2>5. interval_start' \in Nat /\ interval_start' <= pc_prev'
      BY <2>1, <2>3
    <2> QED
      BY <2>2, <2>4, <2>5 DEF ScanInv
  <1>5. CASE LastInterval \/ SortIntervals \/ MergeStep \/ EndMerge
    BY <1>5 DEF LastInterval, SortIntervals, MergeStep, EndMerge, ScanInv
  <1>6. CASE UNCHANGED vars
    BY <1>6 DEF vars, ScanInv
  <1> QED
    BY <1>1, <1>2, <1>3, <1>4, <1>5, <1>6 DEF Next

\* A line more.
LEMMA ReadLine ==
    ASSUME TypeOK, pos' = pos + 1, log' = log
    PROVE  Read' = Read \cup {log[pos]}
  <1>1. pos \in Nat /\ pos >= 1
    BY DEF TypeOK
  <1>2. 1..(pos' - 1) = 1..(pos - 1) \cup {pos}
    BY <1>1
  <1>3. {log[i] : i \in 1..(pos - 1) \cup {pos}} = {log[i] : i \in 1..(pos - 1)} \cup {log[pos]}
    OBVIOUS
  <1> QED
    BY <1>2, <1>3 DEF Read

\* At the end of the log it is read.
LEMMA ReadAll ==
    ASSUME TypeOK, pos > Len(log)
    PROVE  Read = ToSet(log)
  <1>1. pos - 1 = Len(log) /\ DOMAIN log = 1..Len(log)
    BY DEF TypeOK
  <1> QED
    BY <1>1 DEF Read, ToSet

\* A reader of a new log has read nothing.
LEMMA ReadNothing ==
    ASSUME pos = 1
    PROVE  Read = {}
  <1>1. 1..(pos - 1) = {}
    OBVIOUS
  <1> QED
    BY <1>1 DEF Read

\* What was read is an address.
LEMMA ReadNat ==
    ASSUME TypeOK
    PROVE  Read \subseteq Nat
  <1>1. \A i \in 1..(pos - 1) : log[i] \in Nat
    BY DEF TypeOK
  <1> QED
    BY <1>1 DEF Read

\* The next PC is an address.
LEMMA NextPC ==
    ASSUME TypeOK, pos <= Len(log)
    PROVE  log[pos] \in Nat
  BY DEF TypeOK

\* More intervals have at least as much.
LEMMA CoversMore ==
    ASSUME NEW I, NEW J, NEW pc, Covers(I, pc), I \subseteq J
    PROVE  Covers(J, pc)
  BY DEF Covers

\* An interval has its PCs.
LEMMA CoversOwn ==
    ASSUME NEW I, NEW a \in Nat, NEW b \in Nat, NEW pc \in Nat, a <= pc, pc <= b
    PROVE  Covers(I \cup {<<a, b>>}, pc)
  <1>1. <<a, b>> \in I \cup {<<a, b>>} /\ <<a, b>>[1] = a /\ <<a, b>>[2] = b
    OBVIOUS
  <1> QED
    BY <1>1 DEF Covers

\* An interval that is expanded keeps its PCs.
LEMMA CoversWider ==
    ASSUME NEW I, NEW a \in Nat, NEW b \in Nat, NEW c \in Nat, NEW pc \in Nat,
           b <= c, Covers(I \cup {<<a, b>>}, pc)
    PROVE  Covers(I \cup {<<a, c>>}, pc)
  <1>1. PICK iv \in I \cup {<<a, b>>} : iv[1] <= pc /\ pc <= iv[2]
    BY DEF Covers
  <1>2. CASE iv \in I
    BY <1>1, <1>2 DEF Covers
  <1>3. CASE iv = <<a, b>>
    <2>1. a <= pc /\ pc <= c
      BY <1>1, <1>3
    <2> QED
      BY <2>1, CoversOwn
  <1> QED
    BY <1>1, <1>2, <1>3

\* What was logged stays covered.
LEMMA CoverStep == TypeOK /\ ScanInv /\ CoverInv /\ [Next]_vars => CoverInv'
  <1> SUFFICES ASSUME TypeOK, ScanInv, CoverInv, [Next]_vars PROVE CoverInv'
    OBVIOUS
  <1>1. CASE ExtendWithQemuLog
    <2>1. pos' = 1 /\ phase' = "scan" /\ intervals' = intervals /\ logged' = logged
      BY <1>1 DEF ExtendWithQemuLog
    <2>2. Read' = {}
      <3>1. 1..(pos' - 1) = {}
        BY <2>1
      <3> QED
        BY <3>1 DEF Read
    <2>3. \A pc \in logged : Covers(ToSet(intervals), pc)
      BY <1>1 DEF ExtendWithQemuLog, CoverInv
    <2> QED
      BY <2>1, <2>2, <2>3 DEF CoverInv
  <1>2. CASE FirstPC
    <2>1. Read' = Read \cup {log[pos]} /\ log[pos] \in Nat /\ Read = {}
      BY <1>2, ReadLine, ReadNothing, NextPC DEF FirstPC, ScanInv
    <2>2. Open' = {<<log[pos], log[pos]>>}
      BY <1>2, <2>1 DEF FirstPC, Open, None
    <2>3. Covers(ToSet(found)' \cup Open', log[pos])
      <3>1. log[pos] <= log[pos]
        BY <2>1
      <3>2. Covers(ToSet(found)' \cup {<<log[pos], log[pos]>>}, log[pos])
        BY <2>1, <3>1, CoversOwn
      <3> QED
        BY <2>2, <3>2
    <2>4. \A pc \in Read' : Covers(ToSet(found)' \cup Open', pc)
      BY <2>1, <2>3
    <2>5. \A pc \in logged : Covers(ToSet(intervals), pc)
      BY <1>2 DEF FirstPC, CoverInv
    <2> QED
      BY <1>2, <2>4, <2>5 DEF FirstPC, CoverInv
  <1>3. CASE ExpandInterval
    <2>1. Read' = Read \cup {log[pos]} /\ log[pos] \in Nat
      BY <1>3, ReadLine, NextPC DEF ExpandInterval
    <2>2. /\ Open = {<<interval_start, pc_prev>>} /\ interval_start <= pc_prev
          /\ interval_start \in Nat /\ pc_prev \in Nat
      BY <1>3, OpenInterval DEF ExpandInterval
    <2>3. Open' = {<<interval_start, log[pos]>>} /\ pc_prev <= log[pos]
      BY <1>3, <2>1, <2>2 DEF ExpandInterval, Follows, Open, None
    <2>4. \A pc \in Read : Covers(ToSet(found) \cup Open, pc)
      BY <1>3 DEF ExpandInterval, CoverInv
    <2>5. \A pc \in Read : Covers(ToSet(found) \cup Open', pc)
      BY <2>1, <2>2, <2>3, <2>4, ReadNat, CoversWider
    <2>6. Covers(ToSet(found) \cup Open', log[pos])
      <3>1. interval_start <= log[pos] /\ log[pos] <= log[pos]
        BY <2>1, <2>2, <2>3
      <3>2. Covers(ToSet(found) \cup {<<interval_start, log[pos]>>}, log[pos])
        BY <2>1, <2>2, <3>1, CoversOwn
      <3> QED
        BY <2>3, <3>2
    <2>7. \A pc \in logged : Covers(ToSet(intervals), pc)
      BY <1>3 DEF ExpandInterval, CoverInv
    <2> QED
      BY <1>3, <2>1, <2>5, <2>6, <2>7 DEF ExpandInterval, CoverInv
  <1>4. CASE NewInterval
    <2>1. Read' = Read \cup {log[pos]} /\ log[pos] \in Nat
      BY <1>4, ReadLine, NextPC DEF NewInterval
    <2>2. ToSet(found') = ToSet(found) \cup Open
      BY <1>4, NewIntervalMembers
    <2>3. Open' = {<<log[pos], log[pos]>>}
      BY <1>4, <2>1 DEF NewInterval, Open, None
    <2>4. \A pc \in Read : Covers(ToSet(found) \cup Open, pc)
      BY <1>4 DEF NewInterval, CoverInv
    <2>5. \A pc \in Read' : Covers(ToSet(found') \cup Open', pc)
      <3>1. Covers(ToSet(found') \cup Open', log[pos])
        <4>1. log[pos] <= log[pos]
          BY <2>1
        <4>2. Covers(ToSet(found') \cup {<<log[pos], log[pos]>>}, log[pos])
          BY <2>1, <4>1, CoversOwn
        <4> QED
          BY <2>3, <4>2
      <3>2. \A pc \in Read : Covers(ToSet(found') \cup Open', pc)
        BY <2>2, <2>4, CoversMore
      <3> QED
        BY <2>1, <3>1, <3>2
    <2>6. \A pc \in logged : Covers(ToSet(intervals), pc)
      BY <1>4 DEF NewInterval, CoverInv
    <2> QED
      BY <1>4, <2>5, <2>6 DEF NewInterval, CoverInv
  <1>5. CASE LastInterval
    <2>1. ToSet(found') = ToSet(found) \cup Open /\ Read = ToSet(log)
      BY <1>5, LastIntervalMembers, ReadAll DEF LastInterval
    <2>2. \A pc \in ToSet(log) : Covers(ToSet(found'), pc)
      BY <1>5, <2>1 DEF LastInterval, CoverInv
    <2>3. \A pc \in logged : Covers(ToSet(intervals), pc)
      BY <1>5 DEF LastInterval, CoverInv
    <2> QED
      BY <1>5, <2>2, <2>3 DEF LastInterval, CoverInv
  <1>6. CASE SortIntervals
    <2>1. ToSet(found') = ToSet(found)
      BY <1>6, SortIntervalsMembers
    <2>2. /\ \A pc \in logged : Covers(ToSet(intervals), pc)
          /\ \A pc \in ToSet(log) : Covers(ToSet(found), pc)
      BY <1>6 DEF SortIntervals, CoverInv
    <2>3. /\ intervals' = intervals /\ logged' = logged /\ log' = log
          /\ phase' = "merge"
      BY <1>6 DEF SortIntervals
    <2>4. ToSet(intervals) \subseteq Held' /\ ToSet(found) \subseteq Held'
      BY <2>1, <2>3 DEF Held
    <2>5. \A pc \in logged \cup ToSet(log) : Covers(Held', pc)
      BY <2>2, <2>4 DEF Covers
    <2> QED
      BY <2>3, <2>5 DEF CoverInv
  <1>7. CASE MergeStep
    <2>1. Held' = Held
      BY <1>7, MergeStepMembers
    <2> QED
      BY <1>7, <2>1 DEF MergeStep, CoverInv
  <1>8. CASE EndMerge
    <2>1. ToSet(intervals') = Held
      BY <1>8, EndMergeMembers
    <2>2. logged' = logged \cup ToSet(log)
      BY <1>8 DEF EndMerge, ToSet
    <2>3. \A pc \in logged' : Covers(ToSet(intervals'), pc)
      BY <1>8, <2>1, <2>2 DEF EndMerge, CoverInv
    <2> QED
      BY <1>8, <2>3 DEF EndMerge, CoverInv
  <1>9. CASE UNCHANGED vars
    BY <1>9 DEF vars, CoverInv, Read, Open, Held
  <1> QED
    BY <1>1, <1>2, <1>3, <1>4, <1>5, <1>6, <1>7, <1>8, <1>9 DEF Next

\* Tight is about each interval, and grows with the PCs.
LEMMA TightParts ==
    ASSUME NEW I, NEW J, NEW S
    PROVE  Tight(I \cup J, S) <=> Tight(I, S) /\ Tight(J, S)
  BY DEF Tight

LEMMA TightMore ==
    ASSUME NEW I, NEW S, NEW R, S \subseteq R, Tight(I, S)
    PROVE  Tight(I, R)
  BY DEF Tight, Near

\* An interval of one PC.
LEMMA TightPoint ==
    ASSUME NEW a \in Nat, NEW S, a \in S
    PROVE  Tight({<<a, a>>}, S)
  <1> SUFFICES ASSUME NEW pc \in a..a PROVE Near(pc, S)
    BY DEF Tight
  <1>1. pc - 0 = a /\ 0 \in 0..3
    OBVIOUS
  <1> QED
    BY <1>1 DEF Near

\* An interval that the next instruction expands.
LEMMA TightWider ==
    ASSUME NEW a \in Nat, NEW b \in Nat, NEW c \in Nat, NEW S,
           b \in S, c \in S, Follows(c, b), Tight({<<a, b>>}, S)
    PROVE  Tight({<<a, c>>}, S)
  <1> SUFFICES ASSUME NEW pc \in a..c PROVE Near(pc, S)
    BY DEF Tight
  <1>1. CASE pc <= b
    <2>1. pc \in a..b
      BY <1>1
    <2> QED
      BY <2>1 DEF Tight
  <1>2. CASE pc = c
    <2>1. pc - 0 = c /\ 0 \in 0..3
      BY <1>2
    <2> QED
      BY <2>1 DEF Near
  <1>3. CASE ~(pc <= b) /\ pc # c
    <2>1. pc - b \in 0..3 /\ pc - (pc - b) = b
      BY <1>3 DEF Follows
    <2> QED
      BY <2>1 DEF Near
  <1> QED
    BY <1>1, <1>2, <1>3

\* An interval never comes to have more than the instructions logged.
LEMMA TightStep == TypeOK /\ ScanInv /\ TightInv /\ [Next]_vars => TightInv'
  <1> SUFFICES ASSUME TypeOK, ScanInv, TightInv, [Next]_vars PROVE TightInv'
    OBVIOUS
  <1>1. CASE ExtendWithQemuLog
    <2>1. /\ phase' = "scan" /\ intervals' = intervals /\ logged' = logged
          /\ found' = <<>> /\ pc_prev' = None /\ phase = "idle"
      BY <1>1 DEF ExtendWithQemuLog
    <2>2. ToSet(found') \cup Open' = {}
      BY <2>1 DEF ToSet, Open
    <2>3. Tight(ToSet(found') \cup Open', Read')
      BY <2>2 DEF Tight
    <2>4. Tight(ToSet(intervals), logged)
      BY <2>1 DEF TightInv
    <2> QED
      BY <2>1, <2>3, <2>4 DEF TightInv
  <1>2. CASE FirstPC
    <2>1. Read' = Read \cup {log[pos]} /\ log[pos] \in Nat
      BY <1>2, ReadLine, NextPC DEF FirstPC
    <2>2. Open = {} /\ Open' = {<<log[pos], log[pos]>>}
      BY <1>2, <2>1 DEF FirstPC, Open, None
    <2>3. Tight(ToSet(found) \cup Open, Read) /\ Tight(ToSet(intervals), logged)
      BY <1>2 DEF FirstPC, TightInv
    <2>4. Tight(ToSet(found), Read')
      BY <2>1, <2>3, TightParts, TightMore
    <2>5. Tight(Open', Read')
      BY <2>1, <2>2, TightPoint
    <2>6. Tight(ToSet(found) \cup Open', Read')
      BY <2>4, <2>5, TightParts
    <2> QED
      BY <1>2, <2>3, <2>6 DEF FirstPC, TightInv
  <1>3. CASE ExpandInterval
    <2>1. Read' = Read \cup {log[pos]} /\ log[pos] \in Nat
      BY <1>3, ReadLine, NextPC DEF ExpandInterval
    <2>2. /\ Open = {<<interval_start, pc_prev>>}
          /\ interval_start \in Nat /\ pc_prev \in Nat
      BY <1>3, OpenInterval DEF ExpandInterval
    <2>3. Open' = {<<interval_start, log[pos]>>} /\ Follows(log[pos], pc_prev)
      BY <1>3, <2>1 DEF ExpandInterval, Open, None
    <2>4. Tight(ToSet(found) \cup Open, Read) /\ Tight(ToSet(intervals), logged)
      BY <1>3 DEF ExpandInterval, TightInv
    <2>5. pc_prev \in Read
      <3>1. pos # 1 /\ pc_prev = log[pos - 1] /\ pos \in Nat /\ pos >= 1
        BY <1>3 DEF ExpandInterval, ScanInv, TypeOK
      <3>2. pos - 1 \in 1..(pos - 1)
        BY <3>1
      <3> QED
        BY <3>1, <3>2 DEF Read
    <2>6. Tight(ToSet(found), Read') /\ Tight({<<interval_start, pc_prev>>}, Read')
      BY <2>1, <2>2, <2>4, TightParts, TightMore
    <2>7. Tight({<<interval_start, log[pos]>>}, Read')
      BY <2>1, <2>2, <2>3, <2>5, <2>6, TightWider
    <2>8. Tight(ToSet(found) \cup Open', Read')
      BY <2>3, <2>6, <2>7, TightParts
    <2> QED
      BY <1>3, <2>4, <2>8 DEF ExpandInterval, TightInv
  <1>4. CASE NewInterval
    <2>1. Read' = Read \cup {log[pos]} /\ log[pos] \in Nat
      BY <1>4, ReadLine, NextPC DEF NewInterval
    <2>2. ToSet(found') = ToSet(found) \cup Open
      BY <1>4, NewIntervalMembers
    <2>3. Open' = {<<log[pos], log[pos]>>}
      BY <1>4, <2>1 DEF NewInterval, Open, None
    <2>4. Tight(ToSet(found) \cup Open, Read) /\ Tight(ToSet(intervals), logged)
      BY <1>4 DEF NewInterval, TightInv
    <2>5. Tight(ToSet(found'), Read')
      BY <2>1, <2>2, <2>4, TightMore
    <2>6. Tight(Open', Read')
      BY <2>1, <2>3, TightPoint
    <2>7. Tight(ToSet(found') \cup Open', Read')
      BY <2>5, <2>6, TightParts
    <2> QED
      BY <1>4, <2>4, <2>7 DEF NewInterval, TightInv
  <1>5. CASE LastInterval
    <2>1. ToSet(found') = ToSet(found) \cup Open /\ Read = ToSet(log)
      BY <1>5, LastIntervalMembers, ReadAll DEF LastInterval
    <2>2. Tight(ToSet(found'), ToSet(log)) /\ Tight(ToSet(intervals), logged)
      BY <1>5, <2>1 DEF LastInterval, TightInv
    <2> QED
      BY <1>5, <2>2 DEF LastInterval, TightInv
  <1>6. CASE SortIntervals
    <2>1. ToSet(found') = ToSet(found) /\ ToSet(ret') = {}
      BY <1>6, SortIntervalsMembers
    <2>2. Tight(ToSet(intervals), logged) /\ Tight(ToSet(found), ToSet(log))
      BY <1>6 DEF SortIntervals, TightInv
    <2>3. /\ intervals' = intervals /\ logged' = logged /\ log' = log
          /\ phase' = "merge"
      BY <1>6 DEF SortIntervals
    <2>4. Held' = ToSet(intervals) \cup ToSet(found)
      BY <2>1, <2>3 DEF Held
    <2>5. /\ Tight(ToSet(intervals), logged \cup ToSet(log))
          /\ Tight(ToSet(found), logged \cup ToSet(log))
      BY <2>2, TightMore
    <2>6. Tight(Held', logged \cup ToSet(log))
      BY <2>4, <2>5, TightParts
    <2> QED
      BY <2>3, <2>6 DEF TightInv
  <1>7. CASE MergeStep
    <2>1. Held' = Held
      BY <1>7, MergeStepMembers
    <2> QED
      BY <1>7, <2>1 DEF MergeStep, TightInv
  <1>8. CASE EndMerge
    <2>1. ToSet(intervals') = Held
      BY <1>8, EndMergeMembers
    <2>2. logged' = logged \cup ToSet(log)
      BY <1>8 DEF EndMerge, ToSet
    <2>3. Tight(ToSet(intervals'), logged')
      BY <1>8, <2>1, <2>2 DEF EndMerge, TightInv
    <2> QED
      BY <1>8, <2>3 DEF EndMerge, TightInv
  <1>9. CASE UNCHANGED vars
    BY <1>9 DEF vars, TightInv, Read, Open, Held
  <1> QED
    BY <1>1, <1>2, <1>3, <1>4, <1>5, <1>6, <1>7, <1>8, <1>9 DEF Next

-----------------------------------------------------------------------------
(***************************************************************************)
(* The order.                                                              *)
(***************************************************************************)

\* A list of intervals has numbers as starts.
LEMMA Starts ==
    ASSUME NEW s \in Seq(Pairs)
    PROVE  /\ DOMAIN s = 1..Len(s) /\ Len(s) \in Nat
           /\ \A i \in DOMAIN s : s[i][1] \in Nat
  <1>1. \A i \in DOMAIN s : s[i] \in Pairs
    OBVIOUS
  <1>2. \A i \in DOMAIN s : s[i][1] \in Nat
    BY <1>1 DEF Pairs
  <1> QED
    BY <1>2

\* Appending an interval that starts after all others, and before those to come.
LEMMA SortedAppend ==
    ASSUME NEW s \in Seq(Pairs), NEW e \in Pairs, SortedByStart(s),
           \A i \in DOMAIN s : s[i][1] <= e[1]
    PROVE  SortedByStart(Append(s, e))
  <1> DEFINE a == Append(s, e)
  <1>1. /\ DOMAIN a = 1..(Len(s) + 1) /\ a[Len(s) + 1] = e
        /\ \A i \in 1..Len(s) : a[i] = s[i]
    OBVIOUS
  <1>2. DOMAIN s = 1..Len(s) /\ Len(s) \in Nat
    BY Starts
  <1> HIDE DEF a
  <1>3. ASSUME NEW i \in DOMAIN a, NEW j \in DOMAIN a, i < j
        PROVE  a[i][1] <= a[j][1]
    <2>1. i \in 1..Len(s) /\ a[i] = s[i]
      BY <1>1, <1>2, <1>3
    <2>2. CASE j = Len(s) + 1
      BY <1>1, <1>2, <2>1, <2>2
    <2>3. CASE j # Len(s) + 1
      <3>1. j \in 1..Len(s) /\ a[j] = s[j]
        BY <1>1, <1>2, <2>3
      <3> QED
        BY <1>2, <1>3, <2>1, <3>1 DEF SortedByStart
    <2> QED
      BY <2>2, <2>3
  <1> QED
    BY <1>3 DEF SortedByStart, a

LEMMA BelowAppend ==
    ASSUME NEW s \in Seq(Pairs), NEW e \in Pairs, NEW t, Below(s, t),
           \A j \in DOMAIN t : e[1] <= t[j][1]
    PROVE  Below(Append(s, e), t)
  <1> DEFINE a == Append(s, e)
  <1>1. /\ DOMAIN a = 1..(Len(s) + 1) /\ a[Len(s) + 1] = e
        /\ \A i \in 1..Len(s) : a[i] = s[i]
    OBVIOUS
  <1>2. DOMAIN s = 1..Len(s) /\ Len(s) \in Nat
    BY Starts
  <1> HIDE DEF a
  <1>3. ASSUME NEW i \in DOMAIN a, NEW j \in DOMAIN t
        PROVE  a[i][1] <= t[j][1]
    <2>1. CASE i = Len(s) + 1
      BY <1>1, <2>1
    <2>2. CASE i # Len(s) + 1
      <3>1. i \in DOMAIN s /\ a[i] = s[i]
        BY <1>1, <1>2, <2>2
      <3> QED
        BY <3>1 DEF Below
    <2> QED
      BY <2>1, <2>2
  <1> QED
    BY <1>3 DEF Below, a

\* The head of an ordered list starts first; its tail is ordered.
LEMMA SortedTail ==
    ASSUME NEW s \in Seq(Pairs), s # <<>>, SortedByStart(s)
    PROVE  /\ SortedByStart(Tail(s))
           /\ \A j \in DOMAIN s : Head(s)[1] <= s[j][1]
           /\ \A j \in DOMAIN Tail(s) : Head(s)[1] <= Tail(s)[j][1]
  <1> DEFINE t == Tail(s)
  <1>1. /\ DOMAIN s = 1..Len(s) /\ Len(s) \in Nat /\ Len(s) >= 1
        /\ \A i \in DOMAIN s : s[i][1] \in Nat
    BY Starts
  <1>2. /\ DOMAIN t = 1..(Len(s) - 1) /\ Head(s) = s[1]
        /\ \A i \in 1..(Len(s) - 1) : t[i] = s[i + 1]
    OBVIOUS
  <1> HIDE DEF t
  <1>3. \A i \in DOMAIN t : i + 1 \in DOMAIN s /\ t[i] = s[i + 1]
    BY <1>1, <1>2
  <1>4. \A j \in DOMAIN s : s[1][1] <= s[j][1]
    <2> SUFFICES ASSUME NEW j \in DOMAIN s PROVE s[1][1] <= s[j][1]
      OBVIOUS
    <2>1. 1 \in DOMAIN s
      BY <1>1
    <2>2. CASE j = 1
      BY <1>1, <2>1, <2>2
    <2>3. CASE j # 1
      <3>1. 1 < j
        BY <1>1, <2>3
      <3> QED
        BY <2>1, <3>1 DEF SortedByStart
    <2> QED
      BY <2>2, <2>3
  <1>5. SortedByStart(t)
    <2> SUFFICES ASSUME NEW i \in DOMAIN t, NEW j \in DOMAIN t, i < j
                 PROVE  t[i][1] <= t[j][1]
      BY DEF SortedByStart
    <2>1. i + 1 < j + 1
      BY <1>1, <1>2
    <2> QED
      BY <1>3, <2>1 DEF SortedByStart
  <1>6. \A j \in DOMAIN t : s[1][1] <= t[j][1]
    BY <1>3, <1>4
  <1> QED
    BY <1>2, <1>4, <1>5, <1>6 DEF t

\* What lies below a list lies below its head and its tail.
LEMMA BelowTail ==
    ASSUME NEW s, NEW t \in Seq(Pairs), t # <<>>, Below(s, t)
    PROVE  Below(s, Tail(t)) /\ \A i \in DOMAIN s : s[i][1] <= Head(t)[1]
  <1> DEFINE u == Tail(t)
  <1>1. /\ \A i \in DOMAIN u : i + 1 \in DOMAIN t /\ u[i] = t[i + 1]
        /\ Head(t) = t[1] /\ 1 \in DOMAIN t
    OBVIOUS
  <1> HIDE DEF u
  <1>2. Below(s, u)
    BY <1>1 DEF Below
  <1> QED
    BY <1>1, <1>2 DEF Below, u

\* Two ordered lists, one below the other.
LEMMA SortedConcat ==
    ASSUME NEW s \in Seq(Pairs), NEW t \in Seq(Pairs),
           SortedByStart(s), SortedByStart(t), Below(s, t)
    PROVE  SortedByStart(s \o t)
  <1> DEFINE c == s \o t
  <1>1. /\ DOMAIN c = 1..(Len(s) + Len(t))
        /\ \A i \in 1..Len(s) : c[i] = s[i]
        /\ \A i \in 1..Len(t) : c[Len(s) + i] = t[i]
    OBVIOUS
  <1>2. /\ DOMAIN s = 1..Len(s) /\ Len(s) \in Nat
        /\ DOMAIN t = 1..Len(t) /\ Len(t) \in Nat
    BY Starts
  <1> HIDE DEF c
  <1>3. ASSUME NEW i \in DOMAIN c
        PROVE  \/ i \in DOMAIN s /\ c[i] = s[i]
               \/ i - Len(s) \in DOMAIN t /\ c[i] = t[i - Len(s)]
    <2>1. CASE i \in 1..Len(s)
      BY <1>1, <1>2, <2>1
    <2>2. CASE i \notin 1..Len(s)
      <3>1. i - Len(s) \in 1..Len(t) /\ Len(s) + (i - Len(s)) = i
        BY <1>1, <1>2, <2>2
      <3>2. c[i] = t[i - Len(s)]
        BY <1>1, <3>1
      <3> QED
        BY <1>2, <3>1, <3>2
    <2> QED
      BY <2>1, <2>2
  <1>4. ASSUME NEW i \in DOMAIN c, NEW j \in DOMAIN c, i < j
        PROVE  c[i][1] <= c[j][1]
    <2>1. CASE i \in DOMAIN s /\ c[i] = s[i] /\ j \in DOMAIN s /\ c[j] = s[j]
      BY <1>4, <2>1 DEF SortedByStart
    <2>2. CASE /\ i \in DOMAIN s /\ c[i] = s[i]
               /\ j - Len(s) \in DOMAIN t /\ c[j] = t[j - Len(s)]
      BY <2>2 DEF Below
    <2>3. CASE /\ i - Len(s) \in DOMAIN t /\ c[i] = t[i - Len(s)]
               /\ j - Len(s) \in DOMAIN t /\ c[j] = t[j - Len(s)]
      <3>1. i - Len(s) < j - Len(s)
        BY <1>1, <1>2, <1>4
      <3> QED
        BY <2>3, <3>1 DEF SortedByStart
    <2>4. CASE i - Len(s) \in DOMAIN t /\ j \in DOMAIN s
      BY <1>1, <1>2, <1>4, <2>4
    <2> QED
      BY <1>3, <2>1, <2>2, <2>3, <2>4
  <1> QED
    BY <1>4 DEF SortedByStart, c

\* Merging two ordered lists keeps the order.
LEMMA SortStep == TypeOK /\ SortInv /\ [Next]_vars => SortInv'
  <1> SUFFICES ASSUME TypeOK, SortInv, [Next]_vars PROVE SortInv'
    OBVIOUS
  <1>1. CASE ExtendWithQemuLog \/ FirstPC \/ ExpandInterval \/ NewInterval \/ LastInterval
    BY <1>1 DEF ExtendWithQemuLog, FirstPC, ExpandInterval, NewInterval, LastInterval,
                SortInv
  <1>2. CASE SortIntervals
    <2>1. SortedByStart(found') /\ ret' = <<>> /\ intervals' = intervals
      BY <1>2, SortIntervalsMembers DEF SortIntervals
    <2>2. SortedByStart(ret') /\ Below(ret', intervals') /\ Below(ret', found')
      BY <2>1 DEF SortedByStart, Below
    <2> QED
      BY <2>1, <2>2 DEF SortInv
  <1>3. CASE MergeStep
    <2>1. /\ ret \in Seq(Pairs) /\ intervals \in Seq(Pairs) /\ found \in Seq(Pairs)
          /\ intervals # <<>> /\ found # <<>>
      BY <1>3 DEF TypeOK, MergeStep
    <2>2. /\ SortedByStart(intervals) /\ SortedByStart(found) /\ SortedByStart(ret)
          /\ Below(ret, intervals) /\ Below(ret, found)
      BY <1>3 DEF SortInv, MergeStep
    <2>3. /\ Head(intervals) \in Pairs /\ Head(found) \in Pairs
          /\ Head(intervals)[1] \in Nat /\ Head(found)[1] \in Nat
      BY <2>1 DEF Pairs
    <2>4. /\ \A j \in DOMAIN found : Head(found)[1] <= found[j][1] /\ found[j][1] \in Nat
          /\ \A j \in DOMAIN intervals : /\ Head(intervals)[1] <= intervals[j][1]
                                         /\ intervals[j][1] \in Nat
      BY <2>1, <2>2, SortedTail, Starts
    <2>5. CASE PairLess(Head(intervals), Head(found))
      <3>1. /\ ret' = Append(ret, Head(intervals))
            /\ intervals' = Tail(intervals) /\ found' = found
        BY <1>3, <2>5 DEF MergeStep
      <3>2. Head(intervals)[1] <= Head(found)[1]
        BY <2>3, <2>5 DEF PairLess
      <3>3. \A j \in DOMAIN found : Head(intervals)[1] <= found[j][1]
        BY <2>3, <2>4, <3>2
      <3>4. Below(ret', found)
        BY <2>1, <2>2, <2>3, <3>1, <3>3, BelowAppend
      <3>5. SortedByStart(ret')
        BY <2>1, <2>2, <2>3, <3>1, BelowTail, SortedAppend
      <3>6. SortedByStart(intervals')
        BY <2>1, <2>2, <3>1, SortedTail
      <3>7. Below(ret', intervals')
        <4>1. Below(ret, Tail(intervals))
          BY <2>1, <2>2, BelowTail
        <4>2. \A j \in DOMAIN Tail(intervals) : Head(intervals)[1] <= Tail(intervals)[j][1]
          BY <2>1, <2>2, SortedTail
        <4> QED
          BY <2>1, <2>3, <3>1, <4>1, <4>2, BelowAppend
      <3> QED
        BY <2>2, <3>1, <3>4, <3>5, <3>6, <3>7 DEF SortInv
    <2>6. CASE ~PairLess(Head(intervals), Head(found))
      <3>1. /\ ret' = Append(ret, Head(found))
            /\ found' = Tail(found) /\ intervals' = intervals
        BY <1>3, <2>6 DEF MergeStep
      <3>2. Head(found)[1] <= Head(intervals)[1]
        BY <2>3, <2>6 DEF PairLess
      <3>3. \A j \in DOMAIN intervals : Head(found)[1] <= intervals[j][1]
        BY <2>3, <2>4, <3>2
      <3>4. Below(ret', intervals)
        BY <2>1, <2>2, <2>3, <3>1, <3>3, BelowAppend
      <3>5. SortedByStart(ret')
        BY <2>1, <2>2, <2>3, <3>1, BelowTail, SortedAppend
      <3>6. SortedByStart(found')
        BY <2>1, <2>2, <3>1, SortedTail
      <3>7. Below(ret', found')
        <4>1. Below(ret, Tail(found))
          BY <2>1, <2>2, BelowTail
        <4>2. \A j \in DOMAIN Tail(found) : Head(found)[1] <= Tail(found)[j][1]
          BY <2>1, <2>2, SortedTail
        <4> QED
          BY <2>1, <2>3, <3>1, <4>1, <4>2, BelowAppend
      <3> QED
        BY <2>2, <3>1, <3>4, <3>5, <3>6, <3>7 DEF SortInv
    <2> QED
      BY <2>5, <2>6
  <1>4. CASE EndMerge
    <2>1. /\ ret \in Seq(Pairs) /\ intervals \in Seq(Pairs) /\ found \in Seq(Pairs)
          /\ intervals' = (ret \o intervals) \o found
          /\ intervals = <<>> \/ found = <<>>
      BY <1>4 DEF TypeOK, EndMerge
    <2>2. /\ SortedByStart(intervals) /\ SortedByStart(found) /\ SortedByStart(ret)
          /\ Below(ret, intervals) /\ Below(ret, found)
      BY <1>4 DEF SortInv, EndMerge
    <2>3. ret \o intervals \in Seq(Pairs) /\ SortedByStart(ret \o intervals)
      BY <2>1, <2>2, SortedConcat
    <2>4. Below(ret \o intervals, found)
      <3>1. CASE intervals = <<>>
        <4>1. ret \o intervals = ret
          BY <2>1, <3>1
        <4> QED
          BY <2>2, <4>1
      <3>2. CASE found = <<>>
        BY <3>2 DEF Below
      <3> QED
        BY <2>1, <3>1, <3>2
    <2>5. SortedByStart(intervals')
      BY <2>1, <2>2, <2>3, <2>4, SortedConcat
    <2> QED
      BY <1>4, <2>5 DEF EndMerge, SortInv
  <1>5. CASE UNCHANGED vars
    BY <1>5 DEF vars, SortInv
  <1> QED
    BY <1>1, <1>2, <1>3, <1>4, <1>5 DEF Next

-----------------------------------------------------------------------------
(***************************************************************************)
(* The theorems.                                                           *)
(***************************************************************************)

\* Before the first log there is nothing.
LEMMA InitIInv == Init => IInv
  <1> SUFFICES ASSUME Init PROVE IInv
    OBVIOUS
  <1>1. TypeOK
    BY LogsAssumption DEF Init, TypeOK
  <1>2. ScanInv /\ CoverInv /\ SortInv
    BY DEF Init, ScanInv, CoverInv, SortInv, SortedByStart
  <1>3. ToSet(intervals) = {} /\ phase = "idle"
    BY DEF Init, ToSet
  <1>4. TightInv
    BY <1>3 DEF TightInv, Tight
  <1> QED
    BY <1>1, <1>2, <1>4 DEF IInv

\* The inductive invariant of the coverage.
THEOREM CoverageInvariant == Spec => []IInv
  <1>1. Init => IInv
    BY InitIInv
  <1>2. IInv /\ [Next]_vars => IInv'
    BY TypeStep, ScanStep, CoverStep, TightStep, SortStep DEF IInv
  <1> QED
    BY <1>1, <1>2, PTL DEF Spec

\* Every variable keeps its shape.
THEOREM CoverageTypeCorrect == Spec => []TypeOK
  <1>1. IInv => TypeOK
    BY DEF IInv
  <1> QED
    BY <1>1, CoverageInvariant, PTL

\* The list handed to the translator is sorted by start, whatever the logs.
THEOREM CoverageIsSorted == Spec => []IntervalsSorted
  <1>1. IInv => IntervalsSorted
    BY DEF IInv, SortInv, IntervalsSorted
  <1> QED
    BY <1>1, CoverageInvariant, PTL

\* visited() is true for every PC of every log read so far.
THEOREM CoverageIsComplete == Spec => []LoggedIsVisited
  <1>1. IInv => LoggedIsVisited
    <2> SUFFICES ASSUME IInv, phase = "idle", NEW pc \in logged PROVE Visited(pc)
      BY DEF LoggedIsVisited
    <2>1. Covers(ToSet(intervals), pc)
      BY DEF IInv, CoverInv
    <2> QED
      BY <2>1 DEF Covers, ToSet, Visited
  <1> QED
    BY <1>1, CoverageInvariant, PTL

\* An interval has nothing farther than three bytes behind a logged PC.
THEOREM CoverageIsTight == Spec => []VisitedIsLogged
  <1>1. IInv => VisitedIsLogged
    <2> SUFFICES ASSUME IInv, phase = "idle", NEW k \in DOMAIN intervals,
                        NEW pc \in intervals[k][1]..intervals[k][2]
                 PROVE  \E d \in 0..3 : pc - d \in logged
      BY DEF VisitedIsLogged
    <2>1. Tight(ToSet(intervals), logged)
      BY DEF IInv, TightInv
    <2>2. intervals[k] \in ToSet(intervals)
      BY DEF ToSet
    <2> QED
      BY <2>1, <2>2 DEF Tight, Near
  <1> QED
    BY <1>1, CoverageInvariant, PTL
=============================================================================
