------------------------ MODULE FunctionBuilderProofs ------------------------
(***************************************************************************)
(* The marks of the stores to PC, the extent of a function, the choice of  *)
(* the functions that are built and their control flow, for every module   *)
(* of blocks.                                                              *)
(***************************************************************************)
EXTENDS FunctionBuilder, SeqFilterProofs

----------------------------------------------------------------------------
(* The inductive invariant                                                 *)

\* The constants stored to LR before the store j of a basic block, and whether
\* the last of them makes it a call.
LRsBefore(stores, j) ==
    {k \in 1..(j - 1) : stores[k].to = "LR" /\ Constant(stores[k])}

IsCall(s, stores, j) ==
    /\ LRsBefore(stores, j) # {}
    /\ IsReturnAddress(stores[Max(LRsBefore(stores, j))].val, PcEnd[s])

\* The marks of the store j when it is the turn of a pass.
MarksAt(p, s, stores, j) ==
    IF stores[j].to # "PC" \/ p = "armmarkcall" THEN {}
    ELSE IF IsCall(s, stores, j)
         THEN {IF Constant(stores[j]) THEN "directCall" ELSE "indirectCall"}
    ELSE IF p = "armmarkreturn" THEN {}
    ELSE IF stores[j].val = UsesLR THEN {"return"}
    ELSE IF p = "armmarkjumps" THEN {}
    ELSE {IF Constant(stores[j]) THEN "directJump" ELSE "indirectJump"}

MarkedFor(p, s, stores) ==
    \A j \in DOMAIN stores :
        /\ stores[j].marks = MarksAt(p, s, stores, j)
        /\ stores[j].to = "PC" /\ p # "armmarkcall" /\ IsCall(s, stores, j)
              => stores[j].ret = PcEnd[s]

InFunction == {"explore", "fixupCalls", "fixupDirectJumps", "fixupIndirectJumps",
               "fixupReturns", "finish"}
Passes == Marking \cup {"markfuncentry", "search", "cleanup", "done"} \cup InFunction

\* A block begins with something, and its basic blocks have one store to PC.
ShapeOK(block) ==
    /\ block[1].work \/ block[1].inner \/ block[1].stores # <<>>
    /\ \A i \in DOMAIN block : OnePCStore(block[i])

ModInv ==
    /\ pass \in Passes
    /\ toBeRemoved = {}
    /\ mod \in [Starts -> Seq(AnyBB) \ {<<>>}]
    /\ \A s \in Starts : ShapeOK(mod[s])
    /\ pass # "aborted" =>
          \A s \in Starts : \A i \in DOMAIN mod[s] : MarkedFor(pass, s, mod[s][i].stores)

EntriesInv ==
    pass \notin Marking \cup {"markfuncentry"} =>
        entries = Starts \cap UNION {FirstBlockCalls(s) : s \in Starts}

BuiltInv ==
    /\ pos \in 1..(Len(Order) + 1)
    /\ pass \in Marking \cup {"markfuncentry"} => pos = 1
    /\ pass \in InFunction => pos <= Len(Order) /\ Order[pos] \in entries
    /\ Saved => pos = Len(Order) + 1
    /\ DOMAIN built = {s \in entries : \E i \in 1..(pos - 1) : Order[i] = s}

\* Blocks that were expanded have their followers in the function, and their
\* jumps through a register are known to it; blocks that no set closed under following can leave out are all it has.
Expanded(s) ==
    \A st \in Range(PCStoresOf(mod[s])) :
        /\ Follow(st) \cap Starts \subseteq Range(blocks)
        /\ "indirectJump" \in st.marks => hasIndirectJump

ExploreInv ==
    pass \in InFunction =>
        /\ blocks \in Seq(Starts) /\ blocks # <<>> /\ blocks[1] = Order[pos]
        /\ toExpand \in Seq(Starts) /\ Range(toExpand) \subseteq Range(blocks)
        /\ pass # "explore" => toExpand = <<>>
        /\ \A s \in Range(blocks) \ Range(toExpand) : Expanded(s)
        /\ \A S \in SUBSET Starts : Order[pos] \in S /\ Closed(S) => Range(blocks) \subseteq S

----------------------------------------------------------------------------
(* The invariant of a function under construction                          *)

Without(stores, st) == KeepAt(stores, {k \in DOMAIN stores : stores[k] # st})

\* The store to PC st is replaced by the terminator.
Erased(f, st) ==
    \/ "return" \in st.marks
    \/ "directJump" \in st.marks /\ st.val \in BlocksOf(f)

\* The terminators for going on at pc, as GoesTo has them.
Goes(f, terms, pc) ==
    IF pc \in BlocksOf(f)
    THEN \E p \in DOMAIN f : terms = <<Branch(p)>> /\ BeginsAt(f, p, pc)
    ELSE terms = <<FakeReturn>>

\* OnlyJumps and CaseKept, for the blocks in code.
JumpsOnly(code, f, pc) ==
    /\ ~code[pc][1].work /\ ~code[pc][1].inner
    /\ \A j \in DOMAIN code[pc][1].stores :
          LET st == code[pc][1].stores[j]
          IN  "directJump" \in st.marks /\ st.val \in BlocksOf(f)

CaseTo(code, f, p, pc) ==
    IF pc \notin BlocksOf(f) THEN f[p].block = None
    ELSE IF ~JumpsOnly(code, f, pc) THEN BeginsAt(f, p, pc)
    ELSE f[p].block = None \/ (f[p].block = pc /\ Len(code[pc]) > 1)

SwitchTo(to) == [kind |-> "switch", to |-> to]

GoesByTable(code, f, terms, st) ==
    \E to \in [1..(Len(st.cases) + 1) -> DOMAIN f] :
        /\ terms = <<SwitchTo(to)>>
        /\ \A k \in 1..(Len(st.cases) + 1) : CaseTo(code, f, to[k], SwitchTargets(st)[k])

TermsOK(code, f, st, terms) ==
    /\ st.marks \cap Calls # {} => Goes(f, terms, st.ret)
    /\ "directJump" \in st.marks => Goes(f, terms, st.val)
    /\ "return" \in st.marks => terms = <<Return>>
    /\ "indirectJump" \in st.marks =>
          IF st.cases = <<>> THEN terms = <<Branch(Len(f))>> /\ f[Len(f)] = FakeBB
          ELSE IF ~st.idx THEN terms = <<>>
          ELSE GoesByTable(code, f, terms, st)

\* What the basic block of f copied from src is when the stores with the marks F
\* are fixed.
FixedTo(code, f, F, src, stores, terms) ==
    /\ (\A j \in DOMAIN src.stores : src.stores[j].to # "PC") =>
          stores = src.stores /\ terms = <<IF src.inner THEN InnerBranch ELSE FakeReturn>>
    /\ \A j \in DOMAIN src.stores : src.stores[j].to = "PC" =>
          IF src.stores[j].marks \cap F = {}
          THEN stores = src.stores /\ terms = <<FakeReturn>>
          ELSE /\ stores = IF Erased(f, src.stores[j]) THEN Without(src.stores, src.stores[j])
                           ELSE src.stores
               /\ TermsOK(code, f, src.stores[j], terms)

CopyOK(code, f, F, bb) ==
    /\ bb = [block |-> bb.block, index |-> bb.index, work |-> bb.work,
             stores |-> bb.stores, terms |-> bb.terms]
    /\ bb.block \in Starts /\ bb.index \in DOMAIN code[bb.block]
    /\ bb.work = code[bb.block][bb.index].work
    /\ FixedTo(code, f, F, code[bb.block][bb.index], bb.stores, bb.terms)

\* The first basic block of b comes before the others.
BeginsFirst(f, b) ==
    \E p \in DOMAIN f : BeginsAt(f, p, b) /\ \A q \in DOMAIN f : f[q].block = b => p <= q

\* Something in the function jumps through a register.
JumpsAway(code, f) ==
    \E p \in DOMAIN f : /\ f[p].block # None
                        /\ \E j \in DOMAIN code[f[p].block][f[p].index].stores :
                              "indirectJump" \in code[f[p].block][f[p].index].stores[j].marks

FunctionOK(code, f, F) ==
    /\ Len(f) \in Nat /\ DOMAIN f = 1..Len(f)
    /\ \A p \in DOMAIN f : CopyOK(code, f, F, f[p]) \/ (f[p] = FakeBB /\ p = Len(f))
    /\ \A b \in BlocksOf(f) : BeginsFirst(f, b)
    /\ JumpsAway(code, f) => Len(f) # 0 /\ f[Len(f)] = FakeBB

\* The marks that are fixed when it is the turn of a step.
FixedMarks(p) ==
    IF p = "fixupCalls" THEN {}
    ELSE IF p = "fixupDirectJumps" THEN Calls
    ELSE IF p = "fixupIndirectJumps" THEN Calls \cup {"directJump"}
    ELSE IF p = "fixupReturns" THEN Calls \cup {"directJump", "indirectJump"}
    ELSE Marks

Fixing == {"fixupCalls", "fixupDirectJumps", "fixupIndirectJumps", "fixupReturns",
           "finish"}

\* Control goes from the terminators where st says, as in ControlFlowKept.
FlowFor(code, f, terms, st) ==
    /\ st.marks \cap Calls # {} => GoesTo(f, terms, st.ret)
    /\ "directJump" \in st.marks => GoesTo(f, terms, st.val)
    /\ "return" \in st.marks => terms = <<Return>>
    /\ IsSwitch(st) /\ st.idx =>
          \A k \in DOMAIN SwitchTargets(st) :
              CaseTo(code, f, terms[1].to[k], SwitchTargets(st)[k])
    /\ "indirectJump" \in st.marks /\ ~IsSwitch(st) => f[terms[1].to[1]].block = None

\* What is written for a function, as in WellFormed and ControlFlowKept.
FunctionDone(code, f) ==
    \A p \in DOMAIN f :
        /\ Len(f[p].terms) = IF UnindexedSwitch(f[p]) THEN 0 ELSE 1
        /\ \A t \in Range(f[p].terms) : ~Contains(t.to, 1)
        /\ f[p].block # None /\ f[p].index > 0 =>
              \A st \in Range(code[f[p].block][f[p].index].stores) :
                  FlowFor(code, f, f[p].terms, st)

BodyInv ==
    /\ pass \in Fixing => FunctionOK(mod, func, FixedMarks(pass))
    /\ ~Saved => \A s \in DOMAIN built : FunctionOK(mod, built[s], Marks)
    /\ Saved => \A s \in DOMAIN built : FunctionDone(mod, built[s])

IInv == ModInv /\ EntriesInv /\ BuiltInv /\ ExploreInv /\ BodyInv

----------------------------------------------------------------------------
(* The marks                                                               *)

AnyModule == [Starts -> Seq(AnyBB) \ {<<>>}]

LEMMA StartsAreCode == \A s \in Starts : s \in Nat /\ PcEnd[s] \in Nat /\ PcEnd[s] % 2 = 0
  <1>1. \A i \in DOMAIN Order : Order[i] \in Nat
    BY BlocksAssumption
  <1> QED
    BY <1>1, BlocksAssumption DEF Starts, Range

\* LR less its Thumb bit.
LEMMA Halfword ==
    ASSUME NEW e \in Nat, NEW l \in Int, e % 2 = 0, e = l \/ e = l - 1
    PROVE  2 * (l \div 2) = e
  OBVIOUS

LEMMA StoreFields ==
    ASSUME NEW st \in AnyStore
    PROVE  /\ st.to \in {"PC", "LR"} /\ st.val \in Int /\ st.cases \in Seq(Int)
           /\ st.dflt \in Int /\ st.idx \in BOOLEAN /\ st.marks \in SUBSET Marks
           /\ st.ret \in Int
  BY DEF AnyStore

\* The basic blocks of m with the stores of t.
WithStores(m, t) ==
    [s \in Starts |-> [i \in DOMAIN m[s] |-> [m[s][i] EXCEPT !.stores = t[s][i]]]]

LEMMA ModuleStores ==
    ASSUME NEW m \in AnyModule, NEW s \in Starts
    PROVE  /\ m[s] \in Seq(AnyBB) /\ m[s] # <<>>
           /\ \A i \in DOMAIN m[s] : m[s][i] \in AnyBB /\ m[s][i].stores \in Seq(AnyStore)
  <1>1. m[s] \in Seq(AnyBB) /\ m[s] # <<>>
    BY DEF AnyModule
  <1>2. \A i \in DOMAIN m[s] : m[s][i] \in AnyBB
    BY <1>1
  <1> QED
    BY <1>1, <1>2 DEF AnyBB

LEMMA NewStores ==
    ASSUME NEW m \in AnyModule, NEW t,
           \A s \in Starts : \A i \in DOMAIN m[s] : t[s][i] \in Seq(AnyStore)
    PROVE  /\ WithStores(m, t) \in AnyModule
           /\ \A s \in Starts :
                 /\ DOMAIN WithStores(m, t)[s] = DOMAIN m[s]
                 /\ \A i \in DOMAIN m[s] :
                       /\ WithStores(m, t)[s][i].stores = t[s][i]
                       /\ WithStores(m, t)[s][i].work = m[s][i].work
                       /\ WithStores(m, t)[s][i].inner = m[s][i].inner
  <1> DEFINE n == WithStores(m, t)
  <1>0. n = [s \in Starts |-> [i \in DOMAIN m[s] |-> [m[s][i] EXCEPT !.stores = t[s][i]]]]
    BY DEF WithStores
  <1> HIDE DEF n
  <1>1. ASSUME NEW s \in Starts
        PROVE  /\ n[s] \in Seq(AnyBB) \ {<<>>}
               /\ DOMAIN n[s] = DOMAIN m[s]
               /\ \A i \in DOMAIN m[s] :
                     /\ n[s][i].stores = t[s][i] /\ n[s][i].work = m[s][i].work
                     /\ n[s][i].inner = m[s][i].inner
    <2> DEFINE b == m[s]
    <2>1. b \in Seq(AnyBB) /\ b # <<>> /\ DOMAIN b = 1..Len(b) /\ Len(b) \in Nat
      BY DEF AnyModule
    <2>2. n[s] = [i \in 1..Len(b) |-> [b[i] EXCEPT !.stores = t[s][i]]]
      BY <1>0, <2>1
    <2>3. ASSUME NEW i \in 1..Len(b)
          PROVE  /\ [b[i] EXCEPT !.stores = t[s][i]] \in AnyBB
                 /\ [b[i] EXCEPT !.stores = t[s][i]].stores = t[s][i]
                 /\ [b[i] EXCEPT !.stores = t[s][i]].work = b[i].work
                 /\ [b[i] EXCEPT !.stores = t[s][i]].inner = b[i].inner
      <3>1. b[i] \in AnyBB /\ t[s][i] \in Seq(AnyStore)
        BY <2>1
      <3> QED
        BY <3>1 DEF AnyBB
    <2>4. n[s] \in Seq(AnyBB) /\ Len(n[s]) = Len(b)
      <3>1. Len(b) \in Nat /\ n[s] \in [1..Len(b) -> AnyBB]
        BY <2>1, <2>2, <2>3
      <3> HIDE DEF b
      <3> QED
        BY <3>1, FunctionIsSequence
    <2>5. Len(b) # 0
      BY <2>1
    <2> HIDE DEF b
    <2>6. n[s] # <<>>
      BY <2>4, <2>5
    <2>7. DOMAIN n[s] = 1..Len(b)
      BY <2>2
    <2>8. \A i \in 1..Len(b) :
             /\ n[s][i].stores = t[s][i] /\ n[s][i].work = b[i].work
             /\ n[s][i].inner = b[i].inner
      BY <2>2, <2>3
    <2> QED
      BY <2>1, <2>4, <2>6, <2>7, <2>8 DEF b
  <1>2. n \in AnyModule
    BY <1>0, <1>1 DEF AnyModule
  <1> QED
    BY <1>1, <1>2 DEF n

\* Stores with the same targets and values make the same calls.
LEMMA SameCalls ==
    ASSUME NEW a \in Seq(AnyStore), NEW b \in Seq(AnyStore), Len(a) = Len(b),
           \A j \in DOMAIN a : b[j].to = a[j].to /\ b[j].val = a[j].val,
           NEW s \in Starts, NEW j \in DOMAIN a
    PROVE  /\ LRsBefore(b, j) = LRsBefore(a, j)
           /\ IsCall(s, b, j) <=> IsCall(s, a, j)
  <1>1. \A k \in 1..(j - 1) : k \in DOMAIN a
    OBVIOUS
  <1>2. LRsBefore(b, j) = LRsBefore(a, j)
    BY <1>1 DEF LRsBefore, Constant
  <1>3. CASE LRsBefore(a, j) = {}
    BY <1>2, <1>3 DEF IsCall
  <1>4. CASE LRsBefore(a, j) # {}
    <2>1. Max(LRsBefore(a, j)) \in LRsBefore(a, j)
      <3>1. j - 1 \in Nat /\ LRsBefore(a, j) \in SUBSET (1..(j - 1))
        BY DEF LRsBefore
      <3> QED
        BY <1>4, <3>1, MaxPosition
    <2>2. Max(LRsBefore(a, j)) \in DOMAIN a
      BY <1>1, <2>1 DEF LRsBefore
    <2> QED
      BY <1>2, <2>2 DEF IsCall
  <1> QED
    BY <1>2, <1>3, <1>4

\* The store that makes a call, and where it returns to.
LEMMA CallStore ==
    ASSUME NEW a \in Seq(AnyStore), NEW j \in DOMAIN a, NEW s \in Starts, IsCall(s, a, j)
    PROVE  \E k \in 1..(j - 1) :
              /\ k = Max(LRsBefore(a, j)) /\ a[k].val \in {PcEnd[s], PcEnd[s] + 1}
              /\ 2 * (a[k].val \div 2) = PcEnd[s]
  <1> DEFINE k == Max(LRsBefore(a, j))
  <1>1. k \in LRsBefore(a, j)
    <2>1. j - 1 \in Nat /\ LRsBefore(a, j) \in SUBSET (1..(j - 1))
      BY DEF LRsBefore
    <2> QED
      BY <2>1, MaxPosition DEF IsCall
  <1>2. k \in 1..(j - 1) /\ IsReturnAddress(a[k].val, PcEnd[s])
    BY <1>1 DEF LRsBefore, IsCall
  <1> HIDE DEF k
  <1>3. a[k] \in AnyStore
    BY <1>2
  <1>4. a[k].val \in Int /\ PcEnd[s] \in Nat /\ PcEnd[s] % 2 = 0
    BY <1>3, StoreFields, StartsAreCode
  <1>5. PcEnd[s] = a[k].val \/ PcEnd[s] = a[k].val - 1
    BY <1>2 DEF IsReturnAddress
  <1>6. 2 * (a[k].val \div 2) = PcEnd[s]
    BY <1>4, <1>5, Halfword
  <1>7. a[k].val \in {PcEnd[s], PcEnd[s] + 1}
    BY <1>4, <1>5
  <1> QED
    BY <1>2, <1>6, <1>7 DEF k

\* The stores are to the same registers; the shape of a block depends on
\* nothing else.
SameTargets(a, b) == Len(b) = Len(a) /\ \A j \in DOMAIN a : b[j].to = a[j].to

LEMMA SameShape ==
    ASSUME NEW a \in Seq(AnyBB), NEW b \in Seq(AnyBB), a # <<>>, ShapeOK(a),
           DOMAIN b = DOMAIN a,
           \A i \in DOMAIN a : /\ b[i].work = a[i].work /\ b[i].inner = a[i].inner
                               /\ SameTargets(a[i].stores, b[i].stores)
    PROVE  ShapeOK(b)
  <1>1. \A i \in DOMAIN a : a[i].stores \in Seq(AnyStore) /\ b[i].stores \in Seq(AnyStore)
    <2>1. \A i \in DOMAIN a : a[i] \in AnyBB /\ b[i] \in AnyBB
      OBVIOUS
    <2> QED
      BY <2>1 DEF AnyBB
  <1>2. 1 \in DOMAIN a
    OBVIOUS
  <1>3. \A i \in DOMAIN a : DOMAIN b[i].stores = DOMAIN a[i].stores
    BY <1>1 DEF SameTargets
  <1>4. \A i \in DOMAIN b : OnePCStore(b[i])
    <2> SUFFICES ASSUME NEW i \in DOMAIN a PROVE OnePCStore(b[i])
      OBVIOUS
    <2>1. OnePCStore(a[i])
      BY DEF ShapeOK
    <2>2. \A j \in DOMAIN a[i].stores : b[i].stores[j].to = a[i].stores[j].to
      BY DEF SameTargets
    <2> QED
      BY <1>3, <2>1, <2>2 DEF OnePCStore
  <1>5. a[1].stores # <<>> => b[1].stores # <<>>
    <2>1. a[1].stores # <<>> => Len(a[1].stores) # 0
      BY <1>1, <1>2
    <2>2. Len(b[1].stores) = Len(a[1].stores)
      BY <1>2 DEF SameTargets
    <2>3. Len(<<>>) = 0
      OBVIOUS
    <2> QED
      BY <2>1, <2>2, <2>3
  <1>6. b[1].work \/ b[1].inner \/ b[1].stores # <<>>
    BY <1>2, <1>5 DEF ShapeOK
  <1> QED
    BY <1>4, <1>6 DEF ShapeOK

\* ARMMarkCall on the stores of a basic block.
LEMMA CallsMarked ==
    ASSUME NEW a \in Seq(AnyStore), NEW s \in Starts, MarkedFor("armmarkcall", s, a),
           NEW b, b = [j \in DOMAIN a |->
                         IF a[j].to = "PC"
                         THEN MarkCall(a[j], SubSeq(a, 1, j - 1), PcEnd[s]) ELSE a[j]]
    PROVE  b \in Seq(AnyStore) /\ MarkedFor("armmarkreturn", s, b) /\ SameTargets(a, b)
  <1> DEFINE kind(st) == IF Constant(st) THEN "directCall" ELSE "indirectCall"
             called(st) == [st EXCEPT !.marks = @ \cup {kind(st)}, !.ret = PcEnd[s]]
  <1>1. DOMAIN a = 1..Len(a) /\ Len(a) \in Nat /\ DOMAIN b = 1..Len(a)
    OBVIOUS
  <1>2. ASSUME NEW j \in DOMAIN a
        PROVE  b[j] = IF a[j].to = "PC" /\ IsCall(s, a, j) THEN called(a[j]) ELSE a[j]
    <2> DEFINE before == SubSeq(a, 1, j - 1)
    <2>1. Len(before) = j - 1 /\ \A k \in 1..(j - 1) : before[k] = a[k]
      BY <1>1
    <2>2. DOMAIN before = 1..(j - 1)
      BY <1>1
    <2>3. b[j] = IF a[j].to = "PC" THEN MarkCall(a[j], before, PcEnd[s]) ELSE a[j]
      OBVIOUS
    <2> HIDE DEF before
    <2>4. ConstantLRs(before) = LRsBefore(a, j)
      BY <2>1, <2>2 DEF ConstantLRs, LRsBefore, Constant
    <2>5. CASE IsCall(s, a, j)
      <3>1. PICK k \in 1..(j - 1) : /\ k = Max(LRsBefore(a, j))
                                    /\ 2 * (a[k].val \div 2) = PcEnd[s]
        BY <2>5, CallStore
      <3>2. before[k] = a[k]
        BY <2>1
      <3>3. MarkCall(a[j], before, PcEnd[s]) = called(a[j])
        BY <2>4, <2>5, <3>1, <3>2 DEF MarkCall, IsCall
      <3> QED
        BY <2>3, <2>5, <3>3
    <2>6. CASE ~IsCall(s, a, j)
      <3>1. ASSUME LRsBefore(a, j) # {}
            PROVE  before[Max(LRsBefore(a, j))] = a[Max(LRsBefore(a, j))]
        <4>1. j - 1 \in Nat /\ LRsBefore(a, j) \in SUBSET (1..(j - 1))
          BY DEF LRsBefore
        <4>2. Max(LRsBefore(a, j)) \in 1..(j - 1)
          BY <3>1, <4>1, MaxPosition
        <4> QED
          BY <2>1, <4>2
      <3>2. MarkCall(a[j], before, PcEnd[s]) = a[j]
        BY <2>4, <2>6, <3>1 DEF MarkCall, IsCall
      <3> QED
        BY <2>3, <2>6, <3>2
    <2> QED
      BY <2>5, <2>6
  <1>3. ASSUME NEW j \in DOMAIN a
        PROVE  /\ b[j] \in AnyStore /\ b[j].to = a[j].to /\ b[j].val = a[j].val
               /\ a[j].to = "PC" /\ IsCall(s, a, j) =>
                    b[j].marks = {kind(a[j])} /\ b[j].ret = PcEnd[s]
               /\ ~(a[j].to = "PC" /\ IsCall(s, a, j)) => b[j].marks = {}
    <2>1. a[j] \in AnyStore /\ a[j].marks = {} /\ PcEnd[s] \in Int
      BY StartsAreCode DEF MarkedFor, MarksAt
    <2>2. kind(a[j]) \in Marks
      BY DEF Marks
    <2> HIDE DEF kind
    <2>3. /\ called(a[j]) \in AnyStore /\ called(a[j]).to = a[j].to
          /\ called(a[j]).val = a[j].val /\ called(a[j]).marks = {kind(a[j])}
          /\ called(a[j]).ret = PcEnd[s]
      BY <2>1, <2>2 DEF AnyStore
    <2> HIDE DEF called
    <2> QED
      BY <1>2, <2>1, <2>3
  <1>4. b \in [1..Len(a) -> AnyStore]
    BY <1>1, <1>3
  <1>5. b \in Seq(AnyStore) /\ Len(b) = Len(a)
    BY <1>1, <1>4, FunctionIsSequence
  <1>6. ASSUME NEW j \in DOMAIN b
        PROVE  /\ b[j].marks = MarksAt("armmarkreturn", s, b, j)
               /\ b[j].to = "PC" /\ IsCall(s, b, j) => b[j].ret = PcEnd[s]
    <2>1. j \in DOMAIN a
      BY <1>1
    <2>2. IsCall(s, b, j) <=> IsCall(s, a, j)
      <3>1. \A l \in DOMAIN a : b[l].to = a[l].to /\ b[l].val = a[l].val
        BY <1>3
      <3>2. Len(a) = Len(b) /\ b \in Seq(AnyStore)
        BY <1>5
      <3> QED
        BY <2>1, <3>1, <3>2, SameCalls
    <2>3. kind(a[j]) = kind(b[j])
      BY <1>3, <2>1 DEF Constant
    <2> QED
      BY <1>3, <2>1, <2>2, <2>3 DEF MarksAt
  <1> QED
    BY <1>1, <1>3, <1>5, <1>6 DEF MarkedFor, SameTargets

\* ARMMarkReturn, when its assertion holds.
LEMMA ReturnsMarked ==
    ASSUME NEW a \in Seq(AnyStore), NEW s \in Starts, MarkedFor("armmarkreturn", s, a),
           \A j \in DOMAIN a :
              a[j].to = "PC" /\ a[j].val = UsesLR => a[j].marks \cap Calls = {},
           NEW b, b = [j \in DOMAIN a |->
                         IF a[j].to = "PC"
                         THEN MarkReturn(a[j], SubSeq(a, 1, j - 1), PcEnd[s]) ELSE a[j]]
    PROVE  b \in Seq(AnyStore) /\ MarkedFor("armmarkjumps", s, b) /\ SameTargets(a, b)
  <1> DEFINE returns(st) == [st EXCEPT !.marks = @ \cup {"return"}]
             isReturn(j) == a[j].to = "PC" /\ a[j].val = UsesLR
  <1>1. DOMAIN a = 1..Len(a) /\ Len(a) \in Nat /\ DOMAIN b = 1..Len(a)
    OBVIOUS
  <1>2. \A j \in DOMAIN a : b[j] = IF isReturn(j) THEN returns(a[j]) ELSE a[j]
    BY DEF MarkReturn, Mark
  <1>3. ASSUME NEW j \in DOMAIN a
        PROVE  /\ b[j] \in AnyStore /\ b[j].to = a[j].to /\ b[j].val = a[j].val
               /\ b[j].ret = a[j].ret
               /\ isReturn(j) => b[j].marks = {"return"} /\ ~IsCall(s, a, j)
               /\ ~isReturn(j) => b[j].marks = a[j].marks
    <2>1. a[j] \in AnyStore /\ a[j].marks = MarksAt("armmarkreturn", s, a, j)
      BY DEF MarkedFor
    <2>2. isReturn(j) => a[j].marks = {} /\ ~IsCall(s, a, j)
      BY <2>1 DEF MarksAt, Calls
    <2>3. /\ returns(a[j]) \in AnyStore /\ returns(a[j]).to = a[j].to
          /\ returns(a[j]).val = a[j].val /\ returns(a[j]).ret = a[j].ret
          /\ returns(a[j]).marks = a[j].marks \cup {"return"}
      BY <2>1 DEF AnyStore, Marks
    <2> HIDE DEF returns
    <2> QED
      BY <1>2, <2>1, <2>2, <2>3
  <1>4. b \in Seq(AnyStore) /\ Len(b) = Len(a)
    <2>1. b \in [1..Len(a) -> AnyStore]
      BY <1>1, <1>3
    <2> QED
      BY <1>1, <2>1, FunctionIsSequence
  <1>5. ASSUME NEW j \in DOMAIN b
        PROVE  /\ b[j].marks = MarksAt("armmarkjumps", s, b, j)
               /\ b[j].to = "PC" /\ IsCall(s, b, j) => b[j].ret = PcEnd[s]
    <2>1. j \in DOMAIN a
      BY <1>1
    <2>2. IsCall(s, b, j) <=> IsCall(s, a, j)
      <3>1. \A l \in DOMAIN a : b[l].to = a[l].to /\ b[l].val = a[l].val
        BY <1>3
      <3>2. Len(a) = Len(b) /\ b \in Seq(AnyStore)
        BY <1>4
      <3> QED
        BY <2>1, <3>1, <3>2, SameCalls
    <2>3. Constant(a[j]) <=> Constant(b[j])
      BY <1>3, <2>1 DEF Constant
    <2> QED
      BY <1>3, <2>1, <2>2, <2>3 DEF MarksAt, MarkedFor
  <1> QED
    BY <1>1, <1>3, <1>4, <1>5 DEF MarkedFor, SameTargets

\* ARMMarkJumps: whatever pass is next, the marks are complete.
LEMMA JumpsMarked ==
    ASSUME NEW a \in Seq(AnyStore), NEW s \in Starts, MarkedFor("armmarkjumps", s, a),
           NEW b, b = [j \in DOMAIN a |->
                         IF a[j].to = "PC"
                         THEN MarkJumps(a[j], SubSeq(a, 1, j - 1), PcEnd[s]) ELSE a[j]]
    PROVE  b \in Seq(AnyStore) /\ MarkedFor("markfuncentry", s, b) /\ SameTargets(a, b)
  <1> DEFINE kind(st) == IF Constant(st) THEN "directJump" ELSE "indirectJump"
             jumps(st) == [st EXCEPT !.marks = @ \cup {kind(st)}]
             isJump(j) == a[j].to = "PC" /\ a[j].marks = {}
  <1>1. DOMAIN a = 1..Len(a) /\ Len(a) \in Nat /\ DOMAIN b = 1..Len(a)
    OBVIOUS
  <1>2. \A j \in DOMAIN a : b[j] = IF isJump(j) THEN jumps(a[j]) ELSE a[j]
    BY DEF MarkJumps, Mark
  <1>3. ASSUME NEW j \in DOMAIN a
        PROVE  /\ b[j] \in AnyStore /\ b[j].to = a[j].to /\ b[j].val = a[j].val
               /\ b[j].ret = a[j].ret
               /\ isJump(j) => b[j].marks = {kind(a[j])}
               /\ ~isJump(j) => b[j].marks = a[j].marks
    <2>1. a[j] \in AnyStore
      OBVIOUS
    <2>2. kind(a[j]) \in Marks
      BY DEF Marks
    <2> HIDE DEF kind
    <2>3. /\ jumps(a[j]) \in AnyStore /\ jumps(a[j]).to = a[j].to
          /\ jumps(a[j]).val = a[j].val /\ jumps(a[j]).ret = a[j].ret
          /\ jumps(a[j]).marks = a[j].marks \cup {kind(a[j])}
      BY <2>1, <2>2 DEF AnyStore
    <2> HIDE DEF jumps
    <2> QED
      BY <1>2, <2>1, <2>3
  <1>4. b \in Seq(AnyStore) /\ Len(b) = Len(a)
    <2>1. b \in [1..Len(a) -> AnyStore]
      BY <1>1, <1>3
    <2> QED
      BY <1>1, <2>1, FunctionIsSequence
  <1>5. ASSUME NEW j \in DOMAIN b
        PROVE  /\ b[j].marks = MarksAt("markfuncentry", s, b, j)
               /\ b[j].to = "PC" /\ IsCall(s, b, j) => b[j].ret = PcEnd[s]
    <2>1. j \in DOMAIN a
      BY <1>1
    <2>2. IsCall(s, b, j) <=> IsCall(s, a, j)
      <3>1. \A l \in DOMAIN a : b[l].to = a[l].to /\ b[l].val = a[l].val
        BY <1>3
      <3>2. Len(a) = Len(b) /\ b \in Seq(AnyStore)
        BY <1>4
      <3> QED
        BY <2>1, <3>1, <3>2, SameCalls
    <2>3. Constant(a[j]) <=> Constant(b[j])
      BY <1>3, <2>1 DEF Constant
    <2>4. /\ a[j].marks = MarksAt("armmarkjumps", s, a, j)
          /\ a[j].to = "PC" /\ IsCall(s, a, j) => a[j].ret = PcEnd[s]
      BY <2>1 DEF MarkedFor
    <2>5. /\ b[j].to = a[j].to /\ b[j].val = a[j].val /\ b[j].ret = a[j].ret
          /\ b[j].marks = IF isJump(j) THEN {kind(a[j])} ELSE a[j].marks
      BY <1>3, <2>1
    <2>6. MarksAt("markfuncentry", s, b, j) =
             IF isJump(j) THEN {kind(a[j])} ELSE a[j].marks
      BY <2>2, <2>3, <2>4, <2>5 DEF MarksAt
    <2> QED
      BY <2>2, <2>4, <2>5, <2>6
  <1> QED
    BY <1>1, <1>3, <1>4, <1>5 DEF MarkedFor, SameTargets

----------------------------------------------------------------------------
(* The steps, for the blocks                                               *)

LEMMA ModInit == Init => ModInv
  <1> SUFFICES ASSUME Init PROVE ModInv
    OBVIOUS
  <1>1. mod \in AnyModule
    BY BlocksAssumption DEF Init, AnyModule
  <1>2. ASSUME NEW s \in Starts, NEW i \in DOMAIN mod[s]
        PROVE  MarkedFor("armmarkcall", s, mod[s][i].stores)
    BY BlocksAssumption DEF Init, MarkedFor, MarksAt
  <1>3. \A s \in Starts : ShapeOK(mod[s])
    BY BlocksAssumption DEF Init, ShapeOK
  <1> QED
    BY <1>1, <1>2, <1>3 DEF Init, ModInv, AnyModule, Passes, Marking

LEMMA MarkCallMod ==
    ASSUME ModInv, ARMMarkCall
    PROVE  ModInv'
  <1> DEFINE a(s, i) == mod[s][i].stores
             t == [s \in Starts |-> [i \in DOMAIN mod[s] |-> [j \in DOMAIN a(s, i) |->
                      IF a(s, i)[j].to = "PC"
                      THEN MarkCall(a(s, i)[j], SubSeq(a(s, i), 1, j - 1), PcEnd[s])
                      ELSE a(s, i)[j]]]]
  <1>1. /\ pass = "armmarkcall" /\ pass' = "armmarkreturn" /\ toBeRemoved' = {}
        /\ mod' = EachStore(MarkCall)
    BY DEF ARMMarkCall, ModInv
  <1>2. mod \in AnyModule
    BY DEF ModInv, AnyModule
  <1>3. ASSUME NEW s \in Starts, NEW i \in DOMAIN mod[s]
        PROVE  /\ t[s][i] \in Seq(AnyStore) /\ MarkedFor("armmarkreturn", s, t[s][i])
               /\ SameTargets(mod[s][i].stores, t[s][i])
    <2>1. a(s, i) \in Seq(AnyStore)
      BY <1>2, ModuleStores
    <2>2. MarkedFor("armmarkcall", s, a(s, i))
      BY <1>1 DEF ModInv
    <2> DEFINE r == a(s, i)
    <2>3. t[s][i] = [j \in DOMAIN r |->
                       IF r[j].to = "PC"
                       THEN MarkCall(r[j], SubSeq(r, 1, j - 1), PcEnd[s]) ELSE r[j]]
      OBVIOUS
    <2> HIDE DEF r, t
    <2> QED
      BY <2>1, <2>2, <2>3, CallsMarked DEF r
  <1>4. mod' = WithStores(mod, t)
    BY <1>1 DEF EachStore, WithStores
  <1> HIDE DEF t
  <1>5. /\ mod' \in AnyModule
        /\ \A s \in Starts : DOMAIN mod'[s] = DOMAIN mod[s]
              /\ \A i \in DOMAIN mod[s] :
                    /\ mod'[s][i].stores = t[s][i] /\ mod'[s][i].work = mod[s][i].work
                    /\ mod'[s][i].inner = mod[s][i].inner
    BY <1>2, <1>3, <1>4, NewStores
  <1>6. \A s \in Starts : \A i \in DOMAIN mod'[s] :
           MarkedFor("armmarkreturn", s, mod'[s][i].stores)
    BY <1>3, <1>5
  <1>7. ASSUME NEW s \in Starts PROVE ShapeOK(mod'[s])
    <2>1. /\ mod[s] \in Seq(AnyBB) /\ mod[s] # <<>> /\ mod'[s] \in Seq(AnyBB)
          /\ ShapeOK(mod[s])
      BY <1>2, <1>5 DEF AnyModule, ModInv
    <2>2. \A i \in DOMAIN mod[s] : SameTargets(mod[s][i].stores, mod'[s][i].stores)
      BY <1>3, <1>5
    <2> QED
      BY <1>5, <2>1, <2>2, SameShape
  <1> QED
    BY <1>1, <1>5, <1>6, <1>7 DEF ModInv, AnyModule, Passes, Marking

LEMMA MarkReturnMod ==
    ASSUME ModInv, ARMMarkReturn, pass' # "aborted"
    PROVE  ModInv'
  <1> DEFINE a(s, i) == mod[s][i].stores
             t == [s \in Starts |-> [i \in DOMAIN mod[s] |-> [j \in DOMAIN a(s, i) |->
                      IF a(s, i)[j].to = "PC"
                      THEN MarkReturn(a(s, i)[j], SubSeq(a(s, i), 1, j - 1), PcEnd[s])
                      ELSE a(s, i)[j]]]]
  <1>1. /\ pass = "armmarkreturn" /\ pass' = "armmarkjumps" /\ toBeRemoved' = {}
        /\ mod' = EachStore(MarkReturn)
    BY DEF ARMMarkReturn, ModInv
  <1>2. mod \in AnyModule
    BY DEF ModInv, AnyModule
  <1>3. ASSUME NEW s \in Starts, NEW i \in DOMAIN mod[s]
        PROVE  /\ t[s][i] \in Seq(AnyStore) /\ MarkedFor("armmarkjumps", s, t[s][i])
               /\ SameTargets(mod[s][i].stores, t[s][i])
    <2>1. a(s, i) \in Seq(AnyStore)
      BY <1>2, ModuleStores
    <2>2. MarkedFor("armmarkreturn", s, a(s, i))
      BY <1>1 DEF ModInv
    <2>4. \A j \in DOMAIN a(s, i) :
              a(s, i)[j].to = "PC" /\ a(s, i)[j].val = UsesLR =>
                  a(s, i)[j].marks \cap Calls = {}
      <3>1. \A st \in PCStores(mod) : st.val = UsesLR => st.marks \cap Calls = {}
        BY DEF ARMMarkReturn
      <3>2. \A j \in DOMAIN a(s, i) : a(s, i)[j].to = "PC" => a(s, i)[j] \in PCStores(mod)
        BY <1>2 DEF PCStores, Range, AnyModule
      <3> QED
        BY <3>1, <3>2
    <2> DEFINE r == a(s, i)
    <2>3. t[s][i] = [j \in DOMAIN r |->
                       IF r[j].to = "PC"
                       THEN MarkReturn(r[j], SubSeq(r, 1, j - 1), PcEnd[s]) ELSE r[j]]
      OBVIOUS
    <2> HIDE DEF r, t
    <2> QED
      BY <2>1, <2>2, <2>4, <2>3, ReturnsMarked DEF r
  <1>4. mod' = WithStores(mod, t)
    BY <1>1 DEF EachStore, WithStores
  <1> HIDE DEF t
  <1>5. /\ mod' \in AnyModule
        /\ \A s \in Starts : DOMAIN mod'[s] = DOMAIN mod[s]
              /\ \A i \in DOMAIN mod[s] :
                    /\ mod'[s][i].stores = t[s][i] /\ mod'[s][i].work = mod[s][i].work
                    /\ mod'[s][i].inner = mod[s][i].inner
    BY <1>2, <1>3, <1>4, NewStores
  <1>6. \A s \in Starts : \A i \in DOMAIN mod'[s] :
           MarkedFor("armmarkjumps", s, mod'[s][i].stores)
    BY <1>3, <1>5
  <1>7. ASSUME NEW s \in Starts PROVE ShapeOK(mod'[s])
    <2>1. /\ mod[s] \in Seq(AnyBB) /\ mod[s] # <<>> /\ mod'[s] \in Seq(AnyBB)
          /\ ShapeOK(mod[s])
      BY <1>2, <1>5 DEF AnyModule, ModInv
    <2>2. \A i \in DOMAIN mod[s] : SameTargets(mod[s][i].stores, mod'[s][i].stores)
      BY <1>3, <1>5
    <2> QED
      BY <1>5, <2>1, <2>2, SameShape
  <1> QED
    BY <1>1, <1>5, <1>6, <1>7 DEF ModInv, AnyModule, Passes, Marking

LEMMA MarkJumpsMod ==
    ASSUME ModInv, ARMMarkJumps
    PROVE  ModInv'
  <1> DEFINE a(s, i) == mod[s][i].stores
             t == [s \in Starts |-> [i \in DOMAIN mod[s] |-> [j \in DOMAIN a(s, i) |->
                      IF a(s, i)[j].to = "PC"
                      THEN MarkJumps(a(s, i)[j], SubSeq(a(s, i), 1, j - 1), PcEnd[s])
                      ELSE a(s, i)[j]]]]
  <1>1. /\ pass = "armmarkjumps" /\ pass' = "markfuncentry" /\ toBeRemoved' = {}
        /\ mod' = EachStore(MarkJumps)
    BY DEF ARMMarkJumps, ModInv
  <1>2. mod \in AnyModule
    BY DEF ModInv, AnyModule
  <1>3. ASSUME NEW s \in Starts, NEW i \in DOMAIN mod[s]
        PROVE  /\ t[s][i] \in Seq(AnyStore) /\ MarkedFor("markfuncentry", s, t[s][i])
               /\ SameTargets(mod[s][i].stores, t[s][i])
    <2>1. a(s, i) \in Seq(AnyStore)
      BY <1>2, ModuleStores
    <2>2. MarkedFor("armmarkjumps", s, a(s, i))
      BY <1>1 DEF ModInv
    <2> DEFINE r == a(s, i)
    <2>3. t[s][i] = [j \in DOMAIN r |->
                       IF r[j].to = "PC"
                       THEN MarkJumps(r[j], SubSeq(r, 1, j - 1), PcEnd[s]) ELSE r[j]]
      OBVIOUS
    <2> HIDE DEF r, t
    <2> QED
      BY <2>1, <2>2, <2>3, JumpsMarked DEF r
  <1>4. mod' = WithStores(mod, t)
    BY <1>1 DEF EachStore, WithStores
  <1> HIDE DEF t
  <1>5. /\ mod' \in AnyModule
        /\ \A s \in Starts : DOMAIN mod'[s] = DOMAIN mod[s]
              /\ \A i \in DOMAIN mod[s] :
                    /\ mod'[s][i].stores = t[s][i] /\ mod'[s][i].work = mod[s][i].work
                    /\ mod'[s][i].inner = mod[s][i].inner
    BY <1>2, <1>3, <1>4, NewStores
  <1>6. \A s \in Starts : \A i \in DOMAIN mod'[s] :
           MarkedFor("markfuncentry", s, mod'[s][i].stores)
    BY <1>3, <1>5
  <1>7. ASSUME NEW s \in Starts PROVE ShapeOK(mod'[s])
    <2>1. /\ mod[s] \in Seq(AnyBB) /\ mod[s] # <<>> /\ mod'[s] \in Seq(AnyBB)
          /\ ShapeOK(mod[s])
      BY <1>2, <1>5 DEF AnyModule, ModInv
    <2>2. \A i \in DOMAIN mod[s] : SameTargets(mod[s][i].stores, mod'[s][i].stores)
      BY <1>3, <1>5
    <2> QED
      BY <1>5, <2>1, <2>2, SameShape
  <1> QED
    BY <1>1, <1>5, <1>6, <1>7 DEF ModInv, AnyModule, Passes, Marking

\* The passes after the marks see the same marks.
LaterPasses == Passes \ Marking

LEMMA ModStep ==
    ASSUME ModInv, [Next]_vars
    PROVE  ModInv'
  <1>1. \A p, q \in LaterPasses : \A s, a : MarkedFor(p, s, a) <=> MarkedFor(q, s, a)
    <2>1. ASSUME NEW p \in LaterPasses
          PROVE  /\ p # "armmarkcall" /\ p # "armmarkreturn" /\ p # "armmarkjumps"
      BY DEF LaterPasses, Marking
    <2>2. ASSUME NEW p \in LaterPasses, NEW q \in LaterPasses, NEW s, NEW a, NEW j
          PROVE  MarksAt(p, s, a, j) = MarksAt(q, s, a, j)
      BY <2>1, Zenon DEF MarksAt
    <2> QED
      BY <2>1, <2>2 DEF MarkedFor
  <1>2. ASSUME mod' = mod, toBeRemoved' = toBeRemoved,
               pass \in LaterPasses, pass' \in LaterPasses
        PROVE  ModInv'
    <2>1. pass # "aborted" /\ pass' # "aborted" /\ pass' \in Passes
      BY <1>2 DEF LaterPasses, Marking
    <2>2. \A s \in Starts : \A i \in DOMAIN mod[s] : MarkedFor(pass', s, mod[s][i].stores)
      BY <1>1, <1>2, <2>1 DEF ModInv
    <2> QED
      BY <1>2, <2>1, <2>2 DEF ModInv
  <1>3. CASE ARMMarkCall
    BY <1>3, MarkCallMod
  <1>4. CASE ARMMarkReturn
    <2>1. CASE pass' # "aborted"
      BY <1>4, <2>1, MarkReturnMod
    <2>2. CASE pass' = "aborted"
      BY <1>4, <2>2 DEF ARMMarkReturn, ModInv, Passes, Marking
    <2> QED
      BY <2>1, <2>2
  <1>5. CASE ARMMarkJumps
    BY <1>5, MarkJumpsMod
  <1> USE DEF LaterPasses, Passes, Marking, InFunction
  <1>6. CASE MarkFuncEntry
    BY <1>2, <1>6 DEF MarkFuncEntry
  <1>7. CASE SkipBlock
    BY <1>2, <1>7 DEF SkipBlock
  <1>8. CASE MakeFunctionForward
    BY <1>2, <1>8 DEF MakeFunctionForward
  <1>9. CASE ExploreBB
    BY <1>2, <1>9 DEF ExploreBB
  <1>10. CASE InlineBBs
    BY <1>2, <1>10 DEF InlineBBs
  <1>11. CASE FixupCalls \/ FixupDirectJumps \/ FixupIndirectJumps \/ FixupReturns
    BY <1>2, <1>11 DEF FixupCalls, FixupDirectJumps, FixupIndirectJumps, FixupReturns, Fixup
  <1>12. CASE FinishFunction
    BY <1>2, <1>12 DEF FinishFunction
  <1>13. CASE SaveFunctions
    BY <1>2, <1>13 DEF SaveFunctions
  <1>14. CASE Cleanup
    <2>1. mod' = [s \in Starts |-> mod[s]]
      BY <1>14 DEF Cleanup, ModInv
    <2>2. mod' = mod
      BY <2>1 DEF ModInv
    <2> QED
      BY <1>2, <1>14, <2>2 DEF Cleanup
  <1>15. CASE UNCHANGED vars
    BY <1>15 DEF vars, ModInv
  <1> QED
    BY <1>3, <1>4, <1>5, <1>6, <1>7, <1>8, <1>9, <1>10, <1>11, <1>12, <1>13, <1>14,
       <1>15 DEF Next

\* Once the marks are made, no pass changes a block.
LEMMA ModStays ==
    ASSUME ModInv, [Next]_vars, pass \in LaterPasses
    PROVE  mod' = mod /\ pass' \in LaterPasses
  <1> USE DEF LaterPasses, Passes, Marking, InFunction
  <1>1. pass \notin {"armmarkcall", "armmarkreturn", "armmarkjumps"}
    OBVIOUS
  <1>2. CASE MarkFuncEntry \/ SkipBlock \/ MakeFunctionForward \/ ExploreBB \/ InlineBBs
    BY <1>2 DEF MarkFuncEntry, SkipBlock, MakeFunctionForward, ExploreBB, InlineBBs
  <1>3. CASE FixupCalls \/ FixupDirectJumps \/ FixupIndirectJumps \/ FixupReturns
    BY <1>3 DEF FixupCalls, FixupDirectJumps, FixupIndirectJumps, FixupReturns, Fixup
  <1>4. CASE FinishFunction \/ SaveFunctions
    BY <1>4 DEF FinishFunction, SaveFunctions
  <1>5. CASE Cleanup
    <2>1. mod' = [s \in Starts |-> mod[s]]
      BY <1>5 DEF Cleanup, ModInv
    <2>2. mod' = mod
      BY <2>1 DEF ModInv
    <2> QED
      BY <1>5, <2>2 DEF Cleanup
  <1>6. CASE UNCHANGED vars
    BY <1>6 DEF vars
  <1> QED
    BY <1>1, <1>2, <1>3, <1>4, <1>5, <1>6
       DEF Next, ARMMarkCall, ARMMarkReturn, ARMMarkJumps

\* The mark of a store to PC, in the end.
LEMMA FinalMark ==
    ASSUME ModInv, pass \in LaterPasses, NEW s \in Starts, NEW i \in DOMAIN mod[s],
           NEW j \in DOMAIN mod[s][i].stores
    PROVE  LET a == mod[s][i].stores
               st == a[j]
           IN  /\ st \in AnyStore
               /\ st.to # "PC" => st.marks = {}
               /\ st.to = "PC" =>
                     /\ \E m \in Marks : st.marks = {m}
                     /\ st.marks \cap Calls # {} => IsCall(s, a, j) /\ st.ret = PcEnd[s]
                     /\ "directCall" \in st.marks <=> Constant(st) /\ IsCall(s, a, j)
  <1> DEFINE a == mod[s][i].stores
             st == a[j]
  <1>1. st \in AnyStore
    <2>1. mod \in AnyModule
      BY DEF ModInv, AnyModule
    <2>2. a \in Seq(AnyStore)
      BY <2>1, ModuleStores
    <2> QED
      BY <2>2
  <1>2. /\ pass # "aborted" /\ pass # "armmarkcall" /\ pass # "armmarkreturn"
        /\ pass # "armmarkjumps"
    BY DEF LaterPasses, Marking
  <1>3. /\ st.marks = MarksAt(pass, s, a, j)
        /\ st.to = "PC" /\ IsCall(s, a, j) => st.ret = PcEnd[s]
    BY <1>2 DEF ModInv, MarkedFor
  <1>4. st.to # "PC" => st.marks = {}
    BY <1>3 DEF MarksAt
  <1>5. ASSUME st.to = "PC"
        PROVE  st.marks = {IF IsCall(s, a, j)
                           THEN IF Constant(st) THEN "directCall" ELSE "indirectCall"
                           ELSE IF st.val = UsesLR THEN "return"
                           ELSE IF Constant(st) THEN "directJump" ELSE "indirectJump"}
    BY <1>2, <1>3, <1>5 DEF MarksAt
  <1> HIDE DEF a, st
  <1>6. ASSUME st.to = "PC"
        PROVE  /\ \E m \in Marks : st.marks = {m}
               /\ st.marks \cap Calls # {} => IsCall(s, a, j)
               /\ "directCall" \in st.marks <=> Constant(st) /\ IsCall(s, a, j)
    BY <1>5, <1>6 DEF Marks, Calls
  <1> QED
    BY <1>1, <1>3, <1>4, <1>6 DEF a, st

LEMMA OneMarkHolds == ModInv => OneMark
  <1> SUFFICES ASSUME ModInv, pass \notin Marking, NEW s \in DOMAIN mod,
                      NEW i \in DOMAIN mod[s], NEW j \in DOMAIN mod[s][i].stores,
                      mod[s][i].stores[j].to = "PC"
               PROVE  LET st == mod[s][i].stores[j]
                      IN  /\ \E m \in Marks : st.marks = {m}
                          /\ st.marks \cap Calls # {} =>
                              /\ st.ret = PcEnd[s]
                              /\ \E k \in 1..(j - 1) :
                                    mod[s][i].stores[k].val \in {PcEnd[s], PcEnd[s] + 1}
    BY DEF OneMark
  <1>1. s \in Starts /\ pass \in LaterPasses
    BY DEF ModInv, LaterPasses
  <1> DEFINE a == mod[s][i].stores
  <1>2. a \in Seq(AnyStore)
    <2>1. mod \in AnyModule
      BY DEF ModInv, AnyModule
    <2> QED
      BY <1>1, <2>1, ModuleStores
  <1>3. /\ \E m \in Marks : a[j].marks = {m}
        /\ a[j].marks \cap Calls # {} => IsCall(s, a, j) /\ a[j].ret = PcEnd[s]
    BY <1>1, FinalMark
  <1> HIDE DEF a
  <1>4. j \in DOMAIN a
    BY DEF a
  <1>5. ASSUME a[j].marks \cap Calls # {}
        PROVE  /\ a[j].ret = PcEnd[s]
               /\ \E k \in 1..(j - 1) : a[k].val \in {PcEnd[s], PcEnd[s] + 1}
    <2>1. IsCall(s, a, j) /\ a[j].ret = PcEnd[s]
      BY <1>3, <1>5
    <2> QED
      BY <1>1, <1>2, <1>4, <2>1, CallStore
  <1> QED
    BY <1>3, <1>5 DEF a

\* MarkFuncEntry finds what the blocks call in their first basic block.
LEMMA EntriesAreCalled ==
    ASSUME ModInv, pass = "markfuncentry"
    PROVE  {t \in Starts : \E s \in Starts : \E st \in Range(mod[s][1].stores) :
                "directCall" \in st.marks /\ st.val = t}
           = Starts \cap UNION {FirstBlockCalls(s) : s \in Starts}
  <1>1. ASSUME NEW s \in Starts, NEW t
        PROVE  (\E st \in Range(mod[s][1].stores) : "directCall" \in st.marks /\ st.val = t)
               <=> t \in FirstBlockCalls(s)
    <2> DEFINE a == mod[s][1].stores
               lrs(j) == {k \in 1..(j - 1) : a[k].to = "LR" /\ Constant(a[k])}
    <2>1. 1 \in DOMAIN mod[s] /\ a \in Seq(AnyStore) /\ pass \in LaterPasses
      <3>1. mod \in AnyModule
        BY DEF ModInv, AnyModule
      <3>2. mod[s] \in Seq(AnyBB) /\ mod[s] # <<>>
        BY <3>1, ModuleStores
      <3>3. 1 \in DOMAIN mod[s]
        BY <3>2
      <3> QED
        BY <3>1, <3>3, ModuleStores DEF LaterPasses, Passes, Marking
    <2>2. ASSUME NEW j \in DOMAIN a
          PROVE  /\ lrs(j) = LRsBefore(a, j)
                 /\ "directCall" \in a[j].marks
                    <=> a[j].to = "PC" /\ Constant(a[j]) /\ IsCall(s, a, j)
                 /\ IsCall(s, a, j) <=>
                       /\ lrs(j) # {}
                       /\ a[Max(lrs(j))].val \in {PcEnd[s], PcEnd[s] + 1}
      <3>1. lrs(j) = LRsBefore(a, j)
        BY DEF LRsBefore
      <3>2. "directCall" \in a[j].marks
            <=> a[j].to = "PC" /\ Constant(a[j]) /\ IsCall(s, a, j)
        BY <2>1, FinalMark
      <3> HIDE DEF lrs, a
      <3>3. ASSUME lrs(j) # {}
            PROVE  IsReturnAddress(a[Max(lrs(j))].val, PcEnd[s])
                   <=> a[Max(lrs(j))].val \in {PcEnd[s], PcEnd[s] + 1}
        <4>1. j - 1 \in Nat /\ LRsBefore(a, j) \in SUBSET (1..(j - 1))
          BY <2>1 DEF LRsBefore
        <4>2. Max(lrs(j)) \in 1..(j - 1)
          BY <3>1, <3>3, <4>1, MaxPosition
        <4>3. a[Max(lrs(j))] \in AnyStore
          BY <2>1, <4>2
        <4>4. a[Max(lrs(j))].val \in Int /\ PcEnd[s] \in Nat
          BY <4>3, StoreFields, StartsAreCode
        <4> QED
          BY <4>4 DEF IsReturnAddress
      <3> QED
        BY <3>1, <3>2, <3>3 DEF IsCall
    <2>3. FirstBlockCalls(s) =
            {a[j].val : j \in {i \in DOMAIN a :
                /\ a[i].to = "PC" /\ Constant(a[i])
                /\ lrs(i) # {} /\ a[Max(lrs(i))].val \in {PcEnd[s], PcEnd[s] + 1}}}
      BY DEF FirstBlockCalls
    <2>4. t \in FirstBlockCalls(s)
          <=> \E j \in DOMAIN a : "directCall" \in a[j].marks /\ a[j].val = t
      <3> HIDE DEF a, lrs
      <3> QED
        BY <2>2, <2>3
    <2> QED
      BY <2>4 DEF Range
  <1> QED
    BY <1>1

----------------------------------------------------------------------------
(* The steps, for the choice of the functions                              *)

LEMMA EntriesStep ==
    ASSUME ModInv, EntriesInv, [Next]_vars
    PROVE  EntriesInv'
  <1>1. CASE pass \notin LaterPasses
    <2>1. pass \in Marking
      BY <1>1 DEF ModInv, LaterPasses
    <2>2. pass' \in Marking \cup {"markfuncentry"}
      BY <2>1 DEF Marking, Next, vars, ARMMarkCall, ARMMarkReturn, ARMMarkJumps,
                  MarkFuncEntry, SkipBlock, MakeFunctionForward, ExploreBB, InlineBBs,
                  FixupCalls, FixupDirectJumps, FixupIndirectJumps, FixupReturns, Fixup,
                  FinishFunction, SaveFunctions, Cleanup
    <2> QED
      BY <2>2 DEF EntriesInv
  <1>2. CASE pass \in LaterPasses
    <2>1. mod' = mod
      BY <1>2, ModStays
    <2>2. \A s \in Starts : FirstBlockCalls(s)' = FirstBlockCalls(s)
      BY <2>1 DEF FirstBlockCalls
    <2>3. CASE pass = "markfuncentry"
      <3>1. MarkFuncEntry \/ UNCHANGED vars
        BY <2>3 DEF Next, ARMMarkCall, ARMMarkReturn, ARMMarkJumps, SkipBlock,
                    MakeFunctionForward, ExploreBB, InlineBBs, FixupCalls,
                    FixupDirectJumps, FixupIndirectJumps, FixupReturns, Fixup,
                    FinishFunction, SaveFunctions, Cleanup
      <3>2. CASE MarkFuncEntry
        <4>1. entries' = Starts \cap UNION {FirstBlockCalls(s) : s \in Starts}
          BY <2>3, <3>2, EntriesAreCalled DEF MarkFuncEntry
        <4> QED
          BY <2>2, <4>1 DEF EntriesInv
      <3>3. CASE UNCHANGED vars
        BY <2>3, <3>3 DEF EntriesInv, vars
      <3> QED
        BY <3>1, <3>2, <3>3
    <2>4. CASE pass # "markfuncentry"
      <3>1. entries' = entries
        BY <1>2, <2>4
           DEF Next, vars, ARMMarkCall, ARMMarkReturn, ARMMarkJumps, MarkFuncEntry,
               SkipBlock, MakeFunctionForward, ExploreBB, InlineBBs, FixupCalls,
               FixupDirectJumps, FixupIndirectJumps, FixupReturns, Fixup,
               FinishFunction, SaveFunctions, Cleanup
      <3>2. pass \notin Marking \cup {"markfuncentry"}
        BY <1>2, <2>4 DEF LaterPasses
      <3>3. entries = Starts \cap UNION {FirstBlockCalls(s) : s \in Starts}
        BY <3>2 DEF EntriesInv
      <3> QED
        BY <2>2, <3>1, <3>3 DEF EntriesInv
    <2> QED
      BY <2>3, <2>4
  <1> QED
    BY <1>1, <1>2

LEMMA BuiltStep ==
    ASSUME ModInv, BuiltInv, [Next]_vars
    PROVE  BuiltInv'
  <1> DEFINE n == Len(Order)
             builtAt(e, p) == {s \in e : \E i \in 1..(p - 1) : Order[i] = s}
  <1> USE DEF Marking, InFunction, Saved
  <1>1. n \in Nat /\ \A i \in 1..n : Order[i] \in Starts
    BY BlocksAssumption DEF Starts, Range
  <1>2. pos \in 1..(n + 1) /\ DOMAIN built = builtAt(entries, pos)
    BY DEF BuiltInv
  <1>3. CASE ARMMarkCall \/ ARMMarkReturn \/ ARMMarkJumps
    BY <1>3 DEF ARMMarkCall, ARMMarkReturn, ARMMarkJumps, BuiltInv
  <1>4. CASE MarkFuncEntry
    <2>1. pos = 1 /\ 1..(1 - 1) = {}
      BY <1>4 DEF MarkFuncEntry, BuiltInv
    <2>2. pos' = 1 /\ built' = built /\ pass' = "search" /\ DOMAIN built = {}
      BY <1>2, <1>4, <2>1 DEF MarkFuncEntry
    <2> QED
      BY <1>1, <2>1, <2>2 DEF BuiltInv
  <1>5. CASE SkipBlock
    <2>1. /\ pos <= n /\ Order[pos] \notin entries /\ pos' = pos + 1
          /\ built' = built /\ entries' = entries /\ pass' = "search"
      BY <1>5 DEF SkipBlock
    <2> DEFINE q == pos + 1
    <2>2. \A i \in 1..(q - 1) : i \in 1..(pos - 1) \/ i = pos
      BY <1>2
    <2>3. \A i \in 1..(pos - 1) : i \in 1..(q - 1)
      BY <1>2
    <2> HIDE DEF q
    <2>4. builtAt(entries, q) = builtAt(entries, pos)
      BY <2>1, <2>2, <2>3
    <2>5. DOMAIN built' = builtAt(entries', pos')
      BY <1>2, <2>1, <2>4 DEF q
    <2>6. pos' \in 1..(n + 1)
      BY <1>1, <1>2, <2>1
    <2> QED
      BY <2>1, <2>5, <2>6 DEF BuiltInv
  <1>6. CASE MakeFunctionForward
    BY <1>6 DEF MakeFunctionForward, BuiltInv
  <1>7. CASE ExploreBB \/ InlineBBs
    BY <1>7 DEF ExploreBB, InlineBBs, BuiltInv
  <1>8. CASE FixupCalls \/ FixupDirectJumps \/ FixupIndirectJumps \/ FixupReturns
    BY <1>8 DEF FixupCalls, FixupDirectJumps, FixupIndirectJumps, FixupReturns, Fixup, BuiltInv
  <1>9. CASE FinishFunction
    <2>1. /\ pos <= n /\ Order[pos] \in entries /\ pos' = pos + 1 /\ entries' = entries
          /\ pass' = "search" /\ DOMAIN built' = DOMAIN built \cup {Order[pos]}
      BY <1>9 DEF FinishFunction, BuiltInv
    <2>2. \A i \in 1..(pos + 1 - 1) : i \in 1..(pos - 1) \/ i = pos
      BY <1>2
    <2>3. \A i \in 1..(pos - 1) : i \in 1..(pos + 1 - 1)
      BY <1>2
    <2>4. pos \in 1..(pos + 1 - 1)
      BY <1>2
    <2>5. builtAt(entries, pos + 1) = builtAt(entries, pos) \cup {Order[pos]}
      BY <2>1, <2>2, <2>3, <2>4
    <2>6. DOMAIN built' = builtAt(entries', pos')
      BY <1>2, <2>1, <2>5
    <2>7. pos' \in 1..(n + 1)
      BY <1>1, <1>2, <2>1
    <2> QED
      BY <2>1, <2>6, <2>7 DEF BuiltInv
  <1>10. CASE SaveFunctions
    BY <1>1, <1>2, <1>10 DEF SaveFunctions, BuiltInv
  <1>11. CASE Cleanup
    BY <1>11 DEF Cleanup, BuiltInv
  <1>12. CASE UNCHANGED vars
    BY <1>12 DEF vars, BuiltInv
  <1> QED
    BY <1>3, <1>4, <1>5, <1>6, <1>7, <1>8, <1>9, <1>10, <1>11, <1>12 DEF Next

----------------------------------------------------------------------------
(* The steps, for the extent of a function                                 *)

LEMMA PCStoresMembers ==
    ASSUME NEW b \in Seq(AnyBB)
    PROVE  /\ PCStoresOf(b) \in Seq(AnyStore)
           /\ \A st \in Range(PCStoresOf(b)) :
                 /\ st.to = "PC"
                 /\ \E i \in DOMAIN b : \E j \in DOMAIN b[i].stores : st = b[i].stores[j]
           /\ \A i \in DOMAIN b : \A j \in DOMAIN b[i].stores :
                 b[i].stores[j].to = "PC" => b[i].stores[j] \in Range(PCStoresOf(b))
  <1> DEFINE ss == [i \in DOMAIN b |-> b[i].stores]
             flat == FlattenSeq(ss)
             I == {i \in DOMAIN flat : flat[i].to = "PC"}
  <1>1. ss \in Seq(Seq(AnyStore)) /\ DOMAIN ss = DOMAIN b /\ DOMAIN b = 1..Len(ss)
    <2>0. \A i \in DOMAIN b : b[i] \in AnyBB
      OBVIOUS
    <2>1. \A i \in DOMAIN b : b[i].stores \in Seq(AnyStore)
      BY <2>0 DEF AnyBB
    <2>2. ss \in [1..Len(b) -> Seq(AnyStore)] /\ Len(b) \in Nat
      BY <2>1
    <2> HIDE DEF ss
    <2>3. ss \in Seq(Seq(AnyStore)) /\ Len(ss) = Len(b)
      BY <2>2, FunctionIsSequence
    <2> QED
      BY <2>3
  <1>2. \A i \in DOMAIN b : ss[i] = b[i].stores
    OBVIOUS
  <1> HIDE DEF ss
  <1>3. /\ flat \in Seq(AnyStore)
        /\ Range(flat) = UNION {Range(ss[i]) : i \in 1..Len(ss)}
    BY <1>1, FlattenMembers
  <1>4. PCStoresOf(b) = KeepAt(flat, I)
    BY DEF PCStoresOf, ss
  <1> HIDE DEF flat
  <1>5. /\ KeepAt(flat, I) \in Seq(AnyStore)
        /\ Range(KeepAt(flat, I)) = {flat[i] : i \in I \cap (1..Len(flat))}
    <2> HIDE DEF I
    <2> QED
      BY <1>3, KeepAtMembers
  <1>6. ASSUME NEW st \in Range(PCStoresOf(b))
        PROVE  /\ st.to = "PC"
               /\ \E i \in DOMAIN b : \E j \in DOMAIN b[i].stores : st = b[i].stores[j]
    <2>1. PICK k \in I : st = flat[k]
      BY <1>4, <1>5
    <2>2. st.to = "PC" /\ st \in Range(flat)
      BY <2>1 DEF Range
    <2>3. PICK i \in 1..Len(ss) : st \in Range(ss[i])
      BY <1>3, <2>2
    <2>4. i \in DOMAIN b /\ st \in Range(b[i].stores)
      BY <1>1, <1>2, <2>3
    <2> QED
      BY <2>2, <2>4 DEF Range
  <1>7. ASSUME NEW i \in DOMAIN b, NEW j \in DOMAIN b[i].stores, b[i].stores[j].to = "PC"
        PROVE  b[i].stores[j] \in Range(PCStoresOf(b))
    <2> DEFINE st == b[i].stores[j]
    <2>1. st \in Range(ss[i]) /\ i \in 1..Len(ss)
      BY <1>1, <1>2 DEF Range
    <2> HIDE DEF st
    <2>2. st \in Range(flat)
      BY <1>3, <2>1
    <2>3. PICK k \in DOMAIN flat : flat[k] = st
      BY <2>2 DEF Range
    <2>4. k \in I \cap (1..Len(flat))
      BY <1>3, <1>7, <2>3 DEF st
    <2> QED
      BY <1>4, <1>5, <2>3, <2>4 DEF st
  <1> QED
    BY <1>4, <1>5, <1>6, <1>7

\* exploreBB looks at what follows a store with one mark.
LEMMA NextIsFollow ==
    ASSUME NEW st \in AnyStore, NEW m \in Marks, st.marks = {m}
    PROVE  NextPCs(st) \in Seq(Int) /\ Range(NextPCs(st)) = Follow(st)
  <1> DEFINE ret == st.ret
             val == st.val
             dflt == st.dflt
             cases == st.cases
  <1>1. ret \in Int /\ val \in Int /\ dflt \in Int /\ cases \in Seq(Int)
    BY StoreFields
  <1> HIDE DEF ret, val, dflt, cases
  <1>2. \A v \in Int : <<v>> \in Seq(Int) /\ Range(<<v>>) = {v}
    BY DEF Range
  <1>3. <<>> \in Seq(Int) /\ Range(<<>>) = {}
    BY DEF Range
  <1>4. SwitchTargets(st) \in Seq(Int) /\ Range(SwitchTargets(st)) = Range(cases) \cup {dflt}
    <2> DEFINE a == Append(cases, dflt)
    <2>1. a \in Seq(Int) /\ DOMAIN a = 1..Len(a) /\ DOMAIN cases = 1..Len(cases)
      BY <1>1
    <2>2. {a[j] : j \in 1..Len(a)} = {cases[j] : j \in 1..Len(cases)} \cup {dflt}
      <3> DEFINE Z == Int
      <3>1. cases \in Seq(Z) /\ dflt \in Z
        BY <1>1
      <3> HIDE DEF Z
      <3> QED
        BY <3>1, AppendMembers
    <2>3. SwitchTargets(st) = a
      BY DEF SwitchTargets, cases, dflt
    <2> HIDE DEF a
    <2> QED
      BY <2>1, <2>2, <2>3 DEF Range
  <1>5. CASE m \in Calls
    <2>1. st.marks \cap Calls # {} /\ m # "directJump" /\ m # "indirectJump"
      BY <1>5 DEF Calls
    <2>2. st.marks # {"directJump"} /\ st.marks # {"indirectJump"}
      BY <2>1
    <2>3. NextPCs(st) = <<ret>> /\ Follow(st) = {ret}
      BY <2>1, <2>2 DEF NextPCs, Follow, ret
    <2> QED
      BY <1>1, <1>2, <2>3
  <1>6. CASE m = "directJump"
    <2>1. NextPCs(st) = <<val>> /\ Follow(st) = {val}
      BY <1>6 DEF NextPCs, Follow, val, Calls
    <2> QED
      BY <1>1, <1>2, <2>1
  <1>7. CASE m = "indirectJump"
    <2>1. CASE cases # <<>>
      <3>1. NextPCs(st) = SwitchTargets(st) /\ Follow(st) = Range(cases) \cup {dflt}
        BY <1>7, <2>1 DEF NextPCs, Follow, IsSwitch, cases, dflt, Calls
      <3> QED
        BY <1>4, <3>1
    <2>2. CASE cases = <<>>
      <3>1. NextPCs(st) = <<>> /\ Follow(st) = {}
        BY <1>7, <2>2 DEF NextPCs, Follow, IsSwitch, cases, Calls
      <3> QED
        BY <1>3, <3>1
    <2> QED
      BY <2>1, <2>2
  <1>8. CASE m = "return"
    <2>1. NextPCs(st) = <<>> /\ Follow(st) = {}
      BY <1>8 DEF NextPCs, Follow, IsSwitch, Calls
    <2> QED
      BY <1>3, <2>1
  <1> QED
    BY <1>5, <1>6, <1>7, <1>8 DEF Marks, Calls

LEMMA NextPCsMembers ==
    ASSUME ModInv, pass \in LaterPasses, NEW s \in Starts
    PROVE  /\ NextPCsOf(mod[s]) \in Seq(Int)
           /\ Range(NextPCsOf(mod[s])) = UNION {Follow(st) : st \in Range(PCStoresOf(mod[s]))}
  <1> DEFINE b == mod[s]
             stores == PCStoresOf(b)
             ss == [i \in DOMAIN stores |-> NextPCs(stores[i])]
  <1>1. b \in Seq(AnyBB)
    <2>1. mod \in AnyModule
      BY DEF ModInv, AnyModule
    <2> QED
      BY <2>1, ModuleStores
  <1>2. ASSUME NEW st \in Range(stores)
        PROVE  NextPCs(st) \in Seq(Int) /\ Range(NextPCs(st)) = Follow(st)
    <2>1. PICK i \in DOMAIN b : \E j \in DOMAIN b[i].stores :
                                   st = b[i].stores[j] /\ st.to = "PC"
      BY <1>1, PCStoresMembers
    <2>2. st \in AnyStore /\ \E m \in Marks : st.marks = {m}
      BY <2>1, FinalMark
    <2> QED
      BY <2>2, NextIsFollow
  <1>3. stores \in Seq(AnyStore) /\ Len(stores) \in Nat /\ DOMAIN stores = 1..Len(stores)
    BY <1>1, PCStoresMembers
  <1>4. NextPCsOf(b) = FlattenSeq(ss)
    BY DEF NextPCsOf
  <1> HIDE DEF stores, b
  <1>5. \A i \in 1..Len(stores) :
           ss[i] = NextPCs(stores[i]) /\ ss[i] \in Seq(Int) /\ Range(ss[i]) = Follow(stores[i])
    BY <1>2, <1>3 DEF Range
  <1>6. ss \in [1..Len(stores) -> Seq(Int)]
    BY <1>3, <1>5
  <1> HIDE DEF ss
  <1>7. ss \in Seq(Seq(Int)) /\ Len(ss) = Len(stores)
    BY <1>3, <1>6, FunctionIsSequence
  <1>8. FlattenSeq(ss) \in Seq(Int) /\ Range(FlattenSeq(ss)) = UNION {Range(ss[i]) : i \in 1..Len(ss)}
    <2> DEFINE Z == Int
    <2>1. ss \in Seq(Seq(Z))
      BY <1>7
    <2> HIDE DEF Z
    <2>2. FlattenSeq(ss) \in Seq(Z) /\ Range(FlattenSeq(ss)) = UNION {Range(ss[i]) : i \in 1..Len(ss)}
      BY <2>1, FlattenMembers
    <2> QED
      BY <2>2 DEF Z
  <1>9. UNION {Range(ss[i]) : i \in 1..Len(ss)} = UNION {Follow(st) : st \in Range(stores)}
    <2>1. Range(stores) = {stores[i] : i \in 1..Len(stores)}
      BY <1>3 DEF Range
    <2>2. \A i \in 1..Len(stores) : Range(ss[i]) = Follow(stores[i])
      BY <1>5
    <2> QED
      BY <1>7, <2>1, <2>2
  <1> QED
    BY <1>4, <1>8, <1>9 DEF b, stores

LEMMA ExploreStep ==
    ASSUME ModInv, ExploreInv, BuiltInv, [Next]_vars
    PROVE  ExploreInv'
  <1> DEFINE entry == Order[pos]
  <1>1. \A S : Closed(S)' <=> \A s \in S : \A st \in Range(PCStoresOf(mod'[s])) :
                                Follow(st) \cap Starts \subseteq S
    BY DEF Closed
  <1>2. CASE MakeFunctionForward
    <2>1. mod' = mod /\ pos' = pos /\ entry \in Starts /\ blocks' = <<entry>>
          /\ toExpand' = <<entry>> /\ pass' = "explore"
      <3>1. pos \in DOMAIN Order
        BY <1>2, BlocksAssumption DEF MakeFunctionForward, BuiltInv
      <3> QED
        BY <1>2, <3>1 DEF MakeFunctionForward, Starts, Range
    <2>2. /\ blocks' \in Seq(Starts) /\ blocks' # <<>> /\ blocks'[1] = entry
          /\ Range(blocks') = {entry} /\ Range(toExpand') = {entry}
          /\ toExpand' \in Seq(Starts)
      BY <2>1 DEF Range
    <2> QED
      BY <2>1, <2>2 DEF ExploreInv
  <1>3. CASE ExploreBB
    <2> DEFINE s == Head(toExpand)
               pcs == NextPCsOf(mod[s])
               new == KeepFirst(pcs, Starts \ Range(blocks))
    <2>1. /\ pass = "explore" /\ pass' = "explore" /\ pos' = pos /\ mod' = mod
          /\ toExpand # <<>> /\ blocks' = blocks \o new /\ toExpand' = Tail(toExpand) \o new
          /\ hasIndirectJump' = (\/ hasIndirectJump
                                 \/ \E st \in Range(PCStoresOf(mod[s])) :
                                       "indirectJump" \in st.marks)
      BY <1>3 DEF ExploreBB, Unexplored
    <2>2. /\ blocks \in Seq(Starts) /\ blocks # <<>> /\ blocks[1] = entry
          /\ toExpand \in Seq(Starts) /\ Range(toExpand) \subseteq Range(blocks)
          /\ \A b \in Range(blocks) \ Range(toExpand) : Expanded(b)
          /\ \A S \in SUBSET Starts : entry \in S /\ Closed(S) => Range(blocks) \subseteq S
      BY <2>1 DEF ExploreInv, InFunction
    <2>3. /\ s \in Starts /\ Tail(toExpand) \in Seq(Starts)
          /\ Range(toExpand) = {s} \cup Range(Tail(toExpand))
      BY <2>1, <2>2, TailMembers
    <2>4. /\ pcs \in Seq(Int)
          /\ Range(pcs) = UNION {Follow(st) : st \in Range(PCStoresOf(mod[s]))}
      <3>1. pass \in LaterPasses
        BY <2>1 DEF LaterPasses, Passes, Marking, InFunction
      <3> HIDE DEF s
      <3> QED
        BY <2>3, <3>1, NextPCsMembers
    <2> HIDE DEF s, pcs
    <2>5. new \in Seq(Starts) /\ Range(new) = Range(pcs) \cap (Starts \ Range(blocks))
      <3> DEFINE Z == Int
                 T == Starts \ Range(blocks)
      <3>1. pcs \in Seq(Z)
        BY <2>4
      <3> HIDE DEF Z, T
      <3>2. KeepFirst(pcs, T) \in Seq(Z) /\ Range(KeepFirst(pcs, T)) = Range(pcs) \cap T
        BY <3>1, KeepFirstMembers
      <3>3. Range(KeepFirst(pcs, T)) \subseteq Starts
        BY <3>2 DEF T
      <3>4. KeepFirst(pcs, T) \in Seq(Starts)
        BY <3>2, <3>3, SequenceOfRange
      <3> QED
        BY <3>2, <3>4 DEF T
    <2> HIDE DEF new
    <2>6. blocks' \in Seq(Starts) /\ Range(blocks') = Range(blocks) \cup Range(new)
      BY <2>1, <2>2, <2>5, ConcatMembers
    <2>7. toExpand' \in Seq(Starts) /\ Range(toExpand') = Range(Tail(toExpand)) \cup Range(new)
      <3> DEFINE t == Tail(toExpand)
      <3>1. t \in Seq(Starts) /\ toExpand' = t \o new
        BY <2>1, <2>3
      <3> HIDE DEF t
      <3>2. t \o new \in Seq(Starts) /\ Range(t \o new) = Range(t) \cup Range(new)
        BY <2>5, <3>1, ConcatMembers
      <3> QED
        BY <3>1, <3>2 DEF t
    <2>8. blocks' # <<>> /\ blocks'[1] = entry
      BY <2>1, <2>2, <2>5
    <2>9. ASSUME NEW st \in Range(PCStoresOf(mod[s]))
          PROVE  Follow(st) \cap Starts \subseteq Range(blocks')
      BY <2>4, <2>5, <2>6
    <2>10. ASSUME NEW b \in Range(blocks') \ Range(toExpand')
           PROVE  \A st \in Range(PCStoresOf(mod[b])) :
                     /\ Follow(st) \cap Starts \subseteq Range(blocks')
                     /\ "indirectJump" \in st.marks => hasIndirectJump'
      <3>1. CASE b = s
        BY <2>1, <2>9, <3>1
      <3>2. CASE b # s
        <4>1. b \in Range(blocks) \ Range(toExpand)
          BY <2>3, <2>6, <2>7, <3>2
        <4> QED
          BY <2>1, <2>2, <2>6, <4>1 DEF Expanded
      <3> QED
        BY <3>1, <3>2
    <2>11. ASSUME NEW S \in SUBSET Starts, entry \in S, Closed(S)
           PROVE  Range(blocks') \subseteq S
      <3>1. Range(blocks) \subseteq S
        BY <2>2, <2>11
      <3>2. s \in S
        BY <2>2, <2>3, <3>1
      <3>3. \A st \in Range(PCStoresOf(mod[s])) : Follow(st) \cap Starts \subseteq S
        BY <2>11, <3>2 DEF Closed
      <3>4. Range(new) \subseteq S
        BY <2>4, <2>5, <3>3
      <3> QED
        BY <2>6, <3>1, <3>4
    <2>12. \A b \in Range(blocks') \ Range(toExpand') : Expanded(b)'
      BY <2>1, <2>10 DEF Expanded
    <2>13. \A S \in SUBSET Starts : entry' \in S /\ Closed(S)' => Range(blocks') \subseteq S
      BY <1>1, <2>1, <2>11 DEF Closed
    <2>14. Range(toExpand') \subseteq Range(blocks')
      BY <2>2, <2>3, <2>6, <2>7
    <2> QED
      BY <2>1, <2>6, <2>7, <2>8, <2>12, <2>13, <2>14 DEF ExploreInv
  <1>4. ASSUME UNCHANGED <<mod, pos, blocks, toExpand, hasIndirectJump>>,
               pass' \in InFunction => /\ pass \in InFunction
                                       /\ pass' # "explore" => toExpand = <<>>
        PROVE  ExploreInv'
    BY <1>4 DEF ExploreInv, Expanded, Closed
  <1>5. CASE InlineBBs
    BY <1>4, <1>5 DEF InlineBBs, InFunction
  <1>6. CASE FixupCalls \/ FixupDirectJumps \/ FixupIndirectJumps \/ FixupReturns
    <2>1. /\ UNCHANGED <<mod, pos, blocks, toExpand, hasIndirectJump>>
          /\ pass \in InFunction /\ pass # "explore"
      BY <1>6 DEF FixupCalls, FixupDirectJumps, FixupIndirectJumps, FixupReturns, Fixup,
                  InFunction
    <2> QED
      BY <1>4, <2>1 DEF ExploreInv
  <1>7. CASE UNCHANGED vars
    BY <1>7, <1>4 DEF vars, ExploreInv
  <1>8. CASE \/ ARMMarkCall \/ ARMMarkReturn \/ ARMMarkJumps \/ MarkFuncEntry \/ SkipBlock
             \/ FinishFunction \/ SaveFunctions \/ Cleanup
    <2>1. pass' \notin InFunction
      BY <1>8 DEF ARMMarkCall, ARMMarkReturn, ARMMarkJumps, MarkFuncEntry, SkipBlock,
                  FinishFunction, SaveFunctions, Cleanup, InFunction
    <2> QED
      BY <2>1 DEF ExploreInv
  <1> QED
    BY <1>2, <1>3, <1>5, <1>6, <1>7, <1>8 DEF Next

----------------------------------------------------------------------------
(* The basic blocks of a function                                          *)

\* The module when the marks are made.
MarkedModule(code) ==
    /\ code \in AnyModule
    /\ \A s \in Starts : ShapeOK(code[s])
    /\ \A s \in Starts : \A i \in DOMAIN code[s] : \A j \in DOMAIN code[s][i].stores :
          LET st == code[s][i].stores[j]
          IN  IF st.to = "PC" THEN \E k \in Marks : st.marks = {k} ELSE st.marks = {}

LEMMA ModIsMarked ==
    ASSUME ModInv, pass \in LaterPasses
    PROVE  MarkedModule(mod)
  <1>1. mod \in AnyModule /\ \A s \in Starts : ShapeOK(mod[s])
    BY DEF ModInv, AnyModule
  <1>2. ASSUME NEW s \in Starts, NEW i \in DOMAIN mod[s], NEW j \in DOMAIN mod[s][i].stores
        PROVE  IF mod[s][i].stores[j].to = "PC"
               THEN \E k \in Marks : mod[s][i].stores[j].marks = {k}
               ELSE mod[s][i].stores[j].marks = {}
    BY FinalMark
  <1> QED
    BY <1>1, <1>2 DEF MarkedModule

\* The stores of a basic block: one at most is to PC, with one mark.
LEMMA SourceStores ==
    ASSUME NEW code, MarkedModule(code), NEW s \in Starts, NEW i \in DOMAIN code[s]
    PROVE  /\ code[s][i].stores \in Seq(AnyStore)
           /\ \A j \in DOMAIN code[s][i].stores :
                 LET st == code[s][i].stores[j]
                 IN  /\ st \in AnyStore
                     /\ IF st.to = "PC" THEN \E k \in Marks : st.marks = {k} ELSE st.marks = {}
                     /\ st.to = "PC" =>
                           /\ ~code[s][i].inner
                           /\ \A l \in DOMAIN code[s][i].stores :
                                 code[s][i].stores[l].to = "PC" => l = j
  <1>1. code[s][i].stores \in Seq(AnyStore)
    BY ModuleStores DEF MarkedModule
  <1>2. \A j \in DOMAIN code[s][i].stores : code[s][i].stores[j] \in AnyStore
    BY <1>1
  <1>3. OnePCStore(code[s][i])
    BY DEF MarkedModule, ShapeOK
  <1> QED
    BY <1>1, <1>2, <1>3 DEF MarkedModule, OnePCStore

LEMMA FirstIsMin ==
    ASSUME NEW I \in SUBSET Nat, NEW m \in I, \A i \in I : m <= i
    PROVE  Min(I) = m
  <1>1. \A x \in I : (\A y \in I : x <= y) => x = m
    OBVIOUS
  <1> QED
    BY <1>1 DEF Min

\* cleanupFakeReturns on what a basic block ends in before it is fixed.
LEMMA CleanupFacts ==
    /\ CleanupFakeReturns(<<FakeReturn>>) = <<>>
    /\ \A t : t # FakeReturn => CleanupFakeReturns(Append(<<FakeReturn>>, t)) = <<t>>
  <1> DEFINE fake == FakeReturn
             I(s) == {k \in DOMAIN s : s[k] # fake}
  <1>1. CleanupFakeReturns(<<fake>>) = <<>>
    <2> DEFINE s == <<fake>>
    <2>1. s \in Seq({fake}) /\ Len(s) = 1 /\ 1 \notin I(s)
      OBVIOUS
    <2>2. CleanupFakeReturns(s) = KeepAt(s, I(s))
      BY DEF CleanupFakeReturns
    <2> HIDE DEF s, I, fake
    <2>3. PICK f : /\ f[0] = <<>>
                   /\ \A i \in 1..Len(s) :
                         f[i] = IF i \in I(s) THEN Append(f[i - 1], s[i]) ELSE f[i - 1]
                   /\ KeepAt(s, I(s)) = f[Len(s)]
      BY <2>1, KeepSteps
    <2>4. f[1] = f[0]
      BY <2>1, <2>3
    <2> QED
      BY <2>1, <2>2, <2>3, <2>4 DEF s
  <1>2. ASSUME NEW t, t # fake
        PROVE  CleanupFakeReturns(Append(<<fake>>, t)) = <<t>>
    <2> DEFINE s == Append(<<fake>>, t)
    <2>1. s \in Seq({fake, t}) /\ Len(s) = 2 /\ s[1] = fake /\ s[2] = t
      <3> DEFINE T == {fake, t}
      <3>1. <<fake>> \in Seq(T) /\ t \in T
        OBVIOUS
      <3> QED
        BY <3>1
    <2> HIDE DEF s
    <2>2. DOMAIN s = 1..2
      BY <2>1
    <2>3. 1 \notin I(s) /\ 2 \in I(s)
      BY <1>2, <2>1, <2>2
    <2>4. CleanupFakeReturns(s) = KeepAt(s, I(s))
      BY DEF CleanupFakeReturns
    <2> HIDE DEF I, fake
    <2>5. PICK f : /\ f[0] = <<>>
                   /\ \A i \in 1..Len(s) :
                         f[i] = IF i \in I(s) THEN Append(f[i - 1], s[i]) ELSE f[i - 1]
                   /\ KeepAt(s, I(s)) = f[Len(s)]
      BY <2>1, KeepSteps
    <2>6. f[1] = <<>>
      BY <2>1, <2>3, <2>5
    <2>7. f[2] = Append(<<>>, t)
      BY <2>1, <2>3, <2>5, <2>6
    <2>8. Append(<<>>, t) = <<t>>
      OBVIOUS
    <2> QED
      BY <2>1, <2>4, <2>5, <2>7, <2>8 DEF s
  <1> QED
    BY <1>1, <1>2

LEMMA WithoutFacts ==
    ASSUME NEW stores \in Seq(AnyStore), NEW st
    PROVE  /\ Without(stores, st) \in Seq(AnyStore)
           /\ \A o : o \in Range(Without(stores, st)) <=> o \in Range(stores) /\ o # st
  <1> DEFINE I == {k \in DOMAIN stores : stores[k] # st}
             w == KeepAt(stores, I)
  <1>1. Without(stores, st) = w
    BY DEF Without
  <1>2. w \in Seq(AnyStore) /\ Range(w) = {stores[i] : i \in I \cap (1..Len(stores))}
    <2>1. w = KeepAt(stores, I)
      OBVIOUS
    <2> HIDE DEF I, w
    <2> QED
      BY <2>1, KeepAtMembers
  <1>3. DOMAIN stores = 1..Len(stores)
    OBVIOUS
  <1> HIDE DEF w
  <1>4. \A o : o \in Range(w) <=> o \in Range(stores) /\ o # st
    BY <1>2, <1>3 DEF Range
  <1> QED
    BY <1>1, <1>2, <1>4

\* The stores of a copy are those of its source, less the one that was fixed.
LEMMA CopyStores ==
    ASSUME NEW code, MarkedModule(code), NEW f, NEW F, NEW bb, CopyOK(code, f, F, bb)
    PROVE  LET src == code[bb.block][bb.index]
           IN  /\ bb.stores \in Seq(AnyStore)
               /\ \A o \in Range(bb.stores) : o \in Range(src.stores)
  <1> DEFINE src == code[bb.block][bb.index]
             a == src.stores
  <1>1. /\ bb.block \in Starts /\ bb.index \in DOMAIN code[bb.block]
        /\ FixedTo(code, f, F, src, bb.stores, bb.terms)
    BY DEF CopyOK
  <1>2. a \in Seq(AnyStore)
    BY <1>1, SourceStores
  <1>3. bb.stores = a \/ \E st : bb.stores = Without(a, st)
    <2>1. CASE \A j \in DOMAIN a : a[j].to # "PC"
      BY <1>1, <2>1 DEF FixedTo
    <2>2. CASE \E j \in DOMAIN a : a[j].to = "PC"
      BY <1>1, <2>2 DEF FixedTo
    <2> QED
      BY <2>1, <2>2
  <1> HIDE DEF a
  <1>4. bb.stores \in Seq(AnyStore) /\ \A o \in Range(bb.stores) : o \in Range(a)
    BY <1>2, <1>3, WithoutFacts
  <1> QED
    BY <1>4 DEF a

\* The first basic block of a block is found by its metadata, unless all it had
\* was a jump that is fixed.
LEMMA HasStart ==
    ASSUME NEW code, MarkedModule(code), NEW f, NEW F, NEW bb, CopyOK(code, f, F, bb),
           bb.index = 1, "return" \notin F,
           "directJump" \notin F \/ ~JumpsOnly(code, f, bb.block)
    PROVE  HasPcStart(bb)
  <1> DEFINE src == code[bb.block][1]
             a == src.stores
  <1>1. /\ bb.block \in Starts /\ 1 \in DOMAIN code[bb.block] /\ bb.work = src.work
        /\ FixedTo(code, f, F, src, bb.stores, bb.terms)
    BY DEF CopyOK
  <1>2. a \in Seq(AnyStore) /\ DOMAIN a = 1..Len(a)
    BY <1>1, SourceStores
  <1>3. src.work \/ src.inner \/ a # <<>>
    BY <1>1 DEF MarkedModule, ShapeOK
  <1>4. CASE src.work
    BY <1>1, <1>4 DEF HasPcStart
  <1>5. CASE ~src.work /\ \A j \in DOMAIN a : a[j].to # "PC"
    <2>1. bb.stores = a /\ bb.terms = <<IF src.inner THEN InnerBranch ELSE FakeReturn>>
      BY <1>1, <1>5 DEF FixedTo
    <2>2. CASE src.inner
      BY <2>1, <2>2 DEF HasPcStart
    <2>3. CASE ~src.inner
      BY <1>3, <1>5, <2>1, <2>3 DEF HasPcStart
    <2> QED
      BY <2>2, <2>3
  <1>6. CASE ~src.work /\ \E j \in DOMAIN a : a[j].to = "PC"
    <2>1. PICK j \in DOMAIN a : a[j].to = "PC"
      BY <1>6
    <2>2. ~src.inner /\ \E k \in Marks : a[j].marks = {k}
      BY <1>1, <2>1, SourceStores
    <2>3. a # <<>>
      BY <1>2, <2>1
    <2>4. CASE a[j].marks \cap F = {} \/ ~Erased(f, a[j])
      <3>1. bb.stores = a
        BY <1>1, <2>1, <2>4 DEF FixedTo
      <3> QED
        BY <2>3, <3>1 DEF HasPcStart
    <2>5. CASE a[j].marks \cap F # {} /\ Erased(f, a[j])
      <3>1. bb.stores = Without(a, a[j])
        BY <1>1, <2>1, <2>5 DEF FixedTo
      <3>2. "directJump" \in a[j].marks /\ a[j].val \in BlocksOf(f) /\ "directJump" \in F
        BY <2>2, <2>5 DEF Erased
      <3>3. PICK l \in DOMAIN a : ~("directJump" \in a[l].marks /\ a[l].val \in BlocksOf(f))
        BY <1>6, <2>2, <3>2 DEF JumpsOnly
      <3>4. a[l] \in Range(a) /\ a[l] # a[j]
        BY <3>2, <3>3 DEF Range
      <3> HIDE DEF a
      <3>5. a[l] \in Range(bb.stores)
        BY <1>2, <3>1, <3>4, WithoutFacts
      <3>6. bb.stores # <<>>
        BY <3>5 DEF Range
      <3> QED
        BY <3>6 DEF HasPcStart
    <2> QED
      BY <2>4, <2>5
  <1> QED
    BY <1>4, <1>5, <1>6

LEMMA NoStart ==
    ASSUME NEW code, MarkedModule(code), NEW f, NEW F, NEW bb, CopyOK(code, f, F, bb),
           bb.index = 1, "directJump" \in F, JumpsOnly(code, f, bb.block)
    PROVE  ~HasPcStart(bb)
  <1> DEFINE src == code[bb.block][1]
             a == src.stores
  <1>1. /\ bb.block \in Starts /\ 1 \in DOMAIN code[bb.block] /\ bb.work = src.work
        /\ FixedTo(code, f, F, src, bb.stores, bb.terms)
    BY DEF CopyOK
  <1>2. a \in Seq(AnyStore) /\ DOMAIN a = 1..Len(a)
    BY <1>1, SourceStores
  <1>3. /\ ~src.work /\ a # <<>>
        /\ \A j \in DOMAIN a : "directJump" \in a[j].marks /\ a[j].val \in BlocksOf(f)
    BY <1>1 DEF MarkedModule, ShapeOK, JumpsOnly
  <1>4. \A j \in DOMAIN a : a[j].to = "PC"
    BY <1>1, <1>3, SourceStores
  <1>5. 1 \in DOMAIN a
    BY <1>2, <1>3
  <1>6. \A j \in DOMAIN a : j = 1
    BY <1>1, <1>4, <1>5, SourceStores
  <1>7. /\ bb.stores = Without(a, a[1])
        /\ TermsOK(code, f, a[1], bb.terms)
    <2>1. a[1].marks \cap F # {} /\ Erased(f, a[1])
      BY <1>3, <1>5 DEF Erased
    <2> QED
      BY <1>1, <1>4, <1>5, <2>1 DEF FixedTo
  <1>8. bb.stores = <<>>
    <2>1. Range(a) \subseteq {a[1]}
      BY <1>6 DEF Range
    <2> HIDE DEF a
    <2>2. bb.stores \in Seq(AnyStore) /\ Range(bb.stores) = {}
      BY <1>2, <1>7, <2>1, WithoutFacts
    <2> DEFINE w == bb.stores
    <2>3. w \in Seq(AnyStore) /\ \A o : o \notin Range(w)
      BY <2>2
    <2> HIDE DEF w
    <2>4. \A k \in DOMAIN w : w[k] \in Range(w)
      BY DEF Range
    <2>5. DOMAIN w = {}
      BY <2>3, <2>4
    <2>6. w = <<>>
      BY <2>3, <2>5
    <2> QED
      BY <2>6 DEF w
  <1>9. bb.terms[1] # InnerBranch
    <2>1. Goes(f, bb.terms, a[1].val) /\ a[1].val \in BlocksOf(f)
      BY <1>3, <1>5, <1>7 DEF TermsOK
    <2>2. PICK p \in DOMAIN f : bb.terms = <<Branch(p)>>
      BY <2>1 DEF Goes
    <2>3. Branch(p).kind # InnerBranch.kind
      BY DEF Branch, InnerBranch
    <2> QED
      BY <2>2, <2>3
  <1> QED
    BY <1>1, <1>3, <1>8, <1>9 DEF HasPcStart

LEMMA MinIn ==
    ASSUME NEW I \in SUBSET Nat, I # {}
    PROVE  Min(I) \in I
  <1>1. \E m \in I : \A i \in I : m <= i
    BY LeastNat
  <1> QED
    BY <1>1 DEF Min

\* What buildBBMap finds for pc.
LEMMA MapMembers ==
    ASSUME NEW code, MarkedModule(code), NEW f, NEW F, FunctionOK(code, f, F), NEW pc,
           InBBMap(f, pc)
    PROVE  LET p == BBMap(f, pc)
           IN  /\ p \in DOMAIN f /\ f[p].block = pc /\ HasPcStart(f[p])
               /\ pc \in BlocksOf(f) /\ CopyOK(code, f, F, f[p])
  <1> DEFINE p == BBMap(f, pc)
  <1>1. Len(f) \in Nat /\ DOMAIN f = 1..Len(f)
    BY DEF FunctionOK
  <1>2. p \in BBsAt(f, pc)
    <2>1. BBsAt(f, pc) \in SUBSET Nat /\ BBsAt(f, pc) # {}
      BY <1>1 DEF BBsAt, InBBMap
    <2> QED
      BY <2>1, MinIn DEF BBMap
  <1> HIDE DEF p
  <1>3. p \in DOMAIN f /\ f[p].block = pc /\ HasPcStart(f[p])
    BY <1>2 DEF BBsAt
  <1>4. f[p] # FakeBB
    BY <1>3 DEF FakeBB, HasPcStart, Return, InnerBranch
  <1>5. CopyOK(code, f, F, f[p])
    BY <1>3, <1>4 DEF FunctionOK
  <1>6. pc # None
    BY <1>3, <1>5, StartsAreCode DEF CopyOK, None
  <1>7. pc \in BlocksOf(f)
    BY <1>3, <1>6 DEF BlocksOf
  <1> QED
    BY <1>3, <1>5, <1>7 DEF p

LEMMA MapFirst ==
    ASSUME NEW f, Len(f) \in Nat, DOMAIN f = 1..Len(f), NEW b, NEW p \in DOMAIN f,
           BeginsAt(f, p, b), \A q \in DOMAIN f : f[q].block = b => p <= q,
           HasPcStart(f[p])
    PROVE  InBBMap(f, b) /\ BBMap(f, b) = p
  <1>1. BBsAt(f, b) \in SUBSET Nat /\ p \in BBsAt(f, b) /\ \A q \in BBsAt(f, b) : p <= q
    BY DEF BBsAt, BeginsAt
  <1> HIDE DEF BBsAt
  <1>2. Min(BBsAt(f, b)) = p
    BY <1>1, FirstIsMin
  <1> QED
    BY <1>1, <1>2 DEF InBBMap, BBMap

\* A block of the function begins at the position that the map has for it.
LEMMA MapFinds ==
    ASSUME NEW code, MarkedModule(code), NEW f, NEW F, FunctionOK(code, f, F),
           "return" \notin F, NEW pc \in BlocksOf(f),
           "directJump" \notin F \/ ~JumpsOnly(code, f, pc)
    PROVE  InBBMap(f, pc) /\ BBMap(f, pc) \in DOMAIN f /\ BeginsAt(f, BBMap(f, pc), pc)
  <1>1. PICK p \in DOMAIN f : BeginsAt(f, p, pc) /\ \A q \in DOMAIN f : f[q].block = pc => p <= q
    BY DEF FunctionOK, BeginsFirst
  <1>2. CopyOK(code, f, F, f[p])
    BY <1>1 DEF FunctionOK, BlocksOf, BeginsAt, FakeBB
  <1>3. HasPcStart(f[p])
    BY <1>1, <1>2, HasStart DEF BeginsAt
  <1>4. InBBMap(f, pc) /\ BBMap(f, pc) = p
    BY <1>1, <1>3, MapFirst DEF FunctionOK
  <1> QED
    BY <1>1, <1>4

\* Where a case of a switch for pc goes.
LEMMA CaseGoes ==
    ASSUME NEW code, MarkedModule(code), NEW f, NEW F, FunctionOK(code, f, F),
           "return" \notin F, "directJump" \in F, Len(f) # 0, f[Len(f)] = FakeBB, NEW pc
    PROVE  LET p == IF InBBMap(f, pc) THEN BBMap(f, pc) ELSE Len(f)
           IN  p \in DOMAIN f /\ CaseTo(code, f, p, pc)
  <1> DEFINE p == IF InBBMap(f, pc) THEN BBMap(f, pc) ELSE Len(f)
  <1>1. Len(f) \in DOMAIN f /\ f[Len(f)].block = None
    <2>1. Len(f) \in Nat /\ DOMAIN f = 1..Len(f)
      BY DEF FunctionOK
    <2>2. f[Len(f)].block = None
      BY DEF FakeBB
    <2> QED
      BY <2>1, <2>2
  <1>2. CASE pc \notin BlocksOf(f)
    <2>1. ~InBBMap(f, pc)
      BY <1>2, MapMembers
    <2> QED
      BY <1>1, <1>2, <2>1 DEF CaseTo
  <1>3. CASE pc \in BlocksOf(f) /\ ~JumpsOnly(code, f, pc)
    BY <1>3, MapFinds DEF CaseTo
  <1>4. CASE pc \in BlocksOf(f) /\ JumpsOnly(code, f, pc)
    <2>1. CASE InBBMap(f, pc)
      <3> DEFINE q == BBMap(f, pc)
      <3>1. q \in DOMAIN f /\ f[q].block = pc /\ HasPcStart(f[q]) /\ CopyOK(code, f, F, f[q])
        BY <2>1, MapMembers
      <3> HIDE DEF q
      <3>2. f[q].index # 1
        BY <1>4, <3>1, NoStart
      <3>3. Len(code[pc]) > 1
        <4>1. f[q].index \in DOMAIN code[pc] /\ pc \in Starts
          BY <3>1 DEF CopyOK
        <4>2. code[pc] \in Seq(AnyBB)
          BY <4>1, ModuleStores DEF MarkedModule
        <4> QED
          BY <3>2, <4>1, <4>2
      <3>4. CaseTo(code, f, q, pc)
        BY <1>4, <3>1, <3>3 DEF CaseTo
      <3> QED
        BY <2>1, <3>1, <3>4 DEF q
    <2>2. CASE ~InBBMap(f, pc)
      BY <1>1, <1>4, <2>2 DEF CaseTo
    <2> QED
      BY <2>1, <2>2
  <1> QED
    BY <1>2, <1>3, <1>4

----------------------------------------------------------------------------
(* The fixups of a basic block                                             *)

\* A basic block that a step passes over.
LEMMA Unmarked ==
    ASSUME NEW code, MarkedModule(code), NEW f, NEW F, NEW bb, CopyOK(code, f, F, bb),
           NEW M, Marked(bb, M) = {}
    PROVE  CopyOK(code, f, F \cup M, bb)
  <1> DEFINE src == code[bb.block][bb.index]
             a == src.stores
  <1>1. FixedTo(code, f, F, src, bb.stores, bb.terms)
    BY DEF CopyOK
  <1>2. ASSUME NEW j \in DOMAIN a, a[j].to = "PC", a[j].marks \cap F = {}
        PROVE  a[j].marks \cap (F \cup M) = {}
    <2>1. bb.stores = a
      BY <1>1, <1>2 DEF FixedTo
    <2>2. a[j] \in Range(bb.stores)
      BY <2>1 DEF Range
    <2> QED
      BY <1>2, <2>2 DEF Marked
  <1>3. FixedTo(code, f, F \cup M, src, bb.stores, bb.terms)
    <2>1. ASSUME NEW j \in DOMAIN a, a[j].to = "PC"
          PROVE  a[j].marks \cap (F \cup M) = {} <=> a[j].marks \cap F = {}
      BY <1>2, <2>1
    <2> QED
      BY <1>1, <2>1 DEF FixedTo
  <1> QED
    BY <1>3 DEF CopyOK

\* The store that a step fixes: nothing was done to its basic block before.
LEMMA MarkedStore ==
    ASSUME NEW code, MarkedModule(code), NEW f, NEW F, NEW bb, CopyOK(code, f, F, bb),
           NEW M, M \cap F = {}, Marked(bb, M) # {}
    PROVE  LET st == TheMarked(bb, M)
               a == code[bb.block][bb.index].stores
           IN  /\ \E j \in DOMAIN a : st = a[j]
               /\ st.to = "PC" /\ st \in AnyStore
               /\ \E k \in M : st.marks = {k}
               /\ bb.stores = a /\ bb.terms = <<FakeReturn>>
  <1> DEFINE st == TheMarked(bb, M)
             src == code[bb.block][bb.index]
             a == src.stores
  <1>1. /\ bb.block \in Starts /\ bb.index \in DOMAIN code[bb.block]
        /\ FixedTo(code, f, F, src, bb.stores, bb.terms)
    BY DEF CopyOK
  <1>2. st \in Range(bb.stores) /\ st.marks \cap M # {}
    <2>1. st \in Marked(bb, M)
      BY DEF TheMarked
    <2> HIDE DEF st
    <2> QED
      BY <2>1 DEF Marked
  <1>3. st \in Range(a)
    BY <1>2, CopyStores
  <1> HIDE DEF st
  <1>4. PICK j \in DOMAIN a : st = a[j]
    BY <1>3 DEF Range
  <1>5. /\ a[j] \in AnyStore
        /\ IF a[j].to = "PC" THEN \E k \in Marks : a[j].marks = {k} ELSE a[j].marks = {}
    BY <1>1, SourceStores
  <1>6. a[j].to = "PC" /\ \E k \in M : a[j].marks = {k}
    BY <1>2, <1>4, <1>5
  <1>7. a[j].marks \cap F = {}
    BY <1>6
  <1>8. bb.stores = a /\ bb.terms = <<FakeReturn>>
    BY <1>1, <1>6, <1>7 DEF FixedTo
  <1> QED
    BY <1>4, <1>5, <1>6, <1>8 DEF st

\* A basic block that gets its terminator.
LEMMA Refixed ==
    ASSUME NEW code, MarkedModule(code), NEW f, NEW F, NEW bb, CopyOK(code, f, F, bb),
           NEW M, M \cap F = {}, Marked(bb, M) # {},
           NEW s2, NEW t2,
           s2 = IF Erased(f, TheMarked(bb, M)) THEN Without(bb.stores, TheMarked(bb, M))
                ELSE bb.stores,
           TermsOK(code, f, TheMarked(bb, M), t2)
    PROVE  CopyOK(code, f, F \cup M, [block |-> bb.block, index |-> bb.index,
                                      work |-> bb.work, stores |-> s2, terms |-> t2])
  <1> DEFINE st == TheMarked(bb, M)
             src == code[bb.block][bb.index]
             a == src.stores
             r == [block |-> bb.block, index |-> bb.index,
                   work |-> bb.work, stores |-> s2, terms |-> t2]
  <1>1. /\ bb.block \in Starts /\ bb.index \in DOMAIN code[bb.block] /\ bb.work = src.work
    BY DEF CopyOK
  <1>2. /\ \E j \in DOMAIN a : st = a[j]
        /\ st.to = "PC" /\ st \in AnyStore
        /\ \E k \in M : st.marks = {k}
        /\ bb.stores = a
    BY MarkedStore
  <1>3. /\ s2 = IF Erased(f, st) THEN Without(bb.stores, st) ELSE bb.stores
        /\ TermsOK(code, f, st, t2)
    OBVIOUS
  <1> HIDE DEF st
  <1>4. PICK j \in DOMAIN a : st = a[j]
    BY <1>2
  <1>5. \A l \in DOMAIN a : a[l].to = "PC" => l = j
    BY <1>1, <1>2, <1>4, SourceStores
  <1>6. a[j].marks \cap (F \cup M) # {}
    BY <1>2, <1>4
  <1> HIDE DEF src
  <1>7. FixedTo(code, f, F \cup M, src, s2, t2)
    BY <1>2, <1>3, <1>4, <1>5, <1>6 DEF FixedTo
  <1>8. /\ r = [block |-> r.block, index |-> r.index, work |-> r.work,
                stores |-> r.stores, terms |-> r.terms]
        /\ r.block = bb.block /\ r.index = bb.index /\ r.work = bb.work
        /\ r.stores = s2 /\ r.terms = t2
    OBVIOUS
  <1> HIDE DEF r
  <1>9. CopyOK(code, f, F \cup M, r)
    BY <1>1, <1>7, <1>8 DEF CopyOK, src
  <1> QED
    BY <1>9 DEF r

LEMMA FixedRecord ==
    ASSUME NEW code, NEW f, NEW F, NEW bb, CopyOK(code, f, F, bb), NEW u
    PROVE  [bb EXCEPT !.terms = u] = [block |-> bb.block, index |-> bb.index,
                                      work |-> bb.work, stores |-> bb.stores, terms |-> u]
  <1>1. bb = [block |-> bb.block, index |-> bb.index, work |-> bb.work,
              stores |-> bb.stores, terms |-> bb.terms]
    BY DEF CopyOK
  <1> QED
    BY <1>1

LEMMA TermKinds ==
    /\ \A p : Branch(p) # FakeReturn
    /\ Return # FakeReturn
    /\ \A to : SwitchTo(to) # FakeReturn
  <1>1. \A p : Branch(p).kind # FakeReturn.kind
    BY DEF Branch, FakeReturn
  <1>2. Return.kind # FakeReturn.kind
    BY DEF Return, FakeReturn
  <1>3. \A to : SwitchTo(to).kind # FakeReturn.kind
    BY DEF SwitchTo, FakeReturn
  <1> QED
    BY <1>1, <1>2, <1>3

LEMMA Terminated ==
    ASSUME NEW code, NEW f, NEW F, NEW bb, CopyOK(code, f, F, bb), bb.terms = <<FakeReturn>>,
           NEW t, t # FakeReturn
    PROVE  Terminate(bb, t) = [block |-> bb.block, index |-> bb.index, work |-> bb.work,
                               stores |-> bb.stores, terms |-> <<t>>]
  <1> DEFINE u == CleanupFakeReturns(Append(bb.terms, t))
  <1>1. u = <<t>>
    BY CleanupFacts
  <1>2. Terminate(bb, t) = [bb EXCEPT !.terms = u]
    BY DEF Terminate
  <1> HIDE DEF u
  <1> QED
    BY <1>1, <1>2, FixedRecord

LEMMA TerminatedErased ==
    ASSUME NEW code, NEW f, NEW F, NEW bb, CopyOK(code, f, F, bb), bb.terms = <<FakeReturn>>,
           NEW t, t # FakeReturn, NEW st
    PROVE  Erase(Terminate(bb, t), st) =
                [block |-> bb.block, index |-> bb.index, work |-> bb.work,
                 stores |-> Without(bb.stores, st), terms |-> <<t>>]
  <1> DEFINE r == [block |-> bb.block, index |-> bb.index,
                   work |-> bb.work, stores |-> bb.stores, terms |-> <<t>>]
  <1>1. Terminate(bb, t) = r
    BY Terminated
  <1>2. Erase(r, st) = [block |-> bb.block, index |-> bb.index, work |-> bb.work,
                        stores |-> Without(bb.stores, st), terms |-> <<t>>]
    BY DEF Erase, Without
  <1> QED
    BY <1>1, <1>2

LEMMA FixupCallOK ==
    ASSUME NEW code, MarkedModule(code), FunctionOK(code, func, {}),
           NEW bb, CopyOK(code, func, {}, bb), Marked(bb, Calls) # {}
    PROVE  CopyOK(code, func, {} \cup Calls, FixupCall(bb, TheMarked(bb, Calls)))
  <1> DEFINE st == TheMarked(bb, Calls)
             ret == st.ret
             next == BBMap(func, ret)
  <1>1. bb.terms = <<FakeReturn>> /\ \E k \in Calls : st.marks = {k}
    BY MarkedStore
  <1>2. ~Erased(func, st)
    BY <1>1 DEF Erased, Calls
  <1>3. /\ "directJump" \notin st.marks /\ "return" \notin st.marks
        /\ "indirectJump" \notin st.marks
    BY <1>1 DEF Calls
  <1>4. \A t : Goes(func, t, ret) => TermsOK(code, func, st, t)
    BY <1>3 DEF TermsOK
  <1>5. \A s2, t2 : s2 = bb.stores /\ Goes(func, t2, ret) =>
           CopyOK(code, func, {} \cup Calls,
                  [block |-> bb.block, index |-> bb.index,
                   work |-> bb.work, stores |-> s2, terms |-> t2])
    BY <1>2, <1>4, Refixed
  <1>6. CASE InBBMap(func, ret)
    <2>1. ret \in BlocksOf(func)
      BY <1>6, MapMembers
    <2>2. next \in DOMAIN func /\ BeginsAt(func, next, ret)
      BY <2>1, MapFinds
    <2>3. FixupCall(bb, st) = Terminate(bb, Branch(next))
      BY <1>6 DEF FixupCall
    <2> HIDE DEF next, ret, st
    <2>4. Goes(func, <<Branch(next)>>, ret)
      BY <2>1, <2>2 DEF Goes
    <2>5. Terminate(bb, Branch(next)) =
             [block |-> bb.block, index |-> bb.index, work |-> bb.work,
              stores |-> bb.stores, terms |-> <<Branch(next)>>]
      BY <1>1, Terminated, TermKinds
    <2>6. CopyOK(code, func, {} \cup Calls, FixupCall(bb, st))
      BY <1>5, <2>3, <2>4, <2>5
    <2> QED
      BY <2>6 DEF st
  <1>7. CASE ~InBBMap(func, ret)
    <2>1. ret \notin BlocksOf(func)
      BY <1>7, MapFinds
    <2>2. FixupCall(bb, st) = bb
      BY <1>7 DEF FixupCall
    <2>3. Goes(func, bb.terms, ret)
      BY <1>1, <2>1 DEF Goes
    <2>4. bb = [block |-> bb.block, index |-> bb.index, work |-> bb.work,
                stores |-> bb.stores, terms |-> bb.terms]
      BY DEF CopyOK
    <2> HIDE DEF ret, st
    <2>5. CopyOK(code, func, {} \cup Calls, bb)
      BY <1>5, <2>3, <2>4
    <2> QED
      BY <2>2, <2>5 DEF st
  <1> QED
    BY <1>6, <1>7

LEMMA FixupDirectJumpOK ==
    ASSUME NEW code, MarkedModule(code), FunctionOK(code, func, Calls),
           NEW bb, CopyOK(code, func, Calls, bb), Marked(bb, {"directJump"}) # {}
    PROVE  CopyOK(code, func, Calls \cup {"directJump"},
                  FixupDirectJump(bb, TheMarked(bb, {"directJump"})))
  <1> DEFINE M == {"directJump"}
             st == TheMarked(bb, M)
             val == st.val
             next == BBMap(func, val)
  <1>0. M \cap Calls = {}
    BY DEF Calls
  <1>1. bb.terms = <<FakeReturn>> /\ st.marks = M
    BY <1>0, MarkedStore
  <1>2. Erased(func, st) <=> val \in BlocksOf(func)
    BY <1>1 DEF Erased
  <1>3. \A t : Goes(func, t, val) => TermsOK(code, func, st, t)
    BY <1>0, <1>1 DEF TermsOK
  <1>4. \A s2, t2 : /\ s2 = IF Erased(func, st) THEN Without(bb.stores, st) ELSE bb.stores
                    /\ Goes(func, t2, val)
           => CopyOK(code, func, Calls \cup M,
                     [block |-> bb.block, index |-> bb.index,
                      work |-> bb.work, stores |-> s2, terms |-> t2])
    BY <1>0, <1>3, Refixed
  <1>5. "return" \notin Calls /\ "directJump" \notin Calls
    BY DEF Calls
  <1>6. CASE InBBMap(func, val)
    <2>1. val \in BlocksOf(func)
      BY <1>6, MapMembers
    <2>2. next \in DOMAIN func /\ BeginsAt(func, next, val)
      BY <1>5, <2>1, MapFinds
    <2>3. FixupDirectJump(bb, st) = Erase(Terminate(bb, Branch(next)), st)
      BY <1>6 DEF FixupDirectJump
    <2> HIDE DEF next, val, st
    <2>4. Goes(func, <<Branch(next)>>, val)
      BY <2>1, <2>2 DEF Goes
    <2>5. Erase(Terminate(bb, Branch(next)), st) =
             [block |-> bb.block, index |-> bb.index, work |-> bb.work,
              stores |-> Without(bb.stores, st), terms |-> <<Branch(next)>>]
      BY <1>1, TerminatedErased, TermKinds
    <2>6. CopyOK(code, func, Calls \cup M, FixupDirectJump(bb, st))
      BY <1>2, <1>4, <2>1, <2>3, <2>4, <2>5
    <2> QED
      BY <2>6 DEF st
  <1>7. CASE ~InBBMap(func, val)
    <2>1. val \notin BlocksOf(func)
      BY <1>5, <1>7, MapFinds
    <2>2. FixupDirectJump(bb, st) = bb
      BY <1>7 DEF FixupDirectJump
    <2>3. Goes(func, bb.terms, val)
      BY <1>1, <2>1 DEF Goes
    <2>4. bb = [block |-> bb.block, index |-> bb.index, work |-> bb.work,
                stores |-> bb.stores, terms |-> bb.terms]
      BY DEF CopyOK
    <2> HIDE DEF val, st
    <2>5. CopyOK(code, func, Calls \cup M, bb)
      BY <1>2, <1>4, <2>1, <2>3, <2>4
    <2> QED
      BY <2>2, <2>5 DEF st
  <1> QED
    BY <1>6, <1>7

\* A jump through a register that is not fixed brought the fake basic block.
LEMMA HasFake ==
    ASSUME NEW code, NEW f, NEW F, FunctionOK(code, f, F), NEW p \in DOMAIN f,
           CopyOK(code, f, F, f[p]),
           NEW j \in DOMAIN code[f[p].block][f[p].index].stores,
           "indirectJump" \in code[f[p].block][f[p].index].stores[j].marks
    PROVE  Len(f) # 0 /\ f[Len(f)] = FakeBB /\ Len(f) \in DOMAIN f
  <1>1. f[p].block # None
    BY StartsAreCode DEF CopyOK, None
  <1>2. JumpsAway(code, f)
    BY <1>1 DEF JumpsAway
  <1> QED
    BY <1>2 DEF FunctionOK

LEMMA FixupIndirectJumpOK ==
    ASSUME NEW code, MarkedModule(code), FunctionOK(code, func, Calls \cup {"directJump"}),
           NEW p \in DOMAIN func, CopyOK(code, func, Calls \cup {"directJump"}, func[p]),
           Marked(func[p], {"indirectJump"}) # {}
    PROVE  CopyOK(code, func, (Calls \cup {"directJump"}) \cup {"indirectJump"},
                  FixupIndirectJump(func[p], TheMarked(func[p], {"indirectJump"})))
  <1> DEFINE F == Calls \cup {"directJump"}
             M == {"indirectJump"}
             bb == func[p]
             st == TheMarked(bb, M)
             cases == st.cases
             G == F \cup M
  <1>0. M \cap F = {} /\ "return" \notin F /\ "directJump" \in F
    BY DEF Calls
  <1>1. /\ bb.terms = <<FakeReturn>> /\ st.marks = M
        /\ \E j \in DOMAIN code[bb.block][bb.index].stores :
              st = code[bb.block][bb.index].stores[j]
        /\ st \in AnyStore
    BY <1>0, MarkedStore
  <1>2. Len(func) # 0 /\ func[Len(func)] = FakeBB /\ Len(func) \in DOMAIN func
    BY <1>1, HasFake
  <1>3. ~Erased(func, st)
    BY <1>1 DEF Erased
  <1>4. \A s2, t2 : s2 = bb.stores /\ TermsOK(code, func, st, t2) =>
           CopyOK(code, func, G, [block |-> bb.block, index |-> bb.index,
                                  work |-> bb.work, stores |-> s2, terms |-> t2])
    BY <1>0, <1>3, Refixed
  <1>5. \A t : TermsOK(code, func, st, t) <=>
           IF cases = <<>> THEN t = <<Branch(Len(func))>> /\ func[Len(func)] = FakeBB
           ELSE IF ~st.idx THEN t = <<>>
           ELSE GoesByTable(code, func, t, st)
    BY <1>0, <1>1 DEF TermsOK
  <1>6. IsSwitch(st) <=> cases # <<>>
    BY <1>1 DEF IsSwitch
  <1>10. CopyOK(code, func, F, bb)
    OBVIOUS
  <1> HIDE DEF bb
  <1>7. CASE cases = <<>>
    <2>1. FixupIndirectJump(bb, st) = Terminate(bb, Branch(Len(func)))
      BY <1>6, <1>7 DEF FixupIndirectJump
    <2>2. TermsOK(code, func, st, <<Branch(Len(func))>>)
      BY <1>2, <1>5, <1>7
    <2> HIDE DEF st
    <2>3. Terminate(bb, Branch(Len(func))) =
             [block |-> bb.block, index |-> bb.index, work |-> bb.work,
              stores |-> bb.stores, terms |-> <<Branch(Len(func))>>]
      BY <1>1, <1>10, Terminated, TermKinds
    <2>4. CopyOK(code, func, G, FixupIndirectJump(bb, st))
      BY <1>4, <2>1, <2>2, <2>3
    <2> QED
      BY <2>4 DEF st, bb
  <1>8. CASE cases # <<>> /\ ~st.idx
    <2>1. FixupIndirectJump(bb, st) = [bb EXCEPT !.terms = CleanupFakeReturns(@)]
      BY <1>6, <1>8 DEF FixupIndirectJump
    <2>2. TermsOK(code, func, st, <<>>)
      BY <1>5, <1>8
    <2> HIDE DEF st
    <2>3. [bb EXCEPT !.terms = CleanupFakeReturns(@)] =
             [block |-> bb.block, index |-> bb.index, work |-> bb.work,
              stores |-> bb.stores, terms |-> <<>>]
      BY <1>1, <1>10, CleanupFacts, FixedRecord
    <2>4. CopyOK(code, func, G, [block |-> bb.block, index |-> bb.index, work |-> bb.work,
                                 stores |-> bb.stores, terms |-> <<>>])
      BY <1>4, <2>2
    <2>5. CopyOK(code, func, G, FixupIndirectJump(bb, st))
      BY <2>1, <2>3, <2>4
    <2> QED
      BY <2>5 DEF st, bb
  <1>9. CASE cases # <<>> /\ st.idx
    <2> DEFINE to == [k \in 1..(Len(cases) + 1) |-> SwitchTarget(SwitchTargets(st)[k])]
    <2>1. FixupIndirectJump(bb, st) = Terminate(bb, SwitchTo(to))
      BY <1>6, <1>9 DEF FixupIndirectJump, SwitchTo
    <2>2. ASSUME NEW k \in 1..(Len(cases) + 1)
          PROVE  to[k] \in DOMAIN func /\ CaseTo(code, func, to[k], SwitchTargets(st)[k])
      <3> DEFINE pc == SwitchTargets(st)[k]
      <3>1. to[k] = IF InBBMap(func, pc) THEN BBMap(func, pc) ELSE Len(func)
        BY DEF SwitchTarget
      <3> HIDE DEF to, pc
      <3>2. to[k] \in DOMAIN func /\ CaseTo(code, func, to[k], pc)
        BY <1>0, <1>2, <3>1, CaseGoes
      <3> QED
        BY <3>2 DEF pc
    <2>3. to \in [1..(Len(cases) + 1) -> DOMAIN func]
      BY <2>2
    <2> HIDE DEF to
    <2>4. GoesByTable(code, func, <<SwitchTo(to)>>, st)
      BY <2>2, <2>3 DEF GoesByTable
    <2>5. TermsOK(code, func, st, <<SwitchTo(to)>>)
      BY <1>5, <1>9, <2>4
    <2> HIDE DEF st
    <2>6. Terminate(bb, SwitchTo(to)) =
             [block |-> bb.block, index |-> bb.index, work |-> bb.work,
              stores |-> bb.stores, terms |-> <<SwitchTo(to)>>]
      BY <1>1, <1>10, Terminated, TermKinds
    <2>7. CopyOK(code, func, G, FixupIndirectJump(bb, st))
      BY <1>4, <2>1, <2>5, <2>6
    <2> QED
      BY <2>7 DEF st, bb
  <1> QED
    BY <1>7, <1>8, <1>9

LEMMA FixupReturnOK ==
    ASSUME NEW code, MarkedModule(code), NEW F, "return" \notin F,
           NEW bb, CopyOK(code, func, F, bb), Marked(bb, {"return"}) # {}
    PROVE  CopyOK(code, func, F \cup {"return"},
                  FixupReturn(bb, TheMarked(bb, {"return"})))
  <1> DEFINE M == {"return"}
             st == TheMarked(bb, M)
  <1>0. M \cap F = {}
    OBVIOUS
  <1>1. bb.terms = <<FakeReturn>> /\ st.marks = M
    BY <1>0, MarkedStore
  <1>2. Erased(func, st) /\ TermsOK(code, func, st, <<Return>>)
    BY <1>1 DEF Erased, TermsOK, Calls
  <1>3. CopyOK(code, func, F \cup M, [block |-> bb.block, index |-> bb.index,
                                      work |-> bb.work, stores |-> Without(bb.stores, st),
                                      terms |-> <<Return>>])
    BY <1>0, <1>2, Refixed
  <1>4. FixupReturn(bb, st) = Erase(Terminate(bb, Return), st)
    BY DEF FixupReturn
  <1> HIDE DEF st
  <1>5. Erase(Terminate(bb, Return), st) =
             [block |-> bb.block, index |-> bb.index, work |-> bb.work,
              stores |-> Without(bb.stores, st), terms |-> <<Return>>]
    BY <1>1, TerminatedErased, TermKinds
  <1>6. CopyOK(code, func, F \cup M, FixupReturn(bb, st))
    BY <1>3, <1>4, <1>5
  <1> QED
    BY <1>6 DEF st

----------------------------------------------------------------------------
(* A step of the fixups                                                    *)

\* The functions differ in the stores and terminators of their basic blocks
\* only.
SameFrame(f, g) ==
    /\ Len(f) \in Nat /\ DOMAIN f = 1..Len(f)
    /\ Len(g) = Len(f) /\ DOMAIN g = DOMAIN f
    /\ \A p \in DOMAIN f : g[p].block = f[p].block /\ g[p].index = f[p].index
    /\ Len(f) # 0 /\ f[Len(f)] = FakeBB => g[Len(f)] = FakeBB

LEMMA FrameFacts ==
    ASSUME NEW code, NEW f, NEW g, SameFrame(f, g)
    PROVE  /\ BlocksOf(g) = BlocksOf(f)
           /\ \A p \in DOMAIN f : \A pc : BeginsAt(g, p, pc) <=> BeginsAt(f, p, pc)
           /\ \A pc : JumpsOnly(code, g, pc) <=> JumpsOnly(code, f, pc)
           /\ \A p \in DOMAIN f : \A pc : CaseTo(code, f, p, pc) => CaseTo(code, g, p, pc)
           /\ \A st : Erased(g, st) <=> Erased(f, st)
  <1>1. BlocksOf(g) = BlocksOf(f)
    BY DEF SameFrame, BlocksOf
  <1>2. ASSUME NEW p \in DOMAIN f, NEW pc
        PROVE  BeginsAt(g, p, pc) <=> BeginsAt(f, p, pc)
    BY DEF SameFrame, BeginsAt
  <1>3. ASSUME NEW pc
        PROVE  JumpsOnly(code, g, pc) <=> JumpsOnly(code, f, pc)
    BY <1>1 DEF JumpsOnly
  <1>4. ASSUME NEW p \in DOMAIN f, NEW pc, CaseTo(code, f, p, pc)
        PROVE  CaseTo(code, g, p, pc)
    <2>1. g[p].block = f[p].block
      BY DEF SameFrame
    <2> QED
      BY <1>1, <1>2, <1>3, <1>4, <2>1 DEF CaseTo
  <1>5. \A st : Erased(g, st) <=> Erased(f, st)
    BY <1>1 DEF Erased
  <1> QED
    BY <1>1, <1>2, <1>3, <1>4, <1>5

LEMMA FrameTerms ==
    ASSUME NEW code, NEW f, NEW g, SameFrame(f, g), Len(f) # 0,
           NEW st, NEW terms, TermsOK(code, f, st, terms)
    PROVE  TermsOK(code, g, st, terms)
  <1>1. ASSUME NEW pc, Goes(f, terms, pc)
        PROVE  Goes(g, terms, pc)
    <2>1. DOMAIN g = DOMAIN f
      BY DEF SameFrame
    <2> QED
      BY <1>1, <2>1, FrameFacts DEF Goes
  <1>2. /\ Len(g) = Len(f) /\ DOMAIN g = DOMAIN f
        /\ f[Len(f)] = FakeBB => g[Len(g)] = FakeBB
    BY DEF SameFrame
  <1>3. GoesByTable(code, f, terms, st) => GoesByTable(code, g, terms, st)
    <2> SUFFICES ASSUME GoesByTable(code, f, terms, st)
                 PROVE  GoesByTable(code, g, terms, st)
      OBVIOUS
    <2> DEFINE n == Len(st.cases) + 1
    <2>1. PICK to \in [1..n -> DOMAIN f] :
             /\ terms = <<SwitchTo(to)>>
             /\ \A k \in 1..n : CaseTo(code, f, to[k], SwitchTargets(st)[k])
      BY DEF GoesByTable
    <2>2. ASSUME NEW k \in 1..n
          PROVE  CaseTo(code, g, to[k], SwitchTargets(st)[k])
      <3>1. to[k] \in DOMAIN f
        BY <2>1
      <3> QED
        BY <2>1, <3>1, FrameFacts
    <2>3. to \in [1..n -> DOMAIN g]
      BY <1>2, <2>1
    <2> QED
      BY <2>1, <2>2, <2>3 DEF GoesByTable
  <1>4. "indirectJump" \in st.marks =>
          IF st.cases = <<>> THEN terms = <<Branch(Len(g))>> /\ g[Len(g)] = FakeBB
          ELSE IF ~st.idx THEN terms = <<>>
          ELSE GoesByTable(code, g, terms, st)
    BY <1>2, <1>3 DEF TermsOK
  <1>5. st.marks \cap Calls # {} => Goes(g, terms, st.ret)
    BY <1>1 DEF TermsOK
  <1>6. "directJump" \in st.marks => Goes(g, terms, st.val)
    BY <1>1 DEF TermsOK
  <1>7. "return" \in st.marks => terms = <<Return>>
    BY DEF TermsOK
  <1> QED
    BY <1>4, <1>5, <1>6, <1>7 DEF TermsOK

LEMMA FrameCopy ==
    ASSUME NEW code, NEW f, NEW g, SameFrame(f, g), Len(f) # 0,
           NEW F, NEW bb, CopyOK(code, f, F, bb)
    PROVE  CopyOK(code, g, F, bb)
  <1> DEFINE src == code[bb.block][bb.index]
             s == bb.stores
             t == bb.terms
  <1>1. FixedTo(code, f, F, src, s, t)
    BY DEF CopyOK
  <1> HIDE DEF src, s, t
  <1>2. FixedTo(code, g, F, src, s, t)
    <2>1. ASSUME NEW j \in DOMAIN src.stores, src.stores[j].to = "PC"
          PROVE  IF src.stores[j].marks \cap F = {}
                 THEN s = src.stores /\ t = <<FakeReturn>>
                 ELSE /\ s = IF Erased(g, src.stores[j])
                             THEN Without(src.stores, src.stores[j]) ELSE src.stores
                      /\ TermsOK(code, g, src.stores[j], t)
      <3>1. Erased(g, src.stores[j]) <=> Erased(f, src.stores[j])
        BY FrameFacts
      <3>2. TermsOK(code, f, src.stores[j], t) => TermsOK(code, g, src.stores[j], t)
        BY FrameTerms
      <3> QED
        BY <1>1, <2>1, <3>1, <3>2 DEF FixedTo
    <2>2. (\A j \in DOMAIN src.stores : src.stores[j].to # "PC") =>
             s = src.stores /\ t = <<IF src.inner THEN InnerBranch ELSE FakeReturn>>
      BY <1>1 DEF FixedTo
    <2> QED
      BY <2>1, <2>2 DEF FixedTo
  <1> QED
    BY <1>2 DEF CopyOK, src, s, t

LEMMA FrameFunction ==
    ASSUME NEW code, NEW f, NEW g, SameFrame(f, g), NEW F, NEW G, FunctionOK(code, f, F),
           \A p \in DOMAIN f : f[p] # FakeBB => CopyOK(code, f, G, g[p])
    PROVE  FunctionOK(code, g, G)
  <1>1. Len(g) \in Nat /\ DOMAIN g = 1..Len(g) /\ Len(g) = Len(f) /\ DOMAIN g = DOMAIN f
    BY DEF SameFrame
  <1>2. ASSUME NEW p \in DOMAIN f
        PROVE  CopyOK(code, g, G, g[p]) \/ (g[p] = FakeBB /\ p = Len(g))
    <2>1. Len(f) # 0
      BY <1>1
    <2>2. CASE f[p] # FakeBB
      <3>1. CopyOK(code, f, G, g[p])
        BY <2>2
      <3> QED
        BY <2>1, <3>1, FrameCopy
    <2>3. CASE f[p] = FakeBB
      <3>1. CASE p = Len(f)
        BY <1>1, <2>1, <2>3, <3>1 DEF SameFrame
      <3>2. CASE p # Len(f)
        <4>1. CopyOK(code, f, F, f[p])
          BY <3>2 DEF FunctionOK
        <4>2. f[p].block = None /\ f[p].block \in Starts
          BY <2>3, <4>1 DEF CopyOK, FakeBB
        <4> QED
          BY <4>2, StartsAreCode DEF None
      <3> QED
        BY <3>1, <3>2
    <2> QED
      BY <2>2, <2>3
  <1>3. ASSUME NEW b \in BlocksOf(g)
        PROVE  BeginsFirst(g, b)
    <2>1. BeginsFirst(f, b)
      BY FrameFacts DEF FunctionOK
    <2>2. PICK p \in DOMAIN f : BeginsAt(f, p, b) /\ \A q \in DOMAIN f : f[q].block = b => p <= q
      BY <2>1 DEF BeginsFirst
    <2>3. BeginsAt(g, p, b)
      BY <2>2, FrameFacts
    <2>4. \A q \in DOMAIN g : g[q].block = b => p <= q
      BY <1>1, <2>2 DEF SameFrame
    <2> QED
      BY <1>1, <2>3, <2>4 DEF BeginsFirst
  <1>4. JumpsAway(code, g) => Len(g) # 0 /\ g[Len(g)] = FakeBB
    <2>1. JumpsAway(code, g) => JumpsAway(code, f)
      BY <1>1 DEF JumpsAway, SameFrame
    <2>2. JumpsAway(code, f) => Len(f) # 0 /\ f[Len(f)] = FakeBB
      BY DEF FunctionOK
    <2> QED
      BY <1>1, <2>1, <2>2 DEF SameFrame
  <1> QED
    BY <1>1, <1>2, <1>3, <1>4 DEF FunctionOK

\* A fixup leaves a basic block where it is.
SamePlace(bb, bb2) == bb2.block = bb.block /\ bb2.index = bb.index

LEMMA FixupsKeepPlace ==
    ASSUME NEW bb, bb = [block |-> bb.block, index |-> bb.index, work |-> bb.work,
                         stores |-> bb.stores, terms |-> bb.terms],
           NEW st
    PROVE  /\ SamePlace(bb, FixupCall(bb, st))
           /\ SamePlace(bb, FixupDirectJump(bb, st))
           /\ SamePlace(bb, FixupIndirectJump(bb, st))
           /\ SamePlace(bb, FixupReturn(bb, st))
  <1>1. \A u : SamePlace(bb, [bb EXCEPT !.terms = u])
    BY DEF SamePlace
  <1>2. \A u, v : SamePlace(bb, [[bb EXCEPT !.terms = u] EXCEPT !.stores = v])
    BY DEF SamePlace
  <1>3. \A t : SamePlace(bb, Terminate(bb, t))
    BY <1>1 DEF Terminate
  <1>4. \A t : SamePlace(bb, Erase(Terminate(bb, t), st))
    <2> SUFFICES ASSUME NEW t PROVE SamePlace(bb, Erase(Terminate(bb, t), st))
      OBVIOUS
    <2> DEFINE u == CleanupFakeReturns(Append(bb.terms, t))
               r == [bb EXCEPT !.terms = u]
               v == KeepAt(r.stores, {k \in DOMAIN r.stores : r.stores[k] # st})
    <2>1. Terminate(bb, t) = r
      BY DEF Terminate
    <2>2. Erase(r, st) = [r EXCEPT !.stores = v]
      BY DEF Erase
    <2> HIDE DEF u, v
    <2>3. SamePlace(bb, [r EXCEPT !.stores = v])
      BY <1>2
    <2> QED
      BY <2>1, <2>2, <2>3
  <1>5. SamePlace(bb, bb)
    BY DEF SamePlace
  <1>6. SamePlace(bb, FixupCall(bb, st))
    BY <1>3, <1>5 DEF FixupCall
  <1>7. SamePlace(bb, FixupDirectJump(bb, st))
    BY <1>4, <1>5 DEF FixupDirectJump
  <1>8. SamePlace(bb, FixupIndirectJump(bb, st))
    <2>1. CASE ~IsSwitch(st)
      BY <1>3, <2>1 DEF FixupIndirectJump
    <2>2. CASE IsSwitch(st) /\ ~st.idx
      BY <1>1, <2>2 DEF FixupIndirectJump
    <2>3. CASE IsSwitch(st) /\ st.idx
      BY <1>3, <2>3 DEF FixupIndirectJump
    <2> QED
      BY <2>1, <2>2, <2>3
  <1>9. SamePlace(bb, FixupReturn(bb, st))
    BY <1>4 DEF FixupReturn
  <1> QED
    BY <1>6, <1>7, <1>8, <1>9

LEMMA NoMarkOnFake == \A M : Marked(FakeBB, M) = {}
  <1>1. FakeBB.stores = <<>>
    BY DEF FakeBB
  <1>2. Range(<<>>) = {}
    BY DEF Range
  <1> QED
    BY <1>1, <1>2 DEF Marked

\* The function after a step that fixes the stores with the marks M.
LEMMA FixedFunction ==
    ASSUME NEW code, MarkedModule(code), NEW F, NEW M, FunctionOK(code, func, F),
           NEW g, DOMAIN g = DOMAIN func, Len(g) = Len(func),
           \A p \in DOMAIN func : Marked(func[p], M) = {} => g[p] = func[p],
           \A p \in DOMAIN func :
              CopyOK(code, func, F, func[p]) /\ Marked(func[p], M) # {} =>
                 CopyOK(code, func, F \cup M, g[p]) /\ SamePlace(func[p], g[p])
    PROVE  FunctionOK(code, g, F \cup M)
  <1>1. ASSUME NEW p \in DOMAIN func
        PROVE  SamePlace(func[p], g[p])
               /\ (func[p] # FakeBB => CopyOK(code, func, F \cup M, g[p]))
    <2>1. CASE func[p] = FakeBB
      <3>1. g[p] = func[p]
        BY <2>1, NoMarkOnFake
      <3> QED
        BY <2>1, <3>1 DEF SamePlace
    <2>2. CASE func[p] # FakeBB
      <3>1. CopyOK(code, func, F, func[p])
        BY <2>2 DEF FunctionOK
      <3>2. CASE Marked(func[p], M) = {}
        <4>1. CopyOK(code, func, F \cup M, func[p])
          BY <3>1, <3>2, Unmarked
        <4> QED
          BY <3>2, <4>1 DEF SamePlace
      <3>3. CASE Marked(func[p], M) # {}
        BY <3>1, <3>3
      <3> QED
        BY <3>2, <3>3
    <2> QED
      BY <2>1, <2>2
  <1>2. Len(func) # 0 /\ func[Len(func)] = FakeBB => g[Len(func)] = FakeBB
    <2>1. Len(func) # 0 => Len(func) \in DOMAIN func
      BY DEF FunctionOK
    <2> QED
      BY <2>1, NoMarkOnFake
  <1>3. SameFrame(func, g)
    BY <1>1, <1>2 DEF SameFrame, SamePlace, FunctionOK
  <1> QED
    BY <1>1, <1>3, FrameFunction

\* The function that a step leaves is as long as it was.
LEMMA SameLength ==
    ASSUME NEW f, Len(f) \in Nat, DOMAIN f = 1..Len(f), NEW g, DOMAIN g = DOMAIN f,
           g = [p \in DOMAIN g |-> g[p]]
    PROVE  Len(g) = Len(f)
  <1> DEFINE T == {g[p] : p \in DOMAIN g}
  <1>1. g \in [1..Len(f) -> T]
    OBVIOUS
  <1> HIDE DEF T
  <1> QED
    BY <1>1, FunctionIsSequence

LEMMA FixupsOK ==
    ASSUME ModInv, pass \in LaterPasses, FunctionOK(mod, func, FixedMarks(pass)),
           FixupCalls \/ FixupDirectJumps \/ FixupIndirectJumps \/ FixupReturns
    PROVE  FunctionOK(mod, func', FixedMarks(pass'))
  <1> DEFINE code == mod
             g == func'
  <1>1. MarkedModule(code)
    BY ModIsMarked
  <1>2. Len(func) \in Nat /\ DOMAIN func = 1..Len(func)
    BY DEF FunctionOK
  <1>3. \A F, p : CopyOK(code, func, F, func[p]) =>
           func[p] = [block |-> func[p].block, index |-> func[p].index,
                      work |-> func[p].work, stores |-> func[p].stores,
                      terms |-> func[p].terms]
    BY DEF CopyOK
  <1> HIDE DEF code, g
  <1>4. CASE FixupCalls
    <2> DEFINE F == {}
    <2>1. /\ FunctionOK(code, func, F) /\ FixedMarks(pass') = F \cup Calls
          /\ g = [p \in DOMAIN func |->
                    IF Marked(func[p], Calls) = {} THEN func[p]
                    ELSE FixupCall(func[p], TheMarked(func[p], Calls))]
      BY <1>4 DEF FixupCalls, Fixup, FixupAll, FixedMarks, code, g
    <2>2. DOMAIN g = DOMAIN func /\ Len(g) = Len(func)
      BY <1>2, <2>1, SameLength
    <2>3. \A p \in DOMAIN func : Marked(func[p], Calls) = {} => g[p] = func[p]
      BY <2>1
    <2>4. ASSUME NEW p \in DOMAIN func, CopyOK(code, func, F, func[p]),
                 Marked(func[p], Calls) # {}
          PROVE  CopyOK(code, func, F \cup Calls, g[p]) /\ SamePlace(func[p], g[p])
      <3>1. g[p] = FixupCall(func[p], TheMarked(func[p], Calls))
        BY <2>1, <2>4
      <3> QED
        BY <1>1, <1>3, <2>1, <2>4, <3>1, FixupCallOK, FixupsKeepPlace
    <2> HIDE DEF F
    <2>5. FunctionOK(code, g, F \cup Calls)
      BY <1>1, <2>1, <2>2, <2>3, <2>4, FixedFunction
    <2> QED
      BY <2>1, <2>5 DEF code, g
  <1>5. CASE FixupDirectJumps
    <2> DEFINE F == Calls
               M == {"directJump"}
    <2>1. /\ FunctionOK(code, func, F) /\ FixedMarks(pass') = F \cup M
          /\ g = [p \in DOMAIN func |->
                    IF Marked(func[p], M) = {} THEN func[p]
                    ELSE FixupDirectJump(func[p], TheMarked(func[p], M))]
      BY <1>5 DEF FixupDirectJumps, Fixup, FixupAll, FixedMarks, code, g
    <2>2. DOMAIN g = DOMAIN func /\ Len(g) = Len(func)
      BY <1>2, <2>1, SameLength
    <2>3. \A p \in DOMAIN func : Marked(func[p], M) = {} => g[p] = func[p]
      BY <2>1
    <2>4. ASSUME NEW p \in DOMAIN func, CopyOK(code, func, F, func[p]),
                 Marked(func[p], M) # {}
          PROVE  CopyOK(code, func, F \cup M, g[p]) /\ SamePlace(func[p], g[p])
      <3>1. g[p] = FixupDirectJump(func[p], TheMarked(func[p], M))
        BY <2>1, <2>4
      <3> QED
        BY <1>1, <1>3, <2>1, <2>4, <3>1, FixupDirectJumpOK, FixupsKeepPlace
    <2> HIDE DEF F, M
    <2>5. FunctionOK(code, g, F \cup M)
      BY <1>1, <2>1, <2>2, <2>3, <2>4, FixedFunction
    <2> QED
      BY <2>1, <2>5 DEF code, g
  <1>6. CASE FixupIndirectJumps
    <2> DEFINE F == Calls \cup {"directJump"}
               M == {"indirectJump"}
    <2>1. /\ FunctionOK(code, func, F) /\ FixedMarks(pass') = F \cup M
          /\ g = [p \in DOMAIN func |->
                    IF Marked(func[p], M) = {} THEN func[p]
                    ELSE FixupIndirectJump(func[p], TheMarked(func[p], M))]
      <3>1. FixedMarks("fixupIndirectJumps") = F /\ FixedMarks("fixupReturns") = F \cup M
        BY DEF FixedMarks, Calls
      <3> QED
        BY <1>6, <3>1 DEF FixupIndirectJumps, Fixup, FixupAll, code, g
    <2>2. DOMAIN g = DOMAIN func /\ Len(g) = Len(func)
      BY <1>2, <2>1, SameLength
    <2>3. \A p \in DOMAIN func : Marked(func[p], M) = {} => g[p] = func[p]
      BY <2>1
    <2>4. ASSUME NEW p \in DOMAIN func, CopyOK(code, func, F, func[p]),
                 Marked(func[p], M) # {}
          PROVE  CopyOK(code, func, F \cup M, g[p]) /\ SamePlace(func[p], g[p])
      <3>1. g[p] = FixupIndirectJump(func[p], TheMarked(func[p], M))
        BY <2>1, <2>4
      <3> QED
        BY <1>1, <1>3, <2>1, <2>4, <3>1, FixupIndirectJumpOK, FixupsKeepPlace
    <2> HIDE DEF F, M
    <2>5. FunctionOK(code, g, F \cup M)
      BY <1>1, <2>1, <2>2, <2>3, <2>4, FixedFunction
    <2> QED
      BY <2>1, <2>5 DEF code, g
  <1>7. CASE FixupReturns
    <2> DEFINE F == Calls \cup {"directJump", "indirectJump"}
               M == {"return"}
    <2>1. /\ FunctionOK(code, func, F) /\ FixedMarks(pass') = F \cup M
          /\ g = [p \in DOMAIN func |->
                    IF Marked(func[p], M) = {} THEN func[p]
                    ELSE FixupReturn(func[p], TheMarked(func[p], M))]
      <3>1. FixedMarks("fixupReturns") = F /\ FixedMarks("finish") = F \cup M
        BY DEF FixedMarks, Calls, Marks
      <3> QED
        BY <1>7, <3>1 DEF FixupReturns, Fixup, FixupAll, code, g
    <2>2. DOMAIN g = DOMAIN func /\ Len(g) = Len(func)
      BY <1>2, <2>1, SameLength
    <2>3. \A p \in DOMAIN func : Marked(func[p], M) = {} => g[p] = func[p]
      BY <2>1
    <2>4. ASSUME NEW p \in DOMAIN func, CopyOK(code, func, F, func[p]),
                 Marked(func[p], M) # {}
          PROVE  CopyOK(code, func, F \cup M, g[p]) /\ SamePlace(func[p], g[p])
      <3>1. g[p] = FixupReturn(func[p], TheMarked(func[p], M))
        BY <2>1, <2>4
      <3>2. "return" \notin F
        BY DEF Calls
      <3> QED
        BY <1>1, <1>3, <2>1, <2>4, <3>1, <3>2, FixupReturnOK, FixupsKeepPlace
    <2> HIDE DEF F, M
    <2>5. FunctionOK(code, g, F \cup M)
      BY <1>1, <2>1, <2>2, <2>3, <2>4, FixedFunction
    <2> QED
      BY <2>1, <2>5 DEF code, g
  <1> QED
    BY <1>4, <1>5, <1>6, <1>7

----------------------------------------------------------------------------
(* The basic blocks of a new function                                      *)

ClonesOf(b) == [i \in DOMAIN mod[b] |-> CloneBB(b, i)]

Clones == UNION {{CloneBB(b, i) : i \in DOMAIN mod[b]} : b \in Range(blocks)}

BlocksBegin(f) == \A b \in BlocksOf(f) : BeginsFirst(f, b)

LEMMA ClonesAreClones ==
    ASSUME mod \in AnyModule, blocks \in Seq(Starts), NEW b \in Range(blocks)
    PROVE  /\ ClonesOf(b) \in Seq(Clones) /\ Len(ClonesOf(b)) \in Nat \ {0}
           /\ \A i \in 1..Len(ClonesOf(b)) :
                 ClonesOf(b)[i].block = b /\ ClonesOf(b)[i].index = i
  <1> DEFINE n == Len(mod[b])
  <1>1. b \in Starts
    BY DEF Range
  <1>2. n \in Nat \ {0} /\ DOMAIN mod[b] = 1..n
    <2>1. mod[b] \in Seq(AnyBB) /\ mod[b] # <<>>
      BY <1>1, ModuleStores
    <2> QED
      BY <2>1
  <1> HIDE DEF n
  <1>3. ClonesOf(b) = [i \in 1..n |-> CloneBB(b, i)]
    BY <1>2 DEF ClonesOf
  <1>4. \A i \in 1..n : CloneBB(b, i) \in Clones
    <2>1. {CloneBB(b, i) : i \in DOMAIN mod[b]} \subseteq Clones
      BY DEF Clones
    <2> QED
      BY <1>2, <2>1
  <1>5. ClonesOf(b) \in Seq(Clones) /\ Len(ClonesOf(b)) = n
    <2>1. ClonesOf(b) \in [1..n -> Clones] /\ n \in Nat
      BY <1>2, <1>3, <1>4
    <2> QED
      BY <2>1, FunctionIsSequence
  <1>6. \A i \in 1..n : CloneBB(b, i).block = b /\ CloneBB(b, i).index = i
    BY DEF CloneBB
  <1> QED
    BY <1>2, <1>3, <1>5, <1>6

LEMMA CloneBlock ==
    ASSUME blocks \in Seq(Starts), NEW c \in Clones
    PROVE  /\ c.block \in Range(blocks) /\ c.block \in Starts /\ c.block # None
           /\ c.index \in DOMAIN mod[c.block] /\ c = CloneBB(c.block, c.index)
  <1>1. PICK b \in Range(blocks) : \E i \in DOMAIN mod[b] : c = CloneBB(b, i)
    BY DEF Clones
  <1>2. PICK i \in DOMAIN mod[b] : c = CloneBB(b, i)
    BY <1>1
  <1>4. c.block = b /\ c.index = i
    BY <1>2 DEF CloneBB
  <1>3. b \in Starts /\ b # None
    BY StartsAreCode DEF Range, None
  <1> QED
    BY <1>2, <1>3, <1>4

\* One more block, at the end of the function.
LEMMA InlineOne ==
    ASSUME mod \in AnyModule, blocks \in Seq(Starts), NEW b \in Range(blocks),
           NEW f \in Seq(Clones), BlocksBegin(f)
    PROVE  f \o ClonesOf(b) \in Seq(Clones) /\ BlocksBegin(f \o ClonesOf(b))
  <1> DEFINE t == ClonesOf(b)
             g == f \o t
             n == Len(f)
  <1>1. /\ t \in Seq(Clones) /\ Len(t) \in Nat \ {0}
        /\ \A i \in 1..Len(t) : t[i].block = b /\ t[i].index = i
    BY ClonesAreClones
  <1>2. DOMAIN f = 1..n /\ n \in Nat
    OBVIOUS
  <1> HIDE DEF t
  <1>3. /\ g \in Seq(Clones) /\ Len(g) = n + Len(t)
        /\ \A i \in 1..n : g[i] = f[i]
        /\ \A i \in 1..Len(t) : g[n + i] = t[i]
    BY <1>1, ConcatPositions
  <1>4. DOMAIN g = 1..(n + Len(t))
    BY <1>3
  <1> HIDE DEF g, n
  <1>5. \A q \in DOMAIN g : q \in 1..n \/ q - n \in 1..Len(t)
    BY <1>1, <1>2, <1>4
  <1>6. \A q \in DOMAIN g : q \notin 1..n => q > n /\ g[q].block = b
    <2> SUFFICES ASSUME NEW q \in DOMAIN g, q \notin 1..n
                 PROVE  q > n /\ g[q].block = b
      OBVIOUS
    <2> DEFINE i == q - n
    <2>1. i \in 1..Len(t) /\ q = n + i /\ q > n
      BY <1>1, <1>2, <1>4, <1>5
    <2> HIDE DEF i
    <2> QED
      BY <1>1, <1>3, <2>1
  <1>7. ASSUME NEW c \in BlocksOf(g)
        PROVE  BeginsFirst(g, c)
    <2>1. CASE c \in BlocksOf(f)
      <3>1. PICK p \in DOMAIN f : /\ BeginsAt(f, p, c)
                                  /\ \A q \in DOMAIN f : f[q].block = c => p <= q
        BY <2>1 DEF BlocksBegin, BeginsFirst
      <3>2. p \in DOMAIN g /\ BeginsAt(g, p, c)
        BY <1>1, <1>2, <1>3, <1>4, <3>1 DEF BeginsAt
      <3>3. \A q \in DOMAIN g : g[q].block = c => p <= q
        BY <1>2, <1>3, <1>4, <1>6, <3>1
      <3> QED
        BY <3>2, <3>3 DEF BeginsFirst
    <2>2. CASE c \notin BlocksOf(f)
      <3>1. \A q \in 1..n : g[q].block # c
        <4>1. \A q \in 1..n : f[q].block = c => c \in BlocksOf(f)
          BY <1>2 DEF BlocksOf
        <4> QED
          BY <1>3, <2>2, <4>1
      <3>2. c = b
        BY <1>6, <3>1 DEF BlocksOf
      <3>3. n + 1 \in DOMAIN g /\ g[n + 1].block = b /\ g[n + 1].index = 1
        BY <1>1, <1>2, <1>3, <1>4
      <3>4. \A q \in DOMAIN g : g[q].block = c => n + 1 <= q
        BY <1>2, <1>4, <1>6, <3>1
      <3> QED
        BY <3>2, <3>3, <3>4 DEF BeginsFirst, BeginsAt
    <2> QED
      BY <2>1, <2>2
  <1> QED
    BY <1>3, <1>7 DEF BlocksBegin, g, t

\* All the blocks.
LEMMA InlineAll ==
    ASSUME mod \in AnyModule, blocks \in Seq(Starts),
           NEW f, f = FlattenSeq([b \in DOMAIN blocks |-> ClonesOf(blocks[b])])
    PROVE  f \in Seq(Clones) /\ BlocksBegin(f)
  <1> DEFINE ss == [b \in DOMAIN blocks |-> ClonesOf(blocks[b])]
             N == Len(ss)
             Good(h) == h \in Seq(Clones) /\ BlocksBegin(h)
             P == {n \in 0..N : Good(FlattenSeq(SubSeq(ss, 1, n)))}
  <1>1. /\ ss \in Seq(Seq(Clones)) /\ N = Len(blocks) /\ N \in Nat
        /\ \A n \in 1..N : blocks[n] \in Range(blocks) /\ ss[n] = ClonesOf(blocks[n])
    <2>1. DOMAIN blocks = 1..Len(blocks) /\ Len(blocks) \in Nat
      OBVIOUS
    <2>2. \A n \in DOMAIN blocks : blocks[n] \in Range(blocks)
      BY DEF Range
    <2>3. \A n \in DOMAIN blocks : ClonesOf(blocks[n]) \in Seq(Clones)
      BY <2>2, ClonesAreClones
    <2>4. ss \in [1..Len(blocks) -> Seq(Clones)]
      BY <2>1, <2>3
    <2>5. \A n \in DOMAIN blocks : ss[n] = ClonesOf(blocks[n])
      OBVIOUS
    <2> HIDE DEF ss
    <2>6. ss \in Seq(Seq(Clones)) /\ Len(ss) = Len(blocks)
      BY <2>1, <2>4, FunctionIsSequence
    <2> QED
      BY <2>1, <2>2, <2>5, <2>6
  <1>2. f = FlattenSeq(ss)
    OBVIOUS
  <1> HIDE DEF ss
  <1>3. /\ SubSeq(ss, 1, 0) = <<>> /\ SubSeq(ss, 1, N) = ss
        /\ \A n \in 0..N : SubSeq(ss, 1, n) \in Seq(Seq(Clones))
        /\ \A n \in 1..N : SubSeq(ss, 1, n) = Append(SubSeq(ss, 1, n - 1), ss[n])
                           /\ ss[n] \in Seq(Clones)
    <2> DEFINE V == Seq(Clones)
    <2>1. ss \in Seq(V)
      BY <1>1
    <2> HIDE DEF V
    <2>2. /\ SubSeq(ss, 1, 0) = <<>>
          /\ SubSeq(ss, 1, Len(ss)) = ss
          /\ \A n \in 0..Len(ss) : SubSeq(ss, 1, n) \in Seq(V) /\ Len(SubSeq(ss, 1, n)) = n
          /\ \A n \in 1..Len(ss) :
                SubSeq(ss, 1, n) = Append(SubSeq(ss, 1, n - 1), ss[n]) /\ ss[n] \in V
      BY <2>1, PrefixFacts
    <2> QED
      BY <2>2 DEF V
  <1> HIDE DEF N
  <1>4. Good(FlattenSeq(<<>>))
    <2> DEFINE e == <<>>
               h == FlattenSeq(e)
    <2>1. e \in Seq(Seq(Clones)) /\ Len(e) = 0
      OBVIOUS
    <2> HIDE DEF e
    <2>2. h \in Seq(Clones) /\ Range(h) = UNION {Range(e[i]) : i \in 1..Len(e)}
      BY <2>1, FlattenMembers
    <2>3. Range(h) = {}
      BY <2>1, <2>2
    <2> HIDE DEF h
    <2>4. DOMAIN h = {}
      BY <2>3 DEF Range
    <2>5. BlocksBegin(h)
      BY <2>4 DEF BlocksBegin, BlocksOf
    <2> QED
      BY <2>2, <2>5 DEF h, e
  <1>5. 0 \in P
    <2> HIDE DEF Good
    <2>1. SubSeq(ss, 1, 0) = <<>>
      BY <1>3
    <2>2. 0 \in 0..N
      BY <1>1
    <2>3. Good(FlattenSeq(SubSeq(ss, 1, 0)))
      BY <1>4, <2>1, Zenon
    <2> QED
      BY <2>2, <2>3
  <1>6. ASSUME NEW n \in 0..N, n \in P, n < N
        PROVE  n + 1 \in P
    <2> DEFINE pre == SubSeq(ss, 1, n)
               h == FlattenSeq(pre)
               b == blocks[n + 1]
    <2>1. n + 1 \in 1..N /\ (n + 1) - 1 = n /\ n + 1 \in 0..N
      BY <1>1, <1>6
    <2>2. Good(h) /\ pre \in Seq(Seq(Clones))
      BY <1>3, <1>6
    <2>3. SubSeq(ss, 1, n + 1) = Append(pre, ClonesOf(b)) /\ b \in Range(blocks)
          /\ ClonesOf(b) \in Seq(Clones)
      BY <1>1, <1>3, <2>1
    <2> HIDE DEF pre, b
    <2>4. FlattenSeq(Append(pre, ClonesOf(b))) = h \o ClonesOf(b)
      BY <2>2, <2>3, FlattenAppend
    <2> HIDE DEF h
    <2>5. Good(h \o ClonesOf(b))
      BY <2>2, <2>3, InlineOne
    <2> HIDE DEF Good
    <2> QED
      BY <2>1, <2>3, <2>4, <2>5
  <1>7. \A n \in 0..N : n \in P
    <2> HIDE DEF P
    <2> QED
      BY <1>1, <1>5, <1>6, SetInduction
  <1>8. Good(FlattenSeq(SubSeq(ss, 1, N)))
    <2>1. N \in 0..N
      BY <1>1
    <2> HIDE DEF Good
    <2> QED
      BY <1>7, <2>1
  <1> QED
    BY <1>2, <1>3, <1>8

\* A new copy: no store is fixed.
LEMMA CloneOK ==
    ASSUME MarkedModule(mod), blocks \in Seq(Starts), NEW c \in Clones, NEW f
    PROVE  CopyOK(mod, f, {}, c)
  <1> DEFINE b == c.block
             i == c.index
             src == mod[b][i]
  <1>1. b \in Starts /\ i \in DOMAIN mod[b] /\ c = CloneBB(b, i)
    BY CloneBlock
  <1>2. /\ c = [block |-> b, index |-> i, work |-> c.work, stores |-> c.stores,
                terms |-> c.terms]
        /\ c.work = src.work /\ c.stores = src.stores
        /\ c.terms = <<IF src.inner THEN InnerBranch ELSE FakeReturn>>
    <2> HIDE DEF b, i
    <2> QED
      BY <1>1 DEF CloneBB
  <1>3. ASSUME NEW j \in DOMAIN src.stores, src.stores[j].to = "PC"
        PROVE  ~src.inner
    BY <1>1, <1>3, SourceStores
  <1> HIDE DEF b, i
  <1>4. FixedTo(mod, f, {}, src, c.stores, c.terms)
    BY <1>2, <1>3 DEF FixedTo
  <1> QED
    BY <1>1, <1>2, <1>4 DEF CopyOK, b, i

LEMMA InlineOK ==
    ASSUME ModInv, ExploreInv, InlineBBs
    PROVE  FunctionOK(mod, func', {})
  <1> DEFINE f == FlattenSeq([b \in DOMAIN blocks |-> ClonesOf(blocks[b])])
             fake == IF hasIndirectJump THEN <<FakeBB>> ELSE <<>>
             g == f \o fake
             n == Len(f)
  <1>0. func' = g
    BY DEF InlineBBs, ClonesOf
  <1>1. /\ pass = "explore" /\ toExpand = <<>> /\ blocks \in Seq(Starts)
        /\ \A s \in Range(blocks) \ Range(toExpand) : Expanded(s)
    BY DEF InlineBBs, ExploreInv, InFunction
  <1>2. MarkedModule(mod) /\ mod \in AnyModule
    BY <1>1, ModIsMarked DEF LaterPasses, Passes, Marking, InFunction, MarkedModule
  <1>3. f \in Seq(Clones) /\ BlocksBegin(f)
    BY <1>1, <1>2, InlineAll
  <1>4. n \in Nat /\ DOMAIN f = 1..n
    BY <1>3
  <1> HIDE DEF f
  <1>5. /\ Len(fake) \in Nat /\ Len(fake) = IF hasIndirectJump THEN 1 ELSE 0
        /\ hasIndirectJump => fake[1] = FakeBB
    OBVIOUS
  <1>6. /\ Len(g) = n + Len(fake) /\ DOMAIN g = 1..Len(g)
        /\ \A p \in 1..n : g[p] = f[p]
        /\ \A p \in 1..Len(fake) : g[n + p] = fake[p]
    <2> DEFINE T == Clones \cup {FakeBB}
    <2>1. f \in Seq(T)
      BY <1>3, <1>4
    <2>2. fake \in Seq(T)
      <3>1. FakeBB \in T
        OBVIOUS
      <3> HIDE DEF T
      <3>2. <<FakeBB>> \in Seq(T) /\ <<>> \in Seq(T)
        BY <3>1
      <3> QED
        BY <3>2
    <2> HIDE DEF T, fake
    <2>3. /\ g \in Seq(T) /\ Len(g) = n + Len(fake)
          /\ \A p \in 1..n : g[p] = f[p]
          /\ \A p \in 1..Len(fake) : g[n + p] = fake[p]
      BY <2>1, <2>2, ConcatPositions
    <2> HIDE DEF g
    <2> QED
      BY <2>3
  <1> HIDE DEF g, n, fake
  <1>7. ASSUME NEW p \in DOMAIN g
        PROVE  \/ p \in 1..n /\ g[p] = f[p] /\ f[p] \in Clones
               \/ p = n + 1 /\ p = Len(g) /\ hasIndirectJump /\ g[p] = FakeBB
    <2>1. CASE p \in 1..n
      BY <1>3, <1>4, <1>6, <2>1
    <2>2. CASE p \notin 1..n
      <3>1. hasIndirectJump /\ p = n + 1 /\ Len(g) = n + 1 /\ 1 \in 1..Len(fake)
        BY <1>4, <1>5, <1>6, <2>2
      <3> QED
        BY <1>5, <1>6, <3>1
    <2> QED
      BY <2>1, <2>2
  <1>8. \A p \in DOMAIN g : CopyOK(mod, g, {}, g[p]) \/ (g[p] = FakeBB /\ p = Len(g))
    BY <1>1, <1>2, <1>7, CloneOK
  <1>9. ASSUME NEW b \in BlocksOf(g)
        PROVE  BeginsFirst(g, b)
    <2>1. PICK q \in DOMAIN g : g[q].block = b /\ b # None
      BY DEF BlocksOf
    <2>2. FakeBB.block = None
      BY DEF FakeBB
    <2>3. q \in DOMAIN f /\ f[q].block = b
      BY <1>4, <1>7, <2>1, <2>2
    <2>4. b \in BlocksOf(f)
      BY <2>1, <2>3 DEF BlocksOf
    <2>5. PICK p \in DOMAIN f : BeginsAt(f, p, b) /\ \A r \in DOMAIN f : f[r].block = b => p <= r
      BY <1>3, <2>4 DEF BlocksBegin, BeginsFirst
    <2>6. p \in DOMAIN g /\ BeginsAt(g, p, b)
      BY <1>4, <1>5, <1>6, <2>5 DEF BeginsAt
    <2>7. \A r \in DOMAIN g : g[r].block = b => p <= r
      BY <1>4, <1>7, <2>1, <2>2, <2>5
    <2> QED
      BY <2>6, <2>7 DEF BeginsFirst
  <1>10. ASSUME JumpsAway(mod, g)
         PROVE  Len(g) # 0 /\ g[Len(g)] = FakeBB
    <2>1. PICK p \in DOMAIN g :
             /\ g[p].block # None
             /\ \E j \in DOMAIN mod[g[p].block][g[p].index].stores :
                   "indirectJump" \in mod[g[p].block][g[p].index].stores[j].marks
      BY <1>10 DEF JumpsAway
    <2>2. FakeBB.block = None
      BY DEF FakeBB
    <2>3. g[p] \in Clones
      BY <1>7, <2>1, <2>2
    <2> DEFINE b == g[p].block
               i == g[p].index
    <2>4. b \in Range(blocks) /\ b \in Starts /\ i \in DOMAIN mod[b]
      BY <1>1, <2>3, CloneBlock
    <2>5. PICK j \in DOMAIN mod[b][i].stores : "indirectJump" \in mod[b][i].stores[j].marks
      BY <2>1
    <2> HIDE DEF b, i
    <2>6. mod[b][i].stores[j].to = "PC"
      BY <1>2, <2>4, <2>5, SourceStores
    <2>7. mod[b][i].stores[j] \in Range(PCStoresOf(mod[b]))
      <3>1. mod[b] \in Seq(AnyBB)
        BY <1>2, <2>4, ModuleStores
      <3> QED
        BY <2>4, <2>5, <2>6, <3>1, PCStoresMembers
    <2>8. hasIndirectJump
      <3>1. Range(toExpand) = {}
        BY <1>1 DEF Range
      <3>2. Expanded(b)
        BY <1>1, <2>4, <3>1
      <3> QED
        BY <2>5, <2>7, <3>2 DEF Expanded
    <2>9. n + 1 = Len(g) /\ 1 \in 1..Len(fake)
      BY <1>4, <1>5, <1>6, <2>8
    <2> QED
      BY <1>4, <1>5, <1>6, <2>8, <2>9
  <1>11. Len(g) \in Nat
    BY <1>4, <1>5, <1>6
  <1>12. FunctionOK(mod, g, {})
    BY <1>6, <1>8, <1>9, <1>10, <1>11 DEF FunctionOK
  <1> QED
    BY <1>0, <1>12

----------------------------------------------------------------------------
(* The functions that are written                                          *)

\* What a basic block ends in when all stores are fixed.
LEMMA CopyEnds ==
    ASSUME NEW code, MarkedModule(code), NEW f, NEW bb, CopyOK(code, f, Marks, bb)
    PROVE  LET a == code[bb.block][bb.index].stores
           IN  \/ /\ \A o \in Range(a) : o.marks = {}
                  /\ bb.terms = <<InnerBranch>> \/ bb.terms = <<FakeReturn>>
               \/ \E st \in Range(a) :
                     /\ st \in AnyStore /\ \E k \in Marks : st.marks = {k}
                     /\ TermsOK(code, f, st, bb.terms)
                     /\ \A o \in Range(a) : o.marks # {} => o = st
                     /\ "indirectJump" \in st.marks => bb.stores = a
  <1> DEFINE src == code[bb.block][bb.index]
             a == src.stores
  <1>1. /\ bb.block \in Starts /\ bb.index \in DOMAIN code[bb.block]
        /\ FixedTo(code, f, Marks, src, bb.stores, bb.terms)
    BY DEF CopyOK
  <1>2. CASE \A j \in DOMAIN a : a[j].to # "PC"
    <2>1. bb.terms = <<IF src.inner THEN InnerBranch ELSE FakeReturn>>
      BY <1>1, <1>2 DEF FixedTo
    <2>2. \A j \in DOMAIN a : a[j].marks = {}
      BY <1>1, <1>2, SourceStores
    <2>3. \A o \in Range(a) : o.marks = {}
      BY <2>2 DEF Range
    <2> QED
      BY <2>1, <2>3
  <1>3. CASE \E j \in DOMAIN a : a[j].to = "PC"
    <2>1. PICK j \in DOMAIN a : a[j].to = "PC"
      BY <1>3
    <2>2. /\ a[j] \in AnyStore /\ \E k \in Marks : a[j].marks = {k}
          /\ \A l \in DOMAIN a : a[l].to = "PC" => l = j
      BY <1>1, <2>1, SourceStores
    <2>3. \A l \in DOMAIN a : a[l].marks # {} => a[l].to = "PC"
      BY <1>1, SourceStores
    <2>4. a[j].marks \cap Marks # {}
      BY <2>2
    <2>5. /\ bb.stores = IF Erased(f, a[j]) THEN Without(a, a[j]) ELSE a
          /\ TermsOK(code, f, a[j], bb.terms)
      BY <1>1, <2>1, <2>4 DEF FixedTo
    <2>6. "indirectJump" \in a[j].marks => ~Erased(f, a[j])
      BY <2>2 DEF Erased
    <2>7. a[j] \in Range(a) /\ \A o \in Range(a) : o.marks # {} => o = a[j]
      BY <2>2, <2>3 DEF Range
    <2> QED
      BY <2>2, <2>5, <2>6, <2>7
  <1> QED
    BY <1>2, <1>3

\* The terminators of a function's basic blocks.
Ends(f, terms) ==
    \/ terms \in {<<>>, <<Return>>, <<FakeReturn>>, <<InnerBranch>>}
    \/ \E p \in DOMAIN f : terms = <<Branch(p)>>
    \/ \E n \in Nat : \E to \in [1..n -> DOMAIN f] : terms = <<SwitchTo(to)>>

LEMMA StoreEnds ==
    ASSUME NEW code, NEW f, Len(f) \in DOMAIN f,
           NEW st \in AnyStore, NEW k \in Marks, st.marks = {k},
           NEW terms, TermsOK(code, f, st, terms)
    PROVE  /\ Ends(f, terms)
           /\ Len(terms) = IF IsSwitch(st) /\ ~st.idx THEN 0 ELSE 1
  <1>1. ASSUME NEW pc, Goes(f, terms, pc)
        PROVE  Ends(f, terms) /\ Len(terms) = 1
    BY <1>1 DEF Goes, Ends
  <1>2. CASE k \in Calls
    <2>1. Goes(f, terms, st.ret) /\ ~IsSwitch(st)
      BY <1>2 DEF TermsOK, IsSwitch, Calls
    <2> QED
      BY <1>1, <2>1
  <1>3. CASE k = "directJump"
    <2>1. Goes(f, terms, st.val) /\ ~IsSwitch(st)
      BY <1>3 DEF TermsOK, IsSwitch
    <2> QED
      BY <1>1, <2>1
  <1>4. CASE k = "return"
    <2>1. terms = <<Return>> /\ ~IsSwitch(st)
      BY <1>4 DEF TermsOK, IsSwitch
    <2> QED
      BY <2>1 DEF Ends
  <1>5. CASE k = "indirectJump"
    <2> DEFINE cases == st.cases
               n == Len(cases) + 1
    <2>1. cases \in Seq(Int)
      BY StoreFields
    <2>2. n \in Nat
      BY <2>1
    <2>3. CASE cases = <<>>
      <3>1. terms = <<Branch(Len(f))>> /\ ~IsSwitch(st)
        BY <1>5, <2>3 DEF TermsOK, IsSwitch
      <3> QED
        BY <3>1 DEF Ends
    <2>4. CASE cases # <<>> /\ ~st.idx
      <3>1. terms = <<>> /\ IsSwitch(st)
        BY <1>5, <2>4 DEF TermsOK, IsSwitch
      <3> QED
        BY <2>4, <3>1 DEF Ends
    <2>5. CASE cases # <<>> /\ st.idx
      <3>1. GoesByTable(code, f, terms, st)
        BY <1>5, <2>5 DEF TermsOK
      <3>2. PICK to \in [1..n -> DOMAIN f] : terms = <<SwitchTo(to)>>
        BY <3>1 DEF GoesByTable
      <3>3. Ends(f, terms)
        BY <2>2, <3>2 DEF Ends
      <3> QED
        BY <2>5, <3>2, <3>3
    <2> QED
      BY <2>3, <2>4, <2>5
  <1> QED
    BY <1>2, <1>3, <1>4, <1>5 DEF Marks, Calls

\* A basic block has one terminator, or none when it is a switch without index.
LEMMA OneEnd ==
    ASSUME NEW code, MarkedModule(code), NEW f, FunctionOK(code, f, Marks), NEW p \in DOMAIN f
    PROVE  /\ Ends(f, f[p].terms)
           /\ Len(f[p].terms) = IF UnindexedSwitch(f[p]) THEN 0 ELSE 1
  <1> DEFINE bb == f[p]
             a == code[bb.block][bb.index].stores
  <1>1. Len(f) \in DOMAIN f
    BY DEF FunctionOK
  <1>2. CASE bb = FakeBB
    <2>1. bb.terms = <<Return>> /\ bb.stores = <<>>
      BY <1>2 DEF FakeBB
    <2>2. ~UnindexedSwitch(bb)
      BY <2>1 DEF UnindexedSwitch, Range
    <2> QED
      BY <2>1, <2>2 DEF Ends
  <1>3. CASE bb # FakeBB
    <2>1. CopyOK(code, f, Marks, bb)
      BY <1>3 DEF FunctionOK
    <2>2. \A o \in Range(bb.stores) : o \in Range(a)
      BY <2>1, CopyStores
    <2>3. \/ /\ \A o \in Range(a) : o.marks = {}
             /\ bb.terms = <<InnerBranch>> \/ bb.terms = <<FakeReturn>>
          \/ \E st \in Range(a) :
                /\ st \in AnyStore /\ \E k \in Marks : st.marks = {k}
                /\ TermsOK(code, f, st, bb.terms)
                /\ \A o \in Range(a) : o.marks # {} => o = st
                /\ "indirectJump" \in st.marks => bb.stores = a
      BY <2>1, CopyEnds
    <2> HIDE DEF a, bb
    <2>4. CASE /\ \A o \in Range(a) : o.marks = {}
               /\ bb.terms = <<InnerBranch>> \/ bb.terms = <<FakeReturn>>
      <3>1. ~UnindexedSwitch(bb)
        BY <2>2, <2>4 DEF UnindexedSwitch, IsSwitch
      <3>2. Ends(f, bb.terms) /\ Len(bb.terms) = 1
        BY <2>4 DEF Ends
      <3> QED
        BY <3>1, <3>2 DEF bb
    <2>5. ASSUME NEW st \in Range(a), st \in AnyStore, NEW k \in Marks, st.marks = {k},
                 TermsOK(code, f, st, bb.terms),
                 \A o \in Range(a) : o.marks # {} => o = st,
                 "indirectJump" \in st.marks => bb.stores = a
          PROVE  /\ Ends(f, bb.terms)
                 /\ Len(bb.terms) = IF UnindexedSwitch(bb) THEN 0 ELSE 1
      <3>1. /\ Ends(f, bb.terms)
            /\ Len(bb.terms) = IF IsSwitch(st) /\ ~st.idx THEN 0 ELSE 1
        BY <1>1, <2>5, StoreEnds
      <3>2. UnindexedSwitch(bb) <=> IsSwitch(st) /\ ~st.idx
        BY <2>2, <2>5 DEF UnindexedSwitch, IsSwitch
      <3> QED
        BY <3>1, <3>2
    <2> QED
      BY <2>3, <2>4, <2>5 DEF bb
  <1> QED
    BY <1>2, <1>3

\* The terminators when the positions they branch to are h further.
ShiftedBy(h, a, b) ==
    /\ a \in {<<>>, <<Return>>, <<FakeReturn>>, <<InnerBranch>>} => b = a
    /\ \A p \in Nat : a = <<Branch(p)>> => b = <<Branch(p + h)>>
    /\ \A n \in Nat : \A to \in [1..n -> Nat] : a = <<SwitchTo(to)>> =>
          \E to2 \in [1..n -> Nat] :
              b = <<SwitchTo(to2)>> /\ \A k \in 1..n : to2[k] = to[k] + h

\* g has the basic blocks of f, h positions further, behind the entry that
\* SaveFunctions puts in front.
MovedBy(h, f, g) ==
    /\ h \in Nat
    /\ \A p \in DOMAIN f :
          /\ p + h \in DOMAIN g /\ SamePlace(f[p], g[p + h])
          /\ g[p + h].stores = f[p].stores /\ ShiftedBy(h, f[p].terms, g[p + h].terms)
    /\ \A q \in DOMAIN g :
          \/ \E p \in DOMAIN f : q = p + h
          \/ g[q].index = 0 /\ g[q].stores = <<>> /\ g[q].terms = <<Branch(2)>>
    /\ BlocksOf(g) = BlocksOf(f)

LEMMA MovedCase ==
    ASSUME NEW code, NEW f, NEW g, NEW h, MovedBy(h, f, g), NEW p \in DOMAIN f, NEW pc,
           CaseTo(code, f, p, pc)
    PROVE  CaseTo(code, g, p + h, pc)
  <1>1. g[p + h].block = f[p].block /\ g[p + h].index = f[p].index
    BY DEF MovedBy, SamePlace
  <1>2. BlocksOf(g) = BlocksOf(f)
    BY DEF MovedBy
  <1>3. JumpsOnly(code, g, pc) <=> JumpsOnly(code, f, pc)
    BY <1>2 DEF JumpsOnly
  <1>4. BeginsAt(g, p + h, pc) <=> BeginsAt(f, p, pc)
    BY <1>1 DEF BeginsAt
  <1> QED
    BY <1>1, <1>2, <1>3, <1>4 DEF CaseTo

LEMMA MovedGoes ==
    ASSUME NEW f, DOMAIN f \subseteq Nat, NEW g, NEW h, MovedBy(h, f, g), NEW a, NEW b,
           ShiftedBy(h, a, b), NEW pc, Goes(f, a, pc)
    PROVE  GoesTo(g, b, pc)
  <1>1. BlocksOf(g) = BlocksOf(f)
    BY DEF MovedBy
  <1>2. CASE pc \in BlocksOf(f)
    <2>1. PICK p \in DOMAIN f : a = <<Branch(p)>> /\ BeginsAt(f, p, pc)
      BY <1>2 DEF Goes
    <2>2. b = <<Branch(p + h)>>
      BY <2>1 DEF ShiftedBy
    <2>3. BeginsAt(g, p + h, pc)
      BY <2>1 DEF MovedBy, SamePlace, BeginsAt
    <2>4. b[1].kind = "br" /\ b[1].to[1] = p + h
      BY <2>2 DEF Branch
    <2> QED
      BY <1>1, <1>2, <2>3, <2>4 DEF GoesTo
  <1>3. CASE pc \notin BlocksOf(f)
    <2>1. a = <<FakeReturn>>
      BY <1>3 DEF Goes
    <2>2. b = a
      BY <2>1 DEF ShiftedBy
    <2> QED
      BY <1>1, <1>3, <2>1, <2>2 DEF GoesTo
  <1> QED
    BY <1>2, <1>3

LEMMA MovedFlow ==
    ASSUME NEW code, NEW f, NEW g, NEW h, MovedBy(h, f, g),
           DOMAIN f \subseteq Nat, Len(f) \in DOMAIN f,
           NEW a, NEW b, ShiftedBy(h, a, b),
           NEW st \in AnyStore, NEW m \in Marks, st.marks = {m}, TermsOK(code, f, st, a)
    PROVE  FlowFor(code, g, b, st)
  <1>1. CASE m \in Calls
    <2>1. Goes(f, a, st.ret)
      BY <1>1 DEF TermsOK
    <2>2. GoesTo(g, b, st.ret)
      BY <2>1, MovedGoes
    <2>3. m # "directJump" /\ m # "return" /\ m # "indirectJump"
      BY <1>1 DEF Calls
    <2> QED
      BY <2>2, <2>3 DEF FlowFor, IsSwitch
  <1>2. CASE m = "directJump"
    <2>1. Goes(f, a, st.val)
      BY <1>2 DEF TermsOK
    <2>2. GoesTo(g, b, st.val)
      BY <2>1, MovedGoes
    <2> QED
      BY <1>2, <2>2 DEF FlowFor, IsSwitch, Calls
  <1>3. CASE m = "return"
    <2>1. a = <<Return>>
      BY <1>3 DEF TermsOK
    <2>2. b = <<Return>>
      BY <2>1 DEF ShiftedBy
    <2> QED
      BY <1>3, <2>2 DEF FlowFor, IsSwitch, Calls
  <1>4. CASE m = "indirectJump"
    <2> DEFINE cases == st.cases
               n == Len(cases) + 1
    <2>1. cases \in Seq(Int) /\ st.dflt \in Int
      BY StoreFields
    <2>2. /\ st.marks \cap Calls = {} /\ "directJump" \notin st.marks
          /\ "return" \notin st.marks
      BY <1>4 DEF Calls
    <2>3. CASE cases = <<>>
      <3>1. a = <<Branch(Len(f))>> /\ f[Len(f)] = FakeBB
        BY <1>4, <2>3 DEF TermsOK
      <3>2. b = <<Branch(Len(f) + h)>>
        BY <3>1 DEF ShiftedBy
      <3>3. g[Len(f) + h].block = None
        BY <3>1 DEF MovedBy, SamePlace, FakeBB
      <3>4. b[1].to[1] = Len(f) + h
        BY <3>2 DEF Branch
      <3>5. ~IsSwitch(st)
        BY <2>3 DEF IsSwitch
      <3> QED
        BY <2>2, <3>3, <3>4, <3>5 DEF FlowFor
    <2>4. CASE cases # <<>> /\ ~st.idx
      <3>1. IsSwitch(st) /\ ~st.idx
        BY <1>4, <2>4 DEF IsSwitch
      <3> QED
        BY <2>2, <3>1 DEF FlowFor
    <2>5. CASE cases # <<>> /\ st.idx
      <3>1. GoesByTable(code, f, a, st)
        BY <1>4, <2>5 DEF TermsOK
      <3>2. PICK to \in [1..n -> DOMAIN f] :
               /\ a = <<SwitchTo(to)>>
               /\ \A k \in 1..n : CaseTo(code, f, to[k], SwitchTargets(st)[k])
        BY <3>1 DEF GoesByTable
      <3>3. DOMAIN SwitchTargets(st) = 1..n
        BY <2>1 DEF SwitchTargets
      <3>4. n \in Nat
        BY <2>1
      <3> HIDE DEF n
      <3>5. to \in [1..n -> Nat]
        BY <3>2
      <3>6. PICK to2 \in [1..n -> Nat] :
               b = <<SwitchTo(to2)>> /\ \A k \in 1..n : to2[k] = to[k] + h
        BY <3>2, <3>4, <3>5 DEF ShiftedBy
      <3>7. b[1].to = to2
        BY <3>6 DEF SwitchTo
      <3>8. ASSUME NEW k \in 1..n
            PROVE  CaseTo(code, g, b[1].to[k], SwitchTargets(st)[k])
        <4>1. to[k] \in DOMAIN f /\ b[1].to[k] = to[k] + h
          BY <3>2, <3>6, <3>7
        <4>2. CaseTo(code, f, to[k], SwitchTargets(st)[k])
          BY <3>2
        <4> QED
          BY <4>1, <4>2, MovedCase
      <3>9. IsSwitch(st)
        BY <1>4, <2>5 DEF IsSwitch
      <3> QED
        BY <2>2, <3>3, <3>8, <3>9 DEF FlowFor
    <2> QED
      BY <2>3, <2>4, <2>5
  <1> QED
    BY <1>1, <1>2, <1>3, <1>4 DEF Marks, Calls

\* The terminators of a moved basic block are as many, and none branches to the
\* entry when all are moved.
LEMMA MovedEnds ==
    ASSUME NEW f, DOMAIN f \subseteq Nat \ {0}, NEW h \in Nat, NEW a, NEW b,
           ShiftedBy(h, a, b), Ends(f, a)
    PROVE  /\ Len(b) = Len(a)
           /\ h = 1 => \A t \in Range(b) : ~Contains(t.to, 1)
  <1>1. CASE a \in {<<>>, <<Return>>, <<FakeReturn>>, <<InnerBranch>>}
    <2>1. b = a
      BY <1>1 DEF ShiftedBy
    <2>2. Return.to = <<>> /\ FakeReturn.to = <<>> /\ InnerBranch.to = <<>>
      BY DEF Return, FakeReturn, InnerBranch
    <2>3. ~Contains(<<>>, 1)
      BY DEF Contains
    <2>4. \A t : Range(<<t>>) = {t}
      BY DEF Range
    <2>5. Range(<<>>) = {}
      BY DEF Range
    <2> QED
      BY <1>1, <2>1, <2>2, <2>3, <2>4, <2>5
  <1>2. CASE \E p \in DOMAIN f : a = <<Branch(p)>>
    <2>1. PICK p \in DOMAIN f : a = <<Branch(p)>>
      BY <1>2
    <2>2. b = <<Branch(p + h)>> /\ p \in Nat \ {0}
      BY <2>1 DEF ShiftedBy
    <2>3. Range(b) = {Branch(p + h)}
      BY <2>2 DEF Range
    <2>4. ~Contains(Branch(p + 1).to, 1)
      BY <2>2 DEF Contains, Branch
    <2> QED
      BY <2>1, <2>2, <2>3, <2>4
  <1>3. CASE \E n \in Nat : \E to \in [1..n -> DOMAIN f] : a = <<SwitchTo(to)>>
    <2>1. PICK n \in Nat : \E to \in [1..n -> DOMAIN f] : a = <<SwitchTo(to)>>
      BY <1>3
    <2>2. PICK to \in [1..n -> DOMAIN f] : a = <<SwitchTo(to)>>
      BY <2>1
    <2>3. to \in [1..n -> Nat] /\ \A k \in 1..n : to[k] \in Nat \ {0}
      BY <2>2
    <2>4. PICK to2 \in [1..n -> Nat] :
             b = <<SwitchTo(to2)>> /\ \A k \in 1..n : to2[k] = to[k] + h
      BY <2>2, <2>3 DEF ShiftedBy
    <2>5. Range(b) = {SwitchTo(to2)} /\ SwitchTo(to2).to = to2
      BY <2>4 DEF Range, SwitchTo
    <2>6. Len(to2) = n
      BY FunctionIsSequence
    <2>7. h = 1 => ~Contains(to2, 1)
      BY <2>3, <2>4, <2>6 DEF Contains
    <2>8. Len(b) = 1 /\ Len(a) = 1
      BY <2>2, <2>4
    <2> QED
      BY <2>5, <2>7, <2>8
  <1> QED
    BY <1>1, <1>2, <1>3 DEF Ends

LEMMA MovedDone ==
    ASSUME NEW code, MarkedModule(code), NEW f, FunctionOK(code, f, Marks),
           NEW g, NEW h, MovedBy(h, f, g), h = 1 \/ (h = 0 /\ g = f /\ ~EntryIsUsed(f))
    PROVE  FunctionDone(code, g)
  <1>1. Len(f) \in Nat /\ DOMAIN f = 1..Len(f)
    BY DEF FunctionOK
  <1>2. ASSUME NEW p \in DOMAIN f
        PROVE  /\ Len(g[p + h].terms) = IF UnindexedSwitch(g[p + h]) THEN 0 ELSE 1
               /\ h = 1 => \A t \in Range(g[p + h].terms) : ~Contains(t.to, 1)
    <2>1. ShiftedBy(h, f[p].terms, g[p + h].terms) /\ g[p + h].stores = f[p].stores
          /\ h \in Nat
      BY DEF MovedBy
    <2>2. /\ Ends(f, f[p].terms)
          /\ Len(f[p].terms) = IF UnindexedSwitch(f[p]) THEN 0 ELSE 1
      BY OneEnd
    <2>3. DOMAIN f \subseteq Nat \ {0}
      BY <1>1
    <2>4. /\ Len(g[p + h].terms) = Len(f[p].terms)
          /\ h = 1 => \A t \in Range(g[p + h].terms) : ~Contains(t.to, 1)
      BY <2>1, <2>2, <2>3, MovedEnds
    <2>5. UnindexedSwitch(g[p + h]) <=> UnindexedSwitch(f[p])
      BY <2>1 DEF UnindexedSwitch
    <2> QED
      BY <2>2, <2>4, <2>5
  <1>3. ASSUME NEW p \in DOMAIN f, g[p + h].block # None,
               NEW st \in Range(code[g[p + h].block][g[p + h].index].stores)
        PROVE  FlowFor(code, g, g[p + h].terms, st)
    <2> DEFINE bb == f[p]
               a == code[bb.block][bb.index].stores
    <2>1. /\ g[p + h].block = bb.block /\ g[p + h].index = bb.index
          /\ ShiftedBy(h, bb.terms, g[p + h].terms)
      BY DEF MovedBy, SamePlace
    <2>2. CopyOK(code, f, Marks, bb)
      BY <1>3, <2>1 DEF FunctionOK, FakeBB
    <2>3. Len(f) \in DOMAIN f /\ DOMAIN f \subseteq Nat
      BY <1>1
    <2>4. \/ \A o \in Range(a) : o.marks = {}
          \/ \E s \in Range(a) :
                /\ s \in AnyStore /\ \E k \in Marks : s.marks = {k}
                /\ TermsOK(code, f, s, bb.terms)
                /\ \A o \in Range(a) : o.marks # {} => o = s
      BY <2>2, CopyEnds
    <2>5. st \in Range(a)
      BY <2>1
    <2> HIDE DEF a, bb
    <2>6. CASE st.marks = {}
      BY <2>6 DEF FlowFor, IsSwitch
    <2>7. CASE st.marks # {}
      <3>1. st \in AnyStore /\ TermsOK(code, f, st, bb.terms) /\ \E k \in Marks : st.marks = {k}
        BY <2>4, <2>5, <2>7
      <3> QED
        BY <2>1, <2>3, <3>1, MovedFlow
    <2> QED
      BY <2>6, <2>7
  <1>4. ASSUME NEW q \in DOMAIN g
        PROVE  /\ Len(g[q].terms) = IF UnindexedSwitch(g[q]) THEN 0 ELSE 1
               /\ \A t \in Range(g[q].terms) : ~Contains(t.to, 1)
               /\ g[q].block # None /\ g[q].index > 0 =>
                    \A st \in Range(code[g[q].block][g[q].index].stores) :
                        FlowFor(code, g, g[q].terms, st)
    <2>1. CASE \E p \in DOMAIN f : q = p + h
      <3>1. PICK p \in DOMAIN f : q = p + h
        BY <2>1
      <3>2. Len(g[q].terms) = IF UnindexedSwitch(g[q]) THEN 0 ELSE 1
        BY <1>2, <3>1
      <3>3. \A t \in Range(g[q].terms) : ~Contains(t.to, 1)
        <4>1. CASE h = 1
          BY <1>2, <3>1, <4>1
        <4>2. CASE g = f /\ ~EntryIsUsed(f)
          BY <4>2 DEF EntryIsUsed
        <4> QED
          BY <4>1, <4>2
      <3> QED
        BY <1>3, <3>1, <3>2, <3>3
    <2>2. CASE g[q].index = 0 /\ g[q].stores = <<>> /\ g[q].terms = <<Branch(2)>>
      <3>1. ~UnindexedSwitch(g[q])
        BY <2>2 DEF UnindexedSwitch, Range
      <3>2. Range(g[q].terms) = {Branch(2)}
        BY <2>2 DEF Range
      <3>3. ~Contains(Branch(2).to, 1)
        BY DEF Branch, Contains
      <3>4. Len(g[q].terms) = 1
        BY <2>2
      <3> QED
        BY <2>2, <3>1, <3>2, <3>3, <3>4
    <2> QED
      BY <2>1, <2>2 DEF MovedBy
  <1> QED
    BY <1>4 DEF FunctionDone

LEMMA StaysPut ==
    ASSUME NEW code, NEW f, FunctionOK(code, f, Marks)
    PROVE  MovedBy(0, f, f)
  <1>1. Len(f) \in Nat /\ DOMAIN f = 1..Len(f)
    BY DEF FunctionOK
  <1>2. ASSUME NEW a
        PROVE  ShiftedBy(0, a, a)
    <2>1. \A p \in Nat : p + 0 = p
      OBVIOUS
    <2>2. \A n \in Nat : \A to \in [1..n -> Nat] : \A k \in 1..n : to[k] = to[k] + 0
      OBVIOUS
    <2> QED
      BY <2>1, <2>2 DEF ShiftedBy
  <1>3. \A p \in DOMAIN f : p + 0 = p
    BY <1>1
  <1> QED
    BY <1>2, <1>3 DEF MovedBy, SamePlace

LEMMA TermShifted ==
    /\ ShiftTerm(Return) = Return /\ ShiftTerm(FakeReturn) = FakeReturn
    /\ ShiftTerm(InnerBranch) = InnerBranch
    /\ \A p \in Nat : ShiftTerm(Branch(p)) = Branch(p + 1)
    /\ \A n \in Nat : \A to \in [1..n -> Nat] :
          ShiftTerm(SwitchTo(to)) = SwitchTo([k \in 1..n |-> to[k] + 1])
  <1>1. \A k, to : ShiftTerm([kind |-> k, to |-> to]) =
                      [kind |-> k, to |-> [j \in DOMAIN to |-> to[j] + 1]]
    BY DEF ShiftTerm
  <1>2. [j \in DOMAIN <<>> |-> <<>>[j] + 1] = <<>>
    OBVIOUS
  <1>3. ShiftTerm(Return) = Return /\ ShiftTerm(FakeReturn) = FakeReturn
        /\ ShiftTerm(InnerBranch) = InnerBranch
    <2> DEFINE none == <<>>
    <2>1. [j \in DOMAIN none |-> none[j] + 1] = none
      BY <1>2
    <2>2. /\ Return = [kind |-> "ret", to |-> none]
          /\ FakeReturn = [kind |-> "fakeReturn", to |-> none]
          /\ InnerBranch = [kind |-> "inner", to |-> none]
      BY DEF Return, FakeReturn, InnerBranch
    <2> HIDE DEF none
    <2> QED
      BY <1>1, <2>1, <2>2
  <1>4. ASSUME NEW p \in Nat
        PROVE  ShiftTerm(Branch(p)) = Branch(p + 1)
    <2>1. [j \in DOMAIN <<p>> |-> <<p>>[j] + 1] = <<p + 1>>
      OBVIOUS
    <2> QED
      BY <1>1, <2>1 DEF Branch
  <1>5. ASSUME NEW n \in Nat, NEW to \in [1..n -> Nat]
        PROVE  ShiftTerm(SwitchTo(to)) = SwitchTo([k \in 1..n |-> to[k] + 1])
    <2>1. DOMAIN to = 1..n
      OBVIOUS
    <2> QED
      BY <1>1, <2>1 DEF SwitchTo
  <1> QED
    BY <1>3, <1>4, <1>5

LEMMA TermsShifted ==
    ASSUME NEW a, NEW D, D \subseteq Nat,
           \/ a \in {<<>>, <<Return>>, <<FakeReturn>>, <<InnerBranch>>}
           \/ \E p \in D : a = <<Branch(p)>>
           \/ \E n \in Nat : \E to \in [1..n -> D] : a = <<SwitchTo(to)>>,
           NEW b, b = [k \in DOMAIN a |-> ShiftTerm(a[k])]
    PROVE  ShiftedBy(1, a, b)
  <1>1. \A t : a = <<t>> => b = <<ShiftTerm(t)>>
    OBVIOUS
  <1>2. a = <<>> => b = <<>>
    OBVIOUS
  <1>3. a \in {<<>>, <<Return>>, <<FakeReturn>>, <<InnerBranch>>} => b = a
    BY <1>1, <1>2, TermShifted
  <1>4. \A p \in Nat : a = <<Branch(p)>> => b = <<Branch(p + 1)>>
    BY <1>1, TermShifted
  <1>5. ASSUME NEW n \in Nat, NEW to \in [1..n -> Nat], a = <<SwitchTo(to)>>
        PROVE  \E to2 \in [1..n -> Nat] :
                  b = <<SwitchTo(to2)>> /\ \A k \in 1..n : to2[k] = to[k] + 1
    <2> DEFINE to2 == [k \in 1..n |-> to[k] + 1]
    <2>3. ShiftTerm(SwitchTo(to)) = SwitchTo(to2)
      BY TermShifted
    <2>1. b = <<SwitchTo(to2)>>
      BY <1>1, <1>5, <2>3
    <2>2. to2 \in [1..n -> Nat] /\ \A k \in 1..n : to2[k] = to[k] + 1
      OBVIOUS
    <2> HIDE DEF to2
    <2> QED
      BY <2>1, <2>2
  <1> QED
    BY <1>3, <1>4, <1>5 DEF ShiftedBy

\* fixup_entry: the other basic blocks are one position further.
LEMMA FixupEntryMoves ==
    ASSUME NEW code, MarkedModule(code), NEW f, FunctionOK(code, f, Marks), EntryIsUsed(f)
    PROVE  MovedBy(1, f, WithFixupEntry(f))
  <1> DEFINE shifted(bb) ==
                [bb EXCEPT !.terms = [k \in DOMAIN bb.terms |-> ShiftTerm(bb.terms[k])]]
             e == [block |-> f[1].block, index |-> 0, work |-> FALSE, stores |-> <<>>,
                   terms |-> <<Branch(2)>>]
             t == [p \in DOMAIN f |-> shifted(f[p])]
             n == Len(f)
             g == <<e>> \o t
  <1>1. WithFixupEntry(f) = g
    <2> HIDE DEF e
    <2> QED
      BY DEF WithFixupEntry, e
  <1>2. n \in Nat /\ DOMAIN f = 1..n
    BY DEF FunctionOK
  <1>3. 1 \in DOMAIN f
    BY <1>2 DEF EntryIsUsed
  <1>4. ASSUME NEW p \in DOMAIN f
        PROVE  /\ SamePlace(f[p], t[p]) /\ t[p].stores = f[p].stores
               /\ ShiftedBy(1, f[p].terms, t[p].terms)
    <2> DEFINE bb == f[p]
               a == bb.terms
               b == [k \in DOMAIN a |-> ShiftTerm(a[k])]
    <2>1. bb = [block |-> bb.block, index |-> bb.index, work |-> bb.work,
                stores |-> bb.stores, terms |-> bb.terms]
      <3>1. FakeBB = [block |-> FakeBB.block, index |-> FakeBB.index, work |-> FakeBB.work,
                      stores |-> FakeBB.stores, terms |-> FakeBB.terms]
        BY DEF FakeBB
      <3> QED
        BY <3>1 DEF FunctionOK, CopyOK
    <2>2. t[p] = [bb EXCEPT !.terms = b]
      OBVIOUS
    <2>3. Ends(f, a)
      BY OneEnd
    <2> HIDE DEF bb, t
    <2>4. SamePlace(bb, t[p]) /\ t[p].stores = bb.stores /\ t[p].terms = b
      BY <2>1, <2>2 DEF SamePlace
    <2>5. ShiftedBy(1, a, b)
      <3> DEFINE D == DOMAIN f
      <3>1. D \subseteq Nat
        BY <1>2
      <3>2. \/ a \in {<<>>, <<Return>>, <<FakeReturn>>, <<InnerBranch>>}
            \/ \E q \in D : a = <<Branch(q)>>
            \/ \E m \in Nat : \E to \in [1..m -> D] : a = <<SwitchTo(to)>>
        BY <2>3 DEF Ends
      <3> HIDE DEF D, a
      <3> QED
        BY <3>1, <3>2, TermsShifted
    <2> QED
      BY <2>4, <2>5 DEF bb
  <1>5. e.index = 0 /\ e.stores = <<>> /\ e.terms = <<Branch(2)>> /\ e.block = f[1].block
    OBVIOUS
  <1>6. DOMAIN t = 1..n /\ t = [p \in DOMAIN t |-> t[p]]
    BY <1>2
  <1> HIDE DEF t, e, n
  <1>7. /\ DOMAIN g = 1..(n + 1) /\ g[1] = e
        /\ \A p \in 1..n : g[p + 1] = t[p]
    <2> DEFINE T == {t[p] : p \in DOMAIN t} \cup {e}
               u == <<e>>
    <2>1. t \in [1..n -> T]
      BY <1>6
    <2>2. e \in T
      OBVIOUS
    <2> HIDE DEF T
    <2>3. t \in Seq(T) /\ Len(t) = n
      BY <1>2, <2>1, FunctionIsSequence
    <2>4. u \in Seq(T) /\ Len(u) = 1 /\ u[1] = e
      BY <2>2
    <2> HIDE DEF u
    <2>9. u \in Seq(T) /\ t \in Seq(T)
      BY <2>3, <2>4
    <2>5. /\ u \o t \in Seq(T) /\ Len(u \o t) = Len(u) + Len(t)
          /\ \A p \in 1..Len(u) : (u \o t)[p] = u[p]
          /\ \A p \in 1..Len(t) : (u \o t)[Len(u) + p] = t[p]
      BY <2>9, ConcatPositions
    <2>6. g = u \o t
      BY DEF u
    <2> HIDE DEF g
    <2>7. DOMAIN g = 1..(n + 1)
      BY <1>2, <2>3, <2>4, <2>5, <2>6
    <2>8. \A p \in 1..n : p + 1 = 1 + p
      BY <1>2
    <2> QED
      BY <2>3, <2>4, <2>5, <2>6, <2>7, <2>8
  <1> HIDE DEF g
  <1>8. \A p \in DOMAIN f :
          /\ p + 1 \in DOMAIN g /\ SamePlace(f[p], g[p + 1])
          /\ g[p + 1].stores = f[p].stores /\ ShiftedBy(1, f[p].terms, g[p + 1].terms)
    BY <1>2, <1>4, <1>7
  <1>9. ASSUME NEW q \in DOMAIN g
        PROVE  (\E p \in DOMAIN f : q = p + 1) \/ q = 1
    <2>1. CASE q # 1
      <3>1. q - 1 \in DOMAIN f /\ q = (q - 1) + 1
        BY <1>2, <1>7, <2>1
      <3> QED
        BY <3>1
    <2> QED
      BY <2>1
  <1>10. BlocksOf(g) = BlocksOf(f)
    <2>1. \A p \in DOMAIN f : g[p + 1].block = f[p].block
      BY <1>8 DEF SamePlace
    <2>2. g[1].block = f[1].block
      BY <1>5, <1>7
    <2>3. \A q \in DOMAIN g : \E p \in DOMAIN f : g[q].block = f[p].block
      BY <1>3, <1>9, <2>1, <2>2
    <2>4. \A p \in DOMAIN f : \E q \in DOMAIN g : g[q].block = f[p].block
      BY <1>8, <2>1
    <2> QED
      BY <2>3, <2>4 DEF BlocksOf
  <1>11. MovedBy(1, f, g)
    BY <1>5, <1>7, <1>8, <1>9, <1>10 DEF MovedBy
  <1> QED
    BY <1>1, <1>11

LEMMA SavedDone ==
    ASSUME NEW code, MarkedModule(code), NEW f, FunctionOK(code, f, Marks)
    PROVE  FunctionDone(code, IF EntryIsUsed(f) THEN WithFixupEntry(f) ELSE f)
  <1>1. CASE EntryIsUsed(f)
    <2> DEFINE g == WithFixupEntry(f)
    <2>1. MovedBy(1, f, g)
      BY <1>1, FixupEntryMoves
    <2> HIDE DEF g
    <2>2. FunctionDone(code, g)
      BY <2>1, MovedDone
    <2> QED
      BY <1>1, <2>2 DEF g
  <1>2. CASE ~EntryIsUsed(f)
    <2>1. MovedBy(0, f, f)
      BY StaysPut
    <2>2. FunctionDone(code, f)
      BY <1>2, <2>1, MovedDone
    <2> QED
      BY <1>2, <2>2
  <1> QED
    BY <1>1, <1>2

LEMMA BodyStep ==
    ASSUME ModInv, BuiltInv, ExploreInv, BodyInv, [Next]_vars
    PROVE  BodyInv'
  <1>1. CASE InlineBBs
    <2>1. FunctionOK(mod, func', {})
      BY <1>1, InlineOK
    <2>2. /\ pass = "explore" /\ pass' = "fixupCalls" /\ UNCHANGED <<mod, built>>
      BY <1>1 DEF InlineBBs
    <2> QED
      BY <2>1, <2>2 DEF BodyInv, FixedMarks, Saved
  <1>2. CASE FixupCalls \/ FixupDirectJumps \/ FixupIndirectJumps \/ FixupReturns
    <2>1. /\ pass \in Fixing /\ pass' \in Fixing /\ UNCHANGED <<mod, built>>
          /\ pass \in LaterPasses /\ ~Saved /\ ~Saved'
      BY <1>2 DEF FixupCalls, FixupDirectJumps, FixupIndirectJumps, FixupReturns, Fixup,
                  Fixing, LaterPasses, Passes, Marking, InFunction, Saved
    <2>2. FunctionOK(mod, func', FixedMarks(pass'))
      BY <1>2, <2>1, FixupsOK DEF BodyInv
    <2> QED
      BY <2>1, <2>2 DEF BodyInv
  <1>3. CASE FinishFunction
    <2>1. /\ pass = "finish" /\ pass' = "search" /\ mod' = mod
          /\ built' = [s \in DOMAIN built \cup {Order[pos]} |->
                         IF s = Order[pos] THEN func ELSE built[s]]
      BY <1>3 DEF FinishFunction
    <2>2. FunctionOK(mod, func, Marks)
      BY <2>1 DEF BodyInv, Fixing, FixedMarks
    <2>3. \A s \in DOMAIN built : FunctionOK(mod, built[s], Marks)
      BY <2>1 DEF BodyInv, Saved
    <2>4. ASSUME NEW s \in DOMAIN built'
          PROVE  FunctionOK(mod, built'[s], Marks)
      <3>1. built'[s] = func \/ (s \in DOMAIN built /\ built'[s] = built[s])
        BY <2>1
      <3> QED
        BY <2>2, <2>3, <3>1
    <2> QED
      BY <2>1, <2>4 DEF BodyInv, Saved, Fixing
  <1>4. CASE SaveFunctions
    <2>1. /\ pass = "search" /\ pass' = "cleanup" /\ mod' = mod
          /\ built' = [s \in DOMAIN built |->
                         IF EntryIsUsed(built[s]) THEN WithFixupEntry(built[s]) ELSE built[s]]
      BY <1>4 DEF SaveFunctions
    <2>2. MarkedModule(mod)
      BY <2>1, ModIsMarked DEF LaterPasses, Passes, Marking
    <2>3. \A s \in DOMAIN built : FunctionOK(mod, built[s], Marks)
      BY <2>1 DEF BodyInv, Saved
    <2>4. ASSUME NEW s \in DOMAIN built'
          PROVE  FunctionDone(mod, built'[s])
      <3> DEFINE f == built[s]
      <3>1. /\ FunctionOK(mod, f, Marks)
            /\ built'[s] = IF EntryIsUsed(f) THEN WithFixupEntry(f) ELSE f
        BY <2>1, <2>3
      <3> HIDE DEF f
      <3> QED
        BY <2>2, <3>1, SavedDone
    <2> QED
      BY <2>1, <2>4 DEF BodyInv, Saved, Fixing
  <1>5. CASE Cleanup
    <2>1. pass = "cleanup" /\ pass' = "done" /\ built' = built /\ mod' = mod
      <3>1. mod' = [s \in Starts \ {} |-> mod[s]] /\ mod = [s \in Starts |-> mod[s]]
        BY <1>5 DEF Cleanup, ModInv
      <3>2. Starts \ {} = Starts
        OBVIOUS
      <3> QED
        BY <1>5, <3>1, <3>2 DEF Cleanup
    <2> QED
      BY <2>1 DEF BodyInv, Saved, Fixing
  <1>6. CASE ARMMarkCall \/ ARMMarkReturn \/ ARMMarkJumps
    <2>1. /\ pass \in Marking /\ pass' \notin Fixing /\ pass' \notin {"cleanup", "done"}
          /\ built' = built
      BY <1>6 DEF ARMMarkCall, ARMMarkReturn, ARMMarkJumps, Marking, Fixing
    <2>2. DOMAIN built = {}
      BY <2>1 DEF BuiltInv
    <2> QED
      BY <2>1, <2>2 DEF BodyInv, Saved
  <1>7. CASE MarkFuncEntry \/ SkipBlock \/ MakeFunctionForward \/ ExploreBB
    <2>1. /\ pass' \notin Fixing /\ ~Saved /\ ~Saved' /\ UNCHANGED <<mod, built>>
      BY <1>7 DEF MarkFuncEntry, SkipBlock, MakeFunctionForward, ExploreBB, Fixing, Saved
    <2> QED
      BY <2>1 DEF BodyInv
  <1>8. CASE UNCHANGED vars
    BY <1>8 DEF vars, BodyInv, Saved
  <1> QED
    BY <1>1, <1>2, <1>3, <1>4, <1>5, <1>6, <1>7, <1>8 DEF Next

LEMMA WrittenIsWellFormed == BodyInv => WellFormed
  BY DEF BodyInv, FunctionDone, WellFormed

LEMMA WrittenKeepsFlow == BodyInv => ControlFlowKept
  <1>1. ASSUME NEW f, NEW p, NEW pc
        PROVE  CaseTo(mod, f, p, pc) => CaseKept(f, p, pc)
    <2>1. OnlyJumps(f, pc) <=> JumpsOnly(mod, f, pc)
      BY DEF OnlyJumps, JumpsOnly, Range
    <2> QED
      BY <2>1 DEF CaseTo, CaseKept
  <1> SUFFICES ASSUME BodyInv, Saved, NEW s \in DOMAIN built, NEW i \in DOMAIN built[s],
                      built[s][i].block # None, built[s][i].index > 0,
                      NEW st \in Range(mod[built[s][i].block][built[s][i].index].stores)
               PROVE  LET f == built[s]
                          bb == f[i]
                      IN  CASE st.marks \cap Calls # {} -> GoesTo(f, bb.terms, st.ret)
                            [] "directJump" \in st.marks -> GoesTo(f, bb.terms, st.val)
                            [] "return" \in st.marks -> bb.terms = <<Return>>
                            [] IsSwitch(st) /\ st.idx ->
                                  \A k \in DOMAIN SwitchTargets(st) :
                                      CaseKept(f, bb.terms[1].to[k], SwitchTargets(st)[k])
                            [] "indirectJump" \in st.marks /\ ~IsSwitch(st) ->
                                  f[bb.terms[1].to[1]].block = None
                            [] OTHER -> TRUE
    BY DEF ControlFlowKept
  <1> DEFINE f == built[s]
             bb == f[i]
  <1>2. FlowFor(mod, f, bb.terms, st)
    BY DEF BodyInv, FunctionDone
  <1> HIDE DEF bb, f
  <1>3. /\ st.marks \cap Calls # {} => GoesTo(f, bb.terms, st.ret)
        /\ "directJump" \in st.marks => GoesTo(f, bb.terms, st.val)
        /\ "return" \in st.marks => bb.terms = <<Return>>
        /\ IsSwitch(st) /\ st.idx =>
              \A k \in DOMAIN SwitchTargets(st) :
                  CaseKept(f, bb.terms[1].to[k], SwitchTargets(st)[k])
        /\ "indirectJump" \in st.marks /\ ~IsSwitch(st) => f[bb.terms[1].to[1]].block = None
    BY <1>1, <1>2 DEF FlowFor
  <1> QED
    BY <1>3 DEF f, bb

----------------------------------------------------------------------------
(* The theorems                                                            *)

\* The blocks keep their types and marks, the entries are what is called, a
\* function under construction grows from its entry, and every basic block of a
\* function is a copy of its source, less the store that was replaced.
THEOREM BuilderInvariant == Spec => []IInv
  <1>1. Init => IInv
    <2> SUFFICES ASSUME Init PROVE IInv
      OBVIOUS
    <2>1. ModInv
      BY ModInit
    <2>2. EntriesInv /\ ExploreInv
      BY DEF Init, EntriesInv, ExploreInv, Marking, InFunction
    <2>4. BodyInv
      BY DEF Init, BodyInv, Fixing, Saved
    <2>3. BuiltInv
      <3>1. Len(Order) \in Nat /\ 1..(1 - 1) = {}
        BY BlocksAssumption
      <3> QED
        BY <3>1 DEF Init, BuiltInv, Marking, InFunction, Saved
    <2> QED
      BY <2>1, <2>2, <2>3, <2>4 DEF IInv
  <1>2. IInv /\ [Next]_vars => IInv'
    BY ModStep, EntriesStep, BuiltStep, ExploreStep, BodyStep DEF IInv
  <1> QED
    BY <1>1, <1>2, PTL DEF Spec

\* Each store to PC has one mark when BuildFunctions runs, and one that is a
\* call comes after a constant in LR that is the end of the block
\* (ARMMarkCall, ARMMarkReturn, ARMMarkJumps).
THEOREM BuilderMarksOnce == Spec => []OneMark
  <1>1. IInv => OneMark
    BY OneMarkHolds DEF IInv
  <1> QED
    BY <1>1, BuilderInvariant, PTL

\* A function has exactly the blocks its entry reaches without following calls
\* (BuildFunctions::exploreBB).
THEOREM BuilderTakesClosure == Spec => []FunctionIsClosure
  <1>1. IInv => FunctionIsClosure
    <2> SUFFICES ASSUME IInv, pass = "finish"
                 PROVE  /\ blocks[1] = Order[pos]
                        /\ Closed(Range(blocks))
                        /\ \A S \in SUBSET Starts :
                              Order[pos] \in S /\ Closed(S) => Range(blocks) \subseteq S
      BY DEF FunctionIsClosure
    <2>1. /\ blocks[1] = Order[pos] /\ toExpand = <<>>
          /\ \A s \in Range(blocks) \ Range(toExpand) : Expanded(s)
          /\ \A S \in SUBSET Starts :
                Order[pos] \in S /\ Closed(S) => Range(blocks) \subseteq S
      BY DEF IInv, ExploreInv, InFunction
    <2>2. Range(toExpand) = {}
      BY <2>1 DEF Range
    <2> QED
      BY <2>1, <2>2 DEF Closed, Expanded
  <1> QED
    BY <1>1, BuilderInvariant, PTL

\* A function is written for exactly the blocks that some block calls in its
\* first basic block (MarkFuncEntry::runOnModule, BuildFunctions::runOnModule).
THEOREM BuilderBuildsCalled == Spec => []CalledIsBuilt
  <1>1. IInv => CalledIsBuilt
    <2> SUFFICES ASSUME IInv, pass = "cleanup"
                 PROVE  DOMAIN built = Starts \cap UNION {FirstBlockCalls(s) : s \in Starts}
      BY DEF CalledIsBuilt
    <2>1. entries = Starts \cap UNION {FirstBlockCalls(s) : s \in Starts}
      BY DEF IInv, EntriesInv, Marking
    <2>2. /\ pos = Len(Order) + 1 /\ Len(Order) \in Nat
          /\ DOMAIN built = {s \in entries : \E i \in 1..(pos - 1) : Order[i] = s}
      BY BlocksAssumption DEF IInv, BuiltInv, Saved
    <2>3. \A s \in entries : \E i \in 1..Len(Order) : Order[i] = s
      BY <2>1, BlocksAssumption DEF Starts, Range
    <2>4. pos - 1 = Len(Order)
      BY <2>2
    <2>5. DOMAIN built = entries
      BY <2>2, <2>3, <2>4
    <2> QED
      BY <2>1, <2>5
  <1> QED
    BY <1>1, BuilderInvariant, PTL

\* In the functions that are written every basic block has one terminator, except
\* that of a switch without index, which has none, and no branch goes to the
\* entry (BuildFunctions: the four fixups, cleanupFakeReturns, fixup_entry).
THEOREM BuilderWellFormed == Spec => []WellFormed
  <1>1. IInv => WellFormed
    BY WrittenIsWellFormed DEF IInv
  <1> QED
    BY <1>1, BuilderInvariant, PTL

\* A basic block of a written function goes on where the store to PC of the
\* basic block it was copied from says, whatever the fixups before it did to the
\* map from PCs to basic blocks (BuildFunctions: buildBBMap and the four fixups).
THEOREM BuilderKeepsFlow == Spec => []ControlFlowKept
  <1>1. IInv => ControlFlowKept
    BY WrittenKeepsFlow DEF IInv
  <1> QED
    BY <1>1, BuilderInvariant, PTL
=============================================================================
