--------------------------- MODULE FunctionBuilder ---------------------------
(***************************************************************************)
(* The passes that build functions from the translated blocks of a module: *)
(* ARMMarkCall, ARMMarkReturn, ARMMarkJumps, MarkFuncEntry, BuildFunctions.*)
(*                                                                         *)
(* A translated block is an LLVM function; here it is the sequence of its  *)
(* LLVM basic blocks, with their stores to PC and LR.  The passes mark     *)
(* each store to PC as a call, a return or a jump.  BuildFunctions then    *)
(* collects the blocks that a called block reaches without calls into one  *)
(* function and replaces the returns of its blocks by branches.            *)
(***************************************************************************)
EXTENDS Integers, Sequences, SequencesExt, SeqFilter

CONSTANTS
    Order,          \* the start addresses of the blocks, in module order
    PcEnd,          \* metadata BB_pcEnd of each
    Modules         \* the modules: functions from the starts to blocks

Starts == Range(Order)
None == -1

\* Values stored that are not constants: computed from LR, or otherwise.
UsesLR == -2
Computed == -3
Constant(st) == st.val >= 0

\* cases, dflt: INS_switch_case<i> and INS_switch_default, if ReplaceConstantLoads
\* found a jump table; idx: the index of the table is found in the block;
\* ret: INS_callReturn
Store(to, val, cases, dflt, idx) ==
    [to |-> to, val |-> val, cases |-> cases, dflt |-> dflt, idx |-> idx,
     marks |-> {}, ret |-> None]

\* A basic block; work: it has instructions besides the stores and the
\* terminator; inner: it ends in a branch to another one of the same block.
BB(work, inner, stores) == [work |-> work, inner |-> inner, stores |-> stores]

Marks == {"directCall", "indirectCall", "return", "directJump", "indirectJump"}

AnyStore == [to : {"PC", "LR"}, val : Int, cases : Seq(Int), dflt : Int,
             idx : BOOLEAN, marks : SUBSET Marks, ret : Int]
AnyBB == [work : BOOLEAN, inner : BOOLEAN, stores : Seq(AnyStore)]

OnePCStore(bb) ==
    \A j \in DOMAIN bb.stores : bb.stores[j].to = "PC" =>
        /\ ~bb.inner
        /\ \A k \in DOMAIN bb.stores : bb.stores[k].to = "PC" => k = j

\* Code ends at even addresses; no pass has marked anything.  A block begins
\* with an instruction, a store or a branch of its own.  RemoveExtraStoreToPC
\* has left a basic block one constant store to PC, the last, and that only if
\* it leaves the block; a computed one is the last thing QEMU puts in a block.
ASSUME BlocksAssumption ==
    /\ Order \in Seq(Nat)
    /\ \A i, j \in DOMAIN Order : Order[i] = Order[j] => i = j
    /\ \A s \in Starts : PcEnd[s] \in Nat /\ PcEnd[s] % 2 = 0
    /\ \A m \in Modules :
          /\ m \in [Starts -> Seq(AnyBB) \ {<<>>}]
          /\ \A s \in Starts : \A i \in DOMAIN m[s] : \A j \in DOMAIN m[s][i].stores :
                m[s][i].stores[j].marks = {}
          /\ \A s \in Starts : m[s][1].work \/ m[s][1].inner \/ m[s][1].stores # <<>>
          /\ \A s \in Starts : \A i \in DOMAIN m[s] : OnePCStore(m[s][i])

VARIABLES
    mod,            \* the blocks
    pass,           \* the pass or the step of BuildFunctions that is next
    entries,        \* blocks whose first basic block is "func_entry_point"
    pos,            \* position of funci in the module
    blocks,         \* BBsForThisFunction
    toExpand,       \* BBsToBeExpanded
    hasIndirectJump,
    func,           \* newFunc: its basic blocks
    built,          \* newModule: functions by the start of their entry
    toBeRemoved     \* eraseBBs

vars == <<mod, pass, entries, pos, blocks, toExpand, hasIndirectJump, func,
          built, toBeRemoved>>

building == <<blocks, toExpand, hasIndirectJump, func>>

Init ==
    /\ mod \in Modules
    /\ pass = "armmarkcall"
    /\ entries = {}
    /\ pos = 1
    /\ blocks = <<>>
    /\ toExpand = <<>>
    /\ hasIndirectJump = FALSE
    /\ func = <<>>
    /\ built = [s \in {} |-> <<>>]
    /\ toBeRemoved = {}

----------------------------------------------------------------------------
(* The marks                                                               *)

\* Every store to PC of the module, changed by Change(store, stores before
\* it, end of the block).
EachStore(Change(_, _, _)) ==
    [s \in Starts |->
        [i \in DOMAIN mod[s] |->
            [mod[s][i] EXCEPT !.stores =
                [j \in DOMAIN @ |->
                    IF @[j].to = "PC"
                    THEN Change(@[j], SubSeq(@, 1, j - 1), PcEnd[s])
                    ELSE @[j]]]]]

Mark(st, mark) == [st EXCEPT !.marks = @ \cup {mark}]

\* Mutant: any constant in LR makes a call.
IsReturnAddressAny(lr, pcEnd) == TRUE

\* Mutant: the return address of Thumb code is not recognised.
IsReturnAddressARM(lr, pcEnd) == pcEnd = lr

\* LR points behind the block, with or without the Thumb bit.
IsReturnAddress(lr, pcEnd) == pcEnd = lr \/ pcEnd = lr - 1

\* lrVal is the last of the constants stored to LR.
ConstantLRs(before) == {k \in DOMAIN before : before[k].to = "LR" /\ Constant(before[k])}

MarkCall(st, before, pcEnd) ==
    LET lrs == ConstantLRs(before)
        lrVal == before[Max(lrs)].val
    IN  IF lrs # {} /\ IsReturnAddress(lrVal, pcEnd)
        THEN [st EXCEPT
                !.marks = @ \cup {IF Constant(st) THEN "directCall" ELSE "indirectCall"},
                !.ret = 2 * (lrVal \div 2)]
        ELSE st

ARMMarkCall ==
    /\ pass = "armmarkcall"
    /\ mod' = EachStore(MarkCall)
    /\ pass' = "armmarkreturn"
    /\ UNCHANGED <<entries, pos, building, built, toBeRemoved>>

Calls == {"directCall", "indirectCall"}

MarkReturn(st, before, pcEnd) ==
    IF st.val = UsesLR THEN Mark(st, "return") ELSE st

\* The stores to PC of a module.
PCStores(m) ==
    {st \in UNION {UNION {Range(m[s][i].stores) : i \in DOMAIN m[s]} : s \in DOMAIN m} :
        st.to = "PC"}

\* assert: a return is not marked as a call
ARMMarkReturn ==
    /\ pass = "armmarkreturn"
    /\ IF \A st \in PCStores(mod) : st.val = UsesLR => st.marks \cap Calls = {}
         THEN mod' = EachStore(MarkReturn) /\ pass' = "armmarkjumps"
         ELSE UNCHANGED mod /\ pass' = "aborted"
    /\ UNCHANGED <<entries, pos, building, built, toBeRemoved>>

MarkJumps(st, before, pcEnd) ==
    IF st.marks # {} THEN st
    ELSE Mark(st, IF Constant(st) THEN "directJump" ELSE "indirectJump")

ARMMarkJumps ==
    /\ pass = "armmarkjumps"
    /\ mod' = EachStore(MarkJumps)
    /\ pass' = "markfuncentry"
    /\ UNCHANGED <<entries, pos, building, built, toBeRemoved>>

\* Only the first basic block of each block is searched for calls.
MarkFuncEntry ==
    /\ pass = "markfuncentry"
    /\ entries' = {t \in Starts : \E s \in Starts :
                    \E st \in Range(mod[s][1].stores) :
                        "directCall" \in st.marks /\ st.val = t}
    /\ pass' = "search"
    /\ UNCHANGED <<mod, pos, building, built, toBeRemoved>>

----------------------------------------------------------------------------
(* BuildFunctions: the blocks of a function                                *)

SkipBlock ==
    /\ pass = "search"
    /\ pos <= Len(Order)
    /\ Order[pos] \notin entries
    /\ pos' = pos + 1
    /\ UNCHANGED <<mod, pass, entries, building, built, toBeRemoved>>

\* makeFunctionForward
MakeFunctionForward ==
    /\ pass = "search"
    /\ pos <= Len(Order)
    /\ Order[pos] \in entries
    /\ blocks' = <<Order[pos]>>
    /\ toExpand' = <<Order[pos]>>
    /\ hasIndirectJump' = FALSE
    /\ func' = <<>>
    /\ pass' = "explore"
    /\ UNCHANGED <<mod, entries, pos, built, toBeRemoved>>

SwitchTargets(st) == Append(st.cases, st.dflt)

IsSwitch(st) == "indirectJump" \in st.marks /\ st.cases # <<>>

\* Mutant: the blocks of the called function belong to the caller.
NextPCsCallee(st) ==
    IF "directCall" \in st.marks THEN <<st.val>>
    ELSE IF "directJump" \in st.marks THEN <<st.val>>
    ELSE IF IsSwitch(st) THEN SwitchTargets(st)
    ELSE <<>>

\* nextPCList
NextPCs(st) ==
    IF st.marks \cap Calls # {} THEN <<st.ret>>
    ELSE IF "directJump" \in st.marks THEN <<st.val>>
    ELSE IF IsSwitch(st) THEN SwitchTargets(st)
    ELSE <<>>

PCStoresOf(block) ==
    LET stores == FlattenSeq([i \in DOMAIN block |-> block[i].stores])
    IN  KeepAt(stores, {i \in DOMAIN stores : stores[i].to = "PC"})

\* The PCs after a block, in the order they are met.
NextPCsOf(block) ==
    LET stores == PCStoresOf(block)
    IN  FlattenSeq([i \in DOMAIN stores |-> NextPCs(stores[i])])

\* The blocks at the PCs that are not in exploredBBs, each once.
Unexplored(pcs) == KeepFirst(pcs, Starts \ Range(blocks))

\* exploreBB, one block of BBsToBeExpanded
ExploreBB ==
    /\ pass = "explore"
    /\ toExpand # <<>>
    /\ LET s == Head(toExpand)
           new == Unexplored(NextPCsOf(mod[s]))
       IN  /\ blocks' = blocks \o new
           /\ toExpand' = Tail(toExpand) \o new
           /\ hasIndirectJump' =
                (\/ hasIndirectJump
                 \/ \E st \in Range(PCStoresOf(mod[s])) : "indirectJump" \in st.marks)
    /\ UNCHANGED <<mod, pass, entries, pos, func, built, toBeRemoved>>

----------------------------------------------------------------------------
(* BuildFunctions: the control flow of a function                          *)

\* Terminators; to: positions of basic blocks of the function
Branch(i) == [kind |-> "br", to |-> <<i>>]
Return == [kind |-> "ret", to |-> <<>>]
FakeReturn == [kind |-> "fakeReturn", to |-> <<>>]
InnerBranch == [kind |-> "inner", to |-> <<>>]

\* The basic block i of the block s, in a function.
CloneBB(s, i) ==
    [block |-> s, index |-> i, work |-> mod[s][i].work,
     stores |-> mod[s][i].stores,
     terms |-> <<IF mod[s][i].inner THEN InnerBranch ELSE FakeReturn>>]

\* fake_indirect_bb
FakeBB == [block |-> None, index |-> 1, work |-> FALSE, stores |-> <<>>,
           terms |-> <<Return>>]

InlineBBs ==
    /\ pass = "explore"
    /\ toExpand = <<>>
    /\ func' = FlattenSeq([b \in DOMAIN blocks |->
                    [i \in DOMAIN mod[blocks[b]] |-> CloneBB(blocks[b], i)]])
               \o (IF hasIndirectJump THEN <<FakeBB>> ELSE <<>>)
    /\ pass' = "fixupCalls"
    /\ UNCHANGED <<mod, entries, pos, blocks, toExpand, hasIndirectJump, built,
                   toBeRemoved>>

\* The first instruction of the basic block carries BB_pcStart.  The
\* branches and returns that the passes create do not.
HasPcStart(bb) == bb.work \/ bb.stores # <<>> \/ bb.terms[1] = InnerBranch

\* buildBBMap: the positions of the basic blocks a PC is looked up in; the
\* first one is in the map
BBsAt(f, pc) == {i \in DOMAIN f : f[i].block = pc /\ HasPcStart(f[i])}
InBBMap(f, pc) == BBsAt(f, pc) # {}

\* Mutant: a later basic block of the same block replaces the first.
BBMapLast(f, pc) == Max(BBsAt(f, pc))

BBMap(f, pc) == Min(BBsAt(f, pc))

\* Mutant: the fake return stays before the new terminator.
TerminateKeep(bb, term) == [bb EXCEPT !.terms = Append(@, term)]

\* cleanupFakeReturns
CleanupFakeReturns(terms) == KeepAt(terms, {k \in DOMAIN terms : terms[k] # FakeReturn})

\* A new terminator at the end.
Terminate(bb, term) == [bb EXCEPT !.terms = CleanupFakeReturns(Append(@, term))]

\* The store of a basic block with one of the marks; each has at most one.
Marked(bb, marks) == {st \in Range(bb.stores) : st.marks \cap marks # {}}
TheMarked(bb, marks) == CHOOSE st \in Marked(bb, marks) : TRUE
Erase(bb, st) == [bb EXCEPT !.stores = KeepAt(@, {k \in DOMAIN @ : @[k] # st})]

\* The function after Fix is applied to each basic block with such a store.
FixupAll(marks, Fix(_, _)) ==
    [i \in DOMAIN func |->
        IF Marked(func[i], marks) = {} THEN func[i]
        ELSE Fix(func[i], TheMarked(func[i], marks))]

FixupCall(bb, st) ==
    IF InBBMap(func, st.ret) THEN Terminate(bb, Branch(BBMap(func, st.ret))) ELSE bb

FixupDirectJump(bb, st) ==
    IF InBBMap(func, st.val)
    THEN Erase(Terminate(bb, Branch(BBMap(func, st.val))), st)
    ELSE bb

\* The fake block for a PC that is not in the map.
SwitchTarget(pc) == IF InBBMap(func, pc) THEN BBMap(func, pc) ELSE Len(func)

\* A switch whose index is not found gets no terminator, but loses its fake
\* return like the others.
FixupIndirectJump(bb, st) ==
    IF ~IsSwitch(st) THEN Terminate(bb, Branch(Len(func)))
    ELSE IF ~st.idx THEN [bb EXCEPT !.terms = CleanupFakeReturns(@)]
    ELSE Terminate(bb, [kind |-> "switch",
                        to   |-> [k \in 1..(Len(st.cases) + 1) |->
                                    SwitchTarget(SwitchTargets(st)[k])]])

FixupReturn(bb, st) == Erase(Terminate(bb, Return), st)

Fixup(here, then, marks, Fix(_, _)) ==
    /\ pass = here
    /\ func' = FixupAll(marks, Fix)
    /\ pass' = then
    /\ UNCHANGED <<mod, entries, pos, blocks, toExpand, hasIndirectJump, built,
                   toBeRemoved>>

FixupCalls == Fixup("fixupCalls", "fixupDirectJumps", Calls, FixupCall)

FixupDirectJumps ==
    Fixup("fixupDirectJumps", "fixupIndirectJumps", {"directJump"}, FixupDirectJump)

FixupIndirectJumps ==
    Fixup("fixupIndirectJumps", "fixupReturns", {"indirectJump"}, FixupIndirectJump)

FixupReturns == Fixup("fixupReturns", "finish", {"return"}, FixupReturn)

\* The loop that schedules the blocks for removal compares its iterator with
\* itself: toBeRemoved stays as it is.
FinishFunction ==
    /\ pass = "finish"
    /\ built' = [s \in DOMAIN built \cup {Order[pos]} |->
                    IF s = Order[pos] THEN func ELSE built[s]]
    /\ pos' = pos + 1
    /\ pass' = "search"
    /\ UNCHANGED <<mod, entries, building, toBeRemoved>>

\* The entry is the target of a branch.
EntryIsUsed(f) ==
    \E i \in DOMAIN f : \E t \in Range(f[i].terms) : Contains(t.to, 1)

\* A terminator when its targets are one position further.
ShiftTerm(t) == [t EXCEPT !.to = [j \in DOMAIN @ |-> @[j] + 1]]

\* fixup_entry: a basic block in front that branches to the entry
WithFixupEntry(f) ==
    <<[block |-> f[1].block, index |-> 0, work |-> FALSE, stores |-> <<>>,
       terms |-> <<Branch(2)>>]>>
    \o [i \in DOMAIN f |-> [f[i] EXCEPT !.terms = [k \in DOMAIN @ |-> ShiftTerm(@[k])]]]

\* Fix the entries, write newModule to the file.
SaveFunctions ==
    /\ pass = "search"
    /\ pos > Len(Order)
    /\ built' = [s \in DOMAIN built |->
                    IF EntryIsUsed(built[s]) THEN WithFixupEntry(built[s])
                    ELSE built[s]]
    /\ pass' = "cleanup"
    /\ UNCHANGED <<mod, entries, pos, building, toBeRemoved>>

Cleanup ==
    /\ pass = "cleanup"
    /\ mod' = [s \in Starts \ toBeRemoved |-> mod[s]]
    /\ pass' = "done"
    /\ UNCHANGED <<entries, pos, building, built, toBeRemoved>>

Next ==
    \/ ARMMarkCall
    \/ ARMMarkReturn
    \/ ARMMarkJumps
    \/ MarkFuncEntry
    \/ SkipBlock
    \/ MakeFunctionForward
    \/ ExploreBB
    \/ InlineBBs
    \/ FixupCalls
    \/ FixupDirectJumps
    \/ FixupIndirectJumps
    \/ FixupReturns
    \/ FinishFunction
    \/ SaveFunctions
    \/ Cleanup

Spec == Init /\ [][Next]_vars

----------------------------------------------------------------------------
(* Properties                                                              *)

\* The variables have their types; what a function is made of are blocks,
\* each once.
TypeOK ==
    /\ DOMAIN mod \subseteq Starts
    /\ \A st \in PCStores(mod) : st.marks \subseteq Marks
    /\ entries \subseteq Starts
    /\ pos \in 1..(Len(Order) + 1)
    /\ blocks \in Seq(Starts)
    /\ \A i, j \in DOMAIN blocks : blocks[i] = blocks[j] => i = j
    /\ Range(toExpand) \subseteq Range(blocks)
    /\ hasIndirectJump \in BOOLEAN
    /\ \A i \in DOMAIN func : func[i].block \in Range(blocks) \cup {None}
    /\ DOMAIN built \subseteq entries
    /\ toBeRemoved \subseteq Starts

Marking == {"armmarkcall", "armmarkreturn", "armmarkjumps", "aborted"}

\* BuildFunctions relies on each store to PC having one kind: a store with
\* two would give its basic block two terminators, one without any fails the
\* assertion in exploreBB.  A store that is preceded by an LR that is not the
\* end of the block is no call.
OneMark ==
    pass \notin Marking =>
        \A s \in DOMAIN mod : \A i \in DOMAIN mod[s] : \A j \in DOMAIN mod[s][i].stores :
            LET st == mod[s][i].stores[j]
            IN  st.to = "PC" =>
                    /\ \E m \in Marks : st.marks = {m}
                    /\ st.marks \cap Calls # {} =>
                        /\ st.ret = PcEnd[s]
                        /\ \E k \in 1..(j - 1) :
                              mod[s][i].stores[k].val \in {PcEnd[s], PcEnd[s] + 1}

\* Where control goes from a block within a function.
Follow(st) ==
    CASE st.marks \cap Calls # {}      -> {st.ret}
      [] st.marks = {"directJump"}     -> {st.val}
      [] st.marks = {"indirectJump"} /\ st.cases # <<>>
                                       -> Range(st.cases) \cup {st.dflt}
      [] OTHER                         -> {}

Closed(S) ==
    \A s \in S : \A st \in Range(PCStoresOf(mod[s])) : Follow(st) \cap Starts \subseteq S

\* A function consists of exactly the blocks its entry reaches without
\* following calls: they are closed, and no smaller set with the entry is
\* (BuildFunctions::exploreBB).
FunctionIsClosure ==
    pass = "finish" =>
        /\ blocks[1] = Order[pos]
        /\ Closed(Range(blocks))
        /\ \A S \in SUBSET Starts :
                Order[pos] \in S /\ Closed(S) => Range(blocks) \subseteq S

Saved == pass \in {"cleanup", "done"}
BlocksOf(f) == {f[i].block : i \in DOMAIN f} \ {None}
UnindexedSwitch(bb) == \E st \in Range(bb.stores) : IsSwitch(st) /\ ~st.idx

\* In the functions that are written, every basic block has one terminator,
\* except that of a switch whose index was not found, which has none, and no
\* branch goes to the entry, as LLVM demands (BuildFunctions: the four fixups,
\* cleanupFakeReturns and fixup_entry).
WellFormed ==
    Saved => \A s \in DOMAIN built : \A i \in DOMAIN built[s] :
                LET bb == built[s][i]
                IN  /\ Len(bb.terms) = IF UnindexedSwitch(bb) THEN 0 ELSE 1
                    /\ \A t \in Range(bb.terms) : ~Contains(t.to, 1)

\* What the block at s calls with a bl in its first basic block: constants in
\* LR, the address behind the block with or without the Thumb bit, and then in
\* PC.  A bl behind an instruction that QEMU made conditional is not there.
FirstBlockCalls(s) ==
    LET stores == mod[s][1].stores
        lrs(j) == {k \in 1..(j - 1) : stores[k].to = "LR" /\ Constant(stores[k])}
    IN  {stores[j].val : j \in {i \in DOMAIN stores :
            /\ stores[i].to = "PC" /\ Constant(stores[i])
            /\ lrs(i) # {} /\ stores[Max(lrs(i))].val \in {PcEnd[s], PcEnd[s] + 1}}}

\* A function is written for exactly the blocks that some block calls in its
\* first basic block: one that is called only by conditional instructions, behind
\* one, or through a register, gets none (MarkFuncEntry).
CalledIsBuilt ==
    pass = "cleanup" =>
        DOMAIN built = Starts \cap UNION {FirstBlockCalls(s) : s \in Starts}

\* Position p of the function f is where the block at pc begins.
BeginsAt(f, p, pc) == f[p].block = pc /\ f[p].index = 1

\* The terminators for going on at pc, or leaving when pc is not in f.
GoesTo(f, terms, pc) ==
    IF pc \in BlocksOf(f)
    THEN terms[1].kind = "br" /\ BeginsAt(f, terms[1].to[1], pc)
    ELSE terms = <<FakeReturn>>

\* The block begins with one jump to another block of the function.
OnlyJumps(f, pc) ==
    /\ ~mod[pc][1].work /\ ~mod[pc][1].inner
    /\ \A st \in Range(mod[pc][1].stores) :
            "directJump" \in st.marks /\ st.val \in BlocksOf(f)

\* The case of a switch for pc goes to position p.
CaseKept(f, p, pc) ==
    IF pc \notin BlocksOf(f) THEN f[p].block = None
    ELSE IF ~OnlyJumps(f, pc) THEN BeginsAt(f, p, pc)
    ELSE f[p].block = None \/ (f[p].block = pc /\ Len(mod[pc]) > 1)

\* A basic block of a function ends as the store to PC of the basic block it
\* was copied from says: at the begin of the block that follows when that is
\* in the function.  Only the cases of a switch whose block begins with one
\* jump are lost, or taken by what was left behind in a block that was cut:
\* the first basic block has no metadata when the switches are made.  The map
\* from PCs to basic blocks changes between the fixups, and so do the
\* positions of the basic blocks.
ControlFlowKept ==
    Saved => \A s \in DOMAIN built : \A i \in DOMAIN built[s] :
        LET f == built[s]
            bb == f[i]
        IN  (bb.block # None /\ bb.index > 0) =>
            \A st \in Range(mod[bb.block][bb.index].stores) :
                CASE st.marks \cap Calls # {} -> GoesTo(f, bb.terms, st.ret)
                  [] "directJump" \in st.marks -> GoesTo(f, bb.terms, st.val)
                  [] "return" \in st.marks -> bb.terms = <<Return>>
                  [] IsSwitch(st) /\ st.idx ->
                        \A k \in DOMAIN SwitchTargets(st) :
                            CaseKept(f, bb.terms[1].to[k], SwitchTargets(st)[k])
                  [] "indirectJump" \in st.marks /\ ~IsSwitch(st) ->
                        f[bb.terms[1].to[1]].block = None
                  [] OTHER -> TRUE

\* The blocks of the functions are removed from the module: "schedule visited
\* functions for removal".
VisitedAreRemoved ==
    pass = "done" => \A s \in DOMAIN built : BlocksOf(built[s]) \cap DOMAIN mod = {}

\* ARMMarkReturn never meets a store that is a call: "we should not have
\* marked already as a Call".
ReturnIsNoCall == pass # "aborted"
=============================================================================
