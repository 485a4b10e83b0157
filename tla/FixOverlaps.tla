----------------------------- MODULE FixOverlaps -----------------------------
(***************************************************************************)
(* The passes of `opt' that make the translated blocks of a module         *)
(* disjoint: TransformBBToVoid, TagInstPc, RemoveExtraStoreToPC,           *)
(* S2EDeleteInstructionCount, FixOverlappedBBs and the -dce after it, in   *)
(* the order of run_passes_pre.                                            *)
(*                                                                         *)
(* QEMU ends a block at a branch, so a jump into the middle of a block     *)
(* yields a second block with the same end.  The longer one is cut where   *)
(* the next one begins and linked with it.                                 *)
(*                                                                         *)
(* The code of an LLVM function is a sequence of operations.  Those of a   *)
(* guest instruction are a store to PC, the load and addition ("count")    *)
(* and the store ("icount") that count it, and its work, if it has any.    *)
(* The exits, which store to PC where the block goes, follow.  They are in *)
(* basic blocks of their own when the last instruction is conditional.     *)
(***************************************************************************)
EXTENDS Integers, Sequences, FiniteSets, SequencesExt, SeqFilter

CONSTANTS
    PageEnd,        \* the first address behind the code
    MaxInsts,       \* QEMU ends a block after so many instructions
    Memories,       \* the codes: functions from addresses to instructions
    Orders          \* the start addresses of the blocks, in module order

ASSUME SizesAssumption == PageEnd \in Nat \ {0} /\ MaxInsts \in Nat \ {0}

Addr == 0..(PageEnd - 1)
None == -1

\* len: in units of two bytes; work: has an effect besides counting;
\* ends: "no", "jump" or "cond"
Instruction == [len : {1, 2}, work : BOOLEAN, ends : {"no", "jump", "cond"}]

ASSUME InputsAssumption ==
    /\ Memories \subseteq [Addr -> Instruction]
    /\ Orders \subseteq Seq(Addr)
    /\ \A o \in Orders : \A i, j \in DOMAIN o : o[i] = o[j] => i = j

VARIABLES
    memory,         \* the code, chosen initially
    funcs,          \* the functions of the module while TransformBBToVoid runs
    order,          \* the blocks of the module, by their start address
    pass,           \* the pass that runs next
    code,           \* the LLVM functions
    lastpc,         \* metadata "lastpc" of the entry block, None before
    endings,        \* the functions that end at an instruction
    overlaps,       \* the instructions at which several functions end
    next            \* position in funcs, or of *next in the list of
                    \* Head(overlaps)

vars == <<memory, funcs, order, pass, code, lastpc, endings, overlaps, next>>

----------------------------------------------------------------------------
(* What QEMU translates.                                                   *)

EndsBlock(m, p) == m[p].ends # "no" \/ p + m[p].len >= PageEnd

\* The addresses of the instructions of the block that starts at s.
Instructions(m, s) ==
    LET walk[n \in 0..(MaxInsts - 1)] ==
            IF n = 0 THEN <<s>>
            ELSE LET q == walk[n - 1]
                     p == Last(q)
                 IN  IF EndsBlock(m, p) THEN q ELSE Append(q, p + m[p].len)
    IN  walk[MaxInsts - 1]

\* The instructions that do something, in order.
Effects(m, s) == Keep(Instructions(m, s), {p \in Addr : m[p].work})

Kinds == <<"pc", "count", "icount", "work">>

\* cur is metadata "INS_currPC", set by RemoveExtraStoreToPC.
Body(m, q) ==
    LET ops == [i \in 1..4 * Len(q) |-> [kind |-> Kinds[((i - 1) % 4) + 1],
                                         pc   |-> q[((i - 1) \div 4) + 1],
                                         cur  |-> None]]
    IN  KeepAt(ops, {i \in DOMAIN ops : ops[i].kind = "work" => m[ops[i].pc].work})

\* exits: the instruction whose exits the function holds, None if they are
\* gone; live: they can be reached; link: the target of the split
Translate(m, s) ==
    LET q == Instructions(m, s)
        l == Last(q)
    IN  [pcStart |-> s, pcEnd |-> l + m[l].len, body |-> Body(m, q),
         own |-> m[l].ends = "cond", exits |-> l, live |-> TRUE, link |-> None]

Starts == Range(order)

----------------------------------------------------------------------------
\* A helper, or a block with the number of "void-" before its name
Function == [start : Addr \cup {None}, voids : Nat]

Init ==
    /\ memory \in Memories
    /\ order \in Orders
    /\ funcs = <<[start |-> None, voids |-> 0]>>
                \o [i \in DOMAIN order |-> [start |-> order[i], voids |-> 0]]
    /\ pass = "transfrombbtovoid"
    /\ code = [s \in Starts |-> Translate(memory, s)]
    /\ lastpc = [s \in Starts |-> None]
    /\ endings = [p \in Addr |-> <<>>]
    /\ overlaps = <<>>
    /\ next = 1

----------------------------------------------------------------------------
(* TransformBBToVoid                                                       *)

\* Mutant: functions that are rewritten already are rewritten again.
IsOldBlockAny(f) == f.start # None

\* A block that is not rewritten
IsOldBlock(f) == f.start # None /\ f.voids = 0

\* The new function joins the list that the loop goes through.  Its returns
\* are fake ones (see FunctionBuilder), its code is that of the old one.
RewriteFunc ==
    /\ pass = "transfrombbtovoid"
    /\ next <= Len(funcs)
    /\ funcs' = IF IsOldBlock(funcs[next])
                THEN Append(funcs, [funcs[next] EXCEPT !.voids = @ + 1]) ELSE funcs
    /\ next' = next + 1
    /\ UNCHANGED <<memory, order, pass, code, lastpc, endings, overlaps>>

\* eraseFuncs
EraseFuncs ==
    /\ pass = "transfrombbtovoid"
    /\ next > Len(funcs)
    /\ funcs' = KeepAt(funcs, {i \in DOMAIN funcs : ~IsOldBlock(funcs[i])})
    /\ LET blocks == KeepAt(funcs', {i \in DOMAIN funcs' : funcs'[i].start # None})
       IN  order' = [i \in DOMAIN blocks |-> blocks[i].start]
    /\ next' = 2
    /\ pass' = "tag-inst-pc"
    /\ UNCHANGED <<memory, code, lastpc, endings, overlaps>>

----------------------------------------------------------------------------
(* TagInstPc, RemoveExtraStoreToPC, S2EDeleteInstructionCount              *)

Stores == {"pc", "icount", "work"}

\* The store to PC before an increment of s2e_icount.
PcStore(body, i) ==
    body[Max({j \in 1..(i - 1) : body[j].kind \in Stores})].pc

LastPc(body) ==
    Max({PcStore(body, i) : i \in {j \in DOMAIN body : body[j].kind = "icount"}})

TagInstPc ==
    /\ pass = "tag-inst-pc"
    /\ lastpc' = [s \in Starts |-> LastPc(code[s].body)]
    /\ pass' = "rmexterstoretopc"
    /\ UNCHANGED <<memory, funcs, order, code, endings, overlaps, next>>

\* INS_currPC of operation i: what the last store before it stored.
CurrPC(f, i) ==
    LET earlier == {j \in 1..(i - 1) : f.body[j].kind = "pc"}
    IN  IF earlier = {} THEN f.pcStart ELSE f.body[Max(earlier)].pc

\* The stores at the instruction boundaries are removed; the last store of
\* each exit stays.
RemoveExtra(f) ==
    [f EXCEPT !.body =
        KeepAt([i \in DOMAIN f.body |-> [f.body[i] EXCEPT !.cur = CurrPC(f, i)]],
               {i \in DOMAIN f.body : f.body[i].kind # "pc"})]

InsideBlock(f) ==
    \A i \in DOMAIN f.body :
        f.body[i].kind = "pc" => f.body[i].pc \in f.pcStart..f.pcEnd

RemoveExtraStoreToPC ==
    /\ pass = "rmexterstoretopc"
    /\ IF \A s \in Starts : InsideBlock(code[s])
         THEN /\ code' = [s \in Starts |-> RemoveExtra(code[s])]
              /\ pass' = "s2edeleteinstructioncount"
         ELSE /\ pass' = "aborted"
              /\ UNCHANGED code
    /\ UNCHANGED <<memory, funcs, order, lastpc, endings, overlaps, next>>

\* Without the operations of a kind.
Without(f, kind) ==
    [f EXCEPT !.body = KeepAt(f.body, {i \in DOMAIN f.body : f.body[i].kind # kind})]

DeleteInstructionCount ==
    /\ pass = "s2edeleteinstructioncount"
    /\ code' = [s \in Starts |-> Without(code[s], "icount")]
    /\ pass' = "fixoverlappedbbs"
    /\ UNCHANGED <<memory, funcs, order, lastpc, endings, overlaps, next>>

----------------------------------------------------------------------------
(* FixOverlappedBBs                                                        *)

EndingAt(p) == Keep(order, {s \in Starts : lastpc[s] = p})

\* Mutant: the list stays in the order of the module.
ByStartUnsorted(list) == list

\* funcList.sort(myCompareStartOfFunc): no two blocks have the same start.
ByStart(list) == Keep([i \in 1..PageEnd |-> i - 1], Range(list))

\* An instruction is an overlap when the second function that ends there is
\* met.
FindOverlaps ==
    /\ pass = "fixoverlappedbbs"
    /\ endings' = [p \in Addr |-> ByStart(EndingAt(p))]
    /\ LET seconds == Keep(order, {s \in Starts : /\ Len(EndingAt(lastpc[s])) >= 2
                                                  /\ EndingAt(lastpc[s])[2] = s})
       IN  overlaps' = [i \in DOMAIN seconds |-> lastpc[seconds[i]]]
    /\ next' = 2
    /\ pass' = "truncate"
    /\ UNCHANGED <<memory, funcs, order, code, lastpc>>

\* Mutant: the cut is behind the effect of the instruction.
AlignedLate(f, pc) ==
    {i \in DOMAIN f.body :
        f.body[i].cur = pc /\ \A j \in DOMAIN f.body : f.body[j].cur = pc => j <= i}

\* The operations of f at pc.  The exits are left out: the first operation
\* of theirs with a given INS_currPC is the end of its basic block, where
\* splitBasicBlock fails as the assertion would.
Aligned(f, pc) == {i \in DOMAIN f.body : f.body[i].cur = pc}

\* The operation found stays; the exits stay as unreachable basic blocks
\* unless they were in the basic block that was split.
LinkWith(f, k, target) ==
    [f EXCEPT !.body = SubSeq(f.body, 1, k),
              !.link = target,
              !.live = FALSE,
              !.exits = IF f.own THEN f.exits ELSE None]

Curr == endings[Head(overlaps)][next - 1]
NextFunc == endings[Head(overlaps)][next]

\* Mutant: only the first two functions of a list are handled.
AdvanceOnce ==
    /\ overlaps' = Tail(overlaps)
    /\ next' = 2

\* ++curr, ++next; then the next overlap
Advance ==
    IF next = Len(endings[Head(overlaps)])
    THEN overlaps' = Tail(overlaps) /\ next' = 2
    ELSE UNCHANGED overlaps /\ next' = next + 1

TruncateFuncAndLinkWith ==
    /\ pass = "truncate"
    /\ overlaps # <<>>
    /\ Curr < NextFunc
    /\ Aligned(code[Curr], NextFunc) # {}
    /\ code' = [code EXCEPT ![Curr] =
                    LinkWith(@, Min(Aligned(@, NextFunc)), NextFunc)]
    /\ Advance
    /\ UNCHANGED <<memory, funcs, order, pass, lastpc, endings>>

\* assert(pcA < pcB), assert(found)
AssertFails ==
    /\ pass = "truncate"
    /\ overlaps # <<>>
    /\ Curr >= NextFunc \/ Aligned(code[Curr], NextFunc) = {}
    /\ pass' = "aborted"
    /\ UNCHANGED <<memory, funcs, order, code, lastpc, endings, overlaps, next>>

----------------------------------------------------------------------------
(* -dce removes the loads and additions whose result is not stored.        *)

Dce ==
    /\ pass = "truncate"
    /\ overlaps = <<>>
    /\ code' = [s \in Starts |-> Without(code[s], "count")]
    /\ pass' = "armmarkcall"
    /\ UNCHANGED <<memory, funcs, order, lastpc, endings, overlaps, next>>

\* Mutant: a block that keeps operations of one instruction has lost its start.
HasPCStartLong(f) == Len(f.body) > 1 \/ f.link = None

\* Metadata BB_pcStart of the first operation: LinkWith gives its store and
\* return none.
HasPCStart(f) == f.body # <<>> \/ f.link = None

\* getPCStartOfFunc at the begin of the next pass
MarkCallStarts ==
    /\ pass = "armmarkcall"
    /\ pass' = IF \A s \in Starts : HasPCStart(code[s]) THEN "done" ELSE "aborted"
    /\ UNCHANGED <<memory, funcs, order, code, lastpc, endings, overlaps, next>>

Next ==
    \/ RewriteFunc
    \/ EraseFuncs
    \/ TagInstPc
    \/ RemoveExtraStoreToPC
    \/ DeleteInstructionCount
    \/ FindOverlaps
    \/ TruncateFuncAndLinkWith
    \/ AssertFails
    \/ Dce
    \/ MarkCallStarts

Spec == Init /\ [][Next]_vars

----------------------------------------------------------------------------
(* Properties                                                              *)

Op == [kind : Range(Kinds), pc : Addr, cur : Addr \cup {None}]

\* The variables have their types: a cut function has a link.
TypeOK ==
    /\ memory \in Memories
    /\ funcs \in Seq(Function)
    /\ order \in Orders
    /\ pass \in {"transfrombbtovoid", "tag-inst-pc", "rmexterstoretopc",
                 "s2edeleteinstructioncount", "fixoverlappedbbs", "truncate",
                 "armmarkcall", "done", "aborted"}
    /\ DOMAIN code = Starts
    /\ \A s \in Starts :
            /\ code[s].pcStart = s
            /\ Range(code[s].body) \subseteq Op
            /\ code[s].exits \in Addr \cup {None}
            /\ code[s].link \in Starts \cup {None}
            /\ code[s].live <=> code[s].link = None
    /\ lastpc \in [Starts -> Addr \cup {None}]
    /\ endings \in [Addr -> Seq(Starts)]
    /\ overlaps \in Seq(Addr)
    /\ next \in Nat

\* The functions of the module for the block at s.
Versions(s) == {i \in DOMAIN funcs : funcs[i].start = s}

\* TransformBBToVoid rewrites every block once, though the functions it adds
\* come at the end of the list it goes through: there are never more than
\* the block and its copy, and in the end the module has exactly the copies,
\* and the helpers.
RewrittenOnce ==
    /\ \A s \in DOMAIN code : Cardinality(Versions(s)) <= 2
    /\ pass # "transfrombbtovoid" =>
            /\ \A s \in DOMAIN code : Cardinality(Versions(s)) = 1
            /\ \A i \in DOMAIN funcs : funcs[i].voids = IF funcs[i].start = None THEN 0 ELSE 1
            /\ Range(order) = DOMAIN code

\* The instructions that have an effect in f.
Works(f) ==
    LET w == KeepAt(f.body, {i \in DOMAIN f.body : f.body[i].kind = "work"})
    IN  [i \in DOMAIN w |-> w[i].pc]

\* What running the block at s does until it leaves through exits.
Runs[s \in Starts] ==
    IF code[s].link = None THEN Works(code[s])
    ELSE Works(code[s]) \o Runs[code[s].link]

\* The exits it leaves through.
Leaves[s \in Starts] ==
    IF code[s].link = None THEN code[s].exits ELSE Leaves[code[s].link]

\* A block, continued where it is linked with another one, has the effects
\* it had when it was translated, in the same order and each once, and ends
\* in the same exits: at every point, also between the cuts of a list of
\* three.  Exits that stay behind as unreachable basic blocks, which the
\* later passes still read, are no others
\* (FixOverlappedBBs::truncateFuncAndLinkWith).
SplitKeepsEffects ==
    \A s \in Starts :
        /\ Runs[s] = Effects(memory, s)
        /\ Leaves[s] = Last(Instructions(memory, s))
        /\ code[s].exits \in {Leaves[s], None}

\* QEMU ended the block that starts at s because of its length.
AtLimit(s) == ~EndsBlock(memory, Last(Instructions(memory, s)))

\* When the pass is done, no instruction has its effect in two functions
\* (FixOverlappedBBs::runOnModule: "find the overlaps"), unless they end at
\* different instructions because QEMU ended one of them at its limit.
NoInstructionTwice ==
    pass \in {"armmarkcall", "done"} =>
        \A s, t \in Starts :
            s # t /\ (lastpc[s] = lastpc[t] \/ ~(AtLimit(s) \/ AtLimit(t)))
                => Range(Works(code[s])) \cap Range(Works(code[t])) = {}

\* Every two blocks that meet have their instructions in common from there.
Consistent ==
    \A s, t \in Starts :
        s < t /\ Last(Instructions(memory, s)) = Last(Instructions(memory, t))
            => t \in Range(Instructions(memory, s))

\* The assertions of truncateFuncAndLinkWith fail exactly when blocks that
\* end together disagree on the boundaries of instructions, whatever the
\* order of the module and however many blocks end there.
AbortsIffMisaligned ==
    /\ pass = "aborted" /\ overlaps # <<>> => ~Consistent
    /\ pass \in {"armmarkcall", "done"} => Consistent

\* The block that starts at s does nothing before another one begins that
\* ends with it.
NothingBeforeCut(s) ==
    \E t \in Starts :
        /\ s < t
        /\ Last(Instructions(memory, s)) = Last(Instructions(memory, t))
        /\ \A p \in Range(Effects(memory, s)) : p >= t

\* The next pass finds the start address of every block, and otherwise stops
\* opt, exactly when a block that was cut has nothing left to carry it
\* (assert(pcEndNode) in getHexMetadataFromIns).
StartLostIffEmpty ==
    /\ pass = "aborted" /\ overlaps = <<>> => \E s \in Starts : NothingBeforeCut(s)
    /\ pass = "done" => \A s \in Starts : ~NothingBeforeCut(s)

\* Every function of the module carries its start address (assert(pcEndNode)
\* in getHexMetadataFromIns).
StartIsKnown == pass = "armmarkcall" => \A s \in Starts : HasPCStart(code[s])
=============================================================================
