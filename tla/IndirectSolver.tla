---------------------------- MODULE IndirectSolver ----------------------------
(***************************************************************************)
(* SolveIndirectSingle and ARMDumpThumbBit.  The solver reads a copy of a  *)
(* module that -gvn has optimised, remembers which constant is stored to   *)
(* which global at which instruction, and replaces the computed values of  *)
(* the original by the constants found for the same global and the same    *)
(* instruction.  The second pass writes the addresses of Thumb code.       *)
(*                                                                         *)
(* A block is a sequence of LLVM basic blocks, each a sequence of stores   *)
(* to globals.  Instructions are told apart by INS_currPC, which           *)
(* RemoveExtraStoreToPC attaches in one pass over the basic blocks.        *)
(***************************************************************************)
EXTENDS Integers, Sequences, FiniteSets, SequencesExt

CONSTANTS
    Programs        \* sequences of blocks

None == -1
\* A value below 0 is a variable of the block.
Constant(v) == v >= 0
Globals == {"PC", "thumb", "R0", "LR"}

\* start; bbs: the stores of each basic block; known: the values of the
\* variables that -gvn finds, None for the others
ASSUME ProgramsAssumption ==
    \A p \in Programs : \A i \in DOMAIN p :
        /\ p[i].start \in Nat
        /\ \A b \in DOMAIN p[i].bbs : \A k \in DOMAIN p[i].bbs[b] :
                LET st == p[i].bbs[b][k]
                IN  /\ st.gv \in Globals
                    /\ Constant(st.val) \/ st.val \in DOMAIN p[i].known
        /\ \A v \in DOMAIN p[i].known : p[i].known[v] \in Nat \cup {None}

VARIABLES
    program,        \* chosen initially
    stores,         \* the stores of the module, in order
    step,           \* load, expand, annotate, dump or done
    loaded,         \* the optimised copy could be read
    pos,            \* the next store
    directStores,   \* m_directStores: constant by global and instruction
    computed,       \* INS_computedValue of each store
    solvedPCs,      \* m_solvedPCs
    thumbPCs        \* m_thumbPCs

vars == <<program, stores, step, loaded, pos, directStores, computed, solvedPCs,
          thumbPCs>>

----------------------------------------------------------------------------
(* The module                                                              *)

\* INS_currPC of store k of a block: what the last constant store to PC
\* before it, in any basic block, stored.
CurrPC(start, flat, k) ==
    LET earlier == {j \in 1..(k - 1) : flat[j].gv = "PC" /\ Constant(flat[j].val)}
    IN  IF earlier = {} THEN start ELSE flat[Max(earlier)].val

Tagged(i, block) ==
    LET flat == FlattenSeq([b \in DOMAIN block.bbs |->
                    [k \in DOMAIN block.bbs[b] |->
                        [block |-> i, bb |-> b, gv |-> block.bbs[b][k].gv,
                         val |-> block.bbs[b][k].val, cur |-> None]]])
    IN  [k \in DOMAIN flat |->
            [flat[k] EXCEPT !.cur = CurrPC(block.start, flat, k)]]

\* What -gvn makes of a value.
Optimised(st) ==
    IF Constant(st.val) THEN st.val ELSE program[st.block].known[st.val]

PCs == {stores[k].cur : k \in DOMAIN stores}

Init ==
    /\ program \in Programs
    /\ stores = FlattenSeq([i \in DOMAIN program |-> Tagged(i, program[i])])
    /\ step = "load"
    /\ loaded = FALSE
    /\ pos = 1
    /\ directStores = [g \in Globals |-> [pc \in PCs |-> None]]
    /\ computed = [k \in DOMAIN stores |-> None]
    /\ solvedPCs = <<>>
    /\ thumbPCs = <<>>

----------------------------------------------------------------------------
(* SolveIndirectSingle                                                     *)

\* initialize, with ParseIRFile; without the copy nothing is solved
LoadOptFile ==
    /\ step = "load"
    /\ loaded' \in BOOLEAN
    /\ step' = IF loaded' THEN "expand" ELSE "annotate"
    /\ UNCHANGED <<program, stores, pos, directStores, computed, solvedPCs, thumbPCs>>

\* Mutant: the constants of all globals are kept together.
RecordAnyGlobal(table, st, c) ==
    [g \in Globals |-> [table[g] EXCEPT ![st.cur] = c]]

\* (*valueMap)[pc] = val
Record(table, st, c) == [table EXCEPT ![st.gv][st.cur] = c]

\* expandDirectStoresWithModule, one store of the optimised copy
ExpandDirectStore ==
    /\ step = "expand"
    /\ pos <= Len(stores)
    /\ directStores' =
            IF Optimised(stores[pos]) = None THEN directStores
            ELSE Record(directStores, stores[pos], Optimised(stores[pos]))
    /\ pos' = pos + 1
    /\ UNCHANGED <<program, stores, step, loaded, computed, solvedPCs, thumbPCs>>

Expanded ==
    /\ step = "expand"
    /\ pos > Len(stores)
    /\ step' = "annotate"
    /\ pos' = 1
    /\ UNCHANGED <<program, stores, loaded, directStores, computed, solvedPCs, thumbPCs>>

Annotated == {"R0", "PC", "thumb"}
Replaced == {"PC", "thumb"}

\* The store is of interest and its value is computed.
Solvable(st) == ~Constant(st.val) /\ st.gv \in Annotated

PassOver ==
    /\ step = "annotate"
    /\ pos <= Len(stores)
    /\ LET st == stores[pos]
       IN  ~Solvable(st) \/ directStores[st.gv][st.cur] = None
    /\ pos' = pos + 1
    /\ UNCHANGED <<program, stores, step, loaded, directStores, computed, solvedPCs,
                   thumbPCs>>

\* replaceAllUsesWith: every use of the variable in the block
ReplaceAllUses(st, c) ==
    [k \in DOMAIN stores |->
        IF stores[k].block = st.block /\ stores[k].val = st.val
        THEN [stores[k] EXCEPT !.val = c] ELSE stores[k]]

\* performAnnotations, one store that is solved
Solve ==
    /\ step = "annotate"
    /\ pos <= Len(stores)
    /\ LET st == stores[pos]
           c == directStores[st.gv][st.cur]
       IN  /\ Solvable(st)
           /\ c # None
           /\ computed' = [computed EXCEPT ![pos] = c]
           /\ solvedPCs' = IF st.gv = "PC" THEN Append(solvedPCs, c) ELSE solvedPCs
           /\ stores' = IF st.gv \in Replaced THEN ReplaceAllUses(st, c) ELSE stores
    /\ pos' = pos + 1
    /\ UNCHANGED <<program, step, loaded, directStores, thumbPCs>>

SaveSolvedPCs ==
    /\ step = "annotate"
    /\ pos > Len(stores)
    /\ step' = "dump"
    /\ pos' = 1
    /\ UNCHANGED <<program, stores, loaded, directStores, computed, solvedPCs, thumbPCs>>

----------------------------------------------------------------------------
(* ARMDumpThumbBit                                                         *)

\* getStoreToPCInBB: the constant stores it looks at are those to "thumb"
StoresToPC(st) ==
    SelectSeq(stores, LAMBDA o : /\ o.block = st.block /\ o.bb = st.bb
                                 /\ o.gv = "thumb" /\ Constant(o.val))

\* Mutant: a store that clears the bit counts too.
SetsThumbAny(st) == st.gv = "thumb" /\ Constant(st.val)

SetsThumb(st) == st.gv = "thumb" /\ st.val = 1

DumpThumbBit ==
    /\ step = "dump"
    /\ pos <= Len(stores)
    /\ thumbPCs' =
            IF SetsThumb(stores[pos]) /\ StoresToPC(stores[pos]) # <<>>
            THEN Append(thumbPCs, 2 * (Head(StoresToPC(stores[pos])).val \div 2))
            ELSE thumbPCs
    /\ pos' = pos + 1
    /\ UNCHANGED <<program, stores, step, loaded, directStores, computed, solvedPCs>>

SaveThumbPCs ==
    /\ step = "dump"
    /\ pos > Len(stores)
    /\ step' = "done"
    /\ UNCHANGED <<program, stores, loaded, pos, directStores, computed, solvedPCs, thumbPCs>>

Next ==
    \/ LoadOptFile
    \/ ExpandDirectStore
    \/ Expanded
    \/ PassOver
    \/ Solve
    \/ SaveSolvedPCs
    \/ DumpThumbBit
    \/ SaveThumbPCs

Spec == Init /\ [][Next]_vars

----------------------------------------------------------------------------
(* Properties                                                              *)

\* The store as it was before the solver.
Before(k) == FlattenSeq([i \in DOMAIN program |-> Tagged(i, program[i])])[k]

\* The variables have their types: a replaced value is a constant.
TypeOK ==
    /\ step \in {"load", "expand", "annotate", "dump", "done"}
    /\ loaded \in BOOLEAN
    /\ pos \in 1..(Len(stores) + 1)
    /\ directStores \in [Globals -> [PCs -> Nat \cup {None}]]
    /\ computed \in [DOMAIN stores -> Nat \cup {None}]
    /\ solvedPCs \in Seq(Nat)
    /\ thumbPCs \in Seq(Nat)
    /\ \A k \in DOMAIN stores :
            stores[k].gv \in Replaced /\ computed[k] # None => Constant(stores[k].val)

\* No two stores to a global carry the same INS_currPC.
DistinctInstructions ==
    \A j, k \in DOMAIN stores :
        stores[j].gv = stores[k].gv /\ stores[j].cur = stores[k].cur => j = k

\* The value -gvn found for the variable of a store, None if it found none.
Truth(k) ==
    IF loaded /\ ~Constant(Before(k).val) THEN Optimised(Before(k)) ELSE None

\* When instructions are told apart, each store the solver looks at gets the
\* value the optimiser found, and no other store gets one; the file of new
\* targets holds those of the stores to PC, in order.
SolvedExactly ==
    step \in {"dump", "done"} /\ DistinctInstructions =>
        /\ \A k \in DOMAIN stores :
              computed[k] = IF Before(k).gv \in Annotated THEN Truth(k) ELSE None
        /\ LET pcs == SelectSeq([k \in DOMAIN stores |-> k], LAMBDA k :
                            Before(k).gv = "PC" /\ Truth(k) # None)
           IN  solvedPCs = [i \in DOMAIN pcs |-> Truth(pcs[i])]

\* A store gets no other value than the one it stores: "INS_computedValue
\* metainfo is added to each store instruction that could be solved to a
\* single value".
SolvedIsTrue ==
    \A k \in DOMAIN stores : computed[k] # None => computed[k] = Truth(k)

\* The stores that set the Thumb bit, or are known to the optimiser to do so.
SettingThumb ==
    {k \in DOMAIN stores : Before(k).gv = "thumb" /\ 1 \in {Before(k).val, Truth(k)}}

\* ARMDumpThumbBit takes the value stored to thumb for the address: the file
\* merged into the next iteration's list holds nothing but zeros, one for
\* each store that sets the bit when instructions are told apart.
ThumbDumpIsZeros ==
    step = "done" =>
        /\ Range(thumbPCs) \subseteq {0}
        /\ DistinctInstructions => Len(thumbPCs) = Cardinality(SettingThumb)

\* The addresses written are those stored to PC where thumb is set: "save
\* thumb bit to a file; we will look only at the basic blocks that contain a
\* store to thumb and a store to PC".
DumpsThumbTargets ==
    step = "done" =>
        \A p \in Range(thumbPCs) : \E j, k \in DOMAIN stores :
            /\ SetsThumb(stores[j])
            /\ stores[k].gv = "PC" /\ stores[k].val = p
            /\ stores[j].block = stores[k].block /\ stores[j].bb = stores[k].bb
=============================================================================
