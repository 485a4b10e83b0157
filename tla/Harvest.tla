------------------------------- MODULE Harvest -------------------------------
(***************************************************************************)
(* What ExtractPossibleTargetsPass and ARMGetThumbBit answer about one     *)
(* translated block, as functions of the block.                            *)
(*                                                                         *)
(* A translated block is an LLVM function: the sequence of its basic       *)
(* blocks, each with the kind of its terminator (ret) and its stores to    *)
(* CPU registers in program order.  A store is either of a constant or not.*)
(* HarvestPasses shows that the loops of the two passes compute these      *)
(* answers.                                                                *)
(***************************************************************************)
EXTENDS Integers, Sequences, SequencesExt, SeqFilter

NonConst == -1      \* the value of a store that is not a constant
NoTarget == -1      \* no constant store was found

Store(Values) == [reg: {"PC", "LR", "thumb"}, val: Values \cup {NonConst}]

BasicBlock(Values) == [ret: BOOLEAN, stores: Seq(Store(Values))]

\* The constants stored to a register, in program order.
ConstStores(bb, reg) ==
    KeepAt(bb.stores, {i \in DOMAIN bb.stores :
                          bb.stores[i].reg = reg /\ bb.stores[i].val # NonConst})

\* None or one value: the last constant stored to the register.
LastConst(bb, reg) ==
    LET cs == ConstStores(bb, reg)
    IN  IF cs = <<>> THEN <<>> ELSE <<Last(cs).val>>

\* The basic blocks that leave the translated block.
Exits(fn) == KeepAt(fn, {i \in DOMAIN fn : fn[i].ret})

\* targetPCs: for each exit its PC, then its LR.
Targets(fn) ==
    FlattenSeq([i \in DOMAIN Exits(fn) |->
                   LastConst(Exits(fn)[i], "PC") \o LastConst(Exits(fn)[i], "LR")])

\* Every LR found; the pass asserts that there is at most one.
ImplicitTargets(fn) ==
    FlattenSeq([i \in DOMAIN Exits(fn) |-> LastConst(Exits(fn)[i], "LR")])

\* The last constant Thumb bits, exit by exit; the first one is the answer.
ThumbBits(fn) ==
    FlattenSeq([i \in DOMAIN Exits(fn) |-> LastConst(Exits(fn)[i], "thumb")])

ThumbBit(fn) ==
    CASE ThumbBits(fn) = <<>> -> "undefined"
      [] OTHER -> IF Head(ThumbBits(fn)) = 1 THEN "set" ELSE "unset"

\* The record RecursiveDescent knows of a block.
HarvestBlock(end, fn) ==
    [end |-> end, targets |-> Targets(fn),
     implicit |-> IF ImplicitTargets(fn) = <<>> THEN NoTarget
                  ELSE Head(ImplicitTargets(fn)),
     thumbBit |-> ThumbBit(fn),
     harvestable |-> Len(ImplicitTargets(fn)) <= 1]
=============================================================================
