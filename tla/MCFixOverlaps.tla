---------------------------- MODULE MCFixOverlaps ----------------------------
(***************************************************************************)
(* FixOverlaps on all codes made of the instructions Insts, with at most   *)
(* MaxBlocks blocks in any order.                                          *)
(***************************************************************************)
EXTENDS FixOverlaps

CONSTANTS MaxBlocks

Inst(len, work, ends) == [len |-> len, work |-> work, ends |-> ends]

\* An instruction without effect, short and long ones with, and the ends.
MCInsts == {Inst(1, FALSE, "no"), Inst(1, TRUE, "no"), Inst(2, TRUE, "no"),
            Inst(1, TRUE, "jump"), Inst(1, TRUE, "cond")}

MCMemories == [0..(PageEnd - 1) -> MCInsts]

MCOrders ==
    {o \in UNION {[1..n -> 0..(PageEnd - 1)] : n \in 1..MaxBlocks} :
        \A i, j \in DOMAIN o : o[i] = o[j] => i = j}
=============================================================================
