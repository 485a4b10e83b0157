-------------------------- MODULE MCRecursiveDescent --------------------------
(***************************************************************************)
(* RecursiveDescent on memories of four addresses.  Blocks 0, 4 and 8 are  *)
(* code, of one of the forms below; 12 lies outside the memory.            *)
(***************************************************************************)
EXTENDS RecursiveDescent

CONSTANT Forms      \* the forms of code the blocks of the memory are drawn from

H == INSTANCE Harvest

St(r, v) == [reg |-> r, val |-> v]
Exit(stores) == [ret |-> TRUE, stores |-> stores]

\* The translated function of each form: an indirect jump (a return), a
\* direct jump, a conditional jump, a call with its return address in LR, a
\* jump that switches to Thumb, a conditional return to ARM, code that means
\* one thing in ARM mode and another in Thumb mode, two exits that both set LR.
Return == <<Exit(<<St("PC", H!NonConst)>>)>>
Jump(t) == <<Exit(<<St("PC", t)>>)>>
Branch(t, u) == <<Exit(<<St("PC", t)>>), Exit(<<St("PC", u)>>)>>
Call(t, lr) == <<Exit(<<St("LR", lr), St("PC", t)>>)>>
ToThumb(t) == <<Exit(<<St("thumb", 1), St("PC", t + 1)>>)>>
CallThumb(t, lr) == <<Exit(<<St("LR", lr), St("thumb", 1), St("PC", t)>>)>>
ToArm(t, u) == <<Exit(<<St("thumb", 0), St("PC", t)>>), Exit(<<St("PC", u)>>)>>
TwoLRs == <<Exit(<<St("LR", 4)>>), Exit(<<St("LR", 8)>>)>>

Function(form, mode) ==
    CASE form = "return"     -> Return
      [] form = "jump4"      -> Jump(4)
      [] form = "loop0"      -> Branch(0, 8)
      [] form = "branch4_8"  -> Branch(4, 8)
      [] form = "branch8_12" -> Branch(8, 12)
      [] form = "call8_4"    -> Call(8, 4)
      [] form = "thumb4"     -> ToThumb(4)
      [] form = "callt8_4"   -> CallThumb(8, 4)
      [] form = "arm4_12"    -> ToArm(4, 12)
      [] form = "mixed"      -> IF mode = "arm" THEN ToThumb(8) ELSE Branch(4, 12)
      [] form = "two_lrs"    -> TwoLRs

MCPCs == {0, 4, 8, 12}
MCValidCode == {0, 4, 8}

\* A block is one ARM or two Thumb instructions long.
MCPrograms ==
    {[p \in MCPCs |-> [m \in Modes |->
        H!HarvestBlock(p + 4, IF p = 12 THEN Return ELSE Function(code[p], m))]] :
       code \in [MCValidCode -> Forms]}

\* No table; a table for the block at 0 (with a Thumb entry); a table whose
\* indices are the wrong way round; a table for a block that ends elsewhere.
MCJumpTables ==
    {<<>>,
     [p \in {0} |-> [bb_end |-> 4, loaded |-> <<8, 5>>, default_case_pc |-> 12]],
     [p \in {4} |-> [bb_end |-> 8, loaded |-> <<>>, default_case_pc |-> 0]],
     [p \in {0} |-> [bb_end |-> 8, loaded |-> <<4>>, default_case_pc |-> 12]]}

Iv(a, b) == [first |-> a, second |-> b]

\* The driver never starts at an address it has explored, so 0 is in none.
MCIntervalLists == {<<>>, <<Iv(4, 8)>>, <<Iv(6, 6), Iv(8, 10)>>}

MCThumbIns == {{}, {0, 8}, {4}}
=============================================================================
