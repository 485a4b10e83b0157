-------------------------- MODULE MCFunctionBuilder --------------------------
(***************************************************************************)
(* FunctionBuilder on three blocks of two bytes at 2, 4 and 6; the address *)
(* 8 is in no block.                                                       *)
(***************************************************************************)
EXTENDS FunctionBuilder

CONSTANTS Targets, SwitchDefaults

MCOrder == <<2, 4, 6>>
MCPcEnd == [s \in {2, 4, 6} |-> s + 2]

PC(v) == Store("PC", v, <<>>, None, FALSE)
LR(v) == Store("LR", v, <<>>, None, FALSE)
Table(c, d, idx) == Store("PC", Computed, <<c>>, d, idx)

\* b, in a block with and without other instructions
Jumps == {<<BB(FALSE, FALSE, <<PC(t)>>)>> : t \in Targets}
Falls(e) == {<<BB(TRUE, FALSE, <<PC(e)>>)>>}
\* A conditional instruction: two exits.
Either(e, stores) == <<BB(TRUE, TRUE, <<>>), BB(FALSE, FALSE, stores),
                       BB(FALSE, FALSE, <<PC(e)>>)>>
CondJumps(e) == {Either(e, <<PC(t)>>) : t \in Targets}
\* bl in Thumb and, conditional, in ARM code
DirectCalls(e) == {<<BB(TRUE, FALSE, <<LR(e + 1), PC(t)>>)>> : t \in Targets}
CondCalls(e) == {Either(e, <<LR(e), PC(t)>>) : t \in Targets}
\* bx lr; bx r; blx r; a constant in LR that is not the end of the block
Others(e) == {<<BB(TRUE, FALSE, <<PC(UsesLR)>>)>>,
              <<BB(TRUE, FALSE, <<PC(Computed)>>)>>,
              <<BB(TRUE, FALSE, <<LR(e), PC(Computed)>>)>>,
              <<BB(TRUE, FALSE, <<LR(e + 4), PC(8)>>)>>}
\* blx lr
BlxLR(e) == {<<BB(TRUE, FALSE, <<LR(e), PC(UsesLR)>>)>>}
Switches(idx) == {<<BB(TRUE, FALSE, <<Table(c, d, idx)>>)>> :
                    c \in Targets, d \in SwitchDefaults}
\* A block that was cut, with the exits that stay behind; one that was cut
\* after a nop.
Cuts(e) == {<<BB(TRUE, FALSE, <<PC(6)>>), BB(FALSE, FALSE, <<PC(t)>>),
              BB(FALSE, FALSE, <<PC(e)>>)>> : t \in {2, 8}}
           \cup {<<BB(FALSE, FALSE, <<PC(6)>>), BB(TRUE, FALSE, <<PC(8)>>)>>}

Shapes(e) == Jumps \cup Falls(e) \cup CondJumps(e) \cup DirectCalls(e)
             \cup CondCalls(e) \cup Others(e) \cup BlxLR(e) \cup Switches(TRUE)
             \cup {<<BB(TRUE, FALSE, <<Table(4, 8, FALSE)>>)>>} \cup Cuts(e)

MCModules ==
    {[s \in {2, 4, 6} |-> IF s = 2 THEN a ELSE IF s = 4 THEN b ELSE c] :
        a \in Shapes(4), b \in Shapes(6), c \in Shapes(8)}
=============================================================================
