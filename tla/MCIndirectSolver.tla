--------------------------- MODULE MCIndirectSolver ---------------------------
(***************************************************************************)
(* IndirectSolver on three blocks of one instruction, at 4, 8 and 12.      *)
(* The variables of a block are -1 (an address) and -2 (its Thumb bit).    *)
(***************************************************************************)
EXTENDS IndirectSolver

To(gv, val) == [gv |-> gv, val |-> val]
Block(start, bbs, address, bit) ==
    [start |-> start, bbs |-> bbs,
     known |-> [v \in {-1, -2} |-> IF v = -1 THEN address ELSE bit]]

Addr == {4, 8, 12}
Known == {None, 8, 20}

\* The instruction at p: a jump, a conditional jump, a jump and a call to
\* Thumb code, a load, and jumps through a register, the last conditional
BlocksAt(p) ==
    {Block(p, <<<<To("PC", x)>>>>, None, None) : x \in Addr} \cup
    {Block(p, <<<<>>, <<To("PC", x)>>, <<To("PC", p + 4)>>>>, None, None) : x \in Addr} \cup
    {Block(p, <<<<To("LR", p + 4), To("thumb", 1), To("PC", x)>>>>, None, None) : x \in Addr} \cup
    {Block(p, <<<<To("R0", -1), To("LR", -1), To("PC", p + 4)>>>>, a, None) : a \in Known} \cup
    {Block(p, <<<<To("thumb", -2), To("PC", -1)>>>>, a, b) : a \in Known, b \in {None, 0, 1}} \cup
    {Block(p, <<<<To("R0", -1), To("PC", -1)>>>>, a, None) : a \in Known} \cup
    {Block(p, <<<<>>, <<To("PC", -1)>>, <<To("PC", p + 4)>>>>, a, None) : a \in Known}

MCPrograms == {<<a, b, c>> : a \in BlocksAt(4), b \in BlocksAt(8), c \in BlocksAt(12)}
=============================================================================
