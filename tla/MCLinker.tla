------------------------------- MODULE MCLinker -------------------------------
(***************************************************************************)
(* Linker and PostPasses on two files of at most two functions without     *)
(* operations, and on one file with a function of four operations that may *)
(* call itself.                                                            *)
(***************************************************************************)
EXTENDS PostPasses

CONSTANTS Calls     \* the sequences of call targets of a function

Function == [start : Addresses \cup {None}, block : {TRUE}, calls : Calls, body : {<<>>}]
            \cup {[start |-> None, block |-> FALSE, calls |-> <<>>, body |-> <<>>]}

MCFiles == UNION {[1..n -> Function] : n \in 0..2}

Op(kind, var, val) == [kind |-> kind, var |-> var, val |-> val]

\* The values operation k may use: a constant or an earlier load
Values(b) == {1} \cup {-k : k \in {j \in DOMAIN b : b[j].kind = "load"}}
Extend(b) ==
    {Append(b, o) : o \in {Op("store", x, v) : x \in Variables, v \in Values(b)} \cup
                          {Op("load", x, 0) : x \in Variables}}

Two == UNION {Extend(b) : b \in Extend(<<>>)}
Call(b) == {b, Append(b, Op("call", 1, 0)), Append(b, Op("call", 2, 0))}
Bodies ==
    {Append(b, Op("use", 0, v)) : v \in {-4, -5},
        b \in UNION {Extend(c) : c \in UNION {Call(d) :
                        d \in UNION {Extend(e) : e \in Two}}}}

\* A use of a load
MCBodies ==
    {b \in Bodies : b[-b[Len(b)].val].kind = "load"}

MCFileLists ==
    (MCFiles \X MCFiles) \cup
    {<<<<[start |-> 1, block |-> TRUE, calls |-> <<1, 3>>, body |-> b]>>>> : b \in MCBodies}
MCCalls == {<<>>, <<2>>, <<3, 1>>}
=============================================================================
