----------------------------- MODULE MCEnvRewrite -----------------------------
(***************************************************************************)
(* EnvRewrite on blocks with two pointers to the CPU state and three       *)
(* accesses or calls, and three helpers: one that reads and writes the     *)
(* state through env, one that calls it, one without a body.               *)
(***************************************************************************)
EXTENDS EnvRewrite

Mk(k, op, on, val, off, size, helper) ==
    [id |-> <<k>>, op |-> op, on |-> on, val |-> val, off |-> off, size |-> size,
     helper |-> helper]
Ptr(k, op, on, off) == Mk(k, op, on, Nothing, off, 0, 0)
Load(k, on, size) == Mk(k, "load", on, Nothing, 0, size, 0)
Store(k, on, val, size) == Mk(k, "store", on, val, 0, size, 0)
Inline(k, h) == Mk(k, "inline", Nothing, Nothing, 0, 0, h)

MCHelpers == {1, 2, 3}
MCHelperCode ==
    <<<<Load(1, Env, 4), Ptr(2, "gep", <<1>>, 1), Store(3, <<2>>, Nothing, 1), Load(4, <<2>>, 1)>>,
      <<Inline(1, 1)>>,
      <<>>>>

\* Offset 1 is a register, with a second name that is never used.
MCRegisters == <<<<1, 7>>, <<1, 8>>>>

\* The argument is loaded through a copy, or directly, and used in another way.
Starts ==
    {<<Ptr(1, "gep", Arg0, 0), Load(2, <<1>>, 4)>>,
     <<Ptr(1, "gep", Arg0, 1), Load(2, Arg0, 4)>>}

Pointers(k) ==
    {Ptr(k, "add", <<j>>, 1) : j \in 2..(k - 1)} \cup {Ptr(k, "cast", <<k - 1>>, 0)}

\* A pointer at an offset nobody knows
Unknown(k) == {Ptr(k, "add", <<2>>, Var)}

Stores(k) == {Store(k, <<p>>, Nothing, n) : p \in {3, 4}, n \in {1, 2}}
Loads(k) == {Load(k, <<3>>, n) : n \in {1, 2}}

Uses(k) ==
    {Inline(k, h) : h \in MCHelpers} \cup
    {Store(k, <<3>>, <<4>>, 1)} \cup
    {Mk(k, op, <<4>>, Nothing, 0, 0, 0) : op \in {"call", "other"}}

\* The value of instruction k - 1 is stored.
Passed(k, i) == IF i.op \in {"load", "inline"} THEN {Store(k, <<3>>, <<k - 1>>, 1)} ELSE {}

MCBlocks ==
    UNION {{s \o <<p, q, a, b, c>> :
                b \in Stores(6) \cup Loads(6) \cup Uses(6) \cup Passed(6, a),
                c \in {Load(7, <<v>>, 1) : v \in {3, 4}}} :
           s \in Starts, p \in Pointers(3), q \in Pointers(4) \cup Unknown(4),
           a \in Stores(5) \cup Loads(5) \cup Uses(5)}
=============================================================================
