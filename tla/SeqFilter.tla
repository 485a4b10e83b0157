------------------------------ MODULE SeqFilter ------------------------------
(***************************************************************************)
(* The members of a sequence that are in a set, in their order: what the   *)
(* loops of the driver, of the coverage, of the linker and of the passes   *)
(* keep of a list.  SelectSeq would do for TLC; these definitions can be   *)
(* reasoned about.                                                         *)
(***************************************************************************)
EXTENDS Integers, Sequences

\* The members at the positions in I.
KeepAt(s, I) ==
    LET kept[i \in 0..Len(s)] ==
            IF i = 0 THEN <<>>
            ELSE IF i \in I THEN Append(kept[i - 1], s[i]) ELSE kept[i - 1]
    IN  kept[Len(s)]

Keep(s, T) == KeepAt(s, {i \in 1..Len(s) : s[i] \in T})

\* Each of them once.
KeepFirst(s, T) ==
    KeepAt(s, {i \in 1..Len(s) : s[i] \in T /\ \A j \in 1..(i - 1) : s[j] # s[i]})
=============================================================================
