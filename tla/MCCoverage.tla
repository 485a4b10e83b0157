------------------------------ MODULE MCCoverage ------------------------------
(***************************************************************************)
(* Coverage on every log of at most MaxLines lines over the addresses PCs. *)
(***************************************************************************)
EXTENDS Coverage

CONSTANTS PCs, MaxLines

MCLogs == UNION {[1..n -> PCs] : n \in 0..MaxLines}
=============================================================================
