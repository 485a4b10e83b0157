------------------------------- MODULE MCDriver -------------------------------
(***************************************************************************)
(* Driver with two addresses, every list of at most two of them on the     *)
(* command line and in the solver's files; one of the addresses may be     *)
(* known to be Thumb.                                                      *)
(***************************************************************************)
EXTENDS Driver

CONSTANT ThumbAddr  \* the address that may be Thumb

MCEntryLists == {<<a>> : a \in Addrs} \cup {<<a, b>> : a, b \in Addrs}

MCTargetLists == {<<>>} \cup MCEntryLists

MCThumbSets == {{}, {ThumbAddr}}
=============================================================================
