---------------------------- MODULE MCHarvestPasses ----------------------------
(***************************************************************************)
(* HarvestPasses on every function of at most two basic blocks with at     *)
(* most MaxStores stores each.                                             *)
(***************************************************************************)
EXTENDS HarvestPasses

CONSTANTS
    Values,         \* the constants stored; bit 0 of an address does not matter
    MaxBBs,         \* bound on the basic blocks of a function
    MaxStores       \* bound on the stores of a basic block

BasicBlocks ==
    [ret: BOOLEAN, stores: UNION {[1..n -> Store(Values)] : n \in 0..MaxStores}]

MCTranslatedFunctions ==
    UNION {[1..n -> BasicBlocks] : n \in 1..MaxBBs}
=============================================================================
