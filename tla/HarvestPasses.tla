---------------------------- MODULE HarvestPasses ----------------------------
(***************************************************************************)
(* The two passes slotExecuteBlockStart runs over a translated block, loop *)
(* by loop: ExtractPossibleTargetsPass::runOnFunction and                  *)
(* ARMGetThumbBit::runOnFunction.                                          *)
(***************************************************************************)
EXTENDS Harvest

CONSTANTS
    TranslatedFunctions  \* the translated blocks the passes are run on

\* The constants stored are addresses and Thumb bits.
ASSUME FunctionsAssumption == TranslatedFunctions \subseteq Seq(BasicBlock(Nat))

VARIABLES
    fn,             \* the function under analysis
    pass,           \* extract, thumb, done, or aborted by the assertion
    bb,             \* ibb: the next basic block
    ins,            \* iib: the next store of that basic block
    found,          \* register -> the last constant seen in this basic block
    targetPCs,
    implicit,       \* implicitTargetPC, NoTarget while !hasImplicit
    thumbBits

vars == <<fn, pass, bb, ins, found, targetPCs, implicit, thumbBits>>

\* gotConstStoreToPC, ...LR and ...Thumb all false
NothingFound == [r \in {"PC", "LR", "thumb"} |-> <<>>]

Init ==
    /\ fn \in TranslatedFunctions
    /\ pass = "extract"
    /\ bb = 1
    /\ ins = 1
    /\ found = NothingFound
    /\ targetPCs = <<>>
    /\ implicit = NoTarget
    /\ thumbBits = <<>>

\* The registers the running pass looks at.
Watched == IF pass = "extract" THEN {"PC", "LR"} ELSE {"thumb"}

Running == pass \in {"extract", "thumb"}

\* A basic block whose terminator is not a return is skipped.
SkipBasicBlock ==
    /\ Running
    /\ bb <= Len(fn)
    /\ ~fn[bb].ret
    /\ bb' = bb + 1
    /\ UNCHANGED <<fn, pass, ins, found, targetPCs, implicit, thumbBits>>

\* One iteration of the instruction loop.
VisitStore ==
    /\ Running
    /\ bb <= Len(fn)
    /\ fn[bb].ret
    /\ ins <= Len(fn[bb].stores)
    /\ LET s == fn[bb].stores[ins]
       IN  found' = IF s.reg \in Watched /\ s.val # NonConst
                    THEN [found EXCEPT ![s.reg] = <<s.val>>]
                    ELSE found
    /\ ins' = ins + 1
    /\ UNCHANGED <<fn, pass, bb, targetPCs, implicit, thumbBits>>

AtEndOfExit ==
    /\ bb <= Len(fn)
    /\ fn[bb].ret
    /\ ins > Len(fn[bb].stores)

\* Mutant: what was found in an exit is kept for the next one.
PushKeepsFound ==
    /\ pass = "extract"
    /\ AtEndOfExit
    /\ targetPCs' = targetPCs \o found["PC"] \o found["LR"]
    /\ implicit' = IF found["LR"] = <<>> THEN implicit ELSE Head(found["LR"])
    /\ bb' = bb + 1
    /\ ins' = 1
    /\ UNCHANGED <<fn, pass, found, thumbBits>>

\* The end of an exit in ExtractPossibleTargetsPass: push PC, then LR, and
\* assert that no other exit had an LR.
PushTargets ==
    /\ pass = "extract"
    /\ AtEndOfExit
    /\ targetPCs' = targetPCs \o found["PC"] \o found["LR"]
    /\ IF found["LR"] # <<>> /\ implicit # NoTarget
       THEN pass' = "aborted" /\ UNCHANGED <<bb, ins, found, implicit>>
       ELSE /\ implicit' = IF found["LR"] = <<>> THEN implicit ELSE Head(found["LR"])
            /\ bb' = bb + 1
            /\ ins' = 1
            /\ found' = NothingFound
            /\ UNCHANGED pass
    /\ UNCHANGED <<fn, thumbBits>>

\* The end of an exit in ARMGetThumbBit.
PushThumbBit ==
    /\ pass = "thumb"
    /\ AtEndOfExit
    /\ thumbBits' = thumbBits \o found["thumb"]
    /\ bb' = bb + 1
    /\ ins' = 1
    /\ found' = NothingFound
    /\ UNCHANGED <<fn, pass, targetPCs, implicit>>

\* The end of the function: the next pass starts over.
EndOfFunction ==
    /\ Running
    /\ bb > Len(fn)
    /\ pass' = IF pass = "extract" THEN "thumb" ELSE "done"
    /\ bb' = 1
    /\ UNCHANGED <<fn, ins, found, targetPCs, implicit, thumbBits>>

\* getThumbBit() after the loop: the first exit's bit stands for all.
GetThumbBit ==
    CASE thumbBits = <<>> -> "undefined"
      [] OTHER -> IF Head(thumbBits) = 1 THEN "set" ELSE "unset"

Next ==
    \/ SkipBasicBlock
    \/ VisitStore
    \/ PushTargets
    \/ PushThumbBit
    \/ EndOfFunction

Spec == Init /\ [][Next]_vars

-----------------------------------------------------------------------------
\* Every variable keeps its shape; positions stay within the function.
TypeOK ==
    /\ pass \in {"extract", "thumb", "done", "aborted"}
    /\ bb \in 1..(Len(fn) + 1)
    /\ ins \in Nat \ {0}
    /\ bb <= Len(fn) => ins <= Len(fn[bb].stores) + 1
    /\ found \in [{"PC", "LR", "thumb"} -> Seq(Nat)]
    /\ \A r \in {"PC", "LR", "thumb"} : Len(found[r]) <= 1
    /\ targetPCs \in Seq(Nat)
    /\ implicit \in Nat \cup {NoTarget}
    /\ thumbBits \in Seq(Nat)

\* The loops compute the answers Harvest states: all targets in the order
\* PC, LR of each exit, the implicit target and the Thumb bit; the assertion
\* of ExtractPossibleTargetsPass stops exactly the functions with two LRs.
LoopsComputeHarvest ==
    /\ pass = "done" =>
          [end |-> 0, targets |-> targetPCs, implicit |-> implicit,
           thumbBit |-> GetThumbBit, harvestable |-> TRUE] = HarvestBlock(0, fn)
    /\ pass = "aborted" => ~HarvestBlock(0, fn).harvestable

\* The comment above the instruction loop: the target of an exit is what the
\* last store to PC in it stores.  An exit whose last store to PC is not a
\* constant has no known target.
LastStoreToPCDecides ==
    pass = "done" =>
       \A i \in DOMAIN targetPCs :
          \E k \in DOMAIN fn :
             /\ fn[k].ret
             /\ LET toPC == SelectSeq(fn[k].stores, LAMBDA s : s.reg = "PC")
                IN  \/ toPC # <<>> /\ Last(toPC).val = targetPCs[i]
                    \/ LastConst(fn[k], "LR") = <<targetPCs[i]>>
=============================================================================
