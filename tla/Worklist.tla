------------------------------ MODULE Worklist ------------------------------
(***************************************************************************)
(* What a recursive descent over code promises, whatever the order of its  *)
(* work: starting from an entry, explore nodes of a frontier; exploring a  *)
(* node reveals its successors, and those not yet met join the frontier.   *)
(* A node may turn out not to be code and is then discarded.  Nodes that   *)
(* were explored earlier (known) are not met again.  The exploration ends  *)
(* when the frontier is empty, or is cut short.                            *)
(***************************************************************************)
CONSTANTS
    Nodes,
    CodeNodes       \* the nodes that can be explored

VARIABLES
    known,          \* nodes explored before this exploration
    frontier,       \* nodes met and not yet looked at
    explored,
    discarded,      \* nodes looked at that are not code
    edges,          \* <<n, s>> for each explored n and successor s
    status          \* running, finished or aborted

vars == <<known, frontier, explored, discarded, edges, status>>

Init ==
    /\ known \subseteq Nodes
    /\ \E e \in Nodes : frontier = {e}
    /\ explored = {}
    /\ discarded = {}
    /\ edges = {}
    /\ status = "running"

Explore(n, succs) ==
    /\ status = "running"
    /\ n \in frontier
    /\ explored' = explored \cup {n}
    /\ edges' = edges \cup ({n} \X succs)
    /\ frontier' = (frontier \ {n})
                      \cup (succs \ (known \cup explored' \cup discarded))
    /\ UNCHANGED <<known, discarded, status>>

Discard(n) ==
    /\ status = "running"
    /\ n \in frontier \ CodeNodes
    /\ frontier' = frontier \ {n}
    /\ discarded' = discarded \cup {n}
    /\ UNCHANGED <<known, explored, edges, status>>

Finish ==
    /\ status = "running"
    /\ frontier = {}
    /\ status' = "finished"
    /\ UNCHANGED <<known, frontier, explored, discarded, edges>>

\* What is left to look at is lost.
Abort ==
    /\ status # "aborted"
    /\ status' = "aborted"
    /\ frontier' = {}
    /\ UNCHANGED <<known, explored, discarded, edges>>

Next ==
    \/ \E n \in frontier, succs \in SUBSET Nodes : Explore(n, succs)
    \/ \E n \in frontier : Discard(n)
    \/ Finish
    \/ Abort

Spec == Init /\ [][Next]_vars
=============================================================================
