------------------------------- MODULE Coverage -------------------------------
(***************************************************************************)
(* CoverageStatusQemu of pymodules/coverage.py: the addresses translated   *)
(* so far, as a list of intervals read from the logs QEMU writes.  The     *)
(* driver asks it which entry points are still worth a run, and hands the  *)
(* list to the next run of the translator.                                 *)
(*                                                                         *)
(* A log is the sequence of the program counters at the start of its       *)
(* lines, in the order QEMU translated them.                               *)
(***************************************************************************)
EXTENDS Integers, Sequences, SequencesExt, SeqFilter

CONSTANTS
    Logs,           \* the logs a run may leave
    MaxLogs         \* bound on the number of logs read

ASSUME LogsAssumption == Logs \subseteq Seq(Nat) /\ MaxLogs \in Nat

None == -1

VARIABLES
    intervals,      \* self._intervals
    phase,          \* idle, scan, sort or merge
    log,            \* the log being read
    pos,            \* the next line
    interval_start,
    pc_prev,        \* None before the first line
    found,          \* the intervals of this log
    ret,            \* the result of the merge so far
    logged,         \* history: every PC of every log read to its end
    runs            \* history: the number of logs

vars == <<intervals, phase, log, pos, interval_start, pc_prev, found, ret,
          logged, runs>>

Init ==
    /\ intervals = <<>>
    /\ phase = "idle"
    /\ log = <<>>
    /\ pos = 1
    /\ interval_start = None
    /\ pc_prev = None
    /\ found = <<>>
    /\ ret = <<>>
    /\ logged = {}
    /\ runs = 0

\* extend_with_qemu_log
ExtendWithQemuLog ==
    /\ phase = "idle"
    /\ runs < MaxLogs
    /\ log' \in Logs
    /\ phase' = "scan"
    /\ pos' = 1
    /\ interval_start' = None
    /\ pc_prev' = None
    /\ found' = <<>>
    /\ runs' = runs + 1
    /\ UNCHANGED <<intervals, ret, logged>>

\* The first line starts the first interval.
FirstPC ==
    /\ phase = "scan"
    /\ pos <= Len(log)
    /\ pc_prev = None
    /\ interval_start' = log[pos]
    /\ pc_prev' = log[pos]
    /\ pos' = pos + 1
    /\ UNCHANGED <<intervals, phase, log, found, ret, logged, runs>>

\* Mutant: instructions up to eight bytes apart are joined.
FollowsLoosely(pc, prev) == pc \in prev..(prev + 8)

\* The instruction follows the previous one, or is translated again.
Follows(pc, prev) == pc \in {prev + 4, prev + 2, prev}

ExpandInterval ==
    /\ phase = "scan"
    /\ pos <= Len(log)
    /\ pc_prev # None
    /\ Follows(log[pos], pc_prev)
    /\ pc_prev' = log[pos]
    /\ pos' = pos + 1
    /\ UNCHANGED <<intervals, phase, log, interval_start, found, ret, logged, runs>>

NewInterval ==
    /\ phase = "scan"
    /\ pos <= Len(log)
    /\ pc_prev # None
    /\ ~Follows(log[pos], pc_prev)
    /\ found' = Append(found, <<interval_start, pc_prev>>)
    /\ interval_start' = log[pos]
    /\ pc_prev' = log[pos]
    /\ pos' = pos + 1
    /\ UNCHANGED <<intervals, phase, log, ret, logged, runs>>

\* Mutant: the interval that is open at the end of the log is dropped.
LastIsDropped ==
    /\ phase = "scan"
    /\ pos > Len(log)
    /\ phase' = "sort"
    /\ UNCHANGED <<intervals, log, pos, interval_start, pc_prev, found, ret, logged,
                   runs>>

\* Append the last interval and keep the meaningful ones.
LastInterval ==
    /\ phase = "scan"
    /\ pos > Len(log)
    /\ found' = Keep(IF pc_prev = None THEN found
                     ELSE Append(found, <<interval_start, pc_prev>>),
                     {i \in Nat \X Nat : i[1] <= i[2]})
    /\ phase' = "sort"
    /\ UNCHANGED <<intervals, log, pos, interval_start, pc_prev, ret, logged, runs>>

\* Mutant: the intervals of a log are left in the order of the log.
SortNothing ==
    /\ phase = "sort"
    /\ ret' = <<>>
    /\ phase' = "merge"
    /\ UNCHANGED <<intervals, log, pos, interval_start, pc_prev, found, logged, runs>>

\* sorted(): a stable sort by the start addresses alone.
SortIntervals ==
    /\ phase = "sort"
    /\ \E p \in Bijection(DOMAIN found, DOMAIN found) :
          /\ \A i, j \in DOMAIN found :
                i < j => \/ found[p[i]][1] < found[p[j]][1]
                         \/ found[p[i]][1] = found[p[j]][1] /\ p[i] < p[j]
          /\ found' = [i \in DOMAIN found |-> found[p[i]]]
    /\ ret' = <<>>
    /\ phase' = "merge"
    /\ UNCHANGED <<intervals, log, pos, interval_start, pc_prev, logged, runs>>

\* Python's < on pairs.
PairLess(a, b) == a[1] < b[1] \/ (a[1] = b[1] /\ a[2] < b[2])

\* One iteration of _merge_sorted_lists; self._intervals is popped in place.
MergeStep ==
    /\ phase = "merge"
    /\ intervals # <<>>
    /\ found # <<>>
    /\ IF PairLess(Head(intervals), Head(found))
       THEN /\ ret' = Append(ret, Head(intervals))
            /\ intervals' = Tail(intervals)
            /\ UNCHANGED found
       ELSE /\ ret' = Append(ret, Head(found))
            /\ found' = Tail(found)
            /\ UNCHANGED intervals
    /\ UNCHANGED <<phase, log, pos, interval_start, pc_prev, logged, runs>>

\* return ret + a + b
EndMerge ==
    /\ phase = "merge"
    /\ intervals = <<>> \/ found = <<>>
    /\ intervals' = ret \o intervals \o found
    /\ found' = <<>>
    /\ ret' = <<>>
    /\ logged' = logged \cup {log[i] : i \in DOMAIN log}
    /\ phase' = "idle"
    /\ UNCHANGED <<log, pos, interval_start, pc_prev, runs>>

Next ==
    \/ ExtendWithQemuLog
    \/ FirstPC
    \/ ExpandInterval
    \/ NewInterval
    \/ LastInterval
    \/ SortIntervals
    \/ MergeStep
    \/ EndMerge

Spec == Init /\ [][Next]_vars

\* visited(pc)
Visited(pc) == \E k \in DOMAIN intervals : intervals[k][1] <= pc /\ pc <= intervals[k][2]

-----------------------------------------------------------------------------
Pairs == Nat \X Nat

\* The shape of every variable.
TypeOK ==
    /\ intervals \in Seq(Pairs)
    /\ phase \in {"idle", "scan", "sort", "merge"}
    /\ log \in Seq(Nat)
    /\ pos \in 1..(Len(log) + 1)
    /\ interval_start \in Nat \cup {None}
    /\ pc_prev \in Nat \cup {None}
    /\ found \in Seq(Pairs)
    /\ ret \in Seq(Pairs)
    /\ logged \subseteq Nat
    /\ runs \in 0..MaxLogs

SortedByStart(s) == \A i, j \in DOMAIN s : i < j => s[i][1] <= s[j][1]

\* "sorted list of intervals (sorted by the start address)": the translator's
\* search stops at the first interval that starts after a PC and relies on it.
IntervalsSorted == phase = "idle" => SortedByStart(intervals)

\* Every address QEMU ever logged is visited, through all later merges.
LoggedIsVisited == phase = "idle" => \A pc \in logged : Visited(pc)

\* Nothing else is: an interval only bridges the bytes of an instruction, so
\* no entry point is skipped that lies farther than three bytes behind a
\* logged instruction.
VisitedIsLogged ==
    phase = "idle" =>
       \A k \in DOMAIN intervals :
          \A pc \in intervals[k][1]..intervals[k][2] :
             \E d \in 0..3 : pc - d \in logged
=============================================================================
