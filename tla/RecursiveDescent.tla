--------------------------- MODULE RecursiveDescent ---------------------------
(***************************************************************************)
(* The S2E plugin RecursiveDescentDisassembler (ARM build): one run of the *)
(* emulator translates the code that can be reached from one entry point.  *)
(*                                                                         *)
(* QEMU translates the block at the CPU's program counter and, before the  *)
(* block runs, calls slotExecuteBlockStart.  The handler never lets the    *)
(* block run: it harvests the block's possible targets, schedules the new  *)
(* ones, takes the most recently scheduled program counter, writes it and  *)
(* its ARM/Thumb mode into the CPU and raises CpuExitException, so QEMU    *)
(* translates that block next.  When nothing is scheduled it saves the     *)
(* module and the Thumb bits, and ends the process.                        *)
(*                                                                         *)
(* The handler runs to completion in one thread.  It is cut into steps at  *)
(* the places where the process may die with different files on disk, and  *)
(* at each iteration of its two loops.                                     *)
(***************************************************************************)
EXTENDS Integers, Sequences, SequencesExt

CONSTANTS
    PCs,            \* the real program counters: addresses with bit 0 clear
    ValidCode,      \* the PCs for which is_valid_code_addr answers true
    Programs,       \* the memory contents: what QEMU translates at a PC in a mode
    JumpTables,     \* the maps mapJumpTableInfo read from jumpTableInfoPath
    IntervalLists,  \* the lists read from initialAlreadyVisited
    ThumbIns,       \* the sets of PCs read from isThumbIn
    Entries,        \* the raw entry addresses, bit 0 set for a Thumb entry
    SizeMod         \* 2^64: the values of size_t, see AsSize

Modes == {"arm", "thumb"}

\* No LR store was found in the block: hasImplicitTarget() is false.
NoTarget == -1

\* What translating one block yields for the plugin: the first PC after the
\* block, the targets and the implicit target ExtractPossibleTargetsPass
\* reports, the answer of ARMGetThumbBit, and whether the first of the two
\* passes gets through its assertion.
Block == [end: Nat, targets: Seq(Nat), implicit: Nat \cup {NoTarget},
          thumbBit: {"set", "unset", "undefined"}, harvestable: BOOLEAN]

\* A jump table: the end of the block it belongs to, the words
\* readMemoryConcrete loads for it (none when 1+idx_stop-idx_start < 1) and
\* the default case.
JumpTable == [bb_end: Nat, loaded: Seq(Nat), default_case_pc: Nat]

Interval == [first: Nat, second: Nat]

\* The address without its Thumb bit.
RealPC(a) == a - (a % 2)

ASSUME PCsAssumption ==
    /\ PCs \subseteq Nat
    /\ \A p \in PCs : p % 2 = 0
    /\ ValidCode \subseteq PCs

ASSUME InputsAssumption ==
    /\ Programs \subseteq [PCs -> [Modes -> Block]]
    /\ \A prg \in Programs, p \in PCs, m \in Modes :
          \A i \in DOMAIN prg[p][m].targets :
             RealPC(prg[p][m].targets[i]) \in PCs
    /\ \A jt \in JumpTables :
          /\ DOMAIN jt \subseteq PCs
          /\ \A p \in DOMAIN jt :
                /\ jt[p] \in JumpTable
                /\ RealPC(jt[p].default_case_pc) \in PCs
                /\ \A i \in DOMAIN jt[p].loaded : RealPC(jt[p].loaded[i]) \in PCs
    /\ \A iv \in IntervalLists :
          /\ iv \in Seq(Interval)
          /\ \A k \in DOMAIN iv : iv[k].first <= iv[k].second
    /\ \A th \in ThumbIns : th \subseteq PCs
    /\ Entries \subseteq Nat
    /\ \A e \in Entries : RealPC(e) \in PCs

ASSUME SizeModAssumption ==
    /\ SizeMod \in Nat
    /\ \A iv \in IntervalLists : Len(iv) < SizeMod

VARIABLES
    prog,               \* the memory contents of this run
    jpt,                \* mapJumpTableInfo
    intervals,          \* m_visitedPCIntervals
    thumbIn,            \* the PCs that isThumbIn listed
    entry,              \* the real PC of the entry point
    ctl,                \* where the process is, see Ctl
    cpu,                \* the emulated CPU: pc and the thumb flag
    visitedPC,          \* the keys of m_visitedPC
    scheduled,          \* m_scheduledPCsMap: absent, or true, or false
    stack,              \* m_scheduledPCsVector, its back last
    isThumb,            \* m_isPCThumb: absent ("unknown"), or the mode
    allBBs,             \* m_allBasicBlocks
    firstTranslation,   \* m_firstTranslation
    todo,               \* allPossiblePCs not yet handled by the schedule loop
    saved,              \* the blocks in translated_bbs.bc
    thumbOut            \* isThumbOut's contents, {} while it is truncated

inputs == <<prog, jpt, intervals, thumbIn, entry>>

vars == <<prog, jpt, intervals, thumbIn, entry, ctl, cpu, visitedPC, scheduled,
          stack, isThumb, allBBs, firstTranslation, todo, saved, thumbOut>>

\* execute: QEMU is about to call the handler for the block at cpu.pc;
\* schedule: in the schedule loop (todo is not empty) or the pick loop;
\* exit: the module is saved; exited: exit(0); crashed: the process died.
Ctl == {"execute", "schedule", "exit", "exited", "crashed"}

\* initialize(), and the CPU as the board left it: bit 0 of the entry
\* address is the CPU's thumb flag and the rest is its program counter.
Init ==
    /\ prog \in Programs
    /\ jpt \in JumpTables
    /\ intervals \in IntervalLists
    /\ thumbIn \in ThumbIns
    /\ \E e \in Entries :
          /\ entry = RealPC(e)
          /\ cpu = [pc |-> RealPC(e),
                    mode |-> IF e % 2 = 1 THEN "thumb" ELSE "arm"]
    /\ ctl = "execute"
    /\ visitedPC = {intervals[k].first : k \in DOMAIN intervals}
    /\ scheduled = [p \in PCs |-> "absent"]
    /\ stack = <<>>
    /\ isThumb = [p \in PCs |-> IF p \in thumbIn THEN "thumb" ELSE "unknown"]
    /\ allBBs = <<>>
    /\ firstTranslation = TRUE
    /\ todo = <<>>
    /\ saved = <<>>
    /\ thumbOut = {}

-----------------------------------------------------------------------------
(***************************************************************************)
(* The list of intervals explored by the earlier runs, sorted by start.    *)
(***************************************************************************)

Covers(interval, pc) == interval.first <= pc /\ pc <= interval.second

\* The scan both searches end with: from index i (counted from 1) up to the
\* first interval that starts after pc.
ScanFrom(iv, i, pc) ==
    \E k \in i..Len(iv) :
       /\ Covers(iv[k], pc)
       /\ \A j \in i..k : iv[j].first <= pc

\* isPCInVisitedIntervalsLinear, which nothing calls.
IsPCInVisitedIntervalsLinear(iv, pc) == ScanFrom(iv, 1, pc)

\* An int compared with a size_t.
AsSize(i) == i % SizeMod

\* isPCInVisitedIntervalsBsearch.  The bisection loop declares a mid of its
\* own, so the one read after the loop still holds -1; "adjust left" leaves a
\* negative idx alone, and the scan starts only if idx < size().
IsPCInVisitedIntervalsBsearch(iv, pc) ==
    LET idx == -1
    IN  /\ iv # <<>>
        /\ AsSize(idx) < Len(iv)
        /\ ScanFrom(iv, idx + 1, pc)

-----------------------------------------------------------------------------
(***************************************************************************)
(* The block under translation and where it may go.                        *)
(***************************************************************************)

HasJumpTable(prg, jt, pc, mode) ==
    pc \in DOMAIN jt /\ jt[pc].bb_end = prg[pc][mode].end

\* allPossiblePCs: the targets of the block, then its jump table's entries.
AllPossiblePCs(prg, jt, pc, mode) ==
    prg[pc][mode].targets \o
       IF HasJumpTable(prg, jt, pc, mode)
       THEN Append(jt[pc].loaded, jt[pc].default_case_pc)
       ELSE <<>>

\* The mode the schedule loop records for target t of a block translated in
\* the given mode: the block's own mode for the implicit target and where the
\* Thumb bit is not known, else the block's one Thumb bit for every target.
TargetMode(block, mode, t) ==
    CASE block.implicit = t \/ block.thumbBit = "undefined" -> mode
      [] OTHER -> IF block.thumbBit = "set" THEN "thumb" ELSE "arm"

\* translatedInThumbMode == thisIsForSureThumbMode
ModeAgrees == isThumb[cpu.pc] \in {"unknown", cpu.mode}

\* The assertions on the way: no second implicit target, a block that is not
\* empty, a jump table with an entry.
AssertionsHold ==
    /\ prog[cpu.pc][cpu.mode].harvestable
    /\ cpu.pc < prog[cpu.pc][cpu.mode].end
    /\ HasJumpTable(prog, jpt, cpu.pc, cpu.mode) => jpt[cpu.pc].loaded # <<>>

-----------------------------------------------------------------------------
(***************************************************************************)
(* The handler slotExecuteBlockStart.                                      *)
(***************************************************************************)

\* Mutant: the flag is not written before the block is translated again.
RetranslateForgetsFlag ==
    /\ ctl = "execute"
    /\ ~ModeAgrees
    /\ UNCHANGED vars

\* The block was translated in the other mode than the one recorded for it:
\* set the CPU's flag and leave, so that QEMU translates it again.
Retranslate ==
    /\ ctl = "execute"
    /\ ~ModeAgrees
    /\ cpu' = [cpu EXCEPT !.mode = isThumb[cpu.pc]]
    /\ UNCHANGED <<inputs, ctl, visitedPC, scheduled, stack, isThumb, allBBs,
                   firstTranslation, todo, saved, thumbOut>>

\* Record the block and collect its possible targets.
TranslateBlock ==
    /\ ctl = "execute"
    /\ ModeAgrees
    /\ AssertionsHold
    /\ allBBs' = Append(allBBs,
                        [start |-> cpu.pc, end |-> prog[cpu.pc][cpu.mode].end,
                         mode |-> cpu.mode, isEntry |-> firstTranslation])
    /\ visitedPC' = visitedPC \cup {cpu.pc}
    /\ firstTranslation' = FALSE
    /\ todo' = AllPossiblePCs(prog, jpt, cpu.pc, cpu.mode)
    /\ ctl' = "schedule"
    /\ UNCHANGED <<inputs, cpu, scheduled, stack, isThumb, saved, thumbOut>>

\* One of the assertions fails: abort().  What the process held is gone.
AssertFails ==
    /\ ctl = "execute"
    /\ ModeAgrees
    /\ ~AssertionsHold
    /\ ctl' = "crashed"
    /\ UNCHANGED <<inputs, cpu, visitedPC, scheduled, stack, isThumb, allBBs,
                   firstTranslation, todo, saved, thumbOut>>

\* Mutant: the visited PCs are not looked up.
ExploreForgetsVisited(pc) ==
    IF scheduled[pc] # "absent" \/ IsPCInVisitedIntervalsBsearch(intervals, pc)
    THEN UNCHANGED <<scheduled, stack>>
    ELSE /\ stack' = Append(stack, pc)
         /\ scheduled' = [scheduled EXCEPT ![pc] = "scheduled"]

\* explorePCLater: find() in the two maps asks for the key, not its value.
ExplorePCLater(pc) ==
    IF \/ pc \in visitedPC
       \/ scheduled[pc] # "absent"
       \/ IsPCInVisitedIntervalsBsearch(intervals, pc)
    THEN UNCHANGED <<scheduled, stack>>
    ELSE /\ stack' = Append(stack, pc)
         /\ scheduled' = [scheduled EXCEPT ![pc] = "scheduled"]

\* Mutant: the block's own mode is recorded for every target.
ScheduleInOwnMode ==
    /\ ctl = "schedule"
    /\ todo # <<>>
    /\ ExplorePCLater(RealPC(Head(todo)))
    /\ isThumb' = [isThumb EXCEPT ![RealPC(Head(todo))] = cpu.mode]
    /\ todo' = Tail(todo)
    /\ UNCHANGED <<inputs, ctl, cpu, visitedPC, allBBs, firstTranslation, saved,
                   thumbOut>>

\* One iteration of the schedule loop; the mode is recorded whether or not
\* the target was scheduled.
ScheduleTarget ==
    /\ ctl = "schedule"
    /\ todo # <<>>
    /\ ExplorePCLater(RealPC(Head(todo)))
    /\ isThumb' = [isThumb EXCEPT ![RealPC(Head(todo))] =
                      TargetMode(prog[cpu.pc][cpu.mode], cpu.mode, Head(todo))]
    /\ todo' = Tail(todo)
    /\ UNCHANGED <<inputs, ctl, cpu, visitedPC, allBBs, firstTranslation, saved,
                   thumbOut>>

\* Mutant: the PC is set with its Thumb bit.
TakeWithThumbBit(next) ==
    /\ stack' = Front(stack)
    /\ scheduled' = [scheduled EXCEPT ![next] = "unscheduled"]
    /\ cpu' = IF isThumb[next] = "thumb" THEN [pc |-> next + 1, mode |-> "thumb"]
              ELSE [pc |-> next, mode |-> "arm"]
    /\ UNCHANGED isThumb

\* Mutant: the CPU's thumb flag is left as it is.
TakeKeepsFlag(next) ==
    /\ stack' = Front(stack)
    /\ scheduled' = [scheduled EXCEPT ![next] = "unscheduled"]
    /\ cpu' = [cpu EXCEPT !.pc = next]
    /\ UNCHANGED isThumb

\* Mutant: the PC stays marked as scheduled.
TakeStaysScheduled(next) ==
    /\ stack' = Front(stack)
    /\ cpu' = [pc |-> next,
               mode |-> IF isThumb[next] = "thumb" THEN "thumb" ELSE "arm"]
    /\ UNCHANGED <<scheduled, isThumb>>

\* getNextRealPC and prepareStateForNextRealPC, which writes the CPU before
\* it asks whether the address is valid; m_isPCThumb[realPC] inserts false
\* for a PC it does not hold.
TakeNextPC(next) ==
    /\ stack' = Front(stack)
    /\ scheduled' = [scheduled EXCEPT ![next] = "unscheduled"]
    /\ cpu' = [pc |-> next,
               mode |-> IF isThumb[next] = "thumb" THEN "thumb" ELSE "arm"]
    /\ isThumb' = [isThumb EXCEPT ![next] = IF @ = "unknown" THEN "arm" ELSE @]

\* An iteration of the pick loop that ends in CpuExitException.
PickValid ==
    /\ ctl = "schedule"
    /\ todo = <<>>
    /\ stack # <<>>
    /\ Last(stack) \in ValidCode
    /\ TakeNextPC(Last(stack))
    /\ ctl' = "execute"
    /\ UNCHANGED <<inputs, visitedPC, allBBs, firstTranslation, todo, saved,
                   thumbOut>>

\* Mutant: the pick loop stops at the first PC outside the memory.
PickInvalidBreaks ==
    /\ ctl = "schedule"
    /\ todo = <<>>
    /\ stack # <<>>
    /\ Last(stack) \notin ValidCode
    /\ stack' = <<>>
    /\ UNCHANGED <<inputs, ctl, cpu, visitedPC, scheduled, isThumb, allBBs,
                   firstTranslation, todo, saved, thumbOut>>

\* Mutant: a PC outside the memory is erased from the map, so that it can be
\* scheduled again.
PickInvalidErases ==
    /\ ctl = "schedule"
    /\ todo = <<>>
    /\ stack # <<>>
    /\ Last(stack) \notin ValidCode
    /\ stack' = Front(stack)
    /\ scheduled' = [scheduled EXCEPT ![Last(stack)] = "absent"]
    /\ UNCHANGED <<inputs, ctl, cpu, visitedPC, isThumb, allBBs,
                   firstTranslation, todo, saved, thumbOut>>

\* An iteration that goes on because the PC points outside the memory.
PickInvalid ==
    /\ ctl = "schedule"
    /\ todo = <<>>
    /\ stack # <<>>
    /\ Last(stack) \notin ValidCode
    /\ TakeNextPC(Last(stack))
    /\ UNCHANGED <<inputs, ctl, visitedPC, allBBs, firstTranslation, todo, saved,
                   thumbOut>>

\* Mutant: the Thumb bits are written first.
SaveThumbBitsFirst ==
    /\ ctl = "schedule"
    /\ todo = <<>>
    /\ stack = <<>>
    /\ thumbOut' = {p \in PCs : isThumb[p] = "thumb"}
    /\ ctl' = "exit"
    /\ UNCHANGED <<inputs, cpu, visitedPC, scheduled, stack, isThumb, allBBs,
                   firstTranslation, todo, saved>>

\* createAndSaveTranslatedBasicBlocksAsAModule
SaveModule ==
    /\ ctl = "schedule"
    /\ todo = <<>>
    /\ stack = <<>>
    /\ saved' = allBBs
    /\ ctl' = "exit"
    /\ UNCHANGED <<inputs, cpu, visitedPC, scheduled, stack, isThumb, allBBs,
                   firstTranslation, todo, thumbOut>>

\* exit(): write the PCs known to be Thumb and end the process.
ExitProcess ==
    /\ ctl = "exit"
    /\ thumbOut' = {p \in PCs : isThumb[p] = "thumb"}
    /\ ctl' = "exited"
    /\ UNCHANGED <<inputs, cpu, visitedPC, scheduled, stack, isThumb, allBBs,
                   firstTranslation, todo, saved>>

\* The emulator dies: a fault while translating, a signal, no memory.
Crash ==
    /\ ctl \in {"execute", "schedule", "exit"}
    /\ ctl' = "crashed"
    /\ UNCHANGED <<inputs, cpu, visitedPC, scheduled, stack, isThumb, allBBs,
                   firstTranslation, todo, saved, thumbOut>>

\* The steps of the plugin itself.
Step ==
    \/ Retranslate
    \/ TranslateBlock
    \/ AssertFails
    \/ ScheduleTarget
    \/ PickValid
    \/ PickInvalid
    \/ SaveModule
    \/ ExitProcess

Next == Step \/ Crash

\* The emulator keeps running until it exits or dies.
Fairness == WF_vars(Step)

Spec == Init /\ [][Next]_vars /\ Fairness

-----------------------------------------------------------------------------
(***************************************************************************)
(* Properties.                                                             *)
(***************************************************************************)

BasicBlock == [start: PCs, end: Nat, mode: Modes, isEntry: BOOLEAN]

\* The shape of every variable; the program counters handled by the plugin
\* have bit 0 clear (PCs), as its assertions demand.
TypeOK ==
    /\ entry \in PCs
    /\ ctl \in Ctl
    /\ cpu \in [pc: PCs, mode: Modes]
    /\ visitedPC \subseteq Nat
    /\ scheduled \in [PCs -> {"absent", "scheduled", "unscheduled"}]
    /\ stack \in Seq(PCs)
    /\ isThumb \in [PCs -> Modes \cup {"unknown"}]
    /\ allBBs \in Seq(BasicBlock)
    /\ firstTranslation \in BOOLEAN
    /\ todo \in Seq(Nat)
    /\ \A i \in DOMAIN todo : RealPC(todo[i]) \in PCs
    /\ saved \in Seq(BasicBlock)
    /\ thumbOut \subseteq PCs

\* The targets found for a block of m_allBasicBlocks.
TargetsOf(prg, jt, b) == AllPossiblePCs(prg, jt, b.start, b.mode)

Starts == {allBBs[i].start : i \in DOMAIN allBBs}

\* Some earlier run explored pc.
AlreadyExplored(iv, pc) == \E k \in DOMAIN iv : Covers(iv[k], pc)

\* Block b found pc as a target and recorded the mode for it.
Found(prg, jt, b, pc, mode) ==
    \E k \in DOMAIN TargetsOf(prg, jt, b) :
       /\ RealPC(TargetsOf(prg, jt, b)[k]) = pc
       /\ TargetMode(prg[b.start][b.mode], b.mode, TargetsOf(prg, jt, b)[k]) = mode

\* No address is translated twice in a run, not even once as ARM and once as
\* Thumb: the later passes find a block by its start alone.
NoDuplicateBlocks ==
    \A i, j \in DOMAIN allBBs : allBBs[i].start = allBBs[j].start => i = j

\* Every block except the entry was found as a target by an earlier block of
\* the run, which recorded the very mode it was translated in; the first
\* block, and no other, is the entry and is named func_entry_point.
DiscoveredInRecordedMode ==
    \A i \in DOMAIN allBBs :
       /\ allBBs[i].isEntry <=> i = 1
       /\ i = 1 => allBBs[i].start = entry
       /\ i # 1 => \E j \in 1..(i - 1) :
                      Found(prog, jpt, allBBs[j], allBBs[i].start, allBBs[i].mode)

\* When the module is saved, each target of each of its blocks is in the
\* module too, was explored by an earlier run, or is not code.
ClosedWhenSaved ==
    ctl \in {"exit", "exited"} =>
       \A i \in DOMAIN saved : \A k \in DOMAIN TargetsOf(prog, jpt, saved[i]) :
          LET pc == RealPC(TargetsOf(prog, jpt, saved[i])[k])
          IN  \/ \E j \in DOMAIN saved : saved[j].start = pc
              \/ AlreadyExplored(intervals, pc)
              \/ pc \notin ValidCode

\* The Thumb bits reach the disk only after the module they belong to, at
\* whatever point the process dies.
ThumbBitsAfterModule == thumbOut # {} => saved # <<>>

\* A block is translated a second time, for the other mode, only while
\* nothing has been recorded: prepareStateForNextRealPC sets the right mode
\* for every block but the entry.
OnlyEntryRetranslated ==
    [][ctl = "execute" /\ ctl' = "execute" => allBBs = <<>>]_vars

\* Unless the emulator dies, the exploration comes to an end.
Termination == <>(ctl \in {"exited", "crashed"})

-----------------------------------------------------------------------------
(***************************************************************************)
(* The inductive invariant behind the safety properties.                   *)
(***************************************************************************)

\* m_visitedPC holds the starts of the earlier intervals and of the blocks.
VisitedInv ==
    visitedPC = {intervals[k].first : k \in DOMAIN intervals} \cup Starts

\* m_scheduledPCsVector and m_scheduledPCsMap agree; what is on the stack is
\* there once and has not been visited.
StackInv ==
    /\ \A i \in DOMAIN stack : /\ scheduled[stack[i]] = "scheduled"
                               /\ stack[i] \notin visitedPC
    /\ \A i, j \in DOMAIN stack : stack[i] = stack[j] => i = j
    /\ \A p \in PCs : scheduled[p] = "scheduled" =>
          \E i \in DOMAIN stack : stack[i] = p

\* A PC taken from the stack became a block, is about to, or is not code.
UnscheduledInv ==
    ctl # "crashed" =>
       \A p \in PCs : scheduled[p] = "unscheduled" =>
          \/ p \in Starts
          \/ p \notin ValidCode
          \/ ctl = "execute" /\ p = cpu.pc

\* Before the first block the CPU is at the entry; later it is at a PC some
\* block found, in the mode recorded for it.
ExecuteInv ==
    ctl = "execute" =>
       /\ cpu.pc \notin Starts
       /\ allBBs = <<>> => cpu.pc = entry /\ stack = <<>>
       /\ allBBs # <<>> =>
             /\ scheduled[cpu.pc] = "unscheduled"
             /\ isThumb[cpu.pc] = cpu.mode
             /\ \E j \in DOMAIN allBBs : Found(prog, jpt, allBBs[j], cpu.pc, cpu.mode)

\* While targets are scheduled the CPU is still at the block they are of.
ScheduleInv ==
    /\ ctl = "schedule" /\ todo # <<>> =>
          \E j \in DOMAIN allBBs :
             /\ allBBs[j].start = cpu.pc
             /\ allBBs[j].mode = cpu.mode
             /\ \A i \in DOMAIN todo : \E k \in DOMAIN TargetsOf(prog, jpt, allBBs[j]) :
                   TargetsOf(prog, jpt, allBBs[j])[k] = todo[i]
    /\ ctl \in {"schedule", "exit", "exited"} => allBBs # <<>>
    /\ ctl \in {"execute", "exit", "exited"} => todo = <<>>
    /\ firstTranslation <=> allBBs = <<>>

\* The mode recorded for a scheduled PC is one that some block found.
ModeInv ==
    \A i \in DOMAIN stack : \E j \in DOMAIN allBBs :
       Found(prog, jpt, allBBs[j], stack[i], isThumb[stack[i]])

\* The PCs that are a block, on the stack, still to be scheduled or being
\* translated, that were explored earlier, or are not code.
Handled ==
    {p \in PCs : \/ p \in Starts
                 \/ \E n \in DOMAIN stack : stack[n] = p
                 \/ \E n \in DOMAIN todo : RealPC(todo[n]) = p
                 \/ ctl = "execute" /\ p = cpu.pc
                 \/ AlreadyExplored(intervals, p)
                 \/ p \notin ValidCode}

\* No target is lost.
NoTargetLost ==
    ctl # "crashed" =>
       \A i \in DOMAIN allBBs : \A k \in DOMAIN TargetsOf(prog, jpt, allBBs[i]) :
          RealPC(TargetsOf(prog, jpt, allBBs[i])[k]) \in Handled

SavedInv ==
    ctl \in {"exit", "exited"} => saved = allBBs /\ stack = <<>>

Inv ==
    /\ VisitedInv
    /\ StackInv
    /\ UnscheduledInv
    /\ ExecuteInv
    /\ ScheduleInv
    /\ ModeInv
    /\ NoTargetLost
    /\ SavedInv
    /\ NoDuplicateBlocks
    /\ DiscoveredInRecordedMode

-----------------------------------------------------------------------------
(***************************************************************************)
(* The plugin implements Worklist.                                         *)
(***************************************************************************)

\* Targets of the block just translated that explorePCLater will accept.
Pending ==
    {p \in {RealPC(todo[i]) : i \in DOMAIN todo} :
        /\ p \notin visitedPC
        /\ scheduled[p] = "absent"
        /\ ~IsPCInVisitedIntervalsBsearch(intervals, p)}

AtBlock == IF ctl = "execute" THEN {cpu.pc} ELSE {}

InitiallyVisited == {intervals[k].first : k \in DOMAIN intervals}

\* The PCs that explorePCLater turns down because of earlier runs.
KnownPCs ==
    {p \in PCs : \/ p \in InitiallyVisited
                 \/ IsPCInVisitedIntervalsBsearch(intervals, p)}

\* The PCs the targets of a block stand for.
TargetPCs(b) == {RealPC(t) : t \in Range(TargetsOf(prog, jpt, b))}

\* What is met and not yet looked at: the block in the CPU, the stack, and
\* the targets that will be pushed on it.
Frontier ==
    IF ctl = "crashed" THEN {} ELSE AtBlock \cup Range(stack) \cup Pending

Discarded == {p \in PCs \ ValidCode : scheduled[p] = "unscheduled"}

Edges == UNION {{b.start} \X TargetPCs(b) : b \in Range(allBBs)}

Status ==
    IF ctl = "crashed" THEN "aborted"
    ELSE IF ctl \in {"exit", "exited"} THEN "finished" ELSE "running"

Exploration == INSTANCE Worklist WITH
    Nodes <- PCs,
    CodeNodes <- ValidCode,
    known <- KnownPCs,
    frontier <- Frontier,
    explored <- Starts,
    discarded <- Discarded,
    edges <- Edges,
    status <- Status

\* Whatever order the stack imposes and wherever the handler's loops stand,
\* the plugin explores a worklist.
ImplementsWorklist == Exploration!Spec

-----------------------------------------------------------------------------
(***************************************************************************)
(* What the comments and the command line's help say and the code does not *)
(* do.                                                                     *)
(***************************************************************************)

\* "biggst smaller or eq than pc", "linear search while we do not surpass
\* pc": a target inside an interval an earlier run explored is not explored
\* again.
SkipsAlreadyExplored ==
    \A i \in DOMAIN allBBs :
       i # 1 => ~IsPCInVisitedIntervalsLinear(intervals, allBBs[i].start)

\* "once extracted, we can reexplore the same pc, so we just unschedule it"
ReexploresExtracted ==
    [][\A p \in PCs :
          (/\ ctl = "schedule"
           /\ todo # <<>> /\ todo' = Tail(todo)
           /\ p = RealPC(Head(todo))
           /\ scheduled[p] = "unscheduled"
           /\ p \notin visitedPC) => p \in Range(stack')]_vars

\* "Json file with a list of entries that we know that are in thumb mode"
KnownThumbIsThumb ==
    \A i \in DOMAIN allBBs :
       allBBs[i].start \in thumbIn => allBBs[i].mode = "thumb"
=============================================================================
