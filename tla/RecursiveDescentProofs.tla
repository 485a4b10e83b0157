----------------------- MODULE RecursiveDescentProofs -----------------------
(***************************************************************************)
(* Theorems about RecursiveDescent, for every memory, jump table, list of  *)
(* intervals and set of entries.                                           *)
(***************************************************************************)
EXTENDS RecursiveDescent, SequenceTheorems, TLAPS

\* The inputs stay what Init chose.
InputsOK ==
    /\ prog \in Programs
    /\ jpt \in JumpTables
    /\ intervals \in IntervalLists
    /\ thumbIn \in ThumbIns

TypeInv == InputsOK /\ TypeOK

-----------------------------------------------------------------------------
(***************************************************************************)
(* The operators.                                                          *)
(***************************************************************************)

\* The block QEMU translates at a PC has the fields the handler reads, and
\* its targets are addresses.
LEMMA BlockType ==
    ASSUME NEW prg \in Programs, NEW p \in PCs, NEW m \in Modes
    PROVE  /\ prg[p][m] \in Block
           /\ \A i \in DOMAIN prg[p][m].targets :
                 RealPC(prg[p][m].targets[i]) \in PCs
  <1>1. prg \in [PCs -> [Modes -> Block]]
    BY InputsAssumption
  <1> QED
    BY <1>1, InputsAssumption

\* allPossiblePCs is a list of addresses whose real PCs are in PCs.
LEMMA AllPossiblePCsType ==
    ASSUME NEW prg \in Programs, NEW jt \in JumpTables,
           NEW p \in PCs, NEW m \in Modes
    PROVE  /\ AllPossiblePCs(prg, jt, p, m) \in Seq(Nat)
           /\ \A i \in DOMAIN AllPossiblePCs(prg, jt, p, m) :
                 RealPC(AllPossiblePCs(prg, jt, p, m)[i]) \in PCs
  <1> DEFINE tg == prg[p][m].targets
  <1>1. tg \in Seq(Nat) /\ \A i \in DOMAIN tg : RealPC(tg[i]) \in PCs
    BY BlockType DEF Block
  <1>2. CASE HasJumpTable(prg, jt, p, m)
    <2> DEFINE ld == jt[p].loaded
               df == jt[p].default_case_pc
               more == Append(ld, df)
    <2>1. p \in DOMAIN jt
      BY <1>2 DEF HasJumpTable
    <2>2. /\ ld \in Seq(Nat) /\ df \in Nat /\ RealPC(df) \in PCs
          /\ \A i \in DOMAIN ld : RealPC(ld[i]) \in PCs
      BY <2>1, InputsAssumption DEF JumpTable
    <2>3. more \in Seq(Nat) /\ \A i \in DOMAIN more : RealPC(more[i]) \in PCs
      BY <2>2
    <2>4. AllPossiblePCs(prg, jt, p, m) = tg \o more
      BY <1>2 DEF AllPossiblePCs
    <2> HIDE DEF tg, more
    <2>5. /\ tg \o more \in Seq(Nat)
          /\ \A i \in DOMAIN (tg \o more) : RealPC((tg \o more)[i]) \in PCs
      BY <1>1, <2>3
    <2> QED
      BY <2>4, <2>5
  <1>3. CASE ~HasJumpTable(prg, jt, p, m)
    <2>1. AllPossiblePCs(prg, jt, p, m) = tg \o <<>>
      BY <1>3 DEF AllPossiblePCs
    <2> HIDE DEF tg
    <2>2. tg \o <<>> = tg
      BY <1>1
    <2> QED
      BY <1>1, <2>1, <2>2
  <1> QED
    BY <1>2, <1>3

\* The schedule loop records ARM or Thumb, nothing else.
LEMMA TargetModeType ==
    ASSUME NEW block, NEW m \in Modes, NEW t
    PROVE  TargetMode(block, m, t) \in Modes
  BY DEF TargetMode, Modes

-----------------------------------------------------------------------------
(***************************************************************************)
(* Type correctness.                                                       *)
(***************************************************************************)

\* initialize() leaves every variable well typed.
LEMMA InitTypeInv == Init => TypeInv
  <1> SUFFICES ASSUME Init PROVE TypeInv
    OBVIOUS
  <1>1. InputsOK
    BY DEF Init, InputsOK
  <1>2. entry \in PCs /\ cpu \in [pc: PCs, mode: Modes]
    <2>1. PICK e \in Entries :
             /\ entry = RealPC(e)
             /\ cpu = [pc |-> RealPC(e),
                       mode |-> IF e % 2 = 1 THEN "thumb" ELSE "arm"]
      BY DEF Init
    <2>2. RealPC(e) \in PCs
      BY InputsAssumption
    <2>3. (IF e % 2 = 1 THEN "thumb" ELSE "arm") \in Modes
      BY DEF Modes
    <2> HIDE DEF Modes
    <2> QED
      BY <2>1, <2>2, <2>3
  <1>3. visitedPC \subseteq Nat
    <2>1. visitedPC = {intervals[k].first : k \in DOMAIN intervals}
      BY DEF Init
    <2>2. intervals \in Seq(Interval)
      BY <1>1, InputsAssumption DEF InputsOK
    <2>3. \A k \in DOMAIN intervals : intervals[k] \in Interval
      BY <2>2
    <2>4. \A k \in DOMAIN intervals : intervals[k].first \in Nat
      BY <2>3 DEF Interval
    <2> QED
      BY <2>1, <2>4
  <1>4. isThumb \in [PCs -> Modes \cup {"unknown"}]
    BY DEF Init, Modes
  <1> QED
    BY <1>1, <1>2, <1>3, <1>4 DEF Init, TypeInv, TypeOK, Ctl

\* ScheduleTarget handles a PC of PCs and leaves the rest of its list.
LEMMA ScheduleTargetFacts ==
    ASSUME TypeInv, ScheduleTarget
    PROVE  /\ Head(todo) \in Nat
           /\ RealPC(Head(todo)) \in PCs
           /\ todo' \in Seq(Nat)
           /\ \A i \in DOMAIN todo' : RealPC(todo'[i]) \in PCs
  <1>1. /\ todo \in Seq(Nat) /\ todo # <<>> /\ todo' = Tail(todo)
        /\ \A i \in DOMAIN todo : RealPC(todo[i]) \in PCs
    BY DEF TypeInv, TypeOK, ScheduleTarget
  <1>2. 1 \in DOMAIN todo /\ Head(todo) = todo[1]
    BY <1>1
  <1>3. \A i \in DOMAIN Tail(todo) : i + 1 \in DOMAIN todo /\ Tail(todo)[i] = todo[i + 1]
    BY <1>1
  <1> QED
    BY <1>1, <1>2, <1>3

\* A prefix of a sequence.
LEMMA PrefixFacts ==
    ASSUME NEW S, NEW s \in Seq(S), NEW n \in Nat, n <= Len(s)
    PROVE  /\ SubSeq(s, 1, n) \in Seq(S)
           /\ Len(SubSeq(s, 1, n)) = n
           /\ \A i \in 1..n : SubSeq(s, 1, n)[i] = s[i]
  <1>1. SubSeq(s, 1, n) \in Seq(S)
    OBVIOUS
  <1>2. Len(SubSeq(s, 1, n)) = n
    OBVIOUS
  <1>3. \A i \in 1..n : SubSeq(s, 1, n)[i] = s[i]
    OBVIOUS
  <1> QED
    BY <1>1, <1>2, <1>3

\* The back of a stack that is not empty is a PC; popping leaves a stack.
LEMMA PopFacts ==
    ASSUME NEW s \in Seq(PCs), s # <<>>
    PROVE  /\ Last(s) \in PCs
           /\ Last(s) = s[Len(s)]
           /\ Len(s) \in Nat \ {0}
           /\ Front(s) \in Seq(PCs)
           /\ Len(Front(s)) = Len(s) - 1
           /\ \A i \in 1..(Len(s) - 1) : Front(s)[i] = s[i]
  <1>1. Len(s) \in Nat \ {0} /\ Len(s) - 1 \in Nat /\ Len(s) - 1 <= Len(s)
    BY EmptySeq
  <1>2. Last(s) \in PCs /\ Last(s) = s[Len(s)]
    BY <1>1 DEF Last
  <1>3. Front(s) = SubSeq(s, 1, Len(s) - 1)
    BY DEF Front
  <1>4. PICK n \in Nat : n = Len(s) - 1 /\ n <= Len(s)
    BY <1>1
  <1>5. /\ SubSeq(s, 1, n) \in Seq(PCs)
        /\ Len(SubSeq(s, 1, n)) = n
        /\ \A i \in 1..n : SubSeq(s, 1, n)[i] = s[i]
    BY <1>4, PrefixFacts
  <1> QED
    BY <1>1, <1>2, <1>3, <1>4, <1>5

\* explorePCLater either refuses the PC, for one of its three reasons, or
\* pushes it.
LEMMA ExplorePCLaterCases ==
    ASSUME NEW pc, ExplorePCLater(pc)
    PROVE  \/ /\ stack' = stack /\ scheduled' = scheduled
              /\ \/ pc \in visitedPC
                 \/ scheduled[pc] # "absent"
                 \/ IsPCInVisitedIntervalsBsearch(intervals, pc)
           \/ /\ stack' = Append(stack, pc)
              /\ scheduled' = [scheduled EXCEPT ![pc] = "scheduled"]
              /\ pc \notin visitedPC
              /\ scheduled[pc] = "absent"
              /\ ~IsPCInVisitedIntervalsBsearch(intervals, pc)
  BY Zenon DEF ExplorePCLater

\* Every step of the handler, and a crash, keeps the types.
LEMMA NextTypeInv == TypeInv /\ [Next]_vars => TypeInv'
  <1> SUFFICES ASSUME TypeInv, [Next]_vars PROVE TypeInv'
    OBVIOUS
  <1> USE DEF TypeInv, InputsOK, TypeOK, inputs, Ctl
  <1>1. CASE Retranslate
    BY <1>1 DEF Retranslate, ModeAgrees
  <1>2. CASE TranslateBlock
    <2>1. prog[cpu.pc][cpu.mode].end \in Nat
      BY BlockType DEF Block
    <2>2. allBBs' \in Seq(BasicBlock)
      BY <1>2, <2>1 DEF TranslateBlock, BasicBlock
    <2>3. /\ todo' \in Seq(Nat)
          /\ \A i \in DOMAIN todo' : RealPC(todo'[i]) \in PCs
      BY <1>2, AllPossiblePCsType DEF TranslateBlock
    <2>4. visitedPC' \subseteq Nat
      BY <1>2, PCsAssumption DEF TranslateBlock
    <2> QED
      BY <1>2, <2>2, <2>3, <2>4 DEF TranslateBlock
  <1>3. CASE AssertFails
    BY <1>3 DEF AssertFails
  <1>4. CASE ScheduleTarget
    <2> DEFINE pc == RealPC(Head(todo))
               md == TargetMode(prog[cpu.pc][cpu.mode], cpu.mode, Head(todo))
    <2>1. pc \in PCs /\ todo' \in Seq(Nat)
          /\ \A i \in DOMAIN todo' : RealPC(todo'[i]) \in PCs
      BY <1>4, ScheduleTargetFacts
    <2>2. md \in Modes
      BY TargetModeType
    <2>3. isThumb' = [isThumb EXCEPT ![pc] = md] /\ ExplorePCLater(pc)
      BY <1>4 DEF ScheduleTarget
    <2> HIDE DEF pc, md
    <2>4. isThumb' \in [PCs -> Modes \cup {"unknown"}]
      BY <2>1, <2>2, <2>3
    <2>5. /\ stack' \in Seq(PCs)
          /\ scheduled' \in [PCs -> {"absent", "scheduled", "unscheduled"}]
      <3>1. CASE stack' = stack /\ scheduled' = scheduled
        BY <3>1
      <3>2. CASE /\ stack' = Append(stack, pc)
                 /\ scheduled' = [scheduled EXCEPT ![pc] = "scheduled"]
        BY <2>1, <3>2
      <3> QED
        BY <2>3, <3>1, <3>2, ExplorePCLaterCases
    <2> QED
      BY <1>4, <2>1, <2>4, <2>5 DEF ScheduleTarget
  <1>5. ASSUME stack # <<>>, TakeNextPC(Last(stack))
        PROVE  /\ stack' \in Seq(PCs)
               /\ scheduled' \in [PCs -> {"absent", "scheduled", "unscheduled"}]
               /\ cpu' \in [pc: PCs, mode: Modes]
               /\ isThumb' \in [PCs -> Modes \cup {"unknown"}]
    <2>1. Last(stack) \in PCs /\ Front(stack) \in Seq(PCs)
      BY <1>5, PopFacts
    <2> QED
      BY <1>5, <2>1 DEF TakeNextPC, Modes
  <1>6. CASE PickValid
    BY <1>5, <1>6 DEF PickValid
  <1>7. CASE PickInvalid
    BY <1>5, <1>7 DEF PickInvalid
  <1>8. CASE SaveModule
    BY <1>8 DEF SaveModule
  <1>9. CASE ExitProcess
    BY <1>9 DEF ExitProcess
  <1>10. CASE Crash
    BY <1>10 DEF Crash
  <1>11. CASE UNCHANGED vars
    BY <1>11 DEF vars
  <1> QED
    BY <1>1, <1>2, <1>3, <1>4, <1>6, <1>7, <1>8, <1>9, <1>10, <1>11 DEF Next, Step

\* Every variable of the plugin keeps its type: no address with bit 0 set is
\* ever scheduled, which the assertions of initialize and
\* prepareStateForNextRealPC demand.
THEOREM TypeCorrect == Spec => []TypeOK
  <1>1. TypeInv => TypeOK
    BY DEF TypeInv
  <1> QED
    BY <1>1, InitTypeInv, NextTypeInv, PTL DEF Spec

-----------------------------------------------------------------------------
(***************************************************************************)
(* The safety properties.                                                  *)
(***************************************************************************)

\* No step changes what the run was given.
LEMMA InputsUnchanged ==
    ASSUME [Next]_vars
    PROVE  /\ prog' = prog /\ jpt' = jpt /\ intervals' = intervals
           /\ thumbIn' = thumbIn /\ entry' = entry
  BY DEF Next, Step, vars, inputs, Retranslate, TranslateBlock, AssertFails,
         ScheduleTarget, PickValid, PickInvalid, SaveModule, ExitProcess, Crash

\* isPCInVisitedIntervalsBsearch answers no, for every list and every PC: its
\* index is still -1 when it is compared, as a size_t, with the list's size.
THEOREM BsearchNeverFinds ==
    \A iv \in IntervalLists : \A pc \in PCs : ~IsPCInVisitedIntervalsBsearch(iv, pc)
  <1> SUFFICES ASSUME NEW iv \in IntervalLists, NEW pc \in PCs
               PROVE  ~IsPCInVisitedIntervalsBsearch(iv, pc)
    OBVIOUS
  <1>1. Len(iv) \in Nat /\ Len(iv) < SizeMod /\ SizeMod \in Nat
    BY InputsAssumption, SizeModAssumption
  <1>2. (-1) % SizeMod = SizeMod - 1
    BY <1>1
  <1>3. ~((-1) % SizeMod < Len(iv))
    BY <1>1, <1>2
  <1> QED
    BY <1>3 DEF IsPCInVisitedIntervalsBsearch, AsSize

\* The start of an earlier interval was explored by an earlier run.
LEMMA StartIsExplored ==
    ASSUME InputsOK, NEW k \in DOMAIN intervals, intervals[k].first \in PCs
    PROVE  AlreadyExplored(intervals, intervals[k].first)
  <1>1. intervals[k].first <= intervals[k].second
    BY InputsAssumption DEF InputsOK
  <1>2. intervals[k].first \in Nat
    BY PCsAssumption
  <1> QED
    BY <1>1, <1>2 DEF AlreadyExplored, Covers

\* The invariant holds when the emulator starts.
LEMMA InitInv == Init => Inv
  <1> SUFFICES ASSUME Init PROVE Inv
    OBVIOUS
  <1>1. allBBs = <<>> /\ stack = <<>> /\ todo = <<>> /\ DOMAIN <<>> = {}
    BY DEF Init
  <1>2. Starts = {}
    BY <1>1 DEF Starts
  <1>3. VisitedInv
    BY <1>2 DEF Init, VisitedInv
  <1>4. StackInv /\ UnscheduledInv
    BY <1>1 DEF Init, StackInv, UnscheduledInv
  <1>5. ExecuteInv /\ ScheduleInv
    BY <1>1, <1>2 DEF Init, ExecuteInv, ScheduleInv
  <1>6. ModeInv /\ NoTargetLost /\ SavedInv
    BY <1>1 DEF Init, ModeInv, NoTargetLost, SavedInv
  <1>7. NoDuplicateBlocks /\ DiscoveredInRecordedMode
    BY <1>1 DEF NoDuplicateBlocks, DiscoveredInRecordedMode
  <1> QED
    BY <1>3, <1>4, <1>5, <1>6, <1>7 DEF Inv

\* The steps that leave the blocks, the stack and the list of targets alone.
LEMMA QuietStepInv ==
    ASSUME TypeInv, Inv,
           \/ Retranslate
           \/ AssertFails
           \/ ExitProcess
           \/ Crash
           \/ UNCHANGED vars
    PROVE  Inv'
  <1> USE DEF Retranslate, AssertFails, ExitProcess, Crash, vars, inputs
  <1>1. /\ prog' = prog /\ jpt' = jpt /\ intervals' = intervals /\ entry' = entry
        /\ visitedPC' = visitedPC /\ scheduled' = scheduled /\ stack' = stack
        /\ isThumb' = isThumb /\ allBBs' = allBBs /\ todo' = todo
        /\ saved' = saved /\ firstTranslation' = firstTranslation
    OBVIOUS
  <1>2. Starts' = Starts
    BY <1>1 DEF Starts
  <1>3. VisitedInv' /\ StackInv' /\ NoDuplicateBlocks'
    BY <1>1, <1>2 DEF Inv, VisitedInv, StackInv, NoDuplicateBlocks
  <1>4. ModeInv' /\ DiscoveredInRecordedMode'
    BY <1>1 DEF Inv, ModeInv, DiscoveredInRecordedMode
  <1>5. CASE Retranslate
    <2>1. allBBs = <<>>
      BY <1>5 DEF Inv, ExecuteInv, ModeAgrees
    <2>2. cpu'.pc = cpu.pc /\ ctl = "execute" /\ ctl' = "execute"
      BY <1>5 DEF TypeInv, TypeOK
    <2>3. UnscheduledInv' /\ ExecuteInv'
      BY <1>1, <1>2, <2>1, <2>2 DEF Inv, UnscheduledInv, ExecuteInv
    <2>4. ScheduleInv' /\ SavedInv'
      BY <1>1, <2>2 DEF Inv, ScheduleInv, SavedInv
    <2>5. NoTargetLost'
      BY <1>1, <2>1 DEF NoTargetLost
    <2> QED
      BY <1>3, <1>4, <2>3, <2>4, <2>5 DEF Inv
  <1>6. CASE AssertFails \/ Crash
    <2>1. ctl' = "crashed"
      BY <1>6
    <2> QED
      BY <1>1, <1>3, <1>4, <2>1
      DEF Inv, UnscheduledInv, ExecuteInv, ScheduleInv, NoTargetLost, SavedInv
  <1>7. CASE ExitProcess
    <2>1. ctl = "exit" /\ ctl' = "exited"
      BY <1>7
    <2>2. UnscheduledInv' /\ ExecuteInv' /\ ScheduleInv' /\ SavedInv'
      BY <1>1, <1>2, <2>1
      DEF Inv, UnscheduledInv, ExecuteInv, ScheduleInv, SavedInv
    <2>3. NoTargetLost'
      BY <1>1, <1>2, <2>1 DEF Inv, NoTargetLost, Handled
    <2> QED
      BY <1>3, <1>4, <2>2, <2>3 DEF Inv
  <1>8. CASE UNCHANGED vars
    <2>1. ctl' = ctl /\ cpu' = cpu
      BY <1>8
    <2>2. UnscheduledInv' /\ ExecuteInv' /\ ScheduleInv' /\ SavedInv'
      BY <1>1, <1>2, <2>1
      DEF Inv, UnscheduledInv, ExecuteInv, ScheduleInv, SavedInv
    <2>3. NoTargetLost'
      BY <1>1, <1>2, <2>1 DEF Inv, NoTargetLost, Handled
    <2> QED
      BY <1>3, <1>4, <2>2, <2>3 DEF Inv
  <1> QED
    BY <1>5, <1>6, <1>7, <1>8

\* Appending to m_allBasicBlocks.
LEMMA AppendBlock ==
    ASSUME TypeInv, NEW b \in BasicBlock, allBBs' = Append(allBBs, b)
    PROVE  /\ Len(allBBs) \in Nat
           /\ DOMAIN allBBs = 1..Len(allBBs)
           /\ DOMAIN allBBs' = 1..(Len(allBBs) + 1)
           /\ \A i \in DOMAIN allBBs : allBBs'[i] = allBBs[i]
           /\ allBBs'[Len(allBBs) + 1] = b
           /\ Starts' = Starts \cup {b.start}
           /\ allBBs' # <<>>
  <1>1. allBBs \in Seq(BasicBlock)
    BY DEF TypeInv, TypeOK
  <1>2. /\ Len(allBBs) \in Nat
        /\ DOMAIN allBBs = 1..Len(allBBs)
        /\ DOMAIN allBBs' = 1..(Len(allBBs) + 1)
        /\ \A i \in DOMAIN allBBs : allBBs'[i] = allBBs[i]
        /\ allBBs'[Len(allBBs) + 1] = b
        /\ allBBs' # <<>>
    BY <1>1
  <1>3. Starts' = Starts \cup {b.start}
    BY <1>2 DEF Starts
  <1> QED
    BY <1>2, <1>3

\* Recording a block: its targets are all still to be scheduled.
LEMMA TranslateBlockInv ==
    ASSUME TypeInv, Inv, TranslateBlock
    PROVE  Inv'
  <1> DEFINE b == [start |-> cpu.pc, end |-> prog[cpu.pc][cpu.mode].end,
                   mode |-> cpu.mode, isEntry |-> firstTranslation]
             n == Len(allBBs) + 1
  <1>1. /\ prog' = prog /\ jpt' = jpt /\ intervals' = intervals /\ entry' = entry
        /\ cpu' = cpu /\ scheduled' = scheduled /\ stack' = stack
        /\ isThumb' = isThumb /\ saved' = saved /\ firstTranslation' = FALSE
        /\ ctl = "execute" /\ ctl' = "schedule"
        /\ visitedPC' = visitedPC \cup {cpu.pc}
        /\ allBBs' = Append(allBBs, b)
        /\ todo' = AllPossiblePCs(prog, jpt, cpu.pc, cpu.mode)
    BY DEF TranslateBlock, inputs
  <1>2. b \in BasicBlock
    <2>1. prog[cpu.pc][cpu.mode].end \in Nat
      BY BlockType DEF TypeInv, InputsOK, TypeOK, Block
    <2> QED
      BY <2>1 DEF TypeInv, TypeOK, BasicBlock
  <1>3. b.start = cpu.pc /\ b.mode = cpu.mode /\ b.isEntry = firstTranslation
    OBVIOUS
  <1> HIDE DEF b
  <1>4. /\ n \in Nat /\ n \notin DOMAIN allBBs
        /\ DOMAIN allBBs = 1..(n - 1) /\ DOMAIN allBBs' = 1..n
        /\ \A i \in DOMAIN allBBs : allBBs'[i] = allBBs[i]
        /\ allBBs'[n] = b
        /\ Starts' = Starts \cup {cpu.pc}
        /\ allBBs' # <<>>
        /\ (allBBs = <<>>) <=> n = 1
    <2>1. allBBs \in Seq(BasicBlock)
      BY DEF TypeInv, TypeOK
    <2>2. (allBBs = <<>>) <=> Len(allBBs) = 0
      BY <2>1
    <2> QED
      BY <1>1, <1>2, <1>3, <2>2, AppendBlock
  <1> HIDE DEF n
  <1>5. VisitedInv'
    BY <1>1, <1>4 DEF Inv, VisitedInv
  <1>6. StackInv'
    <2>1. \A i \in DOMAIN stack : stack[i] # cpu.pc
      <3>1. CASE allBBs = <<>>
        BY <1>1, <3>1 DEF Inv, ExecuteInv
      <3>2. CASE allBBs # <<>>
        BY <1>1, <3>2 DEF Inv, ExecuteInv, StackInv
      <3> QED
        BY <3>1, <3>2
    <2> QED
      BY <1>1, <2>1 DEF Inv, StackInv
  <1>7. UnscheduledInv'
    BY <1>1, <1>4 DEF Inv, UnscheduledInv
  <1>8. ExecuteInv' /\ SavedInv'
    BY <1>1 DEF ExecuteInv, SavedInv
  <1>9. ScheduleInv'
    <2>1. n \in DOMAIN allBBs'
      BY <1>4
    <2>2. allBBs'[n].start = cpu'.pc /\ allBBs'[n].mode = cpu'.mode
      BY <1>1, <1>3, <1>4
    <2>3. TargetsOf(prog', jpt', allBBs'[n]) = todo'
      BY <1>1, <1>3, <1>4 DEF TargetsOf
    <2> QED
      BY <1>1, <1>4, <2>1, <2>2, <2>3 DEF ScheduleInv
  <1>10. ModeInv'
    BY <1>1, <1>4 DEF Inv, ModeInv
  <1>11. NoTargetLost'
    <2>1. Handled \subseteq Handled'
      <3>1. todo = <<>>
        BY <1>1 DEF Inv, ScheduleInv
      <3> QED
        BY <1>1, <1>4, <3>1 DEF Handled
    <2>2. \A k \in DOMAIN todo' : RealPC(todo'[k]) \in Handled'
      <3>1. \A k \in DOMAIN todo' : RealPC(todo'[k]) \in PCs
        BY <1>1, AllPossiblePCsType DEF TypeInv, InputsOK, TypeOK
      <3> QED
        BY <3>1 DEF Handled
    <2>3. TargetsOf(prog, jpt, allBBs'[n]) = todo'
      BY <1>1, <1>3, <1>4 DEF TargetsOf
    <2>4. ASSUME NEW i \in DOMAIN allBBs',
                 NEW k \in DOMAIN TargetsOf(prog, jpt, allBBs'[i])
          PROVE  RealPC(TargetsOf(prog, jpt, allBBs'[i])[k]) \in Handled'
      <3>1. CASE i = n
        BY <2>2, <2>3, <3>1
      <3>2. CASE i # n
        BY <1>1, <1>4, <2>1, <3>2 DEF Inv, NoTargetLost
      <3> QED
        BY <3>1, <3>2
    <2> QED
      BY <1>1, <2>4 DEF NoTargetLost
  <1>12. NoDuplicateBlocks'
    <2>1. \A i \in DOMAIN allBBs : allBBs[i].start # cpu.pc
      BY <1>1 DEF Inv, ExecuteInv, Starts
    <2> QED
      BY <1>3, <1>4, <2>1 DEF Inv, NoDuplicateBlocks
  <1>13. DiscoveredInRecordedMode'
    <2> SUFFICES ASSUME NEW i \in DOMAIN allBBs'
                 PROVE  /\ allBBs'[i].isEntry <=> i = 1
                        /\ i = 1 => allBBs'[i].start = entry
                        /\ i # 1 => \E j \in 1..(i - 1) :
                              Found(prog, jpt, allBBs'[j], allBBs'[i].start,
                                    allBBs'[i].mode)
      BY <1>1 DEF DiscoveredInRecordedMode
    <2>1. CASE i # n
      <3>1. i \in DOMAIN allBBs /\ 1..(i - 1) \subseteq DOMAIN allBBs
        BY <1>4, <2>1
      <3> QED
        BY <1>1, <1>4, <3>1 DEF Inv, DiscoveredInRecordedMode
    <2>2. CASE i = n /\ allBBs = <<>>
      <3>1. i = 1 /\ firstTranslation /\ cpu.pc = entry
        BY <1>1, <1>4, <2>2 DEF Inv, ScheduleInv, ExecuteInv
      <3> QED
        BY <1>1, <1>3, <1>4, <2>2, <3>1
    <2>3. CASE i = n /\ allBBs # <<>>
      <3>1. i # 1 /\ ~firstTranslation
        BY <1>4, <2>3 DEF Inv, ScheduleInv
      <3>2. \E j \in DOMAIN allBBs : Found(prog, jpt, allBBs[j], cpu.pc, cpu.mode)
        BY <1>1, <2>3 DEF Inv, ExecuteInv
      <3>3. \E j \in 1..(i - 1) :
               Found(prog, jpt, allBBs'[j], allBBs'[i].start, allBBs'[i].mode)
        BY <1>3, <1>4, <2>3, <3>2
      <3> QED
        BY <1>3, <1>4, <2>3, <3>1, <3>3
    <2> QED
      BY <2>1, <2>2, <2>3
  <1> QED
    BY <1>5, <1>6, <1>7, <1>8, <1>9, <1>10, <1>11, <1>12, <1>13 DEF Inv

\* An iteration of the schedule loop hands its target to the stack, or finds
\* it already handled; the mode it records is one its block found.
LEMMA ScheduleTargetInv ==
    ASSUME TypeInv, Inv, ScheduleTarget
    PROVE  Inv'
  <1> DEFINE t == Head(todo)
             pc == RealPC(t)
             md == TargetMode(prog[cpu.pc][cpu.mode], cpu.mode, t)
  <1>1. /\ prog' = prog /\ jpt' = jpt /\ intervals' = intervals /\ entry' = entry
        /\ cpu' = cpu /\ visitedPC' = visitedPC /\ allBBs' = allBBs
        /\ saved' = saved /\ firstTranslation' = firstTranslation
        /\ ctl = "schedule" /\ ctl' = "schedule"
        /\ todo # <<>> /\ todo' = Tail(todo)
        /\ isThumb' = [isThumb EXCEPT ![pc] = md]
        /\ ExplorePCLater(pc)
    BY DEF ScheduleTarget, inputs
  <1>2. /\ pc \in PCs /\ t \in Nat
        /\ stack \in Seq(PCs) /\ todo \in Seq(Nat)
        /\ isThumb \in [PCs -> Modes \cup {"unknown"}]
        /\ scheduled \in [PCs -> {"absent", "scheduled", "unscheduled"}]
    BY ScheduleTargetFacts DEF TypeInv, TypeOK
  <1>3. /\ \A i \in DOMAIN todo' : \E j \in DOMAIN todo : todo'[i] = todo[j]
        /\ \A j \in DOMAIN todo : todo[j] = t \/ \E i \in DOMAIN todo' : todo'[i] = todo[j]
        /\ \E j \in DOMAIN todo : todo[j] = t
    <2>1. Len(todo) \in Nat \ {0} /\ DOMAIN todo = 1..Len(todo)
      BY <1>1, <1>2
    <2>2. DOMAIN todo' = 1..(Len(todo) - 1) /\ \A i \in DOMAIN todo' : todo'[i] = todo[i + 1]
      BY <1>1, <1>2, <2>1
    <2>3. \A j \in DOMAIN todo : j = 1 \/ j - 1 \in DOMAIN todo'
      BY <2>1, <2>2
    <2>4. todo[1] = t
      BY <1>2
    <2>5. \A j \in DOMAIN todo :
             todo[j] = t \/ \E i \in DOMAIN todo' : todo'[i] = todo[j]
      <3> SUFFICES ASSUME NEW j \in DOMAIN todo, j # 1
                   PROVE  \E i \in DOMAIN todo' : todo'[i] = todo[j]
        BY <2>4
      <3> QED
        BY <2>1, <2>2, <2>3
    <2>6. \A i \in DOMAIN todo' : \E j \in DOMAIN todo : todo'[i] = todo[j]
      <3> SUFFICES ASSUME NEW i \in DOMAIN todo'
                   PROVE  \E j \in DOMAIN todo : todo'[i] = todo[j]
        OBVIOUS
      <3>1. i + 1 \in DOMAIN todo
        BY <2>1, <2>2
      <3> QED
        BY <2>2, <3>1
    <2>7. 1 \in DOMAIN todo
      BY <2>1
    <2> QED
      BY <2>4, <2>5, <2>6, <2>7, Zenon
  <1>4. PICK b \in DOMAIN allBBs :
           /\ allBBs[b].start = cpu.pc
           /\ allBBs[b].mode = cpu.mode
           /\ \A i \in DOMAIN todo : \E k \in DOMAIN TargetsOf(prog, jpt, allBBs[b]) :
                 TargetsOf(prog, jpt, allBBs[b])[k] = todo[i]
    BY <1>1 DEF Inv, ScheduleInv
  <1>5. Found(prog, jpt, allBBs[b], pc, md)
    BY <1>3, <1>4 DEF Found
  <1> HIDE DEF t, pc, md
  <1>6. Starts' = Starts
    BY <1>1 DEF Starts
  <1>7. VisitedInv' /\ NoDuplicateBlocks' /\ DiscoveredInRecordedMode'
    BY <1>1, <1>6 DEF Inv, VisitedInv, NoDuplicateBlocks, DiscoveredInRecordedMode
  <1>8. ExecuteInv' /\ SavedInv'
    BY <1>1 DEF ExecuteInv, SavedInv
  <1>9. ScheduleInv'
    BY <1>1, <1>3, <1>4 DEF Inv, ScheduleInv
  <1>10. CASE /\ stack' = stack /\ scheduled' = scheduled
              /\ \/ pc \in visitedPC
                 \/ scheduled[pc] # "absent"
                 \/ IsPCInVisitedIntervalsBsearch(intervals, pc)
    <2>1. StackInv' /\ UnscheduledInv'
      BY <1>1, <1>6, <1>10 DEF Inv, StackInv, UnscheduledInv
    <2>2. ModeInv'
      BY <1>1, <1>2, <1>5, <1>10 DEF Inv, ModeInv
    <2>3. \/ pc \in Starts
          \/ \E i \in DOMAIN stack : stack[i] = pc
          \/ AlreadyExplored(intervals, pc)
          \/ pc \notin ValidCode
      <3>1. CASE pc \in visitedPC
        BY <1>2, <3>1, StartIsExplored DEF Inv, VisitedInv, TypeInv
      <3>2. CASE scheduled[pc] = "scheduled"
        BY <1>2, <3>2 DEF Inv, StackInv
      <3>3. CASE scheduled[pc] = "unscheduled"
        BY <1>1, <1>2, <3>3 DEF Inv, UnscheduledInv
      <3>4. ~IsPCInVisitedIntervalsBsearch(intervals, pc)
        BY <1>2, BsearchNeverFinds DEF TypeInv, InputsOK
      <3> QED
        BY <1>2, <1>10, <3>1, <3>2, <3>3, <3>4
    <2>4. Handled \subseteq Handled'
      BY <1>1, <1>3, <1>6, <1>10, <2>3 DEF Handled, pc
    <2>5. NoTargetLost'
      BY <1>1, <2>4 DEF Inv, NoTargetLost
    <2> QED
      BY <1>7, <1>8, <1>9, <2>1, <2>2, <2>5 DEF Inv
  <1>11. CASE /\ stack' = Append(stack, pc)
              /\ scheduled' = [scheduled EXCEPT ![pc] = "scheduled"]
              /\ pc \notin visitedPC
              /\ scheduled[pc] = "absent"
    <2> DEFINE n == Len(stack) + 1
    <2>1. /\ n \in Nat /\ n \notin DOMAIN stack
          /\ DOMAIN stack' = DOMAIN stack \cup {n}
          /\ \A i \in DOMAIN stack : stack'[i] = stack[i] /\ stack[i] \in PCs
          /\ stack'[n] = pc
      BY <1>2, <1>11
    <2> HIDE DEF n
    <2>2. StackInv'
      BY <1>1, <1>2, <1>11, <2>1 DEF Inv, StackInv
    <2>3. UnscheduledInv'
      BY <1>1, <1>2, <1>6, <1>11 DEF Inv, UnscheduledInv
    <2>4. ModeInv'
      BY <1>1, <1>2, <1>5, <2>1 DEF Inv, ModeInv
    <2>5. Handled \subseteq Handled'
      BY <1>1, <1>3, <1>6, <2>1 DEF Handled, pc
    <2>6. NoTargetLost'
      BY <1>1, <2>5 DEF Inv, NoTargetLost
    <2> QED
      BY <1>7, <1>8, <1>9, <2>2, <2>3, <2>4, <2>6 DEF Inv
  <1> QED
    BY <1>1, <1>10, <1>11, ExplorePCLaterCases

\* An iteration of the pick loop moves the back of the stack to the CPU.
LEMMA PickInv ==
    ASSUME TypeInv, Inv, PickValid \/ PickInvalid
    PROVE  Inv'
  <1> DEFINE next == Last(stack)
             n == Len(stack)
  <1>1. /\ prog' = prog /\ jpt' = jpt /\ intervals' = intervals /\ entry' = entry
        /\ visitedPC' = visitedPC /\ allBBs' = allBBs /\ saved' = saved
        /\ firstTranslation' = firstTranslation /\ todo' = todo /\ todo = <<>>
        /\ ctl = "schedule" /\ stack # <<>>
        /\ stack' = Front(stack)
        /\ scheduled' = [scheduled EXCEPT ![next] = "unscheduled"]
        /\ cpu' = [pc |-> next,
                   mode |-> IF isThumb[next] = "thumb" THEN "thumb" ELSE "arm"]
        /\ isThumb' = [isThumb EXCEPT ![next] = IF @ = "unknown" THEN "arm" ELSE @]
        /\ \/ next \in ValidCode /\ ctl' = "execute"
           \/ next \notin ValidCode /\ ctl' = "schedule"
    BY DEF PickValid, PickInvalid, TakeNextPC, inputs
  <1>2. /\ stack \in Seq(PCs)
        /\ isThumb \in [PCs -> Modes \cup {"unknown"}]
        /\ scheduled \in [PCs -> {"absent", "scheduled", "unscheduled"}]
    BY DEF TypeInv, TypeOK
  <1>3. /\ n \in Nat \ {0} /\ DOMAIN stack = 1..n /\ next = stack[n] /\ next \in PCs
        /\ DOMAIN stack' = 1..(n - 1)
        /\ \A i \in DOMAIN stack' : i \in DOMAIN stack /\ stack'[i] = stack[i]
    <2>1. stack' \in Seq(PCs) /\ Len(stack') = n - 1 /\ n \in Nat \ {0}
          /\ next = stack[n] /\ next \in PCs
          /\ \A i \in 1..(n - 1) : stack'[i] = stack[i]
      BY <1>1, <1>2, PopFacts
    <2> QED
      BY <1>2, <2>1
  <1> HIDE DEF next, n
  <1>4. /\ \A i \in DOMAIN stack' : stack[i] # next /\ stack[i] \in PCs
        /\ \A i \in DOMAIN stack : stack[i] = next \/ i \in DOMAIN stack'
        /\ n \in DOMAIN stack
    <2>1. n \in DOMAIN stack /\ \A i \in DOMAIN stack' : i # n
      BY <1>3
    <2>2. \A i \in DOMAIN stack : i = n \/ i \in DOMAIN stack'
      BY <1>3
    <2> QED
      BY <1>2, <1>3, <2>1, <2>2 DEF Inv, StackInv
  <1>5. Starts' = Starts
    BY <1>1 DEF Starts
  <1>6. next \notin visitedPC /\ next \notin Starts
    BY <1>3, <1>4 DEF Inv, StackInv, VisitedInv
  <1>7. PICK b \in DOMAIN allBBs : Found(prog, jpt, allBBs[b], next, isThumb[next])
    BY <1>3, <1>4 DEF Inv, ModeInv
  <1>8. isThumb[next] \in Modes
    <2>1. allBBs[b].mode \in Modes
      <3>1. allBBs \in Seq(BasicBlock)
        BY DEF TypeInv, TypeOK
      <3>2. allBBs[b] \in BasicBlock
        BY <3>1
      <3> QED
        BY <3>2 DEF BasicBlock
    <2>2. PICK k \in DOMAIN TargetsOf(prog, jpt, allBBs[b]) :
             TargetMode(prog[allBBs[b].start][allBBs[b].mode], allBBs[b].mode,
                        TargetsOf(prog, jpt, allBBs[b])[k]) = isThumb[next]
      BY <1>7 DEF Found
    <2> QED
      BY <2>1, <2>2, TargetModeType
  <1>9. isThumb' = isThumb /\ cpu'.pc = next /\ cpu'.mode = isThumb[next]
    BY <1>1, <1>2, <1>3, <1>8 DEF Modes
  <1>10. VisitedInv' /\ NoDuplicateBlocks' /\ DiscoveredInRecordedMode'
    BY <1>1, <1>5 DEF Inv, VisitedInv, NoDuplicateBlocks, DiscoveredInRecordedMode
  <1>11. StackInv'
    BY <1>1, <1>2, <1>3, <1>4 DEF Inv, StackInv
  <1>12. UnscheduledInv'
    BY <1>1, <1>2, <1>3, <1>5, <1>9 DEF Inv, UnscheduledInv
  <1>13. allBBs # <<>>
    BY <1>1 DEF Inv, ScheduleInv
  <1>14. ExecuteInv'
    BY <1>1, <1>2, <1>3, <1>5, <1>6, <1>7, <1>9, <1>13 DEF ExecuteInv
  <1>15. ScheduleInv' /\ SavedInv'
    BY <1>1 DEF Inv, ScheduleInv, SavedInv
  <1>16. ModeInv'
    BY <1>1, <1>3, <1>9 DEF Inv, ModeInv
  <1>17. NoTargetLost'
    <2>1. Handled \subseteq Handled'
      BY <1>1, <1>3, <1>4, <1>5, <1>9 DEF Handled
    <2> QED
      BY <1>1, <2>1 DEF Inv, NoTargetLost
  <1> QED
    BY <1>10, <1>11, <1>12, <1>14, <1>15, <1>16, <1>17 DEF Inv

\* The module is saved when nothing is left to schedule.
LEMMA SaveModuleInv ==
    ASSUME TypeInv, Inv, SaveModule
    PROVE  Inv'
  <1>1. /\ prog' = prog /\ jpt' = jpt /\ intervals' = intervals /\ entry' = entry
        /\ visitedPC' = visitedPC /\ scheduled' = scheduled /\ stack' = stack
        /\ isThumb' = isThumb /\ allBBs' = allBBs /\ todo' = todo /\ cpu' = cpu
        /\ firstTranslation' = firstTranslation /\ saved' = allBBs
        /\ ctl = "schedule" /\ ctl' = "exit" /\ todo = <<>> /\ stack = <<>>
    BY DEF SaveModule, inputs
  <1>2. Starts' = Starts
    BY <1>1 DEF Starts
  <1>3. VisitedInv' /\ StackInv' /\ UnscheduledInv' /\ ExecuteInv' /\ SavedInv'
    BY <1>1, <1>2
    DEF Inv, VisitedInv, StackInv, UnscheduledInv, ExecuteInv, SavedInv
  <1>4. ScheduleInv' /\ ModeInv' /\ NoDuplicateBlocks' /\ DiscoveredInRecordedMode'
    BY <1>1 DEF Inv, ScheduleInv, ModeInv, NoDuplicateBlocks, DiscoveredInRecordedMode
  <1>5. NoTargetLost'
    BY <1>1, <1>2 DEF Inv, NoTargetLost, Handled
  <1> QED
    BY <1>3, <1>4, <1>5 DEF Inv

\* Every step keeps the invariant.
LEMMA NextInv == TypeInv /\ Inv /\ [Next]_vars => Inv'
  BY QuietStepInv, TranslateBlockInv, ScheduleTargetInv, PickInv, SaveModuleInv
  DEF Next, Step

\* TypeInv and Inv hold in every reachable state.
THEOREM InductiveInvariant == Spec => [](TypeInv /\ Inv)
  <1>1. Init => TypeInv /\ Inv
    BY InitTypeInv, InitInv
  <1>2. (TypeInv /\ Inv) /\ [Next]_vars => (TypeInv /\ Inv)'
    BY NextTypeInv, NextInv
  <1> QED
    BY <1>1, <1>2, PTL DEF Spec

\* A run translates no address twice, whatever the code and the modes in
\* which its blocks refer to each other.
THEOREM BlocksDistinct == Spec => []NoDuplicateBlocks
  <1>1. TypeInv /\ Inv => NoDuplicateBlocks
    BY DEF Inv
  <1> QED
    BY <1>1, InductiveInvariant, PTL

\* Every block but the entry is there because an earlier block has it as a
\* target, and is in the mode that block recorded.
THEOREM BlocksDiscovered == Spec => []DiscoveredInRecordedMode
  <1>1. TypeInv /\ Inv => DiscoveredInRecordedMode
    BY DEF Inv
  <1> QED
    BY <1>1, InductiveInvariant, PTL

\* The saved module is closed under targets, up to what earlier runs explored
\* and what is not code.
THEOREM ModuleClosed == Spec => []ClosedWhenSaved
  <1>1. TypeInv /\ Inv => ClosedWhenSaved
    <2> SUFFICES ASSUME TypeInv, Inv, ctl \in {"exit", "exited"},
                        NEW i \in DOMAIN saved,
                        NEW k \in DOMAIN TargetsOf(prog, jpt, saved[i])
                 PROVE  LET pc == RealPC(TargetsOf(prog, jpt, saved[i])[k])
                        IN  \/ \E j \in DOMAIN saved : saved[j].start = pc
                            \/ AlreadyExplored(intervals, pc)
                            \/ pc \notin ValidCode
      BY DEF ClosedWhenSaved
    <2>1. saved = allBBs /\ stack = <<>> /\ todo = <<>> /\ ctl # "execute"
      BY DEF Inv, SavedInv, ScheduleInv
    <2>2. RealPC(TargetsOf(prog, jpt, saved[i])[k]) \in Handled
      BY <2>1 DEF Inv, NoTargetLost
    <2> QED
      BY <2>1, <2>2 DEF Handled, Starts
  <1> QED
    BY <1>1, InductiveInvariant, PTL

\* Only the entry block is ever translated a second time.
THEOREM RetranslatesOnlyEntry == Spec => OnlyEntryRetranslated
  <1>1. (TypeInv /\ Inv) /\ [Next]_vars
           => [ctl = "execute" /\ ctl' = "execute" => allBBs = <<>>]_vars
    <2> SUFFICES ASSUME Inv, Next, ctl = "execute", ctl' = "execute"
                 PROVE  allBBs = <<>>
      OBVIOUS
    <2>1. Retranslate
      BY DEF Next, Step, TranslateBlock, AssertFails, ScheduleTarget, PickValid,
             PickInvalid, SaveModule, ExitProcess, Crash
    <2> QED
      BY <2>1 DEF Retranslate, ModeAgrees, Inv, ExecuteInv
  <1> QED
    BY <1>1, InductiveInvariant, PTL DEF Spec, OnlyEntryRetranslated

\* Thumb bits are on the disk only once the process has exited, and then the
\* module they belong to is there too, with a block in it.
THEOREM ThumbBitsBelongToModule == Spec => []ThumbBitsAfterModule
  <1> DEFINE OnlyAfterExit == thumbOut # {} => ctl = "exited"
  <1>1. Init => OnlyAfterExit
    BY DEF Init
  <1>2. OnlyAfterExit /\ [Next]_vars => OnlyAfterExit'
    BY DEF Next, Step, vars, Retranslate, TranslateBlock, AssertFails, ScheduleTarget,
           PickValid, PickInvalid, SaveModule, ExitProcess, Crash
  <1>3. (TypeInv /\ Inv) /\ OnlyAfterExit => ThumbBitsAfterModule
    BY DEF Inv, SavedInv, ScheduleInv, ThumbBitsAfterModule
  <1> QED
    BY <1>1, <1>2, <1>3, InductiveInvariant, PTL DEF Spec

-----------------------------------------------------------------------------
(***************************************************************************)
(* RecursiveDescent implements Worklist: its initial states are initial    *)
(* states of the exploration, and each of its steps is one of the          *)
(* exploration's steps or leaves the exploration as it is.                 *)
(***************************************************************************)

\* The exploration starts at the entry, with nothing explored.
LEMMA InitRefines == ASSUME Init, TypeInv PROVE Exploration!Init
  <1>1. KnownPCs \subseteq PCs
    BY DEF KnownPCs
  <1>2. Frontier = {entry} /\ entry \in PCs
    BY DEF Frontier, Init, AtBlock, Pending, Range, TypeInv, TypeOK
  <1>3. Starts = {} /\ Discarded = {} /\ Edges = {}
    BY DEF Init, Starts, Discarded, Edges, Range
  <1>4. Status = "running"
    BY DEF Init, Status
  <1> QED
    BY <1>1, <1>2, <1>3, <1>4 DEF Exploration!Init

\* The inputs alone decide what earlier runs explored.
LEMMA SameKnown ==
    ASSUME intervals' = intervals
    PROVE  /\ KnownPCs' = KnownPCs
           /\ \A p : IsPCInVisitedIntervalsBsearch(intervals, p)'
                        = IsPCInVisitedIntervalsBsearch(intervals, p)
  BY DEF KnownPCs, InitiallyVisited, IsPCInVisitedIntervalsBsearch, ScanFrom, AsSize, Covers

\* The blocks alone decide what is explored and where it leads.
LEMMA SameBlocks ==
    ASSUME allBBs' = allBBs, prog' = prog, jpt' = jpt
    PROVE  Starts' = Starts /\ Edges' = Edges
  BY DEF Starts, Edges, TargetPCs, TargetsOf, AllPossiblePCs, HasJumpTable

\* Translating a block again for the other mode shows nothing.
LEMMA RetranslateRefines ==
    ASSUME TypeInv, Inv, Retranslate
    PROVE  UNCHANGED Exploration!vars
  <1>1. /\ intervals' = intervals /\ prog' = prog /\ jpt' = jpt /\ allBBs' = allBBs
        /\ scheduled' = scheduled /\ stack' = stack /\ todo' = todo /\ ctl' = ctl
        /\ visitedPC' = visitedPC /\ cpu'.pc = cpu.pc
    BY DEF Retranslate, inputs, TypeInv, TypeOK
  <1>2. Pending' = Pending
    BY <1>1, SameKnown DEF Pending
  <1>3. Frontier' = Frontier /\ Discarded' = Discarded /\ Status' = Status
    BY <1>1, <1>2 DEF Frontier, AtBlock, Discarded, Status
  <1> QED
    BY <1>1, <1>3, SameKnown, SameBlocks DEF Exploration!vars

\* Recording a block explores it: its targets that are new join the frontier,
\* those that wait on the stack are in it, and those taken from the stack
\* were explored or discarded.
LEMMA TranslateBlockRefines ==
    ASSUME TypeInv, Inv, TranslateBlock
    PROVE  \E n \in Frontier, succs \in SUBSET PCs : Exploration!Explore(n, succs)
  <1> DEFINE b == [start |-> cpu.pc, end |-> prog[cpu.pc][cpu.mode].end,
                   mode |-> cpu.mode, isEntry |-> firstTranslation]
             tg == AllPossiblePCs(prog, jpt, cpu.pc, cpu.mode)
             succs == TargetPCs(b)
             n == Len(allBBs) + 1
  <1>1. /\ intervals' = intervals /\ prog' = prog /\ jpt' = jpt
        /\ scheduled' = scheduled /\ stack' = stack
        /\ ctl = "execute" /\ ctl' = "schedule"
        /\ allBBs' = Append(allBBs, b) /\ todo' = tg
        /\ visitedPC' = visitedPC \cup {cpu.pc}
    BY DEF TranslateBlock, inputs
  <1>2. /\ cpu.pc \in PCs /\ cpu.mode \in Modes /\ allBBs \in Seq(BasicBlock)
        /\ prog \in Programs /\ jpt \in JumpTables
        /\ scheduled \in [PCs -> {"absent", "scheduled", "unscheduled"}]
    BY DEF TypeInv, TypeOK, InputsOK
  <1>3. b.start = cpu.pc /\ b.mode = cpu.mode
    OBVIOUS
  <1>4. TargetsOf(prog, jpt, b) = tg
    BY <1>3 DEF TargetsOf
  <1>5. tg \in Seq(Nat) /\ \A i \in DOMAIN tg : RealPC(tg[i]) \in PCs
    BY <1>2, AllPossiblePCsType
  <1> HIDE DEF b, tg
  <1>6. succs = {RealPC(tg[i]) : i \in DOMAIN tg} /\ succs \subseteq PCs
    BY <1>4, <1>5 DEF TargetPCs, Range
  <1>7. /\ DOMAIN allBBs' = DOMAIN allBBs \cup {n} /\ allBBs'[n] = b
        /\ \A i \in DOMAIN allBBs : allBBs'[i] = allBBs[i]
    BY <1>1, <1>2
  <1>8. Range(allBBs') = Range(allBBs) \cup {b}
    BY <1>7 DEF Range
  <1>9. Starts' = Starts \cup {cpu.pc}
    BY <1>3, <1>7 DEF Starts
  <1>10. Edges' = Edges \cup ({cpu.pc} \X succs)
    <2>1. \A c : TargetPCs(c)' = TargetPCs(c)
      BY <1>1 DEF TargetPCs, TargetsOf, AllPossiblePCs, HasJumpTable
    <2>2. Edges' = UNION {{c.start} \X TargetPCs(c) : c \in Range(allBBs) \cup {b}}
      BY <1>8, <2>1 DEF Edges
    <2> QED
      BY <1>3, <2>2 DEF Edges
  <1> HIDE DEF succs
  <1>11. todo = <<>>
    BY <1>1 DEF Inv, ScheduleInv
  <1>12. Pending = {} /\ Frontier = {cpu.pc} \cup Range(stack)
    BY <1>1, <1>11 DEF Pending, Frontier, AtBlock
  <1>13. Frontier' = Range(stack) \cup Pending'
    BY <1>1 DEF Frontier, AtBlock, Range
  <1>14. cpu.pc \notin Range(stack)
    <2>1. CASE allBBs = <<>>
      BY <1>1, <2>1 DEF Inv, ExecuteInv, Range
    <2>2. CASE allBBs # <<>>
      BY <1>1, <2>2 DEF Inv, ExecuteInv, StackInv, Range
    <2> QED
      BY <2>1, <2>2
  <1>15. visitedPC' = InitiallyVisited \cup Starts'
    BY <1>1, <1>9 DEF Inv, VisitedInv, InitiallyVisited
  <1>16. Pending' = {p \in succs : /\ p \notin visitedPC'
                                  /\ scheduled[p] = "absent"
                                  /\ ~IsPCInVisitedIntervalsBsearch(intervals, p)}
    BY <1>1, <1>6, SameKnown DEF Pending
  <1>17. ASSUME NEW p \in succs \ (KnownPCs \cup Starts' \cup Discarded)
         PROVE  p \in Range(stack) \cup Pending'
    <2>1. p \in PCs /\ p \notin visitedPC' /\ ~IsPCInVisitedIntervalsBsearch(intervals, p)
      BY <1>6, <1>15 DEF KnownPCs
    <2>2. CASE scheduled[p] = "absent"
      BY <1>16, <2>1, <2>2
    <2>3. CASE scheduled[p] = "scheduled"
      BY <2>1, <2>3 DEF Inv, StackInv, Range
    <2>4. CASE scheduled[p] = "unscheduled"
      BY <1>1, <1>9, <2>1, <2>4 DEF Inv, UnscheduledInv, Discarded
    <2> QED
      BY <1>2, <2>1, <2>2, <2>3, <2>4
  <1>18. ASSUME NEW p \in Pending'
         PROVE  p \in succs \ (KnownPCs \cup Starts' \cup Discarded)
    BY <1>15, <1>16 DEF KnownPCs, Discarded
  <1>19. Frontier' = (Frontier \ {cpu.pc})
                        \cup (succs \ (KnownPCs \cup Starts' \cup Discarded))
    BY <1>12, <1>13, <1>14, <1>17, <1>18
  <1>20. /\ KnownPCs' = KnownPCs /\ Discarded' = Discarded
         /\ Status = "running" /\ Status' = "running"
    BY <1>1, SameKnown DEF Discarded, Status
  <1>21. cpu.pc \in Frontier /\ Exploration!Explore(cpu.pc, succs)
    BY <1>9, <1>10, <1>12, <1>19, <1>20 DEF Exploration!Explore
  <1> QED
    BY <1>6, <1>21

\* An assertion that fails, or a crash, cuts the exploration short.
LEMMA DeathRefines ==
    ASSUME TypeInv, AssertFails \/ Crash
    PROVE  Exploration!Abort
  <1>1. /\ intervals' = intervals /\ prog' = prog /\ jpt' = jpt /\ allBBs' = allBBs
        /\ scheduled' = scheduled /\ ctl # "crashed" /\ ctl' = "crashed"
    BY DEF AssertFails, Crash, inputs
  <1>2. Status # "aborted" /\ Status' = "aborted" /\ Frontier' = {}
    BY <1>1 DEF Status, Frontier
  <1>3. Discarded' = Discarded
    BY <1>1 DEF Discarded
  <1> QED
    BY <1>1, <1>2, <1>3, SameKnown, SameBlocks DEF Exploration!Abort

\* Scheduling a target moves it from the targets that wait to the stack, with
\* all its repetitions, or drops one that never was in the frontier.
LEMMA ScheduleTargetRefines ==
    ASSUME TypeInv, Inv, ScheduleTarget
    PROVE  UNCHANGED Exploration!vars
  <1> DEFINE pc == RealPC(Head(todo))
             waits(p) == /\ p \notin visitedPC
                         /\ scheduled[p] = "absent"
                         /\ ~IsPCInVisitedIntervalsBsearch(intervals, p)
             rest == {RealPC(todo'[i]) : i \in DOMAIN todo'}
  <1>1. /\ intervals' = intervals /\ prog' = prog /\ jpt' = jpt /\ allBBs' = allBBs
        /\ visitedPC' = visitedPC /\ ctl = "schedule" /\ ctl' = "schedule"
        /\ todo # <<>> /\ todo' = Tail(todo) /\ ExplorePCLater(pc)
    BY DEF ScheduleTarget, inputs
  <1>2. /\ todo \in Seq(Nat) /\ stack \in Seq(PCs)
        /\ scheduled \in [PCs -> {"absent", "scheduled", "unscheduled"}]
    BY DEF TypeInv, TypeOK
  <1>3. pc \in PCs /\ rest \subseteq PCs
    BY ScheduleTargetFacts
  <1>4. {RealPC(todo[i]) : i \in DOMAIN todo} = {pc} \cup rest
    <2>1. /\ 1 \in DOMAIN todo /\ Head(todo) = todo[1]
          /\ \A i \in DOMAIN todo' : i + 1 \in DOMAIN todo /\ todo'[i] = todo[i + 1]
          /\ \A i \in DOMAIN todo : i = 1 \/ (i - 1 \in DOMAIN todo' /\ todo'[i - 1] = todo[i])
      BY <1>1, <1>2
    <2> QED
      BY <2>1
  <1> HIDE DEF pc, rest
  <1>5. Pending = {p \in {pc} \cup rest : waits(p)}
    BY <1>4 DEF Pending
  <1>6. /\ Frontier = Range(stack) \cup Pending
        /\ Frontier' = Range(stack') \cup Pending'
    BY <1>1 DEF Frontier, AtBlock, Range
  <1>7. Frontier' = Frontier /\ Discarded' = Discarded
    <2>1. CASE stack' = stack /\ scheduled' = scheduled /\ ~waits(pc)
      <3>1. Pending' = {p \in rest : waits(p)}
        BY <1>1, <2>1, SameKnown DEF Pending, rest
      <3> QED
        BY <1>5, <1>6, <2>1, <3>1 DEF Discarded
    <2>2. CASE /\ stack' = Append(stack, pc)
               /\ scheduled' = [scheduled EXCEPT ![pc] = "scheduled"]
               /\ waits(pc)
      <3>1. \A p \in PCs : scheduled'[p] = IF p = pc THEN "scheduled" ELSE scheduled[p]
        BY <1>2, <1>3, <2>2
      <3>2. Pending' = {p \in rest : p # pc /\ waits(p)}
        BY <1>1, <1>3, <3>1, SameKnown DEF Pending, rest
      <3>3. Range(stack') = Range(stack) \cup {pc}
        <4>1. /\ DOMAIN stack' = DOMAIN stack \cup {Len(stack) + 1}
              /\ stack'[Len(stack) + 1] = pc
              /\ \A i \in DOMAIN stack : stack'[i] = stack[i]
          BY <1>2, <1>3, <2>2
        <4> QED
          BY <4>1 DEF Range
      <3>4. Discarded' = Discarded
        BY <1>3, <2>2, <3>1 DEF Discarded
      <3> QED
        BY <1>5, <1>6, <2>2, <3>2, <3>3, <3>4
    <2> QED
      BY <1>1, <2>1, <2>2, ExplorePCLaterCases
  <1>8. Status' = Status
    BY <1>1 DEF Status
  <1> QED
    BY <1>1, <1>7, <1>8, SameKnown, SameBlocks DEF Exploration!vars

\* Taking a PC from the stack puts it into the CPU, where it is still to be
\* explored, or discards one that is not code.
LEMMA PickRefines ==
    ASSUME TypeInv, Inv, PickValid \/ PickInvalid
    PROVE  \/ UNCHANGED Exploration!vars
           \/ \E n \in Frontier : Exploration!Discard(n)
  <1> DEFINE next == Last(stack)
             n == Len(stack)
  <1>1. /\ intervals' = intervals /\ prog' = prog /\ jpt' = jpt /\ allBBs' = allBBs
        /\ visitedPC' = visitedPC /\ todo' = todo /\ todo = <<>>
        /\ ctl = "schedule" /\ stack # <<>> /\ stack' = Front(stack)
        /\ scheduled' = [scheduled EXCEPT ![next] = "unscheduled"]
        /\ cpu'.pc = next
        /\ \/ next \in ValidCode /\ ctl' = "execute"
           \/ next \notin ValidCode /\ ctl' = "schedule"
    BY DEF PickValid, PickInvalid, TakeNextPC, inputs
  <1>2. /\ stack \in Seq(PCs)
        /\ scheduled \in [PCs -> {"absent", "scheduled", "unscheduled"}]
    BY DEF TypeInv, TypeOK
  <1>3. /\ n \in DOMAIN stack /\ next = stack[n] /\ next \in PCs
        /\ DOMAIN stack = DOMAIN stack' \cup {n} /\ n \notin DOMAIN stack'
        /\ \A i \in DOMAIN stack' : stack'[i] = stack[i]
    <2>1. /\ n \in Nat \ {0} /\ next = stack[n] /\ next \in PCs
          /\ stack' \in Seq(PCs) /\ Len(stack') = n - 1
          /\ \A i \in 1..(n - 1) : stack'[i] = stack[i]
      BY <1>1, <1>2, PopFacts
    <2> QED
      BY <1>2, <2>1
  <1> HIDE DEF next, n
  <1>4. Range(stack') = Range(stack) \ {next} /\ next \in Range(stack)
    <2>1. \A i \in DOMAIN stack' : stack[i] # next
      BY <1>3 DEF Inv, StackInv
    <2> QED
      BY <1>3, <2>1 DEF Range
  <1>5. Pending = {} /\ Pending' = {} /\ Frontier = Range(stack)
    BY <1>1 DEF Pending, Frontier, AtBlock
  <1>6. \A p \in PCs : scheduled'[p] = IF p = next THEN "unscheduled" ELSE scheduled[p]
    BY <1>1, <1>2, <1>3
  <1>7. KnownPCs' = KnownPCs /\ Starts' = Starts /\ Edges' = Edges
    BY <1>1, SameKnown, SameBlocks
  <1>8. CASE next \in ValidCode
    <2>1. Frontier' = Frontier
      BY <1>1, <1>4, <1>5, <1>8 DEF Frontier, AtBlock
    <2>2. Discarded' = Discarded /\ Status' = Status
      BY <1>1, <1>6, <1>8 DEF Discarded, Status
    <2> QED
      BY <1>7, <2>1, <2>2 DEF Exploration!vars
  <1>9. CASE next \notin ValidCode
    <2>1. Frontier' = Frontier \ {next} /\ next \in Frontier
      BY <1>1, <1>4, <1>5, <1>9 DEF Frontier, AtBlock
    <2>2. Discarded' = Discarded \cup {next}
      BY <1>3, <1>6, <1>9 DEF Discarded
    <2>3. Status = "running" /\ Status' = Status
      BY <1>1, <1>9 DEF Status
    <2> QED
      BY <1>7, <1>9, <2>1, <2>2, <2>3 DEF Exploration!Discard
  <1> QED
    BY <1>8, <1>9

\* The module is saved when the frontier is empty.
LEMMA SaveModuleRefines ==
    ASSUME SaveModule
    PROVE  Exploration!Finish
  <1>1. /\ intervals' = intervals /\ prog' = prog /\ jpt' = jpt /\ allBBs' = allBBs
        /\ scheduled' = scheduled /\ stack' = stack /\ todo' = todo
        /\ todo = <<>> /\ stack = <<>> /\ ctl = "schedule" /\ ctl' = "exit"
    BY DEF SaveModule, inputs
  <1>2. Frontier = {} /\ Frontier' = {}
    BY <1>1 DEF Frontier, AtBlock, Pending, Range
  <1>3. Status = "running" /\ Status' = "finished" /\ Discarded' = Discarded
    BY <1>1 DEF Status, Discarded
  <1> QED
    BY <1>1, <1>2, <1>3, SameKnown, SameBlocks DEF Exploration!Finish

\* Writing the Thumb bits, and doing nothing, shows nothing.
LEMMA ExitRefines ==
    ASSUME ExitProcess \/ UNCHANGED vars
    PROVE  UNCHANGED Exploration!vars
  <1>1. /\ intervals' = intervals /\ prog' = prog /\ jpt' = jpt /\ allBBs' = allBBs
        /\ scheduled' = scheduled /\ stack' = stack /\ todo' = todo /\ cpu' = cpu
        /\ visitedPC' = visitedPC
        /\ ctl' = ctl \/ (ctl = "exit" /\ ctl' = "exited")
    BY DEF ExitProcess, inputs, vars
  <1>2. Pending' = Pending
    BY <1>1, SameKnown DEF Pending
  <1>3. Frontier' = Frontier /\ Status' = Status /\ Discarded' = Discarded
    BY <1>1, <1>2 DEF Frontier, AtBlock, Status, Discarded
  <1> QED
    BY <1>1, <1>3, SameKnown, SameBlocks DEF Exploration!vars

\* The plugin is an exploration in the sense of Worklist: every behaviour of
\* the handler, with its stack, its loops and its early returns, is one in
\* which each node met is explored once, discarded because it is not code, or
\* lost with the process, and which finishes only when nothing is left.
THEOREM PluginExplores == Spec => ImplementsWorklist
  <1>1. Init => Exploration!Init
    BY InitRefines, InitTypeInv
  <1>2. (TypeInv /\ Inv) /\ [Next]_vars => [Exploration!Next]_(Exploration!vars)
    <2> SUFFICES ASSUME TypeInv, Inv, [Next]_vars
                 PROVE  Exploration!Next \/ UNCHANGED Exploration!vars
      OBVIOUS
    <2>1. CASE Retranslate
      BY <2>1, RetranslateRefines
    <2>2. CASE TranslateBlock
      BY <2>2, TranslateBlockRefines DEF Exploration!Next
    <2>3. CASE AssertFails \/ Crash
      BY <2>3, DeathRefines DEF Exploration!Next
    <2>4. CASE ScheduleTarget
      BY <2>4, ScheduleTargetRefines
    <2>5. CASE PickValid \/ PickInvalid
      BY <2>5, PickRefines DEF Exploration!Next
    <2>6. CASE SaveModule
      BY <2>6, SaveModuleRefines DEF Exploration!Next
    <2>7. CASE ExitProcess \/ UNCHANGED vars
      BY <2>7, ExitRefines
    <2> QED
      BY <2>1, <2>2, <2>3, <2>4, <2>5, <2>6, <2>7 DEF Next, Step
  <1> QED
    BY <1>1, <1>2, InductiveInvariant, PTL DEF Spec, ImplementsWorklist, Exploration!Spec
=============================================================================
