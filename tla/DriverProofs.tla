----------------------------- MODULE DriverProofs -----------------------------
(***************************************************************************)
(* Theorems about Driver, for every set of addresses, every list of        *)
(* entries and of targets, and whatever the tools do.                      *)
(***************************************************************************)
EXTENDS Driver, SeqFilterProofs

\* It is queued and not taken yet.
Pending(a) == \E i \in (head + 1)..Len(queue) : queue[i] = a

\* Where an address is that was given or discovered, and what the loop leaves.
Remembered ==
    /\ \A a \in found : a \in covered \/ a \in tried \/ Pending(a)
    /\ phase \in {"link", "post", "inline", "done"} /\ shouldContinue => head = Len(queue)

\* The files of the iteration are appended once, when its functions have been
\* through the solver, and the solver writes its own file only then.
Numbered ==
    /\ \A i \in DOMAIN funcBcs :
          /\ funcBcs[i][2] <= cnt
          /\ phase \in {"pop", "translate", "passes", "solve"} => funcBcs[i][2] < cnt
    /\ \A f \in files : f[2] <= cnt
    /\ phase \in {"pop", "translate", "passes", "solve"} =>
          <<"funcs-indirect", cnt>> \notin files

\* Nothing is linked before the loop has ended.
LinkedLast == product # "none" => phase \in {"post", "inline", "done", "died"}

\* While the tools run for an entry it is the last one taken.
HeadTaken == phase \in {"translate", "passes"} => head >= 1

\* An entry that had its run is visited, failed or has the Thumb bit; the one
\* at the head of the queue may still be on its way.
Accounted ==
    /\ phase = "translate" => ~crashed
    /\ phase = "passes" /\ crashed => queue[head] \in failed
    /\ phase # "died" =>
          tried \subseteq covered \cup failed \cup OddEntries
                          \cup (IF phase \in {"translate", "passes"} THEN {queue[head]} ELSE {})

IInv ==
    /\ TypeOK
    /\ HeadTaken
    /\ Remembered
    /\ Numbered
    /\ LinkedLast
    /\ SolvedFirst
    /\ BuiltIsLinked
    /\ Accounted

-----------------------------------------------------------------------------
(***************************************************************************)
(* The operators.                                                          *)
(***************************************************************************)

\* Enqueue extends the queue: what was there stays in its place, and every new
\* address is visited or behind it.
LEMMA EnqueueFacts ==
    ASSUME TypeOK, NEW new \in TargetLists, Enqueue(new)
    PROVE  /\ queue' \in Seq(Addrs)
           /\ Len(queue) <= Len(queue')
           /\ \A i \in 1..Len(queue) : queue'[i] = queue[i]
           /\ found' \subseteq Addrs
           /\ \A a \in found' \ found :
                 a \in covered \/ \E i \in (Len(queue) + 1)..Len(queue') : queue'[i] = a
  <1> DEFINE kept == Keep(new, Addrs \ covered)
  <1>1. new \in Seq(Addrs) /\ queue \in Seq(Addrs)
    BY DriverAssumption DEF TypeOK
  <1>2. /\ kept \in Seq(Addrs)
        /\ \A i \in 1..Len(new) :
              new[i] \in Addrs \ covered => \E j \in 1..Len(kept) : kept[j] = new[i]
    <2> DEFINE T == Addrs \ covered
    <2>1. new \in Seq(Addrs)
      BY <1>1
    <2> HIDE DEF T
    <2>2. Keep(new, T) \in Seq(Addrs)
      BY <2>1, KeepMembers
    <2>3. \A i \in 1..Len(new) :
             new[i] \in T => \E j \in 1..Len(Keep(new, T)) : Keep(new, T)[j] = new[i]
      BY <2>1, KeepMembers
    <2> QED
      BY <2>2, <2>3 DEF T
  <1>3. queue' = queue \o kept /\ found' = found \cup {new[j] : j \in DOMAIN new}
    BY DEF Enqueue, ToSet
  <1> HIDE DEF kept
  <1>4. /\ queue' \in Seq(Addrs)
        /\ Len(queue') = Len(queue) + Len(kept)
        /\ Len(queue) \in Nat /\ Len(kept) \in Nat
        /\ \A i \in 1..Len(queue) : queue'[i] = queue[i]
        /\ \A j \in 1..Len(kept) : queue'[Len(queue) + j] = kept[j]
    BY <1>1, <1>2, <1>3
  <1>5. \A j \in DOMAIN new : new[j] \in Addrs
    BY <1>1
  <1>6. found' \subseteq Addrs
    BY <1>3, <1>5 DEF TypeOK
  <1>7. ASSUME NEW a \in found' \ found, a \notin covered
        PROVE  \E i \in (Len(queue) + 1)..Len(queue') : queue'[i] = a
    <2>1. PICK i \in 1..Len(new) : a = new[i]
      BY <1>1, <1>3, <1>7
    <2>2. new[i] \in Addrs \ covered
      BY <1>1, <1>7, <2>1
    <2>4. PICK j \in 1..Len(kept) : a = kept[j]
      BY <1>2, <2>1, <2>2
    <2>5. Len(queue) + j \in (Len(queue) + 1)..Len(queue')
      BY <1>4
    <2> QED
      BY <1>4, <2>4, <2>5
  <1> QED
    BY <1>4, <1>6, <1>7

\* The list the solver of an iteration leaves for the linker.
LEMMA SolveAppends ==
    ASSUME TypeOK, NEW ok \in BOOLEAN, SolveFuncs(ok)
    PROVE  /\ funcBcs' \in Seq({"funcs", "funcs-indirect"} \X Nat)
           /\ \A i \in 1..Len(funcBcs) : funcBcs'[i] = funcBcs[i]
           /\ ok => /\ Len(funcBcs') = Len(funcBcs) + 2
                    /\ funcBcs'[Len(funcBcs) + 1] = <<"funcs-indirect", cnt>>
                    /\ funcBcs'[Len(funcBcs) + 2] = <<"funcs", cnt>>
           /\ ~ok => /\ Len(funcBcs') = Len(funcBcs) + 1
                     /\ funcBcs'[Len(funcBcs) + 1] = <<"funcs", cnt>>
  <1> DEFINE B == {"funcs", "funcs-indirect"} \X Nat
             s == funcBcs
             x == <<"funcs-indirect", cnt>>
             y == <<"funcs", cnt>>
  <1>1. s \in Seq(B) /\ x \in B /\ y \in B
    BY DEF TypeOK
  <1>2. funcBcs' = s \o (IF ok THEN <<x>> ELSE <<>>) \o <<y>>
    BY DEF SolveFuncs
  <1> HIDE DEF B, s, x, y
  <1>3. CASE ok
    <2>1. funcBcs' = (s \o <<x>>) \o <<y>>
      BY <1>2, <1>3
    <2>2. funcBcs' \in Seq(B) /\ Len(funcBcs') = Len(s) + 2
      BY <1>1, <2>1
    <2>3. /\ \A i \in 1..Len(s) : funcBcs'[i] = s[i]
          /\ funcBcs'[Len(s) + 1] = x /\ funcBcs'[Len(s) + 2] = y
      BY <1>1, <2>1
    <2> QED
      BY <1>3, <2>2, <2>3 DEF B, s, x, y
  <1>4. CASE ~ok
    <2>1. funcBcs' = (s \o <<>>) \o <<y>>
      BY <1>2, <1>4
    <2>2. funcBcs' \in Seq(B) /\ Len(funcBcs') = Len(s) + 1
      BY <1>1, <2>1
    <2>3. (\A i \in 1..Len(s) : funcBcs'[i] = s[i]) /\ funcBcs'[Len(s) + 1] = y
      BY <1>1, <2>1
    <2> QED
      BY <1>4, <2>2, <2>3 DEF B, s, x, y
  <1> QED
    BY <1>3, <1>4

\* Behind the files of the earlier iterations stand those of this one.
LEMMA SolveAppended ==
    ASSUME TypeOK, NEW ok \in BOOLEAN, SolveFuncs(ok),
           NEW i \in DOMAIN funcBcs', i \notin 1..Len(funcBcs)
    PROVE  /\ funcBcs'[i] = <<"funcs-indirect", cnt>> \/ funcBcs'[i] = <<"funcs", cnt>>
           /\ i = Len(funcBcs) + 1 \/ (ok /\ i = Len(funcBcs) + 2)
  <1>1. Len(funcBcs) \in Nat
    BY DEF TypeOK
  <1>2. DOMAIN funcBcs' = 1..Len(funcBcs')
    BY SolveAppends
  <1>3. CASE ok
    <2>1. Len(funcBcs') = Len(funcBcs) + 2
      BY <1>3, SolveAppends
    <2>2. i = Len(funcBcs) + 1 \/ i = Len(funcBcs) + 2
      BY <1>1, <1>2, <2>1
    <2> QED
      BY <1>3, <2>2, SolveAppends
  <1>4. CASE ~ok
    <2>1. Len(funcBcs') = Len(funcBcs) + 1
      BY <1>4, SolveAppends
    <2>2. i = Len(funcBcs) + 1
      BY <1>1, <1>2, <2>1
    <2> QED
      BY <1>4, <2>2, SolveAppends
  <1> QED
    BY <1>3, <1>4

-----------------------------------------------------------------------------
(***************************************************************************)
(* Type correctness.                                                       *)
(***************************************************************************)

\* Init chooses from lists of addresses and sets of Thumb bits.
LEMMA InitTypeOK == Init => TypeOK
  <1> SUFFICES ASSUME Init PROVE TypeOK
    OBVIOUS
  <1>1. queue \in Seq(Addrs)
    BY DriverAssumption DEF Init
  <1>2. found \subseteq Addrs
    <2>1. \A i \in DOMAIN queue : queue[i] \in Addrs
      BY <1>1
    <2> QED
      BY <2>1 DEF Init, ToSet
  <1>3. thumbFile \subseteq Addrs /\ thumbIn \subseteq Addrs
    BY DriverAssumption DEF Init
  <1>4. head \in 0..Len(queue) /\ funcBcs \in Seq({"funcs", "funcs-indirect"} \X Nat)
    BY <1>1 DEF Init
  <1> QED
    BY <1>1, <1>2, <1>3, <1>4 DEF Init, TypeOK, Phases

\* The entry the tools run for is an address.
LEMMA HeadIsEntry ==
    ASSUME TypeOK, HeadTaken, phase \in {"translate", "passes"}
    PROVE  queue[head] \in Addrs
  BY DEF TypeOK, HeadTaken

\* Every step keeps the types.
LEMMA TypeStep == TypeOK /\ HeadTaken /\ [Next]_vars => TypeOK'
  <1> SUFFICES ASSUME TypeOK, HeadTaken, [Next]_vars PROVE TypeOK'
    OBVIOUS
  <1>1. CASE SkipVisited
    <2>1. head + 1 \in 0..Len(queue)
      BY <1>1 DEF SkipVisited, InLoop, TypeOK
    <2> QED
      BY <1>1, <2>1 DEF SkipVisited, TypeOK, history, output
  <1>2. CASE TakeEntry
    <2>1. head + 1 \in 0..Len(queue) /\ queue[head + 1] \in Addrs
      BY <1>2 DEF TakeEntry, InLoop, TypeOK
    <2> QED
      BY <1>2, <2>1 DEF TakeEntry, Built, TypeOK, Phases, history, output
  <1>3. CASE LeaveLoop
    BY <1>3, DriverAssumption DEF LeaveLoop, TypeOK, Phases, history, output
  <1>4. CASE TranslatorExits
    BY <1>4, DriverAssumption DEF TranslatorExits, TypeOK, Phases, history, output
  <1>5. CASE TranslatorDies
    <2>1. queue[head] \in Addrs
      BY <1>5, HeadIsEntry DEF TranslatorDies
    <2> QED
      BY <1>5, <2>1, DriverAssumption DEF TranslatorDies, TypeOK, Phases, history, output
  <1>6. CASE TranslatorNotStarted
    BY <1>6, DriverAssumption DEF TranslatorNotStarted, TypeOK, Phases, history, output
  <1>7. CASE PassesSucceed
    BY <1>7, DriverAssumption DEF PassesSucceed, TypeOK, Phases, history, output
  <1>8. CASE LogIsMissing
    BY <1>8, DriverAssumption DEF LogIsMissing, TypeOK, Phases, history, output
  <1>9. CASE PassesFail
    <2>1. queue[head] \in Addrs
      BY <1>9, HeadIsEntry DEF PassesFail
    <2> QED
      BY <1>9, <2>1, DriverAssumption DEF PassesFail, TypeOK, Phases, history, output
  <1>10. ASSUME NEW ok \in BOOLEAN, SolveFuncs(ok) PROVE TypeOK'
    <2>1. funcBcs' \in Seq({"funcs", "funcs-indirect"} \X Nat)
      BY <1>10, SolveAppends
    <2>2. queue' \in Seq(Addrs) /\ Len(queue) <= Len(queue') /\ found' \subseteq Addrs
      <3>1. CASE <<"funcs", cnt>> \in files
        BY <1>10, <3>1, EnqueueFacts DEF SolveFuncs
      <3>2. CASE <<"funcs", cnt>> \notin files
        BY <1>10, <3>2 DEF SolveFuncs, TypeOK
      <3> QED
        BY <3>1, <3>2
    <2>3. head \in 0..Len(queue')
      BY <2>2 DEF TypeOK
    <2> QED
      BY <1>10, <2>1, <2>2, <2>3 DEF SolveFuncs, TypeOK, Phases, history, output
  <1>11. CASE SolveRemaining
    <2>2. queue' \in Seq(Addrs) /\ Len(queue) <= Len(queue') /\ found' \subseteq Addrs
      <3>1. CASE <<"remaining", cnt>> \in files
        BY <1>11, <3>1, EnqueueFacts DEF SolveRemaining
      <3>2. CASE <<"remaining", cnt>> \notin files
        BY <1>11, <3>2 DEF SolveRemaining, TypeOK
      <3> QED
        BY <3>1, <3>2
    <2>3. head \in 0..Len(queue')
      BY <2>2 DEF TypeOK
    <2> QED
      BY <1>11, <2>2, <2>3 DEF SolveRemaining, TypeOK, Phases, history, output
  <1>12. CASE MergeThumbBits
    <2>1. thumbIn' \subseteq Addrs
      BY <1>12, DriverAssumption DEF MergeThumbBits, TypeOK
    <2>2. cnt' \in Nat
      BY <1>12 DEF MergeThumbBits, TypeOK
    <2>3. phase' \in Phases /\ thumbOut' \subseteq Addrs /\ hasLog' \in BOOLEAN
      BY <1>12, Zenon DEF MergeThumbBits, Phases
    <2>4. UNCHANGED <<queue, head, shouldContinue, covered, thumbFile, module, files,
                      output, history>>
      BY <1>12 DEF MergeThumbBits
    <2> QED
      BY <2>1, <2>2, <2>4, <2>3 DEF TypeOK, history, output
  <1>13. ASSUME NEW ok \in BOOLEAN, LinkFunctions(ok) PROVE TypeOK'
    BY <1>13, DriverAssumption DEF LinkFunctions, TypeOK, Phases, history, output
  <1>14. ASSUME NEW ok \in BOOLEAN, PassesPost(ok) PROVE TypeOK'
    BY <1>14, DriverAssumption DEF PassesPost, TypeOK, Phases, history, output
  <1>15. ASSUME NEW ok \in BOOLEAN, InlineHelpers(ok) PROVE TypeOK'
    BY <1>15, DriverAssumption DEF InlineHelpers, TypeOK, Phases, history, output
  <1>16. CASE ToolNotStarted
    BY <1>16, DriverAssumption DEF ToolNotStarted, TypeOK, Phases, history, output
  <1>17. CASE CtrlC
    BY <1>17, DriverAssumption DEF CtrlC, TypeOK, Phases, history, output
  <1>18. CASE UNCHANGED vars
    BY <1>18, DriverAssumption DEF vars, history, output, TypeOK, Phases, history, output
  <1> QED
    BY <1>1, <1>2, <1>3, <1>4, <1>5, <1>6, <1>7, <1>8, <1>9, <1>10, <1>11, <1>12,
       <1>13, <1>14, <1>15, <1>16, <1>17, <1>18 DEF Next, Step

-----------------------------------------------------------------------------
(***************************************************************************)
(* The queue.                                                              *)
(***************************************************************************)

\* Only the loop hands an entry to the tools, and it takes it first.
LEMMA HeadTakenStep == TypeOK /\ HeadTaken /\ [Next]_vars => HeadTaken'
  <1> SUFFICES ASSUME TypeOK, HeadTaken, [Next]_vars PROVE HeadTaken'
    OBVIOUS
  <1>1. CASE SkipVisited
    BY <1>1 DEF SkipVisited, TypeOK, HeadTaken
  <1>2. CASE TakeEntry
    BY <1>2 DEF TakeEntry, TypeOK, HeadTaken
  <1>3. CASE LeaveLoop
    BY <1>3 DEF LeaveLoop, TypeOK, HeadTaken
  <1>4. CASE TranslatorExits
    BY <1>4 DEF TranslatorExits, TypeOK, HeadTaken
  <1>5. CASE TranslatorDies
    BY <1>5 DEF TranslatorDies, TypeOK, HeadTaken
  <1>6. CASE TranslatorNotStarted
    BY <1>6 DEF TranslatorNotStarted, TypeOK, HeadTaken
  <1>7. CASE PassesSucceed
    BY <1>7 DEF PassesSucceed, TypeOK, HeadTaken
  <1>8. CASE LogIsMissing
    BY <1>8 DEF LogIsMissing, TypeOK, HeadTaken
  <1>9. CASE PassesFail
    BY <1>9 DEF PassesFail, TypeOK, HeadTaken
  <1>10. ASSUME NEW ok \in BOOLEAN, SolveFuncs(ok) PROVE HeadTaken'
    BY <1>10 DEF SolveFuncs, TypeOK, HeadTaken
  <1>11. CASE SolveRemaining
    BY <1>11 DEF SolveRemaining, TypeOK, HeadTaken
  <1>12. CASE MergeThumbBits
    BY <1>12 DEF MergeThumbBits, TypeOK, HeadTaken
  <1>13. ASSUME NEW ok \in BOOLEAN, LinkFunctions(ok) PROVE HeadTaken'
    BY <1>13 DEF LinkFunctions, TypeOK, HeadTaken
  <1>14. ASSUME NEW ok \in BOOLEAN, PassesPost(ok) PROVE HeadTaken'
    BY <1>14 DEF PassesPost, TypeOK, HeadTaken
  <1>15. ASSUME NEW ok \in BOOLEAN, InlineHelpers(ok) PROVE HeadTaken'
    BY <1>15 DEF InlineHelpers, TypeOK, HeadTaken
  <1>16. CASE ToolNotStarted
    BY <1>16 DEF ToolNotStarted, TypeOK, HeadTaken
  <1>17. CASE CtrlC
    BY <1>17 DEF CtrlC, TypeOK, HeadTaken
  <1>18. CASE UNCHANGED vars
    BY <1>18 DEF vars, history, output, TypeOK, HeadTaken
  <1> QED
    BY <1>1, <1>2, <1>3, <1>4, <1>5, <1>6, <1>7, <1>8, <1>9, <1>10, <1>11, <1>12,
       <1>13, <1>14, <1>15, <1>16, <1>17, <1>18 DEF Next, Step

\* A step that extends the queue and changes neither the coverage nor the
\* entries taken forgets nothing.
LEMMA EnqueueRemembers ==
    ASSUME TypeOK, Remembered,
           Len(queue) <= Len(queue'), queue' \in Seq(Addrs),
           \A i \in 1..Len(queue) : queue'[i] = queue[i],
           \A a \in found' \ found :
              a \in covered \/ \E i \in (Len(queue) + 1)..Len(queue') : queue'[i] = a,
           phase' \in {"remaining", "thumb"},
           UNCHANGED <<head, covered, tried>>
    PROVE  Remembered'
  <1>1. ASSUME NEW a \in found', a \notin covered, a \notin tried
        PROVE  Pending(a)'
    <2>1. CASE a \in found
      <3>1. PICK i \in (head + 1)..Len(queue) : queue[i] = a
        BY <1>1, <2>1 DEF Remembered, Pending
      <3>2. i \in 1..Len(queue) /\ i \in (head' + 1)..Len(queue')
        BY DEF TypeOK
      <3> QED
        BY <3>1, <3>2 DEF Pending
    <2>2. CASE a \notin found
      <3>1. PICK i \in (Len(queue) + 1)..Len(queue') : queue'[i] = a
        BY <1>1, <2>2
      <3>2. i \in (head' + 1)..Len(queue')
        BY DEF TypeOK
      <3> QED
        BY <3>1, <3>2 DEF Pending
    <2> QED
      BY <2>1, <2>2
  <1> QED
    BY <1>1 DEF Remembered

\* No step loses an address.
LEMMA RememberedStep == TypeOK /\ Remembered /\ [Next]_vars => Remembered'
  <1> SUFFICES ASSUME TypeOK, Remembered, [Next]_vars PROVE Remembered'
    OBVIOUS
  <1>1. CASE SkipVisited
    <2>1. ASSUME NEW a \in found, a \notin covered, a \notin tried
          PROVE  Pending(a)'
      <3>1. PICK i \in (head + 1)..Len(queue) : queue[i] = a
        BY <2>1 DEF Remembered, Pending
      <3>2. i # head + 1
        BY <1>1, <2>1, <3>1 DEF SkipVisited
      <3>3. i \in (head' + 1)..Len(queue')
        BY <1>1, <3>2 DEF SkipVisited, TypeOK
      <3> QED
        BY <1>1, <3>1, <3>3 DEF SkipVisited, Pending
    <2> QED
      BY <1>1, <2>1 DEF SkipVisited, InLoop, Remembered, history
  <1>2. CASE TakeEntry
    <2>1. ASSUME NEW a \in found, a \notin covered, a \notin tried'
          PROVE  Pending(a)'
      <3>1. PICK i \in (head + 1)..Len(queue) : queue[i] = a
        BY <1>2, <2>1 DEF TakeEntry, Remembered, Pending
      <3>2. i # head + 1
        BY <1>2, <2>1, <3>1 DEF TakeEntry
      <3>3. i \in (head' + 1)..Len(queue')
        BY <1>2, <3>2 DEF TakeEntry, TypeOK
      <3> QED
        BY <1>2, <3>1, <3>3 DEF TakeEntry, Pending
    <2> QED
      BY <1>2, <2>1 DEF TakeEntry, Remembered
  <1>3. CASE LeaveLoop
    BY <1>3 DEF LeaveLoop, TypeOK, Remembered, Pending, InLoop, history, output
  <1>4. CASE TranslatorExits
    BY <1>4 DEF TranslatorExits, TypeOK, Remembered, Pending, InLoop, history, output
  <1>5. CASE TranslatorDies
    BY <1>5 DEF TranslatorDies, TypeOK, Remembered, Pending, InLoop, history, output
  <1>6. CASE TranslatorNotStarted
    BY <1>6 DEF TranslatorNotStarted, TypeOK, Remembered, Pending, InLoop, history, output
  <1>7. CASE PassesSucceed
    BY <1>7 DEF PassesSucceed, TypeOK, Remembered, Pending, InLoop, history, output
  <1>8. CASE LogIsMissing
    BY <1>8 DEF LogIsMissing, TypeOK, Remembered, Pending, InLoop, history, output
  <1>9. CASE PassesFail
    BY <1>9 DEF PassesFail, TypeOK, Remembered, Pending, InLoop, history, output
  <1>10. ASSUME NEW ok \in BOOLEAN, SolveFuncs(ok) PROVE Remembered'
    <2>1. CASE <<"funcs", cnt>> \in files
      <3>1. PICK new \in TargetLists : Enqueue(new)
        BY <1>10, <2>1 DEF SolveFuncs
      <3>2. /\ queue' \in Seq(Addrs)
            /\ Len(queue) <= Len(queue')
            /\ \A i \in 1..Len(queue) : queue'[i] = queue[i]
            /\ \A a \in found' \ found :
                  a \in covered \/ \E i \in (Len(queue) + 1)..Len(queue') : queue'[i] = a
        BY <3>1, EnqueueFacts
      <3> QED
        BY <1>10, <3>2, EnqueueRemembers DEF SolveFuncs
    <2>2. CASE <<"funcs", cnt>> \notin files
      BY <1>10, <2>2 DEF SolveFuncs, Remembered, Pending
    <2> QED
      BY <2>1, <2>2
  <1>11. CASE SolveRemaining
    <2>1. CASE <<"remaining", cnt>> \in files
      <3>1. PICK new \in TargetLists : Enqueue(new)
        BY <1>11, <2>1 DEF SolveRemaining
      <3>2. /\ queue' \in Seq(Addrs)
            /\ Len(queue) <= Len(queue')
            /\ \A i \in 1..Len(queue) : queue'[i] = queue[i]
            /\ \A a \in found' \ found :
                  a \in covered \/ \E i \in (Len(queue) + 1)..Len(queue') : queue'[i] = a
        BY <3>1, EnqueueFacts
      <3> QED
        BY <1>11, <3>2, EnqueueRemembers DEF SolveRemaining
    <2>2. CASE <<"remaining", cnt>> \notin files
      BY <1>11, <2>2 DEF SolveRemaining, Remembered, Pending
    <2> QED
      BY <2>1, <2>2
  <1>12. CASE MergeThumbBits
    BY <1>12 DEF MergeThumbBits, TypeOK, Remembered, Pending, InLoop, history, output
  <1>13. ASSUME NEW ok \in BOOLEAN, LinkFunctions(ok) PROVE Remembered'
    BY <1>13 DEF LinkFunctions, TypeOK, Remembered, Pending, InLoop, history, output
  <1>14. ASSUME NEW ok \in BOOLEAN, PassesPost(ok) PROVE Remembered'
    BY <1>14 DEF PassesPost, TypeOK, Remembered, Pending, InLoop, history, output
  <1>15. ASSUME NEW ok \in BOOLEAN, InlineHelpers(ok) PROVE Remembered'
    BY <1>15 DEF InlineHelpers, TypeOK, Remembered, Pending, InLoop, history, output
  <1>16. CASE ToolNotStarted
    BY <1>16 DEF ToolNotStarted, TypeOK, Remembered, Pending, InLoop, history, output
  <1>17. CASE CtrlC
    BY <1>17 DEF CtrlC, TypeOK, Remembered, Pending, InLoop, history, output
  <1>18. CASE UNCHANGED vars
    BY <1>18 DEF vars, history, output, TypeOK, Remembered, Pending, InLoop, history, output
  <1> QED
    BY <1>1, <1>2, <1>3, <1>4, <1>5, <1>6, <1>7, <1>8, <1>9, <1>10, <1>11, <1>12,
       <1>13, <1>14, <1>15, <1>16, <1>17, <1>18 DEF Next, Step

-----------------------------------------------------------------------------
(***************************************************************************)
(* The files the linker gets.                                              *)
(***************************************************************************)

\* The number of an iteration is new until its files are appended.
LEMMA NumberedStep == TypeOK /\ Numbered /\ [Next]_vars => Numbered'
  <1> SUFFICES ASSUME TypeOK, Numbered, [Next]_vars PROVE Numbered'
    OBVIOUS
  <1>1. CASE SkipVisited
    BY <1>1 DEF SkipVisited, TypeOK, Numbered, InLoop, output
  <1>2. CASE TakeEntry
    BY <1>2 DEF TakeEntry, Built, TypeOK, Numbered, InLoop, output
  <1>3. CASE LeaveLoop
    BY <1>3 DEF LeaveLoop, TypeOK, Numbered, InLoop, output
  <1>4. CASE TranslatorExits
    BY <1>4 DEF TranslatorExits, TypeOK, Numbered, InLoop, output
  <1>5. CASE TranslatorDies
    BY <1>5 DEF TranslatorDies, TypeOK, Numbered, InLoop, output
  <1>6. CASE TranslatorNotStarted
    BY <1>6 DEF TranslatorNotStarted, TypeOK, Numbered, InLoop, output
  <1>7. CASE PassesSucceed
    BY <1>7 DEF PassesSucceed, TypeOK, Numbered, InLoop, output
  <1>8. CASE LogIsMissing
    BY <1>8 DEF LogIsMissing, TypeOK, Numbered, InLoop, output
  <1>9. CASE PassesFail
    BY <1>9 DEF PassesFail, TypeOK, Numbered, InLoop, output
  <1>10. ASSUME NEW ok \in BOOLEAN, SolveFuncs(ok) PROVE Numbered'
    <2>1. \A i \in DOMAIN funcBcs' : funcBcs'[i][2] <= cnt
      <3> SUFFICES ASSUME NEW i \in DOMAIN funcBcs' PROVE funcBcs'[i][2] <= cnt
        OBVIOUS
      <3>1. i \in 1..Len(funcBcs')
        BY <1>10, SolveAppends
      <3>2. CASE i \in 1..Len(funcBcs)
        <4>1. i \in DOMAIN funcBcs
          BY <3>2 DEF TypeOK
        <4>2. funcBcs'[i] = funcBcs[i]
          BY <1>10, <3>2, SolveAppends
        <4> QED
          BY <4>1, <4>2 DEF Numbered
      <3>3. CASE i \notin 1..Len(funcBcs)
        <4>1. Len(funcBcs) \in Nat /\ cnt \in Nat
          BY DEF TypeOK
        <4>2. funcBcs'[i] = <<"funcs-indirect", cnt>> \/ funcBcs'[i] = <<"funcs", cnt>>
          BY <1>10, <3>3, SolveAppended
        <4> QED
          BY <4>1, <4>2
      <3> QED
        BY <3>2, <3>3
    <2>2. \A f \in files' : f[2] <= cnt
      BY <1>10 DEF SolveFuncs, TypeOK, Numbered
    <2> QED
      BY <1>10, <2>1, <2>2 DEF SolveFuncs, Numbered
  <1>11. CASE SolveRemaining
    BY <1>11 DEF SolveRemaining, TypeOK, Numbered, InLoop, output
  <1>12. CASE MergeThumbBits
    <2>1. \A i \in DOMAIN funcBcs : funcBcs[i][2] \in Nat /\ funcBcs[i][2] <= cnt
      BY DEF TypeOK, Numbered
    <2>2. cnt \in Nat /\ cnt' = cnt + 1 /\ funcBcs' = funcBcs /\ phase' = "pop"
      BY <1>12 DEF TypeOK, MergeThumbBits, output
    <2>3. /\ files' = files
          /\ \A f \in files : f[2] \in Nat /\ f[2] <= cnt
      BY <1>12 DEF TypeOK, MergeThumbBits, Numbered
    <2>4. \A f \in files' : f[2] <= cnt' /\ f[2] # cnt'
      BY <2>2, <2>3
    <2>5. <<"funcs-indirect", cnt'>> \notin files'
      BY <2>4
    <2> QED
      BY <2>1, <2>2, <2>4, <2>5 DEF Numbered
  <1>13. ASSUME NEW ok \in BOOLEAN, LinkFunctions(ok) PROVE Numbered'
    BY <1>13 DEF LinkFunctions, TypeOK, Numbered, InLoop, output
  <1>14. ASSUME NEW ok \in BOOLEAN, PassesPost(ok) PROVE Numbered'
    BY <1>14 DEF PassesPost, TypeOK, Numbered, InLoop, output
  <1>15. ASSUME NEW ok \in BOOLEAN, InlineHelpers(ok) PROVE Numbered'
    BY <1>15 DEF InlineHelpers, TypeOK, Numbered, InLoop, output
  <1>16. CASE ToolNotStarted
    BY <1>16 DEF ToolNotStarted, TypeOK, Numbered, InLoop, output
  <1>17. CASE CtrlC
    BY <1>17 DEF CtrlC, TypeOK, Numbered, InLoop, output
  <1>18. CASE UNCHANGED vars
    BY <1>18 DEF vars, history, output, TypeOK, Numbered, InLoop, output
  <1> QED
    BY <1>1, <1>2, <1>3, <1>4, <1>5, <1>6, <1>7, <1>8, <1>9, <1>10, <1>11, <1>12,
       <1>13, <1>14, <1>15, <1>16, <1>17, <1>18 DEF Next, Step

\* Only the solver of the functions appends to the list.
LEMMA OnlySolveAppends ==
    ASSUME [Next]_vars, \A ok \in BOOLEAN : ~SolveFuncs(ok)
    PROVE  UNCHANGED funcBcs
  BY DEF Next, Step, vars, output, SkipVisited, TakeEntry, LeaveLoop, TranslatorExits,
         TranslatorDies, TranslatorNotStarted, PassesSucceed, LogIsMissing, PassesFail,
         SolveRemaining, MergeThumbBits, LinkFunctions, PassesPost, InlineHelpers,
         ToolNotStarted, CtrlC

\* It appends the solved functions first, with a number larger than all before.
LEMMA SolvedFirstStep == TypeOK /\ Numbered /\ SolvedFirst /\ [Next]_vars => SolvedFirst'
  <1> SUFFICES ASSUME TypeOK, Numbered, SolvedFirst, [Next]_vars PROVE SolvedFirst'
    OBVIOUS
  <1>1. ASSUME NEW ok \in BOOLEAN, SolveFuncs(ok) PROVE SolvedFirst'
    <2>1. Len(funcBcs) \in Nat /\ cnt \in Nat /\ DOMAIN funcBcs = 1..Len(funcBcs)
      BY DEF TypeOK
    <2>2. \A i \in 1..Len(funcBcs) : funcBcs[i][2] < cnt
      BY <1>1, <2>1 DEF SolveFuncs, Numbered
    <2>3. DOMAIN funcBcs' = 1..Len(funcBcs')
      BY <1>1, SolveAppends
    <2> SUFFICES ASSUME NEW i \in DOMAIN funcBcs', NEW j \in DOMAIN funcBcs', i < j
                 PROVE  \/ funcBcs'[i][2] < funcBcs'[j][2]
                        \/ /\ funcBcs'[i][2] = funcBcs'[j][2]
                           /\ funcBcs'[i][1] = "funcs-indirect"
                           /\ funcBcs'[j][1] = "funcs"
      BY DEF SolvedFirst
    <2>4. CASE j \in 1..Len(funcBcs)
      <3>1. i \in 1..Len(funcBcs)
        BY <2>1, <2>3, <2>4
      <3>2. funcBcs'[i] = funcBcs[i] /\ funcBcs'[j] = funcBcs[j]
        BY <1>1, <2>4, <3>1, SolveAppends
      <3> QED
        BY <2>1, <2>4, <3>1, <3>2 DEF SolvedFirst
    <2>5. CASE j \notin 1..Len(funcBcs) /\ i \in 1..Len(funcBcs)
      <3>1. funcBcs'[j] = <<"funcs-indirect", cnt>> \/ funcBcs'[j] = <<"funcs", cnt>>
        BY <1>1, <2>5, SolveAppended
      <3>2. funcBcs'[i] = funcBcs[i]
        BY <1>1, <2>5, SolveAppends
      <3> QED
        BY <2>2, <2>5, <3>1, <3>2
    <2>6. CASE j \notin 1..Len(funcBcs) /\ i \notin 1..Len(funcBcs)
      <3>1. ok /\ i = Len(funcBcs) + 1 /\ j = Len(funcBcs) + 2
        <4>1. i = Len(funcBcs) + 1 \/ (ok /\ i = Len(funcBcs) + 2)
          BY <1>1, <2>6, SolveAppended
        <4>2. j = Len(funcBcs) + 1 \/ (ok /\ j = Len(funcBcs) + 2)
          BY <1>1, <2>6, SolveAppended
        <4> QED
          BY <2>1, <4>1, <4>2
      <3>2. funcBcs'[i] = <<"funcs-indirect", cnt>> /\ funcBcs'[j] = <<"funcs", cnt>>
        BY <1>1, <3>1, SolveAppends
      <3> QED
        BY <3>2
    <2> QED
      BY <2>4, <2>5, <2>6
  <1>2. CASE \A ok \in BOOLEAN : ~SolveFuncs(ok)
    BY <1>2, OnlySolveAppends DEF SolvedFirst
  <1> QED
    BY <1>1, <1>2

\* The linker runs after the loop, and no step leads back.
LEMMA LinkedLastStep == LinkedLast /\ [Next]_vars => LinkedLast'
  BY DEF LinkedLast, Next, Step, vars, output, SkipVisited, TakeEntry, InLoop, LeaveLoop,
         TranslatorExits, TranslatorDies, TranslatorNotStarted, PassesSucceed,
         LogIsMissing, PassesFail, SolveFuncs, SolveRemaining, MergeThumbBits,
         LinkFunctions, PassesPost, InlineHelpers, ToolNotStarted, CtrlC

\* Outside the solver every file of functions is on the list.
LEMMA BuiltListed ==
    ASSUME BuiltIsLinked, phase \notin {"solve", "died"}
    PROVE  Built \subseteq ToSet(funcBcs)
  BY DEF BuiltIsLinked

\* The steps that write no file of functions.
LEMMA KeepsBuilt ==
    ASSUME LinkedLast, BuiltIsLinked, [Next]_vars, ~PassesSucceed, ~LogIsMissing, ~PassesFail,
           \A ok \in BOOLEAN : ~SolveFuncs(ok)
    PROVE  BuiltIsLinked'
  <1>1. funcBcs' = funcBcs
    BY OnlySolveAppends
  <1>2. Built' \subseteq Built
    BY DEF Built, Next, Step, vars, SkipVisited, TakeEntry, LeaveLoop, TranslatorExits,
           TranslatorDies, TranslatorNotStarted, SolveRemaining, MergeThumbBits,
           LinkFunctions, PassesPost, InlineHelpers, ToolNotStarted, CtrlC
  <1>3. CASE phase \notin {"solve", "died"}
    <2>1. Built' \subseteq ToSet(funcBcs')
      BY <1>1, <1>2, <1>3, BuiltListed
    <2> QED
      BY <2>1 DEF BuiltIsLinked
  <1>4. CASE phase \in {"solve", "died"}
    <2>1. cnt' = cnt /\ product' = product /\ phase' \in {"solve", "died"}
      BY <1>4 DEF Next, Step, vars, output, SkipVisited, TakeEntry, InLoop, LeaveLoop,
             TranslatorExits, TranslatorDies, TranslatorNotStarted, SolveRemaining,
             MergeThumbBits, LinkFunctions, PassesPost, InlineHelpers, ToolNotStarted, CtrlC
    <2> QED
      BY <1>1, <1>2, <2>1 DEF BuiltIsLinked
  <1> QED
    BY <1>3, <1>4

\* The passes write the functions of the iteration, for the solver.
LEMMA PassesBuild ==
    ASSUME LinkedLast, BuiltIsLinked, PassesSucceed \/ LogIsMissing \/ PassesFail
    PROVE  BuiltIsLinked'
  <1>1. /\ phase = "passes" /\ phase' \in {"solve", "died"}
        /\ funcBcs' = funcBcs /\ cnt' = cnt /\ product' = product
        /\ Built' \subseteq Built \cup {<<"funcs", cnt>>}
    BY DEF PassesSucceed, LogIsMissing, PassesFail, output, Built
  <1>2. product' = "none"
    BY <1>1 DEF LinkedLast
  <1>3. Built \subseteq ToSet(funcBcs)
    BY <1>1, BuiltListed
  <1>4. \A f \in Built' \ ToSet(funcBcs') : f[2] = cnt'
    BY <1>1, <1>3
  <1> QED
    BY <1>1, <1>2, <1>4 DEF BuiltIsLinked

\* The solver of an iteration puts on the list what the passes and itself wrote.
LEMMA SolveLists ==
    ASSUME TypeOK, Numbered, LinkedLast, BuiltIsLinked, NEW ok \in BOOLEAN, SolveFuncs(ok)
    PROVE  BuiltIsLinked'
  <1>1. Len(funcBcs) \in Nat /\ DOMAIN funcBcs' = 1..Len(funcBcs')
    BY SolveAppends DEF TypeOK
  <1>2. ToSet(funcBcs) \subseteq ToSet(funcBcs')
    <2>1. DOMAIN funcBcs = 1..Len(funcBcs)
      BY DEF TypeOK
    <2>2. Len(funcBcs') = Len(funcBcs) + 2 \/ Len(funcBcs') = Len(funcBcs) + 1
      BY SolveAppends
    <2>3. \A i \in 1..Len(funcBcs) : i \in 1..Len(funcBcs')
      <3> DEFINE m == Len(funcBcs)
                 n == Len(funcBcs')
      <3>1. m \in Nat /\ (n = m + 2 \/ n = m + 1)
        BY <1>1, <2>2
      <3> HIDE DEF m, n
      <3>2. \A i \in 1..m : i \in 1..n
        BY <3>1
      <3> QED
        BY <3>2 DEF m, n
    <2>4. \A i \in 1..Len(funcBcs) : funcBcs'[i] = funcBcs[i]
      BY SolveAppends
    <2>5. \A i \in DOMAIN funcBcs : i \in DOMAIN funcBcs' /\ funcBcs'[i] = funcBcs[i]
      BY <1>1, <2>1, <2>3, <2>4
    <2> QED
      BY <2>5 DEF ToSet
  <1>3. <<"funcs", cnt>> \in ToSet(funcBcs')
    <2>1. \E i \in 1..Len(funcBcs') : funcBcs'[i] = <<"funcs", cnt>>
      <3>1. CASE ok
        <4>1. Len(funcBcs') = Len(funcBcs) + 2
          BY <3>1, SolveAppends
        <4>2. Len(funcBcs) + 2 \in 1..Len(funcBcs')
          BY <1>1, <4>1
        <4> QED
          BY <3>1, <4>2, SolveAppends
      <3>2. CASE ~ok
        <4>1. Len(funcBcs') = Len(funcBcs) + 1
          BY <3>2, SolveAppends
        <4>2. Len(funcBcs) + 1 \in 1..Len(funcBcs')
          BY <1>1, <4>1
        <4> QED
          BY <3>2, <4>2, SolveAppends
      <3> QED
        BY <3>1, <3>2
    <2> QED
      BY <1>1, <2>1 DEF ToSet
  <1>4. ASSUME ok PROVE <<"funcs-indirect", cnt>> \in ToSet(funcBcs')
    <2>1. Len(funcBcs') = Len(funcBcs) + 2
      BY <1>4, SolveAppends
    <2>2. Len(funcBcs) + 1 \in 1..Len(funcBcs')
      BY <1>1, <2>1
    <2>3. \E i \in 1..Len(funcBcs') : funcBcs'[i] = <<"funcs-indirect", cnt>>
      BY <1>4, <2>2, SolveAppends
    <2> QED
      BY <1>1, <2>3 DEF ToSet
  <1>5. Built' \subseteq ToSet(funcBcs')
    <2> SUFFICES ASSUME NEW f \in Built' PROVE f \in ToSet(funcBcs')
      OBVIOUS
    <2>1. CASE f \in Built
      <3>1. f = <<"funcs", f[2]>> \/ f = <<"funcs-indirect", f[2]>>
        BY <2>1 DEF Built, TypeOK
      <3>2. f \in ToSet(funcBcs) \/ f[2] = cnt
        BY <2>1 DEF BuiltIsLinked
      <3>3. <<"funcs-indirect", cnt>> \notin files
        BY DEF SolveFuncs, Numbered
      <3>4. f \in files
        BY <2>1 DEF Built
      <3> QED
        BY <1>2, <1>3, <3>1, <3>2, <3>3, <3>4
    <2>2. CASE f \notin Built
      <3>1. ok /\ f = <<"funcs-indirect", cnt>>
        BY <2>2 DEF SolveFuncs, Built
      <3> QED
        BY <1>4, <3>1
    <2> QED
      BY <2>1, <2>2
  <1> QED
    BY <1>5 DEF BuiltIsLinked

\* What an iteration built is on the list in the step that ends its solving,
\* and the linker comes after all of them.
LEMMA BuiltIsLinkedStep ==
    TypeOK /\ Numbered /\ LinkedLast /\ BuiltIsLinked /\ [Next]_vars => BuiltIsLinked'
  <1> SUFFICES ASSUME TypeOK, Numbered, LinkedLast, BuiltIsLinked, [Next]_vars
               PROVE  BuiltIsLinked'
    OBVIOUS
  <1>1. CASE PassesSucceed \/ LogIsMissing \/ PassesFail
    BY <1>1, PassesBuild
  <1>2. CASE \E ok \in BOOLEAN : SolveFuncs(ok)
    BY <1>2, SolveLists
  <1> QED
    BY <1>1, <1>2, KeepsBuilt

-----------------------------------------------------------------------------
(***************************************************************************)
(* Repeated work.                                                          *)
(***************************************************************************)

\* A run ends with its entry visited or failed, or the script dies.
LEMMA AccountedStep == TypeOK /\ Accounted /\ [Next]_vars => Accounted'
  <1> SUFFICES ASSUME TypeOK, Accounted, [Next]_vars PROVE Accounted'
    OBVIOUS
  <1>1. CASE SkipVisited
    BY <1>1 DEF SkipVisited, InLoop, Accounted, history
  <1>2. CASE TakeEntry
    <2>1. tried \subseteq covered \cup failed \cup OddEntries
      BY <1>2 DEF TakeEntry, InLoop, Accounted
    <2>2. tried' = tried \cup {queue'[head']}
      BY <1>2 DEF TakeEntry
    <2>3. UNCHANGED <<covered, failed>> /\ phase' = "translate" /\ ~crashed'
      BY <1>2 DEF TakeEntry
    <2> QED
      BY <2>1, <2>2, <2>3 DEF Accounted
  <1>3. CASE LeaveLoop
    BY <1>3 DEF LeaveLoop, Accounted, InLoop, history
  <1>4. CASE TranslatorExits
    BY <1>4 DEF TranslatorExits, Accounted, InLoop, history
  <1>5. CASE TranslatorDies
    BY <1>5 DEF TranslatorDies, Accounted, InLoop, history
  <1>6. CASE TranslatorNotStarted
    BY <1>6 DEF TranslatorNotStarted, Accounted, InLoop, history
  <1>7. CASE PassesSucceed
    <2>1. PICK reached \in SUBSET Addrs :
             /\ crashed \/ queue[head] \in reached \cup OddEntries
             /\ covered' = covered \cup reached
      BY <1>7 DEF PassesSucceed
    <2>2. tried \subseteq covered \cup failed \cup OddEntries \cup {queue[head]}
      BY <1>7 DEF PassesSucceed, Accounted
    <2>3. queue[head] \in failed \cup reached \cup OddEntries
      BY <1>7, <2>1 DEF PassesSucceed, Accounted
    <2>4. tried \subseteq covered' \cup failed \cup OddEntries
      BY <2>1, <2>2, <2>3
    <2> QED
      BY <1>7, <2>4 DEF PassesSucceed, Accounted, history
  <1>8. CASE LogIsMissing
    BY <1>8 DEF LogIsMissing, Accounted, InLoop, history
  <1>9. CASE PassesFail
    BY <1>9 DEF PassesFail, Accounted, InLoop, history
  <1>10. ASSUME NEW ok \in BOOLEAN, SolveFuncs(ok) PROVE Accounted'
    BY <1>10 DEF SolveFuncs, Accounted, InLoop, history
  <1>11. CASE SolveRemaining
    BY <1>11 DEF SolveRemaining, Accounted, InLoop, history
  <1>12. CASE MergeThumbBits
    BY <1>12 DEF MergeThumbBits, Accounted, InLoop, history
  <1>13. ASSUME NEW ok \in BOOLEAN, LinkFunctions(ok) PROVE Accounted'
    BY <1>13 DEF LinkFunctions, Accounted, InLoop, history
  <1>14. ASSUME NEW ok \in BOOLEAN, PassesPost(ok) PROVE Accounted'
    BY <1>14 DEF PassesPost, Accounted, InLoop, history
  <1>15. ASSUME NEW ok \in BOOLEAN, InlineHelpers(ok) PROVE Accounted'
    BY <1>15 DEF InlineHelpers, Accounted, InLoop, history
  <1>16. CASE ToolNotStarted
    BY <1>16 DEF ToolNotStarted, Accounted, InLoop, history
  <1>17. CASE CtrlC
    BY <1>17 DEF CtrlC, Accounted, InLoop, history
  <1>18. CASE UNCHANGED vars
    BY <1>18 DEF vars, history, output, Accounted, InLoop, history
  <1> QED
    BY <1>1, <1>2, <1>3, <1>4, <1>5, <1>6, <1>7, <1>8, <1>9, <1>10, <1>11, <1>12,
       <1>13, <1>14, <1>15, <1>16, <1>17, <1>18 DEF Next, Step

-----------------------------------------------------------------------------
(***************************************************************************)
(* The theorems.                                                           *)
(***************************************************************************)

\* The first state has nothing behind it.
LEMMA InitIInv == Init => IInv
  <1> SUFFICES ASSUME Init PROVE IInv
    OBVIOUS
  <1>1. TypeOK
    BY InitTypeOK
  <1>2. Remembered
    <2>1. DOMAIN queue = 1..Len(queue) /\ head + 1 = 1
      BY <1>1 DEF TypeOK, Init
    <2> QED
      BY <2>1 DEF Init, Remembered, Pending, ToSet
  <1>3. HeadTaken /\ Numbered /\ LinkedLast /\ SolvedFirst /\ BuiltIsLinked /\ Accounted
    BY DEF Init, HeadTaken, Numbered, LinkedLast, SolvedFirst, BuiltIsLinked, Built, Accounted
  <1> QED
    BY <1>1, <1>2, <1>3 DEF IInv

\* Every step keeps the invariant.
LEMMA StepIInv == IInv /\ [Next]_vars => IInv'
  BY TypeStep, HeadTakenStep, RememberedStep, NumberedStep, LinkedLastStep,
     SolvedFirstStep, BuiltIsLinkedStep, AccountedStep DEF IInv

\* The inductive invariant of the script.
THEOREM DriverInvariant == Spec => []IInv
  <1>1. Init => IInv
    BY InitIInv
  <1>2. IInv /\ [Next]_vars => IInv'
    BY StepIInv
  <1> QED
    BY <1>1, <1>2, PTL DEF Spec

\* Every variable of the script keeps its shape, whatever the tools do.
THEOREM DriverTypeCorrect == Spec => []TypeOK
  <1>1. IInv => TypeOK
    BY DEF IInv
  <1> QED
    BY <1>1, DriverInvariant, PTL

\* The main loop forgets no address, for lists of entries and of targets of
\* any length, with Ctrl-C and failing tools at any point.
THEOREM DriverForgetsNothing == Spec => []NothingForgotten
  <1>1. IInv => NothingForgotten
    <2> SUFFICES ASSUME IInv PROVE NothingForgotten
      OBVIOUS
    <2>1. found \subseteq covered \cup tried \cup {queue[i] : i \in (head + 1)..Len(queue)}
      BY DEF IInv, Remembered, Pending
    <2>2. phase \in {"link", "post", "inline", "done"} /\ shouldContinue =>
             {queue[i] : i \in (head + 1)..Len(queue)} = {}
      BY DEF IInv, TypeOK, Remembered
    <2> QED
      BY <2>1, <2>2 DEF NothingForgotten
  <1> QED
    BY <1>1, DriverInvariant, PTL

\* The list handed to the linker is in the order it relies on.
THEOREM DriverLinksSolvedFirst == Spec => []SolvedFirst
  <1>1. IInv => SolvedFirst
    BY DEF IInv
  <1> QED
    BY <1>1, DriverInvariant, PTL

\* All functions ever built are in what is linked; a file misses on the list
\* only while its iteration is in the solver, or if the script died there.
THEOREM DriverLinksAllBuilt == Spec => []BuiltIsLinked
  <1>1. IInv => BuiltIsLinked
    BY DEF IInv
  <1> QED
    BY <1>1, DriverInvariant, PTL

\* The loop repeats a run only after a failure or for an odd entry.
THEOREM DriverRetriesFailuresOnly == Spec => RetriedOnlyAfterFailure
  <1> DEFINE A == phase = "pop" /\ phase' = "translate" /\ queue'[head'] \in tried =>
                     queue'[head'] \in failed \cup OddEntries
  <1>1. IInv /\ [Next]_vars => [A]_vars
    <2> SUFFICES ASSUME IInv, [Next]_vars, phase = "pop", phase' = "translate",
                        queue'[head'] \in tried
                 PROVE  queue'[head'] \in failed \cup OddEntries
      OBVIOUS
    <2>1. TakeEntry
      BY DEF Next, Step, vars, SkipVisited, LeaveLoop, TranslatorExits, TranslatorDies,
             TranslatorNotStarted, PassesSucceed, LogIsMissing, PassesFail, SolveFuncs,
             SolveRemaining, MergeThumbBits, LinkFunctions, PassesPost, InlineHelpers,
             ToolNotStarted, CtrlC
    <2>2. queue'[head'] \notin covered
      BY <2>1 DEF TakeEntry
    <2>3. tried \subseteq covered \cup failed \cup OddEntries
      BY DEF IInv, Accounted
    <2> QED
      BY <2>2, <2>3
  <1> QED
    BY <1>1, DriverInvariant, PTL DEF Spec, RetriedOnlyAfterFailure
=============================================================================
