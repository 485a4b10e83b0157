-------------------------------- MODULE Driver --------------------------------
(***************************************************************************)
(* The driver script bin2llvm.py: a queue of entry points.  For each one   *)
(* it has not seen translated yet, it runs the translator, the LLVM        *)
(* passes, the solver of indirect jumps (twice) and the dump of the Thumb  *)
(* bits; the addresses the solver finds join the queue.  When the queue is *)
(* used up, or the user pressed Ctrl-C, what was built is linked.          *)
(*                                                                         *)
(* The tools are processes of their own, any of which may fail; the model  *)
(* keeps the files through which they speak to each other.  What a tool    *)
(* finds is any subset of the addresses.                                   *)
(***************************************************************************)
EXTENDS Integers, Sequences, FiniteSets, SequencesExt, SeqFilter

CONSTANTS
    Addrs,          \* the addresses of entry points
    EntryLists,     \* the lists of entries given on the command line
    OddEntries,     \* those with the Thumb bit set in the address itself
    ThumbSets,      \* the sets of Thumb bits a file or a tool may give
    TargetLists,    \* the lists of new targets a json file may hold
    MaxQueue,       \* bound on the entries ever queued
    NoModule        \* no translated_bbs.bc in s2e-last

ASSUME DriverAssumption ==
    /\ EntryLists \subseteq Seq(Addrs)
    /\ OddEntries \subseteq Addrs
    /\ \A th \in ThumbSets : th \subseteq Addrs
    /\ {} \in ThumbSets
    /\ TargetLists \subseteq Seq(Addrs)
    /\ MaxQueue \in Nat
    /\ NoModule \notin Nat

VARIABLES
    phase,          \* where the script is, see Phases
    queue,          \* entryQueue
    head,           \* the entries taken from it
    shouldContinue,
    cnt,            \* the iteration: the number in the names of its files
    covered,        \* the addresses cov.visited() is true for
    thumbFile,      \* the contents of the user's --thumb-bits-file
    thumbIn,        \* the contents of the file isThumbIn names
    thumbOut,       \* the contents of is-thumb-out-cnt.json, {} if unreadable
    module,         \* the iteration whose module is in s2e-last
    hasLog,         \* qemu-cnt.log exists
    files,          \* the bitcode files written so far, as <<kind, iteration>>
    funcBcs,        \* func_bcs, the files for the linker
    product,        \* none, linked, post or final: how far the output got
    tried,          \* history: the entries the translator was started for
    failed,         \* history: the entries whose translator or passes failed
    found,          \* history: all addresses given or discovered
    crashed,        \* history: the translator died in this iteration
    warned          \* history: a crash of the translator was reported

vars == <<phase, queue, head, shouldContinue, cnt, covered, thumbFile, thumbIn,
          thumbOut, module, hasLog, files, funcBcs, product, tried, failed,
          found, crashed, warned>>

history == <<tried, failed, found, crashed, warned>>
output == <<funcBcs, product>>

Phases == {"pop", "translate", "passes", "solve", "remaining", "thumb",
           "link", "post", "inline", "done", "died"}

Init ==
    /\ phase = "pop"
    /\ queue \in EntryLists
    /\ head = 0
    /\ shouldContinue = TRUE
    /\ cnt = 0
    /\ covered = {}
    /\ thumbFile \in ThumbSets
    /\ thumbIn = thumbFile
    /\ thumbOut = {}
    /\ module = NoModule
    /\ hasLog = FALSE
    /\ files = {}
    /\ funcBcs = <<>>
    /\ product = "none"
    /\ tried = {}
    /\ failed = {}
    /\ found = ToSet(queue)
    /\ crashed = FALSE
    /\ warned = FALSE

-----------------------------------------------------------------------------
\* Mutant: the last entry of the queue is left over.
InLoopButLast == phase = "pop" /\ head + 1 < Len(queue) /\ shouldContinue

\* The condition of the main loop.
InLoop == phase = "pop" /\ head < Len(queue) /\ shouldContinue

\* Mutant: a visited entry stays at the head of the queue.
SkipStays ==
    /\ InLoop
    /\ queue[head + 1] \in covered
    /\ UNCHANGED vars

\* The entry was translated in an earlier iteration.
SkipVisited ==
    /\ InLoop
    /\ queue[head + 1] \in covered
    /\ head' = head + 1
    /\ UNCHANGED <<phase, queue, shouldContinue, cnt, covered, thumbFile, thumbIn,
                   thumbOut, module, hasLog, files, output, history>>

\* The files of functions ever written.
Built == {f \in files : f[1] # "remaining"}

\* Mutant: the coverage is not asked when an entry is taken.
TakeEntryUnchecked ==
    /\ InLoop
    /\ head' = head + 1
    /\ tried' = tried \cup {queue[head + 1]}
    /\ phase' = "translate"
    /\ files' = Built
    /\ crashed' = FALSE
    /\ warned' = FALSE
    /\ UNCHANGED <<queue, shouldContinue, cnt, covered, thumbFile, thumbIn,
                   thumbOut, module, hasLog, output, failed, found>>

\* Write the configuration files for the entry.
TakeEntry ==
    /\ InLoop
    /\ queue[head + 1] \notin covered
    /\ head' = head + 1
    /\ tried' = tried \cup {queue[head + 1]}
    /\ phase' = "translate"
    /\ files' = Built
    /\ crashed' = FALSE
    /\ warned' = FALSE
    /\ UNCHANGED <<queue, shouldContinue, cnt, covered, thumbFile, thumbIn,
                   thumbOut, module, hasLog, output, failed, found>>

LeaveLoop ==
    /\ phase = "pop"
    /\ ~InLoop
    /\ phase' = "link"
    /\ UNCHANGED <<queue, head, shouldContinue, cnt, covered, thumbFile, thumbIn,
                   thumbOut, module, hasLog, files, output, history>>

-----------------------------------------------------------------------------
(***************************************************************************)
(* run_translator.                                                         *)
(***************************************************************************)

\* The translator ran to its end, see ExitProcess of RecursiveDescent.
TranslatorExits ==
    /\ phase = "translate"
    /\ phase' = "passes"
    /\ module' = cnt
    /\ hasLog' = TRUE
    /\ thumbOut' \in ThumbSets
    /\ UNCHANGED <<queue, head, shouldContinue, cnt, covered, thumbFile, thumbIn,
                   files, output, history>>

\* It died, before or after it saved its module; s2e-last is a directory of
\* this run.  CalledProcessError is caught, and the result is still true.
TranslatorDies ==
    /\ phase = "translate"
    /\ phase' = "passes"
    /\ module' \in {NoModule, cnt}
    /\ hasLog' = TRUE
    /\ thumbOut' = {}
    /\ crashed' = TRUE
    /\ failed' = failed \cup {queue[head]}
    /\ UNCHANGED <<queue, head, shouldContinue, cnt, covered, thumbFile, thumbIn,
                   files, output, tried, found, warned>>

\* It could not be started (OSError): s2e-last is that of an earlier run.
TranslatorNotStarted ==
    /\ phase = "translate"
    /\ phase' = "passes"
    /\ hasLog' = FALSE
    /\ thumbOut' = {}
    /\ warned' = TRUE
    /\ UNCHANGED <<queue, head, shouldContinue, cnt, covered, thumbFile, thumbIn,
                   module, files, output, tried, failed, found, crashed>>

-----------------------------------------------------------------------------
(***************************************************************************)
(* run_passes_pre, and the coverage that only a success extends.           *)
(***************************************************************************)

\* The log of a translator that ran to its end has the entry, which is then
\* visited, unless its Thumb bit puts it behind the interval (see Coverage).
PassesSucceed ==
    /\ phase = "passes"
    /\ module # NoModule
    /\ hasLog
    /\ phase' = "solve"
    /\ files' = files \cup {<<"funcs", cnt>>, <<"remaining", cnt>>}
    /\ \E reached \in SUBSET Addrs :
          /\ crashed \/ queue[head] \in reached \cup OddEntries
          /\ covered' = covered \cup reached
    /\ UNCHANGED <<queue, head, shouldContinue, cnt, thumbFile, thumbIn, thumbOut,
                   module, hasLog, output, history>>

\* The passes ran over the module of an earlier run; opening the log that
\* the translator never wrote raises IOError, which nothing catches.
LogIsMissing ==
    /\ phase = "passes"
    /\ module # NoModule
    /\ ~hasLog
    /\ phase' = "died"
    /\ files' = files \cup {<<"funcs", cnt>>, <<"remaining", cnt>>}
    /\ UNCHANGED <<queue, head, shouldContinue, cnt, covered, thumbFile, thumbIn,
                   thumbOut, module, hasLog, output, history>>

\* opt fails; -buildfunctions may have saved its functions by then.
PassesFail ==
    /\ phase = "passes"
    /\ phase' = "solve"
    /\ \/ files' = files
       \/ module # NoModule /\ files' = files \cup {<<"funcs", cnt>>}
    /\ failed' = failed \cup {queue[head]}
    /\ UNCHANGED <<queue, head, shouldContinue, cnt, covered, thumbFile, thumbIn,
                   thumbOut, module, hasLog, output, tried, found, crashed, warned>>

-----------------------------------------------------------------------------
(***************************************************************************)
(* run_indirect_solver and the targets it leaves in a json file.           *)
(***************************************************************************)

\* Mutant: only the first of the new addresses is queued.
EnqueueFirst(new) ==
    /\ queue' = queue \o Keep(IF new = <<>> THEN new ELSE <<Head(new)>>,
                             Addrs \ covered)
    /\ Len(queue') <= MaxQueue
    /\ found' = found \cup ToSet(new)

\* The addresses in the json file are queued, without those visited.
Enqueue(new) ==
    /\ queue' = queue \o Keep(new, Addrs \ covered)
    /\ Len(queue') <= MaxQueue
    /\ found' = found \cup ToSet(new)

\* Mutant: the unsolved functions come first.
SolveAppendsLast(ok) ==
    /\ phase = "solve"
    /\ phase' = "remaining"
    /\ IF <<"funcs", cnt>> \in files
       THEN \E new \in TargetLists : Enqueue(new)
       ELSE ~ok /\ UNCHANGED <<queue, found>>
    /\ files' = IF ok THEN files \cup {<<"funcs-indirect", cnt>>} ELSE files
    /\ funcBcs' = funcBcs \o <<<<"funcs", cnt>>>>
                          \o (IF ok THEN <<<<"funcs-indirect", cnt>>>> ELSE <<>>)
    /\ UNCHANGED <<head, shouldContinue, cnt, covered, thumbFile, thumbIn, thumbOut,
                   module, hasLog, product, tried, failed, crashed, warned>>

\* Mutant: a failure of the solver also drops the functions it started from.
SolveDropsFuncs(ok) ==
    /\ phase = "solve"
    /\ phase' = "remaining"
    /\ IF <<"funcs", cnt>> \in files
       THEN \E new \in TargetLists : Enqueue(new)
       ELSE ~ok /\ UNCHANGED <<queue, found>>
    /\ files' = IF ok THEN files \cup {<<"funcs-indirect", cnt>>} ELSE files
    /\ funcBcs' = IF ok THEN funcBcs \o <<<<"funcs-indirect", cnt>>, <<"funcs", cnt>>>>
                  ELSE funcBcs
    /\ UNCHANGED <<head, shouldContinue, cnt, covered, thumbFile, thumbIn, thumbOut,
                   module, hasLog, product, tried, failed, crashed, warned>>

\* The solver on the functions, and the files the linker will get.
SolveFuncs(ok) ==
    /\ phase = "solve"
    /\ phase' = "remaining"
    /\ IF <<"funcs", cnt>> \in files
       THEN \E new \in TargetLists : Enqueue(new)
       ELSE ~ok /\ UNCHANGED <<queue, found>>
    /\ files' = IF ok THEN files \cup {<<"funcs-indirect", cnt>>} ELSE files
    /\ funcBcs' = funcBcs \o (IF ok THEN <<<<"funcs-indirect", cnt>>>> ELSE <<>>)
                          \o <<<<"funcs", cnt>>>>
    /\ UNCHANGED <<head, shouldContinue, cnt, covered, thumbFile, thumbIn, thumbOut,
                   module, hasLog, product, tried, failed, crashed, warned>>

\* The solver on the remaining blocks; its result is not looked at.
SolveRemaining ==
    /\ phase = "remaining"
    /\ phase' = "thumb"
    /\ IF <<"remaining", cnt>> \in files
       THEN \E new \in TargetLists : Enqueue(new)
       ELSE UNCHANGED <<queue, found>>
    /\ UNCHANGED <<head, shouldContinue, cnt, covered, thumbFile, thumbIn, thumbOut,
                   module, hasLog, files, output, tried, failed, crashed, warned>>

\* run_arm_dump_thumb_bit and merge_arm_thumb_bit: the next iteration gets
\* the bits this one wrote and those dumped from its functions, and files of its
\* own, which do not exist yet.
MergeThumbBits ==
    /\ phase = "thumb"
    /\ \E dumped \in ThumbSets :
          /\ <<"funcs-indirect", cnt>> \notin files => dumped = {}
          /\ thumbIn' = thumbOut \cup dumped
    /\ cnt' = cnt + 1
    /\ thumbOut' = {}
    /\ hasLog' = FALSE
    /\ phase' = "pop"
    /\ UNCHANGED <<queue, head, shouldContinue, covered, thumbFile, module, files,
                   output, history>>

-----------------------------------------------------------------------------
(***************************************************************************)
(* After the loop.                                                         *)
(***************************************************************************)

\* run_custom_linker: it skips the files it cannot load and makes do with
\* none at all, when it writes an empty module.
LinkFunctions(ok) ==
    /\ phase = "link"
    /\ product' = IF ok THEN "linked" ELSE product
    /\ phase' = IF ok THEN "post" ELSE "inline"
    /\ UNCHANGED <<queue, head, shouldContinue, cnt, covered, thumbFile, thumbIn,
                   thumbOut, module, hasLog, files, funcBcs, history>>

\* run_passes_post
PassesPost(ok) ==
    /\ phase = "post"
    /\ product' = IF ok THEN "post" ELSE product
    /\ phase' = "inline"
    /\ UNCHANGED <<queue, head, shouldContinue, cnt, covered, thumbFile, thumbIn,
                   thumbOut, module, hasLog, files, funcBcs, history>>

\* generate_helper_bc and run_inline_mmu_helpers, tried in any case
InlineHelpers(ok) ==
    /\ phase = "inline"
    /\ ok => product = "post"
    /\ product' = IF ok THEN "final" ELSE product
    /\ phase' = "done"
    /\ UNCHANGED <<queue, head, shouldContinue, cnt, covered, thumbFile, thumbIn,
                   thumbOut, module, hasLog, files, funcBcs, history>>

\* opt, llvm-link or the linker could not be started: only run_translator
\* catches OSError, so the script ends with a traceback.
ToolNotStarted ==
    /\ phase \in {"passes", "solve", "remaining", "thumb", "link", "post", "inline"}
    /\ phase' = "died"
    /\ UNCHANGED <<queue, head, shouldContinue, cnt, covered, thumbFile, thumbIn,
                   thumbOut, module, hasLog, files, output, history>>

\* signal_handler, at any moment the script runs
CtrlC ==
    /\ phase \notin {"done", "died"}
    /\ shouldContinue' = FALSE
    /\ UNCHANGED <<phase, queue, head, cnt, covered, thumbFile, thumbIn, thumbOut,
                   module, hasLog, files, output, history>>

Step ==
    \/ SkipVisited
    \/ TakeEntry
    \/ LeaveLoop
    \/ TranslatorExits
    \/ TranslatorDies
    \/ TranslatorNotStarted
    \/ PassesSucceed
    \/ LogIsMissing
    \/ PassesFail
    \/ \E ok \in BOOLEAN : SolveFuncs(ok)
    \/ SolveRemaining
    \/ MergeThumbBits
    \/ \E ok \in BOOLEAN : LinkFunctions(ok)
    \/ \E ok \in BOOLEAN : PassesPost(ok)
    \/ \E ok \in BOOLEAN : InlineHelpers(ok)
    \/ ToolNotStarted

Next == Step \/ CtrlC

\* The script runs on as long as the tools return.
Spec == Init /\ [][Next]_vars /\ WF_vars(Step)

-----------------------------------------------------------------------------
\* The shape of every variable.
TypeOK ==
    /\ phase \in Phases
    /\ queue \in Seq(Addrs)
    /\ head \in 0..Len(queue)
    /\ shouldContinue \in BOOLEAN
    /\ cnt \in Nat
    /\ covered \subseteq Addrs
    /\ thumbFile \subseteq Addrs
    /\ thumbIn \subseteq Addrs
    /\ thumbOut \subseteq Addrs
    /\ module \in Nat \cup {NoModule}
    /\ hasLog \in BOOLEAN
    /\ files \subseteq {"funcs", "remaining", "funcs-indirect"} \X Nat
    /\ funcBcs \in Seq({"funcs", "funcs-indirect"} \X Nat)
    /\ product \in {"none", "linked", "post", "final"}
    /\ tried \subseteq Addrs
    /\ failed \subseteq Addrs
    /\ found \subseteq Addrs
    /\ crashed \in BOOLEAN
    /\ warned \in BOOLEAN

\* No address is lost between the queue, the coverage and the failures: what
\* was given or discovered was translated in some iteration, had a run of its
\* own or is still queued, also after Ctrl-C, and nothing is left in the queue
\* when the loop ends by itself.
NothingForgotten ==
    LET left == {queue[i] : i \in (head + 1)..Len(queue)}
    IN  /\ found \subseteq covered \cup tried \cup left
        /\ (phase \in {"link", "post", "inline", "done"} /\ shouldContinue) => left = {}

\* The linker keeps the first function it meets for an address: within an
\* iteration it meets the solved functions first, and iterations in order.
SolvedFirst ==
    \A i, j \in DOMAIN funcBcs :
       i < j => \/ funcBcs[i][2] < funcBcs[j][2]
                \/ /\ funcBcs[i][2] = funcBcs[j][2]
                   /\ funcBcs[i][1] = "funcs-indirect"
                   /\ funcBcs[j][1] = "funcs"

\* Functions that were built are in all that is linked, whatever failed in
\* their iteration or in a later one and whenever Ctrl-C came.  A file misses
\* on the list only while its iteration is in the solver, or where the script
\* itself dies there: then nothing is linked at all.
BuiltIsLinked ==
    /\ \A f \in Built \ ToSet(funcBcs) : f[2] = cnt /\ phase \in {"solve", "died"}
    /\ product # "none" => Built \subseteq ToSet(funcBcs)

\* Work is repeated only where nothing came of it: an entry that was taken
\* before is taken again only if its translator or its passes failed, however
\* often it was queued meanwhile, or if it has the Thumb bit.
RetriedOnlyAfterFailure ==
    [][phase = "pop" /\ phase' = "translate" /\ queue'[head'] \in tried =>
            queue'[head'] \in failed \cup OddEntries]_vars

\* Every queued entry is taken from the queue, unless the user stops the
\* script or it dies; and a script that was stopped goes on to the end of what
\* comes after the loop, whichever tool it was running for an entry.
QueueDrains ==
    /\ \A i \in 1..MaxQueue :
          (i <= Len(queue)) ~> (head >= i \/ ~shouldContinue \/ phase = "died")
    /\ ~shouldContinue ~> phase \in {"done", "died"}

-----------------------------------------------------------------------------
\* "Json file with a list of entries that we know that are in thumb mode":
\* what is known stays known; an iteration whose translator dies hands on the
\* user's Thumb bits that it was given.
CrashKeepsThumbBits ==
    [][phase = "thumb" /\ crashed => (thumbIn \cap thumbFile) \subseteq thumbIn']_vars

\* "(initial) crashed with entry: 0x%08x": a crash of the translator is
\* reported as such before its passes are run.
CrashIsReported == (phase = "passes" /\ crashed) => warned
=============================================================================
