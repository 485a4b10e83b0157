# bin2llvm in TLA+

bin2llvm lifts ARM binaries to LLVM. This directory specifies the parts of it
that have state, checks them with TLC on small instances and proves with TLAPS the
main properties of the recursive descent plugin, of the driver with its coverage and of
the linker.

## The system

```
 bin2llvm.py ── elf_parser: segments in files, entries, Thumb entries
   │
   ├──starts──> QEMU/S2E + RecursiveDescentDisassembler     (once per entry)
   │   ▲                    reads  machine.json, already-explored-N, isThumbIn, jump tables
   │   │                    writes s2e-last/translated_bbs.bc, is-thumb-out-N, qemu-N.log
   │   └─ qemu-N.log ──> CoverageStatusQemu ──> already-explored-(N+1)
   ├──starts──> opt -transfrombbtovoid ... -fixoverlappedbbs ... -armmark* ... -buildfunctions
   │                        funcs-N.bc, remaining-N.bc
   ├──starts──> opt -solveindirectsingle (twice)     new-targets-*.json ──> entry queue
   ├──starts──> opt -armdumpthumbbit                 merged into the next isThumbIn
   └──at the end──> linker, post passes, inlining of the memory helpers
```

| Component | State it keeps | Operations | What makes it correct |
|---|---|---|---|
| Recursive descent plugin (`RecursiveDescentDisassembler`) | visited PCs, intervals of earlier runs, stack and map of scheduled PCs, ARM/Thumb mode per PC, translated blocks | one callback per translated block; save; exit | every reachable block once, in the mode its predecessor recorded; nothing lost; it ends |
| Target harvesting (`ExtractPossibleTargetsPass`, `ARMGetThumbBit`) | targets, implicit target, Thumb bits of one block | `runOnFunction` | the targets, in order, and one Thumb bit |
| Coverage (`CoverageStatusQemu`) | sorted list of intervals | extend with a log; `visited` | sorted; exactly what was logged |
| Driver (`bin2llvm.py`) | queue of entries, files of functions written, list of files to link | the main loop; one process per tool | no address lost when tools fail; what is built is linked, solved functions first |
| ELF reader (`elf_parser.do_elf`) | segments saved, targets inside them | sections; one program header after another | the saved memory is what a loader maps |
| Environment rewriting (`S2EInlineHelpersPass`, `S2ETransformPass`) | the function, replacements, instructions to erase | inline helpers in rounds; follow the uses of the CPU state; replace; erase | loads and stores of registers keep their meaning; nothing in use is erased; it ends |
| Overlapping blocks (`TransformBBToVoid`, `TagInstPc`, `RemoveExtraStoreToPC`, `S2EDeleteInstructionCount`, `FixOverlappedBBs`) | the module | cut a block where another begins | no instruction in two blocks; each block still does what it did |
| Constant loads (`ReplaceConstantLoads`) | the segments, the jump tables | replace loads; annotate switches | exactly the values the memory holds |
| Marks (`ARMMarkCall`, `ARMMarkReturn`, `ARMMarkJumps`, `MarkFuncEntry`) | metadata of stores to PC | one mark per store | each store to PC gets exactly one kind |
| Function builder (`BuildFunctions`) | blocks by start, functions | explore from an entry; inline; four fix-ups | a function holds the blocks its entry reaches; each block ends in one terminator |
| Indirect solver, Thumb dump (`SolveIndirectSingle`, `ARMDumpThumbBit`) | constants by global and instruction | read the optimised copy; annotate and replace; write the addresses found | a store gets no value but its own |
| Linker (`linker/main.cpp`) | functions by start | gather, clone, link calls | one function per address; known calls are linked |
| Post passes (`InternalizeGlobals`, `FunctionRename`, `LoadAliasReplacePass`) | the linked module, pairs of a load and a store | rename; replace loads by what was stored | a value used is the value the variable held |

The components speak through files and exit codes. There is one thread per
process and one process at a time; what is hard is not concurrency but
failure and order: the emulator may die at any point, leaving some of its
files written; the driver does not always notice; the same PC is met as a
target many times, with different modes, before and after it is translated; the
same addresses come back from the solver while the coverage grows. The file
`PROJECT.json` lists these hazards line by line with the properties that cover
them.

## Modules

| Module | Models |
|---|---|
| `Harvest` | what the two harvesting passes answer about a block, as functions of it |
| `HarvestPasses` | the loops of `ExtractPossibleTargetsPass::runOnFunction` and `ARMGetThumbBit::runOnFunction` |
| `RecursiveDescent` | one run of the plugin |
| `Worklist` | the abstract specification of an exploration, which `RecursiveDescent` implements |
| `RecursiveDescentProofs` | the theorems about `RecursiveDescent`, and that it implements `Worklist` |
| `SeqFilter` | the loops of the driver, the coverage, the linker and the passes that keep some members of a list |
| `SeqFilterProofs` | what such a loop keeps, and induction over numbers for the other proofs |
| `HarvestPassesProofs`, `DriverProofs`, `CoverageProofs`, `FixOverlapsProofs`, `FunctionBuilderProofs`, `LinkerProofs` | the theorems about these modules; `LinkerProofs` has those about `PostPasses` too |
| `Coverage` | `CoverageStatusQemu` |
| `Driver` | the main loop of `bin2llvm.py`, with the tools as processes that may fail |
| `EnvRewrite` | `S2EInlineHelpersPass` and `S2ETransformPass` |
| `FixOverlaps` | the passes from `-transfrombbtovoid` to `-dce`, which make the blocks disjoint |
| `ConstantLoads` | `ReplaceConstantLoads` |
| `ElfReader` | `elf_parser.do_elf`, composed with `ConstantLoads`: the pass reads the segments that were saved |
| `FunctionBuilder` | `ARMMarkCall`, `ARMMarkReturn`, `ARMMarkJumps`, `MarkFuncEntry`, `BuildFunctions` |
| `IndirectSolver` | `SolveIndirectSingle` and `ARMDumpThumbBit` |
| `Linker` | `linker/main.cpp` |
| `PostPasses` | the passes over the linked module, composed with `Linker`: they work on its result |
| `MC*` | the instances that TLC checks |

Definitions that are preceded by "Mutant:" are deliberately wrong variants of the
definition that follows them; each breaks one property, which shows that the
property depends on that code. They are used by no specification.

### RecursiveDescent

`slotExecuteBlockStart` is called before each translated block would run and
never lets it run. The handler is cut into steps at each iteration of its two
loops and at each write to a file, because the process may die there:

| Action | Code |
|---|---|
| `Retranslate` | the block was translated in the other mode than the one recorded for its PC |
| `TranslateBlock`, `AssertFails` | record the block, harvest its targets, add its jump table |
| `ScheduleTarget` | one iteration of the schedule loop: `explorePCLater` and the mode |
| `PickValid`, `PickInvalid` | one iteration of the loop over `getNextRealPC` and `prepareStateForNextRealPC` |
| `SaveModule`, `ExitProcess` | `createAndSaveTranslatedBasicBlocksAsAModule`, `exit()` |
| `Crash` | QEMU dies |

The memory is a function from PC and mode to what translating there yields
(`Block`): its end, its targets in order, the implicit target, the Thumb bit.
The records come from `Harvest`, and `HarvestPasses` shows that the loops of the
passes compute them. `IsPCInVisitedIntervalsBsearch` is what the C++ function
does: the loop variable `mid` is declared a second time inside the loop, the
outer one stays -1, and -1 is compared as a `size_t` (`AsSize`, `SizeMod` stands
for 2^64). Input files with an address that has bit 0 set in `isThumbIn`, and
malformed JSON, end the process in `initialize()` before the first step and are
not modelled.

### Driver and Coverage

`Driver` keeps the files through which the tools speak to each other. A tool
succeeds, fails with the files it may leave in that case, or cannot be started
(`OSError`, which only `run_translator` catches). `files` has the files of functions of every
iteration so far, with its number; `Built` are those with functions the driver may link. The linker
skips a file it cannot read, and makes an empty module of an empty list. What the solver or the dump of
the Thumb bits finds is any set of addresses. `covered` stands for the answer of
`visited`; `Coverage` models how that answer comes about from the logs. A
temporary directory with files of an earlier invocation is not modelled.

### The passes

Each pass is one action, or one action per iteration of its loop where the order of
the iterations matters. An assertion that fails ends `opt`: the step is then
"aborted", and the driver sees a failed pass.

The passes of `EnvRewrite` run in the plugin, on each new block, after its targets and
before its Thumb bit are harvested. The module has straight-line
code: no decision of its passes reads basic blocks or types. A value is a sequence of numbers, so that the instructions of an inlined helper are named
after the call they came from (`c \o <<k>>`) and the instruction that replaces i is
`i \o <<0>>`. `processArgUse` and `processEnvUse` call each other along the uses of a
pointer; `stack` holds the calls under way, one step per use, with what
`recursiveSuccess` is in each. `flat` is a history variable: the function after inlining,
which the properties compare with the result. An offset without a register's name gets
a variable of its own. What LLVM's `InlineFunction` does is modelled from its use.

`FixOverlaps` begins with `TransformBBToVoid`, which goes through the functions of the
module (`funcs`) while it appends a copy of each block to the same list, and removes the
originals afterwards. It keeps of the code of a block one operation per thing the passes look at:
the store to PC and the counting of each guest instruction, its effect if it has one,
and the exits. A `memory` says at each halfword how long the instruction there is,
whether it has an effect and whether it ends the block; what QEMU makes of it
(`Instructions`, `Body`) and what `-dce` removes is external. The load that belongs to
the counter comes before the effect of its instruction, as in QEMU's output; the cut
falls behind it. Conditional instructions in the middle of a block, and one address
read as ARM and as Thumb, are left out.

`ConstantLoads` numbers the operations of a function; the result of a load is a
variable, and `replaceAllUsesWith` puts a number in its place. Addresses and words are
numbers, bytes are read in the order of `MemoryPool::read`. `ElfReader` begins without
segments (`PoolLists` is `{<<>>}`), reads the program headers of an ELF file one by one,
saves each loadable one rounded to pages of `PageSize` bytes, and then runs the pass on
them; what `nm` and `readelf` list is part of the input.

`FunctionBuilder` sees a translated block as its LLVM basic blocks with their stores to
PC and LR. The value of a store is a constant, computed from LR (what `usesLR`
recognises), or computed otherwise. `-gvn`, which runs after `ARMMarkCall`, may turn a
computed value into a constant; for the passes that follow this is the same as a
constant from the begin. The positions in `func` are the positions of the basic blocks
in the new function; the map from PCs to them is computed from `func` where the code
builds it again. Whether `getValueSwitchedOn` finds the index is an input (`idx`). A case of a switch is
the k-th target of its list; the number it stands for (`idx_start` + k,
counted from 0, BuildFunctions.cpp:596) is in `ConstantLoads` (`first`), where the annotation is made.

`IndirectSolver` has a block as the stores to globals in its basic blocks, in order,
with the `INS_currPC` that `RemoveExtraStoreToPC` attached to them; which variables
`-gvn` finds constant is an input. `Linker` has functions with a start address (or
none) and the targets of their direct calls; a file may be unreadable. `PostPasses` goes on
with the linked functions, each as one basic block of stores, loads, calls and uses; of LLVM's
optimisations that run between its passes only one effect is modelled: `FunctionRename` names a
function after the `INS_currPC` of the first instruction they left in it (`FrontPCs`), which may
be that of a later guest instruction, and leaves the name alone if there is none.

## Runs

| Run | Question |
|---|---|
| `recursive_descent` | what the saved module and the Thumb bits may be relied on for; is it an exploration in the sense of `Worklist`, does it end, and does the inductive invariant of the proofs hold |
| `harvest_passes` | do the loops compute what `Harvest` defines |
| `coverage` | are the merged intervals sorted, complete and sound |
| `driver` | does a failure or Ctrl-C lose an address or keep functions that were built from what is linked, does a stopped script go on to the linker, and is an entry translated again only after a failure |
| `env_rewrite` | does inlining end, is nothing erased that is used, does a load of a register get the value of the same store as before |
| `fix_overlaps` | is each block rewritten once; do blocks, cut and linked, still have their effects, each in one function only; when does `opt` abort |
| `constant_loads` | is every byte of a segment read; are exactly the loads replaced whose value the segments determine, and are the tables complete, with their indices |
| `function_builder` | does a function hold what its entry reaches, does control go where the stores to PC said, and is what is called built |
| `indirect_solver` | does every store get the value the optimiser found for it, and what does the Thumb dump write |
| `linker` | one function per address, the first; every known call linked inside the result; loads replaced by what their block stored last |

Two runs end in TLC's counterexample, where the code does not do what its comments say;
`PROJECT.json` quotes the comments under "findings".

| Run | What the counterexample shows |
|---|---|
| `already_explored` | the binary search over earlier intervals never finds anything: a target inside one is translated again |
| `solved_true` | of a block with two exits the computed jump is given the constant of the other exit, because the stores of both carry the same `INS_currPC` |

### Statements the code does not keep

More statements of comments, assertions and the help text are definitions of the modules
but are not among the runs: TLC refutes each of them when it is added to the INVARIANTs
(PROPERTYs for the two that speak of steps) of the configuration of its module. They are
kept as the statement to check after a change of that code. P stands for
`src/postprocess/translator`, H for `src/harvesting-passes`.

| Definition | What is said | What the counterexample shows |
|---|---|---|
| `RecursiveDescent!ReexploresExtracted` | "once extracted, we can reexplore the same pc" (H/RecursiveDescentDisassembler.cpp:426) | `explorePCLater` asks for the key of the map, not its value: an extracted PC is never scheduled again |
| `RecursiveDescent!KnownThumbIsThumb` | "entries that we know that are in thumb mode" (bin2llvm.py:601) | a block in ARM mode that jumps to such an address overwrites its mode |
| `HarvestPasses!LastStoreToPCDecides` | "search for the last store to PC in this basic block" (H/ExtractPossibleTargetsPass.cpp:79) | the last constant store counts, also when a computed value overwrites it |
| `Driver!CrashKeepsThumbBits` | the same help text, bin2llvm.py:601 | after a crash of the translator the list given to the next one is empty |
| `Driver!CrashIsReported` | "(initial) crashed with entry" (bin2llvm.py:726) | `run_translator` returns True when the translator died |
| `FixOverlaps!StartIsKnown` | `assert(pcEndNode)` (P/FixOverlappedBBs.cpp:214) | a cut block of which `-dce` leaves only the link has no `BB_pcStart`: the next pass aborts |
| `FunctionBuilder!VisitedAreRemoved` | "schedule visited functions for removal" (P/BuildFunctions.cpp:200) | the loop's condition is `funci != funci`; nothing is removed |
| `FunctionBuilder!ReturnIsNoCall` | "we should not have marked already as a Call" (P/ARMMarkReturn.cpp:70) | `blx lr` is marked as a call and then taken for a return: `opt` aborts |
| `IndirectSolver!DumpsThumbTargets` | "save thumb bit to a file" of blocks that store to thumb and PC (P/ARMDumpThumbBit.cpp:47) | the value stored to thumb is written in place of the address |
| `ElfReader!BssIsZero` | "add padding" where zeros are appended (src/pymodules/elf_parser.py:36) | the bytes of the file that follow a segment are read in place of its zeros |
| `PostPasses!CallsMayStore` | "replace load from a global with the use of store" (P/LoadViaGlobalAliasReplace.cpp:26), which is meant to keep what the function computes | a load behind a linked call, which may store to the variable, is replaced too |
| `PostPasses!NamedByStart` | "Rename final function is function@0xADDR" (P/FunctionRename.cpp:38) | when LLVM has removed the first instructions, the name is the address of a later one, or none |
| `ConstantLoads!CasesArePCs` | "load cnt_entries entries and push them as new PCs" (P/ReplaceConstantLoads.cpp:235) | an entry of a Thumb table keeps bit 0, and no block has such a start |

Some properties of the runs say exactly where the code falls short:

* `NoInstructionTwice` excepts blocks that ended at QEMU's instruction limit, since only
  blocks with a common last instruction are compared; `AbortsIffMisaligned` says that
  `assert(found)` fails exactly when one reading begins inside an instruction of the
  other; `StartLostIffEmpty`, that the start of a block is lost exactly when a cut leaves
  it nothing with an effect.
* `WellFormed` (of `FunctionBuilder`) says that a basic block lacks its terminator exactly
  when it ends in a switch whose index was not found; `ControlFlowKept`, which cases of a
  switch may go to the fake block, or behind the begin of their block, although it is in the
  function: those whose block begins with nothing but a jump to another block of the
  function; `CalledIsBuilt`, that a function is written exactly for what some
  block calls in its first basic block.
* `RetriedOnlyAfterFailure` excepts entries with the Thumb bit: an interval ends at the
  first byte of its last instruction, so that such an entry may never count as covered.
* `InliningEnds` says that the inliner runs for ever exactly when a call leads to a helper
  without a body; `ReadsKept` excepts registers that overlap and code the pass does not see
  through.
* `ThumbDumpIsZeros` says that the Thumb dump writes zeros and no address.
* `ImageIsRead`: a byte under an earlier segment that was rounded over it is not that of its
  own segment; it lies as far from the start of the earlier one as in the file.
* `StoresForwarded` speaks of what the block itself stored; a linked call that stores
  in between is the subject of `CallsMayStore`.
* `BuiltIsLinked` excepts the end of the script by an `OSError`: then nothing is linked.

**Bounds.** `MCRecursiveDescent` has four addresses, three of them code, each
holding one of eleven forms of block: that is enough for loops, self jumps,
diamonds, a call with its return address, a block found in both modes by two
predecessors, a PC outside the memory that is met twice, and an assertion that
fails. There are four jump tables, three interval lists and three sets of known
Thumb addresses. `MCHarvestPasses` enumerates all functions of two basic blocks with
two stores each: the passes keep no more than the last store per register and
one flag across blocks. `MCCoverage` reads two logs of three lines over five
addresses, so that every pair of neighbours (same, +2, +4, farther, backwards)
and every merge of two lists occurs. `MCDriver` has two addresses and a queue of
at most three entries (`MaxQueue`), enough for an entry to be queued again while
it is covered, tried or failing, and the solver finds nothing or any list of entries
(`MCTargetLists`); the bound also cuts off the rediscovery of an entry whose
passes fail every time. `OddEntries` are the entries with the Thumb bit that the coverage
does not find (the end of an interval).

`MCEnvRewrite` has blocks with two derived pointers, of which one may be at an unknown
offset, and three accesses, calls or other uses of them; of the three helpers one uses the
state through `env`, one calls the first, one has no body. Accesses of one and two bytes
make registers overlap.

`MCFixOverlaps` takes every code of four halfwords out of five forms of instruction and
up to three blocks of it in every order of the module: three are needed for a list in
which a block is cut after its neighbour, and for two lists. `MaxInsts` is QEMU's limit
on the instructions of a block, here three, so that some blocks end at it. `MCFunctionBuilder` has three blocks of 34
forms each, of which one is the target of branches from two others, an entry, or both; the
address 8 is in no block. `MCConstantLoads` has four operations, so that a chain of three
loads ends in a store to PC, and four ELF files with pages of four bytes: one segment,
one rounded over the next with memory that is not in the file, one off the page boundary
at the end of the file, one that the assertion on its offset rejects; the ends of the
segments are met by loads of two and four bytes. One table is off the word boundary, and its
second word runs over the end of a segment; one has indices that begin at 3. `MCIndirectSolver` has three blocks of one
instruction, of 27 forms: one whose exit points at
the second, the second, and a third that reads the table after both. `MCLinker` has two
files of two functions each over two addresses, and calls to a third; for the post passes,
one function of four operations and a use that may call itself, which is enough for a
chain of two copies between variables with a call anywhere in it.

**Fairness.** The plugin and the passes are sequential programs: weak fairness of
their own steps (not of `Crash`, not of `CtrlC`) says that they are not suspended
forever. Weak fairness of the driver's steps also assumes that each tool returns;
for the translator this is `Termination` of `RecursiveDescent`. `EnvRewrite` has weak
fairness of its whole next-state relation: two loops of one thread. Deadlock checking
is off because all of the systems end.

## What is proved

`RecursiveDescentProofs` proves for every set of PCs, memory, jump table, list of
intervals, set of known Thumb PCs and entry, from the assumptions
`PCsAssumption`, `InputsAssumption` (targets are addresses, intervals are not
reversed) and `SizeModAssumption` (a list of intervals has fewer than 2^64
members):

* `TypeCorrect`: `TypeOK` always holds. Its inductive form `TypeInv` adds that the
  inputs keep the types they were assumed to have.
* `InductiveInvariant`: `TypeInv /\ Inv` always holds. That no address is translated
  twice is not inductive by itself: it needs that nothing on the stack was visited
  and nothing is on it twice (`StackInv`), that the PC in the CPU is not a block
  (`ExecuteInv`), and that `m_visitedPC` is exactly the earlier starts and the blocks
  (`VisitedInv`). That the saved module is closed needs the place of every target at
  every step (`NoTargetLost`): a block, on the stack, still to be scheduled, in the
  CPU, explored earlier or not code; a PC that was unscheduled is one of these
  because of `UnscheduledInv`. That the mode of a block was recorded by a block that
  found it needs `ModeInv` for the PCs on the stack, since later blocks may
  overwrite the mode of a PC that waits, and `ScheduleInv`, by which the targets
  still to be handled belong to the block in the CPU.
* `BlocksDistinct`, `BlocksDiscovered`, `ModuleClosed`: the safety properties, from `Inv`.
* `RetranslatesOnlyEntry`: an action property, from `Inv`.
* `BsearchNeverFinds`: the binary search answers false on every list.

* `ThumbBitsBelongToModule`: wherever the process dies, Thumb bits are on disk only when a
  module with at least one block is there (`ThumbBitsAfterModule`).

**The plugin implements `Worklist`** (`RecursiveDescentProofs`, theorem
`PluginExplores`). `Frontier`, `Discarded`, `Edges` and `Status` are what the abstract
specification sees of the plugin: what is on the stack or still to be scheduled, what was
taken from it and is not code. `TranslateBlock` is the abstract translation;
`PickInvalid` discards a target; `SaveModule` and the end of an exploration, a crash
included, end the abstract one; the others change nothing that is visible. Each case needs
the inductive invariant: that `ScheduleTarget` is a stutter holds because the target it
drops was visited or is on the stack already.

`Harvest`, `Driver`, `Coverage`, `FixOverlaps`, `Linker` and `FunctionBuilder` loop over lists. What such a loop keeps
is `SeqFilter!KeepAt`, a recursive function of the position. The induction theorems of the
library take an operator and cannot be instantiated, so `SeqFilterProofs` derives what is
needed from well-founded orderings of finite sets: a non-empty set of numbers has a least
member (`LeastNat`), a set that has 0 and with n also n + 1 has all of them
(`SetInduction`), and a function given by its value at 0 and a step exists
(`RecursiveFunction`). From these, `KeepAtOrder` says that `KeepAt(s, I)` has the members of
s at the positions in I, in their order; `KeepMembers`, `KeepFirstMembers` and
`FlattenMembers` say which members `Keep`, `KeepFirst` and `FlattenSeq` return;
`KeepAtAppend` and `FlattenAppend` say what one more member changes.

**Harvest** (`HarvestPassesProofs`), for functions of any number of basic blocks with any
number of stores of any constants (`FunctionsAssumption`):

* `HarvestInvariant`: the registers found in an exit are the last constants of the stores
  seen in it (`PositionInv`); the targets, the implicit target and the Thumb bits are those
  of the part of the function the pass went through (`Extracted`, `Seen`).
* `HarvestComputed` (`LoopsComputeHarvest`). That the assertion stops no function which
  `Harvest` calls harvestable needs `ImplicitTargetsGrow`: the pass dies in the middle, and
  a function stores no fewer link registers than its beginning.

**Driver** (`DriverProofs`), for every set of addresses, every answer of the solver
(`TargetLists`, any lists of addresses) and every order of failures:

* `DriverInvariant`: what was found is covered, tried or still in the queue (`Remembered`);
  while tools run an entry was taken (`HeadTaken`); the files in the list and on disk are those of
  this and of earlier iterations, and this one's are not in the list before the solver is
  through (`Numbered`); nothing is linked before the loop has ended (`LinkedLast`); an entry that was tried is covered, failed, has the Thumb bit or is the one
  at work, which has not crashed or has failed (`Accounted`).
* `DriverForgetsNothing`, `DriverLinksSolvedFirst`, `DriverLinksAllBuilt` (`NothingForgotten`,
  `SolvedFirst`, `BuiltIsLinked`), and the action property `DriverRetriesFailuresOnly`.
  `BuiltIsLinked` relates what every iteration wrote to what the linker gets at the end, over
  all failures between; the step out of the solver needs that the list is complete but for
  the iteration at work. The last one needs `Accounted`: an entry may be queued many times, and what keeps it from a
  second run is that a run without a failure ends with the entry covered.

**Coverage** (`CoverageProofs`), for logs of any length over any addresses:

* `CoverageInvariant`: while a log is read an interval is open from its first line on and
  ends at the last line read (`ScanInv`); every logged address is inside an interval of one
  of the lists, the open interval included, while it is read, sorted and merged
  (`CoverInv`); every address inside is at most three bytes behind a logged one
  (`TightInv`); the merged list is sorted and starts before all that is still to be merged
  (`SortInv`).
* `CoverageIsSorted`, `CoverageIsComplete`, `CoverageIsTight` (`IntervalsSorted`,
  `LoggedIsVisited`, `VisitedIsLogged`).

**Linker** (`LinkerProofs`), for every list of files with any number of functions, any of
which may be unreadable:

* `LinkerInvariant`: while files are read, the map has for each address the first of the
  functions seen (`GatherInv`, where `Seen` is the part of the files before the place that
  is read) and the list has what the map has, once; the copies have distinct addresses and
  each is the first candidate for its own (`ModuleInv`); gathering again puts copy i at
  place i (`CopyInv`); a call is linked, left alone for good, collected, or in a function
  not looked at yet (`LinkInv`).
* `LinkerTakesFirst`, `LinkerLinksCalls` (`FirstFunctionWins`, `CallsAreLinked`).

**PostPasses** (`LinkerProofs`), for bodies of any length in which an operation uses
constants and loads before it (`BodiesAssumption`):

* `PostInvariant`: the invariant of the linker, and that of the passes (`PostInv`). A body has
  the operations it was copied with, and what an operation uses is known to be what it used at
  first (`BodiesInv`, where `Known` follows loads to the stores they read from). While the pairs
  of a function are collected, those of later loads come first and the first pair of a load is
  that of the store nearest to it (`CollectInv`). While they are replaced, a load that reads
  from a store of the block either waits, its first pair still in the list, or is used by
  nothing and has no later turn (`ReplaceInv`). Both halves are needed: a replacement may bring
  an earlier load into use again, because a stored value may be a load itself, and only since
  later loads come first is that load's turn still to come. The pairs of a load behind its
  first one change nothing.
* `PassesForwardStores` (`StoresForwarded`), and `PassesKeepLinks` (`FirstFunctionWins`,
  `CallsAreLinked`): the passes change nothing but bodies.

**FunctionBuilder** (`FunctionBuilderProofs`), for every module of blocks that end at even
addresses and carry no marks yet, with any number of basic blocks, stores, switch cases and
targets. A block begins with an instruction, a store or a branch of its own, and a basic
block has at most one store to PC, which leaves the block: `RemoveExtraStoreToPC` erases the
other constant ones, and a computed one is the last thing QEMU puts in a block
(`BlocksAssumption`).

* `BuilderInvariant`: the marks of a store are those that its value and the stores before it
  call for, as far as the passes have come (`ModInv`, where `MarksAt` gives the marks for
  each pass); the entries are the blocks that some block calls in its first basic block (`EntriesInv`); the functions
  built are those of the entries before the current place (`BuiltInv`); while a function is
  explored, the followers of every block but those still to be expanded are in it, and no
  closed set with the entry leaves one of its blocks out (`ExploreInv`); a function that is
  being fixed up, or is built, is what the stores in the module make of it, as far as the
  fixups have come (`BodyInv`).
* `BuilderMarksOnce`, `BuilderTakesClosure`, `BuilderBuildsCalled` (`OneMark`,
  `FunctionIsClosure`, `CalledIsBuilt`). The closure needs the marks: `exploreBB` asks for
  one mark after the other, and only because a store has exactly one does it follow all of
  `Follow`. That lemma is `NextIsFollow`.
* `BuilderWellFormed`, `BuilderKeepsFlow` (`WellFormed`, `ControlFlowKept`). `FunctionOK`
  says of each basic block that it is the copy of its source less the store that a fixup
  erased, with the terminator that its store calls for once the mark is fixed and with the
  one it was copied with before (`FixedTo`, `TermsOK`); that the first basic block of a block
  comes before the others of it; and that the fake block is there if anything jumps through
  a register. A fixup neither moves basic blocks nor touches those without its mark, so what
  the earlier fixups did remains. Erasing a store may take the metadata that `buildBBMap`
  looks for from a block, but only if the block began with nothing but a fixed jump: that is
  why returns of calls and direct jumps, which are looked up before anything is erased, find
  the first basic block of their target, and why cases of a switch may not.
  `fixup_entry` shifts all positions by one, and afterwards no branch goes to the first.

**FixOverlaps** (`FixOverlapsProofs`), for every code, any number of blocks and every order
of them in the module:

* `FixOverlapsRewritesOnce` (`RewrittenOnce`). `TransformBBToVoid` appends to the list it
  goes through, so the invariant (`RewritingInv`) says exactly what the list is: the module
  as it was, and behind it the copies of the blocks the loop has passed, in their order.
  When the loop meets the copies it adds nothing, so it ends, with one copy of every block.
* The other theorems rest on two more parts of the invariant. `CodeInv` says what a body is
  at every pass: the operations of the instructions from the start of the block up to its cut
  (the start of the function it is linked with, or its end), each once, in the order of the
  addresses, and of an instruction just the kinds of operations no pass has deleted yet. From
  this the body is determined (`IncreasingEqual`: increasing sequences with the same members
  are equal). `LinksInv` says which functions are linked while `truncateFuncAndLinkWith` goes
  through the lists of blocks that end together: in the lists that are done each block but the
  last is linked with its neighbour by start, in the list at work those before the current one
  are, and `overlaps` has the lists to come (`EndingsInv`); and it says why a pass stopped `opt`.
* `FixOverlapsKeepsEffects` (`SplitKeepsEffects`): a block that was cut at t has the effects
  before t, and t, which is one of its instructions or the assertion would have failed, those
  from t on: two readings of the code that have one instruction in common agree from there.
  Since a link goes to a higher address, what a block runs is found by induction from the end
  of its list.
* `FixOverlapsNothingTwice` (`NoInstructionTwice`): blocks that have an instruction in common
  and did not end at QEMU's limit end together, so one was cut before the other.
* `FixOverlapsAbortsRightly`, `FixOverlapsLosesStarts` (`AbortsIffMisaligned`,
  `StartLostIffEmpty`), both ways: only neighbours in a list are compared, and that is enough,
  because a block that has the start of its neighbour among its instructions has all that
  the neighbour has.

Each inductive invariant was an INVARIANT of the module's instance before it was proved.
`Accounted` had to be strengthened by "no entry has crashed while its translator runs": it
held in every reachable state, but did not follow from itself. The proof about
`ControlFlowKept` showed that it held on the instance only because no block there was cut
right behind its first jump: the rest of such a block takes the place of its begin in the
map, so `CaseKept` allows for it and `Cuts` has such a block.

Only model-checked: liveness (`Termination`, `QueueDrains`, `InliningEnds`), which is out
of the prover's reach, and the properties of `IndirectSolver`, `EnvRewrite`, `ConstantLoads`
and `ElfReader`. Those follow recursive evaluations of code (the value of an expression, the
offset of a derived pointer, the bytes of an image) and compare them with others of a
different shape, which needs an induction over data for every one of them.

## Not modelled

* The command line and the configuration texts, and `paths.py` (names of files): their
  results are constants here.
* The x86 build of the plugin, which has no modes.
* `S2EExtractAndBuildPass` and `S2EARMMergePcThumbPass`: no run of the program names them.
* Dead code of modelled passes: `fixupEnvStruct`, `fixupStores` and `fixupLoads` of
  `S2ETransformPass`, whose calls are commented out.
* `PrintCPUOffsets`, which prints constants, and `RemoveBranchTrace`, which deletes calls
  that no modelled pass reads.
* `PassUtils` (options and log streams) and `MetaUtils` (getters and setters of metadata,
  which the models of the passes that call them hold as fields).
* `capstone_indirect_pc.py`, a program of its own that the driver never starts.
* LLVM's own optimisations, except for what the passes around them rely on (`-dce` in
  `FixOverlaps`, `-gvn` in `IndirectSolver`).

## Plan

1. Done: every component of the program that has state, from the ELF reader to the post
   passes; the abstract specification of the exploration; the proofs about the plugin.
2. Done, proofs: the refinement of `Worklist` and the safety properties of
   `RecursiveDescent`, `HarvestPasses`, `Driver`, `Coverage`, `FixOverlaps`, `FunctionBuilder`,
   `Linker` and `PostPasses`. Possible next: `SolvedExactly` of `IndirectSolver` and
   `LoadsReplaced` of `ConstantLoads`.
3. Possible compositions: `FixOverlaps` with `FunctionBuilder`, so that the marks are set on
   blocks that were really cut; `ConstantLoads` feeding the switches of `FunctionBuilder`;
   `Linker` behind `Driver`, with the order that `SolvedFirst` guarantees; one address read
   as ARM and as Thumb in `FixOverlaps`.
