-------------------------------- MODULE Linker --------------------------------
(***************************************************************************)
(* postprocess/linker/main.cpp: the functions of several files are copied  *)
(* into one module, one function for each start address, and the stores    *)
(* that stand for direct calls are replaced by calls.                      *)
(*                                                                         *)
(* A file is a sequence of functions.  A function has the start address    *)
(* its first instruction carries (None if it carries none), whether its    *)
(* name is that of a translated block, the targets of its direct calls and *)
(* its operations, which matter to PostPasses only.  The driver lists a    *)
(* file with solved jumps before the one it was made from.                 *)
(***************************************************************************)
EXTENDS Integers, Sequences, SequencesExt, SeqFilter

CONSTANTS
    Addresses,      \* start addresses
    FileLists       \* the lists of files on the command line

None == -1

ASSUME FilesAssumption ==
    /\ Addresses \subseteq Nat
    /\ \A fs \in FileLists :
          /\ Len(fs) \in Nat /\ DOMAIN fs = 1..Len(fs)
          /\ \A i \in DOMAIN fs :
                /\ Len(fs[i]) \in Nat /\ DOMAIN fs[i] = 1..Len(fs[i])
                /\ \A j \in DOMAIN fs[i] :
                      /\ fs[i][j].start \in Addresses \cup {None}
                      /\ fs[i][j].block \in BOOLEAN
                      /\ fs[i][j].calls \in Seq(Nat)

VARIABLES
    files,
    step,           \* gather, regather, collect or done
    file,           \* the file that is read, 0 for the new module
    pos,            \* the next function of it, or of allFuncsList
    unread,         \* files that could not be loaded
    allFuncsMap,    \* from start addresses to functions
    allFuncsList,
    newModule,      \* the functions of the result
    directCalls     \* calls to be linked: caller, number of the call, callee

vars == <<files, step, file, pos, unread, allFuncsMap, allFuncsList, newModule,
          directCalls>>

\* A function is known by its file and its place in it.
Func(i, j) == <<i, j>>
Nobody == <<>>

Init ==
    /\ files \in FileLists
    /\ step = "gather"
    /\ file = 1
    /\ pos = 0
    /\ unread = {}
    /\ allFuncsMap = [a \in Addresses |-> Nobody]
    /\ allFuncsList = <<>>
    /\ newModule = <<>>
    /\ directCalls = <<>>

----------------------------------------------------------------------------
(* Gathering                                                               *)

\* ParseIRFile; a file that cannot be loaded is passed over.
LoadFile ==
    /\ step = "gather"
    /\ file <= Len(files)
    /\ pos = 0
    /\ pos' = 1
    /\ UNCHANGED <<files, step, file, unread, allFuncsMap, allFuncsList, newModule,
                   directCalls>>

\* Mutant: a file that cannot be loaded ends the loop.
SkipFileStop ==
    /\ step = "gather"
    /\ file <= Len(files)
    /\ pos = 0
    /\ unread' = unread \cup {file}
    /\ file' = Len(files) + 1
    /\ UNCHANGED <<files, step, pos, allFuncsMap, allFuncsList, newModule,
                   directCalls>>

SkipFile ==
    /\ step = "gather"
    /\ file <= Len(files)
    /\ pos = 0
    /\ unread' = unread \cup {file}
    /\ file' = file + 1
    /\ UNCHANGED <<files, step, pos, allFuncsMap, allFuncsList, newModule,
                   directCalls>>

\* The functions of the module that is read.
Module == IF file = 0 THEN newModule ELSE files[file]

IsNew(f) == allFuncsMap[f.start] = Nobody

\* gatherFuncsFromModule, one function
GatherFunc ==
    /\ step \in {"gather", "regather"}
    /\ file <= Len(files)
    /\ pos \in DOMAIN Module
    /\ LET f == Module[pos]
       IN  IF f.block /\ f.start # None /\ IsNew(f)
           THEN /\ allFuncsMap' = [allFuncsMap EXCEPT ![f.start] = Func(file, pos)]
                /\ allFuncsList' = Append(allFuncsList, Func(file, pos))
           ELSE UNCHANGED <<allFuncsMap, allFuncsList>>
    /\ pos' = pos + 1
    /\ UNCHANGED <<files, step, file, unread, newModule, directCalls>>

NextFile ==
    /\ step = "gather"
    /\ file <= Len(files)
    /\ pos > Len(files[file])
    /\ file' = file + 1
    /\ pos' = 0
    /\ UNCHANGED <<files, step, unread, allFuncsMap, allFuncsList, newModule,
                   directCalls>>

----------------------------------------------------------------------------
(* Cloning and linking                                                     *)

\* The copy of a function; linked: what its calls are replaced by; origin
\* is a history component.
Clone(fn) ==
    LET f == files[fn[1]][fn[2]]
    IN  [start |-> f.start, block |-> TRUE, calls |-> f.calls, body |-> f.body,
         linked |-> [k \in DOMAIN f.calls |-> Nobody], origin |-> fn]

\* allFuncsMap.clear()
ForgetMap == allFuncsMap' = [a \in Addresses |-> Nobody]

\* cloneFuncs; the map and the list are then built again for the copies
CloneFuncs ==
    /\ step = "gather"
    /\ file > Len(files)
    /\ newModule' = [i \in DOMAIN allFuncsList |-> Clone(allFuncsList[i])]
    /\ ForgetMap
    /\ allFuncsList' = <<>>
    /\ file' = 0
    /\ pos' = 1
    /\ step' = "regather"
    /\ UNCHANGED <<files, unread, directCalls>>

StartLinking ==
    /\ step = "regather"
    /\ pos > Len(newModule)
    /\ step' = "collect"
    /\ pos' = 1
    /\ UNCHANGED <<files, file, unread, allFuncsMap, allFuncsList, newModule,
                   directCalls>>

\* Mutant: calls behind an unknown one are not collected.
KnownCallsFirst(f) ==
    Keep([k \in DOMAIN f.calls |-> k],
         {k \in DOMAIN f.calls : \A j \in 1..k :
             f.calls[j] \in Addresses /\ allFuncsMap[f.calls[j]] # Nobody})

\* The calls of f whose target is in the map.
KnownCalls(f) ==
    Keep([k \in DOMAIN f.calls |-> k],
         {k \in DOMAIN f.calls :
             f.calls[k] \in Addresses /\ allFuncsMap[f.calls[k]] # Nobody})

\* linkFuncs: the calls of one function; unknown ones are passed over
CollectCalls ==
    /\ step = "collect"
    /\ pos <= Len(allFuncsList)
    /\ LET f == newModule[allFuncsList[pos][2]]
           known == KnownCalls(f)
       IN  directCalls' = directCalls \o
                [k \in DOMAIN known |->
                    <<allFuncsList[pos], known[k], allFuncsMap[f.calls[known[k]]]>>]
    /\ pos' = pos + 1
    /\ UNCHANGED <<files, step, file, unread, allFuncsMap, allFuncsList, newModule>>

\* ReplaceInstWithInst
LinkCall ==
    /\ step = "collect"
    /\ pos > Len(allFuncsList)
    /\ directCalls # <<>>
    /\ LET c == Head(directCalls)
       IN  newModule' = [newModule EXCEPT ![c[1][2]].linked[c[2]] = c[3]]
    /\ directCalls' = Tail(directCalls)
    /\ UNCHANGED <<files, step, file, pos, unread, allFuncsMap, allFuncsList>>

\* The module and the number of its functions are written.
Save ==
    /\ step = "collect"
    /\ pos > Len(allFuncsList)
    /\ directCalls = <<>>
    /\ step' = "done"
    /\ UNCHANGED <<files, file, pos, unread, allFuncsMap, allFuncsList, newModule,
                   directCalls>>

Next ==
    \/ LoadFile
    \/ SkipFile
    \/ GatherFunc
    \/ NextFile
    \/ CloneFuncs
    \/ StartLinking
    \/ CollectCalls
    \/ LinkCall
    \/ Save

Spec == Init /\ [][Next]_vars

----------------------------------------------------------------------------
(* Properties                                                              *)

Funcs == (Nat \X Nat) \cup {Nobody}

\* The variables have their types; the map and the list hold the same
\* functions.
TypeOK ==
    /\ files \in FileLists
    /\ step \in {"gather", "regather", "collect", "done"}
    /\ file \in 0..(Len(files) + 1)
    /\ pos \in Nat
    /\ unread \subseteq DOMAIN files
    /\ allFuncsMap \in [Addresses -> Funcs]
    /\ Range(allFuncsList) = Range(allFuncsMap) \ {Nobody}
    /\ \A i \in DOMAIN newModule :
            /\ newModule[i].start \in Addresses
            /\ newModule[i].linked \in [DOMAIN newModule[i].calls -> Funcs]

\* The functions of the files that were read.
Places == UNION {{i} \X DOMAIN files[i] : i \in DOMAIN files \ unread}

\* Those of them that have an address.
Candidates(a) ==
    {f \in Places : files[f[1]][f[2]].block /\ files[f[1]][f[2]].start = a}

Before(f, g) == f[1] < g[1] \/ (f[1] = g[1] /\ f[2] <= g[2])

\* The result has one function for each address that some readable file has
\* a function for, and it is the first of them in the order of the command
\* line: the one with solved jumps when the driver lists it first.
FirstFunctionWins ==
    step \in {"collect", "done"} =>
        \A a \in Addresses :
            LET copies == {i \in DOMAIN newModule : newModule[i].start = a}
            IN  IF Candidates(a) = {} THEN copies = {}
                ELSE \E i \in copies :
                        /\ copies = {i}
                        /\ newModule[i].origin \in Candidates(a)
                        /\ \A g \in Candidates(a) : Before(newModule[i].origin, g)

\* Every call whose target is in the result is linked with the copy of the
\* target in the result, never with a function of an input file, and a call
\* to another address stays a store.
CallsAreLinked ==
    step = "done" =>
        \A i \in DOMAIN newModule : \A k \in DOMAIN newModule[i].calls :
            LET t == newModule[i].calls[k]
                copies == {j \in DOMAIN newModule : newModule[j].start = t}
            IN  IF copies = {} THEN newModule[i].linked[k] = Nobody
                ELSE \E j \in copies : newModule[i].linked[k] = Func(0, j)
=============================================================================
