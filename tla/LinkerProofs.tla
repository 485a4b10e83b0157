----------------------------- MODULE LinkerProofs -----------------------------
(***************************************************************************)
(* Theorems about Linker and PostPasses, for every list of files with any  *)
(* number of functions, any of which may be unreadable, and functions with *)
(* bodies of any length.                                                   *)
(***************************************************************************)
EXTENDS PostPasses, SeqFilterProofs

Start(f) == files[f[1]][f[2]].start

TypeInv ==
    /\ files \in FileLists
    /\ step \in {"gather", "regather", "collect", "done"}
    /\ file \in 0..(Len(files) + 1)
    /\ step = "gather" => file >= 1
    /\ step # "gather" => file = 0
    /\ pos \in Nat
    /\ step # "gather" => pos >= 1
    /\ unread \subseteq DOMAIN files
    /\ step = "gather" => \A i \in unread : i < file
    /\ allFuncsMap \in [Addresses -> Funcs]
    /\ allFuncsList \in Seq(Nat \X Nat)

\* The functions read so far.
Seen == {f \in Places : f[1] < file \/ (f[1] = file /\ f[2] < pos)}

\* Those of them that have an address.
Hits(a) == {f \in Seen : files[f[1]][f[2]].block /\ Start(f) = a}

\* While the files are read the map has the first function seen for each
\* address, and the list has what the map has, once.
FirstSeen(a) ==
    IF allFuncsMap[a] = Nobody THEN Hits(a) = {}
    ELSE /\ allFuncsMap[a] \in Hits(a)
         /\ \A g \in Hits(a) : Before(allFuncsMap[a], g)

ListInv ==
    /\ \A i \in DOMAIN allFuncsList :
          /\ Start(allFuncsList[i]) \in Addresses
          /\ allFuncsList[i] = allFuncsMap[Start(allFuncsList[i])]
          /\ allFuncsList[i] # Nobody
    /\ \A a \in Addresses :
          allFuncsMap[a] # Nobody =>
             \E i \in DOMAIN allFuncsList : allFuncsList[i] = allFuncsMap[a]
    /\ \A i, j \in DOMAIN allFuncsList : allFuncsList[i] = allFuncsList[j] => i = j

GatherInv == step = "gather" => (\A a \in Addresses : FirstSeen(a)) /\ ListInv

\* The copies: one for each address there is a function for, made from the
\* first of them.
CopyOK(f) ==
    /\ DOMAIN f = {"start", "block", "calls", "body", "linked", "origin"}
    /\ f.block = TRUE
    /\ f.start \in Addresses
    /\ f.calls \in Seq(Nat)
    /\ DOMAIN f.linked = DOMAIN f.calls
    /\ f.origin \in Candidates(f.start)
    /\ \A g \in Candidates(f.start) : Before(f.origin, g)

ModuleInv ==
    step # "gather" =>
       /\ Len(newModule) \in Nat /\ DOMAIN newModule = 1..Len(newModule)
       /\ \A i \in DOMAIN newModule : CopyOK(newModule[i])
       /\ \A i, j \in DOMAIN newModule : newModule[i].start = newModule[j].start => i = j
       /\ \A a \in Addresses :
             Candidates(a) # {} => \E i \in DOMAIN newModule : newModule[i].start = a

\* The copies that were gathered again.
Again == IF step = "regather" THEN pos - 1 ELSE Len(newModule)

CopyInv ==
    step # "gather" =>
       /\ Again <= Len(newModule)
       /\ Len(allFuncsList) = Again
       /\ \A i \in 1..Again : /\ allFuncsList[i] = <<0, i>>
                              /\ allFuncsMap[newModule[i].start] = <<0, i>>
       /\ \A a \in Addresses :
             allFuncsMap[a] # Nobody => \E i \in 1..Again : newModule[i].start = a

\* What a call to t is to be replaced by.
Target(t) == IF t \in Addresses THEN allFuncsMap[t] ELSE Nobody

Entry(i, k) == <<<<0, i>>, k, Target(newModule[i].calls[k])>>

\* What is collected stands for a call of a copy.
EntriesInv ==
    \A m \in 1..Len(directCalls) :
       \E i \in DOMAIN newModule : \E k \in DOMAIN newModule[i].calls :
          directCalls[m] = Entry(i, k)

\* A call is linked, or left alone for good, or collected and not linked yet,
\* or one of a function that linkFuncs has not come to.
WaitInv ==
    \A i \in DOMAIN newModule : \A k \in DOMAIN newModule[i].calls :
       \/ newModule[i].linked[k] = Target(newModule[i].calls[k])
       \/ /\ newModule[i].linked[k] = Nobody
          /\ \/ i >= pos
             \/ \E m \in 1..Len(directCalls) : directCalls[m] = Entry(i, k)

LinkInv ==
    /\ directCalls \in Seq((Nat \X Nat) \X Nat \X Funcs)
    /\ step \in {"gather", "regather"} => directCalls = <<>>
    /\ step = "regather" =>
          \A i \in DOMAIN newModule : \A k \in DOMAIN newModule[i].calls :
             newModule[i].linked[k] = Nobody
    /\ step \in {"collect", "done"} => EntriesInv
    /\ step = "collect" => WaitInv
    /\ step = "done" =>
          \A i \in DOMAIN newModule : \A k \in DOMAIN newModule[i].calls :
             newModule[i].linked[k] = Target(newModule[i].calls[k])

IInv == TypeInv /\ GatherInv /\ ModuleInv /\ CopyInv /\ LinkInv

-----------------------------------------------------------------------------
(***************************************************************************)
(* Files and places.                                                       *)
(***************************************************************************)

\* The shape of the files on the command line.
LEMMA FileFacts ==
    ASSUME TypeInv
    PROVE  /\ Len(files) \in Nat /\ DOMAIN files = 1..Len(files)
           /\ \A i \in DOMAIN files :
                 /\ Len(files[i]) \in Nat /\ DOMAIN files[i] = 1..Len(files[i])
                 /\ \A j \in DOMAIN files[i] :
                       /\ files[i][j].start \in Addresses \cup {None}
                       /\ files[i][j].block \in BOOLEAN
                       /\ files[i][j].calls \in Seq(Nat)
  BY FilesAssumption DEF TypeInv

\* A place is a pair of a readable file and an index in it.
LEMMA PlaceFacts ==
    ASSUME TypeInv, NEW f
    PROVE  f \in Places <=> \E i \in DOMAIN files \ unread : \E j \in DOMAIN files[i] :
                               f = <<i, j>>
  <1>1. ASSUME f \in Places
        PROVE  \E i \in DOMAIN files \ unread : \E j \in DOMAIN files[i] : f = <<i, j>>
    <2>1. PICK i \in DOMAIN files \ unread : f \in {i} \X DOMAIN files[i]
      BY <1>1 DEF Places
    <2> QED
      BY <2>1
  <1>2. ASSUME NEW i \in DOMAIN files \ unread, NEW j \in DOMAIN files[i], f = <<i, j>>
        PROVE  f \in Places
    <2>1. f \in {i} \X DOMAIN files[i]
      BY <1>2
    <2> QED
      BY <2>1 DEF Places
  <1> QED
    BY <1>1, <1>2

\* Its parts.
LEMMA PlaceParts ==
    ASSUME TypeInv, NEW f \in Places
    PROVE  /\ f = <<f[1], f[2]>>
           /\ f[1] \in DOMAIN files /\ f[1] \notin unread
           /\ f[2] \in DOMAIN files[f[1]]
           /\ f[1] \in Nat /\ f[1] >= 1 /\ f[2] \in Nat /\ f[2] >= 1
  <1>1. PICK i \in DOMAIN files \ unread : \E j \in DOMAIN files[i] : f = <<i, j>>
    BY PlaceFacts
  <1>2. PICK j \in DOMAIN files[i] : f = <<i, j>>
    BY <1>1
  <1>3. i \in 1..Len(files) /\ Len(files) \in Nat /\ j \in 1..Len(files[i])
        /\ Len(files[i]) \in Nat
    BY FileFacts
  <1> QED
    BY <1>2, <1>3

\* The function GatherFunc looks at.
LEMMA GatherModule ==
    ASSUME TypeInv, ModuleInv, GatherFunc
    PROVE  /\ pos \in Nat /\ pos >= 1
           /\ step = "gather" => /\ file \in DOMAIN files /\ Module = files[file]
                                 /\ pos \in DOMAIN files[file] /\ file \in Nat
           /\ step = "regather" => /\ file = 0 /\ Module = newModule
                                   /\ pos \in DOMAIN newModule
           /\ Module[pos].start \in Addresses \cup {None}
           /\ Module[pos].block \in BOOLEAN
           /\ step \in {"gather", "regather"}
  <1>1. step \in {"gather", "regather"} /\ file <= Len(files) /\ pos \in DOMAIN Module
    BY DEF GatherFunc
  <1>2. CASE step = "gather"
    <2>1. file \in Nat /\ file >= 1 /\ file \in 1..Len(files)
      BY <1>1, <1>2, FileFacts DEF TypeInv
    <2>2. Module = files[file] /\ file \in DOMAIN files
      BY <2>1, FileFacts DEF Module
    <2>3. pos \in DOMAIN files[file]
      BY <1>1, <2>2
    <2>4. pos \in Nat /\ pos >= 1
      BY <2>2, <2>3, FileFacts
    <2> QED
      BY <1>2, <2>1, <2>2, <2>3, <2>4, FileFacts
  <1>3. CASE step = "regather"
    <2>1. file = 0 /\ Module = newModule
      BY <1>3 DEF TypeInv, Module
    <2>2. pos \in DOMAIN newModule /\ pos \in Nat /\ pos >= 1
      BY <1>1, <1>3, <2>1 DEF ModuleInv
    <2>3. newModule[pos].start \in Addresses /\ newModule[pos].block \in BOOLEAN
      BY <1>3, <2>2 DEF ModuleInv, CopyOK
    <2> QED
      BY <1>3, <2>1, <2>2, <2>3
  <1> QED
    BY <1>1, <1>2, <1>3

-----------------------------------------------------------------------------
(***************************************************************************)
(* Types.                                                                  *)
(***************************************************************************)

\* Every step keeps the types.
LEMMA TypeStep == TypeInv /\ ModuleInv /\ [Next]_vars => TypeInv'
  <1> SUFFICES ASSUME TypeInv, ModuleInv, [Next]_vars PROVE TypeInv'
    OBVIOUS
  <1>1. CASE LoadFile
    BY <1>1 DEF LoadFile, TypeInv
  <1>2. CASE SkipFile
    <2>1. file \in DOMAIN files /\ file + 1 \in 0..(Len(files) + 1) /\ file \in Nat
      BY <1>2, FileFacts DEF SkipFile, TypeInv
    <2>2. \A i \in unread : i \in Nat /\ i < file
      BY <1>2, FileFacts DEF SkipFile, TypeInv
    <2>3. \A i \in unread \cup {file} : i < file + 1
      BY <2>1, <2>2
    <2> QED
      BY <1>2, <2>1, <2>3 DEF SkipFile, TypeInv
  <1>3. CASE GatherFunc
    <2>1. <<file, pos>> \in Nat \X Nat /\ <<file, pos>> \in Funcs
      BY <1>3, GatherModule DEF Funcs, TypeInv
    <2>2. allFuncsMap' \in [Addresses -> Funcs] /\ allFuncsList' \in Seq(Nat \X Nat)
      <3>1. CASE allFuncsMap' = [allFuncsMap EXCEPT ![Module[pos].start] = <<file, pos>>]
                 /\ allFuncsList' = Append(allFuncsList, <<file, pos>>)
        <4> DEFINE v == <<file, pos>>
                   x == Module[pos].start
        <4>1. allFuncsMap \in [Addresses -> Funcs] /\ allFuncsList \in Seq(Nat \X Nat)
          BY DEF TypeInv
        <4>2. v \in Funcs /\ v \in Nat \X Nat
          BY <2>1
        <4>3. /\ allFuncsMap' = [allFuncsMap EXCEPT ![x] = v]
              /\ allFuncsList' = Append(allFuncsList, v)
          BY <3>1
        <4> HIDE DEF v, x
        <4>4. allFuncsMap' \in [Addresses -> Funcs]
          BY <4>1, <4>2, <4>3
        <4>5. allFuncsList' \in Seq(Nat \X Nat)
          BY <4>1, <4>2, <4>3
        <4> QED
          BY <4>4, <4>5
      <3>2. CASE UNCHANGED <<allFuncsMap, allFuncsList>>
        BY <3>2 DEF TypeInv
      <3> QED
        BY <1>3, <3>1, <3>2 DEF GatherFunc, Func
    <2>3. UNCHANGED <<files, step, file, unread>> /\ pos' = pos + 1
      BY <1>3 DEF GatherFunc
    <2> QED
      BY <2>2, <2>3 DEF TypeInv
  <1>4. CASE NextFile
    <2>1. file + 1 \in 0..(Len(files) + 1) /\ file \in Nat
      BY <1>4, FileFacts DEF NextFile, TypeInv
    <2>2. \A i \in unread : i \in Nat /\ i < file
      BY <1>4, FileFacts DEF NextFile, TypeInv
    <2>3. \A i \in unread : i < file + 1
      BY <2>1, <2>2
    <2> QED
      BY <1>4, <2>1, <2>3 DEF NextFile, TypeInv
  <1>5. CASE CloneFuncs
    <2>1. allFuncsMap' \in [Addresses -> Funcs]
      BY <1>5 DEF CloneFuncs, ForgetMap, Funcs
    <2>2. allFuncsList' \in Seq(Nat \X Nat)
      BY <1>5 DEF CloneFuncs
    <2>3. 0 \in 0..(Len(files) + 1)
      BY FileFacts
    <2> QED
      BY <1>5, <2>1, <2>2, <2>3 DEF CloneFuncs, TypeInv
  <1>6. CASE StartLinking
    BY <1>6 DEF StartLinking, TypeInv
  <1>7. CASE CollectCalls
    <2>1. UNCHANGED <<files, step, file, unread, allFuncsMap, allFuncsList>> /\ pos' = pos + 1
      BY <1>7 DEF CollectCalls
    <2> QED
      BY <2>1 DEF TypeInv
  <1>8. CASE LinkCall
    <2>1. UNCHANGED <<files, step, file, pos, unread, allFuncsMap, allFuncsList>>
      BY <1>8 DEF LinkCall
    <2> QED
      BY <2>1 DEF TypeInv
  <1>9. CASE Save
    BY <1>9 DEF Save, TypeInv
  <1>10. CASE UNCHANGED vars
    BY <1>10 DEF vars, TypeInv
  <1> QED
    BY <1>1, <1>2, <1>3, <1>4, <1>5, <1>6, <1>7, <1>8, <1>9, <1>10 DEF Next

-----------------------------------------------------------------------------
(***************************************************************************)
(* Gathering.                                                              *)
(***************************************************************************)

\* Loading a file, passing over it, and leaving it behind its last function
\* shows no function.
LEMMA SeenSame ==
    ASSUME TypeInv, LoadFile \/ SkipFile \/ NextFile
    PROVE  Seen' = Seen
  <1>0. files' = files /\ file \in Nat
    BY DEF LoadFile, SkipFile, NextFile, TypeInv
  <1>1. CASE LoadFile
    <2>1. pos = 0 /\ pos' = 1 /\ file' = file /\ unread' = unread
      BY <1>1 DEF LoadFile
    <2>2. Places' = Places
      BY <1>0, <2>1 DEF Places
    <2>3. \A f \in Places : (f[1] < file' \/ (f[1] = file' /\ f[2] < pos'))
                           <=> f[1] < file \/ (f[1] = file /\ f[2] < pos)
      BY <2>1, PlaceParts
    <2> QED
      BY <2>2, <2>3 DEF Seen
  <1>2. CASE SkipFile
    <2>1. pos = 0 /\ pos' = 0 /\ file' = file + 1 /\ unread' = unread \cup {file}
      BY <1>2 DEF SkipFile
    <2>2. \A f : f \in Places' <=> f \in Places /\ f[1] # file
      <3>1. ASSUME NEW f \in Places' PROVE f \in Places /\ f[1] # file
        <4>1. PICK i \in DOMAIN files \ (unread \cup {file}) : f \in {i} \X DOMAIN files[i]
          BY <1>0, <2>1 DEF Places
        <4>2. f[1] = i
          BY <4>1
        <4> QED
          BY <4>1, <4>2 DEF Places
      <3>2. ASSUME NEW f \in Places, f[1] # file PROVE f \in Places'
        <4>1. PICK i \in DOMAIN files \ unread : f \in {i} \X DOMAIN files[i]
          BY DEF Places
        <4>2. f[1] = i
          BY <4>1
        <4>3. i \in DOMAIN files' \ unread' /\ f \in {i} \X DOMAIN files'[i]
          BY <1>0, <2>1, <3>2, <4>1, <4>2
        <4> QED
          BY <4>3 DEF Places
      <3> QED
        BY <3>1, <3>2
    <2>3. \A f \in Places : (f[1] # file /\ (f[1] < file' \/ (f[1] = file' /\ f[2] < pos')))
                           <=> f[1] < file \/ (f[1] = file /\ f[2] < pos)
      BY <1>0, <2>1, PlaceParts
    <2> QED
      BY <2>2, <2>3 DEF Seen
  <1>3. CASE NextFile
    <2>1. pos > Len(files[file]) /\ pos' = 0 /\ file' = file + 1 /\ unread' = unread
          /\ pos \in Nat
      BY <1>3 DEF NextFile, TypeInv
    <2>2. Places' = Places
      BY <1>0, <2>1 DEF Places
    <2>3. ASSUME NEW f \in Places
          PROVE  (f[1] < file' \/ (f[1] = file' /\ f[2] < pos'))
                 <=> f[1] < file \/ (f[1] = file /\ f[2] < pos)
      <3>1. /\ f[1] \in DOMAIN files /\ f[2] \in DOMAIN files[f[1]]
            /\ f[1] \in Nat /\ f[2] \in Nat /\ f[2] >= 1
        BY PlaceParts
      <3>2. f[1] = file => f[2] <= Len(files[file]) /\ Len(files[file]) \in Nat
        BY <3>1, FileFacts
      <3> QED
        BY <1>0, <2>1, <3>1, <3>2
    <2> QED
      BY <2>2, <2>3 DEF Seen
  <1> QED
    BY <1>1, <1>2, <1>3

\* GatherFunc sees one more.
LEMMA SeenMore ==
    ASSUME TypeInv, ModuleInv, GatherFunc, step = "gather"
    PROVE  /\ <<file, pos>> \in Places /\ <<file, pos>> \notin Seen
           /\ Seen' = Seen \cup {<<file, pos>>}
  <1>1. /\ file \in DOMAIN files /\ pos \in DOMAIN files[file]
        /\ pos \in Nat /\ file \in Nat
    BY GatherModule
  <1>2. file \notin unread
    BY <1>1 DEF TypeInv
  <1>3. <<file, pos>> \in Places
    BY <1>1, <1>2, PlaceFacts
  <1>4. /\ files' = files /\ file' = file /\ unread' = unread /\ pos' = pos + 1
    BY DEF GatherFunc
  <1>5. Places' = Places
    BY <1>4 DEF Places
  <1>6. <<file, pos>> \notin Seen
    BY <1>1 DEF Seen
  <1>7. ASSUME NEW f \in Places
        PROVE  (f[1] < file' \/ (f[1] = file' /\ f[2] < pos'))
               <=> (f[1] < file \/ (f[1] = file /\ f[2] < pos)) \/ f = <<file, pos>>
    <2>1. f = <<f[1], f[2]>> /\ f[1] \in Nat /\ f[2] \in Nat
      BY PlaceParts
    <2>2. f = <<file, pos>> <=> f[1] = file /\ f[2] = pos
      BY <2>1
    <2> QED
      BY <1>1, <1>4, <2>1, <2>2
  <1> QED
    BY <1>3, <1>5, <1>6, <1>7 DEF Seen

\* The invariant over the functions seen so far.
LEMMA GatherStep == TypeInv /\ ModuleInv /\ GatherInv /\ [Next]_vars => GatherInv'
  <1> SUFFICES ASSUME TypeInv, ModuleInv, GatherInv, [Next]_vars, step' = "gather"
               PROVE  (\A a \in Addresses : FirstSeen(a)') /\ ListInv'
    BY DEF GatherInv
  <1>0. step = "gather" /\ files' = files
    BY DEF Next, vars, LoadFile, SkipFile, GatherFunc, NextFile, CloneFuncs, StartLinking,
           CollectCalls, LinkCall, Save
  <1>1. (\A a \in Addresses : FirstSeen(a)) /\ ListInv
    BY <1>0 DEF GatherInv
  <1>2. ASSUME UNCHANGED <<allFuncsMap, allFuncsList>>,
               \A a \in Addresses : allFuncsMap[a] = Nobody => Hits(a)' = Hits(a),
               \A a \in Addresses : allFuncsMap[a] # Nobody =>
                  /\ Hits(a) \subseteq Hits(a)'
                  /\ \A g \in Hits(a)' \ Hits(a) : Before(allFuncsMap[a], g)
        PROVE  (\A a \in Addresses : FirstSeen(a)') /\ ListInv'
    <2>1. ListInv'
      BY <1>0, <1>1, <1>2 DEF ListInv, Start
    <2>2. ASSUME NEW a \in Addresses PROVE FirstSeen(a)'
      <3>1. CASE allFuncsMap[a] = Nobody
        BY <1>1, <1>2, <3>1 DEF FirstSeen
      <3>2. CASE allFuncsMap[a] # Nobody
        <4>1. /\ allFuncsMap[a] \in Hits(a)
              /\ \A g \in Hits(a) : Before(allFuncsMap[a], g)
          BY <1>1, <3>2 DEF FirstSeen
        <4>2. \A g \in Hits(a)' : Before(allFuncsMap[a], g)
          BY <1>2, <3>2, <4>1
        <4>3. allFuncsMap[a] \in Hits(a)' /\ allFuncsMap'[a] = allFuncsMap[a]
          BY <1>2, <3>2, <4>1
        <4> QED
          BY <3>2, <4>2, <4>3 DEF FirstSeen, Before
      <3> QED
        BY <3>1, <3>2
    <2> QED
      BY <2>1, <2>2
  <1>3. CASE LoadFile \/ SkipFile \/ NextFile
    <2>1. Seen' = Seen /\ UNCHANGED <<allFuncsMap, allFuncsList>>
      BY <1>3, SeenSame DEF LoadFile, SkipFile, NextFile
    <2>2. \A a \in Addresses : Hits(a)' = Hits(a)
      BY <1>0, <2>1 DEF Hits, Start
    <2> QED
      BY <1>2, <2>1, <2>2
  <1>4. CASE GatherFunc
    <2> DEFINE f == files[file][pos]
               x == <<file, pos>>
    <2>1. /\ file \in DOMAIN files /\ Module = files[file] /\ pos \in Nat /\ file \in Nat
          /\ f.start \in Addresses \cup {None} /\ f.block \in BOOLEAN
      BY <1>0, <1>4, GatherModule
    <2>2. x \notin Seen /\ Seen' = Seen \cup {x}
      BY <1>0, <1>4, SeenMore
    <2>3. Start(x) = f.start /\ x[1] = file /\ x[2] = pos /\ x # Nobody
      BY DEF Start, Nobody
    <2>4. ASSUME NEW a
          PROVE  Hits(a)' = IF f.block /\ f.start = a THEN Hits(a) \cup {x} ELSE Hits(a)
      BY <1>0, <2>2, <2>3 DEF Hits, Start
    <2>5. CASE f.block /\ f.start # None /\ IsNew(f)
      <3> DEFINE b == f.start
      <3>1. b \in Addresses /\ allFuncsMap[b] = Nobody
        BY <2>1, <2>5 DEF IsNew
      <3>2. /\ allFuncsMap' = [allFuncsMap EXCEPT ![b] = x]
            /\ allFuncsList' = Append(allFuncsList, x)
        BY <1>4, <2>1, <2>5 DEF GatherFunc, Func
      <3>3. /\ allFuncsMap'[b] = x
            /\ \A a \in Addresses : a # b => allFuncsMap'[a] = allFuncsMap[a]
        BY <3>1, <3>2 DEF TypeInv
      <3>4. ASSUME NEW a \in Addresses PROVE FirstSeen(a)'
        <4>1. CASE a = b
          <5>1. Hits(a) = {}
            BY <1>1, <3>1, <4>1 DEF FirstSeen
          <5>2. Hits(a)' = {x}
            BY <2>4, <2>5, <4>1, <5>1
          <5>3. Before(x, x)
            BY <2>1, <2>3 DEF Before
          <5> QED
            BY <2>3, <3>3, <4>1, <5>2, <5>3 DEF FirstSeen, Before
        <4>2. CASE a # b
          <5>1. Hits(a)' = Hits(a) /\ allFuncsMap'[a] = allFuncsMap[a]
            BY <2>4, <3>3, <4>2
          <5>2. FirstSeen(a)
            BY <1>1
          <5> QED
            BY <5>1, <5>2 DEF FirstSeen, Before
        <4> QED
          BY <4>1, <4>2
      <3> HIDE DEF x, b
      <3>5. /\ DOMAIN allFuncsList' = 1..(Len(allFuncsList) + 1) /\ Len(allFuncsList) \in Nat
            /\ DOMAIN allFuncsList = 1..Len(allFuncsList)
            /\ allFuncsList'[Len(allFuncsList) + 1] = x
            /\ \A i \in 1..Len(allFuncsList) : allFuncsList'[i] = allFuncsList[i]
        <4>1. allFuncsList \in Seq(Nat \X Nat) /\ x \in Nat \X Nat
          BY <2>1 DEF TypeInv, x
        <4> QED
          BY <3>2, <4>1
      <3>6. ASSUME NEW i \in 1..Len(allFuncsList)
            PROVE  /\ Start(allFuncsList[i]) \in Addresses
                   /\ Start(allFuncsList[i]) # b
                   /\ allFuncsList[i] = allFuncsMap'[Start(allFuncsList[i])]
                   /\ allFuncsList[i] # Nobody /\ allFuncsList[i] # x
        <4>1. /\ Start(allFuncsList[i]) \in Addresses /\ allFuncsList[i] # Nobody
              /\ allFuncsList[i] = allFuncsMap[Start(allFuncsList[i])]
          BY <1>1, <3>5 DEF ListInv
        <4>2. Start(allFuncsList[i]) # b
          BY <3>1, <4>1
        <4>3. Start(x) = b
          BY <2>3 DEF x, b
        <4> QED
          BY <3>3, <4>1, <4>2, <4>3
      <3>7. ListInv'
        <4>1. \A i \in DOMAIN allFuncsList' :
                 /\ Start(allFuncsList'[i]) \in Addresses
                 /\ allFuncsList'[i] = allFuncsMap'[Start(allFuncsList'[i])]
                 /\ allFuncsList'[i] # Nobody
          <5> SUFFICES ASSUME NEW i \in DOMAIN allFuncsList'
                       PROVE  /\ Start(allFuncsList'[i]) \in Addresses
                              /\ allFuncsList'[i] = allFuncsMap'[Start(allFuncsList'[i])]
                              /\ allFuncsList'[i] # Nobody
            OBVIOUS
          <5>1. CASE i \in 1..Len(allFuncsList)
            BY <3>5, <3>6, <5>1
          <5>2. CASE i = Len(allFuncsList) + 1
            <6>1. Start(x) = b /\ x # Nobody
              BY <2>3 DEF x, b
            <6> QED
              BY <3>1, <3>3, <3>5, <5>2, <6>1
          <5> QED
            BY <3>5, <5>1, <5>2
        <4>2. \A a \in Addresses :
                 allFuncsMap'[a] # Nobody =>
                    \E i \in DOMAIN allFuncsList' : allFuncsList'[i] = allFuncsMap'[a]
          <5> SUFFICES ASSUME NEW a \in Addresses, allFuncsMap'[a] # Nobody
                       PROVE  \E i \in DOMAIN allFuncsList' : allFuncsList'[i] = allFuncsMap'[a]
            OBVIOUS
          <5>1. CASE a = b
            <6>1. Len(allFuncsList) + 1 \in DOMAIN allFuncsList'
              BY <3>5
            <6> QED
              BY <3>3, <3>5, <5>1, <6>1
          <5>2. CASE a # b
            <6>1. PICK i \in DOMAIN allFuncsList : allFuncsList[i] = allFuncsMap[a]
              BY <1>1, <3>3, <5>2 DEF ListInv
            <6>2. i \in DOMAIN allFuncsList' /\ allFuncsList'[i] = allFuncsMap'[a]
              BY <3>3, <3>5, <5>2, <6>1
            <6> QED
              BY <6>2
          <5> QED
            BY <5>1, <5>2
        <4>3. \A i, j \in DOMAIN allFuncsList' : allFuncsList'[i] = allFuncsList'[j] => i = j
          <5> SUFFICES ASSUME NEW i \in DOMAIN allFuncsList', NEW j \in DOMAIN allFuncsList',
                              allFuncsList'[i] = allFuncsList'[j]
                       PROVE  i = j
            OBVIOUS
          <5>1. CASE i \in 1..Len(allFuncsList) /\ j \in 1..Len(allFuncsList)
            BY <1>1, <3>5, <5>1 DEF ListInv
          <5>2. CASE i \in 1..Len(allFuncsList) /\ j = Len(allFuncsList) + 1
            BY <3>5, <3>6, <5>2
          <5>3. CASE i = Len(allFuncsList) + 1 /\ j \in 1..Len(allFuncsList)
            BY <3>5, <3>6, <5>3
          <5> QED
            BY <3>5, <5>1, <5>2, <5>3
        <4> QED
          BY <1>0, <4>1, <4>2, <4>3 DEF ListInv, Start
      <3> QED
        BY <3>4, <3>7
    <2>6. CASE ~(f.block /\ f.start # None /\ IsNew(f))
      <3>1. UNCHANGED <<allFuncsMap, allFuncsList>>
        BY <1>4, <2>1, <2>6 DEF GatherFunc
      <3>2. ASSUME NEW a \in Addresses, f.block, f.start = a
            PROVE  allFuncsMap[a] # Nobody /\ Before(allFuncsMap[a], x)
        <4>1. a # None
          BY FilesAssumption DEF None
        <4>2. allFuncsMap[a] # Nobody
          BY <2>6, <3>2, <4>1 DEF IsNew
        <4>3. allFuncsMap[a] \in Seen
          BY <1>1, <4>2 DEF FirstSeen, Hits
        <4>4. /\ allFuncsMap[a][1] < file
                 \/ (allFuncsMap[a][1] = file /\ allFuncsMap[a][2] < pos)
              /\ allFuncsMap[a][2] \in Nat
          BY <4>3, PlaceParts DEF Seen
        <4> QED
          BY <2>1, <2>3, <4>2, <4>4 DEF Before
      <3>3. ASSUME NEW a \in Addresses, allFuncsMap[a] = Nobody PROVE Hits(a)' = Hits(a)
        BY <2>4, <3>2, <3>3
      <3>4. ASSUME NEW a \in Addresses, allFuncsMap[a] # Nobody
            PROVE  /\ Hits(a) \subseteq Hits(a)'
                   /\ \A g \in Hits(a)' \ Hits(a) : Before(allFuncsMap[a], g)
        BY <2>4, <3>2
      <3> QED
        BY <1>2, <3>1, <3>3, <3>4
    <2> QED
      BY <2>5, <2>6
  <1>5. CASE UNCHANGED vars
    <2>1. Seen' = Seen /\ UNCHANGED <<allFuncsMap, allFuncsList>>
      BY <1>5 DEF vars, Seen, Places
    <2>2. \A a \in Addresses : Hits(a)' = Hits(a)
      BY <1>0, <2>1 DEF Hits, Start
    <2> QED
      BY <1>2, <2>1, <2>2
  <1>6. CASE CloneFuncs \/ StartLinking \/ CollectCalls \/ LinkCall \/ Save
    BY <1>0, <1>6 DEF CloneFuncs, StartLinking, CollectCalls, LinkCall, Save
  <1> QED
    BY <1>3, <1>4, <1>5, <1>6 DEF Next

-----------------------------------------------------------------------------
(***************************************************************************)
(* The copies.                                                             *)
(***************************************************************************)

\* When the last file is read, every function of the files was seen.
LEMMA AllSeen ==
    ASSUME TypeInv, file > Len(files), NEW a
    PROVE  Hits(a) = Candidates(a)
  <1>1. ASSUME NEW f \in Places PROVE f[1] < file
    <2>1. f[1] \in 1..Len(files) /\ Len(files) \in Nat
      BY PlaceParts, FileFacts
    <2> QED
      BY <2>1 DEF TypeInv
  <1>2. Seen = Places
    BY <1>1 DEF Seen
  <1> QED
    BY <1>2 DEF Hits, Candidates, Start

\* A function with a domain from 1 to n has that length.
LEMMA LenOfFunction ==
    ASSUME NEW n \in Nat, NEW f, f = [i \in 1..n |-> f[i]]
    PROVE  Len(f) = n
  <1> DEFINE S == {f[i] : i \in 1..n}
  <1>1. f \in [1..n -> S]
    OBVIOUS
  <1>2. f \in Seq(S)
    BY <1>1
  <1>3. DOMAIN f = 1..n
    OBVIOUS
  <1> HIDE DEF S
  <1> QED
    BY <1>2, <1>3

\* The copies that CloneFuncs makes.
LEMMA CloneModule ==
    ASSUME TypeInv, GatherInv, CloneFuncs
    PROVE  ModuleInv'
  <1>1. /\ step = "gather" /\ file > Len(files) /\ files' = files /\ unread' = unread
        /\ newModule' = [i \in DOMAIN allFuncsList |-> Clone(allFuncsList[i])]
    BY DEF CloneFuncs
  <1>2. ListInv /\ \A a \in Addresses : FirstSeen(a)
    BY <1>1 DEF GatherInv
  <1>3. \A a \in Addresses : Hits(a) = Candidates(a)
    BY <1>1, AllSeen
  <1>4. \A a : Candidates(a)' = Candidates(a)
    BY <1>1 DEF Candidates, Places
  <1>5. DOMAIN allFuncsList = 1..Len(allFuncsList) /\ Len(allFuncsList) \in Nat
    BY DEF TypeInv
  <1>6. /\ DOMAIN newModule' = DOMAIN allFuncsList
        /\ \A i \in DOMAIN allFuncsList : newModule'[i] = Clone(allFuncsList[i])
    BY <1>1
  <1>7. Len(newModule') = Len(allFuncsList)
    <2>1. newModule' = [i \in 1..Len(allFuncsList) |-> newModule'[i]]
      BY <1>1, <1>5
    <2> QED
      BY <1>5, <2>1, LenOfFunction
  <1>8. ASSUME NEW i \in DOMAIN allFuncsList
        PROVE  /\ newModule'[i].start = Start(allFuncsList[i])
               /\ newModule'[i].start \in Addresses
               /\ allFuncsList[i] = allFuncsMap[newModule'[i].start]
               /\ CopyOK(newModule'[i])
    <2> DEFINE fn == allFuncsList[i]
    <2>1. fn = allFuncsMap[Start(fn)] /\ Start(fn) \in Addresses /\ fn # Nobody
      BY <1>2 DEF ListInv
    <2>2. fn \in Hits(Start(fn)) /\ \A g \in Hits(Start(fn)) : Before(fn, g)
      BY <1>2, <2>1 DEF FirstSeen
    <2>3. fn \in Places
      BY <2>2 DEF Hits, Seen
    <2>4. files[fn[1]][fn[2]].calls \in Seq(Nat)
      BY <2>3, PlaceParts, FileFacts
    <2>5. fn \in Candidates(Start(fn)) /\ \A g \in Candidates(Start(fn)) : Before(fn, g)
      BY <1>3, <2>1, <2>2
    <2>6. newModule'[i] = Clone(fn)
      BY <1>6
    <2> HIDE DEF fn
    <2>7. /\ DOMAIN Clone(fn) = {"start", "block", "calls", "body", "linked", "origin"}
          /\ Clone(fn).block = TRUE /\ Clone(fn).start = Start(fn)
          /\ Clone(fn).calls = files[fn[1]][fn[2]].calls
          /\ DOMAIN Clone(fn).linked = DOMAIN files[fn[1]][fn[2]].calls
          /\ Clone(fn).origin = fn
      BY DEF Clone, Start
    <2>8. CopyOK(Clone(fn))
      BY <2>1, <2>4, <2>5, <2>7 DEF CopyOK
    <2> QED
      BY <2>1, <2>6, <2>7, <2>8 DEF fn
  <1>9. ASSUME NEW i \in DOMAIN newModule', NEW j \in DOMAIN newModule',
               newModule'[i].start = newModule'[j].start
        PROVE  i = j
    BY <1>2, <1>6, <1>8, <1>9 DEF ListInv
  <1>10. ASSUME NEW a \in Addresses, Candidates(a)' # {}
         PROVE  \E i \in DOMAIN newModule' : newModule'[i].start = a
    <2>1. allFuncsMap[a] # Nobody /\ allFuncsMap[a] \in Hits(a)
      BY <1>2, <1>3, <1>4, <1>10 DEF FirstSeen
    <2>2. PICK i \in DOMAIN allFuncsList : allFuncsList[i] = allFuncsMap[a]
      BY <1>2, <2>1 DEF ListInv
    <2>3. Start(allFuncsList[i]) = a
      BY <2>1, <2>2 DEF Hits
    <2> QED
      BY <1>6, <1>8, <2>3
  <1>11. (\A i \in DOMAIN newModule : CopyOK(newModule[i]))'
    BY <1>4, <1>6, <1>8 DEF CopyOK, Before
  <1> QED
    BY <1>5, <1>6, <1>7, <1>9, <1>10, <1>11 DEF ModuleInv

\* LinkCall links one call of one copy and changes nothing else of the copies.
LEMMA LinkCallModule ==
    ASSUME TypeInv, ModuleInv, LinkInv, LinkCall
    PROVE  \E i \in DOMAIN newModule : \E k \in DOMAIN newModule[i].calls :
              /\ directCalls[1] = Entry(i, k)
              /\ DOMAIN newModule' = DOMAIN newModule /\ Len(newModule') = Len(newModule)
              /\ \A j \in DOMAIN newModule : j # i => newModule'[j] = newModule[j]
              /\ DOMAIN newModule'[i] = DOMAIN newModule[i]
              /\ newModule'[i].start = newModule[i].start
              /\ newModule'[i].block = newModule[i].block
              /\ newModule'[i].calls = newModule[i].calls
              /\ newModule'[i].body = newModule[i].body
              /\ newModule'[i].origin = newModule[i].origin
              /\ newModule'[i].linked =
                    [newModule[i].linked EXCEPT ![k] = Target(newModule[i].calls[k])]
  <1>1. step = "collect" /\ directCalls # <<>>
    BY DEF LinkCall
  <1>2. Len(directCalls) >= 1 /\ Head(directCalls) = directCalls[1]
    BY <1>1 DEF LinkInv
  <1>3. PICK i \in DOMAIN newModule : \E k \in DOMAIN newModule[i].calls :
           directCalls[1] = Entry(i, k)
    <2>1. EntriesInv /\ directCalls \in Seq((Nat \X Nat) \X Nat \X Funcs)
      BY <1>1 DEF LinkInv
    <2>2. 1 \in 1..Len(directCalls)
      BY <1>2, <2>1
    <2> QED
      BY <2>1, <2>2 DEF EntriesInv
  <1>4. PICK k \in DOMAIN newModule[i].calls : directCalls[1] = Entry(i, k)
    BY <1>3
  <1> DEFINE v == Target(newModule[i].calls[k])
  <1>5. newModule' = [newModule EXCEPT ![i].linked[k] = v]
    <2>1. /\ Head(directCalls)[1][2] = i /\ Head(directCalls)[2] = k
          /\ Head(directCalls)[3] = v
      BY <1>2, <1>4 DEF Entry
    <2> QED
      BY <2>1 DEF LinkCall
  <1>6. CopyOK(newModule[i]) /\ DOMAIN newModule = 1..Len(newModule) /\ Len(newModule) \in Nat
    BY <1>1 DEF ModuleInv
  <1>7. /\ DOMAIN newModule[i] = {"start", "block", "calls", "body", "linked", "origin"}
        /\ k \in DOMAIN newModule[i].linked
    BY <1>6 DEF CopyOK
  <1> HIDE DEF v
  <1>8. /\ DOMAIN newModule' = DOMAIN newModule
        /\ \A j \in DOMAIN newModule : j # i => newModule'[j] = newModule[j]
        /\ DOMAIN newModule'[i] = DOMAIN newModule[i]
        /\ newModule'[i].start = newModule[i].start
        /\ newModule'[i].block = newModule[i].block
        /\ newModule'[i].calls = newModule[i].calls
        /\ newModule'[i].body = newModule[i].body
        /\ newModule'[i].origin = newModule[i].origin
        /\ newModule'[i].linked = [newModule[i].linked EXCEPT ![k] = v]
    BY <1>5, <1>7
  <1>9. Len(newModule') = Len(newModule)
    <2>1. newModule' = [j \in 1..Len(newModule) |-> newModule'[j]]
      BY <1>5, <1>6
    <2> QED
      BY <1>6, <2>1, LenOfFunction
  <1> QED
    BY <1>4, <1>8, <1>9 DEF v

\* Nothing is to be shown of a step that leaves the copies and the files.
LEMMA ModuleSame ==
    ASSUME ModuleInv, step # "gather", UNCHANGED <<files, unread, newModule>>
    PROVE  ModuleInv'
  <1>1. \A a : Candidates(a)' = Candidates(a)
    BY DEF Candidates, Places
  <1>2. (\A i \in DOMAIN newModule : CopyOK(newModule[i]))'
    BY <1>1 DEF ModuleInv, CopyOK, Before
  <1> QED
    BY <1>1, <1>2 DEF ModuleInv

\* Every step keeps the copies.
LEMMA ModuleStep ==
    TypeInv /\ GatherInv /\ ModuleInv /\ LinkInv /\ [Next]_vars => ModuleInv'
  <1> SUFFICES ASSUME TypeInv, GatherInv, ModuleInv, LinkInv, [Next]_vars PROVE ModuleInv'
    OBVIOUS
  <1>1. CASE LoadFile \/ SkipFile \/ NextFile
    BY <1>1 DEF LoadFile, SkipFile, NextFile, ModuleInv
  <1>2. CASE GatherFunc
    <2>1. UNCHANGED <<files, unread, newModule, step>>
      BY <1>2 DEF GatherFunc
    <2>2. CASE step = "gather"
      BY <2>1, <2>2 DEF ModuleInv
    <2> QED
      BY <2>1, <2>2, ModuleSame
  <1>3. CASE CloneFuncs
    BY <1>3, CloneModule
  <1>4. CASE StartLinking \/ CollectCalls \/ Save
    BY <1>4, ModuleSame DEF StartLinking, CollectCalls, Save
  <1>5. CASE LinkCall
    <2>1. /\ step = "collect" /\ step' = step /\ files' = files /\ unread' = unread
      BY <1>5 DEF LinkCall
    <2>2. PICK i \in DOMAIN newModule : \E k \in DOMAIN newModule[i].calls :
              /\ DOMAIN newModule' = DOMAIN newModule /\ Len(newModule') = Len(newModule)
              /\ \A j \in DOMAIN newModule : j # i => newModule'[j] = newModule[j]
              /\ DOMAIN newModule'[i] = DOMAIN newModule[i]
              /\ newModule'[i].start = newModule[i].start
              /\ newModule'[i].block = newModule[i].block
              /\ newModule'[i].calls = newModule[i].calls
              /\ newModule'[i].origin = newModule[i].origin
              /\ newModule'[i].linked =
                    [newModule[i].linked EXCEPT ![k] = Target(newModule[i].calls[k])]
      BY <1>5, LinkCallModule
    <2>3. \A a : Candidates(a)' = Candidates(a)
      BY <2>1 DEF Candidates, Places
    <2>4. ASSUME NEW j \in DOMAIN newModule
          PROVE  newModule'[j].start = newModule[j].start /\ CopyOK(newModule'[j])
      <3>1. CopyOK(newModule[j])
        BY <2>1 DEF ModuleInv
      <3>2. CASE j = i
        BY <2>2, <3>1, <3>2 DEF CopyOK
      <3>3. CASE j # i
        BY <2>2, <3>1, <3>3
      <3> QED
        BY <3>2, <3>3
    <2>5. (\A j \in DOMAIN newModule : CopyOK(newModule[j]))'
      BY <2>2, <2>3, <2>4 DEF CopyOK, Before
    <2> QED
      BY <2>1, <2>2, <2>3, <2>4, <2>5 DEF ModuleInv
  <1>6. CASE UNCHANGED vars
    <2>1. UNCHANGED <<files, unread, newModule, step>>
      BY <1>6 DEF vars
    <2>2. CASE step = "gather"
      BY <2>1, <2>2 DEF ModuleInv
    <2> QED
      BY <2>1, <2>2, ModuleSame
  <1> QED
    BY <1>1, <1>2, <1>3, <1>4, <1>5, <1>6 DEF Next

-----------------------------------------------------------------------------
(***************************************************************************)
(* Gathering again.                                                        *)
(***************************************************************************)

\* GatherFunc finds every copy new, because their addresses are distinct.
LEMMA GatherAgain ==
    ASSUME TypeInv, ModuleInv, CopyInv, GatherFunc, step = "regather"
    PROVE  /\ pos \in DOMAIN newModule /\ newModule[pos].start \in Addresses
           /\ allFuncsMap' = [allFuncsMap EXCEPT ![newModule[pos].start] = <<0, pos>>]
           /\ allFuncsList' = Append(allFuncsList, <<0, pos>>)
           /\ \A i \in 1..(pos - 1) : newModule[i].start # newModule[pos].start
  <1>1. /\ file = 0 /\ Module = newModule /\ pos \in DOMAIN newModule
        /\ pos \in Nat /\ pos >= 1
    BY GatherModule
  <1>2. CopyOK(newModule[pos]) /\ DOMAIN newModule = 1..Len(newModule) /\ Len(newModule) \in Nat
    BY <1>1 DEF ModuleInv
  <1>3. newModule[pos].block = TRUE /\ newModule[pos].start \in Addresses
    BY <1>2 DEF CopyOK
  <1>4. newModule[pos].start # None
    BY <1>3, FilesAssumption DEF None
  <1>5. \A i \in 1..(pos - 1) : i \in DOMAIN newModule /\ i # pos
    BY <1>1, <1>2
  <1>6. \A i \in 1..(pos - 1) : newModule[i].start # newModule[pos].start
    BY <1>1, <1>5 DEF ModuleInv
  <1>7. allFuncsMap[newModule[pos].start] = Nobody
    <2>1. Again = pos - 1
      BY DEF Again
    <2> QED
      BY <1>3, <1>6, <2>1 DEF CopyInv
  <1>8. IsNew(Module[pos])
    BY <1>1, <1>7 DEF IsNew
  <1> QED
    BY <1>1, <1>3, <1>4, <1>6, <1>8 DEF GatherFunc, Func

\* Every step keeps the map and the list of the copies.
LEMMA CopyStep ==
    /\ TypeInv /\ GatherInv /\ ModuleInv /\ CopyInv /\ LinkInv
    /\ [Next]_vars
    => CopyInv'
  <1> SUFFICES ASSUME TypeInv, GatherInv, ModuleInv, CopyInv, LinkInv, [Next]_vars
               PROVE  CopyInv'
    OBVIOUS
  <1>1. CASE LoadFile \/ SkipFile \/ NextFile
    BY <1>1 DEF LoadFile, SkipFile, NextFile, CopyInv
  <1>2. CASE GatherFunc
    <2>0. UNCHANGED <<step, newModule>> /\ pos' = pos + 1 /\ pos \in Nat
      BY <1>2 DEF GatherFunc, TypeInv
    <2>1. CASE step = "gather"
      BY <2>0, <2>1 DEF CopyInv
    <2>2. CASE step = "regather"
      <3> DEFINE x == <<0, pos>>
                 b == newModule[pos].start
      <3>1. /\ pos \in DOMAIN newModule /\ b \in Addresses
            /\ allFuncsMap' = [allFuncsMap EXCEPT ![b] = x]
            /\ allFuncsList' = Append(allFuncsList, x)
            /\ \A i \in 1..(pos - 1) : newModule[i].start # b
        BY <1>2, <2>2, GatherAgain
      <3>2. DOMAIN newModule = 1..Len(newModule) /\ Len(newModule) \in Nat
        BY <2>2 DEF ModuleInv
      <3>3. Again = pos - 1 /\ Again' = pos /\ pos >= 1 /\ pos <= Len(newModule)
        BY <2>0, <2>2, <3>1, <3>2 DEF Again, TypeInv
      <3>4. /\ Len(allFuncsList) = pos - 1
            /\ \A i \in 1..(pos - 1) : /\ allFuncsList[i] = <<0, i>>
                                        /\ allFuncsMap[newModule[i].start] = <<0, i>>
            /\ \A a \in Addresses :
                  allFuncsMap[a] # Nobody => \E i \in 1..(pos - 1) : newModule[i].start = a
        BY <2>2, <3>3 DEF CopyInv
      <3>5. ASSUME NEW i \in 1..(pos - 1) PROVE newModule[i].start \in Addresses
        <4>1. i \in DOMAIN newModule
          BY <2>0, <3>2, <3>3
        <4> QED
          BY <2>2, <4>1 DEF ModuleInv, CopyOK
      <3>6. /\ allFuncsMap'[b] = x
            /\ \A a \in Addresses : a # b => allFuncsMap'[a] = allFuncsMap[a]
        BY <3>1 DEF TypeInv
      <3>7. x \in Nat \X Nat /\ allFuncsList \in Seq(Nat \X Nat)
        BY <2>0 DEF TypeInv
      <3>8. x = <<0, pos>>
        OBVIOUS
      <3> HIDE DEF x
      <3>9. /\ Len(allFuncsList') = pos /\ allFuncsList'[pos] = x
            /\ \A i \in 1..(pos - 1) : allFuncsList'[i] = allFuncsList[i]
        BY <2>0, <3>1, <3>3, <3>4, <3>7
      <3>10. \A i \in 1..pos : i \in 1..(pos - 1) \/ i = pos
        BY <2>0
      <3>11. pos \in 1..pos /\ \A i \in 1..(pos - 1) : i \in 1..pos
        BY <2>0, <3>3
      <3>12. ASSUME NEW i \in 1..pos
             PROVE  /\ allFuncsList'[i] = <<0, i>>
                    /\ allFuncsMap'[newModule[i].start] = <<0, i>>
        BY <3>1, <3>4, <3>5, <3>6, <3>8, <3>9, <3>10
      <3>13. ASSUME NEW a \in Addresses, allFuncsMap'[a] # Nobody
             PROVE  \E i \in 1..pos : newModule[i].start = a
        BY <3>4, <3>6, <3>11, <3>13
      <3> QED
        BY <2>0, <3>3, <3>9, <3>12, <3>13 DEF CopyInv
    <2> QED
      BY <1>2, <2>1, <2>2 DEF GatherFunc
  <1>3. CASE CloneFuncs
    <2>1. /\ step' = "regather" /\ pos' = 1 /\ allFuncsList' = <<>>
          /\ allFuncsMap' = [a \in Addresses |-> Nobody]
      BY <1>3 DEF CloneFuncs, ForgetMap
    <2>2. Again' = 0
      BY <2>1 DEF Again
    <2>3. Len(newModule') \in Nat
      BY <1>3, <2>1, CloneModule DEF ModuleInv
    <2> QED
      BY <2>1, <2>2, <2>3 DEF CopyInv
  <1>4. CASE StartLinking
    <2>1. /\ step = "regather" /\ step' = "collect" /\ pos > Len(newModule)
          /\ UNCHANGED <<newModule, allFuncsMap, allFuncsList>> /\ pos \in Nat
      BY <1>4 DEF StartLinking, TypeInv
    <2>2. Again = pos - 1 /\ Again <= Len(newModule) /\ Len(newModule) \in Nat
      BY <2>1 DEF CopyInv, Again, ModuleInv
    <2>3. Again' = Again /\ Again <= Len(newModule)
      BY <2>1, <2>2 DEF Again
    <2> QED
      BY <2>1, <2>3 DEF CopyInv
  <1>5. CASE CollectCalls \/ Save
    <2>1. /\ step = "collect" /\ step' \in {"collect", "done"}
          /\ UNCHANGED <<newModule, allFuncsMap, allFuncsList>>
      BY <1>5 DEF CollectCalls, Save
    <2>2. Again' = Again
      BY <2>1 DEF Again
    <2> QED
      BY <2>1, <2>2 DEF CopyInv
  <1>6. CASE LinkCall
    <2>1. /\ step = "collect" /\ step' = "collect"
          /\ UNCHANGED <<allFuncsMap, allFuncsList>>
      BY <1>6 DEF LinkCall
    <2>2. PICK i \in DOMAIN newModule :
              /\ DOMAIN newModule' = DOMAIN newModule /\ Len(newModule') = Len(newModule)
              /\ \A j \in DOMAIN newModule : j # i => newModule'[j] = newModule[j]
              /\ newModule'[i].start = newModule[i].start
      BY <1>6, LinkCallModule
    <2>3. Again' = Again /\ Again = Len(newModule)
      BY <2>1, <2>2 DEF Again
    <2>4. \A j \in DOMAIN newModule : newModule'[j].start = newModule[j].start
      BY <2>2
    <2>5. DOMAIN newModule = 1..Again
      BY <2>1, <2>3 DEF ModuleInv
    <2> HIDE DEF Again
    <2>6. /\ Again <= Len(newModule) /\ Len(allFuncsList) = Again
          /\ \A j \in 1..Again : /\ allFuncsList[j] = <<0, j>>
                                 /\ allFuncsMap[newModule[j].start] = <<0, j>>
          /\ \A a \in Addresses :
                allFuncsMap[a] # Nobody => \E j \in 1..Again : newModule[j].start = a
      BY <2>1 DEF CopyInv
    <2>7. \A j \in 1..Again : newModule'[j].start = newModule[j].start
      BY <2>4, <2>5
    <2>8. Again' <= Len(newModule') /\ Len(allFuncsList') = Again'
      BY <2>1, <2>2, <2>3, <2>6
    <2>9. \A j \in 1..Again' : /\ allFuncsList'[j] = <<0, j>>
                               /\ allFuncsMap'[newModule'[j].start] = <<0, j>>
      BY <2>1, <2>3, <2>6, <2>7
    <2>10. \A a \in Addresses :
              allFuncsMap'[a] # Nobody => \E j \in 1..Again' : newModule'[j].start = a
      BY <2>1, <2>3, <2>6, <2>7
    <2> QED
      BY <2>8, <2>9, <2>10 DEF CopyInv
  <1>7. CASE UNCHANGED vars
    <2>1. UNCHANGED <<step, pos, newModule, allFuncsMap, allFuncsList>>
      BY <1>7 DEF vars
    <2> QED
      BY <2>1 DEF CopyInv, Again
  <1> QED
    BY <1>1, <1>2, <1>3, <1>4, <1>5, <1>6, <1>7 DEF Next

-----------------------------------------------------------------------------
(***************************************************************************)
(* Linking.                                                                *)
(***************************************************************************)

\* What CollectCalls adds: an entry for each call of the copy at pos whose
\* target is in the map.
LEMMA Collected ==
    ASSUME TypeInv, ModuleInv, CopyInv, CollectCalls
    PROVE  /\ pos \in DOMAIN newModule
           /\ \E new \in Seq((Nat \X Nat) \X Nat \X Funcs) :
                 /\ directCalls' = directCalls \o new
                 /\ \A m \in 1..Len(new) : \E k \in DOMAIN newModule[pos].calls :
                       new[m] = Entry(pos, k)
                 /\ \A k \in DOMAIN newModule[pos].calls :
                       Target(newModule[pos].calls[k]) # Nobody =>
                          \E m \in 1..Len(new) : new[m] = Entry(pos, k)
  <1>1. step = "collect" /\ pos \in Nat /\ pos >= 1 /\ pos <= Len(allFuncsList)
    BY DEF CollectCalls, TypeInv
  <1>2. DOMAIN newModule = 1..Len(newModule) /\ Len(newModule) \in Nat
    BY <1>1 DEF ModuleInv
  <1>3. Again = Len(newModule) /\ Len(allFuncsList) = Len(newModule)
    BY <1>1 DEF CopyInv, Again
  <1>4. pos \in DOMAIN newModule /\ allFuncsList[pos] = <<0, pos>>
    BY <1>1, <1>2, <1>3 DEF CopyInv
  <1> DEFINE f == newModule[pos]
             ids == [k \in DOMAIN f.calls |-> k]
             T == {k \in DOMAIN f.calls :
                      f.calls[k] \in Addresses /\ allFuncsMap[f.calls[k]] # Nobody}
             known == KnownCalls(f)
             new == [k \in DOMAIN known |->
                        <<allFuncsList[pos], known[k], allFuncsMap[f.calls[known[k]]]>>]
             L == (Nat \X Nat) \X Nat \X Funcs
  <1>5. directCalls' = directCalls \o new
    <2>1. newModule[allFuncsList[pos][2]] = f
      BY <1>4
    <2> QED
      BY <2>1 DEF CollectCalls
  <1>6. f.calls \in Seq(Nat)
    BY <1>1, <1>4 DEF ModuleInv, CopyOK
  <1> DEFINE n == Len(f.calls)
  <1>7. n \in Nat /\ DOMAIN f.calls = 1..n
    BY <1>6
  <1>8. known = Keep(ids, T)
    BY DEF KnownCalls
  <1>9. ids \in Seq(Nat) /\ Len(ids) = n /\ \A k \in 1..n : ids[k] = k
    <2> HIDE DEF f, n
    <2>1. ids = [k \in 1..n |-> k]
      BY <1>7
    <2> QED
      BY <1>7, <2>1
  <1> HIDE DEF n, ids, T, known
  <1>10. /\ known \in Seq(Nat)
         /\ \A j \in 1..Len(known) : known[j] \in T
         /\ \A k \in 1..n : k \in T => \E j \in 1..Len(known) : known[j] = k
    <2> DEFINE N == Nat
    <2>0. ids \in Seq(N)
      BY <1>9
    <2> HIDE DEF N
    <2>1. /\ known \in Seq(N)
          /\ \A j \in 1..Len(known) :
                known[j] \in T /\ \E i \in 1..Len(ids) : known[j] = ids[i]
          /\ \A i \in 1..Len(ids) :
                ids[i] \in T => \E j \in 1..Len(known) : known[j] = ids[i]
      BY <1>8, <2>0, KeepMembers
    <2> QED
      BY <1>9, <2>1 DEF N
  <1>11. DOMAIN known = 1..Len(known) /\ Len(known) \in Nat
    BY <1>10
  <1>12. ASSUME NEW j \in 1..Len(known)
         PROVE  /\ known[j] \in DOMAIN f.calls
                /\ new[j] = Entry(pos, known[j]) /\ new[j] \in L
    <2>1. /\ known[j] \in DOMAIN f.calls /\ f.calls[known[j]] \in Addresses
      BY <1>10 DEF T
    <2>2. new[j] = <<<<0, pos>>, known[j], allFuncsMap[f.calls[known[j]]]>>
      BY <1>4, <1>11
    <2>3. new[j] = Entry(pos, known[j])
      BY <2>1, <2>2 DEF Entry, Target
    <2>4. allFuncsMap[f.calls[known[j]]] \in Funcs
      BY <2>1 DEF TypeInv
    <2>5. known[j] \in Nat /\ <<0, pos>> \in Nat \X Nat
      BY <1>1, <1>7, <2>1
    <2>6. <<<<0, pos>>, known[j], allFuncsMap[f.calls[known[j]]]>> \in L
      BY <2>4, <2>5
    <2> HIDE DEF new, f, L
    <2> QED
      BY <2>1, <2>2, <2>3, <2>6
  <1> DEFINE K == Len(known)
  <1>13. new = [j \in 1..K |-> new[j]]
    BY <1>11
  <1> HIDE DEF new, f
  <1>14. new \in Seq(L) /\ Len(new) = K
    <2>1. new \in [1..K -> L]
      BY <1>12, <1>13
    <2>2. Len(new) = K
      BY <1>11, <1>13, LenOfFunction
    <2> QED
      BY <1>11, <2>1, <2>2
  <1>15. ASSUME NEW k \in DOMAIN f.calls, Target(f.calls[k]) # Nobody
         PROVE  \E m \in 1..Len(new) : new[m] = Entry(pos, k)
    <2>1. k \in T
      BY <1>15 DEF T, Target
    <2>2. PICK j \in 1..Len(known) : known[j] = k
      BY <1>7, <1>10, <2>1
    <2> QED
      BY <1>12, <1>14, <2>2
  <1> HIDE DEF K, L
  <1>16. \A m \in 1..Len(new) : \E k \in DOMAIN f.calls : new[m] = Entry(pos, k)
    BY <1>12, <1>14 DEF K
  <1> QED
    BY <1>4, <1>5, <1>14, <1>15, <1>16 DEF f, L

\* Every step keeps what is known of the calls.
LEMMA LinkStep ==
    /\ TypeInv /\ GatherInv /\ ModuleInv /\ CopyInv /\ LinkInv
    /\ [Next]_vars
    => LinkInv'
  <1> SUFFICES ASSUME TypeInv, GatherInv, ModuleInv, CopyInv, LinkInv, [Next]_vars
               PROVE  LinkInv'
    OBVIOUS
  <1>1. CASE LoadFile \/ SkipFile \/ NextFile
    <2>1. step = "gather" /\ step' = "gather" /\ directCalls' = directCalls
      BY <1>1 DEF LoadFile, SkipFile, NextFile
    <2> QED
      BY <2>1 DEF LinkInv
  <1>2. CASE GatherFunc
    <2>1. /\ step \in {"gather", "regather"} /\ step' = step
          /\ directCalls' = directCalls /\ newModule' = newModule
      BY <1>2 DEF GatherFunc
    <2> QED
      BY <2>1 DEF LinkInv
  <1>3. CASE CloneFuncs
    <2>1. /\ step = "gather" /\ step' = "regather" /\ directCalls' = directCalls
          /\ newModule' = [i \in DOMAIN allFuncsList |-> Clone(allFuncsList[i])]
      BY <1>3 DEF CloneFuncs
    <2>2. ASSUME NEW i \in DOMAIN newModule', NEW k \in DOMAIN newModule'[i].calls
          PROVE  newModule'[i].linked[k] = Nobody
      <3>1. newModule'[i] = Clone(allFuncsList[i])
        BY <2>1
      <3> DEFINE fn == allFuncsList[i]
      <3> HIDE DEF fn
      <3>2. /\ Clone(fn).calls = files[fn[1]][fn[2]].calls
            /\ Clone(fn).linked = [l \in DOMAIN files[fn[1]][fn[2]].calls |-> Nobody]
        BY DEF Clone
      <3>3. newModule'[i] = Clone(fn)
        BY <3>1 DEF fn
      <3> QED
        BY <3>2, <3>3
    <2> QED
      BY <2>1, <2>2 DEF LinkInv
  <1>4. CASE StartLinking
    <2>1. /\ step = "regather" /\ step' = "collect" /\ pos' = 1
          /\ directCalls' = directCalls /\ newModule' = newModule
          /\ allFuncsMap' = allFuncsMap
      BY <1>4 DEF StartLinking
    <2>2. directCalls = <<>> /\ directCalls' \in Seq((Nat \X Nat) \X Nat \X Funcs)
      BY <2>1 DEF LinkInv
    <2>3. \A i \in DOMAIN newModule : i >= 1
      BY <2>1 DEF ModuleInv
    <2>4. \A i \in DOMAIN newModule : \A k \in DOMAIN newModule[i].calls :
             newModule[i].linked[k] = Nobody
      BY <2>1 DEF LinkInv
    <2>5. EntriesInv' /\ WaitInv'
      BY <2>1, <2>2, <2>3, <2>4 DEF EntriesInv, WaitInv
    <2> QED
      BY <2>1, <2>2, <2>5 DEF LinkInv
  <1>5. CASE CollectCalls
    <2>1. /\ step = "collect" /\ step' = "collect" /\ pos' = pos + 1 /\ pos \in Nat
          /\ newModule' = newModule /\ allFuncsMap' = allFuncsMap
      BY <1>5 DEF CollectCalls, TypeInv
    <2>2. PICK new \in Seq((Nat \X Nat) \X Nat \X Funcs) :
             /\ directCalls' = directCalls \o new
             /\ \A m \in 1..Len(new) : \E k \in DOMAIN newModule[pos].calls :
                   new[m] = Entry(pos, k)
             /\ \A k \in DOMAIN newModule[pos].calls :
                   Target(newModule[pos].calls[k]) # Nobody =>
                      \E m \in 1..Len(new) : new[m] = Entry(pos, k)
      BY <1>5, Collected
    <2>3. pos \in DOMAIN newModule
      BY <1>5, Collected
    <2>4. directCalls \in Seq((Nat \X Nat) \X Nat \X Funcs)
      BY DEF LinkInv
    <2> DEFINE L == (Nat \X Nat) \X Nat \X Funcs
               p == Len(directCalls)
               q == Len(new)
    <2>5. directCalls \in Seq(L) /\ new \in Seq(L)
      BY <2>4
    <2> HIDE DEF L
    <2>6. /\ directCalls' \in Seq(L) /\ p \in Nat /\ q \in Nat
          /\ Len(directCalls') = p + q
          /\ \A m \in 1..p : directCalls'[m] = directCalls[m]
          /\ \A m \in 1..q : directCalls'[p + m] = new[m]
      BY <2>2, <2>5
    <2> HIDE DEF p, q
    <2>7. ASSUME NEW i, NEW k PROVE Entry(i, k)' = Entry(i, k)
      BY <2>1 DEF Entry, Target
    <2>8. ASSUME NEW m \in 1..Len(directCalls')
          PROVE  \E i \in DOMAIN newModule : \E k \in DOMAIN newModule[i].calls :
                    directCalls'[m] = Entry(i, k)
      <3>1. CASE m \in 1..p
        <4>1. EntriesInv
          BY <2>1 DEF LinkInv
        <4>2. \E i \in DOMAIN newModule : \E k \in DOMAIN newModule[i].calls :
                 directCalls[m] = Entry(i, k)
          BY <3>1, <4>1 DEF EntriesInv, p
        <4> QED
          BY <2>6, <3>1, <4>2
      <3>2. CASE m \notin 1..p
        <4>1. m - p \in 1..q /\ m = p + (m - p)
          BY <2>6, <3>2
        <4>2. directCalls'[m] = new[m - p]
          BY <2>6, <4>1
        <4> QED
          BY <2>2, <2>3, <4>1, <4>2 DEF q
      <3> QED
        BY <3>1, <3>2
    <2>9. ASSUME NEW i \in DOMAIN newModule, NEW k \in DOMAIN newModule[i].calls
          PROVE  \/ newModule[i].linked[k] = Target(newModule[i].calls[k])
                 \/ /\ newModule[i].linked[k] = Nobody
                    /\ \/ i >= pos + 1
                       \/ \E m \in 1..Len(directCalls') : directCalls'[m] = Entry(i, k)
      <3>1. \/ newModule[i].linked[k] = Target(newModule[i].calls[k])
            \/ /\ newModule[i].linked[k] = Nobody
               /\ \/ i >= pos
                  \/ \E m \in 1..Len(directCalls) : directCalls[m] = Entry(i, k)
        BY <2>1 DEF LinkInv, WaitInv
      <3>2. CASE \E m \in 1..Len(directCalls) : directCalls[m] = Entry(i, k)
        <4>1. PICK m \in 1..p : directCalls[m] = Entry(i, k)
          BY <3>2 DEF p
        <4>2. m \in 1..Len(directCalls') /\ directCalls'[m] = Entry(i, k)
          BY <2>6, <4>1
        <4> QED
          BY <3>1, <4>2
      <3>3. CASE i = pos /\ Target(newModule[i].calls[k]) # Nobody
        <4>1. PICK m \in 1..q : new[m] = Entry(pos, k)
          BY <2>2, <3>3 DEF q
        <4>2. p + m \in 1..Len(directCalls') /\ directCalls'[p + m] = Entry(i, k)
          BY <2>6, <3>3, <4>1
        <4> QED
          BY <3>1, <4>2
      <3>4. CASE i = pos /\ Target(newModule[i].calls[k]) = Nobody
        BY <3>1, <3>4
      <3>5. CASE i # pos /\ i >= pos
        <4>1. i >= pos + 1
          BY <2>1, <3>5 DEF ModuleInv
        <4> QED
          BY <3>1, <4>1
      <3> QED
        BY <3>1, <3>2, <3>3, <3>4, <3>5
    <2>10. directCalls' \in Seq((Nat \X Nat) \X Nat \X Funcs)
      BY <2>6 DEF L
    <2>11. \A t : Target(t)' = Target(t)
      BY <2>1 DEF Target
    <2>12. EntriesInv'
      BY <2>1, <2>7, <2>8 DEF EntriesInv
    <2>13. WaitInv'
      BY <2>1, <2>7, <2>9, <2>11 DEF WaitInv
    <2> QED
      BY <2>1, <2>10, <2>12, <2>13 DEF LinkInv
  <1>6. CASE LinkCall
    <2>1. /\ step = "collect" /\ step' = "collect" /\ pos' = pos
          /\ directCalls # <<>> /\ directCalls' = Tail(directCalls)
          /\ allFuncsMap' = allFuncsMap
      BY <1>6 DEF LinkCall
    <2> DEFINE L == (Nat \X Nat) \X Nat \X Funcs
    <2>2. directCalls \in Seq(L)
      BY DEF LinkInv
    <2> HIDE DEF L
    <2>3. /\ directCalls' \in Seq(L) /\ Len(directCalls) \in Nat /\ Len(directCalls) >= 1
          /\ Len(directCalls') = Len(directCalls) - 1
          /\ \A m \in 1..(Len(directCalls) - 1) : directCalls'[m] = directCalls[m + 1]
      BY <2>1, <2>2
    <2>4. PICK i0 \in DOMAIN newModule : \E k0 \in DOMAIN newModule[i0].calls :
              /\ directCalls[1] = Entry(i0, k0)
              /\ DOMAIN newModule' = DOMAIN newModule
              /\ \A j \in DOMAIN newModule : j # i0 => newModule'[j] = newModule[j]
              /\ newModule'[i0].calls = newModule[i0].calls
              /\ newModule'[i0].linked =
                    [newModule[i0].linked EXCEPT ![k0] = Target(newModule[i0].calls[k0])]
      BY <1>6, LinkCallModule
    <2>5. PICK k0 \in DOMAIN newModule[i0].calls :
              /\ directCalls[1] = Entry(i0, k0)
              /\ newModule'[i0].linked =
                    [newModule[i0].linked EXCEPT ![k0] = Target(newModule[i0].calls[k0])]
      BY <2>4
    <2>6. \A i \in DOMAIN newModule : newModule'[i].calls = newModule[i].calls
      BY <2>4
    <2>7. \A t : Target(t)' = Target(t)
      BY <2>1 DEF Target
    <2>8. ASSUME NEW i \in DOMAIN newModule, NEW k PROVE Entry(i, k)' = Entry(i, k)
      BY <2>6, <2>7 DEF Entry
    <2>9. ASSUME NEW m \in 1..Len(directCalls')
          PROVE  \E i \in DOMAIN newModule : \E k \in DOMAIN newModule[i].calls :
                    directCalls'[m] = Entry(i, k)
      <3>1. m + 1 \in 1..Len(directCalls) /\ directCalls'[m] = directCalls[m + 1]
        BY <2>3
      <3>2. EntriesInv
        BY <2>1 DEF LinkInv
      <3>3. \E i \in DOMAIN newModule : \E k \in DOMAIN newModule[i].calls :
               directCalls[m + 1] = Entry(i, k)
        BY <3>1, <3>2 DEF EntriesInv
      <3> QED
        BY <3>1, <3>3
    <2>10. ASSUME NEW i \in DOMAIN newModule, NEW k \in DOMAIN newModule[i].calls
           PROVE  \/ newModule'[i].linked[k] = Target(newModule[i].calls[k])
                  \/ /\ newModule'[i].linked[k] = Nobody
                     /\ \/ i >= pos
                        \/ \E m \in 1..Len(directCalls') : directCalls'[m] = Entry(i, k)
      <3>0. DOMAIN newModule[i].linked = DOMAIN newModule[i].calls
        BY <2>1 DEF ModuleInv, CopyOK
      <3>1. CASE i = i0 /\ k = k0
        BY <2>5, <3>0, <3>1
      <3>2. CASE ~(i = i0 /\ k = k0)
        <4>1. newModule'[i].linked[k] = newModule[i].linked[k]
          <5>1. CASE i = i0
            BY <2>5, <3>0, <3>2, <5>1
          <5>2. CASE i # i0
            BY <2>4, <5>2
          <5> QED
            BY <5>1, <5>2
        <4>2. \/ newModule[i].linked[k] = Target(newModule[i].calls[k])
              \/ /\ newModule[i].linked[k] = Nobody
                 /\ \/ i >= pos
                    \/ \E m \in 1..Len(directCalls) : directCalls[m] = Entry(i, k)
          BY <2>1 DEF LinkInv, WaitInv
        <4>3. ASSUME NEW m \in 1..Len(directCalls), directCalls[m] = Entry(i, k)
              PROVE  \E n \in 1..Len(directCalls') : directCalls'[n] = Entry(i, k)
          <5>1. m # 1
            <6>1. Entry(i, k) # Entry(i0, k0)
              BY <3>2 DEF Entry
            <6> QED
              BY <2>5, <4>3, <6>1
          <5>2. m - 1 \in 1..Len(directCalls') /\ directCalls'[m - 1] = directCalls[m]
            <6>1. m - 1 \in 1..(Len(directCalls) - 1) /\ (m - 1) + 1 = m
              BY <2>3, <5>1
            <6> QED
              BY <2>3, <6>1
          <5> QED
            BY <4>3, <5>2
        <4> QED
          BY <4>1, <4>2, <4>3
      <3> QED
        BY <3>1, <3>2
    <2>11. directCalls' \in Seq((Nat \X Nat) \X Nat \X Funcs)
      BY <2>3 DEF L
    <2>12. EntriesInv'
      BY <2>4, <2>6, <2>8, <2>9 DEF EntriesInv
    <2>13. WaitInv'
      BY <2>1, <2>4, <2>6, <2>7, <2>8, <2>10 DEF WaitInv
    <2> QED
      BY <2>1, <2>11, <2>12, <2>13 DEF LinkInv
  <1>7. CASE Save
    <2>1. /\ step = "collect" /\ step' = "done" /\ directCalls = <<>>
          /\ directCalls' = directCalls /\ newModule' = newModule
          /\ allFuncsMap' = allFuncsMap /\ pos > Len(allFuncsList) /\ pos \in Nat
      BY <1>7 DEF Save, TypeInv
    <2>2. \A i \in DOMAIN newModule : ~(i >= pos)
      <3>1. DOMAIN newModule = 1..Len(newModule) /\ Len(newModule) \in Nat
        BY <2>1 DEF ModuleInv
      <3>2. Len(allFuncsList) = Len(newModule)
        BY <2>1 DEF CopyInv, Again
      <3> QED
        BY <2>1, <3>1, <3>2
    <2>3. \A i \in DOMAIN newModule : \A k \in DOMAIN newModule[i].calls :
             newModule[i].linked[k] = Target(newModule[i].calls[k])
      BY <2>1, <2>2 DEF LinkInv, WaitInv
    <2>4. \A t : Target(t)' = Target(t)
      BY <2>1 DEF Target
    <2>5. directCalls' \in Seq((Nat \X Nat) \X Nat \X Funcs)
      BY <2>1 DEF LinkInv
    <2>6. EntriesInv'
      BY <2>1 DEF EntriesInv
    <2> QED
      BY <2>1, <2>3, <2>4, <2>5, <2>6 DEF LinkInv
  <1>8. CASE UNCHANGED vars
    <2>1. UNCHANGED <<step, pos, newModule, directCalls, allFuncsMap>>
      BY <1>8 DEF vars
    <2>2. (EntriesInv' <=> EntriesInv) /\ (WaitInv' <=> WaitInv)
      BY <2>1 DEF EntriesInv, WaitInv, Entry, Target
    <2>3. \A t : Target(t)' = Target(t)
      BY <2>1 DEF Target
    <2> QED
      BY <2>1, <2>2, <2>3 DEF LinkInv
  <1> QED
    BY <1>1, <1>2, <1>3, <1>4, <1>5, <1>6, <1>7, <1>8 DEF Next

-----------------------------------------------------------------------------
(***************************************************************************)
(* The theorems.                                                           *)
(***************************************************************************)

\* The invariant holds in the beginning: no function was seen.
LEMMA InitIInv == Init => IInv
  <1> SUFFICES ASSUME Init PROVE IInv
    OBVIOUS
  <1>1. /\ files \in FileLists /\ step = "gather" /\ file = 1 /\ pos = 0 /\ unread = {}
        /\ allFuncsMap = [a \in Addresses |-> Nobody]
        /\ allFuncsList = <<>> /\ newModule = <<>> /\ directCalls = <<>>
    BY DEF Init
  <1>2. TypeInv
    <2>1. Len(files) \in Nat
      BY <1>1, FilesAssumption
    <2> QED
      BY <1>1, <2>1 DEF TypeInv, Funcs
  <1>3. Seen = {}
    <2>1. ASSUME NEW f \in Places PROVE ~(f[1] < file \/ (f[1] = file /\ f[2] < pos))
      BY <1>1, <1>2, PlaceParts
    <2> QED
      BY <2>1 DEF Seen
  <1>4. \A a \in Addresses : FirstSeen(a)
    BY <1>1, <1>3 DEF FirstSeen, Hits
  <1>5. ListInv
    BY <1>1 DEF ListInv
  <1>6. GatherInv
    BY <1>4, <1>5 DEF GatherInv
  <1>7. ModuleInv /\ CopyInv
    BY <1>1 DEF ModuleInv, CopyInv
  <1>8. LinkInv
    BY <1>1 DEF LinkInv
  <1> QED
    BY <1>2, <1>6, <1>7, <1>8 DEF IInv

\* The inductive invariant of the linker.
THEOREM LinkerInvariant == Spec => []IInv
  <1>1. IInv /\ [Next]_vars => IInv'
    BY TypeStep, GatherStep, ModuleStep, CopyStep, LinkStep DEF IInv
  <1> QED
    BY <1>1, InitIInv, PTL DEF Spec

\* The first of the copies at an address is the only one.
LEMMA FirstOfEach == IInv => FirstFunctionWins
  <1> SUFFICES ASSUME IInv, step \in {"collect", "done"}, NEW a \in Addresses
               PROVE  LET copies == {i \in DOMAIN newModule : newModule[i].start = a}
                      IN  IF Candidates(a) = {} THEN copies = {}
                          ELSE \E i \in copies :
                                  /\ copies = {i}
                                  /\ newModule[i].origin \in Candidates(a)
                                  /\ \A g \in Candidates(a) :
                                        Before(newModule[i].origin, g)
    BY DEF FirstFunctionWins
  <1> DEFINE copies == {i \in DOMAIN newModule : newModule[i].start = a}
  <1>1. /\ \A i \in DOMAIN newModule : CopyOK(newModule[i])
        /\ \A i, j \in DOMAIN newModule : newModule[i].start = newModule[j].start => i = j
        /\ Candidates(a) # {} => \E i \in DOMAIN newModule : newModule[i].start = a
    BY DEF IInv, ModuleInv
  <1>2. ASSUME NEW i \in copies
        PROVE  /\ copies = {i} /\ newModule[i].origin \in Candidates(a)
               /\ \A g \in Candidates(a) : Before(newModule[i].origin, g)
    BY <1>1 DEF CopyOK
  <1>3. CASE Candidates(a) = {}
    BY <1>2, <1>3
  <1>4. CASE Candidates(a) # {}
    <2>1. PICK i \in copies : TRUE
      BY <1>1, <1>4
    <2> HIDE DEF copies
    <2>2. \E j \in copies : /\ copies = {j}
                            /\ newModule[j].origin \in Candidates(a)
                            /\ \A g \in Candidates(a) : Before(newModule[j].origin, g)
      BY <1>2, <2>1
    <2> QED
      BY <1>4, <2>2 DEF copies
  <1> QED
    BY <1>3, <1>4

\* A call is linked with the copy that the map has for its target.
LEMMA LinkedAll == IInv => CallsAreLinked
  <1> SUFFICES ASSUME IInv, step = "done", NEW i \in DOMAIN newModule,
                      NEW k \in DOMAIN newModule[i].calls
               PROVE  LET t == newModule[i].calls[k]
                          copies == {j \in DOMAIN newModule : newModule[j].start = t}
                      IN  IF copies = {} THEN newModule[i].linked[k] = Nobody
                          ELSE \E j \in copies : newModule[i].linked[k] = Func(0, j)
    BY DEF CallsAreLinked
  <1> DEFINE t == newModule[i].calls[k]
             copies == {j \in DOMAIN newModule : newModule[j].start = t}
  <1>1. newModule[i].linked[k] = Target(t)
    BY DEF IInv, LinkInv
  <1>2. \A j \in DOMAIN newModule : newModule[j].start \in Addresses
    BY DEF IInv, ModuleInv, CopyOK
  <1>3. DOMAIN newModule = 1..Again
    BY DEF IInv, ModuleInv, Again
  <1>4. /\ \A j \in DOMAIN newModule : allFuncsMap[newModule[j].start] = <<0, j>>
        /\ t \in Addresses /\ allFuncsMap[t] # Nobody =>
              \E j \in DOMAIN newModule : newModule[j].start = t
    BY <1>3 DEF IInv, CopyInv
  <1> HIDE DEF t
  <1>5. CASE copies = {}
    <2>1. \A j \in DOMAIN newModule : newModule[j].start # t
      BY <1>5
    <2>2. Target(t) = Nobody
      BY <1>4, <2>1 DEF Target
    <2> QED
      BY <1>1, <1>5, <2>2 DEF t
  <1>6. CASE copies # {}
    <2>1. PICK j \in copies : TRUE
      BY <1>6
    <2>2. Target(t) = <<0, j>>
      BY <1>2, <1>4, <2>1 DEF Target
    <2>3. newModule[i].linked[k] = Func(0, j)
      BY <1>1, <2>2 DEF Func
    <2> QED
      BY <1>6, <2>1, <2>3 DEF t
  <1> QED
    BY <1>5, <1>6

\* The result has one function for each address that some readable file has
\* a function for, the first of them in the order of the command line
\* (gatherFuncsFromModule and cloneFuncs).
THEOREM LinkerTakesFirst == Spec => []FirstFunctionWins
  BY FirstOfEach, LinkerInvariant, PTL

\* Every call whose target is in the result is linked with the copy there, and
\* every other one stays a store (linkFuncs and ReplaceInstWithInst).
THEOREM LinkerLinksCalls == Spec => []CallsAreLinked
  BY LinkedAll, LinkerInvariant, PTL

-----------------------------------------------------------------------------
(***************************************************************************)
(* The invariant of the passes over the result.                            *)
(***************************************************************************)

\* A body whose operations use constants and the loads before them.
BodyOK(b) ==
    /\ b \in Seq(Operation)
    /\ \A k \in 1..Len(b) :
          b[k].val < 0 => -b[k].val < k /\ b[-b[k].val].kind = "load"

\* c has the operations of b; each uses a value that is known to be the same.
Rewritten(c, b) ==
    /\ c \in Seq(Operation) /\ Len(c) = Len(b)
    /\ \A k \in 1..Len(b) :
          /\ c[k].kind = b[k].kind /\ c[k].var = b[k].var
          /\ c[k].val < 0 => -c[k].val < k /\ b[-c[k].val].kind = "load"
          /\ Known(b, c[k].val) = Known(b, b[k].val)

Unused(c, l) == \A k \in 1..Len(c) : c[k].val # -l

\* The loads of b that have a store to read from.
Fed(b) == {l \in 1..Len(b) : b[l].kind = "load" /\ LastStore(b, l) # 0}

AllReplaced(c, b) == \A l \in Fed(b) : Unused(c, l)

\* q has pairs of a load behind r and a store to its variable before it, the
\* last loads first.
Feeds(b, l, s) == s < l /\ b[s].kind = "store" /\ b[s].var = b[l].var
IsPair(b, p) ==
    \E l, s \in 1..Len(b) : p = <<l, s>> /\ b[l].kind = "load" /\ Feeds(b, l, s)
Pairs(q, b, r) ==
    /\ \A n \in 1..Len(q) : IsPair(b, q[n]) /\ q[n][1] > r
    /\ \A m, n \in 1..Len(q) : m < n => q[m][1] >= q[n][1]

\* The first pair of load l in q is that of the store it reads from.
Leads(q, b, l) ==
    \E n \in 1..Len(q) :
       q[n] = <<l, LastStore(b, l)>> /\ \A m \in 1..(n - 1) : q[m][1] # l

\* A load is not used any more and its turn is over, or it waits for its turn.
Settled(q, c, l) == Unused(c, l) /\ \A n \in 1..Len(q) : q[n][1] <= l

BodiesInv ==
    step # "gather" =>
       \A i \in DOMAIN newModule :
          /\ BodyOK(Original(i))
          /\ IF post = "off" THEN newModule[i].body = Original(i)
             ELSE Rewritten(newModule[i].body, Original(i))

FuncInv ==
    /\ post \in {"off", "rename", "collect", "replace", "done"}
    /\ func \in Nat /\ func >= 1
    /\ post = "off" => func = 1
    /\ post \in {"off", "rename", "done"} => aliases = <<>>
    /\ post # "off" =>
          /\ step = "done"
          /\ func - 1 <= Len(newModule)
          /\ \A i \in 1..(func - 1) : AllReplaced(newModule[i].body, Original(i))
    /\ post \in {"collect", "replace"} => func <= Len(newModule)
    /\ post = "done" => func > Len(newModule)

\* Every load behind rit has its pairs.
CollectInv ==
    post = "collect" =>
       /\ aliases \in Seq(Nat \X Nat)
       /\ rit \in 0..Len(Original(func))
       /\ Pairs(aliases, Original(func), rit)
       /\ \A l \in Fed(Original(func)) : l > rit => Leads(aliases, Original(func), l)

ReplaceInv ==
    post = "replace" =>
       /\ aliases \in Seq(Nat \X Nat)
       /\ Pairs(aliases, Original(func), 0)
       /\ \A l \in Fed(Original(func)) :
             \/ Leads(aliases, Original(func), l)
             \/ Settled(aliases, newModule[func].body, l)

PostInv == BodiesInv /\ FuncInv /\ CollectInv /\ ReplaceInv

-----------------------------------------------------------------------------
(***************************************************************************)
(* What a load reads.                                                      *)
(***************************************************************************)

\* The parts of an operation.
LEMMA OperationParts ==
    ASSUME NEW b \in Seq(Operation), NEW k \in 1..Len(b)
    PROVE  /\ b[k] \in Operation
           /\ b[k] = [kind |-> b[k].kind, var |-> b[k].var, val |-> b[k].val]
           /\ b[k].var \in Nat /\ b[k].val \in Int
           /\ b[k].kind \in {"store", "load", "call", "use"}
  <1>1. b[k] \in Operation
    OBVIOUS
  <1>2. \A o \in Operation :
           /\ o = [kind |-> o.kind, var |-> o.var, val |-> o.val]
           /\ o.var \in Nat /\ o.val \in Int
           /\ o.kind \in {"store", "load", "call", "use"}
    BY DEF Operation
  <1> QED
    BY <1>1, <1>2

\* LastStore is the nearest of the stores before an operation.
LEMMA LastStoreFacts ==
    ASSUME NEW b, NEW l \in Nat
    PROVE  /\ LastStore(b, l) \in 0..l
           /\ LastStore(b, l) # 0 => Feeds(b, l, LastStore(b, l))
           /\ \A s \in 1..(l - 1) : Feeds(b, l, s) => s <= LastStore(b, l)
  <1> DEFINE S == {0} \cup {k \in 1..(l - 1) : b[k].kind = "store" /\ b[k].var = b[l].var}
             T == {l - s : s \in S}
  <1>1. S \subseteq 0..l /\ 0 \in S
    OBVIOUS
  <1>2. T \in SUBSET Nat /\ T # {}
    <2> HIDE DEF S
    <2>1. \A s \in S : s \in 0..l /\ l - s \in Nat
      BY <1>1
    <2>2. l - 0 \in T
      BY <1>1
    <2> QED
      BY <2>1, <2>2
  <1>3. PICK t \in T : \A u \in T : t <= u
    <2> HIDE DEF T
    <2> QED
      BY <1>2, LeastNat
  <1> DEFINE m == l - t
  <1>4. m \in S /\ \A s \in S : m >= s
    <2> HIDE DEF S
    <2>1. PICK s \in S : t = l - s
      OBVIOUS
    <2>2. s \in 0..l /\ m = s
      BY <1>1, <2>1
    <2>3. \A u \in S : u \in 0..l /\ t <= l - u
      BY <1>1, <1>3
    <2> QED
      BY <2>2, <2>3
  <1>5. LastStore(b, l) = Max(S)
    BY DEF LastStore
  <1> HIDE DEF S, T, m
  <1>6. Max(S) \in S /\ \A s \in S : Max(S) >= s
    BY <1>4 DEF Max
  <1>7. LastStore(b, l) \in S /\ \A s \in S : LastStore(b, l) >= s
    BY <1>5, <1>6
  <1>8. LastStore(b, l) \in 0..l
    BY <1>1, <1>7
  <1>9. ASSUME LastStore(b, l) # 0 PROVE Feeds(b, l, LastStore(b, l))
    BY <1>7, <1>9 DEF S, Feeds
  <1>10. ASSUME NEW s \in 1..(l - 1), Feeds(b, l, s) PROVE s <= LastStore(b, l)
    <2>1. s \in S
      BY <1>10 DEF S, Feeds
    <2> QED
      BY <1>7, <1>8, <2>1
  <1> QED
    BY <1>8, <1>9, <1>10

\* The recursive function behind Known, on the first operations.
Reads(b, f, n) ==
    LET s == LastStore(b, n)
    IN  IF s = 0 THEN -n ELSE IF b[s].val < 0 THEN f[-b[s].val] ELSE b[s].val

\* What it returns for an operation depends on those before it.
LEMMA ReadsBefore ==
    ASSUME NEW b, BodyOK(b), NEW n \in 0..Len(b), NEW f, NEW g,
           \A j \in 0..(n - 1) : f[j] = g[j]
    PROVE  Reads(b, f, n) = Reads(b, g, n)
  <1> DEFINE s == LastStore(b, n)
  <1>1. Len(b) \in Nat /\ n \in Nat
    BY DEF BodyOK
  <1>2. s \in 0..n /\ (s # 0 => s < n)
    BY <1>1, LastStoreFacts DEF Feeds
  <1>3. CASE s # 0 /\ b[s].val < 0
    <2>1. s \in 1..Len(b)
      BY <1>1, <1>2, <1>3
    <2>2. b[s].val \in Int
      BY <2>1, OperationParts DEF BodyOK
    <2>3. -b[s].val < s
      BY <1>3, <2>1 DEF BodyOK
    <2>4. -b[s].val \in 0..(n - 1)
      BY <1>1, <1>2, <1>3, <2>2, <2>3
    <2> QED
      BY <1>3, <2>4 DEF Reads
  <1>4. CASE ~(s # 0 /\ b[s].val < 0)
    BY <1>4 DEF Reads
  <1> QED
    BY <1>3, <1>4

LEMMA ReadsExist ==
    ASSUME NEW b, BodyOK(b)
    PROVE  \E f : f = [n \in 0..Len(b) |-> Reads(b, f, n)]
  <1> DEFINE N == Len(b)
             Good(f, n) == f = [j \in 0..n |-> Reads(b, f, j)]
             P == {n \in 0..N : \E f : Good(f, n)}
  <1>1. N \in Nat
    BY DEF BodyOK
  <1>2. 0 \in P
    <2> DEFINE g == [j \in 0..0 |-> Reads(b, <<>>, 0)]
    <2>1. \A j \in 0..0 : j = 0
      OBVIOUS
    <2>2. 0 \in 0..Len(b) /\ \A j \in 0..(0 - 1) : g[j] = <<>>[j]
      BY <1>1
    <2> HIDE DEF g
    <2>3. Reads(b, g, 0) = Reads(b, <<>>, 0)
      BY <2>2, ReadsBefore
    <2>4. g = [j \in 0..0 |-> Reads(b, g, j)]
      BY <2>1, <2>3 DEF g
    <2> QED
      BY <1>1, <2>4
  <1>3. ASSUME NEW n \in 0..N, n \in P, n < N PROVE n + 1 \in P
    <2>1. PICK f : Good(f, n)
      BY <1>3
    <2> DEFINE k == n + 1
               g == [j \in 0..k |-> IF j = k THEN Reads(b, f, k) ELSE f[j]]
    <2>2. k \in 0..N /\ k \in Nat /\ n \in Nat /\ n = k - 1
      BY <1>1, <1>3
    <2> HIDE DEF k
    <2>3. \A j \in 0..(k - 1) : g[j] = f[j]
      BY <2>2
    <2>4. g[k] = Reads(b, f, k)
      BY <2>2
    <2>5. g = [j \in 0..k |-> g[j]]
      OBVIOUS
    <2> HIDE DEF g
    <2>6. ASSUME NEW j \in 0..k PROVE g[j] = Reads(b, g, j)
      <3>1. j \in 0..Len(b) /\ \A i \in 0..(j - 1) : g[i] = f[i]
        BY <1>1, <2>2, <2>3
      <3>2. Reads(b, g, j) = Reads(b, f, j)
        BY <3>1, ReadsBefore
      <3>3. CASE j = k
        BY <2>4, <3>2, <3>3
      <3>4. CASE j # k
        <4>1. j \in 0..n /\ j \in 0..(k - 1)
          BY <2>2, <3>4
        <4>2. f[j] = Reads(b, f, j)
          BY <2>1, <4>1
        <4> QED
          BY <2>3, <3>2, <4>1, <4>2
      <3> QED
        BY <3>3, <3>4
    <2>7. Good(g, k)
      BY <2>5, <2>6
    <2> HIDE DEF Good
    <2> QED
      BY <2>2, <2>7 DEF k
  <1>4. \A n \in 0..N : n \in P
    <2> HIDE DEF P, N
    <2> QED
      BY <1>1, <1>2, <1>3, SetInduction
  <1>5. \E f : Good(f, N)
    BY <1>1, <1>4
  <1> QED
    BY <1>5

\* A value that is not that of a load fed by a store is known as it is; that
\* of a fed load is the value that was stored.
LEMMA KnownFacts ==
    ASSUME NEW b, BodyOK(b)
    PROVE  /\ \A v \in Int : ~(v < 0) => Known(b, v) = v
           /\ \A l \in 1..Len(b) : LastStore(b, l) = 0 => Known(b, -l) = -l
           /\ \A l \in 1..Len(b) :
                 LastStore(b, l) # 0 => Known(b, -l) = Known(b, b[LastStore(b, l)].val)
  <1> DEFINE f == CHOOSE h : h = [n \in 0..Len(b) |-> Reads(b, h, n)]
  <1>1. f = [n \in 0..Len(b) |-> Reads(b, f, n)]
    BY ReadsExist
  <1>2. \A v : Known(b, v) = IF v < 0 THEN f[-v] ELSE v
    BY DEF Known, Reads
  <1> HIDE DEF f
  <1>3. \A n \in 0..Len(b) : f[n] = Reads(b, f, n)
    BY <1>1
  <1>4. Len(b) \in Nat
    BY DEF BodyOK
  <1>5. \A v \in Int : ~(v < 0) => Known(b, v) = v
    BY <1>2
  <1>6. ASSUME NEW l \in 1..Len(b) PROVE Known(b, -l) = Reads(b, f, l)
    <2>1. l \in Int /\ -l < 0 /\ -(-l) = l /\ l \in 0..Len(b)
      BY <1>4
    <2> QED
      BY <1>2, <1>3, <2>1
  <1>7. ASSUME NEW l \in 1..Len(b), LastStore(b, l) = 0 PROVE Known(b, -l) = -l
    BY <1>6, <1>7 DEF Reads
  <1>8. ASSUME NEW l \in 1..Len(b), LastStore(b, l) # 0
        PROVE  Known(b, -l) = Known(b, b[LastStore(b, l)].val)
    <2>1. Reads(b, f, l) = Known(b, b[LastStore(b, l)].val)
      BY <1>2, <1>8 DEF Reads
    <2> QED
      BY <1>6, <2>1
  <1> QED
    BY <1>5, <1>7, <1>8

-----------------------------------------------------------------------------
(***************************************************************************)
(* One replacement.                                                        *)
(***************************************************************************)

\* Replacing a load by what the store it reads from has kept every value what
\* it was known to be; other loads come into use only before that store.
LEMMA ReplaceBody ==
    ASSUME NEW b, BodyOK(b), NEW c, Rewritten(c, b),
           NEW l \in 1..Len(b), b[l].kind = "load",
           NEW s \in 1..Len(b), Feeds(b, l, s), Unused(c, l) \/ s = LastStore(b, l),
           NEW d, d = [k \in DOMAIN c |->
                          IF c[k].val = -l THEN [c[k] EXCEPT !.val = c[s].val] ELSE c[k]]
    PROVE  /\ Rewritten(d, b) /\ Unused(d, l)
           /\ \A m \in 1..Len(b) : m > l /\ Unused(c, m) => Unused(d, m)
  <1> DEFINE N == Len(b)
             v == c[s].val
  <1>1. /\ N \in Nat /\ Len(c) = N /\ DOMAIN c = 1..N /\ c \in Seq(Operation)
        /\ s < l /\ b \in Seq(Operation)
    BY DEF BodyOK, Rewritten, Feeds
  <1>2. \A k \in 1..N : /\ c[k].kind = b[k].kind /\ c[k].var = b[k].var
                        /\ c[k].val < 0 => -c[k].val < k /\ b[-c[k].val].kind = "load"
                        /\ Known(b, c[k].val) = Known(b, b[k].val)
    BY DEF Rewritten
  <1>3. \A k \in 1..N :
           /\ c[k] \in Operation /\ c[k].val \in Int /\ c[k].var \in Nat
           /\ c[k] = [kind |-> c[k].kind, var |-> c[k].var, val |-> c[k].val]
           /\ c[k].kind \in {"store", "load", "call", "use"}
    BY <1>1, OperationParts
  <1>4. v \in Int /\ (v < 0 => -v < s /\ b[-v].kind = "load") /\ Known(b, v) = Known(b, b[s].val)
    BY <1>1, <1>2, <1>3
  <1> HIDE DEF N, v
  <1>5. ASSUME NEW k \in 1..N
        PROVE  /\ d[k] \in Operation /\ d[k].kind = c[k].kind /\ d[k].var = c[k].var
               /\ d[k].val = IF c[k].val = -l THEN v ELSE c[k].val
    <2>1. d[k] = IF c[k].val = -l THEN [c[k] EXCEPT !.val = v] ELSE c[k]
      BY <1>1 DEF v
    <2> DEFINE o == c[k]
    <2>2. /\ o \in Operation /\ o.var \in Nat
          /\ o = [kind |-> o.kind, var |-> o.var, val |-> o.val]
          /\ o.kind \in {"store", "load", "call", "use"}
      BY <1>3
    <2> HIDE DEF o
    <2>3. [o EXCEPT !.val = v] = [kind |-> o.kind, var |-> o.var, val |-> v]
      BY <2>2
    <2>4. [kind |-> o.kind, var |-> o.var, val |-> v] \in Operation
      BY <1>4, <2>2 DEF Operation
    <2> QED
      BY <2>1, <2>2, <2>3, <2>4 DEF o
  <1>6. d \in Seq(Operation) /\ Len(d) = N /\ DOMAIN d = 1..N
    <2>1. d \in [1..N -> Operation]
      BY <1>1, <1>5
    <2> QED
      BY <1>1, <2>1, FunctionIsSequence
  <1>7. ASSUME NEW k \in 1..N
        PROVE  /\ d[k].val < 0 => -d[k].val < k /\ b[-d[k].val].kind = "load"
               /\ Known(b, d[k].val) = Known(b, b[k].val)
    <2>1. CASE c[k].val = -l
      <3>1. d[k].val = v
        BY <1>5, <2>1
      <3>2. l < k
        BY <1>1, <1>2, <2>1
      <3>3. v < 0 => -v < k
        BY <1>1, <1>4, <3>2
      <3>4. s = LastStore(b, l) /\ LastStore(b, l) # 0
        BY <1>1, <2>1 DEF Unused
      <3>5. Known(b, -l) = Known(b, b[s].val)
        BY <3>4, KnownFacts
      <3>6. Known(b, c[k].val) = Known(b, b[k].val)
        BY <1>2
      <3>7. Known(b, v) = Known(b, b[k].val)
        BY <1>4, <2>1, <3>5, <3>6
      <3> QED
        BY <1>4, <3>1, <3>3, <3>7
    <2>2. CASE c[k].val # -l
      <3>1. d[k].val = c[k].val
        BY <1>5, <2>2
      <3> QED
        BY <1>2, <3>1
    <2> QED
      BY <2>1, <2>2
  <1>8. Rewritten(d, b)
    BY <1>2, <1>5, <1>6, <1>7 DEF Rewritten, N
  <1>9. v # -l
    BY <1>1, <1>4
  <1>10. Unused(d, l)
    BY <1>5, <1>6, <1>9 DEF Unused
  <1>11. ASSUME NEW m \in 1..Len(b), m > l, Unused(c, m) PROVE Unused(d, m)
    <2>1. v # -m
      BY <1>1, <1>4, <1>11
    <2>2. \A k \in 1..N : c[k].val # -m
      BY <1>1, <1>11 DEF Unused
    <2> QED
      BY <1>5, <1>6, <2>1, <2>2 DEF Unused
  <1> QED
    BY <1>8, <1>10, <1>11

\* The load of the first pair has had its turn, or is replaced by what the
\* store it reads from has.
LEMMA FirstPair ==
    ASSUME NEW b, BodyOK(b), NEW c, NEW q \in Seq(Nat \X Nat), Pairs(q, b, 0), q # <<>>,
           \A l \in Fed(b) : Leads(q, b, l) \/ Settled(q, c, l)
    PROVE  \E l, s \in 1..Len(b) :
              /\ Head(q) = <<l, s>> /\ l \in Fed(b) /\ Feeds(b, l, s)
              /\ Unused(c, l) \/ s = LastStore(b, l)
  <1>1. 1 \in 1..Len(q) /\ Head(q) = q[1]
    OBVIOUS
  <1>2. PICK l, s \in 1..Len(b) : q[1] = <<l, s>> /\ b[l].kind = "load" /\ Feeds(b, l, s)
    BY <1>1 DEF Pairs, IsPair
  <1>3. LastStore(b, l) # 0
    <2>1. Len(b) \in Nat /\ l \in Nat /\ s \in 1..(l - 1)
      BY <1>2 DEF BodyOK, Feeds
    <2>2. s <= LastStore(b, l)
      BY <1>2, <2>1, LastStoreFacts
    <2> QED
      BY <2>1, <2>2
  <1>4. l \in Fed(b)
    BY <1>2, <1>3 DEF Fed
  <1>5. CASE Leads(q, b, l)
    <2>1. PICK n \in 1..Len(q) : /\ q[n] = <<l, LastStore(b, l)>>
                                 /\ \A m \in 1..(n - 1) : q[m][1] # l
      BY <1>5 DEF Leads
    <2>2. n = 1
      <3>1. q[1][1] = l
        BY <1>2
      <3>2. ~(1 \in 1..(n - 1))
        BY <2>1, <3>1
      <3> QED
        BY <3>2
    <2>3. s = LastStore(b, l)
      BY <1>2, <2>1, <2>2
    <2> QED
      BY <1>1, <1>2, <1>4, <2>3
  <1>6. CASE Settled(q, c, l)
    BY <1>1, <1>2, <1>4, <1>6 DEF Settled
  <1> QED
    BY <1>4, <1>5, <1>6

\* After the replacement each load waits for its turn or has had it.
LEMMA NextPairs ==
    ASSUME NEW b, BodyOK(b), NEW c, NEW q \in Seq(Nat \X Nat), Pairs(q, b, 0), q # <<>>,
           \A l \in Fed(b) : Leads(q, b, l) \/ Settled(q, c, l),
           NEW l \in 1..Len(b), Head(q)[1] = l,
           NEW d, Unused(d, l), \A m \in 1..Len(b) : m > l /\ Unused(c, m) => Unused(d, m)
    PROVE  /\ Tail(q) \in Seq(Nat \X Nat) /\ Pairs(Tail(q), b, 0)
           /\ \A m \in Fed(b) : Leads(Tail(q), b, m) \/ Settled(Tail(q), d, m)
  <1> DEFINE t == Tail(q)
             L == Nat \X Nat
  <1>1. q \in Seq(L)
    OBVIOUS
  <1> HIDE DEF L
  <1>2. /\ Len(q) \in Nat /\ Len(q) >= 1 /\ t \in Seq(L) /\ Len(t) = Len(q) - 1
        /\ \A n \in 1..Len(t) : n + 1 \in 1..Len(q) /\ t[n] = q[n + 1]
    BY <1>1
  <1>3. q[1][1] = l
    OBVIOUS
  <1> HIDE DEF t
  <1>4. Pairs(t, b, 0)
    <2>1. \A n \in 1..Len(t) : IsPair(b, t[n]) /\ t[n][1] > 0
      BY <1>2 DEF Pairs
    <2>2. ASSUME NEW m \in 1..Len(t), NEW n \in 1..Len(t), m < n PROVE t[m][1] >= t[n][1]
      <3>1. m + 1 < n + 1
        BY <1>2, <2>2
      <3> QED
        BY <1>2, <3>1 DEF Pairs
    <2> QED
      BY <2>1, <2>2 DEF Pairs
  <1>5. \A n \in 1..Len(t) : t[n][1] <= l /\ t[n][1] \in Nat
    <2>1. ASSUME NEW n \in 1..Len(t) PROVE t[n][1] <= l /\ t[n][1] \in Nat
      <3>1. n + 1 \in 1..Len(q) /\ 1 \in 1..Len(q) /\ 1 < n + 1
        BY <1>2
      <3>2. q[1][1] >= q[n + 1][1]
        BY <3>1 DEF Pairs
      <3>3. t[n] \in L
        BY <1>2
      <3>4. t[n][1] \in Nat /\ l \in Nat
        <4>1. Len(b) \in Nat
          BY DEF BodyOK
        <4> QED
          BY <3>3, <4>1 DEF L
      <3> QED
        BY <1>2, <1>3, <3>2, <3>4
    <2> QED
      BY <2>1
  <1>6. ASSUME NEW m \in Fed(b) PROVE Leads(t, b, m) \/ Settled(t, d, m)
    <2>0. m \in 1..Len(b) /\ Len(b) \in Nat /\ m \in Nat /\ l \in Nat
      BY DEF Fed, BodyOK
    <2>1. CASE m = l
      BY <1>5, <2>1 DEF Settled
    <2>2. CASE m # l /\ Leads(q, b, m)
      <3>1. PICK n \in 1..Len(q) : /\ q[n] = <<m, LastStore(b, m)>>
                                   /\ \A k \in 1..(n - 1) : q[k][1] # m
        BY <2>2 DEF Leads
      <3>2. n # 1
        BY <1>3, <2>2, <3>1
      <3>3. n - 1 \in 1..Len(t) /\ (n - 1) + 1 = n
        BY <1>2, <3>2
      <3>4. t[n - 1] = <<m, LastStore(b, m)>>
        BY <1>2, <3>1, <3>3
      <3>5. ASSUME NEW k \in 1..((n - 1) - 1) PROVE t[k][1] # m
        <4>1. k \in 1..Len(t) /\ k + 1 \in 1..(n - 1)
          BY <1>2, <3>3
        <4> QED
          BY <1>2, <3>1, <4>1
      <3> QED
        BY <3>3, <3>4, <3>5 DEF Leads
    <2>3. CASE m # l /\ Settled(q, c, m)
      <3>1. Unused(c, m) /\ \A n \in 1..Len(q) : q[n][1] <= m
        BY <2>3 DEF Settled
      <3>2. l <= m
        BY <1>2, <1>3, <3>1
      <3>3. m > l
        BY <2>0, <2>3, <3>2
      <3>4. Unused(d, m)
        BY <2>0, <3>1, <3>3
      <3>5. \A n \in 1..Len(t) : t[n][1] <= m
        BY <1>2, <3>1
      <3> QED
        BY <3>4, <3>5 DEF Settled
    <2> QED
      BY <2>1, <2>2, <2>3
  <1> QED
    BY <1>2, <1>4, <1>6 DEF L, t

-----------------------------------------------------------------------------
(***************************************************************************)
(* Collecting the pairs of one load.                                       *)
(***************************************************************************)

\* found are stores that feed load l, the nearest first.
NearestFirst(found, b, l) ==
    /\ found \in Seq(Nat)
    /\ \A n \in 1..Len(found) : found[n] \in 1..Len(b) /\ Feeds(b, l, found[n])
    /\ LastStore(b, l) # 0 => Len(found) >= 1 /\ found[1] = LastStore(b, l)

CountsDown(s, l) == s \in Seq(Nat) /\ Len(s) = l - 1 /\ \A k \in 1..(l - 1) : s[k] = l - k
AreFeeds(T, b, l) == \A k : k \in T <=> k \in 1..(l - 1) /\ Feeds(b, l, k)

\* What is kept of the places before a load, the nearest first.
LEMMA KeptNearest ==
    ASSUME NEW b, BodyOK(b), NEW l \in 1..Len(b), NEW s, CountsDown(s, l),
           NEW T, AreFeeds(T, b, l), NEW found, found = Keep(s, T)
    PROVE  NearestFirst(found, b, l)
  <1> DEFINE I == {i \in 1..Len(s) : s[i] \in T}
  <1>1. Len(b) \in Nat /\ l \in Nat /\ l >= 1
    BY DEF BodyOK
  <1>2. s \in Seq(Nat) /\ Len(s) = l - 1 /\ \A k \in 1..(l - 1) : s[k] = l - k
    BY DEF CountsDown
  <1>3. s \in Seq(Nat)
    BY <1>2
  <1>4. \A k : k \in T <=> k \in 1..(l - 1) /\ Feeds(b, l, k)
    BY DEF AreFeeds
  <1>5. found = KeepAt(s, I)
    BY DEF Keep
  <1>6. \A i : i \in I <=> i \in 1..(l - 1) /\ l - i \in T
    BY <1>2
  <1> HIDE DEF I
  <1>7. found \in Seq(Nat)
    BY <1>3, <1>5, KeepAtOrder
  <1>8. PICK h \in Seq(1..Len(s)) :
           /\ Len(h) = Len(found)
           /\ \A j \in 1..Len(h) : h[j] \in I /\ found[j] = s[h[j]]
           /\ \A j, k \in 1..Len(h) : j < k => h[j] < h[k]
           /\ \A i \in I \cap (1..Len(s)) : \E j \in 1..Len(h) : h[j] = i
    BY <1>3, <1>5, KeptOrder, SMTT(30)
  <1>9. \A j \in 1..Len(found) :
           /\ h[j] \in 1..(l - 1) /\ found[j] = l - h[j] /\ found[j] \in T
    <2>1. ASSUME NEW j \in 1..Len(found)
          PROVE  h[j] \in 1..(l - 1) /\ found[j] = l - h[j] /\ found[j] \in T
      <3>1. h[j] \in I /\ found[j] = s[h[j]]
        BY <1>8
      <3>2. h[j] \in 1..(l - 1) /\ l - h[j] \in T
        BY <1>6, <3>1
      <3>3. s[h[j]] = l - h[j]
        BY <1>2, <3>2
      <3> QED
        BY <3>1, <3>2, <3>3
    <2> QED
      BY <2>1
  <1>10. \A n \in 1..Len(found) : found[n] \in 1..Len(b) /\ Feeds(b, l, found[n])
    <2>1. \A k \in 1..(l - 1) : k \in 1..Len(b)
      BY <1>1
    <2> QED
      BY <1>4, <1>9, <2>1
  <1>11. ASSUME LastStore(b, l) # 0 PROVE Len(found) >= 1 /\ found[1] = LastStore(b, l)
    <2> DEFINE m == LastStore(b, l)
    <2>1. m \in 0..l /\ Feeds(b, l, m) /\ \A n \in 1..(l - 1) : Feeds(b, l, n) => n <= m
      BY <1>1, <1>11, LastStoreFacts
    <2>2. m \in 1..(l - 1) /\ m \in T
      <3>1. m < l
        BY <2>1 DEF Feeds
      <3>2. m \in 1..(l - 1)
        BY <1>1, <1>11, <2>1, <3>1
      <3> HIDE DEF m
      <3> QED
        BY <1>4, <2>1, <3>2
    <2> HIDE DEF m
    <2>3. l - m \in 1..(l - 1) /\ l - (l - m) = m
      BY <1>1, <2>2
    <2>4. l - m \in I \cap (1..Len(s))
      BY <1>2, <1>6, <2>2, <2>3
    <2>5. PICK j \in 1..Len(h) : h[j] = l - m
      BY <1>8, <2>4
    <2>6. 1 \in 1..Len(found) /\ Len(found) \in Nat /\ j \in 1..Len(found)
      BY <1>7, <1>8, <2>5
    <2>7. h[1] <= h[j]
      <3>1. h[1] \in 1..(l - 1)
        BY <1>9, <2>6
      <3>2. 1 < j => h[1] < h[j]
        BY <1>8, <2>6
      <3> QED
        BY <1>1, <2>3, <2>5, <2>6, <3>1, <3>2
    <2>8. found[1] >= m
      <3>1. h[1] \in 1..(l - 1) /\ found[1] = l - h[1]
        BY <1>9, <2>6
      <3> QED
        BY <1>1, <2>2, <2>5, <2>7, <3>1
    <2>9. found[1] <= m
      <3>1. found[1] \in 1..(l - 1) /\ Feeds(b, l, found[1])
        BY <1>4, <1>9, <2>6
      <3> QED
        BY <2>1, <3>1 DEF m
    <2>10. found[1] \in Nat
      BY <1>7, <2>6
    <2> QED
      BY <1>1, <2>2, <2>6, <2>8, <2>9, <2>10 DEF m
  <1> QED
    BY <1>7, <1>10, <1>11 DEF NearestFirst

\* The stores that are found in the body as it is now.
LEMMA FoundStores ==
    ASSUME NEW b, BodyOK(b), NEW c, Rewritten(c, b), NEW l \in 1..Len(b)
    PROVE  NearestFirst(Keep([k \in 1..(l - 1) |-> l - k],
                             {k \in 1..(l - 1) : /\ c[k].kind = "store"
                                                 /\ c[k].var = c[l].var}), b, l)
  <1> DEFINE s == [k \in 1..(l - 1) |-> l - k]
             T == {k \in 1..(l - 1) : c[k].kind = "store" /\ c[k].var = c[l].var}
  <1>1. Len(b) \in Nat /\ l \in Nat /\ l >= 1
    BY DEF BodyOK
  <1>2. CountsDown(s, l)
    <2>1. l - 1 \in Nat /\ s \in [1..(l - 1) -> Nat] /\ \A k \in 1..(l - 1) : s[k] = l - k
      BY <1>1
    <2> HIDE DEF s
    <2>2. s \in Seq(Nat) /\ Len(s) = l - 1
      BY <2>1, FunctionIsSequence
    <2> QED
      BY <2>1, <2>2 DEF CountsDown
  <1>3. AreFeeds(T, b, l)
    <2>1. \A k \in 1..Len(b) : c[k].kind = b[k].kind /\ c[k].var = b[k].var
      BY DEF Rewritten
    <2>2. \A k \in 1..(l - 1) : k \in 1..Len(b) /\ k < l
      BY <1>1
    <2> QED
      BY <2>1, <2>2 DEF Feeds, AreFeeds
  <1> HIDE DEF s, T
  <1>4. NearestFirst(Keep(s, T), b, l)
    BY <1>2, <1>3, KeptNearest
  <1> QED
    BY <1>4 DEF s, T

\* t is q with a pair of l for each of found behind it.
Behind(t, q, l, found) ==
    /\ t \in Seq(Nat \X Nat) /\ Len(t) = Len(q) + Len(found)
    /\ \A n \in 1..Len(q) : t[n] = q[n]
    /\ \A k \in 1..Len(found) : t[Len(q) + k] = <<l, found[k]>>

LEMMA PairsBehind ==
    ASSUME NEW q \in Seq(Nat \X Nat), NEW l \in Nat, NEW found \in Seq(Nat)
    PROVE  Behind(q \o [k \in DOMAIN found |-> <<l, found[k]>>], q, l, found)
  <1> DEFINE L == Nat \X Nat
             u == [k \in DOMAIN found |-> <<l, found[k]>>]
             M == Len(found)
  <1>1. DOMAIN found = 1..M /\ M \in Nat /\ \A k \in 1..M : found[k] \in Nat
    OBVIOUS
  <1>2. u \in [1..M -> L] /\ \A k \in 1..M : u[k] = <<l, found[k]>>
    BY <1>1
  <1>3. q \in Seq(L)
    OBVIOUS
  <1> HIDE DEF L, u, M
  <1>4. u \in Seq(L) /\ Len(u) = M
    BY <1>1, <1>2, FunctionIsSequence
  <1>5. /\ q \o u \in Seq(L)
        /\ Len(q \o u) = Len(q) + Len(u)
        /\ \A i \in 1..Len(q) : (q \o u)[i] = q[i]
        /\ \A i \in 1..Len(u) : (q \o u)[Len(q) + i] = u[i]
    <2>1. u \in Seq(L)
      BY <1>4
    <2>2. q \o u \in Seq(L)
      BY <1>3, <2>1, ConcatPositions
    <2>3. Len(q \o u) = Len(q) + Len(u)
      BY <1>3, <2>1, ConcatPositions
    <2>4. \A i \in 1..Len(q) : (q \o u)[i] = q[i]
      BY <1>3, <2>1, ConcatPositions
    <2>5. \A i \in 1..Len(u) : (q \o u)[Len(q) + i] = u[i]
      BY <1>3, <2>1, ConcatPositions
    <2> QED
      BY <2>2, <2>3, <2>4, <2>5
  <1>6. Behind(q \o u, q, l, found)
    <2>1. q \o u \in Seq(Nat \X Nat)
      BY <1>5 DEF L
    <2> QED
      BY <1>2, <1>4, <1>5, <2>1 DEF Behind, M
  <1> QED
    BY <1>6 DEF u

\* The pairs of load l are put behind those of the later ones.
LEMMA CollectPairs ==
    ASSUME NEW b, BodyOK(b), NEW q \in Seq(Nat \X Nat), NEW l \in 1..Len(b),
           b[l].kind = "load", Pairs(q, b, l), \A m \in Fed(b) : m > l => Leads(q, b, m),
           NEW found, NearestFirst(found, b, l), NEW t, Behind(t, q, l, found)
    PROVE  Pairs(t, b, l - 1) /\ \A m \in Fed(b) : m > l - 1 => Leads(t, b, m)
  <1> DEFINE N == Len(q)
             M == Len(found)
  <1>1. l \in Nat /\ l >= 1 /\ Len(b) \in Nat /\ N \in Nat
    BY DEF BodyOK
  <1>2. M \in Nat
    BY DEF NearestFirst
  <1>3. \A k \in 1..M : found[k] \in 1..Len(b) /\ Feeds(b, l, found[k])
    BY DEF NearestFirst
  <1>4. Len(t) = N + M
    BY DEF Behind
  <1>5. \A n \in 1..N : t[n] = q[n]
    BY DEF Behind
  <1>6. \A k \in 1..M : t[N + k] = <<l, found[k]>>
    BY DEF Behind
  <1>7. \A n \in 1..N : IsPair(b, q[n]) /\ q[n][1] > l
    BY DEF Pairs
  <1>8. \A m, n \in 1..N : m < n => q[m][1] >= q[n][1]
    BY DEF Pairs
  <1>9. \A n \in 1..N : q[n][1] \in Nat
    <2>1. \A n \in 1..N : q[n] \in Nat \X Nat
      OBVIOUS
    <2> QED
      BY <2>1
  <1> HIDE DEF N, M
  <1>10. ASSUME NEW n \in 1..Len(t), n \notin 1..N
         PROVE  n - N \in 1..M /\ t[n] = <<l, found[n - N]>> /\ t[n][1] = l
    <2>1. n - N \in 1..M /\ N + (n - N) = n
      BY <1>1, <1>2, <1>4, <1>10
    <2>2. t[n] = <<l, found[n - N]>>
      BY <1>6, <2>1
    <2> QED
      BY <2>1, <2>2
  <1>11. Pairs(t, b, l - 1)
    <2>1. ASSUME NEW n \in 1..Len(t) PROVE IsPair(b, t[n]) /\ t[n][1] > l - 1
      <3>1. CASE n \in 1..N
        BY <1>1, <1>5, <1>7, <1>9, <3>1
      <3>2. CASE n \notin 1..N
        <4>1. n - N \in 1..M /\ t[n] = <<l, found[n - N]>> /\ t[n][1] = l
          BY <1>10, <3>2
        <4>2. found[n - N] \in 1..Len(b) /\ Feeds(b, l, found[n - N])
          BY <1>3, <4>1
        <4>3. IsPair(b, t[n])
          BY <4>1, <4>2 DEF IsPair
        <4> QED
          BY <1>1, <4>1, <4>3
      <3> QED
        BY <3>1, <3>2
    <2>2. ASSUME NEW m \in 1..Len(t), NEW n \in 1..Len(t), m < n PROVE t[m][1] >= t[n][1]
      <3>1. CASE m \in 1..N /\ n \in 1..N
        BY <1>5, <1>8, <2>2, <3>1
      <3>2. CASE m \in 1..N /\ n \notin 1..N
        <4>1. t[n][1] = l
          BY <1>10, <3>2
        <4>2. t[m][1] > l /\ t[m][1] \in Nat
          BY <1>5, <1>7, <1>9, <3>2
        <4> QED
          BY <1>1, <4>1, <4>2
      <3>3. CASE m \notin 1..N
        <4>1. n \notin 1..N
          BY <1>1, <1>2, <1>4, <2>2, <3>3
        <4>2. t[m][1] = l /\ t[n][1] = l
          BY <1>10, <3>3, <4>1
        <4> QED
          BY <1>1, <4>2
      <3> QED
        BY <3>1, <3>2, <3>3
    <2> QED
      BY <2>1, <2>2 DEF Pairs
  <1>12. ASSUME NEW m \in Fed(b), m > l - 1 PROVE Leads(t, b, m)
    <2>0. m \in Nat
      BY <1>1 DEF Fed
    <2>1. CASE m > l
      <3>1. Leads(q, b, m)
        BY <2>1
      <3>2. PICK n \in 1..N : /\ q[n] = <<m, LastStore(b, m)>>
                              /\ \A k \in 1..(n - 1) : q[k][1] # m
        BY <3>1 DEF Leads, N
      <3>3. n \in 1..Len(t) /\ \A k \in 1..(n - 1) : k \in 1..N
        BY <1>1, <1>2, <1>4
      <3>4. t[n] = <<m, LastStore(b, m)>>
        BY <1>5, <3>2
      <3>5. \A k \in 1..(n - 1) : t[k][1] # m
        BY <1>5, <3>2, <3>3
      <3> QED
        BY <3>3, <3>4, <3>5 DEF Leads
    <2>2. CASE m = l
      <3>1. LastStore(b, l) # 0
        BY <2>2 DEF Fed
      <3>2. 1 \in 1..M /\ found[1] = LastStore(b, l)
        BY <1>2, <3>1 DEF NearestFirst, M
      <3>3. N + 1 \in 1..Len(t) /\ t[N + 1] = <<l, LastStore(b, l)>>
        BY <1>1, <1>2, <1>4, <1>6, <3>2
      <3>4. \A k \in 1..((N + 1) - 1) : t[k][1] # l
        <4>1. \A k \in 1..((N + 1) - 1) : k \in 1..N
          BY <1>1
        <4>2. \A k \in 1..N : q[k][1] # l
          BY <1>1, <1>7, <1>9
        <4> QED
          BY <1>5, <4>1, <4>2
      <3> QED
        BY <2>2, <3>3, <3>4 DEF Leads
    <2> QED
      BY <1>1, <1>12, <2>0, <2>1, <2>2
  <1> QED
    BY <1>11, <1>12

\* An operation that is no load has no pairs.
LEMMA CollectNone ==
    ASSUME NEW b, BodyOK(b), NEW q, NEW l \in 1..Len(b), Pairs(q, b, l),
           \A m \in Fed(b) : m > l => Leads(q, b, m), l \notin Fed(b), q \in Seq(Nat \X Nat)
    PROVE  Pairs(q, b, l - 1) /\ \A m \in Fed(b) : m > l - 1 => Leads(q, b, m)
  <1>1. l \in Nat /\ Len(b) \in Nat
    BY DEF BodyOK
  <1>2. \A m \in Fed(b) : m > l - 1 => m > l
    BY <1>1 DEF Fed
  <1>3. \A n \in 1..Len(q) : q[n][1] > l - 1
    <2>1. \A n \in 1..Len(q) : q[n][1] > l
      BY DEF Pairs
    <2>2. \A n \in 1..Len(q) : q[n][1] \in Nat
      <3>1. \A n \in 1..Len(q) : q[n] \in Nat \X Nat
        OBVIOUS
      <3> QED
        BY <3>1
    <2> QED
      BY <1>1, <2>1, <2>2
  <1> QED
    BY <1>2, <1>3 DEF Pairs

-----------------------------------------------------------------------------
(***************************************************************************)
(* The bodies of the copies.                                               *)
(***************************************************************************)

\* The body of a function of a file.
LEMMA FileBody ==
    ASSUME TypeInv, NEW f \in Places
    PROVE  BodyOK(files[f[1]][f[2]].body)
  <1> DEFINE b == files[f[1]][f[2]].body
  <1>1. files \in FileLists /\ f[1] \in DOMAIN files /\ f[2] \in DOMAIN files[f[1]]
    BY PlaceParts DEF TypeInv
  <1>2. /\ b \in Seq(Operation)
        /\ \A k \in DOMAIN b : b[k].val < 0 => -b[k].val < k /\ b[-b[k].val].kind = "load"
    BY <1>1, BodiesAssumption
  <1> HIDE DEF b
  <1>3. DOMAIN b = 1..Len(b)
    BY <1>2
  <1> QED
    BY <1>2, <1>3 DEF BodyOK, b

\* CloneFuncs copies it.
LEMMA CloneBodies ==
    ASSUME TypeInv, GatherInv, CloneFuncs, NEW i \in DOMAIN newModule'
    PROVE  BodyOK(Original(i)') /\ newModule'[i].body = Original(i)'
  <1> DEFINE fn == allFuncsList[i]
  <1>1. /\ step = "gather" /\ files' = files
        /\ newModule' = [j \in DOMAIN allFuncsList |-> Clone(allFuncsList[j])]
    BY DEF CloneFuncs
  <1>2. i \in DOMAIN allFuncsList /\ newModule'[i] = Clone(fn)
    BY <1>1
  <1>3. fn \in Places
    <2>1. fn = allFuncsMap[Start(fn)] /\ Start(fn) \in Addresses /\ fn # Nobody
      BY <1>1, <1>2 DEF GatherInv, ListInv
    <2>2. FirstSeen(Start(fn))
      BY <1>1, <2>1 DEF GatherInv
    <2>3. fn \in Hits(Start(fn))
      BY <2>1, <2>2 DEF FirstSeen
    <2> QED
      BY <2>3 DEF Hits, Seen
  <1> HIDE DEF fn
  <1>4. Clone(fn).body = files[fn[1]][fn[2]].body /\ Clone(fn).origin = fn
    BY DEF Clone
  <1>5. Original(i)' = files[fn[1]][fn[2]].body
    BY <1>1, <1>2, <1>4 DEF Original
  <1> QED
    BY <1>2, <1>3, <1>4, <1>5, FileBody

\* g is copy f with another body perhaps.
SameCopy(g, f) ==
    /\ DOMAIN g = DOMAIN f
    /\ g.start = f.start /\ g.block = f.block /\ g.calls = f.calls
    /\ g.linked = f.linked /\ g.origin = f.origin

\* replaceAllUsesWith changes the body of the function and nothing else.
LEMMA ReplaceModule ==
    ASSUME ModuleInv, step = "done", ReplaceAlias, func \in DOMAIN newModule
    PROVE  /\ DOMAIN newModule' = DOMAIN newModule /\ Len(newModule') = Len(newModule)
           /\ \A j \in DOMAIN newModule : SameCopy(newModule'[j], newModule[j])
           /\ \A j \in DOMAIN newModule : j # func => newModule'[j] = newModule[j]
           /\ newModule'[func].body =
                 [k \in DOMAIN newModule[func].body |->
                    IF newModule[func].body[k].val = -Head(aliases)[1]
                    THEN [newModule[func].body[k] EXCEPT
                             !.val = newModule[func].body[Head(aliases)[2]].val]
                    ELSE newModule[func].body[k]]
  <1> DEFINE c == newModule[func].body
             d == [k \in DOMAIN c |->
                     IF c[k].val = -Head(aliases)[1]
                     THEN [c[k] EXCEPT !.val = c[Head(aliases)[2]].val] ELSE c[k]]
  <1>1. newModule' = [newModule EXCEPT ![func].body = d]
    BY DEF ReplaceAlias, Body
  <1>2. CopyOK(newModule[func]) /\ DOMAIN newModule = 1..Len(newModule) /\ Len(newModule) \in Nat
    BY DEF ModuleInv
  <1>3. DOMAIN newModule[func] = {"start", "block", "calls", "body", "linked", "origin"}
    BY <1>2 DEF CopyOK
  <1> HIDE DEF d
  <1>4. /\ DOMAIN newModule' = DOMAIN newModule
        /\ \A j \in DOMAIN newModule : j # func => newModule'[j] = newModule[j]
        /\ DOMAIN newModule'[func] = DOMAIN newModule[func]
        /\ newModule'[func].start = newModule[func].start
        /\ newModule'[func].block = newModule[func].block
        /\ newModule'[func].calls = newModule[func].calls
        /\ newModule'[func].linked = newModule[func].linked
        /\ newModule'[func].origin = newModule[func].origin
        /\ newModule'[func].body = d
    BY <1>1, <1>3
  <1>5. Len(newModule') = Len(newModule)
    <2>1. newModule' = [j \in 1..Len(newModule) |-> newModule'[j]]
      BY <1>1, <1>2
    <2> QED
      BY <1>2, <2>1, LenOfFunction
  <1>6. \A j \in DOMAIN newModule : SameCopy(newModule'[j], newModule[j])
    BY <1>4 DEF SameCopy
  <1> QED
    BY <1>4, <1>5, <1>6 DEF d

\* The invariant of the linker says nothing about bodies.
LEMMA BodiesOnly ==
    ASSUME IInv, step = "done",
           UNCHANGED <<files, step, file, pos, unread, allFuncsMap, allFuncsList, directCalls>>,
           DOMAIN newModule' = DOMAIN newModule, Len(newModule') = Len(newModule),
           \A j \in DOMAIN newModule : SameCopy(newModule'[j], newModule[j])
    PROVE  IInv'
  <1>0. TypeInv /\ ModuleInv /\ CopyInv /\ LinkInv
    BY DEF IInv
  <1>1. \A j \in DOMAIN newModule :
           /\ DOMAIN newModule'[j] = DOMAIN newModule[j]
           /\ newModule'[j].start = newModule[j].start
           /\ newModule'[j].block = newModule[j].block
           /\ newModule'[j].calls = newModule[j].calls
           /\ newModule'[j].linked = newModule[j].linked
           /\ newModule'[j].origin = newModule[j].origin
    BY DEF SameCopy
  <1>2. TypeInv'
    BY <1>0 DEF TypeInv
  <1>3. GatherInv'
    BY DEF GatherInv
  <1>4. ModuleInv'
    <2>1. \A a : Candidates(a)' = Candidates(a)
      BY DEF Candidates, Places
    <2>2. ASSUME NEW j \in DOMAIN newModule PROVE CopyOK(newModule'[j])
      <3>1. CopyOK(newModule[j])
        BY <1>0 DEF ModuleInv
      <3> QED
        BY <1>1, <3>1 DEF CopyOK
    <2>3. (\A j \in DOMAIN newModule : CopyOK(newModule[j]))'
      BY <2>1, <2>2 DEF CopyOK, Before
    <2> QED
      BY <1>0, <1>1, <2>1, <2>3 DEF ModuleInv
  <1>5. CopyInv'
    <2>1. Again = Len(newModule) /\ Again' = Again
      BY DEF Again
    <2>2. DOMAIN newModule = 1..Again
      BY <1>0, <2>1 DEF ModuleInv
    <2>3. /\ Again <= Len(newModule) /\ Len(allFuncsList) = Again
          /\ \A i \in 1..Again : /\ allFuncsList[i] = <<0, i>>
                                 /\ allFuncsMap[newModule[i].start] = <<0, i>>
          /\ \A a \in Addresses :
                allFuncsMap[a] # Nobody => \E i \in 1..Again : newModule[i].start = a
      BY <1>0 DEF CopyInv
    <2>4. \A i \in 1..Again : newModule'[i].start = newModule[i].start
      BY <1>1, <2>2
    <2>5. \A i \in 1..Again : /\ allFuncsList[i] = <<0, i>>
                              /\ allFuncsMap[newModule'[i].start] = <<0, i>>
      BY <2>3, <2>4
    <2>6. \A a \in Addresses :
             allFuncsMap[a] # Nobody => \E i \in 1..Again : newModule'[i].start = a
      BY <2>3, <2>4
    <2> QED
      BY <2>1, <2>3, <2>5, <2>6 DEF CopyInv
  <1>6. LinkInv'
    <2>1. \A t : Target(t)' = Target(t)
      BY DEF Target
    <2>2. \A i \in DOMAIN newModule : \A k : Entry(i, k)' = Entry(i, k)
      BY <1>1, <2>1 DEF Entry
    <2>3. EntriesInv
      BY <1>0 DEF LinkInv
    <2>4. EntriesInv'
      BY <1>1, <2>2, <2>3 DEF EntriesInv
    <2> QED
      BY <1>0, <1>1, <2>1, <2>4 DEF LinkInv
  <1> QED
    BY <1>2, <1>3, <1>4, <1>5, <1>6 DEF IInv

-----------------------------------------------------------------------------
(***************************************************************************)
(* The steps of the passes.                                                *)
(***************************************************************************)

\* A step of the linker leaves the passes waiting.
LEMMA LinkerStepPost ==
    ASSUME IInv, PostInv, Next, UNCHANGED postVars
    PROVE  PostInv'
  <1>1. post' = post /\ func' = func /\ rit' = rit /\ aliases' = aliases
    BY DEF postVars
  <1>2. step # "done"
    BY DEF Next, LoadFile, SkipFile, GatherFunc, NextFile, CloneFuncs, StartLinking,
           CollectCalls, LinkCall, Save
  <1>3. post = "off" /\ func = 1 /\ aliases = <<>>
    BY <1>2 DEF PostInv, FuncInv
  <1>4. BodiesInv'
    <2>1. CASE LoadFile \/ SkipFile \/ NextFile \/ GatherFunc \/ StartLinking \/ CollectCalls
               \/ Save
      <3>1. /\ files' = files /\ newModule' = newModule
            /\ step' # "gather" => step # "gather"
        BY <2>1 DEF LoadFile, SkipFile, NextFile, GatherFunc, StartLinking, CollectCalls, Save
      <3>2. \A i : Original(i)' = Original(i)
        BY <3>1 DEF Original
      <3> QED
        BY <1>1, <3>1, <3>2 DEF PostInv, BodiesInv
    <2>2. CASE CloneFuncs
      <3>1. \A i \in DOMAIN newModule' : BodyOK(Original(i)') /\ newModule'[i].body = Original(i)'
        BY <2>2, CloneBodies DEF IInv
      <3> QED
        BY <1>1, <1>3, <3>1 DEF BodiesInv
    <2>3. CASE LinkCall
      <3>1. files' = files /\ step = "collect"
        BY <2>3 DEF LinkCall
      <3>2. PICK i \in DOMAIN newModule :
               /\ DOMAIN newModule' = DOMAIN newModule
               /\ \A j \in DOMAIN newModule : j # i => newModule'[j] = newModule[j]
               /\ newModule'[i].body = newModule[i].body
               /\ newModule'[i].origin = newModule[i].origin
        BY <2>3, LinkCallModule DEF IInv
      <3>3. \A j \in DOMAIN newModule : /\ newModule'[j].body = newModule[j].body
                                        /\ newModule'[j].origin = newModule[j].origin
        BY <3>2
      <3>4. \A j \in DOMAIN newModule : Original(j)' = Original(j)
        BY <3>1, <3>3 DEF Original
      <3> QED
        BY <1>1, <1>3, <3>1, <3>2, <3>3, <3>4 DEF PostInv, BodiesInv
    <2> QED
      BY <2>1, <2>2, <2>3 DEF Next
  <1>5. FuncInv'
    BY <1>1, <1>3 DEF FuncInv
  <1>6. CollectInv' /\ ReplaceInv'
    BY <1>1, <1>3 DEF CollectInv, ReplaceInv
  <1> QED
    BY <1>4, <1>5, <1>6 DEF PostInv

\* The copies of the functions the passes work on.
LEMMA FuncFacts ==
    ASSUME IInv, PostInv, post # "off"
    PROVE  /\ step = "done" /\ Len(newModule) \in Nat /\ DOMAIN newModule = 1..Len(newModule)
           /\ func \in Nat /\ func >= 1
           /\ func <= Len(newModule) => func \in DOMAIN newModule
           /\ \A i \in DOMAIN newModule :
                 BodyOK(Original(i)) /\ Rewritten(newModule[i].body, Original(i))
  <1>1. step = "done" /\ func \in Nat /\ func >= 1
    BY DEF PostInv, FuncInv
  <1>2. Len(newModule) \in Nat /\ DOMAIN newModule = 1..Len(newModule)
    BY <1>1 DEF IInv, ModuleInv
  <1>3. \A i \in DOMAIN newModule :
           BodyOK(Original(i)) /\ Rewritten(newModule[i].body, Original(i))
    BY <1>1 DEF PostInv, BodiesInv
  <1> QED
    BY <1>1, <1>2, <1>3

\* A step that leaves the module and the pass over the bodies keeps what is
\* known of the functions passed over.
LEMMA SameModule ==
    ASSUME UNCHANGED vars
    PROVE  \A i : Original(i)' = Original(i)
  BY DEF vars, Original

\* InternalizeGlobals leaves the bodies.
LEMMA InternalizeStep == ASSUME IInv, PostInv, Internalize PROVE PostInv'
  <1>1. /\ post = "off" /\ post' = "rename" /\ step = "done" /\ UNCHANGED vars
        /\ func' = func /\ aliases' = aliases
    BY DEF Internalize
  <1>2. /\ step' = step /\ newModule' = newModule
        /\ \A i : Original(i)' = Original(i)
    BY <1>1, SameModule DEF vars
  <1>3. func = 1 /\ aliases = <<>>
    BY <1>1 DEF PostInv, FuncInv
  <1>4. \A i \in DOMAIN newModule : BodyOK(Original(i)) /\ newModule[i].body = Original(i)
    BY <1>1 DEF PostInv, BodiesInv
  <1>5. \A b : BodyOK(b) => Rewritten(b, b)
    BY DEF BodyOK, Rewritten
  <1>6. BodiesInv'
    BY <1>1, <1>2, <1>4, <1>5 DEF BodiesInv
  <1>7. FuncInv'
    <2>1. Len(newModule) \in Nat
      BY <1>1 DEF IInv, ModuleInv
    <2> QED
      BY <1>1, <1>2, <1>3, <2>1 DEF FuncInv
  <1>8. CollectInv' /\ ReplaceInv'
    BY <1>1 DEF CollectInv, ReplaceInv
  <1> QED
    BY <1>6, <1>7, <1>8 DEF PostInv

\* FunctionRename names the function and leaves its body.
LEMMA RenameStep == ASSUME IInv, PostInv, RenameFunc PROVE PostInv'
  <1> DEFINE c == newModule[func].body
             b == Original(func)
  <1>1. /\ post = "rename" /\ post' = "collect" /\ UNCHANGED vars /\ func <= Len(newModule)
        /\ func' = func /\ aliases' = aliases
        /\ rit' = Len(c)
    BY DEF RenameFunc, Body
  <1>2. /\ step' = step /\ newModule' = newModule
        /\ \A i : Original(i)' = Original(i)
    BY <1>1, SameModule DEF vars
  <1>3. /\ step = "done" /\ func \in Nat /\ func >= 1 /\ func \in DOMAIN newModule
        /\ BodyOK(b) /\ Rewritten(c, b) /\ Len(newModule) \in Nat
    BY <1>1, FuncFacts
  <1>4. aliases = <<>>
    BY <1>1 DEF PostInv, FuncInv
  <1>5. BodiesInv'
    BY <1>1, <1>2 DEF PostInv, BodiesInv
  <1>6. FuncInv'
    BY <1>1, <1>2 DEF PostInv, FuncInv
  <1>7. CollectInv'
    <2>1. Len(c) = Len(b) /\ Len(b) \in Nat
      BY <1>3 DEF Rewritten, BodyOK
    <2> HIDE DEF b, c
    <2>2. Pairs(<<>>, b, rit')
      BY DEF Pairs
    <2>3. \A l \in Fed(b) : ~(l > rit')
      BY <1>1, <2>1 DEF Fed
    <2>4. rit' \in 0..Len(b)
      BY <1>1, <2>1
    <2>5. <<>> \in Seq(Nat \X Nat)
      OBVIOUS
    <2>6. Original(func)' = b
      BY <1>1, <1>2 DEF b
    <2> QED
      BY <1>1, <1>4, <2>2, <2>3, <2>4, <2>5, <2>6 DEF CollectInv
  <1>8. ReplaceInv'
    BY <1>1 DEF ReplaceInv
  <1> QED
    BY <1>5, <1>6, <1>7, <1>8 DEF PostInv

\* LoadAliasReplacePass, one operation.
LEMMA CollectStep == ASSUME IInv, PostInv, CollectAliases PROVE PostInv'
  <1> DEFINE c == newModule[func].body
             b == Original(func)
  <1>1. /\ post = "collect" /\ post' = "collect" /\ UNCHANGED vars /\ rit > 1
        /\ func' = func /\ rit' = rit - 1
        /\ IF c[rit].kind # "load" THEN aliases' = aliases
           ELSE aliases' = aliases \o [k \in DOMAIN StoresBefore(rit) |->
                                         <<rit, StoresBefore(rit)[k]>>]
    BY DEF CollectAliases, Body
  <1>2. /\ step' = step /\ newModule' = newModule
        /\ \A i : Original(i)' = Original(i)
    BY <1>1, SameModule DEF vars
  <1>3. func <= Len(newModule)
    BY <1>1 DEF PostInv, FuncInv
  <1>4. BodyOK(b) /\ Rewritten(c, b)
    BY <1>1, <1>3, FuncFacts
  <1>5. BodiesInv' /\ ReplaceInv'
    BY <1>1, <1>2 DEF PostInv, BodiesInv, ReplaceInv
  <1>6. FuncInv'
    BY <1>1, <1>2 DEF PostInv, FuncInv
  <1>7. /\ aliases \in Seq(Nat \X Nat) /\ rit \in 0..Len(b) /\ Pairs(aliases, b, rit)
        /\ \A l \in Fed(b) : l > rit => Leads(aliases, b, l)
    BY <1>1 DEF PostInv, CollectInv
  <1>8. rit \in 1..Len(b) /\ rit \in Nat /\ Len(b) \in Nat /\ rit - 1 \in 0..Len(b)
    BY <1>1, <1>4, <1>7 DEF BodyOK
  <1>9. c[rit].kind = b[rit].kind
    BY <1>4, <1>8 DEF Rewritten
  <1>10. /\ aliases' \in Seq(Nat \X Nat) /\ Pairs(aliases', b, rit - 1)
         /\ \A l \in Fed(b) : l > rit - 1 => Leads(aliases', b, l)
    <2>1. CASE b[rit].kind # "load"
      <3>1. aliases' = aliases
        BY <1>1, <1>9, <2>1
      <3>2. rit \notin Fed(b)
        BY <2>1 DEF Fed
      <3> HIDE DEF b
      <3> QED
        BY <1>4, <1>7, <1>8, <3>1, <3>2, CollectNone
    <2>2. CASE b[rit].kind = "load"
      <3> DEFINE found == StoresBefore(rit)
                 q == aliases
                 t == q \o [k \in DOMAIN found |-> <<rit, found[k]>>]
      <3>1. aliases' = t
        BY <1>1, <1>9, <2>2
      <3>2. NearestFirst(found, b, rit)
        <4> HIDE DEF b
        <4>1. NearestFirst(Keep([k \in 1..(rit - 1) |-> rit - k],
                                {k \in 1..(rit - 1) : /\ c[k].kind = "store"
                                                      /\ c[k].var = c[rit].var}), b, rit)
          BY <1>4, <1>8, FoundStores
        <4> QED
          BY <4>1 DEF StoresBefore, Body
      <3> HIDE DEF found
      <3>3. found \in Seq(Nat)
        BY <3>2 DEF NearestFirst
      <3>4. q \in Seq(Nat \X Nat)
        BY <1>7
      <3> HIDE DEF q
      <3>5. Behind(t, q, rit, found)
        BY <1>8, <3>3, <3>4, PairsBehind
      <3> HIDE DEF t, b
      <3>6. Pairs(q, b, rit) /\ \A l \in Fed(b) : l > rit => Leads(q, b, l)
        BY <1>7 DEF q
      <3>7. Pairs(t, b, rit - 1) /\ \A l \in Fed(b) : l > rit - 1 => Leads(t, b, l)
        BY <1>4, <1>8, <2>2, <3>2, <3>4, <3>5, <3>6, CollectPairs
      <3>8. t \in Seq(Nat \X Nat)
        BY <3>5 DEF Behind
      <3> QED
        BY <3>1, <3>7, <3>8
    <2> QED
      BY <2>1, <2>2
  <1>11. CollectInv'
    <2>1. Original(func)' = b
      BY <1>1, <1>2
    <2> HIDE DEF b
    <2> QED
      BY <1>1, <1>8, <1>10, <2>1 DEF CollectInv
  <1> QED
    BY <1>5, <1>6, <1>11 DEF PostInv

\* The first operation reads from nothing in the block.
LEMMA StartStep == ASSUME IInv, PostInv, StartReplacing PROVE PostInv'
  <1> DEFINE b == Original(func)
  <1>1. /\ post = "collect" /\ post' = "replace" /\ UNCHANGED vars /\ rit <= 1
        /\ func' = func /\ aliases' = aliases
    BY DEF StartReplacing
  <1>2. /\ step' = step /\ newModule' = newModule
        /\ \A i : Original(i)' = Original(i)
    BY <1>1, SameModule DEF vars
  <1>3. BodiesInv' /\ CollectInv'
    BY <1>1, <1>2 DEF PostInv, BodiesInv, CollectInv
  <1>4. FuncInv'
    BY <1>1, <1>2 DEF PostInv, FuncInv
  <1>5. func <= Len(newModule)
    BY <1>1 DEF PostInv, FuncInv
  <1>6. BodyOK(b) /\ Len(b) \in Nat
    <2>1. BodyOK(b)
      BY <1>1, <1>5, FuncFacts
    <2> QED
      BY <2>1 DEF BodyOK
  <1>7. /\ aliases \in Seq(Nat \X Nat) /\ rit \in 0..Len(b) /\ Pairs(aliases, b, rit)
        /\ \A l \in Fed(b) : l > rit => Leads(aliases, b, l)
    BY <1>1 DEF PostInv, CollectInv
  <1>8. Original(func)' = b
    BY <1>1, <1>2
  <1> HIDE DEF b
  <1>9. \A l \in Fed(b) : l > rit
    <2> SUFFICES ASSUME NEW l \in Fed(b) PROVE l > rit
      OBVIOUS
    <2>1. l \in 1..Len(b) /\ LastStore(b, l) # 0 /\ l \in Nat
      BY <1>6 DEF Fed
    <2>2. LastStore(b, l) \in 0..l /\ LastStore(b, l) < l
      BY <2>1, LastStoreFacts DEF Feeds
    <2> QED
      BY <1>1, <1>6, <1>7, <2>1, <2>2
  <1>10. Pairs(aliases, b, 0)
    <2>1. \A n \in 1..Len(aliases) : aliases[n][1] \in Nat
      <3>1. \A n \in 1..Len(aliases) : aliases[n] \in Nat \X Nat
        BY <1>7
      <3> QED
        BY <3>1
    <2>2. \A n \in 1..Len(aliases) : aliases[n][1] > 0
      <3>1. \A n \in 1..Len(aliases) : aliases[n][1] > rit
        BY <1>7 DEF Pairs
      <3>2. rit \in Nat
        BY <1>6, <1>7
      <3> QED
        BY <2>1, <3>1, <3>2
    <2> QED
      BY <1>7, <2>2 DEF Pairs
  <1>11. ReplaceInv'
    BY <1>1, <1>7, <1>8, <1>9, <1>10 DEF ReplaceInv
  <1> QED
    BY <1>3, <1>4, <1>11 DEF PostInv

\* replaceAllUsesWith.
LEMMA ReplaceStep == ASSUME IInv, PostInv, ReplaceAlias PROVE IInv' /\ PostInv'
  <1> DEFINE c == newModule[func].body
             d == newModule'[func].body
             b == Original(func)
             q == aliases
  <1>1. /\ post = "replace" /\ post' = "replace" /\ q # <<>> /\ aliases' = Tail(q)
        /\ UNCHANGED <<files, step, file, pos, unread, allFuncsMap, allFuncsList,
                       directCalls>>
        /\ func' = func
    BY DEF ReplaceAlias
  <1>2. func <= Len(newModule)
    BY <1>1 DEF PostInv, FuncInv
  <1>3. /\ step = "done" /\ Len(newModule) \in Nat /\ DOMAIN newModule = 1..Len(newModule)
        /\ func \in Nat /\ func >= 1 /\ func \in DOMAIN newModule
        /\ BodyOK(b) /\ Rewritten(c, b)
    BY <1>1, <1>2, FuncFacts
  <1>4. /\ DOMAIN newModule' = DOMAIN newModule /\ Len(newModule') = Len(newModule)
        /\ \A j \in DOMAIN newModule : SameCopy(newModule'[j], newModule[j])
        /\ \A j \in DOMAIN newModule : j # func => newModule'[j] = newModule[j]
        /\ d = [k \in DOMAIN c |-> IF c[k].val = -Head(q)[1]
                                   THEN [c[k] EXCEPT !.val = c[Head(q)[2]].val] ELSE c[k]]
    BY <1>3, ReplaceModule DEF IInv
  <1>5. IInv'
    BY <1>1, <1>3, <1>4, BodiesOnly
  <1>6. \A j \in DOMAIN newModule : Original(j)' = Original(j)
    <2>1. \A j \in DOMAIN newModule : newModule'[j].origin = newModule[j].origin
      BY <1>4 DEF SameCopy
    <2> QED
      BY <1>1, <2>1 DEF Original
  <1>7. /\ q \in Seq(Nat \X Nat) /\ Pairs(q, b, 0)
        /\ \A l \in Fed(b) : Leads(q, b, l) \/ Settled(q, c, l)
    BY <1>1 DEF PostInv, ReplaceInv
  <1>8. Original(func)' = b /\ newModule'[func'].body = d
    BY <1>1, <1>3, <1>6
  <1>9. \A j \in DOMAIN newModule : j # func => newModule'[j].body = newModule[j].body
    BY <1>4
  <1>10. aliases = q
    OBVIOUS
  <1> HIDE DEF c, d, b, q
  <1>11. PICK l, s \in 1..Len(b) :
            /\ Head(q) = <<l, s>> /\ l \in Fed(b) /\ Feeds(b, l, s)
            /\ Unused(c, l) \/ s = LastStore(b, l)
    BY <1>1, <1>3, <1>7, FirstPair
  <1>12. /\ Rewritten(d, b) /\ Unused(d, l)
         /\ \A m \in 1..Len(b) : m > l /\ Unused(c, m) => Unused(d, m)
    <2>1. b[l].kind = "load"
      BY <1>11 DEF Fed
    <2>2. d = [k \in DOMAIN c |-> IF c[k].val = -l
                                  THEN [c[k] EXCEPT !.val = c[s].val] ELSE c[k]]
      BY <1>4, <1>11
    <2> QED
      BY <1>3, <1>11, <2>1, <2>2, ReplaceBody
  <1>13. /\ Tail(q) \in Seq(Nat \X Nat) /\ Pairs(Tail(q), b, 0)
         /\ \A m \in Fed(b) : Leads(Tail(q), b, m) \/ Settled(Tail(q), d, m)
    <2>1. Head(q)[1] = l
      BY <1>11
    <2> QED
      BY <1>1, <1>3, <1>7, <1>12, <2>1, NextPairs
  <1>14. BodiesInv'
    <2>1. ASSUME NEW j \in DOMAIN newModule
          PROVE  BodyOK(Original(j)) /\ Rewritten(newModule'[j].body, Original(j))
      <3>1. BodyOK(Original(j)) /\ Rewritten(newModule[j].body, Original(j))
        BY <1>1, FuncFacts
      <3>2. CASE j = func
        BY <1>12, <3>1, <3>2 DEF b, d
      <3>3. CASE j # func
        BY <1>9, <3>1, <3>3
      <3> QED
        BY <3>2, <3>3
    <2> QED
      BY <1>1, <1>4, <1>6, <2>1 DEF BodiesInv
  <1>15. FuncInv'
    <2>1. \A i \in 1..(func - 1) : i \in DOMAIN newModule /\ i # func
      BY <1>2, <1>3
    <2>2. \A i \in 1..(func - 1) : AllReplaced(newModule'[i].body, Original(i)')
      <3>1. \A i \in 1..(func - 1) : AllReplaced(newModule[i].body, Original(i))
        BY <1>1 DEF PostInv, FuncInv
      <3> QED
        BY <1>6, <1>9, <2>1, <3>1
    <2>3. func - 1 <= Len(newModule)
      BY <1>2, <1>3
    <2> QED
      BY <1>1, <1>2, <1>3, <1>4, <2>2, <2>3 DEF FuncInv
  <1>16. CollectInv'
    BY <1>1 DEF CollectInv
  <1>17. ReplaceInv'
    BY <1>1, <1>8, <1>13 DEF ReplaceInv
  <1> QED
    BY <1>5, <1>14, <1>15, <1>16, <1>17 DEF PostInv

\* All loads of a function that is left were replaced.
LEMMA NextFuncStep == ASSUME IInv, PostInv, NextFunc PROVE PostInv'
  <1> DEFINE c == newModule[func].body
             b == Original(func)
  <1>1. /\ post = "replace" /\ post' = "rename" /\ UNCHANGED vars /\ aliases = <<>>
        /\ func' = func + 1 /\ aliases' = aliases
    BY DEF NextFunc
  <1>2. /\ step' = step /\ newModule' = newModule
        /\ \A i : Original(i)' = Original(i)
    BY <1>1, SameModule DEF vars
  <1>3. func <= Len(newModule)
    BY <1>1 DEF PostInv, FuncInv
  <1>4. /\ step = "done" /\ Len(newModule) \in Nat /\ func \in Nat /\ func >= 1
    BY <1>1, FuncFacts
  <1>5. AllReplaced(c, b)
    <2>1. \A l \in Fed(b) : Leads(<<>>, b, l) \/ Settled(<<>>, c, l)
      BY <1>1 DEF PostInv, ReplaceInv
    <2> HIDE DEF b, c
    <2>2. \A l : ~Leads(<<>>, b, l)
      BY DEF Leads
    <2> QED
      BY <2>1, <2>2 DEF AllReplaced, Settled
  <1>6. \A i \in 1..func : AllReplaced(newModule[i].body, Original(i))
    <2>1. \A i \in 1..(func - 1) : AllReplaced(newModule[i].body, Original(i))
      BY <1>1 DEF PostInv, FuncInv
    <2>2. \A i \in 1..func : i \in 1..(func - 1) \/ i = func
      BY <1>4
    <2> QED
      BY <1>5, <2>1, <2>2
  <1>7. FuncInv'
    <2>1. (func + 1) - 1 = func /\ func + 1 \in Nat /\ func + 1 >= 1
      BY <1>4
    <2> QED
      BY <1>1, <1>2, <1>3, <1>4, <1>6, <2>1 DEF FuncInv
  <1>8. BodiesInv' /\ CollectInv' /\ ReplaceInv'
    BY <1>1, <1>2 DEF PostInv, BodiesInv, CollectInv, ReplaceInv
  <1> QED
    BY <1>7, <1>8 DEF PostInv

\* The end of the passes.
LEMMA EndStep == ASSUME IInv, PostInv, EndPost PROVE PostInv'
  <1>1. /\ post = "rename" /\ post' = "done" /\ UNCHANGED vars /\ func > Len(newModule)
        /\ func' = func /\ aliases' = aliases
    BY DEF EndPost
  <1>2. /\ step' = step /\ newModule' = newModule
        /\ \A i : Original(i)' = Original(i)
    BY <1>1, SameModule DEF vars
  <1>3. FuncInv'
    BY <1>1, <1>2 DEF PostInv, FuncInv
  <1>4. BodiesInv' /\ CollectInv' /\ ReplaceInv'
    BY <1>1, <1>2 DEF PostInv, BodiesInv, CollectInv, ReplaceInv
  <1> QED
    BY <1>3, <1>4 DEF PostInv

\* Every step of the linker and the passes keeps the invariant.
LEMMA PostStep == IInv /\ PostInv /\ [PostNext]_allVars => IInv' /\ PostInv'
  <1> SUFFICES ASSUME IInv, PostInv, [PostNext]_allVars PROVE IInv' /\ PostInv'
    OBVIOUS
  <1>1. [Next]_vars => IInv'
    BY TypeStep, GatherStep, ModuleStep, CopyStep, LinkStep DEF IInv
  <1>2. CASE Next /\ UNCHANGED postVars
    BY <1>1, <1>2, LinkerStepPost
  <1>3. CASE Internalize
    BY <1>1, <1>3, InternalizeStep DEF Internalize
  <1>4. CASE RenameFunc
    BY <1>1, <1>4, RenameStep DEF RenameFunc
  <1>5. CASE CollectAliases
    BY <1>1, <1>5, CollectStep DEF CollectAliases
  <1>6. CASE StartReplacing
    BY <1>1, <1>6, StartStep DEF StartReplacing
  <1>7. CASE ReplaceAlias
    BY <1>7, ReplaceStep
  <1>8. CASE NextFunc
    BY <1>1, <1>8, NextFuncStep DEF NextFunc
  <1>9. CASE EndPost
    BY <1>1, <1>9, EndStep DEF EndPost
  <1>10. CASE UNCHANGED allVars
    <2>1. UNCHANGED vars /\ UNCHANGED postVars
      BY <1>10 DEF allVars
    <2>2. /\ step' = step /\ newModule' = newModule
          /\ \A i : Original(i)' = Original(i)
      BY <2>1, SameModule DEF vars
    <2>3. post' = post /\ func' = func /\ rit' = rit /\ aliases' = aliases
      BY <2>1 DEF postVars
    <2>4. PostInv'
      BY <2>2, <2>3 DEF PostInv, BodiesInv, FuncInv, CollectInv, ReplaceInv
    <2> QED
      BY <1>1, <2>1, <2>4
  <1> QED
    BY <1>2, <1>3, <1>4, <1>5, <1>6, <1>7, <1>8, <1>9, <1>10 DEF PostNext

\* The invariant of the linker with the passes over its result.
THEOREM PostInvariant == PostSpec => [](IInv /\ PostInv)
  <1>1. PostInit => IInv /\ PostInv
    <2> SUFFICES ASSUME PostInit PROVE IInv /\ PostInv
      OBVIOUS
    <2>1. IInv
      BY InitIInv DEF PostInit
    <2>2. /\ step = "gather" /\ post = "off" /\ func = 1 /\ aliases = <<>>
      BY DEF PostInit, Init
    <2>3. BodiesInv /\ FuncInv /\ CollectInv /\ ReplaceInv
      BY <2>2 DEF BodiesInv, FuncInv, CollectInv, ReplaceInv
    <2> QED
      BY <2>1, <2>3 DEF PostInv
  <1> QED
    BY <1>1, PostStep, PTL DEF PostSpec

\* When the passes are done, every operation has the value its operand was
\* known to have by the stores of the block, through any number of variables
\* copied to one another (LoadAliasReplacePass).
THEOREM PassesForwardStores == PostSpec => []StoresForwarded
  <1>1. IInv /\ PostInv => StoresForwarded
    <2> SUFFICES ASSUME IInv, PostInv, post = "done" PROVE StoresForwarded
      BY DEF StoresForwarded
    <2>1. /\ Len(newModule) \in Nat /\ DOMAIN newModule = 1..Len(newModule)
          /\ func \in Nat
          /\ \A i \in DOMAIN newModule :
                BodyOK(Original(i)) /\ Rewritten(newModule[i].body, Original(i))
      BY FuncFacts
    <2>2. func > Len(newModule) /\ func - 1 <= Len(newModule) /\ step = "done"
      BY DEF PostInv, FuncInv
    <2>3. ASSUME NEW i \in DOMAIN newModule, NEW k \in DOMAIN Original(i)
          PROVE  newModule[i].body[k].val = Known(Original(i), Original(i)[k].val)
      <3> DEFINE b == Original(i)
                 c == newModule[i].body
                 v == c[k].val
      <3>1. BodyOK(b) /\ Rewritten(c, b)
        BY <2>1
      <3>2. AllReplaced(c, b)
        <4>1. i \in 1..(func - 1)
          BY <2>1, <2>2
        <4> QED
          BY <4>1 DEF PostInv, FuncInv
      <3>3. k \in DOMAIN b
        OBVIOUS
      <3> HIDE DEF b, c
      <3>4. k \in 1..Len(b) /\ Len(b) \in Nat /\ Len(c) = Len(b) /\ c \in Seq(Operation)
        BY <3>1, <3>3 DEF BodyOK, Rewritten
      <3>5. v \in Int
        BY <3>4, OperationParts
      <3>6. /\ v < 0 => -v < k /\ b[-v].kind = "load"
            /\ Known(b, v) = Known(b, b[k].val)
        BY <3>1, <3>4 DEF Rewritten
      <3>7. CASE ~(v < 0)
        <4>1. Known(b, v) = v
          BY <3>1, <3>5, <3>7, KnownFacts
        <4> QED
          BY <3>6, <4>1 DEF b, c
      <3>8. CASE v < 0
        <4> DEFINE l == -v
        <4>1. l \in 1..Len(b) /\ -l = v /\ b[l].kind = "load"
          BY <3>4, <3>5, <3>6, <3>8
        <4>2. ~Unused(c, l)
          BY <3>4, <4>1 DEF Unused
        <4>3. l \notin Fed(b)
          BY <3>2, <4>2 DEF AllReplaced
        <4>4. LastStore(b, l) = 0
          BY <4>1, <4>3 DEF Fed
        <4>5. Known(b, -l) = -l
          BY <3>1, <4>1, <4>4, KnownFacts
        <4>6. Known(b, v) = v
          BY <4>1, <4>5
        <4> QED
          BY <3>6, <4>6 DEF b, c
      <3> QED
        BY <3>7, <3>8
    <2> QED
      BY <2>3 DEF StoresForwarded
  <1> QED
    BY <1>1, PostInvariant, PTL

\* The passes leave the functions of the result and their linked calls what
\* the linker made them: only bodies are changed.
THEOREM PassesKeepLinks == PostSpec => [](FirstFunctionWins /\ CallsAreLinked)
  BY FirstOfEach, LinkedAll, PostInvariant, PTL
=============================================================================
