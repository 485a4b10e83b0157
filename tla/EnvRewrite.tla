------------------------------ MODULE EnvRewrite ------------------------------
(***************************************************************************)
(* S2EInlineHelpersPass and S2ETransformPass, run in this order on the     *)
(* function of a translated block: calls of arithmetic helpers are         *)
(* inlined, and the accesses to the CPU state through the function's       *)
(* argument, or through env in inlined code, become accesses to one global *)
(* variable for each offset.                                               *)
(*                                                                         *)
(* A value is a sequence of numbers: <<k>> is instruction k of the block,  *)
(* c \o <<k>> instruction k of the helper inlined at call c, and i \o <<0>>*)
(* the instruction that replaces i.                                        *)
(***************************************************************************)
EXTENDS Integers, Sequences, SequencesExt

CONSTANTS
    Blocks,         \* the functions: sequences of instructions
    Helpers,        \* the functions named in INLINE_FUNCTIONS
    HelperCode,     \* their bodies; empty for one that is only declared
    Registers       \* cpu_offset_names: pairs of an offset and a name

Arg0 == <<0>>
Env == <<-1>>
CPUSTATE == <<-2>>
Global(name) == <<-3, name>>
LoadEnv == <<-4>>
Nothing == <<-5>>
Var == -1           \* the offset of an addition or GEP that is not constant

\* on: the pointer, or the operand, of the instruction; val: the value a
\* store stores; off: what an addition or GEP adds; size: bytes loaded or
\* stored; helper: the function an "inline" instruction calls.  A "call" is
\* a call of any other function.
Instruction ==
    [id : Seq(Int), op : {"cast", "add", "gep", "load", "store", "call", "inline", "other"},
     on : Seq(Int), val : Seq(Int), off : Nat \cup {Var}, size : Nat, helper : Nat]

\* Every instruction uses values that are defined before it.
WellFormed(is) ==
    \A k \in DOMAIN is : \A v \in {is[k].on, is[k].val} :
        v[1] > 0 => \E j \in 1..(k - 1) : is[j].id = v

\* A helper calls helpers with smaller numbers only.
ASSUME BlocksAssumption ==
    /\ Helpers \subseteq Nat
    /\ \A is \in Blocks \cup {HelperCode[h] : h \in Helpers} :
            /\ is \in Seq(Instruction)
            /\ \A k \in DOMAIN is : is[k].id = <<k>>
            /\ WellFormed(is)
    /\ \A h \in Helpers : \A k \in DOMAIN HelperCode[h] :
            HelperCode[h][k].op = "inline" => HelperCode[h][k].helper \in 0..(h - 1)
    /\ \A k \in DOMAIN Registers : Registers[k] \in Nat \X Nat

VARIABLES
    source,         \* the function before the passes
    code,           \* the function
    step,           \* collect, inline, args, envs, replace, erase or done
    todo,           \* calls to inline, or uses to follow
    stack,          \* the calls of processArgUse and processEnvUse under way
    flat,           \* history: the function once its helpers are inlined
    recursiveSuccess,
    replaceMap,     \* the instructions that have a replacement
    eraseList

vars == <<source, code, step, todo, stack, flat, recursiveSuccess, replaceMap, eraseList>>

Init ==
    /\ source \in Blocks
    /\ code = source
    /\ step = "collect"
    /\ todo = <<>>
    /\ stack = <<>>
    /\ flat = <<>>
    /\ recursiveSuccess = TRUE
    /\ replaceMap = {}
    /\ eraseList = <<>>

Ids(is) == [k \in DOMAIN is |-> is[k].id]
At(id) == CHOOSE k \in DOMAIN code : code[k].id = id
Inst(id) == code[At(id)]

\* replaceAllUsesWith
Renamed(is, old, new) ==
    [k \in DOMAIN is |-> [is[k] EXCEPT !.on = IF @ = old THEN new ELSE @,
                                       !.val = IF @ = old THEN new ELSE @]]

----------------------------------------------------------------------------
(* S2EInlineHelpersPass                                                    *)

ShouldInlineCall(i) == i.op = "inline"

\* Mutant: a helper that calls another one is not inlined.
HasBodyLeaf(h) ==
    HelperCode[h] # <<>> /\ \A k \in DOMAIN HelperCode[h] : HelperCode[h][k].op # "inline"

HasBody(h) == HelperCode[h] # <<>>

\* A value of a helper's body after it is inlined at call c.
InlinedValue(c, v) == IF v[1] > 0 THEN c \o v ELSE v

Inlined(c, h) ==
    [k \in DOMAIN HelperCode[h] |->
        [HelperCode[h][k] EXCEPT !.id = InlinedValue(c, @), !.on = InlinedValue(c, @),
                                 !.val = InlinedValue(c, @)]]

\* Mutant: the users of a call keep it.
ReturnedCall(c, h) == c

\* A helper returns the value of its last instruction.
Returned(c, h) == c \o <<Len(HelperCode[h])>>

\* The calls of the function are collected anew after each round.
CollectCalls ==
    /\ step = "collect"
    /\ todo' = Ids(SelectSeq(code, ShouldInlineCall))
    /\ todo' # <<>>
    /\ step' = "inline"
    /\ UNCHANGED <<source, code, stack, flat, recursiveSuccess, replaceMap, eraseList>>

InlineCall ==
    /\ step = "inline"
    /\ todo # <<>>
    /\ LET k == At(Head(todo))
       IN  /\ HasBody(code[k].helper)
           /\ code' = Renamed(SubSeq(code, 1, k - 1) \o Inlined(code[k].id, code[k].helper)
                                \o SubSeq(code, k + 1, Len(code)),
                              code[k].id, Returned(code[k].id, code[k].helper))
    /\ todo' = Tail(todo)
    /\ UNCHANGED <<source, step, stack, flat, recursiveSuccess, replaceMap, eraseList>>

\* InlineFunction fails: the round ends, not the outer loop.
InlineFails ==
    /\ step = "inline"
    /\ todo # <<>>
    /\ ~HasBody(Inst(Head(todo)).helper)
    /\ todo' = <<>>
    /\ UNCHANGED <<source, code, step, stack, flat, recursiveSuccess, replaceMap, eraseList>>

NextRound ==
    /\ step = "inline"
    /\ todo = <<>>
    /\ step' = "collect"
    /\ UNCHANGED <<source, code, todo, stack, flat, recursiveSuccess, replaceMap, eraseList>>

----------------------------------------------------------------------------
(* S2ETransformPass: following the uses                                    *)

\* The users of a value, the latest first: a use is added at the head of
\* the list of uses.
Users(v) == Reverse(Ids(SelectSeq(code, LAMBDA i : v \in {i.on, i.val})))

\* nameMap: the first name of an offset
NamesOf(offset) == SelectSeq(Registers, LAMBDA r : r[1] = offset)

\* getGlobalName; a variable without a register's name is named after the
\* offset, here by a negative number
GetGlobalName(offset) ==
    IF NamesOf(offset) # <<>> THEN Head(NamesOf(offset))[2] ELSE -1 - offset

\* A call of processArgUse or of processEnvUse that goes through the uses of
\* instruction id: env tells the two apart, off is the offset of id, left
\* the uses still to follow, ok what recursiveSuccess is in this call.
Frame == [id : Seq(Int), env : BOOLEAN, off : Nat, left : Seq(Seq(Int)), ok : BOOLEAN]

UseLeft == IF stack = <<>> THEN todo # <<>> ELSE Head(stack).left # <<>>

\* The use that is followed next; on is the pointer that is used.
Use ==
    IF stack = <<>> THEN [env |-> FALSE, on |-> Arg0, id |-> Head(todo), off |-> 0]
    ELSE [env |-> Head(stack).env, on |-> Head(stack).id, id |-> Head(Head(stack).left),
          off |-> Head(stack).off]

\* The stack without that use; the call was successful so far, or is not
\* from now on.
Above(ok) ==
    IF stack = <<>> THEN <<>>
    ELSE <<[Head(stack) EXCEPT !.left = Tail(@), !.ok = @ /\ ok]>> \o Tail(stack)
NextUse == todo' = IF stack = <<>> THEN Tail(todo) ELSE todo

\* The uses of a copy, of a pointer at a constant offset and of what the
\* argument points to are followed in turn.
IsFollowed(u) ==
    LET i == Inst(u.id)
    IN  IF u.env THEN i.op = "cast" \/ (i.op \in {"add", "gep"} /\ i.off # Var)
        ELSE i.op \in {"cast", "load"} \/ (i.op = "gep" /\ i.off = 0)

\* A load or store through the pointer, not a store of the pointer
IsAccess(u) ==
    LET i == Inst(u.id)
    IN  u.env /\ (i.op = "load" \/ (i.op = "store" /\ i.on = u.on))

\* Mutant: the offset of the pointer an addition starts from is lost.
OffsetOfLast(u) == IF Inst(u.id).op \in {"add", "gep"} THEN Inst(u.id).off ELSE u.off

\* The offset of the instruction that uses the pointer
OffsetAfter(u) ==
    IF u.env /\ Inst(u.id).op \in {"add", "gep"} THEN u.off + Inst(u.id).off ELSE u.off

FollowPointer ==
    /\ step \in {"args", "envs"}
    /\ UseLeft
    /\ IsFollowed(Use)
    /\ stack' = <<[id |-> Use.id, env |-> Use.env \/ Inst(Use.id).op = "load",
                   off |-> OffsetAfter(Use), left |-> Users(Use.id), ok |-> TRUE]>>
                \o Above(TRUE)
    /\ NextUse
    /\ UNCHANGED <<source, code, step, flat, recursiveSuccess, replaceMap, eraseList>>

Replacement(id) == id \o <<0>>

\* new LoadInst, new StoreInst before the instruction replaced
ReplaceAccess ==
    /\ step \in {"args", "envs"}
    /\ UseLeft
    /\ IsAccess(Use)
    /\ LET k == At(Use.id)
           new == [code[k] EXCEPT !.id = Replacement(@),
                                  !.on = Global(GetGlobalName(Use.off))]
       IN  code' = InsertAt(code, k, new)
    /\ replaceMap' = replaceMap \cup {Use.id}
    /\ eraseList' = Append(eraseList, Use.id)
    /\ stack' = Above(TRUE)
    /\ NextUse
    /\ UNCHANGED <<source, step, flat, recursiveSuccess>>

\* A call, an offset that is not constant, a store of the pointer, or any
\* other instruction; the remaining uses are followed nevertheless.
FailUse ==
    /\ step \in {"args", "envs"}
    /\ UseLeft
    /\ ~IsFollowed(Use) /\ ~IsAccess(Use)
    /\ stack' = Above(FALSE)
    /\ recursiveSuccess' = (recursiveSuccess /\ stack # <<>>)
    /\ NextUse
    /\ UNCHANGED <<source, code, step, flat, replaceMap, eraseList>>

\* Mutant: a pointer is erased whether its uses are understood or not.
ErasedAlways(frame) == Append(eraseList, frame.id)

\* A pointer is erased when all its uses are understood.
ErasedIfOk(frame) == IF frame.ok THEN Append(eraseList, frame.id) ELSE eraseList

\* All uses of a pointer are followed: the call returns.
ReturnFromUse ==
    /\ step \in {"args", "envs"}
    /\ stack # <<>>
    /\ Head(stack).left = <<>>
    /\ eraseList' = ErasedIfOk(Head(stack))
    /\ stack' = IF Len(stack) = 1 THEN <<>>
                ELSE <<[stack[2] EXCEPT !.ok = @ /\ Head(stack).ok]>> \o Tail(Tail(stack))
    /\ recursiveSuccess' = (recursiveSuccess /\ (Len(stack) = 1 => Head(stack).ok))
    /\ UNCHANGED <<source, code, step, todo, flat, replaceMap>>

\* The passes go on to the uses of the argument when no call is left.
StartTransform ==
    /\ step = "collect"
    /\ SelectSeq(code, ShouldInlineCall) = <<>>
    /\ step' = "args"
    /\ todo' = Users(Arg0)
    /\ flat' = code
    /\ UNCHANGED <<source, code, stack, recursiveSuccess, replaceMap, eraseList>>

\* Mutant: the loads of env are not searched.
EnvLoadsNone == <<>>

\* The loads of env, which inlining put into the function
EnvLoads == Ids(SelectSeq(code, LAMBDA i : i.op = "load" /\ i.on = Env))

StartEnvLoads ==
    /\ step = "args"
    /\ todo = <<>> /\ stack = <<>>
    /\ todo' = EnvLoads
    /\ step' = "envs"
    /\ UNCHANGED <<source, code, stack, flat, recursiveSuccess, replaceMap, eraseList>>

----------------------------------------------------------------------------
(* S2ETransformPass: replacing and erasing                                 *)

\* The argument is replaced by a load of CPUSTATE at the entry.
InsertLoadEnv ==
    /\ step = "envs"
    /\ todo = <<>> /\ stack = <<>>
    /\ code' = <<[id |-> LoadEnv, op |-> "load", on |-> CPUSTATE, val |-> Nothing,
                  off |-> 0, size |-> 0, helper |-> 0]>> \o Renamed(code, Arg0, LoadEnv)
    /\ step' = "replace"
    /\ UNCHANGED <<source, todo, stack, flat, recursiveSuccess, replaceMap, eraseList>>

\* cleanup, one entry of replaceMap, which is ordered by address
ReplaceUses ==
    /\ step = "replace"
    /\ \E id \in replaceMap :
            /\ code' = Renamed(code, id, Replacement(id))
            /\ replaceMap' = replaceMap \ {id}
    /\ UNCHANGED <<source, step, todo, stack, flat, recursiveSuccess, eraseList>>

StartErasing ==
    /\ step = "replace"
    /\ replaceMap = {}
    /\ step' = "erase"
    /\ UNCHANGED <<source, code, todo, stack, flat, recursiveSuccess, replaceMap, eraseList>>

Without(id) == SelectSeq(code, LAMBDA i : i.id # id)

\* cleanup, one entry of eraseList
EraseNext ==
    /\ step = "erase"
    /\ eraseList # <<>>
    /\ code' = Without(Head(eraseList))
    /\ eraseList' = Tail(eraseList)
    /\ UNCHANGED <<source, step, todo, stack, flat, recursiveSuccess, replaceMap>>

Finish ==
    /\ step = "erase"
    /\ eraseList = <<>>
    /\ code' = IF recursiveSuccess THEN Without(LoadEnv) ELSE code
    /\ step' = "done"
    /\ UNCHANGED <<source, todo, stack, flat, recursiveSuccess, replaceMap, eraseList>>

Next ==
    \/ CollectCalls
    \/ InlineCall
    \/ InlineFails
    \/ NextRound
    \/ StartTransform
    \/ FollowPointer
    \/ ReplaceAccess
    \/ FailUse
    \/ ReturnFromUse
    \/ StartEnvLoads
    \/ InsertLoadEnv
    \/ ReplaceUses
    \/ StartErasing
    \/ EraseNext
    \/ Finish

\* Both passes are loops of one thread that nothing interrupts.
Spec == Init /\ [][Next]_vars /\ WF_vars(Next)

----------------------------------------------------------------------------
(* Properties                                                              *)

\* The variables have their types; the function is well formed until values
\* are replaced.
TypeOK ==
    /\ code \in Seq(Instruction)
    /\ step \in {"collect", "inline", "args", "envs", "replace", "erase", "done"}
    /\ todo \in Seq(Seq(Int))
    /\ stack \in Seq(Frame)
    /\ recursiveSuccess \in BOOLEAN
    /\ replaceMap \subseteq Range(Ids(flat))
    /\ Range(eraseList) \subseteq Range(Ids(flat))
    /\ step \notin {"erase", "done"} => WellFormed(code)

FlatInst(v) == flat[CHOOSE k \in DOMAIN flat : flat[k].id = v]

\* The argument and its copies
ArgPointer[v \in Seq(Int)] ==
    \/ v = Arg0
    \/ /\ v[1] > 0
       /\ FlatInst(v).op = "cast" \/ (FlatInst(v).op = "gep" /\ FlatInst(v).off = 0)
       /\ ArgPointer[FlatInst(v).on]

\* Where in the CPU state a value of the inlined function points to; Var if
\* it does not point there, or nobody knows where.
Offset[v \in Seq(Int)] ==
    IF v[1] <= 0 THEN Var
    ELSE LET i == FlatInst(v)
         IN  CASE i.op = "load" /\ (i.on = Env \/ ArgPointer[i.on]) -> 0
               [] i.op = "cast" -> Offset[i.on]
               [] i.op \in {"add", "gep"} /\ i.off # Var /\ Offset[i.on] # Var ->
                        Offset[i.on] + i.off
               [] OTHER -> Var

IsPointer(v) == v # Arg0 /\ (ArgPointer[v] \/ Offset[v] # Var)
Accesses(i) == i.op \in {"load", "store"} /\ Offset[i.on] # Var

\* No instruction is erased twice or while another one still uses it, and
\* the load of CPUSTATE goes only when nothing uses the argument, however
\* much of the code the pass does not understand.
ErasedUnused ==
    step = "erase" =>
        IF eraseList # <<>>
        THEN Head(eraseList) \in Range(Ids(code)) /\ Users(Head(eraseList)) = <<>>
        ELSE recursiveSuccess => Users(LoadEnv) = <<>>

\* In the end every access at a known offset is replaced, the function is
\* well formed, a pointer to the CPU state is left exactly when something
\* that is left uses it, and CPUSTATE is loaded exactly when a pointer or a
\* use of the argument is left.
LeftIsNeeded ==
    step = "done" =>
        LET left == Range(Ids(code))
            pointers == {v \in Range(Ids(flat)) : IsPointer(v)}
        IN  /\ WellFormed(code)
            /\ \A i \in Range(flat) : IF Accesses(i)
                    THEN i.id \notin left /\ Replacement(i.id) \in left
                    ELSE i.id \notin pointers => i.id \in left
            /\ \A v \in pointers : (v \in left) <=> Users(v) # <<>>
            /\ (LoadEnv \in left) <=> (Users(LoadEnv) # <<>> \/ pointers \cap left # {})

\* An instruction that may change the CPU state in a way the pass does not
\* see: a call, or whatever else a pointer goes into.
Opaque(i) ==
    \/ i.op = "call"
    \/ /\ ~IsPointer(i.id) /\ ~Accesses(i)
       /\ \E v \in {i.on, i.val} : v[1] > 0 /\ IsPointer(v)
    \/ i.op \in {"load", "store"} /\ i.on[1] > 0 /\ ~IsPointer(i.on)

Overlap(i, j) ==
    /\ Offset[i.on] < Offset[j.on] + j.size
    /\ Offset[j.on] < Offset[i.on] + i.size

SamePlace(i, j) == Offset[i.on] = Offset[j.on] /\ i.size = j.size

\* The stores among is before position k that satisfy P, by their ids
LastStore(is, k, P(_)) ==
    LET js == {j \in 1..(k - 1) : is[j].op = "store" /\ P(is[j])}
    IN  IF js = {} THEN Nothing ELSE is[Max(js)].id

\* A load of a register gets the value of the same store as before, if no
\* access to a part of the register and nothing opaque precedes it.  The
\* variables of overlapping registers are different memory.
ReadsKept ==
    step = "done" => \A k \in DOMAIN flat :
        LET old == flat[k]
            m == At(Replacement(old.id))
            place(j) == Accesses(j) /\ SamePlace(old, j)
            var(j) == j.on = code[m].on
            before == LastStore(flat, k, place)
        IN  /\ old.op = "load" /\ Accesses(old)
            /\ \A j \in 1..(k - 1) :
                    /\ ~Opaque(flat[j])
                    /\ Accesses(flat[j]) /\ Overlap(old, flat[j]) => SamePlace(old, flat[j])
            => LastStore(code, m, var) =
                    IF before = Nothing THEN Nothing ELSE Replacement(before)

\* Helpers that a call of h leads to
CalledHelpers[h \in Nat] ==
    {h} \cup UNION {CalledHelpers[HelperCode[h][k].helper] :
                    k \in {j \in DOMAIN HelperCode[h] : HelperCode[h][j].op = "inline"}}

AllHaveBodies ==
    \A k \in DOMAIN source :
        source[k].op = "inline" =>
            \A h \in CalledHelpers[source[k].helper] : HelperCode[h] # <<>>

\* The passes come to an end for every block exactly when all the helpers
\* its calls lead to can be inlined: one that cannot keeps the loop of
\* S2EInlineHelpersPass running for ever.
InliningEnds ==
    /\ AllHaveBodies => <>(step = "done")
    /\ ~AllHaveBodies => [](step \in {"collect", "inline"})
=============================================================================
