------------------------------ MODULE PostPasses ------------------------------
(***************************************************************************)
(* The passes over the linked module: InternalizeGlobals, and for each     *)
(* function FunctionRename and then LoadAliasReplacePass, which replaces a *)
(* load of a global variable by what the same basic block stored there.    *)
(*                                                                         *)
(* The body of a function is one basic block, a sequence of operations.    *)
(* The value of operation k is -k; other values are constants.             *)
(***************************************************************************)
EXTENDS Linker

CONSTANTS
    Variables,      \* global variables
    Flags           \* those named CF, ZF, VF or NF

\* var: the variable of a load or store, the number of a call among calls;
\* val: the value stored or used
Operation == [kind : {"store", "load", "call", "use"}, var : Nat, val : Int]

ASSUME BodiesAssumption ==
    /\ Flags \subseteq Variables
    /\ \A fs \in FileLists : \A i \in DOMAIN fs : \A j \in DOMAIN fs[i] :
            /\ fs[i][j].body \in Seq(Operation)
            /\ \A k \in DOMAIN fs[i][j].body :
                LET o == fs[i][j].body[k]
                IN  /\ o.kind = "call" => o.var \in DOMAIN fs[i][j].calls
                    /\ o.val < 0 => -o.val < k /\ fs[i][j].body[-o.val].kind = "load"

VARIABLES
    post,           \* off, rename, collect, replace or done
    func,           \* the function the passes work on
    rit,            \* the operation in it, from its end
    aliases,        \* pairs of a load and a store
    internal,       \* the variables that are internal and zero at first
    renamed         \* the addresses in the names of the functions done, or None

postVars == <<post, func, rit, aliases, internal, renamed>>
allVars == <<vars, postVars>>

PostInit ==
    /\ Init
    /\ post = "off"
    /\ func = 1
    /\ rit = 0
    /\ aliases = <<>>
    /\ internal = {}
    /\ renamed = <<>>

\* InternalizeGlobals: a copied variable has no initializer; flags get one.
Internalize ==
    /\ step = "done"
    /\ post = "off"
    /\ internal' = Flags
    /\ post' = "rename"
    /\ UNCHANGED <<vars, func, rit, aliases, renamed>>

Body == newModule[func].body

\* INS_currPC of the instruction that LLVM's own passes have left in front of
\* function f, whose first ones may be gone; None if it carries none.
FrontPCs(f) == {a \in Addresses : a >= f.start} \cup {None}

\* FunctionRename; without an address the function keeps its name.
RenameFunc ==
    /\ post = "rename"
    /\ func <= Len(newModule)
    /\ \E pc \in FrontPCs(newModule[func]) : renamed' = Append(renamed, pc)
    /\ rit' = Len(Body)
    /\ post' = "collect"
    /\ UNCHANGED <<vars, func, aliases, internal>>

\* Mutant: the stores before a load are collected from the start.
StoresOldestFirst(l) ==
    Keep([k \in 1..(l - 1) |-> k],
         {k \in 1..(l - 1) : Body[k].kind = "store" /\ Body[k].var = Body[l].var})

\* The stores to the variable of load l before it, the nearest first.
StoresBefore(l) ==
    Keep([k \in 1..(l - 1) |-> l - k],
         {k \in 1..(l - 1) : Body[k].kind = "store" /\ Body[k].var = Body[l].var})

\* One load, or another operation; the first operation is never looked at.
CollectAliases ==
    /\ post = "collect"
    /\ rit > 1
    /\ aliases' = IF Body[rit].kind # "load" THEN aliases
                  ELSE LET found == StoresBefore(rit)
                       IN  aliases \o [k \in DOMAIN found |-> <<rit, found[k]>>]
    /\ rit' = rit - 1
    /\ UNCHANGED <<vars, post, func, internal, renamed>>

StartReplacing ==
    /\ post = "collect"
    /\ rit <= 1
    /\ post' = "replace"
    /\ UNCHANGED <<vars, func, rit, aliases, internal, renamed>>

\* replaceAllUsesWith, one pair: the value stored is read when it is needed.
ReplaceAlias ==
    /\ post = "replace"
    /\ aliases # <<>>
    /\ LET l == Head(aliases)[1]
           v == Body[Head(aliases)[2]].val
       IN  newModule' = [newModule EXCEPT ![func].body =
                [k \in DOMAIN Body |->
                    IF Body[k].val = -l THEN [Body[k] EXCEPT !.val = v] ELSE Body[k]]]
    /\ aliases' = Tail(aliases)
    /\ UNCHANGED <<files, step, file, pos, unread, allFuncsMap, allFuncsList, directCalls,
                   post, func, rit, internal, renamed>>

NextFunc ==
    /\ post = "replace"
    /\ aliases = <<>>
    /\ func' = func + 1
    /\ post' = "rename"
    /\ UNCHANGED <<vars, rit, aliases, internal, renamed>>

EndPost ==
    /\ post = "rename"
    /\ func > Len(newModule)
    /\ post' = "done"
    /\ UNCHANGED <<vars, func, rit, aliases, internal, renamed>>

PostNext ==
    \/ Next /\ UNCHANGED postVars
    \/ Internalize
    \/ RenameFunc
    \/ CollectAliases
    \/ StartReplacing
    \/ ReplaceAlias
    \/ NextFunc
    \/ EndPost

PostSpec == PostInit /\ [][PostNext]_allVars

----------------------------------------------------------------------------
(* Properties                                                              *)

\* The operations of a function of the result before the passes.
Original(i) == files[newModule[i].origin[1]][newModule[i].origin[2]].body

\* The last store before operation l of b to its variable, 0 if there is none.
LastStore(b, l) ==
    Max({0} \cup {k \in 1..(l - 1) : b[k].kind = "store" /\ b[k].var = b[l].var})

\* The store a load of function i reads from, 0 if there is none in the block.
Source(i, l) == LastStore(Original(i), l)

\* A call that was linked is between a load and the store.
CallBetween(i, l) ==
    \E k \in (Source(i, l) + 1)..(l - 1) :
        /\ Original(i)[k].kind = "call"
        /\ newModule[i].linked[Original(i)[k].var] # Nobody

\* What value v of b is known to be, by what was stored last.
Known(b, v) ==
    LET read[n \in 0..Len(b)] ==
            LET s == LastStore(b, n)
            IN  IF s = 0 THEN -n
                ELSE IF b[s].val < 0 THEN read[-b[s].val] ELSE b[s].val
    IN  IF v < 0 THEN read[-v] ELSE v

\* Every operation gets the value that the block itself stored last in the
\* variable it reads, also through variables copied to others; loads of what
\* the block has not stored stay.
StoresForwarded ==
    post = "done" =>
        \A i \in DOMAIN newModule : \A k \in DOMAIN Original(i) :
            newModule[i].body[k].val = Known(Original(i), Original(i)[k].val)

\* A function that is called may store to the variable too: a load behind a
\* linked call is not replaced.
CallsMayStore ==
    \A i \in DOMAIN newModule : \A k \in DOMAIN newModule[i].body :
        LET v == Original(i)[k].val
        IN  v < 0 /\ Source(i, -v) # 0 /\ CallBetween(i, -v) => newModule[i].body[k].val = v

\* "Rename final function is function@0xADDR": a function is named after the
\* address it starts at.
NamedByStart == post = "done" => \A i \in DOMAIN renamed : renamed[i] = newModule[i].start
=============================================================================
