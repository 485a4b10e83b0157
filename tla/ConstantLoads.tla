----------------------------- MODULE ConstantLoads -----------------------------
(***************************************************************************)
(* ReplaceConstantLoads: the loads of a function from constant addresses   *)
(* are replaced by the bytes of the segment files, and the stores to PC    *)
(* for which there is a jump table are annotated with its entries.         *)
(*                                                                         *)
(* A value is a constant or, below 0, the result of the operation with     *)
(* that number; -100 and below are other computed values.                  *)
(***************************************************************************)
EXTENDS Integers, Sequences, SequencesExt

CONSTANTS
    PoolLists,      \* the segments, in the order of the command line
    TableLists,     \* the entries of the jump table file, in its order
    Functions,      \* sequences of operations
    DeadBeef        \* stands for 0xdeadbeef

None == -1000
Constant(v) == v >= 0

\* id: number of the operation; val: the address or the value stored;
\* size: bytes loaded; cur: INS_currPC; cases, dflt, first: INS_switch_case*,
\* INS_switch_default and INS_switch_idx_start, the index of the first case
Op == [id : Nat, kind : {"load", "pc", "other"}, val : Int, size : {0, 1, 2, 4},
       cur : Int, cases : Seq(Nat), dflt : Int, first : Int]

ASSUME InputsAssumption ==
    /\ DeadBeef \in Nat
    /\ \A ps \in PoolLists : \A i \in DOMAIN ps :
            ps[i].start \in Nat /\ ps[i].bytes \in Seq(0..255)
    /\ \A ts \in TableLists : \A i \in DOMAIN ts :
            \A f \in {"indirect_jmp_pc", "default_case_pc", "base_table", "idx_start",
                      "idx_stop"} : ts[i][f] \in Nat
    /\ \A f \in Functions : \A k \in DOMAIN f :
            /\ f[k] \in Op /\ f[k].id = k
            /\ f[k].cases = <<>> /\ f[k].dflt = None /\ f[k].first = None

VARIABLES
    pools,          \* m_memoryPools
    big,            \* IsBigEndian
    tables,         \* jumpTableInfoList
    source,         \* the function before the pass
    code,           \* the function
    step,           \* loads, tables, done or aborted
    pos,            \* the next operation
    eraseIns

inputs == <<pools, big, tables, source>>
vars == <<inputs, code, step, pos, eraseIns>>

Init ==
    /\ pools \in PoolLists
    /\ big \in BOOLEAN
    /\ tables \in TableLists
    /\ source \in Functions
    /\ code = source
    /\ step = "loads"
    /\ pos = 1
    /\ eraseIns = {}

----------------------------------------------------------------------------
(* MemoryPool, getMemoryValue                                              *)

Inside(p, addr) == addr >= p.start /\ addr < p.start + Len(p.bytes)

\* Mutant: the byte orders are exchanged.
ReadSwapped(p, addr, byteCnt) ==
    FoldLeft(LAMBDA ret, i :
                256 * ret + p.bytes[(IF big THEN addr + byteCnt - i ELSE addr + i - 1)
                                    - p.start + 1],
             0, [i \in 1..byteCnt |-> i])

\* The first byte read becomes the highest one.
Read(p, addr, byteCnt) ==
    FoldLeft(LAMBDA ret, i :
                256 * ret + p.bytes[(IF big THEN addr + i - 1 ELSE addr + byteCnt - i)
                                    - p.start + 1],
             0, [i \in 1..byteCnt |-> i])

\* The pools that contain the address; the first one is read.
PoolsAt(addr) == SelectSeq(pools, LAMBDA p : Inside(p, addr))

\* assert(inside(addr+byteCnt-1))
ReadAborts(addr, byteCnt) ==
    PoolsAt(addr) # <<>> /\ ~Inside(Head(PoolsAt(addr)), addr + byteCnt - 1)

GetMemoryValue(addr, byteCnt) ==
    IF PoolsAt(addr) = <<>> THEN DeadBeef ELSE Read(Head(PoolsAt(addr)), addr, byteCnt)

----------------------------------------------------------------------------
(* Loads                                                                   *)

\* A load from a constant address in some pool
Replaceable(op) ==
    op.kind = "load" /\ Constant(op.val) /\ PoolsAt(op.val) # <<>>

\* replaceAllUsesWith
ReplaceAllUses(id, v) ==
    [k \in DOMAIN code |->
        IF code[k].val = -id THEN [code[k] EXCEPT !.val = v] ELSE code[k]]

ReplaceLoad ==
    /\ step = "loads"
    /\ pos <= Len(code)
    /\ LET op == code[pos]
       IN  /\ Replaceable(op)
           /\ ~ReadAborts(op.val, op.size)
           /\ code' = ReplaceAllUses(op.id, GetMemoryValue(op.val, op.size))
           /\ eraseIns' = eraseIns \cup {op.id}
    /\ pos' = pos + 1
    /\ UNCHANGED <<inputs, step>>

SkipOperation ==
    /\ step = "loads"
    /\ pos <= Len(code)
    /\ ~Replaceable(code[pos])
    /\ pos' = pos + 1
    /\ UNCHANGED <<inputs, code, step, eraseIns>>

LoadAborts ==
    /\ step = "loads"
    /\ pos <= Len(code)
    /\ Replaceable(code[pos])
    /\ ReadAborts(code[pos].val, code[pos].size)
    /\ step' = "aborted"
    /\ UNCHANGED <<inputs, code, pos, eraseIns>>

EndLoads ==
    /\ step = "loads"
    /\ pos > Len(code)
    /\ step' = "tables"
    /\ pos' = 1
    /\ UNCHANGED <<inputs, code, eraseIns>>

----------------------------------------------------------------------------
(* Jump tables                                                             *)

\* jumpTableInfoMap: a later entry for the same jump replaces an earlier one
TablesAt(pc) == SelectSeq(tables, LAMBDA t : t.indirect_jmp_pc = pc)
JumpTableInfo(pc) == Last(TablesAt(pc))

\* Mutant: idx_stop is not an index of the table.
CntEntriesOpen(info) == info.idx_stop - info.idx_start

CntEntries(info) == 1 + info.idx_stop - info.idx_start

Entries(info) == [i \in 1..CntEntries(info) |-> info.base_table + 4 * (i - 1)]

HasTable(op) == op.kind = "pc" /\ TablesAt(op.cur) # <<>>

\* assert(cnt_entries >= 1), and those of MemoryPool::read
TableFails(info) ==
    CntEntries(info) < 1 \/ \E a \in Range(Entries(info)) : ReadAborts(a, 4)

\* Mutant: the cases are numbered from 0.
AnnotatedFromZero(op, info) ==
    [op EXCEPT !.cases = [i \in 1..CntEntries(info) |-> GetMemoryValue(Entries(info)[i], 4)],
               !.dflt = info.default_case_pc,
               !.first = 0]

\* The metadata INS_switch_* of a store
Annotated(op, info) ==
    [op EXCEPT !.cases = [i \in 1..CntEntries(info) |-> GetMemoryValue(Entries(info)[i], 4)],
               !.dflt = info.default_case_pc,
               !.first = info.idx_start]

AnnotateTable ==
    /\ step = "tables"
    /\ pos <= Len(code)
    /\ HasTable(code[pos])
    /\ LET info == JumpTableInfo(code[pos].cur)
       IN  /\ ~TableFails(info)
           /\ code' = [code EXCEPT ![pos] = Annotated(code[pos], info)]
    /\ pos' = pos + 1
    /\ UNCHANGED <<inputs, step, eraseIns>>

PassOver ==
    /\ step = "tables"
    /\ pos <= Len(code)
    /\ ~HasTable(code[pos])
    /\ pos' = pos + 1
    /\ UNCHANGED <<inputs, code, step, eraseIns>>

TableAborts ==
    /\ step = "tables"
    /\ pos <= Len(code)
    /\ HasTable(code[pos])
    /\ TableFails(JumpTableInfo(code[pos].cur))
    /\ step' = "aborted"
    /\ UNCHANGED <<inputs, code, pos, eraseIns>>

EraseLoads ==
    /\ step = "tables"
    /\ pos > Len(code)
    /\ code' = SelectSeq(code, LAMBDA op : op.id \notin eraseIns)
    /\ step' = "done"
    /\ UNCHANGED <<inputs, pos, eraseIns>>

Next ==
    \/ ReplaceLoad
    \/ SkipOperation
    \/ LoadAborts
    \/ EndLoads
    \/ AnnotateTable
    \/ PassOver
    \/ TableAborts
    \/ EraseLoads

Spec == Init /\ [][Next]_vars

----------------------------------------------------------------------------
(* Properties                                                              *)

\* The variables have their types; no operation uses the result of a load
\* that is to be erased.
TypeOK ==
    /\ step \in {"loads", "tables", "done", "aborted"}
    /\ pos \in 1..(Len(source) + 1)
    /\ Range(code) \subseteq Op
    /\ eraseIns \subseteq {source[k].id : k \in DOMAIN source}
    /\ \A op \in Range(code) : -op.val \notin eraseIns

\* The number in the memory at an address, None if not all of it is in the
\* segment.
Number(addr, size) ==
    LET ps == {i \in DOMAIN pools : Inside(pools[i], addr) /\ Inside(pools[i], addr + size - 1)}
        byte(i) == pools[Min(ps)].bytes[addr - pools[Min(ps)].start + i]
        weight(i) == IF big THEN size - i ELSE i - 1
    IN  IF ps = {} THEN None
        ELSE FoldLeft(LAMBDA sum, i : sum + byte(i) * 256^weight(i), 0,
                      [i \in 1..size |-> i])

\* What is known of a value after the pass: itself, or the number in the
\* memory at a known address.
Resolved[v \in Int] ==
    IF v < 0 /\ -v \in DOMAIN source /\ source[-v].kind = "load"
    THEN LET a == Resolved[source[-v].val]
             n == IF a < 0 THEN None ELSE Number(a, source[-v].size)
         IN  IF n = None THEN v ELSE n
    ELSE v

\* One pass over the function suffices: every value that the segments
\* determine, also through loads from addresses that were loaded themselves,
\* is replaced by the number the memory holds in the given byte order, and
\* exactly the loads of such values are gone.
LoadsReplaced ==
    step = "done" =>
        /\ {op.id : op \in Range(code)} =
                {k \in DOMAIN source : source[k].kind # "load" \/ Resolved[-k] < 0}
        /\ \A op \in Range(code) : op.val = Resolved[source[op.id].val]

\* The target of index x in the switch that BuildFunctions makes of a store:
\* it numbers the cases from the first one on.
CaseOf(op, x) == op.cases[x - op.first + 1]

\* A store to PC is annotated when the file has a table for its instruction:
\* the switch made of it takes exactly the indices of the last such table,
\* both bounds included, each to the word at its place in the table, and all
\* others to the default of that table; no other operation is annotated.
TablesAnnotated ==
    step = "done" => \A op \in Range(code) :
        IF op.kind = "pc" /\ \E t \in Range(tables) : t.indirect_jmp_pc = op.cur
        THEN \E i \in DOMAIN tables :
                LET t == tables[i]
                IN  /\ t.indirect_jmp_pc = op.cur
                    /\ \A j \in DOMAIN tables : j > i => tables[j].indirect_jmp_pc # op.cur
                    /\ op.dflt = t.default_case_pc
                    /\ {op.first + k - 1 : k \in DOMAIN op.cases} = t.idx_start..t.idx_stop
                    /\ \A x \in t.idx_start..t.idx_stop :
                          LET n == Number(t.base_table + 4 * (x - t.idx_start), 4)
                          IN  CaseOf(op, x) = IF n = None THEN DeadBeef ELSE n
        ELSE op.cases = <<>> /\ op.dflt = None /\ op.first = None

\* The cases are program counters: "we have to load cnt_entries entries and
\* push them as new PCs".  Blocks are known by their address without the
\* Thumb bit (REAL_PC).
CasesArePCs ==
    \A op \in Range(code) : \A c \in Range(op.cases) : c = DeadBeef \/ c % 2 = 0
=============================================================================
