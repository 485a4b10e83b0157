---------------------------- MODULE MCConstantLoads ----------------------------
(***************************************************************************)
(* ElfReader and ConstantLoads on pages of four bytes, four ELF files and  *)
(* functions of four operations.                                           *)
(***************************************************************************)
EXTENDS ElfReader

MkHeader(type, paddr, offset, memsz, filesz) ==
    [type |-> type, paddr |-> paddr, offset |-> offset, memsz |-> memsz, filesz |-> filesz]

MkElf(order, bytes, headers, symtab, nm, readelf) ==
    [bytes |-> bytes, headers |-> headers, big |-> (order = "big"), entry |-> 4,
     symtab |-> symtab, nm |-> nm, readelf |-> readelf]

\* A segment at 4 whose first two words are addresses, the latter with the
\* Thumb bit, and six bytes behind it in the file.
Code == <<9, 9, 9, 9, 8, 0, 0, 0, 5, 0, 0, 0, 1, 2, 7, 7, 6, 6, 6, 6>>
Swapped == <<9, 9, 9, 9, 0, 0, 0, 8, 0, 0, 0, 13, 1, 2, 7, 7, 6, 6, 3, 4>>

MCElfFiles ==
    {\* one segment
     MkElf("little", Code, <<MkHeader("load", 4, 4, 10, 10)>>, FALSE, <<>>, <<>>),
     \* two, the first with memory that is not in the file, rounded over the
     \* second, which lies elsewhere in the file
     MkElf("big", Swapped, <<MkHeader("load", 4, 4, 9, 8), MkHeader("load", 14, 18, 2, 2)>>,
           TRUE, <<12, 4, 100>>, <<4, 13>>),
     \* one after another kind of segment, off the page boundary, at the end
     MkElf("little", Code, <<MkHeader("other", 0, 0, 2, 2), MkHeader("load", 7, 19, 2, 1)>>,
           TRUE, <<100>>, <<>>),
     \* one off the page boundary at the start of the file
     MkElf("little", Code, <<MkHeader("load", 5, 0, 4, 4)>>, FALSE, <<>>, <<>>)}

MCPoolLists == {<<>>}

Table(pc, base, first, last) ==
    [indirect_jmp_pc |-> pc, default_case_pc |-> 40, base_table |-> base,
     idx_start |-> first, idx_stop |-> last]

\* No table; one; one that is outside; one off the word boundary, whose second
\* word runs over the end of the first two files' first segment; an empty one;
\* two for the same jump, the last with indices from 3.
MCTableLists ==
    {<<>>, <<Table(20, 4, 0, 1)>>, <<Table(20, 100, 1, 1)>>, <<Table(20, 10, 0, 1)>>,
     <<Table(20, 4, 1, 0)>>, <<Table(20, 4, 0, 0), Table(24, 8, 0, 0), Table(20, 4, 3, 4)>>}

MkOp(id, kind, val, size, cur) ==
    [id |-> id, kind |-> kind, val |-> val, size |-> size, cur |-> cur,
     cases |-> <<>>, dflt |-> None, first |-> None]

\* The address of a load: in the segments, near their ends, outside, computed,
\* or the result of the load before.
Loads(id) ==
    {MkOp(id, "load", v, n, 16) : v \in {4, 9}, n \in {1, 2, 4}} \cup
    {MkOp(id, "load", v, 2, 16) : v \in {14, 15, 100, -100}} \cup
    {MkOp(id, "load", v, 4, 16) : v \in {-i : i \in 1..(id - 1)}}

Others(id) == {MkOp(id, "other", -1, 0, 16)}
Stores(id) == {MkOp(id, "pc", v, 0, pc) : v \in {8, 1 - id}, pc \in {20, 28}}

MCFunctions ==
    {<<a, b, c, d>> : a \in Loads(1), b \in Loads(2) \cup Others(2),
                      c \in Loads(3), d \in Stores(4)}
=============================================================================
