------------------------------ MODULE ElfReader ------------------------------
(***************************************************************************)
(* pymodules/elf_parser.py (do_elf), and ReplaceConstantLoads on what it   *)
(* returns: the loadable segments of an ELF file are saved, rounded to     *)
(* pages, in files that the pass reads as its memory; the function symbols *)
(* become the entries of the driver.                                       *)
(*                                                                         *)
(* An ELF file has its bytes, its program headers, its byte order, its     *)
(* entry, and, if it has a .symtab, the addresses nm and readelf list.     *)
(***************************************************************************)
EXTENDS ConstantLoads, FiniteSets

CONSTANTS
    ElfFiles,
    PageSize        \* 4096 in the code

\* type "load" stands for PT_LOAD; paddr is p_paddr and p_vaddr, which do_elf
\* asserts to be equal
Header == [type : {"load", "other"}, paddr : Nat, offset : Nat, memsz : Nat, filesz : Nat]

ASSUME ElfAssumption ==
    /\ PageSize \in Nat \ {0}
    /\ PoolLists = {<<>>}
    /\ \A f \in ElfFiles :
            /\ f.bytes \in Seq(0..255)
            /\ \A i \in DOMAIN f.headers :
                    /\ f.headers[i] \in Header
                    /\ f.headers[i].offset + f.headers[i].filesz <= Len(f.bytes)
            /\ f.big \in BOOLEAN
            /\ f.entry \in Nat
            /\ f.symtab \in BOOLEAN
            /\ f.nm \in Seq(Nat) /\ f.readelf \in Seq(Nat)

VARIABLES
    elf,
    reading,        \* sections, segments, done or failed
    next,           \* the next program header
    entryAddress,   \* ret['entry_address']
    targets,
    thumbTargets,
    mappedTargets,
    mappedThumbTargets

elfVars == <<elf, reading, next, entryAddress, targets, thumbTargets, mappedTargets,
             mappedThumbTargets>>

ElfInit ==
    /\ elf \in ElfFiles
    /\ Init
    /\ big = elf.big
    /\ reading = "sections"
    /\ next = 1
    /\ entryAddress = <<elf.entry>>
    /\ targets = <<>>
    /\ thumbTargets = <<>>
    /\ mappedTargets = {}
    /\ mappedThumbTargets = {}

\* The symbols replace the entry of the file; the addresses of Thumb
\* functions are odd in the output of readelf, never in that of nm.
ReadSections ==
    /\ reading = "sections"
    /\ IF elf.symtab
       THEN LET odd == SelectSeq(elf.readelf, LAMBDA a : a % 2 = 1)
            IN  /\ entryAddress' = <<>>
                /\ targets' = elf.nm
                /\ thumbTargets' = [k \in DOMAIN odd |-> odd[k] - 1]
       ELSE UNCHANGED <<entryAddress, targets, thumbTargets>>
    /\ reading' = "segments"
    /\ UNCHANGED <<vars, elf, next, mappedTargets, mappedThumbTargets>>

SkipHeader ==
    /\ reading = "segments"
    /\ next <= Len(elf.headers)
    /\ elf.headers[next].type # "load"
    /\ next' = next + 1
    /\ UNCHANGED <<vars, elf, reading, entryAddress, targets, thumbTargets, mappedTargets,
                   mappedThumbTargets>>

RoundUp(s) == IF s % PageSize # 0 THEN PageSize * ((s + PageSize) \div PageSize) ELSE s

Padding(h) == h.paddr % PageSize

\* Mutant: the padding before the segment is not part of its size.
SegmentSizeUnpadded(h) == RoundUp(IF h.memsz > h.filesz THEN h.memsz ELSE h.filesz)

SegmentSize(h) ==
    RoundUp(RoundUp(IF h.memsz > h.filesz THEN h.memsz ELSE h.filesz) + Padding(h))

\* Mutant: the chunk begins at the segment itself.
SaveChunkUnpadded(h) ==
    [k \in 1..SegmentSize(h) |->
        IF h.offset + k <= Len(elf.bytes) THEN elf.bytes[h.offset + k] ELSE 0]

\* save_chunk: bytes of the file, zeros only behind its end
SaveChunk(h) ==
    [k \in 1..SegmentSize(h) |->
        IF h.offset - Padding(h) + k <= Len(elf.bytes)
        THEN elf.bytes[h.offset - Padding(h) + k] ELSE 0]

InsideSegment(h, e) ==
    e >= h.paddr - Padding(h) /\ e < h.paddr - Padding(h) + SegmentSize(h)

LoadSegment ==
    /\ reading = "segments"
    /\ next <= Len(elf.headers)
    /\ LET h == elf.headers[next]
       IN  /\ h.type = "load"
           /\ h.offset >= Padding(h)
           /\ pools' = Append(pools, [start |-> h.paddr - Padding(h), bytes |-> SaveChunk(h)])
           /\ mappedTargets' = mappedTargets \cup
                    {e \in Range(targets) : InsideSegment(h, e)}
           /\ mappedThumbTargets' = mappedThumbTargets \cup
                    {e \in Range(thumbTargets) : InsideSegment(h, e)}
    /\ next' = next + 1
    /\ UNCHANGED <<big, tables, source, code, step, pos, eraseIns, elf, reading, entryAddress,
                   targets, thumbTargets>>

\* assert(offset >= 0)
SegmentFails ==
    /\ reading = "segments"
    /\ next <= Len(elf.headers)
    /\ elf.headers[next].type = "load"
    /\ elf.headers[next].offset < Padding(elf.headers[next])
    /\ reading' = "failed"
    /\ UNCHANGED <<vars, elf, next, entryAddress, targets, thumbTargets, mappedTargets,
                   mappedThumbTargets>>

\* sorted(list(set(...)))
Return ==
    /\ reading = "segments"
    /\ next > Len(elf.headers)
    /\ entryAddress' = entryAddress \o SetToSortSeq(mappedTargets, <)
    /\ reading' = "done"
    /\ UNCHANGED <<vars, elf, next, targets, thumbTargets, mappedTargets, mappedThumbTargets>>

\* run_passes_pre: the pass runs on the segments saved.
RunPass ==
    /\ reading = "done"
    /\ Next
    /\ UNCHANGED elfVars

ElfNext ==
    \/ ReadSections
    \/ SkipHeader
    \/ LoadSegment
    \/ SegmentFails
    \/ Return
    \/ RunPass

ElfSpec == ElfInit /\ [][ElfNext]_<<vars, elfVars>>

----------------------------------------------------------------------------
(* Properties                                                              *)

Loadable == {i \in DOMAIN elf.headers : elf.headers[i].type = "load"}

Has(h, a) == a >= h.paddr /\ a < h.paddr + h.memsz

\* The memory saved for a header
PoolOf(i) == pools[Cardinality({j \in Loadable : j <= i})]

\* The byte a loader puts at address a: that of the file, or 0 behind the
\* part of the segment that the file holds.
ImageByte(a) ==
    LET h == elf.headers[Min({i \in Loadable : Has(elf.headers[i], a)})]
    IN  IF a < h.paddr + h.filesz THEN elf.bytes[h.offset + a - h.paddr + 1] ELSE 0

\* The byte of the file at an offset, counted from 0
FileByte(offset) == IF offset < Len(elf.bytes) THEN elf.bytes[offset + 1] ELSE 0

\* When the pass starts, which leaves the memory alone, every address of a
\* loadable segment can be read, and gives the byte a loader puts there, unless
\* an earlier segment was rounded over it or the file holds no byte for it (see
\* BssIsZero); rounding adds less than a page before a segment and less than two
\* behind it.  What is read at any address, also one in the padding or in
\* several segments, lies as far from the start of the first segment rounded
\* over it as in the file.
ImageIsRead ==
    reading = "done" /\ pos = 1 => \A i \in Loadable :
        LET h == elf.headers[i]
            p == PoolOf(i)
        IN  /\ p.start \in (h.paddr - PageSize + 1)..h.paddr
            /\ p.start + Len(p.bytes) \in (h.paddr + h.memsz)..(h.paddr + h.memsz + 2 * PageSize - 1)
            /\ \A a \in h.paddr..(h.paddr + h.filesz - 1) :
                    (\A j \in Loadable : j < i => ~Inside(PoolOf(j), a)) =>
                        GetMemoryValue(a, 1) = ImageByte(a)
            /\ \A a \in p.start..(p.start + Len(p.bytes) - 1) :
                  LET first == elf.headers[Min({j \in Loadable : Inside(PoolOf(j), a)})]
                  IN  GetMemoryValue(a, 1) = FileByte(first.offset + a - first.paddr)

\* Memory behind the bytes of the file is zero: save_chunk says "add
\* padding" where it appends zeros.
BssIsZero ==
    reading = "done" => \A i \in Loadable :
        \A a \in (elf.headers[i].paddr + elf.headers[i].filesz)
                    ..(elf.headers[i].paddr + elf.headers[i].memsz - 1) :
            GetMemoryValue(a, 1) = 0
=============================================================================
