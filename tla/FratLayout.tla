----------------------------- MODULE FratLayout -----------------------------
(***************************************************************************)
(* Where a FrAT file system lies on its disk: formatting a partition,      *)
(* mounting it, and the sectors every write of the mounted file system     *)
(* reaches (tools/filesystem/frat.c, frat.h, raw.c).  Positions handed to  *)
(* raw.c count blocks of CalcBlock sectors from the start of the           *)
(* partition; formatpart computes the size of the cluster map in blocks    *)
(* and fmount takes the same number for bytes.  Sizes and log sectors are  *)
(* uint32_t, and so are some of their products: those wrap.  Sector        *)
(* numbers are 64 bits wide, more than any disk needs.                     *)
(***************************************************************************)
EXTENDS Integers, Sequences, FiniteSets, FiniteSetsExt

CONSTANTS
    RealBlock,   \* DefaultRawDiskSize: bytes of a sector
    ItemSize,    \* sizeof(fsblock)
    RootSize,    \* sizeof(fsroot)
    Word,        \* the number of values of uint32_t
    GPT,         \* the partition table: a sequence of [base, high]
    Formats      \* the block sizes and log sectors a client may ask for

ASSUME LayoutAssumption ==
    /\ RealBlock \in Nat \ {0} /\ ItemSize \in Nat \ {0} /\ RootSize \in Nat
    /\ RootSize <= RealBlock
    /\ Word \in Nat /\ 4 * RealBlock <= Word /\ Word % RealBlock = 0
    /\ GPT \in Seq([base : Nat, high : Nat])
    /\ Formats \subseteq [bs : 1 .. Word - 1, nlog : 1 .. Word - 1]
    /\ \A k \in DOMAIN GPT, f \in Formats : GPT[k].base + f.nlog < GPT[k].high

Parts == DOMAIN GPT

VARIABLES
    root,   \* [Parts -> the fsroot on disk, or NoRoot]
    map,    \* [Parts -> the state of the cluster map on disk]
    fmt,    \* the formatpart in progress
    mnt,    \* the mounted file system (conf_fsroot), or NoMount
    io,     \* the extents, in sectors, that the last step wrote
    torn    \* history: partitions whose formatting was interrupted

vars == <<root, map, fmt, mnt, io, torn>>

NoRoot  == [bs |-> 0, nlog |-> 0, cs |-> 0]   \* no signature
NoFmt   == [ph |-> "none", part |-> 0, bs |-> 0, nlog |-> 0]
NoMount == [part |-> 0, bs |-> 0, nlog |-> 0, cs |-> 0]

CeilDiv(a, b) == (a + b - 1) \div b

\* What uint32_t keeps of a result.
U32(x) == x % Word

----------------------------------------------------------------------------
(* raw.c                                                                   *)

\* setblocksize, startup: the sectors of one configured block.
CalcBlock(bs) == CeilDiv(bs, RealBlock)

\* blockBytes is a product of uint32_t; __safediv by zero is one.
blockBytes(bs) == U32(RealBlock * CalcBlock(bs))
nBlocks(bs, bytes) ==
    IF blockBytes(bs) = 0 THEN 1 ELSE CeilDiv(bytes, blockBytes(bs))

\* writeblocks(re, data, base + pos, bytes): the sectors written.
Extent(k, bs, what, pos, bytes) ==
    LET lo == GPT[k].base + pos * CalcBlock(bs)
    IN  [what |-> what, part |-> k, lo |-> lo,
         hi |-> lo + nBlocks(bs, bytes) * CalcBlock(bs)]

----------------------------------------------------------------------------
(* frat.h                                                                  *)

LOGBLOCKOFFSET == 1
CLUSTERMAPOFFSET(nlog) == U32(LOGBLOCKOFFSET + nlog + 1)
\* Variant: the map itself is not counted.
DATAFIRSTNoMap(nlog, ncs) == CLUSTERMAPOFFSET(nlog) + 1
DATAFIRSTOFFSET(nlog, ncs) == CLUSTERMAPOFFSET(nlog) + ncs + 1

\* Variants: a size in bytes, and the operands of the difference exchanged.
MapBytes(k, nlog, bs)   == (GPT[k].high - (GPT[k].base + nlog)) * ItemSize
MapSwapped(k, nlog, bs) == CeilDiv((GPT[k].base - (GPT[k].high + nlog)) * ItemSize, bs)

CLUSTERMAPSECTORS_CALC(k, nlog, bs) ==
    CeilDiv((GPT[k].high - (GPT[k].base + nlog)) * ItemSize, bs)

----------------------------------------------------------------------------
(* frat.c                                                                  *)

RootExtent(k, r) == Extent(k, r.bs, "root", 0, RootSize)
LogExtent(k, r)  == Extent(k, r.bs, "log", LOGBLOCKOFFSET, U32(r.bs * r.nlog))
MapExtent(k, r, bytes) == Extent(k, r.bs, "map", U32(CLUSTERMAPOFFSET(r.nlog) * r.bs), bytes)

\* formatpart clears the map for the size it has computed, of which the root
\* block keeps 32 bits; the position of the data is computed in 64 bits.
NewMapExtent(k, r) ==
    MapExtent(k, r, CLUSTERMAPSECTORS_CALC(k, r.nlog, r.bs) * r.bs)

\* What fmount makes of confClusterSize.
nClusterSectors(r) == r.cs \div r.bs
nClusterItems(r)   == r.cs \div ItemSize

\* The block of entry i of the cluster map (DATAFIRST, getloc).
DataExtent(k, r, i) ==
    Extent(k, r.bs, "data", DATAFIRSTOFFSET(r.nlog, nClusterSectors(r)) * r.bs + i, r.bs)

Init ==
    /\ root = [k \in Parts |-> NoRoot]
    /\ map = [k \in Parts |-> "foreign"]
    /\ fmt = NoFmt /\ mnt = NoMount
    /\ io = {} /\ torn = {}

Idle == fmt.ph = "none"
Signed == {k \in Parts : root[k] # NoRoot}

\* fmount: queryparttablefs takes the first partition with the signature.
fmount ==
    LET k == Min(Signed)
    IN  /\ Idle /\ Signed # {}
        /\ mnt' = [part |-> k, bs |-> root[k].bs, nlog |-> root[k].nlog, cs |-> root[k].cs]
        /\ io' = {}
        /\ UNCHANGED <<root, map, fmt, torn>>

\* formatpart, which e.disk calls when no partition can be mounted, writes the
\* root block with the signature first,
formatRoot(k, f) ==
    LET r == [bs |-> f.bs, nlog |-> f.nlog,
              cs |-> U32(CLUSTERMAPSECTORS_CALC(k, f.nlog, f.bs))]
    IN  /\ Idle /\ mnt = NoMount /\ Signed = {}
        /\ GPT[k].high # 0
        /\ root' = [root EXCEPT ![k] = r]
        /\ fmt' = [ph |-> "log", part |-> k, bs |-> f.bs, nlog |-> f.nlog]
        /\ io' = {RootExtent(k, r)}
        /\ UNCHANGED <<map, mnt, torn>>

\* then the log,
formatLog ==
    /\ fmt.ph = "log"
    /\ fmt' = [fmt EXCEPT !.ph = "map"]
    /\ io' = {LogExtent(fmt.part, root[fmt.part])}
    /\ UNCHANGED <<root, map, mnt, torn>>

\* Variant: the new map is not written.
formatMapSkip ==
    /\ fmt.ph = "map"
    /\ fmt' = NoFmt
    /\ io' = {NewMapExtent(fmt.part, root[fmt.part])}
    /\ UNCHANGED <<root, map, mnt, torn>>

\* then the map, all zeroes.
formatMap ==
    /\ fmt.ph = "map"
    /\ map' = [map EXCEPT ![fmt.part] = "zero"]
    /\ fmt' = NoFmt
    /\ io' = {NewMapExtent(fmt.part, root[fmt.part])}
    /\ UNCHANGED <<root, mnt, torn>>

\* fuloadroot writes the root block back, and clusterSize bytes of the map.
fuloadroot ==
    /\ mnt # NoMount
    /\ map' = [map EXCEPT ![mnt.part] = IF @ = "foreign" THEN @ ELSE "flushed"]
    /\ io' = {RootExtent(mnt.part, mnt), MapExtent(mnt.part, mnt, mnt.cs)}
    /\ UNCHANGED <<root, fmt, mnt, torn>>

\* A write to the block of an entry of the map.
writedata(i) ==
    /\ mnt # NoMount
    /\ io' = {DataExtent(mnt.part, mnt, i)}
    /\ UNCHANGED <<root, map, fmt, mnt, torn>>

\* The process dies or exits.
Crash ==
    /\ fmt' = NoFmt /\ mnt' = NoMount /\ io' = {}
    /\ torn' = IF Idle THEN torn ELSE torn \cup {fmt.part}
    /\ UNCHANGED <<root, map>>

Next ==
    \/ fmount
    \/ \E k \in Parts, f \in Formats : formatRoot(k, f)
    \/ formatLog \/ formatMap \/ fuloadroot \/ Crash
    \/ \E i \in 0 .. nClusterItems(mnt) - 1 : writedata(i)

Spec == Init /\ [][Next]_vars

----------------------------------------------------------------------------
(* Properties.                                                             *)

\* Types of the roots on disk and of the mounted one, whose fields are
\* uint32_t; a write ends behind its start, or there.
Fields == 0 .. Word - 1
Root   == [bs : Fields, nlog : Fields, cs : Fields]
TypeOK ==
    /\ root \in [Parts -> Root]
    /\ map \in [Parts -> {"foreign", "zero", "flushed"}]
    /\ fmt \in [ph : {"none", "log", "map"}, part : Nat, bs : Fields, nlog : Fields]
    /\ mnt \in [part : Nat, bs : Fields, nlog : Fields, cs : Fields]
    /\ \A e \in io : e.lo \in Nat /\ e.hi \in Nat /\ e.lo <= e.hi
    /\ torn \subseteq Parts

Disjoint(e, f) == e.hi <= f.lo \/ f.hi <= e.lo

\* No product of the layout wraps: the position of the map, and the number
\* that the root block keeps of the size of the map, are below 2^32.
Fits(k, r) ==
    /\ (LOGBLOCKOFFSET + r.nlog + 1) * r.bs < Word
    /\ CLUSTERMAPSECTORS_CALC(k, r.nlog, r.bs) < Word

\* Root block, log, cluster map (as large as it was formatted) and data blocks
\* of a formatted file system do not overlap, and the blocks of the entries of
\* the map follow each other, for every block size and number of log sectors
\* whose products fit into uint32_t.  Where they do not, formatpart puts the
\* map at the wrapped position, over the root block or the log.
RegionsDisjoint ==
    \A k \in Signed :
        LET r == root[k]
            m == NewMapExtent(k, r)
        IN  Fits(k, r) =>
            /\ Disjoint(RootExtent(k, r), LogExtent(k, r))
            /\ Disjoint(LogExtent(k, r), m)
            /\ \A i \in 0 .. nClusterItems(r) - 1 :
                   /\ Disjoint(m, DataExtent(k, r, i))
                   /\ Disjoint(LogExtent(k, r), DataExtent(k, r, i))
                   /\ DataExtent(k, r, i).hi <= DataExtent(k, r, i + 1).lo
            /\ MapExtent(k, r, r.cs).hi <= m.hi

\* No write of formatpart, fuloadroot or a mounted file system reaches a sector
\* outside the partition.
InsidePartition ==
    \A e \in io : GPT[e.part].base <= e.lo /\ e.hi <= GPT[e.part].high + 1

\* A file system that mounts has a cluster map that formatpart has cleared,
\* unless its formatting was interrupted: the signature is written first.
MountedMapWritten ==
    mnt # NoMount /\ mnt.part \notin torn => map[mnt.part] # "foreign"
============================================================================
