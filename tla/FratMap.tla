------------------------------ MODULE FratMap ------------------------------
(***************************************************************************)
(* The FrAT cluster map and the primitives that search and edit it         *)
(* (tools/filesystem/frat.c).  A cluster map is a function from cluster    *)
(* numbers to `fsblock' entries.  The 112-bit file code of an entry is the *)
(* BLAKE2 hash of a path; it is modelled by the path itself (the hash is   *)
(* taken to be injective) and the code 0 by Unused.  An entry that is      *)
(* given back keeps its index and its attributes: only the code is reset.  *)
(***************************************************************************)
EXTENDS Integers, FiniteSets, FiniteSetsExt

CONSTANTS
    N,          \* nClusterItems: the number of entries of the cluster map
    Paths,      \* full paths of the items a client names
    Unused,     \* the file code 0 of an entry that belongs to nobody
    IdxMod      \* 2^32: fsblock.index is a uint32_t

ASSUME MapAssumption ==
    /\ N \in Nat \ {0}
    /\ Unused \notin Paths
    /\ IdxMod \in Nat
    /\ N < IdxMod

Clusters == 0 .. N - 1
Codes    == Paths \cup {Unused}

\* fsattribute, without __fsfile (0, never set) and the extension bit, which
\* no function of the file system sets.
Attributes == {"directory", "readonly", "metadatacluster", "proxy"}

fsblock == [code : Codes, idx : Nat, attr : SUBSET Attributes]

\* A formatted map is all zeroes.
EmptyMap == [c \in Clusters |-> [code |-> Unused, idx |-> 0, attr |-> {}]]

----------------------------------------------------------------------------
(* Searching the map.  All scans of the code run upwards from entry 0 and  *)
(* stop at the first hit.                                                  *)

Owned(m, p) == {c \in Clusters : m[c].code = p}

\* Variant: the index field is one bit wide.
HitsNarrow(m, p, i) == {c \in Clusters : m[c].code = p /\ m[c].idx = i % 2}

\* The entries __ffindhi accepts.  The index it is given is a uint64_t that
\* it stores in a 32-bit field before comparing.
Hits(m, p, i) == {c \in Clusters : m[c].code = p /\ m[c].idx = i % IdxMod}

Found(m, p, i)   == Hits(m, p, i) # {}
ffindhi(m, p, i) == Min(Hits(m, p, i))

\* __ffindh and __ffind look for index 0, the metadata entry.
Exists(m, p) == Found(m, p, 0)
ffind(m, p)  == ffindhi(m, p, 0)

\* The number of consecutive indices, from 0, that __fsize walks over, and
\* the blocks among them that hold data.
Walked(m, p) == Min({i \in 0 .. N : ~Found(m, p, i)})
fsizeBlocks(m, p) ==
    Cardinality({i \in 0 .. Walked(m, p) - 1 :
                    "metadatacluster" \notin m[ffindhi(m, p, i)].attr})

----------------------------------------------------------------------------
(* allocatecluster scans from the entry it returned last and does not wrap *)
(* round: when it runs off the end it fails, and only the next call starts *)
(* again at entry 0.                                                       *)

Free(m, last)      == {c \in Clusters : c >= last /\ m[c].code = Unused}
CanAlloc(m, last)  == Free(m, last) # {}

\* Variant: the code of the entry is not looked at.
AllocUnchecked(m, last) == Min({c \in Clusters : c >= last})

allocatecluster(m, last) == Min(Free(m, last))

----------------------------------------------------------------------------
(* Editing the map.                                                        *)

\* __ffremove, __ffremoveh: only the metadata entry is given back.
ffremove(m, p) == [m EXCEPT ![ffind(m, p)].code = Unused]

\* __ffremovel, __ffremovelh: every entry of the item is given back.
ffremovel(m, p) ==
    [c \in Clusters |->
        IF m[c].code = p THEN [m[c] EXCEPT !.code = Unused] ELSE m[c]]

\* The attributes __fcreate ORs into whatever the entry held before.
CreateAttr(flags) ==
    {"metadatacluster"} \cup
    (IF "P" \in flags THEN {"proxy"}
     ELSE (IF "d" \in flags THEN {"directory"} ELSE {})
          \cup (IF "r" \in flags THEN {"readonly"} ELSE {}))

\* The entry __fcreate fills in for p.
NewHead(m, c, p, flags) ==
    [m EXCEPT ![c] = [code |-> p, idx |-> 0,
                      attr |-> m[c].attr \cup CreateAttr(flags)]]

\* Variant: the entries of the family are not counted.
faddrNoCount(m, c, f) ==
    [m EXCEPT ![c] = [code |-> m[f].code, idx |-> 0,
                      attr |-> m[f].attr \ {"metadatacluster"}]]

\* The entry __faddr fills in at c for the family of entry f: its index is
\* the number of entries that carry the family's code.
faddr(m, c, f) ==
    [m EXCEPT ![c] = [code |-> m[f].code,
                      idx  |-> Cardinality(Owned(m, m[f].code)),
                      attr |-> m[f].attr \ {"metadatacluster"}]]

----------------------------------------------------------------------------
(* What the primitives maintain.                                           *)

\* No two entries of an item carry the same index, so a block of a file has
\* one location.
UniqueIndex(m) ==
    \A c, d \in Clusters :
        m[c].code # Unused /\ m[c].code = m[d].code /\ m[c].idx = m[d].idx
            => c = d

\* Indices are dense: below the number of entries of the item, or up to it
\* while the metadata entry has been removed and its data entries have not.
DenseIndex(m) ==
    \A c \in Clusters : m[c].code # Unused =>
        m[c].idx < Cardinality(Owned(m, m[c].code))
                     + (IF Exists(m, m[c].code) THEN 0 ELSE 1)

\* Exactly the entries with index 0 are metadata clusters.
HeadIsMeta(m) ==
    \A c \in Clusters : m[c].code # Unused =>
        (("metadatacluster" \in m[c].attr) <=> (m[c].idx = 0))

MapOK(m) == UniqueIndex(m) /\ DenseIndex(m) /\ HeadIsMeta(m)
============================================================================
