--------------------------- MODULE FratMapProofs ---------------------------
(***************************************************************************)
(* Lemmas about the cluster map primitives of FratMap, for every size of   *)
(* the map and every set of paths: each primitive keeps the map well       *)
(* formed.                                                                 *)
(***************************************************************************)
EXTENDS FratMap, ScanLemmas, FiniteSetTheorems, TLAPS

----------------------------------------------------------------------------
(* The scans.                                                              *)

\* Cluster numbers are natural numbers, and there are finitely many.
LEMMA ClustersNat == Clusters \subseteq Nat /\ IsFiniteSet(Clusters)
<1>1. Clusters \subseteq Nat  BY MapAssumption DEF Clusters
<1>2. 0 \in Int /\ N - 1 \in Int  BY MapAssumption
<1>3. IsFiniteSet(0 .. (N - 1))  BY <1>2, FS_Interval
<1> QED BY <1>1, <1>3 DEF Clusters

\* __ffindhi returns an entry with the code and the index it was asked for.
LEMMA FindHits ==
  ASSUME NEW m, NEW p, NEW i, Found(m, p, i)
  PROVE  /\ ffindhi(m, p, i) \in Clusters
         /\ m[ffindhi(m, p, i)].code = p
         /\ m[ffindhi(m, p, i)].idx = i % IdxMod
<1>1. Hits(m, p, i) \in SUBSET Nat /\ Hits(m, p, i) # {}
  BY ClustersNat DEF Hits, Found
<1>2. ffindhi(m, p, i) \in Hits(m, p, i)  BY <1>1, MinIsLeast DEF ffindhi
<1> QED BY <1>2 DEF Hits

\* An item exists exactly when some entry carries its code and index 0.
LEMMA ExistsIff ==
  ASSUME NEW m, NEW p
  PROVE  Exists(m, p) <=> \E c \in Clusters : m[c].code = p /\ m[c].idx = 0
<1>1. 0 % IdxMod = 0  BY MapAssumption
<1> QED BY <1>1 DEF Exists, Found, Hits

\* __ffind returns the metadata entry of an item that exists.
LEMMA FindHead ==
  ASSUME NEW m, NEW p, Exists(m, p)
  PROVE  ffind(m, p) \in Clusters /\ m[ffind(m, p)].code = p /\ m[ffind(m, p)].idx = 0
<1>1. 0 % IdxMod = 0  BY MapAssumption
<1> QED BY <1>1, FindHits DEF Exists, ffind

\* allocatecluster returns an entry that belongs to nobody.
LEMMA AllocIsFree ==
  ASSUME NEW m, NEW last, CanAlloc(m, last)
  PROVE  allocatecluster(m, last) \in Clusters /\ m[allocatecluster(m, last)].code = Unused
<1>1. Free(m, last) \in SUBSET Nat /\ Free(m, last) # {}
  BY ClustersNat DEF Free, CanAlloc
<1>2. allocatecluster(m, last) \in Free(m, last)  BY <1>1, MinIsLeast DEF allocatecluster
<1> QED BY <1>2 DEF Free

\* An item owns finitely many entries.
LEMMA OwnedFinite ==
  ASSUME NEW m, NEW p
  PROVE  IsFiniteSet(Owned(m, p)) /\ Cardinality(Owned(m, p)) \in Nat
<1>1. Owned(m, p) \in SUBSET Clusters  BY DEF Owned
<1> QED BY <1>1, ClustersNat, FS_Subset, FS_CardinalityType

----------------------------------------------------------------------------
(* Editing.                                                                *)

Map == [Clusters -> fsblock]

\* A map in which entry c, free before, now belongs to p.
LEMMA OwnedGrows ==
  ASSUME NEW m \in Map, NEW n \in Map, NEW c \in Clusters, NEW p,
         m[c].code # p, n[c].code = p,
         \A e \in Clusters \ {c} : n[e] = m[e]
  PROVE  Cardinality(Owned(n, p)) = Cardinality(Owned(m, p)) + 1
<1>1. Owned(n, p) = Owned(m, p) \cup {c} /\ c \notin Owned(m, p)  BY DEF Owned
<1> QED BY ZenonT(40), <1>1, OwnedFinite, FS_AddElement

\* Giving back one entry of an item takes one off the entries __faddr counts.
LEMMA OwnedShrinks ==
  ASSUME NEW m \in Map, NEW n \in Map, NEW c \in Clusters, NEW p,
         m[c].code = p, n[c].code # p,
         \A e \in Clusters \ {c} : n[e] = m[e]
  PROVE  Cardinality(Owned(n, p)) = Cardinality(Owned(m, p)) - 1
<1>1. Owned(n, p) = Owned(m, p) \ {c} /\ c \in Owned(m, p)  BY DEF Owned
<1>2. IsFiniteSet(Owned(m, p))  BY OwnedFinite
<1>3. Cardinality(Owned(m, p) \ {c}) = Cardinality(Owned(m, p)) - 1
  BY <1>1, <1>2, FS_RemoveElement, Zenon
<1> QED BY <1>1, <1>3

\* The entries of an item depend on the codes only.
LEMMA OwnedSame ==
  ASSUME NEW m \in Map, NEW n \in Map, NEW p,
         \A e \in Clusters : n[e].code = p <=> m[e].code = p
  PROVE  Owned(n, p) = Owned(m, p)
BY DEF Owned

\* __fcreate's new metadata entry keeps the map well formed when the item did
\* not exist, orphaned data entries of the same path included.
THEOREM NewHeadOK ==
  ASSUME NEW m \in Map, MapOK(m), NEW p \in Paths, ~Exists(m, p),
         NEW c \in Clusters, m[c].code = Unused, NEW flags
  PROVE  NewHead(m, c, p, flags) \in Map /\ MapOK(NewHead(m, c, p, flags))
<1> DEFINE n == NewHead(m, c, p, flags)
<1>1. CreateAttr(flags) \subseteq Attributes /\ "metadatacluster" \in CreateAttr(flags)
  BY DEF CreateAttr, Attributes
<1>2. n \in Map /\ n[c].code = p /\ n[c].idx = 0 /\ "metadatacluster" \in n[c].attr
  BY <1>1 DEF NewHead, Map, fsblock, Codes
<1>3. \A e \in Clusters \ {c} : n[e] = m[e]  BY DEF NewHead, Map
<1>4. p # Unused  BY MapAssumption
<1>5. \A e \in Clusters : m[e].code = p => m[e].idx # 0  BY ExistsIff
<1> HIDE DEF n
<1>6. UniqueIndex(n)
  <2>1. \A e \in Clusters \ {c} : n[e].code = n[c].code => n[e].idx # n[c].idx
    BY <1>2, <1>3, <1>5
  <2> QED BY <2>1, <1>3 DEF MapOK, UniqueIndex
<1>7. DenseIndex(n)
  <2> SUFFICES ASSUME NEW e \in Clusters, n[e].code # Unused
               PROVE  n[e].idx < Cardinality(Owned(n, n[e].code))
                                   + (IF Exists(n, n[e].code) THEN 0 ELSE 1)
    BY DEF DenseIndex
  <2>1. CASE n[e].code = p
    <3>1. Exists(n, p)  BY <1>2, ExistsIff
    <3>2. Cardinality(Owned(n, p)) = Cardinality(Owned(m, p)) + 1
      BY <1>2, <1>3, <1>4, OwnedGrows
    <3>3. Cardinality(Owned(m, p)) \in Nat  BY OwnedFinite
    <3>4. CASE e = c  BY <3>1, <3>2, <3>3, <3>4, <2>1, <1>2
    <3>5. CASE e # c
      <4>1. n[e] = m[e] /\ m[e].idx < Cardinality(Owned(m, p)) + 1
        BY <3>5, <1>3, <2>1, <1>4 DEF MapOK, DenseIndex
      <4> QED BY <4>1, <3>1, <3>2, <3>3, <2>1
    <3> QED BY <3>4, <3>5
  <2>2. CASE n[e].code # p
    <3>1. e # c /\ n[e] = m[e]  BY <2>2, <1>2, <1>3
    <3>2. \A g \in Clusters : n[g].code = n[e].code <=> m[g].code = n[e].code
      BY <1>2, <1>3, <2>2
    <3>3. Owned(n, n[e].code) = Owned(m, n[e].code)  BY <3>2, <1>2, OwnedSame
    <3>4. Exists(n, n[e].code) <=> Exists(m, n[e].code)
      BY <1>2, <1>3, <2>2, ExistsIff
    <3> QED BY <3>1, <3>3, <3>4 DEF MapOK, DenseIndex
  <2> QED BY <2>1, <2>2
<1>8. HeadIsMeta(n)  BY <1>2, <1>3 DEF MapOK, HeadIsMeta
<1> QED BY <1>2, <1>6, <1>7, <1>8 DEF MapOK, n

\* __faddr gives the new entry an index no other entry of the family has, as
\* long as the family has its metadata entry or the family is the code 0.
THEOREM faddrOK ==
  ASSUME NEW m \in Map, MapOK(m), NEW f \in Clusters,
         m[f].code = Unused \/ Exists(m, m[f].code),
         NEW c \in Clusters, m[c].code = Unused
  PROVE  faddr(m, c, f) \in Map /\ MapOK(faddr(m, c, f))
<1> DEFINE n == faddr(m, c, f)
           p == m[f].code
           k == Cardinality(Owned(m, p))
<1>1. k \in Nat  BY OwnedFinite
<1>2. n \in Map /\ n[c].code = p /\ n[c].idx = k /\ "metadatacluster" \notin n[c].attr
  BY <1>1 DEF faddr, Map, fsblock, Codes
<1>3. \A e \in Clusters \ {c} : n[e] = m[e]  BY DEF faddr, Map
<1>4. ASSUME p # Unused, NEW e \in Clusters, m[e].code = p
      PROVE  m[e].idx < k
  BY <1>4, <1>1 DEF MapOK, DenseIndex
<1>5. ASSUME p # Unused  PROVE  k # 0
  <2>1. PICK e \in Clusters : m[e].code = p /\ m[e].idx = 0
    BY <1>5, ExistsIff
  <2> QED BY <2>1, <1>4, <1>5, <1>1
<1> HIDE DEF n, k
<1>6. UniqueIndex(n)
  <2>1. ASSUME NEW e \in Clusters \ {c}, n[e].code = p, p # Unused
        PROVE  n[e].idx # n[c].idx
    <3>1. n[e] = m[e] /\ m[e].idx \in Nat /\ m[e].idx < k
      BY <2>1, <1>3, <1>4 DEF Map, fsblock
    <3> QED BY <3>1, <1>1, <1>2
  <2> QED BY <2>1, <1>2, <1>3 DEF MapOK, UniqueIndex
<1>7. DenseIndex(n)
  <2> SUFFICES ASSUME NEW e \in Clusters, n[e].code # Unused
               PROVE  n[e].idx < Cardinality(Owned(n, n[e].code))
                                   + (IF Exists(n, n[e].code) THEN 0 ELSE 1)
    BY DEF DenseIndex
  <2>1. CASE n[e].code = p
    <3>1. PICK g \in Clusters : m[g].code = p /\ m[g].idx = 0
      BY <2>1, ExistsIff
    <3>2. n[g].code = p /\ n[g].idx = 0  BY <3>1, <1>2, <1>3, <2>1
    <3>3. Exists(n, p)  BY <3>2, ExistsIff
    <3>4. Cardinality(Owned(n, p)) = k + 1
      BY <1>2, <1>3, <2>1, OwnedGrows DEF k
    <3>5. n[e].idx = k \/ (n[e].idx \in Nat /\ n[e].idx < k)
      BY <1>2, <1>3, <1>4, <2>1 DEF Map, fsblock
    <3> QED BY <3>3, <3>4, <3>5, <1>1, <2>1
  <2>2. CASE n[e].code # p
    <3>1. e # c /\ n[e] = m[e]  BY <2>2, <1>2, <1>3
    <3>2. \A g \in Clusters : n[g].code = n[e].code <=> m[g].code = n[e].code
      BY <1>2, <1>3, <2>2
    <3>3. Owned(n, n[e].code) = Owned(m, n[e].code)  BY <3>2, <1>2, OwnedSame
    <3>4. Exists(n, n[e].code) <=> Exists(m, n[e].code)
      BY <1>2, <1>3, <2>2, ExistsIff
    <3> QED BY <3>1, <3>3, <3>4 DEF MapOK, DenseIndex
  <2> QED BY <2>1, <2>2
<1>8. HeadIsMeta(n)  BY <1>1, <1>2, <1>3, <1>5 DEF MapOK, HeadIsMeta
<1> QED BY <1>2, <1>6, <1>7, <1>8 DEF MapOK, n

\* Removing the metadata entry alone leaves a map that is still well formed.
THEOREM ffremoveOK ==
  ASSUME NEW m \in Map, MapOK(m), NEW p \in Paths, Exists(m, p)
  PROVE  /\ ffremove(m, p) \in Map /\ MapOK(ffremove(m, p))
         /\ ~Exists(ffremove(m, p), p)
<1> DEFINE n == ffremove(m, p)
           c == ffind(m, p)
<1>1. c \in Clusters /\ m[c].code = p /\ m[c].idx = 0  BY FindHead
<1>2. p # Unused  BY MapAssumption
<1>3. n \in Map /\ n[c].code = Unused  BY <1>1 DEF ffremove, Map, fsblock, Codes
<1>4. \A e \in Clusters \ {c} : n[e] = m[e]  BY DEF ffremove, Map
<1>5. \A e \in Clusters \ {c} : m[e].code = p => m[e].idx # 0
  BY <1>1, <1>2 DEF MapOK, UniqueIndex
<1> HIDE DEF n, c
<1>6. ~Exists(n, p)  BY <1>1, <1>2, <1>3, <1>4, <1>5, ExistsIff
<1>7. UniqueIndex(n)  BY <1>3, <1>4 DEF MapOK, UniqueIndex
<1>8. DenseIndex(n)
  <2> SUFFICES ASSUME NEW e \in Clusters, n[e].code # Unused
               PROVE  n[e].idx < Cardinality(Owned(n, n[e].code))
                                   + (IF Exists(n, n[e].code) THEN 0 ELSE 1)
    BY DEF DenseIndex
  <2>0. e # c /\ n[e] = m[e]  BY <1>3, <1>4
  <2>1. CASE n[e].code = p
    <3>1. Cardinality(Owned(n, p)) = Cardinality(Owned(m, p)) - 1
      BY <1>1, <1>2, <1>3, <1>4, OwnedShrinks
    <3>2. m[e].idx \in Nat /\ Cardinality(Owned(m, p)) \in Nat
      BY OwnedFinite DEF Map, fsblock
    <3>3. m[e].idx < Cardinality(Owned(m, p)) + 0
      BY <2>0, <2>1, <1>2 DEF MapOK, DenseIndex
    <3> QED BY <3>1, <3>2, <3>3, <1>6, <2>0, <2>1
  <2>2. CASE n[e].code # p
    <3>1. \A g \in Clusters : n[g].code = n[e].code <=> m[g].code = n[e].code
      BY <1>1, <1>3, <1>4, <2>2
    <3>2. Owned(n, n[e].code) = Owned(m, n[e].code)  BY <3>1, <1>3, OwnedSame
    <3>3. Exists(n, n[e].code) <=> Exists(m, n[e].code)
      BY <1>1, <1>3, <1>4, <2>2, ExistsIff
    <3> QED BY <2>0, <3>2, <3>3 DEF MapOK, DenseIndex
  <2> QED BY <2>1, <2>2
<1>9. HeadIsMeta(n)  BY <1>3, <1>4 DEF MapOK, HeadIsMeta
<1> QED BY <1>3, <1>6, <1>7, <1>8, <1>9 DEF MapOK, n

\* Removing every entry of an item.
THEOREM ffremovelOK ==
  ASSUME NEW m \in Map, MapOK(m), NEW p \in Paths
  PROVE  ffremovel(m, p) \in Map /\ MapOK(ffremovel(m, p))
<1> DEFINE n == ffremovel(m, p)
<1>1. p # Unused  BY MapAssumption
<1>2. n \in Map  BY DEF ffremovel, Map, fsblock, Codes
<1>3. \A e \in Clusters : n[e].code = IF m[e].code = p THEN Unused ELSE m[e].code
  BY DEF ffremovel, Map, fsblock
<1>4. \A e \in Clusters : n[e].idx = m[e].idx /\ n[e].attr = m[e].attr
  BY DEF ffremovel, Map, fsblock
<1> HIDE DEF n
<1>5. UniqueIndex(n)  BY <1>3, <1>4 DEF MapOK, UniqueIndex
<1>6. DenseIndex(n)
  <2> SUFFICES ASSUME NEW e \in Clusters, n[e].code # Unused
               PROVE  n[e].idx < Cardinality(Owned(n, n[e].code))
                                   + (IF Exists(n, n[e].code) THEN 0 ELSE 1)
    BY DEF DenseIndex
  <2>1. n[e].code = m[e].code /\ n[e].code # p  BY <1>1, <1>3
  <2>2. \A g \in Clusters : n[g].code = n[e].code <=> m[g].code = n[e].code
    BY <1>1, <1>3, <2>1
  <2>3. Owned(n, n[e].code) = Owned(m, n[e].code)  BY <2>2, <1>2, OwnedSame
  <2>4. Exists(n, n[e].code) <=> Exists(m, n[e].code)
    BY <2>2, <1>4, ExistsIff
  <2> QED BY <2>1, <2>3, <2>4, <1>4 DEF MapOK, DenseIndex
<1>7. HeadIsMeta(n)  BY <1>3, <1>4 DEF MapOK, HeadIsMeta
<1> QED BY <1>2, <1>5, <1>6, <1>7 DEF MapOK, n

\* A freshly formatted map is well formed.
LEMMA EmptyMapOK == EmptyMap \in Map /\ MapOK(EmptyMap)
BY DEF EmptyMap, Map, fsblock, Codes, Attributes, MapOK, UniqueIndex, DenseIndex, HeadIsMeta

\* An item that exists has a block for every index below the number of its
\* entries: as many indices as entries, and no index twice.
LEMMA DenseFound ==
  ASSUME NEW m \in Map, MapOK(m), NEW p \in Paths, Exists(m, p)
  PROVE  \A i \in 0 .. Cardinality(Owned(m, p)) - 1 :
            \E c \in Clusters : m[c].code = p /\ m[c].idx = i
<1> DEFINE S == Owned(m, p)
           n == Cardinality(S)
<1>1. IsFiniteSet(S) /\ n \in Nat  BY OwnedFinite
<1>2. p # Unused  BY MapAssumption
<1>3. \A c \in S : c \in Clusters /\ m[c].code = p  BY DEF Owned
<1>4. \A c \in S : m[c].idx \in 0 .. n - 1
  <2>1. \A c \in S : m[c].idx \in Nat  BY <1>3 DEF Map, fsblock
  <2>2. \A c \in S : m[c].idx < n  BY <1>1, <1>2, <1>3 DEF MapOK, DenseIndex
  <2> QED BY <1>1, <2>1, <2>2
<1>5. \A c, d \in S : m[c].idx = m[d].idx => c = d  BY <1>2, <1>3 DEF MapOK, UniqueIndex
<1> SUFFICES ASSUME NEW i \in 0 .. n - 1, \A c \in S : m[c].idx # i PROVE FALSE
  BY DEF Owned
<1> DEFINE I == 0 .. (n - 1)
           T == I \ {i}
           f == [c \in S |-> m[c].idx]
<1> HIDE DEF n, S
<1>6. IsFiniteSet(I) /\ Cardinality(I) = n
  <2>1. 0 \in Int /\ n - 1 \in Int /\ ~(0 > n - 1)  BY <1>1
  <2>2. Cardinality(0 .. (n - 1)) = (n - 1) - 0 + 1  BY <2>1, FS_Interval
  <2> QED BY <1>1, <2>1, <2>2, FS_Interval
<1>7. IsFiniteSet(T) /\ Cardinality(T) = n - 1
  <2>1. i \in I  OBVIOUS
  <2> HIDE DEF I
  <2> QED BY <1>6, <2>1, FS_RemoveElement
<1>8. f \in [S -> T]  BY <1>4
<1>9. \E x, y \in S : x # y /\ f[x] = f[y]
  <2>1. Cardinality(T) < Cardinality(S)  BY <1>1, <1>7 DEF n
  <2> HIDE DEF T, f
  <2> QED BY <1>1, <1>7, <1>8, <2>1, FS_PigeonHole
<1> QED BY <1>5, <1>9

\* __fsize counts the blocks behind the metadata: fewer than the item has entries.
LEMMA SizeBound ==
  ASSUME NEW m \in Map, MapOK(m), NEW p \in Paths, Exists(m, p)
  PROVE  /\ fsizeBlocks(m, p) \in Nat
         /\ fsizeBlocks(m, p) <= Cardinality(Owned(m, p)) - 1
<1> DEFINE n == Cardinality(Owned(m, p))
           W == Walked(m, p)
           U == {i \in 0 .. N : ~Found(m, p, i)}
           D == {i \in 0 .. W - 1 : "metadatacluster" \notin m[ffindhi(m, p, i)].attr}
<1>0. N \in Nat /\ IdxMod \in Nat /\ N < IdxMod /\ p # Unused  BY MapAssumption
<1>1. n \in Nat  BY OwnedFinite
<1>2. n <= N
  <2>1. Owned(m, p) \in SUBSET Clusters  BY DEF Owned
  <2>2. n <= Cardinality(Clusters)  BY <2>1, ClustersNat, FS_Subset
  <2>3. 0 \in Int /\ N - 1 \in Int /\ N > 0 /\ ~(0 > N - 1)  BY MapAssumption
  <2>4. Cardinality(0 .. (N - 1)) = (N - 1) - 0 + 1  BY <2>3, FS_Interval
  <2>5. Cardinality(Clusters) = N  BY <1>0, <2>4 DEF Clusters
  <2> QED BY <2>2, <2>5
<1>3. n \in U
  <2>1. n % IdxMod = n  BY <1>0, <1>1, <1>2
  <2>2. \A c \in Clusters : m[c].code = p => m[c].idx \in Nat /\ m[c].idx < n
    BY <1>0, <1>1 DEF MapOK, DenseIndex, Map, fsblock
  <2> HIDE DEF n
  <2>3. ~Found(m, p, n)  BY <1>1, <2>1, <2>2 DEF Found, Hits
  <2> QED BY <1>0, <1>1, <1>2, <2>3
<1>4. W \in Nat /\ W <= n
  <2>1. U \in SUBSET Nat /\ U # {}  BY <1>3
  <2>2. Min(U) \in U /\ \A y \in U : Min(U) <= y  BY <2>1, MinIsLeast
  <2> QED BY <1>3, <2>1, <2>2 DEF Walked
<1> HIDE DEF n, W
<1>5. D \subseteq 1 .. (n - 1)
  <2>1. "metadatacluster" \in m[ffindhi(m, p, 0)].attr
    <3>1. ffind(m, p) \in Clusters /\ m[ffind(m, p)].code = p /\ m[ffind(m, p)].idx = 0
      BY FindHead
    <3> QED BY <3>1, <1>0 DEF ffind, MapOK, HeadIsMeta
  <2>2. \A i \in D : i # 0 /\ i \in 0 .. W - 1  BY <2>1
  <2> HIDE DEF D
  <2> QED BY <1>1, <1>4, <2>2
<1>6. n >= 1
  <2>1. \E c \in Clusters : m[c].code = p /\ m[c].idx \in Nat /\ m[c].idx < n
    BY <1>0, <1>1, ExistsIff DEF n, MapOK, DenseIndex, Map, fsblock
  <2> QED BY <1>1, <2>1
<1>7. IsFiniteSet(1 .. (n - 1)) /\ Cardinality(1 .. (n - 1)) = n - 1
  <2>1. 1 \in Int /\ n - 1 \in Int  BY <1>1
  <2>2. /\ IsFiniteSet(1 .. (n - 1))
        /\ Cardinality(1 .. (n - 1)) = IF 1 > n - 1 THEN 0 ELSE (n - 1) - 1 + 1
    BY <2>1, FS_Interval
  <2> QED BY <1>1, <1>6, <2>2
<1>8. IsFiniteSet(D) /\ Cardinality(D) <= n - 1
  <2> HIDE DEF D
  <2> QED BY <1>5, <1>7, FS_Subset
<1>9. fsizeBlocks(m, p) = Cardinality(D)  BY DEF fsizeBlocks, W
<1> QED BY <1>8, <1>9, FS_CardinalityType DEF n
============================================================================
