---------------------------- MODULE MemPoolProofs ----------------------------
(***************************************************************************)
(* The memory pools, for every number and size of pools and blocks and     *)
(* every history of mmalloc, mfree, mrealloc, mclone and of what holders   *)
(* write: the descriptors of a pool tile its blocks and the links follow   *)
(* the addresses, where no block was written over them, and a block that   *)
(* is handed out lies within its pool, before the oldest descriptor.       *)
(***************************************************************************)
EXTENDS MemPool, ScanLemmas, SequenceTheorems, TLAPS

----------------------------------------------------------------------------
(* What is known of the descriptors of one pool.                           *)

Desc == [ptr : Nat, nbytes : Nat \ {0}, next : Nat, used : BOOLEAN]
End(d) == d.ptr + d.nbytes

\* Links stay in the array.
Linkable(ds) == ds \in Seq(Desc) /\ \A i \in 1 .. Len(ds) : ds[i].next \in 0 .. Len(ds)

\* No two descriptors overlap.
Apart(ds) ==
    \A i, j \in 1 .. Len(ds) : i # j => End(ds[i]) <= ds[j].ptr \/ End(ds[j]) <= ds[i].ptr

\* A descriptor begins at the base or where another ends.
Based(ds) ==
    \A i \in 1 .. Len(ds) : ds[i].ptr = 0 \/ \E j \in 1 .. Len(ds) : End(ds[j]) = ds[i].ptr

\* The link of descriptor i leads to the adjacent one, or it is the last.
LinkOK(ds, i) ==
    IF ds[i].next = 0 THEN \A j \in 1 .. Len(ds) : ds[j].ptr <= ds[i].ptr
    ELSE ds[ds[i].next].ptr = End(ds[i])

Links(ds) == \A i \in 1 .. Len(ds) : LinkOK(ds, i)

\* f[n] is the sum of the first n sizes.
Adds(f, ds) ==
    /\ f \in [0 .. Len(ds) -> Int] /\ f[0] = 0
    /\ \A i \in 1 .. Len(ds) : f[i] = f[i - 1] + ds[i].nbytes

\* The sizes together reach the end of every descriptor and are at most m.
Filled(ds, m) ==
    \E f : /\ Adds(f, ds) /\ f[Len(ds)] <= m
           /\ f[Len(ds)] >= 0
           /\ \A i \in 1 .. Len(ds) : End(ds[i]) <= f[Len(ds)]

\* As fragmemory leaves the descriptors for fixmdarray: only the link of the
\* newest, which fixmdarray does not touch, is known to be right.
Loose(ds) ==
    /\ Linkable(ds) /\ Apart(ds) /\ Based(ds)
    /\ Len(ds) > 0 => LinkOK(ds, Len(ds))

DescsOK(ds, m) == Linkable(ds) /\ Apart(ds) /\ Based(ds) /\ Links(ds) /\ Filled(ds, m)

\* The types of one descriptor.
LEMMA DescType ==
  ASSUME NEW ds \in Seq(Desc), NEW i \in 1 .. Len(ds)
  PROVE  /\ ds[i] \in Desc /\ ds[i].ptr \in Nat /\ ds[i].nbytes \in Nat \ {0}
         /\ ds[i].next \in Nat /\ ds[i].used \in BOOLEAN
         /\ End(ds[i]) \in Nat /\ ds[i].ptr < End(ds[i])
<1>1. ds[i] \in Desc  BY ElementOfSeq
<1>2. /\ ds[i].ptr \in Nat /\ ds[i].nbytes \in Nat \ {0}
      /\ ds[i].next \in Nat /\ ds[i].used \in BOOLEAN
  BY <1>1 DEF Desc
<1>3. End(ds[i]) \in Nat /\ ds[i].ptr < End(ds[i])
  <2>1. ds[i].ptr \in Nat /\ ds[i].nbytes \in Nat \ {0}  BY <1>2
  <2> QED BY <2>1 DEF End
<1> QED BY <1>1, <1>2, <1>3

\* A function on 1 .. n is a sequence of length n.
LEMMA FunIsSeq ==
  ASSUME NEW S, NEW n \in Nat, NEW g \in [1 .. n -> S]
  PROVE  g \in Seq(S) /\ Len(g) = n
OBVIOUS

\* The elements of an array that has grown by one.
LEMMA AppendAt ==
  ASSUME NEW S, NEW s \in Seq(S), NEW d \in S, NEW n \in Nat, Len(s) + 1 = n
  PROVE  /\ Append(s, d) \in Seq(S) /\ Len(Append(s, d)) = n /\ Append(s, d)[n] = d
         /\ \A i \in 1 .. Len(s) : Append(s, d)[i] = s[i]
BY AppendProperties, LenProperties

\* First returns an element, or 0 when there is none.
LEMMA FirstHit ==
  ASSUME NEW n \in Nat, NEW S \in SUBSET (1 .. n)
  PROVE  /\ First(S) \in 0 .. n
         /\ First(S) = 0 => S = {}
         /\ First(S) # 0 => First(S) \in S
<1>1. CASE S = {}  BY <1>1 DEF First
<1>2. CASE S # {}
  <2>1. S \in SUBSET Nat  OBVIOUS
  <2>2. Min(S) \in S  BY <2>1, <1>2, MinIsLeast
  <2>3. First(S) = Min(S)  BY <1>2 DEF First
  <2>4. First(S) \in S /\ First(S) \in 1 .. n  BY <2>2, <2>3
  <2> QED BY <1>2, <2>4
<1> QED BY <1>1, <1>2

----------------------------------------------------------------------------
(* Sums of sizes.                                                          *)

\* Appending a descriptor adds its size.
LEMMA AddsAppend ==
  ASSUME NEW ds \in Seq(Desc), NEW d \in Desc, NEW f, Adds(f, ds)
  PROVE  \E g : Adds(g, Append(ds, d)) /\ g[Len(ds) + 1] = f[Len(ds)] + d.nbytes
<1> DEFINE L == Len(ds)
           es == Append(ds, d)
           g == [i \in 0 .. L + 1 |-> IF i <= L THEN f[i] ELSE f[L] + d.nbytes]
<1>1. L \in Nat /\ Len(es) = L + 1 /\ es[L + 1] = d /\ \A i \in 1 .. L : es[i] = ds[i]
  BY AppendProperties, LenProperties
<1>2. d.nbytes \in Nat  BY DEF Desc
<1>3. f \in [0 .. L -> Int] /\ f[0] = 0 /\ \A i \in 1 .. L : f[i] = f[i - 1] + ds[i].nbytes
  BY DEF Adds
<1> HIDE DEF L, es
<1>4. \A i \in 0 .. L : f[i] \in Int  BY <1>3
<1>5. g \in [0 .. L + 1 -> Int] /\ g[0] = 0 /\ g[L + 1] = f[L] + d.nbytes
  BY <1>1, <1>2, <1>3, <1>4
<1>6. ASSUME NEW i \in 1 .. L + 1 PROVE g[i] = g[i - 1] + es[i].nbytes
  <2>1. CASE i = L + 1
    <3>1. g[i] = f[L] + d.nbytes  BY <2>1, <1>5
    <3>2. i - 1 = L /\ L \in 0 .. L + 1  BY <2>1, <1>1
    <3>3. g[i - 1] = f[L]  BY <3>2, <1>1
    <3> QED BY <3>1, <3>3, <2>1, <1>1
  <2>2. CASE i \in 1 .. L
    <3>1. g[i] = f[i] /\ g[i - 1] = f[i - 1]  BY <2>2, <1>1
    <3> QED BY <3>1, <2>2, <1>1, <1>3
  <2> QED BY <2>1, <2>2, <1>1
<1> HIDE DEF g
<1> QED BY <1>1, <1>5, <1>6 DEF Adds, L, es

\* Changing the size of one descriptor changes the sum by the difference.
LEMMA AddsChange ==
  ASSUME NEW ds \in Seq(Desc), NEW es \in Seq(Desc), Len(es) = Len(ds),
         NEW k \in 1 .. Len(ds),
         \A i \in 1 .. Len(ds) : i # k => es[i].nbytes = ds[i].nbytes,
         NEW f, Adds(f, ds)
  PROVE  \E g : Adds(g, es) /\ g[Len(es)] = f[Len(ds)] - ds[k].nbytes + es[k].nbytes
<1> DEFINE L == Len(ds)
           c == es[k].nbytes - ds[k].nbytes
           g == [i \in 0 .. L |-> IF i < k THEN f[i] ELSE f[i] + c]
<1>1. L \in Nat /\ k \in 1 .. L  BY LenProperties
<1>2. f \in [0 .. L -> Int] /\ f[0] = 0 /\ \A i \in 1 .. L : f[i] = f[i - 1] + ds[i].nbytes
  BY DEF Adds
<1>3. ds[k].nbytes \in Nat /\ es[k].nbytes \in Nat /\ c \in Int  BY DescType
<1>4. \A i \in 0 .. L : f[i] \in Int  BY <1>2
<1>5. ASSUME NEW i \in 1 .. L PROVE ds[i].nbytes \in Nat /\ es[i].nbytes \in Nat  BY DescType
<1>6. es[k].nbytes = ds[k].nbytes + c  BY <1>3
<1> HIDE DEF L, c
<1>7. g \in [0 .. L -> Int] /\ g[0] = 0 /\ g[L] = f[L] + c  BY SMTT(30), <1>1, <1>2, <1>3, <1>4
<1>a. \A i \in 0 .. L : (i < k => g[i] = f[i]) /\ (~(i < k) => g[i] = f[i] + c)  OBVIOUS
<1> HIDE DEF g
<1>8. ASSUME NEW i \in 1 .. L PROVE g[i] = g[i - 1] + es[i].nbytes
  <2>0. /\ i - 1 \in 0 .. L /\ f[i] = f[i - 1] + ds[i].nbytes /\ f[i] \in Int /\ f[i - 1] \in Int
        /\ ds[i].nbytes \in Nat /\ i \in 0 .. L
    <3>1. i \in 0 .. L /\ i - 1 \in 0 .. L  BY <1>1
    <3>2. ds[i].nbytes \in Nat  BY <1>5
    <3> QED BY <3>1, <3>2, <1>2, <1>4
  <2>1. CASE i < k
    <3>1. g[i] = f[i] /\ g[i - 1] = f[i - 1]  BY <2>0, <2>1, <1>1, <1>a
    <3>2. es[i].nbytes = ds[i].nbytes  BY <2>1, <1>1 DEF L
    <3> QED BY <3>1, <3>2, <2>0
  <2>2. CASE i = k
    <3>1. g[i] = f[i] + c /\ g[i - 1] = f[i - 1]  BY SMTT(30), <2>0, <2>2, <1>1, <1>a
    <3>2. es[i].nbytes = ds[i].nbytes + c  BY <2>2, <1>6
    <3> QED BY SMTT(30), <3>1, <3>2, <2>0, <1>3
  <2>3. CASE i > k
    <3>1. g[i] = f[i] + c /\ g[i - 1] = f[i - 1] + c  BY SMTT(30), <2>0, <2>3, <1>1, <1>a
    <3>2. es[i].nbytes = ds[i].nbytes  BY <2>3, <1>1 DEF L
    <3> QED BY <3>1, <3>2, <2>0, <1>3
  <2> QED BY <2>1, <2>2, <2>3, <1>1
<1>9. g[L] = f[L] - ds[k].nbytes + es[k].nbytes
  <2>1. L \in 0 .. L  BY <1>1
  <2>2. f[L] \in Int  BY <2>1, <1>4
  <2>3. \A x, a, b \in Int : b = a + c => x + c = x - a + b  BY <1>3
  <2>4. ds[k].nbytes \in Int /\ es[k].nbytes \in Int  BY <1>3
  <2>5. f[L] + c = f[L] - ds[k].nbytes + es[k].nbytes  BY <2>2, <2>3, <2>4, <1>6
  <2> QED BY <2>5, <1>7
<1> QED BY <1>7, <1>8, <1>9 DEF Adds, L

\* memusedsize counts no gap where the links are right.
LEMMA UsedIsSum ==
  ASSUME NEW ds, Linkable(ds), Links(ds), NEW f, Adds(f, ds)
  PROVE  memusedsize(ds) = f[Len(ds)]
<1> DEFINE L == Len(ds)
           Gap(i) == IF ds[i].next = 0 THEN 0 ELSE ds[ds[i].next].ptr - (ds[i].ptr + ds[i].nbytes)
           Body(o) == [i \in 0 .. L |-> IF i = 0 THEN 0 ELSE o[i - 1] + ds[i].nbytes + Gap(i)]
<1>0. ds \in Seq(Desc) /\ L \in Nat  BY LenProperties DEF Linkable
<1>1. f \in [0 .. L -> Int] /\ f[0] = 0 /\ \A i \in 1 .. L : f[i] = f[i - 1] + ds[i].nbytes
  BY DEF Adds
<1>2. ASSUME NEW i \in 1 .. L PROVE Gap(i) = 0
  <2>1. CASE ds[i].next = 0  BY <2>1
  <2>2. CASE ds[i].next # 0
    <3>1. ds[ds[i].next].ptr = ds[i].ptr + ds[i].nbytes  BY <2>2 DEF Links, LinkOK, End
    <3>2. ds[i].ptr + ds[i].nbytes \in Nat  BY <1>0, DescType
    <3> QED BY <2>2, <3>1, <3>2
  <2> QED BY <2>1, <2>2
<1>3. \A i \in 1 .. L : ds[i].nbytes \in Nat /\ f[i] \in Int /\ f[i - 1] \in Int
  BY SMTT(30), <1>0, <1>1, DescType
<1> HIDE DEF Gap, L
<1>4. ASSUME NEW i \in 0 .. L
      PROVE  f[i] = IF i = 0 THEN 0 ELSE f[i - 1] + ds[i].nbytes + Gap(i)
  <2>1. CASE i = 0  BY <2>1, <1>1
  <2>2. CASE i # 0
    <3>1. i \in 1 .. L  BY <2>2, <1>0
    <3>2. Gap(i) = 0 /\ f[i] = f[i - 1] + ds[i].nbytes /\ f[i - 1] \in Int /\ ds[i].nbytes \in Nat
      BY <3>1, <1>1, <1>2, <1>3
    <3> QED BY <3>2, <2>2
  <2> QED BY <2>1, <2>2
<1>5. f = Body(f)  BY <1>1, <1>4
<1> DEFINE u == CHOOSE o : o = Body(o)
<1>6. u = Body(u)  BY <1>5
<1>7. memusedsize(ds) = u[L]  BY DEF memusedsize, L, Gap
<1> HIDE DEF u
<1>8. \A i \in 0 .. L : u[i] = IF i = 0 THEN 0 ELSE u[i - 1] + ds[i].nbytes + Gap(i)  BY <1>6
<1> DEFINE B == {i \in 0 .. L : u[i] # f[i]}
<1>9. B = {}
  <2> SUFFICES ASSUME B # {} PROVE FALSE  OBVIOUS
  <2>1. PICK b \in B : \A y \in B : b <= y
    <3>1. B \in SUBSET Nat  BY <1>0
    <3> HIDE DEF B
    <3> QED BY <3>1, MinIsLeast
  <2>2. b \in 0 .. L /\ u[b] # f[b]  BY <2>1
  <2>3. b # 0  BY <2>2, <1>4, <1>8
  <2>4. b - 1 \in 0 .. L /\ b - 1 \notin B  BY <2>1, <2>2, <2>3, <1>0
  <2>5. u[b - 1] = f[b - 1]  BY <2>4
  <2> QED BY <2>2, <2>3, <2>5, <1>4, <1>8
<1>10. u[L] = f[L]  BY <1>0, <1>9
<1> QED BY <1>7, <1>10 DEF L
----------------------------------------------------------------------------
(* Links.                                                                  *)

\* A set of descriptors that is not empty has one with the highest address.
LEMMA HighestDesc ==
  ASSUME NEW ds \in Seq(Desc), NEW m, Filled(ds, m), NEW B \in SUBSET (1 .. Len(ds)), B # {}
  PROVE  \E b \in B : \A i \in B : ds[i].ptr <= ds[b].ptr
<1>1. PICK f : Adds(f, ds) /\ f[Len(ds)] >= 0
               /\ \A i \in 1 .. Len(ds) : End(ds[i]) <= f[Len(ds)]
  BY DEF Filled
<1> DEFINE n == f[Len(ds)]
           S == {ds[i].ptr : i \in B}
<1>2. n \in Nat
  <2>1. Len(ds) \in 0 .. Len(ds)  BY LenProperties
  <2>2. f[Len(ds)] \in Int  BY <1>1, <2>1 DEF Adds
  <2> QED BY <1>1, <2>2
<1>3. ASSUME NEW i \in B PROVE ds[i].ptr \in 0 .. n
  <2>1. i \in 1 .. Len(ds)  OBVIOUS
  <2>2. ds[i].ptr \in Nat /\ End(ds[i]) \in Nat /\ ds[i].ptr < End(ds[i])  BY <2>1, DescType
  <2>3. End(ds[i]) <= n  BY <2>1, <1>1
  <2> HIDE DEF n
  <2> QED BY <2>2, <2>3, <1>2
<1> HIDE DEF n
<1>4. S \in SUBSET (0 .. n) /\ S # {}  BY <1>3
<1>5. Max(S) \in S /\ \A y \in S : y <= Max(S)
  <2> HIDE DEF S
  <2> QED BY <1>2, <1>4, MaxIsGreatest
<1> QED BY <1>5

\* Only one descriptor has no link: the one with the highest address.
LEMMA OneTip ==
  ASSUME NEW ds, Linkable(ds), Apart(ds), Links(ds),
         NEW i \in 1 .. Len(ds), NEW j \in 1 .. Len(ds), ds[i].next = 0, ds[j].next = 0
  PROVE  i = j
<1> SUFFICES ASSUME i # j PROVE FALSE  OBVIOUS
<1>1. ds[i].ptr <= ds[j].ptr /\ ds[j].ptr <= ds[i].ptr  BY DEF Links, LinkOK
<1>2. End(ds[i]) <= ds[j].ptr \/ End(ds[j]) <= ds[i].ptr  BY DEF Apart
<1>3. /\ ds[i].ptr \in Nat /\ End(ds[i]) \in Nat /\ ds[i].ptr < End(ds[i])
      /\ ds[j].ptr \in Nat /\ End(ds[j]) \in Nat /\ ds[j].ptr < End(ds[j])
  BY DescType DEF Linkable
<1> QED BY <1>1, <1>2, <1>3

\* A link leads upwards.
LEMMA LinkUp ==
  ASSUME NEW ds, Linkable(ds), NEW i \in 1 .. Len(ds), LinkOK(ds, i), ds[i].next # 0
  PROVE  ds[i].next \in 1 .. Len(ds) /\ ds[i].ptr < ds[ds[i].next].ptr
<1>1. ds[i].next \in 0 .. Len(ds) /\ Len(ds) \in Nat  BY LenProperties DEF Linkable
<1>2. ds[ds[i].next].ptr = End(ds[i])  BY DEF LinkOK
<1>3. ds[i].ptr < End(ds[i])  BY DescType DEF Linkable
<1> QED BY <1>1, <1>2, <1>3

\* chaintip ends, at the descriptor with the highest address.
LEMMA ChainTip ==
  ASSUME NEW ds, NEW m, DescsOK(ds, m), ds # <<>>
  PROVE  /\ chaintip(ds) \in 1 .. Len(ds)
         /\ ds[chaintip(ds)].next = 0
         /\ \A i \in 1 .. Len(ds) : End(ds[i]) <= End(ds[chaintip(ds)])
         /\ \A i \in 1 .. Len(ds) : i # chaintip(ds) => ds[i].next # 0
<1> DEFINE L == Len(ds)
           Body(u) == [i \in DOMAIN ds |-> IF ds[i].next = 0 THEN i ELSE u[ds[i].next]]
<1>0. ds \in Seq(Desc) /\ L \in Nat \ {0} /\ DOMAIN ds = 1 .. L
  BY LenProperties, EmptySeq DEF DescsOK, Linkable
<1>a. Linkable(ds) /\ Apart(ds) /\ Links(ds) /\ Filled(ds, m)  BY DEF DescsOK
<1>1. PICK t \in 1 .. L : \A i \in 1 .. L : ds[i].ptr <= ds[t].ptr
  <2>1. 1 \in 1 .. L  BY <1>0
  <2> QED BY <2>1, <1>0, <1>a, HighestDesc
<1>2. ds[t].next = 0
  <2> SUFFICES ASSUME ds[t].next # 0 PROVE FALSE  OBVIOUS
  <2>1. LinkOK(ds, t)  BY <1>a DEF Links
  <2>2. ds[t].next \in 1 .. L /\ ds[t].ptr < ds[ds[t].next].ptr  BY <2>1, <1>a, LinkUp
  <2>3. ds[ds[t].next].ptr <= ds[t].ptr  BY <2>2, <1>1
  <2>4. ds[t].ptr \in Nat /\ ds[ds[t].next].ptr \in Nat  BY <2>2, <1>0, DescType
  <2> QED BY <2>2, <2>3, <2>4
<1>3. \A i \in 1 .. L : ds[i].next = 0 => i = t  BY <1>2, <1>a, OneTip
<1>4. \A i \in 1 .. L : ds[i].next # 0 => ds[i].next \in 1 .. L /\ ds[i].ptr < ds[ds[i].next].ptr
  BY <1>a, LinkUp DEF Links
<1> HIDE DEF L
<1> DEFINE c == [i \in 1 .. L |-> t]
           u == CHOOSE x : x = Body(x)
<1>5. c = Body(c)  BY <1>0, <1>3, <1>4
<1> HIDE DEF c
<1>6. u = Body(u)  BY <1>5
<1>7. chaintip(ds) = u[L]  BY DEF chaintip, L
<1> HIDE DEF u
<1>8. \A i \in 1 .. L : u[i] = IF ds[i].next = 0 THEN i ELSE u[ds[i].next]  BY <1>0, <1>6
<1> DEFINE B == {i \in 1 .. L : u[i] # t}
<1>9. B = {}
  <2> SUFFICES ASSUME B # {} PROVE FALSE  OBVIOUS
  <2>1. PICK b \in B : \A i \in B : ds[i].ptr <= ds[b].ptr
    <3>1. B \in SUBSET (1 .. Len(ds))  BY DEF L
    <3> HIDE DEF B
    <3> QED BY <3>1, <1>0, <1>a, HighestDesc
  <2>2. b \in 1 .. L /\ u[b] # t  BY <2>1
  <2>3. ds[b].next # 0  BY <2>2, <1>3, <1>8
  <2>4. ds[b].next \in 1 .. L /\ ds[b].ptr < ds[ds[b].next].ptr /\ u[b] = u[ds[b].next]
    BY <2>2, <2>3, <1>4, <1>8
  <2>5. ds[b].next \in B  BY <2>2, <2>4
  <2>6. ds[ds[b].next].ptr <= ds[b].ptr  BY <2>1, <2>5
  <2>7. ds[b].ptr \in Nat /\ ds[ds[b].next].ptr \in Nat  BY <2>2, <2>4, <1>0, DescType DEF L
  <2> QED BY <2>4, <2>6, <2>7
<1>10. chaintip(ds) = t  BY <1>0, <1>7, <1>9
<1>11. ASSUME NEW i \in 1 .. L PROVE End(ds[i]) <= End(ds[t])
  <2>1. CASE i = t
    <3>1. End(ds[t]) \in Nat  BY <1>0, DescType DEF L
    <3> QED BY <2>1, <3>1
  <2>2. CASE i # t
    <3>1. End(ds[i]) <= ds[t].ptr \/ End(ds[t]) <= ds[i].ptr  BY <2>2, <1>a DEF Apart, L
    <3>2. ds[i].ptr <= ds[t].ptr  BY <1>1
    <3>3. /\ ds[i].ptr \in Nat /\ End(ds[i]) \in Nat
          /\ ds[t].ptr \in Nat /\ End(ds[t]) \in Nat /\ ds[t].ptr < End(ds[t])
      BY <1>0, DescType DEF L
    <3> QED BY <3>1, <3>2, <3>3
  <2> QED BY <2>1, <2>2
<1> QED BY <1>2, <1>3, <1>10, <1>11 DEF L

\* The same blocks, in the same order.
Like(ds, es) ==
    /\ es \in Seq(Desc) /\ Len(es) = Len(ds)
    /\ \A i \in 1 .. Len(ds) : es[i].ptr = ds[i].ptr /\ es[i].nbytes = ds[i].nbytes

\* What only speaks of blocks holds for the same blocks.
LEMMA LikeKeeps ==
  ASSUME NEW ds \in Seq(Desc), NEW es, Like(ds, es)
  PROVE  /\ \A i \in 1 .. Len(ds) : End(es[i]) = End(ds[i])
         /\ Apart(ds) => Apart(es)
         /\ Based(ds) => Based(es)
         /\ \A m : Filled(ds, m) => Filled(es, m)
<1>1. Len(es) = Len(ds) /\ \A i \in 1 .. Len(ds) : es[i].ptr = ds[i].ptr  BY DEF Like
<1>2. \A i \in 1 .. Len(ds) : End(es[i]) = End(ds[i])  BY DEF Like, End
<1>3. Apart(ds) => Apart(es)  BY <1>1, <1>2 DEF Apart
<1>4. Based(ds) => Based(es)  BY <1>1, <1>2 DEF Based
<1>5. ASSUME NEW m, Filled(ds, m) PROVE Filled(es, m)
  <2>1. PICK f : /\ Adds(f, ds) /\ f[Len(ds)] <= m /\ f[Len(ds)] >= 0
                 /\ \A i \in 1 .. Len(ds) : End(ds[i]) <= f[Len(ds)]
    BY <1>5 DEF Filled
  <2>2. Adds(f, es)  BY <2>1 DEF Adds, Like
  <2> QED BY <2>1, <2>2, <1>1, <1>2 DEF Filled
<1> QED BY <1>2, <1>3, <1>4, <1>5

\* The nearest descriptor behind the end of another is the adjacent one.
LEMMA NextAdjacent ==
  ASSUME NEW ds \in Seq(Desc), Apart(ds), Based(ds), NEW i \in 1 .. Len(ds)
  PROVE  /\ NextOf(ds, i) \in 0 .. Len(ds)
         /\ NextOf(ds, i) = 0 => \A j \in 1 .. Len(ds) : ds[j].ptr <= ds[i].ptr
         /\ NextOf(ds, i) # 0 => ds[NextOf(ds, i)].ptr = End(ds[i])
<1> DEFINE L == Len(ds)
           P(j) == ds[j].ptr
           E(j) == End(ds[j])
           after == {j \in 1 .. L : P(j) > P(i) /\ P(j) >= E(i)}
           near == {j \in after : \A k \in after : P(j) <= P(k)}
<1>0. L \in Nat /\ i \in 1 .. L /\ DOMAIN ds = 1 .. L  BY LenProperties
<1>1. \A j \in 1 .. L : P(j) \in Nat /\ E(j) \in Nat /\ P(j) < E(j)  BY DescType
<1>2. \A j, k \in 1 .. L : j # k => E(j) <= P(k) \/ E(k) <= P(j)  BY DEF Apart
<1>3. \A j \in 1 .. L : P(j) = 0 \/ \E k \in 1 .. L : E(k) = P(j)  BY DEF Based
<1>4. NextOf(ds, i) = IF after = {} THEN 0 ELSE Max(near)
  BY <1>0 DEF NextOf, End
<1> HIDE DEF P, E, L
<1>5. CASE after = {}
  <2>1. ASSUME NEW j \in 1 .. L, ~(P(j) <= P(i)) PROVE FALSE
    <3>1. P(j) > P(i) /\ j # i  BY <2>1, <1>0, <1>1
    <3>2. E(i) <= P(j)
      <4>1. E(i) <= P(j) \/ E(j) <= P(i)  BY <3>1, <1>0, <1>2
      <4> QED BY <4>1, <3>1, <1>0, <1>1
    <3>3. P(j) >= E(i)  BY <3>2, <1>0, <1>1
    <3> QED BY <3>1, <3>3, <1>5
  <2>2. NextOf(ds, i) = 0  BY <1>4, <1>5
  <2> QED BY <2>1, <2>2, <1>0 DEF P, L
<1>6. CASE after # {}
  <2>1. near # {}
    <3> DEFINE S == {P(j) : j \in after}
    <3>1. S \in SUBSET Nat /\ S # {}  BY <1>1, <1>6
    <3>2. Min(S) \in S /\ \A y \in S : Min(S) <= y
      <4> HIDE DEF S
      <4> QED BY <3>1, MinIsLeast
    <3> QED BY ZenonT(40), <3>2
  <2>2. near \in SUBSET (0 .. L)  BY <1>0
  <2> DEFINE x == Max(near)
  <2>3. x \in near
    <3> HIDE DEF near
    <3> QED BY <2>1, <2>2, <1>0, MaxIsGreatest
  <2> HIDE DEF x
  <2>4. x \in 1 .. L /\ P(x) > P(i) /\ P(x) >= E(i) /\ \A k \in after : P(x) <= P(k)  BY <2>3
  <2>5. P(x) # 0  BY <2>4, <1>0, <1>1
  <2>6. PICK j \in 1 .. L : E(j) = P(x)  BY <2>4, <2>5, <1>3
  <2>7. j = i
    <3> SUFFICES ASSUME j # i PROVE FALSE  OBVIOUS
    <3>1. E(i) <= P(j) \/ E(j) <= P(i)  BY <1>0, <1>2
    <3>2. CASE E(j) <= P(i)  BY <3>2, <2>4, <2>6, <1>0, <1>1
    <3>3. CASE E(i) <= P(j)
      <4>1. P(j) > P(i) /\ P(j) >= E(i)  BY <3>3, <1>0, <1>1
      <4>2. P(x) <= P(j)  BY <4>1, <2>4
      <4> QED BY <4>2, <2>4, <2>6, <1>1
    <3> QED BY <3>1, <3>2, <3>3
  <2>8. NextOf(ds, i) = x  BY <1>4, <1>6 DEF x
  <2>9. x \in 0 .. Len(ds) /\ x # 0 /\ ds[x].ptr = End(ds[i])  BY <2>4, <2>6, <2>7, <1>0 DEF P, E, L
  <2> QED BY <2>8, <2>9
<1> QED BY <1>5, <1>6

\* fixmdarray repairs every link but that of the newest descriptor.
LEMMA FixKeeps ==
  ASSUME NEW ds, NEW m, Loose(ds), Filled(ds, m)
  PROVE  DescsOK(fixmdarray(ds), m) /\ Like(ds, fixmdarray(ds))
<1> DEFINE L == Len(ds)
           es == fixmdarray(ds)
<1>0. ds \in Seq(Desc) /\ L \in Nat  BY LenProperties DEF Loose, Linkable
<1>1. Linkable(ds) /\ Apart(ds) /\ Based(ds) /\ (L > 0 => LinkOK(ds, L))  BY DEF Loose
<1>2. CASE L < 2
  <2>1. es = ds  BY <1>2 DEF fixmdarray
  <2>2. Links(ds)
    <3>1. ASSUME NEW i \in 1 .. L PROVE LinkOK(ds, i)
      <4>1. i = L /\ L > 0  BY <1>0, <1>2
      <4> QED BY <4>1, <1>1
    <3> QED BY <3>1 DEF Links
  <2>3. Like(ds, ds)  BY <1>0 DEF Like
  <2> HIDE DEF es
  <2> QED BY <2>1, <2>2, <2>3, <1>1 DEF DescsOK, es
<1>3. CASE ~(L < 2)
  <2> DEFINE fixed == [i \in 1 .. L - 1 |-> [ds[i] EXCEPT !.next = NextOf(ds, i)]]
  <2>1. es = Append(fixed, ds[L])  BY <1>3 DEF fixmdarray
  <2>2. L - 1 \in Nat /\ L - 1 + 1 = L /\ L \in 1 .. L  BY <1>0, <1>3
  <2>3. ASSUME NEW i \in 1 .. L - 1
        PROVE  /\ fixed[i] \in Desc /\ fixed[i].ptr = ds[i].ptr /\ fixed[i].nbytes = ds[i].nbytes
               /\ fixed[i].next = NextOf(ds, i)
    <3>1. i \in 1 .. L  BY <1>0
    <3>2. ds[i] \in Desc  BY <3>1, <1>0, DescType
    <3>3. NextOf(ds, i) \in Nat  BY <3>1, <1>0, <1>1, NextAdjacent
    <3>4. fixed[i] = [ds[i] EXCEPT !.next = NextOf(ds, i)]  OBVIOUS
    <3> HIDE DEF fixed
    <3> QED BY <3>2, <3>3, <3>4 DEF Desc
  <2>4. fixed \in Seq(Desc) /\ Len(fixed) = L - 1
    <3>1. fixed \in [1 .. L - 1 -> Desc]  BY <2>3
    <3> HIDE DEF fixed, L
    <3> QED BY <3>1, <2>2, FunIsSeq
  <2>5. ds[L] \in Desc  BY <2>2, <1>0, DescType
  <2> HIDE DEF fixed
  <2>6. /\ es \in Seq(Desc) /\ Len(es) = L /\ es[L] = ds[L]
        /\ \A i \in 1 .. L - 1 : es[i] = fixed[i]
    <3> HIDE DEF L, es
    <3> QED BY <2>1, <2>2, <2>4, <2>5, <1>0, AppendAt
  <2> HIDE DEF es
  <2>7. \A i \in 1 .. L : i = L \/ i \in 1 .. L - 1  BY <1>0
  <2>8. Like(ds, es)  BY <2>3, <2>6, <2>7 DEF Like
  <2>9. /\ \A i \in 1 .. L : End(es[i]) = End(ds[i])
        /\ Apart(es) /\ Based(es) /\ Filled(es, m)
    BY <2>8, <1>0, <1>1, LikeKeeps
  <2>10. \A i \in 1 .. L : es[i].ptr = ds[i].ptr  BY <2>8 DEF Like
  <2>11. ASSUME NEW i \in 1 .. L PROVE es[i].next \in 0 .. L /\ LinkOK(es, i)
    <3>1. CASE i = L
      <4>1. es[i].next = ds[i].next /\ ds[i].next \in 0 .. L /\ LinkOK(ds, i) /\ End(es[i]) = End(ds[i])
        BY <3>1, <2>2, <2>6, <1>0, <1>1, <1>3 DEF Linkable
      <4>2. ds[i].next # 0 => ds[i].next \in 1 .. L  BY <4>1, <1>0
      <4> QED BY <4>1, <4>2, <2>6, <2>10 DEF LinkOK
    <3>2. CASE i \in 1 .. L - 1
      <4>1. es[i].next = NextOf(ds, i)  BY <3>2, <2>3, <2>6
      <4>2. /\ NextOf(ds, i) \in 0 .. L
            /\ NextOf(ds, i) = 0 => \A j \in 1 .. L : ds[j].ptr <= ds[i].ptr
            /\ NextOf(ds, i) # 0 => ds[NextOf(ds, i)].ptr = End(ds[i])
        BY <1>0, <1>1, NextAdjacent
      <4>3. NextOf(ds, i) # 0 => NextOf(ds, i) \in 1 .. L  BY <4>2, <1>0
      <4>4. End(es[i]) = End(ds[i])  BY <2>9
      <4> QED BY <4>1, <4>2, <4>3, <4>4, <2>6, <2>10 DEF LinkOK
    <3> QED BY <3>1, <3>2, <2>7
  <2>12. Linkable(es) /\ Links(es)  BY <2>6, <2>11 DEF Linkable, Links
  <2> QED BY <2>8, <2>9, <2>12 DEF DescsOK, es
<1> QED BY <1>2, <1>3

----------------------------------------------------------------------------
(* New descriptors.                                                        *)

\* A pool with an unsplit tiling grows by a descriptor behind all others.
LEMMA GrowKeeps ==
  ASSUME NEW ds, NEW m \in Nat, DescsOK(ds, m), NEW bs, Like(ds, bs), NEW d \in Desc, d.next = 0,
         NEW f, Adds(f, ds), f[Len(ds)] + d.nbytes <= m, 0 <= d.ptr, d.ptr <= f[Len(ds)],
         \A i \in 1 .. Len(ds) : End(ds[i]) <= d.ptr,
         d.ptr = 0 \/ \E j \in 1 .. Len(ds) : End(ds[j]) = d.ptr,
         \A i \in 1 .. Len(ds) :
             \/ bs[i].next = Len(ds) + 1 /\ End(ds[i]) = d.ptr
             \/ bs[i].next \in 1 .. Len(ds) /\ ds[bs[i].next].ptr = End(ds[i])
  PROVE  DescsOK(Append(bs, d), m)
<1> DEFINE L == Len(ds)
           es == Append(bs, d)
<1>0. ds \in Seq(Desc) /\ L \in Nat /\ bs \in Seq(Desc) /\ Len(bs) = L
  BY LenProperties DEF DescsOK, Linkable, Like
<1>a. d.ptr \in Nat /\ d.nbytes \in Nat \ {0}  BY DEF Desc
<1>1. /\ es \in Seq(Desc) /\ Len(es) = L + 1 /\ es[L + 1] = d
      /\ \A i \in 1 .. L : es[i] = bs[i]
  <2> HIDE DEF es
  <2>1. L + 1 \in Nat /\ Len(bs) + 1 = L + 1  BY <1>0
  <2> QED BY <2>1, <1>0, AppendAt DEF es
<1> HIDE DEF es
<1>2. \A i \in 1 .. L : es[i].ptr = ds[i].ptr /\ End(es[i]) = End(ds[i])
  <2>1. \A i \in 1 .. L : bs[i].ptr = ds[i].ptr  BY DEF Like
  <2>2. \A i \in 1 .. L : End(bs[i]) = End(ds[i])  BY <1>0, LikeKeeps
  <2> QED BY <2>1, <2>2, <1>1
<1>3. \A i \in 1 .. L : ds[i].ptr \in Nat /\ End(ds[i]) \in Nat /\ ds[i].ptr < End(ds[i])
  BY <1>0, DescType
<1>4. End(es[L + 1]) = d.ptr + d.nbytes /\ es[L + 1].ptr = d.ptr  BY <1>1 DEF End
<1>5. \A i \in 1 .. L + 1 : i = L + 1 \/ i \in 1 .. L  BY <1>0
<1>6. Apart(es)
  <2>1. ASSUME NEW i \in 1 .. L + 1, NEW j \in 1 .. L + 1, i # j
        PROVE  End(es[i]) <= es[j].ptr \/ End(es[j]) <= es[i].ptr
    <3>1. CASE i = L + 1
      <4>1. j \in 1 .. L  BY <2>1, <3>1, <1>5
      <4> QED BY <4>1, <3>1, <1>2, <1>4
    <3>2. CASE j = L + 1
      <4>1. i \in 1 .. L  BY <2>1, <3>2, <1>5
      <4> QED BY <4>1, <3>2, <1>2, <1>4
    <3>3. CASE i \in 1 .. L /\ j \in 1 .. L
      BY <2>1, <3>3, <1>2 DEF DescsOK, Apart
    <3> QED BY <3>1, <3>2, <3>3, <1>5
  <2> QED BY <2>1, <1>1 DEF Apart
<1>7. Based(es)
  <2>1. ASSUME NEW i \in 1 .. L + 1
        PROVE  es[i].ptr = 0 \/ \E j \in 1 .. L : End(es[j]) = es[i].ptr
    <3>1. CASE i = L + 1  BY <3>1, <1>2, <1>4
    <3>2. CASE i \in 1 .. L  BY <3>2, <1>2 DEF DescsOK, Based
    <3> QED BY <3>1, <3>2, <1>5
  <2>2. 1 .. L \subseteq 1 .. L + 1  BY <1>0
  <2> QED BY <2>1, <2>2, <1>1 DEF Based
<1>8. ASSUME NEW i \in 1 .. L + 1 PROVE es[i].next \in 0 .. L + 1 /\ LinkOK(es, i)
  <2>1. CASE i = L + 1
    <3>1. es[i].next = 0 /\ es[i].ptr = d.ptr  BY <2>1, <1>1
    <3>2. ASSUME NEW j \in 1 .. L + 1 PROVE es[j].ptr <= d.ptr
      <4>1. CASE j = L + 1  BY <4>1, <1>4, <1>a
      <4>2. CASE j \in 1 .. L
        <5>1. End(ds[j]) <= d.ptr /\ es[j].ptr = ds[j].ptr  BY <4>2, <1>2
        <5>2. ds[j].ptr \in Nat /\ End(ds[j]) \in Nat /\ ds[j].ptr < End(ds[j])  BY <4>2, <1>3
        <5> QED BY <5>1, <5>2, <1>a
      <4> QED BY <4>1, <4>2, <1>5
    <3> QED BY <3>1, <3>2, <1>0, <1>1 DEF LinkOK
  <2>2. CASE i \in 1 .. L
    <3>1. es[i].next = bs[i].next /\ End(es[i]) = End(ds[i])  BY <2>2, <1>1, <1>2
    <3>2. CASE bs[i].next = L + 1 /\ End(ds[i]) = d.ptr
      <4>1. es[i].next = L + 1 /\ L + 1 # 0 /\ L + 1 \in 0 .. L + 1  BY <3>1, <3>2, <1>0
      <4> QED BY <4>1, <3>1, <3>2, <1>4 DEF LinkOK
    <3>3. CASE bs[i].next \in 1 .. L /\ ds[bs[i].next].ptr = End(ds[i])
      <4>1. es[i].next \in 1 .. L /\ es[i].next \in 0 .. L + 1 /\ es[i].next # 0
        BY <3>1, <3>3, <1>0
      <4>2. es[es[i].next].ptr = End(es[i])  BY <4>1, <3>1, <3>3, <1>2
      <4> QED BY <4>1, <4>2 DEF LinkOK
    <3> QED BY <2>2, <3>2, <3>3
  <2> QED BY <2>1, <2>2, <1>5
<1>9. Linkable(es) /\ Links(es)  BY <1>1, <1>8 DEF Linkable, Links
<1>10. Filled(es, m)
  <2>1. Adds(f, bs)  BY DEF Adds, Like
  <2>2. PICK g : Adds(g, es) /\ g[L + 1] = f[L] + d.nbytes
    BY <2>1, <1>0, AddsAppend DEF es
  <2>3. f[L] \in Int
    <3>1. L \in 0 .. L  BY <1>0
    <3> QED BY <3>1 DEF Adds
  <2>4. ASSUME NEW i \in 1 .. L + 1 PROVE End(es[i]) <= g[L + 1]
    <3>1. CASE i = L + 1  BY <3>1, <2>2, <2>3, <1>4, <1>a
    <3>2. CASE i \in 1 .. L
      <4>1. End(es[i]) = End(ds[i]) /\ End(ds[i]) <= d.ptr /\ End(ds[i]) \in Nat
        BY <3>2, <1>2, <1>3
      <4> QED BY <4>1, <2>2, <2>3, <1>a
    <3> QED BY <3>1, <3>2, <1>5
  <2>5. g[L + 1] >= 0 /\ g[L + 1] <= m  BY <2>2, <2>3, <1>a
  <2> QED BY <2>2, <2>4, <2>5, <1>1 DEF Filled
<1> QED BY <1>6, <1>7, <1>9, <1>10 DEF DescsOK, es

\* allocatedesc, when its test says that the pool has room.
LEMMA AllocKeeps ==
  ASSUME NEW ds, NEW m \in Nat, DescsOK(ds, m), NEW n \in Nat \ {0},
         m >= memusedsize(ds) + n
  PROVE  LET es == allocatedesc(ds, n)
         IN  /\ DescsOK(es, m) /\ Len(es) = Len(ds) + 1
             /\ \A i \in 1 .. Len(ds) : es[i].ptr = ds[i].ptr
             /\ es[Len(ds) + 1].nbytes = n
<1> DEFINE L == Len(ds)
           es == allocatedesc(ds, n)
<1>0. ds \in Seq(Desc) /\ L \in Nat
  BY LenProperties DEF DescsOK, Linkable
<1>1. PICK f : /\ Adds(f, ds) /\ f[L] >= 0 /\ \A i \in 1 .. L : End(ds[i]) <= f[L]
  BY DEF DescsOK, Filled
<1>2. memusedsize(ds) = f[L]  BY <1>1, UsedIsSum DEF DescsOK
<1>3. f[L] \in Int
  <2>1. L \in 0 .. L  BY <1>0
  <2> QED BY <2>1, <1>1 DEF Adds
<1>4. f[L] + n <= m  BY <1>0, <1>2, <1>3
<1> DEFINE D(p) == [ptr |-> p, nbytes |-> n, next |-> 0, used |-> FALSE]
<1>5. ASSUME NEW p \in Nat
      PROVE  D(p) \in Desc /\ D(p).ptr = p /\ D(p).nbytes = n /\ D(p).next = 0
  BY DEF Desc
<1>6. ASSUME NEW bs, Like(ds, bs), NEW p \in Nat, es = Append(bs, D(p)), DescsOK(es, m)
      PROVE  /\ DescsOK(es, m) /\ Len(es) = L + 1
             /\ \A i \in 1 .. L : es[i].ptr = ds[i].ptr
             /\ es[L + 1].nbytes = n
  <2>1. bs \in Seq(Desc) /\ Len(bs) = L /\ \A i \in 1 .. L : bs[i].ptr = ds[i].ptr
    BY <1>6 DEF Like
  <2>2. D(p) \in Desc /\ D(p).nbytes = n  BY <1>5
  <2> HIDE DEF es, D, L
  <2>3. L + 1 \in Nat /\ Len(bs) + 1 = L + 1  BY <2>1, <1>0
  <2>4. /\ Append(bs, D(p)) \in Seq(Desc) /\ Len(Append(bs, D(p))) = L + 1
        /\ Append(bs, D(p))[L + 1] = D(p)
        /\ \A i \in 1 .. Len(bs) : Append(bs, D(p))[i] = bs[i]
    BY <2>1, <2>2, <2>3, AppendAt
  <2> QED BY <2>1, <2>2, <2>4, <1>6
<1>7. CASE ds = <<>>
  <2>1. es = Append(ds, D(0))  BY <1>7 DEF allocatedesc
  <2>2. L = 0 /\ 1 .. L = {}  BY <1>7
  <2>3. Like(ds, ds)  BY <1>0 DEF Like
  <2>4. D(0) \in Desc /\ D(0).ptr = 0 /\ D(0).nbytes = n /\ D(0).next = 0  BY <1>5
  <2> HIDE DEF D, es
  <2>5. DescsOK(Append(ds, D(0)), m)
    <3>1. PICK d : d = D(0)  OBVIOUS
    <3>2. d \in Desc /\ d.ptr = 0 /\ d.nbytes = n /\ d.next = 0  BY <3>1, <2>4
    <3>3. f[L] + d.nbytes <= m /\ 0 <= d.ptr /\ d.ptr <= f[L]  BY <3>2, <1>1, <1>3, <1>4
    <3>4. /\ \A i \in 1 .. L : End(ds[i]) <= d.ptr
          /\ \A i \in 1 .. L :
                \/ ds[i].next = L + 1 /\ End(ds[i]) = d.ptr
                \/ ds[i].next \in 1 .. L /\ ds[ds[i].next].ptr = End(ds[i])
      BY <2>2
    <3>5. DescsOK(Append(ds, d), m)  BY <2>3, <3>2, <3>3, <3>4, <1>1, GrowKeeps
    <3> QED BY <3>1, <3>5
  <2>6. DescsOK(es, m)  BY <2>1, <2>5
  <2> QED BY <2>1, <2>3, <2>6, <1>6 DEF es
<1>8. CASE ds # <<>>
  <2> DEFINE t == chaintip(ds)
             p == ds[t].ptr + ds[t].nbytes
             bs == [ds EXCEPT ![t].next = L + 1]
  <2>1. /\ t \in 1 .. L /\ ds[t].next = 0
        /\ \A i \in 1 .. L : End(ds[i]) <= End(ds[t])
        /\ \A i \in 1 .. L : i # t => ds[i].next # 0
    BY <1>8, ChainTip
  <2>2. es = Append(bs, D(p))  BY <1>8 DEF allocatedesc
  <2> HIDE DEF t
  <2>3. p = End(ds[t]) /\ p \in Nat  BY <2>1, <1>0, DescType DEF End
  <2>4. /\ bs \in Seq(Desc) /\ Len(bs) = L
        /\ \A i \in 1 .. L : bs[i].ptr = ds[i].ptr /\ bs[i].nbytes = ds[i].nbytes
        /\ bs[t].next = L + 1 /\ \A i \in 1 .. L : i # t => bs[i].next = ds[i].next
    <3>1. bs = [ds EXCEPT ![t] = [ds[t] EXCEPT !.next = L + 1]]  OBVIOUS
    <3> DEFINE e == [ds[t] EXCEPT !.next = L + 1]
    <3>2. ds[t] \in Desc /\ L + 1 \in Nat  BY <2>1, <1>0, DescType
    <3>3. e \in Desc /\ e.ptr = ds[t].ptr /\ e.nbytes = ds[t].nbytes /\ e.next = L + 1
      BY <3>2 DEF Desc
    <3> HIDE DEF e, bs
    <3>4. bs \in Seq(Desc) /\ Len(bs) = Len(ds) /\ \A i \in 1 .. L : bs[i] = IF i = t THEN e ELSE ds[i]
      BY <3>1, <3>3, <2>1, <1>0, ExceptSeq DEF e
    <3> QED BY <3>3, <3>4, <2>1
  <2>5. Like(ds, bs)  BY <2>4 DEF Like
  <2> HIDE DEF bs, p
  <2>6. ASSUME NEW i \in 1 .. L
        PROVE  \/ bs[i].next = L + 1 /\ End(ds[i]) = p
               \/ bs[i].next \in 1 .. L /\ ds[bs[i].next].ptr = End(ds[i])
    <3>1. CASE i = t  BY <3>1, <2>3, <2>4
    <3>2. CASE i # t
      <4>1. ds[i].next # 0 /\ bs[i].next = ds[i].next  BY <3>2, <2>1, <2>4
      <4>2. LinkOK(ds, i) /\ Linkable(ds)  BY DEF DescsOK, Links
      <4>3. ds[i].next \in 1 .. L  BY <4>1, <4>2, LinkUp
      <4> QED BY <4>1, <4>2, <4>3 DEF LinkOK
    <3> QED BY <3>1, <3>2
  <2>7. p <= f[L] /\ 0 <= p  BY <2>1, <2>3, <1>1
  <2>8. D(p) \in Desc /\ D(p).ptr = p /\ D(p).nbytes = n /\ D(p).next = 0  BY <2>3, <1>5
  <2> HIDE DEF D, es
  <2>9. DescsOK(Append(bs, D(p)), m)
    BY <2>1, <2>3, <2>5, <2>6, <2>7, <2>8, <1>1, <1>4, GrowKeeps
  <2>10. DescsOK(es, m)  BY <2>2, <2>9
  <2> QED BY <2>2, <2>3, <2>5, <2>10, <1>6 DEF es
<1> QED BY <1>7, <1>8

\* fragmemory: the two parts of a descriptor tile what it tiled, and fixmdarray
\* repairs the link that fragmemory sets to the oldest descriptor.
LEMMA FragKeeps ==
  ASSUME NEW ds, NEW m, DescsOK(ds, m), NEW k \in 1 .. Len(ds), NEW n \in Nat \ {0},
         n < ds[k].nbytes
  PROVE  LET es == fragmemory(ds, k, n)
         IN  /\ DescsOK(es, m) /\ Len(es) = Len(ds) + 1
             /\ \A i \in 1 .. Len(ds) : es[i].ptr = ds[i].ptr
             /\ es[k].nbytes = n
<1> DEFINE L == Len(ds)
           d == [ptr |-> ds[k].ptr + n, nbytes |-> ds[k].nbytes - n, next |-> ds[k].next, used |-> FALSE]
           e == [ds[k] EXCEPT !.nbytes = n, !.next = 1]
           bs == [ds EXCEPT ![k] = e]
           es == Append(bs, d)
<1>0. ds \in Seq(Desc) /\ L \in Nat /\ k \in 1 .. L  BY LenProperties DEF DescsOK, Linkable
<1>a. fragmemory(ds, k, n) = fixmdarray(es)  BY DEF fragmemory
<1>b. /\ ds[k] \in Desc /\ ds[k].ptr \in Nat /\ ds[k].nbytes \in Nat \ {0} /\ ds[k].next \in Nat
      /\ ds[k].nbytes - n \in Nat \ {0} /\ ds[k].ptr + n \in Nat
  <2>1. ds[k] \in Desc /\ ds[k].ptr \in Nat /\ ds[k].nbytes \in Nat \ {0} /\ ds[k].next \in Nat
    BY <1>0, DescType
  <2> QED BY <2>1
<1>1. /\ d \in Desc /\ d.ptr = ds[k].ptr + n /\ d.nbytes = ds[k].nbytes - n /\ d.next = ds[k].next
  BY <1>b DEF Desc
<1>2. e \in Desc /\ e.ptr = ds[k].ptr /\ e.nbytes = n /\ e.next = 1  BY <1>b DEF Desc
<1> HIDE DEF d, e
<1>3. bs \in Seq(Desc) /\ Len(bs) = L /\ \A i \in 1 .. L : bs[i] = IF i = k THEN e ELSE ds[i]
  BY <1>0, <1>2, ExceptSeq
<1> HIDE DEF bs
<1>4. /\ es \in Seq(Desc) /\ Len(es) = L + 1 /\ es[L + 1] = d
      /\ \A i \in 1 .. L : es[i] = IF i = k THEN e ELSE ds[i]
  <2>1. L + 1 \in Nat /\ Len(bs) + 1 = L + 1  BY <1>0, <1>3
  <2> HIDE DEF L
  <2> QED BY <2>1, <1>1, <1>3, AppendAt
<1> HIDE DEF es
<1> DEFINE P(i) == ds[i].ptr
           E(i) == End(ds[i])
           Q(i) == es[i].ptr
           F(i) == End(es[i])
<1>5. \A i \in 1 .. L : P(i) \in Nat /\ E(i) \in Nat /\ P(i) < E(i)  BY <1>0, DescType
<1>6. P(k) + n < E(k)  BY <1>b DEF End
<1>7. \A i \in 1 .. L : Q(i) = P(i) /\ (i # k => F(i) = E(i))  BY <1>2, <1>4
<1>8. F(k) = P(k) + n /\ Q(L + 1) = P(k) + n  BY <1>0, <1>1, <1>2, <1>4 DEF End
<1>9. F(L + 1) = E(k)
  <2>1. F(L + 1) = (ds[k].ptr + n) + (ds[k].nbytes - n)  BY <1>1, <1>4 DEF End
  <2>2. \A x, y \in Nat : (x + n) + (y - n) = x + y  OBVIOUS
  <2> QED BY <2>1, <2>2, <1>b DEF End
<1>10. \A i \in 1 .. L + 1 : i = L + 1 \/ i \in 1 .. L  BY <1>0
<1>11. \A i, j \in 1 .. L : i # j => E(i) <= P(j) \/ E(j) <= P(i)  BY DEF DescsOK, Apart
<1>12. \A i \in 1 .. L : P(i) = 0 \/ \E j \in 1 .. L : E(j) = P(i)  BY DEF DescsOK, Based
<1>13. /\ ds[k].next \in 0 .. L
       /\ IF ds[k].next = 0 THEN \A j \in 1 .. L : P(j) <= P(k) ELSE P(ds[k].next) = E(k)
  BY DEF DescsOK, Linkable, Links, LinkOK
<1>14. Linkable(es)
  <2>1. ASSUME NEW i \in 1 .. L + 1 PROVE es[i].next \in 0 .. L + 1
    <3>1. CASE i = L + 1  BY <3>1, <1>0, <1>1, <1>4, <1>13
    <3>2. CASE i = k  BY <3>2, <1>0, <1>2, <1>4
    <3>3. CASE i \in 1 .. L /\ i # k
      <4>1. es[i].next = ds[i].next /\ ds[i].next \in 0 .. L
        BY <3>3, <1>4 DEF DescsOK, Linkable
      <4> QED BY <4>1, <1>0
    <3> QED BY <3>1, <3>2, <3>3, <1>10
  <2> QED BY <2>1, <1>4 DEF Linkable
<1> HIDE DEF P, E, Q, F
<1>15. ASSUME NEW i \in 1 .. L
       PROVE  /\ Q(L + 1) >= F(i) \/ F(L + 1) <= Q(i)
              /\ \A j \in 1 .. L : i # j => F(i) <= Q(j) \/ F(j) <= Q(i)
  <2>1. F(i) <= E(i) /\ F(i) \in Nat
    <3>1. CASE i = k  BY <3>1, <1>0, <1>5, <1>6, <1>8
    <3>2. CASE i # k  BY <3>2, <1>5, <1>7
    <3> QED BY <3>1, <3>2
  <2>2. ASSUME NEW j \in 1 .. L, i # j PROVE F(i) <= Q(j) \/ F(j) <= Q(i)
    <3>1. F(j) <= E(j) /\ F(j) \in Nat
      <4>1. CASE j = k  BY <4>1, <1>0, <1>5, <1>6, <1>8
      <4>2. CASE j # k  BY <4>2, <1>5, <1>7
      <4> QED BY <4>1, <4>2
    <3>2. E(i) <= P(j) \/ E(j) <= P(i)  BY <2>2, <1>11
    <3>3. Q(i) = P(i) /\ Q(j) = P(j)  BY <1>7
    <3> QED BY <2>1, <3>1, <3>2, <3>3, <1>5
  <2>3. Q(L + 1) >= F(i) \/ F(L + 1) <= Q(i)
    <3>1. CASE i = k  BY <3>1, <1>0, <1>5, <1>8
    <3>2. CASE i # k
      <4>1. E(i) <= P(k) \/ E(k) <= P(i)  BY <3>2, <1>0, <1>11
      <4>2. F(i) = E(i) /\ Q(i) = P(i)  BY <3>2, <1>7
      <4> QED BY <4>1, <4>2, <1>0, <1>5, <1>8, <1>9
    <3> QED BY <3>1, <3>2
  <2> QED BY <2>2, <2>3
<1>16. Apart(es)
  <2>1. ASSUME NEW i \in 1 .. L + 1, NEW j \in 1 .. L + 1, i # j
        PROVE  F(i) <= Q(j) \/ F(j) <= Q(i)
    <3>1. CASE i = L + 1
      <4>1. j \in 1 .. L  BY <2>1, <3>1, <1>10
      <4>2. F(j) \in Nat /\ Q(L + 1) \in Nat  BY SMTT(30), <4>1, <1>0, <1>5, <1>7, <1>8
      <4> QED BY <4>1, <4>2, <3>1, <1>15
    <3>2. CASE j = L + 1
      <4>1. i \in 1 .. L  BY <2>1, <3>2, <1>10
      <4>2. F(i) \in Nat /\ Q(L + 1) \in Nat  BY <4>1, <1>0, <1>5, <1>7, <1>8
      <4> QED BY <4>1, <4>2, <3>2, <1>15
    <3>3. CASE i \in 1 .. L /\ j \in 1 .. L  BY <2>1, <3>3, <1>15
    <3> QED BY <3>1, <3>2, <3>3, <1>10
  <2> QED BY <2>1, <1>4 DEF Apart, F, Q
<1>17. Based(es)
  <2>1. ASSUME NEW i \in 1 .. L + 1
        PROVE  Q(i) = 0 \/ \E j \in 1 .. L + 1 : F(j) = Q(i)
    <3>0. L + 1 \in 1 .. L + 1 /\ \A j \in 1 .. L : j \in 1 .. L + 1  BY <1>0
    <3>1. CASE i = L + 1
      <4>1. F(k) = Q(i) /\ k \in 1 .. L + 1  BY <3>0, <3>1, <1>0, <1>8
      <4> QED BY <4>1
    <3>2. CASE i \in 1 .. L
      <4>1. Q(i) = P(i)  BY <3>2, <1>7
      <4>2. CASE P(i) = 0  BY <4>1, <4>2
      <4>3. CASE \E j \in 1 .. L : E(j) = P(i)
        <5>1. PICK j \in 1 .. L : E(j) = P(i)  BY <4>3
        <5>2. CASE j = k
          <6>1. F(L + 1) = Q(i)  BY <4>1, <5>1, <5>2, <1>9
          <6> QED BY <6>1, <3>0
        <5>3. CASE j # k
          <6>1. F(j) = Q(i) /\ j \in 1 .. L + 1  BY <3>0, <4>1, <5>1, <5>3, <1>7
          <6> QED BY <6>1
        <5> QED BY <5>2, <5>3
      <4> QED BY <3>2, <4>2, <4>3, <1>12
    <3> QED BY <3>1, <3>2, <1>10
  <2> QED BY <2>1, <1>4 DEF Based, F, Q
<1>18. LinkOK(es, L + 1)
  <2>1. es[L + 1].next = ds[k].next  BY <1>1, <1>4
  <2>2. CASE ds[k].next = 0
    <3>1. ASSUME NEW j \in 1 .. L + 1 PROVE Q(j) <= Q(L + 1)
      <4>1. CASE j = L + 1  BY <4>1, <1>0, <1>5, <1>8
      <4>2. CASE j \in 1 .. L
        <5>1. P(j) <= P(k) /\ Q(j) = P(j)  BY <4>2, <2>2, <1>7, <1>13
        <5> QED BY <5>1, <4>2, <1>0, <1>5, <1>8
      <4> QED BY <4>1, <4>2, <1>10
    <3> QED BY <3>1, <2>1, <2>2, <1>4 DEF LinkOK, Q
  <2>3. CASE ds[k].next # 0
    <3>1. ds[k].next \in 1 .. L  BY <2>3, <1>0, <1>13
    <3>2. Q(ds[k].next) = F(L + 1)  BY <3>1, <2>3, <1>7, <1>9, <1>13
    <3> QED BY <3>2, <2>1, <2>3 DEF LinkOK, Q, F
  <2> QED BY <2>2, <2>3
<1>19. Filled(es, m)
  <2>1. PICK f : /\ Adds(f, ds) /\ f[L] <= m /\ f[L] >= 0 /\ \A i \in 1 .. L : E(i) <= f[L]
    BY DEF DescsOK, Filled, E
  <2>2. f[L] \in Int
    <3>1. L \in 0 .. L  BY <1>0
    <3> QED BY <3>1, <2>1 DEF Adds
  <2>3. \A i \in 1 .. L : i # k => bs[i].nbytes = ds[i].nbytes  BY <1>3
  <2>4. bs[k].nbytes = n  BY <1>0, <1>2, <1>3
  <2>a. bs \in Seq(Desc) /\ Len(bs) = Len(ds) /\ k \in 1 .. Len(ds) /\ ds \in Seq(Desc)
    BY <1>0, <1>3
  <2>b. \E g : Adds(g, bs) /\ g[Len(bs)] = f[Len(ds)] - ds[k].nbytes + bs[k].nbytes
    BY <2>1, <2>3, <2>a, AddsChange
  <2>5. PICK g : Adds(g, bs) /\ g[Len(bs)] = f[L] - ds[k].nbytes + n  BY <2>4, <2>b
  <2>c. \E h : Adds(h, Append(bs, d)) /\ h[Len(bs) + 1] = g[Len(bs)] + d.nbytes
    BY <2>5, <2>a, <1>1, AddsAppend
  <2>6. PICK h : Adds(h, es) /\ h[L + 1] = (f[L] - ds[k].nbytes + n) + (ds[k].nbytes - n)
    BY <2>5, <2>a, <2>c, <1>1 DEF es
  <2>7. \A x, y \in Int : (x - y + n) + (y - n) = x  OBVIOUS
  <2>8. ds[k].nbytes \in Int  BY <1>b
  <2>9. h[L + 1] = f[L]  BY <2>2, <2>6, <2>7, <2>8
  <2>10. ASSUME NEW i \in 1 .. L + 1 PROVE F(i) <= f[L]
    <3>1. CASE i = L + 1  BY <3>1, <2>1, <1>0, <1>9
    <3>2. CASE i = k
      <4>1. E(k) <= f[L]  BY <2>1, <1>0
      <4> QED BY <4>1, <3>2, <2>2, <1>0, <1>5, <1>6, <1>8
    <3>3. CASE i \in 1 .. L /\ i # k  BY <3>3, <2>1, <1>7
    <3> QED BY <3>1, <3>2, <3>3, <1>10
  <2> QED BY <2>1, <2>6, <2>9, <2>10, <1>4 DEF Filled, F
<1>20. Loose(es)  BY <1>4, <1>14, <1>16, <1>17, <1>18 DEF Loose
<1>21. DescsOK(fixmdarray(es), m) /\ Like(es, fixmdarray(es))  BY <1>19, <1>20, FixKeeps
<1>22. /\ Len(fixmdarray(es)) = L + 1 /\ fixmdarray(es)[k].nbytes = n
       /\ \A i \in 1 .. L : fixmdarray(es)[i].ptr = ds[i].ptr
  <2>1. \A i \in 1 .. L : i \in 1 .. L + 1  BY <1>0
  <2>2. \A i \in 1 .. L : es[i].ptr = ds[i].ptr  BY <1>7 DEF Q, P
  <2>3. es[k].nbytes = n  BY <1>0, <1>2, <1>4
  <2> QED BY <2>1, <2>2, <2>3, <1>0, <1>4, <1>21 DEF Like
<1> QED BY <1>a, <1>21, <1>22

----------------------------------------------------------------------------
(* One pool's turn in mmalloc.                                             *)

\* The same blocks with the same links.
LEMMA SameLinks ==
  ASSUME NEW ds, NEW m, DescsOK(ds, m), NEW es, Like(ds, es),
         \A i \in 1 .. Len(ds) : es[i].next = ds[i].next
  PROVE  DescsOK(es, m)
<1> DEFINE L == Len(ds)
<1>0. ds \in Seq(Desc) /\ L \in Nat /\ es \in Seq(Desc) /\ Len(es) = L
  BY LenProperties DEF DescsOK, Linkable, Like
<1>1. /\ \A i \in 1 .. L : End(es[i]) = End(ds[i])
      /\ Apart(es) /\ Based(es) /\ Filled(es, m)
  BY <1>0, LikeKeeps DEF DescsOK
<1>2. \A i \in 1 .. L : es[i].ptr = ds[i].ptr  BY DEF Like
<1>3. ASSUME NEW i \in 1 .. L PROVE es[i].next \in 0 .. L /\ LinkOK(es, i)
  <2>1. es[i].next = ds[i].next /\ ds[i].next \in 0 .. L /\ LinkOK(ds, i)
    BY DEF DescsOK, Linkable, Links
  <2>2. ds[i].next # 0 => ds[i].next \in 1 .. L  BY <2>1, <1>0
  <2>3. End(es[i]) = End(ds[i])  BY <1>1
  <2> QED BY <2>1, <2>2, <2>3, <1>0, <1>2 DEF LinkOK
<1>4. Linkable(es) /\ Links(es)  BY <1>0, <1>3 DEF Linkable, Links
<1> QED BY <1>1, <1>4 DEF DescsOK

\* Changing the flag of one descriptor.
LEMMA FlagKeeps ==
  ASSUME NEW ds, NEW m, DescsOK(ds, m), NEW k \in 1 .. Len(ds), NEW e \in Desc,
         e.ptr = ds[k].ptr, e.nbytes = ds[k].nbytes, e.next = ds[k].next,
         NEW es, es = [ds EXCEPT ![k] = e]
  PROVE  DescsOK(es, m) /\ Like(ds, es)
<1>0. ds \in Seq(Desc)  BY DEF DescsOK, Linkable
<1>1. es \in Seq(Desc) /\ Len(es) = Len(ds) /\ \A i \in 1 .. Len(ds) : es[i] = IF i = k THEN e ELSE ds[i]
  BY <1>0, ExceptSeq
<1>2. Like(ds, es) /\ \A i \in 1 .. Len(ds) : es[i].next = ds[i].next  BY <1>1 DEF Like
<1>3. DescsOK(es, m)  BY <1>2, SameLinks
<1> QED BY <1>2, <1>3

\* A descriptor with another flag.
LEMMA FlagOf ==
  ASSUME NEW d \in Desc, NEW b \in BOOLEAN
  PROVE  LET e == [d EXCEPT !.used = b]
         IN  e \in Desc /\ e.ptr = d.ptr /\ e.nbytes = d.nbytes /\ e.next = d.next
BY DEF Desc

\* What a turn does to the descriptors: blocks stay where they begin.
Grows(ds, es) == Len(es) >= Len(ds) /\ \A i \in 1 .. Len(ds) : es[i].ptr = ds[i].ptr

\* Fixing the links of descriptors whose links are right.
LEMMA FixAgain ==
  ASSUME NEW ds, NEW m, DescsOK(ds, m)
  PROVE  DescsOK(fixmdarray(ds), m) /\ Like(ds, fixmdarray(ds))
<1>1. Len(ds) \in Nat  BY LenProperties DEF DescsOK, Linkable
<1>2. Len(ds) > 0 => Len(ds) \in 1 .. Len(ds)  BY <1>1
<1>3. Loose(ds)  BY <1>2 DEF DescsOK, Loose, Links
<1> QED BY <1>3, FixKeeps DEF DescsOK

\* Every descriptor that is marked.
LEMMA MarkKeeps ==
  ASSUME NEW ds, NEW m, DescsOK(ds, m), NEW k \in 1 .. Len(ds)
  PROVE  DescsOK(Mark(ds, k), m) /\ Like(ds, Mark(ds, k))
<1>1. ds \in Seq(Desc)  BY DEF DescsOK, Linkable
<1>2. ds[k].used \in BOOLEAN  BY <1>1, DescType
<1> DEFINE e == [ds[k] EXCEPT !.used = set(ds[k].used)]
<1>3. ds[k] \in Desc /\ set(ds[k].used) \in BOOLEAN  BY <1>1, <1>2, DescType DEF set
<1>4. e \in Desc /\ e.ptr = ds[k].ptr /\ e.nbytes = ds[k].nbytes /\ e.next = ds[k].next
  BY <1>3, FlagOf
<1>5. Mark(ds, k) = [ds EXCEPT ![k] = e]  BY DEF Mark
<1> HIDE DEF e
<1> QED BY <1>4, <1>5, FlagKeeps

\* Where the search of a pool succeeds, the descriptor is large enough.
Serves(ds, m, n, r) ==
    /\ DescsOK(r.descs, m) /\ Grows(ds, r.descs)
    /\ r.out \in 0 .. Len(r.descs)
    /\ r.out # 0 => r.descs[r.out].nbytes >= n

\* A descriptor of the right size is handed out as it is.
LEMMA ExactServes ==
  ASSUME NEW ds, NEW m, DescsOK(ds, m), NEW n \in Nat \ {0}, NEW k \in 1 .. Len(ds),
         ds[k].nbytes >= n
  PROVE  Serves(ds, m, n, [descs |-> Mark(ds, k), out |-> k])
<1>1. DescsOK(Mark(ds, k), m) /\ Like(ds, Mark(ds, k))  BY MarkKeeps
<1>2. Len(ds) \in Nat /\ Len(Mark(ds, k)) = Len(ds)  BY <1>1, LenProperties DEF DescsOK, Linkable, Like
<1>3. Grows(ds, Mark(ds, k))  BY <1>1, <1>2 DEF Like, Grows
<1>4. Mark(ds, k)[k].nbytes >= n /\ k \in 0 .. Len(Mark(ds, k))  BY <1>1, <1>2 DEF Like
<1> QED BY <1>1, <1>3, <1>4 DEF Serves

\* A larger one is split first if it is too large.
LEMMA CutServes ==
  ASSUME NEW ds, NEW m, DescsOK(ds, m), NEW n \in Nat \ {0}, NEW k \in 1 .. Len(ds),
         ds[k].nbytes >= n
  PROVE  Serves(ds, m, n, [descs |-> Mark(Cut(ds, k, n), k), out |-> k])
<1>0. ds \in Seq(Desc) /\ Len(ds) \in Nat  BY LenProperties DEF DescsOK, Linkable
<1>1. CASE ~TooLarge(ds[k].nbytes, n)
  <2>1. Cut(ds, k, n) = ds  BY <1>1 DEF Cut
  <2> QED BY <2>1, ExactServes
<1>2. CASE TooLarge(ds[k].nbytes, n)
  <2> DEFINE es == fragmemory(ds, k, n)
  <2>1. ds[k].nbytes \in Nat  BY <1>0, DescType
  <2>2. n < ds[k].nbytes
    <3>1. \A x \in Nat : 40 * x > 46 * n + 35 => n < x  OBVIOUS
    <3> QED BY <3>1, <2>1, <1>2 DEF TooLarge
  <2>3. /\ DescsOK(es, m) /\ Len(es) = Len(ds) + 1
        /\ \A i \in 1 .. Len(ds) : es[i].ptr = ds[i].ptr
        /\ es[k].nbytes = n
    BY <2>2, FragKeeps
  <2>4. Cut(ds, k, n) = es  BY <1>2 DEF Cut
  <2> HIDE DEF es
  <2>5. k \in 1 .. Len(es) /\ es[k].nbytes >= n  BY <2>3, <1>0
  <2>6. Serves(es, m, n, [descs |-> Mark(es, k), out |-> k])  BY <2>3, <2>5, ExactServes
  <2>7. Grows(ds, Mark(es, k))
    <3>1. Grows(es, Mark(es, k))  BY <2>6 DEF Serves
    <3>2. Len(Mark(es, k)) \in Nat  BY <2>6, LenProperties DEF Serves, DescsOK, Linkable
    <3>3. \A i \in 1 .. Len(ds) : i \in 1 .. Len(es)  BY <2>3, <1>0
    <3> QED BY <3>1, <3>2, <3>3, <2>3, <1>0 DEF Grows
  <2> QED BY <2>4, <2>6, <2>7 DEF Serves
<1> QED BY <1>1, <1>2

\* A new one, when allocatedesc's test says that there is room.
LEMMA NewServes ==
  ASSUME NEW ds, NEW m \in Nat, DescsOK(ds, m), NEW n \in Nat \ {0},
         m >= memusedsize(ds) + n
  PROVE  Serves(ds, m, n, [descs |-> Mark(allocatedesc(ds, n), Len(ds) + 1), out |-> Len(ds) + 1])
<1> DEFINE es == allocatedesc(ds, n)
           k == Len(ds) + 1
<1>0. ds \in Seq(Desc) /\ Len(ds) \in Nat  BY LenProperties DEF DescsOK, Linkable
<1>1. /\ DescsOK(es, m) /\ Len(es) = k
      /\ \A i \in 1 .. Len(ds) : es[i].ptr = ds[i].ptr
      /\ es[k].nbytes = n
  BY AllocKeeps
<1> HIDE DEF es
<1>2. k \in 1 .. Len(es) /\ es[k].nbytes >= n  BY <1>0, <1>1
<1>3. Serves(es, m, n, [descs |-> Mark(es, k), out |-> k])  BY <1>1, <1>2, ExactServes
<1>4. Grows(ds, Mark(es, k))
  <2>1. Grows(es, Mark(es, k))  BY <1>3 DEF Serves
  <2>2. Len(Mark(es, k)) \in Nat  BY <1>3, LenProperties DEF Serves, DescsOK, Linkable
  <2>3. \A i \in 1 .. Len(ds) : i \in 1 .. Len(es)  BY <1>0, <1>1
  <2> QED BY <2>1, <2>2, <2>3, <1>0, <1>1 DEF Grows
<1> QED BY <1>3, <1>4 DEF Serves, es

\* allocatedesc keeps one descriptor's room free behind the blocks.
Room(p) == p.size - DescUnits

PoolOK(p) ==
    /\ p \in [size : Nat, descs : Seq(Desc)] /\ p.size >= DescUnits
    /\ DescsOK(p.descs, Room(p))

\* The room of a pool is a size.
LEMMA RoomIsNat ==
  ASSUME NEW p, PoolOK(p)
  PROVE  Room(p) \in Nat
<1>1. p.size \in Nat /\ DescUnits \in Nat /\ p.size >= DescUnits
  BY PoolAssumption DEF PoolOK
<1> QED BY <1>1 DEF Room

\* memusedsize is a number.
LEMMA UsedIsInt ==
  ASSUME NEW ds, NEW m, DescsOK(ds, m)
  PROVE  memusedsize(ds) \in Int
<1>1. PICK f : Adds(f, ds)  BY DEF DescsOK, Filled
<1>2. Len(ds) \in 0 .. Len(ds)  BY LenProperties DEF DescsOK, Linkable
<1>3. f[Len(ds)] \in Int  BY <1>1, <1>2 DEF Adds
<1> QED BY <1>1, <1>3, UsedIsSum DEF DescsOK

\* What is found for the same blocks is found for these.
LEMMA LikeServes ==
  ASSUME NEW ds, NEW es, Like(ds, es), NEW m, NEW n, NEW r, Serves(es, m, n, r)
  PROVE  Serves(ds, m, n, r)
<1>1. Grows(ds, r.descs)  BY DEF Serves, Grows, Like
<1> QED BY <1>1 DEF Serves

\* The search in one pool, after the sweep.
LEMMA SearchServes ==
  ASSUME NEW p, PoolOK(p), NEW ds, DescsOK(ds, Room(p)), NEW n \in Nat \ {0}
  PROVE  Serves(ds, Room(p), n, SearchSwept(p, ds, n))
<1> DEFINE m == Room(p)
           q == querydescu(ds, n)
           u == Usable(ds, n)
           es == fusememory(ds, n, u)
<1>0. ds \in Seq(Desc) /\ Len(ds) \in Nat /\ DOMAIN ds = 1 .. Len(ds)
  BY LenProperties DEF DescsOK, Linkable
<1>a. m \in Nat  BY RoomIsNat
<1>1. q # 0 => q \in 1 .. Len(ds) /\ ds[q].nbytes = n
  <2> DEFINE S == {i \in DOMAIN ds : ~check(ds[i].used) /\ ds[i].nbytes = n}
  <2>1. S \in SUBSET (1 .. Len(ds))  BY <1>0
  <2>2. q = First(S)  BY DEF querydescu
  <2>3. First(S) # 0 => First(S) \in S
    <3> HIDE DEF S
    <3> QED BY <2>1, <1>0, FirstHit
  <2> QED BY <2>2, <2>3, <1>0
<1>2. u # 0 => u \in 1 .. Len(ds) /\ ds[u].nbytes >= n
  <2> DEFINE S == {i \in DOMAIN ds : ~check(ds[i].used) /\ ds[i].nbytes >= n}
  <2>1. S \in SUBSET (1 .. Len(ds))  BY <1>0
  <2>2. u = First(S)  BY DEF Usable
  <2>3. First(S) # 0 => First(S) \in S
    <3> HIDE DEF S
    <3> QED BY <2>1, <1>0, FirstHit
  <2> QED BY <2>2, <2>3, <1>0
<1>3. DescsOK(es, m) /\ Like(ds, es)
  <2>1. DescsOK(fixmdarray(ds), m) /\ Like(ds, fixmdarray(ds))  BY FixAgain
  <2>2. Like(ds, ds)  BY <1>0 DEF Like
  <2> QED BY <2>1, <2>2 DEF fusememory
<1>4. SearchSwept(p, ds, n) = IF q # 0 THEN [descs |-> Mark(ds, q), out |-> q]
                              ELSE LargerOrNew(p, es, u, n)
  BY DEF SearchSwept, Search
<1> HIDE DEF q, u, es, m
<1>5. CASE q # 0
  <2>1. ds[q].nbytes >= n  BY <1>1, <1>5
  <2> QED BY <2>1, <1>1, <1>4, <1>5, ExactServes DEF m
<1>6. CASE q = 0 /\ u # 0
  <2>1. u \in 1 .. Len(es) /\ es[u].nbytes >= n  BY <1>2, <1>3, <1>6 DEF Like
  <2>2. Serves(es, m, n, [descs |-> Mark(Cut(es, u, n), u), out |-> u])
    BY <2>1, <1>3, CutServes
  <2>3. SearchSwept(p, ds, n) = [descs |-> Mark(Cut(es, u, n), u), out |-> u]
    BY <1>4, <1>6 DEF LargerOrNew
  <2> QED BY <2>2, <2>3, <1>3, LikeServes DEF m
<1>7. CASE q = 0 /\ u = 0 /\ Fits([p EXCEPT !.descs = es], n)
  <2>1. m >= memusedsize(es) + n
    <3>1. [p EXCEPT !.descs = es].size = p.size /\ [p EXCEPT !.descs = es].descs = es
      BY DEF PoolOK
    <3>2. p.size >= memusedsize(es) + n + DescUnits  BY <3>1, <1>7 DEF Fits
    <3>3. p.size \in Nat /\ DescUnits \in Nat  BY PoolAssumption DEF PoolOK
    <3>4. memusedsize(es) \in Int  BY <1>3, UsedIsInt
    <3>5. \A s, d \in Nat, x \in Int : s >= x + n + d => s - d >= x + n  OBVIOUS
    <3>6. p.size - DescUnits >= memusedsize(es) + n  BY <3>2, <3>3, <3>4, <3>5
    <3> QED BY <3>6 DEF m, Room
  <2>2. Serves(es, m, n, [descs |-> Mark(allocatedesc(es, n), Len(es) + 1), out |-> Len(es) + 1])
    BY <2>1, <1>3, <1>a, NewServes
  <2>3. SearchSwept(p, ds, n) = [descs |-> Mark(allocatedesc(es, n), Len(es) + 1), out |-> Len(es) + 1]
    BY <1>4, <1>7 DEF LargerOrNew
  <2> QED BY <2>2, <2>3, <1>3, LikeServes DEF m
<1>8. CASE q = 0 /\ u = 0 /\ ~Fits([p EXCEPT !.descs = es], n)
  <2>1. SearchSwept(p, ds, n) = [descs |-> es, out |-> 0]  BY <1>4, <1>8 DEF LargerOrNew
  <2>2. Len(es) \in Nat /\ Len(es) = Len(ds)  BY <1>0, <1>3 DEF Like
  <2>3. Grows(ds, es)  BY <2>2, <1>3 DEF Like, Grows
  <2>4. 0 \in 0 .. Len(es)  BY <2>2
  <2> QED BY <2>1, <2>3, <2>4, <1>3 DEF Serves, m
<1> QED BY <1>5, <1>6, <1>7, <1>8

\* A pool's turn.
LEMMA TurnServes ==
  ASSUME NEW p, PoolOK(p), NEW t, NEW n \in Nat \ {0}
  PROVE  Serves(p.descs, Room(p), n, Turn(p, t, n))
<1> DEFINE ds == Swept(p.descs, t)
<1>1. DescsOK(p.descs, Room(p)) /\ p.descs \in Seq(Desc)  BY DEF PoolOK
<1>2. DescsOK(ds, Room(p)) /\ Like(p.descs, ds)
  <2>1. DescsOK(fixmdarray(p.descs), Room(p)) /\ Like(p.descs, fixmdarray(p.descs))
    BY <1>1, FixAgain
  <2>2. Like(p.descs, p.descs)  BY <1>1 DEF Like
  <2> QED BY <2>1, <2>2, <1>1 DEF Swept
<1> HIDE DEF ds
<1>3. Serves(ds, Room(p), n, SearchSwept(p, ds, n))  BY <1>2, SearchServes
<1>4. Turn(p, t, n) = SearchSwept(p, ds, n)  BY DEF Turn, ds
<1> QED BY <1>2, <1>3, <1>4, LikeServes

\* An empty pool is well formed.
LEMMA EmptyOK ==
  ASSUME NEW m \in Nat
  PROVE  DescsOK(<<>>, m)
<1>1. <<>> \in Seq(Desc) /\ Len(<<>>) = 0 /\ 1 .. Len(<<>>) = {}  OBVIOUS
<1> DEFINE f == [i \in 0 .. 0 |-> 0]
<1>2. f \in [0 .. 0 -> Int] /\ f[0] = 0  OBVIOUS
<1> HIDE DEF f
<1>3. Adds(f, <<>>)  BY <1>1, <1>2 DEF Adds
<1>4. Filled(<<>>, m)  BY <1>1, <1>2, <1>3 DEF Filled
<1> QED BY <1>1, <1>4 DEF DescsOK, Linkable, Apart, Based, Links

\* An empty pool with room for the block and one descriptor serves the request.
LEMMA EmptyServes ==
  ASSUME NEW p, PoolOK(p), p.descs = <<>>, NEW t, NEW n \in Nat \ {0},
         p.size >= n + DescUnits
  PROVE  Turn(p, t, n).out # 0
<1>1. Swept(p.descs, t) = <<>>  BY DEF Swept, fixmdarray
<1>2. DOMAIN <<>> = {}  OBVIOUS
<1>3. querydescu(<<>>, n) = 0 /\ Usable(<<>>, n) = 0  BY <1>2 DEF querydescu, Usable, First
<1>4. fusememory(<<>>, n, 0) = <<>>  BY <1>2 DEF fusememory
<1>5. Turn(p, t, n) = LargerOrNew(p, <<>>, 0, n)  BY <1>1, <1>3, <1>4 DEF Turn, SearchSwept, Search
<1>6. memusedsize(<<>>) = 0
  <2>1. DescsOK(<<>>, 0)  BY EmptyOK
  <2>2. PICK f : Adds(f, <<>>)  BY <2>1 DEF DescsOK, Filled
  <2>3. f[0] = 0 /\ Len(<<>>) = 0  BY <2>2 DEF Adds
  <2>4. memusedsize(<<>>) = f[Len(<<>>)]  BY <2>1, <2>2, UsedIsSum DEF DescsOK
  <2> QED BY <2>3, <2>4
<1>7. Fits([p EXCEPT !.descs = <<>>], n)
  <2>1. [p EXCEPT !.descs = <<>>].size = p.size /\ [p EXCEPT !.descs = <<>>].descs = <<>>
    BY DEF PoolOK
  <2>2. DescUnits \in Nat /\ p.size \in Nat  BY PoolAssumption DEF PoolOK
  <2>3. p.size >= 0 + n + DescUnits  BY <2>2
  <2> QED BY <2>1, <2>3, <1>6 DEF Fits
<1>8. Turn(p, t, n).out = Len(<<>>) + 1  BY <1>5, <1>7 DEF LargerOrNew
<1> QED BY <1>8

----------------------------------------------------------------------------
(* All pools.                                                              *)

Pool == [size : Nat, descs : Seq(Desc)]

PoolsOK(ps) == ps \in Seq(Pool) /\ \A k \in 1 .. Len(ps) : PoolOK(ps[k])

\* A block that was handed out begins where a descriptor of its pool begins.
BlockOK(ps, b) ==
    /\ b.pool \in 1 .. Len(ps)
    /\ b.ptr + b.n + DescUnits <= ps[b.pool].size
    /\ \E i \in 1 .. Len(ps[b.pool].descs) : ps[b.pool].descs[i].ptr = b.ptr

\* Pools keep their sizes, and their blocks stay where they begin.
PoolsGrow(ps, qs) ==
    /\ Len(qs) >= Len(ps)
    /\ \A k \in 1 .. Len(ps) : qs[k].size = ps[k].size /\ Grows(ps[k].descs, qs[k].descs)

\* Descriptors that were overwritten are descriptors of pools.
Written(ps, W) == \A x \in W : x[1] \in 1 .. Len(ps) /\ x[2] \in 1 .. Len(ps[x[1]].descs)

BlockType == [pool : Nat, ptr : Nat, n : Nat]

\* The invariant of the allocator.
PoolInv ==
    /\ array \in {"none", "ok", "lost"} /\ total \in Nat
    /\ PoolsOK(pools)
    /\ array = "none" => pools = <<>>
    /\ held \in [Holders -> BlockType]
    /\ \A h \in Holders : held[h] # None => BlockOK(pools, held[h])
    /\ Written(pools, overwritten)

\* Blocks stay valid while pools grow.
LEMMA BlockStays ==
  ASSUME NEW ps, PoolsOK(ps), NEW qs, PoolsOK(qs), PoolsGrow(ps, qs), NEW b, BlockOK(ps, b)
  PROVE  BlockOK(qs, b)
<1> DEFINE k == b.pool
<1>1. k \in 1 .. Len(ps) /\ Len(ps) \in Nat /\ Len(qs) \in Nat  BY LenProperties DEF BlockOK, PoolsOK
<1>2. k \in 1 .. Len(qs) /\ qs[k].size = ps[k].size /\ Grows(ps[k].descs, qs[k].descs)
  BY <1>1 DEF PoolsGrow
<1>3. PICK i \in 1 .. Len(ps[k].descs) : ps[k].descs[i].ptr = b.ptr  BY DEF BlockOK
<1>4. ps[k].descs \in Seq(Desc) /\ qs[k].descs \in Seq(Desc)  BY <1>1, <1>2 DEF PoolsOK, PoolOK
<1>5. Len(ps[k].descs) \in Nat /\ Len(qs[k].descs) \in Nat  BY <1>4, LenProperties
<1>6. i \in 1 .. Len(qs[k].descs) /\ qs[k].descs[i].ptr = b.ptr  BY <1>2, <1>3, <1>5 DEF Grows
<1> QED BY <1>2, <1>6 DEF BlockOK

\* A write into a block reaches descriptors of its pool only.
LEMMA ReachedOK ==
  ASSUME NEW ps, PoolsOK(ps), NEW b, b.pool \in 1 .. Len(ps), NEW n
  PROVE  Written(ps, Reached(ps, b, n))
<1>1. ps[b.pool].descs \in Seq(Desc)  BY DEF PoolsOK, PoolOK
<1>2. DOMAIN ps[b.pool].descs = 1 .. Len(ps[b.pool].descs)  BY <1>1, LenProperties
<1>3. ASSUME NEW x \in Reached(ps, b, n)
      PROVE  x[1] = b.pool /\ x[2] \in DOMAIN ps[b.pool].descs
  BY DEF Reached
<1> QED BY <1>2, <1>3 DEF Written

\* Pools keep their descriptors while they grow.
LEMMA WrittenStays ==
  ASSUME NEW ps, PoolsOK(ps), NEW qs, PoolsOK(qs), PoolsGrow(ps, qs), NEW W, Written(ps, W)
  PROVE  Written(qs, W)
<1>1. Len(ps) \in Nat /\ Len(qs) \in Nat /\ Len(qs) >= Len(ps)
  BY LenProperties DEF PoolsOK, PoolsGrow
<1>2. ASSUME NEW k \in 1 .. Len(ps), NEW i \in 1 .. Len(ps[k].descs)
      PROVE  k \in 1 .. Len(qs) /\ i \in 1 .. Len(qs[k].descs)
  <2>1. k \in 1 .. Len(qs)  BY <1>1
  <2>2. ps[k].descs \in Seq(Desc) /\ qs[k].descs \in Seq(Desc)  BY <2>1 DEF PoolsOK, PoolOK
  <2>3. Len(ps[k].descs) \in Nat /\ Len(qs[k].descs) \in Nat  BY <2>2, LenProperties
  <2>4. Len(qs[k].descs) >= Len(ps[k].descs)  BY DEF PoolsGrow, Grows
  <2> QED BY <2>1, <2>3, <2>4
<1> QED BY <1>2 DEF Written

\* Growing is transitive.
LEMMA GrowOn ==
  ASSUME NEW ps, PoolsOK(ps), NEW qs, PoolsOK(qs), NEW rs, PoolsOK(rs),
         PoolsGrow(ps, qs), PoolsGrow(qs, rs)
  PROVE  PoolsGrow(ps, rs)
<1>1. Len(ps) \in Nat /\ Len(qs) \in Nat /\ Len(rs) \in Nat  BY LenProperties DEF PoolsOK
<1>2. ASSUME NEW k \in 1 .. Len(ps)
      PROVE  rs[k].size = ps[k].size /\ Grows(ps[k].descs, rs[k].descs)
  <2>1. k \in 1 .. Len(qs) /\ k \in 1 .. Len(rs)  BY <1>1 DEF PoolsGrow
  <2>2. /\ Grows(ps[k].descs, qs[k].descs) /\ Grows(qs[k].descs, rs[k].descs)
        /\ qs[k].size = ps[k].size /\ rs[k].size = qs[k].size
    BY <2>1 DEF PoolsGrow
  <2>3. Len(ps[k].descs) \in Nat /\ Len(qs[k].descs) \in Nat /\ Len(rs[k].descs) \in Nat
    BY <2>1, LenProperties DEF PoolsOK, PoolOK
  <2>4. \A i \in 1 .. Len(ps[k].descs) : i \in 1 .. Len(qs[k].descs)  BY <2>2, <2>3 DEF Grows
  <2>5. Grows(ps[k].descs, rs[k].descs)  BY SMTT(30), <2>2, <2>3, <2>4 DEF Grows
  <2> QED BY <2>2, <2>5
<1> QED BY <1>1, <1>2 DEF PoolsGrow

\* allocatepool makes an empty pool.
LEMMA AllocatepoolOK ==
  ASSUME NEW n \in Nat \ {0}
  PROVE  /\ PoolOK(allocatepool(n)) /\ allocatepool(n) \in Pool
         /\ allocatepool(n).descs = <<>> /\ allocatepool(n).size = 2 * n * BlockUnits
<1>1. BlockUnits \in Nat /\ DescUnits \in Nat /\ DescUnits <= BlockUnits  BY PoolAssumption
<1>2. 2 * n * BlockUnits \in Nat /\ 2 * n * BlockUnits >= BlockUnits
  <2>1. \A x \in Nat \ {0}, y \in Nat : 2 * x * y \in Nat /\ 2 * x * y >= y  OBVIOUS
  <2> QED BY <2>1, <1>1
<1>3. PICK m \in Nat : m = 2 * n * BlockUnits /\ m >= DescUnits  BY <1>1, <1>2
<1>4. allocatepool(n) = [size |-> m, descs |-> <<>>]  BY <1>3 DEF allocatepool
<1>5. <<>> \in Seq(Desc)  OBVIOUS
<1>6. m - DescUnits \in Nat  BY <1>1, <1>3
<1>7. DescsOK(<<>>, m - DescUnits)  BY <1>6, EmptyOK
<1> QED BY <1>3, <1>4, <1>5, <1>7 DEF PoolOK, Pool, Room

\* The pool that mmalloc adds is large enough for the request.
LEMMA GrownOK ==
  ASSUME NEW n \in Nat \ {0}
  PROVE  /\ PoolOK(Grown(n)) /\ Grown(n) \in Pool
         /\ Grown(n).descs = <<>> /\ Grown(n).size >= n + DescUnits
<1> DEFINE D == dBLOCKS * BlockUnits
           c == (n + D - 1) \div D
<1>0. dBLOCKS \in Nat \ {0} /\ BlockUnits \in Nat \ {0} /\ DescUnits \in Nat /\ DescUnits <= BlockUnits
  BY PoolAssumption
<1>1. D \in Nat /\ D >= BlockUnits
  <2>1. \A x, y \in Nat \ {0} : x * y \in Nat /\ x * y >= y  OBVIOUS
  <2> QED BY <2>1, <1>0
<1>2. D # 0  BY <1>0, <1>1
<1> HIDE DEF D
<1>3. c \in Nat /\ c >= 1 /\ c * D \in Nat /\ c * D >= n /\ c * D >= D
  <2>1. n + D - 1 \in Nat /\ n + D - 1 >= D  BY <1>1
  <2>2. \A a \in Nat, b \in Nat \ {0} : a \div b \in Nat /\ a < (a \div b) * b + b
    OBVIOUS
  <2>3. c \in Nat /\ n + D - 1 < c * D + D  BY <2>1, <2>2, <1>1, <1>2
  <2> HIDE DEF c
  <2>4. c * D \in Nat  BY <2>3, <1>1
  <2>5. c # 0
    <3> SUFFICES ASSUME c = 0 PROVE FALSE  OBVIOUS
    <3>1. c * D = 0  BY <1>1
    <3> QED BY <3>1, <2>1, <2>3, <1>1
  <2>6. c >= 1  BY <2>3, <2>5
  <2>7. \A x, y \in Nat : x >= 1 => x * y >= y  OBVIOUS
  <2>8. c * D >= D  BY <2>3, <2>6, <2>7, <1>1
  <2>9. c * D >= n  BY <2>3, <2>4, <1>1
  <2> QED BY <2>3, <2>4, <2>6, <2>8, <2>9
<1>4. Grown(n) = allocatepool(c * dBLOCKS)  BY DEF Grown, D
<1> HIDE DEF c
<1>5. c * dBLOCKS \in Nat \ {0}
  <2>1. \A x, y \in Nat \ {0} : x * y \in Nat \ {0}  OBVIOUS
  <2>2. c \in Nat \ {0}  BY <1>3
  <2> QED BY <2>1, <2>2, <1>0
<1>6. 2 * (c * dBLOCKS) * BlockUnits = c * D + c * D
  <2>1. \A x, y, z \in Nat : 2 * (x * y) * z = x * (y * z) + x * (y * z)  OBVIOUS
  <2> QED BY <2>1, <1>0, <1>3 DEF D
<1>7. c * D + c * D >= n + DescUnits  BY <1>0, <1>1, <1>3
<1>8. /\ PoolOK(Grown(n)) /\ Grown(n) \in Pool /\ Grown(n).descs = <<>>
      /\ Grown(n).size = 2 * (c * dBLOCKS) * BlockUnits
  BY <1>4, <1>5, AllocatepoolOK
<1> QED BY <1>6, <1>7, <1>8

\* The pools that mmalloc tries.
LEMMA InitastateOK ==
  ASSUME PoolInv, NEW n \in Nat \ {0}
  PROVE  PoolsOK(initastate(n)) /\ PoolsGrow(pools, initastate(n))
<1>1. CASE array # "none"
  <2>1. initastate(n) = pools  BY <1>1 DEF initastate
  <2>2. Len(pools) \in Nat  BY LenProperties DEF PoolInv, PoolsOK
  <2>3. ASSUME NEW k \in 1 .. Len(pools) PROVE Grows(pools[k].descs, pools[k].descs)
    <3>1. Len(pools[k].descs) \in Nat  BY LenProperties DEF PoolInv, PoolsOK, PoolOK
    <3> QED BY <3>1 DEF Grows
  <2>4. PoolsGrow(pools, pools)  BY <2>2, <2>3 DEF PoolsGrow
  <2> QED BY <2>1, <2>4 DEF PoolInv
<1>2. CASE array = "none"
  <2>1. pools = <<>>  BY <1>2 DEF PoolInv
  <2> DEFINE c == IF allocALIGN * n < dBLOCKS THEN allocALIGN * n ELSE dBLOCKS
             ps == [k \in 1 .. dPOOLS |-> allocatepool(c)]
  <2>2. initastate(n) = ps  BY <1>2 DEF initastate
  <2>3. c \in Nat \ {0} /\ dPOOLS \in Nat  BY PoolAssumption DEF allocALIGN
  <2> HIDE DEF c
  <2>4. PoolOK(allocatepool(c)) /\ allocatepool(c) \in Pool  BY <2>3, AllocatepoolOK
  <2>5. ps \in [1 .. dPOOLS -> Pool]  BY <2>4
  <2>6. \A k \in 1 .. dPOOLS : PoolOK(ps[k])  BY <2>4
  <2> HIDE DEF ps
  <2>7. ps \in Seq(Pool) /\ Len(ps) = dPOOLS  BY <2>3, <2>5, FunIsSeq
  <2>8. PoolsOK(ps)  BY <2>6, <2>7 DEF PoolsOK
  <2>9. PoolsGrow(<<>>, ps)
    <3>1. Len(<<>>) = 0 /\ 1 .. Len(<<>>) = {}  OBVIOUS
    <3> QED BY <3>1, <2>3, <2>7 DEF PoolsGrow
  <2> QED BY <2>1, <2>2, <2>8, <2>9
<1> QED BY <1>1, <1>2

\* What mmalloc returns, and makes of the pools.
Allocated(r) ==
    /\ PoolsOK(r.ps) /\ PoolsGrow(pools, r.ps)
    /\ r.made \in Nat
    /\ r.blk \in BlockType /\ BlockOK(r.ps, r.blk)

\* The pools that are tried: those there are, and one more.
LEMMA TriedOK ==
  ASSUME NEW ps, PoolsOK(ps), NEW p \in Pool, PoolOK(p)
  PROVE  /\ PoolsOK(Append(ps, p)) /\ Len(Append(ps, p)) = Len(ps) + 1 /\ Len(ps) \in Nat
         /\ Append(ps, p)[Len(ps) + 1] = p /\ \A k \in 1 .. Len(ps) : Append(ps, p)[k] = ps[k]
<1>1. ps \in Seq(Pool) /\ Len(ps) \in Nat  BY LenProperties DEF PoolsOK
<1>2. Len(ps) + 1 \in Nat  BY <1>1
<1> DEFINE qs == Append(ps, p)
<1>3. /\ qs \in Seq(Pool) /\ Len(qs) = Len(ps) + 1 /\ qs[Len(ps) + 1] = p
      /\ \A k \in 1 .. Len(ps) : qs[k] = ps[k]
  BY <1>1, <1>2, AppendAt
<1> HIDE DEF qs
<1>4. ASSUME NEW k \in 1 .. Len(qs) PROVE PoolOK(qs[k])
  <2>1. k = Len(ps) + 1 \/ k \in 1 .. Len(ps)  BY <1>1, <1>3
  <2> QED BY <2>1, <1>3 DEF PoolsOK
<1>5. PoolsOK(qs)  BY <1>3, <1>4 DEF PoolsOK
<1> QED BY <1>1, <1>3, <1>5 DEF qs

\* The pools up to the one that serves have had their turns.
LEMMA OutcomeOK ==
  ASSUME NEW ps, PoolsOK(ps), PoolsGrow(pools, ps), PoolsOK(pools), NEW n \in Nat \ {0},
         NEW turns, NEW k \in 1 .. Len(ps),
         \A j \in 1 .. Len(ps) : Serves(ps[j].descs, Room(ps[j]), n, turns[j]),
         turns[k].out # 0
  PROVE  Allocated(Outcome(ps, turns, k, n))
<1> DEFINE Q(j) == IF j <= k THEN [ps[j] EXCEPT !.descs = turns[j].descs] ELSE ps[j]
           qs == [j \in DOMAIN ps |-> Q(j)]
           b == [pool |-> k, ptr |-> turns[k].descs[turns[k].out].ptr, n |-> n]
           r == Outcome(ps, turns, k, n)
<1>0. ps \in Seq(Pool) /\ Len(ps) \in Nat /\ DOMAIN ps = 1 .. Len(ps)  BY LenProperties DEF PoolsOK
<1>1. r.ps = qs /\ r.made = Len(turns[k].descs) - Len(ps[k].descs) /\ r.blk = b  BY DEF Outcome
<1> HIDE DEF r
<1>2. ASSUME NEW j \in 1 .. Len(ps)
      PROVE  /\ Q(j) \in Pool /\ PoolOK(Q(j)) /\ Q(j).size = ps[j].size
             /\ Grows(ps[j].descs, Q(j).descs)
             /\ j = k => Q(j).descs = turns[j].descs
  <2>0. PoolOK(ps[j]) /\ ps[j] \in Pool  BY DEF PoolsOK, PoolOK, Pool
  <2>1. CASE j <= k
    <3>1. DescsOK(turns[j].descs, Room(ps[j])) /\ Grows(ps[j].descs, turns[j].descs)
      BY DEF Serves
    <3>2. turns[j].descs \in Seq(Desc)  BY <3>1 DEF DescsOK, Linkable
    <3>3. /\ Q(j) \in Pool /\ Q(j).size = ps[j].size /\ Q(j).descs = turns[j].descs
      BY <3>2, <2>0, <2>1 DEF Pool
    <3> HIDE DEF Q
    <3>4. Room(Q(j)) = Room(ps[j]) /\ Q(j).size >= DescUnits  BY <3>3, <2>0 DEF Room, PoolOK
    <3> QED BY <3>1, <3>3, <3>4 DEF PoolOK, Pool
  <2>2. CASE ~(j <= k)
    <3>1. Q(j) = ps[j] /\ j # k  BY <2>2
    <3>2. ps[j].descs \in Seq(Desc)  BY <2>0 DEF Pool
    <3>3. Len(ps[j].descs) \in Nat  BY <3>2, LenProperties
    <3>4. Grows(ps[j].descs, ps[j].descs)  BY <3>3 DEF Grows
    <3> HIDE DEF Q
    <3> QED BY <3>1, <3>4, <2>0
  <2> QED BY <2>1, <2>2
<1> HIDE DEF Q
<1>3. qs \in [1 .. Len(ps) -> Pool] /\ \A j \in 1 .. Len(ps) : qs[j] = Q(j)  BY <1>0, <1>2
<1> HIDE DEF qs
<1>4. qs \in Seq(Pool) /\ Len(qs) = Len(ps)  BY <1>0, <1>3, FunIsSeq
<1>5. PoolsOK(qs)  BY <1>2, <1>3, <1>4 DEF PoolsOK
<1>6. PoolsGrow(ps, qs)  BY <1>0, <1>2, <1>3, <1>4 DEF PoolsGrow
<1>7. PoolsGrow(pools, qs)  BY <1>5, <1>6, GrowOn
<1> DEFINE ds == turns[k].descs
           o == turns[k].out
<1>8. /\ DescsOK(ds, Room(ps[k])) /\ Grows(ps[k].descs, ds) /\ o \in 0 .. Len(ds) /\ o # 0
      /\ ds[o].nbytes >= n
  BY DEF Serves
<1> HIDE DEF ds, o
<1>9. ds \in Seq(Desc) /\ Len(ds) \in Nat  BY <1>8, LenProperties DEF DescsOK, Linkable
<1>10. o \in 1 .. Len(ds)  BY <1>8, <1>9
<1>11. r.made \in Nat
  <2>1. ps[k].descs \in Seq(Desc)  BY DEF PoolsOK, PoolOK
  <2>2. Len(ps[k].descs) \in Nat  BY <2>1, LenProperties
  <2>3. Len(ds) >= Len(ps[k].descs)  BY <1>8 DEF Grows
  <2> QED BY <2>2, <2>3, <1>1, <1>9 DEF ds
<1>12. b = [pool |-> k, ptr |-> ds[o].ptr, n |-> n]  BY DEF ds, o
<1> HIDE DEF b
<1>13. ds[o].ptr \in Nat /\ ds[o].nbytes \in Nat  BY <1>9, <1>10, DescType
<1>14. k \in Nat  BY <1>0
<1>15. b \in BlockType /\ b.pool = k /\ b.ptr = ds[o].ptr /\ b.n = n
  BY <1>12, <1>13, <1>14 DEF BlockType
<1>16. ds[o].ptr + n + DescUnits <= ps[k].size
  <2>1. PICK f : Adds(f, ds) /\ f[Len(ds)] <= Room(ps[k]) /\ \A i \in 1 .. Len(ds) : End(ds[i]) <= f[Len(ds)]
    BY <1>8 DEF DescsOK, Filled
  <2>2. f[Len(ds)] \in Int
    <3>1. Len(ds) \in 0 .. Len(ds)  BY <1>9
    <3> QED BY <3>1, <2>1 DEF Adds
  <2>3. ds[o].ptr + ds[o].nbytes <= f[Len(ds)]  BY <2>1, <1>10 DEF End
  <2>4. ps[k].size \in Nat /\ DescUnits \in Nat  BY PoolAssumption DEF PoolsOK, PoolOK
  <2>5. \A x, y \in Nat, u \in Int, v, d \in Nat :
           x + y <= u /\ u <= v - d /\ y >= n => x + n + d <= v
    OBVIOUS
  <2>6. f[Len(ds)] <= ps[k].size - DescUnits  BY <2>1 DEF Room
  <2>7. ds[o].nbytes >= n  BY <1>8
  <2> QED BY <2>2, <2>3, <2>4, <2>5, <2>6, <2>7, <1>13
<1>17. BlockOK(qs, b)
  <2>1. k \in 1 .. Len(qs) /\ qs[k].size = ps[k].size /\ qs[k].descs = ds
    BY <1>2, <1>3, <1>4 DEF ds
  <2> QED BY <2>1, <1>10, <1>15, <1>16 DEF BlockOK
<1> QED BY <1>1, <1>5, <1>7, <1>11, <1>15, <1>17 DEF Allocated, r

\* mmalloc always finds or makes room.
LEMMA MMallocOK ==
  ASSUME PoolInv, NEW n \in Nat \ {0}
  PROVE  Allocated(MMalloc(n))
<1> DEFINE ps == initastate(n)
           all == Append(ps, Grown(n))
           L == Len(all)
           turns == [j \in DOMAIN all |-> Turn(all[j], total, n)]
           S == {j \in DOMAIN all : turns[j].out # 0}
           k == Min(S)
<1>1. PoolsOK(ps) /\ PoolsGrow(pools, ps) /\ PoolsOK(pools)  BY InitastateOK DEF PoolInv
<1>2. /\ PoolOK(Grown(n)) /\ Grown(n) \in Pool
      /\ Grown(n).descs = <<>> /\ Grown(n).size >= n + DescUnits
  BY GrownOK
<1> HIDE DEF ps
<1>3. /\ PoolsOK(all) /\ L = Len(ps) + 1 /\ Len(ps) \in Nat
      /\ all[L] = Grown(n) /\ \A j \in 1 .. Len(ps) : all[j] = ps[j]
  BY <1>1, <1>2, TriedOK
<1>a. MMalloc(n) = Outcome(IF k = L THEN all ELSE Front(all), turns, k, n)
  BY DEF MMalloc, Tried, FirstOf, ps
<1> HIDE DEF all
<1>4. all \in Seq(Pool) /\ DOMAIN all = 1 .. L /\ L \in Nat /\ L \in 1 .. L
  BY <1>3, LenProperties DEF PoolsOK
<1>5. \A j \in 1 .. L : turns[j] = Turn(all[j], total, n)  BY <1>4
<1> HIDE DEF turns
<1>6. \A j \in 1 .. L : Serves(all[j].descs, Room(all[j]), n, turns[j])
  BY <1>3, <1>5, TurnServes DEF PoolsOK
<1>7. turns[L].out # 0  BY <1>2, <1>3, <1>4, <1>5, EmptyServes
<1>8. S \in SUBSET Nat /\ S # {}  BY <1>4, <1>7
<1>9. k \in S
  <2> HIDE DEF S
  <2> QED BY <1>8, MinIsLeast
<1>10. k \in 1 .. L /\ turns[k].out # 0  BY <1>4, <1>9
<1> HIDE DEF k
<1>11. PoolsGrow(pools, all)
  <2>1. PoolsGrow(ps, all)
    <3>1. ASSUME NEW j \in 1 .. Len(ps) PROVE Grows(ps[j].descs, all[j].descs)
      <4>1. all[j] = ps[j]  BY <1>3
      <4>2. Len(ps[j].descs) \in Nat  BY <1>1, LenProperties DEF PoolsOK, PoolOK
      <4> QED BY <4>1, <4>2 DEF Grows
    <3> QED BY <3>1, <1>3 DEF PoolsGrow
  <2> QED BY <2>1, <1>1, <1>3, GrowOn
<1>12. CASE k = L
  <2>1. MMalloc(n) = Outcome(all, turns, k, n)  BY <1>12, <1>a
  <2> QED BY <2>1, <1>1, <1>3, <1>6, <1>10, <1>11, OutcomeOK
<1>13. CASE k # L
  <2>1. MMalloc(n) = Outcome(Front(all), turns, k, n)  BY <1>13, <1>a
  <2>2. Front(all) = ps
    <3> HIDE DEF L
    <3>1. Front(all) \in Seq(Pool) /\ Len(Front(all)) = L - 1
          /\ \A j \in 1 .. L - 1 : Front(all)[j] = all[j]
      BY <1>3, <1>4 DEF Front, L
    <3>2. L - 1 = Len(ps) /\ ps \in Seq(Pool)  BY <1>1, <1>3 DEF PoolsOK
    <3> QED BY <3>1, <3>2, <1>3, SeqEqual
  <2>3. k \in 1 .. Len(ps)  BY <1>3, <1>10, <1>13
  <2>4. \A j \in 1 .. Len(ps) : Serves(ps[j].descs, Room(ps[j]), n, turns[j])
    <3>1. \A j \in 1 .. Len(ps) : j \in 1 .. L /\ all[j] = ps[j]  BY <1>3
    <3> QED BY <3>1, <1>6
  <2> QED BY <2>1, <2>2, <2>3, <2>4, <1>1, <1>10, OutcomeOK
<1> QED BY <1>12, <1>13

\* mfree changes at most a flag.
LEMMA MFreeOK ==
  ASSUME NEW ps, PoolsOK(ps), NEW b, b.pool \in 1 .. Len(ps)
  PROVE  PoolsOK(MFree(ps, b).ps) /\ PoolsGrow(ps, MFree(ps, b).ps)
<1> DEFINE k == b.pool
           ds == ps[k].descs
           S == {j \in DOMAIN ds : /\ check(ds[j].used)
                                   /\ ds[j].ptr <= b.ptr /\ b.ptr < ds[j].ptr + ds[j].nbytes}
           i == First(S)
           qs == [ps EXCEPT ![k].descs[i].used = FALSE]
<1>0. ps \in Seq(Pool) /\ Len(ps) \in Nat /\ k \in 1 .. Len(ps)  BY LenProperties DEF PoolsOK
<1>1. PoolOK(ps[k]) /\ ps[k] \in Pool  BY <1>0 DEF PoolsOK, PoolOK, Pool
<1>2. ds \in Seq(Desc) /\ Len(ds) \in Nat /\ DOMAIN ds = 1 .. Len(ds) /\ DescsOK(ds, Room(ps[k]))
  BY <1>1, LenProperties DEF PoolOK
<1>3. MFree(ps, b).ps = IF i = 0 THEN ps ELSE qs  BY DEF MFree
<1>4. \A j \in 1 .. Len(ps) : Grows(ps[j].descs, ps[j].descs)
  <2>1. ASSUME NEW j \in 1 .. Len(ps) PROVE Grows(ps[j].descs, ps[j].descs)
    <3>1. Len(ps[j].descs) \in Nat  BY LenProperties DEF PoolsOK, PoolOK
    <3> QED BY <3>1 DEF Grows
  <2> QED BY <2>1
<1>5. CASE i = 0
  <2>1. PoolsGrow(ps, ps)  BY <1>0, <1>4 DEF PoolsGrow
  <2> QED BY <2>1, <1>3, <1>5
<1>6. CASE i # 0
  <2>1. i \in 1 .. Len(ds)
    <3>1. S \in SUBSET (1 .. Len(ds))  BY <1>2
    <3> HIDE DEF S, ds
    <3> QED BY <3>1, <1>2, <1>6, FirstHit
  <2> DEFINE e == [ds[i] EXCEPT !.used = FALSE]
             es == [ds EXCEPT ![i] = e]
             p == [ps[k] EXCEPT !.descs = es]
  <2>2. qs = [ps EXCEPT ![k] = p]  OBVIOUS
  <2> HIDE DEF i, S
  <2>3. e \in Desc /\ e.ptr = ds[i].ptr /\ e.nbytes = ds[i].nbytes /\ e.next = ds[i].next
    <3>1. ds[i] \in Desc  BY <2>1, <1>2, DescType
    <3> QED BY <3>1, FlagOf
  <2> HIDE DEF e
  <2>4. DescsOK(es, Room(ps[k])) /\ Like(ds, es)  BY <2>1, <2>3, <1>2, FlagKeeps
  <2> HIDE DEF es
  <2>5. p \in Pool /\ p.size = ps[k].size /\ p.descs = es  BY <2>4, <1>1 DEF Pool, Like
  <2> HIDE DEF p
  <2>6. PoolOK(p)
    <3>1. Room(p) = Room(ps[k]) /\ p.size >= DescUnits  BY <2>5, <1>1 DEF Room, PoolOK
    <3> QED BY <3>1, <2>4, <2>5 DEF PoolOK, Pool
  <2>7. Grows(ps[k].descs, p.descs)
    <3>1. Len(es) = Len(ds) /\ \A j \in 1 .. Len(ds) : es[j].ptr = ds[j].ptr  BY <2>4 DEF Like
    <3> QED BY <3>1, <2>5, <1>2 DEF Grows
  <2> HIDE DEF qs
  <2>8. qs \in Seq(Pool) /\ Len(qs) = Len(ps) /\ \A j \in 1 .. Len(ps) : qs[j] = IF j = k THEN p ELSE ps[j]
    BY <2>2, <2>5, <1>0, ExceptSeq
  <2>9. PoolsOK(qs)  BY <2>6, <2>8 DEF PoolsOK
  <2>10. PoolsGrow(ps, qs)
    <3>1. ASSUME NEW j \in 1 .. Len(ps)
          PROVE  qs[j].size = ps[j].size /\ Grows(ps[j].descs, qs[j].descs)
      <4>1. CASE j = k  BY <4>1, <2>5, <2>7, <2>8
      <4>2. CASE j # k  BY <4>2, <2>8, <1>4
      <4> QED BY <4>1, <4>2
    <3> QED BY <3>1, <2>8, <1>0 DEF PoolsGrow
  <2> QED BY <2>9, <2>10, <1>3, <1>6
<1> QED BY <1>5, <1>6

----------------------------------------------------------------------------
(* The steps of the allocator.                                             *)

\* No pool yet, and no block.
LEMMA InitPools == Init => PoolInv
<1> SUFFICES ASSUME Init PROVE PoolInv  OBVIOUS
<1>1. /\ array = "none" /\ pools = <<>> /\ total = 0 /\ held = [h \in Holders |-> None]
      /\ overwritten = {}
  BY DEF Init
<1>2. PoolsOK(<<>>)
  <2>1. <<>> \in Seq(Pool) /\ 1 .. Len(<<>>) = {}  OBVIOUS
  <2> QED BY <2>1 DEF PoolsOK
<1>3. None \in BlockType  BY DEF None, BlockType
<1> QED BY <1>1, <1>2, <1>3 DEF PoolInv, Written

\* A block that mmalloc returns is no missing block, and blocks held before stay.
LEMMA HeldStays ==
  ASSUME PoolInv, NEW qs, PoolsOK(qs), PoolsGrow(pools, qs), NEW g \in Holders, NEW b \in BlockType,
         b # None => BlockOK(qs, b)
  PROVE  /\ [held EXCEPT ![g] = b] \in [Holders -> BlockType]
         /\ \A h \in Holders : [held EXCEPT ![g] = b][h] # None => BlockOK(qs, [held EXCEPT ![g] = b][h])
<1>1. held \in [Holders -> BlockType] /\ PoolsOK(pools)  BY DEF PoolInv
<1>2. \A h \in Holders : held[h] # None => BlockOK(qs, held[h])  BY <1>1, BlockStays DEF PoolInv
<1> QED BY <1>1, <1>2

\* mmalloc, mmalloczero and mclone, of which the last two write into the block.
LEMMA GivenKeeps ==
  ASSUME PoolInv, NEW h \in Holders, NEW n \in Nat \ {0}, NEW m, Given(h, n, m)
  PROVE  PoolInv'
<1>1. PICK r : /\ r = MMalloc(n) /\ array' \in Astray(r) /\ pools' = r.ps
               /\ total' = total + r.made /\ held' = [held EXCEPT ![h] = r.blk]
               /\ overwritten' = Reached(r.ps, r.blk, m)
  BY DEF Given
<1>2. Allocated(r)  BY <1>1, MMallocOK
<1>3. array' \in {"ok", "lost"}  BY <1>1 DEF Astray
<1>4. PoolsOK(r.ps) /\ PoolsGrow(pools, r.ps) /\ r.blk \in BlockType /\ BlockOK(r.ps, r.blk) /\ r.made \in Nat
  BY <1>2 DEF Allocated
<1>5. /\ held' \in [Holders -> BlockType]
      /\ \A g \in Holders : held'[g] # None => BlockOK(r.ps, held'[g])
  BY <1>1, <1>4, HeldStays
<1>6. total' \in Nat  BY <1>1, <1>4 DEF PoolInv
<1>7. PoolsOK(pools')  BY <1>1, <1>4
<1>8. array' # "none"  BY <1>3
<1>9. Written(pools', overwritten')
  <2>1. Written(r.ps, Reached(r.ps, r.blk, m))  BY <1>4, ReachedOK DEF BlockOK
  <2> QED BY <2>1, <1>1
<1> QED BY <1>1, <1>3, <1>5, <1>6, <1>7, <1>8, <1>9 DEF PoolInv

\* A holder that fills its block.
LEMMA FillKeeps ==
  ASSUME PoolInv, NEW h \in Holders, fill(h)
  PROVE  PoolInv'
<1>1. /\ held[h] # None /\ overwritten' = Reached(pools, held[h], held[h].n)
      /\ UNCHANGED <<array, pools, total, held>>
  BY DEF fill
<1>2. PoolsOK(pools) /\ held[h].pool \in 1 .. Len(pools)  BY <1>1 DEF PoolInv, BlockOK
<1>3. Written(pools, overwritten')  BY <1>1, <1>2, ReachedOK
<1> QED BY <1>1, <1>3 DEF PoolInv

\* mfree.
LEMMA MfreeKeeps ==
  ASSUME PoolInv, NEW h \in Holders, mfree(h)
  PROVE  PoolInv'
<1>1. PICK f : /\ f = MFree(pools, held[h]) /\ pools' = f.ps
               /\ held' = [held EXCEPT ![h] = None] /\ UNCHANGED <<array, total, overwritten>>
  BY DEF mfree
<1>2. held[h] # None /\ PoolsOK(pools)  BY DEF mfree, PoolInv
<1>3. held[h].pool \in 1 .. Len(pools)  BY <1>2 DEF PoolInv, BlockOK
<1>4. PoolsOK(f.ps) /\ PoolsGrow(pools, f.ps)  BY <1>1, <1>2, <1>3, MFreeOK
<1>5. None \in BlockType  BY DEF None, BlockType
<1>6. /\ held' \in [Holders -> BlockType]
      /\ \A g \in Holders : held'[g] # None => BlockOK(f.ps, held'[g])
  BY <1>1, <1>4, <1>5, HeldStays
<1>7. array # "none"
  <2> SUFFICES ASSUME array = "none" PROVE FALSE  OBVIOUS
  <2>1. pools = <<>>  BY DEF PoolInv
  <2> QED BY <2>1, <1>3
<1>8. PoolsOK(pools')  BY <1>1, <1>4
<1>9. Written(f.ps, overwritten)  BY <1>2, <1>4, WrittenStays DEF PoolInv
<1>10. Written(pools', overwritten')  BY <1>1, <1>9
<1> QED BY <1>1, <1>6, <1>7, <1>8, <1>10 DEF PoolInv

\* mrealloc: mmalloc, and mfree in the pools it leaves.
LEMMA MreallocKeeps ==
  ASSUME PoolInv, NEW h \in Holders, NEW n \in Nat \ {0}, mrealloc(h, n)
  PROVE  PoolInv'
<1>1. PICK r : /\ r = MMalloc(n) /\ array' \in Astray(r)
               /\ \E m : overwritten' = Reached(r.ps, r.blk, m)
               /\ \E f \in {MFree(r.ps, held[h])} : pools' = f.ps
               /\ total' = total + r.made /\ held' = [held EXCEPT ![h] = r.blk]
  BY DEF mrealloc
<1>2. Allocated(r)  BY <1>1, MMallocOK
<1>3. array' \in {"ok", "lost"}  BY <1>1 DEF Astray
<1>4. PoolsOK(r.ps) /\ PoolsGrow(pools, r.ps) /\ r.blk \in BlockType /\ BlockOK(r.ps, r.blk) /\ r.made \in Nat
  BY <1>2 DEF Allocated
<1>5. held[h] # None /\ PoolsOK(pools)  BY DEF mrealloc, PoolInv
<1>6. BlockOK(r.ps, held[h])  BY <1>4, <1>5, BlockStays DEF PoolInv
<1>7. PICK f : f = MFree(r.ps, held[h]) /\ pools' = f.ps  BY <1>1
<1>8. PoolsOK(f.ps) /\ PoolsGrow(r.ps, f.ps)  BY <1>4, <1>6, <1>7, MFreeOK DEF BlockOK
<1>9. PoolsGrow(pools, f.ps) /\ BlockOK(f.ps, r.blk)  BY <1>4, <1>5, <1>8, GrowOn, BlockStays
<1>10. /\ held' \in [Holders -> BlockType]
       /\ \A g \in Holders : held'[g] # None => BlockOK(f.ps, held'[g])
  BY <1>1, <1>4, <1>8, <1>9, HeldStays
<1>11. total' \in Nat  BY <1>1, <1>4 DEF PoolInv
<1>12. PoolsOK(pools')  BY <1>7, <1>8
<1>13. array' # "none"  BY <1>3
<1>14. Written(pools', overwritten')
  <2>1. Written(r.ps, overwritten')  BY <1>1, <1>4, ReachedOK DEF BlockOK
  <2>2. Written(f.ps, overwritten')  BY <2>1, <1>4, <1>8, WrittenStays
  <2> QED BY <2>2, <1>7
<1> QED BY <1>3, <1>7, <1>10, <1>11, <1>12, <1>13, <1>14 DEF PoolInv

\* The size that mclone finds for a block is that of a descriptor.
LEMMA SizeofOK ==
  ASSUME PoolInv, NEW h \in Holders, held[h] # None
  PROVE  sizeof(held[h]) \in Nat \ {0}
<1> DEFINE b == held[h]
           ds == pools[b.pool].descs
           S == {i \in DOMAIN ds : ds[i].ptr <= b.ptr /\ b.ptr <= ds[i].ptr + ds[i].nbytes}
<1>1. BlockOK(pools, b)  BY DEF PoolInv
<1>2. b.pool \in 1 .. Len(pools)  BY <1>1 DEF BlockOK
<1>3. ds \in Seq(Desc)  BY <1>2 DEF PoolInv, PoolsOK, PoolOK
<1>4. Len(ds) \in Nat /\ DOMAIN ds = 1 .. Len(ds)  BY <1>3, LenProperties
<1>5. PICK i \in 1 .. Len(ds) : ds[i].ptr = b.ptr  BY <1>1 DEF BlockOK
<1>6. sizeof(b) = ds[First(S)].nbytes  BY DEF sizeof
<1>7. i \in S
  <2>1. ds[i].ptr \in Nat /\ ds[i].nbytes \in Nat  BY <1>3, DescType
  <2>2. \A x, y, z \in Nat : x = y => x <= y /\ y <= x + z  OBVIOUS
  <2> HIDE DEF b, ds
  <2>3. b.ptr \in Nat  BY <2>1, <1>5
  <2>4. ds[i].ptr <= b.ptr /\ b.ptr <= ds[i].ptr + ds[i].nbytes  BY <2>1, <2>2, <2>3, <1>5
  <2> QED BY <2>4, <1>4
<1>8. First(S) \in 1 .. Len(ds)
  <2>1. S \in SUBSET (1 .. Len(ds))  BY <1>4
  <2> HIDE DEF S, ds, b
  <2> QED BY <2>1, <1>4, <1>7, FirstHit
<1> HIDE DEF S, ds
<1>9. ds[First(S)].nbytes \in Nat \ {0}  BY <1>3, <1>8, DescType
<1> QED BY <1>6, <1>9

\* Every history of calls.
LEMMA PoolInductive == Spec => []PoolInv
<1>1. PoolInv /\ [Next]_vars => PoolInv'
  <2> SUFFICES ASSUME PoolInv, [Next]_vars PROVE PoolInv'  OBVIOUS
  <2>1. ASSUME NEW h \in Holders, mfree(h) PROVE PoolInv'  BY <2>1, MfreeKeeps
  <2>2. ASSUME NEW h \in Holders, fill(h) PROVE PoolInv'  BY <2>2, FillKeeps
  <2>3. ASSUME NEW h \in Holders, NEW n \in Sizes, mmalloc(h, n) PROVE PoolInv'
    <3>1. n \in Nat \ {0}  BY PoolAssumption
    <3> QED BY <2>3, <3>1, GivenKeeps DEF mmalloc
  <2>4. ASSUME NEW h \in Holders, NEW n \in Sizes, mmalloczero(h, n) PROVE PoolInv'
    <3>1. n \in Nat \ {0}  BY PoolAssumption
    <3> QED BY <2>4, <3>1, GivenKeeps DEF mmalloczero
  <2>5. ASSUME NEW h \in Holders, NEW n \in Sizes, mrealloc(h, n) PROVE PoolInv'
    <3>1. n \in Nat \ {0}  BY PoolAssumption
    <3> QED BY <2>5, <3>1, MreallocKeeps
  <2>6. ASSUME NEW h \in Holders, NEW g \in Holders, mclone(h, g) PROVE PoolInv'
    <3>1. held[h] # None /\ mmalloczero(g, sizeof(held[h]))  BY <2>6 DEF mclone
    <3>2. PICK n : n = sizeof(held[h])  OBVIOUS
    <3>3. n \in Nat \ {0} /\ mmalloczero(g, n)  BY <3>1, <3>2, SizeofOK
    <3> QED BY <3>3, GivenKeeps DEF mmalloczero
  <2>7. CASE UNCHANGED vars  BY <2>7 DEF vars, PoolInv
  <2> QED BY <2>1, <2>2, <2>3, <2>4, <2>5, <2>6, <2>7 DEF Next
<1> QED BY <1>1, InitPools, PTL DEF Spec

\* Every link of every descriptor stays in its array, sizes and addresses stay
\* natural numbers, and every block that is held names a pool, for any
\* number of pools, holders and calls.
THEOREM PoolTypeCorrect == Spec => []TypeOK
<1>1. PoolInv => TypeOK
  <2> SUFFICES ASSUME PoolInv PROVE TypeOK  OBVIOUS
  <2>0. pools \in Seq(Pool) /\ Len(pools) \in Nat /\ DOMAIN pools = 1 .. Len(pools)
    BY LenProperties DEF PoolInv, PoolsOK
  <2>1. ASSUME NEW k \in DOMAIN pools, NEW i \in DOMAIN pools[k].descs
        PROVE  LET ds == pools[k].descs
               IN  /\ ds[i].next \in 0 .. Len(ds) /\ ds[i].used \in BOOLEAN
                   /\ ds[i].ptr \in Nat /\ ds[i].nbytes \in Nat
    <3> DEFINE ds == pools[k].descs
    <3>1. Linkable(ds)  BY <2>0 DEF PoolInv, PoolsOK, PoolOK, DescsOK
    <3>2. ds \in Seq(Desc) /\ i \in 1 .. Len(ds)  BY <3>1, LenProperties DEF Linkable
    <3>3. ds[i].next \in 0 .. Len(ds)  BY <3>1, <3>2 DEF Linkable
    <3> HIDE DEF ds
    <3>4. ds[i].used \in BOOLEAN /\ ds[i].ptr \in Nat /\ ds[i].nbytes \in Nat  BY <3>2, DescType
    <3> QED BY <3>3, <3>4 DEF ds
  <2>2. ASSUME NEW h \in Holders PROVE held[h] \in [pool : 0 .. Len(pools), ptr : Nat, n : Nat]
    <3>1. held[h] \in BlockType  BY DEF PoolInv
    <3>2. held[h].pool \in 0 .. Len(pools)
      <4>1. CASE held[h] = None  BY <4>1, <2>0 DEF None
      <4>2. CASE held[h] # None  BY <4>2, <2>0 DEF PoolInv, BlockOK
      <4> QED BY <4>1, <4>2
    <3> QED BY <3>1, <3>2 DEF BlockType
  <2>3. ASSUME NEW x \in overwritten
        PROVE  x[1] \in DOMAIN pools /\ x[2] \in DOMAIN pools[x[1]].descs
    <3>1. x[1] \in 1 .. Len(pools) /\ x[2] \in 1 .. Len(pools[x[1]].descs)
      BY DEF PoolInv, Written
    <3>2. pools[x[1]].descs \in Seq(Desc)  BY <3>1 DEF PoolInv, PoolsOK, PoolOK
    <3>3. DOMAIN pools[x[1]].descs = 1 .. Len(pools[x[1]].descs)  BY <3>2, LenProperties
    <3> QED BY <3>1, <3>3, <2>0
  <2> QED BY <2>1, <2>2, <2>3 DEF TypeOK, PoolInv
<1> QED BY <1>1, PoolInductive, PTL

\* The descriptors of every pool tile its blocks without overlap, gap or empty
\* piece, however often fragmemory split them, as long as no block has been
\* written over them; and those that are left then are disjoint.
THEOREM PoolTiled == Spec => []Tiled
<1>1. PoolInv => Tiled
  <2> SUFFICES ASSUME PoolInv, NEW k \in DOMAIN pools, NEW i \in Kept(k)
               PROVE  LET ds == pools[k].descs
                          E(x) == ds[x].ptr + ds[x].nbytes
                      IN  /\ ds[i].nbytes > 0
                          /\ \A j \in Kept(k) : i # j => E(i) <= ds[j].ptr \/ E(j) <= ds[i].ptr
                          /\ ds[i].ptr = 0 \/ \E j \in DOMAIN ds : E(j) = ds[i].ptr
    BY DEF Tiled
  <2> DEFINE ds == pools[k].descs
  <2>1. DescsOK(ds, Room(pools[k]))
    BY LenProperties DEF PoolInv, PoolsOK, PoolOK
  <2>2. ds \in Seq(Desc) /\ DOMAIN ds = 1 .. Len(ds)  BY <2>1, LenProperties DEF DescsOK, Linkable
  <2>3. i \in DOMAIN ds /\ \A j \in Kept(k) : j \in DOMAIN ds  BY DEF Kept
  <2> HIDE DEF ds
  <2>4. i \in 1 .. Len(ds) /\ \A j \in Kept(k) : j \in 1 .. Len(ds)  BY <2>2, <2>3
  <2>5. ds[i].nbytes \in Nat \ {0}  BY <2>2, <2>4, DescType
  <2>6. ds[i].nbytes > 0  BY <2>5
  <2>7. Apart(ds) /\ Based(ds)  BY <2>1 DEF DescsOK
  <2> QED BY <2>2, <2>4, <2>6, <2>7 DEF Apart, Based, End, ds
<1> QED BY <1>1, PoolInductive, PTL

\* Every link leads to the adjacent descriptor, although fragmemory sets a wrong
\* one first and fixmdarray never repairs the newest descriptor; of descriptors
\* that a block was written over nothing is said.
THEOREM PoolLinked == Spec => []Linked
<1>1. PoolInv => Linked
  <2> SUFFICES ASSUME PoolInv, NEW k \in DOMAIN pools, NEW i \in Kept(k)
               PROVE  LET ds == pools[k].descs
                      IN  IF ds[i].next = 0 THEN \A j \in Kept(k) : ds[j].ptr <= ds[i].ptr
                          ELSE ds[ds[i].next].ptr = ds[i].ptr + ds[i].nbytes
    BY DEF Linked
  <2> DEFINE ds == pools[k].descs
  <2>1. DescsOK(ds, Room(pools[k]))
    BY LenProperties DEF PoolInv, PoolsOK, PoolOK
  <2>2. ds \in Seq(Desc) /\ DOMAIN ds = 1 .. Len(ds)  BY <2>1, LenProperties DEF DescsOK, Linkable
  <2>3. i \in DOMAIN ds /\ \A j \in Kept(k) : j \in DOMAIN ds  BY DEF Kept
  <2> HIDE DEF ds
  <2>4. i \in 1 .. Len(ds) /\ \A j \in Kept(k) : j \in 1 .. Len(ds)  BY <2>2, <2>3
  <2>5. LinkOK(ds, i)  BY <2>1, <2>4 DEF DescsOK, Links
  <2> QED BY <2>4, <2>5 DEF LinkOK, End, ds
<1> QED BY <1>1, PoolInductive, PTL

\* A block lies within its pool, before the oldest descriptor, and begins where a
\* descriptor begins, for every request and however full the pools are:
\* memusedsize is the end of the last block.
THEOREM PoolBlockInPool == Spec => []BlockInPool
<1>1. PoolInv => BlockInPool
  <2> SUFFICES ASSUME PoolInv, NEW h \in Holders, held[h] # None
               PROVE  /\ held[h].ptr + held[h].n + DescUnits <= pools[held[h].pool].size
                      /\ \E i \in DOMAIN pools[held[h].pool].descs :
                            pools[held[h].pool].descs[i].ptr = held[h].ptr
    BY DEF BlockInPool
  <2>1. BlockOK(pools, held[h])  BY DEF PoolInv
  <2>2. held[h].pool \in 1 .. Len(pools)  BY <2>1 DEF BlockOK
  <2>3. pools[held[h].pool].descs \in Seq(Desc)  BY <2>2 DEF PoolInv, PoolsOK, PoolOK
  <2>4. DOMAIN pools[held[h].pool].descs = 1 .. Len(pools[held[h].pool].descs)
    BY <2>3, LenProperties
  <2> QED BY <2>1, <2>4 DEF BlockOK
<1> QED BY <1>1, PoolInductive, PTL
==============================================================================
