-------------------------- MODULE FratLayoutProofs --------------------------
(***************************************************************************)
(* For every sector size, entry size, partition table, block size and      *)
(* number of log sectors: the regions of a formatted file system do not    *)
(* overlap when no product of the layout wraps, a mounted one has a map of *)
(* its own unless formatting it was interrupted, and writes stay in a      *)
(* partition that is large enough, wrapped or not.                         *)
(***************************************************************************)
EXTENDS FratLayout, ScanLemmas, SequenceTheorems, TLAPS

\* Integer division.
LEMMA DivFacts ==
  ASSUME NEW a \in Nat, NEW b \in Nat \ {0}
  PROVE  /\ a \div b \in Nat
         /\ (a \div b) * b <= a
         /\ a < (a \div b) * b + b
OBVIOUS

\* Integer division is monotone.
LEMMA DivMono ==
  ASSUME NEW a \in Nat, NEW d \in Nat, NEW b \in Nat \ {0}, a <= d
  PROVE  a \div b <= d \div b
<1> DEFINE x == a \div b
           y == d \div b
<1>1. x \in Nat /\ x * b <= a /\ y \in Nat /\ d < y * b + b  BY DivFacts
<1> HIDE DEF x, y
<1>2. ASSUME ~(x <= y) PROVE FALSE
  <2>1. y + 1 <= x  BY <1>1, <1>2
  <2>2. (y + 1) * b <= x * b  BY <2>1, <1>1
  <2>3. (y + 1) * b = y * b + b /\ y * b \in Nat /\ x * b \in Nat  BY <1>1
  <2> QED BY <1>1, <2>2, <2>3
<1> QED BY <1>2 DEF x, y

\* What uint32_t keeps of a natural number is no more, and the number itself
\* when it is below 2^32.
LEMMA U32Facts ==
  ASSUME NEW x \in Nat
  PROVE  /\ U32(x) \in Fields /\ U32(x) \in Nat
         /\ U32(x) <= x
         /\ x < Word => U32(x) = x
<1> DEFINE q == x \div Word
<1>1. Word \in Nat \ {0}  BY LayoutAssumption
<1>2. x = Word * q + (x % Word) /\ x % Word \in 0 .. Word - 1  BY <1>1
<1>3. q \in Nat  BY <1>1, DivFacts
<1> HIDE DEF q
<1>4. Word * q \in Nat  BY <1>1, <1>3
<1>5. x < Word => q = 0
  <2> SUFFICES ASSUME x < Word, q # 0 PROVE FALSE  OBVIOUS
  <2>1. 1 * Word <= q * Word  BY <1>1, <1>3
  <2>2. q * Word = Word * q  BY <1>1, <1>3
  <2> QED BY <2>1, <2>2, <1>1, <1>2, <1>4
<1> QED BY <1>1, <1>2, <1>4, <1>5 DEF U32, Fields

\* Division rounded up: enough, and no more than any multiple that is enough.
LEMMA CeilFacts ==
  ASSUME NEW a \in Nat, NEW b \in Nat \ {0}
  PROVE  /\ CeilDiv(a, b) \in Nat
         /\ a <= CeilDiv(a, b) * b
         /\ \A n \in Nat : a <= n * b => CeilDiv(a, b) <= n
<1> DEFINE q == CeilDiv(a, b)
<1>1. a + b - 1 \in Nat  OBVIOUS
<1>2. q \in Nat /\ q * b <= a + b - 1 /\ a + b - 1 < q * b + b
  BY <1>1, DivFacts DEF CeilDiv
<1> HIDE DEF q
<1>3. q * b \in Nat  BY <1>2
<1>4. a <= q * b  BY <1>2, <1>3
<1>5. ASSUME NEW n \in Nat, a <= n * b, ~(q <= n) PROVE FALSE
  <2>1. n + 1 <= q  BY <1>2, <1>5
  <2>2. (n + 1) * b <= q * b  BY <2>1, <1>2
  <2>3. (n + 1) * b = n * b + b  OBVIOUS
  <2>4. n * b \in Nat  OBVIOUS
  <2> QED BY <1>2, <1>3, <1>5, <2>2, <2>3, <2>4
<1> QED BY <1>2, <1>4, <1>5 DEF q

\* Multiplication by a natural number is monotone.
LEMMA MulMono ==
  ASSUME NEW x \in Nat, NEW y \in Nat, NEW c \in Nat, x <= y
  PROVE  x * c <= y * c
OBVIOUS

\* setblocksize: a configured block fits into the sectors it is given.
LEMMA CalcFacts ==
  ASSUME NEW bs \in Nat \ {0}
  PROVE  /\ CalcBlock(bs) \in Nat \ {0}
         /\ RealBlock * CalcBlock(bs) \in Nat \ {0}
         /\ bs <= RealBlock * CalcBlock(bs)
         /\ RealBlock <= RealBlock * CalcBlock(bs)
<1> USE LayoutAssumption
<1> DEFINE c == CalcBlock(bs)
<1>1. c \in Nat /\ bs <= c * RealBlock  BY CeilFacts DEF CalcBlock
<1> HIDE DEF c
<1>2. c # 0  BY <1>1
<1>3. c * RealBlock = RealBlock * c  BY <1>1
<1>4. 1 * RealBlock <= c * RealBlock  BY <1>1, <1>2, MulMono
<1> QED BY <1>1, <1>2, <1>3, <1>4 DEF c

\* The bytes of a configured block, as raw.c computes them: right, or zero when
\* they are exactly 2^32; and right where three blocks take less.
LEMMA BlockBytes ==
  ASSUME NEW bs \in 1 .. Word - 1
  PROVE  /\ blockBytes(bs) = 0 \/ blockBytes(bs) = RealBlock * CalcBlock(bs)
         /\ 3 * bs < Word => blockBytes(bs) = RealBlock * CalcBlock(bs)
<1> DEFINE c == CalcBlock(bs)
           w == Word \div RealBlock
<1>1. /\ RealBlock \in Nat \ {0} /\ Word \in Nat /\ 4 * RealBlock <= Word
      /\ Word % RealBlock = 0
  BY LayoutAssumption
<1>2. bs \in Nat \ {0} /\ bs < Word  BY <1>1
<1>3. w \in Nat /\ Word = w * RealBlock
  <2>1. Word = RealBlock * w + (Word % RealBlock)  BY <1>1
  <2>2. w \in Nat  BY <1>1, DivFacts
  <2> HIDE DEF w
  <2>3. RealBlock * w = w * RealBlock /\ w * RealBlock \in Nat  BY <1>1, <2>2
  <2> QED BY <2>1, <2>2, <2>3, <1>1
<1>4. c \in Nat /\ c <= w
  <2> HIDE DEF w
  <2>1. bs <= w * RealBlock  BY <1>1, <1>2, <1>3
  <2> QED BY <2>1, <1>1, <1>2, <1>3, CeilFacts DEF CalcBlock
<1>5. c * RealBlock <= bs + RealBlock - 1
  <2>1. bs + RealBlock - 1 \in Nat  BY <1>1, <1>2
  <2> QED BY <2>1, <1>1, DivFacts DEF CalcBlock, CeilDiv
<1>6. blockBytes(bs) = U32(RealBlock * c)  BY DEF blockBytes
<1> HIDE DEF c, w
<1>7. c * RealBlock <= w * RealBlock  BY <1>1, <1>3, <1>4, MulMono
<1>8. RealBlock * c = c * RealBlock /\ c * RealBlock \in Nat  BY <1>1, <1>4
<1>9. RealBlock * c <= Word  BY <1>3, <1>7, <1>8
<1>10. U32(Word) = 0
  <2>1. Word % Word = 0
    <3>1. Word = Word * (Word \div Word) + (Word % Word) /\ Word % Word \in 0 .. Word - 1
      BY <1>1
    <3>2. Word \div Word \in Nat  BY <1>1, DivFacts
    <3> DEFINE d == Word \div Word
    <3>3. d # 0  BY <3>1, <1>1
    <3> HIDE DEF d
    <3>4. 1 * Word <= d * Word  BY <3>2, <3>3, <1>1, MulMono DEF d
    <3>5. d * Word = Word * d /\ Word * d \in Nat  BY <3>2, <1>1 DEF d
    <3> QED BY <3>1, <3>4, <3>5, <1>1 DEF d
  <2> QED BY <2>1 DEF U32
<1>11. RealBlock * c < Word => U32(RealBlock * c) = RealBlock * c  BY <1>8, U32Facts
<1>12. 3 * bs < Word => RealBlock * c < Word  BY <1>1, <1>2, <1>5, <1>8
<1>13. RealBlock * c = Word => U32(RealBlock * c) = 0  BY <1>10
<1>14. RealBlock * c < Word \/ RealBlock * c = Word  BY <1>8, <1>9, <1>1
<1> QED BY <1>6, <1>11, <1>12, <1>13, <1>14 DEF c

\* A write of b bytes takes at most the n blocks that hold them, or one.
LEMMA BlocksAtMost ==
  ASSUME NEW bs \in 1 .. Word - 1, NEW b \in Nat, NEW n \in Nat,
         b <= n * (RealBlock * CalcBlock(bs)),
         n # 0 \/ 3 * bs < Word
  PROVE  nBlocks(bs, b) \in Nat /\ nBlocks(bs, b) <= n
<1> DEFINE S == RealBlock * CalcBlock(bs)
<1>1. bs \in Nat \ {0}  BY LayoutAssumption
<1>2. S \in Nat \ {0}  BY <1>1, CalcFacts
<1>3. b <= n * S  OBVIOUS
<1> HIDE DEF S
<1>4. CASE blockBytes(bs) = S
  <2>1. CeilDiv(b, S) \in Nat /\ CeilDiv(b, S) <= n  BY <1>2, <1>3, CeilFacts
  <2> QED BY <2>1, <1>4, <1>2 DEF nBlocks
<1>5. CASE blockBytes(bs) = 0
  <2>1. n # 0  BY <1>2, <1>5, BlockBytes DEF S
  <2> QED BY <2>1, <1>5 DEF nBlocks
<1> QED BY <1>4, <1>5, BlockBytes DEF S

\* The bounds of a partition are sector numbers.
LEMMA PartNat ==
  ASSUME NEW k \in Parts
  PROVE  GPT[k].base \in Nat /\ GPT[k].high \in Nat
<1>1. GPT \in Seq([base : Nat, high : Nat])  BY LayoutAssumption
<1>2. k \in 1 .. Len(GPT)  BY <1>1, LenProperties DEF Parts
<1>3. GPT[k] \in [base : Nat, high : Nat]  BY <1>1, <1>2, ElementOfSeq
<1> QED BY <1>3

\* A write of at most n blocks at block p ends before block q when p + n <= q.
LEMMA ExtentOrder ==
  ASSUME NEW k \in Parts, NEW bs \in 1 .. Word - 1, 3 * bs < Word, NEW w, NEW v,
         NEW p \in Nat, NEW q \in Nat, NEW n \in Nat, NEW b1 \in Nat, NEW b2,
         b1 <= n * (RealBlock * CalcBlock(bs)), p + n <= q
  PROVE  Extent(k, bs, w, p, b1).hi <= Extent(k, bs, v, q, b2).lo
<1> DEFINE c == CalcBlock(bs)
           m == nBlocks(bs, b1)
<1>1. c \in Nat
  <2>1. bs \in Nat \ {0}  BY LayoutAssumption
  <2> QED BY <2>1, CalcFacts
<1>2. m \in Nat /\ m <= n  BY BlocksAtMost
<1>3. GPT[k].base \in Nat  BY PartNat
<1>4. /\ Extent(k, bs, w, p, b1).hi = GPT[k].base + p * c + m * c
      /\ Extent(k, bs, v, q, b2).lo = GPT[k].base + q * c
  BY DEF Extent
<1> HIDE DEF c, m
<1>5. (p + m) * c <= q * c  BY <1>1, <1>2, MulMono
<1>6. (p + m) * c = p * c + m * c  BY <1>1, <1>2
<1>7. p * c \in Nat /\ m * c \in Nat /\ q * c \in Nat  BY <1>1, <1>2
<1> QED BY <1>3, <1>4, <1>5, <1>6, <1>7

----------------------------------------------------------------------------
\* The positions of the regions, in blocks, when no product wraps: each region
\* ends before the next begins.
LEMMA Positions ==
  ASSUME NEW b \in Nat \ {0}, NEW L \in Nat \ {0}, (L + 2) * b < Word,
         NEW cs \in Nat, NEW i \in Nat
  PROVE  LET m == U32(CLUSTERMAPOFFSET(L) * b)
             d == DATAFIRSTOFFSET(L, cs \div b) * b
         IN  /\ LOGBLOCKOFFSET = 1 /\ 1 + L <= m /\ m \in Nat
             /\ d \in Nat /\ m + cs <= d + i /\ 1 + L <= d + i
<1> DEFINE q == cs \div b
           o == L + 2
<1>1. q \in Nat /\ q * b \in Nat /\ cs < q * b + b  BY DivFacts
<1>2. o \in Nat /\ 1 + L <= o /\ LOGBLOCKOFFSET = 1 /\ LOGBLOCKOFFSET + L + 1 = o
  BY DEF LOGBLOCKOFFSET
<1>3. o * b < Word  OBVIOUS
<1> HIDE DEF q, o
<1>4. o * b \in Nat /\ o <= o * b
  <2>1. 1 * o <= b * o  BY <1>2, MulMono
  <2> QED BY <2>1, <1>2
<1>5. o < Word /\ Word \in Nat  BY <1>2, <1>3, <1>4, LayoutAssumption
<1>6. CLUSTERMAPOFFSET(L) = o  BY <1>2, <1>5, U32Facts DEF CLUSTERMAPOFFSET
<1>7. U32(o * b) = o * b  BY <1>3, <1>4, U32Facts
<1>8. DATAFIRSTOFFSET(L, q) = o + q + 1  BY <1>6 DEF DATAFIRSTOFFSET
<1>9. (o + q + 1) * b = o * b + q * b + b /\ (o + q + 1) * b \in Nat  BY <1>1, <1>2
<1>10. o * b + cs <= (o + q + 1) * b + i /\ 1 + L <= o * b  BY <1>1, <1>2, <1>4, <1>9
<1> QED BY <1>1, <1>2, <1>4, <1>6, <1>7, <1>8, <1>9, <1>10 DEF q

\* The root block that formatpart writes.
FormatRoot(k, f) ==
    [bs |-> f.bs, nlog |-> f.nlog, cs |-> U32(CLUSTERMAPSECTORS_CALC(k, f.nlog, f.bs))]

\* Every signature on disk was written by formatpart.
RootsMade ==
    /\ root \in [Parts -> Root]
    /\ \A k \in Signed : \E f \in Formats : root[k] = FormatRoot(k, f)

\* The size that formatpart computes for the cluster map is a natural number:
\* the partition is larger than its log.
LEMMA MapSizeNat ==
  ASSUME NEW k \in Parts, NEW f \in Formats
  PROVE  /\ f.bs \in 1 .. Word - 1 /\ f.nlog \in 1 .. Word - 1
         /\ CLUSTERMAPSECTORS_CALC(k, f.nlog, f.bs) \in Nat
<1> DEFINE n == GPT[k].high - (GPT[k].base + f.nlog)
<1>1. f.bs \in 1 .. Word - 1 /\ f.nlog \in 1 .. Word - 1  BY LayoutAssumption
<1>2. GPT[k].base + f.nlog < GPT[k].high  BY LayoutAssumption DEF Parts
<1>3. Word \in Nat  BY LayoutAssumption
<1>4. n \in Nat /\ f.bs \in Nat \ {0}  BY <1>1, <1>2, <1>3, PartNat
<1> HIDE DEF n
<1>5. n * ItemSize \in Nat  BY <1>4, LayoutAssumption
<1>6. CeilDiv(n * ItemSize, f.bs) \in Nat  BY <1>4, <1>5, CeilFacts
<1> QED BY <1>1, <1>6 DEF CLUSTERMAPSECTORS_CALC, n

\* A signature on disk is that of a root block with a block size, a log and the
\* low 32 bits of the size of its map.
LEMMA SignedRoot ==
  ASSUME RootsMade, NEW k \in Signed
  PROVE  /\ k \in Parts /\ k \in Nat
         /\ root[k].bs \in 1 .. Word - 1 /\ root[k].nlog \in 1 .. Word - 1
         /\ CLUSTERMAPSECTORS_CALC(k, root[k].nlog, root[k].bs) \in Nat
         /\ root[k].cs = U32(CLUSTERMAPSECTORS_CALC(k, root[k].nlog, root[k].bs))
         /\ root[k].cs \in Fields /\ root[k].cs \in Nat
<1>1. k \in Parts  BY DEF Signed
<1>2. PICK f \in Formats : root[k] = FormatRoot(k, f)  BY DEF RootsMade
<1> DEFINE n == CLUSTERMAPSECTORS_CALC(k, f.nlog, f.bs)
<1>3. root[k].bs = f.bs /\ root[k].nlog = f.nlog /\ root[k].cs = U32(n)
  BY <1>2 DEF FormatRoot
<1>4. f.bs \in 1 .. Word - 1 /\ f.nlog \in 1 .. Word - 1 /\ n \in Nat  BY <1>1, MapSizeNat
<1>5. n = CLUSTERMAPSECTORS_CALC(k, root[k].nlog, root[k].bs)  BY <1>3
<1> HIDE DEF n
<1>6. U32(n) \in Fields /\ U32(n) \in Nat  BY <1>4, U32Facts
<1>7. k \in 1 .. Len(GPT) /\ Len(GPT) \in Nat
  BY <1>1, LayoutAssumption, LenProperties DEF Parts
<1> QED BY <1>1, <1>3, <1>4, <1>5, <1>6, <1>7

\* The layout of every root block that formatpart writes is free of overlaps
\* when its products fit.
LEMMA LayoutDisjoint == RootsMade => RegionsDisjoint
<1> SUFFICES ASSUME RootsMade, NEW k \in Signed, Fits(k, root[k])
             PROVE  LET r == root[k]
                        m == NewMapExtent(k, r)
                    IN  /\ Disjoint(RootExtent(k, r), LogExtent(k, r))
                        /\ Disjoint(LogExtent(k, r), m)
                        /\ \A i \in 0 .. nClusterItems(r) - 1 :
                               /\ Disjoint(m, DataExtent(k, r, i))
                               /\ Disjoint(LogExtent(k, r), DataExtent(k, r, i))
                               /\ DataExtent(k, r, i).hi <= DataExtent(k, r, i + 1).lo
                        /\ MapExtent(k, r, r.cs).hi <= m.hi
  BY DEF RegionsDisjoint
<1> DEFINE r == root[k]
           b == r.bs
           L == r.nlog
           cs == r.cs
           S == RealBlock * CalcBlock(b)
           m == U32(CLUSTERMAPOFFSET(L) * b)
           d == DATAFIRSTOFFSET(L, cs \div b) * b
<1>1. k \in Parts /\ b \in 1 .. Word - 1 /\ L \in 1 .. Word - 1 /\ cs \in Nat
  BY SignedRoot
<1>2. b \in Nat \ {0} /\ L \in Nat \ {0} /\ Word \in Nat
  <2>1. Word \in Nat  BY LayoutAssumption
  <2> HIDE DEF b, L
  <2> QED BY <1>1, <2>1
<1>3. (L + 2) * b < Word
  <2>1. (LOGBLOCKOFFSET + L + 1) * b < Word  BY DEF Fits
  <2>2. LOGBLOCKOFFSET + L + 1 = L + 2  BY <1>2 DEF LOGBLOCKOFFSET
  <2> QED BY <2>1, <2>2
<1>4. NewMapExtent(k, r) = MapExtent(k, r, cs * b)
  <2> DEFINE n == CLUSTERMAPSECTORS_CALC(k, L, b)
  <2>1. n \in Nat /\ cs = U32(n)  BY SignedRoot
  <2>2. n < Word  BY DEF Fits
  <2> HIDE DEF n
  <2>3. cs = n  BY <2>1, <2>2, U32Facts
  <2> QED BY <2>3 DEF NewMapExtent, n
<1> HIDE DEF r
<1>5. S \in Nat \ {0} /\ b <= S /\ RealBlock <= S  BY <1>2, CalcFacts
<1>6. /\ LOGBLOCKOFFSET = 1 /\ 1 + L <= m /\ m \in Nat
      /\ \A i \in Nat : d \in Nat /\ m + cs <= d + i /\ 1 + L <= d + i
  BY <1>1, <1>2, <1>3, Positions
<1>7. /\ RootExtent(k, r) = Extent(k, b, "root", 0, RootSize)
      /\ LogExtent(k, r) = Extent(k, b, "log", 1, U32(b * L))
      /\ \A x : MapExtent(k, r, x) = Extent(k, b, "map", m, x)
      /\ \A i : DataExtent(k, r, i) = Extent(k, b, "data", d + i, b)
  BY <1>6 DEF RootExtent, LogExtent, MapExtent, DataExtent, nClusterSectors
<1>8. nClusterItems(r) \in Nat
  BY <1>1, DivFacts, LayoutAssumption DEF nClusterItems
<1> HIDE DEF S, b, L, cs, m, d
<1>9. 3 * b < Word
  <2>1. 3 * b <= (L + 2) * b
    <3>1. 3 <= L + 2 /\ L + 2 \in Nat  BY <1>2
    <3> QED BY <3>1, <1>2, MulMono
  <2>2. (L + 2) * b \in Nat  BY <1>2
  <2> QED BY <2>1, <2>2, <1>2, <1>3
<1>10. RootSize <= 1 * S /\ RootSize \in Nat  BY <1>5, LayoutAssumption
<1>11. U32(b * L) \in Nat /\ U32(b * L) <= L * S
  <2>1. b * L <= S * L  BY <1>2, <1>5, MulMono
  <2>2. b * L \in Nat /\ S * L = L * S /\ L * S \in Nat  BY <1>2, <1>5
  <2>3. U32(b * L) \in Nat /\ U32(b * L) <= b * L  BY <2>2, U32Facts
  <2> QED BY <2>1, <2>2, <2>3
<1>12. cs * b <= cs * S /\ cs * b \in Nat
  <2>1. b * cs <= S * cs  BY <1>1, <1>2, <1>5, MulMono DEF cs
  <2>2. b * cs = cs * b /\ S * cs = cs * S  BY <1>1, <1>2, <1>5 DEF cs
  <2> QED BY <2>1, <2>2, <1>1, <1>2 DEF cs
<1>13. b <= 1 * S  BY <1>2, <1>5
<1>14. cs \in Nat /\ b \in 1 .. Word - 1  BY <1>1 DEF cs, b
<1>15. RootExtent(k, r).hi <= LogExtent(k, r).lo
  <2>1. 0 \in Nat /\ 1 \in Nat /\ 0 + 1 <= 1  OBVIOUS
  <2> QED BY <2>1, <1>1, <1>7, <1>9, <1>10, <1>14, ExtentOrder DEF S
<1>16. LogExtent(k, r).hi <= NewMapExtent(k, r).lo
  <2>1. 1 \in Nat /\ L \in Nat  BY <1>2
  <2> QED BY <2>1, <1>1, <1>4, <1>6, <1>7, <1>9, <1>11, <1>14, ExtentOrder DEF S
<1>17. ASSUME NEW i \in Nat
       PROVE  /\ NewMapExtent(k, r).hi <= DataExtent(k, r, i).lo
              /\ LogExtent(k, r).hi <= DataExtent(k, r, i).lo
              /\ DataExtent(k, r, i).hi <= DataExtent(k, r, i + 1).lo
  <2>1. d + i \in Nat /\ d + (i + 1) \in Nat /\ d + i + 1 <= d + (i + 1)  BY <1>6
  <2>2. m \in Nat /\ m + cs <= d + i /\ 1 + L <= d + i /\ 1 \in Nat /\ L \in Nat
    BY <1>2, <1>6
  <2>3. NewMapExtent(k, r).hi <= DataExtent(k, r, i).lo
    BY <2>1, <2>2, <1>1, <1>4, <1>7, <1>9, <1>12, <1>14, ExtentOrder DEF S
  <2>4. LogExtent(k, r).hi <= DataExtent(k, r, i).lo
    BY <2>1, <2>2, <1>1, <1>7, <1>9, <1>11, <1>14, ExtentOrder DEF S
  <2>5. DataExtent(k, r, i).hi <= DataExtent(k, r, i + 1).lo
    <3>1. b \in Nat  BY <1>2
    <3> QED BY <3>1, <2>1, <1>1, <1>7, <1>9, <1>13, <1>14, ExtentOrder DEF S
  <2> QED BY <2>3, <2>4, <2>5
<1>18. MapExtent(k, r, cs).hi <= NewMapExtent(k, r).hi
  <2> DEFINE x == CeilDiv(cs, S)
             y == CeilDiv(cs * b, S)
             c == CalcBlock(b)
             lo == GPT[k].base + m * c
  <2>1. cs <= cs * b
    <3>1. 1 * cs <= b * cs  BY <1>2, <1>14, MulMono
    <3> QED BY <3>1, <1>2, <1>14
  <2>2. y \in Nat /\ cs * b <= y * S  BY <1>5, <1>12, CeilFacts
  <2>3. cs <= y * S  BY <2>1, <2>2, <1>5, <1>12, <1>14
  <2>4. x \in Nat /\ x <= y  BY <2>2, <2>3, <1>5, <1>14, CeilFacts
  <2>5. c \in Nat /\ GPT[k].base \in Nat  BY <1>1, <1>2, CalcFacts, PartNat
  <2>6. blockBytes(b) = S  BY <1>9, <1>14, BlockBytes DEF S
  <2>7. MapExtent(k, r, cs).hi = lo + x * c /\ MapExtent(k, r, cs * b).hi = lo + y * c
    BY <1>5, <1>7, <2>6 DEF Extent, nBlocks
  <2>8. lo \in Nat  BY <2>5, <1>6
  <2> HIDE DEF x, y, c, lo
  <2>9. x * c <= y * c /\ x * c \in Nat /\ y * c \in Nat  BY <2>2, <2>4, <2>5, MulMono
  <2> QED BY <2>7, <2>8, <2>9, <1>4
<1>19. nClusterItems(r) - 1 \in Int /\ \A i \in 0 .. nClusterItems(r) - 1 : i \in Nat
  BY <1>8
<1> QED BY <1>15, <1>16, <1>17, <1>18, <1>19 DEF Disjoint, r, cs

----------------------------------------------------------------------------
(* The states of the partitions.                                           *)

\* formatpart runs alone, on a partition that already has its signature.
FmtOK ==
    /\ fmt \in [ph : {"none", "log", "map"}, part : Nat, bs : Fields, nlog : Fields]
    /\ ~Idle => /\ mnt = NoMount
                /\ fmt.part \in Signed /\ fmt.bs = root[fmt.part].bs

\* What is mounted is a root block on disk.
MntOK ==
    /\ mnt \in [part : Nat, bs : Fields, nlog : Fields, cs : Fields]
    /\ mnt # NoMount => /\ mnt.part \in Signed /\ mnt.bs = root[mnt.part].bs
                        /\ mnt.nlog = root[mnt.part].nlog /\ mnt.cs = root[mnt.part].cs

\* Where there is a signature the map is cleared, or was going to be when
\* formatpart was interrupted, or is going to be.
MapsOK ==
    /\ map \in [Parts -> {"foreign", "zero", "flushed"}]
    /\ torn \subseteq Parts
    /\ \A k \in Signed :
          \/ map[k] # "foreign"
          \/ k \in torn
          \/ ~Idle /\ fmt.part = k

\* The blocks that a file system with root block r takes at most: its positions
\* may wrap, its map is cleared in the size computed in 64 bits.
Taken(k, r) ==
    LET n == CLUSTERMAPSECTORS_CALC(k, r.nlog, r.bs)
    IN  (r.nlog + 3) * r.bs + n + n \div ItemSize

\* Every write lies between the start of a formatted partition and the end of
\* the blocks its file system takes.
IoOK ==
    \A e \in io :
        /\ e.lo \in Nat /\ e.hi \in Nat /\ e.lo <= e.hi /\ e.part \in Signed
        /\ GPT[e.part].base <= e.lo
        /\ e.hi <= GPT[e.part].base + Taken(e.part, root[e.part]) * CalcBlock(root[e.part].bs)

LayoutInv == RootsMade /\ FmtOK /\ MntOK /\ MapsOK /\ IoOK

\* Every partition is large enough for every format a client asks for.
LargeEnough ==
    \A k \in Parts, f \in Formats :
        GPT[k].base + Taken(k, f) * CalcBlock(f.bs) <= GPT[k].high + 1

\* A write of at most n blocks at block p lies in the first p + n blocks of its
\* partition.
LEMMA ExtentBounds ==
  ASSUME NEW k \in Parts, NEW bs \in 1 .. Word - 1, NEW w,
         NEW p \in Nat, NEW n \in Nat \ {0}, NEW b \in Nat, NEW t \in Nat,
         b <= n * (RealBlock * CalcBlock(bs)), p + n <= t
  PROVE  LET e == Extent(k, bs, w, p, b)
         IN  /\ e.lo \in Nat /\ e.hi \in Nat /\ e.lo <= e.hi /\ e.part = k
             /\ GPT[k].base <= e.lo
             /\ e.hi <= GPT[k].base + t * CalcBlock(bs)
<1> DEFINE c == CalcBlock(bs)
           m == nBlocks(bs, b)
<1>1. c \in Nat
  <2>1. bs \in Nat \ {0}  BY LayoutAssumption
  <2> QED BY <2>1, CalcFacts
<1>2. m \in Nat /\ m <= n  BY BlocksAtMost
<1>3. GPT[k].base \in Nat  BY PartNat
<1>4. /\ Extent(k, bs, w, p, b).hi = GPT[k].base + p * c + m * c
      /\ Extent(k, bs, w, p, b).lo = GPT[k].base + p * c
      /\ Extent(k, bs, w, p, b).part = k
  BY DEF Extent
<1> HIDE DEF c, m
<1>5. (p + m) * c <= t * c
  <2>1. p + m \in Nat /\ p + m <= t  BY <1>2
  <2> QED BY <2>1, <1>1, MulMono
<1>6. (p + m) * c = p * c + m * c  BY <1>1, <1>2
<1>7. p * c \in Nat /\ m * c \in Nat /\ t * c \in Nat  BY <1>1, <1>2
<1> QED BY <1>3, <1>4, <1>5, <1>6, <1>7 DEF c

\* An extent inside the blocks that a file system with root block r takes.
Inside(k, r, e) ==
    /\ e.lo \in Nat /\ e.hi \in Nat /\ e.lo <= e.hi /\ e.part = k
    /\ GPT[k].base <= e.lo
    /\ e.hi <= GPT[k].base + Taken(k, r) * CalcBlock(r.bs)

\* Every region of a file system is inside them.
LEMMA RegionsInside ==
  ASSUME NEW k \in Parts, NEW r, r.bs \in 1 .. Word - 1, r.nlog \in 1 .. Word - 1,
         r.cs \in Nat,
         CLUSTERMAPSECTORS_CALC(k, r.nlog, r.bs) \in Nat,
         r.cs <= CLUSTERMAPSECTORS_CALC(k, r.nlog, r.bs)
  PROVE  /\ Inside(k, r, RootExtent(k, r))
         /\ Inside(k, r, LogExtent(k, r))
         /\ Inside(k, r, NewMapExtent(k, r))
         /\ Inside(k, r, MapExtent(k, r, r.cs))
         /\ \A i \in 0 .. nClusterItems(r) - 1 : Inside(k, r, DataExtent(k, r, i))
<1> DEFINE b == r.bs
           L == r.nlog
           cs == r.cs
           n == CLUSTERMAPSECTORS_CALC(k, L, b)
           S == RealBlock * CalcBlock(b)
           q == cs \div b
           j == cs \div ItemSize
           g == n \div ItemSize
           o == CLUSTERMAPOFFSET(L)
           m == U32(o * b)
           t == Taken(k, r)
<1>1. /\ b \in 1 .. Word - 1 /\ b \in Nat \ {0} /\ L \in Nat \ {0}
      /\ cs \in Nat /\ n \in Nat /\ cs <= n
  BY LayoutAssumption
<1>2. S \in Nat \ {0} /\ b <= S /\ RealBlock <= S  BY <1>1, CalcFacts
<1>3. q \in Nat /\ q * b \in Nat /\ q * b <= cs  BY SMTT(30), <1>1, DivFacts
<1>4. j \in Nat /\ g \in Nat /\ j <= g
  <2> HIDE DEF n, cs
  <2> QED BY <1>1, DivFacts, DivMono, LayoutAssumption
<1>5. o \in Nat /\ o <= L + 2
  <2>1. LOGBLOCKOFFSET + L + 1 = L + 2 /\ L + 2 \in Nat  BY <1>1 DEF LOGBLOCKOFFSET
  <2> HIDE DEF L
  <2> QED BY <2>1, U32Facts DEF CLUSTERMAPOFFSET
<1>6. t = (L + 3) * b + n + g  BY DEF Taken
<1>7. /\ RootExtent(k, r) = Extent(k, b, "root", 0, RootSize)
      /\ LogExtent(k, r) = Extent(k, b, "log", 1, U32(b * L))
      /\ \A x : MapExtent(k, r, x) = Extent(k, b, "map", m, x)
      /\ \A i : DataExtent(k, r, i) = Extent(k, b, "data", (o + q + 1) * b + i, b)
      /\ NewMapExtent(k, r) = MapExtent(k, r, n * b)
      /\ nClusterItems(r) = j
  BY DEF RootExtent, LogExtent, MapExtent, DataExtent, nClusterSectors, NewMapExtent,
         LOGBLOCKOFFSET, DATAFIRSTOFFSET, nClusterItems
<1>8. \A e : /\ e.lo \in Nat /\ e.hi \in Nat /\ e.lo <= e.hi /\ e.part = k
            /\ GPT[k].base <= e.lo
            /\ e.hi <= GPT[k].base + t * CalcBlock(b)
            => Inside(k, r, e)
  BY DEF Inside
<1> HIDE DEF b, L, cs, n, q, j, g, o, t
<1>9. o * b <= (L + 2) * b /\ o * b \in Nat
  <2>1. L + 2 \in Nat  BY <1>1
  <2> QED BY <2>1, <1>1, <1>5, MulMono
<1>10. m \in Nat /\ m <= o * b  BY <1>9, U32Facts
<1> HIDE DEF m
<1>11. /\ (L + 3) * b = L * b + 3 * b /\ (L + 2) * b = L * b + 2 * b
       /\ (o + q + 1) * b = o * b + q * b + b
       /\ L * b \in Nat /\ 3 * b \in Nat /\ 2 * b \in Nat /\ 3 * b = 2 * b + b /\ 2 <= 2 * b
  BY <1>1, <1>3, <1>5
<1>12. L <= L * b
  <2>1. 1 * L <= b * L  BY <1>1, MulMono
  <2> QED BY <2>1, <1>1
<1>13. t \in Nat /\ t = L * b + 2 * b + b + n + g  BY <1>1, <1>4, <1>6, <1>11
<1>14. Inside(k, r, RootExtent(k, r))
  <2>1. RootSize <= 1 * S /\ RootSize \in Nat  BY <1>2, LayoutAssumption
  <2>2. 0 + 1 <= t  BY <1>1, <1>4, <1>11, <1>13
  <2> QED BY <2>1, <2>2, <1>1, <1>7, <1>8, <1>13, ExtentBounds DEF S
<1>15. Inside(k, r, LogExtent(k, r))
  <2>1. U32(b * L) <= L * S /\ U32(b * L) \in Nat
    <3>1. b * L <= S * L  BY <1>1, <1>2, MulMono
    <3>2. b * L \in Nat /\ S * L = L * S /\ L * S \in Nat  BY <1>1, <1>2
    <3>3. U32(b * L) \in Nat /\ U32(b * L) <= b * L  BY <3>2, U32Facts
    <3> QED BY <3>1, <3>2, <3>3
  <2>2. 1 + L <= t  BY <1>1, <1>4, <1>11, <1>12, <1>13
  <2> QED BY <2>1, <2>2, <1>1, <1>7, <1>8, <1>13, ExtentBounds DEF S
<1>16. ASSUME NEW x \in Nat, x <= (n + 1) * S PROVE Inside(k, r, MapExtent(k, r, x))
  <2>1. m + (n + 1) <= t  BY <1>1, <1>4, <1>9, <1>10, <1>11, <1>13
  <2>2. n + 1 \in Nat \ {0}  BY <1>1
  <2> QED BY <2>1, <2>2, <1>1, <1>7, <1>8, <1>10, <1>13, <1>16, ExtentBounds DEF S
<1>17. n * b <= (n + 1) * S /\ n * b \in Nat /\ cs <= (n + 1) * S
  <2>1. b * n <= S * n /\ 1 * n <= S * n  BY <1>1, <1>2, MulMono
  <2>2. b * n = n * b /\ S * n = n * S /\ b * n \in Nat /\ 1 * n = n  BY <1>1, <1>2
  <2>3. (n + 1) * S = n * S + S /\ n * S \in Nat  BY <1>1, <1>2
  <2> QED BY <2>1, <2>2, <2>3, <1>1, <1>2
<1>18. ASSUME NEW i \in 0 .. j - 1 PROVE Inside(k, r, DataExtent(k, r, i))
  <2> DEFINE p == (o + q + 1) * b + i
  <2>1. i \in Nat /\ i + 1 <= j  BY <1>4
  <2>2. p \in Nat /\ p + 1 <= t  BY <2>1, <1>1, <1>3, <1>4, <1>9, <1>11, <1>13
  <2>3. DataExtent(k, r, i) = Extent(k, b, "data", p, b)  BY <1>7
  <2> HIDE DEF p
  <2>4. b <= 1 * S /\ b \in Nat  BY <1>1, <1>2
  <2> QED BY <2>2, <2>3, <2>4, <1>1, <1>8, <1>13, ExtentBounds DEF S
<1>19. Inside(k, r, NewMapExtent(k, r)) /\ Inside(k, r, MapExtent(k, r, cs))
  BY <1>1, <1>7, <1>16, <1>17
<1> QED BY <1>7, <1>14, <1>15, <1>18, <1>19 DEF cs

\* Nothing is formatted, mounted or written yet.
LEMMA InitLayout == Init => LayoutInv
<1> SUFFICES ASSUME Init PROVE LayoutInv  OBVIOUS
<1>1. Signed = {}  BY DEF Init, Signed
<1>2. Idle /\ mnt = NoMount /\ io = {} /\ torn = {}  BY DEF Init, Idle, NoFmt
<1>3. 0 \in Fields  BY LayoutAssumption DEF Fields
<1>4. FmtOK /\ MntOK  BY <1>2, <1>3 DEF FmtOK, MntOK, Init, NoFmt, NoMount
<1>5. MapsOK  BY <1>1, <1>2 DEF MapsOK, Init
<1>6. RootsMade  BY <1>1, <1>3 DEF RootsMade, Init, NoRoot, Root
<1> QED BY <1>2, <1>4, <1>5, <1>6 DEF LayoutInv, IoOK

\* A step that keeps the root blocks and writes only regions of formatted file
\* systems keeps what is known of the root blocks and of the writes.
LEMMA SameRoots ==
  ASSUME LayoutInv, UNCHANGED root,
         \A e \in io' : e \in io \/ \E k \in Signed : Inside(k, root[k], e)
  PROVE  Signed' = Signed /\ RootsMade' /\ IoOK'
<1>1. Signed' = Signed  BY DEF Signed
<1>2. RootsMade'  BY <1>1 DEF LayoutInv, RootsMade
<1>3. ASSUME NEW e \in io'
      PROVE  /\ e.lo \in Nat /\ e.hi \in Nat /\ e.lo <= e.hi /\ e.part \in Signed
             /\ GPT[e.part].base <= e.lo
             /\ e.hi <= GPT[e.part].base + Taken(e.part, root[e.part]) * CalcBlock(root[e.part].bs)
  BY <1>3 DEF LayoutInv, IoOK, Inside
<1>4. IoOK'  BY <1>1, <1>3 DEF IoOK
<1> QED BY <1>1, <1>2, <1>4

\* The regions of a formatted file system are inside its blocks, for the root
\* block on disk and for the mounted one.
LEMMA SignedInside ==
  ASSUME RootsMade, NEW k \in Signed, NEW r,
         r.bs = root[k].bs, r.nlog = root[k].nlog, r.cs = root[k].cs
  PROVE  /\ Inside(k, root[k], RootExtent(k, r))
         /\ Inside(k, root[k], LogExtent(k, r))
         /\ Inside(k, root[k], NewMapExtent(k, r))
         /\ Inside(k, root[k], MapExtent(k, r, r.cs))
         /\ \A i \in 0 .. nClusterItems(r) - 1 : Inside(k, root[k], DataExtent(k, r, i))
<1> DEFINE n == CLUSTERMAPSECTORS_CALC(k, root[k].nlog, root[k].bs)
<1>1. /\ k \in Parts /\ r.bs \in 1 .. Word - 1 /\ r.nlog \in 1 .. Word - 1
      /\ r.cs \in Nat /\ n \in Nat /\ r.cs = U32(n)
  BY SignedRoot
<1>2. r.cs <= n
  <2> HIDE DEF n
  <2> QED BY <1>1, U32Facts
<1>3. \A e : Inside(k, r, e) = Inside(k, root[k], e)  BY DEF Inside, Taken
<1> QED BY <1>1, <1>2, <1>3, RegionsInside

\* formatpart's first write: the only signature on the disk is the new one.
LEMMA FormatRootKeeps ==
  ASSUME LayoutInv, NEW k \in Parts, NEW f \in Formats, formatRoot(k, f)
  PROVE  LayoutInv'
<1> DEFINE r == FormatRoot(k, f)
<1>1. /\ Idle /\ mnt = NoMount /\ Signed = {}
      /\ root' = [root EXCEPT ![k] = r]
      /\ fmt' = [ph |-> "log", part |-> k, bs |-> f.bs, nlog |-> f.nlog]
      /\ io' = {RootExtent(k, r)}
      /\ UNCHANGED <<map, mnt, torn>>
  BY DEF formatRoot, FormatRoot
<1> DEFINE n == CLUSTERMAPSECTORS_CALC(k, f.nlog, f.bs)
<1>2. /\ f.bs \in 1 .. Word - 1 /\ f.nlog \in 1 .. Word - 1 /\ n \in Nat
      /\ r.bs = f.bs /\ r.nlog = f.nlog /\ r.cs = U32(n) /\ r \in Root
      /\ f.bs # 0
  <2>1. /\ f.bs \in 1 .. Word - 1 /\ f.nlog \in 1 .. Word - 1 /\ n \in Nat  BY MapSizeNat
  <2>2. r = [bs |-> f.bs, nlog |-> f.nlog, cs |-> U32(n)]  BY DEF FormatRoot
  <2> HIDE DEF n, r
  <2>3. U32(n) \in Fields /\ Word \in Nat  BY <2>1, U32Facts, LayoutAssumption
  <2>4. f.bs \in Fields /\ f.nlog \in Fields /\ f.bs # 0  BY <2>1, <2>3 DEF Fields
  <2> QED BY <2>1, <2>2, <2>3, <2>4 DEF Root
<1>3. r # NoRoot
  <2>1. NoRoot.bs = 0 /\ r.bs # 0  BY <1>2 DEF NoRoot
  <2> QED BY <2>1
<1> HIDE DEF r
<1>4. root'[k] = r /\ \A j \in Parts : j # k => root'[j] = root[j]
  BY <1>1 DEF LayoutInv, RootsMade
<1>5. Signed' = {k}  BY <1>1, <1>3, <1>4 DEF Signed
<1>6. k \in Nat  BY <1>5, LayoutAssumption, LenProperties DEF Parts
<1>7. RootsMade'
  <2>1. root' \in [Parts -> Root]  BY <1>1, <1>2 DEF LayoutInv, RootsMade
  <2>2. root'[k] = FormatRoot(k, f)  BY <1>4 DEF r
  <2> QED BY <2>1, <2>2, <1>5 DEF RootsMade, FormatRoot, CLUSTERMAPSECTORS_CALC
<1>8. FmtOK'
  <2>1. fmt' \in [ph : {"none", "log", "map"}, part : Nat, bs : Fields, nlog : Fields]
    <3>1. f.bs \in Fields /\ f.nlog \in Fields  BY <1>2 DEF Root
    <3> QED BY <3>1, <1>1, <1>6
  <2>2. fmt'.part = k /\ fmt'.bs = f.bs  BY <1>1
  <2> QED BY <2>1, <2>2, <1>1, <1>2, <1>4, <1>5 DEF FmtOK
<1>9. MntOK'  BY <1>1 DEF LayoutInv, MntOK
<1>10. MapsOK'
  <2>1. fmt'.part = k /\ ~Idle'  BY <1>1 DEF Idle
  <2> QED BY <2>1, <1>1, <1>5 DEF LayoutInv, MapsOK
<1>11. IoOK'
  <2>1. n = CLUSTERMAPSECTORS_CALC(k, r.nlog, r.bs)  BY <1>2
  <2>2. r.cs \in Nat /\ r.cs <= n
    <3> HIDE DEF n
    <3> QED BY <1>2, U32Facts
  <2>3. Inside(k, r, RootExtent(k, r))  BY <2>1, <2>2, <1>2, RegionsInside
  <2> QED BY <2>3, <1>1, <1>4, <1>5 DEF IoOK, Inside
<1> QED BY <1>7, <1>8, <1>9, <1>10, <1>11 DEF LayoutInv

\* fmount mounts the root block of the first partition that has a signature.
LEMMA FmountKeeps ==
  ASSUME LayoutInv, fmount
  PROVE  LayoutInv'
<1> DEFINE k == Min(Signed)
<1>1. /\ Idle /\ Signed # {}
      /\ mnt' = [part |-> k, bs |-> root[k].bs, nlog |-> root[k].nlog, cs |-> root[k].cs]
      /\ io' = {} /\ UNCHANGED <<root, map, fmt, torn>>
  BY DEF fmount
<1>2. k \in Signed
  <2>1. Signed \in SUBSET Nat  BY SignedRoot DEF LayoutInv
  <2> QED BY <2>1, <1>1, MinIsLeast
<1> HIDE DEF k
<1>3. k \in Nat /\ root[k] \in Root
  BY <1>2, SignedRoot DEF LayoutInv, RootsMade
<1>4. Signed' = Signed /\ RootsMade' /\ IoOK'  BY <1>1, SameRoots
<1>5. FmtOK'  BY <1>1 DEF LayoutInv, FmtOK, Idle
<1>6. MntOK'  BY <1>1, <1>2, <1>3, <1>4 DEF MntOK, Root
<1>7. MapsOK'  BY <1>1, <1>4 DEF LayoutInv, MapsOK, Idle
<1> QED BY <1>4, <1>5, <1>6, <1>7 DEF LayoutInv

\* Clearing the log and the map of the partition that is being formatted.
LEMMA FormatRestKeeps ==
  ASSUME LayoutInv, formatLog \/ formatMap
  PROVE  LayoutInv'
<1> DEFINE k == fmt.part
<1>1. ~Idle /\ UNCHANGED <<root, mnt, torn>>  BY DEF formatLog, formatMap, Idle
<1>2. mnt = NoMount /\ k \in Signed /\ fmt.bs = root[k].bs  BY <1>1 DEF LayoutInv, FmtOK
<1>3. k \in Parts /\ k \in Nat  BY <1>2, SignedRoot DEF LayoutInv
<1>4. /\ Inside(k, root[k], LogExtent(k, root[k]))
      /\ Inside(k, root[k], NewMapExtent(k, root[k]))
  BY <1>2, SignedInside DEF LayoutInv
<1>5. MntOK'  BY <1>1, <1>2, SameRoots DEF LayoutInv, MntOK
<1>6. CASE formatLog
  <2>1. /\ fmt' = [fmt EXCEPT !.ph = "map"] /\ io' = {LogExtent(k, root[k])} /\ UNCHANGED map
    BY <1>6 DEF formatLog
  <2>2. Signed' = Signed /\ RootsMade' /\ IoOK'  BY <2>1, <1>1, <1>2, <1>4, SameRoots
  <2>3. /\ fmt' \in [ph : {"none", "log", "map"}, part : Nat, bs : Fields, nlog : Fields]
        /\ fmt'.ph = "map" /\ fmt'.part = fmt.part /\ fmt'.bs = fmt.bs
    BY <2>1 DEF LayoutInv, FmtOK
  <2>4. FmtOK'  BY <2>2, <2>3, <1>1, <1>2 DEF FmtOK
  <2>5. MapsOK'  BY <2>1, <2>2, <2>3, <1>1 DEF LayoutInv, MapsOK, Idle
  <2> QED BY <2>2, <2>4, <2>5, <1>5 DEF LayoutInv
<1>7. CASE formatMap
  <2>1. /\ fmt' = NoFmt /\ map' = [map EXCEPT ![k] = "zero"]
        /\ io' = {NewMapExtent(k, root[k])}
    BY <1>7 DEF formatMap
  <2>2. Signed' = Signed /\ RootsMade' /\ IoOK'  BY <2>1, <1>1, <1>2, <1>4, SameRoots
  <2>3. Idle'  BY <2>1 DEF Idle, NoFmt
  <2>4. FmtOK'  BY <2>1, <2>3, LayoutAssumption DEF FmtOK, NoFmt, Fields
  <2>5. map \in [Parts -> {"foreign", "zero", "flushed"}]  BY DEF LayoutInv, MapsOK
  <2>6. /\ map' \in [Parts -> {"foreign", "zero", "flushed"}] /\ map'[k] = "zero"
        /\ \A j \in Parts : j # k => map'[j] = map[j]
    BY <2>1, <2>5, <1>3
  <2>7. MapsOK'
    <3>1. ASSUME NEW j \in Signed PROVE map'[j] # "foreign" \/ j \in torn
      <4>1. j \in Parts  BY SignedRoot DEF LayoutInv
      <4> QED BY <4>1, <2>6 DEF LayoutInv, MapsOK
    <3> QED BY <3>1, <2>2, <2>6, <1>1 DEF LayoutInv, MapsOK
  <2> QED BY <2>2, <2>4, <2>7, <1>5 DEF LayoutInv
<1> QED BY <1>6, <1>7

\* Flushing and writing: nothing is being formatted while a file system is mounted.
LEMMA MountedKeeps ==
  ASSUME LayoutInv, fuloadroot \/ \E i \in 0 .. nClusterItems(mnt) - 1 : writedata(i)
  PROVE  LayoutInv'
<1> DEFINE k == mnt.part
<1>1. mnt # NoMount /\ UNCHANGED <<root, fmt, mnt, torn>>  BY DEF fuloadroot, writedata
<1>2. /\ k \in Signed /\ mnt.bs = root[k].bs /\ mnt.nlog = root[k].nlog /\ mnt.cs = root[k].cs
  BY <1>1 DEF LayoutInv, MntOK
<1>3. /\ Inside(k, root[k], RootExtent(k, mnt)) /\ Inside(k, root[k], MapExtent(k, mnt, mnt.cs))
      /\ \A i \in 0 .. nClusterItems(mnt) - 1 : Inside(k, root[k], DataExtent(k, mnt, i))
  BY <1>2, SignedInside DEF LayoutInv
<1>4. \A e \in io' : Inside(k, root[k], e)
  <2>1. CASE fuloadroot  BY <2>1, <1>3 DEF fuloadroot
  <2>2. ASSUME NEW i \in 0 .. nClusterItems(mnt) - 1, writedata(i)
        PROVE  \A e \in io' : Inside(k, root[k], e)
    BY <2>2, <1>3 DEF writedata
  <2> QED BY <2>1, <2>2
<1>5. Signed' = Signed /\ RootsMade' /\ IoOK'  BY <1>1, <1>2, <1>4, SameRoots
<1>6. FmtOK'  BY <1>1, <1>5 DEF LayoutInv, FmtOK, Idle
<1>7. MntOK'  BY <1>1, <1>5 DEF LayoutInv, MntOK
<1>8. map \in [Parts -> {"foreign", "zero", "flushed"}]  BY DEF LayoutInv, MapsOK
<1>9. k \in Parts  BY <1>2, SignedRoot DEF LayoutInv
<1>10. /\ map' \in [Parts -> {"foreign", "zero", "flushed"}]
       /\ \A j \in Parts : map[j] # "foreign" => map'[j] # "foreign"
  <2>1. CASE fuloadroot
    <3>1. map' = [map EXCEPT ![k] = IF @ = "foreign" THEN @ ELSE "flushed"]  
      BY <2>1 DEF fuloadroot
    <3> QED BY <3>1, <1>8, <1>9
  <2>2. CASE UNCHANGED map  BY <2>2, <1>8
  <2> QED BY <2>1, <2>2 DEF writedata
<1>11. MapsOK'
  <2>1. ASSUME NEW j \in Signed PROVE map'[j] # "foreign" \/ j \in torn \/ (~Idle /\ fmt.part = j)
    <3>1. j \in Parts  BY SignedRoot DEF LayoutInv
    <3> QED BY <3>1, <1>10 DEF LayoutInv, MapsOK
  <2> QED BY <2>1, <1>1, <1>5, <1>10 DEF LayoutInv, MapsOK, Idle
<1> QED BY <1>5, <1>6, <1>7, <1>11 DEF LayoutInv

\* A crash in the middle of formatpart leaves a torn partition.
LEMMA CrashKeeps ==
  ASSUME LayoutInv, Crash
  PROVE  LayoutInv'
<1>1. /\ fmt' = NoFmt /\ mnt' = NoMount /\ io' = {} /\ UNCHANGED <<root, map>>
      /\ torn' = IF Idle THEN torn ELSE torn \cup {fmt.part}
  BY DEF Crash
<1>2. Signed' = Signed /\ RootsMade' /\ IoOK'  BY <1>1, SameRoots
<1>3. FmtOK' /\ MntOK'  BY <1>1, LayoutAssumption DEF FmtOK, MntOK, Idle, NoFmt, NoMount, Fields
<1>4. ~Idle => fmt.part \in Parts  BY SignedRoot DEF LayoutInv, FmtOK
<1>5. MapsOK'  BY <1>1, <1>2, <1>4 DEF LayoutInv, MapsOK
<1> QED BY <1>2, <1>3, <1>5 DEF LayoutInv

\* In every behaviour.
LEMMA LayoutInductive == Spec => []LayoutInv
<1>1. LayoutInv /\ [Next]_vars => LayoutInv'
  <2> SUFFICES ASSUME LayoutInv, [Next]_vars PROVE LayoutInv'
    OBVIOUS
  <2>1. CASE UNCHANGED vars
    <3>1. UNCHANGED <<root, map, fmt, mnt, io, torn>>  BY <2>1 DEF vars
    <3>2. Signed' = Signed /\ RootsMade' /\ IoOK'  BY <3>1, SameRoots
    <3> QED BY <3>1, <3>2 DEF LayoutInv, FmtOK, MntOK, MapsOK, Idle
  <2> QED BY <2>1, FmountKeeps, FormatRootKeeps, FormatRestKeeps, MountedKeeps, CrashKeeps DEF Next
<1> QED BY <1>1, InitLayout, PTL DEF Spec

\* In every behaviour, whatever the sector size, the partition table, the block
\* size and the number of log sectors, what formatpart lays out does not overlap,
\* as long as the position of the map and the size of the map fit into 32 bits.
\* Formats that wrap are allowed: nothing is promised for them.
THEOREM LayoutRegionsDisjoint == Spec => []RegionsDisjoint
<1>1. LayoutInv => RegionsDisjoint  BY LayoutDisjoint DEF LayoutInv
<1> QED BY <1>1, LayoutInductive, PTL

\* No step of formatpart, fmount or fuloadroot leaves the types: in particular
\* every sector number is a natural number and every mounted root is one on disk.
THEOREM LayoutTypeCorrect == Spec => []TypeOK
<1>1. LayoutInv => TypeOK
  <2> SUFFICES ASSUME LayoutInv PROVE TypeOK  OBVIOUS
  <2> QED BY DEF LayoutInv, RootsMade, FmtOK, MntOK, MapsOK, IoOK, TypeOK
<1> QED BY <1>1, LayoutInductive, PTL

\* Whenever a file system mounts, formatpart has cleared its cluster map, or was
\* interrupted on that partition: only a crash between the signature and
\* the map (formatpart writes the signature first) makes a foreign map mountable.
THEOREM LayoutMountedMapWritten == Spec => []MountedMapWritten
<1>1. LayoutInv => MountedMapWritten
  <2> SUFFICES ASSUME LayoutInv, mnt # NoMount, mnt.part \notin torn
               PROVE  map[mnt.part] # "foreign"
    BY DEF MountedMapWritten
  <2>1. Idle /\ mnt.part \in Signed  BY DEF LayoutInv, FmtOK, MntOK
  <2> QED BY <2>1 DEF LayoutInv, MapsOK
<1> QED BY <1>1, LayoutInductive, PTL

\* Where every partition holds the blocks that its format takes, which formatpart
\* does not compare, no write leaves its partition.  The bound is explicit:
\* nlog + 3 positions of bs blocks each, the map's blocks and one block per entry.
THEOREM LayoutInsidePartition ==
  ASSUME LargeEnough
  PROVE  Spec => []InsidePartition
<1>1. LayoutInv => InsidePartition
  <2> SUFFICES ASSUME LayoutInv, NEW e \in io
               PROVE  GPT[e.part].base <= e.lo /\ e.hi <= GPT[e.part].high + 1
    BY DEF InsidePartition
  <2> DEFINE k == e.part
             t == GPT[k].base + Taken(k, root[k]) * CalcBlock(root[k].bs)
  <2>1. k \in Signed /\ GPT[k].base <= e.lo /\ e.hi \in Nat /\ e.hi <= t
    BY DEF LayoutInv, IoOK
  <2>2. PICK f \in Formats : root[k] = FormatRoot(k, f)  BY <2>1 DEF LayoutInv, RootsMade
  <2>3. k \in Parts  BY <2>1 DEF Signed
  <2>4. t <= GPT[k].high + 1
    <3>1. root[k].bs = f.bs /\ root[k].nlog = f.nlog  BY <2>2 DEF FormatRoot
    <3> QED BY <3>1, <2>3 DEF LargeEnough, Taken
  <2>5. t \in Nat
    <3> DEFINE n == CLUSTERMAPSECTORS_CALC(k, f.nlog, f.bs)
               L == f.nlog
               b == f.bs
    <3>1. n \in Nat /\ b \in Nat \ {0} /\ L \in Nat
      BY <2>3, MapSizeNat, LayoutAssumption
    <3>2. CalcBlock(b) \in Nat /\ GPT[k].base \in Nat  BY <3>1, <2>3, CalcFacts, PartNat
    <3>3. root[k].bs = b /\ Taken(k, root[k]) = (L + 3) * b + n + n \div ItemSize
      BY <2>2 DEF FormatRoot, Taken
    <3> HIDE DEF k, n, L, b
    <3>4. n \div ItemSize \in Nat  BY <3>1, DivFacts, LayoutAssumption
    <3>5. (L + 3) * b \in Nat  BY <3>1
    <3>6. Taken(k, root[k]) \in Nat  BY <3>1, <3>3, <3>4, <3>5
    <3>7. Taken(k, root[k]) * CalcBlock(b) \in Nat  BY <3>2, <3>6
    <3> QED BY <3>2, <3>3, <3>7
  <2>6. GPT[k].high + 1 \in Nat  BY <2>3, PartNat
  <2> HIDE DEF t, k
  <2>7. e.hi <= GPT[k].high + 1  BY <2>1, <2>4, <2>5, <2>6
  <2> QED BY <2>1, <2>7 DEF k
<1> QED BY <1>1, LayoutInductive, PTL
=============================================================================
