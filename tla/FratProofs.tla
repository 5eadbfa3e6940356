----------------------------- MODULE FratProofs -----------------------------
(***************************************************************************)
(* Proofs about Frat for every size of the disk, every set of paths and    *)
(* every set of client inputs.                                             *)
(***************************************************************************)
EXTENDS Frat, FratMapProofs, SequenceTheorems

----------------------------------------------------------------------------
(* Types of the constant expressions of the model.                         *)

\* The blocks the operations write are blocks.
LEMMA BlockTypes ==
  /\ Zero \in Block /\ Junk \in Block
  /\ Zero.cells \in Cells /\ Junk.cells \in Cells
  /\ \A f \in Cells : Data(f) \in Block
  /\ \A b \in Block : Stamp(b) \in Block
  /\ \A e \in fsblock : finit(e) \in Block
  /\ \A e \in Seq(Entry) : Dir(e) \in Block
<1>1. /\ Zero \in Block /\ Junk \in Block
      /\ Zero.cells \in Cells /\ Junk.cells \in Cells
      /\ \A f \in Cells : Data(f) \in Block
  BY DEF Zero, Junk, Data, Block, Cells, Cell
<1>2. \A b \in Block : Stamp(b) \in Block  BY <1>1 DEF Stamp
<1>3. \A e \in fsblock : finit(e) \in Block
  BY DEF finit, Meta, Block, fsblock, Codes
<1>4. \A e \in Seq(Entry) : Dir(e) \in Block  BY DEF Dir, Block
<1> QED BY <1>1, <1>2, <1>3, <1>4

\* Any block can be read as a block of cells.
LEMMA CellsOfType == ASSUME NEW b \in Block PROVE CellsOf(b) \in Cells
<1>1. CASE \E f \in Cells : b = Data(f)  BY <1>1, BlockTypes DEF CellsOf, Data
<1>2. CASE b \in [kind : {"meta"}, code : Codes, attr : SUBSET Attributes]
  BY <1>2, BlockTypes DEF CellsOf
<1>3. CASE b \in [kind : {"dir"}, ents : Seq(Entry)]  BY <1>3, BlockTypes DEF CellsOf
<1> QED BY <1>1, <1>2, <1>3 DEF Block

\* The initial and reset values have the types of the variables.
LEMMA ConstTypes ==
  /\ 0 \in Clusters /\ AnyPath \in Paths
  /\ Idle \in Call /\ Closed \in fhandle /\ NoFrame \in Frame
<1>1. 0 \in Clusters  BY MapAssumption DEF Clusters
<1>2. AnyPath \in Paths  BY FratAssumption DEF AnyPath
<1>3. B \in 0 .. PosMax /\ 0 \in 0 .. PosMax  BY FratAssumption
<1>4. Closed \in fhandle  BY <1>1, <1>2, <1>3 DEF Closed, fhandle
<1>5. NoFrame \in Frame  BY <1>1, BlockTypes DEF NoFrame, Frame, Phases
<1>6. (CHOOSE h \in Handles : TRUE) \in Handles /\ (CHOOSE v \in Values : TRUE) \in Values
  BY FratAssumption
<1>7. Idle \in Call  BY <1>2, <1>3, <1>6 DEF Idle, Call, Calls
<1> QED BY <1>1, <1>2, <1>4, <1>5, <1>7

----------------------------------------------------------------------------
(* Directory blocks.                                                       *)

\* Passing over the entries of a directory keeps it a list of entries.
LEMMA PassedType ==
  ASSUME NEW e \in Seq(Entry), NEW k
  PROVE  Passed(e, k) \in Seq(Entry) /\ Len(Passed(e, k)) = Len(e)
<1>1. e \in [1 .. Len(e) -> Entry] /\ Len(e) \in Nat  BY LenProperties
<1>2. \A j \in 1 .. Len(e) : [e[j] EXCEPT !.last = FALSE] \in Entry
  BY <1>1 DEF Entry
<1>3. Passed(e, k) \in [1 .. Len(e) -> Entry]  BY <1>1, <1>2 DEF Passed
<1>4. Passed(e, k) \in Seq(Entry)  BY <1>1, <1>3, SeqDef
<1> QED BY <1>1, <1>3, <1>4, LenProperties

\* __fdiradd turns a list of entries into a list of entries.
LEMMA fdiraddType ==
  ASSUME NEW e \in Seq(Entry), NEW p \in Paths
  PROVE  fdiradd(e, p) \in Seq(Entry)
<1>1. [code |-> p, last |-> TRUE] \in Entry  BY DEF Entry, Codes
<1>2. CASE Slots(e, p) # {}
  <2> DEFINE k == Min(Slots(e, p))
             s == Passed(e, k)
  <2>1. Slots(e, p) \in SUBSET Nat  BY LenProperties DEF Slots
  <2>2. k \in Slots(e, p)  BY <1>2, <2>1, MinIsLeast
  <2>3. s \in Seq(Entry) /\ Len(s) = Len(e)  BY PassedType
  <2>4. k \in 1 .. Len(s)  BY <2>2, <2>3 DEF Slots
  <2> HIDE DEF s, k
  <2>5. \A x \in Entry : [s EXCEPT ![k] = x] \in Seq(Entry)
    BY <2>3, <2>4, ExceptSeq
  <2>6. s[k] \in Entry  BY <2>3, <2>4, ElementOfSeq
  <2>7. (IF s[k].code = p THEN s[k] ELSE [code |-> p, last |-> TRUE]) \in Entry
    BY <2>6, <1>1
  <2>8. [s EXCEPT ![k] = IF s[k].code = p THEN s[k] ELSE [code |-> p, last |-> TRUE]]
           \in Seq(Entry)
    BY <2>5, <2>7
  <2> QED BY <1>2, <2>8 DEF fdiradd, s, k
<1>3. CASE Slots(e, p) = {}
  <2>1. Passed(e, Len(e) + 1) \in Seq(Entry)  BY PassedType
  <2>2. Append(Passed(e, Len(e) + 1), [code |-> p, last |-> TRUE]) \in Seq(Entry)
    BY <2>1, <1>1, AppendProperties
  <2> QED BY <1>3, <2>2 DEF fdiradd
<1> QED BY <1>2, <1>3

\* What a block holds when it is read as a directory.
LEMMA EntsType ==
  ASSUME NEW b \in Block, IsDir(b)
  PROVE  Ents(b) \in Seq(Entry)
<1>1. CASE b = Zero
  <2>1. <<>> \in Seq(Entry)  BY EmptySeq
  <2> QED BY <1>1, <2>1 DEF Ents
<1>2. CASE b # Zero
  <2>1. b.kind = "dir"  BY <1>2 DEF IsDir
  <2>2. b \in [kind : {"dir"}, ents : Seq(Entry)]  BY <2>1 DEF Block, Data
  <2> QED BY <1>2, <2>2 DEF Ents
<1> QED BY <1>1, <1>2

----------------------------------------------------------------------------
(* Positions.                                                              *)

\* A wrapped position is a position.
LEMMA WrapType == ASSUME NEW n \in Int PROVE Wrap(n) \in 0 .. PosMax
<1>1. PosMax + 1 \in Nat /\ PosMax + 1 > 0  BY FratAssumption
<1>2. n % (PosMax + 1) \in 0 .. (PosMax + 1) - 1  BY <1>1
<1> QED BY <1>2, FratAssumption DEF Wrap

\* The block number and the offset of a position.
LEMMA DivMod ==
  ASSUME NEW n \in Nat
  PROVE  n \div B \in Nat /\ n % B \in 0 .. B - 1
BY FratAssumption

\* The smaller of two numbers.
LEMMA MinOfTwo ==
  ASSUME NEW x \in Nat, NEW y \in Nat
  PROVE  /\ Min({x, y}) \in Nat /\ Min({x, y}) <= x /\ Min({x, y}) <= y
         /\ Min({x, y}) = x \/ Min({x, y}) = y
<1>1. {x, y} \in SUBSET Nat /\ {x, y} # {}  OBVIOUS
<1>2. Min({x, y}) \in {x, y} /\ \A z \in {x, y} : Min({x, y}) <= z
  BY <1>1, MinIsLeast
<1> QED BY <1>2

\* The larger of two numbers.
LEMMA MaxOfTwo ==
  ASSUME NEW x \in Nat, NEW y \in Nat
  PROVE  /\ Max({x, y}) \in Nat /\ Max({x, y}) >= x
         /\ \A z \in Nat : x <= z /\ y <= z => Max({x, y}) <= z
<1>1. \E z \in {x, y} : \A w \in {x, y} : z >= w
  <2>1. CASE x >= y  BY <2>1
  <2>2. CASE y >= x  BY <2>2
  <2> QED BY <2>1, <2>2
<1>2. Max({x, y}) \in {x, y} /\ \A w \in {x, y} : Max({x, y}) >= w
  BY <1>1 DEF Max
<1> QED BY <1>2

\* _fread stops at a position that is a natural number.
LEMMA ReadStopsType ==
  ASSUME NEW h, NEW pos \in Nat, NEW n \in Nat \ {0}
  PROVE  Min(ReadStops(h, pos, n)) \in Nat
<1>1. pos \div B \in Nat  BY DivMod
<1>2. (pos + n - 1) \div B \in Nat
  <2>1. pos + n - 1 \in Nat  OBVIOUS
  <2> QED BY <2>1, DivMod
<1>3. Touched(pos, n) \subseteq Nat  BY <1>1, <1>2 DEF Touched
<1>4. \A i \in Nat : i * B \in Nat  BY FratAssumption
<1>5. \A i \in Nat : Max({pos, i * B}) \in Nat  BY <1>4, MaxOfTwo
<1>6. ReadStops(h, pos, n) \in SUBSET Nat /\ ReadStops(h, pos, n) # {}
  <2> DEFINE D == {j \in Touched(pos, n) : ~HasBlock(h, j)}
             M == {Max({pos, i * B}) : i \in D}
  <2>1. D \subseteq Nat  BY <1>3
  <2> HIDE DEF D
  <2>2. M \subseteq Nat  BY <2>1, <1>5
  <2>3. ReadStops(h, pos, n) = {pos + n} \cup M  BY DEF ReadStops, D
  <2> HIDE DEF M
  <2> QED BY <2>2, <2>3
<1> QED BY <1>6, MinIsLeast

----------------------------------------------------------------------------
(* The activation records of __fcreate.                                    *)

\* The edits of the activation records keep them activation records.
LEMMA FrameTypes ==
  ASSUME NEW f \in [Paths -> Frame], NEW p \in Paths
  PROVE  /\ \A flags \in SUBSET Letters : Enter(f, p, flags) \in [Paths -> Frame]
         /\ \A ph \in Phases : [f EXCEPT ![p].ph = ph] \in [Paths -> Frame]
         /\ [f EXCEPT ![p] = NoFrame] \in [Paths -> Frame]
         /\ \A ph \in Phases, c \in Clusters :
               [f EXCEPT ![p].ph = ph, ![p].cl = c] \in [Paths -> Frame]
         /\ \A ph \in Phases, b \in Block :
               [f EXCEPT ![p].ph = ph, ![p].arr = b] \in [Paths -> Frame]
<1>1. NoFrame \in Frame  BY ConstTypes
<1>2. ASSUME NEW r \in Frame
      PROVE  /\ \A ph \in Phases : [r EXCEPT !.ph = ph] \in Frame
             /\ \A flags \in SUBSET Letters :
                   [r EXCEPT !.ph = "alloc", !.flags = flags] \in Frame
             /\ \A ph \in Phases, c \in Clusters : [r EXCEPT !.ph = ph, !.cl = c] \in Frame
             /\ \A ph \in Phases, b \in Block : [r EXCEPT !.ph = ph, !.arr = b] \in Frame
  BY <1>2 DEF Frame, Phases
<1>3. f[p] \in Frame  OBVIOUS
<1>4. \A flags \in SUBSET Letters : Enter(f, p, flags) \in [Paths -> Frame]
  BY <1>1, <1>2 DEF Enter
<1>5. \A ph \in Phases : [f EXCEPT ![p].ph = ph] \in [Paths -> Frame]
  BY <1>2, <1>3
<1>6. \A ph \in Phases, c \in Clusters :
         [f EXCEPT ![p].ph = ph, ![p].cl = c] \in [Paths -> Frame]
  BY <1>2, <1>3
<1>7. \A ph \in Phases, b \in Block :
         [f EXCEPT ![p].ph = ph, ![p].arr = b] \in [Paths -> Frame]
  BY <1>2, <1>3
<1> QED BY <1>1, <1>4, <1>5, <1>6, <1>7

\* Losing the memory resets every variable to a value of its type.
LEMMA LoseTypes ==
  ASSUME Lose
  PROVE  /\ up' = FALSE /\ map' = EmptyMap /\ lastAlloc' = 0 /\ cur' = Idle
         /\ map' \in [Clusters -> fsblock] /\ lastAlloc' \in Clusters
         /\ fh' \in [Handles -> fhandle] /\ fr' \in [Paths -> Frame] /\ cur' \in Call
BY ConstTypes, EmptyMapOK DEF Lose, Map

----------------------------------------------------------------------------
(* Type correctness.  The types of the map edits depend on CallsOK: the    *)
(* entry __faddr takes as the family must be an entry of the map.          *)

\* Every step of __fcreate keeps the types.
LEMMA TypeCreate ==
  ASSUME TypeOK, CallsOK, MapInv, NEW p \in Paths, fcreateStep(p)
  PROVE  TypeOK'
<1> USE DEF TypeOK
<1>0. fr[p] \in Frame /\ Parent[p] \in Paths \cup {NoParent}
  BY FratAssumption
<1>1. Phases = {"none", "alloc", "parent", "wait", "dir", "dirblk", "init"}
  BY DEF Phases
<1>2. Cleared(p) \in [Clusters -> fsblock]
  BY ffremoveOK DEF Cleared, MapInv, Map
<1>3. CASE fcreateExists(p)
  BY <1>3, FrameTypes DEF fcreateExists, Return, disk
<1>4. CASE fcreateAlloc(p)
  <2> DEFINE m == Cleared(p)
             c == allocatecluster(m, lastAlloc)
  <2>1. c \in Clusters /\ m[c].code = Unused
    BY <1>4, AllocIsFree DEF fcreateAlloc
  <2>2. NewHead(m, c, p, fr[p].flags) \in [Clusters -> fsblock]
    <3>1. CreateAttr(fr[p].flags) \subseteq Attributes  BY DEF CreateAttr, Attributes
    <3>2. m[c] \in fsblock  BY <1>2, <2>1
    <3> QED BY <1>2, <2>1, <3>1, <3>2 DEF NewHead, fsblock, Codes
  <2>3. fr' \in [Paths -> Frame]
    BY <1>4, <1>1, <2>1, FrameTypes DEF fcreateAlloc
  <2>4. cur' \in Call  BY <1>4 DEF fcreateAlloc, Call
  <2> QED BY <1>4, <2>1, <2>2, <2>3, <2>4 DEF fcreateAlloc, disk
<1>5. CASE fcreateFull(p)
  BY <1>5, <1>2, ConstTypes, FrameTypes DEF fcreateFull, Return, disk
<1>6. CASE fgetparent(p)
  <2>1. [fr EXCEPT ![p].ph = "wait"] \in [Paths -> Frame]  BY <1>1, FrameTypes
  <2>2. {"d", "c"} \in SUBSET Letters  BY DEF Letters
  <2>3. Parent[p] # NoParent =>
           Enter([fr EXCEPT ![p].ph = "wait"], Parent[p], {"d", "c"}) \in [Paths -> Frame]
    BY <1>0, <2>1, <2>2, FrameTypes
  <2>4. [fr EXCEPT ![p].ph = "init"] \in [Paths -> Frame]  BY <1>1, FrameTypes
  <2> QED BY <1>6, <2>1, <2>3, <2>4 DEF fgetparent, disk
<1>7. CASE floadhdir(p)
  <2>1. fr' \in [Paths -> Frame]
    BY ZenonT(40), <1>7, <1>1, FrameTypes DEF floadhdir, Goto
  <2> QED BY <1>7, <2>1 DEF floadhdir, disk
<1>8. CASE fdiraddGrow(p)
  <2> DEFINE c == allocatecluster(map, lastAlloc)
             f == ffind(map, Parent[p])
  <2>1. c \in Clusters  BY <1>8, AllocIsFree DEF fdiraddGrow
  <2>2. f \in Clusters
    BY <1>8, FindHead DEF fdiraddGrow, CallsOK, InPhase
  <2>3. Cardinality(Owned(map, map[f].code)) \in Nat  BY OwnedFinite
  <2> HIDE DEF c, f
  <2>4. faddr(map, c, f) \in [Clusters -> fsblock]
    BY <2>1, <2>2, <2>3 DEF faddr, fsblock
  <2>5. blk' \in [Clusters -> Block]
    BY <1>8, BlockTypes DEF fdiraddGrow
  <2> QED BY <1>8, <2>1, <2>4, <2>5 DEF fdiraddGrow, c, f
<1>9. CASE fdiraddSpin(p)
  BY <1>9, ConstTypes DEF fdiraddSpin, disk
<1>10. DirBlock(p) \in Block \/ ~Found(map, Parent[p], 1)
  BY FindHits DEF DirBlock
<1>11. CASE fdiraddEntry(p)
  <2>1. fdiradd(Ents(DirBlock(p)), p) \in Seq(Entry)
    BY <1>10, <1>11, EntsType, fdiraddType DEF fdiraddEntry
  <2>2. Dir(fdiradd(Ents(DirBlock(p)), p)) \in Block  BY <2>1, BlockTypes
  <2>3. fr' \in [Paths -> Frame]
    BY <1>11, <2>2, <1>1, FrameTypes DEF fdiraddEntry
  <2> QED BY <1>11, <2>3 DEF fdiraddEntry
<1>12. CASE fdiraddOverrun(p)
  <2>1. CASE Lose /\ UNCHANGED dmap
    BY <1>12, <2>1, LoseTypes DEF fdiraddOverrun
  <2>2. CASE ~(Lose /\ UNCHANGED dmap)
    <3> DEFINE b == IF IsDir(DirBlock(p))
                    THEN Dir(Passed(Ents(DirBlock(p)), DirCap + 1)) ELSE Junk
    <3>1. b \in Block
      BY <1>10, <1>12, EntsType, PassedType, BlockTypes DEF fdiraddOverrun
    <3> HIDE DEF b
    <3>2. fr' = [fr EXCEPT ![p].ph = "dirblk", ![p].arr = b]
      BY <1>12, <2>2 DEF fdiraddOverrun, b
    <3>3. fr' \in [Paths -> Frame]  BY <3>1, <3>2, <1>1, FrameTypes
    <3> QED BY <1>12, <2>2, <3>3 DEF fdiraddOverrun
  <2> QED BY <2>1, <2>2
<1>13. CASE fuloaddir(p)
  <2>1. fr[p].arr \in Block  BY <1>0 DEF Frame
  <2>2. blk' \in [Clusters -> Block]
    BY <1>13, <2>1, BlockTypes DEF fuloaddir
  <2>3. fr' \in [Paths -> Frame]
    BY <1>13, <1>1, FrameTypes DEF fuloaddir, Goto
  <2> QED BY <1>13, <2>2, <2>3 DEF fuloaddir
<1>14. CASE fcreateInit(p)
  <2>1. fr[p].cl \in Clusters  BY <1>0 DEF Frame
  <2>2. finit(map[fr[p].cl]) \in Block  BY <2>1, BlockTypes
  <2>3. blk' \in [Clusters -> Block]  BY <1>14, <2>2 DEF fcreateInit
  <2> QED BY <1>14, <2>3, FrameTypes DEF fcreateInit, Return
<1> QED BY <1>3, <1>4, <1>5, <1>6, <1>7, <1>8, <1>9, <1>11, <1>12, <1>13, <1>14
        DEF fcreateStep

\* Every turn of the loop of _fwrite keeps the types.
LEMMA TypeWrite ==
  ASSUME TypeOK, CallsOK, MapInv, fwriteStep
  PROVE  TypeOK'
<1> USE DEF TypeOK
<1> DEFINE h     == cur.h
           i     == cur.pos \div B
           off   == cur.pos % B
           chunk == Min({B - off, cur.left})
           pos   == Wrap(cur.pos + chunk)
           c     == allocatecluster(map, lastAlloc)
           new(old) == Data(Overlay(old, off, chunk, cur.val))
<1>1. /\ cur.h \in Handles /\ cur.pos \in Nat /\ cur.left \in Nat
      /\ cur.val \in Values /\ cur \in Call
  BY FratAssumption DEF Call
<1>2. fh[h] \in fhandle /\ fh[h].cl \in Clusters  BY <1>1 DEF fhandle
<1>3. off \in 0 .. B - 1 /\ i \in Nat  BY <1>1, DivMod
<1>4. B - off \in Nat /\ B \in Nat  BY <1>3, FratAssumption
<1>5. chunk \in Nat /\ chunk <= cur.left  BY <1>1, <1>4, MinOfTwo
<1>6. pos \in 0 .. PosMax
  <2> HIDE DEF chunk
  <2>1. cur.pos + chunk \in Int  BY <1>1, <1>5
  <2> QED BY <2>1, WrapType
<1>7. \A f \in Cells : new(f) \in Block
  <2> HIDE DEF chunk, off
  <2>1. \A f \in Cells : Overlay(f, off, chunk, cur.val) \in Cells
    BY <1>1 DEF Overlay, Cells, Cell
  <2> QED BY <2>1, BlockTypes
<1> HIDE DEF i, off, chunk, pos, new
<1>8. cur' \in Call /\ fh' \in [Handles -> fhandle]
  <2>1. CASE chunk = cur.left
    <3>1. cur' = Idle /\ fh' = [fh EXCEPT ![h].pos = pos]
      BY <2>1 DEF fwriteStep, chunk, pos, off
    <3>2. [fh[h] EXCEPT !.pos = pos] \in fhandle  BY <1>2, <1>6 DEF fhandle
    <3> QED BY <3>1, <3>2, ConstTypes
  <2>2. CASE chunk # cur.left
    <3>1. cur' = [cur EXCEPT !.pos = pos, !.left = cur.left - chunk] /\ fh' = fh
      BY <2>2 DEF fwriteStep, chunk, pos, off
    <3>2. cur.left - chunk \in Nat  BY <1>1, <1>5
    <3> QED BY <3>1, <3>2, <1>1, <1>6 DEF Call
  <2> QED BY <2>1, <2>2
<1>9. /\ map' \in [Clusters -> fsblock] /\ lastAlloc' \in Clusters
      /\ blk' \in [Clusters -> Block]
  <2>1. CASE HasBlock(h, i)
    <3>1. map' = map /\ lastAlloc' = lastAlloc
      BY <2>1 DEF fwriteStep, i
    <3>2. CASE Own(h, i) /\ "metadatacluster" \in map[fh[h].cl].attr
      BY <3>1, <3>2, <2>1 DEF fwriteStep, i
    <3>3. CASE ~(Own(h, i) /\ "metadatacluster" \in map[fh[h].cl].attr)
      <4>1. blk' = [blk EXCEPT ![BlockOf(h, i)] = new(CellsOf(blk[BlockOf(h, i)]))]
        BY <3>3, <2>1 DEF fwriteStep, i, new, off, chunk
      <4>2. BlockOf(h, i) \in Clusters
        BY <1>2, <2>1, FindHits DEF BlockOf, HasBlock
      <4>3. new(CellsOf(blk[BlockOf(h, i)])) \in Block
        BY <4>2, <1>7, CellsOfType
      <4> QED BY <3>1, <4>1, <4>3
    <3> QED BY <3>2, <3>3
  <2>2. CASE ~HasBlock(h, i) /\ CanAlloc(map, lastAlloc)
    <3>1. map' = faddr(map, c, fh[h].cl) /\ lastAlloc' = c
          /\ blk' = [blk EXCEPT ![c] = new(Zero.cells)]
      BY <2>2 DEF fwriteStep, i, new, off, chunk
    <3>2. c \in Clusters  BY <2>2, AllocIsFree
    <3>3. Cardinality(Owned(map, map[fh[h].cl].code)) \in Nat  BY OwnedFinite
    <3> HIDE DEF c
    <3>4. faddr(map, c, fh[h].cl) \in [Clusters -> fsblock]
      BY <1>2, <3>2, <3>3 DEF faddr, fsblock
    <3>5. new(Zero.cells) \in Block  BY <1>7, BlockTypes
    <3> QED BY <3>1, <3>2, <3>4, <3>5
  <2>3. CASE ~HasBlock(h, i) /\ ~CanAlloc(map, lastAlloc)
    <3>1. map' = map /\ blk' = blk /\ lastAlloc' = 0
      BY <2>3 DEF fwriteStep, i
    <3> QED BY <3>1, ConstTypes
  <2> QED BY <2>1, <2>2, <2>3
<1> QED BY <1>8, <1>9 DEF fwriteStep

\* Every call a client makes keeps the types.
LEMMA TypeClient ==
  ASSUME TypeOK, MapInv, Client
  PROVE  TypeOK'
<1> USE DEF TypeOK
<1>0. \A x \in Creates \cup Opens : x[1] \in Paths /\ x[2] \in SUBSET Letters
  BY FratAssumption
<1>1. ASSUME NEW x \in Creates, shellcreate(x[1], x[2])  PROVE TypeOK'
  <2>1. x[1] \in Paths /\ x[2] \cup {"c"} \in SUBSET Letters
    BY <1>0 DEF Letters
  <2>2. fr' \in [Paths -> Frame]  BY <1>1, <2>1, FrameTypes DEF shellcreate
  <2>3. cur' \in Call  BY <1>1, <2>1, ConstTypes DEF shellcreate, Call, Calls
  <2> QED BY <1>1, <2>2, <2>3 DEF shellcreate, disk
<1>2. ASSUME NEW p \in DeletePaths, shelldelete(p) \/ shelldeleteFault(p) \/ removeAll(p)
      PROVE TypeOK'
  <2>0. p \in Paths  BY FratAssumption
  <2>1. CASE shelldelete(p)
    BY <2>0, <2>1, ffremoveOK DEF shelldelete, disk, Map, MapInv
  <2>2. CASE shelldeleteFault(p)
    BY <2>2, LoseTypes DEF shelldeleteFault, disk
  <2>3. CASE removeAll(p)
    BY <2>0, <2>3, ffremovelOK DEF removeAll, disk, Map, MapInv
  <2> QED BY <1>2, <2>1, <2>2, <2>3
<1>3. ASSUME NEW h \in Handles, NEW x \in Opens, shellopen(h, x[1], x[2])  PROVE TypeOK'
  <2>1. x[1] \in Paths /\ x[2] \in SUBSET Letters  BY <1>0
  <2>2. fr' \in [Paths -> Frame]  BY <1>3, <2>1, FrameTypes DEF shellopen
  <2>3. cur' \in Call  BY <1>3, <2>1, ConstTypes DEF shellopen, Call, Calls
  <2> QED BY <1>3, <2>2, <2>3 DEF shellopen, disk
<1>4. ASSUME NEW h \in Handles, fuloadh(h)  PROVE TypeOK'
  BY <1>4, ConstTypes DEF fuloadh
<1>5. ASSUME NEW h \in Handles, NEW x \in 0 .. PosMax, SetPos(h, x)  PROVE TypeOK'
  <2>1. [fh[h] EXCEPT !.pos = x] \in fhandle  BY <1>5 DEF fhandle
  <2> QED BY <1>5, <2>1 DEF SetPos, disk
<1>6. ASSUME NEW h \in Handles, NEW x \in SeekTo, fseek(h, x)  PROVE TypeOK'
  <2>1. (IF x > PosMax - B THEN PosMax ELSE B + x) \in 0 .. PosMax  BY FratAssumption
  <2> QED BY <1>5, <1>6, <2>1 DEF fseek
<1>7. ASSUME NEW h \in Handles, NEW x \in SeekBy, fseeko(h, x)  PROVE TypeOK'
  <2> DEFINE pos == fh[h].pos
             y == IF x < 0 THEN IF pos <= B \/ -x >= pos - B THEN B ELSE pos + x
                  ELSE IF x > PosMax - pos THEN PosMax ELSE pos + x
  <2>1. pos \in 0 .. PosMax  BY DEF fhandle
  <2>2. y \in 0 .. PosMax
    <3> HIDE DEF pos
    <3> QED BY <2>1, FratAssumption
  <2>3. SetPos(h, y)  BY <1>7 DEF fseeko
  <2> HIDE DEF y
  <2> QED BY <2>2, <2>3, <1>5
<1>8. ASSUME NEW h \in Handles, NEW n \in Lengths, fread(h, n)  PROVE TypeOK'
  <2>1. fh[h] \in fhandle /\ fh[h].cl \in Clusters /\ fh[h].pos \in Nat
    BY FratAssumption DEF fhandle
  <2>2. Stamp(blk[fh[h].cl]) \in Block  BY <2>1, BlockTypes
  <2>3. Min(ReadStops(h, fh[h].pos, n)) \in Nat  BY <2>1, ReadStopsType, FratAssumption
  <2>4. Wrap(Min(ReadStops(h, fh[h].pos, n))) \in 0 .. PosMax  BY <2>3, WrapType
  <2>5. fh' \in [Handles -> fhandle]  BY <1>8, <2>1, <2>4 DEF fread, fhandle
  <2>6. blk' \in [Clusters -> Block]  BY <1>8, <2>2 DEF fread
  <2> QED BY <1>8, <2>5, <2>6 DEF fread
<1>9. ASSUME NEW h \in Handles, NEW n \in Lengths, NEW v \in Values, fwriteCall(h, n, v)
      PROVE TypeOK'
  <2>1. fh[h] \in fhandle /\ fh[h].cl \in Clusters /\ fh[h].pos \in 0 .. PosMax /\ n \in Nat
    BY FratAssumption DEF fhandle
  <2>2. Stamp(blk[fh[h].cl]) \in Block  BY <2>1, BlockTypes
  <2>3. blk' \in [Clusters -> Block]  BY <1>9, <2>2 DEF fwriteCall
  <2>4. CASE Lose
    BY <1>9, <2>3, <2>4, LoseTypes DEF fwriteCall
  <2>5. CASE ~Lose
    <3>1. [Idle EXCEPT !.call = "write", !.h = h, !.pos = fh[h].pos, !.left = n, !.val = v]
             \in Call
      BY <2>1, ConstTypes DEF Call, Calls
    <3>2. cur' \in Call  BY <1>9, <2>5, <3>1 DEF fwriteCall
    <3> QED BY <1>9, <2>3, <2>5, <3>2 DEF fwriteCall
  <2> QED BY <2>4, <2>5
<1> QED BY <1>1, <1>2, <1>3, <1>4, <1>6, <1>7, <1>8, <1>9 DEF Client

\* Every step keeps the types.
LEMMA TypeNext ==
  ASSUME TypeOK, CallsOK, MapInv, [Next]_vars
  PROVE  TypeOK'
<1>1. CASE \E p \in Paths : fcreateStep(p)  BY <1>1, TypeCreate
<1>2. CASE shellcreateDone
  BY <1>2, ConstTypes DEF TypeOK, shellcreateDone, Call
<1>3. CASE shellcreateFault
  BY <1>3, LoseTypes DEF TypeOK, shellcreateFault, disk
<1>4. CASE floadh
  <2>1. cur.path \in Paths /\ cur.h \in Handles  BY DEF TypeOK, Call
  <2>2. B \in 0 .. PosMax  BY FratAssumption
  <2>3. Exists(map, cur.path) =>
           [open |-> TRUE, cl |-> ffind(map, cur.path), path |-> cur.path, pos |-> B] \in fhandle
    BY <2>1, <2>2, FindHead DEF fhandle
  <2>4. fh' \in [Handles -> fhandle]  BY <1>4, <2>3 DEF floadh, TypeOK
  <2> QED BY <1>4, <2>4, ConstTypes DEF TypeOK, floadh, disk
<1>5. CASE fwriteStep  BY <1>5, TypeWrite
<1>6. CASE Client  BY <1>6, TypeClient
<1>7. CASE fmount  BY <1>7, ConstTypes DEF TypeOK, fmount, NoteTorn, disk
<1>8. CASE shellexit  BY <1>8, LoseTypes DEF TypeOK, shellexit
<1>9. CASE Crash  BY <1>9, LoseTypes DEF TypeOK, Crash, disk
<1>10. CASE UNCHANGED vars  BY <1>10 DEF TypeOK, vars
<1> QED BY <1>1, <1>2, <1>3, <1>4, <1>5, <1>6, <1>7, <1>8, <1>9, <1>10 DEF Next, Step

----------------------------------------------------------------------------
(* The cluster map stays well formed.                                      *)

\* What 'F' leaves of the map is well formed, lacks the item's metadata
\* entry and agrees with the old map on every other item.
LEMMA ClearedOK ==
  ASSUME TypeOK, MapInv, NEW p \in Paths
  PROVE  /\ Cleared(p) \in Map /\ MapOK(Cleared(p)) /\ ~Exists(Cleared(p), p)
         /\ \A c \in Clusters : Cleared(p)[c].code \in {map[c].code, Unused}
         /\ \A c \in Clusters : map[c].code # p => Cleared(p)[c] = map[c]
         /\ ~Exists(map, p) => Cleared(p) = map
<1> USE DEF TypeOK, MapInv, Map
<1>1. CASE Exists(map, p)
  <2>1. ffind(map, p) \in Clusters /\ map[ffind(map, p)].code = p  BY <1>1, FindHead
  <2>2. Cleared(p) = ffremove(map, p)  BY <1>1 DEF Cleared
  <2>3. \A c \in Clusters : c # ffind(map, p) => ffremove(map, p)[c] = map[c]
    BY <2>1 DEF ffremove
  <2>4. ffremove(map, p)[ffind(map, p)].code = Unused
    BY <2>1 DEF ffremove, fsblock
  <2> HIDE DEF TypeOK, MapInv, Map
  <2>5. map \in Map /\ MapOK(map)  BY DEF TypeOK, MapInv, Map
  <2>6. ffremove(map, p) \in Map /\ MapOK(ffremove(map, p)) /\ ~Exists(ffremove(map, p), p)
    BY <1>1, <2>5, ffremoveOK
  <2> QED BY <1>1, <2>1, <2>2, <2>3, <2>4, <2>6
<1>2. CASE ~Exists(map, p)  BY <1>2 DEF Cleared
<1> QED BY <1>1, <1>2

\* Every step keeps the cached map and the map on disk well formed.
LEMMA MapNext ==
  ASSUME TypeOK, CallsOK, MapInv, [Next]_vars
  PROVE  MapInv'
<1>0. map \in Map /\ dmap \in Map /\ MapOK(map) /\ MapOK(dmap)
  BY DEF TypeOK, MapInv, Map
<1>a. MapOK(EmptyMap)  BY EmptyMapOK
<1>b. ASSUME map' = map \/ map' = EmptyMap \/ map' = dmap, dmap' = dmap \/ dmap' = map
      PROVE  MapInv'
  BY <1>0, <1>a, <1>b DEF MapInv
<1>1. ASSUME NEW p \in Paths, fcreateStep(p)  PROVE MapInv'
  <2>1. CASE fcreateAlloc(p)
    <3> DEFINE m == Cleared(p)
               c == allocatecluster(m, lastAlloc)
    <3>1. m \in Map /\ MapOK(m) /\ ~Exists(m, p)  BY ClearedOK
    <3>2. c \in Clusters /\ m[c].code = Unused
      BY <2>1, AllocIsFree DEF fcreateAlloc
    <3>3. map' = NewHead(m, c, p, fr[p].flags) /\ dmap' = dmap
      BY <2>1 DEF fcreateAlloc, disk
    <3> HIDE DEF m, c
    <3>4. MapOK(NewHead(m, c, p, fr[p].flags))  BY <3>1, <3>2, NewHeadOK
    <3> QED BY <3>3, <3>4, <1>0 DEF MapInv
  <2>2. CASE fcreateFull(p)
    <3>1. map' = Cleared(p) /\ dmap' = dmap  BY <2>2 DEF fcreateFull, disk
    <3>2. MapOK(Cleared(p))  BY ClearedOK
    <3> QED BY <3>1, <3>2, <1>0 DEF MapInv
  <2>3. CASE fdiraddGrow(p)
    <3> DEFINE c == allocatecluster(map, lastAlloc)
               f == ffind(map, Parent[p])
    <3>1. Exists(map, Parent[p])  BY <2>3 DEF fdiraddGrow, CallsOK, InPhase
    <3>2. f \in Clusters /\ map[f].code = Parent[p]  BY <3>1, FindHead
    <3>3. c \in Clusters /\ map[c].code = Unused
      BY <2>3, AllocIsFree DEF fdiraddGrow
    <3>4. map' = faddr(map, c, f) /\ dmap' = dmap  BY <2>3 DEF fdiraddGrow
    <3> HIDE DEF c, f
    <3>5. MapOK(faddr(map, c, f))  BY <1>0, <3>1, <3>2, <3>3, faddrOK
    <3> QED BY <3>4, <3>5, <1>0 DEF MapInv
  <2>4. CASE fcreateExists(p)  BY <2>4, <1>b DEF fcreateExists, disk
  <2>5. CASE fgetparent(p)     BY <2>5, <1>b DEF fgetparent, disk
  <2>6. CASE floadhdir(p)      BY <2>6, <1>b DEF floadhdir, disk
  <2>7. CASE fdiraddSpin(p)    BY <2>7, <1>b DEF fdiraddSpin, disk
  <2>8. CASE fdiraddEntry(p)   BY <2>8, <1>b DEF fdiraddEntry
  <2>9. CASE fdiraddOverrun(p) BY <2>9, <1>b DEF fdiraddOverrun, Lose
  <2>10. CASE fuloaddir(p)     BY <2>10, <1>b DEF fuloaddir
  <2>11. CASE fcreateInit(p)   BY <2>11, <1>b DEF fcreateInit
  <2> QED BY <1>1, <2>1, <2>2, <2>3, <2>4, <2>5, <2>6, <2>7, <2>8, <2>9, <2>10, <2>11
          DEF fcreateStep
<1>2. CASE fwriteStep
  <2> DEFINE h == cur.h
             c == allocatecluster(map, lastAlloc)
  <2>0. dmap' = dmap  BY <1>2 DEF fwriteStep
  <2>1. CASE map' = map  BY <2>0, <2>1, <1>b
  <2>2. CASE map' # map
    <3>1. map' = faddr(map, c, fh[h].cl) /\ CanAlloc(map, lastAlloc) /\ cur.call = "write"
      BY <1>2, <2>2 DEF fwriteStep
    <3>2. h \in Handles /\ fh[h].cl \in Clusters  BY DEF TypeOK, Call, fhandle
    <3>3. map[fh[h].cl].code = Unused \/ Exists(map, map[fh[h].cl].code)
      BY <3>1 DEF CallsOK, FileOf
    <3>4. c \in Clusters /\ map[c].code = Unused  BY <3>1, AllocIsFree
    <3> HIDE DEF c, h
    <3>5. MapOK(faddr(map, c, fh[h].cl))  BY <1>0, <3>2, <3>3, <3>4, faddrOK
    <3> QED BY <3>1, <3>5, <2>0, <1>0 DEF MapInv
  <2> QED BY <2>1, <2>2
<1>3. CASE shellcreateDone  BY <1>3, <1>b DEF shellcreateDone
<1>4. CASE shellcreateFault  BY <1>4, <1>b DEF shellcreateFault, Lose, disk
<1>5. CASE floadh  BY <1>5, <1>b DEF floadh, disk
<1>6. CASE Client
  <2>1. ASSUME NEW p \in DeletePaths, shelldelete(p)  PROVE MapInv'
    <3>1. p \in Paths  BY FratAssumption
    <3>2. map' = ffremove(map, p) /\ Exists(map, p) /\ dmap' = dmap
      BY <2>1 DEF shelldelete, disk
    <3>3. MapOK(ffremove(map, p))  BY <3>1, <3>2, <1>0, ffremoveOK
    <3> QED BY <3>2, <3>3, <1>0 DEF MapInv
  <2>2. ASSUME NEW p \in DeletePaths, removeAll(p)  PROVE MapInv'
    <3>1. p \in Paths  BY FratAssumption
    <3>2. map' = ffremovel(map, p) /\ dmap' = dmap  BY <2>2 DEF removeAll, disk
    <3>3. MapOK(ffremovel(map, p))  BY <3>1, <1>0, ffremovelOK
    <3> QED BY <3>2, <3>3, <1>0 DEF MapInv
  <2>3. ASSUME NEW p \in DeletePaths, shelldeleteFault(p)  PROVE MapInv'
    BY <2>3, <1>b DEF shelldeleteFault, Lose, disk
  <2>4. ASSUME NEW x \in Creates, shellcreate(x[1], x[2])  PROVE MapInv'
    BY <2>4, <1>b DEF shellcreate, disk
  <2>5. ASSUME NEW h \in Handles, NEW x \in Opens, shellopen(h, x[1], x[2])  PROVE MapInv'
    BY <2>5, <1>b DEF shellopen, disk
  <2>6. ASSUME NEW h \in Handles, fuloadh(h)  PROVE MapInv'
    BY <2>6, <1>b DEF fuloadh
  <2>7. ASSUME NEW h \in Handles, NEW x \in SeekTo, fseek(h, x)  PROVE MapInv'
    BY <2>7, <1>b DEF fseek, SetPos, disk
  <2>8. ASSUME NEW h \in Handles, NEW x \in SeekBy, fseeko(h, x)  PROVE MapInv'
    BY <2>8, <1>b DEF fseeko, SetPos, disk
  <2>9. ASSUME NEW h \in Handles, NEW n \in Lengths, fread(h, n)  PROVE MapInv'
    BY <2>9, <1>b DEF fread
  <2>10. ASSUME NEW h \in Handles, NEW n \in Lengths, NEW v \in Values, fwriteCall(h, n, v)
         PROVE MapInv'
    BY <2>10, <1>b DEF fwriteCall, Lose
  <2> QED BY <1>6, <2>1, <2>2, <2>3, <2>4, <2>5, <2>6, <2>7, <2>8, <2>9, <2>10 DEF Client
<1>7. CASE fmount  BY <1>7, <1>b DEF fmount, disk
<1>8. CASE shellexit  BY <1>8, <1>b DEF shellexit, Lose
<1>9. CASE Crash  BY <1>9, <1>b DEF Crash, Lose, disk
<1>10. CASE UNCHANGED vars  BY <1>10, <1>b DEF vars
<1> QED BY <1>1, <1>2, <1>3, <1>4, <1>5, <1>6, <1>7, <1>8, <1>9, <1>10 DEF Next, Step

----------------------------------------------------------------------------
(* The stack of activations of __fcreate.                                  *)

\* A parent is shallower than its child, so the two differ.
LEMMA ParentDepth ==
  ASSUME NEW p \in Paths, Parent[p] # NoParent
  PROVE  Parent[p] \in Paths /\ Depth[Parent[p]] < Depth[p]
         /\ Depth[p] \in Nat /\ Depth[Parent[p]] \in Nat
BY FratAssumption

\* The stack depends only on which activations exist and which wait.
LEMMA StackSame ==
  ASSUME NEW f, NEW g, NEW root, Stack(f, root),
         \A p \in Paths : Busy(g, p) <=> Busy(f, p),
         \A p \in Paths : WaitsFor(g, p) <=> WaitsFor(f, p),
         root \in Paths
  PROVE  Stack(g, root)
BY DEF Stack, Running

\* Nobody runs, and the call for root enters __fcreate.
LEMMA StackEnter ==
  ASSUME NEW f \in [Paths -> Frame], NEW root \in Paths, NEW flags,
         \A p \in Paths : ~Busy(f, p)
  PROVE  Stack(Enter(f, root, flags), root)
<1> DEFINE g == Enter(f, root, flags)
<1>1. g[root].ph = "alloc"  BY DEF Enter, NoFrame
<1>2. \A p \in Paths : p # root => g[p] = f[p]  BY DEF Enter
<1> HIDE DEF g
<1>3. \A p \in Paths : p # root => ~Busy(g, p)  BY <1>2 DEF Busy
<1>4. \A p \in Paths : ~WaitsFor(g, p)  BY <1>1, <1>3 DEF WaitsFor, Busy
<1> QED BY <1>3, <1>4 DEF Stack, Running, g

\* The running activation starts one for its parent.
LEMMA StackPush ==
  ASSUME NEW f \in [Paths -> Frame], NEW root \in Paths, Stack(f, root),
         NEW p \in Paths, f[p].ph = "parent", Parent[p] # NoParent,
         ~Busy(f, Parent[p]), NEW flags
  PROVE  Stack(Enter([f EXCEPT ![p].ph = "wait"], Parent[p], flags), root)
<1> DEFINE P == Parent[p]
           w == [f EXCEPT ![p].ph = "wait"]
           g == Enter(w, P, flags)
<1>1. P \in Paths /\ Depth[P] < Depth[p] /\ P # p  BY ParentDepth
<1>2. Depth \in [Paths -> Nat]  BY FratAssumption
<1>3. w \in [Paths -> Frame] /\ w[p].ph = "wait" /\ \A q \in Paths : q # p => w[q] = f[q]
  BY DEF Frame, Phases
<1> HIDE DEF w
<1>4. g[P].ph = "alloc" /\ g[p].ph = "wait" /\ \A q \in Paths : q # p /\ q # P => g[q] = f[q]
  BY <1>1, <1>3 DEF Enter, NoFrame
<1> HIDE DEF g, P
<1>5. Running(f, p) /\ Busy(f, p)  BY DEF Running, Busy, WaitsFor
<1>6. \A q \in Paths : Busy(g, q) <=> Busy(f, q) \/ q = P
  BY <1>4, <1>5 DEF Busy
<1>7. \A q \in Paths : WaitsFor(f, q) => WaitsFor(g, q)
  <2> SUFFICES ASSUME NEW q \in Paths, WaitsFor(f, q) PROVE WaitsFor(g, q)  OBVIOUS
  <2>1. q # p /\ q # P  BY <1>5 DEF Running, P, WaitsFor, Busy
  <2>2. g[Parent[q]].ph # "none"
    <3>0. Parent[q] \in Paths  BY ParentDepth DEF WaitsFor
    <3>1. CASE Parent[q] \in {p, P}  BY <3>1, <1>4
    <3>2. CASE Parent[q] \notin {p, P}
      BY <3>0, <3>2, <1>4 DEF WaitsFor, Busy
    <3> QED BY <3>1, <3>2
  <2> QED BY <2>1, <2>2, <1>4 DEF WaitsFor, Busy
<1>8. WaitsFor(g, p)  BY <1>4 DEF WaitsFor, Busy, P
<1>9. \A q \in Paths : WaitsFor(g, q) => q = p \/ WaitsFor(f, q)
  <2> SUFFICES ASSUME NEW q \in Paths, WaitsFor(g, q), q # p PROVE WaitsFor(f, q)  OBVIOUS
  <2>1. q # P /\ g[q] = f[q] /\ Parent[q] \in Paths
    BY <1>4, ParentDepth DEF WaitsFor
  <2>2. Parent[q] # P => Busy(f, Parent[q])  BY <2>1, <1>6 DEF WaitsFor
  <2>3. Parent[q] # P
    <3> SUFFICES ASSUME Parent[q] = P PROVE FALSE  OBVIOUS
    <3>1. Running(f, q) /\ Busy(f, q)
      BY <2>1 DEF Running, WaitsFor, Busy, P
    <3> QED BY <3>1, <1>2, <1>5 DEF Stack
  <2> QED BY <2>1, <2>2, <2>3 DEF WaitsFor
<1>10. \A q \in Paths : Running(g, q) => q = P
  <2> SUFFICES ASSUME NEW q \in Paths, Running(g, q), q # P PROVE FALSE  OBVIOUS
  <2>1. q # p /\ Busy(f, q)  BY <1>6, <1>8 DEF Running
  <2>2. Running(f, q)  BY <2>1, <1>7 DEF Running
  <2> QED BY <2>1, <2>2, <1>2, <1>5 DEF Stack
<1>11. \A q \in Paths : Busy(f, q) => q = p \/ Depth[p] < Depth[q]
  BY <1>5 DEF Stack
<1>12. \A q \in Paths : Busy(g, q) /\ q # root => Busy(g, root) /\ Depth[q] < Depth[root]
  BY <1>1, <1>2, <1>5, <1>6 DEF Stack
<1>13. \A q, r \in Paths : Running(g, q) /\ Busy(g, r) /\ q # r => Depth[q] < Depth[r]
  BY <1>1, <1>2, <1>6, <1>10, <1>11
<1>14. \A q, r \in Paths : WaitsFor(g, q) /\ Busy(g, r) /\ q # r =>
          Depth[r] <= Depth[Parent[q]] \/ Depth[q] < Depth[r]
  <2> SUFFICES ASSUME NEW q \in Paths, NEW r \in Paths,
                      WaitsFor(g, q), Busy(g, r), q # r
               PROVE  Depth[r] <= Depth[Parent[q]] \/ Depth[q] < Depth[r]
    OBVIOUS
  <2>0. Parent[q] \in Paths  BY ParentDepth DEF WaitsFor
  <2>1. CASE q = p  BY <2>1, <1>1, <1>2, <1>6, <1>11 DEF P
  <2>2. CASE q # p /\ r # P  BY <2>2, <1>6, <1>9 DEF Stack
  <2>3. CASE q # p /\ r = P
    <3>1. Busy(f, Parent[q])  BY <2>3, <1>9 DEF WaitsFor
    <3>2. Depth[p] <= Depth[Parent[q]]  BY <3>1, <2>0, <1>2, <1>11
    <3> QED BY <2>3, <3>2, <2>0, <1>1, <1>2
  <2> QED BY <2>1, <2>2, <2>3
<1> QED BY <1>12, <1>13, <1>14 DEF Stack, g, w, P

\* The running activation returns to the one that waits for it, or ends the
\* call of __fcreate the command made.
LEMMA StackReturn ==
  ASSUME NEW f \in [Paths -> Frame], NEW root \in Paths, Stack(f, root),
         NEW p \in Paths, f[p].ph \notin {"none", "wait"}
  PROVE  Stack([f EXCEPT ![p] = NoFrame], root)
<1> DEFINE g == [f EXCEPT ![p] = NoFrame]
<1>1. g[p].ph = "none" /\ \A q \in Paths : q # p => g[q] = f[q]  BY DEF NoFrame
<1>2. Depth \in [Paths -> Nat]  BY FratAssumption
<1> HIDE DEF g
<1>3. Running(f, p) /\ Busy(f, p)  BY DEF Running, Busy, WaitsFor
<1>4. \A q \in Paths : Busy(g, q) <=> Busy(f, q) /\ q # p  BY <1>1 DEF Busy
<1>5. \A q \in Paths : Busy(f, q) => q = p \/ Depth[p] < Depth[q]  BY <1>3 DEF Stack
<1>6. \A q \in Paths : WaitsFor(g, q) <=> WaitsFor(f, q) /\ Parent[q] # p
  <2> SUFFICES ASSUME NEW q \in Paths
               PROVE  WaitsFor(g, q) <=> WaitsFor(f, q) /\ Parent[q] # p
    OBVIOUS
  <2>1. CASE q = p  BY <2>1, <1>1 DEF WaitsFor
  <2>2. CASE q # p
    <3>1. g[q] = f[q]  BY <2>2, <1>1
    <3>2. CASE Parent[q] = NoParent  BY <3>2 DEF WaitsFor
    <3>3. CASE Parent[q] # NoParent
      <4>1. Parent[q] \in Paths  BY <3>3, ParentDepth
      <4> QED BY <3>1, <3>3, <4>1, <1>4 DEF WaitsFor
    <3> QED BY <3>2, <3>3
  <2> QED BY <2>1, <2>2
<1>7. \A q \in Paths : Busy(g, q) /\ q # root => Busy(g, root) /\ Depth[q] < Depth[root]
  BY <1>2, <1>3, <1>4, <1>5 DEF Stack
<1>8. \A q, r \in Paths : Running(g, q) /\ Busy(g, r) /\ q # r => Depth[q] < Depth[r]
  <2> SUFFICES ASSUME NEW q \in Paths, NEW r \in Paths,
                      Running(g, q), Busy(g, r), q # r
               PROVE  Depth[q] < Depth[r]
    OBVIOUS
  <2>1. Busy(f, q) /\ Busy(f, r) /\ q # p /\ r # p  BY <1>4 DEF Running
  <2>2. ~Running(f, q)  BY <2>1, <1>2, <1>3, <1>5 DEF Stack
  <2>3. WaitsFor(f, q) /\ Parent[q] = p
    BY <2>1, <2>2, <1>6 DEF Running
  <2>4. Depth[r] <= Depth[p] \/ Depth[q] < Depth[r]  BY <2>1, <2>3 DEF Stack
  <2> QED BY <2>1, <2>4, <1>2, <1>5
<1>9. \A q, r \in Paths : WaitsFor(g, q) /\ Busy(g, r) /\ q # r =>
         Depth[r] <= Depth[Parent[q]] \/ Depth[q] < Depth[r]
  BY <1>4, <1>6 DEF Stack
<1> QED BY <1>7, <1>8, <1>9 DEF Stack, g

\* Nobody is left when the outermost activation has returned.
LEMMA StackEmpty ==
  ASSUME NEW f, NEW root, Stack(f, root), ~Busy(f, root)
  PROVE  \A p \in Paths : ~Busy(f, p)
BY DEF Stack

\* While one activation runs every other one is absent or waits.
LEMMA OnlyRunning ==
  ASSUME NEW f \in [Paths -> Frame], NEW root, Stack(f, root),
         NEW p \in Paths, Running(f, p), NEW q \in Paths, q # p
  PROVE  f[q].ph \in {"none", "wait"}
<1>1. Depth \in [Paths -> Nat]  BY FratAssumption
<1> SUFFICES ASSUME f[q].ph \notin {"none", "wait"} PROVE FALSE  OBVIOUS
<1>2. Running(f, q) /\ Busy(f, q) /\ Busy(f, p)  BY DEF Running, Busy, WaitsFor
<1> QED BY <1>1, <1>2 DEF Stack

\* What CallsOK says of a phase.
PhaseOK(f, m, p) ==
    /\ f[p].ph \in {"wait", "dir", "dirblk"} => Parent[p] # NoParent
    /\ f[p].ph = "dir" => Exists(m, Parent[p])

\* A step that only moves the running activation p from phase to phase.
LEMMA CallsGoto ==
  ASSUME TypeOK, CallsOK, NEW p \in Paths, Running(fr, p), cur' = cur,
         fr' \in [Paths -> Frame], fr'[p].ph \notin {"none", "wait"},
         \A q \in Paths : q # p => fr'[q] = fr[q],
         PhaseOK(fr', map', p)
  PROVE  CallsOK'
<1>1. cur.path \in Paths /\ Busy(fr, p)  BY DEF TypeOK, Call, Running
<1>2. cur.call \notin {"idle", "write"}  BY <1>1 DEF CallsOK
<1>3. \A q \in Paths : Busy(fr', q) <=> Busy(fr, q)  BY <1>1 DEF Busy
<1>4. \A q \in Paths : WaitsFor(fr', q) <=> WaitsFor(fr, q)
  <2> SUFFICES ASSUME NEW q \in Paths PROVE WaitsFor(fr', q) <=> WaitsFor(fr, q)  OBVIOUS
  <2>1. CASE q = p  BY <2>1 DEF WaitsFor, Running
  <2>2. CASE q # p
    <3>1. Parent[q] # NoParent => Parent[q] \in Paths  BY ParentDepth
    <3> QED BY <2>2, <3>1, <1>3 DEF WaitsFor
  <2> QED BY <2>1, <2>2
<1>5. Stack(fr', cur.path)  BY <1>1, <1>3, <1>4, StackSame DEF CallsOK
<1>6. \A q \in Paths : PhaseOK(fr', map', q)
  <2> SUFFICES ASSUME NEW q \in Paths, q # p PROVE PhaseOK(fr', map', q)  OBVIOUS
  <2>1. fr'[q] = fr[q] /\ fr[q].ph \in {"none", "wait"}
    BY OnlyRunning DEF TypeOK, CallsOK
  <2> QED BY <2>1 DEF PhaseOK, CallsOK
<1> QED BY <1>2, <1>5, <1>6 DEF CallsOK, PhaseOK

\* A step in which the running activation returns.
LEMMA CallsReturnStep ==
  ASSUME TypeOK, CallsOK, NEW p \in Paths, fr[p].ph \notin {"none", "wait"},
         cur' = cur, fr' = [fr EXCEPT ![p] = NoFrame]
  PROVE  CallsOK'
<1>1. cur.path \in Paths /\ Busy(fr, p) /\ Running(fr, p)
  BY DEF TypeOK, Call, Running, Busy, WaitsFor
<1>2. cur.call \notin {"idle", "write"}  BY <1>1 DEF CallsOK
<1>3. Stack(fr', cur.path)  BY <1>1, StackReturn DEF CallsOK, TypeOK
<1>4. fr'[p].ph = "none" /\ \A q \in Paths : q # p => fr'[q] = fr[q]
  BY DEF NoFrame, TypeOK
<1>5. \A q \in Paths : PhaseOK(fr', map', q)
  <2> SUFFICES ASSUME NEW q \in Paths PROVE PhaseOK(fr', map', q)  OBVIOUS
  <2>1. CASE q = p  BY <2>1, <1>4 DEF PhaseOK
  <2>2. CASE q # p
    <3>1. fr'[q] = fr[q] /\ fr[q].ph \in {"none", "wait"}
      BY <2>2, <1>1, <1>4, OnlyRunning DEF TypeOK, CallsOK
    <3> QED BY <3>1 DEF PhaseOK, CallsOK
  <2> QED BY <2>1, <2>2
<1> QED BY <1>2, <1>3, <1>5 DEF CallsOK, PhaseOK

\* A step after which no activation is left.
LEMMA CallsIdle ==
  ASSUME \A p \in Paths : fr'[p].ph = "none",
         cur'.call = "write" =>
             (FileOf(cur.h))' = Unused \/ Exists(map', (FileOf(cur.h))')
  PROVE  CallsOK'
BY DEF CallsOK, Stack, Busy, Running, WaitsFor

\* A dead process has no call in progress.
LEMMA CallsLose ==
  ASSUME Lose
  PROVE  CallsOK'
<1>1. \A p \in Paths : fr'[p].ph = "none"  BY DEF Lose, NoFrame
<1>2. cur'.call = "idle"  BY DEF Lose, Idle
<1> QED BY <1>1, <1>2, CallsIdle

\* Every step of __fcreate keeps the activations a stack.
LEMMA CallsCreate ==
  ASSUME TypeOK, CallsOK, MapInv, NEW p \in Paths, fcreateStep(p)
  PROVE  CallsOK'
<1>0. fr \in [Paths -> Frame] /\ fr' \in [Paths -> Frame] /\ cur.path \in Paths
  <2>1. TypeOK'  BY TypeCreate
  <2> QED BY <2>1 DEF TypeOK, Call
<1>1. \A f \in {"alloc", "parent", "dir", "dirblk", "init"} :
         fr[p].ph = f => Running(fr, p) /\ fr[p].ph \notin {"none", "wait"}
  BY DEF Running, Busy, WaitsFor
<1>2. CASE fcreateExists(p)
  BY <1>1, <1>2, CallsReturnStep DEF fcreateExists, InPhase, Return
<1>3. CASE fcreateAlloc(p)
  <2>1. fr[p].ph = "alloc" /\ fr'[p].ph = "parent"
        /\ \A q \in Paths : q # p => fr'[q] = fr[q]
    BY <1>0, <1>3 DEF fcreateAlloc, InPhase, Frame
  <2>2. Running(fr, p) /\ Busy(fr, p)  BY <2>1, <1>1 DEF Running
  <2>3. cur'.call = cur.call /\ cur'.path = cur.path
    BY <1>3 DEF fcreateAlloc, TypeOK, Call
  <2>4. cur.call \notin {"idle", "write"}  BY <2>2 DEF CallsOK
  <2>5. \A q \in Paths : Busy(fr', q) <=> Busy(fr, q)  BY <2>1 DEF Busy
  <2>6. \A q \in Paths : WaitsFor(fr', q) <=> WaitsFor(fr, q)
    <3> SUFFICES ASSUME NEW q \in Paths PROVE WaitsFor(fr', q) <=> WaitsFor(fr, q)  OBVIOUS
    <3>1. Parent[q] # NoParent => Parent[q] \in Paths  BY ParentDepth
    <3> QED BY <3>1, <2>1, <2>5 DEF WaitsFor
  <2>7. Stack(fr', cur.path)  BY <1>0, <2>5, <2>6, StackSame DEF CallsOK
  <2>8. \A q \in Paths : PhaseOK(fr', map', q)
    <3> SUFFICES ASSUME NEW q \in Paths PROVE PhaseOK(fr', map', q)  OBVIOUS
    <3>1. CASE q = p  BY <3>1, <2>1 DEF PhaseOK
    <3>2. CASE q # p
      <4>1. fr'[q] = fr[q] /\ fr[q].ph \in {"none", "wait"}
        BY <3>2, <1>0, <2>1, <2>2, OnlyRunning DEF CallsOK
      <4> QED BY <4>1 DEF PhaseOK, CallsOK
    <3> QED BY <3>1, <3>2
  <2> QED BY <2>3, <2>4, <2>7, <2>8 DEF CallsOK, PhaseOK
<1>4. CASE fcreateFull(p)
  BY <1>1, <1>4, CallsReturnStep DEF fcreateFull, InPhase, Return
<1>5. CASE fgetparent(p)
  <2> DEFINE w == [fr EXCEPT ![p].ph = "wait"]
             P == Parent[p]
  <2>0. fr[p].ph = "parent" /\ cur' = cur /\ map' = map /\ Running(fr, p) /\ Busy(fr, p)
    BY <1>1, <1>5 DEF fgetparent, InPhase, Running
  <2>1. CASE P = NoParent
    <3>1. fr'[p].ph = "init" /\ \A q \in Paths : q # p => fr'[q] = fr[q]
      BY <1>0, <1>5, <2>1 DEF fgetparent, Frame
    <3>2. PhaseOK(fr', map', p)  BY <3>1 DEF PhaseOK
    <3> QED BY <1>0, <2>0, <3>1, <3>2, CallsGoto
  <2>2. CASE P # NoParent
    <3>1. P \in Paths /\ Depth[P] < Depth[p] /\ P # p  BY <2>2, ParentDepth
    <3>2. Depth \in [Paths -> Nat]  BY FratAssumption
    <3>3. ~Busy(fr, P)  BY <2>0, <3>1, <3>2 DEF CallsOK, Stack
    <3>4. w[p].ph = "wait" /\ \A q \in Paths : q # p => w[q] = fr[q]
      BY <1>0 DEF Frame
    <3>5. cur.call \notin {"idle", "write"}  BY <2>0 DEF CallsOK
    <3>6. \A q \in Paths : q # p => fr[q].ph \in {"none", "wait"}
      BY <1>0, <2>0, OnlyRunning DEF CallsOK
    <3>7. CASE Exists(map, P)
      <4>1. fr' = w  BY <1>5, <2>2, <3>7 DEF fgetparent
      <4> HIDE DEF w
      <4>2. \A q \in Paths : Busy(fr', q) <=> Busy(fr, q)
        BY <2>0, <3>4, <4>1 DEF Busy
      <4>3. \A q \in Paths : WaitsFor(fr', q) <=> WaitsFor(fr, q)
        <5> SUFFICES ASSUME NEW q \in Paths PROVE WaitsFor(fr', q) <=> WaitsFor(fr, q)
          OBVIOUS
        <5>1. CASE q = p  BY <5>1, <2>0, <3>1, <3>3, <4>2 DEF WaitsFor, Running
        <5>2. CASE q # p
          <6>1. Parent[q] # NoParent => Parent[q] \in Paths  BY ParentDepth
          <6> QED BY <5>2, <6>1, <3>4, <4>1, <4>2 DEF WaitsFor
        <5> QED BY <5>1, <5>2
      <4>4. Stack(fr', cur.path)  BY <1>0, <4>2, <4>3, StackSame DEF CallsOK
      <4>5. \A q \in Paths : PhaseOK(fr', map', q)
        BY <2>2, <3>4, <3>6, <4>1 DEF PhaseOK, CallsOK
      <4> QED BY <2>0, <3>5, <4>4, <4>5 DEF CallsOK, PhaseOK
    <3>8. CASE ~Exists(map, P)
      <4>1. fr' = Enter(w, P, {"d", "c"})  BY <1>5, <2>2, <3>8 DEF fgetparent
      <4>2. Stack(fr', cur.path)
        BY <1>0, <2>0, <2>2, <3>3, <4>1, StackPush DEF CallsOK
      <4>3. w \in [Paths -> Frame]  BY <1>0, FrameTypes DEF Phases
      <4> HIDE DEF w
      <4>4. fr'[P].ph = "alloc" /\ fr'[p].ph = "wait"
            /\ \A q \in Paths : q # p /\ q # P => fr'[q] = fr[q]
        BY <3>1, <3>4, <4>1, <4>3 DEF Enter, NoFrame
      <4>5. \A q \in Paths : PhaseOK(fr', map', q)
        BY <2>2, <3>6, <4>4 DEF PhaseOK, CallsOK
      <4> QED BY <2>0, <3>5, <4>2, <4>5 DEF CallsOK, PhaseOK
    <3> QED BY <3>7, <3>8
  <2> QED BY <2>1, <2>2
<1>6. CASE floadhdir(p)
  <2>1. fr[p].ph = "wait" /\ ~Busy(fr, Parent[p]) /\ cur' = cur /\ map' = map
    BY <1>6 DEF floadhdir, InPhase, Busy
  <2>2. Running(fr, p)  BY <2>1 DEF Running, WaitsFor, Busy
  <2>3. Parent[p] # NoParent  BY <2>1 DEF CallsOK
  <2>4. /\ fr'[p].ph \in {"dir", "init"}
        /\ fr'[p].ph = "dir" => Exists(map, Parent[p])
        /\ \A q \in Paths : q # p => fr'[q] = fr[q]
    BY <1>0, <1>6 DEF floadhdir, Goto, Frame
  <2>5. PhaseOK(fr', map', p)  BY <2>1, <2>3, <2>4 DEF PhaseOK
  <2>6. fr'[p].ph \notin {"none", "wait"}  BY <2>4
  <2> QED BY <1>0, <2>1, <2>2, <2>4, <2>5, <2>6, CallsGoto
<1>7. CASE fdiraddGrow(p)
  <2> DEFINE c == allocatecluster(map, lastAlloc)
             f == ffind(map, Parent[p])
  <2>1. fr[p].ph = "dir" /\ cur' = cur /\ fr' = fr /\ map' = faddr(map, c, f)
    BY <1>7 DEF fdiraddGrow, InPhase
  <2>2. Exists(map, Parent[p]) /\ Parent[p] # NoParent /\ Parent[p] # Unused
    <3>1. Exists(map, Parent[p]) /\ Parent[p] # NoParent  BY <2>1 DEF CallsOK
    <3>2. Parent[p] \in Paths  BY <3>1, ParentDepth
    <3> QED BY <3>1, <3>2, MapAssumption
  <2>3. f \in Clusters /\ map[f].code = Parent[p] /\ map[f].idx = 0  BY <2>2, FindHead
  <2>4. c \in Clusters /\ map[c].code = Unused  BY <1>7, AllocIsFree DEF fdiraddGrow
  <2> HIDE DEF c, f
  <2>5. map'[f] = map[f]  BY <2>1, <2>2, <2>3, <2>4 DEF faddr, TypeOK
  <2>6. Exists(map', Parent[p])  BY <2>3, <2>5, ExistsIff
  <2>7. PhaseOK(fr', map', p)  BY <2>1, <2>2, <2>6 DEF PhaseOK
  <2> QED BY <1>0, <1>1, <2>1, <2>7, CallsGoto
<1>8. CASE fdiraddSpin(p)
  BY <1>8 DEF fdiraddSpin, disk, CallsOK, FileOf
<1>9. CASE fdiraddEntry(p)
  <2>1. fr[p].ph = "dir" /\ cur' = cur /\ map' = map
    BY <1>9 DEF fdiraddEntry, InPhase
  <2>2. fr'[p].ph = "dirblk" /\ \A q \in Paths : q # p => fr'[q] = fr[q]
    BY <1>0, <1>9 DEF fdiraddEntry, Frame
  <2>3. PhaseOK(fr', map', p)  BY <2>1, <2>2 DEF PhaseOK, CallsOK
  <2> QED BY <1>0, <1>1, <2>1, <2>2, <2>3, CallsGoto
<1>10. CASE fdiraddOverrun(p)
  <2>1. CASE Lose  BY <2>1, CallsLose
  <2>2. CASE ~Lose
    <3>1. fr[p].ph = "dir" /\ cur' = cur /\ map' = map
      BY <1>10, <2>2 DEF fdiraddOverrun, InPhase
    <3>2. fr'[p].ph = "dirblk" /\ \A q \in Paths : q # p => fr'[q] = fr[q]
      BY <1>0, <1>10, <2>2 DEF fdiraddOverrun, Frame
    <3>3. PhaseOK(fr', map', p)  BY <3>1, <3>2 DEF PhaseOK, CallsOK
    <3> QED BY <1>0, <1>1, <3>1, <3>2, <3>3, CallsGoto
  <2> QED BY <2>1, <2>2
<1>11. CASE fuloaddir(p)
  <2>1. fr[p].ph = "dirblk" /\ cur' = cur /\ map' = map
    BY <1>11 DEF fuloaddir, InPhase
  <2>2. fr'[p].ph = "init" /\ \A q \in Paths : q # p => fr'[q] = fr[q]
    BY <1>0, <1>11 DEF fuloaddir, Goto, Frame
  <2>3. PhaseOK(fr', map', p)  BY <2>2 DEF PhaseOK
  <2> QED BY <1>0, <1>1, <2>1, <2>2, <2>3, CallsGoto
<1>12. CASE fcreateInit(p)
  BY <1>1, <1>12, CallsReturnStep DEF fcreateInit, InPhase, Return
<1> QED BY <1>2, <1>3, <1>4, <1>5, <1>6, <1>7, <1>8, <1>9, <1>10, <1>11, <1>12
        DEF fcreateStep

\* Every turn of the loop of _fwrite keeps the activations a stack and the
\* item it works on in existence.
LEMMA CallsWrite ==
  ASSUME TypeOK, CallsOK, MapInv, fwriteStep
  PROVE  CallsOK'
<1> DEFINE h == cur.h
           c == allocatecluster(map, lastAlloc)
           F == map[fh[h].cl].code
<1>1. cur.call = "write" /\ fr' = fr  BY DEF fwriteStep
<1>2. \A p \in Paths : fr'[p].ph = "none"  BY <1>1 DEF CallsOK, Busy
<1>3. h \in Handles /\ fh[h].cl \in Clusters  BY DEF TypeOK, Call, fhandle
<1>4. F = Unused \/ Exists(map, F)  BY <1>1 DEF CallsOK, FileOf
<1>5. cur'.call = "write" => cur'.h = h /\ fh' = fh
  <2>1. cur' = Idle \/ (fh' = fh /\ \E x, y : cur' = [cur EXCEPT !.pos = x, !.left = y])
    BY Zenon DEF fwriteStep
  <2>2. CASE cur' = Idle  BY <2>2 DEF Idle
  <2>3. ASSUME NEW x, NEW y, cur' = [cur EXCEPT !.pos = x, !.left = y]  PROVE cur'.h = h
    BY <2>3 DEF TypeOK, Call
  <2> QED BY <2>1, <2>2, <2>3
<1>6. CASE map' = map
  <2>1. cur'.call = "write" => (FileOf(cur.h))' = F  BY <1>5, <1>6 DEF FileOf
  <2> QED BY <1>2, <1>4, <1>6, <2>1, CallsIdle
<1>7. CASE map' # map
  <2>1. map' = faddr(map, c, fh[h].cl) /\ CanAlloc(map, lastAlloc)
    BY <1>7 DEF fwriteStep
  <2>2. c \in Clusters /\ map[c].code = Unused  BY <2>1, AllocIsFree
  <2> HIDE DEF c
  <2>3. \A e \in Clusters : e # c => map'[e] = map[e]  BY <2>1, <2>2 DEF faddr, TypeOK
  <2>4. map'[c].code = F  BY <2>1, <2>2 DEF faddr, TypeOK
  <2>5. map'[fh[h].cl].code = F  BY <1>3, <2>3, <2>4
  <2>6. F # Unused => Exists(map', F)
    <3> SUFFICES ASSUME F # Unused PROVE Exists(map', F)  OBVIOUS
    <3>1. PICK e \in Clusters : map[e].code = F /\ map[e].idx = 0  BY <1>4, ExistsIff
    <3>2. map'[e] = map[e]  BY <3>1, <2>2, <2>3
    <3> QED BY <3>1, <3>2, ExistsIff
  <2>7. cur'.call = "write" => (FileOf(cur.h))' = F  BY <1>5, <2>5 DEF FileOf
  <2> QED BY <1>2, <2>6, <2>7, CallsIdle
<1> QED BY <1>6, <1>7

\* Every call a client makes starts with an empty stack.
LEMMA CallsClient ==
  ASSUME TypeOK, CallsOK, Client
  PROVE  CallsOK'
<1>0. \A x \in Creates \cup Opens : x[1] \in Paths
  BY FratAssumption
<1>q. Quiet => cur.call = "idle" /\ \A p \in Paths : ~Busy(fr, p) /\ fr[p].ph = "none"
  BY DEF Quiet, CallsOK, Busy
<1>a. ASSUME Quiet, fr' = fr, cur' = cur  PROVE CallsOK'
  BY <1>a, <1>q, CallsIdle
<1>b. ASSUME Quiet, NEW p \in Paths, NEW flags, fr' = Enter(fr, p, flags),
             cur'.path = p, cur'.call \in {"create", "open"}
      PROVE  CallsOK'
  <2>1. fr \in [Paths -> Frame]  BY DEF TypeOK
  <2>2. Stack(fr', p)  BY <1>b, <1>q, <2>1, StackEnter
  <2>3. \A q \in Paths : fr'[q].ph \in {"none", "alloc"}
    BY <1>b, <1>q, <2>1 DEF Enter, NoFrame
  <2> QED BY <1>b, <2>2, <2>3 DEF CallsOK
<1>1. ASSUME NEW x \in Creates, shellcreate(x[1], x[2])  PROVE CallsOK'
  <2>1. cur'.path = x[1] /\ cur'.call = "create"  BY <1>1 DEF shellcreate, Idle
  <2> QED BY <1>0, <1>1, <1>b, <2>1 DEF shellcreate
<1>2. ASSUME NEW p \in DeletePaths, shelldelete(p) \/ shelldeleteFault(p) \/ removeAll(p)
      PROVE CallsOK'
  BY <1>2, <1>a, CallsLose DEF shelldelete, shelldeleteFault, removeAll
<1>3. ASSUME NEW h \in Handles, NEW x \in Opens, shellopen(h, x[1], x[2])  PROVE CallsOK'
  <2>1. cur'.path = x[1] /\ cur'.call = "open"  BY <1>3 DEF shellopen, Idle
  <2>2. CASE "c" \in x[2]  BY <1>0, <1>3, <1>b, <2>1, <2>2 DEF shellopen
  <2>3. CASE "c" \notin x[2]
    <3>1. fr' = fr /\ Quiet  BY <1>3, <2>3 DEF shellopen
    <3> QED BY <1>q, <2>1, <3>1, CallsIdle
  <2> QED BY <2>2, <2>3
<1>4. ASSUME NEW h \in Handles, fuloadh(h)  PROVE CallsOK'
  BY <1>4, <1>a DEF fuloadh
<1>5. ASSUME NEW h \in Handles, NEW x \in SeekTo, fseek(h, x)  PROVE CallsOK'
  BY <1>5, <1>a DEF fseek, SetPos
<1>6. ASSUME NEW h \in Handles, NEW x \in SeekBy, fseeko(h, x)  PROVE CallsOK'
  BY <1>6, <1>a DEF fseeko, SetPos
<1>7. ASSUME NEW h \in Handles, NEW n \in Lengths, fread(h, n)  PROVE CallsOK'
  BY <1>7, <1>a DEF fread
<1>8. ASSUME NEW h \in Handles, NEW n \in Lengths, NEW v \in Values, fwriteCall(h, n, v)
      PROVE CallsOK'
  <2>1. CASE Lose  BY <2>1, CallsLose
  <2>2. CASE ~Lose
    <3>1. Quiet /\ fr' = fr /\ fh' = fh /\ map' = map /\ Exists(map, FileOf(h))
      BY <1>8, <2>2 DEF fwriteCall
    <3>2. cur' = cur \/ cur'.h = h
      BY <1>8, <2>2 DEF fwriteCall, Idle
    <3>3. CASE cur' = cur  BY <3>1, <3>3, <1>a
    <3>4. CASE cur'.h = h
      <4>1. (FileOf(cur.h))' = FileOf(h)  BY <3>1, <3>4 DEF FileOf
      <4> QED BY <1>q, <3>1, <4>1, CallsIdle
    <3> QED BY <3>2, <3>3, <3>4
  <2> QED BY <2>1, <2>2
<1> QED BY <1>1, <1>2, <1>3, <1>4, <1>5, <1>6, <1>7, <1>8 DEF Client

\* No call is under way while the file system is not mounted.
DownIdle == ~up => cur.call = "idle"

\* Every step leaves a dead process without a call in progress.
LEMMA DownNext ==
  ASSUME DownIdle, [Next]_vars
  PROVE  DownIdle'
<1>a. ASSUME Lose  PROVE DownIdle'  BY <1>a DEF Lose, DownIdle, Idle
<1>b. ASSUME up, up' = up  PROVE DownIdle'  BY <1>b DEF DownIdle
<1>1. ASSUME NEW p \in Paths, fcreateStep(p)  PROVE DownIdle'
  BY <1>1, <1>a, <1>b
     DEF fcreateStep, fcreateExists, fcreateAlloc, fcreateFull, fgetparent, floadhdir,
         fdiraddGrow, fdiraddSpin, fdiraddEntry, fdiraddOverrun, fuloaddir, fcreateInit, InPhase
<1>2. CASE Step
  BY <1>1, <1>2, <1>a, <1>b
     DEF Step, shellcreateDone, shellcreateFault, floadh, fwriteStep, Created
<1>3. CASE Client
  BY <1>3, <1>a, <1>b
     DEF Client, shellcreate, shelldelete, shelldeleteFault, removeAll, shellopen, fuloadh,
         fseek, fseeko, SetPos, fread, fwriteCall, Quiet
<1>4. CASE fmount  BY <1>4 DEF fmount, DownIdle
<1>5. CASE shellexit  BY <1>5, <1>a DEF shellexit
<1>6. CASE Crash  BY <1>6, <1>a DEF Crash
<1>7. CASE UNCHANGED vars  BY <1>7 DEF vars, DownIdle
<1> QED BY <1>2, <1>3, <1>4, <1>5, <1>6, <1>7 DEF Next

\* Every step keeps the activations a stack.
LEMMA CallsNext ==
  ASSUME TypeOK, CallsOK, MapInv, DownIdle, [Next]_vars
  PROVE  CallsOK'
<1>a. ASSUME cur'.call = "idle", fr' = fr, \A p \in Paths : ~Busy(fr, p)  PROVE CallsOK'
  BY <1>a, CallsIdle DEF Busy
<1>b. ASSUME NEW call, Created(call)  PROVE \A p \in Paths : ~Busy(fr, p)
  <2>1. ~Busy(fr, cur.path)  BY <1>b DEF Created, Busy
  <2> QED BY <2>1, StackEmpty DEF CallsOK
<1>1. CASE \E p \in Paths : fcreateStep(p)  BY <1>1, CallsCreate
<1>2. CASE shellcreateDone
  BY <1>2, <1>a, <1>b DEF shellcreateDone, Idle
<1>3. CASE shellcreateFault  BY <1>3, CallsLose DEF shellcreateFault
<1>4. CASE floadh  BY <1>4, <1>a, <1>b DEF floadh, Idle
<1>5. CASE fwriteStep  BY <1>5, CallsWrite
<1>6. CASE Client  BY <1>6, CallsClient
<1>7. CASE fmount
  <2>1. cur'.call = "idle" /\ fr' = fr  BY <1>7 DEF fmount, DownIdle
  <2>2. \A p \in Paths : ~Busy(fr, p)  BY <1>7 DEF fmount, DownIdle, CallsOK
  <2> QED BY <1>a, <2>1, <2>2
<1>8. CASE shellexit  BY <1>8, CallsLose DEF shellexit
<1>9. CASE Crash  BY <1>9, CallsLose DEF Crash
<1>10. CASE UNCHANGED vars  BY <1>10 DEF CallsOK, vars, FileOf
<1> QED BY <1>1, <1>2, <1>3, <1>4, <1>5, <1>6, <1>7, <1>8, <1>9, <1>10 DEF Next, Step

----------------------------------------------------------------------------
(* The entry of an activation is safe from the allocations made meanwhile. *)

\* An edit of the map that leaves every entry alone that belongs to p.
LEMMA KeepsFrames ==
  ASSUME FrameOwns,
         \A q \in Paths : fr'[q].ph \notin {"none", "alloc"} =>
             /\ fr[q].ph \notin {"none", "alloc"} /\ fr'[q].cl = fr[q].cl
             /\ map'[fr[q].cl] = map[fr[q].cl]
  PROVE  FrameOwns'
BY DEF FrameOwns

\* Every step leaves each activation the owner of its entry.
LEMMA FrameNext ==
  ASSUME TypeOK, CallsOK, MapInv, DownIdle, FrameOwns, [Next]_vars
  PROVE  FrameOwns'
<1>0. fr \in [Paths -> Frame]  BY DEF TypeOK
<1>e. \A p \in Paths : fr[p].cl \in Clusters  BY <1>0 DEF Frame
<1>u. \A p \in Paths : p # Unused  BY MapAssumption
<1>a. ASSUME Lose  PROVE FrameOwns'
  BY <1>a DEF Lose, NoFrame, FrameOwns
<1>b. ASSUME map' = map, NEW p \in Paths, fr' \in [Paths -> Frame],
             \A q \in Paths : q # p => fr'[q] = fr[q],
             fr'[p].ph \notin {"none", "alloc"} =>
                fr[p].ph \notin {"none", "alloc"} /\ fr'[p].cl = fr[p].cl
      PROVE  FrameOwns'
  BY <1>b, KeepsFrames
<1>c. ASSUME NEW c \in Clusters, map[c].code = Unused, fr' = fr,
             \A e \in Clusters : e # c => map'[e] = map[e]
      PROVE  FrameOwns'
  <2>1. \A q \in Paths : fr[q].ph \notin {"none", "alloc"} => fr[q].cl # c
    BY <1>c, <1>u DEF FrameOwns
  <2> QED BY <1>c, <1>e, <2>1, KeepsFrames
<1>d. ASSUME \A p \in Paths : fr'[p].ph = "none"  PROVE FrameOwns'
  BY <1>d DEF FrameOwns
<1>1. ASSUME NEW p \in Paths, fcreateStep(p)  PROVE FrameOwns'
  <2>0. fr' \in [Paths -> Frame]
    <3>1. TypeOK'  BY <1>1, TypeCreate
    <3> QED BY <3>1 DEF TypeOK
  <2>1. CASE fcreateExists(p)
    <3>1. map' = map /\ fr'[p].ph = "none" /\ \A q \in Paths : q # p => fr'[q] = fr[q]
      BY <1>0, <2>1 DEF fcreateExists, Return, NoFrame
    <3> QED BY <1>b, <2>0, <3>1
  <2>2. CASE fcreateAlloc(p)
    <3> DEFINE m == Cleared(p)
               c == allocatecluster(m, lastAlloc)
    <3>1. c \in Clusters /\ m[c].code = Unused  BY <2>2, AllocIsFree DEF fcreateAlloc
    <3>2. m \in Map /\ \A e \in Clusters : map[e].code # p => m[e] = map[e]  BY ClearedOK
    <3>3. map' = NewHead(m, c, p, fr[p].flags)  BY <2>2 DEF fcreateAlloc
    <3>4. fr'[p].ph = "parent" /\ fr'[p].cl = c /\ \A q \in Paths : q # p => fr'[q] = fr[q]
      BY <1>0, <2>2 DEF fcreateAlloc, Frame
    <3> HIDE DEF m, c
    <3>5. map'[c].code = p /\ map'[c].idx = 0 /\ \A e \in Clusters : e # c => map'[e] = m[e]
      BY <3>1, <3>2, <3>3 DEF NewHead, Map
    <3>6. \A q \in Paths : q # p /\ fr[q].ph \notin {"none", "alloc"} =>
             map'[fr[q].cl] = map[fr[q].cl]
      <4> SUFFICES ASSUME NEW q \in Paths, q # p, fr[q].ph \notin {"none", "alloc"}
                   PROVE  map'[fr[q].cl] = map[fr[q].cl]
        OBVIOUS
      <4>1. map[fr[q].cl].code = q  BY DEF FrameOwns
      <4>2. m[fr[q].cl] = map[fr[q].cl]  BY <4>1, <3>2, <1>e
      <4>3. fr[q].cl # c  BY <4>1, <4>2, <3>1, <1>u
      <4> QED BY <4>2, <4>3, <3>5, <1>e
    <3> QED BY <3>4, <3>5, <3>6 DEF FrameOwns
  <2>3. CASE fcreateFull(p)
    <3>1. map' = Cleared(p) /\ fr'[p].ph = "none" /\ \A q \in Paths : q # p => fr'[q] = fr[q]
      BY <1>0, <2>3 DEF fcreateFull, Return, NoFrame
    <3>2. \A e \in Clusters : map[e].code # p => map'[e] = map[e]
      BY <3>1, ClearedOK
    <3>3. \A q \in Paths : q # p /\ fr[q].ph \notin {"none", "alloc"} =>
             map'[fr[q].cl] = map[fr[q].cl]
      BY <3>2, <1>e DEF FrameOwns
    <3> QED BY <3>1, <3>3, KeepsFrames
  <2>4. CASE fgetparent(p)
    <3>1. map' = map /\ fr[p].ph = "parent"  BY <2>4 DEF fgetparent, InPhase
    <3>2. fr'[p].cl = fr[p].cl \/ Parent[p] = p
      BY <1>0, <2>4 DEF fgetparent, Enter, Frame, NoFrame
    <3>3. Parent[p] # p
      <4>1. Depth \in [Paths -> Nat]  BY FratAssumption
      <4>2. Parent[p] # NoParent => Depth[Parent[p]] < Depth[p]  BY FratAssumption
      <4> QED BY <4>1, <4>2, FratAssumption
    <3>4. \A q \in Paths : q # p => fr'[q] = fr[q] \/ fr'[q].ph = "alloc"
      BY <1>0, <2>4 DEF fgetparent, Enter, Frame, NoFrame
    <3> QED BY <3>1, <3>2, <3>3, <3>4, KeepsFrames
  <2>5. CASE floadhdir(p)
    <3>1. map' = map /\ fr[p].ph = "wait" /\ fr'[p].cl = fr[p].cl
          /\ \A q \in Paths : q # p => fr'[q] = fr[q]
      BY <1>0, <2>5 DEF floadhdir, InPhase, Goto, Frame
    <3> QED BY <1>b, <2>0, <3>1
  <2>6. CASE fdiraddGrow(p)
    <3> DEFINE c == allocatecluster(map, lastAlloc)
               f == ffind(map, Parent[p])
    <3>1. c \in Clusters /\ map[c].code = Unused  BY <2>6, AllocIsFree DEF fdiraddGrow
    <3>2. map' = faddr(map, c, f) /\ fr' = fr  BY <2>6 DEF fdiraddGrow
    <3> HIDE DEF c, f
    <3>3. \A e \in Clusters : e # c => map'[e] = map[e]  BY <3>2 DEF faddr, TypeOK
    <3> QED BY <1>c, <3>1, <3>2, <3>3
  <2>7. CASE fdiraddSpin(p)  BY <2>7 DEF fdiraddSpin, FrameOwns
  <2>8. CASE fdiraddEntry(p)
    <3>1. map' = map /\ fr[p].ph = "dir" /\ fr'[p].cl = fr[p].cl
          /\ \A q \in Paths : q # p => fr'[q] = fr[q]
      BY <1>0, <2>8 DEF fdiraddEntry, InPhase, Frame
    <3> QED BY <1>b, <2>0, <3>1
  <2>9. CASE fdiraddOverrun(p)
    <3>1. CASE Lose  BY <3>1, <1>a
    <3>2. CASE ~Lose
      <4>1. map' = map /\ fr[p].ph = "dir" /\ fr'[p].cl = fr[p].cl
            /\ \A q \in Paths : q # p => fr'[q] = fr[q]
        BY <1>0, <2>9, <3>2 DEF fdiraddOverrun, InPhase, Frame
      <4> QED BY <1>b, <2>0, <4>1
    <3> QED BY <3>1, <3>2
  <2>10. CASE fuloaddir(p)
    <3>1. map' = map /\ fr[p].ph = "dirblk" /\ fr'[p].cl = fr[p].cl
          /\ \A q \in Paths : q # p => fr'[q] = fr[q]
      BY <1>0, <2>10 DEF fuloaddir, InPhase, Goto, Frame
    <3> QED BY <1>b, <2>0, <3>1
  <2>11. CASE fcreateInit(p)
    <3>1. map' = map /\ fr'[p].ph = "none" /\ \A q \in Paths : q # p => fr'[q] = fr[q]
      BY <1>0, <2>11 DEF fcreateInit, Return, NoFrame
    <3> QED BY <1>b, <2>0, <3>1
  <2> QED BY <1>1, <2>1, <2>2, <2>3, <2>4, <2>5, <2>6, <2>7, <2>8, <2>9, <2>10, <2>11
          DEF fcreateStep
<1>2. CASE shellcreateDone \/ floadh
  BY <1>2 DEF shellcreateDone, floadh, FrameOwns
<1>3. CASE shellcreateFault  BY <1>3, <1>a DEF shellcreateFault
<1>4. CASE fwriteStep
  BY <1>4, <1>d DEF fwriteStep, CallsOK, Busy
<1>5. CASE Client
  <2>q. Quiet => \A p \in Paths : fr[p].ph = "none"  BY DEF Quiet, CallsOK, Busy
  <2>a. ASSUME Quiet, fr' = fr  PROVE FrameOwns'  BY <2>q, <2>a, <1>d
  <2>b. ASSUME Quiet, NEW p \in Paths, NEW flags, fr' = Enter(fr, p, flags)  PROVE FrameOwns'
    <3>1. \A q \in Paths : fr'[q].ph \in {"none", "alloc"}
      BY <2>b, <2>q, <1>0 DEF Enter, NoFrame
    <3> QED BY <3>1 DEF FrameOwns
  <2>0. \A x \in Creates \cup Opens : x[1] \in Paths  BY FratAssumption
  <2>1. ASSUME NEW x \in Creates, shellcreate(x[1], x[2])  PROVE FrameOwns'
    BY <2>0, <2>1, <2>b DEF shellcreate
  <2>2. ASSUME NEW p \in DeletePaths, shelldelete(p) \/ shelldeleteFault(p) \/ removeAll(p)
        PROVE FrameOwns'
    BY <2>2, <2>a, <1>a DEF shelldelete, shelldeleteFault, removeAll
  <2>3. ASSUME NEW h \in Handles, NEW x \in Opens, shellopen(h, x[1], x[2])  PROVE FrameOwns'
    BY <2>0, <2>3, <2>a, <2>b DEF shellopen
  <2>4. ASSUME NEW h \in Handles, fuloadh(h)  PROVE FrameOwns'
    BY <2>4, <2>a DEF fuloadh
  <2>5. ASSUME NEW h \in Handles, NEW x \in SeekTo, fseek(h, x)  PROVE FrameOwns'
    BY <2>5, <2>a DEF fseek, SetPos
  <2>6. ASSUME NEW h \in Handles, NEW x \in SeekBy, fseeko(h, x)  PROVE FrameOwns'
    BY <2>6, <2>a DEF fseeko, SetPos
  <2>7. ASSUME NEW h \in Handles, NEW n \in Lengths, fread(h, n)  PROVE FrameOwns'
    BY <2>7, <2>a DEF fread
  <2>8. ASSUME NEW h \in Handles, NEW n \in Lengths, NEW v \in Values, fwriteCall(h, n, v)
        PROVE FrameOwns'
    BY <2>8, <2>a, <1>a DEF fwriteCall
  <2> QED BY <1>5, <2>1, <2>2, <2>3, <2>4, <2>5, <2>6, <2>7, <2>8 DEF Client
<1>6. CASE shellexit  BY <1>6, <1>a DEF shellexit
<1>7. CASE Crash  BY <1>7, <1>a DEF Crash
<1>8. CASE UNCHANGED vars  BY <1>8 DEF FrameOwns, vars
<1>9. CASE fmount
  BY <1>9, <1>d DEF fmount, DownIdle, CallsOK, Busy
<1> QED BY <1>1, <1>2, <1>3, <1>4, <1>5, <1>6, <1>7, <1>8, <1>9 DEF Next, Step

----------------------------------------------------------------------------
(* The theorems.  IInv is inductive: TypeOK needs the parent directory of a *)
(* running __fdiradd to exist (CallsOK), MapInv needs the family of __faddr *)
(* to exist (CallsOK), CallsOK needs a dead process to have no call in      *)
(* progress (DownIdle), and FrameOwns needs all of them.                    *)

IInv == TypeOK /\ MapInv /\ FrameOwns /\ CallsOK /\ DownIdle

\* A freshly formatted disk that is not mounted satisfies the invariant.
LEMMA InitIInv == Init => IInv
<1> SUFFICES ASSUME Init PROVE IInv  OBVIOUS
<1>1. TypeOK
  <2>1. EmptyMap \in [Clusters -> fsblock]  BY EmptyMapOK DEF Map
  <2>2. 0 \in Clusters  BY MapAssumption DEF Clusters
  <2> QED BY <2>1, <2>2, ConstTypes, BlockTypes DEF Init, TypeOK
<1>2. MapInv  BY EmptyMapOK DEF Init, MapInv
<1>3. FrameOwns  BY DEF Init, FrameOwns, NoFrame
<1>4. CallsOK
  BY DEF Init, CallsOK, Stack, Busy, Running, WaitsFor, NoFrame, Idle
<1>5. DownIdle  BY DEF Init, DownIdle, Idle
<1> QED BY <1>1, <1>2, <1>3, <1>4, <1>5 DEF IInv

\* Every step of the file system keeps the invariant.
LEMMA NextIInv == IInv /\ [Next]_vars => IInv'
BY TypeNext, MapNext, FrameNext, CallsNext, DownNext DEF IInv

\* The inductive invariant holds in every reachable state.
THEOREM Inductive == Spec => []IInv
BY InitIInv, NextIInv, PTL DEF Spec

\* The state of the mounted file system and of the disk keeps its types: no
\* operation indexes the cluster map outside its N entries, and positions stay
\* within 64 bits (allocatecluster, __ffindhi, _fseeko, _fread, _fwrite).
THEOREM TypeCorrect == Spec => []TypeOK
<1>1. IInv => TypeOK  BY DEF IInv
<1> QED BY <1>1, Inductive, PTL

\* The cluster map is well formed in memory and on disk, for every number of
\* clusters, every set of paths and every sequence of calls and crashes.
THEOREM MapWellFormed == Spec => []MapInv
<1>1. IInv => MapInv  BY DEF IInv
<1> QED BY <1>1, Inductive, PTL

\* The entry an activation of __fcreate has taken stays the metadata entry of
\* its item until the activation returns.
THEOREM FramesOwnTheirEntry == Spec => []FrameOwns
<1>1. IInv => FrameOwns  BY DEF IInv
<1> QED BY <1>1, Inductive, PTL

\* The recursion of __fcreate through __fgetparent is a stack of ever
\* shallower paths, and the directory of a running __fdiradd exists.
THEOREM CallsNested == Spec => []CallsOK
<1>1. IInv => CallsOK  BY DEF IInv
<1> QED BY <1>1, Inductive, PTL

----------------------------------------------------------------------------
(* Ownership of entries.                                                   *)

\* What a step of NoSteal may do to the entries of the map.
KeepsOwners(m) == \A c \in Clusters :
    map[c].code # Unused => m[c].code \in {map[c].code, Unused}

\* One step of the live file system takes no entry away from its item.
LEMMA NextKeepsOwners ==
  ASSUME IInv, [Next]_vars, up, up'
  PROVE  KeepsOwners(map')
<1> USE DEF KeepsOwners
<1>0. TypeOK /\ MapInv /\ map \in Map  BY DEF IInv, TypeOK, Map
<1>a. ASSUME map' = map  PROVE KeepsOwners(map')  BY <1>a
<1>b. ASSUME Lose  PROVE KeepsOwners(map')  BY <1>b DEF Lose
<1>c. ASSUME NEW c \in Clusters, map[c].code = Unused,
             \A e \in Clusters : e # c => map'[e] = map[e]
      PROVE  KeepsOwners(map')
  BY <1>c
<1>1. ASSUME NEW p \in Paths, fcreateStep(p)  PROVE KeepsOwners(map')
  <2>1. CASE fcreateAlloc(p)
    <3> DEFINE m == Cleared(p)
               c == allocatecluster(m, lastAlloc)
    <3>1. m \in Map /\ KeepsOwners(m)  BY <1>0, ClearedOK
    <3>2. c \in Clusters /\ m[c].code = Unused
      BY <2>1, AllocIsFree DEF fcreateAlloc
    <3>3. map' = NewHead(m, c, p, fr[p].flags)  BY <2>1 DEF fcreateAlloc
    <3>5. m[c].code = Unused /\ (map[c].code = Unused \/ map[c].code = p)
      BY <1>0, <3>2, ClearedOK
    <3> HIDE DEF m, c
    <3>4. map'[c].code = p /\ \A e \in Clusters : e # c => map'[e] = map[e] \/ map'[e] = m[e]
      BY <3>1, <3>2, <3>3 DEF NewHead, Map
    <3>6. \A e \in Clusters : e # c => map'[e] = m[e]
      BY <3>1, <3>2, <3>3 DEF NewHead, Map
    <3> QED BY <3>1, <3>4, <3>5, <3>6
  <2>2. CASE fcreateFull(p)
    BY <1>0, <2>2, ClearedOK DEF fcreateFull
  <2>3. CASE fdiraddGrow(p)
    <3> DEFINE c == allocatecluster(map, lastAlloc)
               f == ffind(map, Parent[p])
    <3>1. c \in Clusters /\ map[c].code = Unused  BY <2>3, AllocIsFree DEF fdiraddGrow
    <3>2. map' = faddr(map, c, f)  BY <2>3 DEF fdiraddGrow
    <3> HIDE DEF c, f
    <3>3. \A e \in Clusters : e # c => map'[e] = map[e]  BY <1>0, <3>2 DEF faddr, Map
    <3> QED BY <1>c, <3>1, <3>3
  <2>4. CASE \/ fcreateExists(p) \/ fgetparent(p) \/ floadhdir(p) \/ fdiraddSpin(p)
             \/ fdiraddEntry(p) \/ fdiraddOverrun(p) \/ fuloaddir(p) \/ fcreateInit(p)
    BY <2>4, <1>a, <1>b DEF fcreateExists, fgetparent, floadhdir, fdiraddSpin, fdiraddEntry,
         fdiraddOverrun, fuloaddir, fcreateInit
  <2> QED BY <1>1, <2>1, <2>2, <2>3, <2>4 DEF fcreateStep
<1>2. CASE fwriteStep
  <2> DEFINE c == allocatecluster(map, lastAlloc)
             f == fh[cur.h].cl
  <2>1. CASE CanAlloc(map, lastAlloc) /\ map' = faddr(map, c, f)
    <3>1. c \in Clusters /\ map[c].code = Unused  BY <2>1, AllocIsFree
    <3>2. map' = faddr(map, c, f)  BY <2>1
    <3> HIDE DEF c, f
    <3>3. \A e \in Clusters : e # c => map'[e] = map[e]  BY <1>0, <3>2 DEF faddr, Map
    <3> QED BY <1>c, <3>1, <3>3
  <2>2. CASE map' = map  BY <2>2, <1>a
  <2> QED BY <1>2, <2>1, <2>2 DEF fwriteStep
<1>3. CASE shellcreateDone \/ shellcreateFault \/ floadh
  BY <1>3, <1>a, <1>b DEF shellcreateDone, shellcreateFault, floadh
<1>4. CASE Client
  <2>1. ASSUME NEW p \in DeletePaths, shelldelete(p)  PROVE KeepsOwners(map')
    <3>1. p \in Paths  BY FratAssumption
    <3>2. map' = Cleared(p)  BY <2>1 DEF shelldelete, Cleared
    <3> QED BY <1>0, <3>1, <3>2, ClearedOK
  <2>2. ASSUME NEW p \in DeletePaths, removeAll(p)  PROVE KeepsOwners(map')
    BY <1>0, <2>2 DEF removeAll, ffremovel, Map, fsblock
  <2>3. ASSUME NEW p \in DeletePaths, shelldeleteFault(p)  PROVE KeepsOwners(map')
    BY <2>3, <1>b DEF shelldeleteFault
  <2>4. ASSUME NEW h \in Handles, NEW n \in Lengths, NEW v \in Values, fwriteCall(h, n, v)
        PROVE  KeepsOwners(map')
    BY <2>4, <1>a, <1>b DEF fwriteCall
  <2>5. ASSUME NEW x \in Creates, shellcreate(x[1], x[2])  PROVE KeepsOwners(map')
    BY <2>5, <1>a DEF shellcreate
  <2>6. ASSUME NEW h \in Handles,
               \/ \E x \in Opens : shellopen(h, x[1], x[2])
               \/ fuloadh(h)
               \/ \E x \in SeekTo : fseek(h, x)
               \/ \E x \in SeekBy : fseeko(h, x)
               \/ \E n \in Lengths : fread(h, n)
        PROVE  KeepsOwners(map')
    BY <2>6, <1>a DEF shellopen, fuloadh, fseek, fseeko, fread, SetPos
  <2> QED BY <1>4, <2>1, <2>2, <2>3, <2>4, <2>5, <2>6 DEF Client
<1>5. CASE fmount \/ shellexit \/ Crash
  BY <1>5 DEF fmount, shellexit, Crash, Lose
<1>6. CASE UNCHANGED vars  BY <1>6, <1>a DEF vars
<1> QED BY <1>1, <1>2, <1>3, <1>4, <1>5, <1>6 DEF Next, Step

\* No entry of the live map passes from one item to another without having
\* been given back in between: allocatecluster hands out unused entries only,
\* on whatever behalf it is called.
THEOREM EntriesNotStolen == Spec => NoSteal
<1>1. IInv /\ [Next]_vars =>
        [ up /\ up' => \A c \in Clusters :
            map[c].code # Unused => map'[c].code \in {map[c].code, Unused} ]_vars
  BY NextKeepsOwners DEF KeepsOwners
<1> QED BY <1>1, Inductive, PTL DEF Spec, NoSteal

----------------------------------------------------------------------------
(* Frat implements the store of FratStore for one disk.                    *)

\* The lemmas Maps... state the steps of the store in terms of the items of
\* the two maps.  A step that changes neither map is none.
LEMMA MapsStutter ==
  ASSUME up' = up, map' = map, dmap' = dmap, committed' = committed
  PROVE  UNCHANGED Store!vars
BY DEF Store!vars, ItemsOf

\* A step that only adds or drops data entries of the cached map.
LEMMA MapsSameItems ==
  ASSUME up, up', ItemsOf(map') = ItemsOf(map), dmap' = dmap, committed' = committed
  PROVE  UNCHANGED Store!vars
BY DEF Store!vars

\* fmount reads the durable items back.
LEMMA MapsMount ==
  ASSUME ~up, up', map' = dmap, dmap' = dmap, committed' = committed
  PROVE  Store!Next
<1>1. Store!Mount("disk")  BY DEF Store!Mount
<1> QED BY <1>1 DEF Store!Next

\* A flush makes all cached items durable.
LEMMA MapsFlush ==
  ASSUME up, up', map' = map, dmap' = map, committed' = committed
  PROVE  Store!Next
<1>1. Store!Flush("disk")  BY DEF Store!Flush
<1> QED BY <1>1 DEF Store!Next

\* An item is made, or made anew, in the cached map.
LEMMA MapsPut ==
  ASSUME up, up', NEW p \in Paths, ItemsOf(map') = ItemsOf(map) \cup {p},
         dmap' = dmap, committed' = committed \ {p}
  PROVE  Store!Next
<1>1. Store!Put("disk", p)  BY DEF Store!Put
<1> QED BY <1>1 DEF Store!Next

\* An item is removed from the cached map.
LEMMA MapsDelete ==
  ASSUME up, up', NEW p \in Paths, ItemsOf(map') = ItemsOf(map) \ {p},
         dmap' = dmap, committed' = committed \ {p}
  PROVE  Store!Next
<1>1. Store!Delete("disk", p)  BY DEF Store!Delete
<1> QED BY <1>1 DEF Store!Next

\* create returns: its item, cached already, is now durable.
LEMMA MapsCreate ==
  ASSUME up, up', NEW p \in Paths, p \in ItemsOf(map), map' = map, dmap' = map,
         committed' = committed \cup {p}
  PROVE  Store!Next
<1>1. ItemsOf(map) \cup {p} = ItemsOf(map)  OBVIOUS
<1>2. Store!Create("disk", p)  BY <1>1 DEF Store!Create
<1> QED BY <1>2 DEF Store!Next

\* The process ends, with a flush (exit) or without one.
LEMMA MapsLose ==
  ASSUME up, ~up', dmap' = dmap \/ dmap' = map, committed' = committed
  PROVE  Store!Next
<1>1. CASE dmap' = dmap
  <2>1. Store!Unmount({"disk"}, {})  BY <1>1 DEF Store!Unmount
  <2> QED BY <2>1 DEF Store!Next
<1>2. CASE dmap' = map
  <2>1. Store!Unmount({"disk"}, {"disk"})  BY <1>2 DEF Store!Unmount
  <2> QED BY <2>1 DEF Store!Next
<1> QED BY <1>1, <1>2

\* Filling a free entry with a data block adds no item.
LEMMA FaddrItems ==
  ASSUME NEW m \in Map, MapOK(m), NEW f \in Clusters, NEW c \in Clusters,
         m[c].code = Unused, m[f].code = Unused \/ Exists(m, m[f].code)
  PROVE  ItemsOf(faddr(m, c, f)) = ItemsOf(m)
<1> DEFINE n == faddr(m, c, f)
           k == Cardinality(Owned(m, m[f].code))
<1>1. k \in Nat  BY OwnedFinite
<1>2. n \in Map /\ n[c].code = m[f].code /\ n[c].idx = k
  BY <1>1 DEF faddr, Map, fsblock, Codes
<1>3. \A e \in Clusters \ {c} : n[e] = m[e]  BY DEF faddr, Map
<1>4. ASSUME m[f].code # Unused  PROVE k # 0
  <2>1. f \in Owned(m, m[f].code)  BY DEF Owned
  <2>2. Owned(m, m[f].code) # {}  BY <2>1
  <2> QED BY <2>2, OwnedFinite, FS_EmptySet
<1>5. \A p \in Paths : p # Unused  BY MapAssumption
<1> HIDE DEF n, k
<1>6. \A p \in Paths : Exists(n, p) <=> Exists(m, p)
  BY <1>2, <1>3, <1>4, <1>5, ExistsIff
<1> QED BY <1>6 DEF ItemsOf, n

\* Removing or replacing the metadata entry of one item leaves the others.
LEMMA ClearedItems ==
  ASSUME TypeOK, MapInv, NEW p \in Paths
  PROVE  ItemsOf(Cleared(p)) = ItemsOf(map) \ {p}
<1>1. /\ ~Exists(Cleared(p), p)
      /\ \A c \in Clusters : Cleared(p)[c].code \in {map[c].code, Unused}
      /\ \A c \in Clusters : map[c].code # p => Cleared(p)[c] = map[c]
  BY ClearedOK
<1>2. \A q \in Paths : q # Unused  BY MapAssumption
<1>3. \A q \in Paths : q # p => (Exists(Cleared(p), q) <=> Exists(map, q))
  BY <1>1, <1>2, ExistsIff
<1> QED BY <1>1, <1>3 DEF ItemsOf

\* __fcreate's new metadata entry adds one item.
LEMMA NewHeadItems ==
  ASSUME NEW m \in Map, NEW c \in Clusters, m[c].code = Unused, NEW p \in Paths, NEW flags
  PROVE  ItemsOf(NewHead(m, c, p, flags)) = ItemsOf(m) \cup {p}
<1> DEFINE n == NewHead(m, c, p, flags)
<1>1. n[c].code = p /\ n[c].idx = 0 /\ \A e \in Clusters : e # c => n[e] = m[e]
  BY DEF NewHead, Map
<1>2. \A q \in Paths : q # Unused  BY MapAssumption
<1> HIDE DEF n
<1>3. \A q \in Paths : Exists(n, q) <=> (Exists(m, q) \/ q = p)
  BY <1>1, <1>2, ExistsIff
<1> QED BY <1>3 DEF ItemsOf, n

\* Removing every entry of an item removes one item.
LEMMA RemovelItems ==
  ASSUME NEW m \in Map, NEW p \in Paths
  PROVE  ItemsOf(ffremovel(m, p)) = ItemsOf(m) \ {p}
<1> DEFINE n == ffremovel(m, p)
<1>1. \A e \in Clusters : n[e].code = IF m[e].code = p THEN Unused ELSE m[e].code
  BY DEF ffremovel, Map, fsblock
<1>2. \A e \in Clusters : n[e].idx = m[e].idx
  BY DEF ffremovel, Map, fsblock
<1>3. \A q \in Paths : q # Unused  BY MapAssumption
<1> HIDE DEF n
<1>4. \A q \in Paths : Exists(n, q) <=> (Exists(m, q) /\ q # p)
  BY <1>1, <1>2, <1>3, ExistsIff
<1> QED BY <1>4 DEF ItemsOf, n

\* Every step of the file system is a step of the store, or none.
LEMMA StoreStep ==
  ASSUME IInv, [Next]_vars
  PROVE  Store!Next \/ UNCHANGED Store!vars
<1>0. TypeOK /\ MapInv /\ CallsOK /\ map \in Map /\ MapOK(map)
  BY DEF IInv, TypeOK, MapInv, Map
<1>1. ASSUME NEW p \in Paths, fcreateStep(p)
      PROVE  Store!Next \/ UNCHANGED Store!vars
  <2>1. CASE fcreateAlloc(p)
    <3> DEFINE m == Cleared(p)
               c == allocatecluster(m, lastAlloc)
    <3>1. m \in Map /\ ItemsOf(m) = ItemsOf(map) \ {p}  BY <1>0, ClearedOK, ClearedItems
    <3>2. c \in Clusters /\ m[c].code = Unused  BY <2>1, AllocIsFree DEF fcreateAlloc
    <3>3. /\ map' = NewHead(m, c, p, fr[p].flags) /\ up /\ up' = up
          /\ dmap' = dmap /\ committed' = committed \ {p}
      BY <2>1 DEF fcreateAlloc, InPhase, disk
    <3> HIDE DEF m, c
    <3>4. ItemsOf(map') = ItemsOf(map) \cup {p}
      <4>1. ItemsOf(NewHead(m, c, p, fr[p].flags)) = ItemsOf(m) \cup {p}
        BY <3>1, <3>2, NewHeadItems
      <4> QED BY <4>1, <3>1, <3>3
    <3> QED BY <3>3, <3>4, MapsPut
  <2>2. CASE fcreateFull(p)
    <3>1. /\ map' = Cleared(p) /\ up /\ up' = up
          /\ dmap' = dmap /\ committed' = committed \ {p}
      BY <2>2 DEF fcreateFull, InPhase, disk
    <3>2. ItemsOf(map') = ItemsOf(map) \ {p}  BY <3>1, <1>0, ClearedItems
    <3> QED BY <3>1, <3>2, MapsDelete
  <2>3. CASE fdiraddGrow(p)
    <3> DEFINE c == allocatecluster(map, lastAlloc)
               f == ffind(map, Parent[p])
    <3>1. Exists(map, Parent[p])  BY <1>0, <2>3 DEF fdiraddGrow, CallsOK, InPhase
    <3>2. f \in Clusters /\ map[f].code = Parent[p]  BY <3>1, FindHead
    <3>3. c \in Clusters /\ map[c].code = Unused  BY <2>3, AllocIsFree DEF fdiraddGrow
    <3>4. map' = faddr(map, c, f) /\ up /\ up' = up /\ dmap' = dmap /\ committed' = committed
      BY <2>3 DEF fdiraddGrow, InPhase
    <3> HIDE DEF c, f
    <3>5. ItemsOf(map') = ItemsOf(map)  BY <1>0, <3>1, <3>2, <3>3, <3>4, FaddrItems
    <3> QED BY <3>4, <3>5, MapsSameItems
  <2>4. CASE \/ fcreateExists(p) \/ fgetparent(p) \/ floadhdir(p) \/ fdiraddSpin(p)
             \/ fuloaddir(p) \/ fcreateInit(p)
    BY <2>4, MapsStutter DEF fcreateExists, fgetparent, floadhdir, fdiraddSpin,
         fuloaddir, fcreateInit, disk
  <2>5. CASE fdiraddEntry(p)  BY <2>5, MapsFlush DEF fdiraddEntry, InPhase
  <2>6. CASE fdiraddOverrun(p)
    BY <2>6, MapsFlush, MapsLose DEF fdiraddOverrun, InPhase, Lose
  <2> QED BY <1>1, <2>1, <2>2, <2>3, <2>4, <2>5, <2>6 DEF fcreateStep
<1>2. CASE fwriteStep
  <2> DEFINE c == allocatecluster(map, lastAlloc)
             f == fh[cur.h].cl
  <2>1. up /\ up' = up /\ dmap' = dmap /\ committed' = committed /\ cur.call = "write"
    BY <1>2 DEF fwriteStep
  <2>2. CASE map' = map  BY <2>1, <2>2, MapsStutter
  <2>3. CASE map' # map
    <3>1. map' = faddr(map, c, f) /\ CanAlloc(map, lastAlloc)  BY <1>2, <2>3 DEF fwriteStep
    <3>2. f \in Clusters  BY <1>0 DEF TypeOK, Call, fhandle
    <3>3. map[f].code = Unused \/ Exists(map, map[f].code)
      BY <1>0, <2>1 DEF CallsOK, FileOf
    <3>4. c \in Clusters /\ map[c].code = Unused  BY <3>1, AllocIsFree
    <3> HIDE DEF c, f
    <3>5. ItemsOf(map') = ItemsOf(map)  BY <1>0, <3>1, <3>2, <3>3, <3>4, FaddrItems
    <3> QED BY <2>1, <3>5, MapsSameItems
  <2> QED BY <2>2, <2>3
<1>3. CASE shellcreateDone
  <2>1. /\ up /\ up' = up /\ map' = map /\ dmap' = map /\ cur.path \in Paths
        /\ cur.path \in ItemsOf(map)
        /\ committed' = committed \cup {cur.path}
    BY <1>0, <1>3 DEF shellcreateDone, Created, ItemsOf, TypeOK, Call
  <2> QED BY <2>1, MapsCreate
<1>4. CASE shellcreateFault
  BY <1>4, MapsLose DEF shellcreateFault, Created, Lose, disk
<1>5. CASE floadh  BY <1>5, MapsStutter DEF floadh, disk
<1>6. CASE Client
  <2>1. ASSUME NEW p \in DeletePaths, shelldelete(p)  PROVE Store!Next
    <3>1. p \in Paths  BY FratAssumption
    <3>2. map' = Cleared(p) /\ up /\ up' = up /\ dmap' = dmap /\ committed' = committed \ {p}
      BY <2>1 DEF shelldelete, Cleared, Quiet, disk
    <3>3. ItemsOf(map') = ItemsOf(map) \ {p}  BY <1>0, <3>1, <3>2, ClearedItems
    <3> QED BY <3>1, <3>2, <3>3, MapsDelete
  <2>2. ASSUME NEW p \in DeletePaths, removeAll(p)  PROVE Store!Next
    <3>1. p \in Paths  BY FratAssumption
    <3>2. /\ map' = ffremovel(map, p) /\ up /\ up' = up /\ dmap' = dmap
          /\ committed' = committed \ {p}
      BY <2>2 DEF removeAll, Quiet, disk
    <3>3. ItemsOf(map') = ItemsOf(map) \ {p}  BY <1>0, <3>1, <3>2, RemovelItems
    <3> QED BY <3>1, <3>2, <3>3, MapsDelete
  <2>3. ASSUME NEW p \in DeletePaths, shelldeleteFault(p)  PROVE Store!Next
    BY <2>3, MapsLose DEF shelldeleteFault, Quiet, Lose, disk
  <2>4. ASSUME NEW h \in Handles, NEW n \in Lengths, NEW v \in Values, fwriteCall(h, n, v)
        PROVE  Store!Next \/ UNCHANGED Store!vars
    BY <2>4, MapsLose, MapsStutter DEF fwriteCall, Quiet, Lose
  <2>5. ASSUME NEW x \in Creates, shellcreate(x[1], x[2])  PROVE UNCHANGED Store!vars
    BY <2>5, MapsStutter DEF shellcreate, disk
  <2>6. ASSUME NEW h \in Handles, fuloadh(h)  PROVE Store!Next
    BY <2>6, MapsFlush DEF fuloadh, Quiet
  <2>7. ASSUME NEW h \in Handles, NEW x \in Opens, shellopen(h, x[1], x[2])
        PROVE  UNCHANGED Store!vars
    BY <2>7, MapsStutter DEF shellopen, disk
  <2>8. ASSUME NEW h \in Handles, NEW x \in SeekTo, fseek(h, x)  PROVE UNCHANGED Store!vars
    BY <2>8, MapsStutter DEF fseek, SetPos, disk
  <2>9. ASSUME NEW h \in Handles, NEW x \in SeekBy, fseeko(h, x)  PROVE UNCHANGED Store!vars
    BY <2>9, MapsStutter DEF fseeko, SetPos, disk
  <2>10. ASSUME NEW h \in Handles, NEW n \in Lengths, fread(h, n)  PROVE UNCHANGED Store!vars
    BY <2>10, MapsStutter DEF fread
  <2> QED BY <1>6, <2>1, <2>2, <2>3, <2>4, <2>5, <2>6, <2>7, <2>8, <2>9, <2>10 DEF Client
<1>7. CASE fmount  BY <1>7, MapsMount DEF fmount, disk
<1>8. CASE shellexit  BY <1>8, MapsLose DEF shellexit, Quiet, Lose
<1>9. CASE Crash  BY <1>9, MapsLose DEF Crash, Lose, disk
<1>10. CASE UNCHANGED vars  BY <1>10, MapsStutter DEF vars
<1> QED BY <1>1, <1>2, <1>3, <1>4, <1>5, <1>6, <1>7, <1>8, <1>9, <1>10 DEF Next, Step

\* The many steps of create, delete, write, close and exit, with a crash
\* between any two of them, implement the store: a step changes the items of
\* the cached map by one at most, a flush is one of the whole map, and create
\* returns only when the map with its item is on disk.
THEOREM FratImplementsStore == Spec => ImplementsStore
<1>1. Init => Store!Init
  <2> SUFFICES ASSUME Init PROVE Store!Init  OBVIOUS
  <2>1. \A p \in Paths : p # Unused  BY MapAssumption
  <2>2. \A p \in Paths : ~Exists(EmptyMap, p)  BY <2>1, ExistsIff DEF EmptyMap
  <2>3. ItemsOf(EmptyMap) = {}  BY <2>2 DEF ItemsOf
  <2> QED BY <2>3 DEF Init, Store!Init
<1>2. IInv /\ [Next]_vars => [Store!Next]_(Store!vars)  BY StoreStep
<1> QED BY <1>1, <1>2, Inductive, PTL DEF Spec, ImplementsStore, Store!Spec

----------------------------------------------------------------------------
(* Which steps write which blocks.                                         *)

\* One turn of the loop of _fwrite changes a block that belongs to nobody, or
\* a block of the item the handle works on: the handle's own entry when that
\* is no metadata cluster, or the entry __ffindhi found for the position.
LEMMA WriteTargets ==
  ASSUME IInv, fwriteStep, NEW c \in Clusters, blk'[c] # blk[c]
  PROVE  \/ map[c].code = Unused
         \/ /\ map[c].code = FileOf(cur.h)
            /\ \/ "metadatacluster" \notin map[c].attr
               \/ map[c].idx = (cur.pos \div B) % IdxMod
<1> DEFINE h     == cur.h
           i     == cur.pos \div B
           off   == cur.pos % B
           chunk == Min({B - off, cur.left})
           a     == allocatecluster(map, lastAlloc)
           new(old) == Data(Overlay(old, off, chunk, cur.val))
<1>0. blk \in [Clusters -> Block]  BY DEF IInv, TypeOK
<1>1. CASE HasBlock(h, i)
  <2>1. /\ ~(Own(h, i) /\ "metadatacluster" \in map[fh[h].cl].attr)
        /\ blk' = [blk EXCEPT ![BlockOf(h, i)] = new(CellsOf(blk[BlockOf(h, i)]))]
    BY <1>1 DEF fwriteStep
  <2>2. c = BlockOf(h, i)  BY <2>1, <1>0
  <2>3. CASE Own(h, i)
    <3>1. c = fh[h].cl  BY <2>2, <2>3 DEF BlockOf
    <3> QED BY <3>1, <2>1, <2>3 DEF FileOf
  <2>4. CASE ~Own(h, i)
    <3>1. c = ffindhi(map, FileOf(h), i) /\ Found(map, FileOf(h), i)
      BY <2>2, <2>4, <1>1 DEF BlockOf, HasBlock
    <3> QED BY <3>1, FindHits
  <2> QED BY <2>3, <2>4
<1>2. CASE ~HasBlock(h, i)
  <2>1. CanAlloc(map, lastAlloc) /\ blk' = [blk EXCEPT ![a] = new(Zero.cells)]
    BY <1>2 DEF fwriteStep
  <2>2. c = a  BY <2>1, <1>0
  <2> QED BY <2>1, <2>2, AllocIsFree
<1> QED BY <1>1, <1>2

\* A turn of the loop does not change the metadata cluster the handle stands on
\* at that block number.
LEMMA OwnMetaKept ==
  ASSUME IInv, fwriteStep, map[fh[cur.h].cl].code # Unused,
         "metadatacluster" \in map[fh[cur.h].cl].attr,
         map[fh[cur.h].cl].idx = cur.pos \div B
  PROVE  blk'[fh[cur.h].cl] = blk[fh[cur.h].cl]
<1>1. Own(cur.h, cur.pos \div B)  BY DEF Own
<1>2. HasBlock(cur.h, cur.pos \div B)  BY <1>1 DEF HasBlock
<1> QED BY <1>1, <1>2 DEF fwriteStep

\* The blocks a step changes: blocks that belong to nobody; data blocks of the
\* directory an entry is added to; the metadata block of an item at the end of
\* its creation; the block of an open handle, by a time stamp; and the blocks
\* a write works on.
LEMMA BlockTargets ==
  ASSUME IInv, [Next]_vars, NEW c \in Clusters, blk'[c] # blk[c]
  PROVE  \/ map[c].code = Unused
         \/ \E q \in Paths : /\ fr[q].ph = "dirblk"
                             /\ map[c].code = Parent[q] /\ map[c].idx # 0
         \/ \E q \in Paths : /\ fr[q].ph = "init" /\ fr[q].cl = c
                             /\ fr' = [fr EXCEPT ![q] = NoFrame]
                             /\ blk'[c] = finit(map[c])
         \/ /\ \E h \in Handles : fh[h].open /\ fh[h].cl = c
            /\ cur.call = "idle" /\ blk'[c] = Stamp(blk[c])
         \/ fwriteStep
<1>0. blk \in [Clusters -> Block]  BY DEF IInv, TypeOK
<1>1. ASSUME NEW q \in Paths, fcreateStep(q)
      PROVE  \/ map[c].code = Unused
             \/ /\ fr[q].ph = "dirblk"
                /\ map[c].code = Parent[q] /\ map[c].idx # 0
             \/ /\ fr[q].ph = "init" /\ fr[q].cl = c /\ fr' = [fr EXCEPT ![q] = NoFrame]
                /\ blk'[c] = finit(map[c])
  <2>1. CASE fdiraddGrow(q)
    <3> DEFINE a == allocatecluster(map, lastAlloc)
    <3>1. CanAlloc(map, lastAlloc) /\ blk' = [blk EXCEPT ![a] = Zero]
      BY <2>1 DEF fdiraddGrow
    <3>2. c = a  BY <3>1, <1>0
    <3> QED BY <3>1, <3>2, AllocIsFree
  <2>2. CASE fuloaddir(q)  BY <2>2 DEF fuloaddir, InPhase
  <2>3. CASE fcreateInit(q)
    <3>1. /\ fr[q].ph = "init" /\ blk' = [blk EXCEPT ![fr[q].cl] = finit(map[fr[q].cl])]
          /\ fr' = [fr EXCEPT ![q] = NoFrame]
      BY <2>3 DEF fcreateInit, InPhase, Return
    <3>2. c = fr[q].cl  BY <3>1, <1>0
    <3> QED BY <3>1, <3>2, <1>0
  <2>4. blk' = blk \/ fdiraddGrow(q) \/ fuloaddir(q) \/ fcreateInit(q)
    BY <1>1 DEF fcreateStep, fcreateExists, fcreateAlloc, fcreateFull, fgetparent, floadhdir,
         fdiraddSpin, fdiraddEntry, fdiraddOverrun, disk
  <2> QED BY <2>1, <2>2, <2>3, <2>4
<1>2. ASSUME NEW h \in Handles, Quiet, fh[h].open, blk' = [blk EXCEPT ![fh[h].cl] = Stamp(@)]
      PROVE  /\ \E g \in Handles : fh[g].open /\ fh[g].cl = c
             /\ cur.call = "idle" /\ blk'[c] = Stamp(blk[c])
  <2>1. c = fh[h].cl  BY <1>0, <1>2
  <2> QED BY <2>1, <1>0, <1>2 DEF Quiet
<1>3. CASE Client
  <2>1. ASSUME NEW h \in Handles,
               \/ \E x \in Opens : shellopen(h, x[1], x[2])
               \/ fuloadh(h)
               \/ \E x \in SeekTo : fseek(h, x)
               \/ \E x \in SeekBy : fseeko(h, x)
        PROVE  blk' = blk
    <3>1. ASSUME NEW x \in SeekTo, fseek(h, x)  PROVE blk' = blk  BY <3>1 DEF fseek, SetPos, disk
    <3>2. ASSUME NEW x \in SeekBy, fseeko(h, x)  PROVE blk' = blk
      BY <3>2 DEF fseeko, SetPos, disk
    <3>3. ASSUME NEW x \in Opens, shellopen(h, x[1], x[2])  PROVE blk' = blk
      BY <3>3 DEF shellopen, disk
    <3>4. ASSUME fuloadh(h)  PROVE blk' = blk  BY <3>4 DEF fuloadh
    <3> QED BY <2>1, <3>1, <3>2, <3>3, <3>4
  <2>4. ASSUME \/ \E x \in Creates : shellcreate(x[1], x[2])
               \/ \E p \in DeletePaths : shelldelete(p) \/ shelldeleteFault(p) \/ removeAll(p)
        PROVE  blk' = blk
    <3>1. ASSUME NEW x \in Creates, shellcreate(x[1], x[2])  PROVE blk' = blk
      BY <3>1 DEF shellcreate, disk
    <3>2. ASSUME NEW p \in DeletePaths, shelldelete(p)  PROVE blk' = blk
      BY <3>2 DEF shelldelete, disk
    <3>3. ASSUME NEW p \in DeletePaths, shelldeleteFault(p)  PROVE blk' = blk
      BY <3>3 DEF shelldeleteFault, disk
    <3>4. ASSUME NEW p \in DeletePaths, removeAll(p)  PROVE blk' = blk
      BY <3>4 DEF removeAll, disk
    <3> QED BY <2>4, <3>1, <3>2, <3>3, <3>4
  <2>2. ASSUME NEW h \in Handles, NEW n \in Lengths, fread(h, n)
        PROVE  \E g \in Handles : /\ Quiet /\ fh[g].open
                                  /\ blk' = [blk EXCEPT ![fh[g].cl] = Stamp(@)]
    BY <2>2 DEF fread
  <2>3. ASSUME NEW h \in Handles, NEW n \in Lengths, NEW v \in Values, fwriteCall(h, n, v)
        PROVE  \E g \in Handles : /\ Quiet /\ fh[g].open
                                  /\ blk' = [blk EXCEPT ![fh[g].cl] = Stamp(@)]
    BY <2>3 DEF fwriteCall
  <2> QED BY <1>2, <1>3, <2>1, <2>2, <2>3, <2>4 DEF Client
<1>4. CASE shellcreateDone \/ shellcreateFault \/ floadh \/ fmount \/ shellexit \/ Crash
  BY <1>4 DEF shellcreateDone, shellcreateFault, floadh, fmount, shellexit, Crash, disk
<1>5. CASE UNCHANGED vars  BY <1>5 DEF vars
<1> QED BY <1>1, <1>3, <1>4, <1>5 DEF Next, Step

\* A block that belongs to an item in memory and on disk changes only by work
\* on this item, although entries are given back and handed out again while
\* handles to them stay open and the flushed map lags behind.
THEOREM FratNoForeignWrite == Spec => NoForeignWrite
<1>1. ASSUME IInv, [Next]_vars, NEW c \in Clusters, map[c].code # Unused, blk'[c] # blk[c]
      PROVE  LET p == map[c].code
             IN  \/ cur.call = "write" /\ FileOf(cur.h) = p
                 \/ \E h \in Handles : fh[h].open /\ fh[h].cl = c
                 \/ \E q \in Paths : fr[q].ph = "dirblk" /\ Parent[q] = p
                 \/ fr[p].ph = "init" /\ fr[p].cl = c
  <2>1. CASE fwriteStep
    <3>1. map[c].code = FileOf(cur.h)  BY <1>1, <2>1, WriteTargets
    <3>2. cur.call = "write"  BY <2>1 DEF fwriteStep
    <3> QED BY <3>1, <3>2
  <2>2. ASSUME NEW q \in Paths, fr[q].ph = "init", fr[q].cl = c
        PROVE  map[c].code = q
    BY <1>1, <2>2 DEF IInv, FrameOwns
  <2> QED BY <1>1, <2>1, <2>2, BlockTargets
<1>2. IInv /\ [Next]_vars =>
        [ \A c \in Clusters :
            LET p == map[c].code
            IN  p # Unused /\ dmap[c].code = p /\ blk'[c] # blk[c] =>
                    \/ cur.call = "write" /\ FileOf(cur.h) = p
                    \/ \E h \in Handles : fh[h].open /\ fh[h].cl = c
                    \/ \E q \in Paths : fr[q].ph = "dirblk" /\ Parent[q] = p
                    \/ fr[p].ph = "init" /\ fr[p].cl = c ]_vars
  BY <1>1
<1> QED BY <1>2, Inductive, PTL DEF Spec, NoForeignWrite

----------------------------------------------------------------------------
(* Positions stay behind the metadata block.                               *)

\* What the widths of the code give: no call is made that ends behind the last
\* position, or in a block whose number does not fit into the 32-bit index,
\* and the number of the last block of the position space is no index of the map.
WideEnough ==
    /\ Reach <= PosMax
    /\ Reach <= B * IdxMod
    /\ N < (PosMax \div B) % IdxMod

IdxSmall(m) == \A c \in Clusters : m[c].idx <= N

PosOK ==
    /\ BehindMetadata
    /\ cur.call = "write" => cur.pos >= B /\ cur.left >= 1 /\ cur.pos + cur.left <= Reach
    /\ IdxSmall(map) /\ IdxSmall(dmap)

\* The number of a block, and where it starts.
LEMMA DivBounds ==
  ASSUME NEW n \in Nat
  PROVE  /\ n \div B \in Nat /\ (n \div B) * B <= n /\ n < (n \div B) * B + B
         /\ n >= B => n \div B >= 1
         /\ \A m \in Nat : n < B * m => n \div B < m
         /\ \A m \in Nat : n <= m => n \div B <= m \div B
<1> USE FratAssumption
<1> DEFINE q == n \div B
<1>1. q \in Nat /\ q * B <= n /\ n < q * B + B  OBVIOUS
<1>m. \A m \in Nat : m \div B \in Nat /\ (m \div B) * B <= m /\ m < (m \div B) * B + B
  OBVIOUS
<1> HIDE DEF q
<1>2. n >= B => q >= 1
  <2>1. q = 0 => q * B = 0  OBVIOUS
  <2> QED BY <1>1, <2>1
<1>x. \A x, y \in Nat : x <= y => x * B <= y * B  OBVIOUS
<1>3. ASSUME NEW m \in Nat, n < B * m  PROVE q < m
  <2>1. m <= q => m * B <= q * B  BY <1>x, <1>1
  <2>2. B * m = m * B /\ m * B \in Nat /\ q * B \in Nat  BY <1>1
  <2> QED BY <2>1, <2>2, <1>1, <1>3
<1>4. ASSUME NEW m \in Nat, n <= m  PROVE q <= m \div B
  <2> DEFINE r == m \div B
  <2>1. r \in Nat /\ m < r * B + B  BY <1>m
  <2> HIDE DEF r
  <2>2. r + 1 <= q => (r + 1) * B <= q * B  BY <1>x, <1>1, <2>1
  <2>3. (r + 1) * B = r * B + B /\ r * B \in Nat /\ q * B \in Nat  BY <1>1, <2>1
  <2>4. q <= r  BY <2>1, <2>2, <2>3, <1>1, <1>4
  <2> QED BY <2>4 DEF r
<1> QED BY <1>1, <1>2, <1>3, <1>4 DEF q

\* A position that fits is not wrapped.
LEMMA WrapSmall == ASSUME NEW n \in 0 .. PosMax PROVE Wrap(n) = n
BY FratAssumption DEF Wrap

\* _fread never runs over the end of the position space: the last block of it
\* is a block that no file has.
LEMMA ReadStays ==
  ASSUME WideEnough, TypeOK, IdxSmall(map), NEW h \in Handles,
         NEW pos \in 0 .. PosMax, pos >= B, NEW n \in Nat \ {0}
  PROVE  Wrap(Min(ReadStops(h, pos, n))) >= B
<1> DEFINE S == ReadStops(h, pos, n)
           L == PosMax \div B
<1>0. pos \in Nat /\ PosMax \in Nat /\ B \in Nat /\ n \in Nat /\ n >= 1 /\ pos <= PosMax
  BY FratAssumption
<1>1. S \in SUBSET Nat /\ S # {} /\ \A x \in S : x >= pos
  <2>1. \A i \in Touched(pos, n) : i \in Nat
    BY <1>0, DivBounds DEF Touched
  <2>2. \A i \in Nat : i * B \in Nat  BY <1>0
  <2>3. \A i \in Nat : Max({pos, i * B}) \in Nat /\ Max({pos, i * B}) >= pos
    BY <2>2, <1>0, MaxOfTwo
  <2>4. \A x \in S : x = pos + n \/ \E i \in Touched(pos, n) : x = Max({pos, i * B})
    BY DEF ReadStops
  <2>5. pos + n \in S  BY DEF ReadStops
  <2> HIDE DEF S
  <2>6. pos + n \in Nat /\ pos + n >= pos  BY <1>0
  <2>7. \A x \in S : x \in Nat /\ x >= pos  BY <2>1, <2>3, <2>4, <2>6
  <2> QED BY <2>5, <2>7
<1>2. ~HasBlock(h, L)
  <2>1. L \in Nat /\ N < L % IdxMod /\ L % IdxMod <= L
    <3>1. L \in Nat  BY <1>0, DivBounds
    <3> HIDE DEF L
    <3>2. IdxMod \in Nat /\ IdxMod > 0  BY MapAssumption
    <3>3. L % IdxMod <= L  BY <3>1, <3>2
    <3> QED BY <3>1, <3>3 DEF WideEnough, L
  <2> HIDE DEF L
  <2>2. fh[h].cl \in Clusters  BY DEF TypeOK, fhandle
  <2>3. \A c \in Clusters : map[c].idx \in Nat  BY DEF TypeOK, fsblock
  <2>i. N \in Nat /\ L % IdxMod \in Int  BY <2>1, MapAssumption
  <2>4. ~Own(h, L)  BY <2>1, <2>2, <2>3, <2>i DEF Own, IdxSmall
  <2>5. ~Found(map, FileOf(h), L)
    <3>1. \A c \in Clusters : map[c].idx # L % IdxMod  BY <2>1, <2>3, <2>i DEF IdxSmall
    <3> QED BY <3>1 DEF Found, Hits
  <2> QED BY <2>4, <2>5 DEF HasBlock
<1>3. \E x \in S : x <= PosMax
  <2>1. CASE pos + n <= PosMax  BY <2>1 DEF ReadStops
  <2>2. CASE ~(pos + n <= PosMax)
    <3>1. pos + n - 1 \in Nat /\ PosMax <= pos + n - 1  BY <2>2, <1>0
    <3>2. L \in Touched(pos, n)
      BY <3>1, <1>0, DivBounds DEF Touched
    <3>3. Max({pos, L * B}) \in S  BY <3>2, <1>2 DEF ReadStops
    <3>4. L * B \in Nat /\ L * B <= PosMax
      <4>1. L \in Nat /\ L * B <= PosMax  BY <1>0, DivBounds
      <4> QED BY <4>1, <1>0
    <3>5. Max({pos, L * B}) <= PosMax  BY <3>4, <1>0, MaxOfTwo
    <3> QED BY <3>3, <3>5
  <2> QED BY <2>1, <2>2
<1> DEFINE x == Min(S)
<1>4. x \in S /\ \A y \in S : x <= y  BY <1>1, MinIsLeast
<1> HIDE DEF S, x
<1>5. x \in Nat /\ x >= pos /\ x <= PosMax
  <2>1. PICK y \in S : y <= PosMax  BY <1>3
  <2>2. x <= y /\ y \in Nat /\ x \in Nat /\ x >= pos  BY <2>1, <1>1, <1>4
  <2> QED BY <2>1, <2>2, <1>0
<1>6. Wrap(x) = x  BY <1>5, <1>0, WrapSmall
<1> QED BY <1>5, <1>6, <1>0 DEF S, x

\* The edits of the map keep its indices small: __faddr counts entries.
LEMMA IdxSmallEdits ==
  ASSUME NEW m \in Map, IdxSmall(m)
  PROVE  /\ \A c, f \in Clusters : IdxSmall(faddr(m, c, f))
         /\ \A c \in Clusters : \A p, flags : IdxSmall(NewHead(m, c, p, flags))
         /\ \A p : IdxSmall(ffremove(m, p)) /\ IdxSmall(ffremovel(m, p))
         /\ IdxSmall(EmptyMap)
<1>1. \A p : Cardinality(Owned(m, p)) \in Nat /\ Cardinality(Owned(m, p)) <= N
  <2> SUFFICES ASSUME NEW p
               PROVE  Cardinality(Owned(m, p)) \in Nat /\ Cardinality(Owned(m, p)) <= N
    OBVIOUS
  <2>1. Owned(m, p) \in SUBSET Clusters  BY DEF Owned
  <2>2. Cardinality(Owned(m, p)) <= Cardinality(Clusters)
    BY <2>1, ClustersNat, FS_Subset
  <2>3. 0 \in Int /\ N - 1 \in Int /\ N \in Nat /\ N > 0  BY MapAssumption
  <2>4. Cardinality(0 .. (N - 1)) = (N - 1) - 0 + 1  BY <2>3, FS_Interval
  <2>5. Cardinality(Clusters) = N  BY <2>3, <2>4 DEF Clusters
  <2> QED BY <2>2, <2>5, OwnedFinite
<1>2. \A c, f \in Clusters : IdxSmall(faddr(m, c, f))
  BY <1>1 DEF IdxSmall, faddr, Map, fsblock
<1>3. \A c \in Clusters : \A p, flags : IdxSmall(NewHead(m, c, p, flags))
  BY MapAssumption DEF IdxSmall, NewHead, Map, fsblock
<1>4. \A p : IdxSmall(ffremove(m, p))  BY DEF IdxSmall, ffremove, Map, fsblock
<1>5. \A p : IdxSmall(ffremovel(m, p))  BY DEF IdxSmall, ffremovel, Map, fsblock
<1>6. IdxSmall(EmptyMap)  BY MapAssumption DEF IdxSmall, EmptyMap
<1> QED BY <1>2, <1>3, <1>4, <1>5, <1>6

\* Every step keeps the indices of both maps small.
LEMMA IdxNext ==
  ASSUME IInv, IdxSmall(map), IdxSmall(dmap), [Next]_vars
  PROVE  IdxSmall(map') /\ IdxSmall(dmap')
<1>0. map \in Map /\ TypeOK /\ CallsOK /\ MapInv  BY DEF IInv, TypeOK, Map
<1>e. IdxSmall(EmptyMap)  BY <1>0, IdxSmallEdits
<1>c. \A p \in Paths : IdxSmall(Cleared(p)) /\ Cleared(p) \in Map
  BY <1>0, IdxSmallEdits, ClearedOK DEF Cleared
<1>a. ASSUME map' = map \/ map' = EmptyMap \/ map' = dmap, dmap' = dmap \/ dmap' = map
      PROVE  IdxSmall(map') /\ IdxSmall(dmap')
  BY <1>a, <1>e
<1>1. ASSUME NEW p \in Paths, fcreateStep(p)  PROVE IdxSmall(map') /\ IdxSmall(dmap')
  <2>1. CASE fcreateAlloc(p)
    <3> DEFINE m == Cleared(p)
               c == allocatecluster(m, lastAlloc)
    <3>1. c \in Clusters /\ m[c].code = Unused  BY <2>1, AllocIsFree DEF fcreateAlloc
    <3>2. map' = NewHead(m, c, p, fr[p].flags) /\ dmap' = dmap
      BY <2>1 DEF fcreateAlloc, disk
    <3>3. m \in Map /\ IdxSmall(m)  BY <1>c
    <3> HIDE DEF m, c
    <3> QED BY <3>1, <3>2, <3>3, IdxSmallEdits
  <2>2. CASE fcreateFull(p)  BY <2>2, <1>c DEF fcreateFull, disk
  <2>3. CASE fdiraddGrow(p)
    <3> DEFINE c == allocatecluster(map, lastAlloc)
               f == ffind(map, Parent[p])
    <3>1. Exists(map, Parent[p])  BY <1>0, <2>3 DEF fdiraddGrow, CallsOK, InPhase
    <3>2. f \in Clusters /\ c \in Clusters  BY <2>3, <3>1, FindHead, AllocIsFree DEF fdiraddGrow
    <3>3. map' = faddr(map, c, f) /\ dmap' = dmap  BY <2>3 DEF fdiraddGrow
    <3> HIDE DEF c, f
    <3> QED BY <1>0, <3>2, <3>3, IdxSmallEdits
  <2>4. CASE fcreateExists(p)  BY <2>4 DEF fcreateExists, disk
  <2>5. CASE fgetparent(p)     BY <2>5 DEF fgetparent, disk
  <2>6. CASE floadhdir(p)      BY <2>6 DEF floadhdir, disk
  <2>7. CASE fdiraddSpin(p)    BY <2>7 DEF fdiraddSpin, disk
  <2>8. CASE fdiraddEntry(p)   BY <2>8 DEF fdiraddEntry
  <2>9. CASE fdiraddOverrun(p) BY <2>9, <1>a DEF fdiraddOverrun, Lose
  <2>10. CASE fuloaddir(p)     BY <2>10 DEF fuloaddir
  <2>11. CASE fcreateInit(p)   BY <2>11 DEF fcreateInit
  <2> QED BY <1>1, <2>1, <2>2, <2>3, <2>4, <2>5, <2>6, <2>7, <2>8, <2>9, <2>10, <2>11
          DEF fcreateStep
<1>2. CASE fwriteStep
  <2> DEFINE c == allocatecluster(map, lastAlloc)
             f == fh[cur.h].cl
  <2>1. dmap' = dmap  BY <1>2 DEF fwriteStep
  <2>2. CASE map' = map  BY <2>1, <2>2
  <2>3. CASE map' # map
    <3>1. map' = faddr(map, c, f) /\ CanAlloc(map, lastAlloc)  BY <1>2, <2>3 DEF fwriteStep
    <3>2. f \in Clusters /\ c \in Clusters
      BY <1>0, <3>1, AllocIsFree DEF TypeOK, Call, fhandle
    <3> HIDE DEF c, f
    <3> QED BY <1>0, <2>1, <3>1, <3>2, IdxSmallEdits
  <2> QED BY <2>2, <2>3
<1>3. CASE shellcreateDone \/ shellcreateFault \/ floadh
  BY <1>3, <1>a DEF shellcreateDone, shellcreateFault, floadh, Lose, disk
<1>4. CASE Client
  <2>1. ASSUME NEW p \in DeletePaths, shelldelete(p) \/ removeAll(p)
        PROVE  IdxSmall(map') /\ IdxSmall(dmap')
    BY <1>0, <2>1, IdxSmallEdits DEF shelldelete, removeAll, disk
  <2>2. ASSUME NEW p \in DeletePaths, shelldeleteFault(p)
        PROVE  IdxSmall(map') /\ IdxSmall(dmap')
    BY <2>2, <1>a DEF shelldeleteFault, Lose, disk
  <2>3. ASSUME NEW x \in Creates, shellcreate(x[1], x[2])
        PROVE  IdxSmall(map') /\ IdxSmall(dmap')
    BY <2>3 DEF shellcreate, disk
  <2>4. ASSUME NEW h \in Handles, NEW x \in Opens, shellopen(h, x[1], x[2])
        PROVE  IdxSmall(map') /\ IdxSmall(dmap')
    BY <2>4 DEF shellopen, disk
  <2>5. ASSUME NEW h \in Handles, fuloadh(h)  PROVE IdxSmall(map') /\ IdxSmall(dmap')
    BY <2>5 DEF fuloadh
  <2>6. ASSUME NEW h \in Handles, NEW x \in SeekTo, fseek(h, x)
        PROVE  IdxSmall(map') /\ IdxSmall(dmap')
    BY <2>6 DEF fseek, SetPos, disk
  <2>7. ASSUME NEW h \in Handles, NEW x \in SeekBy, fseeko(h, x)
        PROVE  IdxSmall(map') /\ IdxSmall(dmap')
    BY <2>7 DEF fseeko, SetPos, disk
  <2>8. ASSUME NEW h \in Handles, NEW n \in Lengths, fread(h, n)
        PROVE  IdxSmall(map') /\ IdxSmall(dmap')
    BY <2>8 DEF fread
  <2>9. ASSUME NEW h \in Handles, NEW n \in Lengths, NEW v \in Values, fwriteCall(h, n, v)
        PROVE  IdxSmall(map') /\ IdxSmall(dmap')
    BY <2>9, <1>a DEF fwriteCall, Lose
  <2> QED BY <1>4, <2>1, <2>2, <2>3, <2>4, <2>5, <2>6, <2>7, <2>8, <2>9 DEF Client
<1>5. CASE fmount \/ shellexit \/ Crash
  BY <1>5, <1>a DEF fmount, shellexit, Crash, Lose, disk
<1>6. CASE UNCHANGED vars  BY <1>6 DEF vars
<1> QED BY <1>1, <1>2, <1>3, <1>4, <1>5, <1>6 DEF Next, Step

\* What PosOK says of the handles and of a write in progress.
PosOf == /\ BehindMetadata
         /\ cur.call = "write" => cur.pos >= B /\ cur.left >= 1 /\ cur.pos + cur.left <= Reach

\* One turn of the loop of _fwrite moves forward and does not wrap.
LEMMA WriteMoves ==
  ASSUME WideEnough, TypeOK, PosOf, fwriteStep
  PROVE  PosOf'
<1> DEFINE h     == cur.h
           off   == cur.pos % B
           chunk == Min({B - off, cur.left})
           pos   == Wrap(cur.pos + chunk)
<1>1. cur.h \in Handles /\ cur.pos \in Nat /\ cur.left \in Nat /\ cur \in Call
  BY FratAssumption DEF TypeOK, Call
<1>2. cur.call = "write" /\ cur.pos >= B /\ cur.left >= 1 /\ cur.pos + cur.left <= Reach
  BY DEF fwriteStep, PosOf
<1>3. B - off \in Nat /\ B \in Nat /\ Reach \in Nat /\ PosMax \in Nat /\ Reach <= PosMax
  BY <1>1, DivMod, FratAssumption DEF WideEnough
<1>4. chunk \in Nat /\ chunk <= cur.left  BY <1>1, <1>3, MinOfTwo
<1>5. \/ chunk = cur.left /\ cur' = Idle /\ fh' = [fh EXCEPT ![h].pos = pos]
      \/ /\ chunk # cur.left /\ fh' = fh
         /\ cur' = [cur EXCEPT !.pos = pos, !.left = @ - chunk]
  BY DEF fwriteStep
<1> HIDE DEF chunk
<1>6. cur.pos + chunk \in 0 .. PosMax  BY <1>1, <1>2, <1>3, <1>4
<1>7. pos = cur.pos + chunk  BY <1>6, WrapSmall
<1> HIDE DEF pos
<1>8. CASE chunk = cur.left
  <2>1. cur'.call = "idle" /\ fh' = [fh EXCEPT ![h].pos = pos]  BY <1>5, <1>8 DEF Idle
  <2>2. pos >= B  BY <1>1, <1>2, <1>3, <1>4, <1>7
  <2>3. \A g \in Handles : fh'[g].open => fh'[g].pos >= B
    BY <1>1, <2>1, <2>2 DEF TypeOK, fhandle, PosOf, BehindMetadata
  <2> QED BY <2>1, <2>3 DEF PosOf, BehindMetadata
<1>9. CASE chunk # cur.left
  <2>1. fh' = fh /\ cur'.pos = pos /\ cur'.left = cur.left - chunk
    BY <1>1, <1>5, <1>9 DEF Call
  <2>2. cur'.pos >= B /\ cur'.left >= 1 /\ cur'.pos + cur'.left <= Reach
    <3>1. \A x, y, z, r \in Nat : x >= B /\ x + y <= r /\ z <= y /\ z # y =>
             x + z >= B /\ y - z >= 1 /\ (x + z) + (y - z) <= r
      BY <1>3
    <3>2. pos >= B /\ cur.left - chunk >= 1 /\ pos + (cur.left - chunk) <= Reach
      BY <1>1, <1>2, <1>3, <1>4, <1>7, <1>9, <3>1
    <3> QED BY <2>1, <3>2
  <2> QED BY <2>1, <2>2 DEF PosOf, BehindMetadata
<1> QED BY <1>8, <1>9

\* Every step keeps the positions behind the metadata block.
LEMMA PosNext ==
  ASSUME WideEnough, IInv, PosOK, [Next]_vars
  PROVE  PosOK'
<1>0. TypeOK /\ IdxSmall(map) /\ PosOf  BY DEF IInv, PosOK, PosOf
<1>i. IdxSmall(map') /\ IdxSmall(dmap')  BY IdxNext DEF PosOK
<1>s. SUFFICES PosOf'  BY <1>i DEF PosOK, PosOf
<1>p. B \in Nat /\ PosMax \in Nat /\ B < PosMax /\ Reach \in Nat /\ Reach <= PosMax
  BY FratAssumption DEF WideEnough
<1>h. /\ fh \in [Handles -> fhandle] /\ \A h \in Handles : fh[h].pos \in 0 .. PosMax
      /\ \A h \in Handles : fh[h].pos \in Nat /\ fh[h].pos <= PosMax
  BY <1>0, <1>p DEF TypeOK, fhandle
<1>a. ASSUME Lose  PROVE PosOf'
  BY <1>a DEF Lose, Closed, Idle, PosOf, BehindMetadata
<1>b. ASSUME fh' = fh, cur'.call # "write" \/ cur' = cur  PROVE PosOf'
  BY <1>0, <1>b DEF PosOf, BehindMetadata
<1>c. ASSUME NEW h \in Handles, NEW x \in fhandle, x.pos >= B \/ ~x.open,
             fh' = [fh EXCEPT ![h] = x],
             cur'.call # "write"
      PROVE  PosOf'
  BY <1>0, <1>c DEF PosOf, BehindMetadata, TypeOK
<1>d. ASSUME NEW h \in Handles, NEW x \in 0 .. PosMax, x >= B,
             fh' = [fh EXCEPT ![h].pos = x], cur' = cur, Quiet
      PROVE  PosOf'
  <2>1. [fh[h] EXCEPT !.pos = x] \in fhandle /\ [fh[h] EXCEPT !.pos = x].pos = x
    BY <1>h, <1>d DEF fhandle
  <2> DEFINE y == [fh[h] EXCEPT !.pos = x]
  <2>2. fh' = [fh EXCEPT ![h] = y]  BY <1>d
  <2> HIDE DEF y
  <2>3. y \in fhandle /\ y.pos >= B  BY <2>1, <1>d DEF y
  <2> QED BY <2>2, <2>3, <1>c, <1>d DEF Quiet
<1>1. ASSUME NEW p \in Paths, fcreateStep(p)  PROVE PosOf'
  <2>1. CASE fcreateAlloc(p)
    <3>1. fh' = fh /\ cur' = cur  BY <2>1 DEF fcreateAlloc
    <3>2. cur'.call = cur.call /\ cur'.pos = cur.pos /\ cur'.left = cur.left
      BY <3>1, <1>0 DEF TypeOK, Call
    <3> QED BY <3>1, <3>2, <1>0 DEF PosOf, BehindMetadata
  <2>2. CASE fdiraddOverrun(p)  BY <2>2, <1>a, <1>b DEF fdiraddOverrun
  <2>3. CASE \/ fcreateExists(p) \/ fcreateFull(p) \/ fgetparent(p) \/ floadhdir(p)
             \/ fdiraddGrow(p) \/ fdiraddSpin(p) \/ fdiraddEntry(p) \/ fuloaddir(p)
             \/ fcreateInit(p)
    BY <2>3, <1>b DEF fcreateExists, fcreateFull, fgetparent, floadhdir, fdiraddGrow,
         fdiraddSpin, fdiraddEntry, fuloaddir, fcreateInit
  <2> QED BY <1>1, <2>1, <2>2, <2>3 DEF fcreateStep
<1>2. CASE fwriteStep  BY <1>0, <1>2, WriteMoves
<1>3. CASE shellcreateDone
  <2>1. fh' = fh /\ cur' = Idle  BY <1>3 DEF shellcreateDone
  <2> QED BY <2>1, <1>b DEF Idle
<1>4. CASE shellcreateFault  BY <1>4, <1>a DEF shellcreateFault
<1>5. CASE floadh
  <2> DEFINE x == [open |-> TRUE, cl |-> ffind(map, cur.path), path |-> cur.path, pos |-> B]
  <2>1. cur' = Idle /\ cur'.call = "idle" /\ cur.h \in Handles /\ cur.path \in Paths
    BY <1>0, <1>5 DEF floadh, Idle, TypeOK, Call
  <2>2. CASE Exists(map, cur.path)
    <3>1. fh' = [fh EXCEPT ![cur.h] = x]  BY <1>5, <2>2 DEF floadh
    <3>2. ffind(map, cur.path) \in Clusters  BY <2>2, FindHead
    <3>3. x \in fhandle /\ x.pos = B  BY <1>p, <2>1, <3>2 DEF fhandle
    <3> HIDE DEF x
    <3>4. x.pos >= B /\ cur'.call # "write"  BY <2>1, <3>3, <1>p
    <3> QED BY <2>1, <3>1, <3>3, <3>4, <1>c
  <2>3. CASE ~Exists(map, cur.path)
    <3>1. fh' = fh  BY <1>5, <2>3 DEF floadh
    <3> QED BY <2>1, <3>1, <1>b
  <2> QED BY <2>2, <2>3
<1>6. CASE Client
  <2>1. ASSUME NEW p \in DeletePaths, shelldelete(p) \/ removeAll(p)  PROVE PosOf'
    BY <2>1, <1>b DEF shelldelete, removeAll
  <2>2. ASSUME NEW p \in DeletePaths, shelldeleteFault(p)  PROVE PosOf'
    BY <2>2, <1>a DEF shelldeleteFault
  <2>3. ASSUME NEW x \in Creates, shellcreate(x[1], x[2])  PROVE PosOf'
    <3>1. fh' = fh /\ cur'.call = "create"  BY <2>3 DEF shellcreate, Idle
    <3> QED BY <3>1, <1>b
  <2>4. ASSUME NEW h \in Handles, NEW x \in Opens, shellopen(h, x[1], x[2])  PROVE PosOf'
    <3>1. fh' = fh /\ cur'.call = "open"  BY <2>4 DEF shellopen, Idle
    <3> QED BY <3>1, <1>b
  <2>5. ASSUME NEW h \in Handles, fuloadh(h)  PROVE PosOf'
    <3>1. fh' = [fh EXCEPT ![h] = Closed] /\ cur' = cur /\ cur.call = "idle"
      BY <2>5 DEF fuloadh, Quiet
    <3>2. Closed \in fhandle /\ ~Closed.open  BY ConstTypes DEF Closed
    <3> QED BY <3>1, <3>2, <1>c
  <2>6. ASSUME NEW h \in Handles, NEW x \in SeekTo, fseek(h, x)  PROVE PosOf'
    <3> DEFINE y == IF x > PosMax - B THEN PosMax ELSE B + x
    <3>1. fh' = [fh EXCEPT ![h].pos = y] /\ cur' = cur /\ Quiet  BY <2>6 DEF fseek, SetPos
    <3>2. x \in 0 .. PosMax  BY FratAssumption
    <3>3. y \in 0 .. PosMax /\ y >= B  BY <3>2, <1>p
    <3> HIDE DEF y
    <3> QED BY <3>1, <3>3, <1>d
  <2>7. ASSUME NEW h \in Handles, NEW x \in SeekBy, fseeko(h, x)  PROVE PosOf'
    <3> DEFINE q == fh[h].pos
               y == IF x < 0
                    THEN IF q <= B \/ -x >= q - B THEN B ELSE q + x
                    ELSE IF x > PosMax - q THEN PosMax ELSE q + x
    <3>1. fh' = [fh EXCEPT ![h].pos = y] /\ cur' = cur /\ Quiet /\ fh[h].open
      BY <2>7 DEF fseeko, SetPos
    <3>2. x \in Int /\ q \in Nat /\ q <= PosMax  BY <1>h, FratAssumption
    <3>3. q >= B  BY <3>1, <1>0 DEF PosOf, BehindMetadata
    <3> HIDE DEF q
    <3>4. y \in 0 .. PosMax /\ y >= B
      <4>1. CASE x < 0  BY <4>1, <3>2, <3>3, <1>p
      <4>2. CASE ~(x < 0)  BY <4>2, <3>2, <3>3, <1>p
      <4> QED BY <4>1, <4>2
    <3> HIDE DEF y
    <3> QED BY <3>1, <3>4, <1>d
  <2>8. ASSUME NEW h \in Handles, NEW n \in Lengths, fread(h, n)  PROVE PosOf'
    <3> DEFINE y == Wrap(Min(ReadStops(h, fh[h].pos, n)))
    <3>1. fh' = [fh EXCEPT ![h].pos = y] /\ cur' = cur /\ Quiet /\ fh[h].open
      BY <2>8 DEF fread
    <3>2. n \in Nat \ {0}  BY FratAssumption
    <3>3. fh[h].pos >= B /\ fh[h].pos \in 0 .. PosMax /\ fh[h].pos \in Nat
      BY <3>1, <1>0, <1>h DEF PosOf, BehindMetadata
    <3>4. y >= B  BY <1>0, <3>2, <3>3, ReadStays
    <3>5. y \in 0 .. PosMax
      <4>1. Min(ReadStops(h, fh[h].pos, n)) \in Nat  BY <3>2, <3>3, ReadStopsType
      <4> QED BY <4>1, WrapType
    <3> HIDE DEF y
    <3> QED BY <3>1, <3>4, <3>5, <1>d
  <2>9. ASSUME NEW h \in Handles, NEW n \in Lengths, NEW v \in Values, fwriteCall(h, n, v)
        PROVE PosOf'
    <3>1. CASE Lose  BY <3>1, <1>a
    <3>2. CASE ~Lose
      <4>1. /\ fh' = fh /\ fh[h].open /\ fh[h].pos + n <= Reach
            /\ cur' = cur \/ cur' = [Idle EXCEPT !.call = "write", !.h = h,
                                          !.pos = fh[h].pos, !.left = n, !.val = v]
        BY <2>9, <3>2 DEF fwriteCall
      <4>2. CASE cur' = cur  BY <4>1, <4>2, <1>b
      <4>3. CASE cur' # cur
        <5>1. cur'.pos = fh[h].pos /\ cur'.left = n  BY <4>1, <4>3 DEF Idle
        <5>2. fh[h].pos >= B  BY <4>1, <1>0 DEF PosOf, BehindMetadata
        <5>3. n >= 1  BY FratAssumption
        <5> QED BY <4>1, <5>1, <5>2, <5>3, <1>0 DEF PosOf, BehindMetadata
      <4> QED BY <4>2, <4>3
    <3> QED BY <3>1, <3>2
  <2> QED BY <1>6, <2>1, <2>2, <2>3, <2>4, <2>5, <2>6, <2>7, <2>8, <2>9 DEF Client
<1>7. CASE fmount  BY <1>7, <1>b DEF fmount
<1>8. CASE shellexit \/ Crash  BY <1>8, <1>a DEF shellexit, Crash
<1>9. CASE UNCHANGED vars  BY <1>9, <1>b DEF vars
<1> QED BY <1>1, <1>2, <1>3, <1>4, <1>5, <1>6, <1>7, <1>8, <1>9 DEF Next, Step

\* The initial state has no handle open and all indices 0.
LEMMA InitPos == Init => PosOK
<1> SUFFICES ASSUME Init PROVE PosOK  OBVIOUS
<1>1. IdxSmall(EmptyMap)  BY MapAssumption DEF IdxSmall, EmptyMap
<1> QED BY <1>1 DEF Init, PosOK, BehindMetadata, Closed, Idle

\* A handle never stands in front of the data of its file, whatever is seeked,
\* read and written: the clamps of _fseek and _fseeko and the stop of _fread at
\* the first missing block keep every position at or behind the first block.
THEOREM FratBehindMetadata ==
  ASSUME WideEnough PROVE Spec => []BehindMetadata
<1>1. Init => IInv /\ PosOK  BY InitIInv, InitPos
<1>2. IInv /\ PosOK /\ [Next]_vars => IInv' /\ PosOK'  BY NextIInv, PosNext
<1>3. PosOK => BehindMetadata  BY DEF PosOK
<1> QED BY <1>1, <1>2, <1>3, PTL DEF Spec

\* The block number of a write in progress is a number of a data block.
LEMMA WriteIndex ==
  ASSUME WideEnough, TypeOK, PosOK, cur.call = "write"
  PROVE  (cur.pos \div B) % IdxMod # 0
<1>1. cur.pos \in Nat /\ cur.left \in Nat /\ B \in Nat /\ Reach \in Nat
  BY FratAssumption DEF TypeOK, Call
<1>2. cur.pos >= B /\ cur.left >= 1 /\ cur.pos + cur.left <= Reach /\ Reach <= B * IdxMod
  BY DEF PosOK, WideEnough
<1>3. IdxMod \in Nat /\ IdxMod > 0 /\ B * IdxMod \in Nat  BY <1>1, MapAssumption
<1>4. cur.pos < B * IdxMod
  <2> DEFINE x == B * IdxMod
  <2>1. x \in Nat /\ Reach <= x  BY <1>2, <1>3
  <2> HIDE DEF x
  <2>2. cur.pos < x  BY <1>1, <1>2, <2>1
  <2> QED BY <2>2 DEF x
<1> DEFINE i == cur.pos \div B
<1>5. i \in Nat /\ i >= 1 /\ i < IdxMod  BY <1>1, <1>2, <1>3, <1>4, DivBounds
<1> HIDE DEF i
<1>6. i % IdxMod = i  BY <1>3, <1>5
<1> QED BY <1>5, <1>6 DEF i

\* A step leaves the block of a metadata entry alone, but for the time stamp
\* of an open handle and the last act of creating the item.
LEMMA HeadSafe ==
  ASSUME WideEnough, IInv, PosOK, [Next]_vars, NEW c \in Clusters,
         map[c].code # Unused, map[c].idx = 0
  PROVE  \/ blk'[c] = blk[c]
         \/ cur.call = "idle" /\ blk'[c] = Stamp(blk[c])
         \/ \E q \in Paths : /\ fr[q].ph = "init" /\ fr[q].cl = c
                             /\ fr' = [fr EXCEPT ![q] = NoFrame]
                             /\ blk'[c] = finit(map[c])
<1>1. ASSUME fwriteStep, blk'[c] # blk[c]  PROVE FALSE
  <2>1. cur.call = "write"  BY <1>1 DEF fwriteStep
  <2>2. (cur.pos \div B) % IdxMod # 0  BY <2>1, WriteIndex DEF IInv
  <2>3. "metadatacluster" \in map[c].attr  BY DEF IInv, MapInv, MapOK, HeadIsMeta
  <2> QED BY <1>1, <2>2, <2>3, WriteTargets
<1> QED BY <1>1, BlockTargets

\* A write changes the metadata block of no item but the one the handle's entry
\* belongs to, even through a handle whose entry has passed to another item, and
\* of this one never through the handle's own entry: only a block number that
\* is 0 in the 32 bits of an index leads __ffindhi there.  For every width of the
\* index, and for every position a client can reach.
THEOREM FratMetadataProtected == Spec => MetadataProtected
<1>1. ASSUME IInv, [Next]_vars, cur.call = "write", NEW c \in Clusters,
             map[c].code # Unused, "metadatacluster" \in map[c].attr, blk'[c] # blk[c]
      PROVE  /\ map[c].code = FileOf(cur.h)
             /\ c # fh[cur.h].cl \/ map[c].idx # cur.pos \div B
             /\ (cur.pos \div B) % IdxMod = 0
  <2>1. \A q \in Paths : fr[q].ph = "none"  BY <1>1 DEF IInv, CallsOK, Busy
  <2>2. fwriteStep  BY <1>1, <2>1, BlockTargets
  <2>3. map[c].idx = 0  BY <1>1 DEF IInv, MapInv, MapOK, HeadIsMeta
  <2>4. map[c].code = FileOf(cur.h) /\ map[c].idx = (cur.pos \div B) % IdxMod
    BY <1>1, <2>2, WriteTargets
  <2>5. c # fh[cur.h].cl \/ map[c].idx # cur.pos \div B
    BY <1>1, <2>2, OwnMetaKept
  <2> QED BY <2>3, <2>4, <2>5
<1>2. IInv /\ [Next]_vars =>
        [ cur.call = "write" => \A c \in Clusters :
            /\ map[c].code # Unused /\ "metadatacluster" \in map[c].attr
            /\ blk'[c] # blk[c]
            => /\ map[c].code = FileOf(cur.h)
               /\ c # fh[cur.h].cl \/ map[c].idx # cur.pos \div B
               /\ (cur.pos \div B) % IdxMod = 0 ]_vars
  BY <1>1
<1> QED BY <1>2, Inductive, PTL DEF Spec, MetadataProtected

----------------------------------------------------------------------------
(* Metadata entries.                                                       *)

HeadAt(m, c, p) == m[c].code = p /\ m[c].idx = 0

\* A step keeps the metadata entry of an item that it neither makes anew nor
\* removes.
LEMMA HeadStays ==
  ASSUME IInv, [Next]_vars, NEW p \in Paths, p \in committed, p \in committed',
         NEW c \in Clusters, HeadAt(dmap, c, p), up => HeadAt(map, c, p)
  PROVE  HeadAt(dmap', c, p) /\ (up' => HeadAt(map', c, p))
<1>0. TypeOK /\ MapInv /\ CallsOK /\ map \in Map  BY DEF IInv, TypeOK, Map
<1>u. p # Unused  BY MapAssumption
<1>a. ASSUME up, map'[c] = map[c] \/ ~up', dmap' = dmap \/ dmap' = map
      PROVE  HeadAt(dmap', c, p) /\ (up' => HeadAt(map', c, p))
  BY <1>a DEF HeadAt
<1>b. ASSUME up, NEW a \in Clusters, map[a].code = Unused, dmap' = dmap,
             \A e \in Clusters : e # a => map'[e] = map[e]
      PROVE  HeadAt(dmap', c, p) /\ (up' => HeadAt(map', c, p))
  BY <1>b, <1>u DEF HeadAt
<1>c. \A q \in Paths : q # p /\ up => Cleared(q)[c] = map[c]
  BY <1>0, ClearedOK DEF HeadAt
<1>1. ASSUME NEW q \in Paths, fcreateStep(q)
      PROVE  HeadAt(dmap', c, p) /\ (up' => HeadAt(map', c, p))
  <2>1. CASE fcreateAlloc(q)
    <3> DEFINE m == Cleared(q)
               a == allocatecluster(m, lastAlloc)
    <3>1. a \in Clusters /\ m[a].code = Unused  BY <2>1, AllocIsFree DEF fcreateAlloc
    <3>2. /\ map' = NewHead(m, a, q, fr[q].flags) /\ dmap' = dmap /\ up
          /\ committed' = committed \ {q}
      BY <2>1 DEF fcreateAlloc, InPhase, disk
    <3>3. q # p  BY <3>2
    <3>4. m[c] = map[c] /\ m \in Map  BY <3>2, <3>3, <1>c, <1>0, ClearedOK
    <3> HIDE DEF m, a
    <3>5. a # c  BY <3>1, <3>2, <3>4, <1>u DEF HeadAt
    <3>6. map'[c] = map[c]  BY <3>1, <3>2, <3>4, <3>5 DEF NewHead, Map
    <3> QED BY <3>2, <3>6, <1>a
  <2>2. CASE fcreateFull(q)
    <3>1. map' = Cleared(q) /\ dmap' = dmap /\ up /\ committed' = committed \ {q}
      BY <2>2 DEF fcreateFull, InPhase, disk
    <3>2. q # p  BY <3>1
    <3> QED BY <3>1, <3>2, <1>a, <1>c
  <2>3. CASE fdiraddGrow(q)
    <3> DEFINE a == allocatecluster(map, lastAlloc)
               f == ffind(map, Parent[q])
    <3>1. a \in Clusters /\ map[a].code = Unused  BY <2>3, AllocIsFree DEF fdiraddGrow
    <3>2. map' = faddr(map, a, f) /\ dmap' = dmap /\ up  BY <2>3 DEF fdiraddGrow, InPhase
    <3> HIDE DEF a, f
    <3>3. \A e \in Clusters : e # a => map'[e] = map[e]  BY <1>0, <3>2 DEF faddr, Map
    <3> QED BY <1>b, <3>1, <3>2, <3>3
  <2>4. CASE fcreateExists(q)  BY <2>4, <1>a DEF fcreateExists, InPhase, disk
  <2>5. CASE fgetparent(q)     BY <2>5, <1>a DEF fgetparent, InPhase, disk
  <2>6. CASE floadhdir(q)      BY <2>6, <1>a DEF floadhdir, InPhase, disk
  <2>7. CASE fdiraddSpin(q)    BY <2>7, <1>a DEF fdiraddSpin, InPhase, disk
  <2>8. CASE fdiraddEntry(q)   BY <2>8, <1>a DEF fdiraddEntry, InPhase
  <2>9. CASE fdiraddOverrun(q) BY <2>9, <1>a DEF fdiraddOverrun, InPhase, Lose
  <2>10. CASE fuloaddir(q)     BY <2>10, <1>a DEF fuloaddir, InPhase
  <2>11. CASE fcreateInit(q)   BY <2>11, <1>a DEF fcreateInit, InPhase
  <2> QED BY <1>1, <2>1, <2>2, <2>3, <2>4, <2>5, <2>6, <2>7, <2>8, <2>9, <2>10, <2>11
          DEF fcreateStep
<1>2. CASE fwriteStep
  <2> DEFINE a == allocatecluster(map, lastAlloc)
             f == fh[cur.h].cl
  <2>1. dmap' = dmap /\ up  BY <1>2 DEF fwriteStep
  <2>2. CASE map' = map  BY <2>1, <2>2, <1>a
  <2>3. CASE map' # map
    <3>1. map' = faddr(map, a, f) /\ CanAlloc(map, lastAlloc)  BY <1>2, <2>3 DEF fwriteStep
    <3>2. a \in Clusters /\ map[a].code = Unused  BY <3>1, AllocIsFree
    <3> HIDE DEF a, f
    <3>3. \A e \in Clusters : e # a => map'[e] = map[e]  BY <1>0, <3>1 DEF faddr, Map
    <3> QED BY <1>b, <2>1, <3>2, <3>3
  <2> QED BY <2>2, <2>3
<1>3. CASE shellcreateDone  BY <1>3, <1>a DEF shellcreateDone, Created
<1>4. CASE shellcreateFault  BY <1>4, <1>a DEF shellcreateFault, Created, Lose, disk
<1>5. CASE floadh  BY <1>5, <1>a DEF floadh, Created, disk
<1>6. CASE Client
  <2>1. ASSUME NEW q \in DeletePaths, shelldelete(q)
        PROVE  HeadAt(dmap', c, p) /\ (up' => HeadAt(map', c, p))
    <3>1. q \in Paths  BY FratAssumption
    <3>2. map' = Cleared(q) /\ up /\ dmap' = dmap /\ committed' = committed \ {q}
      BY <2>1 DEF shelldelete, Cleared, Quiet, disk
    <3>3. q # p  BY <3>2
    <3> QED BY <3>1, <3>2, <3>3, <1>a, <1>c
  <2>2. ASSUME NEW q \in DeletePaths, removeAll(q)
        PROVE  HeadAt(dmap', c, p) /\ (up' => HeadAt(map', c, p))
    <3>1. map' = ffremovel(map, q) /\ up /\ dmap' = dmap /\ committed' = committed \ {q}
      BY <2>2 DEF removeAll, Quiet, disk
    <3>2. q # p  BY <3>1
    <3>3. map'[c] = map[c]  BY <3>1, <3>2 DEF ffremovel, HeadAt
    <3> QED BY <3>1, <3>3, <1>a
  <2>3. ASSUME NEW q \in DeletePaths, shelldeleteFault(q)
        PROVE  HeadAt(dmap', c, p) /\ (up' => HeadAt(map', c, p))
    BY <2>3, <1>a DEF shelldeleteFault, Quiet, Lose, disk
  <2>4. ASSUME NEW x \in Creates, shellcreate(x[1], x[2])
        PROVE  HeadAt(dmap', c, p) /\ (up' => HeadAt(map', c, p))
    BY <2>4, <1>a DEF shellcreate, Quiet, disk
  <2>5. ASSUME NEW h \in Handles, NEW x \in Opens, shellopen(h, x[1], x[2])
        PROVE  HeadAt(dmap', c, p) /\ (up' => HeadAt(map', c, p))
    BY <2>5, <1>a DEF shellopen, Quiet, disk
  <2>6. ASSUME NEW h \in Handles, fuloadh(h)
        PROVE  HeadAt(dmap', c, p) /\ (up' => HeadAt(map', c, p))
    BY <2>6, <1>a DEF fuloadh, Quiet
  <2>7. ASSUME NEW h \in Handles, NEW x \in SeekTo, fseek(h, x)
        PROVE  HeadAt(dmap', c, p) /\ (up' => HeadAt(map', c, p))
    BY <2>7, <1>a DEF fseek, SetPos, Quiet, disk
  <2>8. ASSUME NEW h \in Handles, NEW x \in SeekBy, fseeko(h, x)
        PROVE  HeadAt(dmap', c, p) /\ (up' => HeadAt(map', c, p))
    BY <2>8, <1>a DEF fseeko, SetPos, Quiet, disk
  <2>9. ASSUME NEW h \in Handles, NEW n \in Lengths, fread(h, n)
        PROVE  HeadAt(dmap', c, p) /\ (up' => HeadAt(map', c, p))
    BY <2>9, <1>a DEF fread, Quiet
  <2>10. ASSUME NEW h \in Handles, NEW n \in Lengths, NEW v \in Values, fwriteCall(h, n, v)
         PROVE  HeadAt(dmap', c, p) /\ (up' => HeadAt(map', c, p))
    BY <2>10, <1>a DEF fwriteCall, Quiet, Lose
  <2> QED BY <1>6, <2>1, <2>2, <2>3, <2>4, <2>5, <2>6, <2>7, <2>8, <2>9, <2>10 DEF Client
<1>7. CASE fmount  BY <1>7 DEF fmount, HeadAt, disk
<1>8. CASE shellexit  BY <1>8, <1>a DEF shellexit, Quiet, Lose
<1>9. CASE Crash  BY <1>9, <1>a DEF Crash, Lose, disk
<1>10. CASE UNCHANGED vars  BY <1>10 DEF vars, HeadAt
<1> QED BY <1>1, <1>2, <1>3, <1>4, <1>5, <1>6, <1>7, <1>8, <1>9, <1>10 DEF Next, Step

\* A dead process takes no step but to be started again.
LEMMA OnlyMount ==
  ASSUME [Next]_vars, ~up
  PROVE  fmount \/ UNCHANGED vars
<1>1. ASSUME NEW p \in Paths, fcreateStep(p)  PROVE FALSE
  BY <1>1
     DEF fcreateStep, fcreateExists, fcreateAlloc, fcreateFull, fgetparent, floadhdir,
         fdiraddGrow, fdiraddSpin, fdiraddEntry, fdiraddOverrun, fuloaddir, fcreateInit, InPhase
<1>2. ~Step
  BY <1>1 DEF Step, shellcreateDone, shellcreateFault, floadh, fwriteStep, Created
<1>3. ~Client
  <2>1. \A p, args : ~shellcreate(p, args)  BY DEF shellcreate, Quiet
  <2>2. \A p : ~shelldelete(p) /\ ~shelldeleteFault(p) /\ ~removeAll(p)
    BY DEF shelldelete, shelldeleteFault, removeAll, Quiet
  <2>3. \A h, p, args : ~shellopen(h, p, args)  BY DEF shellopen, Quiet
  <2>4. \A h : ~fuloadh(h)  BY DEF fuloadh, Quiet
  <2>5. \A h, x : ~fseek(h, x) /\ ~fseeko(h, x) /\ ~fread(h, x)
    BY DEF fseek, fseeko, fread, Quiet
  <2>6. \A h, n, v : ~fwriteCall(h, n, v)  BY DEF fwriteCall, Quiet
  <2> QED BY <2>1, <2>2, <2>3, <2>4, <2>5, <2>6 DEF Client
<1> QED BY <1>2, <1>3 DEF Next, shellexit, Crash, Quiet

\* The metadata block of an item stays one.
LEMMA MetaStays ==
  ASSUME WideEnough, IInv, PosOK, [Next]_vars, NEW p \in Paths, NEW c \in Clusters,
         up => HeadAt(map, c, p), MetaOf(blk[c], p)
  PROVE  MetaOf(blk'[c], p)
<1>0. blk \in [Clusters -> Block] /\ p # Unused  BY MapAssumption DEF IInv, TypeOK
<1>1. CASE ~up
  <2>1. blk' = blk  BY <1>1, OnlyMount DEF fmount, vars, disk
  <2> QED BY <2>1
<1>2. CASE up
  <2>1. map[c].code = p /\ map[c].idx = 0  BY <1>2 DEF HeadAt
  <2>2. Stamp(blk[c]) = blk[c]  BY DEF Stamp, MetaOf
  <2>3. MetaOf(finit(map[c]), p)  BY <2>1 DEF finit, Meta, MetaOf
  <2> QED BY <1>0, <2>1, <2>2, <2>3, HeadSafe
<1> QED BY <1>1, <1>2

\* Only the end of the create command commits an item.
LEMMA CommitOnly ==
  ASSUME [Next]_vars, NEW p \in committed', p \notin committed
  PROVE  shellcreateDone
<1>1. ASSUME NEW q \in Paths, fcreateStep(q)  PROVE FALSE
  BY <1>1
     DEF fcreateStep, fcreateExists, fcreateAlloc, fcreateFull, fgetparent, floadhdir,
         fdiraddGrow, fdiraddSpin, fdiraddEntry, fdiraddOverrun, fuloaddir, fcreateInit
<1>2. ~fwriteStep /\ ~shellcreateFault /\ ~floadh
  BY DEF fwriteStep, shellcreateFault, floadh
<1>3. ~fmount /\ ~shellexit /\ ~Crash /\ ~UNCHANGED vars
  BY DEF fmount, shellexit, Crash, vars
<1>4. ASSUME Client  PROVE FALSE
  <2>1. ASSUME NEW x \in Creates, shellcreate(x[1], x[2])  PROVE FALSE
    BY <2>1 DEF shellcreate
  <2>2. ASSUME NEW q \in DeletePaths, shelldelete(q) \/ shelldeleteFault(q) \/ removeAll(q)
        PROVE  FALSE
    BY <2>2 DEF shelldelete, shelldeleteFault, removeAll
  <2>3. ASSUME NEW h \in Handles, NEW x \in Opens, shellopen(h, x[1], x[2])  PROVE FALSE
    BY <2>3 DEF shellopen
  <2>4. ASSUME NEW h \in Handles, fuloadh(h)  PROVE FALSE
    BY <2>4 DEF fuloadh
  <2>5. ASSUME NEW h \in Handles, NEW x \in SeekTo, fseek(h, x)  PROVE FALSE
    BY <2>5 DEF fseek, SetPos
  <2>6. ASSUME NEW h \in Handles, NEW x \in SeekBy, fseeko(h, x)  PROVE FALSE
    BY <2>6 DEF fseeko, SetPos
  <2>7. ASSUME NEW h \in Handles, NEW n \in Lengths, fread(h, n)  PROVE FALSE
    BY <2>7 DEF fread
  <2>8. ASSUME NEW h \in Handles, NEW n \in Lengths, NEW v \in Values, fwriteCall(h, n, v)
        PROVE  FALSE
    BY <2>8 DEF fwriteCall
  <2> QED BY <1>4, <2>1, <2>2, <2>3, <2>4, <2>5, <2>6, <2>7, <2>8 DEF Client
<1> QED BY <1>1, <1>2, <1>3, <1>4 DEF Next, Step

----------------------------------------------------------------------------
(* Directory blocks.                                                       *)

\* The items that are listed somewhere.
Nested == {p \in Paths : Parent[p] # NoParent}

\* No directory can be filled: its block has room for every listed item.
DirsFit == IsFiniteSet(Nested) /\ Cardinality(Nested) <= DirCap

\* A list of entries that ends where `local' says it does.
GoodList(s) ==
    \A j, k \in 1 .. Len(s) :
        /\ s[k].last <=> (k = Len(s))
        /\ s[j].code = s[k].code => j = k
        /\ s[k].code \in Nested

DirOK ==
    /\ \A c \in Clusters : blk[c].kind = "dir" => GoodList(blk[c].ents)
    /\ \A p \in Paths : fr[p].ph = "dirblk" /\ fr[p].arr.kind = "dir" =>
           GoodList(fr[p].arr.ents)

\* A list that lacks a listed item has room for it.
LEMMA ListHasRoom ==
  ASSUME DirsFit, NEW s \in Seq(Entry), GoodList(s), NEW p \in Nested,
         \A k \in 1 .. Len(s) : s[k].code # p
  PROVE  Len(s) < DirCap
<1> DEFINE T == Nested \ {p}
           f == [k \in 1 .. Len(s) |-> s[k].code]
<1>0. Len(s) \in Nat  BY LenProperties
<1>1. IsFiniteSet(T) /\ Cardinality(T) = Cardinality(Nested) - 1
  BY FS_RemoveElement, Zenon DEF DirsFit
<1>2. Cardinality(Nested) \in Nat  BY FS_CardinalityType DEF DirsFit
<1>3. Cardinality(1 .. Len(s)) = Len(s) /\ IsFiniteSet(1 .. Len(s))
  <2>1. 1 \in Int /\ Len(s) \in Int  BY <1>0
  <2>2. /\ IsFiniteSet(1 .. Len(s))
        /\ Cardinality(1 .. Len(s)) = IF 1 > Len(s) THEN 0 ELSE Len(s) - 1 + 1
    BY <2>1, FS_Interval
  <2> QED BY <1>0, <2>2
<1>4. f \in [1 .. Len(s) -> T]  BY DEF GoodList
<1>5. \A j, k \in 1 .. Len(s) : f[j] = f[k] => j = k  BY DEF GoodList
<1> HIDE DEF f, T
<1>6. f \in Injection(1 .. Len(s), T)
  BY <1>4, <1>5 DEF Injection, IsInjective
<1>7. Cardinality(1 .. Len(s)) <= Cardinality(T)  BY <1>1, <1>6, FS_Injection
<1>8. DirCap \in Nat  BY FratAssumption
<1>9. Len(s) <= Cardinality(Nested) - 1 /\ Cardinality(Nested) <= DirCap
  BY <1>1, <1>3, <1>7 DEF DirsFit
<1> QED BY <1>0, <1>2, <1>8, <1>9

\* What the walk leaves of the entries it passes.
LEMMA PassedIs ==
  ASSUME NEW e \in Seq(Entry), NEW k \in Nat
  PROVE  \A j \in 1 .. Len(e) :
             /\ Passed(e, k)[j].code = e[j].code
             /\ j < k => Passed(e, k)[j].last = FALSE
             /\ j >= k => Passed(e, k)[j] = e[j]
<1>1. e \in [1 .. Len(e) -> Entry] /\ Len(e) \in Nat  BY LenProperties
<1>2. DOMAIN e = 1 .. Len(e)  BY <1>1
<1> SUFFICES ASSUME NEW j \in 1 .. Len(e)
             PROVE  /\ Passed(e, k)[j].code = e[j].code
                    /\ j < k => Passed(e, k)[j].last = FALSE
                    /\ j >= k => Passed(e, k)[j] = e[j]
  OBVIOUS
<1>3. Passed(e, k)[j] = IF j < k THEN [e[j] EXCEPT !.last = FALSE] ELSE e[j]
  BY <1>2 DEF Passed
<1>4. e[j] \in Entry /\ j \in Nat  BY <1>1
<1>5. [e[j] EXCEPT !.last = FALSE].code = e[j].code /\ [e[j] EXCEPT !.last = FALSE].last = FALSE
  BY <1>4 DEF Entry
<1>7. CASE j < k
  <2>1. Passed(e, k)[j] = [e[j] EXCEPT !.last = FALSE]  BY <1>3, <1>7
  <2>2. ~(j >= k)  BY <1>4, <1>7
  <2> QED BY <1>5, <2>1, <2>2
<1>8. CASE ~(j < k)  BY <1>3, <1>8
<1> QED BY <1>7, <1>8

\* __fdiradd keeps a good list good: it finds the item's own entry, or appends
\* one after having counted up `local' of all the others.
LEMMA fdiraddGood ==
  ASSUME NEW e \in Seq(Entry), GoodList(e), NEW p \in Nested
  PROVE  GoodList(fdiradd(e, p))
<1>0. e \in [1 .. Len(e) -> Entry] /\ Len(e) \in Nat /\ p \in Paths
  BY LenProperties DEF Nested
<1>1. [code |-> p, last |-> TRUE] \in Entry  BY <1>0 DEF Entry, Codes
<1>2. Slots(e, p) = {k \in 1 .. Len(e) : e[k].code = p}
  BY MapAssumption DEF Slots, GoodList, Nested
<1>3. CASE Slots(e, p) # {}
  <2> DEFINE k == Min(Slots(e, p))
             s == Passed(e, k)
             t == [s EXCEPT ![k] = IF @.code = p THEN @ ELSE [code |-> p, last |-> TRUE]]
  <2>1. Slots(e, p) \in SUBSET Nat  BY LenProperties DEF Slots
  <2>2. k \in Slots(e, p)  BY <1>3, <2>1, MinIsLeast
  <2>3. k \in 1 .. Len(e) /\ e[k].code = p /\ k \in Nat  BY <1>2, <2>1, <2>2
  <2>4. fdiradd(e, p) = t  BY <1>3 DEF fdiradd
  <2> HIDE DEF k
  <2>5. s \in Seq(Entry) /\ Len(s) = Len(e)  BY PassedType
  <2>6. \A j \in 1 .. Len(e) : /\ s[j].code = e[j].code
                               /\ j < k => s[j].last = FALSE
                               /\ j >= k => s[j] = e[j]
    BY <2>3, PassedIs
  <2> HIDE DEF s
  <2>7. s \in [1 .. Len(e) -> Entry]  BY <2>5, LenProperties
  <2>8. t = s  BY <2>3, <2>6, <2>7
  <2>9. \A j \in 1 .. Len(e) : s[j].last <=> j = Len(e)
    <3> SUFFICES ASSUME NEW j \in 1 .. Len(e) PROVE s[j].last <=> j = Len(e)  OBVIOUS
    <3>1. e[j].last <=> j = Len(e)  BY DEF GoodList
    <3>3. j \in Nat /\ k \in Nat /\ Len(e) \in Nat /\ k <= Len(e)  BY <2>3, <1>0
    <3>2. (j < k /\ j # Len(e)) \/ j >= k  BY <3>3
    <3> QED BY <2>6, <3>1, <3>2
  <2>10. GoodList(s)  BY <2>5, <2>6, <2>9 DEF GoodList
  <2> QED BY <2>4, <2>8, <2>10
<1>4. CASE Slots(e, p) = {}
  <2> DEFINE n == Len(e)
             s == Passed(e, n + 1)
             x == [code |-> p, last |-> TRUE]
             t == Append(s, x)
  <2>1. n \in Nat /\ n + 1 \in Nat  BY <1>0
  <2>2. fdiradd(e, p) = t  BY <1>4 DEF fdiradd
  <2>3. s \in Seq(Entry) /\ Len(s) = n  BY PassedType
  <2>4. \A j \in 1 .. n : /\ s[j].code = e[j].code
                          /\ j < n + 1 => s[j].last = FALSE
    BY <2>1, PassedIs
  <2>5. \A j \in 1 .. n : s[j].code = e[j].code /\ s[j].last = FALSE
    BY <2>1, <2>4
  <2>x. x \in Entry /\ x.code = p /\ x.last = TRUE  BY <1>1
  <2> HIDE DEF s, x
  <2>6. /\ Len(t) = n + 1 /\ t[n + 1] = x
        /\ \A j \in 1 .. n : t[j] = s[j]
    BY <2>3, <2>x, AppendProperties
  <2> HIDE DEF t
  <2>7. \A j \in 1 .. n : e[j].code # p  BY <1>2, <1>4
  <2>8. \A j \in 1 .. (n + 1) : j \in 1 .. n \/ j = n + 1  BY <2>1
  <2>9. \A j \in 1 .. n : /\ t[j].code = e[j].code /\ t[j].last = FALSE /\ j # n + 1
                          /\ t[j].code # p /\ t[j].code \in Nested
    BY <2>1, <2>5, <2>6, <2>7 DEF GoodList
  <2>10. \A j, k \in 1 .. n : t[j].code = t[k].code => j = k  BY <2>9 DEF GoodList
  <2>11. GoodList(t)
    <3> SUFFICES ASSUME NEW j \in 1 .. (n + 1), NEW k \in 1 .. (n + 1)
                 PROVE  /\ t[k].last <=> (k = n + 1)
                        /\ t[j].code = t[k].code => j = k
                        /\ t[k].code \in Nested
      BY <2>6 DEF GoodList
    <3>1. t[k].last <=> (k = n + 1)  BY <2>6, <2>8, <2>9, <2>x
    <3>2. t[k].code \in Nested  BY <2>6, <2>8, <2>9, <2>x
    <3>3. t[j].code = t[k].code => j = k  BY <2>6, <2>8, <2>9, <2>10, <2>x
    <3> QED BY <3>1, <3>2, <3>3
  <2> QED BY <2>2, <2>11
<1> QED BY <1>3, <1>4

\* What a block holds when it is read as a directory is a good list.
LEMMA EntsGood ==
  ASSUME TypeOK, DirOK, NEW c \in Clusters, IsDir(blk[c])
  PROVE  Ents(blk[c]) \in Seq(Entry) /\ GoodList(Ents(blk[c]))
<1>1. Ents(blk[c]) \in Seq(Entry)  BY EntsType DEF TypeOK
<1>2. CASE blk[c] = Zero
  <2>1. Ents(blk[c]) = <<>> /\ Len(<<>>) = 0  BY <1>2 DEF Ents
  <2> QED BY <1>1, <2>1 DEF GoodList
<1>3. CASE blk[c] # Zero
  BY <1>1, <1>3 DEF Ents, IsDir, DirOK
<1> QED BY <1>2, <1>3

\* The directory block of a running __fdiradd.
LEMMA DirBlockIn ==
  ASSUME NEW p \in Paths, Found(map, Parent[p], 1)
  PROVE  ffindhi(map, Parent[p], 1) \in Clusters
BY FindHits

\* Every step keeps the lists good, in the blocks and in the arrays that wait
\* to be written.
LEMMA DirNext ==
  ASSUME DirsFit, IInv, DirOK, [Next]_vars
  PROVE  DirOK'
<1>0. TypeOK /\ CallsOK /\ fr \in [Paths -> Frame] /\ blk \in [Clusters -> Block]
  BY DEF IInv, TypeOK
<1>k. Zero.kind = "data" /\ Junk.kind = "data" /\ \A f : Data(f).kind = "data"
  BY DEF Zero, Junk, Data
<1>b. ASSUME \A c \in Clusters : blk'[c].kind = "dir" =>
                 \/ blk'[c] = blk[c]
                 \/ \E q \in Paths : fr[q].ph = "dirblk" /\ blk'[c] = fr[q].arr
      PROVE  \A c \in Clusters : blk'[c].kind = "dir" => GoodList(blk'[c].ents)
  BY <1>b DEF DirOK
<1>f. ASSUME \A p \in Paths : fr'[p].ph = "dirblk" => fr'[p] = fr[p]
      PROVE  \A p \in Paths : fr'[p].ph = "dirblk" /\ fr'[p].arr.kind = "dir" =>
                 GoodList(fr'[p].arr.ents)
  BY <1>f DEF DirOK
<1>s. ASSUME \A c \in Clusters : blk'[c].kind = "dir" =>
                 \/ blk'[c] = blk[c]
                 \/ \E q \in Paths : fr[q].ph = "dirblk" /\ blk'[c] = fr[q].arr,
             \A p \in Paths : fr'[p].ph = "dirblk" => fr'[p] = fr[p]
      PROVE  DirOK'
  BY <1>s, <1>b, <1>f DEF DirOK
<1>l. ASSUME Lose, blk' = blk  PROVE DirOK'
  BY <1>l, <1>s DEF Lose, NoFrame
<1>1. ASSUME NEW q \in Paths, fcreateStep(q)  PROVE DirOK'
  <2> DEFINE d == ffindhi(map, Parent[q], 1)
  <2>1. CASE fcreateExists(q) \/ fcreateFull(q)
    <3>1. blk' = blk /\ fr' = [fr EXCEPT ![q] = NoFrame]
      BY <2>1 DEF fcreateExists, fcreateFull, Return, disk
    <3>2. \A p \in Paths : fr'[p].ph = "dirblk" => fr'[p] = fr[p]
      BY <3>1, <1>0 DEF NoFrame
    <3> QED BY <3>1, <3>2, <1>s
  <2>2. CASE fcreateAlloc(q)
    <3> DEFINE a == allocatecluster(Cleared(q), lastAlloc)
    <3>1. blk' = blk /\ fr' = [fr EXCEPT ![q].ph = "parent", ![q].cl = a]
      BY <2>2 DEF fcreateAlloc, disk
    <3> HIDE DEF a
    <3>2. \A p \in Paths : fr'[p].ph = "dirblk" => fr'[p] = fr[p]
      BY <3>1, <1>0 DEF Frame
    <3> QED BY <3>1, <3>2, <1>s
  <2>3. CASE fgetparent(q)
    <3>1. blk' = blk  BY <2>3 DEF fgetparent, disk
    <3>2. \A p \in Paths : fr'[p].ph = "dirblk" => fr'[p] = fr[p]
      BY <2>3, <1>0 DEF fgetparent, Enter, NoFrame, Frame
    <3> QED BY <3>1, <3>2, <1>s
  <2>4. CASE floadhdir(q)
    <3>1. blk' = blk /\ \E x \in {"dir", "init"} : fr' = [fr EXCEPT ![q].ph = x]
      BY <2>4 DEF floadhdir, Goto, disk
    <3>2. \A p \in Paths : fr'[p].ph = "dirblk" => fr'[p] = fr[p]
      BY <3>1, <1>0 DEF Frame
    <3> QED BY <3>1, <3>2, <1>s
  <2>5. CASE fdiraddGrow(q)
    <3> DEFINE a == allocatecluster(map, lastAlloc)
    <3>1. blk' = [blk EXCEPT ![a] = Zero] /\ fr' = fr  BY <2>5 DEF fdiraddGrow
    <3> HIDE DEF a
    <3>2. \A c \in Clusters : blk'[c].kind = "dir" => blk'[c] = blk[c]
      BY <3>1, <1>0, <1>k
    <3> QED BY <3>1, <3>2, <1>s
  <2>6. CASE fdiraddSpin(q)  BY <2>6, <1>s DEF fdiraddSpin, disk
  <2>7. CASE fdiraddEntry(q)
    <3>1. /\ blk' = blk /\ IsDir(blk[d]) /\ Found(map, Parent[q], 1) /\ fr[q].ph = "dir"
          /\ fr' = [fr EXCEPT ![q].ph = "dirblk", ![q].arr = Dir(fdiradd(Ents(blk[d]), q))]
      BY <2>7 DEF fdiraddEntry, InPhase, DirBlock
    <3>2. d \in Clusters  BY <3>1, DirBlockIn
    <3>3. Ents(blk[d]) \in Seq(Entry) /\ GoodList(Ents(blk[d]))
      BY <1>0, <3>1, <3>2, EntsGood
    <3>4. q \in Nested  BY <3>1, <1>0 DEF CallsOK, Nested
    <3> DEFINE s == fdiradd(Ents(blk[d]), q)
    <3>5. GoodList(s)  BY <3>3, <3>4, fdiraddGood
    <3> HIDE DEF d, s
    <3>6. fr' = [fr EXCEPT ![q].ph = "dirblk", ![q].arr = Dir(s)]  BY <3>1 DEF s
    <3>7. fr'[q].arr = Dir(s) /\ \A p \in Paths : p # q => fr'[p] = fr[p]
      BY <3>6, <1>0 DEF Frame
    <3>8. Dir(s).ents = s  BY DEF Dir
    <3>9. \A p \in Paths : fr'[p].ph = "dirblk" /\ fr'[p].arr.kind = "dir" =>
             GoodList(fr'[p].arr.ents)
      BY <3>5, <3>7, <3>8 DEF DirOK
    <3> QED BY <3>1, <3>9 DEF DirOK
  <2>8. CASE fdiraddOverrun(q)
    <3>1. /\ blk' = blk /\ Found(map, Parent[q], 1) /\ fr[q].ph = "dir"
          /\ IsDir(blk[d]) => /\ Slots(Ents(blk[d]), q) = {}
                              /\ Len(Ents(blk[d])) >= DirCap
      BY <2>8 DEF fdiraddOverrun, InPhase, DirBlock
    <3>2. d \in Clusters  BY <3>1, DirBlockIn
    <3>3. ~IsDir(blk[d])
      <4> SUFFICES ASSUME IsDir(blk[d]) PROVE FALSE  OBVIOUS
      <4> DEFINE e == Ents(blk[d])
      <4>1. e \in Seq(Entry) /\ GoodList(e)  BY <1>0, <3>2, EntsGood
      <4>2. q \in Nested  BY <3>1, <1>0 DEF CallsOK, Nested
      <4>3. Slots(e, q) = {} /\ Len(e) >= DirCap  BY <3>1
      <4> HIDE DEF e
      <4>4. \A k \in 1 .. Len(e) : e[k].code # q  BY <4>3 DEF Slots
      <4>5. Len(e) < DirCap  BY <4>1, <4>2, <4>4, ListHasRoom
      <4>6. Len(e) \in Nat /\ DirCap \in Nat  BY <4>1, LenProperties, FratAssumption
      <4> QED BY <4>3, <4>5, <4>6
    <3>4. CASE Lose  BY <3>1, <3>4, <1>l
    <3>5. CASE ~Lose
      <4>1. fr' = [fr EXCEPT ![q].ph = "dirblk", ![q].arr = Junk]
        BY <2>8, <3>3, <3>5 DEF fdiraddOverrun, DirBlock
      <4>2. fr'[q].arr = Junk /\ \A p \in Paths : p # q => fr'[p] = fr[p]
        BY <4>1, <1>0 DEF Frame
      <4>3. \A p \in Paths : fr'[p].ph = "dirblk" /\ fr'[p].arr.kind = "dir" =>
               GoodList(fr'[p].arr.ents)
        BY <4>2, <1>k DEF DirOK
      <4> QED BY <3>1, <4>3 DEF DirOK
    <3> QED BY <3>4, <3>5
  <2>9. CASE fuloaddir(q)
    <3>1. fr[q].ph = "dirblk" /\ fr' = [fr EXCEPT ![q].ph = "init"]
      BY <2>9 DEF fuloaddir, InPhase, Goto
    <3>2. \A p \in Paths : fr'[p].ph = "dirblk" => fr'[p] = fr[p]
      BY <3>1, <1>0 DEF Frame
    <3>3. \A c \in Clusters : blk'[c] = blk[c] \/ blk'[c] = fr[q].arr \/ blk'[c] = Junk
      BY <2>9 DEF fuloaddir
    <3> QED BY <3>1, <3>2, <3>3, <1>s, <1>k
  <2>10. CASE fcreateInit(q)
    <3> DEFINE a == fr[q].cl
               x == finit(map[a])
    <3>1. blk' = [blk EXCEPT ![a] = x] /\ fr' = [fr EXCEPT ![q] = NoFrame]
      BY <2>10 DEF fcreateInit, Return
    <3>2. x.kind = "meta"  BY DEF finit, Meta
    <3> HIDE DEF a, x
    <3>3. \A c \in Clusters : blk'[c].kind = "dir" => blk'[c] = blk[c]
      BY <3>1, <3>2, <1>0
    <3>4. \A p \in Paths : fr'[p].ph = "dirblk" => fr'[p] = fr[p]
      BY <3>1, <1>0 DEF NoFrame
    <3> QED BY <3>3, <3>4, <1>s
  <2> QED BY <1>1, <2>1, <2>2, <2>3, <2>4, <2>5, <2>6, <2>7, <2>8, <2>9, <2>10
          DEF fcreateStep
<1>2. CASE fwriteStep
  <2> DEFINE h     == cur.h
             i     == cur.pos \div B
             off   == cur.pos % B
             chunk == Min({B - off, cur.left})
             a     == allocatecluster(map, lastAlloc)
             b     == BlockOf(h, i)
             new(old) == Data(Overlay(old, off, chunk, cur.val))
  <2>0. fr' = fr  BY <1>2 DEF fwriteStep
  <2>1. \/ blk' = blk
        \/ blk' = [blk EXCEPT ![b] = new(CellsOf(blk[b]))]
        \/ blk' = [blk EXCEPT ![a] = new(Zero.cells)]
    BY <1>2 DEF fwriteStep
  <2>2. \A f : new(f).kind = "data"  BY <1>k
  <2> HIDE DEF new, a, b
  <2>3. \A c \in Clusters : blk'[c].kind = "dir" => blk'[c] = blk[c]
    BY <2>1, <2>2, <1>0
  <2> QED BY <2>0, <2>3, <1>s
<1>3. CASE shellcreateDone \/ floadh
  BY <1>3, <1>s DEF shellcreateDone, floadh, disk
<1>4. CASE shellcreateFault  BY <1>4, <1>l DEF shellcreateFault, disk
<1>5. CASE Client
  <2>q. Quiet => \A p \in Paths : fr[p].ph = "none"  BY <1>0 DEF Quiet, CallsOK, Busy
  <2>e. ASSUME Quiet, NEW p \in Paths, NEW flags, fr' = Enter(fr, p, flags), blk' = blk
        PROVE  DirOK'
    <3>1. \A x \in Paths : fr'[x].ph # "dirblk"
      BY <2>e, <2>q, <1>0 DEF Enter, NoFrame
    <3> QED BY <2>e, <3>1, <1>s
  <2>t. ASSUME NEW a \in Clusters, blk' = [blk EXCEPT ![a] = Stamp(@)],
               fr' = fr \/ Lose
        PROVE  DirOK'
    <3>1. \A c \in Clusters : blk'[c].kind = "dir" => blk'[c] = blk[c]
      BY <2>t, <1>0, <1>k DEF Stamp
    <3>2. \A p \in Paths : fr'[p].ph = "dirblk" => fr'[p] = fr[p]
      BY <2>t DEF Lose, NoFrame
    <3> QED BY <3>1, <3>2, <1>s
  <2>h. \A h \in Handles : fh[h].cl \in Clusters  BY <1>0 DEF TypeOK, fhandle
  <2>0. \A x \in Creates \cup Opens : x[1] \in Paths  BY FratAssumption
  <2>1. ASSUME NEW x \in Creates, shellcreate(x[1], x[2])  PROVE DirOK'
    BY <2>0, <2>1, <2>e DEF shellcreate, disk
  <2>2. ASSUME NEW p \in DeletePaths, shelldelete(p) \/ removeAll(p)  PROVE DirOK'
    BY <2>2, <1>s DEF shelldelete, removeAll, disk
  <2>3. ASSUME NEW p \in DeletePaths, shelldeleteFault(p)  PROVE DirOK'
    BY <2>3, <1>l DEF shelldeleteFault, disk
  <2>4. ASSUME NEW h \in Handles, NEW x \in Opens, shellopen(h, x[1], x[2])  PROVE DirOK'
    BY <2>0, <2>4, <2>e, <1>s DEF shellopen, disk
  <2>5. ASSUME NEW h \in Handles, fuloadh(h)  PROVE DirOK'
    BY <2>5, <1>s DEF fuloadh
  <2>6. ASSUME NEW h \in Handles, NEW x \in SeekTo, fseek(h, x)  PROVE DirOK'
    BY <2>6, <1>s DEF fseek, SetPos, disk
  <2>7. ASSUME NEW h \in Handles, NEW x \in SeekBy, fseeko(h, x)  PROVE DirOK'
    BY <2>7, <1>s DEF fseeko, SetPos, disk
  <2>8. ASSUME NEW h \in Handles, NEW n \in Lengths, fread(h, n)  PROVE DirOK'
    BY <2>8, <2>h, <2>t DEF fread
  <2>9. ASSUME NEW h \in Handles, NEW n \in Lengths, NEW v \in Values, fwriteCall(h, n, v)
        PROVE  DirOK'
    BY <2>9, <2>h, <2>t DEF fwriteCall
  <2> QED BY <1>5, <2>1, <2>2, <2>3, <2>4, <2>5, <2>6, <2>7, <2>8, <2>9 DEF Client
<1>6. CASE fmount  BY <1>6, <1>s DEF fmount, disk
<1>7. CASE shellexit \/ Crash  BY <1>7, <1>l DEF shellexit, Crash, disk
<1>8. CASE UNCHANGED vars  BY <1>8, <1>s DEF vars
<1> QED BY <1>1, <1>2, <1>3, <1>4, <1>5, <1>6, <1>7, <1>8 DEF Next, Step

----------------------------------------------------------------------------
(* A write inside a file reads back.                                       *)

\* Byte k of the item that entry a of map m belongs to is v, in the blocks b.
Holds(m, b, a, k, v) == \E c \in Clusters :
    m[c].code = m[a].code /\ m[c].idx = k \div B /\ CellsOf(b[c])[k % B] = v

\* The bytes the write in progress has passed are in blocks of the file and
\* hold the value.
Stored(h) == \A k \in fh[h].pos .. cur.pos - 1 : Holds(map, blk, fh[h].cl, k, cur.val)

\* What was passed is stored, or the write is behind the end of the file by a
\* block or more.  It stays there: a block that is added gets the next index
\* of the file, not the one of the position.
ProgressOK ==
    cur.call = "write" /\ FileOf(cur.h) # Unused =>
        Stored(cur.h) \/ cur.pos \div B > Cardinality(Owned(map, FileOf(cur.h)))

\* A block number that fits into the index field is found where the entry with
\* this index is, through the handle's own entry or by __ffindhi.
LEMMA BlockAt ==
  ASSUME NEW m \in Map, UniqueIndex(m), NEW a \in Clusters, m[a].code # Unused,
         NEW i \in Nat, i < IdxMod
  PROVE  LET own == i = m[a].idx
             has == own \/ Found(m, m[a].code, i)
             at  == IF own THEN a ELSE ffindhi(m, m[a].code, i)
         IN  /\ has <=> \E c \in Clusters : m[c].code = m[a].code /\ m[c].idx = i
             /\ \A c \in Clusters : m[c].code = m[a].code /\ m[c].idx = i => at = c
<1>1. i % IdxMod = i  BY MapAssumption
<1>2. Found(m, m[a].code, i) <=> \E c \in Clusters : m[c].code = m[a].code /\ m[c].idx = i
  BY <1>1 DEF Found, Hits
<1>3. ASSUME Found(m, m[a].code, i)
      PROVE  LET c == ffindhi(m, m[a].code, i)
             IN  c \in Clusters /\ m[c].code = m[a].code /\ m[c].idx = i
  BY <1>1, <1>3, FindHits
<1> QED BY <1>2, <1>3 DEF UniqueIndex

\* The block number of a position up to the one of the write in progress.
LEMMA WriteBlocks ==
  ASSUME WideEnough, TypeOK, PosOK, cur.call = "write", NEW k \in Nat,
         k < cur.pos + cur.left
  PROVE  k \div B \in Nat /\ k \div B < IdxMod /\ k % B \in 0 .. B - 1
<1>1. cur.pos \in Nat /\ cur.left \in Nat /\ B \in Nat /\ Reach \in Nat
  BY FratAssumption DEF TypeOK, Call
<1>2. cur.pos + cur.left <= Reach /\ Reach <= B * IdxMod  BY DEF PosOK, WideEnough
<1>3. IdxMod \in Nat /\ B * IdxMod \in Nat  BY <1>1, MapAssumption
<1>4. k < B * IdxMod
  <2> DEFINE x == B * IdxMod
  <2>1. x \in Nat /\ Reach <= x  BY <1>2, <1>3
  <2> HIDE DEF x
  <2>2. k < x  BY <1>1, <1>2, <2>1
  <2> QED BY <2>2 DEF x
<1> QED BY <1>3, <1>4, DivBounds, DivMod

\* The positions of a chunk are the cells of one block that it covers.
LEMMA ChunkCells ==
  ASSUME NEW pos \in Nat, NEW n \in Nat, n <= B - (pos % B), NEW k \in pos .. pos + n - 1
  PROVE  k \div B = pos \div B /\ k % B \in (pos % B) .. (pos % B) + n - 1 /\ k % B \in 0 .. B - 1
<1> USE FratAssumption
<1> DEFINE q == pos \div B
           r == pos % B
           j == k - pos
<1>1. q \in Nat /\ r \in Nat /\ pos = B * q + r /\ r < B  OBVIOUS
<1>2. k \in Nat /\ j \in Nat /\ j < n /\ n <= B - r /\ k = pos + j  OBVIOUS
<1>m. \A a, b \in Nat : b < B => (B * a + b) \div B = a /\ (B * a + b) % B = b  OBVIOUS
<1>b. B \in Nat /\ B * q \in Nat  BY <1>1
<1> HIDE DEF q, r, j
<1>3. k = B * q + (r + j) /\ r + j \in Nat /\ r + j < B
  <2> DEFINE x == B * q
  <2>1. x \in Nat /\ pos = x + r  BY <1>1, <1>b
  <2> HIDE DEF x
  <2>2. k = x + (r + j) /\ r + j \in Nat /\ r + j < B  BY <1>1, <1>2, <1>b, <2>1
  <2> QED BY <2>2 DEF x
<1>4. k \div B = q /\ k % B = r + j  BY <1>1, <1>3, <1>m
<1>5. r + j \in r .. r + n - 1 /\ r + j \in 0 .. B - 1  BY <1>1, <1>2, <1>3, <1>b
<1> QED BY <1>4, <1>5 DEF q, r

\* Two positions of one block are told apart by their cells.
LEMMA SameBlock ==
  ASSUME NEW k \in Nat, NEW pos \in Nat, k < pos, k \div B = pos \div B
  PROVE  k % B < pos % B
<1> USE FratAssumption
<1> DEFINE q == pos \div B
<1>1. q \in Nat /\ pos = B * q + (pos % B) /\ pos % B \in Nat  OBVIOUS
<1>2. k = B * q + (k % B) /\ k % B \in Nat
  <2>1. k = B * (k \div B) + (k % B) /\ k % B \in Nat  OBVIOUS
  <2> QED BY <2>1
<1> DEFINE x == B * q
           a == pos % B
           b == k % B
<1>3. x \in Nat  BY <1>1
<1>4. pos = x + a /\ k = x + b /\ a \in Nat /\ b \in Nat  BY <1>1, <1>2
<1> HIDE DEF x, a, b, q
<1>5. b < a  BY <1>3, <1>4
<1> QED BY <1>5 DEF a, b

\* The entry a write works on is that of the handle, and it has an item.
LEMMA WriteFile ==
  ASSUME IInv, cur.call = "write", FileOf(cur.h) # Unused
  PROVE  /\ cur.h \in Handles /\ fh[cur.h].cl \in Clusters
         /\ FileOf(cur.h) \in Paths /\ Exists(map, FileOf(cur.h))
         /\ map \in Map /\ MapOK(map) /\ blk \in [Clusters -> Block]
<1>1. TypeOK /\ CallsOK /\ MapInv  BY DEF IInv
<1>2. cur.h \in Handles /\ fh[cur.h].cl \in Clusters /\ map \in Map
  BY <1>1 DEF TypeOK, Call, fhandle, Map
<1>3. FileOf(cur.h) \in Codes  BY <1>2 DEF FileOf, Map, fsblock
<1> QED BY <1>1, <1>2, <1>3 DEF CallsOK, MapInv, Codes, TypeOK

\* The cells of a block that a chunk was written to.
LEMMA OverlayCells ==
  ASSUME NEW f, NEW off, NEW n, NEW v, NEW x \in 0 .. B - 1
  PROVE  CellsOf(Data(Overlay(f, off, n, v)))[x] = IF x \in off .. off + n - 1 THEN v ELSE f[x]
BY DEF CellsOf, Data, Overlay

\* What one turn of the loop of _fwrite does to the bytes of the file, those
\* before the position and those of the chunk, and to the number of its entries.
LEMMA WriteStores ==
  ASSUME WideEnough, IInv, PosOK, fwriteStep, FileOf(cur.h) # Unused
  PROVE  LET a     == fh[cur.h].cl
             F     == FileOf(cur.h)
             i     == cur.pos \div B
             chunk == Min({B - (cur.pos % B), cur.left})
             n     == Cardinality(Owned(map, F))
         IN  /\ map' \in Map /\ UniqueIndex(map') /\ map'[a] = map[a]
             /\ \A k \in Nat : /\ k < cur.pos /\ k \div B < IdxMod
                               /\ Holds(map, blk, a, k, cur.val)
                               => Holds(map', blk', a, k, cur.val)
             /\ Cardinality(Owned(map', F)) <= n + 1
             /\ HasBlock(cur.h, i) => Cardinality(Owned(map', F)) = n
             /\ \/ HasBlock(cur.h, i)
                \/ i = n /\ map' # map
                => \A k \in cur.pos .. cur.pos + chunk - 1 : Holds(map', blk', a, k, cur.val)
             /\ i < n => HasBlock(cur.h, i)
             /\ HasBlock(cur.h, i) => i < n
             /\ map' = map => Owned(map', F) = Owned(map, F)
<1> DEFINE h     == cur.h
           a     == fh[h].cl
           F     == FileOf(h)
           i     == cur.pos \div B
           off   == cur.pos % B
           chunk == Min({B - off, cur.left})
           n     == Cardinality(Owned(map, F))
           c     == allocatecluster(map, lastAlloc)
           v     == cur.val
           new(old) == Data(Overlay(old, off, chunk, v))
<1>0. TypeOK /\ cur.call = "write"  BY DEF IInv, fwriteStep
<1>1. /\ h \in Handles /\ a \in Clusters /\ F \in Paths /\ Exists(map, F) /\ F = map[a].code
      /\ map \in Map /\ MapOK(map) /\ blk \in [Clusters -> Block] /\ F # Unused
  BY <1>0, WriteFile DEF FileOf
<1>2. cur.pos \in Nat /\ cur.left \in Nat /\ cur.left >= 1 /\ cur.pos >= B /\ B \in Nat
  BY <1>0, FratAssumption DEF TypeOK, Call, PosOK
<1>3. i \in Nat /\ i < IdxMod /\ i >= 1 /\ off \in 0 .. B - 1
  <2>1. cur.pos < cur.pos + cur.left  BY <1>2
  <2> QED BY <1>0, <1>2, <2>1, WriteBlocks, DivBounds
<1>4. chunk \in Nat /\ chunk <= B - off
  <2>1. B - off \in Nat  BY <1>2, <1>3
  <2> QED BY <2>1, <1>2, MinOfTwo
<1>5. n \in Nat  BY OwnedFinite
<1>6. /\ HasBlock(h, i) <=> \E e \in Clusters : map[e].code = F /\ map[e].idx = i
      /\ \A e \in Clusters : map[e].code = F /\ map[e].idx = i => BlockOf(h, i) = e
  <2> DEFINE own == i = map[a].idx
             at  == IF own THEN a ELSE ffindhi(map, map[a].code, i)
  <2>1. UniqueIndex(map) /\ map[a].code # Unused  BY <1>1 DEF MapOK
  <2>2. /\ own \/ Found(map, map[a].code, i)
             <=> \E e \in Clusters : map[e].code = map[a].code /\ map[e].idx = i
        /\ \A e \in Clusters : map[e].code = map[a].code /\ map[e].idx = i => at = e
    <3> HIDE DEF a, i
    <3> QED BY <1>1, <1>3, <2>1, BlockAt
  <2>3. HasBlock(h, i) <=> own \/ Found(map, map[a].code, i)
    BY DEF HasBlock, Own, FileOf
  <2>4. BlockOf(h, i) = at  BY DEF BlockOf, Own, FileOf
  <2> HIDE DEF at, own, i
  <2> QED BY <1>1, <2>2, <2>3, <2>4
<1>7. \A e \in Clusters : map[e].code = F => map[e].idx \in Nat /\ map[e].idx < n
  BY <1>1, <1>5 DEF MapOK, DenseIndex, Map, fsblock
<1>8. HasBlock(h, i) <=> i < n
  <2>1. i < n => \E e \in Clusters : map[e].code = F /\ map[e].idx = i
    <3>1. ASSUME i < n PROVE i \in 0 .. Cardinality(Owned(map, F)) - 1  BY <1>3, <1>5, <3>1
    <3> QED BY <1>1, <3>1, DenseFound
  <2> QED BY <2>1, <1>6, <1>7
<1>9. \A k \in cur.pos .. cur.pos + chunk - 1 :
         k \div B = i /\ k % B \in off .. off + chunk - 1 /\ k % B \in 0 .. B - 1
  BY <1>2, <1>4, ChunkCells
<1>10. \A k \in Nat : k < cur.pos /\ k \div B = i => k % B < off /\ k % B \in 0 .. B - 1
  BY <1>2, SameBlock, DivMod
<1> HIDE DEF chunk, off, i
<1>11. CASE HasBlock(h, i)
  <2> DEFINE t == BlockOf(h, i)
  <2>1. t \in Clusters /\ map[t].code = F /\ map[t].idx = i  BY <1>6, <1>11
  <2>2. ~(Own(h, i) /\ "metadatacluster" \in map[a].attr)
    <3>1. Own(h, i) => map[a].idx # 0  BY <1>3 DEF Own
    <3> QED BY <3>1, <1>1 DEF MapOK, HeadIsMeta
  <2>3. map' = map /\ blk' = [blk EXCEPT ![t] = new(CellsOf(@))]
    BY <1>11, <2>2 DEF fwriteStep, i, off, chunk
  <2>4. blk'[t] = new(CellsOf(blk[t])) /\ \A e \in Clusters \ {t} : blk'[e] = blk[e]
    BY <1>1, <2>1, <2>3
  <2> HIDE DEF t
  <2>5. ASSUME NEW k \in Nat, k < cur.pos, Holds(map, blk, a, k, v)
        PROVE  Holds(map', blk', a, k, v)
    <3>1. PICK e \in Clusters : /\ map[e].code = map[a].code /\ map[e].idx = k \div B
                                /\ CellsOf(blk[e])[k % B] = v
      BY <2>5 DEF Holds
    <3>2. CellsOf(blk'[e])[k % B] = v
      <4>1. CASE e # t  BY <4>1, <3>1, <2>4
      <4>2. CASE e = t
        <5>1. k % B < off /\ k % B \in 0 .. B - 1  BY <1>10, <2>1, <2>5, <3>1, <4>2
        <5>2. k % B \notin off .. off + chunk - 1  BY <5>1, <1>3
        <5> QED BY <2>4, <3>1, <4>2, <5>1, <5>2, OverlayCells
      <4> QED BY <4>1, <4>2
    <3> QED BY <2>3, <3>1, <3>2 DEF Holds
  <2>6. ASSUME NEW k \in cur.pos .. cur.pos + chunk - 1
        PROVE  Holds(map', blk', a, k, v)
    <3>1. k \div B = i /\ k % B \in off .. off + chunk - 1 /\ k % B \in 0 .. B - 1  BY <1>9
    <3>2. CellsOf(blk'[t])[k % B] = v  BY <2>4, <3>1, OverlayCells
    <3> QED BY <1>1, <2>1, <2>3, <3>1, <3>2 DEF Holds
  <2>7. map' \in Map /\ UniqueIndex(map') /\ map'[a] = map[a] /\ Owned(map', F) = Owned(map, F)
    BY <1>1, <2>3 DEF MapOK
  <2> HIDE DEF n, F
  <2> QED BY <1>5, <1>8, <1>11, <2>5, <2>6, <2>7 DEF i, off, chunk, n, F
<1>12. CASE ~HasBlock(h, i) /\ CanAlloc(map, lastAlloc)
  <2>1. map' = faddr(map, c, a) /\ blk' = [blk EXCEPT ![c] = new(Zero.cells)]
    BY <1>12 DEF fwriteStep, i, off, chunk
  <2>2. c \in Clusters /\ map[c].code = Unused  BY <1>12, AllocIsFree
  <2> HIDE DEF c
  <2>3. blk'[c] = new(Zero.cells) /\ \A e \in Clusters \ {c} : blk'[e] = blk[e]
    BY <1>1, <2>1, <2>2
  <2>4. map'[c].code = F /\ map'[c].idx = n /\ \A e \in Clusters \ {c} : map'[e] = map[e]
    BY <1>1, <2>1, <2>2 DEF faddr, Map
  <2>5. map' \in Map /\ UniqueIndex(map')
    BY <1>1, <2>1, <2>2, faddrOK DEF MapOK
  <2>6. map'[a] = map[a]  BY <1>1, <2>2, <2>4
  <2>7. Cardinality(Owned(map', F)) = n + 1  BY <1>1, <2>2, <2>4, <2>5, OwnedGrows
  <2>8. ASSUME NEW k \in Nat, Holds(map, blk, a, k, v)  PROVE Holds(map', blk', a, k, v)
    <3>1. PICK e \in Clusters : /\ map[e].code = map[a].code /\ map[e].idx = k \div B
                                /\ CellsOf(blk[e])[k % B] = v
      BY <2>8 DEF Holds
    <3>2. e # c  BY <3>1, <1>1, <2>2
    <3> QED BY <2>3, <2>4, <2>6, <3>1, <3>2 DEF Holds
  <2>9. ASSUME NEW k \in cur.pos .. cur.pos + chunk - 1, i = n  PROVE Holds(map', blk', a, k, v)
    <3>1. k \div B = i /\ k % B \in off .. off + chunk - 1 /\ k % B \in 0 .. B - 1  BY <1>9
    <3>2. CellsOf(blk'[c])[k % B] = v  BY <2>3, <3>1, OverlayCells
    <3> QED BY <1>1, <2>2, <2>4, <2>6, <2>9, <3>1, <3>2 DEF Holds
  <2>10. map' # map  BY <1>1, <2>2, <2>4
  <2>11. \A k \in cur.pos .. cur.pos + chunk - 1 : i = n => Holds(map', blk', a, k, v)
    BY <2>9
  <2>12. \A k \in Nat : Holds(map, blk, a, k, v) => Holds(map', blk', a, k, v)  BY <2>8
  <2>13. ~(i < n)  BY <1>8, <1>12
  <2>14. Cardinality(Owned(map', F)) <= n + 1  BY <1>5, <2>7
  <2> HIDE DEF n, F
  <2> QED BY <1>12, <2>5, <2>6, <2>10, <2>11, <2>12, <2>13, <2>14, Zenon
       DEF i, off, chunk, n, F
<1>13. CASE ~HasBlock(h, i) /\ ~CanAlloc(map, lastAlloc)
  <2>1. map' = map /\ blk' = blk  BY <1>13 DEF fwriteStep, i, off, chunk
  <2>2. \A k : Holds(map, blk, a, k, v) => Holds(map', blk', a, k, v)  BY <2>1 DEF Holds
  <2>3. map' \in Map /\ UniqueIndex(map') /\ map'[a] = map[a] /\ Owned(map', F) = Owned(map, F)
    BY <1>1, <2>1 DEF MapOK
  <2> HIDE DEF n, F
  <2> QED BY <1>5, <1>8, <1>13, <2>1, <2>2, <2>3 DEF i, off, chunk, n, F
<1> QED BY <1>11, <1>12, <1>13


\* Where a turn of the loop of _fwrite leaves the call and the handle.
LEMMA WriteTurn ==
  ASSUME WideEnough, IInv, PosOK, fwriteStep
  PROVE  LET chunk == Min({B - (cur.pos % B), cur.left})
         IN  /\ chunk \in Nat /\ cur.pos \in Nat /\ cur.left \in Nat /\ cur.h \in Handles
             /\ fh'[cur.h].cl = fh[cur.h].cl
             /\ \/ chunk = cur.left /\ cur'.call = "idle"
                \/ /\ chunk = B - (cur.pos % B) /\ chunk < cur.left /\ fh' = fh
                   /\ cur'.call = "write" /\ cur'.h = cur.h /\ cur'.val = cur.val
                   /\ cur'.pos = cur.pos + chunk /\ cur'.pos \in Nat
                   /\ cur'.pos \div B = (cur.pos \div B) + 1
<1> DEFINE h     == cur.h
           off   == cur.pos % B
           chunk == Min({B - off, cur.left})
           pos   == Wrap(cur.pos + chunk)
<1>0. TypeOK /\ cur.call = "write"  BY DEF IInv, fwriteStep
<1>1. cur.h \in Handles /\ cur.pos \in Nat /\ cur.left \in Nat /\ cur \in Call
  BY <1>0, FratAssumption DEF TypeOK, Call
<1>2. cur.left >= 1 /\ cur.pos + cur.left <= Reach  BY <1>0 DEF PosOK
<1>3. /\ B - off \in Nat /\ B \in Nat /\ Reach \in Nat /\ PosMax \in Nat /\ Reach <= PosMax
      /\ off \in Nat
  BY <1>1, DivMod, FratAssumption DEF WideEnough
<1>4. chunk \in Nat /\ chunk <= cur.left /\ (chunk = B - off \/ chunk = cur.left)
  <2> HIDE DEF off
  <2> QED BY <1>1, <1>3, MinOfTwo
<1>5. \/ chunk = cur.left /\ cur' = Idle /\ fh' = [fh EXCEPT ![h].pos = pos]
      \/ /\ chunk # cur.left /\ fh' = fh
         /\ cur' = [cur EXCEPT !.pos = pos, !.left = @ - chunk]
  BY DEF fwriteStep
<1> HIDE DEF chunk
<1>6. cur.pos + chunk \in 0 .. PosMax  BY <1>1, <1>2, <1>3, <1>4
<1>7. pos = cur.pos + chunk /\ pos \in Nat  BY <1>6, WrapSmall
<1> HIDE DEF pos
<1>8. CASE chunk = cur.left
  <2>1. cur'.call = "idle" /\ fh' = [fh EXCEPT ![h].pos = pos]  BY <1>5, <1>8 DEF Idle
  <2>2. fh'[h].cl = fh[h].cl  BY <1>0, <1>1, <2>1 DEF TypeOK, fhandle
  <2> QED BY <1>1, <1>4, <1>8, <2>1, <2>2 DEF chunk
<1>9. CASE chunk # cur.left
  <2>1. /\ fh' = fh /\ cur'.pos = pos /\ cur'.call = "write" /\ cur'.h = cur.h
        /\ cur'.val = cur.val
    BY <1>0, <1>1, <1>5, <1>9 DEF Call
  <2>2. chunk = B - off /\ chunk < cur.left
    <3> HIDE DEF off
    <3> QED BY <1>1, <1>3, <1>4, <1>9
  <2>3. (cur.pos + (B - off)) \div B = (cur.pos \div B) + 1
    <3> DEFINE q == cur.pos \div B
    <3>0. \A x \in Nat : x \div B \in Nat /\ x = B * (x \div B) + (x % B)  BY FratAssumption
    <3>1. q \in Nat /\ cur.pos = B * q + off  BY <1>1, <3>0
    <3>2. \A a \in Nat : (B * (a + 1)) \div B = a + 1 /\ B * (a + 1) = B * a + B
      BY FratAssumption
    <3> HIDE DEF q, off
    <3>3. cur.pos + (B - off) = B * q + B
      <4> DEFINE x == B * q
      <4>1. x \in Nat /\ cur.pos = x + off  BY <1>3, <3>1
      <4> HIDE DEF x
      <4>2. cur.pos + (B - off) = x + B  BY <1>3, <4>1
      <4> QED BY <4>2 DEF x
    <3>4. (cur.pos + (B - off)) \div B = q + 1  BY <3>1, <3>2, <3>3
    <3> QED BY <3>4 DEF q
  <2> QED BY <1>1, <1>4, <1>7, <2>1, <2>2, <2>3 DEF chunk
<1> QED BY <1>8, <1>9

\* A step after which a write is in progress is a turn of its loop, or the
\* call of _fwrite, which starts at the position of the handle.
LEMMA WriteFrom ==
  ASSUME IInv, [Next]_vars, cur'.call = "write"
  PROVE  \/ fwriteStep \/ UNCHANGED vars
         \/ cur'.pos = fh'[cur'.h].pos
<1>0. TypeOK /\ CallsOK /\ DownIdle  BY DEF IInv
<1>a. ~Lose  BY DEF Lose, Idle
<1>1. ASSUME NEW p \in Paths, fcreateStep(p)  PROVE FALSE
  <2>1. cur'.call = cur.call
    <3>1. CASE fcreateAlloc(p)
      <4>1. cur' = cur  BY <3>1 DEF fcreateAlloc
      <4> QED BY <4>1, <1>0 DEF TypeOK, Call
    <3>2. CASE fdiraddOverrun(p)  BY <3>2, <1>a DEF fdiraddOverrun
    <3>3. CASE \/ fcreateExists(p) \/ fcreateFull(p) \/ fgetparent(p) \/ floadhdir(p)
               \/ fdiraddGrow(p) \/ fdiraddSpin(p) \/ fdiraddEntry(p) \/ fuloaddir(p)
               \/ fcreateInit(p)
      BY <3>3 DEF fcreateExists, fcreateFull, fgetparent, floadhdir, fdiraddGrow,
           fdiraddSpin, fdiraddEntry, fuloaddir, fcreateInit
    <3> QED BY <1>1, <3>1, <3>2, <3>3 DEF fcreateStep
  <2>2. fr[p].ph # "none"
    BY <1>1
       DEF fcreateStep, fcreateExists, fcreateAlloc, fcreateFull, fgetparent, floadhdir,
           fdiraddGrow, fdiraddSpin, fdiraddEntry, fdiraddOverrun, fuloaddir, fcreateInit, InPhase
  <2> QED BY <2>1, <2>2, <1>0 DEF CallsOK, Busy
<1>2. ~shellcreateDone  BY DEF shellcreateDone, Idle
<1>3. ~shellcreateFault  BY <1>a DEF shellcreateFault
<1>4. ~floadh  BY DEF floadh, Idle
<1>5. CASE Client
  <2>1. ASSUME NEW p \in DeletePaths, shelldelete(p) \/ removeAll(p)  PROVE FALSE
    BY <2>1 DEF shelldelete, removeAll, Quiet
  <2>2. ASSUME NEW p \in DeletePaths, shelldeleteFault(p)  PROVE FALSE
    BY <2>2, <1>a DEF shelldeleteFault
  <2>3. ASSUME NEW x \in Creates, shellcreate(x[1], x[2])  PROVE FALSE
    BY <2>3 DEF shellcreate, Idle
  <2>4. ASSUME NEW h \in Handles, NEW x \in Opens, shellopen(h, x[1], x[2])  PROVE FALSE
    BY <2>4 DEF shellopen, Idle
  <2>5. ASSUME NEW h \in Handles, fuloadh(h)  PROVE FALSE
    BY <2>5 DEF fuloadh, Quiet
  <2>6. ASSUME NEW h \in Handles, NEW x, fseek(h, x) \/ fseeko(h, x)  PROVE FALSE
    BY <2>6 DEF fseek, fseeko, SetPos, Quiet
  <2>7. ASSUME NEW h \in Handles, NEW n \in Lengths, fread(h, n)  PROVE FALSE
    BY <2>7 DEF fread, Quiet
  <2>8. ASSUME NEW h \in Handles, NEW n \in Lengths, NEW v \in Values, fwriteCall(h, n, v)
        PROVE cur'.pos = fh'[cur'.h].pos
    <3>1. /\ fh' = fh /\ Quiet
          /\ cur' = cur \/ cur' = [Idle EXCEPT !.call = "write", !.h = h,
                                        !.pos = fh[h].pos, !.left = n, !.val = v]
      BY <2>8, <1>a DEF fwriteCall
    <3>2. cur' # cur  BY <3>1 DEF Quiet
    <3>3. cur'.pos = fh[h].pos /\ cur'.h = h  BY <3>1, <3>2 DEF Idle
    <3> QED BY <3>1, <3>3
  <2> QED BY <1>5, <2>1, <2>2, <2>3, <2>4, <2>5, <2>6, <2>7, <2>8 DEF Client
<1>6. ~fmount  BY <1>0 DEF fmount, DownIdle
<1>7. ~shellexit /\ ~Crash  BY <1>a DEF shellexit, Crash
<1> QED BY <1>1, <1>2, <1>3, <1>4, <1>5, <1>6, <1>7 DEF Next, Step

\* Every step keeps what a write in progress has stored.
LEMMA ProgressNext ==
  ASSUME WideEnough, IInv, PosOK, ProgressOK, [Next]_vars
  PROVE  ProgressOK'
<1> SUFFICES ASSUME cur'.call = "write", FileOf(cur.h)' # Unused
             PROVE  \/ Stored(cur.h)'
                    \/ (cur.pos \div B > Cardinality(Owned(map, FileOf(cur.h))))'
  BY DEF ProgressOK
<1>0. TypeOK /\ TypeOK' /\ PosOK' /\ CallsOK
  BY NextIInv, PosNext DEF IInv
<1>1. CASE fwriteStep
  <2> DEFINE h     == cur.h
             a     == fh[h].cl
             F     == FileOf(h)
             i     == cur.pos \div B
             chunk == Min({B - (cur.pos % B), cur.left})
             n     == Cardinality(Owned(map, F))
             v     == cur.val
  <2>1. /\ chunk \in Nat /\ cur.pos \in Nat /\ cur.left \in Nat /\ h \in Handles
        /\ chunk = B - (cur.pos % B) /\ chunk < cur.left /\ fh' = fh
        /\ cur'.h = h /\ cur'.val = v /\ cur'.pos = cur.pos + chunk
        /\ cur'.pos \div B = i + 1 /\ cur.call = "write"
    BY <1>1, WriteTurn DEF fwriteStep
  <2>2. F # Unused
    <3>1. CASE F = Unused
      <4>1. FileOf(cur.h)' = map'[a].code  BY <2>1 DEF FileOf
      <4>2. map'[a].code = Unused
        <5> USE <1>1, <3>1, <1>0
        <5>1. a \in Clusters /\ map \in [Clusters -> fsblock]
          BY <2>1 DEF TypeOK, fhandle
        <5>2. CASE map' = map  BY <5>2 DEF FileOf
        <5>3. CASE map' = faddr(map, allocatecluster(map, lastAlloc), a)
                   /\ CanAlloc(map, lastAlloc)
          <6> DEFINE c == allocatecluster(map, lastAlloc)
          <6>1. c \in Clusters  BY <5>3, AllocIsFree
          <6> HIDE DEF c
          <6> QED BY <5>1, <5>3, <6>1 DEF faddr, FileOf, c
        <5>4. map' = map \/ (map' = faddr(map, allocatecluster(map, lastAlloc), a)
                              /\ CanAlloc(map, lastAlloc))
          BY DEF fwriteStep
        <5> QED BY <5>2, <5>3, <5>4
      <4> QED BY <4>1, <4>2
    <3> QED BY <3>1
  <2>3. /\ map' \in Map /\ UniqueIndex(map') /\ map'[a] = map[a]
        /\ \A k \in Nat : /\ k < cur.pos /\ k \div B < IdxMod
                          /\ Holds(map, blk, a, k, v)
                          => Holds(map', blk', a, k, v)
        /\ Cardinality(Owned(map', F)) <= n + 1
        /\ HasBlock(h, i) => Cardinality(Owned(map', F)) = n
        /\ \/ HasBlock(h, i)
           \/ i = n /\ map' # map
           => \A k \in cur.pos .. cur.pos + chunk - 1 : Holds(map', blk', a, k, v)
        /\ i < n => HasBlock(h, i)
        /\ HasBlock(h, i) => i < n
        /\ map' = map => Owned(map', F) = Owned(map, F)
    BY <1>1, <2>2, WriteStores
  <2>4. n \in Nat /\ Cardinality(Owned(map', F)) \in Nat /\ i \in Nat
    <3>1. i \in Nat  BY <2>1, DivBounds
    <3> QED BY <3>1, OwnedFinite
  <2>5. FileOf(cur.h)' = F /\ Stored(cur.h)' =
           (\A k \in fh[h].pos .. cur'.pos - 1 : Holds(map', blk', a, k, v))
    BY <2>1, <2>3 DEF FileOf, Stored
  <2>6. ProgressOK => Stored(h) \/ i > n  BY <2>1, <2>2 DEF ProgressOK
  <2>7. ASSUME Stored(h), HasBlock(h, i) \/ (i = n /\ map' # map)
        PROVE  Stored(cur.h)'
    <3> SUFFICES ASSUME NEW k \in fh[h].pos .. cur'.pos - 1 PROVE Holds(map', blk', a, k, v)
      BY <2>5
    <3>1. fh[h].pos \in Nat  BY <1>0, <2>1, FratAssumption DEF TypeOK, fhandle
    <3>2. k \in Nat /\ k < cur.pos + cur.left  BY <2>1, <3>1
    <3>3. k \div B < IdxMod  BY <1>0, <2>1, <3>2, WriteBlocks
    <3>4. CASE k < cur.pos
      <4>1. k \in fh[h].pos .. cur.pos - 1  BY <2>1, <3>1, <3>4
      <4> QED BY <2>3, <2>7, <3>2, <3>3, <3>4, <4>1 DEF Stored
    <3>5. CASE ~(k < cur.pos)
      <4>1. k \in cur.pos .. cur.pos + chunk - 1  BY <2>1, <3>1, <3>2, <3>5
      <4> QED BY <2>3, <2>7, <4>1
    <3> QED BY <3>4, <3>5
  <2>8. ASSUME ~HasBlock(h, i), i # n \/ map' = map  PROVE i + 1 > Cardinality(Owned(map', F))
    <3>1. ~(i < n)  BY <2>3, <2>8
    <3>2. map' = map => Cardinality(Owned(map', F)) = n  BY <2>3
    <3>3. Cardinality(Owned(map', F)) <= n + 1  BY <2>3
    <3> HIDE DEF i, n, F
    <3> QED BY <2>4, <2>8, <3>1, <3>2, <3>3
  <2>9. ASSUME i > n  PROVE ~HasBlock(h, i) /\ i # n
    <3>1. HasBlock(h, i) => i < n  BY <2>3
    <3> HIDE DEF i, n, F
    <3> QED BY <2>4, <2>9, <3>1
  <2>10. (cur.pos \div B > Cardinality(Owned(map, FileOf(cur.h))))'
            <=> i + 1 > Cardinality(Owned(map', F))
    BY <2>1, <2>5
  <2> QED BY <2>6, <2>7, <2>8, <2>9, <2>10
<1>2. CASE UNCHANGED vars
  BY <1>2 DEF ProgressOK, Stored, FileOf, vars
<1>3. CASE cur'.pos = fh'[cur'.h].pos
  <2>1. cur'.pos \in Nat  BY <1>0, FratAssumption DEF TypeOK, Call
  <2>2. fh'[cur'.h].pos .. cur'.pos - 1 = {}  BY <1>3, <2>1
  <2> QED BY <2>2 DEF Stored
<1> QED BY <1>1, <1>2, <1>3, WriteFrom


\* While a write is in progress nothing runs but its loop.
LEMMA OnlyWrite ==
  ASSUME IInv, [Next]_vars, cur.call = "write"
  PROVE  fwriteStep \/ Crash \/ UNCHANGED vars
<1>0. CallsOK /\ DownIdle  BY DEF IInv
<1>1. ASSUME NEW p \in Paths, fcreateStep(p)  PROVE FALSE
  <2>1. fr[p].ph # "none"
    BY <1>1
       DEF fcreateStep, fcreateExists, fcreateAlloc, fcreateFull, fgetparent, floadhdir,
           fdiraddGrow, fdiraddSpin, fdiraddEntry, fdiraddOverrun, fuloaddir, fcreateInit, InPhase
  <2> QED BY <2>1, <1>0 DEF CallsOK, Busy
<1>2. ~shellcreateDone /\ ~shellcreateFault /\ ~floadh
  BY DEF shellcreateDone, shellcreateFault, floadh, Created
<1>3. ~Client
  <2>1. \A p, args : ~shellcreate(p, args)  BY DEF shellcreate, Quiet
  <2>2. \A p : ~shelldelete(p) /\ ~shelldeleteFault(p) /\ ~removeAll(p)
    BY DEF shelldelete, shelldeleteFault, removeAll, Quiet
  <2>3. \A h, p, args : ~shellopen(h, p, args)  BY DEF shellopen, Quiet
  <2>4. \A h : ~fuloadh(h)  BY DEF fuloadh, Quiet
  <2>5. \A h, x : ~fseek(h, x) /\ ~fseeko(h, x) /\ ~fread(h, x)
    BY DEF fseek, fseeko, fread, Quiet
  <2>6. \A h, n, v : ~fwriteCall(h, n, v)  BY DEF fwriteCall, Quiet
  <2> QED BY <2>1, <2>2, <2>3, <2>4, <2>5, <2>6 DEF Client
<1>4. ~fmount /\ ~shellexit  BY <1>0 DEF fmount, shellexit, DownIdle, Quiet
<1> QED BY <1>1, <1>2, <1>3, <1>4 DEF Next, Step

\* When the last turn of a write ends inside the file, all the call covered is
\* stored: the block of the position exists, so the write was never behind.
LEMMA WriteLast ==
  ASSUME WideEnough, IInv, PosOK, ProgressOK, fwriteStep, cur'.call = "idle",
         NEW h \in Handles, h = cur.h, FileOf(h) # Unused,
         cur.pos + cur.left <= B + fsizeBlocks(map, FileOf(h)) * B,
         NEW k \in Written
  PROVE  CellAt(h, k)' = cur.val
<1> DEFINE a     == fh[h].cl
           F     == FileOf(h)
           i     == cur.pos \div B
           chunk == Min({B - (cur.pos % B), cur.left})
           n     == Cardinality(Owned(map, F))
           s     == fsizeBlocks(map, F)
           v     == cur.val
<1>0. TypeOK /\ cur.call = "write"  BY DEF IInv, fwriteStep
<1>1. /\ a \in Clusters /\ F \in Paths /\ Exists(map, F) /\ F = map[a].code
      /\ map \in Map /\ MapOK(map)
  BY <1>0, WriteFile DEF FileOf
<1>2. /\ cur.pos \in Nat /\ cur.left \in Nat /\ cur.left >= 1 /\ chunk = cur.left
      /\ fh'[h].cl = a
  BY <1>0, WriteTurn DEF PosOK
<1>3. s \in Nat /\ s <= n - 1  BY <1>1, SizeBound
<1>4. i \in Nat /\ i < s + 1
  <2>1. B \in Nat /\ \A x \in Nat : B + x * B = B * (x + 1) /\ B * (x + 1) \in Nat
    BY FratAssumption
  <2> DEFINE y == B * (s + 1)
  <2>2. cur.pos + cur.left <= y /\ y \in Nat  BY <1>3, <2>1
  <2> HIDE DEF y
  <2>3. cur.pos < y  BY <1>2, <2>2
  <2>4. s + 1 \in Nat /\ cur.pos < B * (s + 1)  BY <1>3, <2>3 DEF y
  <2> QED BY <1>2, <2>4, DivBounds
<1>5. n \in Nat  BY OwnedFinite
<1>6. i < n
  <2> HIDE DEF i, n, s
  <2> QED BY <1>3, <1>4, <1>5
<1>7. /\ map' \in Map /\ UniqueIndex(map') /\ map'[a] = map[a]
      /\ \A x \in Nat : /\ x < cur.pos /\ x \div B < IdxMod
                        /\ Holds(map, blk, a, x, v)
                        => Holds(map', blk', a, x, v)
      /\ HasBlock(h, i)
      /\ HasBlock(h, i)
           => \A x \in cur.pos .. cur.pos + chunk - 1 : Holds(map', blk', a, x, v)
  BY <1>6, WriteStores
<1>8. Stored(h)
  <2>1. ~(i > n)
    <3> HIDE DEF i, n
    <3> QED BY <1>4, <1>5, <1>6
  <2> QED BY <1>0, <2>1 DEF ProgressOK
<1>9. k \in Nat /\ k < cur.pos + cur.left /\ fh[h].pos \in Nat /\ k >= fh[h].pos
  <2>1. fh[h].pos \in Nat  BY <1>0, FratAssumption DEF TypeOK, fhandle
  <2> QED BY <1>2, <2>1 DEF Written
<1>10. k \div B \in Nat /\ k \div B < IdxMod  BY <1>0, <1>9, WriteBlocks
<1>11. Holds(map', blk', a, k, v)
  <2>1. CASE k < cur.pos
    <3>1. k \in fh[h].pos .. cur.pos - 1  BY <1>2, <1>9, <2>1
    <3> QED BY <1>7, <1>8, <1>9, <1>10, <2>1, <3>1 DEF Stored
  <2>2. CASE ~(k < cur.pos)
    <3>1. k \in cur.pos .. cur.pos + chunk - 1  BY <1>2, <1>9, <2>2
    <3> QED BY <1>7, <3>1
  <2> QED BY <2>1, <2>2
<1>12. map'[a].code # Unused  BY <1>1, <1>7
<1> DEFINE j   == k \div B
           own == j = map'[a].idx
           has == own \/ Found(map', map'[a].code, j)
           at  == IF own THEN a ELSE ffindhi(map', map'[a].code, j)
<1>13. has /\ CellsOf(blk'[at])[k % B] = v
  <2>1. PICK c \in Clusters : /\ map'[c].code = map'[a].code /\ map'[c].idx = j
                              /\ CellsOf(blk'[c])[k % B] = v
    BY <1>11 DEF Holds
  <2>2. /\ has <=> \E e \in Clusters : map'[e].code = map'[a].code /\ map'[e].idx = j
        /\ \A e \in Clusters : map'[e].code = map'[a].code /\ map'[e].idx = j => at = e
    <3>1. a \in Clusters /\ map' \in Map /\ UniqueIndex(map')  BY <1>1, <1>7
    <3> HIDE DEF a
    <3> QED BY <3>1, <1>10, <1>12, BlockAt
  <2> HIDE DEF has, at
  <2> QED BY <2>1, <2>2
<1>14. HasBlock(h, j)' = has /\ BlockOf(h, j)' = at
  BY <1>2 DEF HasBlock, BlockOf, Own, FileOf
<1>15. CellAt(h, k)' = IF HasBlock(h, j)' THEN CellsOf(blk'[BlockOf(h, j)'])[k % B] ELSE Blank
  BY DEF CellAt
<1> HIDE DEF has, at
<1> QED BY <1>13, <1>14, <1>15

\* What a write stores inside a live file reads back when _fwrite returns,
\* for every size of the map, of the blocks and of the file.  Outside of the
\* file it does not, see WriteReadsBack.
THEOREM FratWriteInsideReadsBack ==
  ASSUME WideEnough PROVE Spec => WriteInsideReadsBack
<1> DEFINE Back == \A h \in Handles :
              /\ WriteReturns /\ h = cur.h /\ FileOf(h) # Unused
              /\ cur.pos + cur.left <= B + fsizeBlocks(map, FileOf(h)) * B
              => \A k \in Written : CellAt(h, k)' = cur.val
<1>1. Init => IInv /\ PosOK /\ ProgressOK
  BY InitIInv, InitPos DEF ProgressOK, Init, Idle
<1>2. IInv /\ PosOK /\ ProgressOK /\ [Next]_vars => IInv' /\ PosOK' /\ ProgressOK'
  BY NextIInv, PosNext, ProgressNext
<1>3. ASSUME IInv, PosOK, ProgressOK, [Next]_vars  PROVE [Back]_vars
  <2>1. ASSUME NEW h \in Handles, WriteReturns, h = cur.h, FileOf(h) # Unused,
               cur.pos + cur.left <= B + fsizeBlocks(map, FileOf(h)) * B,
               NEW k \in Written
        PROVE  CellAt(h, k)' = cur.val
    <3>1. cur.call = "write" /\ cur'.call = "idle" /\ up'  BY <2>1 DEF WriteReturns
    <3>2. fwriteStep  BY <1>3, <3>1, OnlyWrite DEF Crash, Lose, vars
    <3> QED BY <1>3, <2>1, <3>1, <3>2, WriteLast
  <2> QED BY <2>1
<1>4. IInv /\ PosOK /\ ProgressOK /\ [Next]_vars => [Back]_vars  BY <1>3
<1> QED BY <1>1, <1>2, <1>4, PTL DEF Spec, WriteInsideReadsBack

----------------------------------------------------------------------------
(* Steps of a running activation.                                          *)

\* An activation that does not wait for another one is the only thing that
\* moves, but for a crash.
LEMMA OnlyFrame ==
  ASSUME IInv, [Next]_vars, NEW p \in Paths, Running(fr, p)
  PROVE  fcreateStep(p) \/ Crash \/ UNCHANGED vars
<1>0. TypeOK /\ CallsOK /\ DownIdle /\ fr \in [Paths -> Frame] /\ Stack(fr, cur.path)
  BY DEF IInv, TypeOK, CallsOK
<1>1. Busy(fr, p) /\ Busy(fr, cur.path) /\ cur.call \notin {"idle", "write"} /\ up
  BY <1>0 DEF Running, CallsOK, Stack, DownIdle
<1>2. ASSUME NEW q \in Paths, fcreateStep(q), q # p  PROVE FALSE
  <2>1. fr[q].ph \in {"none", "wait"}  BY <1>0, <1>2, OnlyRunning
  <2>2. floadhdir(q)
    BY <1>2, <2>1
       DEF fcreateStep, fcreateExists, fcreateAlloc, fcreateFull, fgetparent,
           fdiraddGrow, fdiraddSpin, fdiraddEntry, fdiraddOverrun, fuloaddir, fcreateInit, InPhase
  <2>3. Running(fr, q)  BY <2>2 DEF floadhdir, InPhase, Running, Busy, WaitsFor
  <2>4. Depth[p] < Depth[q] /\ Depth[q] < Depth[p]
    BY <1>0, <1>1, <1>2, <2>3 DEF Stack, Running
  <2>5. Depth \in [Paths -> Nat]  BY FratAssumption
  <2> QED BY <2>4, <2>5
<1>3. ~shellcreateDone /\ ~shellcreateFault /\ ~floadh /\ ~fwriteStep
  BY <1>1 DEF shellcreateDone, shellcreateFault, floadh, fwriteStep, Created, Busy
<1>4. ~Client
  <2>1. ~Quiet  BY <1>1 DEF Quiet
  <2>2. \A x, args : ~shellcreate(x, args)  BY <2>1 DEF shellcreate
  <2>3. \A x : ~shelldelete(x) /\ ~shelldeleteFault(x) /\ ~removeAll(x)
    BY <2>1 DEF shelldelete, shelldeleteFault, removeAll
  <2>4. \A h, x, args : ~shellopen(h, x, args)  BY <2>1 DEF shellopen
  <2>5. \A h : ~fuloadh(h)  BY <2>1 DEF fuloadh
  <2>6. \A h, x : ~fseek(h, x) /\ ~fseeko(h, x) /\ ~fread(h, x)
    BY <2>1 DEF fseek, fseeko, fread
  <2>7. \A h, n, v : ~fwriteCall(h, n, v)  BY <2>1 DEF fwriteCall
  <2> QED BY <2>2, <2>3, <2>4, <2>5, <2>6, <2>7 DEF Client
<1>5. ~fmount /\ ~shellexit  BY <1>1 DEF fmount, shellexit, Quiet
<1> QED BY <1>2, <1>3, <1>4, <1>5 DEF Next, Step

\* How an activation comes into a phase.
Entered(p) ==
    \/ fr'[p].ph = "none" /\ (Lose \/ fcreateExists(p) \/ fcreateFull(p) \/ fcreateInit(p))
    \/ fr'[p].ph = "alloc"
    \/ fr'[p].ph = "parent" /\ fcreateAlloc(p)
    \/ fr'[p].ph = "wait" /\ fgetparent(p)
    \/ fr'[p].ph = "dir" /\ floadhdir(p)
    \/ fr'[p].ph = "dirblk" /\ (fdiraddEntry(p) \/ fdiraddOverrun(p))
    \/ fr'[p].ph = "init" /\ (fgetparent(p) \/ floadhdir(p) \/ fuloaddir(p))

\* A client's call starts an activation or leaves them alone.
LEMMA ClientFrames ==
  ASSUME TypeOK, Client
  PROVE  \/ fr' = fr \/ Lose
         \/ \E x \in Creates : fr' = Enter(fr, x[1], x[2] \cup {"c"})
         \/ \E x \in Opens : fr' = Enter(fr, x[1], x[2])
<1>1. ASSUME NEW x \in Creates, shellcreate(x[1], x[2])
      PROVE  fr' = Enter(fr, x[1], x[2] \cup {"c"})
  BY <1>1 DEF shellcreate
<1>2. ASSUME NEW p, shelldelete(p) \/ shelldeleteFault(p) \/ removeAll(p)
      PROVE  fr' = fr \/ Lose
  BY <1>2 DEF shelldelete, shelldeleteFault, removeAll
<1>3. ASSUME NEW h, NEW x \in Opens, shellopen(h, x[1], x[2])
      PROVE  fr' = fr \/ fr' = Enter(fr, x[1], x[2])
  BY <1>3 DEF shellopen
<1>4. ASSUME NEW h, fuloadh(h)  PROVE fr' = fr  BY <1>4 DEF fuloadh
<1>5. ASSUME NEW h, NEW x, fseek(h, x) \/ fseeko(h, x) \/ fread(h, x)  PROVE fr' = fr
  BY <1>5 DEF fseek, fseeko, fread, SetPos
<1>6. ASSUME NEW h, NEW n, NEW v, fwriteCall(h, n, v)  PROVE fr' = fr \/ Lose
  BY <1>6 DEF fwriteCall
<1> QED BY <1>1, <1>2, <1>3, <1>4, <1>5, <1>6 DEF Client

\* What can have happened when an activation's phase has changed.
LEMMA FrameMoves ==
  ASSUME IInv, [Next]_vars, NEW p \in Paths, fr'[p].ph # fr[p].ph
  PROVE  Entered(p)
<1>0. TypeOK /\ fr \in [Paths -> Frame] /\ cur \in Call  BY DEF IInv, TypeOK
<1>l. ASSUME Lose  PROVE Entered(p)
  BY <1>l DEF Lose, NoFrame, Entered
<1>e. ASSUME NEW q \in Paths, NEW f \in [Paths -> Frame], NEW flags, fr' = Enter(f, q, flags),
             f[p].ph = fr[p].ph
      PROVE  Entered(p)
  <2>1. p = q  BY <1>e DEF Enter, NoFrame
  <2>2. fr'[p].ph = "alloc"  BY <1>e, <2>1 DEF Enter, NoFrame
  <2> QED BY <2>2 DEF Entered
<1>1. ASSUME NEW q \in Paths, fcreateStep(q), ~Lose  PROVE Entered(p)
  <2>1. CASE fcreateExists(q) \/ fcreateFull(q) \/ fcreateInit(q)
    <3>1. fr' = [fr EXCEPT ![q] = NoFrame]
      BY <2>1 DEF fcreateExists, fcreateFull, fcreateInit, Return
    <3>2. p = q /\ fr'[p].ph = "none"  BY <3>1, <1>0 DEF NoFrame
    <3> QED BY <2>1, <3>2 DEF Entered
  <2>2. CASE fcreateAlloc(q)
    <3> DEFINE a == allocatecluster(Cleared(q), lastAlloc)
    <3>1. fr' = [fr EXCEPT ![q].ph = "parent", ![q].cl = a]  BY <2>2 DEF fcreateAlloc
    <3> HIDE DEF a
    <3>2. p = q  BY <3>1, <1>0 DEF Frame
    <3>3. fr'[p].ph = "parent"  BY <3>1, <3>2, <1>0 DEF Frame
    <3> QED BY <2>2, <3>2, <3>3 DEF Entered
  <2>3. CASE fgetparent(q)
    <3>1. CASE Parent[q] = NoParent
      <4>1. fr' = [fr EXCEPT ![q].ph = "init"]  BY <2>3, <3>1 DEF fgetparent
      <4>2. p = q /\ fr'[p].ph = "init"  BY <4>1, <1>0 DEF Frame
      <4> QED BY <2>3, <4>2 DEF Entered
    <3>2. CASE Parent[q] # NoParent
      <4> DEFINE w == [fr EXCEPT ![q].ph = "wait"]
      <4>1. fr' = w \/ fr' = Enter(w, Parent[q], {"d", "c"})
        BY <2>3, <3>2 DEF fgetparent
      <4>2. w \in [Paths -> Frame] /\ w[q].ph = "wait" /\ (p # q => w[p] = fr[p])
        BY <1>0 DEF Frame, Phases
      <4> HIDE DEF w
      <4>3. Parent[q] \in Paths /\ Parent[q] # q  BY <3>2, ParentDepth
      <4>4. CASE p # q
        BY <4>1, <4>2, <4>3, <4>4, <1>e
      <4>5. CASE p = q
        <5>1. fr'[p].ph = "wait"  BY <4>1, <4>2, <4>3, <4>5 DEF Enter
        <5> QED BY <2>3, <4>5, <5>1 DEF Entered
      <4> QED BY <4>4, <4>5
    <3> QED BY <3>1, <3>2
  <2>4. CASE floadhdir(q) \/ fuloaddir(q)
    <3>1. \/ floadhdir(q) /\ \E x \in {"dir", "init"} : fr' = [fr EXCEPT ![q].ph = x]
          \/ fuloaddir(q) /\ fr' = [fr EXCEPT ![q].ph = "init"]
      BY <2>4 DEF floadhdir, fuloaddir, Goto
    <3>2. p = q  BY <3>1, <1>0 DEF Frame
    <3>3. \/ floadhdir(q) /\ fr'[q].ph \in {"dir", "init"}
          \/ fuloaddir(q) /\ fr'[q].ph = "init"
      BY <3>1, <1>0 DEF Frame
    <3> QED BY <3>2, <3>3 DEF Entered
  <2>5. CASE fdiraddGrow(q) \/ fdiraddSpin(q)
    BY <2>5 DEF fdiraddGrow, fdiraddSpin
  <2>6. CASE fdiraddEntry(q) \/ fdiraddOverrun(q)
    <3>1. \E x : fr' = [fr EXCEPT ![q].ph = "dirblk", ![q].arr = x]
      BY <1>1, <2>6 DEF fdiraddEntry, fdiraddOverrun
    <3>2. p = q  BY <3>1, <1>0 DEF Frame
    <3>3. fr'[q].ph = "dirblk"  BY <3>1, <1>0 DEF Frame
    <3> QED BY <2>6, <3>2, <3>3 DEF Entered
  <2> QED BY <1>1, <2>1, <2>2, <2>3, <2>4, <2>5, <2>6 DEF fcreateStep
<1>2. CASE shellcreateDone \/ floadh \/ fwriteStep \/ fmount \/ UNCHANGED vars
  BY <1>2 DEF shellcreateDone, floadh, fwriteStep, fmount, vars
<1>3. CASE shellcreateFault \/ shellexit \/ Crash
  BY <1>3, <1>l DEF shellcreateFault, shellexit, Crash
<1>4. CASE Client
  <2>0. \A x \in Creates \cup Opens : x[1] \in Paths  BY FratAssumption
  <2> QED BY <1>0, <1>4, <1>e, <1>l, <2>0, ClientFrames
<1> QED BY <1>1, <1>2, <1>3, <1>4, <1>l DEF Next, Step

----------------------------------------------------------------------------
(* What a step does to an entry, to the flushed map and to new frames.     *)

\* An edit of the map that one step of a live process makes: nothing, a head
\* given back and perhaps a head filled in for the same item, a block added to
\* an item, or the entries of a deleted item given back.
LEMMA MapEdits ==
  ASSUME IInv, [Next]_vars, up, up'
  PROVE  \/ map' = map
         \/ \E p \in Paths : fcreateAlloc(p)
         \/ \E p \in Paths : fcreateFull(p)
         \/ \E p \in Paths : fdiraddGrow(p)
         \/ fwriteStep
         \/ \E p \in DeletePaths : shelldelete(p) \/ removeAll(p)
<1>l. ~Lose  BY DEF Lose
<1>1. ASSUME NEW p \in Paths, fcreateStep(p)
      PROVE  map' = map \/ fcreateAlloc(p) \/ fcreateFull(p) \/ fdiraddGrow(p)
  BY <1>1, <1>l
     DEF fcreateStep, fcreateExists, fgetparent, floadhdir, fdiraddSpin, fdiraddEntry,
         fdiraddOverrun, fuloaddir, fcreateInit
<1>2. CASE shellcreateDone \/ floadh \/ UNCHANGED vars
  BY <1>2 DEF shellcreateDone, floadh, vars
<1>3. ~shellcreateFault /\ ~shellexit /\ ~Crash /\ ~fmount
  BY <1>l DEF shellcreateFault, shellexit, Crash, fmount
<1>4. CASE Client
  <2>1. ASSUME NEW x, NEW args, shellcreate(x, args)  PROVE map' = map
    BY <2>1 DEF shellcreate
  <2>2. ASSUME NEW p, shelldeleteFault(p)  PROVE FALSE  BY <2>2, <1>l DEF shelldeleteFault
  <2>3. ASSUME NEW h, NEW x, NEW args, shellopen(h, x, args)  PROVE map' = map
    BY <2>3 DEF shellopen
  <2>4. ASSUME NEW h, fuloadh(h)  PROVE map' = map  BY <2>4 DEF fuloadh
  <2>5. ASSUME NEW h, NEW x, fseek(h, x) \/ fseeko(h, x) \/ fread(h, x)  PROVE map' = map
    BY <2>5 DEF fseek, fseeko, fread, SetPos
  <2>6. ASSUME NEW h, NEW n, NEW v, fwriteCall(h, n, v)  PROVE map' = map
    BY <2>6, <1>l DEF fwriteCall
  <2> QED BY <1>4, <2>1, <2>2, <2>3, <2>4, <2>5, <2>6 DEF Client
<1> QED BY <1>1, <1>2, <1>3, <1>4 DEF Next, Step

\* An entry of an item stays as it is until the item is deleted, but for a
\* metadata entry that a create with 'F' replaces.
LEMMA EntryStays ==
  ASSUME IInv, [Next]_vars, up, up', NEW c \in Clusters, map[c].code # Unused
  PROVE  \/ map'[c] = map[c]
         \/ map[c].code \in DeletePaths
         \/ /\ map[c].idx = 0 /\ fr[map[c].code].ph = "alloc"
            /\ "F" \in fr[map[c].code].flags
<1> DEFINE q == map[c].code
<1>0. TypeOK /\ MapInv /\ map \in Map /\ map[c].code \in Codes /\ q \in Paths
  <2>1. TypeOK /\ MapInv /\ map \in Map  BY DEF IInv, TypeOK, Map
  <2>2. map[c].code \in Codes  BY <2>1 DEF Map, fsblock
  <2> QED BY <2>1, <2>2 DEF Codes
<1>c. ASSUME NEW p \in Paths, fr[p].ph = "alloc", Replaces(p)
      PROVE  \/ Cleared(p)[c] = map[c]
             \/ p = q /\ map[c].idx = 0 /\ "F" \in fr[p].flags
  <2>1. CASE ~Exists(map, p)  BY <2>1 DEF Cleared
  <2>2. CASE Exists(map, p)
    <3>1. "F" \in fr[p].flags  BY <1>c, <2>2 DEF Replaces
    <3>2. LET f == ffind(map, p) IN f \in Clusters /\ map[f].code = p /\ map[f].idx = 0
      BY <2>2, FindHead
    <3> DEFINE f == ffind(map, p)
    <3>3. Cleared(p) = [map EXCEPT ![f].code = Unused]  BY <2>2 DEF Cleared, ffremove
    <3>4. f \in Clusters /\ map[f].code = p /\ map[f].idx = 0  BY <3>2
    <3> HIDE DEF f
    <3>5. c # f => Cleared(p)[c] = map[c]  BY <1>0, <3>3 DEF Map
    <3> QED BY <3>1, <3>4, <3>5
  <2> QED BY <2>1, <2>2
<1>1. ASSUME NEW p \in Paths, fcreateAlloc(p)
      PROVE  map'[c] = map[c] \/ (map[c].idx = 0 /\ fr[q].ph = "alloc" /\ "F" \in fr[q].flags)
  <2> DEFINE m == Cleared(p)
             a == allocatecluster(m, lastAlloc)
  <2>1. /\ fr[p].ph = "alloc" /\ Replaces(p) /\ CanAlloc(m, lastAlloc)
        /\ map' = NewHead(m, a, p, fr[p].flags)
    BY <1>1 DEF fcreateAlloc, InPhase
  <2>2. a \in Clusters /\ m[a].code = Unused  BY <2>1, AllocIsFree
  <2>3. m[c] = map[c] \/ (p = q /\ map[c].idx = 0 /\ "F" \in fr[p].flags)  BY <1>c, <2>1
  <2>4. m \in Map  BY <1>0, ClearedOK
  <2> HIDE DEF m, a
  <2>5. c # a => map'[c] = m[c]  BY <2>1, <2>4 DEF NewHead, Map
  <2>6. m[c] = map[c] => c # a  BY <2>2
  <2> QED BY <2>1, <2>3, <2>5, <2>6
<1>2. ASSUME NEW p \in Paths, fcreateFull(p)
      PROVE  map'[c] = map[c] \/ (map[c].idx = 0 /\ fr[q].ph = "alloc" /\ "F" \in fr[q].flags)
  <2>1. fr[p].ph = "alloc" /\ Replaces(p) /\ map' = Cleared(p)
    BY <1>2 DEF fcreateFull, InPhase
  <2> QED BY <1>c, <2>1
<1>a. ASSUME NEW a, NEW f, CanAlloc(map, lastAlloc), a = allocatecluster(map, lastAlloc),
             map' = faddr(map, a, f)
      PROVE  map'[c] = map[c]
  <2>1. a \in Clusters /\ map[a].code = Unused  BY <1>a, AllocIsFree
  <2> QED BY <1>0, <1>a, <2>1 DEF faddr, Map
<1>3. ASSUME NEW p \in Paths, fdiraddGrow(p)  PROVE map'[c] = map[c]
  BY <1>3, <1>a DEF fdiraddGrow
<1>4. ASSUME fwriteStep  PROVE map'[c] = map[c]
  <2>1. map' = map \/ (/\ CanAlloc(map, lastAlloc)
                       /\ map' = faddr(map, allocatecluster(map, lastAlloc), fh[cur.h].cl))
    BY <1>4 DEF fwriteStep
  <2> QED BY <2>1, <1>a
<1>5. ASSUME NEW p \in DeletePaths, shelldelete(p), q # p  PROVE map'[c] = map[c]
  <2>1. p \in Paths  BY FratAssumption
  <2>2. map' = Cleared(p)  BY <1>5 DEF shelldelete, Cleared
  <2> QED BY <1>0, <1>5, <2>1, <2>2, ClearedOK
<1>6. ASSUME NEW p \in DeletePaths, removeAll(p), q # p  PROVE map'[c] = map[c]
  BY <1>6 DEF removeAll, ffremovel
<1> QED BY <1>1, <1>2, <1>3, <1>4, <1>5, <1>6, MapEdits

\* An entry that a step fills in is a metadata entry, a block of the directory
\* an item is added to, zeroed, or a block of the file that is written.
LEMMA EntryFilled ==
  ASSUME IInv, [Next]_vars, up, up', NEW c \in Clusters, map'[c] # map[c],
         map'[c].code # Unused
  PROVE  \/ \E p \in Paths : /\ map'[c].code = p /\ fr[p].ph = "alloc" /\ map'[c].idx = 0
                             /\ fr'[p].ph = "parent"
                             /\ CreateAttr(fr[p].flags) \subseteq map'[c].attr
         \/ \E p \in Paths : /\ fr[p].ph = "dir" /\ map'[c].code = Parent[p]
                             /\ map'[c].idx # 0 /\ blk'[c] = Zero
         \/ fwriteStep /\ map'[c].code = FileOf(cur.h) /\ map'[c].idx # 0
<1>0. TypeOK /\ MapInv /\ map \in Map /\ CallsOK /\ blk \in [Clusters -> Block]
  BY DEF IInv, TypeOK, Map
<1>c. \A p \in Paths : Cleared(p)[c] = map[c] \/ Cleared(p)[c].code = Unused
  <2> SUFFICES ASSUME NEW p \in Paths, Exists(map, p)
               PROVE  Cleared(p)[c] = map[c] \/ Cleared(p)[c].code = Unused
    BY DEF Cleared
  <2> DEFINE f == ffind(map, p)
  <2>1. Cleared(p) = [map EXCEPT ![f].code = Unused] /\ f \in Clusters
    BY FindHead DEF Cleared, ffremove
  <2> HIDE DEF f
  <2> QED BY <1>0, <2>1 DEF Map, fsblock
<1>1. ASSUME NEW p \in Paths, fcreateAlloc(p)
      PROVE  /\ map'[c].code = p /\ fr[p].ph = "alloc" /\ map'[c].idx = 0
             /\ fr'[p].ph = "parent"
             /\ CreateAttr(fr[p].flags) \subseteq map'[c].attr
  <2> DEFINE m == Cleared(p)
             a == allocatecluster(m, lastAlloc)
  <2>1. /\ fr[p].ph = "alloc" /\ map' = NewHead(m, a, p, fr[p].flags) /\ CanAlloc(m, lastAlloc)
    BY <1>1 DEF fcreateAlloc, InPhase
  <2>2. a \in Clusters  BY <2>1, AllocIsFree
  <2>3. m \in Map  BY <1>0, ClearedOK
  <2>4. m[c] = map[c] \/ m[c].code = Unused  BY <1>c
  <2>p. fr' = [fr EXCEPT ![p].ph = "parent", ![p].cl = a]  BY <1>1 DEF fcreateAlloc
  <2> HIDE DEF m, a
  <2>q. fr'[p].ph = "parent"  BY <1>0, <2>p DEF TypeOK, Frame
  <2>5. c # a => map'[c] = m[c]  BY <2>1, <2>3 DEF NewHead, Map
  <2>6. c = a  BY <2>4, <2>5
  <2>7. map'[a] = [code |-> p, idx |-> 0, attr |-> m[a].attr \cup CreateAttr(fr[p].flags)]
    BY <2>1, <2>2, <2>3 DEF NewHead, Map
  <2> QED BY <2>1, <2>6, <2>7, <2>q
<1>2. ASSUME NEW p \in Paths, fcreateFull(p)  PROVE FALSE
  <2>1. map' = Cleared(p)  BY <1>2 DEF fcreateFull
  <2> QED BY <1>c, <2>1
<1>3. ASSUME NEW p \in Paths, fdiraddGrow(p)
      PROVE  /\ fr[p].ph = "dir" /\ map'[c].code = Parent[p]
             /\ map'[c].idx # 0 /\ blk'[c] = Zero
  <2> DEFINE a == allocatecluster(map, lastAlloc)
             f == ffind(map, Parent[p])
  <2>1. /\ fr[p].ph = "dir" /\ map' = faddr(map, a, f) /\ blk' = [blk EXCEPT ![a] = Zero]
        /\ CanAlloc(map, lastAlloc)
    BY <1>3 DEF fdiraddGrow, InPhase
  <2>2. a \in Clusters  BY <2>1, AllocIsFree
  <2>3. Exists(map, Parent[p])  BY <1>0, <2>1 DEF CallsOK
  <2>4. f \in Clusters /\ map[f].code = Parent[p]  BY <2>3, FindHead
  <2> HIDE DEF f, a
  <2>5. c = a  BY <1>0, <2>1 DEF faddr, Map
  <2>6. map'[a].code = Parent[p] /\ map'[a].idx = Cardinality(Owned(map, Parent[p]))
    BY <1>0, <2>1, <2>2, <2>4 DEF faddr, Map
  <2>7. Cardinality(Owned(map, Parent[p])) # 0
    <3>1. Owned(map, Parent[p]) # {}  BY <2>4 DEF Owned
    <3> QED BY <3>1, OwnedFinite, FS_EmptySet
  <2>8. blk'[a] = Zero  BY <1>0, <2>1, <2>2
  <2> QED BY <2>1, <2>5, <2>6, <2>7, <2>8
<1>4. ASSUME fwriteStep  PROVE map'[c].code = FileOf(cur.h) /\ map'[c].idx # 0
  <2> DEFINE a == allocatecluster(map, lastAlloc)
             f == fh[cur.h].cl
  <2>1. map' = faddr(map, a, f) /\ CanAlloc(map, lastAlloc)  BY <1>4 DEF fwriteStep
  <2>2. a \in Clusters  BY <2>1, AllocIsFree
  <2>f. f \in Clusters  BY <1>0 DEF TypeOK, Call, fhandle
  <2> HIDE DEF a
  <2>3. c = a  BY <1>0, <2>1 DEF faddr, Map
  <2>4. map'[c].code = FileOf(cur.h)  BY <1>0, <2>1, <2>2, <2>3 DEF faddr, Map, FileOf
  <2> HIDE DEF f
  <2>5. map'[a].idx = Cardinality(Owned(map, map[f].code))
    BY <1>0, <2>1, <2>2, <2>f DEF faddr, Map
  <2>6. Cardinality(Owned(map, map[f].code)) # 0
    <3>1. Owned(map, map[f].code) # {}  BY <2>f DEF Owned
    <3> QED BY <3>1, OwnedFinite, FS_EmptySet
  <2> QED BY <2>3, <2>4, <2>5, <2>6
<1>5. ASSUME NEW p \in DeletePaths, shelldelete(p)  PROVE FALSE
  <2>1. p \in Paths  BY FratAssumption
  <2>2. map' = Cleared(p)  BY <1>5 DEF shelldelete, Cleared
  <2> QED BY <1>c, <2>1, <2>2
<1>6. ASSUME NEW p \in DeletePaths, removeAll(p)  PROVE FALSE
  <2>1. map' = ffremovel(map, p)  BY <1>6 DEF removeAll
  <2> QED BY <1>0, <2>1 DEF ffremovel, Map, fsblock
<1> QED BY <1>1, <1>2, <1>3, <1>4, <1>5, <1>6, MapEdits

\* The map on disk changes only to the one in memory.
LEMMA Flushes ==
  ASSUME [Next]_vars
  PROVE  dmap' = dmap \/ (up /\ dmap' = map)
<1>1. ASSUME NEW p \in Paths, fcreateStep(p)  PROVE dmap' = dmap \/ (up /\ dmap' = map)
  BY <1>1
     DEF fcreateStep, fcreateExists, fcreateAlloc, fcreateFull, fgetparent, floadhdir,
         fdiraddGrow, fdiraddSpin, fdiraddEntry, fdiraddOverrun, fuloaddir, fcreateInit,
         InPhase, disk
<1>2. CASE shellcreateDone \/ shellcreateFault \/ floadh \/ fwriteStep
  BY <1>2 DEF shellcreateDone, shellcreateFault, floadh, fwriteStep, Created, disk
<1>3. CASE Client
  <2>1. ASSUME NEW x, NEW args, shellcreate(x, args)  PROVE dmap' = dmap
    BY <2>1 DEF shellcreate, disk
  <2>2. ASSUME NEW p, shelldelete(p) \/ shelldeleteFault(p) \/ removeAll(p)
        PROVE  dmap' = dmap
    BY <2>2 DEF shelldelete, shelldeleteFault, removeAll, disk
  <2>3. ASSUME NEW h, NEW x, NEW args, shellopen(h, x, args)  PROVE dmap' = dmap
    BY <2>3 DEF shellopen, disk
  <2>4. ASSUME NEW h, fuloadh(h)  PROVE up /\ dmap' = map  BY <2>4 DEF fuloadh, Quiet
  <2>5. ASSUME NEW h, NEW x, fseek(h, x) \/ fseeko(h, x) \/ fread(h, x)  PROVE dmap' = dmap
    BY <2>5 DEF fseek, fseeko, fread, SetPos, disk
  <2>6. ASSUME NEW h, NEW n, NEW v, fwriteCall(h, n, v)  PROVE dmap' = dmap
    BY <2>6 DEF fwriteCall
  <2> QED BY <1>3, <2>1, <2>2, <2>3, <2>4, <2>5, <2>6 DEF Client
<1>4. CASE fmount \/ shellexit \/ Crash \/ UNCHANGED vars
  BY <1>4 DEF fmount, shellexit, Crash, Quiet, vars, disk
<1> QED BY <1>1, <1>2, <1>3, <1>4 DEF Next, Step

\* A process that dies loses its memory, and nothing else does.
LEMMA Dies ==
  ASSUME [Next]_vars, up, ~up'
  PROVE  Lose
<1>1. ASSUME NEW p \in Paths, fcreateStep(p)  PROVE Lose
  BY <1>1
     DEF fcreateStep, fcreateExists, fcreateAlloc, fcreateFull, fgetparent, floadhdir,
         fdiraddGrow, fdiraddSpin, fdiraddEntry, fdiraddOverrun, fuloaddir, fcreateInit
<1>2. CASE shellcreateDone \/ shellcreateFault \/ floadh \/ fwriteStep
  BY <1>2 DEF shellcreateDone, shellcreateFault, floadh, fwriteStep
<1>3. CASE Client
  <2>1. ASSUME NEW x, NEW args, shellcreate(x, args)  PROVE FALSE
    BY <2>1 DEF shellcreate
  <2>2. ASSUME NEW p, shelldelete(p) \/ shelldeleteFault(p) \/ removeAll(p)  PROVE Lose
    BY <2>2 DEF shelldelete, shelldeleteFault, removeAll
  <2>3. ASSUME NEW h, NEW x, NEW args, shellopen(h, x, args)  PROVE FALSE
    BY <2>3 DEF shellopen
  <2>4. ASSUME NEW h, fuloadh(h)  PROVE FALSE  BY <2>4 DEF fuloadh
  <2>5. ASSUME NEW h, NEW x, fseek(h, x) \/ fseeko(h, x) \/ fread(h, x)  PROVE FALSE
    BY <2>5 DEF fseek, fseeko, fread, SetPos
  <2>6. ASSUME NEW h, NEW n, NEW v, fwriteCall(h, n, v)  PROVE Lose
    BY <2>6 DEF fwriteCall
  <2> QED BY <1>3, <2>1, <2>2, <2>3, <2>4, <2>5, <2>6 DEF Client
<1>4. CASE fmount \/ shellexit \/ Crash \/ UNCHANGED vars
  BY <1>4 DEF fmount, shellexit, Crash, vars
<1> QED BY <1>1, <1>2, <1>3, <1>4 DEF Next, Step

\* The flags of an activation that starts are those of the client, or the ones
\* __fgetparent gives for a directory it makes on demand.
LEMMA AllocFlags ==
  ASSUME IInv, [Next]_vars, NEW p \in Paths, fr'[p].ph = "alloc"
  PROVE  \/ fr'[p] = fr[p]
         \/ fr'[p].flags = {"d", "c"}
         \/ \E x \in Creates : x[1] = p /\ fr'[p].flags = x[2] \cup {"c"}
         \/ \E x \in Opens : x[1] = p /\ fr'[p].flags = x[2]
<1>0. TypeOK /\ fr \in [Paths -> Frame]  BY DEF IInv, TypeOK
<1>l. ~Lose  BY DEF Lose, NoFrame
<1>e. ASSUME NEW q \in Paths, NEW f \in [Paths -> Frame], NEW flags, fr' = Enter(f, q, flags)
      PROVE  IF p = q THEN fr'[p].flags = flags ELSE fr'[p] = f[p]
  BY <1>e DEF Enter, NoFrame
<1>1. ASSUME NEW q \in Paths, fcreateStep(q)
      PROVE  fr'[p] = fr[p] \/ fr'[p].flags = {"d", "c"}
  <2>1. CASE fcreateExists(q) \/ fcreateFull(q) \/ fcreateInit(q)
    <3>1. fr' = [fr EXCEPT ![q] = NoFrame]
      BY <2>1 DEF fcreateExists, fcreateFull, fcreateInit, Return
    <3> QED BY <3>1, <1>0 DEF NoFrame
  <2>2. CASE fcreateAlloc(q)
    <3> DEFINE a == allocatecluster(Cleared(q), lastAlloc)
    <3>1. fr' = [fr EXCEPT ![q].ph = "parent", ![q].cl = a]  BY <2>2 DEF fcreateAlloc
    <3> HIDE DEF a
    <3> QED BY <3>1, <1>0 DEF Frame
  <2>3. CASE fgetparent(q)
    <3>1. CASE Parent[q] = NoParent
      <4>1. fr' = [fr EXCEPT ![q].ph = "init"]  BY <2>3, <3>1 DEF fgetparent
      <4> QED BY <4>1, <1>0 DEF Frame
    <3>2. CASE Parent[q] # NoParent
      <4> DEFINE w == [fr EXCEPT ![q].ph = "wait"]
      <4>1. fr' = w \/ fr' = Enter(w, Parent[q], {"d", "c"})
        BY <2>3, <3>2 DEF fgetparent
      <4>2. w \in [Paths -> Frame] /\ w[q].ph = "wait" /\ (p # q => w[p] = fr[p])
        BY <1>0 DEF Frame, Phases
      <4> HIDE DEF w
      <4>3. Parent[q] \in Paths  BY <3>2, FratAssumption
      <4>4. w[p].ph = "alloc" => p # q  BY <4>2
      <4> QED BY <4>1, <4>2, <4>3, <4>4, <1>e
    <3> QED BY <3>1, <3>2
  <2>4. CASE floadhdir(q) \/ fuloaddir(q)
    <3>1. \E x \in {"dir", "init"} : fr' = [fr EXCEPT ![q].ph = x]
      BY <2>4 DEF floadhdir, fuloaddir, Goto
    <3> QED BY <3>1, <1>0 DEF Frame
  <2>5. CASE fdiraddGrow(q) \/ fdiraddSpin(q)
    BY <2>5 DEF fdiraddGrow, fdiraddSpin
  <2>6. CASE fdiraddEntry(q) \/ fdiraddOverrun(q)
    <3>1. \E x : fr' = [fr EXCEPT ![q].ph = "dirblk", ![q].arr = x]
      BY <1>l, <2>6 DEF fdiraddEntry, fdiraddOverrun
    <3> QED BY <3>1, <1>0 DEF Frame
  <2> QED BY <1>1, <2>1, <2>2, <2>3, <2>4, <2>5, <2>6 DEF fcreateStep
<1>2. CASE shellcreateDone \/ floadh \/ fwriteStep \/ fmount \/ UNCHANGED vars
  BY <1>2 DEF shellcreateDone, floadh, fwriteStep, fmount, vars
<1>3. ~shellcreateFault /\ ~shellexit /\ ~Crash
  BY <1>l DEF shellcreateFault, shellexit, Crash
<1>4. CASE Client
  <2>0. \A x \in Creates \cup Opens : x[1] \in Paths  BY FratAssumption
  <2>1. ASSUME NEW x \in Creates, fr' = Enter(fr, x[1], x[2] \cup {"c"})
        PROVE  fr'[p] = fr[p] \/ (x[1] = p /\ fr'[p].flags = x[2] \cup {"c"})
    BY <1>0, <1>e, <2>0, <2>1
  <2>2. ASSUME NEW x \in Opens, fr' = Enter(fr, x[1], x[2])
        PROVE  fr'[p] = fr[p] \/ (x[1] = p /\ fr'[p].flags = x[2])
    BY <1>0, <1>e, <2>0, <2>2
  <2> QED BY <1>0, <1>4, <1>l, <2>1, <2>2, ClientFrames
<1> QED BY <1>1, <1>2, <1>3, <1>4 DEF Next, Step

\* A running activation does not start over: the entry it has taken keeps
\* __fgetparent from creating its item once more.
LEMMA AllocComes ==
  ASSUME IInv, [Next]_vars, NEW p \in Paths, fr'[p].ph = "alloc"
  PROVE  fr[p].ph \in {"none", "alloc"}
<1> SUFFICES ASSUME fr[p].ph \notin {"none", "alloc"} PROVE FALSE  OBVIOUS
<1>0. TypeOK /\ CallsOK /\ fr \in [Paths -> Frame]  BY DEF IInv, TypeOK
<1>l. ~Lose  BY DEF Lose, NoFrame
<1>x. Exists(map, p)
  <2>1. map[fr[p].cl].code = p /\ map[fr[p].cl].idx = 0 /\ fr[p].cl \in Clusters
    BY <1>0 DEF IInv, FrameOwns, Frame
  <2> QED BY <2>1, ExistsIff
<1>s. ASSUME NEW q \in Paths, NEW x, x # "alloc", fr' = [fr EXCEPT ![q].ph = x]  PROVE FALSE
  BY <1>s, <1>0 DEF Frame
<1>1. ASSUME NEW q \in Paths, fcreateStep(q)  PROVE FALSE
  <2>1. CASE fcreateExists(q) \/ fcreateFull(q) \/ fcreateInit(q)
    <3>1. fr' = [fr EXCEPT ![q] = NoFrame]
      BY <2>1 DEF fcreateExists, fcreateFull, fcreateInit, Return
    <3> QED BY <3>1, <1>0 DEF NoFrame
  <2>2. CASE fcreateAlloc(q)
    <3> DEFINE a == allocatecluster(Cleared(q), lastAlloc)
    <3>1. fr' = [fr EXCEPT ![q].ph = "parent", ![q].cl = a]  BY <2>2 DEF fcreateAlloc
    <3> HIDE DEF a
    <3> QED BY <3>1, <1>0 DEF Frame
  <2>3. CASE fgetparent(q)
    <3> DEFINE w == [fr EXCEPT ![q].ph = "wait"]
    <3>1. w \in [Paths -> Frame] /\ w[p].ph # "alloc"  BY <1>0 DEF Frame, Phases
    <3>2. \/ fr' = [fr EXCEPT ![q].ph = "init"]
          \/ fr' = w
          \/ Parent[q] # p /\ fr' = Enter(w, Parent[q], {"d", "c"})
      BY <1>x, <2>3 DEF fgetparent
    <3> HIDE DEF w
    <3>3. ~\E r : r # p /\ fr' = Enter(w, r, {"d", "c"})  BY <3>1 DEF Enter
    <3> QED BY <1>s, <3>1, <3>2, <3>3
  <2>4. CASE floadhdir(q) \/ fuloaddir(q)
    <3>1. \E x \in {"dir", "init"} : fr' = [fr EXCEPT ![q].ph = x]
      BY <2>4 DEF floadhdir, fuloaddir, Goto
    <3> QED BY <1>s, <3>1
  <2>5. CASE fdiraddGrow(q) \/ fdiraddSpin(q)
    BY <2>5 DEF fdiraddGrow, fdiraddSpin
  <2>6. CASE fdiraddEntry(q) \/ fdiraddOverrun(q)
    <3>1. \E x : fr' = [fr EXCEPT ![q].ph = "dirblk", ![q].arr = x]
      BY <1>l, <2>6 DEF fdiraddEntry, fdiraddOverrun
    <3> QED BY <3>1, <1>0 DEF Frame
  <2> QED BY <1>1, <2>1, <2>2, <2>3, <2>4, <2>5, <2>6 DEF fcreateStep
<1>2. fr' # fr  OBVIOUS
<1>3. ~shellcreateDone /\ ~floadh /\ ~fwriteStep /\ ~fmount /\ ~UNCHANGED vars
  BY <1>2 DEF shellcreateDone, floadh, fwriteStep, fmount, vars
<1>4. ~shellcreateFault /\ ~shellexit /\ ~Crash
  BY <1>l DEF shellcreateFault, shellexit, Crash
<1>5. ~Client
  <2>1. ~Quiet  BY <1>0 DEF Quiet, CallsOK, Busy
  <2>2. \A x, args : ~shellcreate(x, args)  BY <2>1 DEF shellcreate
  <2>3. \A x : ~shelldelete(x) /\ ~shelldeleteFault(x) /\ ~removeAll(x)
    BY <2>1 DEF shelldelete, shelldeleteFault, removeAll
  <2>4. \A h, x, args : ~shellopen(h, x, args)  BY <2>1 DEF shellopen
  <2>5. \A h : ~fuloadh(h)  BY <2>1 DEF fuloadh
  <2>6. \A h, x : ~fseek(h, x) /\ ~fseeko(h, x) /\ ~fread(h, x)
    BY <2>1 DEF fseek, fseeko, fread
  <2>7. \A h, n, v : ~fwriteCall(h, n, v)  BY <2>1 DEF fwriteCall
  <2> QED BY <2>2, <2>3, <2>4, <2>5, <2>6, <2>7 DEF Client
<1> QED BY <1>1, <1>3, <1>4, <1>5 DEF Next, Step

----------------------------------------------------------------------------
(* Crash safety of create.                                                 *)

\* An item whose create has returned has one entry in both maps: the flushed
\* map alone is not enough, since the next flush replaces it by the cached one.
HeadsOK == \A p \in committed : \E c \in Clusters :
    HeadAt(dmap, c, p) /\ (up => HeadAt(map, c, p))

\* Behind that entry is the metadata, unless the mount found the item without.
KeptOK == \A p \in committed \ torn, c \in Clusters :
    HeadAt(dmap, c, p) => MetaOf(blk[c], p)

\* So it is for every item of the cached map that no create is working on,
\* whoever made it and when: create may find it and return.
MetaLive ==
    up => \A p \in Paths, c \in Clusters :
              HeadAt(map, c, p) /\ p \notin torn /\ fr[p].ph \in {"none", "alloc"}
                  => MetaOf(blk[c], p)

\* What the mount has noted is forgotten when the item is made anew.
LEMMA HistoryMoves ==
  ASSUME [Next]_vars
  PROVE  \/ torn' = torn /\ unlisted' = unlisted
         \/ fmount
         \/ \E q \in Paths : fcreateAlloc(q)
<1>1. ASSUME NEW q \in Paths, fcreateStep(q), ~fcreateAlloc(q)
      PROVE  torn' = torn /\ unlisted' = unlisted
  BY <1>1
     DEF fcreateStep, fcreateExists, fcreateFull, fgetparent, floadhdir,
         fdiraddGrow, fdiraddSpin, fdiraddEntry, fdiraddOverrun, fuloaddir, fcreateInit
<1>2. CASE shellcreateDone \/ shellcreateFault \/ floadh \/ fwriteStep
  BY <1>2 DEF shellcreateDone, shellcreateFault, floadh, fwriteStep
<1>3. CASE Client
  <2>1. ASSUME NEW x, NEW args, shellcreate(x, args)
        PROVE  torn' = torn /\ unlisted' = unlisted
    BY <2>1 DEF shellcreate
  <2>2. ASSUME NEW p, shelldelete(p) \/ shelldeleteFault(p) \/ removeAll(p)
        PROVE  torn' = torn /\ unlisted' = unlisted
    BY <2>2 DEF shelldelete, shelldeleteFault, removeAll
  <2>3. ASSUME NEW h, NEW x, NEW args, shellopen(h, x, args)
        PROVE  torn' = torn /\ unlisted' = unlisted
    BY <2>3 DEF shellopen
  <2>4. ASSUME NEW h, fuloadh(h)  PROVE torn' = torn /\ unlisted' = unlisted
    BY <2>4 DEF fuloadh
  <2>5. ASSUME NEW h, NEW x, fseek(h, x) \/ fseeko(h, x) \/ fread(h, x)
        PROVE  torn' = torn /\ unlisted' = unlisted
    BY <2>5 DEF fseek, fseeko, fread, SetPos
  <2>6. ASSUME NEW h, NEW n, NEW v, fwriteCall(h, n, v)
        PROVE  torn' = torn /\ unlisted' = unlisted
    BY <2>6 DEF fwriteCall
  <2> QED BY <1>3, <2>1, <2>2, <2>3, <2>4, <2>5, <2>6 DEF Client
<1>4. CASE shellexit \/ Crash \/ UNCHANGED vars  BY <1>4 DEF shellexit, Crash, vars
<1> QED BY <1>1, <1>2, <1>3, <1>4 DEF Next, Step

\* An item that leaves the notes of the mount has just been given its entry.
LEMMA Forgotten ==
  ASSUME TypeOK, [Next]_vars, up, NEW p \in Paths,
         \/ (p \in torn /\ p \notin torn')
         \/ (p \in unlisted /\ p \notin unlisted')
  PROVE  fcreateAlloc(p) /\ fr'[p].ph = "parent"
<1>1. ~fmount  BY DEF fmount
<1>2. PICK q \in Paths : fcreateAlloc(q)  BY <1>1, HistoryMoves
<1>3. torn' = torn \ {q} /\ unlisted' = unlisted \ {q}  BY <1>2 DEF fcreateAlloc
<1>4. fcreateAlloc(p)  BY <1>2, <1>3
<1> DEFINE a == allocatecluster(Cleared(p), lastAlloc)
<1>5. fr' = [fr EXCEPT ![p].ph = "parent", ![p].cl = a]  BY <1>4 DEF fcreateAlloc
<1> HIDE DEF a
<1>6. fr'[p].ph = "parent"  BY <1>5 DEF TypeOK, Frame
<1> QED BY <1>4, <1>6

\* Every step keeps the metadata of the items at rest.
LEMMA MetaNext ==
  ASSUME WideEnough, IInv, PosOK, MetaLive, [Next]_vars
  PROVE  MetaLive'
<1>0. TypeOK /\ MapInv /\ FrameOwns /\ fr \in [Paths -> Frame] /\ blk \in [Clusters -> Block]
  BY DEF IInv, TypeOK
<1> SUFFICES ASSUME up', NEW p \in Paths, NEW c \in Clusters, HeadAt(map', c, p),
                    p \notin torn', fr'[p].ph \in {"none", "alloc"}
             PROVE  MetaOf(blk'[c], p)
  BY DEF MetaLive
<1>u. p # Unused  BY MapAssumption
<1>1. CASE ~up
  <2>1. fmount  BY <1>1, OnlyMount DEF vars
  <2>2. map' = dmap /\ blk' = blk /\ (Exists(dmap, p) => HasMeta(p))
    BY <2>1 DEF fmount, NoteTorn, disk
  <2>3. HeadAt(dmap, c, p)  BY <2>2
  <2>4. Exists(dmap, p)  BY <2>3, ExistsIff DEF HeadAt
  <2>5. PICK e \in Clusters : dmap[e].code = p /\ dmap[e].idx = 0 /\ MetaOf(blk[e], p)
    BY <2>2, <2>4 DEF HasMeta
  <2>6. e = c  BY <1>0, <1>u, <2>3, <2>5 DEF HeadAt, MapInv, MapOK, UniqueIndex
  <2> QED BY <2>2, <2>5, <2>6
<1>2. CASE up
  <2>1. map'[c] = map[c]
    <3>1. map'[c].code = p /\ map'[c].idx = 0  BY DEF HeadAt
    <3> QED BY <1>2, <1>u, <3>1, EntryFilled
  <2>2. HeadAt(map, c, p)  BY <2>1 DEF HeadAt
  <2>3. p \notin torn  BY <1>0, <1>2, Forgotten
  <2>4. CASE fr[p].ph \in {"none", "alloc"}
    <3>1. MetaOf(blk[c], p)  BY <1>2, <2>2, <2>3, <2>4 DEF MetaLive
    <3> QED BY <2>2, <3>1, MetaStays
  <2>5. CASE fr[p].ph \notin {"none", "alloc"}
    <3>1. fcreateInit(p)
      <4>1. Entered(p)  BY <2>5, FrameMoves
      <4>2. ~Lose  BY DEF Lose
      <4>3. ~fcreateExists(p) /\ ~fcreateFull(p)
        BY <2>5 DEF fcreateExists, fcreateFull, InPhase
      <4>4. fr'[p].ph # "alloc"  BY <2>5, <4>2, AllocComes
      <4> QED BY <4>1, <4>2, <4>3, <4>4 DEF Entered
    <3>2. fr[p].ph = "init" /\ blk' = [blk EXCEPT ![fr[p].cl] = finit(map[fr[p].cl])]
      BY <3>1 DEF fcreateInit, InPhase
    <3>3. map[fr[p].cl].code = p /\ map[fr[p].cl].idx = 0 /\ fr[p].cl \in Clusters
      BY <1>0, <3>2 DEF FrameOwns, Frame
    <3>4. c = fr[p].cl
      BY <1>0, <1>u, <2>2, <3>3 DEF HeadAt, MapInv, MapOK, UniqueIndex
    <3> QED BY <1>0, <3>2, <3>3, <3>4 DEF finit, Meta, MetaOf
  <2> QED BY <2>4, <2>5
<1> QED BY <1>1, <1>2

\* Every step keeps the entries of the committed items.
LEMMA HeadsNext ==
  ASSUME IInv, HeadsOK, [Next]_vars
  PROVE  HeadsOK'
<1>0. committed \subseteq Paths /\ cur.path \in Paths  BY DEF IInv, TypeOK, Call
<1>1. ASSUME NEW p \in committed', p \in committed
      PROVE  \E c \in Clusters : HeadAt(dmap', c, p) /\ (up' => HeadAt(map', c, p))
  <2>1. PICK c \in Clusters : HeadAt(dmap, c, p) /\ (up => HeadAt(map, c, p))
    BY <1>1 DEF HeadsOK
  <2>2. p \in Paths  BY <1>0, <1>1
  <2> QED BY <1>1, <2>1, <2>2, HeadStays
<1>2. ASSUME NEW p \in committed', p \notin committed
      PROVE  \E c \in Clusters : HeadAt(dmap', c, p) /\ (up' => HeadAt(map', c, p))
  <2>1. shellcreateDone  BY <1>2, CommitOnly
  <2>2. p = cur.path /\ Exists(map, p) /\ dmap' = map /\ map' = map
    BY <1>2, <2>1 DEF shellcreateDone, Created
  <2>3. PICK c \in Clusters : map[c].code = p /\ map[c].idx = 0  BY <2>2, ExistsIff
  <2> QED BY <2>2, <2>3 DEF HeadAt
<1> QED BY <1>1, <1>2 DEF HeadsOK

\* Every step keeps their metadata on disk.
LEMMA KeptNext ==
  ASSUME WideEnough, IInv, PosOK, MetaLive, HeadsOK, KeptOK, [Next]_vars
  PROVE  KeptOK'
<1>0. /\ committed \subseteq Paths /\ cur.path \in Paths
      /\ \A p \in Paths : p # Unused
      /\ MapOK(map) /\ MapOK(dmap) /\ MapOK(dmap')
  BY NextIInv, MapAssumption DEF IInv, TypeOK, Call, MapInv
<1> SUFFICES ASSUME NEW p \in committed' \ torn', NEW c \in Clusters, HeadAt(dmap', c, p)
             PROVE  MetaOf(blk'[c], p)
  BY DEF KeptOK
<1>1. CASE p \in committed
  <2>0. p \in Paths  BY <1>0, <1>1
  <2>1. PICK e \in Clusters : HeadAt(dmap, e, p) /\ (up => HeadAt(map, e, p))
    BY <1>1 DEF HeadsOK
  <2>2. HeadAt(dmap', e, p)  BY <1>1, <2>0, <2>1, HeadStays
  <2>3. e = c  BY <1>0, <2>0, <2>2 DEF HeadAt, MapOK, UniqueIndex
  <2>4. CASE p \notin torn
    <3>1. MetaOf(blk[c], p)  BY <1>1, <2>1, <2>3, <2>4 DEF KeptOK
    <3> QED BY <2>0, <2>1, <2>3, <3>1, MetaStays
  <2>5. CASE p \in torn
    <3>1. ~up
      <4>1. ASSUME up  PROVE FALSE
        <5>1. fcreateAlloc(p)  BY <2>0, <2>5, <4>1, Forgotten DEF IInv
        <5> QED BY <5>1 DEF fcreateAlloc
      <4> QED BY <4>1
    <3>2. fmount  BY <2>5, <3>1, OnlyMount DEF vars
    <3>3. blk' = blk /\ (Exists(dmap, p) => HasMeta(p))
      BY <2>0, <3>2 DEF fmount, NoteTorn, disk
    <3>4. Exists(dmap, p)  BY <2>1, ExistsIff DEF HeadAt
    <3>5. PICK k \in Clusters : dmap[k].code = p /\ dmap[k].idx = 0 /\ MetaOf(blk[k], p)
      BY <3>3, <3>4 DEF HasMeta
    <3>6. k = e  BY <1>0, <2>0, <2>1, <3>5 DEF HeadAt, MapOK, UniqueIndex
    <3> QED BY <2>3, <3>3, <3>5, <3>6
  <2> QED BY <2>4, <2>5
<1>2. CASE p \notin committed
  <2>1. shellcreateDone  BY <1>2, CommitOnly
  <2>2. /\ p = cur.path /\ fr[p].ph = "none" /\ up /\ torn' = torn
        /\ dmap' = map /\ blk' = blk
    BY <1>2, <2>1 DEF shellcreateDone, Created
  <2> QED BY <1>0, <2>2 DEF MetaLive
<1> QED BY <1>1, <1>2

\* Once the create command of an item has returned, and until the item is
\* deleted, the flushed map has its entry, and the metadata block is behind it
\* unless the mount found the entry without one: whatever is created, written,
\* flushed, killed and mounted again in between.
THEOREM FratDurableCreate ==
  ASSUME WideEnough PROVE Spec => []DurableCreate
<1> DEFINE Inv == IInv /\ PosOK /\ MetaLive /\ HeadsOK /\ KeptOK
<1>1. Init => Inv
  BY InitIInv, InitPos DEF Init, MetaLive, HeadsOK, KeptOK
<1>2. Inv /\ [Next]_vars => Inv'
  BY NextIInv, PosNext, MetaNext, HeadsNext, KeptNext
<1>3. Inv => DurableCreate
  <2> SUFFICES ASSUME HeadsOK, KeptOK, NEW p \in committed
               PROVE  Exists(dmap, p) /\ (HasMeta(p) \/ p \in torn)
    BY DEF DurableCreate
  <2>1. PICK c \in Clusters : HeadAt(dmap, c, p)  BY DEF HeadsOK
  <2>2. Exists(dmap, p)  BY <2>1, ExistsIff DEF HeadAt
  <2> QED BY <2>1, <2>2 DEF KeptOK, HeadAt, HasMeta
<1> HIDE DEF Inv
<1> QED BY <1>1, <1>2, <1>3, PTL DEF Spec

----------------------------------------------------------------------------
(* Clients that keep what they opened.                                     *)

\* The items that are opened.
Opened == {x[1] : x \in Opens}

\* An item that is opened by a handle is not deleted and not replaced.
KeepsOpened ==
    /\ Opened \cap DeletePaths = {}
    /\ \A x \in Creates \cup Opens : x[1] \in Opened => "F" \notin x[2]

\* The entry of a handle is the metadata entry of the item it was opened for.
HandlesOK ==
    /\ \A h \in Handles : fh[h].open =>
           up /\ fh[h].path \in Opened /\ HeadAt(map, fh[h].cl, fh[h].path)
    /\ cur.call = "open" => cur.path \in Opened
    /\ cur.call = "write" => fh[cur.h].open
    /\ \A p \in Opened : fr[p].ph = "alloc" => "F" \notin fr[p].flags

\* A handle that is open after a step was open before with the same entry, or
\* is the one floadh has just loaded.
LEMMA HandleMoves ==
  ASSUME TypeOK, [Next]_vars, NEW h \in Handles, fh'[h].open
  PROVE  \/ fh[h].open /\ fh'[h].cl = fh[h].cl /\ fh'[h].path = fh[h].path
         \/ /\ floadh /\ map' = map /\ up' /\ Exists(map, cur.path) /\ cur.call = "open"
            /\ fh'[h].cl = ffind(map, cur.path) /\ fh'[h].path = cur.path
<1>0. fh \in [Handles -> fhandle]  BY DEF TypeOK
<1>l. ~Lose  BY DEF Lose, Closed
<1>p. ASSUME NEW g \in Handles, NEW x, fh' = [fh EXCEPT ![g].pos = x]
      PROVE  fh[h].open /\ fh'[h].cl = fh[h].cl /\ fh'[h].path = fh[h].path
  <2>1. /\ fh'[h].open = fh[h].open /\ fh'[h].cl = fh[h].cl /\ fh'[h].path = fh[h].path
    BY <1>0, <1>p DEF fhandle
  <2> QED BY <2>1
<1>1. ASSUME NEW p \in Paths, fcreateStep(p)  PROVE fh' = fh
  BY <1>1, <1>l
     DEF fcreateStep, fcreateExists, fcreateAlloc, fcreateFull, fgetparent, floadhdir,
         fdiraddGrow, fdiraddSpin, fdiraddEntry, fdiraddOverrun, fuloaddir, fcreateInit
<1>2. CASE shellcreateDone \/ fmount \/ UNCHANGED vars
  BY <1>2 DEF shellcreateDone, fmount, vars
<1>3. ~shellcreateFault /\ ~shellexit /\ ~Crash
  BY <1>l DEF shellcreateFault, shellexit, Crash
<1>4. CASE floadh
  <2> DEFINE x == [open |-> TRUE, cl |-> ffind(map, cur.path), path |-> cur.path, pos |-> B]
  <2>1. CASE Exists(map, cur.path)
    <3>1. /\ fh' = [fh EXCEPT ![cur.h] = x] /\ map' = map /\ up' /\ cur.call = "open"
      BY <1>4, <2>1 DEF floadh, Created
    <3>2. x.cl = ffind(map, cur.path) /\ x.path = cur.path  OBVIOUS
    <3> HIDE DEF x
    <3>3. h = cur.h => fh'[h] = x  BY <1>0, <3>1
    <3>4. h # cur.h => fh'[h] = fh[h]  BY <1>0, <3>1
    <3> QED BY <1>4, <2>1, <3>1, <3>2, <3>3, <3>4
  <2>2. CASE ~Exists(map, cur.path)  BY <1>4, <2>2 DEF floadh
  <2> QED BY <2>1, <2>2
<1>5. CASE fwriteStep
  <2>1. fh' = fh \/ \E x : fh' = [fh EXCEPT ![cur.h].pos = x]  BY <1>5 DEF fwriteStep
  <2>2. cur.h \in Handles  BY DEF TypeOK, Call
  <2> QED BY <1>p, <2>1, <2>2
<1>6. CASE Client
  <2>1. ASSUME NEW x, NEW args, shellcreate(x, args)  PROVE fh' = fh
    BY <2>1 DEF shellcreate
  <2>2. ASSUME NEW p, shelldelete(p) \/ shelldeleteFault(p) \/ removeAll(p)  PROVE fh' = fh
    BY <2>2, <1>l DEF shelldelete, shelldeleteFault, removeAll
  <2>3. ASSUME NEW g, NEW x, NEW args, shellopen(g, x, args)  PROVE fh' = fh
    BY <2>3 DEF shellopen
  <2>4. ASSUME NEW g \in Handles, fuloadh(g)
        PROVE  fh[h].open /\ fh'[h].cl = fh[h].cl /\ fh'[h].path = fh[h].path
    <3>1. fh' = [fh EXCEPT ![g] = Closed]  BY <2>4 DEF fuloadh
    <3>2. ~Closed.open  BY DEF Closed
    <3> QED BY <1>0, <3>1, <3>2
  <2>5. ASSUME NEW g \in Handles, NEW x, fseek(g, x) \/ fseeko(g, x) \/ fread(g, x)
        PROVE  fh[h].open /\ fh'[h].cl = fh[h].cl /\ fh'[h].path = fh[h].path
    <3>1. \E y : fh' = [fh EXCEPT ![g].pos = y]  BY <2>5 DEF fseek, fseeko, fread, SetPos
    <3> QED BY <1>p, <3>1
  <2>6. ASSUME NEW g, NEW n, NEW v, fwriteCall(g, n, v)  PROVE fh' = fh
    BY <2>6, <1>l DEF fwriteCall
  <2> QED BY <1>6, <2>1, <2>2, <2>3, <2>4, <2>5, <2>6 DEF Client
<1> QED BY <1>1, <1>2, <1>3, <1>4, <1>5, <1>6 DEF Next, Step

\* A call in progress after a step was in progress before, with the same path
\* and handle, or has been made by the client.
LEMMA CallMoves ==
  ASSUME IInv, [Next]_vars, cur'.call # "idle"
  PROVE  \/ /\ cur'.call = cur.call /\ cur'.path = cur.path /\ cur'.h = cur.h
            /\ fh' = fh
         \/ cur.call = "idle" /\ cur'.call = "create"
         \/ cur.call = "idle" /\ cur'.call = "open" /\ cur'.path \in {x[1] : x \in Opens}
         \/ /\ cur.call = "idle" /\ cur'.call = "write" /\ cur'.h \in Handles
            /\ fh[cur'.h].open /\ fh' = fh
<1>0. TypeOK /\ cur \in Call /\ fh \in [Handles -> fhandle] /\ CallsOK
  BY DEF IInv, TypeOK
<1>l. ~Lose  BY DEF Lose, Idle
<1>1. ASSUME NEW p \in Paths, fcreateStep(p)  PROVE cur' = cur /\ fh' = fh
  BY <1>1, <1>l
     DEF fcreateStep, fcreateExists, fcreateAlloc, fcreateFull, fgetparent, floadhdir,
         fdiraddGrow, fdiraddSpin, fdiraddEntry, fdiraddOverrun, fuloaddir, fcreateInit
<1>2. ~shellcreateDone /\ ~floadh  BY DEF shellcreateDone, floadh, Idle
<1>3. ~shellcreateFault /\ ~shellexit /\ ~Crash
  BY <1>l DEF shellcreateFault, shellexit, Crash
<1>4. CASE fmount \/ UNCHANGED vars  BY <1>4 DEF fmount, vars
<1>5. CASE fwriteStep
  <2> DEFINE chunk == Min({B - (cur.pos % B), cur.left})
             pos   == Wrap(cur.pos + chunk)
  <2>1. cur.call = "write"  BY <1>5 DEF fwriteStep
  <2>2. cur' = [cur EXCEPT !.pos = pos, !.left = @ - chunk] /\ fh' = fh
    BY <1>5 DEF fwriteStep, Idle
  <2> HIDE DEF chunk, pos
  <2>3. cur'.call = cur.call /\ cur'.path = cur.path /\ cur'.h = cur.h
    BY <1>0, <2>2 DEF Call
  <2> QED BY <2>1, <2>2, <2>3
<1>6. CASE Client
  <2>1. ASSUME NEW x, NEW args, shellcreate(x, args)
        PROVE  cur.call = "idle" /\ cur'.call = "create"
    BY <2>1 DEF shellcreate, Quiet, Idle
  <2>2. ASSUME NEW p, shelldelete(p) \/ shelldeleteFault(p) \/ removeAll(p)
        PROVE  cur' = cur /\ fh' = fh
    BY <2>2, <1>l DEF shelldelete, shelldeleteFault, removeAll
  <2>3. ASSUME NEW g, NEW x \in Opens, shellopen(g, x[1], x[2])
        PROVE  /\ cur.call = "idle" /\ cur'.call = "open"
               /\ cur'.path \in {y[1] : y \in Opens}
    BY <2>3 DEF shellopen, Quiet, Idle
  <2>4. ASSUME NEW g, NEW x, fuloadh(g) \/ fseek(g, x) \/ fseeko(g, x) \/ fread(g, x)
        PROVE  FALSE
    BY <2>4 DEF fuloadh, fseek, fseeko, fread, SetPos, Quiet
  <2>5. ASSUME NEW g \in Handles, NEW n, NEW v, fwriteCall(g, n, v)
        PROVE  /\ cur.call = "idle" /\ cur'.call = "write" /\ cur'.h \in Handles
               /\ fh[cur'.h].open /\ fh' = fh
    <3>1. /\ fh' = fh /\ cur.call = "idle" /\ fh[g].open
          /\ cur' = cur \/ cur' = [Idle EXCEPT !.call = "write", !.h = g,
                                        !.pos = fh[g].pos, !.left = n, !.val = v]
      BY <2>5, <1>l DEF fwriteCall, Quiet
    <3>2. cur' # cur  BY <3>1
    <3>3. cur'.call = "write" /\ cur'.h = g  BY <3>1, <3>2 DEF Idle
    <3> QED BY <3>1, <3>3
  <2> QED BY <1>6, <2>1, <2>2, <2>3, <2>4, <2>5 DEF Client
<1> QED BY <1>1, <1>2, <1>3, <1>4, <1>5, <1>6 DEF Next, Step

\* Every step keeps the handles on their items.
LEMMA HandlesNext ==
  ASSUME KeepsOpened, IInv, HandlesOK, [Next]_vars
  PROVE  HandlesOK'
<1>0. /\ TypeOK /\ MapInv /\ fh \in [Handles -> fhandle] /\ cur \in Call /\ TypeOK'
  BY NextIInv DEF IInv, TypeOK
<1>1. ASSUME NEW h \in Handles, fh'[h].open
      PROVE  up' /\ fh'[h].path \in Opened /\ HeadAt(map', fh'[h].cl, fh'[h].path)
  <2>1. CASE fh[h].open /\ fh'[h].cl = fh[h].cl /\ fh'[h].path = fh[h].path
    <3> DEFINE c == fh[h].cl
               q == fh[h].path
    <3>1. up /\ q \in Opened /\ HeadAt(map, c, q) /\ c \in Clusters /\ q \in Paths
      BY <1>0, <2>1 DEF HandlesOK, fhandle
    <3>2. up'
      <4>1. ASSUME ~up'  PROVE FALSE
        <5>1. Lose  BY <3>1, <4>1, Dies
        <5> QED BY <1>1, <5>1 DEF Lose, Closed
      <4> QED BY <4>1
    <3>3. map[c].code = q /\ map[c].idx = 0 /\ q # Unused
      BY <3>1, MapAssumption DEF HeadAt
    <3>4. q \notin DeletePaths /\ ~(fr[q].ph = "alloc" /\ "F" \in fr[q].flags)
      BY <3>1 DEF KeepsOpened, HandlesOK
    <3>5. map'[c] = map[c]  BY <3>1, <3>2, <3>3, <3>4, EntryStays
    <3> QED BY <2>1, <3>1, <3>2, <3>3, <3>5 DEF HeadAt
  <2>2. CASE /\ map' = map /\ up' /\ Exists(map, cur.path) /\ cur.call = "open"
             /\ fh'[h].cl = ffind(map, cur.path) /\ fh'[h].path = cur.path
    BY <2>2, FindHead DEF HandlesOK, HeadAt
  <2> QED BY <1>0, <1>1, <2>1, <2>2, HandleMoves
<1>2. cur'.call = "open" => cur'.path \in Opened
  BY CallMoves DEF HandlesOK, Opened
<1>3. cur'.call = "write" => fh'[cur'.h].open
  BY CallMoves DEF HandlesOK
<1>4. ASSUME NEW p \in Opened, fr'[p].ph = "alloc"  PROVE "F" \notin fr'[p].flags
  <2>1. p \in Paths  BY FratAssumption DEF Opened
  <2>2. CASE fr'[p] = fr[p]  BY <1>4, <2>2 DEF HandlesOK
  <2>3. CASE fr'[p].flags = {"d", "c"}  BY <2>3
  <2>4. CASE \E x \in Creates : x[1] = p /\ fr'[p].flags = x[2] \cup {"c"}
    BY <2>4, <1>4 DEF KeepsOpened
  <2>5. CASE \E x \in Opens : x[1] = p /\ fr'[p].flags = x[2]
    BY <2>5, <1>4 DEF KeepsOpened
  <2> QED BY <1>4, <2>1, <2>2, <2>3, <2>4, <2>5, AllocFlags
<1> QED BY <1>1, <1>2, <1>3, <1>4 DEF HandlesOK

\* A write through a handle changes blocks of the item the handle was opened
\* for, as long as the client neither deletes nor replaces opened items: the
\* entry of the handle then stays the metadata entry of its item.
THEOREM FratHandleWritesItsItem ==
  ASSUME KeepsOpened PROVE Spec => HandleWritesItsItem
<1> DEFINE Kept == cur.call = "write" => \A c \in Clusters :
              blk'[c] # blk[c] /\ map'[c].code # Unused => map'[c].code = fh[cur.h].path
<1>1. Init => IInv /\ HandlesOK
  <2>1. Opened \subseteq Paths  BY FratAssumption DEF Opened
  <2>2. Init => HandlesOK  BY <2>1 DEF Init, HandlesOK, Closed, Idle, NoFrame
  <2> QED BY <2>2, InitIInv
<1>2. IInv /\ HandlesOK /\ [Next]_vars => IInv' /\ HandlesOK'  BY NextIInv, HandlesNext
<1>3. ASSUME IInv, HandlesOK, [Next]_vars, cur.call = "write", NEW c \in Clusters,
             blk'[c] # blk[c], map'[c].code # Unused
      PROVE  map'[c].code = fh[cur.h].path
  <2>1. fwriteStep
    BY <1>3, OnlyWrite DEF Crash, disk, vars
  <2>2. FileOf(cur.h) = fh[cur.h].path /\ up /\ up'
    <3>1. cur.h \in Handles  BY <1>3 DEF IInv, TypeOK, Call
    <3> QED BY <1>3, <2>1, <3>1 DEF HandlesOK, HeadAt, FileOf, fwriteStep
  <2>3. CASE map[c].code = Unused
    <3>1. map'[c] # map[c]  BY <1>3, <2>3
    <3>2. /\ ~\E p \in Paths : fr[p].ph = "alloc"
          /\ ~\E p \in Paths : fr[p].ph = "dir"
      BY <1>3 DEF IInv, CallsOK, Busy
    <3> QED BY <1>3, <2>2, <3>1, <3>2, EntryFilled
  <2>4. CASE map[c].code # Unused
    <3>1. map[c].code = FileOf(cur.h)  BY <1>3, <2>1, <2>4, WriteTargets
    <3>2. map'[c].code \in {map[c].code, Unused}
      BY <1>3, <2>2, <2>4, NextKeepsOwners DEF KeepsOwners
    <3> QED BY <1>3, <2>2, <3>1, <3>2
  <2> QED BY <2>3, <2>4
<1>4. IInv /\ HandlesOK /\ [Next]_vars => [Kept]_vars  BY <1>3
<1> QED BY <1>1, <1>2, <1>4, PTL DEF Spec, HandleWritesItsItem

----------------------------------------------------------------------------
(* Items stay listed.                                                      *)

\* The items that are the parent of another.
Dirs == {Parent[p] : p \in Nested}

\* A client that leaves directories alone: it neither deletes them nor opens
\* them as files, and it creates them as directories.
KeepsDirs ==
    /\ Dirs \cap (DeletePaths \cup Opened) = {}
    /\ \A x \in Creates : x[1] \in Dirs => "d" \in x[2] /\ "P" \notin x[2]

\* c holds the first data block of q; the block b lists p; the block of p's
\* parent that the live map points at lists p; the metadata entry of every
\* directory says that it is one.
SlotAt(m, c, q) == m[c].code = q /\ m[c].idx = 1
InMap(p)        == \E c \in Clusters : SlotAt(map, c, Parent[p]) /\ ListsItem(blk[c], p)
DirHeads(m)     == \A q \in Dirs, c \in Clusters : HeadAt(m, c, q) => "directory" \in m[c].attr

\* The first data block of a directory is the same in both maps and holds
\* entries, and the metadata entry of a directory says that it is one.
DirsOK ==
    /\ DirHeads(map) /\ DirHeads(dmap)
    /\ \A q \in Dirs, c \in Clusters :
          /\ up /\ SlotAt(dmap, c, q) => SlotAt(map, c, q)
          /\ SlotAt(map, c, q) \/ SlotAt(dmap, c, q) => IsDir(blk[c])
    /\ \A q \in Dirs : fr[q].ph = "alloc" => "d" \in fr[q].flags /\ "P" \notin fr[q].flags

\* The array a create is about to write lists the item and all that the block
\* lists.
ArraysOK == \A p \in Nested : fr[p].ph = "dirblk" =>
    /\ ListsItem(fr[p].arr, p)
    /\ \E c \in Clusters :
          /\ SlotAt(map, c, Parent[p])
          /\ \A x \in Paths : ListsItem(blk[c], x) => ListsItem(fr[p].arr, x)

\* A create that waits for a directory finds it; behind the write of the array
\* the item is listed in the block the live map points at, and so is every item
\* that no create is working on, but for those the mount found unlisted.
ListingOK ==
    \A p \in Nested :
        /\ fr[p].ph = "wait" /\ fr[Parent[p]].ph = "none" => Exists(map, Parent[p])
        /\ fr[p].ph = "init" => InMap(p)
        /\ up /\ Exists(map, p) /\ p \notin unlisted /\ fr[p].ph \in {"none", "alloc"}
              => InMap(p)

\* Parents are items.
LEMMA DirsArePaths ==
  /\ Dirs \subseteq Paths /\ Unused \notin Dirs
  /\ \A p \in Nested : p \in Paths /\ Parent[p] \in Dirs /\ Parent[p] \in Paths
<1>1. \A p \in Nested : p \in Paths /\ Parent[p] \in Paths  BY FratAssumption DEF Nested
<1> QED BY <1>1, MapAssumption DEF Dirs

\* The first data block of a directory keeps its place.
LEMMA SlotStays ==
  ASSUME KeepsDirs, IInv, [Next]_vars, up, up', NEW q \in Dirs, NEW c \in Clusters,
         SlotAt(map, c, q)
  PROVE  map'[c] = map[c] /\ SlotAt(map', c, q)
<1>1. map[c].code = q /\ map[c].idx = 1 /\ q # Unused /\ q \notin DeletePaths
  BY DirsArePaths DEF SlotAt, KeepsDirs
<1>2. map'[c] = map[c]  BY <1>1, EntryStays
<1> QED BY <1>2 DEF SlotAt

\* It is written by fuloaddir only, for an item of the directory.
LEMMA SlotBlock ==
  ASSUME KeepsDirs, IInv, HandlesOK, [Next]_vars, up, NEW q \in Dirs, NEW c \in Clusters,
         SlotAt(map, c, q), blk'[c] # blk[c]
  PROVE  \E p \in Nested : /\ fuloaddir(p) /\ fr[p].ph = "dirblk" /\ Parent[p] = q
                           /\ blk'[c] = fr[p].arr
<1>0. TypeOK /\ CallsOK /\ FrameOwns  BY DEF IInv
<1>1. map[c].code = q /\ map[c].idx = 1 /\ q # Unused /\ q \notin Opened
  BY DirsArePaths DEF SlotAt, KeepsDirs
<1>2. ASSUME NEW p \in Paths, fr[p].ph = "dirblk", map[c].code = Parent[p]
      PROVE  p \in Nested /\ fuloaddir(p) /\ Parent[p] = q /\ blk'[c] = fr[p].arr
  <2>1. p \in Nested  BY <1>0, <1>2 DEF CallsOK, Nested
  <2>2. Running(fr, p)  BY <1>2 DEF Running, Busy, WaitsFor
  <2>3. fcreateStep(p)  BY <2>2, OnlyFrame DEF Crash, disk, vars
  <2>4. fuloaddir(p)
    BY <1>2, <2>3
       DEF fcreateStep, fcreateExists, fcreateAlloc, fcreateFull, fgetparent, floadhdir,
           fdiraddGrow, fdiraddSpin, fdiraddEntry, fdiraddOverrun, fcreateInit, InPhase
  <2>5. blk'[c] = fr[p].arr  BY <1>1, <1>2, <2>4 DEF fuloaddir
  <2> QED BY <1>1, <1>2, <2>1, <2>4, <2>5
<1>3. ASSUME NEW p \in Paths, fr[p].ph = "init", fr[p].cl = c  PROVE FALSE
  BY <1>0, <1>1, <1>3 DEF FrameOwns
<1>4. ASSUME NEW h \in Handles, fh[h].open, fh[h].cl = c  PROVE FALSE
  BY <1>1, <1>4 DEF HandlesOK, HeadAt
<1>5. ASSUME fwriteStep  PROVE FALSE
  <2>1. map[c].code = FileOf(cur.h)  BY <1>1, <1>5, WriteTargets
  <2>2. cur.h \in Handles /\ cur.call = "write"
    BY <1>0, <1>5 DEF TypeOK, Call, fwriteStep
  <2>3. FileOf(cur.h) \in Opened  BY <2>2 DEF HandlesOK, HeadAt, FileOf
  <2> QED BY <1>1, <2>1, <2>3
<1> QED BY <1>1, <1>2, <1>3, <1>4, <1>5, BlockTargets

\* A dead process changes nothing on disk.
LEMMA DeadKeeps ==
  ASSUME [Next]_vars, ~up
  PROVE  /\ dmap' = dmap /\ blk' = blk /\ committed' = committed
         /\ (map' = dmap \/ (~up' /\ map' = map))
<1>1. CASE fmount  BY <1>1 DEF fmount, disk
<1>2. CASE UNCHANGED vars  BY <1>2 DEF vars
<1> QED BY <1>1, <1>2, OnlyMount

\* Every step keeps the directories.
LEMMA DirsNext ==
  ASSUME KeepsDirs, IInv, HandlesOK, DirsOK, ArraysOK, [Next]_vars
  PROVE  DirsOK'
<1>0. /\ TypeOK /\ MapInv /\ CallsOK /\ \A p \in Nested : Parent[p] \in Dirs
      /\ blk \in [Clusters -> Block]
  BY DirsArePaths DEF IInv, TypeOK
<1>l. up /\ ~up' => map' = EmptyMap  BY Dies DEF Lose
<1>e. \A q \in Dirs, c \in Clusters : EmptyMap[c].code # q  BY DirsArePaths DEF EmptyMap
<1>w. ASSUME fwriteStep  PROVE FileOf(cur.h) \notin Dirs
  <2>1. cur.h \in Handles /\ cur.call = "write"
    BY <1>0, <1>w DEF TypeOK, Call, fwriteStep
  <2>2. FileOf(cur.h) \in Opened  BY <2>1 DEF HandlesOK, HeadAt, FileOf
  <2> QED BY <2>2 DEF KeepsDirs
<1>z. IsDir(Zero)  BY DEF IsDir
\* What an entry that is new in the map of a live process holds for a directory.
<1>n. ASSUME up, up', NEW q \in Dirs, NEW c \in Clusters, map'[c].code = q, map'[c] # map[c]
      PROVE  \/ map'[c].idx = 0 /\ "directory" \in map'[c].attr
             \/ map'[c].idx # 0 /\ blk'[c] = Zero
  <2>1. q # Unused  BY DirsArePaths
  <2>2. ASSUME NEW p \in Paths, map'[c].code = p, fr[p].ph = "alloc",
               CreateAttr(fr[p].flags) \subseteq map'[c].attr
        PROVE  "directory" \in map'[c].attr
    <3>1. "d" \in fr[p].flags /\ "P" \notin fr[p].flags  BY <1>n, <2>2 DEF DirsOK
    <3> QED BY <2>2, <3>1 DEF CreateAttr
  <2> QED BY <1>n, <1>w, <2>1, <2>2, EntryFilled
<1>1. DirHeads(map')
  <2> SUFFICES ASSUME NEW q \in Dirs, NEW c \in Clusters, HeadAt(map', c, q)
               PROVE  "directory" \in map'[c].attr
    BY DEF DirHeads
  <2>1. CASE up /\ up'
    <3>1. CASE map'[c] = map[c]  BY <3>1 DEF DirsOK, DirHeads, HeadAt
    <3>2. CASE map'[c] # map[c]  BY <2>1, <3>2, <1>n DEF HeadAt
    <3> QED BY <3>1, <3>2
  <2>2. CASE up /\ ~up'  BY <2>2, <1>l, <1>e DEF HeadAt
  <2>3. CASE ~up  BY <2>3, DeadKeeps DEF DirsOK, DirHeads
  <2> QED BY <2>1, <2>2, <2>3
<1>2. DirHeads(dmap')  BY Flushes DEF DirsOK, DirHeads
\* A block that is the first data block in the map before and still is.
<1>b. ASSUME NEW q \in Dirs, NEW c \in Clusters, SlotAt(map, c, q), up  PROVE IsDir(blk'[c])
  <2>1. IsDir(blk[c])  BY <1>b DEF DirsOK
  <2>2. ASSUME blk'[c] # blk[c]  PROVE IsDir(blk'[c])
    <3>1. PICK p \in Nested : fr[p].ph = "dirblk" /\ blk'[c] = fr[p].arr
      BY <1>b, <2>2, SlotBlock
    <3>2. fr[p].arr.kind = "dir"  BY <3>1 DEF ArraysOK, ListsItem
    <3> QED BY <3>1, <3>2 DEF IsDir
  <2> QED BY <2>1, <2>2
<1>3. ASSUME NEW q \in Dirs, NEW c \in Clusters, up', SlotAt(dmap', c, q)
      PROVE  SlotAt(map', c, q)
  <2>1. CASE up
    <3>1. SlotAt(map, c, q)  BY <1>3, <2>1, Flushes DEF DirsOK
    <3> QED BY <1>3, <2>1, <3>1, SlotStays
  <2>2. CASE ~up  BY <1>3, <2>2, DeadKeeps
  <2> QED BY <2>1, <2>2
<1>4. ASSUME NEW q \in Dirs, NEW c \in Clusters, SlotAt(dmap', c, q)
      PROVE  IsDir(blk'[c])
  <2>1. CASE up
    <3>1. SlotAt(map, c, q)  BY <1>4, <2>1, Flushes DEF DirsOK
    <3> QED BY <2>1, <3>1, <1>b
  <2>2. CASE ~up
    <3>1. SlotAt(dmap, c, q) /\ blk' = blk  BY <1>4, <2>2, DeadKeeps
    <3> QED BY <3>1 DEF DirsOK
  <2> QED BY <2>1, <2>2
<1>5. ASSUME NEW q \in Dirs, NEW c \in Clusters, SlotAt(map', c, q)
      PROVE  IsDir(blk'[c])
  <2>1. CASE up /\ up'
    <3>1. CASE map'[c] = map[c]
      <4>1. SlotAt(map, c, q)  BY <1>5, <3>1 DEF SlotAt
      <4> QED BY <2>1, <4>1, <1>b
    <3>2. CASE map'[c] # map[c]
      <4>1. map'[c].code = q /\ map'[c].idx = 1  BY <1>5 DEF SlotAt
      <4> QED BY <2>1, <3>2, <4>1, <1>n, <1>z
    <3> QED BY <3>1, <3>2
  <2>2. CASE up /\ ~up'  BY <1>5, <2>2, <1>l, <1>e DEF SlotAt
  <2>3. CASE ~up
    <3>1. blk' = blk /\ (SlotAt(dmap, c, q) \/ SlotAt(map, c, q))
      BY <1>5, <2>3, DeadKeeps
    <3> QED BY <3>1 DEF DirsOK
  <2> QED BY <2>1, <2>2, <2>3
<1>6. ASSUME NEW q \in Dirs, fr'[q].ph = "alloc"
      PROVE  "d" \in fr'[q].flags /\ "P" \notin fr'[q].flags
  <2>1. q \in Paths /\ q \notin Opened  BY DirsArePaths DEF KeepsDirs
  <2>2. CASE fr'[q] = fr[q]  BY <1>6, <2>2 DEF DirsOK
  <2>3. CASE fr'[q].flags = {"d", "c"}  BY <2>3
  <2>4. CASE \E x \in Creates : x[1] = q /\ fr'[q].flags = x[2] \cup {"c"}
    BY <2>4 DEF KeepsDirs
  <2>5. ~\E x \in Opens : x[1] = q  BY <2>1 DEF Opened
  <2> QED BY <1>6, <2>1, <2>2, <2>3, <2>4, <2>5, AllocFlags
<1> QED BY <1>1, <1>2, <1>3, <1>4, <1>5, <1>6 DEF DirsOK

\* __fdiradd lists the item and keeps what the directory listed.
LEMMA fdiraddLists ==
  ASSUME NEW e \in Seq(Entry), GoodList(e), NEW p \in Nested
  PROVE  /\ ListsItem(Dir(fdiradd(e, p)), p)
         /\ \A x : (\E k \in DOMAIN e : e[k].code = x) => ListsItem(Dir(fdiradd(e, p)), x)
<1>0. e \in [1 .. Len(e) -> Entry] /\ Len(e) \in Nat /\ p \in Paths /\ DOMAIN e = 1 .. Len(e)
  BY LenProperties DEF Nested
<1>d. \A s, x : (\E k \in DOMAIN s : s[k].code = x) => ListsItem(Dir(s), x)
  BY DEF ListsItem, Dir
<1> SUFFICES \E s : /\ fdiradd(e, p) = s
                    /\ \E k \in DOMAIN s : s[k].code = p
                    /\ \A k \in DOMAIN e : k \in DOMAIN s /\ s[k].code = e[k].code
  BY <1>d
<1>2. Slots(e, p) = {k \in 1 .. Len(e) : e[k].code = p}
  BY MapAssumption DEF Slots, GoodList, Nested
<1>3. CASE Slots(e, p) # {}
  <2> DEFINE k == Min(Slots(e, p))
             s == Passed(e, k)
             t == [s EXCEPT ![k] = IF @.code = p THEN @ ELSE [code |-> p, last |-> TRUE]]
  <2>1. Slots(e, p) \in SUBSET Nat  BY LenProperties DEF Slots
  <2>2. k \in Slots(e, p)  BY <1>3, <2>1, MinIsLeast
  <2>3. k \in 1 .. Len(e) /\ e[k].code = p /\ k \in Nat  BY <1>2, <2>1, <2>2
  <2>4. fdiradd(e, p) = t  BY <1>3 DEF fdiradd
  <2> HIDE DEF k
  <2>5. s \in Seq(Entry) /\ Len(s) = Len(e)  BY PassedType
  <2>6. \A j \in 1 .. Len(e) : s[j].code = e[j].code  BY <2>3, PassedIs
  <2> HIDE DEF s
  <2>7. s \in [1 .. Len(e) -> Entry] /\ DOMAIN s = 1 .. Len(e)  BY <2>5, LenProperties
  <2>8. t = s  BY <2>3, <2>6, <2>7
  <2> QED BY <1>0, <2>3, <2>4, <2>6, <2>7, <2>8
<1>4. CASE Slots(e, p) = {}
  <2> DEFINE n == Len(e)
             s == Passed(e, n + 1)
             x == [code |-> p, last |-> TRUE]
             t == Append(s, x)
  <2>1. n \in Nat /\ n + 1 \in Nat  BY <1>0
  <2>2. fdiradd(e, p) = t  BY <1>4 DEF fdiradd
  <2>3. s \in Seq(Entry) /\ Len(s) = n  BY PassedType
  <2>4. \A j \in 1 .. n : s[j].code = e[j].code  BY <2>1, PassedIs
  <2>x. x \in Entry /\ x.code = p  BY <1>0 DEF Entry, Codes
  <2> HIDE DEF s, x
  <2>6. /\ t \in Seq(Entry) /\ Len(t) = n + 1 /\ t[n + 1] = x
        /\ \A j \in 1 .. n : t[j] = s[j]
    BY <2>3, <2>x, AppendProperties
  <2> HIDE DEF t
  <2>7. DOMAIN t = 1 .. (n + 1)  BY <2>6, LenProperties
  <2>8. n + 1 \in DOMAIN t /\ \A j \in 1 .. n : j \in DOMAIN t  BY <2>1, <2>7
  <2> QED BY <1>0, <2>2, <2>4, <2>6, <2>8, <2>x
<1> QED BY <1>3, <1>4

\* What __fdiradd leaves in the array for the directory block at c.
LEMMA ArrayLists ==
  ASSUME DirsFit, IInv, DirOK, DirsOK, NEW p \in Nested,
         fdiraddEntry(p) \/ fdiraddOverrun(p)
  PROVE  /\ ListsItem(fr'[p].arr, p) /\ map' = map /\ blk' = blk
         /\ \E c \in Clusters :
               /\ SlotAt(map, c, Parent[p])
               /\ \A x \in Paths : ListsItem(blk[c], x) => ListsItem(fr'[p].arr, x)
<1> DEFINE c == ffindhi(map, Parent[p], 1)
           e == Ents(blk[c])
<1>0. /\ TypeOK /\ fr \in [Paths -> Frame] /\ p \in Paths /\ Parent[p] \in Dirs
  BY DirsArePaths DEF IInv, TypeOK
<1>1. Found(map, Parent[p], 1)  BY DEF fdiraddEntry, fdiraddOverrun
<1>2. c \in Clusters /\ SlotAt(map, c, Parent[p])
  <2>1. 1 % IdxMod = 1  BY MapAssumption
  <2> QED BY <1>1, <2>1, FindHits DEF SlotAt
<1>3. IsDir(blk[c])  BY <1>0, <1>2 DEF DirsOK
<1>4. e \in Seq(Entry) /\ GoodList(e)  BY <1>0, <1>2, <1>3, EntsGood
<1>5. ~fdiraddOverrun(p)
  <2> SUFFICES ASSUME fdiraddOverrun(p) PROVE FALSE  OBVIOUS
  <2>1. Slots(e, p) = {} /\ Len(e) >= DirCap  BY <1>3 DEF fdiraddOverrun, DirBlock
  <2> HIDE DEF e
  <2>2. \A k \in 1 .. Len(e) : e[k].code # p  BY <2>1 DEF Slots
  <2>3. Len(e) < DirCap  BY <1>4, <2>2, ListHasRoom
  <2>4. Len(e) \in Nat /\ DirCap \in Nat  BY <1>4, LenProperties, FratAssumption
  <2> QED BY <2>1, <2>3, <2>4
<1> DEFINE s == fdiradd(e, p)
<1>6. /\ map' = map /\ blk' = blk
      /\ fr' = [fr EXCEPT ![p].ph = "dirblk", ![p].arr = Dir(s)]
  BY <1>5 DEF fdiraddEntry, DirBlock
<1>7. /\ ListsItem(Dir(s), p)
      /\ \A x : (\E k \in DOMAIN e : e[k].code = x) => ListsItem(Dir(s), x)
  <2> HIDE DEF e
  <2> QED BY <1>4, fdiraddLists
<1>8. \A x : ListsItem(blk[c], x) => \E k \in DOMAIN e : e[k].code = x
  <2>1. Zero.kind = "data"  BY DEF Zero, Data
  <2> QED BY <2>1 DEF ListsItem, Ents
<1> HIDE DEF s, c, e
<1>9. fr'[p].arr = Dir(s)  BY <1>0, <1>6 DEF Frame
<1> QED BY <1>2, <1>6, <1>7, <1>8, <1>9

\* While an activation runs alone, a step does not touch what it has prepared.
LEMMA FrameRests ==
  ASSUME IInv, [Next]_vars, NEW p \in Paths, fr[p].ph \in {"dirblk", "init"},
         fr'[p].ph = fr[p].ph
  PROVE  UNCHANGED vars
<1>0. TypeOK /\ fr \in [Paths -> Frame]  BY DEF IInv, TypeOK
<1>1. Running(fr, p)  BY DEF Running, Busy, WaitsFor
<1>2. ~Crash  BY DEF Crash, Lose, NoFrame
<1>3. ASSUME fcreateStep(p)  PROVE FALSE
  <2>1. fuloaddir(p) \/ fcreateInit(p)
    BY <1>3
       DEF fcreateStep, fcreateExists, fcreateAlloc, fcreateFull, fgetparent, floadhdir,
           fdiraddGrow, fdiraddSpin, fdiraddEntry, fdiraddOverrun, fuloaddir, fcreateInit, InPhase
  <2>2. CASE fuloaddir(p)
    <3>1. fr' = [fr EXCEPT ![p].ph = "init"]  BY <2>2 DEF fuloaddir, Goto
    <3>2. fr'[p].ph = "init"  BY <1>0, <3>1 DEF Frame
    <3> QED BY <2>2, <3>2 DEF fuloaddir, InPhase
  <2>3. CASE fcreateInit(p)
    <3>1. fr' = [fr EXCEPT ![p] = NoFrame]  BY <2>3 DEF fcreateInit, Return
    <3>2. fr'[p].ph = "none"  BY <1>0, <3>1 DEF NoFrame
    <3> QED BY <3>2
  <2> QED BY <2>1, <2>2, <2>3
<1> QED BY <1>1, <1>2, <1>3, OnlyFrame

\* Every step keeps the arrays that wait to be written.
LEMMA ArraysNext ==
  ASSUME DirsFit, IInv, DirOK, DirsOK, ArraysOK, [Next]_vars
  PROVE  ArraysOK'
<1>0. \A p \in Nested : p \in Paths  BY DirsArePaths
<1> SUFFICES ASSUME NEW p \in Nested, fr'[p].ph = "dirblk"
             PROVE  /\ ListsItem(fr'[p].arr, p)
                    /\ \E c \in Clusters :
                          /\ SlotAt(map', c, Parent[p])
                          /\ \A x \in Paths : ListsItem(blk'[c], x) => ListsItem(fr'[p].arr, x)
  BY DEF ArraysOK
<1>1. CASE fr[p].ph = "dirblk"
  <2>1. UNCHANGED vars  BY <1>0, <1>1, FrameRests
  <2>2. map' = map /\ blk' = blk /\ fr' = fr  BY <2>1 DEF vars
  <2> QED BY <1>1, <2>2 DEF ArraysOK
<1>2. CASE fr[p].ph # "dirblk"
  <2>1. fdiraddEntry(p) \/ fdiraddOverrun(p)  BY <1>0, <1>2, FrameMoves DEF Entered
  <2>2. /\ ListsItem(fr'[p].arr, p) /\ map' = map /\ blk' = blk
        /\ \E c \in Clusters :
             /\ SlotAt(map, c, Parent[p])
             /\ \A x \in Paths : ListsItem(blk[c], x) => ListsItem(fr'[p].arr, x)
    BY <2>1, ArrayLists
  <2> QED BY <2>2
<1> QED BY <1>1, <1>2

\* Initially there are no entries, no activations and no open handles.
LEMMA InitDirs == Init => DirOK /\ HandlesOK /\ DirsOK /\ ArraysOK
<1> SUFFICES ASSUME Init PROVE DirOK /\ HandlesOK /\ DirsOK /\ ArraysOK  OBVIOUS
<1>1. Opened \subseteq Paths  BY FratAssumption DEF Opened
<1>2. HandlesOK  BY <1>1 DEF Init, HandlesOK, Closed, Idle, NoFrame
<1>3. DirOK  BY DEF Init, DirOK, Zero, Data, NoFrame
<1>4. DirsOK
  BY DirsArePaths DEF Init, DirsOK, DirHeads, HeadAt, SlotAt, EmptyMap, IsDir, NoFrame
<1>5. ArraysOK  BY DirsArePaths DEF Init, ArraysOK, NoFrame
<1> QED BY <1>2, <1>3, <1>4, <1>5

\* The block that the map, on disk or in memory, names as the first of a
\* directory is a list in which exactly the last entry has local = 0 and no item
\* is listed twice; a crash between the flush of the map and the write of the
\* block included.  For directories that cannot be filled (DirsFit) and clients
\* that leave open items and directories alone (KeepsOpened, KeepsDirs).
THEOREM FratListEnds ==
  ASSUME DirsFit, KeepsOpened, KeepsDirs PROVE Spec => []ListEnds
<1> DEFINE Inv == IInv /\ DirOK /\ HandlesOK /\ DirsOK /\ ArraysOK
<1>1. Init => Inv  BY InitIInv, InitDirs
<1>2. Inv /\ [Next]_vars => Inv'
  BY NextIInv, DirNext, HandlesNext, DirsNext, ArraysNext
<1>3. Inv => ListEnds
  <2> SUFFICES ASSUME Inv, NEW p \in Paths, NEW c \in Clusters, Parent[p] # NoParent,
                      SlotAt(map, c, Parent[p]) \/ SlotAt(dmap, c, Parent[p])
               PROVE  IsDir(blk[c]) /\ EndsWell(Ents(blk[c]))
    BY DEF ListEnds, SlotAt
  <2>1. Parent[p] \in Dirs  BY DEF Dirs, Nested
  <2>2. IsDir(blk[c])  BY <2>1 DEF DirsOK
  <2> DEFINE e == Ents(blk[c])
  <2>3. e \in Seq(Entry) /\ GoodList(e)  BY <2>2, EntsGood DEF IInv
  <2> HIDE DEF e
  <2>4. DOMAIN e = 1 .. Len(e)  BY <2>3, LenProperties
  <2>5. EndsWell(e)  BY <2>3, <2>4 DEF EndsWell, GoodList
  <2> QED BY <2>2, <2>5 DEF e
<1> HIDE DEF Inv
<1> QED BY <1>1, <1>2, <1>3, PTL DEF Spec

\* A directory that is made on demand gets its entry: only the item a call is
\* about can fail for want of room.
RoomStep == \A p \in Paths : p # cur.path => ~fcreateFull(p)
RoomForParents == [][RoomStep]_vars

\* Behind every step a create that stops waiting for its parent finds it.
LEMMA WaitFinds ==
  ASSUME KeepsDirs, IInv, ListingOK, [Next]_vars, NEW p \in Nested,
         RoomStep,
         fr'[p].ph = "wait", fr'[Parent[p]].ph = "none"
  PROVE  Exists(map', Parent[p])
<1> DEFINE q == Parent[p]
<1>0. /\ TypeOK /\ FrameOwns /\ CallsOK /\ fr \in [Paths -> Frame]
      /\ p \in Paths /\ q \in Paths /\ p # q /\ Parent[p] # NoParent
  <2>1. p \in Paths /\ q \in Paths /\ Parent[p] # NoParent
    BY DirsArePaths DEF Nested
  <2>2. p # q  BY <2>1, ParentDepth
  <2> QED BY <2>1, <2>2 DEF IInv, TypeOK
<1>l. ~Lose  BY <1>0 DEF Lose, NoFrame
<1>1. CASE fr[p].ph # "wait"
  <2>1. fgetparent(p)  BY <1>0, <1>1, FrameMoves DEF Entered
  <2>2. CASE Exists(map, q)  BY <2>1, <2>2 DEF fgetparent
  <2>3. CASE ~Exists(map, q)
    <3> DEFINE w == [fr EXCEPT ![p].ph = "wait"]
    <3>1. fr' = Enter(w, q, {"d", "c"})  BY <1>0, <2>1, <2>3 DEF fgetparent
    <3>2. DOMAIN w = Paths  BY <1>0
    <3> HIDE DEF w
    <3>3. fr'[q].ph = "alloc"  BY <1>0, <3>1, <3>2 DEF Enter, NoFrame
    <3> QED BY <3>3
  <2> QED BY <2>2, <2>3
<1>2. CASE fr[p].ph = "wait" /\ fr[q].ph = "none"
  <2>1. Running(fr, p)  BY <1>2 DEF Running, Busy, WaitsFor
  <2>2. fcreateStep(p) \/ UNCHANGED vars
    BY <1>0, <1>l, <2>1, OnlyFrame DEF Crash
  <2>3. ~fcreateStep(p)
    <3> SUFFICES ASSUME fcreateStep(p) PROVE FALSE  OBVIOUS
    <3>1. floadhdir(p)
      BY <1>2
         DEF fcreateStep, fcreateExists, fcreateAlloc, fcreateFull, fgetparent,
             fdiraddGrow, fdiraddSpin, fdiraddEntry, fdiraddOverrun, fuloaddir, fcreateInit, InPhase
    <3>2. \E x \in {"dir", "init"} : fr' = [fr EXCEPT ![p].ph = x]
      BY <3>1 DEF floadhdir, Goto
    <3>3. fr'[p].ph \in {"dir", "init"}  BY <1>0, <3>2 DEF Frame
    <3> QED BY <3>3
  <2>4. map' = map  BY <2>2, <2>3 DEF vars
  <2> QED BY <1>2, <2>4 DEF ListingOK
<1>3. CASE fr[p].ph = "wait" /\ fr[q].ph # "none"
  <2>1. fcreateExists(q) \/ fcreateFull(q) \/ fcreateInit(q)
    BY <1>0, <1>3, <1>l, FrameMoves DEF Entered
  <2>2. q # cur.path
    <3>1. Depth \in [Paths -> Nat] /\ Depth[q] < Depth[p]  BY <1>0, FratAssumption
    <3>2. p # cur.path => Depth[p] < Depth[cur.path]
      BY <1>0, <1>3 DEF CallsOK, Stack, Busy
    <3>3. cur.path \in Paths  BY <1>0 DEF TypeOK, Call
    <3> QED BY <1>0, <3>1, <3>2, <3>3
  <2>3. CASE fcreateExists(q)  BY <2>3 DEF fcreateExists
  <2>4. CASE fcreateInit(q)
    <3>1. fr[q].ph = "init" /\ map' = map  BY <2>4 DEF fcreateInit, InPhase
    <3>2. map[fr[q].cl].code = q /\ map[fr[q].cl].idx = 0 /\ fr[q].cl \in Clusters
      BY <1>0, <3>1 DEF FrameOwns, Frame
    <3> QED BY <3>1, <3>2, ExistsIff
  <2> QED BY <1>0, <2>1, <2>2, <2>3, <2>4 DEF RoomStep
<1> QED BY <1>1, <1>2, <1>3

\* The first block of a directory goes on listing what it lists.
LEMMA BlockKeepsItem ==
  ASSUME KeepsDirs, IInv, HandlesOK, ArraysOK, [Next]_vars, up, NEW p \in Nested,
         NEW c \in Clusters, SlotAt(map, c, Parent[p]), ListsItem(blk[c], p)
  PROVE  ListsItem(blk'[c], p)
<1> DEFINE q == Parent[p]
<1>0. MapInv /\ p \in Paths /\ q \in Dirs /\ q # Unused  BY DirsArePaths DEF IInv
<1> SUFFICES ASSUME blk'[c] # blk[c] PROVE ListsItem(blk'[c], p)  OBVIOUS
<1>1. PICK x \in Nested : fr[x].ph = "dirblk" /\ Parent[x] = q /\ blk'[c] = fr[x].arr
  BY <1>0, SlotBlock
<1>2. PICK e \in Clusters :
        /\ SlotAt(map, e, q)
        /\ \A y \in Paths : ListsItem(blk[e], y) => ListsItem(fr[x].arr, y)
  BY <1>1 DEF ArraysOK
<1>3. e = c
  BY <1>0, <1>2 DEF SlotAt, MapInv, MapOK, UniqueIndex
<1> QED BY <1>0, <1>1, <1>2, <1>3

\* An item that is listed in the block the live map points at stays so.
LEMMA InMapStays ==
  ASSUME KeepsDirs, IInv, HandlesOK, ArraysOK, [Next]_vars, up, up', NEW p \in Nested,
         InMap(p)
  PROVE  InMap(p)'
<1> DEFINE q == Parent[p]
<1>0. MapInv /\ p \in Paths /\ q \in Dirs /\ q # Unused  BY DirsArePaths DEF IInv
<1>1. PICK c \in Clusters : SlotAt(map, c, q) /\ ListsItem(blk[c], p)  BY DEF InMap
<1>2. SlotAt(map', c, q)  BY <1>0, <1>1, SlotStays
<1>3. ListsItem(blk'[c], p)
  BY <1>0, <1>1, BlockKeepsItem
<1> QED BY <1>2, <1>3 DEF InMap

\* Every step keeps what the creates in progress have prepared.
LEMMA ListingNext ==
  ASSUME KeepsDirs, IInv, HandlesOK, DirsOK, ArraysOK, ListingOK, [Next]_vars, RoomStep
  PROVE  ListingOK'
<1>0. /\ TypeOK /\ MapInv /\ FrameOwns /\ CallsOK /\ fr \in [Paths -> Frame]
      /\ blk \in [Clusters -> Block]
      /\ \A p \in Nested : p \in Paths /\ Parent[p] \in Dirs /\ Parent[p] \in Paths
  BY DirsArePaths DEF IInv, TypeOK
<1>1. ASSUME NEW p \in Nested, fr'[p].ph = "wait", fr'[Parent[p]].ph = "none"
      PROVE  Exists(map', Parent[p])
  BY <1>1, WaitFinds
<1>3. ASSUME NEW p \in Nested, fr'[p].ph = "init"  PROVE InMap(p)'
  <2>1. CASE fr[p].ph = "init"
    <3>1. UNCHANGED vars  BY <1>0, <1>3, <2>1, FrameRests
    <3>2. map' = map /\ blk' = blk  BY <3>1 DEF vars
    <3> QED BY <2>1, <3>2 DEF ListingOK, InMap
  <2>2. CASE fr[p].ph # "init"
    <3>1. fgetparent(p) \/ floadhdir(p) \/ fuloaddir(p)
      BY <1>0, <1>3, <2>2, FrameMoves DEF Entered
    <3>2. ASSUME fgetparent(p)  PROVE FALSE
      <4> DEFINE q == Parent[p]
                 w == [fr EXCEPT ![p].ph = "wait"]
      <4>1. p \in Paths /\ q # NoParent  BY <1>0 DEF Nested
      <4>2. q \in Paths /\ q # p  BY <4>1, ParentDepth
      <4>3. fr' = w \/ fr' = Enter(w, q, {"d", "c"})  BY <3>2, <4>1 DEF fgetparent
      <4>4. w \in [Paths -> Frame] /\ w[p].ph = "wait"  BY <1>0, <4>1 DEF Frame, Phases
      <4> HIDE DEF w
      <4>5. fr'[p].ph = "wait"  BY <4>2, <4>1, <4>3, <4>4 DEF Enter
      <4> QED BY <1>3, <4>5
    <3>3. ASSUME floadhdir(p)  PROVE FALSE
      <4> DEFINE f == ffind(map, Parent[p])
      <4>1. fr[p].ph = "wait" /\ fr[Parent[p]].ph = "none"
        BY <3>3 DEF floadhdir, InPhase
      <4>2. Exists(map, Parent[p])  BY <4>1 DEF ListingOK
      <4>3. f \in Clusters /\ HeadAt(map, f, Parent[p])  BY <4>2, FindHead DEF HeadAt
      <4>4. "directory" \in map[f].attr  BY <1>0, <4>3 DEF DirsOK, DirHeads
      <4>5. fr' = [fr EXCEPT ![p].ph = "dir"]  BY <3>3, <4>2, <4>4 DEF floadhdir, Goto
      <4>6. fr'[p].ph = "dir"  BY <1>0, <4>5 DEF Frame
      <4> QED BY <1>3, <4>6
    <3>4. CASE fuloaddir(p)
      <4>1. fr[p].ph = "dirblk" /\ map' = map  BY <3>4 DEF fuloaddir, InPhase
      <4>2. PICK c \in Clusters : SlotAt(map, c, Parent[p])  BY <4>1 DEF ArraysOK
      <4>3. blk'[c] = fr[p].arr  BY <3>4, <4>2 DEF fuloaddir, SlotAt
      <4>4. ListsItem(fr[p].arr, p)  BY <4>1 DEF ArraysOK
      <4> QED BY <4>1, <4>2, <4>3, <4>4 DEF InMap
    <3> QED BY <3>1, <3>2, <3>3, <3>4
  <2> QED BY <2>1, <2>2
<1>4. ASSUME NEW p \in Nested, up', Exists(map', p), p \notin unlisted',
             fr'[p].ph \in {"none", "alloc"}
      PROVE  InMap(p)'
  <2>1. CASE ~up
    <3>1. fmount  BY <1>4, <2>1, OnlyMount DEF vars
    <3>2. map' = dmap /\ blk' = blk /\ (Exists(dmap, p) => InParent(p))
      BY <1>0, <1>4, <3>1 DEF fmount, NoteTorn, disk, Nested
    <3>3. InParent(p)  BY <1>4, <3>2
    <3> QED BY <3>2, <3>3 DEF InParent, InMap, SlotAt
  <2>2. CASE up
    <3>1. p \notin unlisted  BY <1>0, <1>4, <2>2, Forgotten
    <3>2. CASE fr[p].ph \in {"none", "alloc"}
      <4>1. Exists(map, p)
        <5>1. PICK c \in Clusters : map'[c].code = p /\ map'[c].idx = 0
          BY <1>4, ExistsIff
        <5>2. map'[c] = map[c]
          <6>1. p # Unused  BY <1>0, MapAssumption
          <6> QED BY <1>4, <2>2, <5>1, <6>1, EntryFilled
        <5> QED BY <5>1, <5>2, ExistsIff
      <4>2. InMap(p)  BY <2>2, <3>1, <3>2, <4>1 DEF ListingOK
      <4> QED BY <1>4, <2>2, <4>2, InMapStays
    <3>3. CASE fr[p].ph \notin {"none", "alloc"}
      <4>1. ~Lose  BY <1>4 DEF Lose
      <4>2. fr'[p].ph = "none"  BY <1>0, <1>4, <3>3, AllocComes
      <4>3. fcreateExists(p) \/ fcreateFull(p) \/ fcreateInit(p)
        BY <1>0, <3>3, <4>1, <4>2, FrameMoves DEF Entered
      <4>4. fr[p].ph = "init"
        BY <3>3, <4>3 DEF fcreateExists, fcreateFull, fcreateInit, InPhase
      <4>5. InMap(p)  BY <4>4 DEF ListingOK
      <4> QED BY <1>4, <2>2, <4>5, InMapStays
    <3> QED BY <3>2, <3>3
  <2> QED BY <2>1, <2>2
<1> QED BY <1>1, <1>3, <1>4 DEF ListingOK

\* The block of p's parent that the map on disk points at lists p.
OnDisk(p) == \E c \in Clusters : SlotAt(dmap, c, Parent[p]) /\ ListsItem(blk[c], p)
AllListed == \A p \in committed \ unlisted : p \in Nested => OnDisk(p)

\* Every step keeps the committed items listed.
LEMMA ListedNext ==
  ASSUME KeepsDirs, IInv, HandlesOK, DirsOK, ArraysOK, ListingOK, HeadsOK, AllListed,
         [Next]_vars
  PROVE  AllListed'
<1>0. TypeOK /\ MapInv  BY DEF IInv
<1> SUFFICES ASSUME NEW p \in committed' \ unlisted', p \in Nested  PROVE OnDisk(p)'
  BY DEF AllListed
<1> DEFINE q == Parent[p]
<1>p. p \in Paths /\ q \in Dirs /\ q # Unused /\ q # NoParent
  BY DirsArePaths DEF Nested
<1>1. CASE p \in committed /\ p \notin unlisted
  <2>1. PICK c \in Clusters : SlotAt(dmap, c, q) /\ ListsItem(blk[c], p)
    BY <1>1 DEF AllListed, OnDisk
  <2>2. CASE ~up
    <3>1. dmap' = dmap /\ blk' = blk  BY <2>2, DeadKeeps
    <3> QED BY <2>1, <3>1 DEF OnDisk
  <2>3. CASE up
    <3>1. SlotAt(map, c, q)  BY <1>p, <2>1, <2>3 DEF DirsOK
    <3>2. SlotAt(dmap', c, q)  BY <2>1, <3>1, Flushes
    <3>3. ListsItem(blk'[c], p)  BY <2>1, <2>3, <3>1, BlockKeepsItem
    <3> QED BY <3>2, <3>3 DEF OnDisk
  <2> QED BY <2>2, <2>3
<1>2. CASE p \in committed /\ p \in unlisted
  <2>1. ~up
    <3>1. ASSUME up  PROVE FALSE
      <4>1. fcreateAlloc(p)  BY <1>0, <1>2, <1>p, <3>1, Forgotten
      <4> QED BY <4>1 DEF fcreateAlloc
    <3> QED BY <3>1
  <2>2. fmount  BY <1>2, <2>1, OnlyMount DEF vars
  <2>3. dmap' = dmap /\ blk' = blk /\ (Exists(dmap, p) => InParent(p))
    BY <1>p, <2>2 DEF fmount, NoteTorn, disk
  <2>4. Exists(dmap, p)  BY <1>2, ExistsIff DEF HeadsOK, HeadAt
  <2> QED BY <2>3, <2>4 DEF InParent, OnDisk, SlotAt
<1>3. CASE p \notin committed
  <2>1. shellcreateDone  BY <1>3, CommitOnly
  <2>2. /\ p = cur.path /\ fr[p].ph = "none" /\ up /\ Exists(map, p)
        /\ dmap' = map /\ blk' = blk /\ unlisted' = unlisted
    BY <1>3, <2>1 DEF shellcreateDone, Created
  <2>3. InMap(p)  BY <2>2 DEF ListingOK
  <2> QED BY <2>2, <2>3 DEF InMap, OnDisk
<1> QED BY <1>1, <1>2, <1>3

\* An item whose create command has returned is listed on disk in its parent
\* until it is deleted, unless the mount found its entry unlisted: whatever is
\* created beside it, killed between the flush of the map and the write of the
\* block, and mounted again.  For clients that leave open items and directories
\* alone (KeepsOpened, KeepsDirs), directories that cannot be filled (DirsFit),
\* and as long as a directory made on demand gets its entry (RoomForParents).
THEOREM FratListed ==
  ASSUME DirsFit, KeepsOpened, KeepsDirs
  PROVE  Spec /\ RoomForParents => []Listed
<1> DEFINE Inv == /\ IInv /\ DirOK /\ HandlesOK /\ DirsOK /\ ArraysOK /\ ListingOK
                  /\ HeadsOK /\ AllListed
<1>1. Init => Inv
  <2>1. Init => ListingOK  BY DirsArePaths DEF Init, ListingOK, NoFrame
  <2>2. Init => HeadsOK /\ AllListed  BY DEF Init, HeadsOK, AllListed
  <2> QED BY <2>1, <2>2, InitIInv, InitDirs
<1>2. ASSUME Inv, [Next]_vars, [RoomStep]_vars  PROVE Inv'
  <2>0. /\ IInv' /\ DirOK' /\ HandlesOK' /\ DirsOK' /\ ArraysOK' /\ HeadsOK' /\ AllListed'
    BY <1>2, NextIInv, DirNext, HandlesNext, DirsNext, ArraysNext, HeadsNext, ListedNext
  <2>1. CASE UNCHANGED vars
    <3>1. ListingOK'  BY <1>2, <2>1 DEF vars, ListingOK, InMap
    <3> QED BY <2>0, <3>1
  <2>2. CASE RoomStep
    <3>1. ListingOK'  BY <1>2, <2>2, ListingNext
    <3> QED BY <2>0, <3>1
  <2> QED BY <1>2, <2>1, <2>2
<1>3. Inv /\ [Next]_vars /\ [RoomStep]_vars => Inv'  BY <1>2
<1>4. Inv => Listed
  <2> SUFFICES ASSUME AllListed, NEW p \in committed \ unlisted, p \in Paths,
                      Parent[p] # NoParent
               PROVE  InParent(p)
    BY DEF Listed, IInv, TypeOK
  <2>1. OnDisk(p)  BY DEF Nested, AllListed
  <2> QED BY <2>1 DEF OnDisk, SlotAt, InParent
<1> HIDE DEF Inv
<1> QED BY <1>1, <1>3, <1>4, PTL DEF Spec, RoomForParents

=============================================================================
