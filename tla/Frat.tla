-------------------------------- MODULE Frat --------------------------------
(***************************************************************************)
(* A mounted FrAT file system (tools/filesystem/frat.c) used through the   *)
(* commands of the shell.  The cluster map is cached in memory (map) and   *)
(* reaches the disk (dmap) only when fuloadroot runs; data, metadata and   *)
(* directory blocks (blk) are written at once.  The program is single      *)
(* threaded, so a call runs to its end unless the process dies: the steps  *)
(* below are the points between two disk writes at which it can.           *)
(***************************************************************************)
EXTENDS FratMap, Sequences

Letters == {"c", "d", "f", "r", "F", "P"}   \* of create and open arguments

CONSTANTS
    NoParent,     \* the parent of an item at the top level
    Parent,       \* [Paths -> Paths \cup {NoParent}], what __fgetparent cuts off
    Depth,        \* [Paths -> Nat], the number of separators in a path
    Handles,      \* the file handles (fhandle) a client can hold
    B,            \* confBlockSize, in cells
    PosMax,       \* UINT64_MAX: the largest byte position
    DirCap,       \* diritems that fit in one block
    Values, Blank, Garbage,   \* cell contents: client data, zero, anything else
    \* The inputs a client chooses from.
    Creates, Opens,           \* pairs of a path and the letters of the argument
    DeletePaths,              \* items deleted
    SeekTo, SeekBy, Lengths,  \* positions, offsets and byte counts
    Reach                     \* bound: no call is made that would end beyond it

ASSUME FratAssumption ==
    /\ NoParent \notin Paths
    /\ Parent \in [Paths -> Paths \cup {NoParent}]
    /\ Depth \in [Paths -> Nat]
    /\ \A p \in Paths : Parent[p] # NoParent => Depth[Parent[p]] < Depth[p]
    /\ B \in Nat \ {0} /\ PosMax \in Nat /\ B < PosMax
    /\ DirCap \in Nat \ {0}
    /\ Paths # {} /\ Handles # {} /\ Values # {}
    /\ SeekTo \subseteq 0 .. PosMax /\ SeekBy \subseteq Int
    /\ Lengths \subseteq Nat \ {0} /\ Reach \in Nat
    /\ Creates \cup Opens \subseteq Paths \X SUBSET Letters
    /\ DeletePaths \subseteq Paths

VARIABLES
    up,        \* the file system is mounted and the process alive
    map,       \* root->clusterbuffer.clusterMap
    lastAlloc, \* root->lastClusterAlloc
    fh,        \* the open file handles
    fr,        \* the activation records of __fcreate, at most one per path
    cur,       \* the call in progress
    dmap,      \* the cluster map on disk
    blk,       \* the data area: the block at getloc of each entry
    \* History:
    committed, \* items whose create command has returned
    torn,      \* items the mounted disk had an entry for, but no metadata
    unlisted   \* items the mounted disk had an entry for, but not in the parent

mem  == <<map, lastAlloc, fh, fr, cur>>
disk == <<dmap, blk>>
vars == <<up, map, lastAlloc, fh, fr, cur, dmap, blk, committed, torn, unlisted>>

----------------------------------------------------------------------------
(* Blocks.                                                                 *)

Cell   == Values \cup {Blank, Garbage}
Cells  == [0 .. B - 1 -> Cell]
Entry  == [code : Codes, last : BOOLEAN]   \* diritem; last is local = 0
Data(f)    == [kind |-> "data", cells |-> f]
Meta(c, a) == [kind |-> "meta", code |-> c, attr |-> a]
Dir(e)     == [kind |-> "dir", ents |-> e]
Block  == {Data(f) : f \in Cells}
            \cup [kind : {"meta"}, code : Codes, attr : SUBSET Attributes]
            \cup [kind : {"dir"}, ents : Seq(Entry)]
Zero == Data([k \in 0 .. B - 1 |-> Blank])
Junk == Data([k \in 0 .. B - 1 |-> Garbage])

\* The bytes of a block read as file data.
CellsOf(b) == IF b.kind = "data" THEN b.cells ELSE Junk.cells

\* __fupdatetstamp: harmless to a metadata block, it overwrites part of any
\* other block.
Stamp(b) == IF b.kind = "meta" THEN b ELSE Junk

\* __finit: a proxy's metadata carries the code 0.
finit(e) == Meta(IF "proxy" \in e.attr THEN Unused ELSE e.code,
                 e.attr \ {"metadatacluster"})

----------------------------------------------------------------------------
Phases == {"none", "alloc", "parent", "wait", "dir", "dirblk", "init"}
Frame == [ph : Phases, cl : Clusters, flags : SUBSET Letters, arr : Block]
NoFrame == [ph |-> "none", cl |-> 0, flags |-> {}, arr |-> Zero]

fhandle == [open : BOOLEAN, cl : Clusters, path : Paths, pos : 0 .. PosMax]
AnyPath == CHOOSE p \in Paths : TRUE
Closed  == [open |-> FALSE, cl |-> 0, path |-> AnyPath, pos |-> B]

Calls == {"idle", "create", "open", "write"}
Call  == [call : Calls, path : Paths, h : Handles,
          pos : 0 .. PosMax, left : Nat, val : Values]
Idle  == [call |-> "idle", path |-> AnyPath, h |-> CHOOSE h \in Handles : TRUE,
          pos |-> 0, left |-> 0, val |-> CHOOSE v \in Values : TRUE]

Quiet == up /\ cur.call = "idle"

Init ==
    /\ up = FALSE
    /\ map = EmptyMap /\ lastAlloc = 0
    /\ fh = [h \in Handles |-> Closed]
    /\ fr = [p \in Paths |-> NoFrame]
    /\ cur = Idle
    /\ dmap = EmptyMap
    /\ blk = [c \in Clusters |-> Zero]
    /\ committed = {} /\ torn = {} /\ unlisted = {}

\* The process is gone: whatever was only in memory is lost.
Lose ==
    /\ up' = FALSE
    /\ map' = EmptyMap /\ lastAlloc' = 0
    /\ fh' = [h \in Handles |-> Closed]
    /\ fr' = [p \in Paths |-> NoFrame]
    /\ cur' = Idle

\* What the disk holds of an item besides its entry in the map.
MetaOf(b, p) == b.kind = "meta" /\ b.code \in {p, Unused}
HasMeta(p) == \E c \in Clusters :
    dmap[c].code = p /\ dmap[c].idx = 0 /\ MetaOf(blk[c], p)
ListsItem(b, p) == b.kind = "dir" /\ \E k \in DOMAIN b.ents : b.ents[k].code = p
InParent(p) == \E c \in Clusters :
    dmap[c].code = Parent[p] /\ dmap[c].idx = 1 /\ ListsItem(blk[c], p)

\* What an earlier crash has left unfinished is noted by the mount.
NoteTorn ==
    /\ torn' = {p \in Paths : Exists(dmap, p) /\ ~HasMeta(p)}
    /\ unlisted' = {p \in Paths : Exists(dmap, p) /\ Parent[p] # NoParent /\ ~InParent(p)}

\* Variant: the map is not read back.
fmountFresh ==
    /\ ~up
    /\ up' = TRUE
    /\ map' = EmptyMap /\ lastAlloc' = 0
    /\ NoteTorn
    /\ UNCHANGED <<fh, fr, cur, disk, committed>>

\* fmount reads the cluster map back and starts allocation at entry 0.
fmount ==
    /\ ~up
    /\ up' = TRUE
    /\ map' = dmap /\ lastAlloc' = 0
    /\ NoteTorn
    /\ UNCHANGED <<fh, fr, cur, disk, committed>>

\* The process is killed, or crash() of main.c ends it after a signal.
Crash ==
    /\ up
    /\ Lose
    /\ UNCHANGED <<disk, committed, torn, unlisted>>

\* exit: every handle symbol is unloaded, then the root; all of it flushes.
shellexit ==
    /\ Quiet
    /\ dmap' = map
    /\ Lose
    /\ UNCHANGED <<blk, committed, torn, unlisted>>

----------------------------------------------------------------------------
(* __fcreate.  Creating an item creates its missing parents first, by      *)
(* recursion through __fgetparent and floadhdir; the activation of a path  *)
(* that waits for its parent has phase "wait".                             *)

Enter(f, p, flags) == [f EXCEPT ![p] = [NoFrame EXCEPT !.ph = "alloc", !.flags = flags]]
Goto(p, ph)        == fr' = [fr EXCEPT ![p].ph = ph]
Return(p)          == fr' = [fr EXCEPT ![p] = NoFrame]
InPhase(p, ph)     == up /\ fr[p].ph = ph

\* The item exists and 'F' (force) was not given.
fcreateExists(p) ==
    /\ InPhase(p, "alloc")
    /\ Exists(map, p) /\ "F" \notin fr[p].flags
    /\ Return(p)
    /\ UNCHANGED <<up, map, lastAlloc, fh, cur, disk, committed, torn, unlisted>>

\* 'F' removes the old metadata entry before a new one is allocated.
Cleared(p) == IF Exists(map, p) THEN ffremove(map, p) ELSE map
Replaces(p) == Exists(map, p) => "F" \in fr[p].flags

\* The entry gets its code before the parent is looked for, so that no
\* allocation made on behalf of the parent can return the same entry.
fcreateAlloc(p) ==
    LET m == Cleared(p)
        c == allocatecluster(m, lastAlloc)
    IN  /\ InPhase(p, "alloc") /\ Replaces(p)
        /\ CanAlloc(m, lastAlloc)
        /\ map' = NewHead(m, c, p, fr[p].flags)
        /\ lastAlloc' = c
        /\ fr' = [fr EXCEPT ![p].ph = "parent", ![p].cl = c]
        /\ committed' = committed \ {p}
        /\ torn' = torn \ {p} /\ unlisted' = unlisted \ {p}
        /\ UNCHANGED <<up, fh, cur, disk>>

\* Variant: a failed scan leaves lastClusterAlloc behind the map.
fcreateFullNoReset(p) ==
    /\ InPhase(p, "alloc") /\ Replaces(p)
    /\ ~CanAlloc(Cleared(p), lastAlloc)
    /\ map' = Cleared(p) /\ lastAlloc' = N
    /\ Return(p)
    /\ committed' = committed \ {p}
    /\ UNCHANGED <<up, fh, cur, disk, torn, unlisted>>

fcreateFull(p) ==
    /\ InPhase(p, "alloc") /\ Replaces(p)
    /\ ~CanAlloc(Cleared(p), lastAlloc)
    /\ map' = Cleared(p) /\ lastAlloc' = 0
    /\ Return(p)
    /\ committed' = committed \ {p}
    /\ UNCHANGED <<up, fh, cur, disk, torn, unlisted>>

\* __fgetparent: floadhdir(parent, "dc") creates the parent when it is absent.
fgetparent(p) ==
    /\ InPhase(p, "parent")
    /\ fr' = IF Parent[p] = NoParent THEN [fr EXCEPT ![p].ph = "init"]
             ELSE LET w == [fr EXCEPT ![p].ph = "wait"]
                  IN  IF Exists(map, Parent[p]) THEN w
                      ELSE Enter(w, Parent[p], {"d", "c"})
    /\ UNCHANGED <<up, map, lastAlloc, fh, cur, disk, committed, torn, unlisted>>

\* Variant: the parent is tried again until it exists.
floadhdirRetry(p) ==
    /\ InPhase(p, "wait") /\ fr[Parent[p]].ph = "none"
    /\ fr' = IF Exists(map, Parent[p]) THEN [fr EXCEPT ![p].ph = "dir"]
             ELSE Enter(fr, Parent[p], {"d", "c"})
    /\ UNCHANGED <<up, map, lastAlloc, fh, cur, disk, committed, torn, unlisted>>

\* The rest of floadhdir: no handle when the parent could not be created or
\* is not a directory, and then the item is not listed anywhere.
floadhdir(p) ==
    /\ InPhase(p, "wait") /\ fr[Parent[p]].ph = "none"
    /\ Goto(p, IF /\ Exists(map, Parent[p])
                  /\ "directory" \in map[ffind(map, Parent[p])].attr
               THEN "dir" ELSE "init")
    /\ UNCHANGED <<up, map, lastAlloc, fh, cur, disk, committed, torn, unlisted>>

\* __fdiradd of a directory without a data block adds one, zeroed on disk,
\* and tries again; it does so for ever when there is no entry to be had.
fdiraddGrow(p) ==
    LET c == allocatecluster(map, lastAlloc)
    IN  /\ InPhase(p, "dir") /\ ~Found(map, Parent[p], 1)
        /\ CanAlloc(map, lastAlloc)
        /\ map' = faddr(map, c, ffind(map, Parent[p]))
        /\ lastAlloc' = c
        /\ blk' = [blk EXCEPT ![c] = Zero]
        /\ UNCHANGED <<up, fh, fr, cur, dmap, committed, torn, unlisted>>

fdiraddSpin(p) ==
    /\ InPhase(p, "dir") /\ ~Found(map, Parent[p], 1)
    /\ ~CanAlloc(map, lastAlloc)
    /\ lastAlloc' = 0
    /\ UNCHANGED <<up, map, fh, fr, cur, disk, committed, torn, unlisted>>

\* What __fdirrefresh reads: the first data block of the directory.
DirBlock(p) == blk[ffindhi(map, Parent[p], 1)]
IsDir(b)    == b.kind = "dir" \/ b = Zero
Ents(b)     == IF b = Zero THEN <<>> ELSE b.ents
Slots(e, p) == {k \in 1 .. Len(e) : e[k].code \in {p, Unused}}
PassedAsIs(e, k) == e   \* variant: local is not counted up
Passed(e, k) == [j \in DOMAIN e |-> IF j < k THEN [e[j] EXCEPT !.last = FALSE] ELSE e[j]]

\* The walk of __fdiradd: it counts up `local' of every entry it passes, and
\* stops at the item's own entry or takes the first free one.
fdiradd(e, p) ==
    IF Slots(e, p) # {}
    THEN LET k == Min(Slots(e, p))
         IN  [Passed(e, k) EXCEPT ![k] =
                 IF @.code = p THEN @ ELSE [code |-> p, last |-> TRUE]]
    ELSE Append(Passed(e, Len(e) + 1), [code |-> p, last |-> TRUE])

\* The entry is put in the loaded array; fuloaddir then flushes the root,
\* which is the first disk write, and after it the blocks of the directory.
fdiraddEntry(p) ==
    /\ InPhase(p, "dir") /\ Found(map, Parent[p], 1)
    /\ IsDir(DirBlock(p))
    /\ Slots(Ents(DirBlock(p)), p) # {} \/ Len(Ents(DirBlock(p))) < DirCap
    /\ fr' = [fr EXCEPT ![p].ph = "dirblk", ![p].arr = Dir(fdiradd(Ents(DirBlock(p)), p))]
    /\ dmap' = map
    /\ UNCHANGED <<up, map, lastAlloc, fh, cur, blk, committed, torn, unlisted>>

\* Undefined behaviour: every slot is taken, or the block holds no entries,
\* and the walk leaves the array.  It faults, or it finds a zero word behind
\* the array and the new entry is not part of what is written back.
fdiraddOverrun(p) ==
    /\ InPhase(p, "dir") /\ Found(map, Parent[p], 1)
    /\ IsDir(DirBlock(p)) => /\ Slots(Ents(DirBlock(p)), p) = {}
                             /\ Len(Ents(DirBlock(p))) >= DirCap
    /\ \/ Lose /\ UNCHANGED dmap
       \/ /\ fr' = [fr EXCEPT ![p].ph = "dirblk",
                    ![p].arr = IF IsDir(DirBlock(p))
                               THEN Dir(Passed(Ents(DirBlock(p)), DirCap + 1))
                               ELSE Junk]
          /\ dmap' = map
          /\ UNCHANGED <<up, map, lastAlloc, fh, cur>>
    /\ UNCHANGED <<blk, committed, torn, unlisted>>

\* Variant: the blocks of the directory are not written.
fuloaddirRootOnly(p) ==
    /\ InPhase(p, "dirblk")
    /\ Goto(p, "init")
    /\ UNCHANGED <<up, map, lastAlloc, fh, cur, disk, committed, torn, unlisted>>

\* fuloaddir writes one block of the array to every data block of the
\* directory; only the first is backed by the array.
fuloaddir(p) ==
    /\ InPhase(p, "dirblk")
    /\ blk' = [c \in Clusters |->
                 IF map[c].code # Parent[p] \/ map[c].idx = 0 THEN blk[c]
                 ELSE IF map[c].idx = 1 THEN fr[p].arr ELSE Junk]
    /\ Goto(p, "init")
    /\ UNCHANGED <<up, map, lastAlloc, fh, cur, dmap, committed, torn, unlisted>>

\* Variant: the metadata block is not written.
fcreateNoInit(p) ==
    /\ InPhase(p, "init")
    /\ Return(p)
    /\ UNCHANGED <<up, map, lastAlloc, fh, cur, disk, committed, torn, unlisted>>

\* __finit writes the metadata block, the last act of __fcreate.
fcreateInit(p) ==
    /\ InPhase(p, "init")
    /\ blk' = [blk EXCEPT ![fr[p].cl] = finit(map[fr[p].cl])]
    /\ Return(p)
    /\ UNCHANGED <<up, map, lastAlloc, fh, cur, dmap, committed, torn, unlisted>>

fcreateStep(p) ==
    \/ fcreateExists(p) \/ fcreateAlloc(p) \/ fcreateFull(p)
    \/ fgetparent(p) \/ floadhdir(p)
    \/ fdiraddGrow(p) \/ fdiraddSpin(p) \/ fdiraddEntry(p) \/ fdiraddOverrun(p)
    \/ fuloaddir(p) \/ fcreateInit(p)

----------------------------------------------------------------------------
(* The create, open, close and delete commands.                            *)

\* create: fuloadh(floadh(path, args + "c")).
shellcreate(p, args) ==
    /\ Quiet
    /\ fr' = Enter(fr, p, args \cup {"c"})
    /\ cur' = [Idle EXCEPT !.call = "create", !.path = p]
    /\ UNCHANGED <<up, map, lastAlloc, fh, disk, committed, torn, unlisted>>

CreatedEarly(call) == up /\ cur.call = call   \* variant: __fcreate still runs
Created(call) == up /\ cur.call = call /\ fr[cur.path].ph = "none"

\* Variant: the root is not flushed.
shellcreateNoFlush ==
    /\ Created("create") /\ Exists(map, cur.path)
    /\ committed' = committed \cup {cur.path}
    /\ cur' = Idle
    /\ UNCHANGED <<up, map, lastAlloc, fh, fr, disk, torn, unlisted>>

\* floadh found the item: fuloadh flushes the root.
shellcreateDone ==
    /\ Created("create") /\ Exists(map, cur.path)
    /\ dmap' = map
    /\ committed' = committed \cup {cur.path}
    /\ cur' = Idle
    /\ UNCHANGED <<up, map, lastAlloc, fh, fr, blk, torn, unlisted>>

\* floadh returned NULL, which fuloadh dereferences.
shellcreateFault ==
    /\ Created("create") /\ ~Exists(map, cur.path)
    /\ Lose
    /\ UNCHANGED <<disk, committed, torn, unlisted>>

\* open: floadh; the item is created when the argument holds a 'c'.
shellopen(h, p, args) ==
    /\ Quiet /\ ~fh[h].open
    /\ fr' = IF "c" \in args THEN Enter(fr, p, args) ELSE fr
    /\ cur' = [Idle EXCEPT !.call = "open", !.path = p, !.h = h]
    /\ UNCHANGED <<up, map, lastAlloc, fh, disk, committed, torn, unlisted>>

\* The handle points at the entry, not at the path, and starts behind the
\* metadata block.  No symbol is made when there is no item.
floadh ==
    /\ Created("open")
    /\ fh' = IF Exists(map, cur.path)
             THEN [fh EXCEPT ![cur.h] = [open |-> TRUE, cl |-> ffind(map, cur.path),
                                         path |-> cur.path, pos |-> B]]
             ELSE fh
    /\ cur' = Idle
    /\ UNCHANGED <<up, map, lastAlloc, fr, disk, committed, torn, unlisted>>

\* close: fuloadh flushes the root and drops the handle.
fuloadh(h) ==
    /\ Quiet /\ fh[h].open
    /\ dmap' = map
    /\ fh' = [fh EXCEPT ![h] = Closed]
    /\ UNCHANGED <<up, map, lastAlloc, fr, cur, blk, committed, torn, unlisted>>

\* delete: __ffremove, nothing is flushed and open handles are not looked at.
shelldelete(p) ==
    /\ Quiet /\ Exists(map, p)
    /\ map' = ffremove(map, p)
    /\ committed' = committed \ {p}
    /\ UNCHANGED <<up, lastAlloc, fh, fr, cur, disk, torn, unlisted>>

\* Deleting what is not there dereferences NULL.
shelldeleteFault(p) ==
    /\ Quiet /\ ~Exists(map, p)
    /\ Lose
    /\ UNCHANGED <<disk, committed, torn, unlisted>>

\* __ffremovel, which no command calls.
removeAll(p) ==
    /\ Quiet
    /\ map' = ffremovel(map, p)
    /\ committed' = committed \ {p}
    /\ UNCHANGED <<up, lastAlloc, fh, fr, cur, disk, torn, unlisted>>

----------------------------------------------------------------------------
(* Positions, reading and writing.  Positions are uint64_t and wrap.       *)

Wrap(n) == n % (PosMax + 1)
SetPos(h, x) ==
    /\ fh' = [fh EXCEPT ![h].pos = x]
    /\ UNCHANGED <<up, map, lastAlloc, fr, cur, disk, committed, torn, unlisted>>

fseek(h, x) ==
    /\ Quiet /\ fh[h].open
    /\ SetPos(h, IF x > PosMax - B THEN PosMax ELSE B + x)

\* Variant: moving back is not clamped.
fseekoFree(h, x) ==
    /\ Quiet /\ fh[h].open /\ fh[h].pos + x <= Reach
    /\ SetPos(h, fh[h].pos + x)

fseeko(h, x) ==
    /\ Quiet /\ fh[h].open /\ fh[h].pos + x <= Reach
    /\ LET pos == fh[h].pos
       IN  SetPos(h, IF x < 0
                     THEN IF pos <= B \/ -x >= pos - B THEN B ELSE pos + x
                     ELSE IF x > PosMax - pos THEN PosMax ELSE pos + x)

\* The item a handle works on is whatever its entry belongs to now.
FileOf(h) == map[fh[h].cl].code

\* The entry that holds block i for handle h: its own entry if the indices
\* agree, otherwise the one __ffindhi returns.
Own(h, i)     == i = map[fh[h].cl].idx
HasBlock(h, i) == Own(h, i) \/ Found(map, FileOf(h), i)
\* Variant of the next: the code is not compared.
BlockOfAny(h, i) == IF Own(h, i) THEN fh[h].cl
    ELSE Min({c \in Clusters : map[c].idx = i})
BlockOf(h, i) == IF Own(h, i) THEN fh[h].cl ELSE ffindhi(map, FileOf(h), i)

\* _fread refuses to go past the size of the file; else it moves on to the
\* end of the range or to the first block that is missing.
Touched(pos, n) == (pos \div B) .. ((pos + n - 1) \div B)
ReadStops(h, pos, n) ==
    {pos + n} \cup {Max({pos, i * B}) : i \in {j \in Touched(pos, n) : ~HasBlock(h, j)}}

fread(h, n) ==
    LET pos == fh[h].pos
    IN  /\ Quiet /\ fh[h].open
        /\ Wrap(pos - B + n) <= fsizeBlocks(map, FileOf(h)) * B
        /\ blk' = [blk EXCEPT ![fh[h].cl] = Stamp(@)]
        /\ fh' = [fh EXCEPT ![h].pos = Wrap(Min(ReadStops(h, pos, n)))]
        /\ UNCHANGED <<up, map, lastAlloc, fr, cur, dmap, committed, torn, unlisted>>

\* _fwrite stamps the metadata first, then looks the metadata entry up to
\* see whether the item is read only; without such an entry it faults.
fwriteCall(h, n, v) ==
    LET head == map[ffind(map, FileOf(h))]
    IN  /\ Quiet /\ fh[h].open /\ fh[h].pos + n <= Reach
        /\ blk' = [blk EXCEPT ![fh[h].cl] = Stamp(@)]
        /\ \/ ~Exists(map, FileOf(h)) /\ Lose
           \/ /\ Exists(map, FileOf(h))
              /\ cur' = IF "readonly" \in head.attr THEN cur
                        ELSE [Idle EXCEPT !.call = "write", !.h = h,
                                          !.pos = fh[h].pos, !.left = n, !.val = v]
              /\ UNCHANGED <<up, map, lastAlloc, fh, fr>>
        /\ UNCHANGED <<dmap, committed, torn, unlisted>>

\* Variant: the first byte of the chunk is left out.
OverlayShort(f, off, n, v) ==
    [k \in 0 .. B - 1 |-> IF k \in off + 1 .. off + n - 1 THEN v ELSE f[k]]
Overlay(f, off, n, v) == [k \in 0 .. B - 1 |-> IF k \in off .. off + n - 1 THEN v ELSE f[k]]

\* One turn of the loop of _fwrite.  __fpush1 drops the data when the block
\* is the metadata cluster the handle stands on and when no entry can be
\* allocated; the loop counts the bytes as written all the same.  The zero
\* block that __faddr writes first is overwritten by the same call; a process
\* that dies in between leaves a block no flushed map refers to.
fwriteStep ==
    LET h     == cur.h
        i     == cur.pos \div B
        off   == cur.pos % B
        chunk == Min({B - off, cur.left})
        pos   == Wrap(cur.pos + chunk)
        c     == allocatecluster(map, lastAlloc)
        new(old) == Data(Overlay(old, off, chunk, cur.val))
    IN  /\ up /\ cur.call = "write"
        /\ \/ /\ HasBlock(h, i)
              /\ blk' = IF Own(h, i) /\ "metadatacluster" \in map[fh[h].cl].attr THEN blk
                        ELSE [blk EXCEPT ![BlockOf(h, i)] = new(CellsOf(@))]
              /\ UNCHANGED <<map, lastAlloc>>
           \/ /\ ~HasBlock(h, i) /\ CanAlloc(map, lastAlloc)
              /\ map' = faddr(map, c, fh[h].cl)
              /\ lastAlloc' = c
              /\ blk' = [blk EXCEPT ![c] = new(Zero.cells)]
           \/ /\ ~HasBlock(h, i) /\ ~CanAlloc(map, lastAlloc)
              /\ lastAlloc' = 0
              /\ UNCHANGED <<map, blk>>
        /\ IF chunk = cur.left
           THEN cur' = Idle /\ fh' = [fh EXCEPT ![h].pos = pos]
           ELSE /\ cur' = [cur EXCEPT !.pos = pos, !.left = @ - chunk]
                /\ UNCHANGED fh
        /\ UNCHANGED <<up, fr, dmap, committed, torn, unlisted>>

----------------------------------------------------------------------------
\* What the running call does next.
Step ==
    \/ \E p \in Paths : fcreateStep(p)
    \/ shellcreateDone \/ shellcreateFault \/ floadh \/ fwriteStep

Client ==
    \/ \E x \in Creates : shellcreate(x[1], x[2])
    \/ \E p \in DeletePaths : shelldelete(p) \/ shelldeleteFault(p) \/ removeAll(p)
    \/ \E h \in Handles :
          \/ \E x \in Opens : shellopen(h, x[1], x[2])
          \/ fuloadh(h)
          \/ \E x \in SeekTo : fseek(h, x)
          \/ \E x \in SeekBy : fseeko(h, x)
          \/ \E n \in Lengths : fread(h, n)
          \/ \E n \in Lengths, v \in Values : fwriteCall(h, n, v)

Next == Step \/ Client \/ fmount \/ shellexit \/ Crash

Spec == Init /\ [][Next]_vars
FairSpec == Spec /\ WF_vars(Step) /\ WF_vars(fmount)

----------------------------------------------------------------------------
(* Properties.                                                             *)

\* Types of the state of a mounted file system (conf_fsroot, fhandle) and of
\* the disk.
TypeOK ==
    /\ up \in BOOLEAN
    /\ map \in [Clusters -> fsblock] /\ dmap \in [Clusters -> fsblock]
    /\ lastAlloc \in Clusters
    /\ fh \in [Handles -> fhandle]
    /\ fr \in [Paths -> Frame]
    /\ cur \in Call
    /\ blk \in [Clusters -> Block]
    /\ committed \in SUBSET Paths
    /\ torn \in SUBSET Paths /\ unlisted \in SUBSET Paths

\* The cluster map stays well formed in memory and on disk: a block of an item
\* has one location, indices are dense although __faddr numbers blocks by
\* counting, and the metadata flag marks exactly the blocks with index 0
\* (allocatecluster, __fcreate, __faddr, __ffremove, fuloadroot).
MapInv == MapOK(map) /\ MapOK(dmap)

\* An entry that __fcreate has taken is not lost to the allocations it makes
\* on behalf of the parents: until the call returns it is the item's metadata
\* entry.
FrameOwns ==
    \A p \in Paths : fr[p].ph \notin {"none", "alloc"} =>
        /\ map[fr[p].cl].code = p
        /\ map[fr[p].cl].idx = 0

\* The recursion of __fcreate is a stack.  An activation waits for the one it
\* started for its parent; of the others at most one exists, it runs, and its
\* path is the shallowest; the paths of two activations of which one waits for
\* the other follow each other in the order of depth.  None is left when the call has returned, the
\* directory an entry is added to exists, and so does the metadata entry of
\* the item a write works on, or the entry of the handle belongs to nobody.
Busy(f, p)     == f[p].ph # "none"
WaitsFor(f, p) == f[p].ph = "wait" /\ Parent[p] # NoParent /\ Busy(f, Parent[p])
Running(f, p)  == Busy(f, p) /\ ~WaitsFor(f, p)

Stack(f, root) ==
    /\ \A p \in Paths : Busy(f, p) /\ p # root =>
           Busy(f, root) /\ Depth[p] < Depth[root]
    /\ \A p, q \in Paths : Running(f, p) /\ Busy(f, q) /\ p # q => Depth[p] < Depth[q]
    /\ \A p, q \in Paths : WaitsFor(f, p) /\ Busy(f, q) /\ p # q =>
           Depth[q] <= Depth[Parent[p]] \/ Depth[p] < Depth[q]

CallsOK ==
    /\ cur.call \in {"idle", "write"} => \A p \in Paths : ~Busy(fr, p)
    /\ Stack(fr, cur.path)
    /\ \A p \in Paths :
           /\ fr[p].ph \in {"wait", "dir", "dirblk"} => Parent[p] # NoParent
           /\ fr[p].ph = "dir" => Exists(map, Parent[p])
    /\ cur.call = "write" => FileOf(cur.h) = Unused \/ Exists(map, FileOf(cur.h))

\* Crash safety of create: once the create command of an item has returned
\* and until the item is deleted, the disk alone describes the item, whatever
\* is killed and remounted: the flushed map has its entry and the entry its
\* metadata block.  The one item without metadata is an item the mount already
\* found like that: a process that dies between the flush in fuloaddir and
\* __finit leaves it, and create, which finds the entry, returns on it.
DurableCreate ==
    \A p \in committed : Exists(dmap, p) /\ (HasMeta(p) \/ p \in torn)

\* An item whose create command has returned is listed on disk in its parent
\* (fuloaddir writes the directory after __fdiradd), unless the mount found
\* its entry unlisted and create returned on that.
Listed ==
    \A p \in committed \ unlisted : Parent[p] # NoParent => InParent(p)

\* frat.h on diritem.local: "if it is 0, then this item is the end of the
\* list".  In the block that the map names as the first of a directory, on disk
\* or in memory, exactly the last entry has local = 0 and no item is listed
\* twice; the block is a list, and nothing else has been written to it.
EndsWell(e) == \A j, k \in DOMAIN e :
    /\ e[k].last <=> (k = Len(e))
    /\ e[j].code = e[k].code => j = k

ListEnds ==
    \A p \in Paths, c \in Clusters :
        /\ Parent[p] # NoParent
        /\ \E m \in {map, dmap} : m[c].code = Parent[p] /\ m[c].idx = 1
        => IsDir(blk[c]) /\ EndsWell(Ents(blk[c]))

\* An entry of the live map never passes from one item to another without
\* having been given back in between.
NoSteal ==
    [][ up /\ up' => \A c \in Clusters :
            map[c].code # Unused => map'[c].code \in {map[c].code, Unused} ]_vars

\* __fpush1 rejects writes to the metadata cluster a handle stands on, and
\* __ffindhi finds another one only by an index that is 0 in the 32 bits it
\* keeps: a write changes the metadata block of no item but the one it works
\* on, and of this one only at a block number that is a multiple of 2^32.
MetadataProtected ==
    [][ cur.call = "write" => \A c \in Clusters :
            /\ map[c].code # Unused /\ "metadatacluster" \in map[c].attr
            /\ blk'[c] # blk[c]
            => /\ map[c].code = FileOf(cur.h)
               /\ c # fh[cur.h].cl \/ map[c].idx # cur.pos \div B
               /\ (cur.pos \div B) % IdxMod = 0 ]_vars

\* A block that belongs to an item on disk and in memory changes only by a
\* write through a handle that works on this item, by the time stamp of an
\* open handle on that very entry, when an entry is added to the item as a
\* directory, or by the last act of creating the item.
NoForeignWrite ==
    [][ \A c \in Clusters :
            LET p == map[c].code
            IN  p # Unused /\ dmap[c].code = p /\ blk'[c] # blk[c] =>
                    \/ cur.call = "write" /\ FileOf(cur.h) = p
                    \/ \E h \in Handles : fh[h].open /\ fh[h].cl = c
                    \/ \E q \in Paths : fr[q].ph = "dirblk" /\ Parent[q] = p
                    \/ fr[p].ph = "init" /\ fr[p].cl = c ]_vars

\* A handle never stands in front of the data: floadh says "Avoid Metadata
\* Block" and _fseek, _fseeko keep to it.
BehindMetadata == \A h \in Handles : fh[h].open => fh[h].pos >= B

CellAt(h, k) == IF HasBlock(h, k \div B) THEN CellsOf(blk[BlockOf(h, k \div B)])[k % B]
                ELSE Blank

\* The write call that returns in this step, and the bytes it covered.
WriteReturns == cur.call = "write" /\ cur'.call = "idle" /\ up'
Written == fh[cur.h].pos .. (cur.pos + cur.left - 1)

\* A write that stays inside a live file reads back: every byte the call covers
\* holds the written value when _fwrite returns.
WriteInsideReadsBack ==
    [][ \A h \in Handles :
            /\ WriteReturns /\ h = cur.h /\ FileOf(h) # Unused
            /\ cur.pos + cur.left <= B + fsizeBlocks(map, FileOf(h)) * B
            => \A k \in Written : CellAt(h, k)' = cur.val ]_vars

\* shell.c reports "Could not Write all bytes" unless _fwrite returned the
\* full count: a write that returns it has stored every byte.
WriteReadsBack ==
    [][ \A h \in Handles :
            WriteReturns /\ h = cur.h => \A k \in Written : CellAt(h, k)' = cur.val ]_vars

\* The help of fwrite calls -ia "The Alias of the Item to write to": a write
\* through a handle changes blocks of the item the handle was opened for.
HandleWritesItsItem ==
    [][ cur.call = "write" => \A c \in Clusters :
            blk'[c] # blk[c] /\ map'[c].code # Unused
                => map'[c].code = fh[cur.h].path ]_vars

\* __fdiradd tries for ever: the directory has no block and the disk no entry.
Spins ==
    /\ \E p \in Paths : InPhase(p, "dir") /\ ~Found(map, Parent[p], 1)
    /\ Owned(map, Unused) = {}

\* Every call returns or its process dies, and the file system can be mounted
\* again; the walk of __fdiradd over a directory without a block is the only
\* one that may not end, and only when no entry of the disk is free.
CallsReturn == (cur.call # "idle") ~> (cur.call = "idle" \/ Spins)

\* The items of a map are those with a metadata entry.
ItemsOf(m) == {p \in Paths : Exists(m, p)}
Store == INSTANCE FratStore WITH
    Disks    <- {"disk"},
    Items    <- Paths,
    mounted  <- IF up THEN {"disk"} ELSE {},
    view     <- [k \in {"disk"} |-> IF up THEN ItemsOf(map) ELSE {}],
    durable  <- [k \in {"disk"} |-> ItemsOf(dmap)],
    promised <- {<<"disk", p>> : p \in committed}

\* The many steps of create, delete, write, close and exit, with crashes
\* between them, look to the user like the steps of the store in FratStore:
\* every flush is one of the whole view, a step changes the view by one item,
\* a crash loses the view alone, and create returns when its item is durable.
ImplementsStore == Store!Spec
============================================================================
