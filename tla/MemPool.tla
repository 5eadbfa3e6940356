------------------------------ MODULE MemPool ------------------------------
(***************************************************************************)
(* The kernel's memory pools (src/kernel/libcrt/memory/allocator/          *)
(* mmalloc.c): an array of pools, in each pool blocks that grow up from    *)
(* its base and descriptors that grow down from its end.  Sizes and        *)
(* offsets count units of allocALIGN = 8 bytes.  A descriptor is known by  *)
(* its age, 1 for the oldest: the code walks the array from the oldest to  *)
(* the newest.  The contents of blocks are left out, but not where they    *)
(* are: a full pool has blocks and descriptors in the same memory, and     *)
(* whoever clears, copies or fills such a block writes over descriptors.   *)
(***************************************************************************)
EXTENDS Integers, Sequences, SequencesExt, FiniteSets, FiniteSetsExt

CONSTANTS
    Holders,     \* kernel code that holds a block
    Sizes,       \* the sizes it asks for, in units
    dPOOLS,      \* pools made by initastate
    dBLOCKS,     \* blocks of a pool, at most
    BlockUnits,  \* BLOCKSIZE, in units
    DescUnits,   \* sizeof(memdesc_t), in units
    MaxDescs     \* bound: descriptors of a pool, for model checking

ASSUME PoolAssumption ==
    /\ Sizes \subseteq Nat \ {0}
    /\ {dPOOLS, dBLOCKS, BlockUnits, DescUnits, MaxDescs} \subseteq Nat \ {0}
    /\ DescUnits <= BlockUnits

VARIABLES
    array,     \* astate->pools: "none" before the first use, "ok", or "lost"
               \* once a value is used that was never set
    pools,     \* the pools
    total,     \* astate->totalNAllocations
    held,      \* history: the block each holder was given and has not freed
    pagefree,  \* history: the addresses mfree gave to FreePages
    overwritten \* <<pool, descriptor>>: holds bytes of a block, no descriptor

vars == <<array, pools, total, held, pagefree, overwritten>>

None == [pool |-> 0, ptr |-> 0, n |-> 0]
allocALIGN == 8
DefaultFixMemFrequency == 32

----------------------------------------------------------------------------
(* Flags (libcrt/math/math.h): __set is an "and", so it sets nothing.      *)

set(flag)   == flag /\ TRUE
check(flag) == flag

----------------------------------------------------------------------------
(* Descriptors.                                                            *)

\* allocatepool(nblocks): twice the blocks, no descriptors.
allocatepool(nblocks) == [size |-> 2 * nblocks * BlockUnits, descs |-> <<>>]

First(S) == IF S = {} THEN 0 ELSE Min(S)

\* The descriptor that starts nearest after the end of descriptor i.
NextOf(ds, i) ==
    LET after == {j \in DOMAIN ds : ds[j].ptr > ds[i].ptr /\ ds[j].ptr >= ds[i].ptr + ds[i].nbytes}
    IN  IF after = {} THEN 0
        ELSE Max({j \in after : \A k \in after : ds[j].ptr <= ds[k].ptr})

\* Variant: the links are left as they are.
fixmdarrayNot(ds) == ds

\* fixmdarray recomputes the links of all but the newest descriptor.  Its branch
\* for empty descriptors is taken only where one was overwritten: see Tiled.
fixmdarray(ds) ==
    LET Fixed(i) == [ds[i] EXCEPT !.next = NextOf(ds, i)]
    IN  IF Len(ds) < 2 THEN ds
        ELSE Append([i \in 1 .. Len(ds) - 1 |-> Fixed(i)], ds[Len(ds)])

\* querydescu: the oldest unused descriptor of exactly n units, or 0.
querydescu(ds, n) == First({i \in DOMAIN ds : ~check(ds[i].used) /\ ds[i].nbytes = n})

\* nbytes > fragMul(n): more than 1.15 times the request in bytes, plus 7, since
\* __roundup rounds nothing when it is given a floating-point number.
TooLarge(nbytes, n) == 40 * nbytes > 46 * n + 35

\* Variant: the rest keeps the size of the whole.
fragmemoryWhole(ds, i, n) ==
    LET rest == [ptr |-> ds[i].ptr + n, nbytes |-> ds[i].nbytes, next |-> ds[i].next, used |-> FALSE]
    IN  fixmdarray(Append([ds EXCEPT ![i] = [@ EXCEPT !.nbytes = n, !.next = 1]], rest))

\* fragmemory: the rest of descriptor i becomes a new descriptor.
fragmemory(ds, i, n) ==
    LET rest == [ptr |-> ds[i].ptr + n, nbytes |-> ds[i].nbytes - n, next |-> ds[i].next, used |-> FALSE]
    IN  fixmdarray(Append([ds EXCEPT ![i] = [@ EXCEPT !.nbytes = n, !.next = 1]], rest))

\* chaintip: the end of the chain that starts at the newest descriptor.
chaintip(ds) ==
    LET tip[i \in DOMAIN ds] == IF ds[i].next = 0 THEN i ELSE tip[ds[i].next]
    IN  tip[Len(ds)]

\* memusedsize: the sizes, and the gaps to the next descriptor.
memusedsize(ds) ==
    LET Gap(i) == IF ds[i].next = 0 THEN 0 ELSE ds[ds[i].next].ptr - (ds[i].ptr + ds[i].nbytes)
        out[i \in 0 .. Len(ds)] ==
            IF i = 0 THEN 0 ELSE out[i - 1] + ds[i].nbytes + Gap(i)
    IN  out[Len(ds)]

\* Variant: the request itself is not counted.
FitsDescOnly(p, n) == p.size >= memusedsize(p.descs) + DescUnits

\* allocatedesc's test: room for the block and for one descriptor.
Fits(p, n) == p.size >= memusedsize(p.descs) + n + DescUnits

\* Variant: the link is one too far.
allocatedescFar(ds, n) ==
    LET t == chaintip(ds)
    IN  IF ds = <<>> THEN <<[ptr |-> 0, nbytes |-> n, next |-> 0, used |-> FALSE]>>
        ELSE Append([ds EXCEPT ![t].next = Len(ds) + 2],
                    [ptr |-> ds[t].ptr + ds[t].nbytes, nbytes |-> n, next |-> 0, used |-> FALSE])

\* allocatedesc: a new descriptor behind the tip of the chain.  In an empty pool
\* the chain is read behind the end of the pool, where the code has written
\* nothing: zeroes place the block at the base (see Astray).
allocatedesc(ds, n) ==
    LET t == chaintip(ds)
    IN  IF ds = <<>> THEN <<[ptr |-> 0, nbytes |-> n, next |-> 0, used |-> FALSE]>>
        ELSE Append([ds EXCEPT ![t].next = Len(ds) + 1],
                    [ptr |-> ds[t].ptr + ds[t].nbytes, nbytes |-> n, next |-> 0, used |-> FALSE])

----------------------------------------------------------------------------
(* One pool's turn in mmalloc.                                             *)

Swept(ds, t) == IF t % DefaultFixMemFrequency = 0 THEN fixmdarray(ds) ELSE ds

\* The oldest unused descriptor that is large enough, or 0.
Usable(ds, n) == First({i \in DOMAIN ds : ~check(ds[i].used) /\ ds[i].nbytes >= n})

\* fusememory is called for every unused descriptor met before that is too small.
\* It asks for all flags but "used", which no descriptor has: it fuses nothing
\* and returns false, but fixes the links.
fusememory(ds, n, stop) ==
    IF \E i \in DOMAIN ds : ~check(ds[i].used) /\ ds[i].nbytes < n /\ (stop = 0 \/ i < stop)
    THEN fixmdarray(ds) ELSE ds

Mark(ds, i) == [ds EXCEPT ![i].used = set(@)]

Cut(ds, i, n) == IF TooLarge(ds[i].nbytes, n) THEN fragmemory(ds, i, n) ELSE ds

\* No descriptor has exactly the size: a larger one, or a new one.
LargerOrNew(p, ds, u, n) ==
    IF u # 0 THEN [descs |-> Mark(Cut(ds, u, n), u), out |-> u]
    ELSE IF Fits([p EXCEPT !.descs = ds], n) THEN
        [descs |-> Mark(allocatedesc(ds, n), Len(ds) + 1), out |-> Len(ds) + 1]
    ELSE [descs |-> ds, out |-> 0]

Search(p, ds, q, u, n) ==
    IF q # 0 THEN [descs |-> Mark(ds, q), out |-> q]
    ELSE LargerOrNew(p, fusememory(ds, n, u), u, n)

SearchSwept(p, ds, n) == Search(p, ds, querydescu(ds, n), Usable(ds, n), n)

\* What the pool becomes, and the descriptor handed out (0: none).
Turn(p, t, n) == SearchSwept(p, Swept(p.descs, t), n)

\* initastate, on the first use: its blocks are the bytes of the request.
initastate(n) ==
    IF array # "none" THEN pools
    ELSE [k \in 1 .. dPOOLS |->
             allocatepool(IF allocALIGN * n < dBLOCKS THEN allocALIGN * n ELSE dBLOCKS)]

\* The pool mmalloc adds when all are full.
Grown(n) ==
    allocatepool(((n + dBLOCKS * BlockUnits - 1) \div (dBLOCKS * BlockUnits)) * dBLOCKS)

\* The pools up to the first one, k, that has a block have had their turns.
Outcome(ps, turns, k, n) ==
    [ps   |-> [j \in DOMAIN ps |-> IF j <= k THEN [ps[j] EXCEPT !.descs = turns[j].descs] ELSE ps[j]],
     made |-> Len(turns[k].descs) - Len(ps[k].descs),
     blk  |-> [pool |-> k, ptr |-> turns[k].descs[turns[k].out].ptr, n |-> n],
     grew |-> Len(ps) > 1 /\ Len(ps) # Len(pools),
     empty |-> ps[k].descs = <<>>]

\* The last of the pools is not there yet: it is added when all others are full.
FirstOf(all, turns, n) ==
    LET k == Min({j \in DOMAIN all : turns[j].out # 0})
    IN  Outcome(IF k = Len(all) THEN all ELSE Front(all), turns, k, n)

Tried(all, n) == FirstOf(all, [j \in DOMAIN all |-> Turn(all[j], total, n)], n)

\* mmalloc tries the pools in their order and adds a pool when all are full.
MMalloc(n) == Tried(Append(initastate(n), Grown(n)), n)

\* The size of the first descriptor an address lies in, its end included.
sizeof(b) ==
    LET ds == pools[b.pool].descs
    IN  ds[First({i \in DOMAIN ds : ds[i].ptr <= b.ptr /\ b.ptr <= ds[i].ptr + ds[i].nbytes})].nbytes

----------------------------------------------------------------------------
\* Nothing is modelled of an allocator that has lost its pools or a descriptor.
Running == array # "lost" /\ pagefree = {} /\ overwritten = {}

Init ==
    /\ array = "none" /\ pools = <<>> /\ total = 0
    /\ held = [h \in Holders |-> None] /\ pagefree = {} /\ overwritten = {}

\* allocatepool moves the array of pools with ReallocatePages, which lacks its
\* return statement: astate->pools is whatever the register holds.  chaintip on an
\* empty pool follows whatever lies behind the pool.
Astray(r) == IF r.grew \/ r.empty THEN {"ok", "lost"} ELSE {"ok"}

\* The descriptors that a write of n units into block b reaches: descriptor i
\* takes the i-th DescUnits from the end of the pool.
Reached(ps, b, n) ==
    LET p == ps[b.pool]
    IN  {<<b.pool, i>> : i \in {j \in DOMAIN p.descs :
                                 /\ b.ptr < p.size - (j - 1) * DescUnits
                                 /\ p.size - j * DescUnits < b.ptr + n}}

Small(ps) == \A k \in DOMAIN ps : Len(ps[k].descs) <= MaxDescs

\* mfree looks for a used descriptor in all pools; an address that is not in the
\* last pool and was not freed goes to FreePages.
MFree(ps, b) ==
    LET ds == ps[b.pool].descs
        i  == First({j \in DOMAIN ds : /\ check(ds[j].used)
                                       /\ ds[j].ptr <= b.ptr /\ b.ptr < ds[j].ptr + ds[j].nbytes})
    IN  [ps   |-> IF i = 0 THEN ps ELSE [ps EXCEPT ![b.pool].descs[i].used = FALSE],
         page |-> IF i = 0 /\ b.pool # Len(ps) THEN {b} ELSE {}]

\* A block of n units, of which the first m are written.
Given(h, n, m) ==
    /\ Running /\ held[h] = None
    /\ \E r \in {MMalloc(n)} :
        /\ Small(r.ps)
        /\ array' \in Astray(r)
        /\ pools' = r.ps
        /\ total' = total + r.made
        /\ held' = [held EXCEPT ![h] = r.blk]
        /\ overwritten' = Reached(r.ps, r.blk, m)
        /\ UNCHANGED pagefree

mmalloc(h, n) == Given(h, n, 0)

\* mmalloczero and mcalloc clear the block, over descriptors if it has any.
mmalloczero(h, n) == Given(h, n, n)

\* The holder fills its block.
fill(h) ==
    /\ Running /\ held[h] # None
    /\ overwritten' = Reached(pools, held[h], held[h].n)
    /\ UNCHANGED <<array, pools, total, held, pagefree>>

mfree(h) ==
    /\ Running /\ held[h] # None
    /\ \E f \in {MFree(pools, held[h])} :
        /\ pools' = f.ps /\ pagefree' = f.page
        /\ held' = [held EXCEPT ![h] = None]
        /\ UNCHANGED <<array, total, overwritten>>

\* mrealloc: a new block, a copy, and mfree of the old block, which may look at
\* descriptors that the copy has overwritten.
mrealloc(h, n) ==
    /\ Running /\ held[h] # None
    /\ \E r \in {MMalloc(n)} :
        /\ Small(r.ps)
        /\ array' \in Astray(r)
        /\ overwritten' = Reached(r.ps, r.blk, Min({sizeof(held[h]), n}))
        /\ \E f \in {MFree(r.ps, held[h])} :
            /\ pools' = f.ps
            /\ pagefree' \in IF overwritten' = {} THEN {f.page} ELSE {f.page, {}}
        /\ total' = total + r.made
        /\ held' = [held EXCEPT ![h] = r.blk]

\* mclone: a clear block of the size that is found for the address, and a copy;
\* mclone_s: of the size asked for.
mclone(h, g) == held[h] # None /\ mmalloczero(g, sizeof(held[h]))

Next ==
    \/ \E h \in Holders : mfree(h) \/ fill(h)
    \/ \E h \in Holders, n \in Sizes : mmalloc(h, n) \/ mmalloczero(h, n) \/ mrealloc(h, n)
    \/ \E h, g \in Holders : mclone(h, g)

Spec == Init /\ [][Next]_vars

----------------------------------------------------------------------------
(* Properties.                                                             *)

\* Types; links stay inside the array of descriptors.
TypeOK ==
    /\ array \in {"none", "ok", "lost"} /\ total \in Nat
    /\ \A k \in DOMAIN pools :
          LET ds == pools[k].descs
          IN  \A i \in DOMAIN ds :
                 /\ ds[i].next \in 0 .. Len(ds) /\ ds[i].used \in BOOLEAN
                 /\ ds[i].ptr \in Nat /\ ds[i].nbytes \in Nat
    /\ \A x \in overwritten : x[1] \in DOMAIN pools /\ x[2] \in DOMAIN pools[x[1]].descs
    /\ \A h \in Holders : held[h] \in [pool : 0 .. Len(pools), ptr : Nat, n : Nat]

\* The descriptors of pool k that are still descriptors.
Kept(k) == {i \in DOMAIN pools[k].descs : <<k, i>> \notin overwritten}
Intact(k) == Kept(k) = DOMAIN pools[k].descs

\* The descriptors of a pool tile its blocks from the base on: none is empty, none
\* overlaps another, and each begins at the base or where another ends, so that
\* nothing is lost between them, whatever was split.  Of a pool in which a block
\* has been written over descriptors, those that are left are still disjoint.
Tiled ==
    array # "lost" =>
    \A k \in DOMAIN pools :
        LET ds == pools[k].descs
            End(i) == ds[i].ptr + ds[i].nbytes
        IN  \A i \in Kept(k) :
               /\ ds[i].nbytes > 0
               /\ \A j \in Kept(k) : i # j => End(i) <= ds[j].ptr \/ End(j) <= ds[i].ptr
               /\ Intact(k) => ds[i].ptr = 0 \/ \E j \in DOMAIN ds : End(j) = ds[i].ptr

\* Every link leads to the adjacent descriptor, if that was not overwritten, and
\* the links end at the last one only: memusedsize counts no gap, chaintip ends,
\* and allocatedesc places a new block behind all others.
Linked ==
    array # "lost" =>
    \A k \in DOMAIN pools :
        LET ds == pools[k].descs
        IN  \A i \in Kept(k) :
               IF ds[i].next = 0 THEN \A j \in Kept(k) : ds[j].ptr <= ds[i].ptr
               ELSE ds[i].next \in Kept(k) => ds[ds[i].next].ptr = ds[i].ptr + ds[i].nbytes

\* A block that mmalloc hands out lies within its pool, before the oldest
\* descriptor, which is all that allocatedesc keeps free however many there are:
\* newer descriptors it may reach.  It is in one descriptor that is large enough
\* for it or that was split since.
BlockInPool ==
    \A h \in Holders :
        held[h] # None /\ array # "lost" =>
            /\ held[h].ptr + held[h].n + DescUnits <= pools[held[h].pool].size
            /\ Intact(held[h].pool) =>
                  \E i \in DOMAIN pools[held[h].pool].descs :
                     pools[held[h].pool].descs[i].ptr = held[h].ptr

Overlap(a, b) == a.pool = b.pool /\ a.ptr < b.ptr + b.n /\ b.ptr < a.ptr + a.n

\* mmalloc's message for a block it finds in the pool: "Allocated Memory of %llu
\* bytes (Free Allocation)": blocks in use do not overlap.
LiveDisjoint ==
    \A g, h \in Holders : g # h /\ held[g] # None /\ held[h] # None => ~Overlap(held[g], held[h])
============================================================================
