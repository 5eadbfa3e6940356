# BlockyOS: TLA+ models, checks and proofs

BlockyOS is a hobby operating system: a UEFI boot loader, a 64-bit kernel with a
C run-time library (`libcrt`) and loadable services, and a host tool that makes
and edits disks in the system's own file system, FrAT. This directory models the
parts of it that carry its own logic. Paths below are relative to the repository;
`PROJECT.json` maps every definition to the lines it stands for.

## 1. Inventory

### Components, state, operations

| Component | State | Operations | Where |
|---|---|---|---|
| FrAT cluster map | one `fsblock` (file code, index, attributes) per block of the partition | search, allocate, add a block to an item, remove | `tools/filesystem/frat.c` 260-412 |
| FrAT operations | the mounted root with its cached map, handles, activation records of `__fcreate`; on disk the map, metadata, directory and data blocks | mount, create (recursively with its parents), open, close, read, write, seek, delete, flush, exit, crash | `frat.c` 194-769 |
| FrAT layout | the root block, the log, the map and the data blocks of every partition | `formatpart`, `fmount`, `fuloadroot`, block reads and writes | `frat.c` 44-258, `frat.h`, `raw.c` |
| Shell | mounted root (`e.mount`), symbol table, the type selected for the next symbol, open handles | `e.disk`, `e.sym`, `e.flush`, `create`, `delete`, `open`, `close`, `read`, `write`, `exit` | `shell.c` |
| String tools | none | tokenizer, pattern matching | `tools.c` |
| Directory runner | a stack of directory handles | list, push, pop, match | `frat.c` 800-927 |
| Memory pools | an array of pools, in each one blocks and their descriptors | `mmalloc`, `mfree`, `mrealloc`, `mclone`, defragmentation every 32 calls | `libcrt/memory/allocator` |
| Page allocator | ranges and sub-descriptors of physical memory, the page tables | query, allocate, map, free | `libcrt/hardware/paging` |
| Mutex | one byte | poll, lock, unlock | `libcrt/mutex.h` |
| Interrupt tables | callbacks, IDT, interrupt stacks of the TSS | allocate a vector or a stack, set and unset a callback | `libcrt/hardware/IDT` |
| SSE stores | register bitmaps, saved register files | allocate, free, push, pop, switch | `libcrt/hardware/SSE` |
| IO service, NVMe, AHCI, ATAPI | queues, the list of pending commands | queue, read, write, completion interrupt | `services/IO` |
| Video service | list of video regions | allocate, flush, free, timer interrupt | `services/Video` |
| Boot loader | memory map and its key, boot information, root socket | mount, load the kernel, gather, sort, exit boot services | `Boot/UEFI/boot.c`, `bthelper.c` |
| PE loader, sockets | tree of loaded images, import tables, open file sockets | load with imports, search, bind; open, close | `Boot/UEFI/drivers/executable`, `socket` |
| GIF, BMP | decoded frames | decode | `Boot/UEFI/drivers` |
| FrAT in kernel and boot loader | as above | ported copies | `services/hostfs`, `Boot/UEFI/drivers/.disk` |

BLAKE2 (vendored), minidbg (third party), the tool chain headers, build output,
PDF documents and the `.legacy` kernel are left aside. Every part, with the reason
for leaving it out, is in `PROJECT.json`, "components".

### How they interact

The shell calls the file system, which calls `raw.c` with block numbers relative to
a partition. All of it is one thread; the hard part is that memory and disk agree
only at a flush, that a process may die between two disk writes, that
`__fcreate` calls itself through `__fgetparent` and `floadhdir` while its own entry
is half built, and that handles and symbols hold pointers into structures that
other commands free or reuse. In the kernel every component takes memory from the
pools, the pools take pages from the page allocator; drivers take a vector and a
stack from the interrupt tables, put a pending command in a list and wait on a
mutex that the interrupt handler releases. The boot loader runs beside the firmware,
which may change the memory map between any two calls until boot services end; its
PE loader calls itself for every import and names its own node only by its place in
the tree.

### What makes each component correct

* Cluster map: a block of an item has one location, the indices of an item's blocks
  are dense although a new block is numbered by counting, the metadata flag marks
  exactly the blocks with index 0, no entry changes owner without being given back.
* Operations: an item whose `create` returned survives every crash and is listed in
  its directory, but for what an earlier crash left half made; a write reads back
  and reaches only the item of its handle.
* Layout: root, log, map and data do not overlap, as long as the products that place
  them fit into 32 bits; no write leaves the partition; a map that is mounted was
  cleared, or its formatting was cut short.
* Shell: a symbol refers to a freed handle only if `e.sym` copied the handle's
  address; what a returned `create` put on a disk stays there.
* Pools: descriptors tile their pool and are linked in address order until a block is
  written over them; blocks lie in their pool; live blocks should be disjoint and are
  not (`pool_live`).
* Boot loader: the image that is entered is complete and bound to the right
  libraries, nothing stays open, the memory map handed over is the one at the exit
  of boot services, and `efi_main` ends.

The places where these can go wrong are listed with their lines in `PROJECT.json`,
"hazards".

## 2. Modules

| Module | Models | Used by |
|---|---|---|
| `FratMap` | the cluster map as a function and its primitives as operators | `Frat` |
| `Frat` | a mounted file system with its disk, as a state machine | `MCFrat` |
| `FratLayout` | extents in sectors; formatting as a sequence of writes | `MCFratLayout` |
| `FratShell` | the mounted roots, handles and symbols of a shell session | its own configurations |
| `FratStore` | abstract: what the file system promises to its user | `Frat`, `FratShell` (refinement) |
| `MemPool` | the kernel's pools | its own configurations |
| `PELoader` | the recursion of `LoadBinary` over a tree of images | `Boot` |
| `Boot` | `efi_main` with the firmware beside it, composed with `PELoader` | `MCBoot` |
| `MCFrat`, `MCFratLayout`, `MCBoot` | trees, inputs, partition tables, import graphs, memory maps for model checking | |
| `ScanLemmas` | lemmas: minima and maxima of finite sets of numbers exist | most proof modules |
| `FratMapProofs` | theorems about the primitives of the map | `FratProofs` |
| `FratProofs`, `FratShellProofs`, `FratLayoutProofs`, `FratStoreProofs`, `MemPoolProofs`, `BootProofs` | theorems about the specification each is named after; `BootProofs` covers `PELoader` too | |

### FratMap and Frat

`FratMap` keeps the names of the code: `allocatecluster`, `faddr` (`__faddr`),
`ffindhi`, `ffremove`, `ffremovel`. A file code is a BLAKE2 hash of a path; it is
modelled by the path, so the hash is taken to be injective, and `Unused` is the
code 0. Upward scans become minima of sets. The 32-bit `index` field is `IdxMod`:
`__ffindhi` stores a 64-bit number in it before comparing. A removed entry keeps
its index and attributes, as in the code, which resets the code alone.

`Frat` holds the cached map (`map`), the map on disk (`dmap`), the blocks (`blk`),
the handles, one activation record of `__fcreate` per path (`fr`) and the call in
progress (`cur`). A call is split where it writes to disk, because only there can a
crash tell two states apart: `fcreateAlloc`, `fgetparent`, `floadhdir`,
`fdiraddGrow`, `fdiraddEntry` (which ends with the flush of the root that
`fuloaddir` starts with), `fuloaddir`, `fcreateInit`; `fwriteStep` is one turn of
the loop of `_fwrite`. `Crash` may happen between any two of them. Dereferences of
NULL that the code can reach (`create` without room, `delete` of nothing, a write
through an entry that belongs to nobody) end the process (`Lose`). The walk of
`__fdiradd` that leaves a full directory block is undefined behaviour:
`fdiraddOverrun` either faults or writes the array back without the new entry.
Client data is a small set of values, a block has `B` cells, positions wrap at
`PosMax + 1`.

`committed` is a history variable: items whose `create` returned, whether that call
made the entry or found one, and that were not deleted or replaced since. A process
that dies between the flush of `fuloaddir` (frat.c:315, 522) and `__finit`
(frat.c:320) leaves an entry on disk without metadata, and one that dies between that
flush and the write of the directory block (frat.c:526) leaves an entry that is not
listed. The next `create` finds the entry, returns at frat.c:296 and repairs nothing.
`torn` and `unlisted` note, at the mount, the items it found in these two states;
`DurableCreate` and `Listed` say that nothing else is ever missing.

A block number is cut to the 32 bits of an index, so that the block 2^32 of a file is
the metadata block. `__fpush1` refuses to write through the handle's own entry
when the numbers agree, but not through the one that `__ffindhi` returns for a number
that was cut. `MetadataProtected` states exactly what is left of the protection: the
metadata of no other item, and of this one only at a multiple of 2^32.
`ListEnds` is about every block that the map in memory or on disk names as the first of
a directory, whatever was written to it.

### FratShell

Roots and handles are objects with a life (`none`, `live`, `freed`); `syms` is the
symbol table, `toggle` the global that selects the type of the next symbol, and
`disk` the set of items on each disk, replaced as a whole when a root is flushed:
that is what `fuloadroot` does with the map. `committed` is again history. A symbol
holds the address of a handle (`ref`), or none. `e.sym` stores what its data argument
resolves to (`Data`): given the name of a handle symbol it copies the address into a
second symbol, which `copied` notes. `close` frees the handle and takes out the
first symbol with that address, so that the second one dangles, and a second `close` or
`exit` frees again (`shellcloseAgain`, `shellexitFault`). `open` may put a new handle where
a freed one was (`Allocates`), and a dangling symbol then holds the new one.
`HandlesLive` says which symbols can dangle: those alone whose address `e.sym` has copied.

### FratStore and the refinements

`FratStore` is a write-back store: a disk that is mounted has a view; puts and
deletes change the view by one item, a flush makes the whole view durable, a crash
loses it, and `Create`, the return of a create command, happens when view and disk
agree on an item. `ImplementsStore` is its specification under a mapping:

| | `mounted` | `view` | `durable` | `promised` |
|---|---|---|---|---|
| `Frat` | the one disk, while the process is up | items with a metadata entry in the cached map | the same in the map on disk | `committed` |
| `FratShell` | disks with a live root | the cache of that root | `disk` | `committed` |

In `Frat` one create is up to a dozen steps with a recursion in it and each has to map
to a step of the store or to nothing; in `FratShell` the point is that close, exit,
`e.flush` and create write one disk's view whatever symbols and handles are around.
It holds for one live root per disk; `shell_remount` shows what two lead to.

### FratLayout

Positions are counted in blocks of `CalcBlock` sectors from the base of the
partition. `formatpart` is three steps (root block, log, map) with `Crash` between
them; `fmount` reads the root back; `io` holds the extents that the last step
wrote. The map's size is blocks when `formatpart` writes it and bytes when `fmount`
reads it, and the model keeps both readings. Products that the code forms in
`uint32_t` are cut to `Word` values (`U32`): the bytes of a raw block, the bytes of the
log, the position of the map, the size that the root block keeps. The first product can
be 0, which `__safediv` turns into one block (`nBlocks`); a position that wraps puts
the map over the root block, and the run has such a format. `Fits` names the
two products that matter, and `RegionsDisjoint` holds where they do not wrap. Sector
numbers and the offsets of `fseek` are taken as 64 bits wide (a `long` on the hosts of the tool).

### MemPool

Sizes and offsets count units of 8 bytes. A pool is its size and the sequence of its
descriptors, oldest first; `memusedsize` adds up their sizes in that order, as the loop
does. `__set` is modelled by what the macro does (`&=`), so
that the "used" flag never becomes true. `querydescu`, `fragmemory`, `chaintip`,
`allocatedesc`, `fixmdarray` and `fusememory` are operators; `mmalloc`, `mfree`,
`mrealloc` and `mclone` are actions. `ReallocatePages` has no return statement: the
address of the array after a second growth is undefined, which is a choice between
the array and a lost one. `held` (who holds which block) and `pagefree` (addresses
that `mfree` passed to `FreePages`) are history. `chaintip` on an empty pool follows
whatever lies behind the pool, which is the same kind of choice (`Astray`).

`allocatedesc` keeps room for one descriptor at the end of a pool, however many there
are, so that a block may lie over descriptors. What is in a block is left out, but not
that it is written: `mmalloczero` clears it, `mclone` and `mrealloc` copy into it, and
its holder may fill it (`fill`). `overwritten` is the set of descriptors that such a
write reached (`Reached`). After a descriptor is overwritten, the array is lost or pages
under a pool are given back the allocator does not run on: any state could follow.
`Tiled` and `Linked` speak of the descriptors that are left (`Kept`).

### PELoader and Boot

A node of `PELoader` is a `LoadedPeExecutable` of the code: `names` and `deps` are its
name and `Dependencies`, `iat` the nodes its import entries were bound to, node 0 the
`Stub` of `LoadExecutable`. The activations of `LoadBinary` are `stack`; one step is
the opening of a file, one import, the return of the recursive call or the end.
`SearchBinary` is the depth-first walk from the parent of the importing image, a
function that is defined on each node from those below it (`Found`); its path of 32
entries is never full, because at most 31 images are loaded (`MaxNodes`). `Below`, the
nodes the walk can meet, is defined without it: the least set that is closed under
dependencies. The code never keeps its own node: it writes `Root->Dependencies[Root->NDependencies - 1]`
(`OwnNode`), and the model does the same beside a field `this` that only properties
and the socket use. Files are names with a list of imports; a file may be absent, an
import entry may lack its name or an exported symbol. Memory for `MaxNodes` images can
be had; beyond that the code writes an image to address 0 (`NoMemory`).

`Boot` is `efi_main` in its order, with `FirmwareEvent` between any two steps of
`gatherbootinfo`: a new memory map with a new key. `SortMemoryDescriptors` is
modelled by what the copying loops do: the shift overwrites the descriptor that is
to be inserted. A failed `AllocatePool` or a map that has outgrown the buffer leaves
`MemoryDescriptors` NULL, and the code goes on to `ExitBootServices` and to the sum
with it (`Garbage`). When the key is stale `ExitBootServices` fails, the code prints
that and enters the kernel all the same (`exited` is FALSE in state "kernel").

## 3. Runs

Runs that must pass:

| Run | Shows |
|---|---|
| `frat_names` | create with and without force, write, delete, crash, remount in a directory: what a returned `create` leaves on disk and in the parent, whatever an earlier crash left half made, and the end of lists |
| `frat_io` | two files on three blocks, seek, read, write and delete through a handle that may be stale when the other file takes its entry: the map stays well formed, metadata is overwritten only by its own item at a block number that wraps (which the run reaches), writes inside a file read back |
| `frat_full` | nested directories on four blocks: every allocation may fail inside the recursion, the directory walk may overrun; no entry changes owner, no call changes a block of an item it does not work on, every call returns but for the one walk that spins, and the whole implements `FratStore` |
| `shell_handles` | two disks, two aliases, sessions that exit or crash: a symbol dangles only where `e.sym` copied an address, what was created stays as long as a process has one live root of a disk, and the session implements `FratStore` |
| `layout_regions` | five formats, one of which wraps, on two adjacent partitions with crashes in `formatpart` |
| `pool_structure` | allocations that split, fill a pool up to and over its descriptors, or need a new one, and writes into the blocks |
| `boot` | all of `efi_main` over 135 import graphs, absent files, damaged imports and a changing memory map |

Runs that show where the program does not do what it says of itself; each is a
finding in `PROJECT.json` with the line it contradicts:

| Run | Shows |
|---|---|
| `frat_lostwrite` | on a full disk `_fwrite` drops data and returns the full count |
| `frat_wrongitem` | a handle kept over a delete writes to the item that reuses the entry |
| `shell_remount` | closing a handle of an earlier mount overwrites what was created since |
| `pool_live` | a block in use is handed out again, since nothing marks it as used |
| `boot_sort` | a memory map that is not ascending already loses descriptors when it is sorted |

Other consequences of the code that the models contain and no run singles out:

* `delete` gives one entry back; data entries keep the code of an item that is gone,
  and a later item of the same name adopts them (`FratMap!DenseIndex` allows for it).
* Block 2^32 of a file is found at index 0 (`FratMap!Hits` with `IdxMod`), and a write
  there destroys the metadata of the file (`frat_io` reaches it with `IdxMod` 4).
* A `create` that finds what a crash left half made returns as if it were whole
  (`torn`, `unlisted`).
* `e.sym` on a handle symbol makes a second owner, and closing both frees twice.
* The data of a symbol defined with `e.sym` lies in the copy of the command line,
  which is freed when the command returns (field `live` of a symbol).
* The position of the map does not depend on the size of the partition: in one of a
  megabyte it lies behind the end, in the partition that follows (`InsidePartition`
  holds for the 18 megabytes of `layout_regions`).
* The size of the map is blocks for `formatpart` and bytes for `fmount`: of the map
  that was written only the first `1/bs` part is used (`FratLayout!nClusterSectors`).
* The test in `allocatedesc` counts one descriptor, not those the pool already has,
  so the last block of a pool may reach into its descriptors, and clearing or filling it
  destroys them (`MemPool!Fits`, `MemPool!Reached`).
* `mfree` passes a block of any pool but the last to `FreePages`, and
  `ReallocatePages` returns nothing (`MemPool!MFree`, `MemPool!Moved`).
* Two files that import each other load; three or more in a ring are loaded again
  and again until memory ends, because the search starts at the parent only
  (`Boot!BootEnds` names this as the one way not to end, `PELoader!LongCycle`).
* One library may be loaded twice, with two copies of its data, when the first copy
  lies in another branch of the tree; `PELoader!TwinsApart` says exactly when.
* `TotalMemorySize` is right although the sort loses descriptors: the highest block
  is never the one that is overwritten (`Boot!KernelMapCurrent`).

### Bounds

* `Frat`: three to five clusters, up to four paths in a tree of three levels, one handle,
  blocks of one or two cells. Three clusters are the least in which an
  item has data, another competes for the entry and the disk fills; five let a
  directory with its block and two items live together, so that every branch of
  `__fcreate` is taken with and without room. `DirCap` of 1 or 2 makes directory
  blocks fill. `IdxMod` is above the number of entries as 2^32 is: 8, and 4 in `frat_io`. `Reach` bounds
  positions in the guards of seek and write; `PosMax` stays above it. In `frat_io`
  writes of four cells start at positions 2, 5, 6 and 9 with blocks of two: the one from 2
  stays inside a file of two data blocks, the one from 5 covers parts of blocks and reaches
  block 4, whose number wraps to 0.
* `FratShell`: `MaxRoots`, `MaxHandles` and `MaxSyms` bound how often a session
  mounts, opens and defines; two disks and two aliases are enough for a handle to
  outlive its mount, for a symbol to hide another and for two symbols to hold one handle. `MaxMounts` is the number of
  live roots of one disk: with 1 a created item stays, with 2 `shell_remount` shows
  that it need not.
* `FratLayout`: real sizes (512-byte sectors, 20-byte entries, 60-byte root) and
  partitions of 18 megabytes, with the default format, a block of two sectors, one
  that is no multiple of a sector, one that is smaller, and a log of 62 blocks. `Word` is
  2^15 instead of 2^32, so that the position of the map wraps to 0 with that log, which
  on a real disk takes a block size or a log of gigabytes (`-bs 2147483648 -lb 2`).
* `MemPool`: the real pool constants but two pools instead of 32; sizes 1, 2, 3 and
  40 units split, reuse and add, 8179 and 8187 fill what is left of a pool beside its
  descriptors and over them, 9000 does not fit beside another; `MaxDescs` stops a pool at
  five descriptors.

* `Boot`: four files. Three import the next in every ring of one to four, share a
  library at two depths, or form a chain; `MaxNodes` of 6 is above the four images of
  the largest load without a ring, with a twin to spare, so that `NoMemory` is reached by
  rings alone, which `BootEnds` confirms. `Pad` is 1 instead of 8 and maps have two to four
  blocks, so that a map can outgrow its buffer; `MaxKey` of 2 lets the map change
  before and after it is read.

Deadlock is checked everywhere but in `MemPool`, which stops at `MaxDescs` descriptors
and after a descriptor, the array of pools or the pages under a pool are gone, and in
`Boot`, which ends by entering the kernel or exiting.

### Fairness

`FairSpec` of `Frat` is weak fairness of `Step`, a call that has begun goes on (the
program is one thread that never waits), and of `fmount`, the user starts the tool
again after a crash. `CallsReturn` is checked on the full disk of `frat_full`, where
`__fdiradd` repeats for ever (`fdiraddSpin`) when a directory has no block and no entry is
free. The property names that state (`Spins`) as the only one a call does not leave: not
the recursion, not the walk over a full block, not a write that finds no room.

`Spec` of `Boot` has weak fairness of `Main`: one processor runs the boot loader,
which never waits. Nothing is assumed about the firmware. `BootEnds` is checked under
it.

## 4. Proofs

Every theorem holds for all values of the constants that satisfy the `ASSUME`s of the
modules, and for the further hypotheses it names. Of the properties of the passing runs
all are proved but two, which are liveness (end of this section).

### The cluster map and the file system

* `FratMapProofs`: what each primitive does to a well formed map (`NewHeadOK`,
  `faddrOK`, `ffremoveOK`, `ffremovelOK`). Counting gives a fresh index because the
  indices of an item are dense from 0 or, once its metadata entry was removed, from 1.
* `FratProofs`: `Spec => []IInv` with
  `IInv == TypeOK /\ MapInv /\ FrameOwns /\ CallsOK /\ DownIdle`. `MapInv` alone is
  not inductive: adding a block needs the metadata entry to exist, which `FrameOwns`
  and `CallsOK` provide while `__fcreate` runs. `FrameOwns` in turn needs `CallsOK`,
  the statement that the recursion is a stack of ever shallower paths: otherwise
  a nested `__fcreate` could be one of the same path and force its entry away.
  `DownIdle` says that a dead process has no call. From it follow `TypeCorrect`,
  `MapWellFormed`, `FramesOwnTheirEntry` and the action property `EntriesNotStolen`;
  `CallsOK` itself only serves these proofs. The other theorems of the module build on `IInv`:
  * `FratImplementsStore`: every step of the file system is a step of `FratStore` or
    leaves it alone. An entry with index 0 appears in `fcreateAlloc` and
    goes in `ffremove` and `ffremovel`; in between `MapInv` keeps every other step from
    adding or taking one, so the view changes by one item at a time.
  * `FratNoForeignWrite`: the block a step writes is found by the path of the call, or it
    is the handle's own entry; by uniqueness of locations it belongs to that item.
  * `FratMetadataProtected`, without a hypothesis: a write reaches a block by the index
    of the handle's entry or by `__ffindhi`, so a metadata block, which has index 0, is
    reached only with a number that is 0 in the bits that are kept, and `OwnMetaKept`
    rules out the handle's own entry.
  * `FratBehindMetadata`, under `WideEnough`. The invariant is `PosOK`: handles and the write in progress stand at or behind byte `B`, and no
    index is above `N`. A seek stops at the last position, and the test of a read
    behind it wraps around zero: the read passes the test and would leave the handle at
    the start of the metadata, were there a block to read at that position. `WideEnough`
    is what the widths must give: no write ends behind the last position or in a block
    whose number does not fit into the index field, and the number of the last block of
    the position space, cut to 32 bits, is no index of the map. With 64-bit positions
    and 32-bit indices the first two are a file of at most 2^32 blocks, the third a disk
    of less than 2^32 - 1.
  * `FratDurableCreate`, under `WideEnough`. `MetaLive` is what a `create` that finds an
    entry relies on: every item of the cached map that no activation works on has its
    metadata block, unless the mount found it without (`torn`). `KeptOK` says the same of
    the map on disk for what is committed, `HeadsOK` that a committed item is in both
    maps, because the next flush replaces the one on disk as a whole. Without
    `WideEnough` a write could reach the metadata block and the item would be gone.
  * `FratListEnds`, under `DirsFit`, `KeepsOpened` and `KeepsDirs`. `DirsFit`: a directory
    block has room for every item that has a parent. Where it has not, the walk of
    `__fdiradd` runs out of the array and anything may follow. The other two, explained
    below, keep handles off directory blocks: a write through such a handle replaces the
    list by data. `GoodList` holds of the blocks and of the arrays that activations keep
    between loading and writing a directory; that a list which lacks an item has room for
    it is a count of distinct codes. `DirsOK` says that what either map names as the
    first block of a directory is a list, `ArraysOK` the same of the arrays.
  * `FratWriteInsideReadsBack`, under `WideEnough`. `ProgressOK` says of a write in
    progress that every byte it has passed is stored in the block that a read of
    the byte would use, or that the position is behind the end of the file by a block
    or more. The second case is the one in which `_fwrite` adds blocks: `__fpush1` gives
    the new block the next index of the file and not the one of the position, so a write
    that starts behind the end never catches up and the bytes it stores are not
    where they would be read (`frat_lostwrite` shows what else it loses). For a write inside the
    file the case is excluded by counting: `_fsize` counts fewer blocks than the item
    has entries (`SizeBound`), and as indices are distinct and dense, every
    index below that count has an entry (`DenseFound`, by the pigeonhole principle).
    `WriteTurn` then shows that a turn of the loop changes one block, in the cells of
    the chunk alone, so that what was stored before stays.
  * `FratHandleWritesItsItem`, under `KeepsOpened`: the client deletes no item that it
    opens and does not make one again with force. `HandlesOK` is the invariant: the entry of an
    open handle is the metadata entry of its item. `frat_wrongitem` has a client that
    deletes, and the property fails; the theorem says that nothing else makes it fail.
  * `FratListed`, under `DirsFit`, `KeepsOpened`, `KeepsDirs` and `RoomForParents`.
    `Listed` is false without them: a directory that is deleted or made again takes its
    list along, a write through a handle on a directory or a stale handle overwrites the
    list, a full directory loses the entry, and when `__fcreate` makes a missing parent and
    there is no room for it, the item is made all the same and listed nowhere. `KeepsDirs`
    and `KeepsOpened` are about the inputs, `DirsFit` is about their number, and
    `RoomForParents` about the steps: no `__fcreate` of a parent fails. Three invariants
    carry the proof, beside `AllListed`, which adds the items the mount found unlisted. `HandlesOK` keeps writes away from directories; `DirsOK` says that
    the first data block of a directory is the same in the cached map and in the one on disk, so
    that a crash between the write of the list and the flush of the map loses no list;
    `ListingOK` follows a `create` through `__fdiradd`: the array it is about to write
    lists the new item and all that the block on disk lists, because no second
    activation runs between the load and the write of the block (`FrameRests`).
* `FratStoreProofs`: `TypeOK /\ Promise` is inductive in the abstract store; hence
  `StoreKeepsPromise`: a promised item is durable, and being in the view it survives
  every later flush. Together with the refinements: what the tool reports as created is
  on the disk.

### The shell

`FratShellProofs`: `TypeOK /\ HandlesLive` is inductive; hence `ShellHandlesLive` and
`ShellTypeCorrect`. A handle that no `e.sym` copied has at most one symbol, so the first
one that `close` finds is the one that was closed. `ShellCreatedStays` and `ShellImplementsStore` assume `MaxMounts = 1`,
one live root per disk, without which they are false (`shell_remount`). `StoreInv`
adds to `CreatedStays` that a committed item is in the cache of every live root of its
disk, that a disk has one such root (`OneEach`), and that a disk without a file
system is empty and has none: otherwise `e.disk` could format a disk that holds
something. The view of the store is the cache of the one root, so that each command
changes it by one item or flushes it whole.

### The layout

`FratLayoutProofs`: `RootsMade` (every root on disk was written by a format, as far as its
fields keep it) is inductive and implies `RegionsDisjoint` (`LayoutDisjoint`). With `Fits`
the position of the map and the size in the root are the numbers themselves; the rest is
rounding up and monotone multiplication, for a raw block whose bytes may still wrap
(`nBlocks` is then one or more blocks all the same). `LayoutInv` adds where a `formatpart` in
progress stands (`FmtOK`), that the mounted root is one on disk (`MntOK`), that a map
which is not cleared belongs to a partition whose format is in progress or was cut
short (`MapsOK`), and how far the extents of the last step reach (`IoOK`). It gives
`LayoutTypeCorrect` and `LayoutMountedMapWritten`. `LayoutInsidePartition` assumes
`LargeEnough`: from the base on, `(nlog + 3) bs` blocks, the blocks of the map and one
for each of its entries end within the partition. `formatpart` does not test this;
the theorem states the test it would need.

### The pools

`MemPoolProofs`: `PoolInv` says of the descriptors of each pool that they do not overlap
(`Apart`), that each begins at the base or where another ends (`Based`), that links
follow addresses (`Links`), and that the sum of the sizes reaches the end of
every descriptor and is at most the size of the pool (`Filled`); of each holder that
its block begins with a descriptor and ends before the oldest descriptor of its pool. It
speaks of the descriptors as they were before a block was written over some of them,
which it allows for with `Written`: the allocator has then stopped. So `PoolTiled` and
`PoolLinked` hold of what is left of them. The arguments:

* `allocatedesc` tests `memusedsize`, a sum, and places the block at the end of the
  tip that `chaintip` finds. The two agree: one descriptor alone has no link (`OneTip`),
  it is the one of the highest address (`HighestDesc`), and `Filled` says where it ends.
  A sum is a function with `f[i] = f[i - 1] + ds[i].nbytes`; adding a descriptor or
  splitting one changes `f` in a way that can be written down (`AddsAppend`,
  `AddsChange`), and `memusedsize` is such a function (`UsedIsSum`).
* A split (`fragmemory`) leaves the link of the old descriptor pointing past the new
  one. `Loose` is what is true then; `fixmdarray` restores `Links` for all but the
  newest descriptor (`FixKeeps`), whose link the split has just copied from the old
  one and which is therefore right. That the descriptor `fixmdarray` looks for exists
  and is unique is `NextAdjacent`: by `Based`, between two descriptors in address
  order there is no gap.
* The search of `mmalloc` either serves the request from a pool it leaves well formed
  or changes nothing (`SearchServes`, `TurnServes`, `EmptyServes`).

`LiveDisjoint` is not among the consequences, and `pool_live` shows why.

### The boot loader

`BootProofs`: `BootInv == TypeOK /\ LoadInv /\ PlaceOK /\ InfoOK`. `Chained` is the core
of `LoadInv`: the root of an activation is the node of the one before it, and nodes are
numbered in the order of loading, so that only the root of the running activation gets
a dependency; hence `Root->Dependencies[NDependencies - 1]` stays the own node
(`BootOwnIsLast`) over the recursive call. `ReturnOK` says what a returned node means
to the caller, `NodesOK` that import entries are bound in order (`BootBoundRight`,
`BootImageComplete`), `sockets = Held` that exactly the activations that opened a file
have a socket (`BootNoSocketLeft`).

`TreeOK`, that dependencies lead to later nodes, makes the search well defined: the
function of `SearchBinary` exists from the last node down (`FindsStep`), finds only
images of the right name below its start, and finds one whenever there is one. The last
is what `BootTwinsApart` needs, with `NotBelow` between the search and the opening of
the file. Where a proof would go by induction over nodes or over turns of a loop it
takes the least or greatest one that fails instead (`ScanLemmas`).

`BootKernelMapCurrent`: an insertion of `SortMemoryDescriptors` may overwrite a
descriptor, but what it overwrites starts below another one that stays; as the blocks
of a memory map do not overlap, one that starts below another does not end above it.
So the highest end survives every turn (`Keeps`), and `TotalMemorySize` is right.

### Assumptions worth knowing

Paths are finite chains (`Depth` decreases towards the top); the map has fewer entries
than a 32-bit index can count; a root block fits in a sector; a partition is larger
than its log, since below that the unsigned difference in `CLUSTERMAPSECTORS_CALC`
wraps around; a descriptor is not larger than a block of a pool
(`DescUnits <= BlockUnits`: 4 and 512 units in the code); at most 31 images are
loaded; the blocks of a firmware memory map do not overlap and a map has at least one.
The hypotheses `WideEnough`, `DirsFit`, `KeepsOpened`, `KeepsDirs`, `RoomForParents`,
`MaxMounts = 1` and `LargeEnough` belong to single theorems and are explained above; the
passing runs that check the same properties satisfy them (of `frat_names`: nobody
deletes or forces `d` or opens it, two items fit in its block, and five entries
leave room for it). `frat_io` alone goes beyond `WideEnough`, to reach a block number that
wraps; `BehindMetadata` and `WriteInsideReadsBack` hold there as well.

### Only model-checked

`CallsReturn` and `BootEnds`: liveness under fairness is out of the prover's reach.
The properties that the violation runs refute are not theorems, except where a
hypothesis restores them (`ShellCreatedStays`, `FratHandleWritesItsItem`).

## 5. Not modelled

Device input and output, the page tables and other registers of the processor, the
bytes of images and executables, formatting of output and logs. Time stamps are
modelled only by what they overwrite. The log region is written by `formatpart` and
never used by the code. In the kernel:

* Interrupt tables (`libcrt/hardware/IDT/ISR.c`). `ISRSetCallback` is called with
  `(ISRCallback *)&handler`, so `*New` is the first bytes of the handler's code, and
  `SetIDTe` is called with the address of the local `IR.Base` for the table: the gate is
  written over the stack. From the first call on the behaviour is undefined; a
  model of vectors and stacks would describe what was meant, not what is there.
  `ISRUSetCallback` has no caller.
* NVMe, IO service, mutex. NVMe passes an uninitialised pointer to
  `AllocateInterruptVector` and keeps its list of commands behind the end of the stack
  it allocated; `OpenRawHandle` has no return statement, and `MassStorageRead` polls
  a mutex that a function it calls has locked. `MutexPoll` tests and sets in two
  steps, but no second context reaches a mutex: processors are not started and
  the handlers are undefined before.
* SSE stores. No store is ever enabled (`pushStore` is called by `switchCurrentStore`
  alone, which needs one), so `AllocateSSERegister` fails always.
* Page allocator. Its state is the page tables; `MemPool` models what
  `ReallocatePages` and `FreePages` mean to the pools.
* Video service: its list is walked by a timer interrupt of the tables above.
* The kernel's and the boot loader's copies of FrAT repeat the logic of `FratMap` and
  `Frat` over unfinished or read-only block access; the directory runner of the tool
  has no caller; the tokenizer and the pattern matcher are pure functions of strings.

The hazards of these parts stay in `PROJECT.json` with the reason no property covers
them, because they bite as soon as the code before them is repaired.

## 6. Plan

What is left, in this order:

1. `SSEStores`, once something pushes a store, and `Interrupts`, `KMutex` and
   `NVMeQueue`, once the calls above are defined. Properties to state then: two
   configured drivers have different vectors and stacks, mutual exclusion, a completed
   command releases its own waiter, every reader returns under fairness of the device.
2. `FratDir`: the directory runner over the directories of `Frat`, once a command
   calls it.
