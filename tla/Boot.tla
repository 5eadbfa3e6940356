-------------------------------- MODULE Boot --------------------------------
(***************************************************************************)
(* efi_main of the UEFI boot loader (Boot/UEFI/boot.c, bthelper.c): mount  *)
(* the disk, load kboot.exe with the PE loader, close the disk, gather the *)
(* boot information and enter the kernel.  The firmware runs beside it     *)
(* until ExitBootServices: whatever allocates or frees memory changes the  *)
(* memory map and its key.  Video modes, the boot entry and what is        *)
(* printed are left out.                                                   *)
(***************************************************************************)
EXTENDS PELoader

CONSTANTS
    Kboot,      \* the file efi_main loads
    Maps,       \* memory maps the firmware may report, disjoint blocks
    Pad,        \* descriptors added to the size that was asked for; 8 in the code
    MaxKey,     \* bound: times the memory map changes
    Garbage     \* what is read through a descriptor array that is NULL

VARIABLES
    at,         \* where efi_main is
    disk,       \* the root socket is open
    fwmap,      \* the memory map of the firmware, a sequence of blocks; it is
                \* chosen when efi_main first comes near it
    fwkey,      \* its key
    size,       \* descriptors the allocated buffer has room for
    map,        \* MemoryDescriptors of the boot information; <<>> is NULL
    key,        \* MemoryDescriptorMapKey
    exited,     \* boot services have ended
    total       \* TotalMemorySize

fwvars   == <<fwmap, fwkey, exited>>
infovars == <<size, map, key, total>>
vars     == <<loadvars, at, disk, fwvars, infovars>>

Block  == [start : Nat, pages : Nat]
End(b) == b.start + b.pages

\* The firmware always reports some memory, and no page twice.
ASSUME BootAssumption ==
    /\ Kboot \in Files /\ Pad \in Nat /\ MaxKey \in Nat
    /\ \A m \in Maps :
          /\ m \in Seq(Block) /\ m # <<>>
          /\ \A i, j \in DOMAIN m : m[i].start < m[j].start => End(m[i]) <= m[j].start

Places == {"mount", "load", "loading", "close", "stack", "query", "pool", "map",
           "exit", "total", "kernel", "aborted", "fault"}

Init ==
    /\ InitLoader
    /\ at = "mount" /\ disk = FALSE
    /\ fwmap = <<>> /\ fwkey = 0 /\ exited = FALSE
    /\ size = 0 /\ map = <<>> /\ key = 0 /\ total = 0

Go(from, to) == at = from /\ at' = to

----------------------------------------------------------------------------
(* The firmware.                                                           *)

\* An allocation, a release or an event handler changed the map.
Changed == fwkey < MaxKey /\ fwkey' = fwkey + 1 /\ fwmap' \in Maps

FirmwareEvent ==
    /\ ~exited /\ at \in {"query", "pool", "map", "exit", "total"}
    /\ Changed
    /\ UNCHANGED <<loadvars, at, disk, exited, infovars>>

----------------------------------------------------------------------------
(* efi_main.                                                               *)

\* socketopen, whose driver 0 calls fmount; without a root it is Exit.
socketopen ==
    /\ \/ Go("mount", "load") /\ disk' = TRUE
       \/ Go("mount", "aborted") /\ UNCHANGED disk
    /\ UNCHANGED <<loadvars, fwvars, infovars>>

Load ==
    /\ Go("load", "loading")
    /\ LoadExecutable(Kboot)
    /\ UNCHANGED <<disk, fwvars, infovars>>

Loading ==
    /\ at = "loading"
    /\ LoadStep
    /\ UNCHANGED <<at, disk, fwvars, infovars>>

LoadFault ==
    /\ NoMemory /\ Go("loading", "fault")
    /\ UNCHANGED <<loadvars, disk, fwvars, infovars>>

LoadReturned ==
    /\ Loaded
    /\ Go("loading", IF ret = NULL THEN "aborted" ELSE "close")
    /\ UNCHANGED <<loadvars, disk, fwvars, infovars>>

\* __froot_sckclose frees the root without flushing it.
CloseDisk ==
    /\ Go("close", "stack")
    /\ disk' = FALSE
    /\ UNCHANGED <<loadvars, fwvars, infovars>>

----------------------------------------------------------------------------
(* gatherbootinfo and GetMemoryMap.                                        *)

\* The pages of the kernel's stack; whether there are any is not looked at.
\* From here on it matters what the memory map is.
AllocateStack ==
    /\ Go("stack", "query")
    /\ fwmap' \in Maps
    /\ UNCHANGED <<loadvars, disk, fwkey, exited, infovars>>

\* The first call only asks for the size; it may report the key too.
QuerySize ==
    /\ Go("query", "pool")
    /\ size' = Len(fwmap) + Pad
    /\ key' \in {key, fwkey}
    /\ UNCHANGED <<loadvars, disk, fwvars, map, total>>

\* AllocatePool, which itself changes the map, or fails: GetMemoryMap is NULL
\* and mapSize stays what it is.
AllocatePool ==
    /\ \/ Go("pool", "map") /\ (Changed \/ UNCHANGED <<fwmap, fwkey>>)
       \/ Go("pool", "exit") /\ UNCHANGED <<fwmap, fwkey>>
    /\ UNCHANGED <<loadvars, disk, exited, infovars>>

(* SortMemoryDescriptors: an insertion sort whose shift writes over the    *)
(* descriptor that is to be inserted, so that the one before it is copied  *)
(* to the gap and the current one is lost.                                 *)
Gap(s, i) == Min({j \in 1 .. i : \A k \in j .. i - 1 : s[k].start > s[i].start})
Insert(s, i) ==
    LET j == Gap(s, i)
    IN  IF j = i THEN s
        ELSE [n \in 1 .. Len(s) |->
                  IF n = j THEN s[i - 1] ELSE IF n \in j .. i THEN s[n - 1] ELSE s[n]]
SortMemoryDescriptors(s) ==
    LET sorted[i \in 1 .. Len(s)] == IF i = 1 THEN s ELSE Insert(sorted[i - 1], i)
    IN  sorted[Len(s)]
Sorted == [m \in Maps |-> SortMemoryDescriptors(m)]

\* The second call fails when the map has outgrown the buffer.  It reports the
\* size it needs, and the key or not.
GetMemoryMap ==
    /\ Go("map", "exit")
    /\ \/ /\ Len(fwmap) <= size
          /\ size' = Len(fwmap)
          /\ key' = fwkey
          /\ map' = Sorted[fwmap]
       \/ /\ Len(fwmap) > size
          /\ size' = Len(fwmap)
          /\ key' \in {key, fwkey}
          /\ UNCHANGED map
    /\ UNCHANGED <<loadvars, disk, fwvars, total>>

\* Variant: the key is asked for again.
ExitFreshKey ==
    /\ Go("exit", "total")
    /\ exited' = TRUE
    /\ UNCHANGED <<loadvars, disk, fwmap, fwkey, infovars>>

\* Boot services end when the key is that of the map; else it is only printed.
ExitBootServices ==
    /\ Go("exit", "total")
    /\ exited' = (key = fwkey)
    /\ UNCHANGED <<loadvars, disk, fwmap, fwkey, infovars>>

\* The loop over the descriptors, by the size alone: undefined without a map.
SumMemory ==
    /\ Go("total", "kernel")
    /\ total' = IF map = <<>> THEN Garbage ELSE Max({End(map[i]) : i \in DOMAIN map})
    /\ UNCHANGED <<loadvars, disk, fwvars, size, map, key>>

----------------------------------------------------------------------------
Main ==
    \/ socketopen \/ Load \/ Loading \/ LoadFault \/ LoadReturned \/ CloseDisk
    \/ AllocateStack \/ QuerySize \/ AllocatePool \/ GetMemoryMap
    \/ ExitBootServices \/ SumMemory

Next == Main \/ FirmwareEvent
Spec == Init /\ [][Next]_vars /\ WF_vars(Main)

----------------------------------------------------------------------------
(* Properties.                                                             *)

\* Types of the boot loader's state.
TypeOK ==
    /\ LoaderTypeOK
    /\ at \in Places /\ disk \in BOOLEAN /\ exited \in BOOLEAN
    /\ fwmap \in Seq(Block) /\ map \in Seq(Block)
    /\ {fwkey, key} \subseteq 0 .. MaxKey
    /\ size \in Nat /\ total \in Nat \cup {Garbage}

\* efi_main closes what it opened: on every path out of LoadExecutable no file
\* socket is left open (an image that is given up closes its own on each level
\* of the recursion), and the kernel does not start with the disk open.
NoSocketLeft ==
    /\ at \notin {"loading", "fault"} => sockets = {}
    /\ at = "kernel" => ~disk

\* If boot services ended, the kernel is told of the memory as it is: no change
\* fell between the map that was read and the exit, and TotalMemorySize is the
\* end of the highest block although the sort may lose descriptors.
KernelMapCurrent ==
    at = "kernel" /\ exited /\ map # <<>> =>
        /\ Range(map) \subseteq Range(fwmap)
        /\ total = Max({End(fwmap[i]) : i \in DOMAIN fwmap})

\* efi_main enters the kernel or exits.  The one thing that can keep it is a
\* ring of three or more files that import one another: LoadBinary goes round
\* it until memory ends.
BootEnds == <>(at \in {"kernel", "aborted"} \/ (at = "fault" /\ LongCycle))

\* "Insert current descriptor into its sorted position" (bthelper.c:25): the
\* kernel gets the descriptors of the firmware in ascending order.
MapSorted ==
    at = "exit" /\ map # <<>> /\ key = fwkey =>
        /\ \A i \in 1 .. Len(map) - 1 : map[i].start <= map[i + 1].start
        /\ Range(map) = Range(fwmap)
============================================================================
