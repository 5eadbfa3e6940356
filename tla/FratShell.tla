----------------------------- MODULE FratShell -----------------------------
(***************************************************************************)
(* The state the shell (tools/filesystem/shell.c) keeps between commands:  *)
(* the mounted root (`persistent' of e.mount), the symbol table of e.sym,  *)
(* and the objects on the heap both refer to.  What a command does inside  *)
(* one file system is the subject of module Frat; here a root is the set   *)
(* of items in its cached cluster map, and a disk the set of items in the  *)
(* map that was flushed last; there is always room for another item.       *)
(* Every e.disk makes a new root, so several roots of one disk can exist,  *)
(* each with a cache of its own.                                           *)
(***************************************************************************)
EXTENDS Integers, Sequences, FiniteSets, FiniteSetsExt

CONSTANTS
    Disks,       \* paths on the parent file system
    Items,       \* paths of items
    Aliases,     \* names of symbols a client chooses
    REALDISK,    \* the symbol e.disk defines
    MaxRoots,    \* bound: e.disk commands of one process that mount
    MaxMounts,   \* live roots of one disk in a process
    MaxHandles,  \* bound: handles allocated in one process at a time
    MaxSyms      \* bound: length of the symbol table

ASSUME ShellAssumption ==
    /\ REALDISK \notin Aliases /\ Disks # {}
    /\ {MaxRoots, MaxMounts, MaxHandles, MaxSyms} \subseteq Nat

Roots   == 1 .. MaxRoots
Handles == 1 .. MaxHandles
None    == 0

VARIABLES
    mount,      \* e.mount: the root commands work on, or None
    roots,      \* the conf_fsroot objects: nothing, live or freed
    handles,    \* the fhandle objects
    syms,       \* the symbol table
    table,      \* the table has been allocated (persistent of e.sym)
    toggle,     \* togglesymtype: the type the next symbol gets
    disk,       \* [Disks -> SUBSET Items], the flushed cluster maps
    formatted,  \* the disks that hold a file system
    committed,  \* history: <<disk, item>> of creates that have returned
    copied      \* history: handles whose address e.sym has given to a second
                \* symbol, as long as some symbol holds it

vars == <<mount, roots, handles, syms, table, toggle, disk, formatted, committed, copied>>

SymTypes == {"string", "fhandle", "unknowndata"}
NoRoot   == [st |-> "none", disk |-> CHOOSE k \in Disks : TRUE, cache |-> {}]
NoHandle == [st |-> "none", root |-> None]
\* ref is the handle whose address the symbol holds; live says whether the data
\* of a symbol without one is memory that is still allocated.
Symbol == [alias : Aliases \cup {REALDISK}, type : SymTypes,
           ref : Handles \cup {None}, live : BOOLEAN]

Init ==
    /\ mount = None
    /\ roots = [r \in Roots |-> NoRoot]
    /\ handles = [h \in Handles |-> NoHandle]
    /\ syms = <<>> /\ table = FALSE
    /\ toggle = "string"
    /\ disk = [k \in Disks |-> {}]
    /\ formatted = {}
    /\ committed = {}
    /\ copied = {}

Lose ==
    /\ mount' = None
    /\ roots' = [r \in Roots |-> NoRoot]
    /\ handles' = [h \in Handles |-> NoHandle]
    /\ syms' = <<>> /\ table' = FALSE
    /\ toggle' = "string"
    /\ copied' = {}

Crash ==
    /\ Lose
    /\ UNCHANGED <<disk, formatted, committed>>

----------------------------------------------------------------------------
(* Symbols.                                                                *)

\* resolvedata: the first symbol whose alias occurs in the argument.
Named(a)    == {i \in DOMAIN syms : syms[i].alias = a}
Resolves(a) == Named(a) # {}
resolvedata(a) == syms[Min(Named(a))]

\* Variant of the next: a new table is not stored.
DefinedNoTable(t, a, ref, live) ==
    /\ syms' = Append(syms, [alias |-> a, type |-> t, ref |-> ref,
                             live  |-> live \/ t = "string"])
    /\ table' = table
    /\ toggle' = "string"

\* __shellsym appends an entry whose type was selected beforehand, through
\* togglesymtype; only the data of a string is copied.
Defined(t, a, ref, live) ==
    /\ syms' = Append(syms, [alias |-> a, type |-> t, ref |-> ref,
                             live  |-> live \/ t = "string"])
    /\ table' = TRUE
    /\ toggle' = "string"

\* What the data argument of e.sym is: a name of a string symbol becomes a new
\* string, the name of any other symbol the pointer that symbol holds, and text
\* that names none (src is None) a pointer into the copy of the command line.
Data(src) ==
    IF Resolves(src) THEN resolvedata(src)
    ELSE [ref |-> None, live |-> FALSE]

\* e.sym: __shellparse selects the type unknowndata, and frees the copy of the
\* command line when the command has returned.
shellsym(a, src) ==
    /\ Len(syms) < MaxSyms
    /\ Defined("unknowndata", a, Data(src).ref, Data(src).live)
    /\ copied' = copied \cup ({Data(src).ref} \ {None})
    /\ UNCHANGED <<mount, roots, handles, disk, formatted, committed>>

\* An optional argument of e.sym is missing: nothing is defined, but the type
\* stays selected.
shellsymRefused ==
    /\ toggle' = "unknowndata"
    /\ UNCHANGED <<mount, roots, handles, syms, table, disk, formatted, committed, copied>>

----------------------------------------------------------------------------
(* e.disk.                                                                 *)

NewRoot == CHOOSE r \in Roots : roots[r].st = "none"
Room(k) ==
    /\ \E r \in Roots : roots[r].st = "none"
    /\ Cardinality({r \in Roots : roots[r].st = "live" /\ roots[r].disk = k}) < MaxMounts
Mounted(k, m) == [roots EXCEPT ![NewRoot] =
                     [st |-> "live", disk |-> k, cache |-> m]]

\* The disk holds a file system: fmount caches its map in a new root.  The old
\* root, if there is one, stays allocated and its handles keep pointing to it.
shelldisk(k) ==
    /\ k \in formatted /\ Room(k) /\ Len(syms) < MaxSyms
    /\ mount' = NewRoot
    /\ roots' = Mounted(k, disk[k])
    /\ Defined("string", REALDISK, None, TRUE)
    /\ UNCHANGED <<handles, disk, formatted, committed, copied>>

\* It does not, and a partition was named: formatpart, then fmount.
shelldiskFormat(k) ==
    /\ k \notin formatted /\ Room(k) /\ Len(syms) < MaxSyms
    /\ formatted' = formatted \cup {k}
    /\ disk' = [disk EXCEPT ![k] = {}]
    /\ mount' = NewRoot
    /\ roots' = Mounted(k, {})
    /\ Defined("string", REALDISK, None, TRUE)
    /\ UNCHANGED <<handles, committed, copied>>

\* It does not, and no partition was named: e.mount is NULL from now on.
shelldiskFail(k) ==
    /\ k \notin formatted
    /\ mount' = None
    /\ UNCHANGED <<roots, handles, syms, table, toggle, disk, formatted, committed, copied>>

----------------------------------------------------------------------------
(* Commands on items.                                                      *)

\* Variant: it writes to the mounted disk.
fuloadrootMounted(d, r) ==
    IF mount = None THEN d ELSE [d EXCEPT ![roots[mount].disk] = roots[r].cache]

\* fuloadroot writes the cached map of a root over whatever the disk holds.
fuloadroot(d, r) == [d EXCEPT ![roots[r].disk] = roots[r].cache]

\* Variant: the handle is dropped without fuloadh.
shellcreateNoFlush(p) ==
    /\ toggle' = "fhandle"
    /\ IF mount = None THEN UNCHANGED <<roots, disk, committed>>
       ELSE /\ roots' = [roots EXCEPT ![mount].cache = @ \cup {p}]
            /\ disk' = disk
            /\ committed' = committed \cup {<<roots[mount].disk, p>>}
    /\ UNCHANGED <<mount, handles, syms, table, formatted, copied>>

\* create: without a mounted root only the type of the next symbol changes.
shellcreate(p) ==
    /\ toggle' = "fhandle"
    /\ IF mount = None THEN UNCHANGED <<roots, disk, committed>>
       ELSE /\ roots' = [roots EXCEPT ![mount].cache = @ \cup {p}]
            /\ disk' = [disk EXCEPT ![roots[mount].disk] = roots[mount].cache \cup {p}]
            /\ committed' = committed \cup {<<roots[mount].disk, p>>}
    /\ UNCHANGED <<mount, handles, syms, table, formatted, copied>>

\* delete: an item that is not there, and a root that is not there, fault.
shelldelete(p) ==
    /\ IF mount = None \/ p \notin roots[mount].cache
       THEN Lose /\ UNCHANGED committed
       ELSE /\ roots' = [roots EXCEPT ![mount].cache = @ \ {p}]
            /\ committed' = committed \ {<<roots[mount].disk, p>>}
            /\ UNCHANGED <<mount, handles, syms, table, toggle, copied>>
    /\ UNCHANGED <<disk, formatted>>

\* open: the type fhandle is selected before floadh, which creates the item in
\* the cached map when the argument holds a 'c'.  When there is no item no
\* symbol is made and the type stays selected.
Loaded(p, c) == IF c THEN [roots EXCEPT ![mount].cache = @ \cup {p}] ELSE roots

\* A new handle takes memory that has been freed, or the next that was never
\* used.
Allocates(h) ==
    \/ handles[h].st = "freed"
    \/ handles[h].st = "none" /\ \A g \in Handles : handles[g].st = "none" => h <= g

shellopen(p, a, c, h) ==
    /\ mount # None
    /\ Allocates(h)
    /\ Len(syms) < MaxSyms
    /\ roots' = Loaded(p, c)
    /\ IF p \in Loaded(p, c)[mount].cache
       THEN /\ handles' = [handles EXCEPT ![h] = [st |-> "live", root |-> mount]]
            /\ Defined("fhandle", a, h, TRUE)
       ELSE toggle' = "fhandle" /\ UNCHANGED <<handles, syms, table>>
    /\ UNCHANGED <<mount, disk, formatted, committed, copied>>

\* Variant of the next: the symbol stays.
WithoutNone(s, h) == s
\* __shellclose takes out the first symbol that holds the handle: the entries
\* behind it move up.
Without(s, h) ==
    LET i == Min({j \in DOMAIN s : s[j].ref = h})
    IN  [k \in 1 .. Len(s) - 1 |-> IF k < i THEN s[k] ELSE s[k + 1]]

\* close: the argument is a pointer, whatever the type of the symbol it comes
\* from.  fuloadh flushes the root of the handle, which need not be the mounted
\* one, and frees the handle.
shellclose(a) ==
    /\ table /\ Resolves(a)
    /\ LET h == resolvedata(a).ref
       IN  /\ h # None /\ handles[h].st = "live"
           /\ disk' = fuloadroot(disk, handles[h].root)
           /\ handles' = [handles EXCEPT ![h].st = "freed"]
           /\ syms' = Without(syms, h)
           /\ copied' = IF \E i \in DOMAIN syms' : syms'[i].ref = h
                        THEN copied ELSE copied \ {h}
    /\ UNCHANGED <<mount, roots, table, toggle, formatted, committed>>

\* The handle has been freed: the process dies reading it, or flushes the root
\* that is still written there and dies freeing it again.
shellcloseAgain(a) ==
    /\ table /\ Resolves(a)
    /\ LET h == resolvedata(a).ref
       IN  /\ h # None /\ handles[h].st = "freed"
           /\ disk' \in {disk, fuloadroot(disk, handles[h].root)}
    /\ Lose
    /\ UNCHANGED <<formatted, committed>>

\* An alias that names no symbol, or one whose data is no handle, is taken for
\* the address of a handle.
shellcloseFault(a) ==
    /\ table
    /\ Resolves(a) => resolvedata(a).ref = None
    /\ Lose
    /\ UNCHANGED <<disk, formatted, committed>>

\* e.flush frees the symbol table, the strings in it and the mounted root,
\* without writing anything back; handles are not closed.
shellflush ==
    /\ mount' = None
    /\ roots' = IF mount = None THEN roots ELSE [roots EXCEPT ![mount].st = "freed"]
    /\ syms' = <<>> /\ table' = FALSE
    /\ copied' = {}
    /\ UNCHANGED <<handles, toggle, disk, formatted, committed>>

\* The disks when exit has closed the handles of the first n symbols of type
\* fhandle: the last write to a disk remains.
Closing(k, n) == {i \in 1 .. n : syms[i].type = "fhandle"
                                   /\ roots[handles[syms[i].ref].root].disk = k}
Closed(k, n) ==
    IF Closing(k, n) = {} THEN disk[k]
    ELSE roots[handles[syms[Max(Closing(k, n))].ref].root].cache

\* The symbols whose handle has been freed when exit comes to them.
Freed == {i \in DOMAIN syms :
             /\ syms[i].type = "fhandle"
             /\ \/ handles[syms[i].ref].st = "freed"
                \/ \E j \in 1 .. i - 1 : syms[j].type = "fhandle" /\ syms[j].ref = syms[i].ref}

\* exit: every handle in the table is closed in order, then the mounted root
\* is flushed.  Without a table the command is refused.
shellexit ==
    /\ table /\ Freed = {}
    /\ disk' = [k \in Disks |-> IF mount # None /\ roots[mount].disk = k
                                THEN roots[mount].cache ELSE Closed(k, Len(syms))]
    /\ Lose
    /\ UNCHANGED <<formatted, committed>>

\* The process dies at the first handle that has been freed, as in close.
shellexitFault ==
    /\ table /\ Freed # {}
    /\ \E n \in {Min(Freed) - 1, Min(Freed)} : disk' = [k \in Disks |-> Closed(k, n)]
    /\ Lose
    /\ UNCHANGED <<formatted, committed>>

Next ==
    \/ \E a \in Aliases, src \in Aliases \cup {REALDISK, None} : shellsym(a, src)
    \/ \E a \in Aliases : shellclose(a) \/ shellcloseAgain(a) \/ shellcloseFault(a)
    \/ shellsymRefused
    \/ \E k \in Disks : shelldisk(k) \/ shelldiskFormat(k) \/ shelldiskFail(k)
    \/ \E p \in Items :
          \/ shellcreate(p) \/ shelldelete(p)
          \/ \E a \in Aliases, c \in BOOLEAN, h \in Handles : shellopen(p, a, c, h)
    \/ shellflush \/ shellexit \/ shellexitFault \/ Crash

Spec == Init /\ [][Next]_vars

----------------------------------------------------------------------------
(* Properties.                                                             *)

\* Types of the mounted root, the objects and the symbol table; a handle has a
\* root, and the table exists when it has entries.
TypeOK ==
    /\ mount \in Roots \cup {None}
    /\ roots \in [Roots -> [st : {"none", "live", "freed"}, disk : Disks, cache : SUBSET Items]]
    /\ handles \in [Handles -> [st : {"none", "live", "freed"}, root : Roots \cup {None}]]
    /\ \A h \in Handles : handles[h].st # "none" => handles[h].root # None
    /\ syms \in Seq(Symbol) /\ table \in BOOLEAN
    /\ syms # <<>> => table
    /\ toggle \in SymTypes
    /\ disk \in [Disks -> SUBSET Items]
    /\ formatted \in SUBSET Disks
    /\ committed \in SUBSET (Disks \X Items)
    /\ copied \in SUBSET Handles

\* Which pointers can dangle.  The mounted root is live, and so is the root of
\* every handle a symbol holds.  A symbol holds a freed handle, or one that
\* another symbol holds and will free again, only if e.sym has copied the
\* address of that handle: close takes out the first symbol with the address
\* and leaves the others, also for a handle that open puts at the same place
\* later (open, close, e.sym, e.flush, exit).
HandlesLive ==
    /\ mount # None => roots[mount].st = "live"
    /\ \A i \in DOMAIN syms :
        /\ syms[i].type = "fhandle" => syms[i].ref # None
        /\ syms[i].type = "string" => syms[i].live /\ syms[i].ref = None
        /\ syms[i].ref # None =>
               /\ handles[syms[i].ref].st # "none"
               /\ roots[handles[syms[i].ref].root].st = "live"
        /\ syms[i].ref \notin copied \cup {None} =>
               /\ syms[i].type = "fhandle"
               /\ handles[syms[i].ref].st = "live"
               /\ \A j \in DOMAIN syms : syms[j].ref = syms[i].ref => j = i

\* An item whose create command has returned is in the flushed map of its disk
\* until it is deleted, whatever is closed, flushed, killed or mounted again
\* (create, close, e.flush, exit all write a whole cached map, or none).
CreatedStays == \A x \in committed : x[2] \in disk[x[1]]

\* The view of a disk is the cache of its live root, of which there is one
\* when MaxMounts is 1.
LiveRoots(k) == {r \in Roots : roots[r].st = "live" /\ roots[r].disk = k}
Store == INSTANCE FratStore WITH
    mounted  <- {k \in Disks : LiveRoots(k) # {}},
    view     <- [k \in Disks |-> UNION {roots[r].cache : r \in LiveRoots(k)}],
    durable  <- disk,
    promised <- committed

\* However handles, symbols and mounts are mixed, a session with one root per
\* disk behaves as the store that FratStore specifies: close, exit and create
\* write the view of their own disk and nothing else, and no command but
\* create promises anything.
ImplementsStore == Store!Spec
============================================================================
