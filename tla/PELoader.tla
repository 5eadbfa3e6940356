------------------------------ MODULE PELoader ------------------------------
(***************************************************************************)
(* The PE loader of the boot loader (Boot/UEFI/drivers/executable/eload.c) *)
(* LoadBinary opens a file, hangs a node for it below the node that wanted *)
(* it and binds its imports one by one: to an image SearchBinary finds, or *)
(* to one it loads by calling itself.  The calls are a stack of frames.    *)
(* Images are well formed and pages can be had for MaxNodes of them; what  *)
(* sections hold, the printing and the page attributes are left out.       *)
(***************************************************************************)
EXTENDS Naturals, Sequences, FiniteSets, SequencesExt, FiniteSetsExt

CONSTANTS
    Files,      \* names of the files the loader may meet, one directory
    Graphs,     \* the import lists considered, in [Files -> Seq(Files)]
    Absents,    \* sets of files that are not on the disk
    Flaws,      \* import entries that are damaged: <<importer, library, kind>>
    MaxNodes    \* bound: images that fit in memory

\* SearchBinary keeps a path of 32 nodes, the Stub included; a tree of fewer
\* nodes has no longer one.
ASSUME LoaderAssumption ==
    /\ MaxNodes \in 1 .. 31
    /\ Graphs \subseteq [Files -> Seq(Files)] /\ Absents \subseteq SUBSET Files

VARIABLES
    imports, absent, flaw,  \* what is on the disk; never changes
    names,      \* node -> file, in the order of loading
    deps,       \* Dependencies of a node; node 0 is the Stub of LoadExecutable
    iat,        \* the nodes the import entries of a node were bound to
    done,       \* nodes whose LoadBinary returned them
    stack,      \* activations of LoadBinary, the running one last
    ret,        \* what the last one returned: Pending, NULL or a node
    sockets     \* file sockets that are open, by the node they were opened for

content  == <<imports, absent, flaw>>
tree     == <<names, deps, iat, done>>
loadvars == <<content, tree, stack, ret, sockets>>

Stub    == 0
NULL    == 0            \* no node is returned as 0: Stub stays inside
Pending == MaxNodes + 1
Nodes   == 1 .. MaxNodes

Kinds == {"name", "link"}
Phases == {"open", "imports", "wait"}
Frame == [file : Files, root : Stub .. MaxNodes, this : Stub .. MaxNodes,
          k : Nat, ph : Phases]

InitLoader ==
    /\ imports \in Graphs /\ absent \in Absents /\ flaw \in Flaws
    /\ names = <<>>
    /\ deps = [n \in Stub .. MaxNodes |-> <<>>]
    /\ iat = [n \in Nodes |-> <<>>]
    /\ done = {} /\ stack = <<>> /\ ret = Pending /\ sockets = {}

----------------------------------------------------------------------------
(* SearchBinary walks the tree below a node depth first, the node itself   *)
(* included, and returns the first image with the name.                    *)

Named(n, lib) == n # Stub /\ names[n] = lib

\* Variant: the walk does not go down.
SearchBinaryFlat(root, lib) ==
    LET hits == {n \in {root} \cup Range(deps[root]) : Named(n, lib)}
    IN  IF hits = {} THEN NULL ELSE Min(hits)
\* Variant: the comparison is the wrong way round.
SearchBinaryNot(root, lib) ==
    LET hits == {n \in {root} \cup Range(deps[root]) : n # Stub /\ ~Named(n, lib)}
    IN  IF hits = {} THEN NULL ELSE Min(hits)

\* What the walk finds at or below each node.
Found(lib) ==
    LET found[n \in Stub .. MaxNodes] ==
            LET hits == {i \in DOMAIN deps[n] : found[deps[n][i]] # NULL}
            IN  IF Named(n, lib) THEN n
                ELSE IF hits = {} THEN NULL
                ELSE found[deps[n][Min(hits)]]
    IN  found
SearchBinary(root, lib) == Found(lib)[root]

----------------------------------------------------------------------------
(* LoadBinary.                                                             *)

Top == Last(stack)
Call(s, file, root) ==
    Append(s, [file |-> file, root |-> root, this |-> Stub, k |-> 1, ph |-> "open"])
Running(ph) == stack # <<>> /\ Top.ph = ph
Resume(f) == ReplaceAt(stack, Len(stack), f)
Return(x) ==
    /\ stack' = Front(stack)
    /\ ret' = x

\* The code has no variable for its own node: it is the last of Root's.
OwnNode(f) == Last(deps[f.root])
Lib(f)     == imports[f.file][f.k]
HasMore(f) == f.k <= Len(imports[f.file])
Flawed(f, kind) == flaw = <<f.file, Lib(f), kind>>

\* Variant of the next: the open is tried again.
OpenRetries ==
    /\ Running("open") /\ Top.file \in absent
    /\ UNCHANGED loadvars

\* The root socket finds no such file.
OpenFails ==
    /\ Running("open") /\ Top.file \in absent
    /\ Return(NULL)
    /\ UNCHANGED <<content, tree, sockets>>

\* The file is opened, its image allocated and its node hung below Root.
Opened ==
    /\ Running("open") /\ Top.file \notin absent /\ Len(names) < MaxNodes
    /\ LET n == Len(names) + 1
       IN  /\ names' = Append(names, Top.file)
           /\ deps' = [deps EXCEPT ![Top.root] = Append(@, n)]
           /\ sockets' = sockets \cup {n}
           /\ stack' = Resume([Top EXCEPT !.this = n, !.ph = "imports"])
    /\ UNCHANGED <<content, iat, done, ret>>

\* Variant of the one below: the socket stays open.
FailOpen ==
    /\ Return(NULL)
    /\ UNCHANGED <<content, tree, sockets>>
\* Variant of the one below: the unfinished image is returned.
FailNode ==
    /\ sockets' = sockets \ {Top.this}
    /\ Return(OwnNode(Top))
    /\ UNCHANGED <<content, tree>>
\* Every error exit behind the open closes the socket and returns NULL.
Fail ==
    /\ sockets' = sockets \ {Top.this}
    /\ Return(NULL)
    /\ UNCHANGED <<content, tree>>

\* The library is there: its addresses go to the import table, unless the
\* lookup table is missing or ResolveExport does not find one of them.
Bind(n) ==
    \/ Flawed(Top, "link") /\ Fail
    \/ /\ ~Flawed(Top, "link")
       /\ iat' = [iat EXCEPT ![OwnNode(Top)] = Append(@, n)]
       /\ stack' = Resume([Top EXCEPT !.k = @ + 1, !.ph = "imports"])
       /\ ret' = Pending
       /\ UNCHANGED <<content, names, deps, done, sockets>>

\* No name of the library in the import section.
ImportUnnamed == Running("imports") /\ HasMore(Top) /\ Flawed(Top, "name") /\ Fail

Import ==
    /\ Running("imports") /\ HasMore(Top) /\ ~Flawed(Top, "name")
    /\ SearchBinary(Top.root, Lib(Top)) # NULL
    /\ Bind(SearchBinary(Top.root, Lib(Top)))

\* Variant: the dependency is hung beside the image, not below it.
ImportLoadBeside ==
    /\ Running("imports") /\ HasMore(Top) /\ ~Flawed(Top, "name")
    /\ SearchBinary(Top.root, Lib(Top)) = NULL
    /\ stack' = Call(Resume([Top EXCEPT !.ph = "wait"]), Lib(Top), Top.root)
    /\ UNCHANGED <<content, tree, ret, sockets>>

\* Not found from Root down: load it, below the own node.
ImportLoad ==
    /\ Running("imports") /\ HasMore(Top) /\ ~Flawed(Top, "name")
    /\ SearchBinary(Top.root, Lib(Top)) = NULL
    /\ stack' = Call(Resume([Top EXCEPT !.ph = "wait"]), Lib(Top), OwnNode(Top))
    /\ UNCHANGED <<content, tree, ret, sockets>>

\* Variant: the result of the inner LoadBinary is not looked at.
ImportLoadedUnchecked == Running("wait") /\ Bind(ret)

\* The inner LoadBinary has returned.
ImportLoaded ==
    /\ Running("wait")
    /\ \/ ret = NULL /\ Fail
       \/ ret # NULL /\ Bind(ret)

\* All sections are loaded.
Finish ==
    /\ Running("imports") /\ ~HasMore(Top)
    /\ sockets' = sockets \ {Top.this}
    /\ done' = done \cup {OwnNode(Top)}
    /\ Return(OwnNode(Top))
    /\ UNCHANGED <<content, names, deps, iat>>

LoadStep ==
    \/ OpenFails \/ Opened \/ ImportUnnamed \/ Import \/ ImportLoad
    \/ ImportLoaded \/ Finish

\* LoadExecutable calls LoadBinary with an empty Stub.
LoadExecutable(file) ==
    /\ stack' = Call(stack, file, Stub)
    /\ ret' = Pending
    /\ UNCHANGED <<content, tree, sockets>>
Loaded == stack = <<>> /\ ret # Pending

\* Undefined behaviour: the status of AllocatePages is not looked at and the
\* image would be written to address 0.
NoMemory == Running("open") /\ Top.file \notin absent /\ Len(names) = MaxNodes

----------------------------------------------------------------------------
(* Properties.                                                             *)

LoaderTypeOK ==
    /\ imports \in [Files -> Seq(Files)] /\ absent \subseteq Files
    /\ names \in Seq(Files) /\ Len(names) <= MaxNodes
    /\ deps \in [Stub .. MaxNodes -> Seq(Nodes)]
    /\ iat \in [Nodes -> Seq(Nodes)]
    /\ done \subseteq Nodes /\ sockets \subseteq Nodes
    /\ stack \in Seq(Frame)
    /\ ret \in NULL .. Pending

\* LoadBinary writes Root->Dependencies[Root->NDependencies - 1] wherever it
\* means its own node (eload.c:126 and 176 to 213).  That is its own node all the time,
\* whatever the calls it makes for its imports add to the tree.
OwnIsLast ==
    \A f \in Range(stack) : f.ph # "open" => OwnNode(f) = f.this /\ names[f.this] = f.file

\* An import entry points into an image of the library that it names, of which
\* loading has not been given up.
BoundRight ==
    \A n \in 1 .. Len(names) : \A i \in DOMAIN iat[n] :
        /\ names[iat[n][i]] = imports[names[n]][i]
        /\ ret # NULL => iat[n][i] \in done \cup {f.this : f \in Range(stack)}

\* What LoadExecutable returns can run: every image that was loaded on the way,
\* also the ones others were bound to while they were still being loaded (an
\* import cycle), has all its imports bound.
ImageComplete ==
    Loaded /\ ret # NULL =>
        \A n \in 1 .. Len(names) : n \in done /\ Len(iat[n]) = Len(imports[names[n]])

\* The nodes at and below n: those in every set that contains n and with a
\* node its dependencies.
Closed(S) == \A r \in S : Range(deps[r]) \subseteq S
Below(n) ==
    {m \in Stub .. MaxNodes : \A S \in SUBSET (Stub .. MaxNodes) : n \in S /\ Closed(S) => m \in S}
ParentOf(n) == CHOOSE r \in Stub .. MaxNodes : n \in Range(deps[r])

\* SearchBinary starts at the parent of the importing image, so a library gets
\* a second image only when the first is not below that node: two images that
\* share a grandparent share their libraries.
TwinsApart ==
    \A n \in 1 .. Len(names) : \A m \in 1 .. n - 1 :
        names[m] = names[n] /\ ParentOf(n) # Stub =>
            m \notin Below(ParentOf(ParentOf(n)))

\* Files import one another in a ring of three or more: from x to y, on to
\* another file, and from there back to x without y.
LongCycle ==
    \E x \in Files : \E y \in Range(imports[x]) \ {x} :
        LET way[i \in 1 .. Cardinality(Files)] ==
                IF i = 1 THEN Range(imports[y]) \ {x, y}
                ELSE UNION {Range(imports[z]) : z \in way[i - 1] \ {x}} \ {y}
        IN  \E i \in DOMAIN way : x \in way[i]
============================================================================
