----------------------------- MODULE BootProofs -----------------------------
(***************************************************************************)
(* What the boot loader promises, for any files, import graphs, damaged    *)
(* entries, memory maps and number of images.                              *)
(*                                                                         *)
(* The loader's own node is the last of Root's dependencies because the    *)
(* activations hang below one another: each one's root is the node of the  *)
(* one before, nodes are numbered as they are loaded, so only the running  *)
(* activation's root gets a new dependency.  LoadInv says this, and what   *)
(* a value that was returned means to the activation that waits for it.    *)
(***************************************************************************)
EXTENDS Boot, ScanLemmas, SequenceTheorems

\* The nodes of the activations that have opened their file.
Held == {stack[j].this : j \in {i \in 1 .. Len(stack) : stack[i].ph # "open"}}

FrameOK(f) ==
    /\ f.root \in 0 .. Len(names)
    /\ f.ph = "open" => f.k = 1
    /\ f.ph # "open" =>
          /\ f.this \in 1 .. Len(names) /\ f.root < f.this /\ names[f.this] = f.file
          /\ deps[f.root] # <<>> /\ Last(deps[f.root]) = f.this
          /\ f.k = Len(iat[f.this]) + 1 /\ f.this \notin done
    /\ f.ph = "wait" => HasMore(f)

Chained ==
    /\ \A j \in 1 .. Len(stack) : FrameOK(stack[j])
    /\ stack # <<>> => stack[1].root = Stub
    /\ \A j \in 2 .. Len(stack) :
          /\ stack[j - 1].ph = "wait" /\ stack[j].root = stack[j - 1].this
          /\ stack[j].file = Lib(stack[j - 1])
    /\ \A i, j \in 1 .. Len(stack) :
          i < j => stack[i].ph # "open" /\ stack[i].this <= stack[j].root

\* What the last activation returned, as the one that waits for it sees it.
ReturnOK ==
    /\ stack # <<>> => (Top.ph = "wait" <=> ret # Pending)
    /\ ret \in Nodes => ret \in done
    /\ ret \in Nodes /\ stack # <<>> => names[ret] = Lib(Top)
    /\ ret # NULL => 1 .. Len(names) \subseteq done \cup Held

\* Import entries are bound in order, each to an image of the right name.
NodesOK ==
    /\ done \subseteq 1 .. Len(names)
    /\ \A n \in Nodes : n > Len(names) => iat[n] = <<>>
    /\ \A n \in 1 .. Len(names) :
          /\ Len(iat[n]) <= Len(imports[names[n]])
          /\ \A i \in 1 .. Len(iat[n]) :
                iat[n][i] \in 1 .. Len(names) /\ names[iat[n][i]] = imports[names[n]][i]
    /\ \A n \in done : Len(iat[n]) = Len(imports[names[n]])

\* The dependencies form a tree whose edges go to nodes loaded later.
TreeOK ==
    /\ \A r \in 0 .. MaxNodes : \A i \in 1 .. Len(deps[r]) :
          deps[r][i] \in 1 .. Len(names) /\ r < deps[r][i]
    /\ \A n \in 1 .. Len(names) :
          \E r \in 0 .. MaxNodes : \E i \in 1 .. Len(deps[r]) : deps[r][i] = n
    /\ \A r, s \in 0 .. MaxNodes : \A i \in 1 .. Len(deps[r]), j \in 1 .. Len(deps[s]) :
          deps[r][i] = deps[s][j] => r = s

\* A file is opened a second time only if no image of it is where the search was.
NotBelow ==
    Len(stack) > 1 /\ stack[Len(stack)].ph = "open" =>
        \A m \in Below(stack[Len(stack) - 1].root) :
            m \in 1 .. Len(names) => names[m] # stack[Len(stack)].file

LoadInv ==
    /\ LoaderTypeOK /\ Chained /\ sockets = Held /\ ReturnOK /\ NodesOK /\ TreeOK
    /\ NotBelow /\ TwinsApart

\* Where the loader can be while efi_main is at a place.
PlaceOK ==
    /\ at \in {"mount", "load"} => names = <<>> /\ ret = Pending
    /\ at \notin {"loading", "fault"} => stack = <<>>
    /\ at \in {"stack", "query", "pool", "map", "exit", "total", "kernel"} => disk = FALSE

\* What the boot information is while the firmware goes on changing its map.
InfoOK ==
    /\ at \in {"query", "pool", "map", "exit", "total", "kernel"} => fwmap \in Maps
    /\ at \notin {"exit", "total", "kernel"} => map = <<>>
    /\ key <= fwkey
    /\ map # <<>> /\ key = fwkey => map = Sorted[fwmap]
    /\ exited => key = fwkey /\ at \in {"total", "kernel"}
    /\ at = "kernel" /\ map # <<>> => total = Max({End(map[i]) : i \in DOMAIN map})

BootInv == TypeOK /\ LoadInv /\ PlaceOK /\ InfoOK
----------------------------------------------------------------------------
(* SearchBinary.                                                           *)

\* One turn of the search, given what it finds below the node.
Turn(f, n, lib) ==
    LET hits == {i \in DOMAIN deps[n] : f[deps[n][i]] # NULL}
    IN  IF Named(n, lib) THEN n
        ELSE IF hits = {} THEN NULL
        ELSE f[deps[n][Min(hits)]]

\* f is what the search finds at each node from m on.
Finds(f, m, lib) ==
    /\ f = [n \in m .. MaxNodes |-> f[n]]
    /\ \A n \in m .. MaxNodes : f[n] = Turn(f, n, lib)

\* The edges lead to later nodes, so a turn looks only at those.
LEMMA TurnLocal ==
  ASSUME LoaderTypeOK, TreeOK, NEW lib, NEW n \in 0 .. MaxNodes, NEW f, NEW g,
         \A x \in n + 1 .. MaxNodes : f[x] = g[x]
  PROVE  Turn(f, n, lib) = Turn(g, n, lib)
<1> DEFINE F == {i \in DOMAIN deps[n] : f[deps[n][i]] # NULL}
           G == {i \in DOMAIN deps[n] : g[deps[n][i]] # NULL}
<1>0. MaxNodes \in Nat  BY LoaderAssumption
<1>a. deps[n] \in Seq(Nodes)  BY DEF LoaderTypeOK, Stub
<1>b. DOMAIN deps[n] = 1 .. Len(deps[n]) /\ Len(deps[n]) \in Nat  BY <1>a
<1>c. Len(names) \in Nat /\ Len(names) <= MaxNodes  BY DEF LoaderTypeOK
<1>1. \A i \in DOMAIN deps[n] : deps[n][i] \in n + 1 .. MaxNodes
  BY <1>0, <1>b, <1>c DEF TreeOK
<1>2. F = G  BY <1>1
<1>3. F # {} => Min(F) \in DOMAIN deps[n]
  <2>1. F \in SUBSET Nat  BY <1>b
  <2> QED BY <2>1, MinIsLeast
<1>4. F # {} => f[deps[n][Min(F)]] = g[deps[n][Min(F)]]  BY <1>1, <1>3
<1> QED BY <1>2, <1>4 DEF Turn

\* The search from node m on is well defined if it is from the next one on.
LEMMA FindsStep ==
  ASSUME LoaderTypeOK, TreeOK, NEW lib, NEW m \in 0 .. MaxNodes, NEW f,
         Finds(f, m + 1, lib)
  PROVE  \E g : Finds(g, m, lib)
<1> DEFINE g == [n \in m .. MaxNodes |-> IF n = m THEN Turn(f, m, lib) ELSE f[n]]
<1>0. MaxNodes \in Nat  BY LoaderAssumption
<1>1. \A n \in m .. MaxNodes : n # m => n \in m + 1 .. MaxNodes  BY <1>0
<1>2. ASSUME NEW n \in m .. MaxNodes PROVE g[n] = Turn(g, n, lib)
  <2>1. \A x \in n + 1 .. MaxNodes : x \in m .. MaxNodes /\ x # m  BY <1>0
  <2>2. \A x \in n + 1 .. MaxNodes : f[x] = g[x]  BY <2>1
  <2>3. n \in 0 .. MaxNodes  BY <1>0
  <2> HIDE DEF g
  <2>4. Turn(f, n, lib) = Turn(g, n, lib)  BY <2>2, <2>3, TurnLocal
  <2>5. g[n] = Turn(f, n, lib)  BY <1>1 DEF g, Finds
  <2> QED BY <2>4, <2>5
<1>3. g = [n \in m .. MaxNodes |-> g[n]]  OBVIOUS
<1> HIDE DEF g
<1> QED BY <1>2, <1>3 DEF Finds

\* Found is what the search finds at every node.
LEMMA FoundFinds ==
  ASSUME LoaderTypeOK, TreeOK, NEW lib
  PROVE  Finds(Found(lib), 0, lib)
<1> DEFINE B == {d \in 0 .. MaxNodes + 1 : ~ \E f : Finds(f, MaxNodes + 1 - d, lib)}
<1>0. MaxNodes \in Nat  BY LoaderAssumption
<1>1. B = {}
  <2> SUFFICES ASSUME B # {} PROVE FALSE  OBVIOUS
  <2>1. B \in SUBSET Nat  BY <1>0
  <2> DEFINE d == Min(B)
  <2>2. d \in B /\ \A y \in B : d <= y
    <3> HIDE DEF B
    <3> QED BY <2>1, MinIsLeast
  <2> HIDE DEF d
  <2>3. d # 0
    <3> SUFFICES ASSUME d = 0 PROVE FALSE  OBVIOUS
    <3> DEFINE f == [n \in MaxNodes + 1 .. MaxNodes |-> 0]
    <3>1. MaxNodes + 1 .. MaxNodes = {}  BY <1>0
    <3>2. Finds(f, MaxNodes + 1, lib)  BY <3>1 DEF Finds
    <3>3. MaxNodes + 1 - 0 = MaxNodes + 1  BY <1>0
    <3> QED BY <2>2, <3>2, <3>3
  <2>4. d \in 1 .. MaxNodes + 1 /\ d - 1 \in 0 .. MaxNodes + 1 /\ d - 1 \notin B
    BY <1>0, <2>2, <2>3
  <2> DEFINE m == MaxNodes + 1 - d
  <2>5. m \in 0 .. MaxNodes /\ m + 1 = MaxNodes + 1 - (d - 1)  BY <1>0, <2>4
  <2>6. PICK f : Finds(f, m + 1, lib)  BY <2>4, <2>5
  <2> HIDE DEF m
  <2>7. \E g : Finds(g, m, lib)  BY <2>5, <2>6, FindsStep
  <2> QED BY <2>2, <2>7 DEF m
<1>2. PICK f : Finds(f, 0, lib)
  <2>1. MaxNodes + 1 \in 0 .. MaxNodes + 1 /\ MaxNodes + 1 - (MaxNodes + 1) = 0  BY <1>0
  <2> QED BY <1>1, <2>1
<1>3. f = [n \in 0 .. MaxNodes |-> Turn(f, n, lib)]  BY <1>2 DEF Finds
<1> DEFINE Eq(h) == h = [n \in 0 .. MaxNodes |-> Turn(h, n, lib)]
<1>4. Found(lib) = CHOOSE h : Eq(h)  BY DEF Found, Turn, Stub
<1>5. Eq(Found(lib))
  <2>1. Eq(f)  BY <1>3
  <2> HIDE DEF Eq
  <2> QED BY <2>1, <1>4
<1> QED BY <1>5 DEF Finds

\* What the search returns is an image of the library, below the root ...
LEMMA SearchSound ==
  ASSUME LoaderTypeOK, TreeOK, NEW lib, NEW root \in 0 .. Len(names),
         SearchBinary(root, lib) # NULL
  PROVE  SearchBinary(root, lib) \in 1 .. Len(names) /\ names[SearchBinary(root, lib)] = lib
<1> DEFINE f == Found(lib)
           Good(x) == f[x] # NULL => f[x] \in 1 .. Len(names) /\ names[f[x]] = lib
           B == {x \in 0 .. Len(names) : ~Good(x)}
<1>0. MaxNodes \in Nat  BY LoaderAssumption
<1>1. Len(names) \in Nat /\ Len(names) <= MaxNodes  BY DEF LoaderTypeOK
<1>2. Finds(f, 0, lib)  BY FoundFinds
<1>3. B = {}
  <2> SUFFICES ASSUME B # {} PROVE FALSE  OBVIOUS
  <2> DEFINE x == Max(B)
  <2>1. x \in B /\ \A y \in B : y <= x
    <3>1. B \in SUBSET (0 .. Len(names))  OBVIOUS
    <3> HIDE DEF B
    <3> QED BY <1>1, <3>1, MaxIsGreatest
  <2> HIDE DEF x
  <2>2. x \in 0 .. Len(names) /\ x \in 0 .. MaxNodes /\ ~Good(x)  BY <1>0, <1>1, <2>1
  <2> DEFINE hits == {i \in DOMAIN deps[x] : f[deps[x][i]] # NULL}
  <2>3. f[x] = Turn(f, x, lib)  BY <1>2, <2>2 DEF Finds
  <2> HIDE DEF f
  <2>4. ~Named(x, lib)
    <3> SUFFICES ASSUME Named(x, lib) PROVE FALSE  OBVIOUS
    <3>1. f[x] = x  BY <2>3 DEF Turn
    <3> QED BY <2>2, <3>1, <1>1 DEF Named, Stub
  <2>a. f[x] # NULL  BY <2>2
  <2>b. hits # {} /\ f[x] = f[deps[x][Min(hits)]]  BY <2>3, <2>4, <2>a DEF Turn
  <2>5. deps[x] \in Seq(Nodes)  BY <2>2 DEF LoaderTypeOK, Stub
  <2>6. DOMAIN deps[x] = 1 .. Len(deps[x]) /\ Len(deps[x]) \in Nat  BY <2>5
  <2>7. Min(hits) \in DOMAIN deps[x]
    <3>1. hits \in SUBSET Nat  BY <2>6
    <3> QED BY <3>1, <2>b, MinIsLeast
  <2> DEFINE y == deps[x][Min(hits)]
  <2>8. y \in 1 .. Len(names) /\ x < y  BY <2>2, <2>6, <2>7 DEF TreeOK
  <2>9. f[x] = f[y]  BY <2>b
  <2> HIDE DEF y
  <2>10. ~Good(y)  BY <2>2, <2>9
  <2>11. y \in B  BY <2>8, <2>10
  <2> QED BY <2>1, <2>2, <2>8, <2>11, <1>1
<1>4. Good(root)  BY <1>3
<1> QED BY <1>4 DEF SearchBinary

\* ... and where it finds none, there is none at or below the root.
LEMMA SearchComplete ==
  ASSUME LoaderTypeOK, TreeOK, NEW lib, NEW root \in 0 .. Len(names),
         SearchBinary(root, lib) = NULL
  PROVE  \A m \in Below(root) : m \in 1 .. Len(names) => names[m] # lib
<1> DEFINE f == Found(lib)
           Z == {x \in 0 .. MaxNodes : f[x] = NULL}
<1>0. MaxNodes \in Nat  BY LoaderAssumption
<1>1. Len(names) \in Nat /\ Len(names) <= MaxNodes  BY DEF LoaderTypeOK
<1>2. Finds(f, 0, lib)  BY FoundFinds
<1>3. ASSUME NEW x \in Z PROVE ~Named(x, lib) /\ Range(deps[x]) \subseteq Z
  <2> DEFINE hits == {i \in DOMAIN deps[x] : f[deps[x][i]] # NULL}
  <2>1. f[x] = IF Named(x, lib) THEN x ELSE IF hits = {} THEN NULL ELSE f[deps[x][Min(hits)]]
    BY <1>2, <1>3 DEF Finds, Turn
  <2>2. ~Named(x, lib)  BY <2>1 DEF Named, Stub, NULL
  <2>3. deps[x] \in Seq(Nodes)  BY DEF LoaderTypeOK, Stub
  <2>4. DOMAIN deps[x] = 1 .. Len(deps[x]) /\ Len(deps[x]) \in Nat  BY <2>3
  <2>5. hits = {}
    <3> SUFFICES ASSUME hits # {} PROVE FALSE  OBVIOUS
    <3>1. hits \in SUBSET Nat  BY <2>4
    <3>2. Min(hits) \in hits  BY <3>1, MinIsLeast
    <3> QED BY <2>1, <2>2, <3>2
  <2>6. \A i \in DOMAIN deps[x] : deps[x][i] \in 0 .. MaxNodes
    <3>1. \A i \in DOMAIN deps[x] : deps[x][i] \in Nodes  BY <2>3, <2>4
    <3>2. Nodes \subseteq 0 .. MaxNodes  BY <1>0 DEF Nodes
    <3> QED BY <3>1, <3>2
  <2> QED BY <2>2, <2>5, <2>6 DEF Range
<1>4. Closed(Z) /\ Z \in SUBSET (0 .. MaxNodes)  BY <1>3 DEF Closed
<1>5. root \in Z  BY <1>0, <1>1 DEF SearchBinary
<1> HIDE DEF Z
<1>6. \A m \in Below(root) : m \in Z  BY <1>4, <1>5 DEF Below, Stub
<1> QED BY <1>3, <1>6 DEF Named, Stub

----------------------------------------------------------------------------
(* The tree grows by a node without dependencies.                          *)

\* A node that is hung below another is all that a subtree can gain.
LEMMA BelowGrows ==
  ASSUME LoaderTypeOK, TreeOK, NEW p \in 0 .. MaxNodes, Len(names) < MaxNodes,
         NEW n, n = Len(names) + 1, p # n, deps' = [deps EXCEPT ![p] = Append(@, n)],
         NEW r \in 0 .. MaxNodes, NEW m \in Below(r)', m # n
  PROVE  m \in Below(r)
<1>0. MaxNodes \in Nat  BY LoaderAssumption
<1>1. n \in 0 .. MaxNodes /\ Len(names) \in Nat  BY <1>0 DEF LoaderTypeOK
<1>2. deps'[n] = deps[n] /\ deps[n] = <<>>
  <2>1. deps[n] \in Seq(Nodes)  BY <1>1 DEF LoaderTypeOK, Stub
  <2>2. ASSUME NEW i \in 1 .. Len(deps[n]) PROVE FALSE
    <3>1. deps[n][i] \in 1 .. Len(names) /\ n < deps[n][i]  BY <1>1 DEF TreeOK
    <3> QED BY <3>1, <1>1
  <2>3. Len(deps[n]) = 0  BY <2>1, <2>2
  <2> QED BY <2>1, <2>3, <1>1 DEF LoaderTypeOK, Stub
<1>3. ASSUME NEW x \in 0 .. MaxNodes PROVE Range(deps'[x]) \subseteq Range(deps[x]) \cup {n}
  <2>1. deps[x] \in Seq(Nodes)  BY DEF LoaderTypeOK, Stub
  <2>2. deps'[x] = deps[x] \/ deps'[x] = Append(deps[x], n)  BY DEF LoaderTypeOK, Stub
  <2>3. \A i \in DOMAIN Append(deps[x], n) :
           Append(deps[x], n)[i] \in {deps[x][j] : j \in DOMAIN deps[x]} \cup {n}
    BY <2>1
  <2> QED BY <2>2, <2>3 DEF Range
<1>4. SUFFICES ASSUME NEW S \in SUBSET (0 .. MaxNodes), r \in S, Closed(S) PROVE m \in S
  BY DEF Below, Stub
<1>5. S \cup {n} \in SUBSET (0 .. MaxNodes) /\ r \in S \cup {n}  BY <1>1, <1>4
<1>6. Closed(S \cup {n})'
  <2>1. ASSUME NEW x \in S \cup {n} PROVE Range(deps'[x]) \subseteq S \cup {n}
    <3>1. CASE x = n
      <4>1. Range(deps'[x]) = {}  BY <3>1, <1>2 DEF Range
      <4> QED BY <4>1
    <3>2. CASE x \in S
      <4>1. Range(deps[x]) \subseteq S  BY <1>4, <3>2 DEF Closed
      <4> QED BY <4>1, <3>2, <1>3
    <3> QED BY <3>1, <3>2
  <2> QED BY <2>1 DEF Closed
<1>7. m \in S \cup {n}
  <2>1. \A T \in SUBSET (0 .. MaxNodes) : r \in T /\ Closed(T)' => m \in T
    BY DEF Below, Stub
  <2> QED BY <2>1, <1>5, <1>6
<1> QED BY <1>7

----------------------------------------------------------------------------
(* The stack of activations.                                               *)

\* The running activation is the last frame.
LEMMA TopFrame ==
  ASSUME LoadInv, stack # <<>>
  PROVE  /\ Len(stack) \in Nat \ {0} /\ Top = stack[Len(stack)] /\ Top \in Frame
         /\ \A j \in 1 .. Len(stack) : stack[j] \in Frame /\ FrameOK(stack[j])
         /\ \A j \in 1 .. Len(stack) - 1 :
               /\ stack[j].ph = "wait"
               /\ stack[j].this \in 1 .. Len(names)
               /\ stack[j].this <= stack[Len(stack)].root
<1>1. stack \in Seq(Frame)  BY DEF LoadInv, LoaderTypeOK
<1>2. Len(stack) \in Nat \ {0} /\ \A j \in 1 .. Len(stack) : stack[j] \in Frame  BY <1>1
<1>3. \A j \in 1 .. Len(stack) : FrameOK(stack[j])  BY DEF LoadInv, Chained
<1>4. ASSUME NEW j \in 1 .. Len(stack) - 1
      PROVE  /\ stack[j].ph = "wait"
             /\ stack[j].this \in 1 .. Len(names)
             /\ stack[j].this <= stack[Len(stack)].root
  <2>1. j + 1 \in 2 .. Len(stack) /\ j + 1 - 1 = j /\ j \in 1 .. Len(stack)
        /\ Len(stack) \in 1 .. Len(stack) /\ j < Len(stack)
    BY <1>2
  <2>2. stack[j + 1 - 1].ph = "wait"  BY <2>1 DEF LoadInv, Chained
  <2>3. stack[j].ph = "wait"  BY <2>1, <2>2
  <2>4. FrameOK(stack[j])  BY <1>3, <2>1
  <2>5. stack[j].this <= stack[Len(stack)].root  BY <2>1 DEF LoadInv, Chained
  <2> QED BY <2>3, <2>4, <2>5 DEF FrameOK
<1> QED BY <1>2, <1>3, <1>4 DEF Top, Last

\* An activation that has opened its file finds its node where it looks for it.
LEMMA TopOwns ==
  ASSUME LoadInv, stack # <<>>, Top.ph # "open"
  PROVE  /\ OwnNode(Top) = Top.this /\ Top.this \in 1 .. Len(names)
         /\ Top.this \in Held /\ Top.this \notin done /\ Top.root \in 0 .. Len(names)
         /\ Top.k = Len(iat[Top.this]) + 1 /\ names[Top.this] = Top.file
         /\ \A j \in 1 .. Len(stack) - 1 : stack[j].this < Top.this
<1>1. FrameOK(Top) /\ Len(stack) \in 1 .. Len(stack) /\ Top = stack[Len(stack)]
  BY TopFrame
<1>2. /\ Top.this \in 1 .. Len(names) /\ Top.root < Top.this /\ Top.root \in 0 .. Len(names)
      /\ Top.this \notin done /\ OwnNode(Top) = Top.this
      /\ Top.k = Len(iat[Top.this]) + 1 /\ names[Top.this] = Top.file
  BY <1>1 DEF FrameOK, OwnNode
<1>3. Top.this \in Held  BY <1>1 DEF Held
<1>4. Len(names) \in Nat  BY DEF LoadInv, LoaderTypeOK
<1>5. \A j \in 1 .. Len(stack) - 1 : stack[j].this \in 1 .. Len(names) /\ stack[j].this <= Top.root
  BY <1>1, TopFrame
<1> QED BY <1>2, <1>3, <1>4, <1>5

\* An activation returns to the one that waits for it.
LEMMA Popped ==
  ASSUME LoadInv, stack # <<>>, stack' = Front(stack)
  PROVE  /\ stack' \in Seq(Frame) /\ Len(stack') = Len(stack) - 1 /\ Len(stack') \in Nat
         /\ \A j \in 1 .. Len(stack') : stack'[j] = stack[j] /\ stack[j].ph = "wait"
<1>1. stack \in Seq(Frame)  BY DEF LoadInv, LoaderTypeOK
<1>2. Len(stack) \in Nat \ {0}  BY TopFrame
<1>3. stack' = SubSeq(stack, 1, Len(stack) - 1)  BY DEF Front
<1>4. stack' \in Seq(Frame) /\ Len(stack') = Len(stack) - 1 /\ Len(stack') \in Nat
      /\ \A j \in 1 .. Len(stack') : stack'[j] = stack[j]
  <2> DEFINE n == Len(stack) - 1
  <2>1. n \in Nat /\ 1 \in Int /\ n \in Int /\ n - 1 + 1 = n  BY <1>2
  <2>2. \A i \in 1 .. n : stack[i] \in Frame  BY <1>1, <2>1
  <2> HIDE DEF n
  <2>3. /\ SubSeq(stack, 1, n) \in Seq(Frame)
        /\ Len(SubSeq(stack, 1, n)) = IF 1 <= n THEN n - 1 + 1 ELSE 0
        /\ \A i \in 1 .. n - 1 + 1 : SubSeq(stack, 1, n)[i] = stack[1 + i - 1]
    BY <2>1, <2>2, SubSeqProperties
  <2>4. Len(SubSeq(stack, 1, n)) = n /\ \A i \in 1 .. n : SubSeq(stack, 1, n)[i] = stack[i]
    BY <2>1, <2>3
  <2> QED BY <1>3, <2>1, <2>3, <2>4 DEF n
<1> QED BY <1>4, TopFrame

\* The running activation goes on.
LEMMA Resumed ==
  ASSUME LoadInv, stack # <<>>, NEW f \in Frame
  PROVE  /\ Resume(f) \in Seq(Frame) /\ Len(Resume(f)) = Len(stack)
         /\ Resume(f)[Len(stack)] = f
         /\ \A j \in 1 .. Len(stack) - 1 : Resume(f)[j] = stack[j]
<1>1. stack \in Seq(Frame)  BY DEF LoadInv, LoaderTypeOK
<1>2. Len(stack) \in Nat \ {0}  BY TopFrame
<1> QED BY <1>1, <1>2 DEF Resume, ReplaceAt

\* What the steps of an activation change in its frame: the import entry ...
GoesOn(f) == [f EXCEPT !.k = @ + 1, !.ph = "imports"]
\* ... that it waits ...
Waits(f) == [f EXCEPT !.ph = "wait"]
\* ... and its node.
Opens(f, n) == [f EXCEPT !.this = n, !.ph = "imports"]

\* An activation whose import entry is bound goes on to the next one.
LEMMA FrameGoesOn ==
  ASSUME NEW f \in Frame
  PROVE  /\ GoesOn(f) \in Frame /\ GoesOn(f).file = f.file /\ GoesOn(f).root = f.root
         /\ GoesOn(f).this = f.this /\ GoesOn(f).k = f.k + 1 /\ GoesOn(f).ph = "imports"
<1>1. PICK g : g = [f EXCEPT !.k = @ + 1, !.ph = "imports"]  OBVIOUS
<1>2. g = [file |-> f.file, root |-> f.root, this |-> f.this, k |-> f.k + 1, ph |-> "imports"]
  BY <1>1 DEF Frame
<1>3. f.file \in Files /\ f.root \in Stub .. MaxNodes /\ f.this \in Stub .. MaxNodes
      /\ f.k + 1 \in Nat
  BY DEF Frame
<1>4. g = GoesOn(f)  BY <1>1 DEF GoesOn
<1>5. g \in Frame  BY <1>2, <1>3 DEF Frame, Phases
<1>6. /\ g.file = f.file /\ g.root = f.root /\ g.this = f.this /\ g.k = f.k + 1 /\ g.ph = "imports"
  BY <1>2
<1> QED BY <1>4, <1>5, <1>6

\* An activation that calls LoadBinary for an import waits with its entry.
LEMMA FrameWaits ==
  ASSUME NEW f \in Frame
  PROVE  /\ Waits(f) \in Frame /\ Waits(f).file = f.file /\ Waits(f).root = f.root
         /\ Waits(f).this = f.this /\ Waits(f).k = f.k /\ Waits(f).ph = "wait"
<1>1. PICK g : g = [f EXCEPT !.ph = "wait"]  OBVIOUS
<1>2. g = [file |-> f.file, root |-> f.root, this |-> f.this, k |-> f.k, ph |-> "wait"]
  BY <1>1 DEF Frame
<1>3. f.file \in Files /\ f.root \in Stub .. MaxNodes /\ f.this \in Stub .. MaxNodes
      /\ f.k \in Nat
  BY DEF Frame
<1>4. g = Waits(f)  BY <1>1 DEF Waits
<1>5. g \in Frame  BY <1>2, <1>3 DEF Frame, Phases
<1>6. /\ g.file = f.file /\ g.root = f.root /\ g.this = f.this /\ g.k = f.k /\ g.ph = "wait"
  BY <1>2
<1> QED BY <1>4, <1>5, <1>6

\* An activation that has opened its file owns a node and begins its imports.
LEMMA FrameOpens ==
  ASSUME NEW f \in Frame, NEW n \in Stub .. MaxNodes
  PROVE  /\ Opens(f, n) \in Frame /\ Opens(f, n).file = f.file /\ Opens(f, n).root = f.root
         /\ Opens(f, n).this = n /\ Opens(f, n).k = f.k /\ Opens(f, n).ph = "imports"
<1>1. PICK g : g = [f EXCEPT !.this = n, !.ph = "imports"]  OBVIOUS
<1>2. g = [file |-> f.file, root |-> f.root, this |-> n, k |-> f.k, ph |-> "imports"]
  BY <1>1 DEF Frame
<1>3. f.file \in Files /\ f.root \in Stub .. MaxNodes /\ f.this \in Stub .. MaxNodes
      /\ f.k \in Nat
  BY DEF Frame
<1>4. g = Opens(f, n)  BY <1>1 DEF Opens
<1>5. g \in Frame  BY <1>2, <1>3 DEF Frame, Phases
<1>6. /\ g.file = f.file /\ g.root = f.root /\ g.this = n /\ g.k = f.k /\ g.ph = "imports"
  BY <1>2
<1> QED BY <1>4, <1>5, <1>6

\* Nodes that have been loaded are nodes.
LEMMA LoadedNode ==
  ASSUME LoaderTypeOK, NEW n \in 1 .. Len(names)
  PROVE  n \in Nodes /\ n \in Stub .. MaxNodes
BY LoaderAssumption DEF LoaderTypeOK, Nodes, Stub

\* What depends on the tree alone stays while the tree does.
LEMMA SameTree ==
  ASSUME TreeOK, TwinsApart, UNCHANGED <<names, deps>>
  PROVE  TreeOK' /\ TwinsApart' /\ \A r \in 0 .. MaxNodes : Below(r)' = Below(r)
<1>0. names' = names /\ deps' = deps  OBVIOUS
<1>1. TreeOK' <=> TreeOK  BY <1>0 DEF TreeOK
<1>2. \A S \in SUBSET (0 .. MaxNodes) : Closed(S)' <=> Closed(S)  BY DEF Closed
<1>3. \A r \in 0 .. MaxNodes : Below(r)' = Below(r)  BY <1>2 DEF Below, Stub
<1>4. \A n \in 0 .. MaxNodes : ParentOf(n)' = ParentOf(n)  BY DEF ParentOf
<1>5. TwinsApart' <=> TwinsApart  BY DEF TwinsApart, ParentOf, Below, Closed
<1> QED BY <1>1, <1>3, <1>5

\* The activations below the one that returns keep what they rely on.
LEMMA PopKeeps ==
  ASSUME LoadInv, stack # <<>>, stack' = Front(stack), UNCHANGED <<content, names, deps, iat>>,
         \/ done' = done
         \/ Top.ph # "open" /\ done' = done \cup {Top.this}
  PROVE  /\ stack' \in Seq(Frame) /\ Chained' /\ TreeOK' /\ TwinsApart' /\ NotBelow'
         /\ Held' = IF Top.ph = "open" THEN Held ELSE Held \ {Top.this}
         /\ stack' # <<>> => Top'.ph = "wait" /\ Top.file = Lib(Top)'
<1>1. /\ stack' \in Seq(Frame) /\ Len(stack') = Len(stack) - 1 /\ Len(stack') \in Nat
      /\ \A j \in 1 .. Len(stack') : stack'[j] = stack[j] /\ stack[j].ph = "wait"
  BY Popped
<1>2. /\ Len(stack) \in Nat \ {0} /\ Top = stack[Len(stack)]
      /\ \A j \in 1 .. Len(stack) : FrameOK(stack[j])
  BY TopFrame
<1>3. ASSUME NEW j \in 1 .. Len(stack') PROVE FrameOK(stack[j])'
  <2>1. j \in 1 .. Len(stack) /\ FrameOK(stack[j]) /\ stack'[j] = stack[j]  BY <1>1, <1>2
  <2>2. stack[j].this \notin done'
    <3>1. Top.ph # "open" => stack[j].this < Top.this /\ Top.this \in Nat
      BY <1>1, TopOwns
    <3>2. stack[j].this \notin done  BY <2>1, <1>1 DEF FrameOK
    <3>3. stack[j].this \in Nat  BY <2>1, <1>1 DEF FrameOK
    <3> QED BY <3>1, <3>2, <3>3
  <2> QED BY <2>1, <2>2 DEF FrameOK, HasMore, content
<1>4. Chained'
  <2>1. stack' # <<>> => stack'[1].root = Stub
    <3>1. stack' # <<>> => 1 \in 1 .. Len(stack')  BY <1>1
    <3> QED BY <3>1, <1>1 DEF LoadInv, Chained
  <2>2. ASSUME NEW j \in 2 .. Len(stack')
        PROVE  /\ stack'[j - 1].ph = "wait" /\ stack'[j].root = stack'[j - 1].this
               /\ stack'[j].file = Lib(stack[j - 1])'
    <3>1. j \in 2 .. Len(stack) /\ j - 1 \in 1 .. Len(stack') /\ j \in 1 .. Len(stack')
      BY <1>1, <1>2
    <3>2. /\ stack[j - 1].ph = "wait" /\ stack[j].root = stack[j - 1].this
          /\ stack[j].file = Lib(stack[j - 1])
      BY <3>1 DEF LoadInv, Chained
    <3>3. stack'[j] = stack[j] /\ stack'[j - 1] = stack[j - 1]  BY <3>1, <1>1
    <3> QED BY <3>2, <3>3 DEF Lib, content
  <2>3. ASSUME NEW i \in 1 .. Len(stack'), NEW j \in 1 .. Len(stack'), i < j
        PROVE  stack'[i].ph # "open" /\ stack'[i].this <= stack'[j].root
    <3>1. i \in 1 .. Len(stack) /\ j \in 1 .. Len(stack)  BY <1>1, <1>2
    <3>2. stack[i].ph # "open" /\ stack[i].this <= stack[j].root
      BY <3>1, <2>3 DEF LoadInv, Chained
    <3> QED BY <3>2, <1>1
  <2> QED BY <1>3, <2>1, <2>2, <2>3 DEF Chained
<1>5. TreeOK' /\ TwinsApart'  BY SameTree DEF LoadInv
<1>6. NotBelow'
  <2>1. Len(stack') > 1 => stack'[Len(stack')].ph # "open"  BY <1>1
  <2> QED BY <2>1 DEF NotBelow
<1>7. Held' = IF Top.ph = "open" THEN Held ELSE Held \ {Top.this}
  <2>1. Held' = {stack[j].this : j \in 1 .. Len(stack) - 1}
    <3>1. Held' = {stack'[j].this : j \in 1 .. Len(stack')}  BY <1>1 DEF Held
    <3> QED BY <3>1, <1>1
  <2>2. \A j \in 1 .. Len(stack) - 1 : stack[j].ph # "open"  BY <1>1
  <2>3. CASE Top.ph = "open"
    <3>1. {i \in 1 .. Len(stack) : stack[i].ph # "open"} = 1 .. Len(stack) - 1
      BY <2>2, <2>3, <1>2
    <3> QED BY <2>1, <2>3, <3>1 DEF Held
  <2>4. CASE Top.ph # "open"
    <3>1. Held = {stack[j].this : j \in 1 .. Len(stack) - 1} \cup {Top.this}
      BY <2>2, <2>4, <1>2 DEF Held
    <3>2. \A j \in 1 .. Len(stack) - 1 : stack[j].this # Top.this
      <4>1. Top.this \in Nat /\ \A j \in 1 .. Len(stack) - 1 : stack[j].this < Top.this
        BY <2>4, TopOwns
      <4>2. \A j \in 1 .. Len(stack) - 1 : stack[j].this \in Nat  BY TopFrame
      <4> QED BY <4>1, <4>2
    <3> QED BY <2>1, <2>4, <3>1, <3>2
  <2> QED BY <2>3, <2>4
<1>8. stack' # <<>> => Top'.ph = "wait" /\ Top.file = Lib(Top)'
  <2> SUFFICES ASSUME stack' # <<>> PROVE Top'.ph = "wait" /\ Top.file = Lib(Top)'  OBVIOUS
  <2>1. Len(stack') \in 1 .. Len(stack')  BY <1>1
  <2>2. Top' = stack[Len(stack) - 1]  BY <2>1, <1>1 DEF Top, Last
  <2>3. Len(stack) \in 2 .. Len(stack)  BY <2>1, <1>1, <1>2
  <2>4. stack[Len(stack)].file = Lib(stack[Len(stack) - 1])  BY <2>3 DEF LoadInv, Chained
  <2>5. stack[Len(stack) - 1].ph = "wait"  BY <2>1, <1>1
  <2> QED BY <2>2, <2>4, <2>5, <1>2 DEF Lib, content
<1> QED BY <1>1, <1>4, <1>5, <1>6, <1>7, <1>8

----------------------------------------------------------------------------
(* The steps of LoadBinary.                                                *)

\* Giving up: nothing is promised of a tree of which NULL was returned.
LEMMA GivesUp ==
  ASSUME LoadInv, stack # <<>>, stack' = Front(stack), ret' = NULL,
         UNCHANGED <<content, tree>>,
         sockets' = IF Top.ph = "open" THEN sockets ELSE sockets \ {Top.this}
  PROVE  LoadInv'
<1>0. MaxNodes \in Nat /\ NULL # Pending /\ NULL \in NULL .. Pending /\ NULL \notin Nodes
  BY LoaderAssumption DEF NULL, Pending, Nodes
<1>1. UNCHANGED <<content, names, deps, iat>> /\ done' = done  BY DEF tree
<1>2. /\ stack' \in Seq(Frame) /\ Chained' /\ TreeOK' /\ TwinsApart' /\ NotBelow'
      /\ Held' = IF Top.ph = "open" THEN Held ELSE Held \ {Top.this}
      /\ stack' # <<>> => Top'.ph = "wait"
  BY <1>1, PopKeeps
<1>3. sockets' = Held'  BY <1>2 DEF LoadInv
<1>4. LoaderTypeOK'  BY <1>0, <1>1, <1>2 DEF LoadInv, LoaderTypeOK, content
<1>5. ReturnOK'  BY <1>0, <1>2 DEF ReturnOK
<1>6. NodesOK'  BY <1>1 DEF LoadInv, NodesOK, content
<1> QED BY <1>2, <1>3, <1>4, <1>5, <1>6 DEF LoadInv

\* An activation that gives up after it opened its file closes its socket.
LEMMA FailKeeps ==
  ASSUME LoadInv, stack # <<>>, Top.ph # "open", Fail
  PROVE  LoadInv'
BY GivesUp DEF Fail, Return

\* An activation whose file is missing or damaged has no socket to close.
LEMMA OpenFailsKeeps ==
  ASSUME LoadInv, OpenFails
  PROVE  LoadInv'
<1>1. stack # <<>> /\ Top.ph = "open"  BY DEF OpenFails, Running
<1> QED BY <1>1, GivesUp DEF OpenFails, Return

\* An activation that returns has bound every import of its image.
LEMMA FinishKeeps ==
  ASSUME LoadInv, Finish
  PROVE  LoadInv'
<1>0. MaxNodes \in Nat  BY LoaderAssumption
<1>1. stack # <<>> /\ Top.ph = "imports" /\ ~HasMore(Top)  BY DEF Finish, Running
<1>2. /\ OwnNode(Top) = Top.this /\ Top.this \in 1 .. Len(names) /\ Top.this \in Held
      /\ Top.k = Len(iat[Top.this]) + 1 /\ names[Top.this] = Top.file
  BY <1>1, TopOwns
<1>3. /\ stack' = Front(stack) /\ ret' = Top.this /\ done' = done \cup {Top.this}
      /\ sockets' = sockets \ {Top.this} /\ UNCHANGED <<content, names, deps, iat>>
  BY <1>2 DEF Finish, Return
<1>4. /\ stack' \in Seq(Frame) /\ Chained' /\ TreeOK' /\ TwinsApart' /\ NotBelow'
      /\ Held' = Held \ {Top.this}
      /\ stack' # <<>> => Top'.ph = "wait" /\ Top.file = Lib(Top)'
  BY <1>1, <1>3, PopKeeps
<1>5. sockets' = Held'  BY <1>3, <1>4 DEF LoadInv
<1>6. Len(names) \in Nat /\ Len(names) <= MaxNodes  BY DEF LoadInv, LoaderTypeOK
<1>7. Top.this \in Nodes /\ Top.this \in NULL .. Pending /\ Top.this # Pending
  BY <1>0, <1>2, <1>6 DEF Nodes, NULL, Pending
<1>8. LoaderTypeOK'  BY <1>3, <1>4, <1>7 DEF LoadInv, LoaderTypeOK, content
<1>9. ReturnOK'
  <2>1. ret # NULL
    BY <1>0, <1>1 DEF LoadInv, ReturnOK, NULL, Pending
  <2>2. 1 .. Len(names) \subseteq done \cup Held  BY <2>1 DEF LoadInv, ReturnOK
  <2>3. 1 .. Len(names) \subseteq done' \cup Held'  BY <2>2, <1>3, <1>4
  <2> QED BY <1>2, <1>3, <1>4, <1>7, <2>3 DEF ReturnOK
<1>10. NodesOK'
  <2>1. Len(iat[Top.this]) <= Len(imports[Top.file])  BY <1>2 DEF LoadInv, NodesOK
  <2>2. Len(iat[Top.this]) \in Nat /\ Len(imports[Top.file]) \in Nat
    <3>1. Top \in Frame  BY <1>1, TopFrame
    <3>2. Top.file \in Files  BY <3>1 DEF Frame
    <3> QED BY <3>2, <1>7 DEF LoadInv, LoaderTypeOK
  <2>3. Len(iat[Top.this]) = Len(imports[names[Top.this]])
    <3>1. ~(Len(iat[Top.this]) + 1 <= Len(imports[Top.file]))  BY <1>1, <1>2 DEF HasMore
    <3>2. Len(iat[Top.this]) = Len(imports[Top.file])  BY <3>1, <2>1, <2>2
    <3> QED BY <3>2, <1>2
  <2> QED BY <1>2, <1>3, <2>3 DEF LoadInv, NodesOK, content
<1> QED BY <1>4, <1>5, <1>8, <1>9, <1>10 DEF LoadInv

\* Binding an import entry to an image of the library.
LEMMA BindKeeps ==
  ASSUME LoadInv, stack # <<>>, Top.ph # "open", HasMore(Top), ret # NULL,
         NEW n \in 1 .. Len(names), names[n] = Lib(Top), Bind(n)
  PROVE  LoadInv'
<1>0. MaxNodes \in Nat /\ Pending # NULL /\ Pending \in NULL .. Pending /\ Pending \notin Nodes
  BY LoaderAssumption DEF NULL, Pending, Nodes
<1>1. CASE Fail  BY <1>1, FailKeeps
<1>2. CASE ~Fail
  <2> DEFINE L == Len(stack)
             o == Top.this
             f == [Top EXCEPT !.k = @ + 1, !.ph = "imports"]
  <2>1. /\ L \in Nat \ {0} /\ Top = stack[L] /\ Top \in Frame
        /\ \A j \in 1 .. L : stack[j] \in Frame /\ FrameOK(stack[j])
    BY TopFrame
  <2>2. /\ OwnNode(Top) = o /\ o \in 1 .. Len(names) /\ o \in Held
        /\ Top.k = Len(iat[o]) + 1 /\ names[o] = Top.file
        /\ \A j \in 1 .. L - 1 : stack[j].this < o
    BY TopOwns
  <2>3. /\ iat' = [iat EXCEPT ![o] = Append(@, n)] /\ stack' = Resume(f) /\ ret' = Pending
        /\ UNCHANGED <<content, names, deps, done, sockets>>
    BY <1>2, <2>2 DEF Bind
  <2>4. Len(names) \in Nat /\ Len(names) <= MaxNodes  BY DEF LoadInv, LoaderTypeOK
  <2>5. o \in Nodes /\ n \in Nodes  BY <2>2, <2>4, <1>0 DEF Nodes
  <2>6. /\ f \in Frame /\ f.file = Top.file /\ f.root = Top.root /\ f.this = o
        /\ f.k = Top.k + 1 /\ f.ph = "imports"
    <3>1. Top \in Frame  BY <2>1
    <3>2. f = GoesOn(Top)  BY DEF GoesOn
    <3> HIDE DEF f
    <3> QED BY <3>1, <3>2, FrameGoesOn
  <2>7. iat \in [Nodes -> Seq(Nodes)] /\ iat[o] \in Seq(Nodes)
    BY <2>5 DEF LoadInv, LoaderTypeOK
  <2>8. /\ iat'[o] = Append(iat[o], n) /\ \A m \in Nodes : m # o => iat'[m] = iat[m]
        /\ iat' \in [Nodes -> Seq(Nodes)]
    BY <2>3, <2>5, <2>7
  <2>9. /\ Len(iat'[o]) = Len(iat[o]) + 1 /\ Len(iat[o]) \in Nat /\ iat'[o][Len(iat[o]) + 1] = n
        /\ \A i \in 1 .. Len(iat[o]) : iat'[o][i] = iat[o][i]
    BY <2>5, <2>7, <2>8
  <2> HIDE DEF f
  <2>10. /\ stack' \in Seq(Frame) /\ Len(stack') = L /\ stack'[L] = f
         /\ \A j \in 1 .. L - 1 : stack'[j] = stack[j]
    BY <2>3, <2>6, Resumed
  <2>11. \A j \in 1 .. L : /\ stack'[j].file = stack[j].file /\ stack'[j].root = stack[j].root
                           /\ stack'[j].this = stack[j].this
                           /\ (stack'[j].ph = "open" <=> stack[j].ph = "open")
    BY <2>1, <2>6, <2>10
  <2>12. ASSUME NEW j \in 1 .. L PROVE FrameOK(stack[j])'
    <3>1. CASE j = L
      <4>1. FrameOK(Top)  BY <2>1
      <4>2. /\ f.root \in 0 .. Len(names) /\ f.this \in 1 .. Len(names) /\ f.root < f.this
            /\ names[f.this] = f.file /\ deps[f.root] # <<>> /\ Last(deps[f.root]) = f.this
            /\ f.this \notin done
        BY <4>1, <2>6 DEF FrameOK
      <4>3. f.k = Len(iat'[f.this]) + 1  BY <2>2, <2>6, <2>9
      <4> QED BY <3>1, <2>3, <2>6, <2>10, <4>2, <4>3 DEF FrameOK
    <3>2. CASE j # L
      <4>1. j \in 1 .. L - 1 /\ FrameOK(stack[j]) /\ stack'[j] = stack[j]
        BY <3>2, <2>1, <2>10
      <4>2. stack[j].this \in 1 .. Len(names) /\ stack[j].this < o  BY <4>1, <2>2, TopFrame
      <4>3. iat'[stack[j].this] = iat[stack[j].this]
        <5>1. stack[j].this \in Nodes /\ stack[j].this # o
          BY <4>2, <2>2, LoadedNode DEF LoadInv
        <5> QED BY <5>1, <2>8
      <4> QED BY <4>1, <4>3, <2>3 DEF FrameOK, HasMore, content
    <3> QED BY <3>1, <3>2
  <2>13. Chained'
    <3>1. stack'[1].root = Stub  BY <2>1, <2>11 DEF LoadInv, Chained
    <3>2. ASSUME NEW j \in 2 .. L
          PROVE  /\ stack'[j - 1].ph = "wait" /\ stack'[j].root = stack'[j - 1].this
                 /\ stack'[j].file = Lib(stack[j - 1])'
      <4>1. j \in 1 .. L /\ j - 1 \in 1 .. L - 1  BY <2>1
      <4>2. /\ stack[j - 1].ph = "wait" /\ stack[j].root = stack[j - 1].this
            /\ stack[j].file = Lib(stack[j - 1])
        BY <3>2 DEF LoadInv, Chained
      <4>3. stack'[j - 1] = stack[j - 1]  BY <4>1, <2>10
      <4> QED BY <4>1, <4>2, <4>3, <2>3, <2>11 DEF Lib, content
    <3>3. ASSUME NEW i \in 1 .. L, NEW j \in 1 .. L, i < j
          PROVE  stack'[i].ph # "open" /\ stack'[i].this <= stack'[j].root
      BY <3>3, <2>11 DEF LoadInv, Chained
    <3> QED BY <3>1, <3>2, <3>3, <2>10, <2>12 DEF Chained
  <2>14. Held' = Held
    <3>1. Held' = {stack'[j].this : j \in {i \in 1 .. L : stack'[i].ph # "open"}}
      BY <2>10 DEF Held
    <3> DEFINE J == {i \in 1 .. L : stack[i].ph # "open"}
    <3>2. {i \in 1 .. L : stack'[i].ph # "open"} = J  BY <2>11
    <3>3. \A j \in J : stack'[j].this = stack[j].this  BY <2>11
    <3>4. Held = {stack[j].this : j \in J}  BY DEF Held
    <3> HIDE DEF J
    <3>5. {stack'[j].this : j \in J} = {stack[j].this : j \in J}  BY <3>3
    <3> QED BY <3>1, <3>2, <3>4, <3>5
  <2>15. ReturnOK'
    <3>1. Top' = f /\ stack' # <<>>  BY <2>1, <2>10 DEF Top, Last
    <3>2. 1 .. Len(names) \subseteq done \cup Held  BY DEF LoadInv, ReturnOK
    <3> QED BY <3>1, <3>2, <1>0, <2>3, <2>6, <2>14 DEF ReturnOK
  <2>16. NodesOK'
    <3>1. ASSUME NEW m \in Nodes, m > Len(names) PROVE iat'[m] = <<>>
      <4>1. m # o  BY <3>1, <2>2, <2>4, <1>0 DEF Nodes
      <4> QED BY <3>1, <4>1, <2>8 DEF LoadInv, NodesOK
    <3>2. ASSUME NEW m \in 1 .. Len(names)
          PROVE  /\ Len(iat'[m]) <= Len(imports[names[m]])
                 /\ \A i \in 1 .. Len(iat'[m]) :
                      iat'[m][i] \in 1 .. Len(names) /\ names[iat'[m][i]] = imports[names[m]][i]
      <4>0. /\ Len(iat[m]) <= Len(imports[names[m]])
            /\ \A i \in 1 .. Len(iat[m]) :
                 iat[m][i] \in 1 .. Len(names) /\ names[iat[m][i]] = imports[names[m]][i]
        BY DEF LoadInv, NodesOK
      <4>1. CASE m # o
        <5>1. m \in Nodes  BY <2>4, <1>0 DEF Nodes
        <5>2. iat'[m] = iat[m]  BY <4>1, <5>1, <2>8
        <5> QED BY <5>2, <4>0
      <4>2. CASE m = o
        <5>1. Len(iat[o]) + 1 <= Len(imports[names[o]])  BY <2>2 DEF HasMore
        <5>2. names[n] = imports[names[o]][Len(iat[o]) + 1]  BY <2>2 DEF Lib
        <5>3. \A i \in 1 .. Len(iat'[o]) : i \in 1 .. Len(iat[o]) \/ i = Len(iat[o]) + 1
          BY <2>9
        <5> QED BY <4>0, <4>2, <5>1, <5>2, <5>3, <2>9
      <4> QED BY <4>1, <4>2
    <3>3. \A m \in done : m # o /\ m \in Nodes
      BY TopOwns DEF LoadInv, LoaderTypeOK
    <3>4. \A m \in done : Len(iat'[m]) = Len(imports[names[m]])
      BY <3>3, <2>8 DEF LoadInv, NodesOK
    <3>5. done \subseteq 1 .. Len(names)  BY DEF LoadInv, NodesOK
    <3> QED BY SMTT(30), <3>1, <3>2, <3>4, <3>5, <2>3 DEF NodesOK, content
  <2>17. TreeOK' /\ TwinsApart'  BY <2>3, SameTree DEF LoadInv
  <2>18. NotBelow'  BY <2>6, <2>10 DEF NotBelow
  <2>19. LoaderTypeOK'
    BY <1>0, <2>3, <2>8, <2>10 DEF LoadInv, LoaderTypeOK, content
  <2>20. sockets' = Held'  BY <2>3, <2>14 DEF LoadInv
  <2> QED BY <2>13, <2>15, <2>16, <2>17, <2>18, <2>19, <2>20 DEF LoadInv
<1> QED BY <1>1, <1>2

\* SearchBinary found the library.
LEMMA ImportKeeps ==
  ASSUME LoadInv, Import
  PROVE  LoadInv'
<1>1. stack # <<>> /\ Top.ph = "imports" /\ HasMore(Top)  BY DEF Import, Running
<1>2. PICK n : n = SearchBinary(Top.root, Lib(Top))  OBVIOUS
<1>3. n # NULL /\ Bind(n)  BY <1>2 DEF Import
<1>4. Top.root \in 0 .. Len(names)  BY <1>1, TopOwns
<1>5. n \in 1 .. Len(names) /\ names[n] = Lib(Top)
  <2>1. PICK root, lib : root \in 0 .. Len(names) /\ root = Top.root /\ lib = Lib(Top)  BY <1>4
  <2>2. n = SearchBinary(root, lib)  BY <2>1, <1>2
  <2> QED BY <2>1, <2>2, <1>3, SearchSound DEF LoadInv
<1>6. ret # NULL
  <2>1. ret = Pending  BY <1>1 DEF LoadInv, ReturnOK
  <2> QED BY <2>1, LoaderAssumption DEF Pending, NULL
<1> QED BY <1>1, <1>3, <1>5, <1>6, BindKeeps

\* The inner LoadBinary returned it, or gave up.
LEMMA ImportLoadedKeeps ==
  ASSUME LoadInv, ImportLoaded
  PROVE  LoadInv'
<1>1. stack # <<>> /\ Top.ph = "wait"  BY DEF ImportLoaded, Running
<1>2. CASE ret = NULL
  <2>1. Fail  BY <1>2 DEF ImportLoaded
  <2> QED BY <1>1, <2>1, FailKeeps
<1>3. CASE ret # NULL
  <2>1. ret # Pending /\ ret \in NULL .. Pending
    BY <1>1 DEF LoadInv, ReturnOK, LoaderTypeOK
  <2>2. ret \in Nodes  BY <1>3, <2>1, LoaderAssumption DEF NULL, Pending, Nodes
  <2>3. ret \in 1 .. Len(names) /\ names[ret] = Lib(Top)
    BY <1>1, <2>2 DEF LoadInv, ReturnOK, NodesOK
  <2>4. HasMore(Top)
    <3>1. FrameOK(Top)  BY <1>1, TopFrame
    <3> QED BY <1>1, <3>1 DEF FrameOK
  <2>5. PICK n : n = ret  OBVIOUS
  <2>6. Bind(n)  BY <1>3, <2>5 DEF ImportLoaded
  <2> QED BY <1>1, <1>3, <2>3, <2>4, <2>5, <2>6, BindKeeps
<1> QED BY <1>2, <1>3

\* An import section without the name of its library fails the activation.
LEMMA ImportUnnamedKeeps ==
  ASSUME LoadInv, ImportUnnamed
  PROVE  LoadInv'
<1>1. stack # <<>> /\ Top.ph = "imports" /\ Fail  BY DEF ImportUnnamed, Running
<1> QED BY <1>1, FailKeeps

\* A new activation hangs below the node of the one that waits for it.
LEMMA ImportLoadKeeps ==
  ASSUME LoadInv, ImportLoad
  PROVE  LoadInv'
<1> DEFINE L == Len(stack)
           f == Waits(Top)
           c == [file |-> Lib(Top), root |-> Top.this, this |-> Stub, k |-> 1, ph |-> "open"]
<1>0. MaxNodes \in Nat /\ Pending # NULL  BY LoaderAssumption DEF Pending, NULL
<1>1. stack # <<>> /\ Top.ph = "imports" /\ HasMore(Top)  BY DEF ImportLoad, Running
<1>2. /\ L \in Nat \ {0} /\ Top = stack[L] /\ Top \in Frame
      /\ \A j \in 1 .. L : stack[j] \in Frame /\ FrameOK(stack[j])
      /\ \A j \in 1 .. L - 1 : stack[j].ph = "wait" /\ stack[j].this <= Top.root
  BY <1>1, TopFrame
<1>3. /\ OwnNode(Top) = Top.this /\ Top.this \in 1 .. Len(names) /\ Top.root \in 0 .. Len(names)
      /\ Top.k = Len(iat[Top.this]) + 1 /\ names[Top.this] = Top.file
      /\ \A j \in 1 .. L - 1 : stack[j].this < Top.this
  BY <1>1, TopOwns
<1>4. /\ stack' = Append(Resume(f), c) /\ UNCHANGED <<content, tree, ret, sockets>>
  BY <1>3 DEF ImportLoad, Call, Waits
<1>5. /\ f \in Frame /\ f.file = Top.file /\ f.root = Top.root /\ f.this = Top.this
      /\ f.k = Top.k /\ f.ph = "wait"
  BY <1>2, FrameWaits
<1>6. /\ c \in Frame /\ c.file = Lib(Top) /\ c.root = Top.this /\ c.this = Stub /\ c.k = 1
      /\ c.ph = "open"
  <2>1. Lib(Top) \in Files
    <3>1. Top.file \in Files /\ Top.k \in Nat  BY <1>2 DEF Frame
    <3>2. imports[Top.file] \in Seq(Files)  BY <3>1 DEF LoadInv, LoaderTypeOK
    <3>3. Len(iat[Top.this]) \in Nat
      <4>1. Top.this \in Nodes  BY <1>3, LoadedNode DEF LoadInv
      <4> QED BY <4>1 DEF LoadInv, LoaderTypeOK
    <3>4. Top.k \in 1 .. Len(imports[Top.file])  BY <3>1, <3>2, <3>3, <1>1, <1>3 DEF HasMore
    <3> QED BY <3>2, <3>4 DEF Lib
  <2>2. Top.this \in Stub .. MaxNodes /\ Stub \in Stub .. MaxNodes
    BY <1>0, <1>3, LoadedNode DEF LoadInv, Stub
  <2> QED BY <2>1, <2>2 DEF Frame, Phases
<1> HIDE DEF f, c
<1>7. /\ Resume(f) \in Seq(Frame) /\ Len(Resume(f)) = L /\ Resume(f)[L] = f
      /\ \A j \in 1 .. L - 1 : Resume(f)[j] = stack[j]
  BY <1>1, <1>5, Resumed
<1>8. /\ stack' \in Seq(Frame) /\ Len(stack') = L + 1 /\ stack'[L + 1] = c /\ stack'[L] = f
      /\ \A j \in 1 .. L - 1 : stack'[j] = stack[j]
  BY <1>2, <1>4, <1>6, <1>7
<1>9. \A j \in 1 .. L : /\ stack'[j].file = stack[j].file /\ stack'[j].root = stack[j].root
                        /\ stack'[j].this = stack[j].this /\ stack'[j].k = stack[j].k
                        /\ stack'[j].ph = "wait" /\ stack[j].ph # "open"
  BY <1>1, <1>2, <1>5, <1>8
<1>10. ASSUME NEW j \in 1 .. Len(stack') PROVE FrameOK(stack[j])'
  <2>1. CASE j \in 1 .. L
    <3>1. FrameOK(stack[j])  BY <2>1, <1>2
    <3>2. HasMore(stack[j])
      <4>1. CASE j = L  BY <4>1, <1>1, <1>2
      <4>2. CASE j # L
        <5>1. stack[j].ph = "wait"  BY <2>1, <4>2, <1>2
        <5> QED BY <3>1, <5>1 DEF FrameOK
      <4> QED BY <4>1, <4>2
    <3> QED BY <2>1, <3>1, <3>2, <1>4, <1>9 DEF FrameOK, HasMore, content, tree
  <2>2. CASE j = L + 1
    <3>1. c.root \in 0 .. Len(names)  BY <1>3, <1>6
    <3> QED BY <2>2, <3>1, <1>4, <1>6, <1>8 DEF FrameOK, tree
  <2>3. j \in 1 .. L \/ j = L + 1  BY <1>2, <1>8
  <2> QED BY <2>1, <2>2, <2>3
<1>11. Chained'
  <2>1. stack'[1].root = Stub
    BY <1>1, <1>2, <1>9 DEF LoadInv, Chained
  <2>2. ASSUME NEW j \in 2 .. Len(stack')
        PROVE  /\ stack'[j - 1].ph = "wait" /\ stack'[j].root = stack'[j - 1].this
               /\ stack'[j].file = Lib(stack[j - 1])'
    <3>1. CASE j \in 2 .. L
      <4>1. j \in 1 .. L /\ j - 1 \in 1 .. L  BY <3>1, <1>2
      <4>2. stack[j].root = stack[j - 1].this /\ stack[j].file = Lib(stack[j - 1])
        BY <3>1 DEF LoadInv, Chained
      <4> QED BY <4>1, <4>2, <1>4, <1>9 DEF Lib, content
    <3>2. CASE j = L + 1
      <4>1. j - 1 = L  BY <3>2, <1>2
      <4>2. stack'[j - 1] = f /\ stack'[j] = c  BY <3>2, <4>1, <1>8
      <4>3. Lib(stack[j - 1])' = imports[f.file][f.k]  BY <4>2, <1>4 DEF Lib, content
      <4>4. Lib(stack[j - 1])' = Lib(Top)  BY <4>3, <1>5 DEF Lib
      <4> QED BY <4>2, <4>4, <1>5, <1>6
    <3>3. j \in 2 .. L \/ j = L + 1  BY <1>2, <1>8
    <3> QED BY <3>1, <3>2, <3>3
  <2>3. ASSUME NEW i \in 1 .. Len(stack'), NEW j \in 1 .. Len(stack'), i < j
        PROVE  stack'[i].ph # "open" /\ stack'[i].this <= stack'[j].root
    <3>1. i \in 1 .. L  BY <2>3, <1>2, <1>8
    <3>2. CASE j \in 1 .. L
      <4>1. stack[i].this <= stack[j].root  BY <2>3, <3>1, <3>2 DEF LoadInv, Chained
      <4> QED BY <3>1, <3>2, <4>1, <1>9
    <3>3. CASE j = L + 1
      <4>1. stack[i].this <= Top.this
        <5>1. CASE i = L  BY <5>1, <1>2, <1>3
        <5>2. CASE i # L
          <6>1. i \in 1 .. L - 1  BY <5>2, <3>1, <1>2
          <6>2. stack[i].this \in Nat  BY <1>1, <6>1, TopFrame
          <6>3. Top.this \in Nat /\ stack[i].this < Top.this
            BY <6>1, <1>3, LoadedNode DEF LoadInv, Nodes
          <6> QED BY <6>2, <6>3
        <5> QED BY <5>1, <5>2
      <4> QED BY <3>1, <3>3, <4>1, <1>6, <1>8, <1>9
    <3>4. j \in 1 .. L \/ j = L + 1  BY <1>2, <1>8
    <3> QED BY <3>2, <3>3, <3>4
  <2> QED BY <1>10, <2>1, <2>2, <2>3 DEF Chained
<1>12. Held' = Held
  <2>1. {i \in 1 .. Len(stack') : stack'[i].ph # "open"} = 1 .. L
    BY <1>2, <1>6, <1>8, <1>9
  <2>2. {i \in 1 .. L : stack[i].ph # "open"} = 1 .. L  BY <1>9
  <2>3. Held' = {stack'[j].this : j \in 1 .. L}  BY <2>1 DEF Held
  <2>4. Held = {stack[j].this : j \in 1 .. L}  BY <2>2 DEF Held
  <2>5. {stack'[j].this : j \in 1 .. L} = {stack[j].this : j \in 1 .. L}  BY <1>9
  <2> QED BY <2>3, <2>4, <2>5
<1>13. ReturnOK'
  <2>1. Top' = c /\ stack' # <<>>  BY <1>2, <1>8 DEF Top, Last
  <2>2. ret = Pending /\ Pending \notin Nodes
    BY <1>0, <1>1 DEF LoadInv, ReturnOK, Pending, Nodes
  <2>3. 1 .. Len(names) \subseteq done \cup Held  BY <1>0, <2>2 DEF LoadInv, ReturnOK
  <2> QED BY <2>1, <2>2, <2>3, <1>4, <1>6, <1>12 DEF ReturnOK, tree
<1>14. NodesOK'  BY <1>4 DEF LoadInv, NodesOK, content, tree
<1>15. TreeOK' /\ TwinsApart' /\ \A r \in 0 .. MaxNodes : Below(r)' = Below(r)
  <2>1. UNCHANGED <<names, deps>>  BY <1>4 DEF tree
  <2> QED BY <2>1, SameTree DEF LoadInv
<1>16. NotBelow'
  <2>1. PICK r, lib : r \in 0 .. Len(names) /\ r = Top.root /\ lib = Lib(Top)  BY <1>3
  <2>2. SearchBinary(r, lib) = NULL  BY <2>1 DEF ImportLoad
  <2>3. \A m \in Below(r) : m \in 1 .. Len(names) => names[m] # lib
    BY <2>1, <2>2, SearchComplete DEF LoadInv
  <2>4. r \in 0 .. MaxNodes  BY <2>1, <1>0 DEF LoadInv, LoaderTypeOK
  <2>5. \A m \in Below(r)' : m \in 1 .. Len(names)' => names'[m] # lib
    BY <2>3, <2>4, <1>4, <1>15 DEF tree
  <2>6. /\ stack'[Len(stack') - 1].root = r /\ stack'[Len(stack')].file = lib
    BY <2>1, <1>2, <1>5, <1>6, <1>8
  <2>7. Below(stack[Len(stack) - 1].root)' = Below(r)'  BY <2>6 DEF Below
  <2> QED BY <2>5, <2>6, <2>7 DEF NotBelow
<1>17. LoaderTypeOK'  BY <1>4, <1>8 DEF LoadInv, LoaderTypeOK, content, tree
<1>18. sockets' = Held'  BY <1>4, <1>12 DEF LoadInv
<1> QED BY <1>11, <1>13, <1>14, <1>15, <1>16, <1>17, <1>18 DEF LoadInv

\* A node has one parent.
LEMMA OneParent ==
  ASSUME NEW d \in [0 .. MaxNodes -> Seq(Nodes)],
         \A r, s \in 0 .. MaxNodes : \A i \in 1 .. Len(d[r]), j \in 1 .. Len(d[s]) :
             d[r][i] = d[s][j] => r = s,
         NEW r \in 0 .. MaxNodes, NEW i \in 1 .. Len(d[r])
  PROVE  (CHOOSE q \in 0 .. MaxNodes : d[r][i] \in Range(d[q])) = r
<1>1. \A q \in 0 .. MaxNodes : DOMAIN d[q] = 1 .. Len(d[q])  OBVIOUS
<1>2. \A q \in 0 .. MaxNodes : d[r][i] \in Range(d[q]) => q = r  BY <1>1 DEF Range
<1>3. d[r][i] \in Range(d[r])  BY <1>1 DEF Range
<1> QED BY <1>2, <1>3

\* The file is opened: its node hangs below the root of the activation, which
\* is the root of no other one.
LEMMA OpenedKeeps ==
  ASSUME LoadInv, Opened
  PROVE  LoadInv'
<1>0. MaxNodes \in Nat /\ Pending # NULL /\ Pending \notin Nodes
  BY LoaderAssumption DEF Pending, NULL, Nodes
<1>1. stack # <<>> /\ Top.ph = "open" /\ Len(names) < MaxNodes  BY DEF Opened, Running
<1>2. PICK n : n = Len(names) + 1  OBVIOUS
<1>3. PICK p : p = Top.root  OBVIOUS
<1>4. PICK f : f = Opens(Top, n)  OBVIOUS
<1> DEFINE L == Len(stack)
<1>5. /\ names' = Append(names, Top.file) /\ deps' = [deps EXCEPT ![p] = Append(@, n)]
      /\ sockets' = sockets \cup {n} /\ stack' = Resume(f)
      /\ UNCHANGED <<content, iat, done, ret>>
  BY <1>2, <1>3, <1>4 DEF Opened, Opens
<1>6. /\ L \in Nat \ {0} /\ Top = stack[L] /\ Top \in Frame
      /\ \A j \in 1 .. L : stack[j] \in Frame /\ FrameOK(stack[j])
      /\ \A j \in 1 .. L - 1 : /\ stack[j].ph = "wait" /\ stack[j].this <= p
                               /\ stack[j].this \in 1 .. Len(names)
  BY <1>1, <1>3, TopFrame
<1>7. p \in 0 .. Len(names) /\ Top.k = 1  BY <1>1, <1>3, <1>6 DEF FrameOK
<1>8. Len(names) \in Nat /\ names \in Seq(Files) /\ deps \in [0 .. MaxNodes -> Seq(Nodes)]
  BY DEF LoadInv, LoaderTypeOK, Stub
<1>9. /\ n \in Nodes /\ n \in Stub .. MaxNodes /\ n \in Nat
      /\ p \in 0 .. MaxNodes /\ p \in Nat /\ p < n
  BY <1>0, <1>1, <1>2, <1>7, <1>8 DEF Nodes, Stub
<1>10. /\ f \in Frame /\ f.file = Top.file /\ f.root = p /\ f.this = n /\ f.k = 1
       /\ f.ph = "imports"
  BY <1>3, <1>4, <1>6, <1>7, <1>9, FrameOpens
<1>11. /\ stack' \in Seq(Frame) /\ Len(stack') = L /\ stack'[L] = f
       /\ \A j \in 1 .. L - 1 : stack'[j] = stack[j]
  BY <1>1, <1>5, <1>10, Resumed
<1>12. /\ Len(names') = n /\ names'[n] = Top.file /\ names' \in Seq(Files)
       /\ \A m \in 1 .. Len(names) : names'[m] = names[m] /\ m \in 1 .. n /\ m # n
       /\ \A m \in 1 .. n : m \in 1 .. Len(names) \/ m = n
  <2>1. Top.file \in Files  BY <1>6 DEF Frame
  <2> QED BY <2>1, <1>2, <1>5, <1>8
<1>13. /\ deps'[p] = Append(deps[p], n) /\ \A r \in 0 .. MaxNodes : r # p => deps'[r] = deps[r]
       /\ deps' \in [0 .. MaxNodes -> Seq(Nodes)]
  BY <1>5, <1>8, <1>9
<1>14. \A r \in 0 .. MaxNodes : deps[r] \in Seq(Nodes) /\ Len(deps[r]) \in Nat  BY <1>8
<1>15. /\ Len(deps'[p]) = Len(deps[p]) + 1 /\ deps'[p][Len(deps[p]) + 1] = n
       /\ \A i \in 1 .. Len(deps[p]) : deps'[p][i] = deps[p][i]
  BY <1>9, <1>13, <1>14
<1>b. ASSUME NEW r \in 0 .. MaxNodes, NEW i \in 1 .. Len(deps[r])
      PROVE  i \in 1 .. Len(deps'[r]) /\ deps'[r][i] = deps[r][i]
  <2>1. CASE r = p
    <3>1. Len(deps[p]) \in Nat  BY <1>9, <1>14
    <3> QED BY <2>1, <3>1, <1>15
  <2>2. CASE r # p
    <3>1. deps'[r] = deps[r]  BY <2>2, <1>13
    <3> QED BY <3>1
  <2> QED BY <2>1, <2>2
<1>16. LoaderTypeOK'
  <2>1. Len(names') <= MaxNodes  BY <1>1, <1>2, <1>8, <1>12, <1>0
  <2>2. sockets' \subseteq Nodes  BY <1>5, <1>9 DEF LoadInv, LoaderTypeOK
  <2> QED BY <2>1, <2>2, <1>5, <1>11, <1>12, <1>13 DEF LoadInv, LoaderTypeOK, content, Stub
<1>17. ASSUME NEW j \in 1 .. L PROVE FrameOK(stack[j])'
  <2>1. CASE j = L
    <3>0. Len(deps'[p]) # 0  BY <1>9, <1>14, <1>15
    <3>1. deps'[p] # <<>> /\ Last(deps'[p]) = n  BY <3>0, <1>15 DEF Last
    <3>2. Len(iat[n]) = 0
      <4>1. iat[n] = <<>>  BY <1>2, <1>8, <1>9 DEF LoadInv, NodesOK
      <4> QED BY <4>1
    <3>3. n \notin done  BY <1>2, <1>8 DEF LoadInv, NodesOK
    <3>4. p \in 0 .. n /\ n \in 1 .. n  BY <1>9, <1>2, <1>8
    <3> QED BY <2>1, <3>1, <3>2, <3>3, <3>4, <1>5, <1>9, <1>10, <1>11, <1>12 DEF FrameOK
  <2>2. CASE j # L
    <3>1. /\ j \in 1 .. L - 1 /\ FrameOK(stack[j]) /\ stack'[j] = stack[j] /\ stack[j].ph = "wait"
          /\ stack[j].this <= p /\ stack[j].this \in 1 .. Len(names)
      BY <2>2, <1>6, <1>11
    <3>2. stack[j].root \in 0 .. Len(names) /\ stack[j].root < stack[j].this
      BY <3>1 DEF FrameOK
    <3>3. stack[j].root # p /\ stack[j].root \in 0 .. MaxNodes /\ stack[j].root \in 0 .. n
      BY SMTT(30), <3>1, <3>2, <1>0, <1>1, <1>2, <1>8, <1>9
    <3>4. deps'[stack[j].root] = deps[stack[j].root]  BY <3>3, <1>13
    <3>5. names'[stack[j].this] = names[stack[j].this] /\ stack[j].this \in 1 .. n
      BY <3>1, <1>12
    <3> QED BY <3>1, <3>3, <3>4, <3>5, <1>5, <1>12 DEF FrameOK, HasMore, content
  <2> QED BY <2>1, <2>2
<1>18. \A j \in 1 .. L : stack'[j].file = stack[j].file /\ stack'[j].root = stack[j].root
  BY <1>3, <1>6, <1>10, <1>11
<1>19. Chained'
  <2>1. stack'[1].root = Stub  BY <1>1, <1>6, <1>18 DEF LoadInv, Chained
  <2>2. ASSUME NEW j \in 2 .. L
        PROVE  /\ stack'[j - 1].ph = "wait" /\ stack'[j].root = stack'[j - 1].this
               /\ stack'[j].file = Lib(stack[j - 1])'
    <3>1. j \in 1 .. L /\ j - 1 \in 1 .. L - 1  BY <1>6
    <3>2. /\ stack[j - 1].ph = "wait" /\ stack[j].root = stack[j - 1].this
          /\ stack[j].file = Lib(stack[j - 1])
      BY <2>2 DEF LoadInv, Chained
    <3>3. stack'[j - 1] = stack[j - 1]  BY <3>1, <1>11
    <3> QED BY <3>1, <3>2, <3>3, <1>5, <1>18 DEF Lib, content
  <2>3. ASSUME NEW i \in 1 .. L, NEW j \in 1 .. L, i < j
        PROVE  stack'[i].ph # "open" /\ stack'[i].this <= stack'[j].root
    <3>1. i \in 1 .. L - 1  BY <2>3, <1>6
    <3>2. stack[i].ph # "open" /\ stack[i].this <= stack[j].root
      BY <2>3 DEF LoadInv, Chained
    <3> QED BY <3>1, <3>2, <1>11, <1>18
  <2> QED BY <1>11, <1>17, <2>1, <2>2, <2>3 DEF Chained
<1>20. Held' = Held \cup {n}
  <2>1. {i \in 1 .. L : stack'[i].ph # "open"} = 1 .. L  BY <1>6, <1>10, <1>11
  <2>2. {i \in 1 .. L : stack[i].ph # "open"} = 1 .. L - 1  BY <1>1, <1>6
  <2>3. Held' = {stack'[j].this : j \in 1 .. L}  BY <2>1, <1>11 DEF Held
  <2>4. Held = {stack[j].this : j \in 1 .. L - 1}  BY <2>2 DEF Held
  <2>5. \A j \in 1 .. L : j \in 1 .. L - 1 \/ j = L  BY <1>6
  <2>6. \A j \in 1 .. L - 1 : j \in 1 .. L /\ stack'[j].this = stack[j].this  BY <1>6, <1>11
  <2>7. stack'[L].this = n /\ L \in 1 .. L  BY <1>6, <1>10, <1>11
  <2> QED BY <2>3, <2>4, <2>5, <2>6, <2>7
<1>21. sockets' = Held'  BY <1>5, <1>20 DEF LoadInv
<1>22. ReturnOK'
  <2>1. Top' = f /\ stack' # <<>>  BY <1>6, <1>11 DEF Top, Last
  <2>2. ret = Pending  BY <1>1 DEF LoadInv, ReturnOK
  <2>3. 1 .. Len(names) \subseteq done \cup Held  BY <1>0, <2>2 DEF LoadInv, ReturnOK
  <2>4. 1 .. Len(names)' \subseteq done' \cup Held'  BY <2>3, <1>5, <1>12, <1>20
  <2> QED BY <2>1, <2>2, <2>4, <1>0, <1>5, <1>10 DEF ReturnOK
<1>23. NodesOK'
  <2>1. done \subseteq 1 .. n  BY <1>12 DEF LoadInv, NodesOK
  <2>2. \A m \in Nodes : m > n => iat[m] = <<>>
    BY <1>0, <1>2, <1>8 DEF LoadInv, NodesOK, Nodes
  <2>3. ASSUME NEW m \in 1 .. n
        PROVE  /\ Len(iat[m]) <= Len(imports[names'[m]])
               /\ \A i \in 1 .. Len(iat[m]) :
                    iat[m][i] \in 1 .. n /\ names'[iat[m][i]] = imports[names'[m]][i]
    <3>1. CASE m \in 1 .. Len(names)
      <4>1. /\ Len(iat[m]) <= Len(imports[names[m]])
            /\ \A i \in 1 .. Len(iat[m]) :
                 iat[m][i] \in 1 .. Len(names) /\ names[iat[m][i]] = imports[names[m]][i]
        BY <3>1 DEF LoadInv, NodesOK
      <4> QED BY <3>1, <4>1, <1>12
    <3>2. CASE m = n
      <4>1. iat[n] = <<>>  BY <1>2, <1>8, <1>9 DEF LoadInv, NodesOK
      <4>2. Top.file \in Files  BY <1>6 DEF Frame
      <4>3. Len(imports[Top.file]) \in Nat  BY <4>2 DEF LoadInv, LoaderTypeOK
      <4>4. Len(iat[n]) = 0  BY <4>1
      <4> QED BY <3>2, <4>3, <4>4, <1>12
    <3> QED BY <3>1, <3>2, <1>12
  <2>4. \A m \in done : Len(iat[m]) = Len(imports[names'[m]])
    BY <1>12 DEF LoadInv, NodesOK
  <2> QED BY <2>1, <2>2, <2>3, <2>4, <1>5, <1>12 DEF NodesOK, content
<1>24. TreeOK'
  <2>0. \A r \in 0 .. MaxNodes : \A i \in 1 .. Len(deps'[r]) :
          \/ i \in 1 .. Len(deps[r]) /\ deps'[r][i] = deps[r][i]
          \/ r = p /\ deps'[r][i] = n
    BY SMTT(30), <1>13, <1>14, <1>15, <1>9
  <2>1. ASSUME NEW r \in 0 .. MaxNodes, NEW i \in 1 .. Len(deps'[r])
        PROVE  deps'[r][i] \in 1 .. n /\ r < deps'[r][i]
    <3>1. CASE i \in 1 .. Len(deps[r]) /\ deps'[r][i] = deps[r][i]
      BY <3>1, <1>12 DEF LoadInv, TreeOK
    <3>2. CASE r = p /\ deps'[r][i] = n  BY <3>2, <1>2, <1>8, <1>9
    <3> QED BY <3>1, <3>2, <2>0
  <2>2. ASSUME NEW m \in 1 .. n
        PROVE  \E r \in 0 .. MaxNodes : \E i \in 1 .. Len(deps'[r]) : deps'[r][i] = m
    <3>1. CASE m \in 1 .. Len(names)
      <4>0. PICK r \in 0 .. MaxNodes : \E i \in 1 .. Len(deps[r]) : deps[r][i] = m
        BY <3>1 DEF LoadInv, TreeOK
      <4>1. PICK i \in 1 .. Len(deps[r]) : deps[r][i] = m  BY <4>0
      <4>2. i \in 1 .. Len(deps'[r]) /\ deps'[r][i] = m
        BY <4>1, <1>b
      <4> QED BY <4>2
    <3>2. CASE m = n
      <4>1. Len(deps[p]) + 1 \in 1 .. Len(deps'[p])  BY <1>9, <1>14, <1>15
      <4> QED BY <3>2, <4>1, <1>9, <1>15
    <3> QED BY <3>1, <3>2, <1>12
  <2>3. ASSUME NEW r \in 0 .. MaxNodes, NEW s \in 0 .. MaxNodes,
               NEW i \in 1 .. Len(deps'[r]), NEW j \in 1 .. Len(deps'[s]),
               deps'[r][i] = deps'[s][j]
        PROVE  r = s
    <3>1. \A x \in 0 .. MaxNodes : \A k \in 1 .. Len(deps[x]) : deps[x][k] # n
      <4> SUFFICES ASSUME NEW x \in 0 .. MaxNodes, NEW k \in 1 .. Len(deps[x]), deps[x][k] = n
                   PROVE  FALSE
        OBVIOUS
      <4>1. deps[x][k] \in 1 .. Len(names)  BY DEF LoadInv, TreeOK
      <4> QED BY <4>1, <1>2, <1>8
    <3>2. CASE r = p /\ deps'[r][i] = n  BY <2>0, <2>3, <3>1, <3>2
    <3>3. CASE i \in 1 .. Len(deps[r]) /\ deps'[r][i] = deps[r][i]
      <4>1. j \in 1 .. Len(deps[s]) /\ deps'[s][j] = deps[s][j]  BY <2>0, <2>3, <3>1, <3>3
      <4>2. deps[r][i] = deps[s][j]  BY <2>3, <3>3, <4>1
      <4>3. \A x, y \in 0 .. MaxNodes : \A k \in 1 .. Len(deps[x]), l \in 1 .. Len(deps[y]) :
              deps[x][k] = deps[y][l] => x = y
        BY DEF LoadInv, TreeOK
      <4> QED BY <3>3, <4>1, <4>2, <4>3
    <3> QED BY <2>0, <3>2, <3>3
  <2> QED BY <2>1, <2>2, <2>3, <1>12 DEF TreeOK
<1>25. NotBelow'  BY <1>10, <1>11 DEF NotBelow
<1>26. TwinsApart'
  <2>1. ASSUME NEW r \in 0 .. MaxNodes, NEW m \in Below(r)', m # n PROVE m \in Below(r)
    <3>1. p # n  BY <1>9
    <3> QED BY <2>1, <3>1, <1>1, <1>2, <1>5, <1>9, BelowGrows DEF LoadInv
  <2>2. ASSUME NEW r \in 0 .. MaxNodes, NEW i \in 1 .. Len(deps[r])
        PROVE  ParentOf(deps[r][i]) = r
    <3>1. \A x, y \in 0 .. MaxNodes : \A k \in 1 .. Len(deps[x]), l \in 1 .. Len(deps[y]) :
              deps[x][k] = deps[y][l] => x = y
      BY DEF LoadInv, TreeOK
    <3> QED BY <3>1, <1>8, OneParent DEF ParentOf, Stub
  <2>3. ASSUME NEW r \in 0 .. MaxNodes, NEW i \in 1 .. Len(deps'[r]), NEW x, x = deps'[r][i]
        PROVE  ParentOf(x)' = r
    <3>1. \A y, z \in 0 .. MaxNodes : \A k \in 1 .. Len(deps'[y]), l \in 1 .. Len(deps'[z]) :
              deps'[y][k] = deps'[z][l] => y = z
      BY <1>24 DEF TreeOK
    <3>2. (CHOOSE q \in 0 .. MaxNodes : deps'[r][i] \in Range(deps'[q])) = r
      BY <3>1, <1>13, OneParent
    <3> QED BY <2>3, <3>2 DEF ParentOf, Stub
  <2>4. ASSUME NEW x \in 1 .. Len(names)
        PROVE  \E r \in 0 .. MaxNodes : r < x /\ ParentOf(x) = r /\ ParentOf(x)' = r
    <3>1. PICK r \in 0 .. MaxNodes : \E i \in 1 .. Len(deps[r]) : deps[r][i] = x
      BY DEF LoadInv, TreeOK
    <3>2. PICK i \in 1 .. Len(deps[r]) : deps[r][i] = x  BY <3>1
    <3>3. i \in 1 .. Len(deps'[r]) /\ deps'[r][i] = x  BY <3>2, <1>b
    <3>4. r < x  BY <3>2 DEF LoadInv, TreeOK
    <3>5. ParentOf(x) = r  BY <2>2, <3>2
    <3>6. ParentOf(x)' = r  BY <2>3, <3>3
    <3> QED BY <3>4, <3>5, <3>6
  <2>5. ParentOf(n)' = p
    <3>1. Len(deps[p]) + 1 \in 1 .. Len(deps'[p])  BY <1>9, <1>14, <1>15
    <3> QED BY <2>3, <3>1, <1>9, <1>15
  <2>6. ASSUME NEW x \in 1 .. n, NEW m \in 1 .. x - 1, names'[m] = names'[x],
               NEW q, q = ParentOf(x)', q # Stub, NEW g, g = ParentOf(q)', m \in Below(g)'
        PROVE  FALSE
    <3>1. m \in 1 .. Len(names) /\ m # n /\ names'[m] = names[m]
      BY <1>2, <1>8, <1>9, <1>12
    <3>2. CASE x \in 1 .. Len(names)
      <4>1. q \in 0 .. MaxNodes /\ q < x /\ ParentOf(x) = q  BY <2>4, <2>6, <3>2
      <4>2. q \in 1 .. Len(names)  BY <4>1, <2>6, <3>2, <1>0, <1>8 DEF Stub
      <4>3. g \in 0 .. MaxNodes /\ ParentOf(q) = g  BY <2>4, <2>6, <4>2
      <4>4. m \in Below(g)  BY <2>1, <2>6, <3>1, <4>3
      <4>5. names[m] = names[x]  BY <2>6, <3>1, <3>2, <1>12
      <4>6. m \notin Below(ParentOf(ParentOf(x)))
        BY <3>2, <4>1, <4>5, <2>6 DEF LoadInv, TwinsApart
      <4> QED BY <4>1, <4>3, <4>4, <4>6
    <3>3. CASE x = n
      <4>1. q = p  BY <2>5, <2>6, <3>3
      <4>2. L > 1 /\ L \in 2 .. L /\ L - 1 \in 1 .. L - 1 /\ L - 1 \in 1 .. L
        <5>1. L # 1  BY <4>1, <2>6, <1>1, <1>3, <1>6 DEF LoadInv, Chained
        <5>2. L \in Nat /\ L # 0  BY <1>6
        <5> HIDE DEF L
        <5> QED BY <5>1, <5>2
      <4>3. stack[L - 1].this = p  BY <4>2, <1>3, <1>6 DEF LoadInv, Chained
      <4>4. FrameOK(stack[L - 1]) /\ stack[L - 1].ph # "open"  BY <4>2, <1>6
      <4>5. PICK r : r = stack[L - 1].root  OBVIOUS
      <4>6. r \in 0 .. Len(names) /\ deps[r] # <<>> /\ Last(deps[r]) = p
        BY <4>3, <4>4, <4>5 DEF FrameOK
      <4>7. r \in 0 .. MaxNodes /\ Len(deps[r]) \in 1 .. Len(deps[r]) /\ deps[r][Len(deps[r])] = p
        <5>1. r \in 0 .. MaxNodes  BY <4>6, <1>0, <1>1, <1>8
        <5>2. deps[r] \in Seq(Nodes) /\ Len(deps[r]) \in Nat  BY <5>1, <1>14
        <5> QED BY <4>6, <5>1, <5>2 DEF Last
      <4>8. ParentOf(p) = r  BY <2>2, <4>7
      <4>9. p \in 1 .. Len(names)  BY <4>1, <2>6, <1>7, <1>8 DEF Stub
      <4>10. g = r  BY <2>4, <2>6, <4>1, <4>8, <4>9
      <4>11. m \in Below(r)  BY <2>1, <2>6, <3>1, <4>7, <4>10
      <4>12. names[m] # Top.file
        BY <3>1, <4>2, <4>5, <4>11, <1>1, <1>6 DEF LoadInv, NotBelow
      <4> QED BY <4>12, <3>1, <3>3, <2>6, <1>12
    <3> QED BY <3>2, <3>3, <1>12
  <2> QED BY <2>6, <1>12 DEF TwinsApart
<1> QED BY <1>16, <1>19, <1>21, <1>22, <1>23, <1>24, <1>25, <1>26 DEF LoadInv

\* Every step of the loader keeps its invariant.
LEMMA LoadStepKeeps ==
  ASSUME LoadInv, LoadStep
  PROVE  LoadInv'
BY OpenFailsKeeps, OpenedKeeps, ImportUnnamedKeeps, ImportKeeps, ImportLoadKeeps,
   ImportLoadedKeeps, FinishKeeps DEF LoadStep

\* Other steps of efi_main and of the firmware leave the loader alone.
LEMMA LoaderIdle ==
  ASSUME LoadInv, UNCHANGED loadvars
  PROVE  LoadInv'
<1>1. UNCHANGED <<imports, absent, flaw, names, deps, iat, done, stack, ret, sockets>>
  BY DEF loadvars, content, tree
<1>2. TreeOK' /\ TwinsApart' /\ \A r \in 0 .. MaxNodes : Below(r)' = Below(r)
  BY <1>1, SameTree DEF LoadInv
<1>3. LoaderTypeOK'  BY <1>1 DEF LoadInv, LoaderTypeOK
<1>4. Chained'  BY <1>1 DEF LoadInv, Chained, FrameOK, HasMore, Lib
<1>5. Held' = Held  BY <1>1 DEF Held
<1>6. ReturnOK'  BY <1>1, <1>5 DEF LoadInv, ReturnOK, Top, Lib
<1>7. NodesOK'  BY <1>1 DEF LoadInv, NodesOK
<1>8. NotBelow'
  <2> SUFFICES ASSUME Len(stack) > 1, stack[Len(stack)].ph = "open"
               PROVE  \A m \in Below(stack[Len(stack) - 1].root)' :
                         m \in 1 .. Len(names) => names[m] # stack[Len(stack)].file
    BY <1>1 DEF NotBelow
  <2>1. PICK r : r = stack[Len(stack) - 1].root  OBVIOUS
  <2>2. r \in 0 .. MaxNodes
    <3>1. stack \in Seq(Frame)  BY DEF LoadInv, LoaderTypeOK
    <3>2. Len(stack) - 1 \in 1 .. Len(stack)  BY <3>1
    <3>3. stack[Len(stack) - 1] \in Frame  BY <3>1, <3>2
    <3> QED BY <2>1, <3>3 DEF Frame, Stub
  <2>3. Below(stack[Len(stack) - 1].root)' = Below(r)  BY <1>1, <1>2, <2>1, <2>2 DEF Below
  <2> QED BY <2>1, <2>3 DEF LoadInv, NotBelow
<1> QED BY <1>1, <1>2, <1>3, <1>4, <1>5, <1>6, <1>7, <1>8 DEF LoadInv

\* LoadExecutable starts on an empty tree.
LEMMA LoadExecutableKeeps ==
  ASSUME LoadInv, stack = <<>>, names = <<>>, LoadExecutable(Kboot)
  PROVE  LoadInv' /\ ret' = Pending
<1>0. MaxNodes \in Nat /\ Pending # NULL /\ Pending \notin Nodes /\ Pending \in NULL .. Pending
  BY LoaderAssumption DEF Pending, NULL, Nodes
<1> DEFINE c == [file |-> Kboot, root |-> Stub, this |-> Stub, k |-> 1, ph |-> "open"]
<1>1. stack' = Append(stack, c) /\ ret' = Pending /\ UNCHANGED <<content, tree, sockets>>
  BY DEF LoadExecutable, Call
<1>2. c \in Frame  BY <1>0, BootAssumption DEF Frame, Phases, Stub
<1>3. c.file = Kboot /\ c.root = Stub /\ c.k = 1 /\ c.ph = "open"  OBVIOUS
<1> HIDE DEF c
<1>4. stack' \in Seq(Frame) /\ Len(stack') = 1 /\ stack'[1] = c /\ stack' # <<>>  BY <1>1, <1>2
<1>5. TreeOK' /\ TwinsApart'
  <2>1. UNCHANGED <<names, deps>>  BY <1>1 DEF tree
  <2> QED BY <2>1, SameTree DEF LoadInv
<1>6. LoaderTypeOK'  BY <1>0, <1>1, <1>4 DEF LoadInv, LoaderTypeOK, content, tree
<1>7. FrameOK(stack[1])'
  <2>1. Stub \in 0 .. Len(names')  BY <1>1, <1>6 DEF Stub, LoaderTypeOK
  <2> QED BY <1>3, <1>4, <2>1 DEF FrameOK
<1>8. Chained'  BY <1>3, <1>4, <1>7 DEF Chained
<1>9. Held' = {} /\ Held = {}
  <2>1. {i \in 1 .. Len(stack') : stack'[i].ph # "open"} = {}  BY <1>3, <1>4
  <2>2. 1 .. Len(stack) = {}  OBVIOUS
  <2> QED BY <2>1, <2>2 DEF Held
<1>10. sockets' = Held'  BY <1>1, <1>9 DEF LoadInv
<1>11. ReturnOK'
  <2>1. Top' = c  BY <1>4 DEF Top, Last
  <2>2. 1 .. Len(names') = {}  BY <1>1 DEF tree
  <2> QED BY <1>0, <1>1, <1>3, <2>1, <2>2 DEF ReturnOK
<1>12. NodesOK'  BY <1>1 DEF LoadInv, NodesOK, content, tree
<1>13. NotBelow'  BY <1>4 DEF NotBelow
<1> QED BY <1>1, <1>5, <1>6, <1>8, <1>10, <1>11, <1>12, <1>13 DEF LoadInv

\* The loader starts with an empty tree and no activation.
LEMMA InitLoads ==
  ASSUME InitLoader
  PROVE  LoadInv /\ names = <<>> /\ stack = <<>> /\ ret = Pending
<1>0. MaxNodes \in Nat /\ Pending # NULL /\ Pending \notin Nodes /\ Pending \in NULL .. Pending
  BY LoaderAssumption DEF Pending, NULL, Nodes
<1>1. /\ names = <<>> /\ done = {} /\ stack = <<>> /\ ret = Pending /\ sockets = {}
      /\ deps = [n \in Stub .. MaxNodes |-> <<>>] /\ iat = [n \in Nodes |-> <<>>]
      /\ imports \in Graphs /\ absent \in Absents
  BY DEF InitLoader
<1>2. 1 .. Len(names) = {} /\ 1 .. Len(stack) = {} /\ Len(names) = 0 /\ Len(stack) = 0
  BY <1>1
<1>3. LoaderTypeOK
  <2>1. imports \in [Files -> Seq(Files)] /\ absent \subseteq Files  BY <1>1, LoaderAssumption
  <2>2. names \in Seq(Files) /\ stack \in Seq(Frame)  BY <1>1
  <2>3. deps \in [Stub .. MaxNodes -> Seq(Nodes)] /\ iat \in [Nodes -> Seq(Nodes)]  BY <1>1
  <2> QED BY <2>1, <2>2, <2>3, <1>0, <1>1, <1>2 DEF LoaderTypeOK
<1>4. Held = {}  BY <1>2 DEF Held
<1>5. Chained  BY <1>1, <1>2 DEF Chained
<1>6. ReturnOK  BY <1>0, <1>1, <1>2 DEF ReturnOK
<1>7. NodesOK  BY <1>1, <1>2 DEF NodesOK
<1>8. TreeOK
  <2>1. \A r \in 0 .. MaxNodes : 1 .. Len(deps[r]) = {}  BY <1>1 DEF Stub
  <2> QED BY <2>1, <1>2 DEF TreeOK
<1>9. NotBelow  BY <1>2 DEF NotBelow
<1>10. TwinsApart  BY <1>2 DEF TwinsApart
<1> QED BY <1>1, <1>3, <1>4, <1>5, <1>6, <1>7, <1>8, <1>9, <1>10 DEF LoadInv

----------------------------------------------------------------------------
(* The memory map.                                                         *)

Disjoint(s) == \A i, j \in DOMAIN s : s[i].start < s[j].start => End(s[i]) <= s[j].start

\* t has only blocks of s, and one that ends as high as any of s.
Keeps(s, t) ==
    /\ t \in Seq(Block) /\ Len(t) = Len(s)
    /\ \A n \in 1 .. Len(s) : \E m \in 1 .. Len(s) : t[n] = s[m]
    /\ \A n \in 1 .. Len(s) : \E m \in 1 .. Len(s) : End(s[n]) <= End(t[m])

\* A descriptor ends where it starts, or behind.
LEMMA EndType ==
  ASSUME NEW s \in Seq(Block), NEW i \in 1 .. Len(s)
  PROVE  s[i] \in Block /\ s[i].start \in Nat /\ End(s[i]) \in Nat /\ s[i].start <= End(s[i])
<1>1. s[i] \in Block  OBVIOUS
<1>2. s[i].start \in Nat /\ s[i].pages \in Nat  BY <1>1 DEF Block
<1> QED BY <1>1, <1>2 DEF End

\* The descriptor that one turn of the sort loses is not the highest: the one
\* before it, which takes its place, starts behind its end.
LEMMA InsertKeeps ==
  ASSUME NEW s \in Seq(Block), Disjoint(s), NEW i \in 2 .. Len(s)
  PROVE  Keeps(s, Insert(s, i))
<1> DEFINE G == {j \in 1 .. i : \A k \in j .. i - 1 : s[k].start > s[i].start}
           j == Gap(s, i)
           t == [n \in 1 .. Len(s) |->
                    IF n = j THEN s[i - 1] ELSE IF n \in j .. i THEN s[n - 1] ELSE s[n]]
<1>0. Len(s) \in Nat /\ DOMAIN s = 1 .. Len(s) /\ i \in 1 .. Len(s)  OBVIOUS
<1>1. j \in G
  <2>1. i \in G  BY <1>0
  <2>2. G \in SUBSET Nat  BY <1>0
  <2> HIDE DEF G
  <2>3. Min(G) \in G  BY <2>1, <2>2, MinIsLeast
  <2> QED BY <2>3 DEF Gap, G
<1> HIDE DEF j
<1>2. j \in 1 .. i /\ \A k \in j .. i - 1 : s[k].start > s[i].start  BY <1>1
<1>3. CASE j = i
  <2>1. Insert(s, i) = s  BY <1>3 DEF Insert, j
  <2>2. \A n \in 1 .. Len(s) : End(s[n]) <= End(s[n])  BY EndType
  <2> QED BY <2>1, <2>2 DEF Keeps
<1>4. CASE j # i
  <2>1. Insert(s, i) = t  BY <1>4 DEF Insert, j
  <2>2. j \in 1 .. i - 1 /\ i - 1 \in j .. i - 1 /\ i - 1 \in 1 .. Len(s)  BY <1>0, <1>2, <1>4
  <2>3. ASSUME NEW n \in 1 .. Len(s) PROVE \E m \in 1 .. Len(s) : t[n] = s[m]
    <3>1. CASE n = j  BY <3>1, <2>2
    <3>2. CASE n # j /\ n \in j .. i
      <4>1. n - 1 \in 1 .. Len(s)  BY <3>2, <2>2, <1>0
      <4> QED BY <3>2, <4>1
    <3>3. CASE n # j /\ n \notin j .. i  BY <3>3
    <3> QED BY <3>1, <3>2, <3>3
  <2>4. ASSUME NEW n \in 1 .. Len(s) PROVE \E m \in 1 .. Len(s) : End(s[n]) <= End(t[m])
    <3>1. CASE n \in j .. i - 1
      <4>1. n + 1 \in 1 .. Len(s) /\ n + 1 # j /\ n + 1 \in j .. i /\ n + 1 - 1 = n
        BY <3>1, <2>2, <1>0
      <4>2. t[n + 1] = s[n]  BY <4>1
      <4>3. End(s[n]) <= End(s[n])  BY EndType
      <4> QED BY <4>1, <4>2, <4>3
    <3>2. CASE n = i
      <4>1. s[i].start < s[i - 1].start  BY <1>2, <2>2, <1>0, EndType
      <4>2. End(s[i]) <= s[i - 1].start  BY <4>1, <2>2, <1>0 DEF Disjoint
      <4>3. s[i - 1].start <= End(s[i - 1]) /\ s[i - 1].start \in Nat
            /\ End(s[i - 1]) \in Nat /\ End(s[i]) \in Nat
        BY <2>2, <1>0, EndType
      <4>4. j \in 1 .. Len(s) /\ t[j] = s[i - 1]  BY <2>2, <1>0
      <4>5. End(s[n]) <= End(s[i - 1])  BY <3>2, <4>2, <4>3
      <4> HIDE DEF t
      <4> QED BY <4>4, <4>5
    <3>3. CASE n \notin j .. i
      <4>1. t[n] = s[n]  BY <3>3, <2>2
      <4>2. End(s[n]) <= End(s[n])  BY EndType
      <4> QED BY <4>1, <4>2
    <3> QED BY <3>1, <3>2, <3>3, <2>2, <1>0
  <2>5. t \in Seq(Block) /\ Len(t) = Len(s)
    <3>1. \A n \in 1 .. Len(s) : t[n] \in Block  BY <2>3, EndType
    <3>2. t \in [1 .. Len(s) -> Block]  BY <3>1
    <3> HIDE DEF t
    <3> QED BY <3>2, <1>0
  <2> HIDE DEF t
  <2> QED BY <2>1, <2>3, <2>4, <2>5 DEF Keeps
<1> QED BY <1>3, <1>4

\* What two turns of the sort keep, both together keep.
LEMMA KeepsOn ==
  ASSUME NEW s \in Seq(Block), NEW t, NEW u, Keeps(s, t), Keeps(t, u)
  PROVE  Keeps(s, u)
<1>1. t \in Seq(Block) /\ u \in Seq(Block) /\ Len(t) = Len(s) /\ Len(u) = Len(s)  BY DEF Keeps
<1>2. \A n \in 1 .. Len(s) : \E m \in 1 .. Len(s) : u[n] = s[m]  BY <1>1 DEF Keeps
<1>3. ASSUME NEW n \in 1 .. Len(s) PROVE \E m \in 1 .. Len(s) : End(s[n]) <= End(u[m])
  <2>1. PICK l \in 1 .. Len(s) : End(s[n]) <= End(t[l])  BY DEF Keeps
  <2>2. PICK m \in 1 .. Len(s) : End(t[l]) <= End(u[m])  BY <1>1 DEF Keeps
  <2>3. End(s[n]) \in Nat /\ End(t[l]) \in Nat /\ End(u[m]) \in Nat  BY <1>1, EndType
  <2> QED BY <2>1, <2>2, <2>3
<1> QED BY <1>1, <1>2, <1>3 DEF Keeps

\* The sort leaves descriptors that do not overlap.
LEMMA KeepsDisjoint ==
  ASSUME NEW s \in Seq(Block), Disjoint(s), NEW t, Keeps(s, t)
  PROVE  Disjoint(t)
<1>1. t \in Seq(Block) /\ DOMAIN t = 1 .. Len(s) /\ DOMAIN s = 1 .. Len(s)  BY DEF Keeps
<1> SUFFICES ASSUME NEW i \in 1 .. Len(s), NEW j \in 1 .. Len(s), t[i].start < t[j].start
             PROVE  End(t[i]) <= t[j].start
  BY <1>1 DEF Disjoint
<1>2. PICK m \in 1 .. Len(s) : t[i] = s[m]  BY DEF Keeps
<1>3. PICK n \in 1 .. Len(s) : t[j] = s[n]  BY DEF Keeps
<1> QED BY <1>1, <1>2, <1>3 DEF Disjoint

\* The array after the first n turns of the sort.
Turns(f, s, n) == f = [i \in 1 .. n |-> IF i = 1 THEN s ELSE Insert(f[i - 1], i)]

\* The loop of the sort, turn by turn: a sequence of its intermediate arrays
\* exists for any number of turns.
LEMMA TurnsExist ==
  ASSUME NEW s, NEW N \in Nat
  PROVE  \E f : Turns(f, s, N)
<1> DEFINE B == {n \in Nat : ~ \E f : Turns(f, s, n)}
<1> SUFFICES ASSUME B # {} PROVE FALSE  OBVIOUS
<1> DEFINE b == Min(B)
<1>1. b \in B /\ \A y \in B : b <= y
  <2>1. B \in SUBSET Nat  OBVIOUS
  <2> HIDE DEF B
  <2> QED BY <2>1, MinIsLeast
<1> HIDE DEF b
<1>2. b # 0
  <2> DEFINE e == [i \in 1 .. 0 |-> s]
  <2>1. 1 .. 0 = {}  OBVIOUS
  <2>2. Turns(e, s, 0)  BY <2>1 DEF Turns
  <2> QED BY <1>1, <2>2
<1>3. b \in Nat /\ b - 1 \in Nat /\ b - 1 \notin B  BY <1>1, <1>2
<1>4. PICK f : Turns(f, s, b - 1)  BY <1>3
<1> DEFINE g == [i \in 1 .. b |-> IF i = 1 THEN s ELSE Insert(f[i - 1], i)]
<1>5. ASSUME NEW i \in 1 .. b, i # 1 PROVE f[i - 1] = g[i - 1]
  <2>1. i - 1 \in 1 .. b - 1 /\ i - 1 \in 1 .. b  BY <1>3, <1>5
  <2>2. f[i - 1] = IF i - 1 = 1 THEN s ELSE Insert(f[i - 1 - 1], i - 1)
    BY <1>4, <2>1 DEF Turns
  <2>3. g[i - 1] = IF i - 1 = 1 THEN s ELSE Insert(f[i - 1 - 1], i - 1)  BY <2>1
  <2> QED BY <2>2, <2>3
<1>6. Turns(g, s, b)
  <2>1. \A i \in 1 .. b : g[i] = IF i = 1 THEN s ELSE Insert(g[i - 1], i)  BY <1>5
  <2>2. g = [i \in 1 .. b |-> g[i]]  OBVIOUS
  <2> HIDE DEF g
  <2> QED BY <2>1, <2>2 DEF Turns
<1> QED BY <1>1, <1>6

\* The sort may lose descriptors, never the one that ends highest.
LEMMA SortKeeps ==
  ASSUME NEW s \in Seq(Block), s # <<>>, Disjoint(s)
  PROVE  Keeps(s, SortMemoryDescriptors(s))
<1> DEFINE N == Len(s)
           f == CHOOSE h : Turns(h, s, N)
<1>0. N \in Nat /\ 1 \in 1 .. N  OBVIOUS
<1>1. SortMemoryDescriptors(s) = f[N]  BY DEF SortMemoryDescriptors, Turns
<1>2. Turns(f, s, N)
  <2>1. PICK h : Turns(h, s, N)  BY <1>0, TurnsExist
  <2> QED BY <2>1
<1> HIDE DEF f
<1>3. \A i \in 1 .. N : f[i] = IF i = 1 THEN s ELSE Insert(f[i - 1], i)  BY <1>2 DEF Turns
<1> DEFINE B == {i \in 1 .. N : ~Keeps(s, f[i])}
<1>4. B = {}
  <2> SUFFICES ASSUME B # {} PROVE FALSE  OBVIOUS
  <2> DEFINE b == Min(B)
  <2>1. b \in B /\ \A y \in B : b <= y
    <3>1. B \in SUBSET Nat  BY <1>0
    <3> HIDE DEF B
    <3> QED BY <3>1, MinIsLeast
  <2> HIDE DEF b
  <2>2. b # 1
    <3>1. \A n \in 1 .. N : End(s[n]) <= End(s[n])  BY EndType
    <3>2. Keeps(s, s)  BY <3>1 DEF Keeps
    <3> QED BY <2>1, <3>2, <1>0, <1>3
  <2>3. b \in 2 .. N /\ b - 1 \in 1 .. N /\ b - 1 \notin B  BY <2>1, <2>2, <1>0
  <2>4. PICK t : t = f[b - 1]  OBVIOUS
  <2>5. Keeps(s, t)  BY <2>3, <2>4
  <2>6. t \in Seq(Block) /\ b \in 2 .. Len(t) /\ Disjoint(t)
    BY <2>3, <2>5, KeepsDisjoint DEF Keeps
  <2>7. Keeps(t, Insert(t, b))  BY <2>6, InsertKeeps
  <2>8. f[b] = Insert(t, b)  BY <2>3, <2>2, <2>4, <1>3
  <2>9. Keeps(s, Insert(t, b))  BY <2>5, <2>7, KeepsOn
  <2> QED BY <2>1, <2>8, <2>9
<1>5. N \in 1 .. N  BY <1>0
<1> QED BY <1>1, <1>4, <1>5

\* A map that is not empty has a block that ends highest.
LEMMA HighestEnd ==
  ASSUME NEW s \in Seq(Block), s # <<>>
  PROVE  \E x \in 1 .. Len(s) : \A y \in 1 .. Len(s) : End(s[y]) <= End(s[x])
<1> DEFINE Top1(n) == \E x \in 1 .. n : \A y \in 1 .. n : End(s[y]) <= End(s[x])
           B == {n \in 1 .. Len(s) : ~Top1(n)}
<1>0. Len(s) \in Nat /\ Len(s) \in 1 .. Len(s)  OBVIOUS
<1>1. B = {}
  <2> SUFFICES ASSUME B # {} PROVE FALSE  OBVIOUS
  <2> DEFINE b == Min(B)
  <2>1. b \in B /\ \A y \in B : b <= y
    <3>1. B \in SUBSET Nat  BY <1>0
    <3> HIDE DEF B
    <3> QED BY <3>1, MinIsLeast
  <2> HIDE DEF b
  <2>2. b \in 1 .. Len(s) /\ ~Top1(b)  BY <2>1
  <2>3. \A y \in 1 .. b : y \in 1 .. Len(s) /\ End(s[y]) \in Nat
    <3>1. \A y \in 1 .. b : y \in 1 .. Len(s)
      <4>1. b \in 1 .. Len(s)  BY <2>2
      <4> QED BY <4>1, <1>0
    <3> QED BY <3>1, EndType
  <2>4. b # 1
    <3> SUFFICES ASSUME b = 1 PROVE FALSE  OBVIOUS
    <3>1. \A y \in 1 .. b : y = b  OBVIOUS
    <3>2. b \in 1 .. b /\ End(s[b]) <= End(s[b])  BY <2>2, <2>3
    <3> QED BY <2>2, <3>1, <3>2
  <2>5. b - 1 \in 1 .. Len(s) /\ b - 1 \notin B
    <3>1. b \in 1 .. Len(s)  BY <2>2
    <3>2. b - 1 \in 1 .. Len(s) /\ ~(b <= b - 1)  BY <3>1, <2>4, <1>0
    <3> HIDE DEF B
    <3> QED BY <3>2, <2>1
  <2>6. PICK x \in 1 .. b - 1 : \A y \in 1 .. b - 1 : End(s[y]) <= End(s[x])  BY <2>5
  <2>7. b \in 1 .. b /\ x \in 1 .. b /\ \A y \in 1 .. b : y \in 1 .. b - 1 \/ y = b
    BY <2>2, <2>6, <1>0
  <2>8. CASE End(s[b]) <= End(s[x])
    <3>1. \A y \in 1 .. b : End(s[y]) <= End(s[x])  BY <2>6, <2>7, <2>8
    <3> QED BY <2>2, <2>7, <3>1
  <2>9. CASE ~(End(s[b]) <= End(s[x]))
    <3>1. \A y \in 1 .. b : End(s[y]) <= End(s[b])
      <4>1. End(s[x]) <= End(s[b])  BY SMTT(30), <2>3, <2>7, <2>9
      <4> SUFFICES ASSUME NEW y \in 1 .. b PROVE End(s[y]) <= End(s[b])  OBVIOUS
      <4>2. End(s[y]) \in Nat /\ End(s[x]) \in Nat /\ End(s[b]) \in Nat  BY <2>3, <2>7
      <4>3. CASE y = b  BY <4>2, <4>3
      <4>4. CASE y \in 1 .. b - 1
        <5>1. End(s[y]) <= End(s[x])  BY <2>6, <4>4
        <5> QED BY <4>1, <4>2, <5>1
      <4> QED BY <2>7, <4>3, <4>4
    <3> QED BY <2>2, <2>7, <3>1
  <2> QED BY <2>8, <2>9
<1> QED BY <1>0, <1>1

\* The highest end is that of the descriptor that ends behind all others.
LEMMA MaxEnd ==
  ASSUME NEW s \in Seq(Block), NEW x \in 1 .. Len(s),
         \A y \in 1 .. Len(s) : End(s[y]) <= End(s[x])
  PROVE  Max({End(s[i]) : i \in DOMAIN s}) = End(s[x])
<1> DEFINE E == {End(s[i]) : i \in DOMAIN s}
<1>1. DOMAIN s = 1 .. Len(s)  OBVIOUS
<1>2. End(s[x]) \in E /\ \A e \in E : e \in Nat /\ e <= End(s[x])  BY <1>1, EndType
<1>3. End(s[x]) \in Nat  BY EndType
<1> HIDE DEF E
<1>4. Max(E) = End(s[x])
  <2>1. \A e \in E : (\A y \in E : e >= y) => e = End(s[x])  BY <1>2, <1>3
  <2>2. \A y \in E : End(s[x]) >= y  BY <1>2, <1>3
  <2> QED BY <1>2, <2>1, <2>2 DEF Max
<1> QED BY <1>4 DEF E

Highest(s) == Max({End(s[i]) : i \in DOMAIN s})

\* The sort keeps the highest end, whichever descriptors it loses.
LEMMA SameHighest ==
  ASSUME NEW s \in Seq(Block), s # <<>>, NEW t, Keeps(s, t)
  PROVE  /\ Range(t) \subseteq Range(s)
         /\ Highest(t) = Highest(s)
<1>1. t \in Seq(Block) /\ Len(t) = Len(s) /\ DOMAIN t = 1 .. Len(s) /\ DOMAIN s = 1 .. Len(s)
  BY DEF Keeps
<1>2. PICK x \in 1 .. Len(s) : \A y \in 1 .. Len(s) : End(s[y]) <= End(s[x])  BY HighestEnd
<1>3. PICK z \in 1 .. Len(s) : End(s[x]) <= End(t[z])  BY DEF Keeps
<1>4. ASSUME NEW y \in 1 .. Len(s) PROVE End(t[y]) <= End(s[x])
  <2>1. PICK m \in 1 .. Len(s) : t[y] = s[m]  BY DEF Keeps
  <2> QED BY <1>2, <2>1
<1>5. \A y \in 1 .. Len(s) : End(t[y]) \in Nat  BY <1>1, EndType
<1>6. End(s[x]) \in Nat  BY EndType
<1>7. End(t[z]) = End(s[x])  BY <1>3, <1>4, <1>5, <1>6
<1>8. \A y \in 1 .. Len(t) : End(t[y]) <= End(t[z])  BY <1>1, <1>4, <1>7
<1>9. Highest(t) = End(t[z])  BY <1>1, <1>8, MaxEnd DEF Highest
<1>10. Highest(s) = End(s[x])  BY <1>2, MaxEnd DEF Highest
<1>11. Range(t) \subseteq Range(s)
  <2>1. \A n \in DOMAIN t : \E m \in DOMAIN s : t[n] = s[m]  BY <1>1 DEF Keeps
  <2> QED BY <2>1 DEF Range
<1> QED BY <1>7, <1>9, <1>10, <1>11

\* What Sorted holds for each memory map of the firmware.
LEMMA SortedKeeps ==
  ASSUME NEW m \in Maps
  PROVE  m \in Seq(Block) /\ m # <<>> /\ Sorted[m] \in Seq(Block) /\ Keeps(m, Sorted[m])
<1>1. m \in Seq(Block) /\ m # <<>> /\ Disjoint(m)  BY BootAssumption DEF Disjoint
<1>2. Keeps(m, SortMemoryDescriptors(m))  BY <1>1, SortKeeps
<1>3. Sorted[m] = SortMemoryDescriptors(m)  BY DEF Sorted
<1> QED BY <1>1, <1>2, <1>3 DEF Keeps

----------------------------------------------------------------------------
(* The steps of efi_main and of the firmware.                              *)

\* The boot loader starts in the invariant.
LEMMA InitBoot ==
  ASSUME Init
  PROVE  BootInv
<1>1. LoadInv /\ names = <<>> /\ stack = <<>> /\ ret = Pending  BY InitLoads DEF Init
<1>2. /\ at = "mount" /\ disk = FALSE /\ fwmap = <<>> /\ fwkey = 0 /\ exited = FALSE
      /\ size = 0 /\ map = <<>> /\ key = 0 /\ total = 0
  BY DEF Init
<1>3. TypeOK
  <2>1. fwmap \in Seq(Block) /\ map \in Seq(Block)  BY <1>2
  <2>2. MaxKey \in Nat  BY BootAssumption
  <2>3. {fwkey, key} \subseteq 0 .. MaxKey  BY <1>2, <2>2
  <2> QED BY <1>1, <1>2, <2>1, <2>3 DEF LoadInv, TypeOK, Places
<1>4. PlaceOK  BY <1>1, <1>2 DEF PlaceOK
<1>5. InfoOK  BY <1>2 DEF InfoOK
<1> QED BY <1>1, <1>3, <1>4, <1>5 DEF BootInv

\* Steps before the memory map is read.
LEMMA EarlyKeeps ==
  ASSUME BootInv, LoadInv', UNCHANGED <<fwvars, infovars>>, at' \in Places, disk' \in BOOLEAN,
         at \in {"mount", "load", "loading", "close"},
         at' \in {"mount", "load", "loading", "close", "stack", "aborted", "fault"},
         PlaceOK'
  PROVE  BootInv'
<1>1. UNCHANGED <<fwmap, fwkey, exited, size, map, key, total>>  BY DEF fwvars, infovars
<1>2. TypeOK'  BY <1>1 DEF BootInv, TypeOK, LoadInv
<1>3. InfoOK'  BY <1>1 DEF BootInv, InfoOK
<1> QED BY <1>2, <1>3 DEF BootInv

\* Steps behind it.
LEMMA LateKeeps ==
  ASSUME BootInv, UNCHANGED <<loadvars, disk>>,
         at' \in {"query", "pool", "map", "exit", "total", "kernel"},
         at \in {"stack", "query", "pool", "map", "exit", "total", "kernel"}
  PROVE  LoadInv' /\ PlaceOK' /\ LoaderTypeOK' /\ at' \in Places /\ disk' \in BOOLEAN
<1>1. LoadInv'  BY LoaderIdle DEF BootInv
<1>2. stack' = <<>> /\ disk' = FALSE  BY DEF BootInv, PlaceOK, loadvars
<1>3. PlaceOK'  BY <1>2 DEF PlaceOK
<1> QED BY <1>1, <1>2, <1>3 DEF LoadInv, Places

\* Every step of the boot loader and of the firmware keeps the invariant.
LEMMA NextKeeps ==
  ASSUME BootInv, [Next]_vars
  PROVE  BootInv'
<1>0. TypeOK /\ LoadInv /\ PlaceOK /\ InfoOK /\ LoaderTypeOK  BY DEF BootInv, LoadInv
<1>a. MaxKey \in Nat /\ Pad \in Nat  BY BootAssumption
<1>1. CASE socketopen
  <2>1. LoadInv' /\ UNCHANGED <<stack, names, ret>>
    BY <1>0, <1>1, LoaderIdle DEF socketopen, loadvars, tree
  <2>2. /\ at = "mount" /\ at' \in {"load", "aborted"} /\ disk' \in BOOLEAN
        /\ UNCHANGED <<fwvars, infovars>>
    BY <1>0, <1>1 DEF socketopen, Go, TypeOK
  <2>3. PlaceOK'  BY <1>0, <2>1, <2>2 DEF PlaceOK
  <2> QED BY <2>1, <2>2, <2>3, EarlyKeeps DEF Places
<1>2. CASE Load
  <2>1. at = "load" /\ at' = "loading" /\ UNCHANGED <<disk, fwvars, infovars>>
        /\ LoadExecutable(Kboot)
    BY <1>2 DEF Load, Go
  <2>2. LoadInv'  BY <1>0, <2>1, LoadExecutableKeeps DEF PlaceOK
  <2>3. disk' \in BOOLEAN  BY <1>0, <2>1 DEF TypeOK
  <2>4. PlaceOK'  BY <2>1 DEF PlaceOK
  <2> QED BY <2>1, <2>2, <2>3, <2>4, EarlyKeeps DEF Places
<1>3. CASE Loading
  <2>1. at = "loading" /\ at' = "loading" /\ UNCHANGED <<disk, fwvars, infovars>> /\ LoadStep
    BY <1>3 DEF Loading
  <2>2. LoadInv'  BY <1>0, <2>1, LoadStepKeeps
  <2>3. disk' \in BOOLEAN  BY <1>0, <2>1 DEF TypeOK
  <2>4. PlaceOK'  BY <2>1 DEF PlaceOK
  <2> QED BY <2>1, <2>2, <2>3, <2>4, EarlyKeeps DEF Places
<1>4. CASE LoadFault
  <2>1. at = "loading" /\ at' = "fault" /\ UNCHANGED <<loadvars, disk, fwvars, infovars>>
    BY <1>4 DEF LoadFault, Go
  <2>2. LoadInv'  BY <1>0, <2>1, LoaderIdle
  <2>3. disk' \in BOOLEAN  BY <1>0, <2>1 DEF TypeOK
  <2>4. PlaceOK'  BY <2>1 DEF PlaceOK
  <2> QED BY <2>1, <2>2, <2>3, <2>4, EarlyKeeps DEF Places
<1>5. CASE LoadReturned
  <2>1. /\ at = "loading" /\ at' \in {"aborted", "close"} /\ stack = <<>>
        /\ UNCHANGED <<loadvars, disk, fwvars, infovars>>
    BY <1>5 DEF LoadReturned, Go, Loaded
  <2>2. LoadInv' /\ stack' = <<>>  BY <1>0, <2>1, LoaderIdle DEF loadvars
  <2>3. disk' \in BOOLEAN  BY <1>0, <2>1 DEF TypeOK
  <2>4. PlaceOK'  BY <2>1, <2>2 DEF PlaceOK
  <2> QED BY <2>1, <2>2, <2>3, <2>4, EarlyKeeps DEF Places
<1>6. CASE CloseDisk
  <2>1. at = "close" /\ at' = "stack" /\ disk' = FALSE /\ UNCHANGED <<loadvars, fwvars, infovars>>
    BY <1>6 DEF CloseDisk, Go
  <2>2. LoadInv'  BY <1>0, <2>1, LoaderIdle
  <2>3. stack' = <<>>  BY <1>0, <2>1 DEF PlaceOK, loadvars
  <2>4. PlaceOK'  BY <2>1, <2>3 DEF PlaceOK
  <2> QED BY <2>1, <2>2, <2>4, EarlyKeeps DEF Places
<1>7. CASE AllocateStack
  <2>1. /\ at = "stack" /\ at' = "query" /\ fwmap' \in Maps
        /\ UNCHANGED <<loadvars, disk>> /\ UNCHANGED <<fwkey, exited, size, map, key, total>>
    BY <1>7 DEF AllocateStack, Go, infovars
  <2>2. LoadInv' /\ PlaceOK' /\ LoaderTypeOK' /\ at' \in Places /\ disk' \in BOOLEAN
    BY <2>1, LateKeeps
  <2>3. fwmap' \in Seq(Block)  BY <2>1, SortedKeeps
  <2>4. TypeOK'  BY <1>0, <2>1, <2>2, <2>3 DEF TypeOK
  <2>5. InfoOK'  BY <1>0, <2>1 DEF InfoOK
  <2> QED BY <2>2, <2>4, <2>5 DEF BootInv
<1>8. CASE QuerySize
  <2>1. /\ at = "query" /\ at' = "pool" /\ size' = Len(fwmap) + Pad /\ key' \in {key, fwkey}
        /\ UNCHANGED <<loadvars, disk>> /\ UNCHANGED <<fwmap, fwkey, exited, map, total>>
    BY <1>8 DEF QuerySize, Go, fwvars
  <2>2. LoadInv' /\ PlaceOK' /\ LoaderTypeOK' /\ at' \in Places /\ disk' \in BOOLEAN
    BY <2>1, LateKeeps
  <2>3. size' \in Nat
    <3>1. fwmap \in Seq(Block)  BY <1>0 DEF TypeOK
    <3>2. Len(fwmap) \in Nat  BY <3>1
    <3> QED BY <1>a, <2>1, <3>2
  <2>4. {fwkey', key'} \subseteq 0 .. MaxKey /\ key' <= fwkey'
    BY <1>0, <1>a, <2>1 DEF TypeOK, InfoOK
  <2>5. TypeOK'  BY <1>0, <2>1, <2>2, <2>3, <2>4 DEF TypeOK
  <2>6. InfoOK'  BY <1>0, <2>1, <2>4 DEF InfoOK
  <2> QED BY <2>2, <2>5, <2>6 DEF BootInv
<1>9. ASSUME at \in {"query", "pool", "map", "exit", "total"}, ~exited, Changed,
             at' = at \/ (at = "pool" /\ at' = "map"),
             UNCHANGED <<loadvars, disk>>, UNCHANGED <<exited, size, map, key, total>>
      PROVE  BootInv'
  <2>1. fwkey < MaxKey /\ fwkey' = fwkey + 1 /\ fwmap' \in Maps  BY <1>9 DEF Changed
  <2>2. LoadInv' /\ PlaceOK' /\ LoaderTypeOK' /\ at' \in Places /\ disk' \in BOOLEAN
    BY <1>9, LateKeeps
  <2>3. fwmap' \in Seq(Block)  BY <2>1, SortedKeeps
  <2>4. fwkey \in Nat /\ key \in 0 .. MaxKey /\ key <= fwkey  BY <1>0, <1>a DEF TypeOK, InfoOK
  <2>5. fwkey' \in 0 .. MaxKey /\ key' < fwkey' /\ key' \in 0 .. MaxKey  BY <1>9, <1>a, <2>1, <2>4
  <2>6. TypeOK'  BY <1>0, <1>9, <2>2, <2>3, <2>5 DEF TypeOK
  <2>7. key' # fwkey' /\ key' <= fwkey'  BY <1>a, <2>5
  <2>8. InfoOK'  BY <1>0, <1>9, <2>1, <2>7 DEF InfoOK
  <2> QED BY <2>2, <2>6, <2>8 DEF BootInv
<1>10. CASE AllocatePool
  <2>1. /\ at = "pool" /\ UNCHANGED <<loadvars, disk>>
        /\ UNCHANGED <<exited, size, map, key, total>> /\ ~exited
    BY <1>0, <1>10 DEF AllocatePool, Go, infovars, InfoOK, TypeOK
  <2>2. CASE at' = "map" /\ Changed  BY <1>9, <2>1, <2>2
  <2>3. CASE at' \in {"map", "exit"} /\ UNCHANGED <<fwmap, fwkey>>
    <3>1. LoadInv' /\ PlaceOK' /\ LoaderTypeOK' /\ at' \in Places /\ disk' \in BOOLEAN
      BY <2>1, <2>3, LateKeeps
    <3>2. TypeOK'  BY <1>0, <2>1, <2>3, <3>1 DEF TypeOK
    <3>3. InfoOK'  BY <1>0, <2>1, <2>3 DEF InfoOK
    <3> QED BY <3>1, <3>2, <3>3 DEF BootInv
  <2> QED BY <1>10, <2>2, <2>3 DEF AllocatePool, Go
<1>11. CASE GetMemoryMap
  <2>1. /\ at = "map" /\ at' = "exit" /\ UNCHANGED <<loadvars, disk>>
        /\ UNCHANGED <<fwmap, fwkey, exited, total>> /\ size' = Len(fwmap) /\ key' \in {key, fwkey}
        /\ \/ key' = fwkey /\ map' = Sorted[fwmap]
           \/ map' = map
    BY <1>11 DEF GetMemoryMap, Go, fwvars
  <2>2. LoadInv' /\ PlaceOK' /\ LoaderTypeOK' /\ at' \in Places /\ disk' \in BOOLEAN
    BY <2>1, LateKeeps
  <2>3. fwmap \in Maps /\ map = <<>>  BY <1>0, <2>1 DEF InfoOK
  <2>4. Sorted[fwmap] \in Seq(Block) /\ fwmap \in Seq(Block)  BY <2>3, SortedKeeps
  <2>5. size' \in Nat /\ map' \in Seq(Block)  BY <1>0, <2>1, <2>4 DEF TypeOK
  <2>6. {fwkey', key'} \subseteq 0 .. MaxKey /\ key' <= fwkey'
    BY <1>0, <1>a, <2>1 DEF TypeOK, InfoOK
  <2>7. TypeOK'  BY <1>0, <2>1, <2>2, <2>5, <2>6 DEF TypeOK
  <2>8. InfoOK'  BY <1>0, <2>1, <2>3, <2>6 DEF InfoOK
  <2> QED BY <2>2, <2>7, <2>8 DEF BootInv
<1>12. CASE ExitBootServices
  <2>1. /\ at = "exit" /\ at' = "total" /\ exited' = (key = fwkey) /\ UNCHANGED <<loadvars, disk>>
        /\ UNCHANGED <<fwmap, fwkey, size, map, key, total>>
    BY <1>12 DEF ExitBootServices, Go, infovars
  <2>2. LoadInv' /\ PlaceOK' /\ LoaderTypeOK' /\ at' \in Places /\ disk' \in BOOLEAN
    BY <2>1, LateKeeps
  <2>3. TypeOK'  BY <1>0, <2>1, <2>2 DEF TypeOK
  <2>4. InfoOK'  BY <1>0, <2>1 DEF InfoOK
  <2> QED BY <2>2, <2>3, <2>4 DEF BootInv
<1>13. CASE SumMemory
  <2>1. /\ at = "total" /\ at' = "kernel" /\ UNCHANGED <<loadvars, disk>>
        /\ UNCHANGED <<fwmap, fwkey, exited, size, map, key>>
        /\ total' = IF map = <<>> THEN Garbage ELSE Max({End(map[i]) : i \in DOMAIN map})
    BY <1>13 DEF SumMemory, Go, fwvars
  <2>2. LoadInv' /\ PlaceOK' /\ LoaderTypeOK' /\ at' \in Places /\ disk' \in BOOLEAN
    BY <2>1, LateKeeps
  <2>3. total' \in Nat \cup {Garbage}
    <3>1. CASE map = <<>>  BY <2>1, <3>1
    <3>2. CASE map # <<>>
      <4>1. map \in Seq(Block)  BY <1>0 DEF TypeOK
      <4>2. PICK x \in 1 .. Len(map) : \A y \in 1 .. Len(map) : End(map[y]) <= End(map[x])
        BY <3>2, <4>1, HighestEnd
      <4>3. Max({End(map[i]) : i \in DOMAIN map}) = End(map[x])  BY <4>1, <4>2, MaxEnd
      <4>4. End(map[x]) \in Nat  BY <4>1, EndType
      <4> QED BY <2>1, <3>2, <4>3, <4>4
    <3> QED BY <3>1, <3>2
  <2>4. TypeOK'  BY <1>0, <2>1, <2>2, <2>3 DEF TypeOK
  <2>5. InfoOK'  BY <1>0, <2>1 DEF InfoOK
  <2> QED BY <2>2, <2>4, <2>5 DEF BootInv
<1>14. CASE FirmwareEvent  BY <1>9, <1>14 DEF FirmwareEvent, infovars
<1>15. CASE UNCHANGED vars
  <2>1. /\ UNCHANGED loadvars
        /\ UNCHANGED <<at, disk, fwmap, fwkey, exited, size, map, key, total>>
    BY <1>15 DEF vars, fwvars, infovars
  <2>2. LoadInv' /\ UNCHANGED <<stack, names, ret>>
    BY <1>0, <2>1, LoaderIdle DEF loadvars, tree
  <2>3. TypeOK'  BY <1>0, <2>1, <2>2 DEF TypeOK, LoadInv
  <2>4. PlaceOK' /\ InfoOK'  BY <1>0, <2>1, <2>2 DEF PlaceOK, InfoOK
  <2> QED BY <2>2, <2>3, <2>4 DEF BootInv
<1> QED BY <1>1, <1>2, <1>3, <1>4, <1>5, <1>6, <1>7, <1>8, <1>10, <1>11, <1>12, <1>13, <1>14, <1>15
        DEF Next, Main

\* All of it together is inductive.
THEOREM BootInvariant == Spec => []BootInv
<1>1. Init => BootInv  BY InitBoot
<1>2. BootInv /\ [Next]_vars => BootInv'  BY NextKeeps
<1> QED BY <1>1, <1>2, PTL DEF Spec

----------------------------------------------------------------------------
(* What follows.                                                           *)

\* Types: no import entry, dependency or return value is out of range, whatever
\* the files import and the firmware reports.
THEOREM BootTypeCorrect == Spec => []TypeOK
<1>1. BootInv => TypeOK  BY DEF BootInv
<1> QED BY <1>1, BootInvariant, PTL

\* Whatever the nested calls add to the tree, Root->Dependencies[NDependencies
\* - 1] is the own node of each activation of LoadBinary when it looks there.
THEOREM BootOwnIsLast == Spec => []OwnIsLast
<1>1. BootInv => OwnIsLast
  <2> SUFFICES ASSUME BootInv, NEW f \in Range(stack), f.ph # "open"
               PROVE  OwnNode(f) = f.this /\ names[f.this] = f.file
    BY DEF OwnIsLast
  <2>1. stack \in Seq(Frame)  BY DEF BootInv, LoadInv, LoaderTypeOK
  <2>2. DOMAIN stack = 1 .. Len(stack)  BY <2>1
  <2>3. PICK j \in 1 .. Len(stack) : f = stack[j]  BY <2>2 DEF Range
  <2>4. FrameOK(f)  BY <2>3 DEF BootInv, LoadInv, Chained
  <2> QED BY <2>4 DEF FrameOK, OwnNode
<1> QED BY <1>1, BootInvariant, PTL

\* Every import entry that was bound points into an image of the library it
\* names, which is complete or still being loaded unless loading failed.
THEOREM BootBoundRight == Spec => []BoundRight
<1>1. BootInv => BoundRight
  <2> SUFFICES ASSUME BootInv, NEW n \in 1 .. Len(names), NEW i \in DOMAIN iat[n]
               PROVE  /\ names[iat[n][i]] = imports[names[n]][i]
                      /\ ret # NULL => iat[n][i] \in done \cup {f.this : f \in Range(stack)}
    BY DEF BoundRight
  <2>0. LoadInv  BY DEF BootInv
  <2>1. n \in Nodes  BY <2>0, LoadedNode DEF LoadInv
  <2>2. iat[n] \in Seq(Nodes)  BY <2>0, <2>1 DEF LoadInv, LoaderTypeOK
  <2>3. i \in 1 .. Len(iat[n])  BY <2>2
  <2>4. iat[n][i] \in 1 .. Len(names) /\ names[iat[n][i]] = imports[names[n]][i]
    BY <2>0, <2>3 DEF LoadInv, NodesOK
  <2>5. Held \subseteq {f.this : f \in Range(stack)}
    <3>1. stack \in Seq(Frame)  BY <2>0 DEF LoadInv, LoaderTypeOK
    <3>2. DOMAIN stack = 1 .. Len(stack)  BY <3>1
    <3>3. \A j \in 1 .. Len(stack) : stack[j] \in Range(stack)  BY <3>2 DEF Range
    <3> QED BY <3>3 DEF Held
  <2>6. ret # NULL => 1 .. Len(names) \subseteq done \cup Held  BY <2>0 DEF LoadInv, ReturnOK
  <2> QED BY <2>4, <2>5, <2>6
<1> QED BY <1>1, BootInvariant, PTL

\* If LoadExecutable returns an image, every image that was loaded on the way
\* has all its imports bound, those of an import cycle too.
THEOREM BootImageComplete == Spec => []ImageComplete
<1>1. BootInv => ImageComplete
  <2> SUFFICES ASSUME BootInv, Loaded, ret # NULL, NEW n \in 1 .. Len(names)
               PROVE  n \in done /\ Len(iat[n]) = Len(imports[names[n]])
    BY DEF ImageComplete
  <2>1. Held = {}
    <3>1. 1 .. Len(stack) = {}  BY DEF Loaded
    <3> QED BY <3>1 DEF Held
  <2>2. n \in done  BY <2>1 DEF BootInv, LoadInv, ReturnOK
  <2> QED BY <2>2 DEF BootInv, LoadInv, NodesOK
<1> QED BY <1>1, BootInvariant, PTL

\* A library is loaded twice only if its first image is out of the sight of the
\* search: never below the grandparent of the second.
THEOREM BootTwinsApart == Spec => []TwinsApart
<1>1. BootInv => TwinsApart  BY DEF BootInv, LoadInv
<1> QED BY <1>1, BootInvariant, PTL

\* Outside the loader no file socket is open, and the disk is closed when the
\* kernel starts.
THEOREM BootNoSocketLeft == Spec => []NoSocketLeft
<1>1. BootInv => NoSocketLeft
  <2> SUFFICES ASSUME BootInv PROVE NoSocketLeft  OBVIOUS
  <2>1. at \notin {"loading", "fault"} => sockets = {}
    <3> SUFFICES ASSUME at \notin {"loading", "fault"} PROVE sockets = {}  OBVIOUS
    <3>1. stack = <<>>  BY DEF BootInv, PlaceOK
    <3>2. 1 .. Len(stack) = {}  BY <3>1
    <3> QED BY <3>2 DEF BootInv, LoadInv, Held
  <2>2. at = "kernel" => ~disk  BY DEF BootInv, PlaceOK
  <2> QED BY <2>1, <2>2 DEF NoSocketLeft
<1> QED BY <1>1, BootInvariant, PTL

\* If ExitBootServices succeeded, the map that is handed over is made of blocks
\* of the firmware's present map and TotalMemorySize is its highest end,
\* whatever the firmware did in between and the sort lost.
THEOREM BootKernelMapCurrent == Spec => []KernelMapCurrent
<1>1. BootInv => KernelMapCurrent
  <2> SUFFICES ASSUME BootInv, at = "kernel", exited, map # <<>>
               PROVE  /\ Range(map) \subseteq Range(fwmap)
                      /\ total = Max({End(fwmap[i]) : i \in DOMAIN fwmap})
    BY DEF KernelMapCurrent
  <2>1. fwmap \in Maps /\ map = Sorted[fwmap] /\ total = Highest(map)
    BY DEF BootInv, InfoOK, Highest
  <2>2. fwmap \in Seq(Block) /\ fwmap # <<>> /\ Keeps(fwmap, map)  BY <2>1, SortedKeeps
  <2>3. Range(map) \subseteq Range(fwmap) /\ Highest(map) = Highest(fwmap)
    BY <2>2, SameHighest
  <2> QED BY <2>1, <2>3 DEF Highest
<1> QED BY <1>1, BootInvariant, PTL
============================================================================
