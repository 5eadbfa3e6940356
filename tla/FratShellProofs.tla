-------------------------- MODULE FratShellProofs --------------------------
(***************************************************************************)
(* Which pointers of the shell can dangle, for any number of disks, items, *)
(* roots, handles and symbols and any sequence of commands.  TypeOK and    *)
(* HandlesLive together are inductive: that the mounted root is live makes *)
(* the root of a new handle live, and that a handle whose address was not  *)
(* copied is live keeps a new handle apart from those the symbols hold.    *)
(***************************************************************************)
EXTENDS FratShell, ScanLemmas

Inv == TypeOK /\ HandlesLive

\* e.disk takes an object that nothing refers to.
LEMMA NewRootFree ==
  ASSUME NEW k, Room(k)
  PROVE  NewRoot \in Roots /\ roots[NewRoot].st = "none"
BY DEF Room, NewRoot

\* A symbol definition extends the table by one entry.
LEMMA DefinedType ==
  ASSUME TypeOK, NEW t \in SymTypes, NEW a \in Aliases \cup {REALDISK},
         NEW ref \in Handles \cup {None}, NEW live \in BOOLEAN, Defined(t, a, ref, live)
  PROVE  /\ syms' \in Seq(Symbol) /\ table' = TRUE /\ toggle' \in SymTypes
         /\ Len(syms') = Len(syms) + 1 /\ Len(syms) \in Nat
         /\ \A i \in 1 .. Len(syms) : syms'[i] = syms[i]
         /\ syms'[Len(syms) + 1].type = t /\ syms'[Len(syms) + 1].ref = ref
         /\ t = "string" => syms'[Len(syms) + 1].live
<1> DEFINE e == [alias |-> a, type |-> t, ref |-> ref, live |-> live \/ t = "string"]
<1>1. e \in Symbol  BY DEF Symbol
<1>2. e.type = t /\ e.ref = ref /\ (t = "string" => e.live)  OBVIOUS
<1>3. syms' = Append(syms, e) /\ table' = TRUE /\ toggle' = "string"  BY DEF Defined
<1>4. syms \in Seq(Symbol)  BY DEF TypeOK
<1> HIDE DEF e
<1>5. Append(syms, e) \in Seq(Symbol)  BY <1>1, <1>4
<1>6. /\ Len(Append(syms, e)) = Len(syms) + 1 /\ Len(syms) \in Nat
      /\ \A i \in 1 .. Len(syms) : Append(syms, e)[i] = syms[i]
      /\ Append(syms, e)[Len(syms) + 1] = e
  BY <1>4
<1> QED BY <1>2, <1>3, <1>5, <1>6 DEF SymTypes

\* The process is gone and with it every object.
LEMMA LoseInv ==
  ASSUME Inv, Lose, disk' \in [Disks -> SUBSET Items],
         formatted' = formatted, committed' = committed
  PROVE  Inv'
<1>1. NoRoot \in [st : {"none", "live", "freed"}, disk : Disks, cache : SUBSET Items]
  <2>1. (CHOOSE k \in Disks : TRUE) \in Disks  BY ShellAssumption
  <2> QED BY <2>1 DEF NoRoot
<1>2. NoHandle \in [st : {"none", "live", "freed"}, root : Roots \cup {None}]  BY DEF NoHandle
<1>3. TypeOK'
  <2>1. roots' \in [Roots -> [st : {"none", "live", "freed"}, disk : Disks, cache : SUBSET Items]]
    BY <1>1 DEF Lose
  <2>2. handles' \in [Handles -> [st : {"none", "live", "freed"}, root : Roots \cup {None}]]
    BY <1>2 DEF Lose
  <2>6. \A h \in Handles : handles'[h].st = "none"  BY DEF Lose, NoHandle
  <2>3. /\ mount' \in Roots \cup {None} /\ toggle' \in SymTypes
        /\ table' \in BOOLEAN /\ syms' = <<>> /\ copied' \in SUBSET Handles
    BY DEF Lose, SymTypes
  <2>4. syms' \in Seq(Symbol)  BY <2>3
  <2>5. formatted' \in SUBSET Disks /\ committed' \in SUBSET (Disks \X Items)
    BY DEF Inv, TypeOK
  <2> QED BY <2>1, <2>2, <2>3, <2>4, <2>5, <2>6 DEF TypeOK
<1>4. HandlesLive'
  <2>1. syms' = <<>> /\ mount' = None  BY DEF Lose
  <2> QED BY <2>1 DEF HandlesLive
<1> QED BY <1>3, <1>4 DEF Inv

\* What HandlesLive says of symbol i of a table ss.
SymbolOK(ss, hs, rs, cs, i) ==
    /\ ss[i].type = "fhandle" => ss[i].ref # None
    /\ ss[i].type = "string" => ss[i].live /\ ss[i].ref = None
    /\ ss[i].ref # None => hs[ss[i].ref].st # "none" /\ rs[hs[ss[i].ref].root].st = "live"
    /\ ss[i].ref \notin cs \cup {None} =>
          /\ ss[i].type = "fhandle"
          /\ hs[ss[i].ref].st = "live"
          /\ \A j \in DOMAIN ss : ss[j].ref = ss[i].ref => j = i

LEMMA SymbolsOK ==
  /\ HandlesLive <=> /\ mount # None => roots[mount].st = "live"
                     /\ \A i \in DOMAIN syms : SymbolOK(syms, handles, roots, copied, i)
  /\ HandlesLive' <=> /\ mount' # None => roots'[mount'].st = "live"
                      /\ \A i \in DOMAIN syms' : SymbolOK(syms', handles', roots', copied', i)
BY DEF HandlesLive, SymbolOK

\* The handle a symbol holds was allocated for a live root.
LEMMA HeldHandle ==
  ASSUME Inv, NEW i \in DOMAIN syms, syms[i].ref # None
  PROVE  /\ syms[i].ref \in Handles /\ handles[syms[i].ref].st \in {"live", "freed"}
         /\ handles[syms[i].ref].root \in Roots
         /\ roots[handles[syms[i].ref].root].st = "live"
<1>1. syms[i] \in Symbol  BY DEF Inv, TypeOK
<1>2. syms[i].ref \in Handles  BY <1>1 DEF Symbol
<1>3. handles[syms[i].ref].st # "none" /\ roots[handles[syms[i].ref].root].st = "live"
  BY DEF Inv, HandlesLive
<1> QED BY <1>2, <1>3 DEF Inv, TypeOK

\* A root that was live stays live, and no handle changes, under a step that
\* only appends a symbol: its handle, if there is one, is held by another
\* symbol and counts as copied.
LEMMA AppendInv ==
  ASSUME Inv, NEW t \in SymTypes \ {"fhandle"}, NEW a \in Aliases \cup {REALDISK},
         NEW ref \in Handles \cup {None}, NEW live \in BOOLEAN, Defined(t, a, ref, live),
         t = "string" => ref = None,
         ref # None => \E j \in DOMAIN syms : syms[j].ref = ref,
         copied' = copied \cup ({ref} \ {None}),
         handles' = handles, mount' # None => roots'[mount'].st = "live",
         \A r \in Roots : roots[r].st = "live" => roots'[r].st = "live"
  PROVE  HandlesLive'
<1> USE DEF Inv
<1>1. t \in SymTypes /\ TypeOK  OBVIOUS
<1>2. /\ Len(syms') = Len(syms) + 1 /\ Len(syms) \in Nat
      /\ \A i \in 1 .. Len(syms) : syms'[i] = syms[i]
      /\ syms'[Len(syms) + 1].type = t /\ syms'[Len(syms) + 1].ref = ref
      /\ t = "string" => syms'[Len(syms) + 1].live
      /\ syms' \in Seq(Symbol)
  BY ZenonT(40), <1>1, DefinedType
<1>3. DOMAIN syms' = 1 .. (Len(syms) + 1) /\ DOMAIN syms = 1 .. Len(syms)
  BY <1>2 DEF TypeOK
<1>4. \A i \in DOMAIN syms : SymbolOK(syms, handles, roots, copied, i)  BY SymbolsOK
<1>5. ASSUME NEW i \in DOMAIN syms' PROVE SymbolOK(syms', handles', roots', copied', i)
  <2>1. CASE i = Len(syms) + 1
    <3>1. syms'[i].type = t /\ syms'[i].ref = ref /\ (t = "string" => syms'[i].live)
      BY <2>1, <1>2
    <3>2. ref # None => handles'[ref].st # "none" /\ roots'[handles'[ref].root].st = "live"
      <4> SUFFICES ASSUME ref # None
                   PROVE  handles[ref].st # "none" /\ roots'[handles[ref].root].st = "live"
        OBVIOUS
      <4>1. PICK j \in DOMAIN syms : syms[j].ref = ref  OBVIOUS
      <4> QED BY <4>1, HeldHandle
    <3>3. ref \in copied' \cup {None}  OBVIOUS
    <3> QED BY <3>1, <3>2, <3>3 DEF SymbolOK
  <2>2. CASE i \in 1 .. Len(syms)
    <3>1. syms'[i] = syms[i] /\ i \in DOMAIN syms  BY <2>2, <1>2, <1>3
    <3>2. syms[i].ref # None => roots'[handles[syms[i].ref].root].st = "live"
      BY <3>1, HeldHandle
    <3>3. ASSUME syms[i].ref \notin copied' \cup {None}, NEW j \in DOMAIN syms',
                 syms'[j].ref = syms[i].ref
          PROVE  j = i
      <4>1. syms[i].ref # ref  BY <3>3
      <4>2. j # Len(syms) + 1  BY <4>1, <3>3, <1>2
      <4>3. j \in DOMAIN syms /\ syms[j].ref = syms[i].ref  BY <4>2, <3>3, <1>2, <1>3
      <4> QED BY <4>3, <3>1, <3>3, <1>4 DEF SymbolOK
    <3>4. SymbolOK(syms, handles, roots, copied, i)  BY <3>1, <1>4
    <3> QED BY <3>1, <3>2, <3>3, <3>4 DEF SymbolOK
  <2> QED BY <2>1, <2>2, <1>3, <1>2
<1> QED BY <1>5, SymbolsOK

\* A step that neither frees a root nor touches handles and symbols keeps what
\* the symbols need.
LEMMA RootsKept ==
  ASSUME Inv, mount' = mount, handles' = handles, syms' = syms, copied' = copied,
         \A r \in Roots : roots'[r].st = roots[r].st
  PROVE  HandlesLive'
<1> USE DEF Inv
<1>1. mount' # None => roots'[mount'].st = "live"  BY DEF TypeOK, HandlesLive
<1>2. ASSUME NEW i \in DOMAIN syms PROVE SymbolOK(syms, handles, roots', copied, i)
  <2>1. SymbolOK(syms, handles, roots, copied, i)  BY SymbolsOK
  <2>2. syms[i].ref # None => handles[syms[i].ref].root \in Roots  BY HeldHandle
  <2> QED BY <2>1, <2>2 DEF SymbolOK
<1> QED BY <1>1, <1>2, SymbolsOK

\* open: no symbol holds the new handle unless its address was copied; its root
\* is the mounted one.
LEMMA OpenInv ==
  ASSUME Inv, NEW p \in Items, NEW a \in Aliases, NEW c \in BOOLEAN, NEW h \in Handles,
         shellopen(p, a, c, h)
  PROVE  Inv'
<1> USE DEF Inv
<1>0. syms \in Seq(Symbol) /\ TypeOK  BY DEF TypeOK
<1>1. mount \in Roots /\ roots[mount].st = "live"
  BY DEF shellopen, TypeOK, HandlesLive
<1>2. handles[h].st # "live"  BY DEF shellopen, Allocates
<1>5. /\ roots' \in [Roots -> [st : {"none", "live", "freed"}, disk : Disks, cache : SUBSET Items]]
      /\ \A r \in Roots : roots'[r].st = roots[r].st
  <2>1. CASE c
    <3>1. roots' = [roots EXCEPT ![mount].cache = @ \cup {p}]  BY <2>1 DEF shellopen, Loaded
    <3> QED BY <3>1, <1>1 DEF TypeOK
  <2>2. CASE ~c
    <3>1. roots' = roots  BY <2>2 DEF shellopen, Loaded
    <3> QED BY <3>1 DEF TypeOK
  <2> QED BY <2>1, <2>2
<1>3. CASE p \notin Loaded(p, c)[mount].cache
  <2>1. toggle' = "fhandle"
        /\ UNCHANGED <<handles, syms, table, mount, disk, formatted, committed, copied>>
    BY <1>3 DEF shellopen
  <2>2. TypeOK'  BY <2>1, <1>5 DEF TypeOK, SymTypes
  <2>3. HandlesLive'  BY <2>1, <1>5, RootsKept
  <2> QED BY <2>2, <2>3
<1>4. CASE p \in Loaded(p, c)[mount].cache
  <2>1. /\ handles' = [handles EXCEPT ![h] = [st |-> "live", root |-> mount]]
        /\ Defined("fhandle", a, h, TRUE)
        /\ UNCHANGED <<mount, disk, formatted, committed, copied>>
    BY <1>4 DEF shellopen
  <2>3. /\ "fhandle" \in SymTypes /\ a \in Aliases \cup {REALDISK}
        /\ h \in Handles \cup {None} /\ TRUE \in BOOLEAN /\ h # None
    BY DEF SymTypes, Handles, None
  <2>4. /\ syms' \in Seq(Symbol) /\ table' = TRUE /\ toggle' \in SymTypes
        /\ Len(syms') = Len(syms) + 1 /\ Len(syms) \in Nat
        /\ \A i \in 1 .. Len(syms) : syms'[i] = syms[i]
        /\ syms'[Len(syms) + 1].type = "fhandle" /\ syms'[Len(syms) + 1].ref = h
    BY <2>1, <2>3, <1>0, DefinedType
  <2>5. TypeOK'
    <3>1. handles' \in [Handles -> [st : {"none", "live", "freed"}, root : Roots \cup {None}]]
      BY <2>1, <1>1 DEF TypeOK
    <3>2. \A x \in Handles : handles'[x].st # "none" => handles'[x].root # None
      <4>1. mount # None  BY <1>1 DEF Roots, None
      <4> QED BY <4>1, <2>1 DEF TypeOK
    <3> QED BY <3>1, <3>2, <1>5, <2>1, <2>4 DEF TypeOK
  <2>6. DOMAIN syms' = 1 .. (Len(syms) + 1) /\ DOMAIN syms = 1 .. Len(syms)  BY <2>4, <1>0
  <2>7. \A i \in DOMAIN syms : SymbolOK(syms, handles, roots, copied, i)  BY SymbolsOK
  <2>8. \A x \in Handles : x # h => handles'[x] = handles[x]  BY <2>1 DEF TypeOK
  <2>9. handles'[h].st = "live" /\ handles'[h].root = mount  BY <2>1 DEF TypeOK
  <2>10. \A i \in DOMAIN syms : syms[i].ref = h => h \in copied
    BY <2>3, <2>7, <1>2 DEF SymbolOK
  <2>11. ASSUME NEW i \in DOMAIN syms' PROVE SymbolOK(syms', handles', roots', copied', i)
    <3>1. CASE i = Len(syms) + 1
      <4>1. syms'[i].type = "fhandle" /\ syms'[i].ref = h  BY <3>1, <2>4
      <4>2. h \notin copied => \A j \in DOMAIN syms' : syms'[j].ref = h => j = i
        <5> SUFFICES ASSUME h \notin copied, NEW j \in DOMAIN syms', syms'[j].ref = h, j # i
                     PROVE  FALSE
          OBVIOUS
        <5>1. j \in DOMAIN syms /\ syms'[j] = syms[j]  BY <2>4, <2>6, <3>1
        <5> QED BY <5>1, <2>10
      <4>3. roots'[mount].st = "live"  BY <1>1, <1>5
      <4>4. copied' = copied /\ "fhandle" # "string"  BY <2>1
      <4> QED BY <4>1, <4>2, <4>3, <4>4, <2>9, <2>3 DEF SymbolOK
    <3>2. CASE i \in 1 .. Len(syms)
      <4>1. syms'[i] = syms[i] /\ i \in DOMAIN syms  BY <3>2, <2>4, <2>6
      <4>2. SymbolOK(syms, handles, roots, copied, i) /\ copied' = copied  BY <4>1, <2>7, <2>1
      <4>3. CASE syms[i].ref = h
        <5>1. h \in copied /\ roots'[mount].st = "live"  BY <4>1, <4>3, <2>10, <1>1, <1>5
        <5> QED BY <5>1, <4>1, <4>2, <4>3, <2>9 DEF SymbolOK
      <4>4. CASE syms[i].ref # h
        <5>1. syms[i].ref # None =>
                 /\ handles'[syms[i].ref] = handles[syms[i].ref]
                 /\ roots'[handles[syms[i].ref].root].st = roots[handles[syms[i].ref].root].st
          BY <4>1, <4>4, <2>8, <1>5, HeldHandle
        <5>2. ASSUME syms[i].ref \notin copied \cup {None}, NEW j \in DOMAIN syms',
                     syms'[j].ref = syms[i].ref
              PROVE  j = i
          <6>1. j # Len(syms) + 1  BY <5>2, <2>4, <4>4
          <6>2. j \in DOMAIN syms /\ syms[j].ref = syms[i].ref  BY <6>1, <5>2, <2>4, <2>6
          <6> QED BY <6>2, <5>2, <4>2 DEF SymbolOK
        <5> QED BY <5>1, <5>2, <4>1, <4>2 DEF SymbolOK
      <4> QED BY <4>3, <4>4
    <3> QED BY <3>1, <3>2, <2>6, <2>4
  <2>12. mount' # None => roots'[mount'].st = "live"  BY <2>1, <1>1, <1>5
  <2>13. HandlesLive'  BY <2>11, <2>12, SymbolsOK
  <2> QED BY <2>5, <2>13
<1> QED BY <1>3, <1>4

\* The pointer close takes from the table.
LEMMA CloseArgument ==
  ASSUME TypeOK, NEW a, Resolves(a)
  PROVE  \E n \in DOMAIN syms : resolvedata(a) = syms[n]
<1>1. syms \in Seq(Symbol) /\ DOMAIN syms = 1 .. Len(syms)  BY DEF TypeOK
<1>2. Named(a) \in SUBSET Nat /\ Named(a) # {}  BY <1>1 DEF Resolves, Named
<1>3. Min(Named(a)) \in Named(a)  BY <1>2, MinIsLeast
<1>4. Min(Named(a)) \in DOMAIN syms  BY <1>3 DEF Named
<1> QED BY <1>4 DEF resolvedata

\* A flush of a root leaves sets of items on the disks.
LEMMA FlushType ==
  ASSUME TypeOK, NEW r \in Roots
  PROVE  fuloadroot(disk, r) \in [Disks -> SUBSET Items]
<1>1. roots[r].disk \in Disks /\ roots[r].cache \in SUBSET Items  BY DEF TypeOK
<1> QED BY <1>1 DEF fuloadroot, TypeOK

\* close: the symbol taken out is the only one that holds the freed handle,
\* unless the address was copied.
LEMMA CloseInv ==
  ASSUME Inv, NEW a \in Aliases, shellclose(a)
  PROVE  Inv'
<1> USE DEF Inv
<1>0. syms \in Seq(Symbol) /\ Len(syms) \in Nat /\ DOMAIN syms = 1 .. Len(syms)
  BY DEF TypeOK
<1>1. PICK m \in DOMAIN syms : resolvedata(a) = syms[m]  BY CloseArgument DEF shellclose
<1> DEFINE h == syms[m].ref
           I == {j \in DOMAIN syms : syms[j].ref = h}
           n == Min(I)
<1>2. /\ disk' = fuloadroot(disk, handles[h].root) /\ h # None /\ handles[h].st = "live"
      /\ handles' = [handles EXCEPT ![h].st = "freed"]
      /\ syms' = Without(syms, h)
      /\ copied' = IF \E i \in DOMAIN syms' : syms'[i].ref = h
                   THEN copied ELSE copied \ {h}
      /\ UNCHANGED <<mount, roots, table, toggle, formatted, committed>>
      /\ table
  BY <1>1 DEF shellclose
<1>3. /\ h \in Handles /\ handles[h].root \in Roots /\ roots[handles[h].root].st = "live"
  BY <1>1, <1>2, HeldHandle
<1>4. \A i \in DOMAIN syms : SymbolOK(syms, handles, roots, copied, i)  BY SymbolsOK
<1>5. I \in SUBSET Nat /\ m \in I  BY <1>0, <1>1
<1>6. n \in I
  <2> HIDE DEF I
  <2> QED BY <1>5, MinIsLeast
<1>7. /\ syms' = [k \in 1 .. Len(syms) - 1 |-> IF k < n THEN syms[k] ELSE syms[k + 1]]
      /\ n \in 1 .. Len(syms) /\ syms[n].ref = h
  BY <1>0, <1>2, <1>6 DEF Without
<1> HIDE DEF n, h, I
<1>8. syms' \in Seq(Symbol) /\ DOMAIN syms' = 1 .. Len(syms) - 1
  <2>1. Len(syms) - 1 \in Nat  BY <1>0, <1>7
  <2>2. \A k \in 1 .. Len(syms) - 1 : k \in 1 .. Len(syms) /\ k + 1 \in 1 .. Len(syms)  BY <1>0
  <2>3. \A k \in 1 .. Len(syms) : syms[k] \in Symbol  BY <1>0
  <2>4. \A k \in 1 .. Len(syms) - 1 : (IF k < n THEN syms[k] ELSE syms[k + 1]) \in Symbol
    BY <2>2, <2>3
  <2>5. syms' \in [1 .. Len(syms) - 1 -> Symbol]  BY <1>7, <2>4
  <2> QED BY <2>1, <2>5
<1>9. \A k \in DOMAIN syms' : \E j \in DOMAIN syms :
         /\ syms'[k] = syms[j] /\ j # n /\ j = (IF k < n THEN k ELSE k + 1)
  BY <1>0, <1>7, <1>8
<1>10. \A x \in Handles : x # h => handles'[x] = handles[x]  BY <1>2 DEF TypeOK
<1>11. handles'[h].st = "freed" /\ handles'[h].root = handles[h].root
  BY <1>2, <1>3 DEF TypeOK
<1>12. TypeOK'
  <2>1. handles' \in [Handles -> [st : {"none", "live", "freed"}, root : Roots \cup {None}]]
    BY <1>2, <1>3 DEF TypeOK
  <2>2. disk' \in [Disks -> SUBSET Items]  BY <1>2, <1>3, FlushType
  <2>3. \A x \in Handles : handles'[x].st # "none" => handles'[x].root # None
    BY <1>2, <1>3 DEF TypeOK
  <2>4. copied' \in SUBSET Handles  BY <1>2 DEF TypeOK
  <2> QED BY <2>1, <2>2, <2>3, <2>4, <1>2, <1>8 DEF TypeOK
<1>13. ASSUME NEW k \in DOMAIN syms' PROVE SymbolOK(syms', handles', roots', copied', k)
  <2>1. PICK j \in DOMAIN syms : syms'[k] = syms[j] /\ j # n /\ j = (IF k < n THEN k ELSE k + 1)
    BY <1>9
  <2>2. SymbolOK(syms, handles, roots, copied, j)  BY <2>1, <1>4
  <2>3. CASE syms[j].ref = h
    <3>1. h \in copied
      <4>1. h \notin copied => n = j  BY <2>2, <2>3, <1>0, <1>2, <1>7 DEF SymbolOK
      <4> QED BY <4>1, <2>1
    <3>2. h \in copied'  BY <3>1, <2>1, <2>3, <1>2
    <3> QED BY <3>2, <2>1, <2>2, <2>3, <1>2, <1>11 DEF SymbolOK
  <2>4. CASE syms[j].ref # h
    <3>1. syms[j].ref # None => handles'[syms[j].ref] = handles[syms[j].ref]
      BY <2>1, <2>4, <1>10, HeldHandle
    <3>2. syms[j].ref \notin copied' => syms[j].ref \notin copied  BY <2>4, <1>2
    <3>3. ASSUME syms[j].ref \notin copied \cup {None}, NEW l \in DOMAIN syms',
                 syms'[l].ref = syms[j].ref
          PROVE  l = k
      <4>1. PICK q \in DOMAIN syms : syms'[l] = syms[q] /\ q # n /\ q = (IF l < n THEN l ELSE l + 1)
        BY <1>9
      <4>2. q = j  BY <4>1, <3>3, <2>2 DEF SymbolOK
      <4> QED BY <4>1, <4>2, <2>1, <1>0, <1>7, <1>8
    <3> QED BY <3>1, <3>2, <3>3, <2>1, <2>2, <1>2 DEF SymbolOK
  <2> QED BY <2>3, <2>4
<1>14. mount' # None => roots'[mount'].st = "live"  BY <1>2 DEF HandlesLive
<1>15. HandlesLive'  BY <1>13, <1>14, SymbolsOK
<1> QED BY <1>12, <1>15

\* What the closings of exit leave on a disk is what was there, or the cache of
\* a live root of the disk.
LEMMA ClosedBy ==
  ASSUME Inv, NEW k \in Disks, NEW n \in 0 .. Len(syms)
  PROVE  \/ Closed(k, n) = disk[k]
         \/ \E r \in Roots : /\ roots[r].st = "live" /\ roots[r].disk = k
                             /\ Closed(k, n) = roots[r].cache
<1> USE DEF Inv
<1>0. syms \in Seq(Symbol) /\ Len(syms) \in Nat /\ DOMAIN syms = 1 .. Len(syms)
  BY DEF TypeOK
<1>2. CASE Closing(k, n) = {}  BY <1>2 DEF Closed
<1>3. CASE Closing(k, n) # {}
  <2> DEFINE i == Max(Closing(k, n))
             r == handles[syms[i].ref].root
  <2>1. Closing(k, n) \in SUBSET (0 .. n) /\ n \in Nat  BY <1>0 DEF Closing
  <2>2. i \in Closing(k, n)  BY <1>3, <2>1, MaxIsGreatest
  <2>9. \A j \in Closing(k, n) : /\ j \in DOMAIN syms /\ syms[j].type = "fhandle"
                                 /\ roots[handles[syms[j].ref].root].disk = k
    BY <1>0 DEF Closing
  <2>3. i \in DOMAIN syms /\ syms[i].type = "fhandle" /\ roots[r].disk = k  BY <2>2, <2>9
  <2>4. Closed(k, n) = roots[r].cache  BY <1>3 DEF Closed
  <2> HIDE DEF i
  <2>5. syms[i].ref # None  BY <2>3 DEF HandlesLive
  <2>6. r \in Roots /\ roots[r].st = "live"  BY <2>3, <2>5, HeldHandle
  <2> HIDE DEF r
  <2> QED BY <2>3, <2>4, <2>6
<1> QED BY <1>2, <1>3

\* exit leaves sets of items on the disks.
LEMMA ClosedType ==
  ASSUME Inv, NEW k \in Disks, NEW n \in 0 .. Len(syms)
  PROVE  Closed(k, n) \in SUBSET Items
<1>1. disk[k] \in SUBSET Items /\ \A r \in Roots : roots[r].cache \in SUBSET Items
  BY DEF Inv, TypeOK
<1> QED BY <1>1, ClosedBy

\* Both ways exit can end write an initial part of the closings.
LEMMA ExitWrites ==
  ASSUME Inv, shellexit \/ shellexitFault
  PROVE  \E n \in 0 .. Len(syms) :
            \/ disk' = [k \in Disks |-> Closed(k, n)]
            \/ disk' = [k \in Disks |-> IF mount # None /\ roots[mount].disk = k
                                        THEN roots[mount].cache ELSE Closed(k, n)]
<1>1. Len(syms) \in Nat /\ DOMAIN syms = 1 .. Len(syms)  BY DEF Inv, TypeOK
<1>2. CASE shellexit  BY <1>1, <1>2 DEF shellexit
<1>3. CASE shellexitFault
  <2>1. Freed \in SUBSET Nat /\ Freed # {}  BY <1>1, <1>3 DEF shellexitFault, Freed
  <2>2. Min(Freed) \in Freed  BY <2>1, MinIsLeast
  <2>3. Min(Freed) \in 1 .. Len(syms)  BY <2>2, <1>1 DEF Freed
  <2>4. Min(Freed) - 1 \in 0 .. Len(syms) /\ Min(Freed) \in 0 .. Len(syms)  BY <2>3, <1>1
  <2> QED BY <2>4, <1>3 DEF shellexitFault
<1> QED BY <1>2, <1>3

LEMMA ExitType ==
  ASSUME Inv, shellexit \/ shellexitFault
  PROVE  disk' \in [Disks -> SUBSET Items]
<1>1. PICK n \in 0 .. Len(syms) :
            \/ disk' = [k \in Disks |-> Closed(k, n)]
            \/ disk' = [k \in Disks |-> IF mount # None /\ roots[mount].disk = k
                                        THEN roots[mount].cache ELSE Closed(k, n)]
  BY ExitWrites
<1>2. \A k \in Disks : Closed(k, n) \in SUBSET Items  BY ClosedType
<1>3. mount # None => roots[mount].cache \in SUBSET Items  BY DEF Inv, TypeOK
<1> QED BY <1>1, <1>2, <1>3

\* e.disk mounts a new root: every root that was live stays live.
LEMMA MountInv ==
  ASSUME Inv, NEW k \in Disks, NEW m \in SUBSET Items, Room(k),
         mount' = NewRoot, roots' = Mounted(k, m),
         Defined("string", REALDISK, None, TRUE),
         handles' = handles, disk' \in [Disks -> SUBSET Items],
         formatted' \in SUBSET Disks, committed' = committed, copied' = copied
  PROVE  Inv'
<1> USE DEF Inv
<1>1. NewRoot \in Roots /\ roots[NewRoot].st = "none"  BY NewRootFree
<1> DEFINE r == NewRoot
           e == [st |-> "live", disk |-> k, cache |-> m]
<1>2. roots' = [roots EXCEPT ![r] = e] /\ mount' = r  BY DEF Mounted
<1>3. e \in [st : {"none", "live", "freed"}, disk : Disks, cache : SUBSET Items] /\ e.st = "live"
  OBVIOUS
<1>4. r \in Roots /\ roots[r].st = "none"  BY <1>1
<1> HIDE DEF r, e
<1>5. roots' \in [Roots -> [st : {"none", "live", "freed"}, disk : Disks, cache : SUBSET Items]]
  BY <1>2, <1>3, <1>4 DEF TypeOK
<1>6. roots'[mount'].st = "live"  BY <1>2, <1>3, <1>4 DEF TypeOK
<1>7. \A x \in Roots : roots[x].st = "live" => roots'[x].st = "live"
  BY <1>2, <1>3, <1>4 DEF TypeOK
<1>8. "string" \in SymTypes \ {"fhandle"} /\ "string" \in SymTypes /\ TRUE \in BOOLEAN
      /\ REALDISK \in Aliases \cup {REALDISK} /\ None \in Handles \cup {None} /\ TypeOK
  BY DEF SymTypes
<1>9. syms' \in Seq(Symbol) /\ table' = TRUE /\ toggle' \in SymTypes  BY <1>8, DefinedType
<1>10. TypeOK'  BY <1>2, <1>4, <1>5, <1>9 DEF TypeOK
<1>11. HandlesLive'  BY <1>6, <1>7, <1>8, AppendInv
<1> QED BY <1>10, <1>11

----------------------------------------------------------------------------
\* The initial state has no objects.
LEMMA InitInv == Init => Inv
<1> SUFFICES ASSUME Init PROVE Inv  OBVIOUS
<1>1. NoRoot \in [st : {"none", "live", "freed"}, disk : Disks, cache : SUBSET Items]
  <2>1. (CHOOSE k \in Disks : TRUE) \in Disks  BY ShellAssumption
  <2> QED BY <2>1 DEF NoRoot
<1>2. NoHandle \in [st : {"none", "live", "freed"}, root : Roots \cup {None}] /\ NoHandle.st = "none"
  BY DEF NoHandle
<1>3. syms = <<>> /\ syms \in Seq(Symbol) /\ mount = None  BY DEF Init
<1>4. TypeOK  BY <1>1, <1>2, <1>3 DEF Init, TypeOK, SymTypes
<1>5. HandlesLive  BY <1>3 DEF HandlesLive
<1> QED BY <1>4, <1>5 DEF Inv

\* Every command, and the death of the process, keeps TypeOK and HandlesLive.
THEOREM ShellInductive == Inv /\ [Next]_vars => Inv'
<1> SUFFICES ASSUME Inv, [Next]_vars PROVE Inv'  OBVIOUS
<1> USE DEF Inv
<1>0. TypeOK /\ disk \in [Disks -> SUBSET Items] /\ formatted \in SUBSET Disks
  BY DEF TypeOK
<1>1. CASE UNCHANGED vars  BY <1>1 DEF vars, TypeOK, HandlesLive
<1>2. ASSUME NEW a \in Aliases, NEW src, shellsym(a, src) PROVE Inv'
  <2> DEFINE ref == Data(src).ref
             live == Data(src).live
  <2>1. /\ Defined("unknowndata", a, ref, live)
        /\ copied' = copied \cup ({ref} \ {None})
        /\ UNCHANGED <<mount, roots, handles, disk, formatted, committed>>
    BY <1>2 DEF shellsym
  <2>2. "unknowndata" \in SymTypes \ {"fhandle"} /\ "unknowndata" \in SymTypes
        /\ a \in Aliases \cup {REALDISK} /\ "unknowndata" # "string"
    BY DEF SymTypes
  <2>7. /\ ref \in Handles \cup {None} /\ live \in BOOLEAN
        /\ ref # None => \E j \in DOMAIN syms : syms[j].ref = ref
    <3>1. CASE Resolves(src)
      <4>1. PICK n \in DOMAIN syms : resolvedata(src) = syms[n]  BY <3>1, CloseArgument
      <4>2. syms[n] \in Symbol /\ Data(src) = syms[n]  BY <4>1, <3>1 DEF TypeOK, Data
      <4> QED BY <4>2 DEF Symbol
    <3>2. CASE ~Resolves(src)  BY <3>2 DEF Data
    <3> QED BY <3>1, <3>2
  <2> HIDE DEF ref, live
  <2>3. syms' \in Seq(Symbol) /\ table' = TRUE /\ toggle' \in SymTypes
    BY <1>0, <2>1, <2>2, <2>7, DefinedType
  <2>8. copied' \in SUBSET Handles  BY <2>1, <2>7 DEF TypeOK
  <2>4. TypeOK'  BY <2>1, <2>3, <2>8 DEF TypeOK
  <2>5. (mount' # None => roots'[mount'].st = "live")
        /\ \A r \in Roots : roots[r].st = "live" => roots'[r].st = "live"
    BY <2>1 DEF HandlesLive
  <2>6. HandlesLive'  BY <2>1, <2>2, <2>5, <2>7, AppendInv
  <2> QED BY <2>4, <2>6
<1>3. CASE shellsymRefused
  <2>1. /\ toggle' = "unknowndata"
        /\ UNCHANGED <<mount, roots, handles, syms, table, disk, formatted, committed, copied>>
    BY <1>3 DEF shellsymRefused
  <2> QED BY <2>1 DEF TypeOK, HandlesLive, SymTypes
<1>4. ASSUME NEW a \in Aliases, shellclose(a) PROVE Inv'  BY <1>4, CloseInv
<1>5. ASSUME NEW a \in Aliases, shellcloseFault(a) PROVE Inv'
  BY <1>0, <1>5, LoseInv DEF shellcloseFault
<1>15. ASSUME NEW a \in Aliases, shellcloseAgain(a) PROVE Inv'
  <2>1. disk' \in [Disks -> SUBSET Items]
    <3>1. PICK n \in DOMAIN syms : resolvedata(a) = syms[n]
      BY <1>15, CloseArgument DEF shellcloseAgain
    <3>2. /\ syms[n].ref # None
          /\ disk' \in {disk, fuloadroot(disk, handles[syms[n].ref].root)}
      BY <3>1, <1>15 DEF shellcloseAgain
    <3>3. handles[syms[n].ref].root \in Roots  BY <3>2, HeldHandle
    <3> QED BY <3>2, <3>3, <1>0, FlushType
  <2> QED BY <2>1, <1>15, LoseInv DEF shellcloseAgain
<1>6. ASSUME NEW k \in Disks, shelldisk(k) PROVE Inv'
  <2>1. disk[k] \in SUBSET Items  BY <1>0
  <2> QED BY <2>1, <1>0, <1>6, MountInv DEF shelldisk
<1>7. ASSUME NEW k \in Disks, shelldiskFormat(k) PROVE Inv'
  <2>1. /\ {} \in SUBSET Items
        /\ [disk EXCEPT ![k] = {}] \in [Disks -> SUBSET Items]
        /\ formatted \cup {k} \in SUBSET Disks
    BY <1>0
  <2> QED BY <2>1, <1>7, MountInv DEF shelldiskFormat
<1>8. ASSUME NEW k \in Disks, shelldiskFail(k) PROVE Inv'
  <2>1. mount' = None /\ UNCHANGED <<roots, handles, syms, table, toggle, disk, formatted, committed, copied>>
    BY <1>8 DEF shelldiskFail
  <2> QED BY <2>1 DEF TypeOK, HandlesLive
<1>9. ASSUME NEW p \in Items, shellcreate(p) PROVE Inv'
  <2>1. toggle' = "fhandle" /\ UNCHANGED <<mount, handles, syms, table, formatted, copied>>
    BY <1>9 DEF shellcreate
  <2>2. CASE mount = None
    <3>1. UNCHANGED <<roots, disk, committed>>  BY <1>9, <2>2 DEF shellcreate
    <3> QED BY <3>1, <2>1 DEF TypeOK, HandlesLive, SymTypes
  <2>3. CASE mount # None
    <3>1. /\ roots' = [roots EXCEPT ![mount].cache = @ \cup {p}]
          /\ disk' = [disk EXCEPT ![roots[mount].disk] = roots[mount].cache \cup {p}]
          /\ committed' = committed \cup {<<roots[mount].disk, p>>}
      BY <1>9, <2>3 DEF shellcreate
    <3>2. mount \in Roots  BY <2>3 DEF TypeOK
    <3>3. roots[mount].disk \in Disks /\ roots[mount].cache \cup {p} \in SUBSET Items
      BY <3>2 DEF TypeOK
    <3>4. roots' \in [Roots -> [st : {"none", "live", "freed"}, disk : Disks, cache : SUBSET Items]]
      BY <3>1, <3>2, <3>3 DEF TypeOK
    <3>5. disk' \in [Disks -> SUBSET Items] /\ committed' \in SUBSET (Disks \X Items)
      BY <3>1, <3>3 DEF TypeOK
    <3>6. \A r \in Roots : roots'[r].st = roots[r].st  BY <3>1, <3>2 DEF TypeOK
    <3>7. TypeOK'  BY <2>1, <3>4, <3>5 DEF TypeOK, SymTypes
    <3>8. HandlesLive'  BY <2>1, <3>2, <3>6, RootsKept
    <3> QED BY <3>7, <3>8
  <2> QED BY <2>2, <2>3
<1>10. ASSUME NEW p \in Items, shelldelete(p) PROVE Inv'
  <2>1. UNCHANGED <<disk, formatted>>  BY <1>10 DEF shelldelete
  <2>2. CASE mount = None \/ p \notin roots[mount].cache
    <3>1. Lose /\ committed' = committed  BY <1>10, <2>2 DEF shelldelete
    <3> QED BY <3>1, <2>1, <1>0, LoseInv
  <2>3. CASE ~(mount = None \/ p \notin roots[mount].cache)
    <3>1. /\ roots' = [roots EXCEPT ![mount].cache = @ \ {p}]
          /\ committed' = committed \ {<<roots[mount].disk, p>>}
          /\ UNCHANGED <<mount, handles, syms, table, toggle, copied>>
      BY <1>10, <2>3 DEF shelldelete
    <3>2. mount \in Roots  BY <2>3 DEF TypeOK
    <3>4. roots' \in [Roots -> [st : {"none", "live", "freed"}, disk : Disks, cache : SUBSET Items]]
      BY <3>1, <3>2 DEF TypeOK
    <3>6. \A r \in Roots : roots'[r].st = roots[r].st  BY <3>1, <3>2 DEF TypeOK
    <3>7. TypeOK'  BY <2>1, <3>1, <3>4 DEF TypeOK
    <3>8. HandlesLive'  BY <3>1, <3>2, <3>6, RootsKept
    <3> QED BY <3>7, <3>8
  <2> QED BY <2>2, <2>3
<1>11. ASSUME NEW p \in Items, NEW a \in Aliases, NEW c \in BOOLEAN, NEW h \in Handles,
              shellopen(p, a, c, h)
       PROVE  Inv'
  BY <1>11, OpenInv
<1>12. CASE shellflush
  <2>1. /\ mount' = None /\ syms' = <<>> /\ table' = FALSE /\ copied' = {}
        /\ roots' = IF mount = None THEN roots ELSE [roots EXCEPT ![mount].st = "freed"]
        /\ UNCHANGED <<handles, toggle, disk, formatted, committed>>
    BY <1>12 DEF shellflush
  <2>2. roots' \in [Roots -> [st : {"none", "live", "freed"}, disk : Disks, cache : SUBSET Items]]
    <3>1. CASE mount = None  BY <3>1, <2>1 DEF TypeOK
    <3>2. CASE mount # None
      <4>1. mount \in Roots  BY <3>2 DEF TypeOK
      <4>2. roots' = [roots EXCEPT ![mount].st = "freed"]  BY <2>1, <3>2
      <4> QED BY <4>1, <4>2 DEF TypeOK
    <3> QED BY <3>1, <3>2
  <2>3. syms' \in Seq(Symbol)  BY <2>1
  <2>4. TypeOK'  BY <2>1, <2>2, <2>3 DEF TypeOK
  <2>5. HandlesLive'  BY <2>1 DEF HandlesLive
  <2> QED BY <2>4, <2>5
<1>13. CASE shellexit \/ shellexitFault
  <2>1. Lose /\ UNCHANGED <<formatted, committed>>  BY <1>13 DEF shellexit, shellexitFault
  <2> QED BY <2>1, <1>13, ExitType, LoseInv
<1>14. CASE Crash  BY <1>0, <1>14, LoseInv DEF Crash
<1> QED BY <1>1, <1>2, <1>3, <1>4, <1>5, <1>6, <1>7, <1>8, <1>9, <1>10, <1>11, <1>12, <1>13, <1>14, <1>15
     DEF Next

\* The mounted root never dangles, nor does the root of a handle some symbol
\* holds; a symbol dangles, or shares the handle that close will free, only when
\* e.sym has copied the address of that handle.
THEOREM ShellHandlesLive == Spec => []HandlesLive
<1>1. Init => Inv  BY InitInv
<1>2. Inv /\ [Next]_vars => Inv'  BY ShellInductive
<1>3. Inv => HandlesLive  BY DEF Inv
<1> QED BY <1>1, <1>2, <1>3, PTL DEF Spec

\* The state of the shell keeps its types.
THEOREM ShellTypeCorrect == Spec => []TypeOK
<1>1. Init => Inv  BY InitInv
<1>2. Inv /\ [Next]_vars => Inv'  BY ShellInductive
<1>3. Inv => TypeOK  BY DEF Inv
<1> QED BY <1>1, <1>2, <1>3, PTL DEF Spec

----------------------------------------------------------------------------
(* The session implements the store of FratStore as long as no process has *)
(* two live roots of one disk.  The operators below say what the mapping   *)
(* of FratShell makes of a table of roots.                                 *)

RootTables == [Roots -> [st : {"none", "live", "freed"}, disk : Disks, cache : SUBSET Items]]
LiveOf(rs, k) == {r \in Roots : rs[r].st = "live" /\ rs[r].disk = k}
MountedIn(rs) == {k \in Disks : LiveOf(rs, k) # {}}
ViewIn(rs) == [k \in Disks |-> UNION {rs[r].cache : r \in LiveOf(rs, k)}]
OneEach(rs) == \A q, r \in Roots :
    rs[q].st = "live" /\ rs[r].st = "live" /\ rs[q].disk = rs[r].disk => q = r

\* A committed item is on its disk and in the cache of the root of the disk; a
\* disk without a file system holds nothing and has no root.
StoreInv ==
    /\ OneEach(roots)
    /\ \A k \in Disks \ formatted : disk[k] = {} /\ LiveOf(roots, k) = {}
    /\ CreatedStays
    /\ \A x \in committed : \A r \in LiveOf(roots, x[1]) : x[2] \in roots[r].cache

\* The view of a disk with one live root is the cache of that root.
LEMMA ViewOfRoot ==
  ASSUME NEW rs \in RootTables, OneEach(rs), NEW r \in Roots, rs[r].st = "live"
  PROVE  /\ LiveOf(rs, rs[r].disk) = {r} /\ rs[r].disk \in MountedIn(rs)
         /\ ViewIn(rs)[rs[r].disk] = rs[r].cache
<1> DEFINE k == rs[r].disk
<1>1. k \in Disks  BY DEF RootTables
<1>2. LiveOf(rs, k) = {r}  BY DEF LiveOf, OneEach
<1>3. k \in MountedIn(rs)  BY <1>1, <1>2 DEF MountedIn
<1>4. ViewIn(rs)[k] = UNION {rs[q].cache : q \in LiveOf(rs, k)}  BY <1>1 DEF ViewIn
<1>5. UNION {rs[q].cache : q \in {r}} = rs[r].cache  OBVIOUS
<1> QED BY <1>2, <1>3, <1>4, <1>5

\* A disk without a live root has no view.
LEMMA ViewOfNone ==
  ASSUME NEW rs \in RootTables, NEW k \in Disks, LiveOf(rs, k) = {}
  PROVE  k \notin MountedIn(rs) /\ ViewIn(rs)[k] = {}
BY DEF MountedIn, ViewIn

\* Disks whose live roots keep their caches keep their view.
LEMMA ViewKept ==
  ASSUME NEW rs \in RootTables, NEW rt \in RootTables, NEW k \in Disks,
         LiveOf(rt, k) = LiveOf(rs, k), \A r \in LiveOf(rs, k) : rt[r].cache = rs[r].cache
  PROVE  (k \in MountedIn(rt) <=> k \in MountedIn(rs)) /\ ViewIn(rt)[k] = ViewIn(rs)[k]
<1>1. {rt[r].cache : r \in LiveOf(rt, k)} = {rs[r].cache : r \in LiveOf(rs, k)}  OBVIOUS
<1> QED BY <1>1 DEF MountedIn, ViewIn

\* e.disk: one disk more has a view, that of the new root.
LEMMA RootAdded ==
  ASSUME NEW rs \in RootTables, OneEach(rs), NEW q \in Roots, rs[q].st = "none",
         NEW k \in Disks, NEW m \in SUBSET Items, LiveOf(rs, k) = {},
         NEW rt \in RootTables, rt[q].st = "live", rt[q].disk = k, rt[q].cache = m,
         \A r \in Roots : r # q => rt[r] = rs[r]
  PROVE  /\ OneEach(rt)
         /\ k \notin MountedIn(rs) /\ MountedIn(rt) = MountedIn(rs) \cup {k}
         /\ ViewIn(rt) = [ViewIn(rs) EXCEPT ![k] = m]
<1>1. rt \in RootTables  OBVIOUS
<1>2. rt[q].st = "live" /\ rt[q].disk = k /\ rt[q].cache = m  OBVIOUS
<1>3. \A r \in Roots : r # q => rt[r] = rs[r]  OBVIOUS
<1>4. OneEach(rt)
  <2>1. \A r \in Roots : r # q /\ rt[r].st = "live" => rt[r].disk # k  BY <1>3 DEF LiveOf
  <2> QED BY <2>1, <1>2, <1>3 DEF OneEach
<1>5. k \in MountedIn(rt) /\ ViewIn(rt)[k] = m  BY <1>1, <1>2, <1>4, ViewOfRoot
<1>6. ASSUME NEW j \in Disks, j # k
      PROVE  (j \in MountedIn(rt) <=> j \in MountedIn(rs)) /\ ViewIn(rt)[j] = ViewIn(rs)[j]
  <2>1. LiveOf(rt, j) = LiveOf(rs, j)  BY <1>2, <1>3, <1>6 DEF LiveOf
  <2>2. \A r \in LiveOf(rs, j) : rt[r].cache = rs[r].cache  BY <1>3 DEF LiveOf
  <2> QED BY <2>1, <2>2, <1>1, ViewKept
<1>7. k \notin MountedIn(rs)  BY ViewOfNone
<1>8. MountedIn(rt) = MountedIn(rs) \cup {k}
  <2>1. MountedIn(rt) \subseteq Disks /\ MountedIn(rs) \subseteq Disks  BY DEF MountedIn
  <2> QED BY <2>1, <1>5, <1>6
<1>9. ViewIn(rt) = [ViewIn(rs) EXCEPT ![k] = m]
  <2>1. DOMAIN ViewIn(rt) = Disks /\ DOMAIN ViewIn(rs) = Disks
        /\ ViewIn(rt) = [j \in Disks |-> ViewIn(rt)[j]] /\ ViewIn(rs) = [j \in Disks |-> ViewIn(rs)[j]]
    BY DEF ViewIn
  <2> QED BY <2>1, <1>5, <1>6
<1> QED BY <1>4, <1>7, <1>8, <1>9

\* create, delete and open change the view of one disk.
LEMMA CacheSet ==
  ASSUME NEW rs \in RootTables, OneEach(rs), NEW q \in Roots, rs[q].st = "live",
         NEW m \in SUBSET Items, NEW rt \in RootTables, rt[q].st = "live",
         rt[q].disk = rs[q].disk, rt[q].cache = m, \A r \in Roots : r # q => rt[r] = rs[r]
  PROVE  /\ OneEach(rt)
         /\ MountedIn(rt) = MountedIn(rs)
         /\ ViewIn(rt) = [ViewIn(rs) EXCEPT ![rs[q].disk] = m]
<1> DEFINE k == rs[q].disk
<1>0. k \in Disks  BY DEF RootTables
<1>1. rt \in RootTables  OBVIOUS
<1>2. rt[q].st = "live" /\ rt[q].disk = k /\ rt[q].cache = m  OBVIOUS
<1>3. \A r \in Roots : r # q => rt[r] = rs[r]  OBVIOUS
<1>4. OneEach(rt)  BY <1>2, <1>3 DEF OneEach
<1>5. k \in MountedIn(rt) /\ ViewIn(rt)[k] = m /\ k \in MountedIn(rs)
  <2>1. k \in MountedIn(rs)  BY ViewOfRoot
  <2> QED BY <2>1, <1>1, <1>2, <1>4, ViewOfRoot
<1>6. ASSUME NEW j \in Disks, j # k
      PROVE  (j \in MountedIn(rt) <=> j \in MountedIn(rs)) /\ ViewIn(rt)[j] = ViewIn(rs)[j]
  <2>1. LiveOf(rt, j) = LiveOf(rs, j)  BY <1>2, <1>3, <1>6 DEF LiveOf
  <2>2. \A r \in LiveOf(rs, j) : rt[r].cache = rs[r].cache  BY <1>3, <1>6 DEF LiveOf
  <2> QED BY <2>1, <2>2, <1>1, ViewKept
<1>8. MountedIn(rt) = MountedIn(rs)
  <2>1. MountedIn(rt) \subseteq Disks /\ MountedIn(rs) \subseteq Disks  BY DEF MountedIn
  <2>2. ASSUME NEW j \in Disks PROVE j \in MountedIn(rt) <=> j \in MountedIn(rs)
    <3>1. CASE j = k  BY <3>1, <1>5
    <3>2. CASE j # k  BY <3>2, <1>6
    <3> QED BY <3>1, <3>2
  <2> QED BY <2>1, <2>2
<1>9. ViewIn(rt) = [ViewIn(rs) EXCEPT ![k] = m]
  <2>1. DOMAIN ViewIn(rt) = Disks /\ DOMAIN ViewIn(rs) = Disks
        /\ ViewIn(rt) = [j \in Disks |-> ViewIn(rt)[j]] /\ ViewIn(rs) = [j \in Disks |-> ViewIn(rs)[j]]
    BY DEF ViewIn
  <2> QED BY <2>1, <1>0, <1>5, <1>6
<1> QED BY <1>4, <1>8, <1>9

\* e.flush: the view of one disk is gone.
LEMMA RootFreed ==
  ASSUME NEW rs \in RootTables, OneEach(rs), NEW q \in Roots, rs[q].st = "live",
         NEW rt \in RootTables, rt[q].st = "freed", \A r \in Roots : r # q => rt[r] = rs[r]
  PROVE  /\ OneEach(rt)
         /\ MountedIn(rt) = MountedIn(rs) \ {rs[q].disk}
         /\ ViewIn(rt) = [j \in Disks |-> IF j \in {rs[q].disk} THEN {} ELSE ViewIn(rs)[j]]
<1> DEFINE k == rs[q].disk
<1>0. k \in Disks  BY DEF RootTables
<1>1. rt \in RootTables  OBVIOUS
<1>2. rt[q].st = "freed"  OBVIOUS
<1>3. \A r \in Roots : r # q => rt[r] = rs[r]  OBVIOUS
<1>4. OneEach(rt)  BY <1>2, <1>3 DEF OneEach
<1>5. k \notin MountedIn(rt) /\ ViewIn(rt)[k] = {}
  <2>1. LiveOf(rt, k) = {}  BY <1>2, <1>3 DEF LiveOf, OneEach
  <2> QED BY <2>1, <1>0, <1>1, ViewOfNone
<1>6. ASSUME NEW j \in Disks, j # k
      PROVE  (j \in MountedIn(rt) <=> j \in MountedIn(rs)) /\ ViewIn(rt)[j] = ViewIn(rs)[j]
  <2>1. LiveOf(rt, j) = LiveOf(rs, j)  BY <1>2, <1>3, <1>6 DEF LiveOf
  <2>2. \A r \in LiveOf(rs, j) : rt[r].cache = rs[r].cache  BY <1>3, <1>6 DEF LiveOf
  <2> QED BY <2>1, <2>2, <1>1, ViewKept
<1>8. MountedIn(rt) = MountedIn(rs) \ {k}
  <2>1. MountedIn(rt) \subseteq Disks /\ MountedIn(rs) \subseteq Disks  BY DEF MountedIn
  <2> QED BY <2>1, <1>5, <1>6
<1>9. ViewIn(rt) = [j \in Disks |-> IF j \in {k} THEN {} ELSE ViewIn(rs)[j]]
  <2>1. ViewIn(rt) = [j \in Disks |-> ViewIn(rt)[j]]  BY DEF ViewIn
  <2> QED BY <2>1, <1>5, <1>6
<1> QED BY <1>4, <1>8, <1>9

\* A process that is gone has no views.
LEMMA RootsGone ==
  ASSUME NEW rt, rt = [r \in Roots |-> NoRoot]
  PROVE  OneEach(rt) /\ MountedIn(rt) = {} /\ ViewIn(rt) = [k \in Disks |-> {}]
<1>1. \A r \in Roots : rt[r].st = "none"  BY DEF NoRoot
<1>2. \A k \in Disks : LiveOf(rt, k) = {}  BY <1>1 DEF LiveOf
<1> QED BY <1>1, <1>2 DEF OneEach, MountedIn, ViewIn

\* With one live root per disk there is room for a mount when there is none.
LEMMA RoomEmpty ==
  ASSUME NEW k \in Disks, MaxMounts = 1, Room(k)
  PROVE  LiveOf(roots, k) = {}
<1>1. LiveOf(roots, k) \in SUBSET Roots /\ Cardinality(LiveOf(roots, k)) < 1
  BY DEF Room, LiveOf
<1>2. IsFiniteSet(Roots)
  <2>1. 1 \in Int /\ MaxRoots \in Int  BY ShellAssumption
  <2> QED BY <2>1, FS_Interval DEF Roots
<1>3. IsFiniteSet(LiveOf(roots, k))  BY <1>1, <1>2, FS_Subset
<1>4. Cardinality(LiveOf(roots, k)) \in Nat  BY <1>3, FS_CardinalityType
<1>5. Cardinality(LiveOf(roots, k)) = 0  BY <1>1, <1>4
<1> QED BY <1>3, <1>5, FS_EmptySet

\* exit leaves on every disk its view or what was there: a root that is flushed
\* is the one live root of its disk.
LEMMA ExitFlushes ==
  ASSUME Inv, OneEach(roots), shellexit \/ shellexitFault, NEW k \in Disks
  PROVE  \/ disk'[k] = disk[k]
         \/ k \in MountedIn(roots) /\ disk'[k] = ViewIn(roots)[k]
<1>0. roots \in RootTables  BY DEF Inv, TypeOK, RootTables
<1>1. PICK n \in 0 .. Len(syms) :
            \/ disk' = [j \in Disks |-> Closed(j, n)]
            \/ disk' = [j \in Disks |-> IF mount # None /\ roots[mount].disk = j
                                        THEN roots[mount].cache ELSE Closed(j, n)]
  BY ExitWrites
<1>2. CASE disk'[k] = Closed(k, n)
  <2>1. CASE Closed(k, n) = disk[k]  BY <1>2, <2>1
  <2>2. ASSUME NEW r \in Roots, roots[r].st = "live", roots[r].disk = k,
               Closed(k, n) = roots[r].cache
        PROVE  k \in MountedIn(roots) /\ disk'[k] = ViewIn(roots)[k]
    BY <1>0, <1>2, <2>2, ViewOfRoot
  <2> QED BY <2>1, <2>2, ClosedBy
<1>3. CASE mount # None /\ roots[mount].disk = k /\ disk'[k] = roots[mount].cache
  <2>1. mount \in Roots /\ roots[mount].st = "live"  BY <1>3 DEF Inv, TypeOK, HandlesLive
  <2> QED BY <1>0, <1>3, <2>1, ViewOfRoot
<1> QED BY <1>1, <1>2, <1>3

\* What the refinement mapping puts for the variables of the store.
LEMMA Mapped ==
  /\ {k \in Disks : LiveRoots(k) # {}} = MountedIn(roots)
  /\ [k \in Disks |-> UNION {roots[r].cache : r \in LiveRoots(k)}] = ViewIn(roots)
BY DEF MountedIn, ViewIn, LiveOf, LiveRoots

\* The same after a step.
LEMMA MappedNext ==
  /\ {k \in Disks : LiveRoots(k) # {}}' = MountedIn(roots')
  /\ [k \in Disks |-> UNION {roots[r].cache : r \in LiveRoots(k)}]' = ViewIn(roots')
BY DEF MountedIn, ViewIn, LiveOf, LiveRoots

\* A step that changes neither roots, disks nor promises is a stutter.
LEMMA Stutter ==
  ASSUME roots' = roots, disk' = disk, committed' = committed
  PROVE  UNCHANGED Store!vars
<1>1. \A k \in Disks : LiveRoots(k)' = LiveRoots(k)  BY DEF LiveRoots
<1> QED BY <1>1, Mapped, MappedNext DEF Store!vars

\* The views of a set of disks end; those in F are written first.
LEMMA MapsUnmount ==
  ASSUME NEW K \in SUBSET MountedIn(roots), NEW F \in SUBSET K,
         MountedIn(roots') = MountedIn(roots) \ K,
         ViewIn(roots') = [k \in Disks |-> IF k \in K THEN {} ELSE ViewIn(roots)[k]],
         disk' = [k \in Disks |-> IF k \in F THEN ViewIn(roots)[k] ELSE disk[k]],
         committed' = committed
  PROVE  Store!Next
<1>1. Store!Unmount(K, F)  BY Mapped, MappedNext DEF Store!Unmount
<1> QED BY <1>1, Mapped DEF Store!Next

\* Every step of the session is a step of the store, or none, and keeps what
\* the mapping needs.
LEMMA StoreStep ==
  ASSUME MaxMounts = 1, Inv, StoreInv, [Next]_vars
  PROVE  StoreInv' /\ (Store!Next \/ UNCHANGED Store!vars)
<1>0. /\ roots \in RootTables /\ OneEach(roots) /\ disk \in [Disks -> SUBSET Items]
      /\ formatted \in SUBSET Disks /\ committed \in SUBSET (Disks \X Items)
      /\ ViewIn(roots) \in [Disks -> SUBSET Items]
  <2>1. roots \in RootTables  BY DEF Inv, TypeOK, RootTables
  <2>2. ViewIn(roots) \in [Disks -> SUBSET Items]
    <3>1. \A k \in Disks : UNION {roots[r].cache : r \in LiveOf(roots, k)} \in SUBSET Items
      <4>1. \A r \in Roots : roots[r].cache \in SUBSET Items  BY <2>1 DEF RootTables
      <4> QED BY <4>1 DEF LiveOf
    <3> QED BY <3>1 DEF ViewIn
  <2> QED BY <2>1, <2>2 DEF StoreInv, Inv, TypeOK
<1>1. ASSUME UNCHANGED <<roots, disk, formatted, committed>>
      PROVE  StoreInv' /\ UNCHANGED Store!vars
  <2>1. StoreInv'  BY <1>1 DEF StoreInv, OneEach, CreatedStays, LiveOf
  <2> QED BY <2>1, <1>1, Stutter
\* The process ends and leaves d on the disks, each one flushed or not.
<1>2. ASSUME Lose, UNCHANGED <<formatted, committed>>, disk' \in [Disks -> SUBSET Items],
             \A k \in Disks : \/ disk'[k] = disk[k]
                              \/ k \in MountedIn(roots) /\ disk'[k] = ViewIn(roots)[k]
      PROVE  StoreInv' /\ Store!Next
  <2>1. roots' = [r \in Roots |-> NoRoot]  BY <1>2 DEF Lose
  <2>2. OneEach(roots') /\ MountedIn(roots') = {} /\ ViewIn(roots') = [k \in Disks |-> {}]
    BY <2>1, RootsGone
  <2> DEFINE F == {k \in MountedIn(roots) : disk'[k] # disk[k]}
  <2>3. \A k \in Disks : disk'[k] = IF k \in F THEN ViewIn(roots)[k] ELSE disk[k]
    BY <1>2
  <2>4. disk' = [k \in Disks |-> IF k \in F THEN ViewIn(roots)[k] ELSE disk[k]]
    BY <1>2, <2>3
  <2>5. ViewIn(roots') = [k \in Disks |-> IF k \in MountedIn(roots) THEN {} ELSE ViewIn(roots)[k]]
    <3>1. \A k \in Disks : k \notin MountedIn(roots) => ViewIn(roots)[k] = {}
      <4>1. \A k \in Disks : k \notin MountedIn(roots) => LiveOf(roots, k) = {}  BY DEF MountedIn
      <4> QED BY <4>1, <1>0, ViewOfNone
    <3> QED BY <3>1, <2>2
  <2>6. Store!Next
    <3>1. F \in SUBSET MountedIn(roots)  OBVIOUS
    <3> HIDE DEF F
    <3>2. MountedIn(roots') = MountedIn(roots) \ MountedIn(roots)  BY <2>2
    <3>3. MountedIn(roots) \in SUBSET MountedIn(roots) /\ committed' = committed  BY <1>2
    <3> QED BY <3>1, <3>2, <3>3, <2>4, <2>5, MapsUnmount
  <2>7. \A x \in committed : x[1] \in Disks /\ x[2] \in disk[x[1]]
    BY <1>0 DEF StoreInv, CreatedStays
  <2>8. \A x \in committed : x[1] \in MountedIn(roots) => x[2] \in ViewIn(roots)[x[1]]
    <3> SUFFICES ASSUME NEW x \in committed, x[1] \in MountedIn(roots)
                 PROVE  x[2] \in ViewIn(roots)[x[1]]  OBVIOUS
    <3>1. PICK r \in LiveOf(roots, x[1]) : TRUE  BY DEF MountedIn
    <3>2. r \in Roots /\ roots[r].st = "live" /\ roots[r].disk = x[1]  BY <3>1 DEF LiveOf
    <3>3. x[2] \in roots[r].cache  BY <3>1 DEF StoreInv
    <3>4. ViewIn(roots)[x[1]] = roots[r].cache  BY <3>2, <1>0, ViewOfRoot
    <3> QED BY <3>3, <3>4
  <2>9. CreatedStays'
    <3>1. \A x \in committed : x[2] \in disk'[x[1]]  BY <2>7, <2>8, <1>2
    <3> QED BY <3>1, <1>2 DEF CreatedStays
  <2>10. \A k \in Disks \ formatted : disk'[k] = {} /\ LiveOf(roots', k) = {}
    <3>1. \A k \in Disks \ formatted : disk[k] = {} /\ k \notin MountedIn(roots)
      BY DEF StoreInv, MountedIn
    <3>2. \A k \in Disks : LiveOf(roots', k) = {}  BY <2>2 DEF MountedIn
    <3> QED BY <3>1, <3>2, <1>2
  <2>11. \A x \in committed' : \A r \in LiveOf(roots', x[1]) : x[2] \in roots'[r].cache
    <3>1. \A k \in Disks : LiveOf(roots', k) = {}  BY <2>2 DEF MountedIn
    <3> QED BY <3>1, <2>7, <1>2
  <2>12. StoreInv'  BY <2>2, <2>9, <2>10, <2>11, <1>2 DEF StoreInv
  <2> QED BY <2>6, <2>12
\* The mounted root is live.
<1>3. ASSUME mount # None
      PROVE  /\ mount \in Roots /\ roots[mount].st = "live" /\ roots[mount].disk \in Disks
             /\ roots[mount].disk \in MountedIn(roots) /\ roots[mount].disk \in formatted
             /\ ViewIn(roots)[roots[mount].disk] = roots[mount].cache
             /\ roots[mount].cache \in SUBSET Items
             /\ LiveOf(roots, roots[mount].disk) = {mount}
  <2>1. mount \in Roots /\ roots[mount].st = "live"  BY <1>3 DEF Inv, TypeOK, HandlesLive
  <2>2. roots[mount].disk \in Disks /\ roots[mount].cache \in SUBSET Items
    BY <2>1, <1>0 DEF RootTables
  <2>3. /\ LiveOf(roots, roots[mount].disk) = {mount} /\ roots[mount].disk \in MountedIn(roots)
        /\ ViewIn(roots)[roots[mount].disk] = roots[mount].cache
    BY <2>1, <1>0, ViewOfRoot
  <2> QED BY <2>1, <2>2, <2>3 DEF StoreInv
<1>4. ASSUME NEW k \in Disks, NEW m \in SUBSET Items, Room(k), roots' = Mounted(k, m),
             disk' = disk, m = disk[k], k \in formatted', formatted \subseteq formatted',
             formatted' \subseteq formatted \cup {k}, committed' = committed
      PROVE  StoreInv' /\ Store!Next
  <2>1. LiveOf(roots, k) = {}  BY <1>4, RoomEmpty
  <2>2. NewRoot \in Roots /\ roots[NewRoot].st = "none"  BY <1>4, NewRootFree
  <2>3. roots' = [roots EXCEPT ![NewRoot] = [st |-> "live", disk |-> k, cache |-> m]]
    BY <1>4 DEF Mounted
  <2>11. roots' \in RootTables  BY <1>0, <2>2, <2>3 DEF RootTables
  <2>12. /\ roots'[NewRoot].st = "live" /\ roots'[NewRoot].disk = k /\ roots'[NewRoot].cache = m
         /\ \A r \in Roots : r # NewRoot => roots'[r] = roots[r]
    BY <2>2, <2>3, <1>0 DEF RootTables
  <2>4. /\ OneEach(roots')
        /\ k \notin MountedIn(roots) /\ MountedIn(roots') = MountedIn(roots) \cup {k}
        /\ ViewIn(roots') = [ViewIn(roots) EXCEPT ![k] = m]
    BY <1>0, <1>4, <2>1, <2>2, <2>11, <2>12, RootAdded
  <2>5. Store!Next
    <3>1. Store!Mount(k)  BY <1>4, <2>4, Mapped, MappedNext DEF Store!Mount
    <3> QED BY <3>1 DEF Store!Next
  <2>6. \A j \in Disks : \A r \in LiveOf(roots', j) :
           \/ j = k /\ roots'[r].cache = m
           \/ r \in LiveOf(roots, j) /\ roots'[r].cache = roots[r].cache
    BY <2>12 DEF LiveOf
  <2>7. \A x \in committed : x[1] \in Disks /\ x[2] \in disk[x[1]]
    BY <1>0 DEF StoreInv, CreatedStays
  <2>8. \A x \in committed' : \A r \in LiveOf(roots', x[1]) : x[2] \in roots'[r].cache
    BY <2>6, <2>7, <1>4 DEF StoreInv
  <2>9. \A j \in Disks \ formatted' : disk'[j] = {} /\ LiveOf(roots', j) = {}
    BY <2>6, <1>4 DEF StoreInv
  <2>10. CreatedStays'  BY <1>4, <2>7 DEF CreatedStays
  <2> QED BY <2>4, <2>5, <2>8, <2>9, <2>10 DEF StoreInv
\* The cache of the mounted root becomes m, in which all promised items are.
<1>5. ASSUME mount # None, NEW m \in SUBSET Items,
             roots' = [roots EXCEPT ![mount].cache = m], formatted' = formatted,
             \A x \in committed' : x[1] = roots[mount].disk => x[2] \in m,
             \A x \in committed' : x[1] # roots[mount].disk => x \in committed,
             CreatedStays', disk' \in [Disks -> SUBSET Items],
             \A j \in Disks : j # roots[mount].disk => disk'[j] = disk[j],
             committed' \in SUBSET (Disks \X Items)
      PROVE  /\ StoreInv' /\ MountedIn(roots') = MountedIn(roots)
             /\ ViewIn(roots') = [ViewIn(roots) EXCEPT ![roots[mount].disk] = m]
  <2>1. /\ OneEach(roots') /\ MountedIn(roots') = MountedIn(roots)
        /\ ViewIn(roots') = [ViewIn(roots) EXCEPT ![roots[mount].disk] = m]
    <3>1. roots' \in RootTables  BY <1>0, <1>3, <1>5 DEF RootTables
    <3>2. /\ roots'[mount].st = "live" /\ roots'[mount].disk = roots[mount].disk
          /\ roots'[mount].cache = m /\ \A r \in Roots : r # mount => roots'[r] = roots[r]
      BY <1>0, <1>3, <1>5 DEF RootTables
    <3>3. mount \in Roots /\ roots[mount].st = "live"  BY <1>3, <1>5
    <3> QED BY <3>1, <3>2, <3>3, <1>0, CacheSet
  <2>2. \A r \in Roots : /\ roots'[r].st = roots[r].st /\ roots'[r].disk = roots[r].disk
                         /\ roots'[r].cache = IF r = mount THEN m ELSE roots[r].cache
    BY <1>0, <1>3, <1>5 DEF RootTables
  <2>3. \A j \in Disks : LiveOf(roots', j) = LiveOf(roots, j)  BY <2>2 DEF LiveOf
  <2>4. \A j \in Disks \ formatted' : disk'[j] = {} /\ LiveOf(roots', j) = {}
    BY <2>3, <1>3, <1>5 DEF StoreInv
  <2>5. ASSUME NEW x \in committed', NEW r \in LiveOf(roots', x[1])
        PROVE  x[2] \in roots'[r].cache
    <3>1. x[1] \in Disks /\ r \in LiveOf(roots, x[1])  BY <2>3, <2>5, <1>5
    <3>2. r \in Roots /\ roots[r].disk = x[1]  BY <3>1 DEF LiveOf
    <3>3. CASE x[1] = roots[mount].disk
      <4>1. r = mount  BY <3>1, <3>3, <1>3, <1>5
      <4> QED BY <4>1, <3>2, <3>3, <2>2, <1>5
    <3>4. CASE x[1] # roots[mount].disk
      BY <3>1, <3>2, <3>4, <2>2, <1>5 DEF StoreInv
    <3> QED BY <3>3, <3>4
  <2> QED BY <2>1, <2>4, <2>5, <1>5 DEF StoreInv
\* The root of a handle that a symbol holds is the view of its disk.
<1>21. ASSUME NEW n \in DOMAIN syms, syms[n].ref # None,
              NEW r, r = handles[syms[n].ref].root
       PROVE  /\ r \in Roots /\ roots[r].st = "live" /\ roots[r].disk \in Disks
              /\ roots[r].disk \in MountedIn(roots)
              /\ ViewIn(roots)[roots[r].disk] = roots[r].cache
              /\ LiveOf(roots, roots[r].disk) = {r} /\ roots[r].disk \in formatted
  <2>1. r \in Roots /\ roots[r].st = "live"  BY <1>21, HeldHandle
  <2>2. roots[r].disk \in Disks  BY <2>1, <1>0 DEF RootTables
  <2>3. /\ LiveOf(roots, roots[r].disk) = {r} /\ roots[r].disk \in MountedIn(roots)
        /\ ViewIn(roots)[roots[r].disk] = roots[r].cache
    BY <2>1, <1>0, ViewOfRoot
  <2> QED BY <2>1, <2>2, <2>3 DEF StoreInv
<1>6. ASSUME NEW a \in Aliases, shellclose(a) PROVE StoreInv' /\ Store!Next
  <2>2. PICK n \in DOMAIN syms : resolvedata(a) = syms[n]
    BY <1>6, CloseArgument DEF shellclose, Inv
  <2> DEFINE r == handles[syms[n].ref].root
             k == roots[r].disk
  <2>1. /\ syms[n].ref # None /\ disk' = [disk EXCEPT ![k] = roots[r].cache]
        /\ UNCHANGED <<roots, formatted, committed>>
    BY <1>6, <2>2 DEF shellclose, fuloadroot
  <2>3. /\ k \in Disks /\ k \in MountedIn(roots) /\ ViewIn(roots)[k] = roots[r].cache
        /\ LiveOf(roots, k) = {r} /\ k \in formatted
    BY <2>1, <1>21
  <2> HIDE DEF r
  <2>4. /\ k \in Disks /\ k \in MountedIn(roots) /\ ViewIn(roots)[k] = roots[r].cache
        /\ LiveOf(roots, k) = {r} /\ k \in formatted
    BY <2>3
  <2> HIDE DEF k
  <2>5. Store!Next
    <3>1. Store!Flush(k)
      <4>1. MountedIn(roots') = MountedIn(roots) /\ ViewIn(roots') = ViewIn(roots)  BY <2>1
      <4> QED BY <4>1, <2>1, <2>4, Mapped, MappedNext DEF Store!Flush
    <3> QED BY <3>1, <2>4 DEF Store!Next
  <2>6. CreatedStays'
    <3>1. \A x \in committed : x[1] \in Disks /\ x[2] \in disk[x[1]]
                               /\ (x[1] = k => x[2] \in roots[r].cache)
      BY <1>0, <2>4 DEF StoreInv, CreatedStays
    <3> QED BY <3>1, <2>1, <1>0 DEF CreatedStays
  <2>7. StoreInv'
    <3>1. \A j \in Disks \ formatted' : disk'[j] = {} /\ LiveOf(roots', j) = {}
      BY <2>1, <2>4, <1>0 DEF StoreInv
    <3> QED BY <2>1, <2>6, <3>1 DEF StoreInv
  <2> QED BY <2>5, <2>7
<1>7. ASSUME NEW k \in Disks, shelldisk(k) PROVE StoreInv' /\ Store!Next
  <2>1. disk[k] \in SUBSET Items  BY <1>0
  <2>2. /\ k \in formatted /\ Room(k) /\ roots' = Mounted(k, disk[k])
        /\ UNCHANGED <<disk, formatted, committed>>
    BY <1>7 DEF shelldisk
  <2> QED BY <2>1, <2>2, <1>4
<1>8. ASSUME NEW k \in Disks, shelldiskFormat(k) PROVE StoreInv' /\ Store!Next
  <2>1. /\ k \notin formatted /\ Room(k) /\ roots' = Mounted(k, {}) /\ committed' = committed
        /\ formatted' = formatted \cup {k} /\ disk' = [disk EXCEPT ![k] = {}]
    BY <1>8 DEF shelldiskFormat
  <2>2. disk[k] = {} /\ {} \in SUBSET Items  BY <2>1 DEF StoreInv
  <2>3. disk' = disk  BY <2>1, <2>2, <1>0
  <2>4. k \in formatted' /\ formatted \subseteq formatted' /\ formatted' \subseteq formatted \cup {k}
    BY <2>1
  <2> QED BY <2>1, <2>2, <2>3, <2>4, <1>4
<1>9. ASSUME NEW p \in Items, shellcreate(p)
      PROVE  StoreInv' /\ (Store!Next \/ UNCHANGED Store!vars)
  <2>1. CASE mount = None
    <3>1. UNCHANGED <<roots, disk, formatted, committed>>  BY <1>9, <2>1 DEF shellcreate
    <3> QED BY <3>1, <1>1
  <2>2. CASE mount # None
    <3> DEFINE k == roots[mount].disk
               m == roots[mount].cache \cup {p}
    <3>1. /\ roots' = [roots EXCEPT ![mount].cache = m] /\ disk' = [disk EXCEPT ![k] = m]
          /\ committed' = committed \cup {<<k, p>>} /\ formatted' = formatted
      BY <1>9, <2>2 DEF shellcreate
    <3>2. /\ k \in Disks /\ k \in MountedIn(roots) /\ ViewIn(roots)[k] \cup {p} = m
          /\ m \in SUBSET Items /\ p \in m
      BY <2>2, <1>3
    <3>3. \A x \in committed : x[1] = k => x[2] \in m
      BY <2>2, <1>3 DEF StoreInv
    <3>4. \A x \in committed : x[1] \in Disks /\ x[2] \in disk[x[1]]
      BY <1>0 DEF StoreInv, CreatedStays
    <3> HIDE DEF k, m
    <3>5. \A x \in committed' : x[1] = k => x[2] \in m  BY <3>1, <3>2, <3>3
    <3>6. \A x \in committed' : x[1] # k => x \in committed  BY <3>1
    <3>7. /\ disk' \in [Disks -> SUBSET Items] /\ disk'[k] = m
          /\ \A j \in Disks : j # k => disk'[j] = disk[j]
      BY <3>1, <3>2, <1>0
    <3>8. committed' \in SUBSET (Disks \X Items)  BY <3>1, <3>2, <1>0
    <3>9. CreatedStays'
      <4>1. \A x \in committed' : x[1] \in Disks  BY <3>8
      <4> QED BY <4>1, <3>4, <3>5, <3>6, <3>7 DEF CreatedStays
    <3>10. /\ StoreInv' /\ MountedIn(roots') = MountedIn(roots)
           /\ ViewIn(roots') = [ViewIn(roots) EXCEPT ![k] = m]
      BY <3>1, <3>2, <3>5, <3>6, <3>7, <3>8, <3>9, <2>2, <1>5 DEF k
    <3>11. Store!Create(k, p)
      BY <3>1, <3>2, <3>10, Mapped, MappedNext DEF Store!Create
    <3> QED BY <3>2, <3>10, <3>11 DEF Store!Next
  <2> QED BY <2>1, <2>2
<1>10. ASSUME NEW p \in Items, shelldelete(p) PROVE StoreInv' /\ Store!Next
  <2>1. UNCHANGED <<disk, formatted>>  BY <1>10 DEF shelldelete
  <2>2. CASE mount = None \/ p \notin roots[mount].cache
    <3>1. Lose /\ committed' = committed  BY <1>10, <2>2 DEF shelldelete
    <3> QED BY <3>1, <2>1, <1>0, <1>2
  <2>3. CASE ~(mount = None \/ p \notin roots[mount].cache)
    <3> DEFINE k == roots[mount].disk
               m == roots[mount].cache \ {p}
    <3>1. roots' = [roots EXCEPT ![mount].cache = m] /\ committed' = committed \ {<<k, p>>}
      BY <1>10, <2>3 DEF shelldelete
    <3>2. /\ k \in Disks /\ k \in MountedIn(roots) /\ ViewIn(roots)[k] \ {p} = m
          /\ m \in SUBSET Items
      BY <2>3, <1>3
    <3>3. \A x \in committed : x[1] = k /\ x # <<k, p>> => x[2] \in m
      <4>1. \A x \in committed : x[1] = k => x[2] \in roots[mount].cache
        BY <2>3, <1>3 DEF StoreInv
      <4>2. \A x \in committed : x = <<x[1], x[2]>>  BY <1>0
      <4> QED BY <4>1, <4>2
    <3> HIDE DEF k, m
    <3>5. \A x \in committed' : x[1] = k => x[2] \in m  BY <3>1, <3>3
    <3>6. \A x \in committed' : x[1] # k => x \in committed  BY <3>1
    <3>8. committed' \in SUBSET (Disks \X Items)  BY <3>1, <1>0
    <3>9. CreatedStays'  BY <3>1, <2>1 DEF StoreInv, CreatedStays
    <3>10. /\ StoreInv' /\ MountedIn(roots') = MountedIn(roots)
           /\ ViewIn(roots') = [ViewIn(roots) EXCEPT ![k] = m]
      BY <3>1, <3>2, <3>5, <3>6, <3>8, <3>9, <2>1, <2>3, <1>0, <1>5 DEF k
    <3>11. Store!Delete(k, p)
      BY <3>1, <3>2, <3>10, <2>1, Mapped, MappedNext DEF Store!Delete
    <3> QED BY <3>2, <3>10, <3>11 DEF Store!Next
  <2> QED BY <2>2, <2>3
<1>11. ASSUME NEW p \in Items, NEW a \in Aliases, NEW c \in BOOLEAN, NEW h \in Handles,
              shellopen(p, a, c, h)
       PROVE  StoreInv' /\ (Store!Next \/ UNCHANGED Store!vars)
  <2>1. mount # None /\ UNCHANGED <<disk, formatted, committed>> /\ roots' = Loaded(p, c)
    BY <1>11 DEF shellopen
  <2>2. CASE ~c \/ p \in roots[mount].cache
    <3>1. roots' = roots
      <4>1. CASE ~c  BY <4>1, <2>1 DEF Loaded
      <4>2. CASE c /\ p \in roots[mount].cache
        <5>1. roots' = [roots EXCEPT ![mount].cache = @ \cup {p}]  BY <4>2, <2>1 DEF Loaded
        <5>2. roots[mount].cache \cup {p} = roots[mount].cache  BY <4>2
        <5> QED BY <5>1, <5>2, <2>1, <1>3, <1>0 DEF RootTables
      <4> QED BY <4>1, <4>2, <2>2
    <3> QED BY <3>1, <2>1, <1>1
  <2>3. CASE c /\ p \notin roots[mount].cache
    <3> DEFINE k == roots[mount].disk
               m == roots[mount].cache \cup {p}
    <3>1. roots' = [roots EXCEPT ![mount].cache = m]  BY <2>1, <2>3 DEF Loaded
    <3>2. /\ k \in Disks /\ k \in MountedIn(roots) /\ ViewIn(roots)[k] \cup {p} = m
          /\ m \in SUBSET Items
      BY <2>1, <1>3
    <3>3. \A x \in committed : x[1] = k => x[2] \in roots[mount].cache
      BY <2>1, <1>3 DEF StoreInv
    <3>4. \A x \in committed' : x[1] = k => x[2] \in m  BY <3>3, <2>1
    <3>5. committed \ {<<k, p>>} = committed  BY <3>3, <2>3
    <3> HIDE DEF k, m
    <3>6. CreatedStays'  BY <2>1 DEF StoreInv, CreatedStays
    <3>10. /\ StoreInv' /\ MountedIn(roots') = MountedIn(roots)
           /\ ViewIn(roots') = [ViewIn(roots) EXCEPT ![k] = m]
      BY <3>1, <3>2, <3>4, <3>6, <2>1, <1>0, <1>5 DEF k
    <3>11. Store!Put(k, p)
      BY <3>2, <3>5, <3>10, <2>1, Mapped, MappedNext DEF Store!Put
    <3> QED BY <3>2, <3>10, <3>11 DEF Store!Next
  <2> QED BY <2>2, <2>3
<1>12. CASE shellflush
  <2>1. UNCHANGED <<disk, formatted, committed>>  BY <1>12 DEF shellflush
  <2>2. CASE mount = None
    <3>1. roots' = roots  BY <1>12, <2>2 DEF shellflush
    <3> QED BY <3>1, <2>1, <1>1
  <2>3. CASE mount # None
    <3> DEFINE k == roots[mount].disk
    <3>1. roots' = [roots EXCEPT ![mount].st = "freed"]  BY <1>12, <2>3 DEF shellflush
    <3>2. k \in Disks /\ k \in MountedIn(roots) /\ mount \in Roots /\ roots[mount].st = "live"
      BY <2>3, <1>3
    <3>3. roots' \in RootTables  BY <3>1, <3>2, <1>0 DEF RootTables
    <3>4. roots'[mount].st = "freed" /\ \A r \in Roots : r # mount => roots'[r] = roots[r]
      BY <3>1, <3>2, <1>0 DEF RootTables
    <3>5. /\ OneEach(roots') /\ MountedIn(roots') = MountedIn(roots) \ {k}
          /\ ViewIn(roots') = [j \in Disks |-> IF j \in {k} THEN {} ELSE ViewIn(roots)[j]]
      BY <3>2, <3>3, <3>4, <1>0, RootFreed
    <3> HIDE DEF k
    <3>6. Store!Next
      <4>1. {k} \in SUBSET MountedIn(roots) /\ {} \in SUBSET {k}  BY <3>2
      <4>2. disk' = [j \in Disks |-> IF j \in {} THEN ViewIn(roots)[j] ELSE disk[j]]
        BY <2>1, <1>0
      <4> QED BY <4>1, <4>2, <3>5, <2>1, MapsUnmount
    <3>7. \A j \in Disks : \A r \in LiveOf(roots', j) :
             r \in LiveOf(roots, j) /\ roots'[r].cache = roots[r].cache
      BY <3>4 DEF LiveOf
    <3>8. \A x \in committed' : \A r \in LiveOf(roots', x[1]) : x[2] \in roots'[r].cache
      <4>1. \A x \in committed : x[1] \in Disks  BY <1>0
      <4> QED BY <4>1, <3>7, <2>1 DEF StoreInv
    <3>9. \A j \in Disks \ formatted' : disk'[j] = {} /\ LiveOf(roots', j) = {}
      BY <3>7, <2>1 DEF StoreInv
    <3>10. CreatedStays'  BY <2>1 DEF StoreInv, CreatedStays
    <3> QED BY <3>5, <3>6, <3>8, <3>9, <3>10 DEF StoreInv
  <2> QED BY <2>2, <2>3
<1>13. CASE shellexit \/ shellexitFault
  <2>1. Lose /\ UNCHANGED <<formatted, committed>>  BY <1>13 DEF shellexit, shellexitFault
  <2>2. disk' \in [Disks -> SUBSET Items]  BY <1>13, ExitType
  <2>3. \A k \in Disks : \/ disk'[k] = disk[k]
                         \/ k \in MountedIn(roots) /\ disk'[k] = ViewIn(roots)[k]
    BY <1>0, <1>13, ExitFlushes
  <2> QED BY <2>1, <2>2, <2>3, <1>2
<1>14. ASSUME Lose, UNCHANGED <<disk, formatted, committed>> PROVE StoreInv' /\ Store!Next
  BY <1>14, <1>0, <1>2
<1>15. ASSUME NEW a \in Aliases, shellcloseFault(a) PROVE StoreInv' /\ Store!Next
  BY <1>15, <1>14 DEF shellcloseFault
<1>16. CASE Crash  BY <1>16, <1>14 DEF Crash
<1>22. ASSUME NEW a \in Aliases, shellcloseAgain(a) PROVE StoreInv' /\ Store!Next
  <2>1. PICK n \in DOMAIN syms : resolvedata(a) = syms[n]
    BY <1>22, CloseArgument DEF shellcloseAgain, Inv
  <2> DEFINE r == handles[syms[n].ref].root
             k == roots[r].disk
  <2>2. /\ syms[n].ref # None /\ Lose /\ UNCHANGED <<formatted, committed>>
        /\ disk' = disk \/ disk' = [disk EXCEPT ![k] = roots[r].cache]
    BY <1>22, <2>1 DEF shellcloseAgain, fuloadroot
  <2>3. k \in Disks /\ k \in MountedIn(roots) /\ ViewIn(roots)[k] = roots[r].cache
    BY <2>2, <1>21
  <2> HIDE DEF r
  <2>4. roots[r].cache \in SUBSET Items  BY <2>3, <1>0
  <2> HIDE DEF k
  <2>5. disk' \in [Disks -> SUBSET Items]  BY <2>2, <2>3, <2>4, <1>0
  <2>6. \A j \in Disks : \/ disk'[j] = disk[j]
                         \/ j \in MountedIn(roots) /\ disk'[j] = ViewIn(roots)[j]
    BY <2>2, <2>3, <1>0
  <2> QED BY <2>2, <2>5, <2>6, <1>2
<1>17. ASSUME NEW a \in Aliases, NEW src, shellsym(a, src)
       PROVE  StoreInv' /\ UNCHANGED Store!vars
  BY <1>17, <1>1 DEF shellsym
<1>18. CASE shellsymRefused  BY <1>18, <1>1 DEF shellsymRefused
<1>19. ASSUME NEW k \in Disks, shelldiskFail(k) PROVE StoreInv' /\ UNCHANGED Store!vars
  BY <1>19, <1>1 DEF shelldiskFail
<1>20. CASE UNCHANGED vars  BY <1>20, <1>1 DEF vars
<1> QED BY <1>6, <1>7, <1>8, <1>9, <1>10, <1>11, <1>12, <1>13, <1>15, <1>16, <1>17, <1>18,
          <1>19, <1>20, <1>22 DEF Next

\* A session that starts on empty disks starts as the store does.
LEMMA InitStore == Init => StoreInv /\ Store!Init
<1> SUFFICES ASSUME Init PROVE StoreInv /\ Store!Init  OBVIOUS
<1>1. /\ roots = [r \in Roots |-> NoRoot] /\ disk = [k \in Disks |-> {}]
      /\ formatted = {} /\ committed = {}
  BY DEF Init
<1>2. OneEach(roots) /\ MountedIn(roots) = {} /\ ViewIn(roots) = [k \in Disks |-> {}]
  BY <1>1, RootsGone
<1>3. \A k \in Disks : LiveOf(roots, k) = {}  BY <1>2 DEF MountedIn
<1>4. StoreInv  BY <1>1, <1>2, <1>3 DEF StoreInv, CreatedStays
<1>5. Store!Init  BY <1>1, <1>2, Mapped DEF Store!Init
<1> QED BY <1>4, <1>5

\* An item whose create has returned stays on its disk until it is deleted,
\* whatever is opened, closed, flushed, killed and mounted, in a session whose
\* processes have at most one live root of a disk (a second e.disk of the same
\* disk is what shell.c does not guard against).
THEOREM ShellCreatedStays ==
  ASSUME MaxMounts = 1 PROVE Spec => []CreatedStays
<1>1. Init => Inv /\ StoreInv  BY InitInv, InitStore
<1>2. Inv /\ StoreInv /\ [Next]_vars => Inv' /\ StoreInv'  BY ShellInductive, StoreStep
<1>3. StoreInv => CreatedStays  BY DEF StoreInv
<1> QED BY <1>1, <1>2, <1>3, PTL DEF Spec

\* The same sessions implement the abstract store: whatever the mixture of
\* mounts, handles and symbols, every command is a step of the store or none.
THEOREM ShellImplementsStore ==
  ASSUME MaxMounts = 1 PROVE Spec => ImplementsStore
<1>1. Init => Inv /\ StoreInv /\ Store!Init  BY InitInv, InitStore
<1>2. Inv /\ StoreInv /\ [Next]_vars => Inv' /\ StoreInv' /\ [Store!Next]_(Store!vars)
  BY ShellInductive, StoreStep
<1> QED BY <1>1, <1>2, PTL DEF Spec, ImplementsStore, Store!Spec
=============================================================================
