--------------------------- MODULE FratStoreProofs ---------------------------
(* Proofs about the abstract store. *)
EXTENDS FratStore, TLAPS

Inv == TypeOK /\ Promise

\* Nothing is created or durable in an empty store.
LEMMA InitInv == Init => Inv
BY DEF Init, Inv, TypeOK, Promise

\* Every operation of the store keeps the promise.
LEMMA NextInv == Inv /\ [Next]_vars => Inv'
<1> SUFFICES ASSUME Inv, [Next]_vars PROVE Inv'
    OBVIOUS
<1> USE DEF Inv, TypeOK, Promise
<1>1. ASSUME NEW k \in Disks, Mount(k) PROVE Inv'
    BY <1>1 DEF Mount
<1>2. ASSUME NEW k \in Disks, Flush(k) PROVE Inv'
    BY <1>2 DEF Flush
<1>3. ASSUME NEW k \in Disks, NEW p \in Items, Put(k, p) PROVE Inv'
    BY <1>3 DEF Put
<1>4. ASSUME NEW k \in Disks, NEW p \in Items, Delete(k, p) PROVE Inv'
    BY <1>4 DEF Delete
<1>5. ASSUME NEW k \in Disks, NEW p \in Items, Create(k, p) PROVE Inv'
    BY <1>5 DEF Create
<1>6. ASSUME NEW K \in SUBSET mounted, NEW F \in SUBSET K, Unmount(K, F) PROVE Inv'
    BY <1>6 DEF Unmount
<1>7. CASE UNCHANGED vars
    BY <1>7 DEF vars
<1> QED
    BY <1>1, <1>2, <1>3, <1>4, <1>5, <1>6, <1>7 DEF Next

\* What Frat and FratShell implement keeps its promise, for any disks and items
\* and under any order of puts, deletes, flushes, unmounts and lost views: an
\* item whose create has returned, and that was not deleted or made anew since,
\* is durable, and no later flush of the view can take it away.
THEOREM StoreKeepsPromise == Spec => []Promise
<1>1. Inv => Promise
    BY DEF Inv
<1> QED
    BY InitInv, NextInv, <1>1, PTL DEF Spec
==============================================================================
