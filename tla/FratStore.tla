----------------------------- MODULE FratStore -----------------------------
(***************************************************************************)
(* What FrAT promises to its user, without map, directories, handles or    *)
(* symbols: a store with a volatile view.  While a disk is mounted the     *)
(* commands work on a view of it; only a flush makes the view durable, a   *)
(* flush is always one of the whole view, and a create does not return     *)
(* before its item is durable.  Frat implements this store for one disk    *)
(* and FratShell for several, each under its own mapping.                  *)
(***************************************************************************)
CONSTANTS
    Disks,
    Items

VARIABLES
    mounted,    \* the disks that have a view
    view,       \* [Disks -> SUBSET Items]
    durable,    \* [Disks -> SUBSET Items]
    promised    \* <<disk, item>> of creates that have returned

vars == <<mounted, view, durable, promised>>

Init ==
    /\ mounted = {}
    /\ view = [k \in Disks |-> {}]
    /\ durable = [k \in Disks |-> {}]
    /\ promised = {}

Mount(k) ==
    /\ k \notin mounted
    /\ mounted' = mounted \cup {k}
    /\ view' = [view EXCEPT ![k] = durable[k]]
    /\ UNCHANGED <<durable, promised>>

\* An item is made, or made anew, in the view; nothing is promised about it.
Put(k, p) ==
    /\ k \in mounted
    /\ view' = [view EXCEPT ![k] = @ \cup {p}]
    /\ promised' = promised \ {<<k, p>>}
    /\ UNCHANGED <<mounted, durable>>

Delete(k, p) ==
    /\ k \in mounted
    /\ view' = [view EXCEPT ![k] = @ \ {p}]
    /\ promised' = promised \ {<<k, p>>}
    /\ UNCHANGED <<mounted, durable>>

Flush(k) ==
    /\ k \in mounted
    /\ durable' = [durable EXCEPT ![k] = view[k]]
    /\ UNCHANGED <<mounted, view, promised>>

\* The return of a create: the view, now with the item, has become durable.
Create(k, p) ==
    /\ k \in mounted
    /\ view' = [view EXCEPT ![k] = @ \cup {p}]
    /\ durable' = [durable EXCEPT ![k] = view[k] \cup {p}]
    /\ promised' = promised \cup {<<k, p>>}
    /\ UNCHANGED mounted

\* Views end: with a flush (exit), or without one (a crash).
Unmount(K, F) ==
    /\ F \subseteq K /\ K \subseteq mounted
    /\ mounted' = mounted \ K
    /\ view' = [k \in Disks |-> IF k \in K THEN {} ELSE view[k]]
    /\ durable' = [k \in Disks |-> IF k \in F THEN view[k] ELSE durable[k]]
    /\ UNCHANGED promised

Next ==
    \/ \E k \in Disks :
          \/ Mount(k) \/ Flush(k)
          \/ \E p \in Items : Put(k, p) \/ Delete(k, p) \/ Create(k, p)
    \/ \E K \in SUBSET mounted : \E F \in SUBSET K : Unmount(K, F)

Spec == Init /\ [][Next]_vars

\* Types of the store.
TypeOK ==
    /\ mounted \subseteq Disks
    /\ view \in [Disks -> SUBSET Items]
    /\ durable \in [Disks -> SUBSET Items]
    /\ promised \subseteq Disks \X Items

\* What the user relies on: an item that was promised is durable, and as long
\* as its disk is mounted it is in the view, so that no flush can take it away.
Promise ==
    \A x \in promised :
        /\ x[2] \in durable[x[1]]
        /\ x[1] \in mounted => x[2] \in view[x[1]]
============================================================================
