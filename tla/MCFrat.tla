------------------------------ MODULE MCFrat ------------------------------
(* Small instances of Frat for TLC. *)
EXTENDS Frat

CONSTANTS d, a, b, e, top

\* a and b live in directory d, which is at the top level.
Tree == [p \in Paths |-> IF p = d THEN top ELSE d]
\* a and b in d, e in b.
Deep == [p \in Paths |-> IF p = d THEN top ELSE IF p = e THEN b ELSE d]
\* No directories.
Flat == [p \in Paths |-> top]

\* The number of separators, in all of these trees.
Levels == [p \in Paths |-> IF Parent[p] = top THEN 0
                           ELSE IF Parent[Parent[p]] = top THEN 1 ELSE 2]

IOCreates == {<<b, {"f"}>>}
IOSeekBy  == {-4}
IOOpens   == {<<a, {"c"}>>}
BothCreates == {<<a, {"f"}>>, <<b, {"f"}>>}
FullCreates == {<<a, {"f", "r"}>>, <<e, {"f"}>>}
FullOpens == {<<a, {"c", "P"}>>, <<e, {}>>}
NamesCreates == {<<a, {"f"}>>, <<b, {"F", "r"}>>}
NamesOpens == {<<a, {}>>}
==========================================================================
