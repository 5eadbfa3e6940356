------------------------------- MODULE MCBoot -------------------------------
(* A small instance of Boot for TLC. *)
EXTENDS Boot

CONSTANTS k, a, b, c

\* Chains, a shared library at two depths, rings of one to four files.
MCGraphs ==
    {[f \in Files |-> IF f = k THEN x ELSE IF f = a THEN y ELSE IF f = b THEN z ELSE w] :
        x \in {<<>>, <<a>>, <<b, a>>}, y \in {<<>>, <<c>>, <<b>>, <<k>>, <<a, b>>},
        z \in {<<>>, <<a>>, <<c>>}, w \in {<<>>, <<b>>, <<k>>}}
MCAbsents == {{}, {k}, {c}}
MCFlaws   == {<<>>, <<k, a, "name">>, <<a, c, "name">>, <<a, b, "link">>}

\* Only what efi_main loads itself.
Alone == {[f \in Files |-> <<>>]}

At(s, n) == [start |-> s, pages |-> n]
\* Two, three or four blocks with a hole, in any order the firmware likes.
MCMaps ==
    {<<At(0, 2), At(3, 1)>>, <<At(3, 1), At(0, 2)>>,
     <<At(0, 1), At(1, 1), At(3, 1)>>, <<At(1, 1), At(3, 1), At(0, 1)>>,
     <<At(3, 1), At(1, 1), At(0, 1)>>,
     <<At(3, 2), At(0, 1), At(2, 1), At(1, 1)>>}
=============================================================================
