---------------------------- MODULE MCFratLayout ----------------------------
(* Real sector and structure sizes, partitions of about 18 megabytes, and a *)
(* uint32_t of 15 bits, so that a product of the layout wraps on them.      *)
EXTENDS FratLayout

\* Two partitions that follow each other.
Disk == <<[base |-> 2048, high |-> 38047], [base |-> 38048, high |-> 74047]>>
\* The default log and block size, a block of two sectors, one that is no
\* multiple of a sector, one smaller than a sector, and a log so long that the
\* position of the map wraps to zero.
AllFormats == {[bs |-> 512, nlog |-> 5], [bs |-> 1024, nlog |-> 1],
               [bs |-> 700, nlog |-> 2], [bs |-> 100, nlog |-> 5],
               [bs |-> 512, nlog |-> 62]}
============================================================================
