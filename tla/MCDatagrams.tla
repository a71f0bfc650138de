------------------------------ MODULE MCDatagrams ------------------------------
(* Small instances of Datagrams. *)
EXTENDS Datagrams, TLC

CONSTANTS c1, c2, a, b

\* Each client has an address of its own.
OwnAddress == [c \in Client |-> c]

\* Two tasks may wait for one channel, one for every other.
TwoForTheFirst == [n \in Channel |-> IF n = 1 THEN 2 ELSE 1]

\* Nothing looks into a text.
Symmetry == Permutations({a, b})
===============================================================================
