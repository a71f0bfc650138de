------------------------------- MODULE MCServer -------------------------------
(* Small instances of Server. *)
EXTENDS Server, TLC

CONSTANTS r1, r2, d1, d2, t1, t2, i1, i2

\* The clients behind one address.
OneAddress == [c \in Client |-> i1]
TwoAddresses == [c \in Client |-> IF c = d2 THEN i2 ELSE i1]

Symmetry == {p @@ q : p \in Permutations({t1, t2}), q \in Permutations({r1, r2})}
===============================================================================
