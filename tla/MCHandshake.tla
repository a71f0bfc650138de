------------------------------ MODULE MCHandshake ------------------------------
(* Small instances of Handshake. *)
EXTENDS Handshake, TLC

CONSTANTS c1, c2

OneAfterTheOther == <<c1, c2>>
Nobody == <<>>

\* How often each end reads past the end of acks_to_send.
Never == [x \in End |-> 0]
Twice == [x \in End |-> 2]
===============================================================================
