--------------------------- MODULE MCReliableChannel ---------------------------
(* Small instances of ReliableChannel. *)
EXTENDS ReliableChannel, TLC

CONSTANTS a, b

\* How many messages the client and the server send.
TwoAndOne == [e \in Side |-> IF e = Client THEN 2 ELSE 1]
ThreeAndNone == [e \in Side |-> IF e = Client THEN 3 ELSE 0]
TwoAndNone == [e \in Side |-> IF e = Client THEN 2 ELSE 0]
OneAndOne == [e \in Side |-> 1]

\* How many packets may be in flight to each.
OneToEach == [e \in Side |-> 1]
TwoToServer == [e \in Side |-> IF e = Server THEN 2 ELSE 1]

\* As after the handshake: the listening socket took the client's "1".
Hello == <<a>>
NoGreeting == <<>>

\* Nothing looks into a message.
Messages == Permutations({a, b})
================================================================================
