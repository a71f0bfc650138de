----------------------------- MODULE ReliableLink -----------------------------
(***************************************************************************)
(* What the two ends of a reliable channel are promised: the messages that *)
(* receive() returns at one end are the messages the other end gave to     *)
(* send(), each once, in the order they were sent.  Nothing here says how. *)
(***************************************************************************)
EXTENDS Integers, Sequences

CONSTANTS
    Client, Server,  \* the two ends
    Msg,             \* the messages applications send
    Greeting         \* what the client sent before the server's channel existed

VARIABLES
    sent,            \* sent[e]: the messages given to send() at e, oldest first
    read             \* read[e]: the messages receive() returned at e, oldest first

linkVars == <<sent, read>>

Side == {Client, Server}
Peer(e) == IF e = Client THEN Server ELSE Client

\* The server's channel starts behind the messages that its listening socket
\* has already taken from the client.
Init ==
    /\ sent = [e \in Side |-> IF e = Client THEN Greeting ELSE <<>>]
    /\ read = [e \in Side |-> IF e = Server THEN Greeting ELSE <<>>]

Send(e, m) ==
    /\ sent' = [sent EXCEPT ![e] = Append(@, m)]
    /\ UNCHANGED read

Receive(e) ==
    /\ Len(read[e]) < Len(sent[Peer(e)])
    /\ read' = [read EXCEPT ![e] = Append(@, sent[Peer(e)][Len(@) + 1])]
    /\ UNCHANGED sent

Next == \E e \in Side : (\E m \in Msg : Send(e, m)) \/ Receive(e)

Spec == Init /\ [][Next]_linkVars
===============================================================================
