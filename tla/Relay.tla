-------------------------------- MODULE Relay --------------------------------
(***************************************************************************)
(* What a TCP proxy promises of each connection, without its sockets and    *)
(* goroutines: a client waits until it is answered by a target or refused;  *)
(* then what one end sends is delivered to the other, in order and once;    *)
(* and the proxy hangs up only when both ends have finished and have got    *)
(* everything, or when one of them has closed.                              *)
(***************************************************************************)
EXTENDS Naturals

CONSTANT Conns   \* the connections clients may open

VARIABLES
    link,            \* how far each connection is
    client, server,  \* its two ends: "none", "open", finished sending ("fin") or "closed"
    sent,            \* what the sender of each stream has sent
    received         \* what has been delivered of it

relayVars == <<link, client, server, sent, received>>

Streams == {"request", "response"}

Source(c, d) == IF d = "request" THEN client[c] ELSE server[c]

Init ==
    /\ link = [c \in Conns |-> "idle"]
    /\ client = [c \in Conns |-> "none"]
    /\ server = [c \in Conns |-> "none"]
    /\ sent = [c \in Conns |-> [d \in Streams |-> 0]]
    /\ received = [c \in Conns |-> [d \in Streams |-> 0]]

Ask(c) ==
    /\ link[c] = "idle"
    /\ link' = [link EXCEPT ![c] = "waiting"]
    /\ client' = [client EXCEPT ![c] = "open"]
    /\ UNCHANGED <<server, sent, received>>

Answer(c) ==
    /\ link[c] = "waiting"
    /\ link' = [link EXCEPT ![c] = "answered"]
    /\ server' = [server EXCEPT ![c] = "open"]
    /\ UNCHANGED <<client, sent, received>>

Refuse(S) ==
    /\ \A c \in S : link[c] = "waiting"
    /\ link' = [c \in Conns |-> IF c \in S THEN "refused" ELSE link[c]]
    /\ UNCHANGED <<client, server, sent, received>>

Send(c, d) ==
    /\ Source(c, d) = "open"
    /\ sent' = [sent EXCEPT ![c][d] = @ + 1]
    /\ UNCHANGED <<link, client, server, received>>

Deliver(c, d) ==
    /\ link[c] = "answered"
    /\ received[c][d] < sent[c][d]
    /\ received' = [received EXCEPT ![c][d] = @ + 1]
    /\ UNCHANGED <<link, client, server, sent>>

ClientEnds(c) ==
    /\ client[c] \in {"open", "fin"}
    /\ \E to \in {"fin", "closed"} : client' = [client EXCEPT ![c] = to]
    /\ UNCHANGED <<link, server, sent, received>>

ServerEnds(c) ==
    /\ server[c] \in {"open", "fin"}
    /\ \E to \in {"fin", "closed"} : server' = [server EXCEPT ![c] = to]
    /\ UNCHANGED <<link, client, sent, received>>

HangUp(c) ==
    /\ link[c] = "answered"
    /\ \/ "closed" \in {client[c], server[c]}
       \/ client[c] = "fin" /\ server[c] = "fin" /\ received[c] = sent[c]
    /\ link' = [link EXCEPT ![c] = "over"]
    /\ UNCHANGED <<client, server, sent, received>>

Next ==
    \/ \E c \in Conns : Ask(c) \/ Answer(c) \/ ClientEnds(c) \/ ServerEnds(c) \/ HangUp(c)
    \/ \E c \in Conns, d \in Streams : Send(c, d) \/ Deliver(c, d)
    \/ \E S \in SUBSET Conns : Refuse(S)

Spec == Init /\ [][Next]_relayVars
=============================================================================
