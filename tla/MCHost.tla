------------------------------- MODULE MCHost -------------------------------
(***************************************************************************)
(* Two test processes, for TLC: an application with a port found free and a *)
(* fixed one, another of its process that looks for a free port too, and,   *)
(* in another process, one that repeats the prefix and the fixed port of    *)
(* the first.                                                              *)
(***************************************************************************)
EXTENDS Host, Services

Composed ==
    [m1 |-> [app |-> "first", prefix |-> "test", tag |-> "mailslurper"],
     z1 |-> [app |-> "first", prefix |-> "test", tag |-> "zitadel"],
     l2 |-> [app |-> "second", prefix |-> "other", tag |-> "livekit"],
     z3 |-> [app |-> "third", prefix |-> "test", tag |-> "zitadel"]]

MCUnits == DOMAIN Composed
MCApps  == {Composed[u].app : u \in MCUnits}
MCProcess == [a \in MCApps |-> IF a = "third" THEN "q2" ELSE "q1"]
MCOwner == [u \in MCUnits |-> Composed[u].app]
MCName  == [u \in MCUnits |-> <<Composed[u].prefix, Composed[u].tag>>]
MCNames == {MCName[u] : u \in MCUnits}

Listened(u) == {f.listen : f \in Catalogue[Composed[u].tag].proxies}

MCFixed   == [u \in MCUnits |-> Listened(u) \ {AnyPort}]
MCDynamic == {u \in MCUnits : AnyPort \in Listened(u)}

\* The fixed port, which the kernel may choose too, and another.
MCPorts == UNION {MCFixed[u] : u \in MCUnits} \cup {49152}
=============================================================================
