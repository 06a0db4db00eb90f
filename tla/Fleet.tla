-------------------------------- MODULE Fleet --------------------------------
(***************************************************************************)
(* What mockestra promises of the services of an application, without fx,  *)
(* Docker or the constructors: units come up one at a time, each after all *)
(* it needs; a unit goes down only when no unit that needs it is left up,  *)
(* except for units the application has lost hold of, and it takes hold of *)
(* a unit again only while what that unit needs is up.                     *)
(***************************************************************************)
CONSTANTS
    Units,
    Needs   \* the units each unit depends on

VARIABLES
    up,    \* the units that hold resources of the machine
    lost   \* the units whose teardown has failed or was skipped

Init == up = {} /\ lost = {}

Join(u) ==
    /\ u \notin up
    /\ Needs[u] \subseteq up
    /\ up' = up \cup {u}
    /\ UNCHANGED lost

Leave(u) ==
    /\ u \in up
    /\ \A v \in up \ lost : u \notin Needs[v]
    /\ up' = up \ {u}
    /\ UNCHANGED lost

Lose(S) ==
    /\ lost' = lost \cup S
    /\ UNCHANGED up

Regain(u) ==
    /\ u \in lost
    /\ Needs[u] \subseteq up
    /\ lost' = lost \ {u}
    /\ UNCHANGED up

Next ==
    \/ \E u \in Units : Join(u) \/ Leave(u) \/ Regain(u)
    \/ \E S \in SUBSET Units : Lose(S)

Spec == Init /\ [][Next]_<<up, lost>>

\* Every unit that is up and not lost stands on units that are up.
Supported == \A u \in up \ lost : Needs[u] \subseteq up
=============================================================================
