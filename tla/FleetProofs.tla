------------------------------ MODULE FleetProofs ------------------------------
(***************************************************************************)
(* What the abstract fleet promises, for all units and all needs.          *)
(***************************************************************************)
EXTENDS Fleet, TLAPS

\* A unit joins, or is taken hold of again, on what it stands on, and nothing that carries
\* another is taken away.
LEMMA SupportedStep == Supported /\ [Next]_<<up, lost>> => Supported'
<1> SUFFICES ASSUME Supported, [Next]_<<up, lost>> PROVE Supported'
  OBVIOUS
<1>1. ASSUME NEW u \in Units, Join(u) PROVE Supported'
  BY <1>1 DEF Join, Supported
<1>2. ASSUME NEW u \in Units, Leave(u) PROVE Supported'
  BY <1>2 DEF Leave, Supported
<1>3. ASSUME NEW S \in SUBSET Units, Lose(S) PROVE Supported'
  BY <1>3 DEF Lose, Supported
<1>4. ASSUME NEW u \in Units, Regain(u) PROVE Supported'
  BY <1>4 DEF Regain, Supported
<1>5. CASE UNCHANGED <<up, lost>>
  BY <1>5 DEF Supported
<1>6. QED
  BY <1>1, <1>2, <1>3, <1>4, <1>5 DEF Next

\* Every unit that is up and not lost stands on units that are up.
THEOREM FleetSupported == Spec => []Supported
<1>1. Init => Supported
  BY DEF Init, Supported
<1>2. QED
  BY <1>1, SupportedStep, PTL DEF Spec
=============================================================================
