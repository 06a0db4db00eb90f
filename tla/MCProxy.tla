------------------------------- MODULE MCProxy -------------------------------
(***************************************************************************)
(* TCPProxy with interchangeable connections, for TLC.                     *)
(***************************************************************************)
EXTENDS Proxy, TLC

\* No definition tells one connection from another.
Symmetry == Permutations(Conns)
=============================================================================
