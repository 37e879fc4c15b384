-------------------------- MODULE MCManagerSession --------------------------
(* Model values and symmetry for the runs of ManagerSession.               *)
EXTENDS ManagerSession, TLC

\* Connections are interchangeable (safety runs only).
ConnSymmetry == Permutations(Conn)
=============================================================================
