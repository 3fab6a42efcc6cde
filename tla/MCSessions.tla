----------------------------- MODULE MCSessions -----------------------------
(* Instances of Sessions for TLC. *)
EXTENDS SessionsRotation, TLC

\* Users and requests are interchangeable in the runs without temporal
\* properties.
Symmetry == Permutations(User) \cup Permutations(Request)
=============================================================================
