-------------------------- MODULE MCRegistryCache --------------------------
(* Instances of RegistryCache for TLC. *)
EXTENDS RegistryCache, TLC

\* Tables and requests are interchangeable in the run without temporal
\* properties.
Symmetry == Permutations(Table) \cup Permutations(Request)
=============================================================================
