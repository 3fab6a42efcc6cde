---------------------------- MODULE MCTableMeta ----------------------------
(* Instances of TableMeta for TLC. *)
EXTENDS TableMeta, TLC

\* Requests are interchangeable.
Symmetry == Permutations(Request)
=============================================================================
