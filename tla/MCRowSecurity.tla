--------------------------- MODULE MCRowSecurity ---------------------------
(* Instances of RowSecurity for TLC. *)
EXTENDS RowSecurity, TLC

\* Everything but the distinguished values is interchangeable.
Symmetry == Permutations(User) \cup Permutations(Request)
                \cup Permutations(Conn) \cup Permutations(Post)
=============================================================================
