--------------------------- MODULE MCTableRequest ---------------------------
(* Instances of TableRequest for TLC. *)
EXTENDS TableRequest
=============================================================================
