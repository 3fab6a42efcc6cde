-------------------------- MODULE SessionsRotation --------------------------
(***************************************************************************)
(* Sessions as an implementation of RotatingTokens: the tokens are those   *)
(* of the rows, owned by the user of the row and retired once revoked.     *)
(***************************************************************************)
EXTENDS Sessions

Owner == [s \in DOMAIN sess |-> sess[s].user]
Retired == {s \in DOMAIN sess : sess[s].revoked}
Closed == {u \in User : users[u] = "deleted"}

Tokens == INSTANCE RotatingTokens
            WITH Token <- SessionId, owner <- Owner, retired <- Retired, closed <- Closed

\* Every step of the service is a step of the abstract token, or none: refresh
\* retires a token once and gives its owner exactly one other, unless it is
\* presented while a use of it is open, an abandoned one included, and nothing
\* but a login, a refresh or the end of the account changes who can use what.
ImplementsRotation == Tokens!Spec
=============================================================================
