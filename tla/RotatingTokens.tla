--------------------------- MODULE RotatingTokens ---------------------------
(***************************************************************************)
(* What a rotating refresh token promises, with no requests, rows or       *)
(* transactions: it belongs to one account from the moment it is issued,   *)
(* and one use retires it and issues exactly one other token to the same   *)
(* account.  A retired token can be used again only if it was presented    *)
(* while a use of it was open.  Only closing the account takes a token     *)
(* away otherwise.                                                         *)
(* (Expiry, which makes no step, is left to Sessions.)                     *)
(***************************************************************************)
CONSTANTS Token, User

VARIABLES
    owner,   \* the account of each token issued
    retired, \* tokens that have been used
    closed,  \* accounts that are no more
    minted,  \* <<old, new>> for every use
    raced    \* tokens presented while a use of them was open

vars == <<owner, retired, closed, minted, raced>>

Fresh == Token \ (DOMAIN owner \cup {p[1] : p \in minted})

With(f, t, u) == [x \in DOMAIN f \cup {t} |-> IF x = t THEN u ELSE f[x]]

Init ==
    /\ owner = [t \in {} |-> CHOOSE u \in User : TRUE]
    /\ retired = {}
    /\ closed = {}
    /\ minted = {}
    /\ raced = {}

\* An account that is open is given a token.
Issue ==
    \E t \in Fresh, u \in User \ closed :
        /\ owner' = With(owner, t, u)
        /\ UNCHANGED <<retired, closed, minted, raced>>

\* A token is traded for a new one.
Rotate ==
    \E t \in DOMAIN owner, n \in Fresh :
        /\ t \in retired => t \in raced
        /\ owner' = With(owner, n, owner[t])
        /\ retired' = retired \cup {t}
        /\ minted' = minted \cup {<<t, n>>}
        /\ UNCHANGED <<closed, raced>>

\* Two clients of one token, or one that has given up on a use that will still
\* take effect, do not wait for each other.
Race ==
    \E t \in Token :
        /\ raced' = raced \cup {t}
        /\ UNCHANGED <<owner, retired, closed, minted>>

\* An account goes, and its tokens with it.
Close ==
    \E u \in User \ closed :
        LET left == {t \in DOMAIN owner : owner[t] # u}
        IN  /\ closed' = closed \cup {u}
            /\ owner' = [t \in left |-> owner[t]]
            /\ retired' = retired \cap left
            /\ UNCHANGED <<minted, raced>>

Next == Issue \/ Rotate \/ Race \/ Close

Spec == Init /\ [][Next]_vars
=============================================================================
