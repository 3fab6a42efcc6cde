----------------------------- MODULE OwnedTable -----------------------------
(***************************************************************************)
(* What select_rows, insert_rows, update_rows and delete_rows promise of a *)
(* table that keeps a row to its owner: a request acts at one instant, or  *)
(* not at all, and puts in, rewrites and takes out rows of its own caller  *)
(* only.  There are no connections, settings, policies and locks here.     *)
(***************************************************************************)
CONSTANTS
    User,    \* who can own a row
    Nobody,  \* not in User: an anonymous caller, the owner of a free place
    Post,    \* places for rows
    Request  \* requests served at the same time

VARIABLES
    owner,   \* whose row is in a place
    caller,  \* who makes a request
    phase    \* how far a request is

vars == <<owner, caller, phase>>

Init ==
    /\ owner = [p \in Post |-> Nobody]
    /\ caller = [r \in Request |-> Nobody]
    /\ phase = [r \in Request |-> "none"]

Arrive(r, u) ==
    /\ phase[r] = "none"
    /\ phase' = [phase EXCEPT ![r] = "open"]
    /\ caller' = [caller EXCEPT ![r] = u]
    /\ UNCHANGED owner

\* A place changes hands between the caller and nobody, or not at all; and
\* someone waits for the answer or has gone.
TakeEffect(r) ==
    /\ phase[r] = "open"
    /\ \/ phase' = [phase EXCEPT ![r] = "done"] /\ UNCHANGED caller
       \/ /\ phase' = [phase EXCEPT ![r] = "none"]
          /\ caller' = [caller EXCEPT ![r] = Nobody]
    /\ owner' \in [Post -> User \cup {Nobody}]
    /\ \A p \in Post :
          owner'[p] # owner[p] => {owner[p], owner'[p]} = {caller[r], Nobody}

\* Answered, refused or given up; the last two without any effect.
Leave(r) ==
    /\ phase[r] # "none"
    /\ phase' = [phase EXCEPT ![r] = "none"]
    /\ caller' = [caller EXCEPT ![r] = Nobody]
    /\ UNCHANGED owner

Next ==
    \E r \in Request :
        \/ \E u \in User \cup {Nobody} : Arrive(r, u)
        \/ TakeEffect(r)
        \/ Leave(r)

Spec == Init /\ [][Next]_vars
=============================================================================
