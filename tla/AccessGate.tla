----------------------------- MODULE AccessGate -----------------------------
(***************************************************************************)
(* Who a request is taken for (oxyd-core/src/auth): auth_middleware, in    *)
(* front of /auth/me, and the extractors RequireUser and OptionalUser,     *)
(* which take the access token out of the header by themselves.  Each of   *)
(* the three verifies the token and then, after an await, loads the        *)
(* account, while accounts are deactivated and deleted.                    *)
(*                                                                         *)
(* A token is its user and its age.  A client may have one of any age,     *)
(* even for an account that is not active: refresh goes on issuing them.   *)
(***************************************************************************)
EXTENDS Integers

CONSTANTS
    User,          \* ids in oxyd_auth.users
    NoUser,        \* "nobody" in a request
    Request,       \* requests the server runs at the same time
    AccessTtl,     \* AppState.access_ttl
    Leeway,        \* validation.leeway of auth_middleware
    DefaultLeeway  \* the leeway of Validation::new, for the extractors

ASSUME AccessGateAssumption ==
    /\ NoUser \notin User
    /\ AccessTtl \in Nat /\ Leeway \in Nat /\ DefaultLeeway \in Nat

VARIABLES
    accounts,  \* is_active of each user
    call       \* the requests in flight

authVars == <<accounts, call>>

\* What asks for the user: the middleware, RequireUser or OptionalUser.
Kind == {"middleware", "required", "optional"}

\* Bound: an age at which nobody accepts a token, which stands for all older.
Stale == AccessTtl + Leeway + DefaultLeeway + 1

\* user: sub of the token, then CurrentUser; age: of the token on arrival;
\* late: ghost, the account has not been active since the request arrived.
Call == [pc: {"idle", "load", "serve"}, kind: Kind, user: User \cup {NoUser},
         age: 0..Stale, late: BOOLEAN]

Anonymous(pc) ==
    [pc |-> pc, kind |-> "optional", user |-> NoUser, age |-> 0, late |-> FALSE]

NoCall == Anonymous("idle")

TypeOK ==
    /\ accounts \in [User -> BOOLEAN]
    /\ call \in [Request -> Call]

Init ==
    /\ accounts = [u \in User |-> TRUE]
    /\ call = [r \in Request |-> NoCall]

-----------------------------------------------------------------------------
(* A request *)

Doing(r, pc) == call[r].pc = pc

Arrived(r, c) == call' = [call EXCEPT ![r] = c]
End(r) == Arrived(r, NoCall)

LeewayOf(kind) == IF kind = "middleware" THEN Leeway ELSE DefaultLeeway

\* Mutant: validate_exp is not set.
UnexpiredEver(kind, age) == TRUE

\* exp >= now - leeway, with exp = iat + access_ttl.
Unexpired(kind, age) == age <= AccessTtl + LeewayOf(kind)

\* A token of u arrives and is verified at once, before any await.
Arrive(r, kind, u, age) ==
    /\ Doing(r, "idle")
    /\ Unexpired(kind, age)
    /\ Arrived(r, [pc |-> "load", kind |-> kind, user |-> u, age |-> age,
                   late |-> ~accounts[u]])
    /\ UNCHANGED accounts

\* Mutant: a sub that is no number is read as 0.
ArriveAsZero(r) ==
    /\ Doing(r, "idle")
    /\ Arrived(r, [Anonymous("serve") EXCEPT !.user = 0])
    /\ UNCHANGED accounts

\* No header, no "Bearer ", a bad signature, an expired token, a sub that is
\* no number: 401 changes nothing here, but OptionalUser goes on with None.
ArriveWithout(r) ==
    /\ Doing(r, "idle")
    /\ Arrived(r, Anonymous("serve"))
    /\ UNCHANGED accounts

\* The handler runs, as the user of the token.
Known(r) == Arrived(r, [call[r] EXCEPT !.pc = "serve"])

\* Mutant: OptionalUser keeps the user of the token when the account cannot
\* be loaded.
UnknownTrusted(r) == IF call[r].kind = "optional" THEN Known(r) ELSE End(r)

\* 401 or 500; or None, and the handler runs.
Unknown(r) ==
    IF call[r].kind = "optional" THEN Arrived(r, Anonymous("serve")) ELSE End(r)

\* Mutant: the query without is_active = TRUE.
LoadUserWhoeverItIs(r) ==
    /\ Doing(r, "load")
    /\ Known(r)
    /\ UNCHANGED accounts

\* SELECT email FROM oxyd_auth.users WHERE id = $1 AND is_active = TRUE
LoadUser(r) ==
    /\ Doing(r, "load")
    /\ IF accounts[call[r].user] THEN Known(r) ELSE Unknown(r)
    /\ UNCHANGED accounts

\* The query fails, or no connection comes free in time.
LoadFails(r) ==
    /\ Doing(r, "load")
    /\ Unknown(r)
    /\ UNCHANGED accounts

\* The handler answers.
Answer(r) ==
    /\ Doing(r, "serve")
    /\ End(r)
    /\ UNCHANGED accounts

\* The client hangs up.
Abandon(r) ==
    /\ ~Doing(r, "idle")
    /\ End(r)
    /\ UNCHANGED accounts

-----------------------------------------------------------------------------
(* The operator deactivates or reactivates an account.  Deletion is here a  *)
(* deactivation that is not taken back: the query finds neither.            *)

SetActive(u, active) ==
    /\ accounts' = [accounts EXCEPT ![u] = active]
    /\ call' = [r \in Request |->
                   [call[r] EXCEPT !.late = @ /\ ~(active /\ call[r].user = u)]]

-----------------------------------------------------------------------------
Next ==
    \/ \E r \in Request :
        \/ \E kind \in Kind, u \in User, age \in 0..Stale : Arrive(r, kind, u, age)
        \/ ArriveWithout(r)
        \/ LoadUser(r)
        \/ LoadFails(r)
        \/ Answer(r)
        \/ Abandon(r)
    \/ \E u \in User : SetActive(u, ~accounts[u])

Spec == Init /\ [][Next]_authVars

-----------------------------------------------------------------------------
(* Properties *)

\* A handler runs as a user only if the account was active at some time since
\* the request arrived, and by a token not expired for longer than the leeway
\* of its route; behind the middleware and RequireUser it never runs as
\* nobody.  In between the account may go and come back, the query may fail,
\* and tokens may be issued to an account that is not active.
TakenForTheOwner ==
    \A r \in Request : Doing(r, "serve") =>
        /\ ~call[r].late
        /\ call[r].user = NoUser => call[r].kind = "optional"
        /\ call[r].age <= AccessTtl + LeewayOf(call[r].kind)
=============================================================================
