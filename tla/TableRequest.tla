---------------------------- MODULE TableRequest ----------------------------
(***************************************************************************)
(* A request on /api/{table} from its header to its statement              *)
(* (oxyd-core/src/virtual_crud/routes.rs): OptionalUser says who it is,    *)
(* ensure_exposed whether it may go on.  AccessGate and RegistryCache are  *)
(* composed here over the same requests and one passage of time.  Requests *)
(* on /auth/me, which pass the middleware and no gate, run beside them.    *)
(***************************************************************************)
EXTENDS AccessGate

CONSTANTS
    Table, NoTable, Ttl, MaxStep  \* as in RegistryCache

ASSUME TableRequestAssumption ==
    /\ NoTable \notin Table
    /\ Ttl \in Nat \ {0}
    /\ MaxStep \in Nat

VARIABLES
    registry, row, existsCache, configCache, sinceExists, sinceConfig,
    gate  \* how far ensure_exposed is for each request

Gate == INSTANCE RegistryCache WITH req <- gate

gateVars == <<registry, row, existsCache, configCache, gate, sinceExists, sinceConfig>>

allVars == <<authVars, gateVars>>

Begin == Init /\ Gate!Init

-----------------------------------------------------------------------------
(* A request *)

\* Mutant: the answer of ensure_exposed, whether a user is required, is not
\* looked at.
EnterAsSomeone(r, t) ==
    /\ Doing(r, "serve") /\ call[r].kind = "optional"
    /\ Gate!Start(r, t, TRUE)
    /\ UNCHANGED authVars

\* Mutant: a handler that does not call ensure_exposed.
EnterUngated(r, t) ==
    /\ Doing(r, "serve") /\ call[r].kind = "optional" /\ gate[r] = Gate!Idle
    /\ gate' = [gate EXCEPT ![r] = [Gate!Idle EXCEPT
                   !.pc = "run", !.table = t, !.val = "absent"]]
    /\ UNCHANGED <<authVars, registry, row, existsCache, configCache,
                   sinceExists, sinceConfig>>

\* The extractors are done, ensure_exposed begins.
Enter(r, t) ==
    /\ Doing(r, "serve") /\ call[r].kind = "optional"
    /\ Gate!Start(r, t, call[r].user # NoUser)
    /\ UNCHANGED authVars

\* The next step of the gate or the statement; the answer ends the request.
Pass(r) ==
    /\ Gate!Serve(r)
    /\ IF gate'[r] = Gate!Idle THEN End(r) ELSE UNCHANGED call
    /\ UNCHANGED accounts

\* /auth/me
Me(r) == call[r].kind # "optional" /\ Answer(r) /\ UNCHANGED gateVars

\* The client hangs up, the database fails or a body is no JSON.
HangUp(r) ==
    /\ Abandon(r)
    /\ IF gate[r] = Gate!Idle THEN UNCHANGED gateVars ELSE Gate!Drop(r)

-----------------------------------------------------------------------------
Work(r) ==
    \/ LoadUser(r) /\ UNCHANGED gateVars
    \/ Me(r)
    \/ \E t \in Table : Enter(r, t)
    \/ Pass(r)

\* The clock is the gate's.
Tick == Gate!Tick /\ UNCHANGED authVars

Operator ==
    \/ \E v \in Gate!Presence \ {registry} : Gate!SetRegistry(v)
    \/ \E t \in Table, c \in Gate!Config \cup {Gate!NoValue} :
          row[t] # c /\ Gate!SetRow(t, c)
    \/ Gate!Evict

Move ==
    \/ \E r \in Request :
        \/ \E kind \in Kind, u \in User, age \in 0..Stale :
              Arrive(r, kind, u, age) /\ UNCHANGED gateVars
        \/ ArriveWithout(r) /\ UNCHANGED gateVars
        \/ LoadFails(r) /\ UNCHANGED gateVars
        \/ Work(r)
        \/ HangUp(r)
    \/ \E u \in User : SetActive(u, ~accounts[u]) /\ UNCHANGED gateVars
    \/ Operator /\ UNCHANGED authVars
    \/ Tick

System == Begin /\ [][Move]_allVars

\* Time passes, and the runtime polls every task that is ready.
FairSystem == System /\ WF_allVars(Tick) /\ \A r \in Request : WF_allVars(Work(r))

-----------------------------------------------------------------------------
(* Properties *)

\* The types of both components.
Types == TypeOK /\ Gate!TypeOK

\* A statement runs on a table only for a reason that held within the window
\* of the caches: there was no registry, the table was exposed to all, or it
\* was exposed to users and the request runs as one whose account was active
\* since it arrived.  An account that is deactivated, a database that fails
\* while it is loaded and a cache that is behind do not add up to more.
ReachedRightly ==
    \A r \in Request : gate[r].pc = "run" =>
        LET g == gate[r]
            c == call[r]
        IN  IF g.val = "absent"
            THEN sinceExists["absent"] <= Gate!Window + g.wait
            ELSE /\ g.val = "public" \/ (g.val = "auth" /\ c.user # NoUser /\ ~c.late)
                 /\ sinceConfig[g.table][g.val] <= Gate!Window + g.wait

\* Seen from the gate the whole is an instance of it, its fairness included.
ImplementsGate == Gate!FairSpec

\* A table that stays hidden is in the end reached by no request.
HiddenInTheEnd == Gate!HiddenInTheEnd

\* An account that stays deactivated or deleted is in the end nobody's, in
\* any handler, whatever tokens refresh goes on to issue for it.
LockedOutInTheEnd ==
    \A u \in User :
        <>[]~accounts[u]
            => <>[](\A r \in Request : ~(Doing(r, "serve") /\ call[r].user = u))
=============================================================================
