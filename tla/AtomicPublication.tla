------------------------- MODULE AtomicPublication -------------------------
(***************************************************************************)
(* What the deployment pipeline promises to an operator, without locks,    *)
(* intents, crashes or Caddy: every request ends in exactly one outcome,   *)
(* a failed request publishes nothing, and a successful one replaces, in   *)
(* one step, the very deployment its issuer saw (no lost update).          *)
(***************************************************************************)
EXTENDS Naturals

CONSTANTS Jobs, Tenants, None, Founded

VARIABLES
    requests,    \* the requests issued so far, None before
    outcome,     \* the outcome reported for each request
    published    \* the deployment each tenant publishes

avars == <<requests, outcome, published>>

Request == [op : {"deploy", "rollback"}, tenant : Tenants, target : Nat, source : Nat]

Init ==
    /\ requests = [j \in Jobs |-> None]
    /\ outcome = [j \in Jobs |-> "none"]
    /\ published = Founded

\* The issuer binds the request to the deployment published at that moment.
Issue(j) ==
    /\ requests[j] = None
    /\ requests'[j] \in Request
    /\ requests'[j].source = published[requests'[j].tenant]
    /\ requests' = [requests EXCEPT ![j] = requests'[j]]
    /\ UNCHANGED <<outcome, published>>

Fail(j) ==
    /\ requests[j] # None /\ outcome[j] = "none"
    /\ outcome' = [outcome EXCEPT ![j] = "failed"]
    /\ UNCHANGED <<requests, published>>

\* A rollback publishes the deployment it named, a deploy a newer one than the
\* deployment it replaces.
Publish(j) ==
    /\ requests[j] # None /\ outcome[j] = "none"
    /\ LET r == requests[j]
       IN  /\ published[r.tenant] = r.source
           /\ IF r.op = "rollback" THEN published'[r.tenant] = r.target
                                   ELSE published'[r.tenant] > r.source
           /\ published' = [published EXCEPT ![r.tenant] = published'[r.tenant]]
    /\ outcome' = [outcome EXCEPT ![j] = "succeeded"]
    /\ UNCHANGED requests

Next == \E j \in Jobs : Issue(j) \/ Fail(j) \/ Publish(j)

Spec == Init /\ [][Next]_avars
=============================================================================
