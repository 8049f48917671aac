---------------------------- MODULE MCStaticHost ----------------------------
(***************************************************************************)
(* Instances of StaticHost for TLC.                                        *)
(***************************************************************************)
EXTENDS StaticHost, TLC

CONSTANTS j1, j2, t1, t2

\* One tenant that already retains as many deployments as it may: a deploy
\* retires the oldest, a rollback the newest.
OneTenantFull == [t \in Tenants |-> MaxRetained]

\* A tenant that was never published and one with a full history.
FreshAndFull == [t \in Tenants |-> IF t = t1 THEN 0 ELSE MaxRetained]

\* Single failures, host restarts aside.
ProcessFaults == {"worker", "handler", "caddy"}

\* Power losses alone.
HostFaults == {"host"}

JobSymmetry == Permutations(Jobs)
=============================================================================
