----------------------------- MODULE CaddyUnit -----------------------------
(***************************************************************************)
(* caddy.service and its durable start intent: the gate (ExecStartPre)     *)
(* that fences every start attempt to the active generation, the launcher, *)
(* the verifier (ExecStartPost) that clears the intent, and the two things *)
(* the recovery unit (OnFailure=, Wants=) does.  Each of them takes the    *)
(* publication lock; the modules that use these actions add that guard.    *)
(*                                                                         *)
(* Simplifications.                                                        *)
(*  - A start target (generation identity and manifest digest) is the      *)
(*    identity: generations are immutable.                                 *)
(*  - The lists of invocation identities are their lengths, and            *)
(*    service.fenced says that the intent's invocationId is the identity   *)
(*    of the start in progress: systemd draws a fresh one for every start. *)
(*  - A refused gate changes nothing durable and is not a step.            *)
(*  - Mode host-restore belongs to the disaster-recovery coordinator.      *)
(***************************************************************************)
EXTENDS Naturals

CONSTANTS
    None,               \* absent: no intent, no predecessor, no process
    MaxStartAttempts    \* MAX_CADDY_START_ATTEMPTS, 3 in the code

ASSUME StartAttemptsAssumption == MaxStartAttempts \in Nat \ {0}

VARIABLES
    active,     \* the durable active generation reference, None before the first
    running,    \* the configuration the Caddy process has loaded, or None
    startup,    \* the durable start intent, or None
    service     \* state of the unit, and whether the intent is bound to it

unitVars == <<active, running, startup, service>>

Ids == Nat

StartPhases == {"candidate-prepared", "restart-required", "candidate-starting",
                "rollback-restart-required", "recovery-starting", "ordinary-starting"}

StartIntent == [mode : {"ordinary", "transactional"}, phase : StartPhases,
                candidate : Ids, previous : Ids \cup {None},
                tries : 0..MaxStartAttempts, retries : 0..MaxStartAttempts]

\* None is a value of its own.
ASSUME NoneAssumption == None \notin Ids /\ None \notin StartIntent

ServiceRecord == [state : {"down", "gated", "starting", "active"}, fenced : BOOLEAN]

Down == [state |-> "down", fenced |-> FALSE]

UnitTypeOK ==
    /\ active \in Ids \cup {None}
    /\ running \in Ids \cup {None}
    /\ startup \in StartIntent \cup {None}
    /\ service \in ServiceRecord

\* CaddyStartIntent.selected_target.
SelectedTarget(s) ==
    IF s.phase \in {"rollback-restart-required", "recovery-starting"}
    THEN s.previous ELSE s.candidate

CandidatePhases == {"restart-required", "candidate-starting", "ordinary-starting"}
RecoveryPhases == {"rollback-restart-required", "recovery-starting"}

\* CaddyStartIntent.__post_init__: the shapes a constructor accepts.
WellFormed(s) ==
    \/ /\ s.mode = "ordinary" /\ s.phase = "ordinary-starting"
       /\ s.previous = None
       /\ s.tries \in 1..MaxStartAttempts /\ s.retries = 0
    \/ /\ s.mode = "transactional"
       /\ s.previous \notin {None, s.candidate}
       /\ \/ /\ s.phase \in {"candidate-prepared", "restart-required"}
             /\ s.tries = 0 /\ s.retries = 0
          \/ /\ s.phase = "candidate-starting"
             /\ s.tries \in 1..MaxStartAttempts /\ s.retries = 0
          \/ /\ s.phase = "rollback-restart-required"
             /\ s.tries = MaxStartAttempts /\ s.retries = 0
          \/ /\ s.phase = "recovery-starting"
             /\ s.tries = MaxStartAttempts /\ s.retries \in 1..MaxStartAttempts

-----------------------------------------------------------------------------
\* prepare_start without an intent: the first attempt of an ordinary start.
OrdinaryStart ==
    /\ startup = None
    /\ startup' = [mode |-> "ordinary", phase |-> "ordinary-starting",
                   candidate |-> active, previous |-> None, tries |-> 1, retries |-> 0]

\* CaddyStartupStore.prepare_start, where it does not raise.
PrepareStart ==
    \/ OrdinaryStart
    \/ /\ startup # None
       /\ SelectedTarget(startup) = active
       /\ startup.phase \in CandidatePhases
       /\ startup.tries < MaxStartAttempts
       /\ startup' = [startup EXCEPT !.tries = @ + 1,
                         !.phase = IF startup.mode = "ordinary" THEN "ordinary-starting"
                                                                ELSE "candidate-starting"]
    \/ /\ startup # None
       /\ SelectedTarget(startup) = active
       /\ startup.phase \in RecoveryPhases
       /\ startup.retries < MaxStartAttempts
       /\ startup' = [startup EXCEPT !.retries = @ + 1, !.phase = "recovery-starting"]

\* caddy_start_gate_main.
StartGate ==
    /\ service.state = "down"
    /\ active # None
    /\ PrepareStart
    /\ service' = [state |-> "gated", fenced |-> TRUE]
    /\ UNCHANGED <<active, running>>

\* caddy_launcher_main: the active reference is read again, then exec.
Launch ==
    /\ service.state = "gated"
    /\ running' = active
    /\ service' = [service EXCEPT !.state = "starting"]
    /\ UNCHANGED <<active, startup>>

\* Mutant of StartMatches: only a transactional start can succeed.
StartMatchesTransactional ==
    /\ startup # None /\ service.fenced
    /\ startup.mode = "transactional"
    /\ running = active

\* require_matching_success and verify_starting_caddy.
StartMatches ==
    /\ startup # None /\ service.fenced
    /\ SelectedTarget(startup) = active
    /\ running = active

\* Mutant of VerifyStart: a successful start leaves its intent behind.
VerifyStartKeepsIntent ==
    /\ service.state = "starting" /\ StartMatches
    /\ service' = [state |-> "active", fenced |-> FALSE]
    /\ UNCHANGED <<active, running, startup>>

\* caddy_start_verifier_main; a failed ExecStartPost ends the process.
VerifyStart ==
    /\ service.state = "starting"
    /\ IF StartMatches
       THEN startup' = None /\ UNCHANGED running /\ service' = [state |-> "active", fenced |-> FALSE]
       ELSE UNCHANGED startup /\ running' = None /\ service' = Down
    /\ UNCHANGED active

\* The start fails, or the running process dies.
CaddyCrash ==
    /\ service.state # "down"
    /\ running' = None
    /\ service' = Down
    /\ UNCHANGED <<active, startup>>

\* CaddyStartupStore.clear_exhausted_ordinary_start, in the recovery unit.
ClearExhaustedOrdinaryStart ==
    /\ startup # None
    /\ startup.mode = "ordinary" /\ startup.tries = MaxStartAttempts
    /\ startup' = None
    /\ service' = [service EXCEPT !.fenced = FALSE]
    /\ UNCHANGED <<active, running>>

\* Mutant of RollbackAdmitted: any failed candidate start rolls back.
RollbackAdmittedEarly ==
    /\ startup # None /\ startup.mode = "transactional"
    /\ startup.phase \in {"rollback-restart-required", "candidate-starting"}

\* Mutant of RollbackAdmitted: only a rollback already marked is resumed.
RollbackAdmittedMarkedOnly ==
    /\ startup # None /\ startup.mode = "transactional"
    /\ startup.phase = "rollback-restart-required"

\* require_rollback_target returned the intent.
RollbackAdmitted ==
    /\ startup # None /\ startup.mode = "transactional"
    /\ \/ startup.phase = "rollback-restart-required"
       \/ startup.phase = "candidate-starting" /\ startup.tries = MaxStartAttempts

\* mark_rollback_restart_required: the invocation binding is dropped.
MarkRollbackRestartRequired ==
    /\ startup' = [startup EXCEPT !.phase = "rollback-restart-required"]
    /\ service' = [service EXCEPT !.fenced = FALSE]
    /\ UNCHANGED <<active, running>>
=============================================================================
