-------------------------- MODULE CaddyValidation --------------------------
(***************************************************************************)
(* The validation of a generation by its own Caddy binary, as root: the    *)
(* agent runs "list-modules" and then "validate" in a systemd scope, reads *)
(* their output up to a limit and a deadline, and tears the scope down     *)
(* after each command (caddy_runtime.py, _validate_generation_candidate).  *)
(*                                                                         *)
(* The binary is not trusted yet.  It may never exit, keep its output      *)
(* open, write without end, or leave a descendant in a session of its own  *)
(* that only the scope still holds.  systemctl may fail, or answer late    *)
(* with or without having done its work; systemd-run may be slow to        *)
(* register the scope; the agent may be killed at any point.               *)
(***************************************************************************)

VARIABLES
    pc,       \* where the agent is
    cmd,      \* the command it runs
    result,   \* its verdict, "none" until it has one
    broken,   \* the teardown raised an error (scope_error)
    late,     \* the command's deadline has passed
    proc,     \* the command's process: none, starting, running, dead
    reaped,   \* whether the agent has its exit code
    code,     \* the exit code
    child,    \* a descendant in its own session is alive
    output,   \* the pipe: "open", "flood" (beyond the limit) or "eof"
    scope,    \* the unit: absent, active, gone
    missed,   \* the scope was registered after the agent had stopped it
    token,    \* the DNS credential in the process's environment
    root      \* the validation directory under /dev/shm exists

agent == <<pc, cmd, result, broken, reaped, root>>
candidate == <<proc, code, child, output, scope, token>>
vars == <<agent, candidate, late, missed>>

Alive == proc \in {"starting", "running"} \/ child

Init ==
    /\ pc = "parse" /\ cmd = "list-modules" /\ result = "none"
    /\ broken = FALSE /\ late = FALSE /\ missed = FALSE
    /\ proc = "none" /\ reaped = FALSE /\ code = 0
    /\ child = FALSE /\ output = "eof" /\ scope = "absent"
    /\ token = "none" /\ root = FALSE

----------------------------------------------------------------------------
(* The agent.                                                              *)

(* The generation's environment names one DNS credential and nothing that  *)
(* is forbidden, or the generation is refused.                             *)
ParseEnvironment ==
    /\ pc = "parse"
    /\ \/ pc' = "create" /\ UNCHANGED result
       \/ pc' = "done" /\ result' = "refused"
    /\ UNCHANGED <<cmd, broken, reaped, root, candidate, late, missed>>

(* The private directory; whatever fails on the way removes it again.      *)
CreateValidationEnvironment ==
    /\ pc = "create"
    /\ \/ pc' = "start" /\ root' = TRUE /\ UNCHANGED result
       \/ pc' = "done" /\ result' = "refused" /\ UNCHANGED root
    /\ UNCHANGED <<cmd, broken, reaped, candidate, late, missed>>

(* The credential each command is given: none, then a placeholder.         *)
TokenFor(c) == IF c = "list-modules" THEN "none" ELSE "placeholder"


(* Popen of systemd-run --scope with the sandboxed command.                *)
StartCommand ==
    /\ pc = "start"
    /\ \/ /\ pc' = "read" /\ proc' = "starting" /\ scope' = "absent" /\ output' = "open"
          /\ token' = TokenFor(cmd) /\ reaped' = FALSE /\ late' = FALSE
          /\ UNCHANGED result
       \/ /\ pc' = "clean" /\ result' = "refused"
          /\ UNCHANGED <<proc, scope, output, token, reaped, late>>
    /\ UNCHANGED <<cmd, broken, root, code, child, missed>>

Refuse == result' = "refused" /\ pc' = "kill"

(* The read loop: the deadline is looked at first.                         *)
ReadOutput ==
    /\ pc = "read"
    /\ \/ late /\ Refuse
       \/ ~late /\ output = "flood" /\ Refuse
       \/ ~late /\ output = "eof" /\ pc' = "reap" /\ UNCHANGED result
    /\ UNCHANGED <<cmd, broken, reaped, root, candidate, late, missed>>

(* process.wait for what is left of the deadline.                          *)
Reap ==
    /\ pc = "reap"
    /\ \/ proc = "dead" /\ reaped' = TRUE /\ pc' = "kill" /\ UNCHANGED result
       \/ proc # "dead" /\ late /\ Refuse /\ UNCHANGED reaped
    /\ UNCHANGED <<cmd, broken, root, candidate, late, missed>>

(* Every process of an active scope is gone, and with them the pipe.       *)
ScopeKilled ==
    /\ child' = FALSE
    /\ IF proc = "running"
       THEN proc' = "dead" /\ code' = 1 ELSE UNCHANGED <<proc, code>>
    /\ output' = IF proc = "starting" THEN output ELSE "eof"

(* systemctl has its effect on a scope that is there, or has none.         *)
Effective(killed, gone) ==
    IF scope = "active"
    THEN killed /\ scope' = gone
    ELSE UNCHANGED <<proc, code, child, output, scope>>

Ineffective == UNCHANGED <<proc, code, child, output, scope>>

TimedOut == broken' = TRUE /\ pc' = "group"

(* systemctl kill, then stop: a failure is ignored, a timeout is not.      *)
KillScope ==
    /\ pc = "kill"
    /\ \/ pc' = "stop" /\ UNCHANGED broken
       \/ TimedOut
    /\ Effective(ScopeKilled, "active") \/ Ineffective
    /\ UNCHANGED <<cmd, result, reaped, root, token, late, missed>>

StopScope ==
    /\ pc = "stop"
    /\ \/ pc' = "show" /\ UNCHANGED broken
       \/ TimedOut
    /\ Effective(ScopeKilled, "gone") \/ Ineffective
    /\ UNCHANGED <<cmd, result, reaped, root, token, late, missed>>

(* The unit must be unknown, inactive or failed.                           *)
TornDown(s) == s # "active"

ShowScope ==
    /\ pc = "show"
    /\ pc' = "group"
    /\ \/ broken' = ~TornDown(scope)
       \/ broken' = TRUE
    /\ UNCHANGED <<cmd, result, reaped, root, candidate, late, missed>>

(* killpg of the process's own session when it has not been reaped; a      *)
(* process in uninterruptible sleep does not go at once.                   *)
KillGroup ==
    /\ pc = "group"
    /\ pc' = "wait"
    /\ \/ /\ ~reaped /\ proc \in {"starting", "running"}
          /\ proc' = "dead" /\ code' = 1
          /\ output' = IF child THEN output ELSE "eof"
          /\ UNCHANGED <<child, scope>>
       \/ Ineffective
    /\ UNCHANGED <<cmd, result, broken, reaped, root, token, late, missed>>

(* What the finished command says: its exit code, and for list-modules     *)
(* whether the DNS provider is among the modules.                          *)
Passed == result = "none" /\ code = 0

Verdict ==
    \/ /\ Passed /\ cmd = "list-modules"
       /\ \/ pc' = "start" /\ cmd' = "validate" /\ UNCHANGED result
          \/ pc' = "clean" /\ result' = "refused" /\ UNCHANGED cmd
    \/ /\ Passed /\ cmd = "validate"
       /\ pc' = "clean" /\ result' = "valid" /\ UNCHANGED cmd
    \/ ~Passed /\ pc' = "clean" /\ result' = "refused" /\ UNCHANGED cmd

\* Mutant of WaitReaped: a process still alive counts as reaped.
MutantWaitReaped ==
    /\ pc = "wait"
    /\ reaped' = TRUE
    /\ Verdict
    /\ UNCHANGED <<broken, root, candidate, late, missed>>

(* process.wait(5): the process is reaped, or its teardown is in error.    *)
WaitReaped ==
    /\ pc = "wait"
    /\ IF broken \/ proc # "dead"
       THEN /\ broken' = TRUE /\ result' = "refused" /\ pc' = "clean"
            /\ UNCHANGED <<cmd, reaped>>
       ELSE /\ reaped' = TRUE
            /\ Verdict
            /\ UNCHANGED broken
    /\ UNCHANGED <<root, candidate, late, missed>>

(* The outermost finally: rmtree, which a survivor may defeat.             *)
Clean ==
    /\ pc = "clean"
    /\ pc' = "done"
    /\ root' \in IF Alive THEN BOOLEAN ELSE {FALSE}
    /\ UNCHANGED <<cmd, result, broken, reaped, candidate, late, missed>>

Agent ==
    \/ ParseEnvironment \/ CreateValidationEnvironment \/ StartCommand
    \/ ReadOutput \/ Reap \/ KillScope \/ StopScope \/ ShowScope
    \/ KillGroup \/ WaitReaped \/ Clean

(* The agent is killed: nothing of its finally blocks runs.                *)
Crash ==
    /\ pc \notin {"done", "crashed"}
    /\ pc' = "crashed"
    /\ UNCHANGED <<cmd, result, broken, reaped, root, candidate, late, missed>>

----------------------------------------------------------------------------
(* The clock, systemd and the candidate's processes (external).            *)

Deadline ==
    /\ pc \in {"read", "reap"} /\ ~late
    /\ late' = TRUE
    /\ UNCHANGED <<agent, candidate, missed>>

(* systemd-run registers the scope and executes the binary, or fails.      *)
Register ==
    /\ proc = "starting"
    /\ \/ proc' = "running" /\ scope' = "active" /\ UNCHANGED <<code, output>>
       \/ proc' = "dead" /\ code' = 1 /\ output' = "eof" /\ UNCHANGED scope
    /\ missed' = (missed \/ (pc \in {"show", "group", "wait", "clean", "done", "crashed"}
                                /\ proc' = "running"))
    /\ UNCHANGED <<agent, child, token, late>>

Spawn ==
    /\ proc = "running" /\ ~child
    /\ child' = TRUE
    /\ UNCHANGED <<agent, proc, code, output, scope, token, late, missed>>

Write ==
    /\ Alive /\ proc # "starting"
    /\ output' \in {"flood", "eof"} /\ output = "open"
    /\ UNCHANGED <<agent, proc, code, child, scope, token, late, missed>>

Exit ==
    /\ \/ /\ proc = "running" /\ proc' = "dead" /\ code' \in {0, 1}
          /\ output' \in IF child THEN {output, "eof"} ELSE {"eof"}
          /\ UNCHANGED child
          /\ scope' = IF child THEN scope ELSE "gone"
       \/ /\ child /\ child' = FALSE
          /\ output' = IF proc = "running" THEN output ELSE "eof"
          /\ scope' = IF proc = "running" THEN scope ELSE "gone"
          /\ UNCHANGED <<proc, code>>
    /\ UNCHANGED <<agent, token, late, missed>>

(* RuntimeMaxSec of the scope, KillMode=control-group.                     *)
ScopeExpires ==
    /\ scope = "active" /\ (pc \in {"read", "reap"} => late)
    /\ ScopeKilled /\ scope' = "gone"
    /\ UNCHANGED <<agent, token, late, missed>>

Candidate == Register \/ Spawn \/ Write \/ Exit

Next == Agent \/ Crash \/ Deadline \/ Candidate \/ ScopeExpires

(* The agent goes on as long as it lives, the clock advances, and systemd  *)
(* applies the scope's runtime limit.  systemd-run may hang for ever.      *)
Spec ==
    /\ Init /\ [][Next]_vars
    /\ WF_vars(Agent) /\ WF_vars(Deadline) /\ WF_vars(ScopeExpires)

----------------------------------------------------------------------------

(* The state keeps its shape.                                              *)
TypeOK ==
    /\ pc \in {"parse", "create", "start", "read", "reap", "kill", "stop", "show",
               "group", "wait", "clean", "done", "crashed"}
    /\ cmd \in {"list-modules", "validate"}
    /\ result \in {"none", "valid", "refused"}
    /\ proc \in {"none", "starting", "running", "dead"}
    /\ output \in {"open", "flood", "eof"}
    /\ scope \in {"absent", "active", "gone"}
    /\ token \in {"none", "placeholder", "real"}
    /\ code \in {0, 1}
    /\ broken \in BOOLEAN /\ late \in BOOLEAN /\ reaped \in BOOLEAN
    /\ child \in BOOLEAN /\ missed \in BOOLEAN /\ root \in BOOLEAN

(* A generation is called valid only when nothing its binary started is    *)
(* left: not the process, not a descendant in another session, not the     *)
(* scope, not the directory (_kill_validation_process runs after every     *)
(* command and its doubts refuse the generation).                          *)
ValidLeavesNothing ==
    (pc = "done" /\ result = "valid") => ~Alive /\ scope # "active" /\ ~root

(* A refusal whose teardown raised no error leaves nothing either, unless  *)
(* systemd registered the scope only after the agent had asked about it.   *)
RefusedLeavesNothing ==
    (pc = "done" /\ ~broken /\ ~missed) => ~Alive /\ ~root

(* The first command's processes are gone before the second starts: two    *)
(* commands of a candidate never run side by side.                         *)
CommandsDoNotOverlap ==
    (pc = "start" /\ cmd = "validate") => ~Alive

(* No process of the candidate ever has the host's DNS credential.         *)
CredentialWithheld == Alive => token # "real"

(* A validation ends, whatever the binary does.                            *)
ValidationEnds == pc \in {"done", "crashed"}

(* What runs of the candidate ends too, even when the agent was killed in  *)
(* the middle or the teardown failed: the scope's runtime limit is its     *)
(* own.                                                                    *)
SurvivorsEnd == ~(proc = "running" \/ child)
=============================================================================
