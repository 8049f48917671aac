--------------------------- MODULE ProductionRollout ---------------------------
\* The production rollout (scripts/m3_11_production_*.py): an operator's
\* controller carries a fixed sequence of phases over to a host. Every phase is
\* two records, "<phase>.started" and "<phase>", in three journals: the retained
\* proposals and the local journal beside the controller, and the remote journal
\* on the host. Work on the host is done by actions that a lease binds to one
\* controller connection.
\*
\* Controllers, the lease's owner process, actions and their descendants are
\* killed anywhere; both machines lose power; connections drop; the operator
\* starts the next attempt. The bytes of a record hold the time at which they
\* were made: a record is the number of the attempt that made it.
EXTENDS Naturals, Sequences, FiniteSets
LOCAL INSTANCE SequencesExt

CONSTANTS
    Phases,         \* PHASES: the phases in their order, "drained" first
    MaxAttempts,    \* bound: controllers started
    MaxFaults,      \* bound: kills, lost connections and losses of power
    None

RolloutAssumption ==
    /\ Phases \in Seq({"drained", "namespace", "lineage", "converged", "backup-verified",
                       "rotation-enabled", "accepted"})
    /\ Phases # << >> /\ Phases[1] = "drained"
    /\ {"lineage", "backup-verified"} \subseteq ToSet(Phases)
    /\ {MaxAttempts, MaxFaults} \subseteq Nat

VARIABLES
    attempts,   \* controllers started so far; the running one is the last
    ctl,        \* the controller's remaining steps and its current one, or None
    book,       \* the three journals: proposals, local, remote
    durable,    \* how many records of each survive a loss of power
    pending,    \* the unfinished file beside the records of each journal
    lease,      \* the owner process of the lease and its token file
    wire,       \* commands that were sent and have not reached systemd
    act,        \* the action unit on the host, or None
    effect,     \* what each phase has done to the host
    fence,      \* the conditions of the host's units: on disk, and in systemd
    active,     \* the groups of units that run
    faults,
    refused,    \* a controller met a contradiction it cannot get over
    finished

vars == <<attempts, ctl, book, durable, pending, lease, wire, act, effect, fence, active,
          faults, refused, finished>>

Groups == {"static", "backup"}
Operator == {"proposals", "local"}          \* the journals on the operator's machine
Total == 2 * Len(Phases) + 1                \* RECORDS

\* validate: what a journal of n records authorizes.
StartedPhase(n) == IF n > 0 /\ n % 2 = 0 THEN Phases[n \div 2] ELSE None
Recorded(b, p) == \E i \in DOMAIN Phases : Phases[i] = p /\ Len(b) > 2 * i
\* FENCES: the record whose file the units of a group wait for.
FenceOf(g) == IF g = "static" THEN "lineage" ELSE "backup-verified"

Init ==
    /\ attempts = 0 /\ faults = 0
    /\ ctl = None
    /\ book = [j \in Operator \cup {"remote"} |-> << >>]
    /\ durable = [j \in Operator \cup {"remote"} |-> 0]
    /\ pending = [j \in {"local", "remote"} |-> None]
    /\ lease = [owner |-> None, pc |-> None, token |-> None]
    /\ wire = {} /\ act = None
    /\ effect = [p \in ToSet(Phases) |-> "none"]
    /\ fence = [disk |-> FALSE, loaded |-> FALSE]
    /\ active \in SUBSET Groups
    /\ refused = FALSE /\ finished = FALSE

-----------------------------------------------------------------------------
\* The controller: a list of steps.
At(s) == ctl # None /\ ctl.todo # << >> /\ Head(ctl.todo) = s /\ ctl.sub = None
Waits(s) == ctl # None /\ ctl.todo # << >> /\ Head(ctl.todo) = s /\ ctl.sub # None
Done(steps) == ctl' = [todo |-> steps \o Tail(ctl.todo), sub |-> None]
Say(s) == [is |-> s, records |-> << >>]
Inside(s) == ctl' = [ctl EXCEPT !.sub = Say(s)]
Refuse == ctl' = None /\ refused' = TRUE
Local == UNCHANGED <<attempts, lease, wire, act, effect, fence, active, faults, finished>>

\* Proposals.recover, Replica.publish, Proposals.publish, workflow.action.
Replicate == <<"remote", "local", "remote">>
RecoverSteps == <<"check">> \o (IF book["proposals"] = << >> THEN <<"remote">> ELSE Replicate)
Publish == <<"recover", "retain", "sync">> \o Replicate
\* _perform: the actions of a phase, in their order.
Work(p) ==
    CASE p = "drained" -> <<"drain">>
      [] p = "namespace" -> <<"playbook", "initialize">>
      [] p = "lineage" -> <<"initialize">>
      [] p \in {"converged", "rotation-enabled"} -> <<"playbook", "playbook">>
      [] p = "backup-verified" -> <<"backup">>
      [] p = "accepted" -> <<"playbook", "inspect">>
      [] p = None -> << >>
Actions == {"drain", "playbook", "initialize", "backup", "inspect"}
\* workflow.action: the journals are compared before and after it.
Guarded(ops) == FlattenSeq([i \in DOMAIN ops |-> <<"remote", ops[i], "remote">>])
Perform(p) == Guarded(Work(p))

\* main, execute, controller: a new attempt stages its helper and starts the
\* owner of the lease, which fails at once while another owner or action holds a lock.
Start ==
    /\ ctl = None /\ ~finished /\ attempts < MaxAttempts
    /\ lease.owner = None /\ (act # None => ~act.helper)
    /\ attempts' = attempts + 1
    /\ ctl' = [todo |-> <<"open", "recover", "decide">>, sub |-> None]
    /\ lease' = [owner |-> attempts', pc |-> "drain", token |-> None]
    /\ UNCHANGED <<book, durable, pending, wire, act, effect, fence, active, faults, refused, finished>>

\* _token: the owner has printed the token.
Open ==
    /\ At("open") /\ lease.owner = attempts /\ lease.pc = "hold"
    /\ Done(<< >>)
    /\ Local /\ UNCHANGED <<book, durable, pending, refused>>

Recover ==
    /\ At("recover")
    /\ Done(RecoverSteps)
    /\ Local /\ UNCHANGED <<book, durable, pending, refused>>

\* recover: the local journal is the proposals, or all but the last of them, and
\* holds no unfinished file but of that last proposal.
CheckProposals ==
    /\ At("check")
    /\ LET p == book["proposals"]
           l == book["local"]
       IN  IF /\ l = p \/ (p # << >> /\ l = Front(p))
              /\ pending["local"] # None => p # << >> /\ l = Front(p) /\ pending["local"] = Last(p)
           THEN Done(<< >>) /\ durable' = [durable EXCEPT !["proposals"] = Len(p)]
                /\ UNCHANGED refused
           ELSE Refuse /\ UNCHANGED durable
    /\ Local /\ UNCHANGED <<book, pending>>

\* workflow.run: the next record, after the work of a started phase.
Decide ==
    /\ At("decide")
    /\ LET n == Len(book["proposals"])
       IN  IF n = Total
           THEN Done(Guarded(<<"inspect">>) \o <<"finish">>)
           ELSE Done(Perform(StartedPhase(n)) \o Publish \o <<"recover", "decide">>)
    /\ Local /\ UNCHANGED <<book, durable, pending, refused>>

\* Proposals.retain: the bytes of the new record are kept before anyone sees them.
Retain ==
    /\ At("retain")
    /\ book' = [book EXCEPT !["proposals"] = Append(@, attempts)]
    /\ Done(<< >>)
    /\ Local /\ UNCHANGED <<durable, pending, refused>>

SyncProposals ==
    /\ At("sync")
    /\ durable' = [durable EXCEPT !["proposals"] = Len(book["proposals"])]
    /\ Done(<< >>)
    /\ Local /\ UNCHANGED <<book, pending, refused>>

\* Journal.publish: exact bytes under a name of their own, renamed, and synced; a
\* record that is there already is compared and synced.
PublishLocal ==
    /\ At("local")
    /\ LET p == book["proposals"]
           l == book["local"]
       IN  CASE Len(l) = Len(p) /\ l = p -> Inside("renamed") /\ UNCHANGED <<pending, refused>>
             [] Len(l) = Len(p) /\ l # p -> Refuse /\ UNCHANGED pending
             [] OTHER -> /\ pending' = [pending EXCEPT !["local"] = Last(p)]
                         /\ Inside("written") /\ UNCHANGED refused
    /\ Local /\ UNCHANGED <<book, durable>>

RenameLocal ==
    /\ Waits("local") /\ ctl.sub.is = "written"
    /\ book' = [book EXCEPT !["local"] = Append(@, pending["local"])]
    /\ pending' = [pending EXCEPT !["local"] = None]
    /\ Inside("renamed")
    /\ Local /\ UNCHANGED <<durable, refused>>

SyncLocal ==
    /\ Waits("local") /\ ctl.sub.is = "renamed"
    /\ durable' = [durable EXCEPT !["local"] = Len(book["local"])]
    /\ Done(<< >>)
    /\ Local /\ UNCHANGED <<book, pending, refused>>

\* Session.run, transport.command: one action at a time, by the name of its unit.
Send(op) ==
    /\ lease.owner = attempts
    /\ wire' = wire \cup {[token |-> attempts, op |-> op]}
    /\ Inside("sent")

\* Mutant of Synchronize: the local journal is not synced before it is copied.
SynchronizeUnsynced ==
    /\ At("remote")
    /\ Send([do |-> "journal", records |-> book["local"]])
    /\ UNCHANGED <<durable, attempts, book, pending, lease, act, effect, fence, active, faults,
                   refused, finished>>

\* Replica.synchronize: the last local record goes to the host, which answers with
\* all of its records.
Synchronize ==
    /\ At("remote")
    /\ durable' = [durable EXCEPT !["local"] = Len(book["local"])]
    /\ Send([do |-> "journal", records |-> book["local"]])
    /\ UNCHANGED <<attempts, book, pending, lease, act, effect, fence, active, faults, refused, finished>>

\* action: the next action of the started phase; the last one completes it.
Act ==
    \E a \in Actions :
        /\ At(a)
        /\ LET p == StartedPhase(Len(book["proposals"]))
           IN  Send([do |-> a, phase |-> p, last |-> Tail(ctl.todo)[2] \notin Actions \cup {"remote"}])
        /\ UNCHANGED <<attempts, book, durable, pending, lease, act, effect, fence, active, faults,
                       refused, finished>>

\* The answer of an action: the records on the host must be the local ones.
Answer ==
    /\ ctl # None /\ ctl.todo # << >> /\ Head(ctl.todo) \in Actions \cup {"remote"}
    /\ ctl.sub # None /\ ctl.sub.is # "sent"
    /\ CASE ctl.sub.is = "failed" -> ctl' = None /\ UNCHANGED refused
         [] ctl.sub.is = "done" -> Done(<< >>) /\ UNCHANGED refused
         [] ctl.sub.is = "records" -> IF ctl.sub.records = book["local"]
                                      THEN Done(<< >>) /\ UNCHANGED refused
                                      ELSE Refuse
    /\ Local /\ UNCHANGED <<book, durable, pending>>

\* require_owner: the connection that holds the lease has ended.
OwnerGone ==
    /\ ctl # None /\ ctl.sub = None /\ lease.owner # attempts
    /\ ctl' = None
    /\ Local /\ UNCHANGED <<book, durable, pending, refused>>

\* inspect: the complete rollout was looked at once more.
Finish ==
    /\ At("finish")
    /\ finished' = TRUE
    /\ ctl' = None
    /\ UNCHANGED <<attempts, book, durable, pending, lease, wire, act, effect, fence, active, faults,
                   refused>>

ControllerStep ==
    Open \/ Recover \/ CheckProposals \/ Decide \/ Retain \/ SyncProposals \/ PublishLocal
    \/ RenameLocal \/ SyncLocal \/ Synchronize \/ Act \/ Answer \/ OwnerGone \/ Finish

-----------------------------------------------------------------------------
\* The lease on the host.
Host == UNCHANGED <<attempts, wire, book, durable, pending, effect, fence, active, faults, refused,
                    finished>>
\* What the controller gets for the command of attempt t.
Gets(t, r) ==
    ctl' = IF ctl # None /\ t = attempts /\ ctl.sub = Say("sent") THEN [ctl EXCEPT !.sub = r] ELSE ctl
Stopped == act' = None /\ IF act = None THEN UNCHANGED ctl ELSE Gets(act.token, Say("failed"))

\* lease.controller, drain: the token is revoked and the action unit stopped before
\* a new token exists.
DrainOwner ==
    /\ lease.pc = "drain"
    /\ lease' = [lease EXCEPT !.pc = "issue"]
    /\ Stopped /\ Host

IssueToken ==
    /\ lease.pc = "issue"
    /\ lease' = [lease EXCEPT !.pc = "hold", !.token = lease.owner]
    /\ UNCHANGED <<act, ctl>> /\ Host

\* The connection ended: the owner waits for the action's lock and revokes the token.
RevokeToken ==
    /\ lease.pc = "hold" /\ (ctl = None \/ attempts # lease.owner)
    /\ act # None => ~act.helper
    /\ lease' = [lease EXCEPT !.pc = "leave", !.token = None]
    /\ UNCHANGED <<act, ctl>> /\ Host

DrainLeaving ==
    /\ lease.pc = "leave"
    /\ lease' = [lease EXCEPT !.pc = None, !.owner = None]
    /\ Stopped /\ Host

LeaseStep == DrainOwner \/ IssueToken \/ RevokeToken \/ DrainLeaving

-----------------------------------------------------------------------------
\* An action on the host.
Does(ops, pc) == act # None /\ act.pc = pc /\ act.op.do \in ops
Goto(pc) == act' = [act EXCEPT !.pc = pc] /\ UNCHANGED ctl
Reply(r) == act' = None /\ Gets(act.token, r)
Result(r) == Reply(IF act.helper THEN r ELSE Say("failed"))
Held == lease.token = act.token /\ lease.owner = act.token
Fixed == UNCHANGED <<attempts, wire, lease, faults, refused, finished>>
Records == act.op.records

\* systemd-run: one unit of this name at a time.
Launch ==
    \E w \in wire :
        /\ wire' = wire \ {w}
        /\ IF act = None
           THEN act' = [token |-> w.token, op |-> w.op, pc |-> "admit", helper |-> TRUE] /\ UNCHANGED ctl
           ELSE Gets(w.token, Say("failed")) /\ UNCHANGED act
        /\ UNCHANGED <<attempts, book, durable, pending, lease, effect, fence, active, faults, refused,
                       finished>>

\* lease.action, Lease.require_token, require_action.
Admit ==
    /\ act # None /\ act.pc = "admit"
    /\ IF Held /\ act.helper THEN Goto("begin") ELSE Reply(Say("failed"))
    /\ Fixed /\ UNCHANGED <<book, durable, pending, effect, fence, active>>

\* records.operate, Journal.publish on the host.
PublishRemote ==
    /\ Does({"journal"}, "begin")
    /\ LET r == book["remote"]
           k == Len(Records)
       IN  CASE k = 0 -> Result([is |-> "records", records |-> r]) /\ UNCHANGED pending
             [] k > 0 /\ Len(r) >= k -> (IF r[k] = Records[k] THEN Goto("sync") ELSE Result(Say("failed")))
                                        /\ UNCHANGED pending
             [] k > 0 /\ Len(r) = k - 1 /\ pending["remote"] \in {None, Records[k]} ->
                    /\ pending' = [pending EXCEPT !["remote"] = Records[k]]
                    /\ Goto("rename")
             [] OTHER -> Result(Say("failed")) /\ UNCHANGED pending
    /\ Fixed /\ UNCHANGED <<book, durable, effect, fence, active>>

RenameRemote ==
    /\ Does({"journal"}, "rename")
    /\ book' = [book EXCEPT !["remote"] = Append(@, pending["remote"])]
    /\ pending' = [pending EXCEPT !["remote"] = None]
    /\ Goto("sync")
    /\ Fixed /\ UNCHANGED <<durable, effect, fence, active>>

SyncRemote ==
    /\ Does({"journal"}, "sync")
    /\ durable' = [durable EXCEPT !["remote"] = Len(book["remote"])]
    /\ Result([is |-> "records", records |-> book["remote"]])
    /\ Fixed /\ UNCHANGED <<book, pending, effect, fence, active>>

\* gate.require, initialize._authority, backup._authority: the host's own journal says
\* that the phase of the action has started; an inspection may follow the last record.
Authorized ==
    /\ pending["remote"] = None
    /\ StartedPhase(Len(book["remote"])) = act.op.phase
    /\ act.op.phase = None => act.op.do = "inspect" /\ Len(book["remote"]) = Total

\* fence.publish: the whole file is there when it returns, whatever an earlier one left.
PublishFence == fence' = [fence EXCEPT !.disk = TRUE]

\* fence.drain, fence.conditions: the conditions, systemd's reload, the stop.
DrainHost ==
    /\ act # None /\ act.op.do = "drain"
    /\ \/ /\ act.pc = "begin" /\ Authorized
          /\ PublishFence /\ Goto("reload") /\ UNCHANGED <<active, effect>>
       \/ /\ act.pc = "reload"
          /\ fence' = [fence EXCEPT !.loaded = TRUE] /\ Goto("stop") /\ UNCHANGED <<active, effect>>
       \/ /\ act.pc = "stop"
          /\ active' = {} /\ Goto("end")
          /\ effect' = [effect EXCEPT !["drained"] = "done"] /\ UNCHANGED fence
    /\ Fixed /\ UNCHANGED <<book, durable, pending>>

\* conditions, _conditions: systemd has loaded the conditions on disk.
Conditions == fence.disk /\ fence.loaded
\* _idle: and nothing of the platform runs.
Idle == Conditions /\ active = {}

\* The work of a phase, which a later attempt takes up where it was left. Without its
\* authority or with a unit running it is refused (NeverRefused shows that it never is).
Begin(do, ready) ==
    /\ Does({do}, "begin") /\ Authorized /\ ready
    /\ effect' = [p \in DOMAIN effect |->
                     IF p = act.op.phase /\ effect[p] = "none" THEN "part" ELSE effect[p]]
    /\ Goto("work")
    /\ Fixed /\ UNCHANGED <<book, durable, pending, fence, active>>

\* initialize: the namespace and the lineage, under the repository's and selection's locks.
Initialize == Begin("initialize", Idle)
\* playbook: configuration by Ansible, whose tasks are actions under the same lease.
Playbook == Begin("playbook", TRUE)
\* _perform: the verified backup, and the inspection.
Backup == Begin("backup", Conditions)
Inspect == Begin("inspect", Conditions)

CompleteWork ==
    /\ Does(Actions, "work")
    /\ effect' = [p \in DOMAIN effect |-> IF p = act.op.phase /\ act.op.last THEN "done" ELSE effect[p]]
    /\ Goto("end")
    /\ Fixed /\ UNCHANGED <<book, durable, pending, fence, active>>

\* The authority and the services are looked at again before the answer.
EndWork ==
    /\ Does(Actions, "end")
    /\ Result(Say(IF Authorized /\ (act.op.do # "playbook" => Conditions)
                     /\ (act.op.do = "initialize" => Idle) THEN "done" ELSE "failed"))
    /\ Fixed /\ UNCHANGED <<book, durable, pending, effect, fence, active>>

ActionStep ==
    Launch \/ Admit \/ PublishRemote \/ RenameRemote \/ SyncRemote \/ DrainHost \/ Initialize \/ Playbook
    \/ Backup \/ Inspect \/ CompleteWork \/ EndWork

-----------------------------------------------------------------------------
\* systemd starts units by timer and socket unless their condition is loaded and
\* the file it names is missing; they end by themselves.
Unit ==
    \E g \in Groups :
        /\ \/ /\ g \notin active /\ (fence.loaded => Recorded(book["remote"], FenceOf(g)))
              /\ active' = active \cup {g}
           \/ g \in active /\ active' = active \ {g}
        /\ UNCHANGED <<attempts, ctl, book, durable, pending, lease, wire, act, effect, fence, faults,
                       refused, finished>>

-----------------------------------------------------------------------------
Fault == faults < MaxFaults /\ faults' = faults + 1

\* The controller is killed or loses its connection.
KillController ==
    /\ ctl # None /\ Fault
    /\ ctl' = None
    /\ UNCHANGED <<attempts, book, durable, pending, lease, wire, act, effect, fence, active, refused,
                   finished>>

KillOwner ==
    /\ lease.owner # None /\ Fault
    /\ lease' = [lease EXCEPT !.owner = None, !.pc = None]
    /\ UNCHANGED <<attempts, ctl, book, durable, pending, wire, act, effect, fence, active, refused,
                   finished>>

\* The helper that holds the action's lock is killed; what it started goes on.
KillHelper ==
    /\ act # None /\ act.helper /\ act.pc # "admit" /\ Fault
    /\ act' = [act EXCEPT !.helper = FALSE]
    /\ UNCHANGED <<attempts, ctl, book, durable, pending, lease, wire, effect, fence, active, refused,
                   finished>>

\* What is not synced may be lost with the power.
Survives(js) ==
    /\ book' \in {[j \in DOMAIN book |-> IF j \in js THEN SubSeq(book[j], 1, n[j]) ELSE book[j]] :
                     n \in {f \in [js -> 0..Total] :
                               \A j \in js : durable[j] <= f[j] /\ f[j] <= Len(book[j])}}
    /\ durable' = [j \in DOMAIN book |-> IF j \in js THEN Len(book'[j]) ELSE durable[j]]
    /\ pending' \in {[j \in DOMAIN pending |-> IF j \in lost THEN None ELSE pending[j]] :
                        lost \in SUBSET (js \cap DOMAIN pending)}

OperatorPowerLoss ==
    /\ Fault /\ Survives(Operator)
    /\ ctl' = None
    /\ UNCHANGED <<attempts, lease, wire, act, effect, fence, active, refused, finished>>

\* /run is empty after a reboot, and systemd loads the conditions on disk.
HostPowerLoss ==
    /\ Fault /\ Survives({"remote"})
    /\ wire' = {} /\ act' = None /\ Gets(attempts, Say("failed"))
    /\ lease' = [owner |-> None, pc |-> None, token |-> None]
    /\ fence' = [fence EXCEPT !.loaded = fence.disk]
    /\ active' = {}
    /\ UNCHANGED <<attempts, effect, refused, finished>>

Faults == KillController \/ KillOwner \/ KillHelper \/ OperatorPowerLoss \/ HostPowerLoss

\* Nothing is left to do, or the operator has given up.
Rest == ctl = None /\ act = None /\ wire = {} /\ (finished \/ attempts = MaxAttempts) /\ UNCHANGED vars

Next == Start \/ ControllerStep \/ LeaseStep \/ ActionStep \/ Unit \/ Faults \/ Rest

Spec == Init /\ [][Next]_vars

\* The operator starts another attempt, and every process that runs makes progress.
FairSpec ==
    Spec /\ WF_vars(Start) /\ WF_vars(ControllerStep) /\ WF_vars(LeaseStep) /\ WF_vars(ActionStep)

-----------------------------------------------------------------------------
TypeOK ==
    /\ attempts \in 0..MaxAttempts /\ faults \in 0..MaxFaults
    /\ book \in [Operator \cup {"remote"} -> UNION {[1..n -> 1..MaxAttempts] : n \in 0..Total}]
    /\ \A j \in DOMAIN book : durable[j] \in 0..Len(book[j])
    /\ pending \in [{"local", "remote"} -> (1..MaxAttempts) \cup {None}]
    /\ lease.owner \in (1..MaxAttempts) \cup {None} /\ lease.token \in (1..MaxAttempts) \cup {None}
    /\ effect \in [ToSet(Phases) -> {"none", "part", "done"}]
    /\ fence \in [{"disk", "loaded"} -> BOOLEAN]
    /\ active \subseteq Groups
    /\ {refused, finished} \subseteq BOOLEAN

\* recover, _synchronize: whatever is killed and whichever machine loses power, the
\* host's journal is a beginning of the local one and that of the retained proposals,
\* and each is at most one record behind.
JournalsAgree ==
    /\ IsPrefix(book["remote"], book["local"]) /\ IsPrefix(book["local"], book["proposals"])
    /\ Len(book["local"]) <= Len(book["remote"]) + 1
    /\ Len(book["proposals"]) <= Len(book["local"]) + 1

\* No attempt meets "production proposals differ from the original journal" or
\* "production journal differs from retained local proposals", and no action that holds the
\* lease finds a phase the host's journal has not started, or a unit that runs too early.
NeverRefused ==
    /\ ~refused
    /\ act # None /\ act.pc = "begin" /\ act.op.do # "journal" =>
          /\ Authorized
          /\ act.op.do \in {"backup", "inspect"} => Conditions
          /\ act.op.do = "initialize" => Idle

\* lease.controller: nothing that was started for an earlier controller changes the
\* host once a later one has its token.
OnlyOwnerActs ==
    (book'["remote"] # book["remote"] \/ effect' # effect \/ fence'.disk # fence.disk)
    /\ act # None /\ act' # None /\ lease.token # None => act.token = lease.token

\* fence.drain, FENCES: once the drain is recorded no unit runs before the record it waits
\* for, a reboot of the host included.
ServicesFenced ==
    \A g \in Groups :
        Recorded(book["remote"], "drained") /\ ~Recorded(book["remote"], FenceOf(g)) => g \notin active

\* workflow.run: a phase is recorded on the host only when its work is complete, and begun
\* only when the phases before it are recorded.
RecordsTellTheTruth ==
    \A i \in DOMAIN Phases :
        /\ Recorded(book["proposals"], Phases[i]) => effect[Phases[i]] = "done"
        /\ effect[Phases[i]] # "none" => \A k \in 1..(i - 1) : Recorded(book["remote"], Phases[k])

\* With finitely many faults the rollout completes.
RolloutCompletes == finished
=============================================================================
