---------------------------- MODULE CredentialLease ----------------------------
\* One lease of provider credentials (scripts/m3_11_unattended): a controller
\* issues one credential per role, runs a qualification with them, and the lease
\* is closed by whoever comes first of the controller, a watchdog on the same
\* host and an independent job that shares nothing with them but the inventory
\* of published facts. Facts are immutable; a write of one can get lost, or its
\* acknowledgement can, and who wrote it does not write it again.
EXTENDS Naturals, FiniteSets

CONSTANTS
    Roles,       \* roles of the manifest
    None,        \* no value
    Active,      \* cleaners of the instance, besides the controller
    Retain,      \* retain_after_failure
    Orders,      \* what the operator may do: "cancel", "stop"
    MaxLosses,   \* bound: inventory writes that fail
    MaxCrashes   \* bound: controller containers that die

LeaseAssumption ==
    Roles # {} /\ Active \subseteq {"watchdog", "github"} /\ Orders \subseteq {"cancel", "stop"} /\ IsFiniteSet(Roles) /\ Retain \in BOOLEAN /\ MaxLosses \in Nat /\ MaxCrashes \in Nat

VARIABLES
    provider,  \* per role: "none", "flight", "active", "gone", "lost"
    made,      \* per role: credentials the provider created
    inv,       \* published facts <<kind, key, payload>>
    spool,     \* per actor: slots it wrote that are not there
    losses,
    disk,      \* the lease's and the run's files
    clock,     \* 0, 1 from issuance_before, 2 from the deadline
    crashes,
    ctl,       \* the controller process
    sweep,     \* per actor: its reconciliation
    lock,      \* who holds the cleanup lock
    probed,    \* roles whose retained secret was denied by the provider
    conflict   \* two contents were written for one slot

vars == <<provider, made, inv, spool, losses, disk, clock, crashes, ctl, sweep, lock, probed, conflict>>
world == <<provider, made>>
facts == <<inv, spool, losses, conflict>>

Actors == {"controller", "watchdog", "github"}
Local == {"controller", "watchdog"}
Reasons == {"cancel", "finish", "provisioning-failed"}

-----------------------------------------------------------------------------
\* The inventory

Fact(kind, key) == <<kind, key, None>>
Published(kind) == \E f \in inv : f[1] = kind
Has(S, kind, key) == \E f \in S : f[1] = kind /\ f[2] = key
Closing(S) == \E f \in S : f[1] = "close"

\* ConnectInventory.publish: a fact that is there is not written again, nor one
\* that this actor wrote and does not see. A write fails before it took effect
\* or after. (A pending write that can be seen needs no record.)
Publish(a, f, ok) ==
    LET same == {g \in inv : g[1] = f[1] /\ g[2] = f[2]}
        slot == <<f[1], f[2]>>
    IN /\ conflict' = (conflict \/ (same # {} /\ f \notin same))
       /\ \/ same # {} /\ ok = (f \in same) /\ UNCHANGED <<inv, spool, losses>>
          \/ same = {} /\ slot \in spool[a] /\ ~ok /\ UNCHANGED <<inv, spool, losses>>
          \/ same = {} /\ slot \notin spool[a] /\ ok /\ inv' = inv \cup {f} /\ UNCHANGED <<spool, losses>>
          \/ /\ same = {} /\ slot \notin spool[a] /\ ~ok /\ losses < MaxLosses /\ losses' = losses + 1
             /\ \/ inv' = inv \cup {f} /\ UNCHANGED spool
                \/ inv' = inv /\ spool' = [spool EXCEPT ![a] = @ \cup {slot}]

\* The stop proof names the roles whose secret was retained when the issuer stopped.
StopFact == <<"issuer-stopped", "", disk.binding>>

-----------------------------------------------------------------------------
\* The provider

\* A create that was sent is applied at any later time, or never.
Apply(r) ==
    /\ provider[r] = "flight"
    /\ \/ provider' = [provider EXCEPT ![r] = "active"] /\ made' = [made EXCEPT ![r] = @ + 1]
       \/ provider' = [provider EXCEPT ![r] = "lost"] /\ UNCHANGED made
    /\ UNCHANGED <<facts, disk, clock, crashes, ctl, sweep, lock, probed>>

-----------------------------------------------------------------------------
\* The controller

Quiet == [at |-> "idle", obs |-> {}, durable |-> TRUE, left |-> {}, todo |-> {}, known |-> TRUE,
          neg |-> {}, clear |-> TRUE, pub |-> TRUE]

Cancelled == disk.cancel \/ disk.stop
Goes(pc) == ctl' = [ctl EXCEPT !.pc = pc]

\* finish_journey: the outcome of the attempt is written once.
Outcome(o) == IF disk.result = None THEN o ELSE disk.result

\* An exception: the attempt has failed, and the terminal path begins.
FailRun ==
    /\ disk' = [disk EXCEPT !.result = Outcome(IF Cancelled THEN "interrupted" ELSE "failed")]
    /\ Goes("terminal")

\* Worker.run, begin: a fresh attempt provisions.
Begin ==
    /\ ctl.pc = "start" /\ ~disk.attempt
    /\ disk' = [disk EXCEPT !.attempt = TRUE] /\ Goes("prepare")
    /\ UNCHANGED <<world, facts, clock, crashes, sweep, lock, probed>>

\* A restarted one is over: its outcome is "interrupted".
Resume ==
    /\ ctl.pc = "start" /\ disk.attempt
    /\ disk' = [disk EXCEPT !.result = Outcome("interrupted")] /\ Goes("terminal")
    /\ UNCHANGED <<world, facts, clock, crashes, sweep, lock, probed>>

\* LeaseState.initialize, claim_issuer.
Prepare ==
    /\ ctl.pc = "prepare"
    /\ \/ ~disk.manifest /\ disk' = [disk EXCEPT !.manifest = TRUE] /\ UNCHANGED ctl
       \/ disk.manifest /\ disk' = [disk EXCEPT !.claimed = TRUE] /\ ctl' = [ctl EXCEPT !.pc = "manifest", !.held = TRUE]
    /\ UNCHANGED <<world, facts, clock, crashes, sweep, lock, probed>>

\* LeaseLifecycle.prepare: the manifest is published.
PublishManifest ==
    /\ ctl.pc = "manifest"
    /\ \E ok \in BOOLEAN : /\ Publish("controller", Fact("manifest", ""), ok)
                           /\ IF ok THEN Goes("wait") /\ UNCHANGED disk ELSE FailRun
    /\ UNCHANGED <<world, clock, crashes, sweep, lock, probed>>

\* require_confirmation: the independent job has to see the manifest first.
AwaitConfirmation ==
    /\ ctl.pc = "wait" /\ (Cancelled \/ clock > 0 \/ Published("confirmed"))
    /\ IF Cancelled \/ clock > 0 \/ disk.close # {} \/ Closing(inv) THEN FailRun
       ELSE ctl' = [ctl EXCEPT !.pc = "create", !.entered = TRUE] /\ UNCHANGED disk
    /\ UNCHANGED <<world, facts, clock, crashes, sweep, lock, probed>>

\* _before_create, submitting: one create is sent for a role.
Submit(r) ==
    /\ ctl.pc = "create" /\ r \notin ctl.sent \cup disk.submitting
    /\ ~Cancelled /\ clock = 0 /\ disk.close = {} /\ ~Closing(inv)
    /\ disk' = [disk EXCEPT !.submitting = @ \cup {r}]
    /\ provider' = [provider EXCEPT ![r] = "flight"]
    /\ ctl' = [ctl EXCEPT !.pc = "answer", !.cur = r, !.sent = @ \cup {r}]
    /\ UNCHANGED <<made, facts, clock, crashes, sweep, lock, probed>>

\* _before_create raises, or there is no role left.
Stop ==
    /\ ctl.pc = "create"
    /\ \/ Roles \subseteq ctl.sent /\ ctl' = [ctl EXCEPT !.pc = "unsent", !.ok = TRUE]
       \/ /\ ~(Roles \subseteq ctl.sent)
          /\ Cancelled \/ clock > 0 \/ disk.close # {} \/ Closing(inv)
          /\ ctl' = [ctl EXCEPT !.pc = "closing"]
    /\ UNCHANGED <<world, facts, disk, clock, crashes, sweep, lock, probed>>

\* client.create: answered with the credential, or not.
Answer ==
    /\ ctl.pc = "answer"
    /\ \/ provider[ctl.cur] \in {"active", "gone"} /\ Goes("created")
       \/ Goes("closing")
    /\ UNCHANGED <<world, facts, disk, clock, crashes, sweep, lock, probed>>

\* LeaseState.remember: the identity, and then the secret.
Remember ==
    /\ \/ ctl.pc = "created" /\ disk' = [disk EXCEPT !.created = @ \cup {ctl.cur}] /\ Goes("secret")
       \/ ctl.pc = "secret" /\ disk' = [disk EXCEPT !.secret = @ \cup {ctl.cur}] /\ Goes("record")
    /\ UNCHANGED <<world, facts, clock, crashes, sweep, lock, probed>>

\* _remember publishes the identity; the credential is read back and verified.
RecordCreated ==
    /\ ctl.pc = "record"
    /\ \E ok \in BOOLEAN :
        /\ Publish("controller", Fact("created", ctl.cur), ok)
        /\ Goes(IF ok /\ provider[ctl.cur] = "active" THEN "create" ELSE "closing")
    /\ UNCHANGED <<world, disk, clock, crashes, sweep, lock, probed>>

\* request_close: the reason is retained, and published.
RetainClose ==
    /\ ctl.pc \in {"closing", "revoke"}
    /\ ctl.pc = "revoke" => ~ctl.held \/ ctl.entered
    /\ LET reason == IF ctl.pc = "closing" THEN "provisioning-failed" ELSE IF disk.cancel THEN "cancel" ELSE "finish"
       IN /\ disk' = [disk EXCEPT !.close = @ \cup {reason}]
          /\ ctl' = [ctl EXCEPT !.pc = IF @ = "closing" THEN "close1" ELSE "close2", !.cur = reason]
    /\ UNCHANGED <<world, facts, clock, crashes, sweep, lock, probed>>

PublishClose ==
    /\ ctl.pc \in {"close1", "close2"}
    /\ \E ok \in BOOLEAN :
        /\ Publish("controller", Fact("close", ctl.cur), ok)
        /\ ctl' = [ctl EXCEPT !.pc = IF @ = "close1" THEN "unsent" ELSE "lock", !.published = ok, !.cur = None]
    /\ UNCHANGED <<world, disk, clock, crashes, sweep, lock, probed>>

\* abandon_prepared: issuance was prepared and never entered.
Abandon ==
    /\ ctl.pc = "revoke" /\ ctl.held /\ ~ctl.entered
    /\ ctl' = [ctl EXCEPT !.pc = "unsent", !.entered = TRUE, !.abandon = TRUE]
    /\ UNCHANGED <<world, facts, disk, clock, crashes, sweep, lock, probed>>

\* _end_issuance: only who would have sent them can say what was not sent.
RetainUnsent(r) ==
    /\ ctl.pc = "unsent" /\ r \notin ctl.sent /\ r \notin disk.unsent
    /\ disk' = [disk EXCEPT !.unsent = @ \cup {r}]
    /\ UNCHANGED <<world, facts, clock, crashes, ctl, sweep, lock, probed>>

PublishUnsent(r) ==
    /\ ctl.pc = "unsent" /\ r \in disk.unsent /\ r \notin ctl.done
    /\ \E ok \in BOOLEAN : /\ Publish("controller", Fact("not-submitted", r), ok)
                           /\ ctl' = [ctl EXCEPT !.done = @ \cup {r}, !.ok = @ /\ ok]
    /\ UNCHANGED <<world, disk, clock, crashes, sweep, lock, probed>>

\* finish_issuer: what is retained is bound before the stop is.
FinishIssuer ==
    disk' = IF disk.binding = None THEN [disk EXCEPT !.binding = disk.secret]
            ELSE [disk EXCEPT !.stopped = TRUE]

EndIssuance ==
    /\ ctl.pc = "unsent" /\ Roles \ ctl.sent \subseteq ctl.done
    /\ ~disk.stopped
    /\ FinishIssuer
    /\ UNCHANGED <<world, facts, clock, crashes, ctl, sweep, lock, probed>>

PublishStop ==
    /\ ctl.pc = "unsent" /\ Roles \ ctl.sent \subseteq ctl.done /\ disk.stopped
    /\ \E ok \in BOOLEAN :
        /\ Publish("controller", StopFact, ok)
        /\ IF ctl.abandon THEN /\ ctl' = [ctl EXCEPT !.pc = "revoke", !.abandon = FALSE, !.held = FALSE]
                               /\ UNCHANGED disk
           ELSE IF ctl.ok /\ ok THEN Goes("use") /\ UNCHANGED disk ELSE FailRun
    /\ UNCHANGED <<world, clock, crashes, sweep, lock, probed>>

\* acquire_use, credentials (validate_reused_credentials), _journey: the
\* credentials are verified once more before they are used.
Use ==
    /\ ctl.pc = "use"
    /\ IF /\ ~Cancelled /\ clock < 2 /\ Published("issuer-stopped") /\ ~Closing(inv) /\ disk.close = {}
          /\ \A r \in Roles : r \in disk.secret /\ Has(inv, "created", r) /\ provider[r] = "active"
       THEN disk' = [disk EXCEPT !.started = TRUE] /\ Goes("journey")
       ELSE FailRun
    /\ UNCHANGED <<world, facts, clock, crashes, sweep, lock, probed>>

\* _journey, _drain_journey, finish_journey.
Journey ==
    /\ ctl.pc = "journey"
    /\ \E o \in {"passed", "failed"} :
        /\ Cancelled => o = "failed"
        /\ disk' = [disk EXCEPT !.result = Outcome(o), !.drained = TRUE]
    /\ Goes("terminal")
    /\ UNCHANGED <<world, facts, clock, crashes, sweep, lock, probed>>

\* _retention_allowed
RetentionAllowed ==
    /\ Retain /\ ~disk.cancel /\ clock < 2 /\ disk.result \in {"failed", "interrupted"}
    /\ disk.started /\ disk.drained /\ disk.stopped /\ disk.close = {}

\* _terminal: the lease is retained, or revoked.
Terminal ==
    /\ ctl.pc = "terminal"
    /\ IF ~disk.manifest \/ (RetentionAllowed /\ ~Closing(inv))
       THEN Goes("idle") ELSE ctl' = [ctl EXCEPT !.pc = "revoke", !.done = {}, !.ok = FALSE]
    /\ UNCHANGED <<world, facts, disk, clock, crashes, sweep, lock, probed>>

\* revoke: the cleanup lock is tried once.
TryLock ==
    /\ ctl.pc = "lock"
    /\ IF lock = None
       THEN /\ lock' = "controller" /\ Goes("sweep") /\ UNCHANGED disk
            /\ sweep' = [sweep EXCEPT !["controller"] = [Quiet EXCEPT !.at = "read", !.pub = ctl.published]]
       ELSE /\ Goes("idle") /\ disk' = [disk EXCEPT !.status = IF @ = "verified" THEN @ ELSE "unresolved"]
            /\ UNCHANGED <<lock, sweep>>
    /\ UNCHANGED <<world, facts, clock, crashes, probed>>

\* main: as long as the cleanup is not verified, the terminal path again.
Retry ==
    /\ ctl.pc = "idle" /\ disk.status # "verified" /\ disk.manifest
    /\ ~(RetentionAllowed /\ ~Closing(inv))
    /\ Goes("terminal")
    /\ UNCHANGED <<world, facts, disk, clock, crashes, sweep, lock, probed>>

NewController == [pc |-> "start", held |-> FALSE, entered |-> FALSE, sent |-> {}, done |-> {}, cur |-> None,
                  ok |-> FALSE, abandon |-> FALSE, published |-> TRUE]

\* The container dies; its restart policy starts it again.
Crash ==
    /\ ctl.pc \notin {"dead", "removed"} /\ crashes < MaxCrashes /\ crashes' = crashes + 1
    /\ ctl' = [NewController EXCEPT !.pc = "dead"]
    /\ sweep' = [sweep EXCEPT !["controller"] = Quiet]
    /\ lock' = IF lock = "controller" THEN None ELSE lock
    /\ UNCHANGED <<world, facts, disk, clock, probed>>

Restart ==
    /\ ctl.pc = "dead" /\ Goes("start")
    /\ UNCHANGED <<world, facts, disk, clock, crashes, sweep, lock, probed>>

Controller ==
    \/ Begin \/ Resume \/ Prepare \/ PublishManifest \/ AwaitConfirmation \/ Stop \/ Answer \/ Remember
    \/ RecordCreated \/ RetainClose \/ PublishClose \/ Abandon \/ EndIssuance \/ PublishStop
    \/ Use \/ Journey \/ Terminal \/ TryLock \/ Retry
    \/ \E r \in Roles : Submit(r) \/ RetainUnsent(r) \/ PublishUnsent(r)

-----------------------------------------------------------------------------
\* Reconciliation, by any of the actors

At(a, at) == sweep' = [sweep EXCEPT ![a].at = at]
RoleOf(a) == CHOOSE r \in sweep[a].todo : TRUE

\* _local_facts, issuer_stop: what the lease's files say.
LocalFacts ==
    {Fact("close", c) : c \in disk.close} \cup {Fact("created", r) : r \in disk.created}
    \cup {Fact("not-submitted", r) : r \in disk.unsent} \cup (IF disk.stopped THEN {StopFact} ELSE {})

\* reconcile reads the inventory, or cannot.
ReadFacts(a) ==
    /\ sweep[a].at = "read"
    /\ \/ /\ sweep' = [sweep EXCEPT ![a].at = "local", ![a].obs = inv, ![a].left = IF a \in Local THEN LocalFacts ELSE {}]
          /\ UNCHANGED losses
       \/ /\ losses < MaxLosses /\ losses' = losses + 1
          /\ sweep' = [sweep EXCEPT ![a].at = "local", ![a].durable = FALSE,
                                    ![a].left = IF a \in Local THEN LocalFacts ELSE {}]
    /\ UNCHANGED <<world, inv, spool, conflict, disk, clock, crashes, ctl, lock, probed>>

\* It publishes what only the files know.
PublishLocal(a) ==
    /\ sweep[a].at = "local" /\ sweep[a].left # {}
    /\ LET f == CHOOSE f \in sweep[a].left : TRUE
       IN \E ok \in BOOLEAN :
            /\ Publish(a, f, ok)
            /\ sweep' = [sweep EXCEPT ![a].left = @ \ {f}, ![a].obs = @ \cup {f}, ![a].durable = @ /\ ok]
    /\ UNCHANGED <<world, disk, clock, crashes, ctl, lock, probed>>

\* Nothing is touched before the deadline or a reason to close.
Due(a) ==
    /\ sweep[a].at = "local" /\ sweep[a].left = {}
    /\ IF clock = 2 \/ Closing(sweep[a].obs)
       THEN sweep' = [sweep EXCEPT ![a].at = "look", ![a].todo = Roles] ELSE At(a, "failed")
    /\ UNCHANGED <<world, facts, disk, clock, crashes, ctl, lock, probed>>

Sent(a, r) == provider[r] = "active" \/ Has(sweep[a].obs, "created", r)
Stopped(a) == Has(sweep[a].obs, "issuer-stopped", "")

\* Mutant of LookUnknown: what the provider does not list was never created.
LookUnknownAbsent(a) ==
    /\ sweep[a].at = "look" /\ sweep[a].todo # {}
    /\ LET r == RoleOf(a)
       IN /\ ~Sent(a, r)
          /\ sweep' = [sweep EXCEPT ![a].todo = @ \ {r}, ![a].neg = @ \cup {<<r, "not-tested">>}]
    /\ UNCHANGED <<world, facts, disk, clock, crashes, ctl, lock, probed>>

\* _reconcile_role, no credential of the role is known: only the stopped issuer's
\* word that it never sent one settles it.
LookUnknown(a) ==
    /\ sweep[a].at = "look" /\ sweep[a].todo # {}
    /\ LET r == RoleOf(a)
       IN /\ ~Sent(a, r)
          /\ sweep' = [sweep EXCEPT ![a].todo = @ \ {r}, ![a].neg = @ \cup {<<r, "not-tested">>},
                                    ![a].clear = @ /\ Stopped(a) /\ Has(sweep[a].obs, "not-submitted", r)]
    /\ UNCHANGED <<world, facts, disk, clock, crashes, ctl, lock, probed>>

\* Otherwise the identity is retained and published before anything is deleted.
LookKnown(a) ==
    /\ sweep[a].at = "look" /\ sweep[a].todo # {}
    /\ LET r == RoleOf(a)
       IN /\ Sent(a, r)
          /\ disk' = IF a \in Local THEN [disk EXCEPT !.created = @ \cup {r}] ELSE disk
          /\ \E ok \in BOOLEAN :
                /\ Publish(a, Fact("created", r), ok)
                /\ sweep' = [sweep EXCEPT ![a].at = "remove", ![a].known = ok /\ ~Has(sweep[a].obs, "not-submitted", r)]
    /\ UNCHANGED <<world, clock, crashes, ctl, lock, probed>>

\* The role is done; the sweep goes on whatever came of it.
NextRole(a, neg, clear) ==
    sweep' = [sweep EXCEPT ![a].at = "look", ![a].todo = @ \ {RoleOf(a)}, ![a].neg = @ \cup {<<RoleOf(a), neg>>},
                           ![a].clear = @ /\ clear]

\* client.delete, read back.
DeleteRole(a) ==
    /\ sweep[a].at = "remove"
    /\ provider' = [provider EXCEPT ![RoleOf(a)] = "gone"]
    /\ \E ok \in BOOLEAN :
        /\ Publish(a, Fact("removed", RoleOf(a)), ok)
        /\ IF ok THEN At(a, "probe") ELSE NextRole(a, "unverified", FALSE)
    /\ UNCHANGED <<made, disk, clock, crashes, ctl, lock, probed>>

\* A retained secret is tried: the provider has to deny it.
Probe(a) ==
    /\ sweep[a].at = "probe" /\ a \in Local /\ RoleOf(a) \in disk.secret
    /\ probed' = probed \cup {RoleOf(a)}
    /\ \E ok \in BOOLEAN :
        /\ Publish(a, Fact("denied", RoleOf(a)), ok)
        /\ NextRole(a, "denied", ok /\ sweep[a].known)
    /\ UNCHANGED <<world, disk, clock, crashes, ctl, lock>>

\* Without the secret, someone else's denial counts; if the issuer kept one, that
\* denial is owed.
NoProbe(a) ==
    /\ sweep[a].at = "probe" /\ ~(a \in Local /\ RoleOf(a) \in disk.secret)
    /\ LET r == RoleOf(a)
           denied == Has(sweep[a].obs, "denied", r)
           owed == \E f \in sweep[a].obs : f[1] = "issuer-stopped" /\ r \in f[3]
       IN NextRole(a, IF denied THEN "denied" ELSE "unavailable", sweep[a].known /\ (denied \/ ~owed))
    /\ UNCHANGED <<world, facts, disk, clock, crashes, ctl, lock, probed>>

Release(a) == lock' = IF lock = a THEN None ELSE lock

\* Every role is settled, the issuer stopped and every fact durable.
Verified(a) == sweep[a].clear /\ sweep[a].durable /\ Stopped(a) /\ (a = "controller" => sweep[a].pub)

\* The lease is closed; the secrets are removed after that.
CloseLease(a) ==
    /\ sweep[a].at = "look" /\ sweep[a].todo = {}
    /\ IF Verified(a)
       THEN \E ok \in BOOLEAN :
                /\ Publish(a, <<"closed", "", sweep[a].neg>>, ok)
                /\ IF ok THEN At(a, "unlink") ELSE At(a, "failed")
       ELSE At(a, "failed") /\ UNCHANGED facts
    /\ UNCHANGED <<world, disk, clock, crashes, ctl, lock, probed>>

\* The run's cleanup status: what was verified stays so. The controller goes
\* idle; the watchdog reports only runs that have ended (finish_leases).
EndSweep(a) ==
    /\ sweep[a].at \in {"failed", "unlink", "closed"}
    /\ LET done == sweep[a].at # "failed"
           kept == IF a \in Local /\ sweep[a].at = "unlink" THEN {} ELSE disk.secret
           status == CASE a = "controller" -> IF done \/ disk.status = "verified" THEN "verified" ELSE "unresolved"
                       [] a = "watchdog" /\ done /\ sweep[a].pub /\ disk.result # None -> "verified"
                       [] OTHER -> disk.status
       IN disk' = [disk EXCEPT !.secret = kept, !.status = status]
    /\ ctl' = IF a = "controller" THEN [ctl EXCEPT !.pc = "idle"] ELSE ctl
    /\ sweep' = [sweep EXCEPT ![a] = Quiet] /\ Release(a)
    /\ UNCHANGED <<world, facts, clock, crashes, probed>>

Reconcile(a) ==
    \/ ReadFacts(a) \/ PublishLocal(a) \/ Due(a) \/ LookUnknown(a) \/ LookKnown(a) \/ DeleteRole(a)
    \/ Probe(a) \/ NoProbe(a) \/ CloseLease(a) \/ EndSweep(a)

-----------------------------------------------------------------------------
\* The watchdog

Alive == ctl.pc \notin {"dead", "removed"}

\* A failed attempt whose credentials are kept for another one.
KeptForReuse ==
    /\ disk.result \in {"failed", "interrupted"} /\ Retain /\ disk.started /\ ~disk.cancel /\ clock < 2
    /\ disk.stopped /\ disk.close = {}

\* prepare_lease_cleanup: whose time has come is cancelled.
WatchDue ==
    /\ "watchdog" \in Active /\ sweep["watchdog"].at = "idle" /\ disk.manifest /\ ~KeptForReuse /\ disk.status # "verified"
    /\ disk.cancel \/ disk.result # None \/ ~Alive \/ clock = 2
    /\ disk' = [disk EXCEPT !.cancel = TRUE, !.close = @ \cup {"cancel"}]
    /\ sweep' = [sweep EXCEPT !["watchdog"] = [Quiet EXCEPT !.at = "publish"]]
    /\ UNCHANGED <<world, facts, clock, crashes, ctl, lock, probed>>

WatchClose ==
    /\ sweep["watchdog"].at = "publish"
    /\ \E ok \in BOOLEAN :
        /\ Publish("watchdog", Fact("close", "cancel"), ok)
        /\ sweep' = [sweep EXCEPT !["watchdog"].at = IF disk.stopped THEN "lock" ELSE "halt", !["watchdog"].pub = ok]
    /\ UNCHANGED <<world, disk, clock, crashes, ctl, lock, probed>>

\* docker update --restart=no, docker stop: the issuer cannot run any more.
\* Without a claim there is no writer to stop.
WatchHalt ==
    /\ sweep["watchdog"].at = "halt"
    /\ ctl' = [NewController EXCEPT !.pc = "removed"]
    /\ sweep' = [sweep EXCEPT !["controller"] = Quiet, !["watchdog"].at = IF disk.claimed THEN "bind" ELSE "lock",
                              !["watchdog"].pub = @ /\ disk.claimed]
    /\ lock' = IF lock = "controller" THEN None ELSE lock
    /\ UNCHANGED <<world, facts, disk, clock, crashes, probed>>

WatchBind ==
    /\ sweep["watchdog"].at = "bind"
    /\ IF disk.stopped THEN UNCHANGED disk /\ At("watchdog", "proof") ELSE FinishIssuer /\ UNCHANGED sweep
    /\ UNCHANGED <<world, facts, clock, crashes, ctl, lock, probed>>

WatchProof ==
    /\ sweep["watchdog"].at = "proof"
    /\ \E ok \in BOOLEAN :
        /\ Publish("watchdog", StopFact, ok)
        /\ sweep' = [sweep EXCEPT !["watchdog"].at = "lock", !["watchdog"].pub = @ /\ ok]
        /\ disk' = IF ok THEN [disk EXCEPT !.result = Outcome("interrupted")] ELSE disk
    /\ UNCHANGED <<world, clock, crashes, ctl, lock, probed>>

\* A lease that is not due is swept too: its files are published, when there is
\* one that is not.
WatchIdle ==
    /\ "watchdog" \in Active /\ sweep["watchdog"].at = "idle" /\ disk.manifest /\ ~(LocalFacts \subseteq inv)
    /\ sweep' = [sweep EXCEPT !["watchdog"] = [Quiet EXCEPT !.at = "lock"]]
    /\ UNCHANGED <<world, facts, disk, clock, crashes, ctl, lock, probed>>

\* main: the cleanup lock is tried; a lease closed by another is only reported.
WatchLock ==
    /\ sweep["watchdog"].at = "lock"
    /\ IF lock # None THEN sweep' = [sweep EXCEPT !["watchdog"] = Quiet] /\ UNCHANGED lock
       ELSE At("watchdog", IF Published("closed") THEN "closed" ELSE "read") /\ lock' = "watchdog"
    /\ UNCHANGED <<world, facts, disk, clock, crashes, ctl, probed>>

\* due_processes: a container that does not run has no result to come.
WatchInterrupt ==
    /\ disk.attempt /\ ~Alive /\ disk.result = None
    /\ disk' = [disk EXCEPT !.result = "interrupted"]
    /\ UNCHANGED <<world, facts, clock, crashes, ctl, sweep, lock, probed>>

WatchCrash ==
    /\ sweep["watchdog"].at # "idle" /\ crashes < MaxCrashes /\ crashes' = crashes + 1
    /\ sweep' = [sweep EXCEPT !["watchdog"] = Quiet]
    /\ Release("watchdog")
    /\ UNCHANGED <<world, facts, disk, clock, ctl, probed>>

Watchdog ==
    \/ WatchDue \/ WatchClose \/ WatchHalt \/ WatchBind \/ WatchProof \/ WatchLock \/ WatchInterrupt

-----------------------------------------------------------------------------
\* The independent job: a fresh runner without files

\* connect_action.execute, sweep_leases: a lease it sees for the first time in
\* time is confirmed.
Confirm ==
    /\ sweep["github"].at = "idle" /\ Published("manifest") /\ ~Published("confirmed")
    /\ ~Closing(inv) /\ clock = 0
    /\ spool' = [spool EXCEPT !["github"] = {}]
    /\ \/ inv' = inv \cup {Fact("confirmed", "")} /\ UNCHANGED losses
       \/ losses < MaxLosses /\ losses' = losses + 1 /\ inv' \in {inv, inv \cup {Fact("confirmed", "")}}
    /\ UNCHANGED <<world, conflict, disk, clock, crashes, ctl, sweep, lock, probed>>

\* A sweep of a lease that is not due changes nothing.
GithubSweep ==
    /\ "github" \in Active /\ sweep["github"].at = "idle" /\ Published("manifest") /\ ~Published("closed")
    /\ Closing(inv) \/ clock = 2
    /\ sweep' = [sweep EXCEPT !["github"] = [Quiet EXCEPT !.at = "read"]]
    /\ spool' = [spool EXCEPT !["github"] = {}]
    /\ UNCHANGED <<world, inv, losses, conflict, disk, clock, crashes, ctl, lock, probed>>

-----------------------------------------------------------------------------
\* The operator and time

\* cancel, or the attempt's ceiling (stop_attempt).
Interrupt ==
    /\ disk.attempt
    /\ \/ "cancel" \in Orders /\ ~disk.cancel /\ disk' = [disk EXCEPT !.cancel = TRUE]
       \/ "stop" \in Orders /\ ~disk.stop /\ disk.result = None /\ disk' = [disk EXCEPT !.stop = TRUE]
    /\ UNCHANGED <<world, facts, clock, crashes, ctl, sweep, lock, probed>>

Tick ==
    /\ clock < 2 /\ clock' = clock + 1
    /\ UNCHANGED <<world, facts, disk, crashes, ctl, sweep, lock, probed>>

-----------------------------------------------------------------------------

Init ==
    /\ provider = [r \in Roles |-> "none"] /\ made = [r \in Roles |-> 0]
    /\ inv = {} /\ spool = [a \in Actors |-> {}] /\ losses = 0 /\ conflict = FALSE
    /\ disk = [attempt |-> FALSE, manifest |-> FALSE, claimed |-> FALSE, submitting |-> {}, created |-> {},
               secret |-> {}, unsent |-> {}, close |-> {}, binding |-> None, stopped |-> FALSE, cancel |-> FALSE,
               stop |-> FALSE, started |-> FALSE, drained |-> FALSE, result |-> None, status |-> "pending"]
    /\ clock = 0 /\ crashes = 0 /\ ctl = NewController
    /\ sweep = [a \in Actors |-> Quiet] /\ lock = None /\ probed = {}

Next ==
    \/ Controller \/ Crash \/ Restart \/ Watchdog \/ WatchIdle \/ WatchCrash \/ Confirm \/ GithubSweep \/ Interrupt \/ Tick
    \/ \E a \in Actors : Reconcile(a)
    \/ \E r \in Roles : Apply(r)

Spec == Init /\ [][Next]_vars

\* Each process goes on, and time does; no operator does.
FairSpec ==
    /\ Spec /\ WF_vars(Controller) /\ WF_vars(Restart) /\ WF_vars(Watchdog) /\ WF_vars(GithubSweep) /\ WF_vars(Tick)
    /\ \A a \in Actors : WF_vars(Reconcile(a))
    /\ SF_vars(WatchLock /\ lock = None)

-----------------------------------------------------------------------------

\* The run's records have their shape.
TypeOK ==
    /\ provider \in [Roles -> {"none", "flight", "active", "gone", "lost"}]
    /\ made \in [Roles -> Nat] /\ spool \in [Actors -> SUBSET ({"manifest", "close", "created", "not-submitted",
            "issuer-stopped", "removed", "denied", "closed"} \X (Roles \cup Reasons \cup {""}))]
    /\ losses \in 0..MaxLosses /\ crashes \in 0..MaxCrashes /\ clock \in 0..2
    /\ disk.close \subseteq Reasons /\ disk.submitting \subseteq Roles
    /\ disk.created \subseteq Roles /\ disk.secret \subseteq disk.created
    /\ disk.status \in {"pending", "unresolved", "verified"}
    /\ lock \in {None} \cup Local /\ probed \subseteq Roles /\ conflict \in BOOLEAN

\* inventory.require_clear: another set of credentials may be issued.
RequireClear == inv = {} \/ (Published("manifest") /\ Published("closed") /\ Published("issuer-stopped"))

\* Whenever the inventory lets another lease begin, no credential of this one
\* exists and no creation of one is under way: whoever closed it, whatever
\* process died and whatever write got lost.
ClearMeansGone == RequireClear => \A r \in Roles : provider[r] \notin {"flight", "active"}

\* A closed lease whose issuer kept secrets has had each of them denied by the
\* provider (revoke, negative_authentication).
ClosedMeansDenied ==
    Published("closed") => \A f \in inv : f[1] = "issuer-stopped" => f[3] \subseteq probed

\* A role gets one credential at most, however often the controller restarts.
SingleIssuance == \A r \in Roles : made[r] <= 1

\* No two actors publish contradictory facts in one slot: not the stop of the
\* issuer, nor the results of the closure.
NoContradiction == ~conflict

\* A secret on disk is named by the stop proof as soon as that one is bound.
SecretsAreBound == disk.stopped /\ disk.binding # None => disk.secret \subseteq disk.binding

\* What the operator is told is verified, is closed in the inventory.
VerifiedMeansClosed == disk.status = "verified" => Published("closed")

\* A journey runs on credentials that exist, unless a close was requested.
JourneyHasCredentials ==
    ctl.pc = "journey" => (\A r \in Roles : provider[r] = "active") \/ disk.close # {} \/ Closing(inv) \/ clock = 2

=============================================================================
