-------------------------- MODULE RouteTransition --------------------------
\* Create, suspend, resume, rename and reconcile: the lifecycle operations
\* that move a tenant's routes and no release (create_*.py, route_*.py).
\*
\* A handler runs its job in three transactions - classify, prepare, activate -
\* each under the publication lock and none of them holding it for the next, so
\* workers of different jobs, and two workers of one job, interleave between
\* them.  A worker can be killed between any two durable writes.
EXTENDS Naturals, Sequences, FiniteSets

CONSTANTS
    Tenants,        \* tenant identifiers, the ones creates will draw included
    Slugs,          \* alias names
    Jobs,           \* authorization jobs
    Workers,        \* worker processes
    Starting,       \* lifecycles tenants are found in at the start
    Drifting,       \* TRUE: one tenant's runtime may disagree with its record
    MaxFaults,      \* kills, capacity refusals and Caddy failures together
    None

RouteAssumption == 
    MaxFaults \in Nat /\ Drifting \in BOOLEAN
        /\ Starting \subseteq {"undeployed", "active", "suspended", "archived"}

Lifecycles == {"undeployed", "active", "suspended", "archived"}
RouteOperations == {"suspend", "resume", "rename", "reconcile"}

\* Each job publishes one candidate, and each fault can waste one.
LastGeneration == 1 + Cardinality(Jobs) + MaxFaults
Generations == 1..LastGeneration

VARIABLES
    desired,        \* tenant -> desired manifest [slug, state], or None
    observed,       \* tenant -> observed state [of, generation, at], or None
    gens,           \* generation -> its route snapshot, or None
    selected,       \* the generation the active reference names
    running,        \* the generation Caddy runs
    intent,         \* the one transaction intent, or None
    jobs,           \* job -> its authorization record, or None
    audit,          \* the audit chain: entries [job, status]
    workers,        \* worker -> [job, pc, again, plan], or None
    lock,           \* the worker that holds the publication lock, or None
    faults          \* faults so far

vars == <<desired, observed, gens, selected, running, intent, jobs, audit,
          workers, lock, faults>>

state == <<desired, observed>>
runtime == <<gens, selected, running>>

-----------------------------------------------------------------------------
\* Manifests, observed states and route snapshots

Manifests == [slug : Slugs, state : Lifecycles]
Observations == [of : Manifests, generation : Generations \cup {None}, at : Generations]

\* The lifecycle an operation takes a lifecycle to; None where it has none.
Matrix(op, from) ==
    CASE op = "suspend" /\ from \in {"active", "suspended"} -> "suspended"
      [] op = "resume" /\ from \in {"active", "suspended"} -> "active"
      [] op = "rename" /\ from # "archived" -> from
      [] op = "reconcile" -> from
      [] OTHER -> None

\* The observed state a transition to manifest m writes when its candidate is
\* generation g.  "of" is the digest of the manifest and "at" the timestamp,
\* which no two transitions share; only an active tenant names a generation.
Observation(m, g) ==
    [of |-> m, generation |-> IF m.state = "active" THEN g ELSE None, at |-> g]

\* What a generation keeps of one tenant.
Entry(m, o) == [manifest |-> m, observed |-> o]

\* A tenant's routes can be derived only where both records agree.
RoutableEntry(e) ==
    e # None => e.observed.of = e.manifest /\ e.manifest.state # "archived"

\* No two tenants, archived ones included, have one slug.
DistinctSlugs(d) ==
    \A t, u \in Tenants :
        t # u /\ d[t] # None /\ d[u] # None => d[t].slug # d[u].slug

\* An archived tenant's records agree, except where drift is forgiven.
ArchivedBound(d, o, t) == d[t].state = "archived" => o[t].of = d[t]

\* The tenants a complete snapshot of records d and o holds: an archived
\* tenant has no route.
Snapshot(d, o) ==
    [t \in Tenants |-> IF d[t] = None \/ o[t] = None THEN None
                       ELSE IF d[t].state = "archived" THEN None
                       ELSE Entry(d[t], o[t])]

\* The snapshot can be taken at all; "forgiven" is the tenant a reconcile
\* may find in disagreement.
Snapshottable(d, o, forgiven) ==
    /\ DistinctSlugs(d)
    /\ \A t \in Tenants : d[t] # None =>
            /\ o[t] # None
            /\ t = forgiven \/ ArchivedBound(d, o, t)

\* "both" routes or "absent": what the selected generation serves of a tenant.
RouteSet(snap, t) ==
    IF snap[t] # None /\ snap[t].manifest.state = "active" THEN "both" ELSE "absent"

\* The records with one tenant's replaced by a candidate.
OverlayDesired(t, m) == [desired EXCEPT ![t] = m]
OverlayObserved(t, o) == [observed EXCEPT ![t] = o]

\* Two snapshots agree on every tenant but one.
MatchExcept(a, b, t) == \A u \in Tenants \ {t} : a[u] = b[u]

-----------------------------------------------------------------------------
\* Workers

Job(w) == jobs[workers[w].job]
Plan(w) == workers[w].plan
Creates(w) == Job(w).op = "create"
At(w, pc) == workers[w] # None /\ workers[w].pc = pc
MayFault == faults < MaxFaults

Goto(w, pc) == [workers EXCEPT ![w].pc = pc]
GotoWith(w, pc, plan) == [workers EXCEPT ![w].pc = pc, ![w].plan = plan]
Exit(w) == [workers EXCEPT ![w] = None]

\* The handler classifies its job once more after a lost race, and only once:
\* the second loss ends the worker.
Again(w) ==
    IF workers[w].again
    THEN [workers EXCEPT ![w] = [@ EXCEPT !.pc = "classify", !.again = FALSE, !.plan = None]]
    ELSE Exit(w)

\* A create retries after activation and recovery races, and dies of a commit
\* error; a route retries after that one too.
AgainUnlessCreate(w) == IF Creates(w) THEN Exit(w) ELSE Again(w)

\* Bound: Tenants stands for an endless supply of identifiers, so no create is
\* issued that would find none.
IdentityLeft ==
    Cardinality({t \in Tenants : desired[t] = None}) >
        Cardinality({j \in Jobs : /\ jobs[j] # None
                                  /\ jobs[j].op = "create" /\ jobs[j].phase = "claimed"
                                  /\ intent # None => intent.job # j})
            + (IF intent # None /\ intent.op = "create" /\ desired[intent.tenant] = None
               THEN 1 ELSE 0)

\* The job is admitted with the source it was authorised against.
Issue(j, op, t, s) ==
    /\ jobs[j] = None
    /\ op # "create" => desired[t] # None
    /\ op = "create" => IdentityLeft
    /\ jobs' = [jobs EXCEPT ![j] =
            [op |-> op,
             tenant |-> IF op = "create" THEN None ELSE t,
             slug |-> IF op \in {"create", "rename"} THEN s ELSE None,
             expected |-> IF op = "create" THEN None ELSE desired[t],
             bound |-> None, phase |-> "claimed", result |-> None]]
    /\ UNCHANGED <<state, runtime, intent, audit, workers, lock, faults>>

\* A worker takes a job nobody has settled: its result is missing, or its
\* intent still stands.
Start(w, j) ==
    /\ workers[w] = None
    /\ jobs[j] # None
    /\ jobs[j].phase = "claimed" \/ (intent # None /\ intent.job = j)
    /\ workers' = [workers EXCEPT ![w] =
            [job |-> j, pc |-> "classify", again |-> TRUE, plan |-> None]]
    /\ UNCHANGED <<state, runtime, intent, jobs, audit, lock, faults>>

\* The job's own intent: a create finds it by correlation, a route by
\* operation and tenant as well.
OwnIntent(w) == intent # None /\ intent.job = workers[w].job

\* One read-only transaction picks recovery, replay or a fresh preparation.
Classify(w) ==
    /\ At(w, "classify") /\ lock = None
    /\ workers' = IF OwnIntent(w) THEN Goto(w, "recover")
                  ELSE IF Job(w).result # None \/ intent # None THEN Exit(w)
                  ELSE Goto(w, "prepare")
    /\ UNCHANGED <<state, runtime, intent, jobs, audit, lock, faults>>

-----------------------------------------------------------------------------
\* Prepare

\* The tenant is still what the job was authorised against.
RouteAuthorityCurrent(w) == desired[Job(w).tenant] = Job(w).expected

\* A create is authorised against the platform namespace alone, which nothing
\* here changes.
CreateAuthorityCurrent(w) == Job(w).expected = None

AuthorityCurrent(w) ==
    IF Creates(w) THEN CreateAuthorityCurrent(w) ELSE RouteAuthorityCurrent(w)

\* What the selected generation serves agrees with the records; a reconcile
\* may differ at its own tenant.
SelectionCurrent(w) ==
    LET t == Job(w).tenant
        reconciles == Job(w).op = "reconcile"
    IN  /\ Snapshottable(desired, observed, IF reconciles THEN t ELSE None)
        /\ \/ gens[selected] = Snapshot(desired, observed)
           \/ reconciles /\ MatchExcept(gens[selected], Snapshot(desired, observed), t)

\* The source a route job binds before it plans.
Source(w) ==
    [generation |-> selected,
     routes |-> RouteSet(gens[selected], Job(w).tenant),
     observed |-> observed[Job(w).tenant]]

SameTarget(a, b) == a.routes = b.routes /\ a.observed = b.observed

\* A reconcile whose earlier attempt repaired the selection may follow it.
MayAdvance(w) ==
    Job(w).op = "reconcile" /\ gens[selected] = Snapshot(desired, observed)

\* A job bound earlier keeps its target; the generation may have moved on
\* under it, by other tenants' transitions.
Bindable(w) ==
    LET b == Job(w).bound
    IN  b = None \/ SameTarget(b, Source(w))
        \/ (b.generation # selected /\ MayAdvance(w))

\* The repository takes the new binding only from a claimed job, before any
\* intent exists.
RebindAdmitted(w) == Job(w).phase = "claimed" /\ intent = None

\* prepare_*_transition up to the first durable write, the job's binding.
PrepareAuthority(w) ==
    /\ At(w, "prepare") /\ lock = None
    /\ IF Job(w).phase # "claimed"
       THEN workers' = Again(w) /\ UNCHANGED <<lock, jobs>>
       ELSE IF ~AuthorityCurrent(w)
       THEN workers' = Goto(w, "reject") /\ UNCHANGED <<lock, jobs>>
       ELSE IF intent # None
       THEN workers' = Again(w) /\ UNCHANGED <<lock, jobs>>
       ELSE IF Creates(w)
       THEN workers' = Goto(w, "plan") /\ lock' = w /\ UNCHANGED jobs
       ELSE IF ~SelectionCurrent(w) \/ ~Bindable(w)
       THEN workers' = Goto(w, "reject") /\ UNCHANGED <<lock, jobs>>
       ELSE /\ RebindAdmitted(w)
            /\ jobs' = [jobs EXCEPT ![workers[w].job].bound = Source(w)]
            /\ lock' = w
            /\ workers' = Goto(w, "plan")
    /\ UNCHANGED <<state, runtime, intent, audit, faults>>

\* Generation identifiers grow with time.
Fresh == CHOOSE g \in 1..(LastGeneration + 1) :
            /\ \A h \in Generations : gens[h] # None => h < g
            /\ \A h \in 1..(LastGeneration + 1) :
                  (\A i \in Generations : gens[i] # None => i < h) => g <= h

\* Suspend, resume, rename, reconcile: the candidate, or None when the
\* lifecycle has no such operation, the observed source disagrees with it, or
\* a rename keeps the slug.
PlanRoute(w) ==
    LET j == Job(w)
        from == desired[j.tenant]
        target == Matrix(j.op, from.state)
        m == IF j.op = "rename" THEN [from EXCEPT !.slug = j.slug]
             ELSE [from EXCEPT !.state = target]
    IN  IF \/ target = None
           \/ j.op # "reconcile" /\ (\/ observed[j.tenant].of # from
                                     \/ j.bound.routes # (IF from.state = "active"
                                                          THEN "both" ELSE "absent"))
           \/ j.op = "rename" /\ m = from
        THEN None
        ELSE [job |-> workers[w].job, op |-> j.op, tenant |-> j.tenant,
              src |-> selected, candidate |-> Fresh, routes |-> j.bound.routes,
              from |-> from, fromObserved |-> observed[j.tenant],
              to |-> m, toObserved |-> Observation(m, Fresh)]

\* Create draws a new tenant identifier t for an undeployed tenant.
PlanCreate(w, t) ==
    LET m == [slug |-> Job(w).slug, state |-> "undeployed"]
    IN  [job |-> workers[w].job, op |-> "create", tenant |-> t,
         src |-> selected, candidate |-> Fresh, routes |-> "absent",
         from |-> None, fromObserved |-> None,
         to |-> m, toObserved |-> Observation(m, Fresh)]

\* No other tenant has the candidate's slug.
SlugAvailable(p) ==
    \A u \in Tenants \ {p.tenant} : desired[u] # None => desired[u].slug # p.to.slug

\* The drawn identifier names no tenant, present or past.
IdentityAvailable(t) == desired[t] = None /\ observed[t] = None

\* The generations pruning keeps: the active one, and the newest other.
Retained ==
    LET others == {g \in Generations : gens[g] # None /\ g # selected}
    IN  {selected} \cup {g \in others : \A h \in others : h <= g}

\* The candidate's routes can be built: every tenant's records agree, the
\* candidate's own in place of its tenant's.
Derivable(p) ==
    LET d == OverlayDesired(p.tenant, p.to)
        o == OverlayObserved(p.tenant, p.toObserved)
    IN  /\ Snapshottable(d, o, None)
        /\ \A t \in Tenants : RoutableEntry(Snapshot(d, o)[t])

Planned(p) == [intent |-> p, seq |-> Len(audit)]

\* Plan, check the slug, prune.  A plan the lifecycle has no place for is
\* rejected as invalid, a taken slug as drift; both leave the lock.
PlanCandidate(w) ==
    /\ At(w, "plan") /\ lock = w
    /\ \E p \in IF Creates(w)
                THEN {PlanCreate(w, t) : t \in {u \in Tenants : IdentityAvailable(u)}}
                ELSE {PlanRoute(w)} :
          IF p = None \/ (p # None /\ ~SlugAvailable(p))
          THEN workers' = Goto(w, "reject") /\ lock' = None /\ UNCHANGED gens
          ELSE /\ gens' = [g \in Generations |-> IF g \in Retained THEN gens[g] ELSE None]
               /\ workers' = GotoWith(w, "publish", Planned(p))
               /\ UNCHANGED lock
    /\ UNCHANGED <<state, selected, running, intent, jobs, audit, faults>>

\* The complete unselected candidate is stored, or its routes cannot be built
\* because some other tenant has drifted: then the worker dies of the error.
PublishCandidate(w) ==
    LET p == Plan(w).intent
    IN  /\ At(w, "publish") /\ lock = w
        /\ IF Derivable(p)
           THEN /\ gens' = [gens EXCEPT ![p.candidate] =
                        Snapshot(OverlayDesired(p.tenant, p.to),
                                 OverlayObserved(p.tenant, p.toObserved))]
                /\ workers' = Goto(w, "admit") /\ UNCHANGED lock
           ELSE workers' = Exit(w) /\ lock' = None /\ UNCHANGED gens
        /\ UNCHANGED <<state, selected, running, intent, jobs, audit, faults>>

\* The intent binds the candidate durably, and the transaction ends.
CreateIntent(w) ==
    /\ At(w, "admit") /\ lock = w
    /\ intent' = Plan(w).intent
    /\ workers' = Goto(w, "activate")
    /\ lock' = None
    /\ UNCHANGED <<state, runtime, jobs, audit, faults>>

\* No room for the intent: the candidate nobody can select is discarded.
RefuseIntent(w) ==
    /\ At(w, "admit") /\ lock = w /\ MayFault
    /\ gens' = [gens EXCEPT ![Plan(w).intent.candidate] = None]
    /\ workers' = Exit(w)
    /\ lock' = None
    /\ faults' = faults + 1
    /\ UNCHANGED <<state, selected, running, intent, jobs, audit>>

\* Mutant of PublishFailure: the job's own intent is no obstacle.
PublishFailureBesideIntent(w) ==
    /\ At(w, "reject") /\ lock = None
    /\ IF Job(w).result = None /\ (intent = None \/ OwnIntent(w))
       THEN /\ jobs' = [jobs EXCEPT ![workers[w].job].phase = "failed",
                                    ![workers[w].job].result =
                                        [status |-> "failed", manifest |-> None]]
            /\ audit' = Append(audit, [job |-> workers[w].job, status |-> "failed"])
       ELSE UNCHANGED <<jobs, audit>>
    /\ workers' = Exit(w)
    /\ UNCHANGED <<state, runtime, intent, lock, faults>>

\* The executor answers a rejected job with a failure, unless another worker
\* settled it meanwhile, or an intent stands: another job's reserves the audit
\* chain, and its own says the rejection came from a race.  (The three records
\* of a failure are written one by one in JobExecution.)
PublishFailure(w) ==
    /\ At(w, "reject") /\ lock = None
    /\ IF Job(w).result = None /\ intent = None
       THEN /\ jobs' = [jobs EXCEPT ![workers[w].job].phase = "failed",
                                    ![workers[w].job].result =
                                        [status |-> "failed", manifest |-> None]]
            /\ audit' = Append(audit, [job |-> workers[w].job, status |-> "failed"])
       ELSE UNCHANGED <<jobs, audit>>
    /\ workers' = Exit(w)
    /\ UNCHANGED <<state, runtime, intent, lock, faults>>

-----------------------------------------------------------------------------
\* Recover

\* The intent and the job it correlates with agree on the source.
BoundJob(i) ==
    LET j == jobs[i.job]
    IN  i.op # "create" =>
            /\ j.op = i.op /\ j.tenant = i.tenant
            /\ j.bound = [generation |-> i.src, routes |-> i.routes,
                          observed |-> i.fromObserved]

\* The intent's source is the one the job was authorised against.
SourceAuthority(i) == i.from = jobs[i.job].expected

\* The snapshot with one tenant's entry replaced; an archived tenant has none.
ReplaceTenant(snap, t, m, o) ==
    [snap EXCEPT ![t] = IF m.state = "archived" THEN None ELSE Entry(m, o)]

\* A reconcile's source may have drifted at its own tenant only, and showed
\* the routes the intent recorded.
ReconcileSource(i, current) ==
    /\ MatchExcept(gens[i.src], current, i.tenant)
    /\ RouteSet(gens[i.src], i.tenant) = i.routes

\* Both generations the intent names are what the records, with the tenant's
\* own source and candidate in place, would produce.
GenerationSnapshots(i) ==
    LET current == Snapshot(desired, observed)
    IN  /\ Snapshottable(desired, observed, IF i.op = "reconcile" THEN i.tenant ELSE None)
        /\ gens[i.candidate] = ReplaceTenant(current, i.tenant, i.to, i.toObserved)
        /\ IF i.op = "reconcile" THEN ReconcileSource(i, current)
           ELSE gens[i.src] = ReplaceTenant(current, i.tenant, i.from, i.fromObserved)

\* The candidate generation holds the create's tenant exactly as the intent
\* says.
CandidateTenant(i) == gens[i.candidate][i.tenant] = Entry(i.to, i.toObserved)

\* Where the job's entry is, or will be, in the audit chain.
RecoverSequence(j) ==
    IF \E n \in 1..Len(audit) : audit[n].job = j
    THEN (CHOOSE n \in 1..Len(audit) : audit[n].job = j) - 1
    ELSE Len(audit)

\* Each tenant record is still the source's or already the candidate's, and
\* the observed one never leads.
WithinAuthority(i) ==
    /\ desired[i.tenant] \in {i.from, i.to}
    /\ observed[i.tenant] \in {i.fromObserved, i.toObserved}
    /\ observed[i.tenant] = i.toObserved => desired[i.tenant] = i.to

\* The audit entry extends the chain, or is its last entry already.
AuditFits(p) ==
    \/ Len(audit) = p.seq
    \/ Len(audit) = p.seq + 1 /\ audit[Len(audit)].job = p.intent.job

\* A route is rebuilt from its intent, its job and the two generations.
RecoverRoute(w) ==
    /\ At(w, "recover") /\ lock = None /\ ~Creates(w)
    /\ workers' = IF ~(/\ OwnIntent(w)
                       /\ BoundJob(intent) /\ SourceAuthority(intent)
                       /\ GenerationSnapshots(intent)) THEN Again(w)
                  ELSE IF ~WithinAuthority(intent) THEN Exit(w)
                  ELSE GotoWith(w, "activate",
                                [intent |-> intent, seq |-> RecoverSequence(intent.job)])
    /\ UNCHANGED <<state, runtime, intent, jobs, audit, lock, faults>>

\* A create's candidate is read back from its generation; then the tenant's
\* records are filled in before anything is activated.
RecoverCreate(w) ==
    /\ At(w, "recover") /\ lock = None /\ Creates(w)
    /\ IF ~(OwnIntent(w) /\ BoundJob(intent) /\ CandidateTenant(intent))
       THEN workers' = Again(w) /\ UNCHANGED lock
       ELSE IF ~WithinAuthority(intent)
       THEN workers' = Exit(w) /\ UNCHANGED lock
       ELSE /\ lock' = w
            /\ workers' = GotoWith(w, "fill",
                                   [intent |-> intent, seq |-> RecoverSequence(intent.job)])
    /\ UNCHANGED <<state, runtime, intent, jobs, audit, faults>>

\* ensure_create_tenant_state: the desired record first, each only once.
FillTenant(w) ==
    LET i == Plan(w).intent
    IN  /\ At(w, "fill") /\ lock = w
        /\ \/ /\ desired[i.tenant] = None
              /\ desired' = OverlayDesired(i.tenant, i.to)
              /\ UNCHANGED observed
           \/ /\ desired[i.tenant] # None /\ observed[i.tenant] = None
              /\ observed' = OverlayObserved(i.tenant, i.toObserved)
              /\ UNCHANGED desired
        /\ UNCHANGED <<runtime, intent, jobs, audit, workers, lock, faults>>

\* With the tenant filled in, the candidate must be the complete snapshot.
FinishRecovery(w) ==
    LET i == Plan(w).intent
    IN  /\ At(w, "fill") /\ lock = w
        /\ desired[i.tenant] = i.to /\ observed[i.tenant] = i.toObserved
        /\ workers' = IF gens[i.candidate] = Snapshot(desired, observed)
                      THEN Goto(w, "activate") ELSE Again(w)
        /\ lock' = None
        /\ UNCHANGED <<state, runtime, intent, jobs, audit, faults>>

-----------------------------------------------------------------------------
\* Activate

\* The job changed nothing but its phase since it was prepared.
ExactJob(w) == BoundJob(Plan(w).intent)

\* The plan's documents name each other consistently.
Coherent(p, j) ==
    /\ p.from = j.expected
    /\ p.op # "create" =>
        /\ p.to = IF p.op = "rename" THEN [p.from EXCEPT !.slug = j.slug]
                  ELSE [p.from EXCEPT !.state = Matrix(p.op, p.from.state)]
        /\ p.op # "reconcile" => p.fromObserved.of = p.from
    /\ p.toObserved = Observation(p.to, p.candidate)
    /\ p.src # p.candidate

\* Without an intent the transition is over: its records must all be there.
Terminal(w) ==
    LET p == Plan(w)
        i == p.intent
    IN  /\ Job(w).phase = "completed"
        /\ desired[i.tenant] = i.to /\ observed[i.tenant] = i.toObserved
        /\ Job(w).result = [status |-> "succeeded", manifest |-> i.to]
        /\ Len(audit) = p.seq + 1 /\ audit[Len(audit)].job = i.job

\* The activation transaction begins.  A plan another worker has overtaken is
\* classified again; one already finished is replayed.
Activate(w) ==
    LET p == Plan(w)
    IN  /\ At(w, "activate") /\ lock = None
        /\ Coherent(p.intent, Job(w))
        /\ IF ~ExactJob(w) THEN workers' = Again(w) /\ UNCHANGED lock
           ELSE IF intent = None
           THEN /\ workers' = IF Terminal(w) THEN Exit(w) ELSE AgainUnlessCreate(w)
                /\ UNCHANGED lock
           ELSE IF intent # p.intent THEN workers' = Again(w) /\ UNCHANGED lock
           ELSE IF ~WithinAuthority(intent) THEN workers' = Exit(w) /\ UNCHANGED lock
           ELSE IF ~AuditFits(p) THEN workers' = AgainUnlessCreate(w) /\ UNCHANGED lock
           ELSE workers' = Goto(w, "select") /\ lock' = w
        /\ UNCHANGED <<state, runtime, intent, jobs, audit, faults>>

\* Capacity for the terminal records is refused before the runtime is touched:
\* a candidate an earlier attempt selected is taken back.
RefuseActivation(w) ==
    LET i == Plan(w).intent
    IN  /\ At(w, "select") /\ lock = w /\ MayFault
        /\ selected \in {i.src, i.candidate}
        /\ selected' = i.src
        /\ running' = i.src
        /\ workers' = Exit(w)
        /\ lock' = None
        /\ faults' = faults + 1
        /\ UNCHANGED <<state, gens, intent, jobs, audit>>

\* The active reference is moved to the candidate, once Caddy is known to run
\* what it named.
Select(w) ==
    LET i == Plan(w).intent
    IN  /\ At(w, "select") /\ lock = w
        /\ IF selected \notin {i.src, i.candidate}
           THEN workers' = Again(w) /\ lock' = None /\ UNCHANGED <<selected, running>>
           ELSE /\ selected' = i.candidate
                /\ running' = IF selected = i.src THEN i.src ELSE running
                /\ workers' = Goto(w, "reload")
                /\ UNCHANGED lock
        /\ UNCHANGED <<state, gens, intent, jobs, audit, faults>>

Reload(w) ==
    /\ At(w, "reload") /\ lock = w
    /\ running' = Plan(w).intent.candidate
    /\ workers' = Goto(w, "commit")
    /\ UNCHANGED <<state, gens, selected, intent, jobs, audit, lock, faults>>

\* Caddy refuses the candidate: the source is selected and restored, which may
\* itself fail and leave Caddy as it is.
ReloadFails(w) ==
    /\ At(w, "reload") /\ lock = w /\ MayFault
    /\ selected' = Plan(w).intent.src
    /\ \/ running' = Plan(w).intent.src /\ workers' = Exit(w)
       \/ UNCHANGED running /\ workers' = Again(w)
    /\ lock' = None
    /\ faults' = faults + 1
    /\ UNCHANGED <<state, gens, intent, jobs, audit>>

-----------------------------------------------------------------------------
\* Commit: each durable record in turn, the first that is missing

Committing(w) == At(w, "commit") /\ lock = w

WriteDesired(w) ==
    LET i == Plan(w).intent
    IN  /\ Committing(w)
        /\ desired[i.tenant] # i.to
        /\ desired' = OverlayDesired(i.tenant, i.to)
        /\ UNCHANGED <<observed, runtime, intent, jobs, audit, workers, lock, faults>>

WriteObserved(w) ==
    LET i == Plan(w).intent
    IN  /\ Committing(w)
        /\ desired[i.tenant] = i.to /\ observed[i.tenant] # i.toObserved
        /\ observed' = OverlayObserved(i.tenant, i.toObserved)
        /\ UNCHANGED <<desired, runtime, intent, jobs, audit, workers, lock, faults>>

\* Both of the tenant's records are the candidate's.
StateWritten(i) == desired[i.tenant] = i.to /\ observed[i.tenant] = i.toObserved

\* The job's entry ends the audit chain.
AuditWritten(p) == Len(audit) # p.seq

AppendAudit(w) ==
    /\ Committing(w)
    /\ StateWritten(Plan(w).intent) /\ ~AuditWritten(Plan(w))
    /\ audit' = Append(audit, [job |-> workers[w].job, status |-> "succeeded"])
    /\ UNCHANGED <<state, runtime, intent, jobs, workers, lock, faults>>

WriteResult(w) ==
    LET i == Plan(w).intent
    IN  /\ Committing(w)
        /\ StateWritten(i) /\ AuditWritten(Plan(w)) /\ Job(w).result = None
        /\ jobs' = [jobs EXCEPT ![i.job].result = [status |-> "succeeded", manifest |-> i.to]]
        /\ UNCHANGED <<state, runtime, intent, audit, workers, lock, faults>>

CompleteJob(w) ==
    /\ Committing(w)
    /\ Job(w).result # None /\ Job(w).phase = "claimed"
    /\ jobs' = [jobs EXCEPT ![workers[w].job].phase = "completed"]
    /\ UNCHANGED <<state, runtime, intent, audit, workers, lock, faults>>

\* The intent goes last, and the worker is done.
RemoveIntent(w) ==
    /\ Committing(w)
    /\ StateWritten(Plan(w).intent) /\ Job(w).phase = "completed"
    /\ intent' = None
    /\ workers' = Exit(w)
    /\ lock' = None
    /\ UNCHANGED <<state, runtime, jobs, audit, faults>>

-----------------------------------------------------------------------------
\* The environment

\* A worker is killed; the kernel drops its lock.
Kill(w) ==
    /\ workers[w] # None /\ MayFault
    /\ workers' = Exit(w)
    /\ lock' = IF lock = w THEN None ELSE lock
    /\ faults' = faults + 1
    /\ UNCHANGED <<state, runtime, intent, jobs, audit>>

\* Caddy is started again and reads the active reference.
RestartCaddy ==
    /\ running # selected
    /\ running' = selected
    /\ UNCHANGED <<state, gens, selected, intent, jobs, audit, workers, lock, faults>>

\* What a drifted tenant's generation still says of it.
Flipped(m) ==
    [m EXCEPT !.state = IF m.state = "suspended" THEN "active" ELSE "suspended"]

\* A settled host: every tenant's records agree and the selected generation is
\* their snapshot - except, with Drifting, one tenant, whose generation and
\* perhaps whose observed record still hold another lifecycle.
Init ==
    /\ desired \in {d \in [Tenants -> [slug : Slugs, state : Starting] \cup {None}] :
                        DistinctSlugs(d) /\ \E t \in Tenants : d[t] # None}
    /\ \E t \in IF Drifting THEN {u \in Tenants : desired[u] # None
                                        /\ desired[u].state \in {"active", "suspended"}}
                ELSE {None}, stale \in BOOLEAN :
         LET seen == [u \in Tenants |-> IF desired[u] = None THEN None
                                        ELSE Observation(desired[u], 1)]
             old == IF t = None THEN None ELSE Observation(Flipped(desired[t]), 1)
         IN  /\ (t = None => ~stale)
             /\ observed = IF stale THEN [seen EXCEPT ![t] = old] ELSE seen
             /\ gens = [g \in Generations |->
                    IF g # 1 THEN None
                    ELSE IF t = None THEN Snapshot(desired, observed)
                    ELSE [Snapshot(desired, observed) EXCEPT
                            ![t] = Entry(Flipped(desired[t]), old)]]
    /\ selected = 1
    /\ running = 1
    /\ intent = None
    /\ jobs = [j \in Jobs |-> None]
    /\ audit = << >>
    /\ workers = [w \in Workers |-> None]
    /\ lock = None
    /\ faults = 0

Step(w) ==
    \/ Classify(w) \/ PrepareAuthority(w) \/ PlanCandidate(w) \/ PublishCandidate(w)
    \/ CreateIntent(w) \/ PublishFailure(w)
    \/ RecoverRoute(w) \/ RecoverCreate(w) \/ FillTenant(w) \/ FinishRecovery(w)
    \/ Activate(w) \/ Select(w) \/ Reload(w)
    \/ WriteDesired(w) \/ WriteObserved(w) \/ AppendAudit(w) \/ WriteResult(w)
    \/ CompleteJob(w) \/ RemoveIntent(w)

Next ==
    \/ \E j \in Jobs, op \in RouteOperations \cup {"create"}, t \in Tenants, s \in Slugs :
            Issue(j, op, t, s)
    \/ \E w \in Workers :
        \/ \E j \in Jobs : Start(w, j)
        \/ Step(w)
        \/ RefuseIntent(w) \/ RefuseActivation(w) \/ ReloadFails(w) \/ Kill(w)
    \/ RestartCaddy

Spec == Init /\ [][Next]_vars

-----------------------------------------------------------------------------
\* Properties

Intents == [job : Jobs, op : RouteOperations \cup {"create"}, tenant : Tenants,
            src : Generations, candidate : Generations, routes : {"absent", "both"},
            from : Manifests \cup {None}, fromObserved : Observations \cup {None},
            to : Manifests, toObserved : Observations]

\* The shapes of the records.
TypeOK ==
    /\ \A t \in Tenants :
        /\ desired[t] \in Manifests \cup {None}
        /\ observed[t] \in Observations \cup {None}
    /\ \A g \in Generations : gens[g] # None =>
            \A t \in Tenants : gens[g][t] \in
                {None} \cup [manifest : Manifests, observed : Observations]
    /\ selected \in Generations /\ running \in Generations
    /\ intent \in Intents \cup {None}
    /\ \A j \in Jobs : jobs[j] # None =>
            jobs[j].phase \in {"claimed", "completed", "failed"}
    /\ audit \in Seq([job : Jobs, status : {"succeeded", "failed"}])
    /\ lock \in Workers \cup {None}
    /\ faults \in 0..MaxFaults

\* Whatever a worker was doing when it died, its intent can be recovered: both
\* generations are still stored, the active reference names one of them, and
\* every comparison the recovery makes against them succeeds.  The tenant the
\* intent is about to create or rename has its slug to itself.
IntentRecoverable ==
    intent # None =>
        /\ gens[intent.src] # None /\ gens[intent.candidate] # None
        /\ selected \in {intent.src, intent.candidate}
        /\ WithinAuthority(intent)
        /\ BoundJob(intent) /\ SourceAuthority(intent)
        /\ DistinctSlugs(OverlayDesired(intent.tenant, intent.to))
        /\ IF intent.op = "create" THEN CandidateTenant(intent)
           ELSE GenerationSnapshots(intent)

Disagreeing == {t \in Tenants : gens[selected][t] # Snapshot(desired, observed)[t]}

\* Between transitions Caddy is configured with exactly what the records say
\* of every tenant, the one that had drifted from the start excepted; what
\* Caddy runs is what is selected; and no two tenants share a slug.
SettledAgreement ==
    intent = None =>
        /\ Cardinality(Disagreeing) <= IF Drifting THEN 1 ELSE 0
        /\ running = selected
        /\ DistinctSlugs(desired)

\* The chain holds one entry for each answered job, with the status of its
\* result, and none for another: retries, recoveries and races of two workers
\* neither repeat an entry nor answer a job twice (_audit_needs_append).
AnsweredOnce ==
    \A j \in Jobs :
        LET entries == {n \in 1..Len(audit) : audit[n].job = j}
        IN  /\ Cardinality(entries) <= 1
            /\ jobs[j] # None =>
                /\ jobs[j].result # None =>
                        \E n \in entries : audit[n].status = jobs[j].result.status
                /\ jobs[j].phase # "claimed" => jobs[j].result # None

\* A job answered with a failure moved nothing: no intent of its own stands
\* and no record was written by it (_has_bound_lifecycle_intent).
FailureIsClean ==
    \A j \in Jobs :
        jobs[j] # None /\ jobs[j].result # None /\ jobs[j].result.status = "failed" =>
            /\ intent # None => intent.job # j
            /\ \A w \in Workers : workers[w] # None /\ workers[w].job = j =>
                    workers[w].pc \notin {"reload", "commit"}

\* A change of the active reference changes the routes of one tenant, the one
\* the standing intent names.  Only a create, which does not compare the
\* selected generation with the records first, can move another: a tenant that
\* had drifted, between what was served and what its records say.
OnlyTargetMoves ==
    selected' # selected =>
     /\ intent # None
     /\ \/ MatchExcept(gens[selected], gens[selected'], intent.tenant)
        \/ /\ intent.op = "create"
           /\ \A u \in Tenants \ {intent.tenant} :
                 gens[selected][u] # gens[selected'][u] =>
                     Snapshot(desired, observed)[u] \in
                         {gens[selected][u], gens[selected'][u]}

\* When an intent is removed its change is what Caddy runs: the tenant's
\* records, the selected generation and the running one agree, a tenant a
\* reconcile found in disagreement included.
CommitIsServed ==
    intent # None /\ intent' = None =>
     /\ selected' = intent.candidate /\ running' = intent.candidate
     /\ gens'[selected'][intent.tenant] =
             Snapshot(desired', observed')[intent.tenant]

\* An answer is never changed or withdrawn.
AnswersStand ==
    \A j \in Jobs : jobs[j] # None /\ jobs[j].result # None =>
         jobs'[j].result = jobs[j].result

\* A worker that can step keeps stepping, the publication lock reaches every
\* process that waits for it, and unsettled jobs are handed out again
\* (reconciliation).  Nothing obliges anybody to issue a job.
Fairness ==
    /\ \A w \in Workers : SF_vars(Step(w))
    /\ \A j \in Jobs : SF_vars(\E w \in Workers : Start(w, j))

FairSpec == Spec /\ Fairness

\* Every job is answered, and every intent is removed, once the faults stop -
\* as they must, being finite.
JobsAnswered ==
    \A j \in Jobs : jobs[j] # None => jobs[j].phase # "claimed"
IntentsClear == intent = None

=============================================================================
