---------------------------- MODULE RuntimeMapping ----------------------------
\* What a restored host knows of the runtime its backup was taken from
\* (host_restore_mapping.py, host_restore_history.py). A restore regenerates the
\* Caddy generation, so the generation a tenant was observed in changes although
\* the tenant did not. Each restore keeps one immutable mapping from the captured
\* observations to the regenerated ones; the mappings of earlier restores travel
\* with every backup. A retried job, whose record names the old generation, is
\* translated through them, oldest first, before it is compared with the host.
\*
\* Hosts are lost at any time, during a restore too. A killed restore keeps every
\* file it published; what it had only in memory is chosen again.
EXTENDS Naturals, Sequences, FiniteSets
LOCAL INSTANCE SequencesExt
LOCAL INSTANCE FiniteSetsExt

CONSTANTS
    Tenants,
    MaxOps,         \* bound: lifecycle operations
    MaxLosses,      \* bound: hosts lost
    MaxHistory,     \* MAX_HISTORY: restores whose mappings a host may keep
    None

MappingAssumption == {MaxOps, MaxLosses, MaxHistory} \subseteq Nat /\ MaxHistory > 0

VARIABLES
    tenants,    \* manifest, observed generation and the operation that wrote them
    selected,   \* the selected generation, 0 before there is one
    served,     \* the observations the selected generation was built from
    results,    \* what the recorded jobs expect
    history,    \* the mappings of the completed restores, oldest first
    cap,        \* the last backup
    rs,         \* the restore in progress
    gens,       \* generations named so far
    ops, losses

vars == <<tenants, selected, served, results, history, cap, rs, gens, ops, losses>>

Active(man) == man.state = "active"
Obs(r) == [man |-> r.man, gen |-> r.gen]

\* snapshot_tenant_routes: the archived tenants have no route.
RouteSnapshot(ts) ==
    [t \in Tenants |-> IF ts[t].man.state \in {"none", "archived"} THEN None ELSE Obs(ts[t])]

Init ==
    /\ tenants = [t \in Tenants |-> [man |-> [state |-> "none", dep |-> 0], gen |-> 0, no |-> 0]]
    /\ selected = 1 /\ gens = 1
    /\ served = RouteSnapshot(tenants)
    /\ results = {} /\ history = << >> /\ cap = None /\ rs = None
    /\ ops = 0 /\ losses = 0

-----------------------------------------------------------------------------
\* The host at work

\* A lifecycle operation publishes a generation; only its own tenant is observed
\* in it. A resumed tenant has the manifest it had before it was suspended.
Change(t, state, dep) ==
    /\ rs = None /\ ops < MaxOps
    /\ [state |-> state, dep |-> dep] # tenants[t].man
    /\ tenants[t].man.state # "archived"
    /\ state = "active" => dep > 0 /\ dep <= tenants[t].man.dep + 1
    /\ state # "active" => Active(tenants[t].man) /\ dep = tenants[t].man.dep
    /\ ops' = ops + 1 /\ gens' = gens + 1
    /\ selected' = gens'
    /\ LET man == [state |-> state, dep |-> dep]
           now == [man |-> man, gen |-> IF Active(man) THEN gens' ELSE 0, no |-> ops']
       IN /\ tenants' = [tenants EXCEPT ![t] = now]
          /\ results' = results \cup {[t |-> t, man |-> man, gen |-> now.gen, sel |-> gens', no |-> ops']}
    /\ served' = RouteSnapshot(tenants')
    /\ UNCHANGED <<history, cap, rs, losses>>

\* require_backup_provenance: no backup of a host that is being restored.
Backup ==
    /\ rs = None
    /\ cap' = [tenants |-> tenants, selected |-> selected, results |-> results, history |-> history]
    /\ UNCHANGED <<tenants, selected, served, results, history, rs, gens, ops, losses>>

\* The host is lost and another one materialised from the backup, without a
\* generation. import_prior_provenance moves the captured mappings along.
Loss ==
    /\ cap # None /\ losses < MaxLosses /\ Len(cap.history) < MaxHistory
    /\ losses' = losses + 1
    /\ tenants' = cap.tenants /\ results' = cap.results /\ history' = cap.history
    /\ selected' = 0 /\ served' = RouteSnapshot([t \in Tenants |-> [man |-> [state |-> "none", dep |-> 0], gen |-> 0, no |-> 0]])
    /\ rs' = [phase |-> "validated", inputs |-> None, mapping |-> None, sealed |-> None]
    /\ UNCHANGED <<cap, gens, ops>>

-----------------------------------------------------------------------------
\* The restore

Keep == UNCHANGED <<results, cap, ops, losses>>

\* The captured transitions are reconciled (RestoreReconcile).
Reconciled ==
    /\ rs # None /\ rs.phase = "validated"
    /\ rs' = [rs EXCEPT !.phase = "reconciled"]
    /\ UNCHANGED <<tenants, selected, served, history, gens>> /\ Keep

\* RuntimeInputs.projected: the active tenants move to the new generation.
Projected(m) ==
    [t \in Tenants |->
        IF m.original[t] = None \/ ~Active(m.original[t].man) THEN m.original[t]
        ELSE [m.original[t] EXCEPT !.gen = m.new]]

\* RuntimeInputs.from_bytes, prepare_runtime_inputs: a generation no captured
\* evidence and no earlier restore named.
InputsValid(p) ==
    /\ p.new \notin {p.old} \cup {p.original[t].gen : t \in {u \in Tenants : p.original[u] # None}}
    /\ \A k \in DOMAIN history : history[k].new # p.new

PrepareInputs ==
    /\ rs # None /\ rs.phase = "reconciled" /\ rs.inputs = None
    /\ gens' = gens + 1
    /\ LET p == [old |-> cap.selected, new |-> gens', original |-> RouteSnapshot(tenants)]
       IN InputsValid(p) /\ rs' = [rs EXCEPT !.inputs = p]
    /\ UNCHANGED <<tenants, selected, served, history>> /\ Keep

\* prepare_restored_runtime publishes the generation, then commit_runtime_mapping.
CommitMapping ==
    /\ rs # None /\ rs.phase = "reconciled" /\ rs.inputs # None /\ rs.mapping = None
    /\ rs' = [rs EXCEPT !.mapping = rs.inputs]
    /\ UNCHANGED <<tenants, selected, served, history, gens>> /\ Keep

SelectGeneration ==
    /\ rs # None /\ rs.phase = "reconciled" /\ rs.mapping # None /\ selected = 0
    /\ selected' = rs.mapping.new
    /\ served' = Projected(rs.mapping)
    /\ UNCHANGED <<tenants, history, rs, gens>> /\ Keep

\* Mutant of Retryable: a tenant already moved stops the retry.
RetryableNot(t) == Obs(tenants[t]) = rs.mapping.original[t]

\* What apply_runtime_mapping accepts of every routed tenant: the old or the new.
Retryable(t) == Obs(tenants[t]) \in {rs.mapping.original[t], Projected(rs.mapping)[t]}

Routed == {t \in Tenants : rs.mapping.original[t] # None}

\* apply_runtime_mapping: one record at a time, each by compare and swap.
ApplyOne(t) ==
    /\ rs # None /\ rs.phase = "reconciled" /\ rs.mapping # None /\ selected # 0
    /\ t \in Routed /\ \A u \in Routed : Retryable(u)
    /\ Obs(tenants[t]) # Projected(rs.mapping)[t]
    /\ tenants' = [tenants EXCEPT ![t].gen = Projected(rs.mapping)[t].gen]
    /\ UNCHANGED <<selected, served, history, rs, gens>> /\ Keep

\* The generation's routes are compared with the records, then the journal moves.
Prepared ==
    /\ rs # None /\ rs.phase = "reconciled" /\ rs.mapping # None /\ selected # 0
    /\ served = RouteSnapshot(tenants)
    /\ rs' = [rs EXCEPT !.phase = "prepared"]
    /\ UNCHANGED <<tenants, selected, served, history, gens>> /\ Keep

\* seal_provenance: the inventory of the store, before the restore is complete.
Seal ==
    /\ rs # None /\ rs.phase = "prepared" /\ rs.sealed = None
    /\ rs' = [rs EXCEPT !.sealed = [inputs |-> rs.inputs, mapping |-> rs.mapping]]
    /\ UNCHANGED <<tenants, selected, served, history, gens>> /\ Keep

\* _inventory: a complete store holds what was sealed.
Inventoried(s) == s.sealed = [inputs |-> s.inputs, mapping |-> s.mapping]

Complete ==
    /\ rs # None /\ rs.phase = "prepared" /\ rs.sealed # None /\ Inventoried(rs)
    /\ history' = Append(history, rs.mapping)
    /\ rs' = None
    /\ UNCHANGED <<tenants, selected, served, gens>> /\ Keep

-----------------------------------------------------------------------------
\* The readers

\* runtime_mappings, _read_runtime_mapping: the completed ancestors, and the
\* current restore once its runtime is prepared.
Mappings == IF rs # None /\ rs.phase = "prepared" THEN Append(history, rs.mapping) ELSE history

\* While the runtime is being prepared a reader is refused.
Readable == rs = None \/ rs.phase \in {"validated", "prepared"}

\* map_runtime_request: an exact historical observation of a routed tenant, or the
\* selection an archived tenant was left out of. gen = 0: none is asked for.
MapRequest(m, t, man, q) ==
    LET s == m.original[t]
    IN CASE s # None /\ s.man = man /\ (q.obs \in {s, Projected(m)[t]} \/ (q.obs = None /\ q.gen = m.old)) ->
              [gen |-> IF q.gen \in {m.old, s.gen} \ {0} THEN m.new ELSE q.gen, obs |-> Projected(m)[t]]
         [] s = None /\ q.gen = m.old /\ man.state = "archived" /\ q.obs # None ->
              [q EXCEPT !.gen = m.new]
         [] OTHER -> q

\* translate_runtime_request
Translate(t, man, obs, gen) ==
    FoldLeft(LAMBDA q, m : MapRequest(m, t, man, q), [gen |-> gen, obs |-> obs], Mappings)

\* restored_runtime_request: what a recorded job expects of this host.
RestoredRequest(r, gen) == Translate(r.t, r.man, Obs(r), gen)

\* require_mapped_current_observation
Proven(m, t) == tenants[t].gen = m.new => m.original[t] # None /\ Projected(m)[t] = Obs(tenants[t])

-----------------------------------------------------------------------------
Restoring ==
    \/ Reconciled \/ PrepareInputs \/ CommitMapping \/ SelectGeneration
    \/ \E t \in Tenants : ApplyOne(t)
    \/ Prepared \/ Seal \/ Complete

Next ==
    \/ \E t \in Tenants, state \in {"active", "suspended", "archived"}, dep \in 0 .. MaxOps : Change(t, state, dep)
    \/ Backup \/ Loss \/ Restoring

Spec == Init /\ [][Next]_vars

\* The operator runs the restore again until it is complete.
FairSpec == Spec /\ WF_vars(Restoring)

-----------------------------------------------------------------------------
TypeOK ==
    /\ selected \in 0 .. gens
    /\ \A t \in Tenants : tenants[t].gen \in 0 .. gens /\ (tenants[t].gen # 0 <=> Active(tenants[t].man))
    /\ Len(history) <= MaxHistory
    /\ rs # None => (rs.mapping # None => rs.mapping = rs.inputs)

\* A job whose tenant has not changed since is recognised on every host restored
\* after it: its translated observation is the tenant's.
UnchangedIsRecognised ==
    Readable => \A r \in results :
        tenants[r.t].no = r.no => RestoredRequest(r, 0).obs = Obs(tenants[r.t])

\* The job of the last operation also recognises the selected generation, with its
\* observation or (if the tenant has a route) without one.
LatestIsSelected ==
    Readable /\ selected # 0 => \A r \in results :
        r.no = Max({tenants[t].no : t \in Tenants}) =>
            /\ RestoredRequest(r, r.sel).gen = selected
            /\ r.man.state # "archived" => Translate(r.t, r.man, None, r.sel).gen = selected

\* A job whose active tenant changed since, even back to the same manifest, is
\* never taken for the present one.
ChangedIsRefused ==
    Readable => \A r \in results :
        tenants[r.t].no # r.no /\ r.gen # 0 => RestoredRequest(r, 0).obs # Obs(tenants[r.t])

\* Every observation of a regenerated generation is proven by its mapping: the
\* readers never refuse what the restore itself wrote.
ObservationsProven == Readable => \A k \in DOMAIN Mappings, t \in Tenants : Proven(Mappings[k], t)

\* What the selected generation serves is what the records say.
ServedIsObserved == Readable /\ selected # 0 => served = RouteSnapshot(tenants)

\* A restore ends, unless the host is lost once more.
RestoreEnds == rs = None
=============================================================================
