-------------------------- MODULE StaticHostProofs --------------------------
(***************************************************************************)
(* Proofs about StaticHost, for every set of jobs and tenants and every    *)
(* bound: its types, that whatever is replayed a job is audited exactly    *)
(* once, and that the audit position an intent reserves stays reserved.    *)
(*                                                                         *)
(* The properties speak of records only, but what a record may become      *)
(* depends on what its worker has established at its program counter; so   *)
(* the invariant is one about records (JobInv), one about workers          *)
(* (WorkerInv) and one about the host (HostInv).                           *)
(***************************************************************************)
EXTENDS StaticHost, TLAPS, FiniteSetTheorems

\* j is the job of one of the entries of the chain a.
InChain(a, j) == \E n \in 1..Len(a) : a[n] = j

\* No job has two entries in the chain a.
Distinct(a) == \A m, n \in 1..Len(a) : a[m] = a[n] => m = n

(* Where a worker holds the lock, and what it has established there. *)

FailLabels == {"failResult", "failAudit", "failPhase", "failValidated", "replayAudit", "replayPhase"}
BindLabels == {"bindRuntime", "stage", "intent"}
PairLabels == {"verifySource", "select", "reload", "verifyCandidate", "restoreSelect",
               "restoreLoad", "admit"}
OwnerLabels == PairLabels \cup {"release", "prune", "publish"} \cup (CommitLabels \ {"admit"})
FreeLabels == {"idle", "start", "dispatch", "classify", "recover", "activate"}
LockedLabels == {"bind", "claim"} \cup FailLabels \cup BindLabels \cup OwnerLabels

\* What the records of job j say about each other.
JobInv(j) ==
    /\ jobs[j].phase = "absent" => results[j] = "none" /\ worker[j].pc = "idle"
    /\ jobs[j].phase # "absent" => jobs[j].tenant \in Tenants
    /\ jobs[j].validated => /\ results[j] # "none" /\ InChain(audit, j)
                            /\ (intent # None => intent.job # j)
    /\ results[j] = "succeeded" => InChain(audit, j) /\ jobs[j].phase \in {"claimed", "completed"}
    /\ jobs[j].phase = "failed" => results[j] = "failed"

\* What the worker of job j knows at its program counter.
WorkerInv(j) ==
    LET pc == worker[j].pc
    IN  /\ pc \in LockedLabels => lock = j
        /\ pc \in FailLabels \cup BindLabels => intent = None
        /\ pc \in OwnerLabels => intent # None /\ intent.job = j
        /\ pc \in PairLabels => intent.srcGen \in DOMAIN gens /\ intent.candGen \in DOMAIN gens
        /\ pc \in BindLabels \cup {"bind", "claim", "reject", "failResult", "prepare"} =>
              results[j] = "none"
        /\ pc \in BindLabels \cup {"prepare"} => jobs[j].phase = "claimed"
        /\ pc \in FailLabels \ {"failResult"} => results[j] = "failed"
        /\ pc \in {"failPhase", "failValidated", "replayPhase", "result", "mark"} => InChain(audit, j)
        /\ pc \in {"validate", "mark", "job", "removeIntent"} => results[j] # "none"
        /\ pc = "mark" => (intent # None => intent.job # j)

\* What holds of the records all jobs share.
HostInv ==
    /\ startup # None => WellFormed(startup)
    /\ active \in DOMAIN gens
    /\ intent # None => /\ jobs[intent.job].phase \in {"claimed", "completed"}
                        /\ results[intent.job] # "failed"
    /\ Distinct(audit)

IndInv == HostTypeOK /\ HostInv /\ (\A j \in Jobs : JobInv(j) /\ WorkerInv(j))

-----------------------------------------------------------------------------
(* Control flow of one worker. *)

\* A jump changes the program counter of one worker and nothing else.
LEMMA Moved ==
    ASSUME worker \in [Jobs -> WorkerRecord], NEW j \in Jobs, NEW label \in Labels,
           Goto(j, label)
    PROVE  /\ worker' \in [Jobs -> WorkerRecord]
           /\ worker'[j].pc = label
           /\ \A k \in Jobs \ {j} : worker'[k] = worker[k]
<1>1. \A w \in WorkerRecord : /\ [w EXCEPT !.pc = label] \in WorkerRecord
                              /\ [w EXCEPT !.pc = label].pc = label
  <2>1. SUFFICES ASSUME NEW w \in WorkerRecord
                 PROVE  /\ [w EXCEPT !.pc = label] \in WorkerRecord
                        /\ [w EXCEPT !.pc = label].pc = label
    OBVIOUS
  <2>2. [w EXCEPT !.pc = label] \in WorkerRecord
    BY DEF WorkerRecord
  <2>3. [w EXCEPT !.pc = label].pc = label
    BY DEF WorkerRecord
  <2> QED
    BY <2>2, <2>3
<1>2. worker' = [worker EXCEPT ![j] = [worker[j] EXCEPT !.pc = label]]
  BY DEF Goto
<1> QED
  BY <1>1, <1>2

\* The record of a worker that does not run.
LEMMA IdleType == IdleWorker \in WorkerRecord /\ IdleWorker.pc = "idle"
<1>1. IdleWorker \in WorkerRecord
  BY DEF IdleWorker, WorkerRecord, Labels, ExecutorLabels
<1>2. IdleWorker.pc = "idle"
  BY DEF IdleWorker
<1> QED
  BY <1>1, <1>2

\* A stop ends one worker and nothing else.
LEMMA Stopped ==
    ASSUME worker \in [Jobs -> WorkerRecord], NEW j \in Jobs, Stop(j)
    PROVE  /\ worker' \in [Jobs -> WorkerRecord]
           /\ worker'[j].pc = "idle"
           /\ \A k \in Jobs \ {j} : worker'[k] = worker[k]
  BY IdleType DEF Stop

\* A retry ends the process or classifies again.
LEMMA Retried ==
    ASSUME worker \in [Jobs -> WorkerRecord], NEW j \in Jobs, RetryOnce(j)
    PROVE  /\ worker' \in [Jobs -> WorkerRecord]
           /\ worker'[j].pc \in {"idle", "classify"}
           /\ \A k \in Jobs \ {j} : worker'[k] = worker[k]
<1> DEFINE again == [pc |-> "classify", permitted |-> TRUE, retried |-> TRUE]
<1>1. again \in WorkerRecord
  BY DEF WorkerRecord, Labels, PrepareLabels
<1>2. again.pc = "classify"
  OBVIOUS
<1> HIDE DEF again
<1>3. \/ worker' = [worker EXCEPT ![j] = IdleWorker]
      \/ worker' = [worker EXCEPT ![j] = again]
  BY DEF RetryOnce, again
<1> QED
  BY <1>1, <1>2, <1>3, IdleType

\* Recovery moves one worker and sets its restoration permission.
LEMMA Resumed ==
    ASSUME worker \in [Jobs -> WorkerRecord], NEW j \in Jobs, NEW p \in BOOLEAN,
           worker' = [worker EXCEPT ![j].pc = "release", ![j].permitted = p]
    PROVE  /\ worker' \in [Jobs -> WorkerRecord]
           /\ worker'[j].pc = "release"
           /\ \A k \in Jobs \ {j} : worker'[k] = worker[k]
<1>1. ASSUME NEW w \in WorkerRecord, NEW v, v = [w EXCEPT !.pc = "release", !.permitted = p]
      PROVE  v \in WorkerRecord /\ v.pc = "release"
  <2>1. v \in WorkerRecord
    BY <1>1 DEF WorkerRecord, Labels, PrepareLabels
  <2>2. v.pc = "release"
    BY <1>1 DEF WorkerRecord
  <2> QED
    BY <2>1, <2>2
<1> DEFINE new == [worker[j] EXCEPT !.pc = "release", !.permitted = p]
<1>2. worker' = [worker EXCEPT ![j] = new]
  OBVIOUS
<1>3. new \in WorkerRecord /\ new.pc = "release"
  BY <1>1
<1> HIDE DEF new
<1> QED
  BY <1>2, <1>3

-----------------------------------------------------------------------------
(* Where the other jobs stand. *)

\* A step of the worker of j, taken while no other worker holds the lock,
\* leaves what is known of every other job.
LEMMA OthersKept ==
    ASSUME IndInv, NEW j \in Jobs, lock \in {None, j},
           \A k \in Jobs \ {j} : /\ worker'[k] = worker[k] /\ jobs'[k] = jobs[k]
                                 /\ results'[k] = results[k],
           \A k \in Jobs : InChain(audit, k) => InChain(audit', k),
           intent' = intent \/ intent' = None \/ intent'.job = j
    PROVE  \A k \in Jobs \ {j} : JobInv(k)' /\ WorkerInv(k)'
<1>1. SUFFICES ASSUME NEW k \in Jobs \ {j}
               PROVE  JobInv(k)' /\ WorkerInv(k)'
  OBVIOUS
<1>2. JobInv(k) /\ WorkerInv(k)
  BY DEF IndInv
<1>3. None # k
  BY ActorsAssumption
<1>4. worker[k].pc \notin LockedLabels
  BY <1>2, <1>3 DEF WorkerInv
<1>5. JobInv(k)'
  BY <1>2 DEF JobInv
<1>6. WorkerInv(k)'
  BY <1>2, <1>4 DEF WorkerInv, LockedLabels, FailLabels, BindLabels, OwnerLabels, PairLabels, CommitLabels
<1> QED
  BY <1>5, <1>6

\* A worker outside the lock knows little.
LEMMA FreeLanding ==
    ASSUME NEW j \in Jobs, worker'[j].pc \in FreeLabels
    PROVE  WorkerInv(j)'
  BY DEF WorkerInv, FreeLabels, LockedLabels, FailLabels, BindLabels, OwnerLabels, PairLabels, CommitLabels

\* A running worker has a job.
LEMMA RunningWorker ==
    ASSUME IndInv, NEW j \in Jobs, worker[j].pc # "idle"
    PROVE  jobs[j].phase # "absent"
  BY DEF IndInv, JobInv

\* A step that changes no record of any job.
LEMMA ControlStep ==
    ASSUME IndInv, HostTypeOK', NEW j \in Jobs, lock \in {None, j},
           UNCHANGED <<jobVars, intent, startup>>, active' \in DOMAIN gens',
           \A k \in Jobs \ {j} : worker'[k] = worker[k],
           jobs[j].phase # "absent" \/ worker'[j].pc = "idle",
           WorkerInv(j)'
    PROVE  IndInv'
<1>1. \A k \in Jobs \ {j} : JobInv(k)' /\ WorkerInv(k)'
  <2>1. \A k \in Jobs : InChain(audit, k) => InChain(audit', k)
    BY DEF jobVars
  <2> QED
    BY <2>1, OthersKept DEF jobVars
<1>2. JobInv(j)'
  <2>1. JobInv(j)
    BY DEF IndInv
  <2> QED
    BY <2>1 DEF JobInv, jobVars
<1>3. HostInv'
  <2>1. HostInv
    BY DEF IndInv
  <2> QED
    BY <2>1 DEF HostInv, jobVars
<1> QED
  BY <1>1, <1>2, <1>3 DEF IndInv

\* A worker that starts or dies without the lock, or gives it up, leaves what
\* is known of every other job, whoever holds the lock.
LEMMA BystandersKept ==
    ASSUME IndInv, HostTypeOK', NEW j \in Jobs,
           UNCHANGED <<jobVars, intent, gens, active, startup>>,
           lock' \in {lock, IF lock = j THEN None ELSE lock},
           \A k \in Jobs \ {j} : worker'[k] = worker[k],
           jobs[j].phase # "absent" \/ worker'[j].pc = "idle",
           worker'[j].pc \in FreeLabels
    PROVE  IndInv'
<1>1. ASSUME NEW k \in Jobs \ {j}
      PROVE  JobInv(k)' /\ WorkerInv(k)'
  <2>1. JobInv(k) /\ WorkerInv(k)
    BY DEF IndInv
  <2>2. JobInv(k)'
    BY <2>1 DEF JobInv, jobVars
  <2>3. WorkerInv(k)'
    BY <2>1 DEF WorkerInv, jobVars
  <2> QED
    BY <2>2, <2>3
<1>2. JobInv(j)'
  <2>1. JobInv(j)
    BY DEF IndInv
  <2> QED
    BY <2>1 DEF JobInv, jobVars
<1>3. WorkerInv(j)'
  BY FreeLanding
<1>4. HostInv'
  <2>1. HostInv
    BY DEF IndInv
  <2> QED
    BY <2>1 DEF HostInv, jobVars
<1> QED
  BY <1>1, <1>2, <1>3, <1>4 DEF IndInv

\* A step that moves a worker and may change what is active and what runs.
LEMMA UnitStep ==
    ASSUME IndInv, NEW j \in Jobs, lock \in {None, j}, lock' \in {None, j},
           UNCHANGED <<jobVars, intent, tenantVars, releaseVars, gens, startVars, ids>>,
           active' \in DOMAIN gens, running' \in Ids \cup {None},
           worker' \in [Jobs -> WorkerRecord],
           \A k \in Jobs \ {j} : worker'[k] = worker[k],
           worker[j].pc # "idle",
           WorkerInv(j)'
    PROVE  IndInv'
<1>1. HostTypeOK
  BY DEF IndInv
<1>2. active' \in Ids /\ active' # None
  BY <1>1, NoneAssumption DEF HostTypeOK
<1>3. HostTypeOK'
  BY <1>1, <1>2 DEF HostTypeOK, UnitTypeOK, jobVars, tenantVars, releaseVars, startVars
<1> QED
  BY <1>3, ControlStep, RunningWorker DEF startVars

\* A step that only moves a worker.
LEMMA PureStep ==
    ASSUME IndInv, NEW j \in Jobs, lock \in {None, j}, lock' \in {None, j},
           UNCHANGED <<jobVars, intent, tenantVars, releaseVars, caddyVars, ids>>,
           worker' \in [Jobs -> WorkerRecord],
           \A k \in Jobs \ {j} : worker'[k] = worker[k],
           worker[j].pc # "idle",
           WorkerInv(j)'
    PROVE  IndInv'
<1>1. active \in DOMAIN gens /\ running \in Ids \cup {None}
  BY DEF IndInv, HostInv, HostTypeOK, UnitTypeOK
<1> QED
  BY <1>1, UnitStep DEF caddyVars, unitVars, startVars

\* A step that changes records of job j only.
LEMMA RecordStep ==
    ASSUME IndInv, HostTypeOK', NEW j \in Jobs, lock \in {None, j},
           UNCHANGED <<intent, gens, active, startup>>,
           \A k \in Jobs \ {j} : /\ worker'[k] = worker[k] /\ jobs'[k] = jobs[k]
                                 /\ results'[k] = results[k],
           \A k \in Jobs : InChain(audit, k) => InChain(audit', k),
           Distinct(audit'),
           intent = None \/ /\ jobs'[j].phase \in {jobs[j].phase, "claimed", "completed"}
                            /\ results'[j] \in {results[j], "succeeded"},
           JobInv(j)', WorkerInv(j)'
    PROVE  IndInv'
<1>1. \A k \in Jobs \ {j} : JobInv(k)' /\ WorkerInv(k)'
  BY OthersKept
<1>2. HostInv'
  <2>1. HostInv /\ HostTypeOK
    BY DEF IndInv
  <2>2. intent # None => intent.job \in Jobs
    BY <2>1 DEF HostTypeOK, IntentRecord
  <2> QED
    BY <2>1, <2>2 DEF HostInv
<1> QED
  BY <1>1, <1>2 DEF IndInv

-----------------------------------------------------------------------------
(* The records of a job. *)

\* A new phase changes nothing else of a job.
LEMMA PhaseSet ==
    ASSUME jobs \in [Jobs -> JobRecord], NEW j \in Jobs, NEW p \in Phases,
           jobs' = [jobs EXCEPT ![j].phase = p]
    PROVE  /\ jobs' \in [Jobs -> JobRecord]
           /\ jobs'[j].phase = p
           /\ jobs'[j].tenant = jobs[j].tenant
           /\ jobs'[j].validated = jobs[j].validated
           /\ \A k \in Jobs \ {j} : jobs'[k] = jobs[k]
<1>1. ASSUME NEW r \in JobRecord, NEW q, q = [r EXCEPT !.phase = p]
      PROVE  q \in JobRecord /\ q.phase = p /\ q.tenant = r.tenant /\ q.validated = r.validated
  <2>1. q \in JobRecord
    BY <1>1 DEF JobRecord
  <2>2. q.phase = p /\ q.tenant = r.tenant
    BY <1>1 DEF JobRecord
  <2>3. q.validated = r.validated
    BY <1>1 DEF JobRecord
  <2> QED
    BY <2>1, <2>2, <2>3
<1> DEFINE new == [jobs[j] EXCEPT !.phase = p]
<1>2. jobs' = [jobs EXCEPT ![j] = new]
  OBVIOUS
<1>3. new \in JobRecord /\ new.phase = p /\ new.tenant = jobs[j].tenant /\ new.validated = jobs[j].validated
  BY <1>1
<1> HIDE DEF new
<1> QED
  BY <1>2, <1>3

\* The validation marker changes nothing else of a job.
LEMMA ValidatedSet ==
    ASSUME jobs \in [Jobs -> JobRecord], NEW j \in Jobs,
           jobs' = [jobs EXCEPT ![j].validated = TRUE]
    PROVE  /\ jobs' \in [Jobs -> JobRecord]
           /\ jobs'[j].phase = jobs[j].phase
           /\ jobs'[j].tenant = jobs[j].tenant
           /\ \A k \in Jobs \ {j} : jobs'[k] = jobs[k]
<1>1. ASSUME NEW r \in JobRecord, NEW q, q = [r EXCEPT !.validated = TRUE]
      PROVE  q \in JobRecord /\ q.phase = r.phase /\ q.tenant = r.tenant
  <2>1. q \in JobRecord
    BY <1>1 DEF JobRecord
  <2>2. q.phase = r.phase /\ q.tenant = r.tenant
    BY <1>1 DEF JobRecord
  <2> QED
    BY <2>1, <2>2
<1> DEFINE new == [jobs[j] EXCEPT !.validated = TRUE]
<1>2. jobs' = [jobs EXCEPT ![j] = new]
  OBVIOUS
<1>3. new \in JobRecord /\ new.phase = jobs[j].phase /\ new.tenant = jobs[j].tenant
  BY <1>1
<1> HIDE DEF new
<1> QED
  BY <1>2, <1>3

\* Binding dispatch authority changes nothing else.
LEMMA HistorySet ==
    ASSUME jobs \in [Jobs -> JobRecord], NEW j \in Jobs, NEW h \in [Tenants -> SUBSET Ids],
           jobs' = [jobs EXCEPT ![j].bound = TRUE, ![j].history = h]
    PROVE  /\ jobs' \in [Jobs -> JobRecord]
           /\ jobs'[j].phase = jobs[j].phase
           /\ jobs'[j].tenant = jobs[j].tenant
           /\ jobs'[j].validated = jobs[j].validated
           /\ \A k \in Jobs \ {j} : jobs'[k] = jobs[k]
<1>1. ASSUME NEW r \in JobRecord, NEW q, q = [r EXCEPT !.bound = TRUE, !.history = h]
      PROVE  q \in JobRecord /\ q.phase = r.phase /\ q.tenant = r.tenant /\ q.validated = r.validated
  <2>1. q \in JobRecord
    BY <1>1 DEF JobRecord
  <2>2. q.phase = r.phase /\ q.tenant = r.tenant
    BY <1>1 DEF JobRecord
  <2>3. q.validated = r.validated
    BY <1>1 DEF JobRecord
  <2> QED
    BY <2>1, <2>2, <2>3
<1> DEFINE new == [jobs[j] EXCEPT !.bound = TRUE, !.history = h]
<1>2. jobs' = [jobs EXCEPT ![j] = new]
  OBVIOUS
<1>3. new \in JobRecord /\ new.phase = jobs[j].phase /\ new.tenant = jobs[j].tenant /\ new.validated = jobs[j].validated
  BY <1>1
<1> HIDE DEF new
<1> QED
  BY <1>2, <1>3

\* Binding the source runtime changes nothing else.
LEMMA SourceRuntimeSet ==
    ASSUME jobs \in [Jobs -> JobRecord], NEW j \in Jobs, NEW g \in Ids, NEW o \in Observed,
           jobs' = [jobs EXCEPT ![j].srcGen = g, ![j].srcObs = o]
    PROVE  /\ jobs' \in [Jobs -> JobRecord]
           /\ jobs'[j].phase = jobs[j].phase
           /\ jobs'[j].tenant = jobs[j].tenant
           /\ jobs'[j].validated = jobs[j].validated
           /\ \A k \in Jobs \ {j} : jobs'[k] = jobs[k]
<1>1. ASSUME NEW r \in JobRecord, NEW q, q = [r EXCEPT !.srcGen = g, !.srcObs = o]
      PROVE  q \in JobRecord /\ q.phase = r.phase /\ q.tenant = r.tenant /\ q.validated = r.validated
  <2>1. q \in JobRecord
    BY <1>1 DEF JobRecord
  <2>2. q.phase = r.phase /\ q.tenant = r.tenant
    BY <1>1 DEF JobRecord
  <2>3. q.validated = r.validated
    BY <1>1 DEF JobRecord
  <2> QED
    BY <2>1, <2>2, <2>3
<1> DEFINE new == [jobs[j] EXCEPT !.srcGen = g, !.srcObs = o]
<1>2. jobs' = [jobs EXCEPT ![j] = new]
  OBVIOUS
<1>3. new \in JobRecord /\ new.phase = jobs[j].phase /\ new.tenant = jobs[j].tenant /\ new.validated = jobs[j].validated
  BY <1>1
<1> HIDE DEF new
<1> QED
  BY <1>2, <1>3

\* An appended entry keeps the others; a chain that lacks j stays without
\* repetitions when j is appended.
LEMMA Appended ==
    ASSUME NEW a \in Seq(Jobs), NEW j \in Jobs, Distinct(a), NEW b,
           b = IF InChain(a, j) THEN a ELSE Append(a, j)
    PROVE  /\ b \in Seq(Jobs) /\ Distinct(b) /\ InChain(b, j)
           /\ \A k \in Jobs : InChain(a, k) => InChain(b, k)
<1>1. CASE InChain(a, j)
  BY <1>1
<1>2. CASE ~InChain(a, j)
  <2>1. /\ b \in Seq(Jobs) /\ Len(b) = Len(a) + 1 /\ b[Len(a) + 1] = j
        /\ Len(a) \in Nat
        /\ \A n \in 1..Len(a) : b[n] = a[n]
    BY <1>2
  <2>2. InChain(b, j)
    BY <2>1 DEF InChain
  <2>3. \A k \in Jobs : InChain(a, k) => InChain(b, k)
    BY <2>1 DEF InChain
  <2>4. Distinct(b)
    BY <1>2, <2>1 DEF InChain, Distinct
  <2> QED
    BY <2>1, <2>2, <2>3, <2>4
<1> QED
  BY <1>1, <1>2

-----------------------------------------------------------------------------
(* The executor's steps. *)

\* Handing a job to its worker preserves the invariant.
LEMMA HandoffInv ==
    ASSUME IndInv, NEW j \in Jobs, Handoff(j)
    PROVE  IndInv'
<1> USE DEF Handoff, At
<1>1. HostTypeOK /\ JobInv(j)
  BY DEF IndInv
<1>2. worker \in [Jobs -> WorkerRecord]
  BY <1>1 DEF HostTypeOK
<1>3. /\ worker' \in [Jobs -> WorkerRecord] /\ worker'[j].pc = "start"
      /\ \A k \in Jobs \ {j} : worker'[k] = worker[k]
  BY <1>2, Moved DEF Labels, ExecutorLabels
<1>4. HostTypeOK'
  BY <1>1, <1>3 DEF HostTypeOK, UnitTypeOK, jobVars, tenantVars, releaseVars, caddyVars, unitVars
<1>5. jobs[j].phase # "absent"
  BY <1>1 DEF JobInv, NeedsWorker
<1> QED
  BY <1>3, <1>4, <1>5, BystandersKept DEF FreeLabels, caddyVars, unitVars

\* A step of the executor preserves the invariant.
LEMMA ExecutorInv ==
    ASSUME IndInv, NEW j \in Jobs, ExecutorStep(j)
    PROVE  IndInv'
<1> USE DEF At, Holds, Unlocked
<1>1. HostTypeOK /\ HostInv /\ JobInv(j) /\ WorkerInv(j)
  BY DEF IndInv
<1>2. worker \in [Jobs -> WorkerRecord] /\ jobs \in [Jobs -> JobRecord]
  BY <1>1 DEF HostTypeOK
<1>3. None # j
  BY ActorsAssumption
<1>4. ASSUME UNCHANGED <<jobVars, intent, tenantVars, releaseVars, caddyVars, ids>>,
             lock \in {None, j}, lock' \in {None, j}, worker[j].pc # "idle",
             worker' \in [Jobs -> WorkerRecord], \A k \in Jobs \ {j} : worker'[k] = worker[k],
             WorkerInv(j)'
      PROVE  IndInv'
  BY <1>4, PureStep
<1>5. CASE ReplayExisting(j)
  <2>1. PICK label \in {"dispatch", "replayAudit", "validate"} :
            /\ Goto(j, label) /\ lock' \in {None, j}
            /\ results[j] # "none"
            /\ label = "replayAudit" => /\ lock' = j /\ results[j] = "failed"
                                        /\ intent = None
    BY <1>5 DEF ReplayExisting, ReservedByOther, OwnsIntent
  <2>2. /\ worker' \in [Jobs -> WorkerRecord] /\ worker'[j].pc = label
        /\ \A k \in Jobs \ {j} : worker'[k] = worker[k]
    BY <1>2, <2>1, Moved DEF Labels, ExecutorLabels
  <2>3. WorkerInv(j)'
    BY <1>5, <2>1, <2>2 DEF ReplayExisting, jobVars, WorkerInv, LockedLabels, FailLabels,
       BindLabels, OwnerLabels, PairLabels, CommitLabels
  <2> QED
    BY <1>4, <1>5, <2>1, <2>2, <2>3 DEF ReplayExisting
<1>6. CASE ExecuteWithClaim(j)
  <2>1. PICK label \in {"failResult", "claim", "bind"} :
            Goto(j, label) /\ (label = "failResult" => intent = None)
    BY <1>6 DEF ExecuteWithClaim, ReservedByOther, OwnsIntent
  <2>2. /\ worker' \in [Jobs -> WorkerRecord] /\ worker'[j].pc = label
        /\ \A k \in Jobs \ {j} : worker'[k] = worker[k]
    BY <1>2, <2>1, Moved DEF Labels, ExecutorLabels
  <2>3. WorkerInv(j)'
    BY <1>6, <2>1, <2>2 DEF ExecuteWithClaim, jobVars, WorkerInv, LockedLabels, FailLabels,
       BindLabels, OwnerLabels, PairLabels, CommitLabels
  <2> QED
    BY <1>4, <1>6, <2>1, <2>2, <2>3 DEF ExecuteWithClaim
<1>7. CASE Busy(j)
  BY <1>2, <1>4, <1>7, Stopped, FreeLanding DEF Busy, FreeLabels
<1>8. CASE ExecuteHandler(j)
  BY <1>2, <1>4, <1>8, Moved, FreeLanding DEF ExecuteHandler, FreeLabels, Labels, PrepareLabels
<1>9. CASE FailRejected(j)
  <2>1. CASE OwnsIntent(j)
    BY <1>2, <1>4, <1>9, <2>1, Stopped, FreeLanding DEF FailRejected, FreeLabels
  <2>2. CASE ~OwnsIntent(j)
    <3>1. /\ worker' \in [Jobs -> WorkerRecord] /\ worker'[j].pc = "failResult"
          /\ \A k \in Jobs \ {j} : worker'[k] = worker[k]
      BY <1>2, <1>9, <2>2, Moved DEF FailRejected, Labels, ExecutorLabels
    <3>2. WorkerInv(j)'
      BY <1>1, <1>9, <2>2, <3>1 DEF FailRejected, ReservedByOther, OwnsIntent, jobVars, WorkerInv,
         LockedLabels, FailLabels, BindLabels, OwnerLabels, PairLabels, CommitLabels
    <3> QED
      BY <1>4, <1>9, <2>2, <3>1, <3>2 DEF FailRejected
  <2> QED
    BY <2>1, <2>2
<1>10. CASE ValidateTerminalState(j)
  <2>1. CASE HostStateMatches /\ Audited(j) /\ ~OwnsIntent(j)
    <3>1. /\ worker' \in [Jobs -> WorkerRecord] /\ worker'[j].pc = "mark"
          /\ \A k \in Jobs \ {j} : worker'[k] = worker[k]
      BY <1>2, <1>10, <2>1, Moved DEF ValidateTerminalState, Labels, ExecutorLabels
    <3>2. WorkerInv(j)'
      BY <1>1, <1>10, <2>1, <3>1 DEF ValidateTerminalState, Audited, InChain, OwnsIntent, jobVars, WorkerInv,
         LockedLabels, FailLabels, BindLabels, OwnerLabels, PairLabels, CommitLabels
    <3> QED
      BY <1>4, <1>10, <2>1, <3>1, <3>2 DEF ValidateTerminalState
  <2>2. CASE ~(HostStateMatches /\ Audited(j) /\ ~OwnsIntent(j))
    BY <1>2, <1>4, <1>10, <2>2, Stopped, FreeLanding DEF ValidateTerminalState, FreeLabels
  <2> QED
    BY <2>1, <2>2
<1>11. CASE BindDispatchAuthority(j)
  <2>1. deployments \in [Tenants -> SUBSET Ids]
    BY <1>1 DEF HostTypeOK
  <2>2. /\ jobs' \in [Jobs -> JobRecord] /\ jobs'[j].phase = jobs[j].phase
        /\ jobs'[j].tenant = jobs[j].tenant /\ jobs'[j].validated = jobs[j].validated
        /\ \A k \in Jobs \ {j} : jobs'[k] = jobs[k]
    BY <1>2, <1>11, <2>1, HistorySet DEF BindDispatchAuthority
  <2>3. /\ worker' \in [Jobs -> WorkerRecord] /\ worker'[j].pc = "claim"
        /\ \A k \in Jobs \ {j} : worker'[k] = worker[k]
    BY <1>2, <1>11, Moved DEF BindDispatchAuthority, Labels, ExecutorLabels
  <2>4. HostTypeOK'
    BY <1>1, <1>11, <2>2, <2>3 DEF BindDispatchAuthority, HostTypeOK, UnitTypeOK, tenantVars,
       releaseVars, caddyVars, unitVars
  <2>5. JobInv(j)'
    BY <1>1, <1>11, <2>2, RunningWorker DEF BindDispatchAuthority, JobInv
  <2>6. WorkerInv(j)'
    BY <1>1, <1>11, <2>3 DEF BindDispatchAuthority, WorkerInv, LockedLabels, FailLabels,
       BindLabels, OwnerLabels, PairLabels, CommitLabels
  <2>7. Distinct(audit') /\ \A k \in Jobs : InChain(audit, k) => InChain(audit', k)
    BY <1>1, <1>11 DEF BindDispatchAuthority, HostInv
  <2> QED
    BY <1>11, <2>2, <2>3, <2>4, <2>5, <2>6, <2>7, RecordStep DEF BindDispatchAuthority, caddyVars, unitVars
<1>12. CASE ClaimPending(j)
  <2>1. /\ jobs' \in [Jobs -> JobRecord] /\ jobs'[j].phase = "claimed"
        /\ jobs'[j].tenant = jobs[j].tenant /\ jobs'[j].validated = jobs[j].validated
        /\ \A k \in Jobs \ {j} : jobs'[k] = jobs[k]
    BY <1>2, <1>12, PhaseSet DEF ClaimPending, Phases
  <2>2. /\ worker' \in [Jobs -> WorkerRecord] /\ worker'[j].pc = "dispatch"
        /\ \A k \in Jobs \ {j} : worker'[k] = worker[k]
    BY <1>2, <1>12, Moved DEF ClaimPending, Labels, ExecutorLabels
  <2>3. HostTypeOK'
    BY <1>1, <1>12, <2>1, <2>2 DEF ClaimPending, HostTypeOK, UnitTypeOK, tenantVars,
       releaseVars, caddyVars, unitVars
  <2>4. JobInv(j)'
    BY <1>1, <1>12, <2>1, RunningWorker DEF ClaimPending, JobInv
  <2>5. Distinct(audit') /\ \A k \in Jobs : InChain(audit, k) => InChain(audit', k)
    BY <1>1, <1>12 DEF ClaimPending, HostInv
  <2> QED
    BY <1>12, <2>1, <2>2, <2>3, <2>4, <2>5, RecordStep, FreeLanding
       DEF ClaimPending, FreeLabels, caddyVars, unitVars
<1>13. CASE PublishFailure(j)
  <2>1. intent = None /\ results[j] = "none"
    BY <1>1, <1>13 DEF PublishFailure, WorkerInv, FailLabels
  <2>2. /\ results' \in [Jobs -> {"none", "succeeded", "failed"}] /\ results'[j] = "failed"
        /\ \A k \in Jobs \ {j} : results'[k] = results[k]
    BY <1>1, <1>13 DEF PublishFailure, HostTypeOK
  <2>3. /\ worker' \in [Jobs -> WorkerRecord] /\ worker'[j].pc = "failAudit"
        /\ \A k \in Jobs \ {j} : worker'[k] = worker[k]
    BY <1>2, <1>13, Moved DEF PublishFailure, Labels, ExecutorLabels
  <2>4. HostTypeOK'
    BY <1>1, <1>13, <2>2, <2>3 DEF PublishFailure, HostTypeOK, UnitTypeOK, tenantVars,
       releaseVars, caddyVars, unitVars
  <2>5. JobInv(j)'
    BY <1>1, <1>13, <2>2, RunningWorker DEF PublishFailure, JobInv
  <2>6. WorkerInv(j)'
    BY <1>1, <1>13, <2>1, <2>2, <2>3 DEF PublishFailure, WorkerInv, LockedLabels, FailLabels,
       BindLabels, OwnerLabels, PairLabels, CommitLabels
  <2>7. Distinct(audit') /\ \A k \in Jobs : InChain(audit, k) => InChain(audit', k)
    BY <1>1, <1>13 DEF PublishFailure, HostInv
  <2> QED
    BY <1>13, <2>1, <2>2, <2>3, <2>4, <2>5, <2>6, <2>7, RecordStep DEF PublishFailure, caddyVars, unitVars
<1>14. CASE EnsureFailureAudit(j)
  <2>1. intent = None /\ results[j] = "failed"
    BY <1>1, <1>14 DEF EnsureFailureAudit, WorkerInv, FailLabels
  <2>2. audit \in Seq(Jobs) /\ Distinct(audit)
    BY <1>1 DEF HostTypeOK, HostInv
  <2>3. /\ audit' \in Seq(Jobs) /\ Distinct(audit') /\ InChain(audit', j)
        /\ \A k \in Jobs : InChain(audit, k) => InChain(audit', k)
    <3>1. audit' = IF InChain(audit, j) THEN audit ELSE Append(audit, j)
      BY <1>14 DEF EnsureFailureAudit, Audited, InChain
    <3> QED
      BY <2>2, <3>1, Appended
  <2>4. PICK label \in {"failPhase", "replayPhase"} : Goto(j, label)
    BY <1>14 DEF EnsureFailureAudit
  <2>5. /\ worker' \in [Jobs -> WorkerRecord] /\ worker'[j].pc = label
        /\ \A k \in Jobs \ {j} : worker'[k] = worker[k]
    BY <1>2, <2>4, Moved DEF Labels, ExecutorLabels
  <2>6. HostTypeOK'
    BY <1>1, <1>14, <2>3, <2>5 DEF EnsureFailureAudit, HostTypeOK, UnitTypeOK, tenantVars,
       releaseVars, caddyVars, unitVars
  <2>7. JobInv(j)'
    BY <1>1, <1>14, <2>1, <2>3, RunningWorker DEF EnsureFailureAudit, JobInv
  <2>8. WorkerInv(j)'
    BY <1>1, <1>14, <2>1, <2>3, <2>5 DEF EnsureFailureAudit, WorkerInv, LockedLabels, FailLabels,
       BindLabels, OwnerLabels, PairLabels, CommitLabels
  <2> QED
    BY <1>14, <2>1, <2>3, <2>5, <2>6, <2>7, <2>8, RecordStep DEF EnsureFailureAudit, caddyVars, unitVars
<1>15. CASE SetFailedPhase(j)
  <2>1. intent = None /\ results[j] = "failed" /\ InChain(audit, j)
    BY <1>1, <1>15 DEF SetFailedPhase, WorkerInv, FailLabels
  <2>2. /\ jobs' \in [Jobs -> JobRecord] /\ jobs'[j].phase = "failed"
        /\ jobs'[j].tenant = jobs[j].tenant /\ jobs'[j].validated = jobs[j].validated
        /\ \A k \in Jobs \ {j} : jobs'[k] = jobs[k]
    BY <1>2, <1>15, PhaseSet DEF SetFailedPhase, Phases
  <2>3. PICK label \in {"failValidated", "validate"} :
            Goto(j, label) /\ lock' \in {None, j} /\ (label = "failValidated" => lock' = j)
    BY <1>15 DEF SetFailedPhase
  <2>4. /\ worker' \in [Jobs -> WorkerRecord] /\ worker'[j].pc = label
        /\ \A k \in Jobs \ {j} : worker'[k] = worker[k]
    BY <1>2, <2>3, Moved DEF Labels, ExecutorLabels
  <2>5. HostTypeOK'
    BY <1>1, <1>15, <2>2, <2>3, <2>4 DEF SetFailedPhase, HostTypeOK, UnitTypeOK, tenantVars,
       releaseVars, caddyVars, unitVars
  <2>6. JobInv(j)'
    BY <1>1, <1>15, <2>1, <2>2, RunningWorker DEF SetFailedPhase, JobInv
  <2>7. WorkerInv(j)'
    BY <1>15, <2>1, <2>3, <2>4 DEF SetFailedPhase, WorkerInv, LockedLabels, FailLabels,
       BindLabels, OwnerLabels, PairLabels, CommitLabels
  <2>8. Distinct(audit') /\ \A k \in Jobs : InChain(audit, k) => InChain(audit', k)
    BY <1>1, <1>15 DEF SetFailedPhase, HostInv
  <2> QED
    BY <1>15, <2>1, <2>2, <2>4, <2>5, <2>6, <2>7, <2>8, RecordStep DEF SetFailedPhase, caddyVars, unitVars
<1>16. ASSUME jobs' = [jobs EXCEPT ![j].validated = TRUE], Stop(j), lock \in {None, j}, lock' = None,
              UNCHANGED <<results, audit, intent, tenantVars, releaseVars, caddyVars, ids>>,
              worker[j].pc # "idle", InChain(audit, j), results[j] # "none", intent # None => intent.job # j
       PROVE  IndInv'
  <2>1. /\ jobs' \in [Jobs -> JobRecord] /\ jobs'[j].phase = jobs[j].phase
        /\ jobs'[j].tenant = jobs[j].tenant
        /\ \A k \in Jobs \ {j} : jobs'[k] = jobs[k]
    BY <1>2, <1>16, ValidatedSet
  <2>2. /\ worker' \in [Jobs -> WorkerRecord] /\ worker'[j].pc = "idle"
        /\ \A k \in Jobs \ {j} : worker'[k] = worker[k]
    BY <1>2, <1>16, Stopped
  <2>3. HostTypeOK'
    BY <1>1, <1>16, <2>1, <2>2 DEF HostTypeOK, UnitTypeOK, tenantVars, releaseVars, caddyVars, unitVars
  <2>4. JobInv(j)'
    BY <1>1, <1>16, <2>1, <2>2 DEF JobInv
  <2>5. Distinct(audit') /\ \A k \in Jobs : InChain(audit, k) => InChain(audit', k)
    BY <1>1, <1>16 DEF HostInv
  <2> QED
    BY <1>16, <2>1, <2>2, <2>3, <2>4, <2>5, RecordStep, FreeLanding DEF FreeLabels, caddyVars, unitVars
<1>17. CASE CommitFailureValidation(j)
  BY <1>1, <1>16, <1>17 DEF CommitFailureValidation, WorkerInv, FailLabels
<1>18. CASE MarkExecutionValidated(j)
  BY <1>1, <1>16, <1>18 DEF MarkExecutionValidated, WorkerInv
<1> QED
  BY <1>5, <1>6, <1>7, <1>8, <1>9, <1>10, <1>11, <1>12, <1>13, <1>14, <1>15, <1>17, <1>18
     DEF ExecutorStep

-----------------------------------------------------------------------------
(* The handler's steps: preparation and reconstruction. *)

\* The parts of a durable intent.
LEMMA IntentParts ==
    ASSUME HostTypeOK, intent # None
    PROVE  /\ intent.job \in Jobs /\ intent.tenant \in Tenants /\ intent.dep \in Ids
           /\ intent.srcGen \in Ids /\ intent.candGen \in Ids
           /\ CandidateObserved(intent) \in Observed
<1>1. intent \in IntentRecord
  BY DEF HostTypeOK
<1>2. intent.dep \in Ids /\ intent.candGen \in Ids
  BY <1>1 DEF IntentRecord
<1>3. CandidateObserved(intent) \in Observed
  BY <1>2 DEF CandidateObserved, Observed
<1> QED
  BY <1>1, <1>3 DEF IntentRecord

\* What a worker whose job owns the intent needs to know outside the pair.
LEMMA OwnerLanding ==
    ASSUME NEW j \in Jobs, lock' = j, intent' # None, intent'.job = j,
           \/ worker'[j].pc \in {"release", "prune", "publish", "deployment", "desired",
                                 "observed", "retireReleases", "retireRecords", "audit"}
           \/ worker'[j].pc = "result" /\ InChain(audit', j)
           \/ worker'[j].pc \in {"job", "removeIntent"} /\ results'[j] # "none"
    PROVE  WorkerInv(j)'
  BY DEF WorkerInv, LockedLabels, FailLabels, BindLabels, OwnerLabels, PairLabels, CommitLabels

\* ... and inside it, between the source and the candidate generation.
LEMMA PairLanding ==
    ASSUME NEW j \in Jobs, lock' = j, intent' # None, intent'.job = j,
           intent'.srcGen \in DOMAIN gens', intent'.candGen \in DOMAIN gens',
           worker'[j].pc \in PairLabels
    PROVE  WorkerInv(j)'
  BY DEF WorkerInv, LockedLabels, FailLabels, BindLabels, OwnerLabels, PairLabels, CommitLabels

\* A preparation or reconstruction step preserves the invariant.
LEMMA PrepareInv ==
    ASSUME IndInv, NEW j \in Jobs, PrepareStep(j) \/ IntentFault(j)
    PROVE  IndInv'
<1> USE DEF At, Holds, Unlocked
<1>1. HostTypeOK /\ HostInv /\ JobInv(j) /\ WorkerInv(j)
  BY DEF IndInv
<1>2. worker \in [Jobs -> WorkerRecord] /\ jobs \in [Jobs -> JobRecord]
  BY <1>1 DEF HostTypeOK
<1>3. None # j
  BY ActorsAssumption
<1>4. ASSUME UNCHANGED <<jobVars, intent, tenantVars, releases, caddyVars, ids>>,
             staged' \in SUBSET Ids,
             lock \in {None, j}, lock' \in {None, j}, worker[j].pc # "idle",
             worker' \in [Jobs -> WorkerRecord], \A k \in Jobs \ {j} : worker'[k] = worker[k],
             WorkerInv(j)'
      PROVE  IndInv'
  <2>1. HostTypeOK'
    BY <1>1, <1>4 DEF HostTypeOK, UnitTypeOK, jobVars, tenantVars, caddyVars, unitVars
  <2>2. active' \in DOMAIN gens' /\ startup' = startup
    BY <1>1, <1>4 DEF HostInv, caddyVars, unitVars
  <2> QED
    BY <1>4, <2>1, <2>2, ControlStep, RunningWorker
<1>5. staged \in SUBSET Ids /\ {} \in SUBSET Ids
  BY <1>1 DEF HostTypeOK
<1>6. CASE Classify(j)
  <2>1. \/ Stop(j)
        \/ \E label \in {"recover", "start"} : Goto(j, label)
        \/ Goto(j, "validate") /\ results[j] # "none"
        \/ Goto(j, "prepare") /\ results[j] = "none" /\ jobs[j].phase = "claimed"
    BY <1>6 DEF Classify
  <2>2. CASE Stop(j)
    BY <1>2, <1>4, <1>5, <1>6, <2>2, Stopped, FreeLanding DEF Classify, FreeLabels, releaseVars
  <2>3. CASE \E label \in {"recover", "start"} : Goto(j, label)
    BY <1>2, <1>4, <1>5, <1>6, <2>3, Moved, FreeLanding
       DEF Classify, FreeLabels, Labels, ExecutorLabels, PrepareLabels, releaseVars
  <2>4. CASE Goto(j, "validate") /\ results[j] # "none"
    <3>1. /\ worker' \in [Jobs -> WorkerRecord] /\ worker'[j].pc = "validate"
          /\ \A k \in Jobs \ {j} : worker'[k] = worker[k]
      BY <1>2, <2>4, Moved DEF Labels, ExecutorLabels
    <3>2. WorkerInv(j)'
      BY <1>6, <2>4, <3>1 DEF Classify, jobVars, WorkerInv, LockedLabels, FailLabels,
         BindLabels, OwnerLabels, PairLabels, CommitLabels
    <3> QED
      BY <1>4, <1>5, <1>6, <3>1, <3>2 DEF Classify, releaseVars
  <2>5. CASE Goto(j, "prepare") /\ results[j] = "none" /\ jobs[j].phase = "claimed"
    <3>1. /\ worker' \in [Jobs -> WorkerRecord] /\ worker'[j].pc = "prepare"
          /\ \A k \in Jobs \ {j} : worker'[k] = worker[k]
      BY <1>2, <2>5, Moved DEF Labels, PrepareLabels
    <3>2. WorkerInv(j)'
      BY <1>6, <2>5, <3>1 DEF Classify, jobVars, WorkerInv, LockedLabels, FailLabels,
         BindLabels, OwnerLabels, PairLabels, CommitLabels
    <3> QED
      BY <1>4, <1>5, <1>6, <3>1, <3>2 DEF Classify, releaseVars
  <2> QED
    BY <2>1, <2>2, <2>3, <2>4, <2>5
<1>7. CASE PrepareRejected(j)
  <2>1. /\ worker' \in [Jobs -> WorkerRecord] /\ worker'[j].pc = "reject"
        /\ \A k \in Jobs \ {j} : worker'[k] = worker[k]
    BY <1>2, <1>7, Moved DEF PrepareRejected, Labels, ExecutorLabels
  <2>2. WorkerInv(j)'
    BY <1>1, <1>7, <2>1 DEF PrepareRejected, jobVars, WorkerInv, LockedLabels, FailLabels,
       BindLabels, OwnerLabels, PairLabels, CommitLabels
  <2>3. staged' \in SUBSET Ids
    BY <1>5, <1>7 DEF PrepareRejected
  <2> QED
    BY <1>4, <1>7, <2>1, <2>2, <2>3 DEF PrepareRejected
<1>8. CASE PrepareRaced(j)
  BY <1>2, <1>4, <1>5, <1>8, Retried, FreeLanding DEF PrepareRaced, FreeLabels, releaseVars
<1>9. CASE Prepare(j)
  <2>1. /\ worker' \in [Jobs -> WorkerRecord] /\ worker'[j].pc = "bindRuntime"
        /\ \A k \in Jobs \ {j} : worker'[k] = worker[k]
    BY <1>2, <1>9, Moved DEF Prepare, Labels, PrepareLabels
  <2>2. WorkerInv(j)'
    BY <1>1, <1>9, <2>1 DEF Prepare, jobVars, WorkerInv, LockedLabels, FailLabels,
       BindLabels, OwnerLabels, PairLabels, CommitLabels
  <2> QED
    BY <1>4, <1>5, <1>9, <2>1, <2>2 DEF Prepare
<1>10. CASE BindSourceRuntime(j)
  <2>1. active \in Ids
    BY <1>1 DEF HostTypeOK, UnitTypeOK
  <2>2. observed[jobs[j].tenant] \in Observed
    BY <1>1, <1>10, RunningWorker DEF BindSourceRuntime, HostTypeOK, JobInv
  <2>3. /\ jobs' \in [Jobs -> JobRecord] /\ jobs'[j].phase = jobs[j].phase
        /\ jobs'[j].tenant = jobs[j].tenant /\ jobs'[j].validated = jobs[j].validated
        /\ \A k \in Jobs \ {j} : jobs'[k] = jobs[k]
    BY <1>2, <1>10, <2>1, <2>2, SourceRuntimeSet DEF BindSourceRuntime
  <2>4. /\ worker' \in [Jobs -> WorkerRecord] /\ worker'[j].pc = "stage"
        /\ \A k \in Jobs \ {j} : worker'[k] = worker[k]
    BY <1>2, <1>10, Moved DEF BindSourceRuntime, Labels, PrepareLabels
  <2>5. HostTypeOK'
    BY <1>1, <1>10, <2>3, <2>4 DEF BindSourceRuntime, HostTypeOK, UnitTypeOK, tenantVars,
       releaseVars, caddyVars, unitVars
  <2>6. JobInv(j)'
    BY <1>1, <1>10, <2>3, RunningWorker DEF BindSourceRuntime, JobInv
  <2>7. WorkerInv(j)'
    BY <1>1, <1>10, <2>3, <2>4 DEF BindSourceRuntime, WorkerInv, LockedLabels, FailLabels,
       BindLabels, OwnerLabels, PairLabels, CommitLabels
  <2>8. Distinct(audit') /\ \A k \in Jobs : InChain(audit, k) => InChain(audit', k)
    BY <1>1, <1>10 DEF BindSourceRuntime, HostInv
  <2> QED
    BY <1>10, <2>3, <2>4, <2>5, <2>6, <2>7, <2>8, RecordStep DEF BindSourceRuntime, caddyVars, unitVars
<1>11. CASE StageRelease(j)
  <2>1. /\ worker' \in [Jobs -> WorkerRecord] /\ worker'[j].pc = "intent"
        /\ \A k \in Jobs \ {j} : worker'[k] = worker[k]
    BY <1>2, <1>11, Moved DEF StageRelease, Labels, PrepareLabels
  <2>2. WorkerInv(j)'
    BY <1>1, <1>11, <2>1 DEF StageRelease, jobVars, WorkerInv, LockedLabels, FailLabels,
       BindLabels, OwnerLabels, PairLabels, CommitLabels
  <2>3. staged' \in SUBSET Ids
    BY <1>1, <1>5, <1>11 DEF StageRelease, HostTypeOK, Ids
  <2> QED
    BY <1>4, <1>11, <2>1, <2>2, <2>3 DEF StageRelease
<1>12. CASE QuotaExceeded(j)
  <2>1. /\ worker' \in [Jobs -> WorkerRecord] /\ worker'[j].pc = "reject"
        /\ \A k \in Jobs \ {j} : worker'[k] = worker[k]
    BY <1>2, <1>12, Moved DEF QuotaExceeded, Labels, ExecutorLabels
  <2>2. WorkerInv(j)'
    BY <1>1, <1>12, <2>1 DEF QuotaExceeded, jobVars, WorkerInv, LockedLabels, FailLabels,
       BindLabels, OwnerLabels, PairLabels, CommitLabels
  <2> QED
    BY <1>4, <1>5, <1>12, <2>1, <2>2 DEF QuotaExceeded, releaseVars
<1>13. CASE IntentFault(j)
  BY <1>2, <1>4, <1>5, <1>13, Stopped, FreeLanding DEF IntentFault, FreeLabels
<1>14. CASE CreateIntent(j)
  <2>1. /\ results[j] = "none" /\ jobs[j].phase = "claimed" /\ intent = None
    BY <1>1, <1>14 DEF CreateIntent, WorkerInv, BindLabels
  <2>2. intent' \in IntentRecord /\ intent'.job = j
    <3>1. jobs[j].tenant \in Tenants /\ jobs[j].op \in Operations /\ jobs[j].target \in Ids
      BY <1>1, <1>2, <2>1 DEF JobInv, JobRecord
    <3>2. /\ observed[jobs[j].tenant] \in Observed /\ active \in Ids /\ ids + 1 \in Ids
      BY <1>1, <3>1 DEF HostTypeOK, UnitTypeOK, Ids
    <3>3. (IF jobs[j].op = "deploy" THEN ids + 1 ELSE jobs[j].target) \in Ids
      BY <3>1, <3>2
    <3>4. intent'.job = j
      BY <1>14 DEF CreateIntent
    <3> QED
      BY <1>14, <3>1, <3>2, <3>3, <3>4 DEF CreateIntent, IntentRecord
  <2>3. intent' # None
    BY <2>2, ActorsAssumption
  <2>4. /\ worker' \in [Jobs -> WorkerRecord] /\ worker'[j].pc = "release"
        /\ \A k \in Jobs \ {j} : worker'[k] = worker[k]
    BY <1>2, <1>14, Moved DEF CreateIntent, Labels, PrepareLabels
  <2>5. HostTypeOK'
    BY <1>1, <1>14, <2>2, <2>4 DEF CreateIntent, HostTypeOK, UnitTypeOK, jobVars, tenantVars,
       releaseVars, caddyVars, unitVars
  <2>6. \A k \in Jobs \ {j} : JobInv(k)' /\ WorkerInv(k)'
    <3>1. \A k \in Jobs : InChain(audit, k) => InChain(audit', k)
      BY <1>14 DEF CreateIntent, jobVars
    <3> QED
      BY <1>14, <2>2, <2>4, <3>1, OthersKept DEF CreateIntent, jobVars
  <2>7. JobInv(j)'
    BY <1>1, <1>14, <2>1 DEF CreateIntent, JobInv, jobVars
  <2>8. WorkerInv(j)'
    BY <1>14, <2>2, <2>3, <2>4, OwnerLanding DEF CreateIntent
  <2>9. HostInv'
    BY <1>1, <1>14, <2>1, <2>2 DEF CreateIntent, HostInv, jobVars, caddyVars, unitVars
  <2> QED
    BY <2>5, <2>6, <2>7, <2>8, <2>9 DEF IndInv
<1>15. CASE Recover(j)
  <2>1. CASE OwnsIntent(j) /\ RecoveryAdmitted(intent)
    <3> DEFINE p == SourceReleasePresent(intent)
    <3>1. p \in BOOLEAN
      BY DEF SourceReleasePresent
    <3>2. worker' = [worker EXCEPT ![j].pc = "release", ![j].permitted = p] /\ lock' = j
      BY <1>15, <2>1 DEF Recover
    <3> HIDE DEF p
    <3>3. /\ worker' \in [Jobs -> WorkerRecord] /\ worker'[j].pc = "release"
          /\ \A k \in Jobs \ {j} : worker'[k] = worker[k]
      BY <1>2, <3>1, <3>2, Resumed
    <3>4. WorkerInv(j)'
      BY <1>15, <2>1, <3>2, <3>3, OwnerLanding DEF Recover, OwnsIntent
    <3> QED
      BY <1>4, <1>5, <1>15, <3>2, <3>3, <3>4 DEF Recover, releaseVars
  <2>2. CASE ~(OwnsIntent(j) /\ RecoveryAdmitted(intent))
    BY <1>2, <1>4, <1>5, <1>15, <2>2, Retried, FreeLanding DEF Recover, FreeLabels, releaseVars
  <2> QED
    BY <2>1, <2>2
<1>16. ASSUME Holds(j, "release") \/ Holds(j, "prune") \/ Holds(j, "publish")
       PROVE  intent # None /\ intent.job = j
  BY <1>1, <1>16 DEF WorkerInv, OwnerLabels
<1>17. CASE PublishRelease(j)
  <2>1. intent # None /\ intent.job = j
    BY <1>16, <1>17 DEF PublishRelease
  <2>2. PICK label \in {"activate", "prune"} :
            Goto(j, label) /\ lock' \in {None, j} /\ (label = "prune" => lock' = j)
    BY <1>17 DEF PublishRelease
  <2>3. /\ worker' \in [Jobs -> WorkerRecord] /\ worker'[j].pc = label
        /\ \A k \in Jobs \ {j} : worker'[k] = worker[k]
    BY <1>2, <2>2, Moved DEF Labels, PrepareLabels, ActivateLabels
  <2>4. WorkerInv(j)'
    BY <1>17, <2>1, <2>2, <2>3, OwnerLanding, FreeLanding DEF PublishRelease, FreeLabels
  <2>5. releases' \in [Tenants -> SUBSET Ids] /\ staged' \in SUBSET Ids
    BY <1>1, <1>17, <2>1, IntentParts DEF PublishRelease, HostTypeOK
  <2>6. HostTypeOK'
    BY <1>1, <1>17, <2>2, <2>3, <2>5 DEF PublishRelease, HostTypeOK, UnitTypeOK, jobVars, tenantVars,
       caddyVars, unitVars
  <2>7. active' \in DOMAIN gens' /\ startup' = startup
    BY <1>1, <1>17 DEF PublishRelease, HostInv, caddyVars, unitVars
  <2> QED
    BY <1>17, <2>3, <2>4, <2>6, <2>7, ControlStep, RunningWorker DEF PublishRelease
<1>18. CASE PruneGenerations(j)
  <2>1. intent # None /\ intent.job = j
    BY <1>16, <1>18 DEF PruneGenerations
  <2>2. /\ worker' \in [Jobs -> WorkerRecord] /\ worker'[j].pc = "publish"
        /\ \A k \in Jobs \ {j} : worker'[k] = worker[k]
    BY <1>2, <1>18, Moved DEF PruneGenerations, Labels, PrepareLabels
  <2>3. WorkerInv(j)'
    BY <1>18, <2>1, <2>2, OwnerLanding DEF PruneGenerations
  <2>4. active \in DOMAIN gens
    BY <1>1 DEF HostInv
  <2>5. /\ active \in DOMAIN gens' /\ DOMAIN gens' \in SUBSET Ids
        /\ \A g \in DOMAIN gens' : gens'[g] \in Routes
    BY <1>1, <1>18, <2>4 DEF PruneGenerations, HostTypeOK
  <2>6. HostTypeOK'
    BY <1>1, <1>18, <2>2, <2>5 DEF PruneGenerations, HostTypeOK, UnitTypeOK, jobVars, tenantVars,
       releaseVars, unitVars
  <2> QED
    BY <1>18, <2>2, <2>3, <2>5, <2>6, ControlStep, RunningWorker DEF PruneGenerations, unitVars
<1>19. CASE PublishCandidate(j)
  <2>1. intent # None /\ intent.job = j
    BY <1>16, <1>19 DEF PublishCandidate
  <2>2. /\ worker' \in [Jobs -> WorkerRecord] /\ worker'[j].pc = "activate"
        /\ \A k \in Jobs \ {j} : worker'[k] = worker[k]
    BY <1>2, <1>19, Moved DEF PublishCandidate, Labels, ActivateLabels
  <2>3. [observed EXCEPT ![intent.tenant] = CandidateObserved(intent)] \in Routes
    BY <1>1, <2>1, IntentParts DEF HostTypeOK, Routes
  <2>4. active \in DOMAIN gens
    BY <1>1 DEF HostInv
  <2>5. /\ active \in DOMAIN gens' /\ DOMAIN gens' \in SUBSET Ids
        /\ \A g \in DOMAIN gens' : gens'[g] \in Routes
    BY <1>1, <1>19, <2>1, <2>3, <2>4, IntentParts DEF PublishCandidate, HostTypeOK
  <2>6. HostTypeOK'
    BY <1>1, <1>19, <2>2, <2>5 DEF PublishCandidate, HostTypeOK, UnitTypeOK, jobVars, tenantVars,
       releaseVars, unitVars
  <2> QED
    BY <1>19, <2>2, <2>5, <2>6, ControlStep, RunningWorker, FreeLanding DEF PublishCandidate, FreeLabels, unitVars
<1> QED
  BY <1>6, <1>7, <1>8, <1>9, <1>10, <1>11, <1>12, <1>13, <1>14, <1>15, <1>17, <1>18, <1>19
     DEF PrepareStep

-----------------------------------------------------------------------------
(* The handler's steps: activation. *)

\* An activation step, or a fault of one, preserves the invariant.
LEMMA ActivateInv ==
    ASSUME IndInv, NEW j \in Jobs,
           \/ ActivateStep(j)
           \/ ActivateCapacityFault(j) \/ VerifySourceFault(j) \/ SelectFault(j)
           \/ ReloadFault(j) \/ VerifyCandidateFault(j) \/ RestoreFault(j)
    PROVE  IndInv'
<1> USE DEF At, Holds, Unlocked
<1>1. HostTypeOK /\ HostInv /\ JobInv(j) /\ WorkerInv(j)
  BY DEF IndInv
<1>2. worker \in [Jobs -> WorkerRecord]
  BY <1>1 DEF HostTypeOK
<1>3. active \in DOMAIN gens /\ running \in Ids \cup {None} /\ DOMAIN gens \subseteq Ids
  BY <1>1 DEF HostInv, HostTypeOK, UnitTypeOK
<1>4. ASSUME UNCHANGED <<jobVars, intent, tenantVars, releaseVars, gens, startVars, ids>>,
             active' \in DOMAIN gens, running' \in Ids \cup {None},
             lock \in {None, j}, worker[j].pc # "idle",
             intent # None, intent.job = j, {intent.srcGen, intent.candGen} \subseteq DOMAIN gens,
             \/ /\ lock' = j
                /\ \E label \in PairLabels : Goto(j, label)
             \/ lock' = None /\ (Stop(j) \/ RetryOnce(j))
      PROVE  IndInv'
  <2>1. CASE lock' = j /\ \E label \in PairLabels : Goto(j, label)
    <3>1. PICK label \in PairLabels : Goto(j, label)
      BY <2>1
    <3>2. label \in Labels
      BY DEF PairLabels, Labels, ActivateLabels, CommitLabels
    <3>3. /\ worker' \in [Jobs -> WorkerRecord] /\ worker'[j].pc = label
          /\ \A k \in Jobs \ {j} : worker'[k] = worker[k]
      BY <1>2, <3>1, <3>2, Moved
    <3>4. WorkerInv(j)'
      BY <1>4, <2>1, <3>3, PairLanding
    <3> QED
      BY <1>4, <2>1, <3>3, <3>4, UnitStep
  <2>2. CASE lock' = None /\ (Stop(j) \/ RetryOnce(j))
    BY <1>2, <1>4, <2>2, Stopped, Retried, FreeLanding, UnitStep DEF FreeLabels
  <2> QED
    BY <1>4, <2>1, <2>2
<1>5. CASE Activate(j)
  <2>1. CASE RetryOnce(j) /\ lock' = None
    <3>1. UNCHANGED <<jobVars, intent, tenantVars, releaseVars, caddyVars, ids>>
      BY <1>5 DEF Activate
    <3>2. worker[j].pc # "idle" /\ lock = None
      BY <1>5 DEF Activate
    <3> QED
      BY <1>2, <2>1, <3>1, <3>2, Retried, FreeLanding, PureStep DEF FreeLabels
  <2>2. CASE /\ OwnsIntent(j) /\ ActivationAdmitted(intent) /\ lock' = j
             /\ Goto(j, "verifySource") \/ Goto(j, "verifyCandidate")
    BY <1>3, <1>4, <1>5, <2>2 DEF Activate, OwnsIntent, ActivationAdmitted, PairLabels, caddyVars, unitVars, startVars
  <2> QED
    BY <1>5, <2>1, <2>2 DEF Activate
<1>6. CASE ActivateCapacityFault(j)
  BY <1>3, <1>4, <1>6 DEF ActivateCapacityFault, OwnsIntent, ActivationAdmitted, PairLabels, caddyVars, unitVars, startVars
<1>7. ASSUME lock = j, worker[j].pc \in PairLabels
      PROVE  /\ intent # None /\ intent.job = j /\ {intent.srcGen, intent.candGen} \subseteq DOMAIN gens
             /\ Loaded(intent.srcGen) \in Ids \cup {None}
             /\ intent.candGen \in Ids
  BY <1>1, <1>3, <1>7 DEF WorkerInv, OwnerLabels, Loaded
<1>8. CASE VerifySource(j)
  BY <1>3, <1>4, <1>7, <1>8 DEF VerifySource, PairLabels, startVars
<1>9. CASE VerifySourceFault(j)
  BY <1>3, <1>4, <1>7, <1>9 DEF VerifySourceFault, PairLabels, startVars
<1>10. CASE SelectCandidate(j)
  BY <1>3, <1>4, <1>7, <1>10 DEF SelectCandidate, PairLabels, startVars
<1>11. CASE SelectFault(j)
  BY <1>3, <1>4, <1>7, <1>11 DEF SelectFault, PairLabels, startVars
<1>12. CASE Reload(j)
  BY <1>3, <1>4, <1>7, <1>12 DEF Reload, PairLabels, startVars
<1>13. CASE ReloadFault(j)
  BY <1>3, <1>4, <1>7, <1>13 DEF ReloadFault, PairLabels, startVars
<1>14. CASE VerifyCandidate(j)
  BY <1>3, <1>4, <1>7, <1>14 DEF VerifyCandidate, CandidateFailure, PairLabels, startVars
<1>15. CASE VerifyCandidateFault(j)
  BY <1>3, <1>4, <1>7, <1>15 DEF VerifyCandidateFault, CandidateFailure, PairLabels, startVars
<1>16. CASE RestoreSelect(j)
  BY <1>3, <1>4, <1>7, <1>16 DEF RestoreSelect, PairLabels, startVars
<1>17. CASE RestoreLoad(j)
  BY <1>3, <1>4, <1>7, <1>17 DEF RestoreLoad, PairLabels, startVars
<1>18. CASE RestoreFault(j)
  BY <1>3, <1>4, <1>7, <1>18 DEF RestoreFault, PairLabels, startVars
<1> QED
  BY <1>5, <1>6, <1>8, <1>9, <1>10, <1>11, <1>12, <1>13, <1>14, <1>15, <1>16, <1>17, <1>18
     DEF ActivateStep

-----------------------------------------------------------------------------
(* The handler's steps: the terminal commit. *)

\* A commit step, or its capacity fault, preserves the invariant.
LEMMA CommitInv ==
    ASSUME IndInv, NEW j \in Jobs, CommitStep(j) \/ CommitCapacityFault(j)
    PROVE  IndInv'
<1> USE DEF At, Holds, Unlocked
<1>1. HostTypeOK /\ HostInv /\ JobInv(j) /\ WorkerInv(j)
  BY DEF IndInv
<1>2. worker \in [Jobs -> WorkerRecord] /\ jobs \in [Jobs -> JobRecord]
  BY <1>1 DEF HostTypeOK
<1>3. None # j
  BY ActorsAssumption
<1>4. lock = j /\ worker[j].pc \in CommitLabels
  BY DEF CommitStep, CommitLabels, AdmitCommit, CommitCapacityFault, CommitDeployment, CommitDesired,
     CommitObserved, RetireReleases, RetireRecords, CommitAudit, CommitResult, CommitJob, RemoveIntent
<1>5. intent # None /\ intent.job = j
  BY <1>1, <1>4 DEF WorkerInv, OwnerLabels, PairLabels, CommitLabels
<1>6. worker[j].pc # "idle"
  BY <1>4 DEF CommitLabels
<1>7. jobs[j].phase \in {"claimed", "completed"} /\ results[j] # "failed"
  BY <1>1, <1>5 DEF HostInv
<1>8. ASSUME UNCHANGED <<jobVars, intent, caddyVars, ids, lock>>,
             desired' \in [Tenants -> Ids], observed' \in [Tenants -> Observed],
             deployments' \in [Tenants -> SUBSET Ids], releases' \in [Tenants -> SUBSET Ids],
             staged' = staged,
             \/ UNCHANGED worker
             \/ \E label \in {"desired", "observed", "retireReleases", "retireRecords", "audit"} :
                    Goto(j, label)
      PROVE  IndInv'
  <2>1. /\ worker' \in [Jobs -> WorkerRecord] /\ WorkerInv(j)'
        /\ \A k \in Jobs \ {j} : worker'[k] = worker[k]
    <3>1. CASE UNCHANGED worker
      <4>1. WorkerInv(j)'
        BY <1>1, <1>8, <3>1 DEF WorkerInv, jobVars, caddyVars
      <4> QED
        BY <1>2, <3>1, <4>1
    <3>2. CASE \E label \in {"desired", "observed", "retireReleases", "retireRecords", "audit"} :
                    Goto(j, label)
      BY <1>2, <1>4, <1>5, <1>8, <3>2, Moved, OwnerLanding DEF Labels, CommitLabels
    <3> QED
      BY <1>8, <3>1, <3>2
  <2>2. HostTypeOK'
    BY <1>1, <1>8, <2>1 DEF HostTypeOK, UnitTypeOK, jobVars, caddyVars, unitVars
  <2>3. active' \in DOMAIN gens' /\ startup' = startup
    BY <1>1, <1>8 DEF HostInv, caddyVars, unitVars
  <2> QED
    BY <1>4, <1>6, <1>8, <2>1, <2>2, <2>3, ControlStep, RunningWorker
<1>9. /\ desired \in [Tenants -> Ids] /\ observed \in [Tenants -> Observed]
      /\ deployments \in [Tenants -> SUBSET Ids] /\ releases \in [Tenants -> SUBSET Ids]
      /\ intent.tenant \in Tenants /\ intent.dep \in Ids /\ CandidateObserved(intent) \in Observed
  BY <1>1, <1>5, IntentParts DEF HostTypeOK
<1>10. CASE AdmitCommit(j)
  <2>1. CASE Goto(j, "deployment") /\ lock' = j
    <3>1. /\ worker' \in [Jobs -> WorkerRecord] /\ worker'[j].pc = "deployment"
          /\ \A k \in Jobs \ {j} : worker'[k] = worker[k]
      BY <1>2, <2>1, Moved DEF Labels, CommitLabels
    <3>2. WorkerInv(j)'
      BY <1>5, <1>10, <2>1, <3>1, OwnerLanding DEF AdmitCommit
    <3> QED
      BY <1>4, <1>6, <1>10, <2>1, <3>1, <3>2, PureStep DEF AdmitCommit
  <2>2. CASE RetryOnce(j) /\ lock' = None
    BY <1>2, <1>4, <1>6, <1>10, <2>2, Retried, FreeLanding, PureStep DEF AdmitCommit, FreeLabels
  <2> QED
    BY <1>10, <2>1, <2>2 DEF AdmitCommit
<1>11. CASE CommitCapacityFault(j)
  <2>1. CASE Goto(j, "restoreSelect") /\ lock' = j
    <3>1. /\ worker' \in [Jobs -> WorkerRecord] /\ worker'[j].pc = "restoreSelect"
          /\ \A k \in Jobs \ {j} : worker'[k] = worker[k]
      BY <1>2, <2>1, Moved DEF Labels, ActivateLabels
    <3>2. intent.srcGen \in DOMAIN gens /\ intent.candGen \in DOMAIN gens
      BY <1>1, <1>11 DEF CommitCapacityFault, WorkerInv, PairLabels
    <3>3. WorkerInv(j)'
      BY <1>5, <1>11, <2>1, <3>1, <3>2, PairLanding DEF CommitCapacityFault, PairLabels, caddyVars
    <3> QED
      BY <1>4, <1>6, <1>11, <2>1, <3>1, <3>3, PureStep DEF CommitCapacityFault
  <2>2. CASE Stop(j) /\ lock' = None
    BY <1>2, <1>4, <1>6, <1>11, <2>2, Stopped, FreeLanding, PureStep DEF CommitCapacityFault, FreeLabels
  <2> QED
    BY <1>11, <2>1, <2>2 DEF CommitCapacityFault
<1>12. CASE CommitDeployment(j)
  <2>1. deployments' \in [Tenants -> SUBSET Ids]
    BY <1>9, <1>12 DEF CommitDeployment
  <2> QED
    BY <1>8, <1>9, <1>12, <2>1 DEF CommitDeployment, releaseVars
<1>13. CASE CommitDesired(j)
  BY <1>8, <1>9, <1>13 DEF CommitDesired, releaseVars
<1>14. CASE CommitObserved(j)
  BY <1>8, <1>9, <1>14 DEF CommitObserved, releaseVars
<1>15. CASE RetireReleases(j)
  <2>1. releases' \in [Tenants -> SUBSET Ids]
    BY <1>9, <1>15 DEF RetireReleases
  <2> QED
    BY <1>8, <1>9, <1>15, <2>1 DEF RetireReleases, tenantVars
<1>16. CASE RetireRecords(j)
  <2>1. deployments' \in [Tenants -> SUBSET Ids]
    BY <1>9, <1>16 DEF RetireRecords
  <2> QED
    BY <1>8, <1>9, <1>16, <2>1 DEF RetireRecords, releaseVars
<1>17. CASE CommitAudit(j)
  <2>1. audit \in Seq(Jobs) /\ Distinct(audit)
    BY <1>1 DEF HostTypeOK, HostInv
  <2>2. /\ audit' \in Seq(Jobs) /\ Distinct(audit') /\ InChain(audit', j)
        /\ \A k \in Jobs : InChain(audit, k) => InChain(audit', k)
    <3>1. audit' = IF InChain(audit, j) THEN audit ELSE Append(audit, j)
      BY <1>17 DEF CommitAudit, Audited, InChain
    <3> QED
      BY <2>1, <3>1, Appended
  <2>3. /\ worker' \in [Jobs -> WorkerRecord] /\ worker'[j].pc = "result"
        /\ \A k \in Jobs \ {j} : worker'[k] = worker[k]
    BY <1>2, <1>17, Moved DEF CommitAudit, Labels, CommitLabels
  <2>4. HostTypeOK'
    BY <1>1, <1>17, <2>2, <2>3 DEF CommitAudit, HostTypeOK, UnitTypeOK, tenantVars,
       releaseVars, caddyVars, unitVars
  <2>5. JobInv(j)'
    BY <1>1, <1>7, <1>17, <2>2 DEF CommitAudit, JobInv
  <2>6. WorkerInv(j)'
    BY <1>4, <1>5, <1>17, <2>2, <2>3, OwnerLanding DEF CommitAudit
  <2> QED
    BY <1>4, <1>17, <2>2, <2>3, <2>4, <2>5, <2>6, RecordStep DEF CommitAudit, caddyVars, unitVars
<1>18. CASE CommitResult(j)
  <2>1. InChain(audit, j)
    BY <1>1, <1>18 DEF CommitResult, WorkerInv
  <2>2. /\ results' \in [Jobs -> {"none", "succeeded", "failed"}] /\ results'[j] = "succeeded"
        /\ \A k \in Jobs \ {j} : results'[k] = results[k]
    BY <1>1, <1>18 DEF CommitResult, HostTypeOK
  <2>3. /\ worker' \in [Jobs -> WorkerRecord] /\ worker'[j].pc = "job"
        /\ \A k \in Jobs \ {j} : worker'[k] = worker[k]
    BY <1>2, <1>18, Moved DEF CommitResult, Labels, CommitLabels
  <2>4. HostTypeOK'
    BY <1>1, <1>18, <2>2, <2>3 DEF CommitResult, HostTypeOK, UnitTypeOK, tenantVars,
       releaseVars, caddyVars, unitVars
  <2>5. JobInv(j)'
    BY <1>1, <1>5, <1>7, <1>18, <2>1, <2>2 DEF CommitResult, JobInv
  <2>6. WorkerInv(j)'
    BY <1>4, <1>5, <1>18, <2>2, <2>3, OwnerLanding DEF CommitResult
  <2>7. Distinct(audit') /\ \A k \in Jobs : InChain(audit, k) => InChain(audit', k)
    BY <1>1, <1>18 DEF CommitResult, HostInv
  <2> QED
    BY <1>4, <1>18, <2>2, <2>3, <2>4, <2>5, <2>6, <2>7, RecordStep DEF CommitResult, caddyVars, unitVars
<1>19. CASE CommitJob(j)
  <2>1. results[j] # "none"
    BY <1>1, <1>19 DEF CommitJob, WorkerInv
  <2>2. /\ jobs' \in [Jobs -> JobRecord] /\ jobs'[j].phase = "completed"
        /\ jobs'[j].tenant = jobs[j].tenant /\ jobs'[j].validated = jobs[j].validated
        /\ \A k \in Jobs \ {j} : jobs'[k] = jobs[k]
    BY <1>2, <1>19, PhaseSet DEF CommitJob, Phases
  <2>3. /\ worker' \in [Jobs -> WorkerRecord] /\ worker'[j].pc = "removeIntent"
        /\ \A k \in Jobs \ {j} : worker'[k] = worker[k]
    BY <1>2, <1>19, Moved DEF CommitJob, Labels, CommitLabels
  <2>4. HostTypeOK'
    BY <1>1, <1>19, <2>2, <2>3 DEF CommitJob, HostTypeOK, UnitTypeOK, tenantVars,
       releaseVars, caddyVars, unitVars
  <2>5. JobInv(j)'
    BY <1>1, <1>7, <1>19, <2>2 DEF CommitJob, JobInv
  <2>6. WorkerInv(j)'
    BY <1>4, <1>5, <1>19, <2>1, <2>3, OwnerLanding DEF CommitJob
  <2>7. Distinct(audit') /\ \A k \in Jobs : InChain(audit, k) => InChain(audit', k)
    BY <1>1, <1>19 DEF CommitJob, HostInv
  <2> QED
    BY <1>4, <1>19, <2>2, <2>3, <2>4, <2>5, <2>6, <2>7, RecordStep DEF CommitJob, caddyVars, unitVars
<1>20. CASE RemoveIntent(j)
  <2>1. results[j] # "none"
    BY <1>1, <1>20 DEF RemoveIntent, WorkerInv
  <2>2. /\ worker' \in [Jobs -> WorkerRecord] /\ worker'[j].pc = "validate"
        /\ \A k \in Jobs \ {j} : worker'[k] = worker[k]
    BY <1>2, <1>20, Moved DEF RemoveIntent, Labels, ExecutorLabels
  <2>3. HostTypeOK'
    BY <1>1, <1>20, <2>2 DEF RemoveIntent, HostTypeOK, UnitTypeOK, jobVars, tenantVars,
       releaseVars, caddyVars, unitVars
  <2>4. \A k \in Jobs \ {j} : JobInv(k)' /\ WorkerInv(k)'
    <3>1. \A k \in Jobs : InChain(audit, k) => InChain(audit', k)
      BY <1>20 DEF RemoveIntent, jobVars
    <3> QED
      BY <1>4, <1>20, <2>2, <3>1, OthersKept DEF RemoveIntent, jobVars
  <2>5. JobInv(j)'
    BY <1>1, <1>7, <1>20 DEF RemoveIntent, JobInv, jobVars
  <2>6. WorkerInv(j)'
    BY <1>20, <2>1, <2>2 DEF RemoveIntent, jobVars, WorkerInv, LockedLabels, FailLabels,
       BindLabels, OwnerLabels, PairLabels, CommitLabels
  <2>7. HostInv'
    BY <1>1, <1>20 DEF RemoveIntent, HostInv, jobVars, caddyVars, unitVars
  <2> QED
    BY <2>3, <2>4, <2>5, <2>6, <2>7 DEF IndInv
<1> QED
  BY <1>10, <1>11, <1>12, <1>13, <1>14, <1>15, <1>16, <1>17, <1>18, <1>19, <1>20 DEF CommitStep

-----------------------------------------------------------------------------
(* Issuance, Caddy's unit and failures of processes. *)

\* Issuing a job preserves the invariant.
LEMMA IssueInv ==
    ASSUME IndInv, NEW j \in Jobs, IssueStep(j)
    PROVE  IndInv'
<1>1. HostTypeOK /\ HostInv /\ JobInv(j)
  BY DEF IndInv
<1>2. PICK op \in Operations, t \in Tenants, target \in Ids : Issue(j, op, t, target)
  <2>1. \A t \in Tenants : deployments[t] \cup {0} \subseteq Ids
    BY <1>1 DEF HostTypeOK, Ids
  <2> QED
    BY <2>1 DEF IssueStep
<1> DEFINE new == [NoJob EXCEPT !.phase = "pending", !.op = op, !.tenant = t,
                                !.target = target, !.source = desired[t]]
<1>3. new \in JobRecord
  <2>1. desired[t] \in Ids
    BY <1>1 DEF HostTypeOK
  <2>2. NoJob \in JobRecord
    <3>1. [t0 \in Tenants |-> {}] \in [Tenants -> SUBSET Ids]
      OBVIOUS
    <3>2. [dep |-> 0, gen |-> 0] \in Observed
      BY DEF Observed, Ids
    <3> QED
      BY <3>1, <3>2 DEF NoJob, JobRecord, Phases, Operations, Ids
  <2> QED
    BY <2>1, <2>2 DEF JobRecord, Phases
<1>4. new.phase = "pending" /\ new.tenant = t
  BY DEF NoJob
<1>5. ~new.validated
  BY DEF NoJob
<1>6. jobs' = [jobs EXCEPT ![j] = new]
  BY <1>2 DEF Issue
<1> HIDE DEF new
<1>7. jobs \in [Jobs -> JobRecord]
  BY <1>1 DEF HostTypeOK
<1>8. /\ jobs' \in [Jobs -> JobRecord] /\ jobs'[j] = new
      /\ \A k \in Jobs \ {j} : jobs'[k] = jobs[k]
  BY <1>3, <1>6, <1>7
<1>9. HostTypeOK'
  BY <1>1, <1>2, <1>8 DEF Issue, HostTypeOK, UnitTypeOK, tenantVars, releaseVars, caddyVars, unitVars, procVars
<1>10. results[j] = "none" /\ worker[j].pc = "idle"
  BY <1>1, <1>2 DEF Issue, JobInv
<1>11. JobInv(j)'
  BY <1>2, <1>4, <1>5, <1>8, <1>10 DEF Issue, JobInv
<1>12. WorkerInv(j)'
  BY <1>2, <1>10, FreeLanding DEF Issue, procVars, FreeLabels
<1>13. Distinct(audit') /\ \A k \in Jobs : InChain(audit, k) => InChain(audit', k)
  BY <1>1, <1>2 DEF Issue, HostInv
<1> QED
  BY <1>2, <1>8, <1>9, <1>11, <1>12, <1>13, RecordStep DEF Issue, Unlocked, caddyVars, unitVars, procVars

\* What the gate, the launcher, the verifier, the recovery unit and a crash make of
\* the unit.
LEMMA UnitRecords ==
    /\ Down \in ServiceRecord /\ Down.state = "down"
    /\ [state |-> "gated", fenced |-> TRUE] \in ServiceRecord
    /\ [state |-> "active", fenced |-> FALSE] \in ServiceRecord
    /\ \A s \in ServiceRecord : /\ [s EXCEPT !.fenced = FALSE] \in ServiceRecord
                                /\ [s EXCEPT !.state = "starting"] \in ServiceRecord
<1>1. Down \in ServiceRecord
  BY DEF Down, ServiceRecord
<1>2. Down.state = "down"
  BY DEF Down
<1>3. [state |-> "gated", fenced |-> TRUE] \in ServiceRecord
  BY DEF ServiceRecord
<1>4. [state |-> "active", fenced |-> FALSE] \in ServiceRecord
  BY DEF ServiceRecord
<1>5. ASSUME NEW s \in ServiceRecord
      PROVE  [s EXCEPT !.fenced = FALSE] \in ServiceRecord /\ [s EXCEPT !.state = "starting"] \in ServiceRecord
  BY DEF ServiceRecord
<1> QED
  BY <1>1, <1>2, <1>3, <1>4, <1>5

\* The gate leaves an intent that every later start can read.
LEMMA GateIntent ==
    ASSUME startup \in StartIntent \cup {None}, startup # None => WellFormed(startup),
           active \in Ids, PrepareStart
    PROVE  startup' \in StartIntent /\ WellFormed(startup')
<1>1. CASE OrdinaryStart
  BY <1>1, NoneAssumption, StartAttemptsAssumption DEF OrdinaryStart, StartIntent, StartPhases, WellFormed
<1>2. CASE startup # None /\ startup.phase \in CandidatePhases
  <2>1. startup' = [startup EXCEPT !.tries = @ + 1,
                        !.phase = IF startup.mode = "ordinary" THEN "ordinary-starting" ELSE "candidate-starting"]
        /\ startup.tries < MaxStartAttempts /\ startup \in StartIntent
    BY <1>2 DEF PrepareStart, OrdinaryStart, CandidatePhases, RecoveryPhases
  <2>2. startup.tries + 1 \in 0..MaxStartAttempts
    BY <2>1, StartAttemptsAssumption DEF StartIntent
  <2>3. startup' \in StartIntent
    BY <2>1, <2>2, StartAttemptsAssumption DEF StartIntent, StartPhases
  <2> QED
    BY <1>2, <2>1, <2>3, StartAttemptsAssumption DEF StartIntent, WellFormed, CandidatePhases
<1>3. CASE startup # None /\ startup.phase \in RecoveryPhases
  <2>1. startup' = [startup EXCEPT !.retries = @ + 1, !.phase = "recovery-starting"]
        /\ startup.retries < MaxStartAttempts /\ startup \in StartIntent
    BY <1>3 DEF PrepareStart, OrdinaryStart, CandidatePhases, RecoveryPhases
  <2>2. startup.retries + 1 \in 0..MaxStartAttempts
    BY <2>1, StartAttemptsAssumption DEF StartIntent
  <2>3. startup' \in StartIntent
    BY <2>1, <2>2, StartAttemptsAssumption DEF StartIntent, StartPhases
  <2> QED
    BY <1>3, <2>1, <2>3, StartAttemptsAssumption DEF StartIntent, WellFormed, RecoveryPhases
<1> QED
  BY <1>1, <1>2, <1>3 DEF PrepareStart

\* What happens to Caddy's unit alone disturbs no job.
LEMMA UnitAlone ==
    ASSUME IndInv, UNCHANGED <<jobVars, intent, tenantVars, releaseVars, gens, ids, procVars, active>>,
           running' \in Ids \cup {None}, service' \in ServiceRecord,
           startup' \in StartIntent \cup {None}, startup' # None => WellFormed(startup')
    PROVE  IndInv'
<1>1. HostTypeOK'
  BY DEF IndInv, HostTypeOK, UnitTypeOK, jobVars, tenantVars, releaseVars, procVars
<1>2. HostInv'
  BY DEF IndInv, HostInv, jobVars
<1>3. ASSUME NEW j \in Jobs
      PROVE  JobInv(j)' /\ WorkerInv(j)'
  <2>1. JobInv(j)'
    BY DEF IndInv, JobInv, jobVars, procVars
  <2>2. WorkerInv(j)'
    BY DEF IndInv, WorkerInv, jobVars, procVars
  <2> QED
    BY <2>1, <2>2
<1> QED
  BY <1>1, <1>2, <1>3 DEF IndInv

\* A step or a failure of Caddy's unit preserves the invariant.
LEMMA CaddyInv ==
    ASSUME IndInv, CaddyStep \/ CaddyFault
    PROVE  IndInv'
<1>1. /\ active \in Ids /\ running \in Ids \cup {None} /\ service \in ServiceRecord
      /\ startup \in StartIntent \cup {None} /\ (startup # None => WellFormed(startup))
  BY DEF IndInv, HostInv, HostTypeOK, UnitTypeOK
<1>2. UNCHANGED <<jobVars, intent, tenantVars, releaseVars, gens, ids, procVars>>
  BY DEF CaddyStep, CaddyFault
<1>3. CASE StartGate
  BY <1>1, <1>2, <1>3, GateIntent, UnitRecords, UnitAlone DEF StartGate
<1>4. CASE Launch
  BY <1>1, <1>2, <1>4, UnitRecords, UnitAlone DEF Launch
<1>5. CASE VerifyStart
  BY <1>1, <1>2, <1>5, UnitRecords, UnitAlone DEF VerifyStart
<1>6. CASE ClearExhaustedOrdinaryStart
  BY <1>1, <1>2, <1>6, UnitRecords, UnitAlone DEF ClearExhaustedOrdinaryStart
<1>7. CASE CaddyCrash
  BY <1>1, <1>2, <1>7, UnitRecords, UnitAlone DEF CaddyCrash
<1> QED
  BY <1>3, <1>4, <1>5, <1>6, <1>7 DEF CaddyStep, CaddyFault

\* The death of a worker preserves the invariant.
LEMMA CrashInv ==
    ASSUME IndInv, NEW j \in Jobs, Crash(j)
    PROVE  IndInv'
<1>1. worker \in [Jobs -> WorkerRecord]
  BY DEF IndInv, HostTypeOK
<1>2. /\ worker' \in [Jobs -> WorkerRecord] /\ worker'[j].pc = "idle"
      /\ \A k \in Jobs \ {j} : worker'[k] = worker[k]
  BY <1>1, Stopped DEF Crash
<1>3. HostTypeOK'
  BY <1>2 DEF IndInv, Crash, HostTypeOK, UnitTypeOK, jobVars, tenantVars, releaseVars, caddyVars, unitVars
<1> QED
  BY <1>2, <1>3, BystandersKept DEF Crash, FreeLabels, caddyVars, unitVars

\* Power loss preserves the invariant.
LEMMA HostCrashInv ==
    ASSUME IndInv, HostCrash
    PROVE  IndInv'
<1>1. \A j \in Jobs : worker'[j].pc = "idle" /\ worker'[j] \in WorkerRecord
  BY IdleType DEF HostCrash
<1>2. worker' \in [Jobs -> WorkerRecord]
  BY <1>1 DEF HostCrash
<1>3. HostTypeOK'
  BY <1>2, UnitRecords DEF IndInv, HostCrash, HostTypeOK, UnitTypeOK, jobVars, tenantVars, releaseVars
<1>4. HostInv'
  BY DEF IndInv, HostInv, HostCrash, jobVars
<1>5. ASSUME NEW j \in Jobs
      PROVE  JobInv(j)' /\ WorkerInv(j)'
  <2>1. JobInv(j)'
    BY <1>1 DEF IndInv, JobInv, HostCrash, jobVars
  <2>2. WorkerInv(j)'
    BY <1>1, FreeLanding DEF FreeLabels
  <2> QED
    BY <2>1, <2>2
<1> QED
  BY <1>3, <1>4, <1>5 DEF IndInv

-----------------------------------------------------------------------------
(* The invariant, and the theorems it gives. *)

\* A freshly founded host satisfies the invariant.
LEMMA InitInv == Init => IndInv
<1> SUFFICES ASSUME Init PROVE IndInv
  OBVIOUS
<1> USE DEF Init, HostInit
<1>1. Epoch \in Ids /\ Epoch # None
  BY FoundedAssumption, NoneAssumption DEF Ids
<1>2. Founded \in [Tenants -> Ids]
  BY FoundedAssumption DEF Ids
<1>3. observed \in [Tenants -> Observed]
  BY <1>1, <1>2 DEF Observed, Ids
<1>4. deployments \in [Tenants -> SUBSET Ids]
  BY <1>2 DEF Ids
<1>5. NoJob \in JobRecord /\ NoJob.phase = "absent"
  <2>1. [t \in Tenants |-> {}] \in [Tenants -> SUBSET Ids]
    OBVIOUS
  <2>2. [dep |-> 0, gen |-> 0] \in Observed
    BY DEF Observed, Ids
  <2>3. NoJob \in JobRecord
    BY <2>1, <2>2 DEF NoJob, JobRecord, Phases, Operations, Ids
  <2>4. NoJob.phase = "absent"
    BY DEF NoJob
  <2> QED
    BY <2>3, <2>4
<1>6. ~NoJob.validated
  BY DEF NoJob
<1>7. jobs \in [Jobs -> JobRecord] /\ worker \in [Jobs -> WorkerRecord]
  BY <1>5, IdleType
<1>8. DOMAIN gens = {Epoch} /\ \A g \in DOMAIN gens : gens[g] \in Routes
  BY <1>3 DEF Routes
<1>9. UnitTypeOK /\ active # None
  BY <1>1, UnitRecords DEF UnitTypeOK
<1>10. HostTypeOK
  <2>1. staged \in SUBSET Ids /\ releases \in [Tenants -> SUBSET Ids] /\ DOMAIN gens \in SUBSET Ids
    BY <1>1, <1>4, <1>8
  <2>2. audit \in Seq(Jobs) /\ results \in [Jobs -> {"none", "succeeded", "failed"}]
    OBVIOUS
  <2>3. intent \in IntentRecord \cup {None} /\ lock \in Jobs \cup {None} /\ ids \in Nat
    BY <1>1 DEF Ids
  <2> QED
    BY <1>2, <1>3, <1>4, <1>7, <1>8, <1>9, <2>1, <2>2, <2>3 DEF HostTypeOK
<1>11. HostInv
  BY <1>8 DEF HostInv, Distinct
<1>12. ASSUME NEW j \in Jobs
       PROVE  JobInv(j) /\ WorkerInv(j)
  <2>1. JobInv(j)
    BY <1>5, <1>6, IdleType DEF JobInv
  <2>2. worker[j].pc = "idle"
    BY IdleType
  <2>3. WorkerInv(j)
    BY <2>2 DEF WorkerInv, LockedLabels, FailLabels, BindLabels, OwnerLabels, PairLabels, CommitLabels
  <2> QED
    BY <2>1, <2>3
<1> QED
  BY <1>10, <1>11, <1>12 DEF IndInv

\* Every step preserves the invariant.
LEMMA StepInv == IndInv /\ [Next]_allVars => IndInv'
<1> SUFFICES ASSUME IndInv, [Next]_allVars PROVE IndInv'
  OBVIOUS
<1>1. ASSUME NEW j \in Jobs, IssueStep(j)
      PROVE  IndInv'
  BY <1>1, IssueInv
<1>2. ASSUME NEW j \in Jobs, Handoff(j)
      PROVE  IndInv'
  BY <1>2, HandoffInv
<1>3. ASSUME NEW j \in Jobs, WorkerStep(j)
      PROVE  IndInv'
  BY <1>3, ExecutorInv, PrepareInv, ActivateInv, CommitInv DEF WorkerStep, HandlerStep
<1>4. CASE CaddyStep
  BY <1>4, CaddyInv
<1>5. CASE FaultStep
  <2>1. ASSUME NEW j \in Jobs, HandlerFault(j)
        PROVE  IndInv'
    BY <2>1, PrepareInv, ActivateInv, CommitInv DEF HandlerFault
  <2> QED
    BY <1>5, <2>1, CrashInv, CaddyInv, HostCrashInv DEF FaultStep
<1>6. CASE UNCHANGED allVars
  <2>1. UNCHANGED <<jobVars, intent, tenantVars, releaseVars, gens, ids, procVars, active>>
    BY <1>6 DEF allVars, vars, caddyVars, unitVars
  <2>2. UNCHANGED <<running, service, startup>>
    BY <1>6 DEF allVars, vars, caddyVars, unitVars
  <2>3. /\ running \in Ids \cup {None} /\ service \in ServiceRecord
        /\ startup \in StartIntent \cup {None} /\ (startup # None => WellFormed(startup))
    BY DEF IndInv, HostInv, HostTypeOK, UnitTypeOK
  <2> QED
    BY <2>1, <2>2, <2>3, UnitAlone
<1> QED
  BY <1>1, <1>2, <1>3, <1>4, <1>5, <1>6 DEF Next

\* The invariant holds throughout.
LEMMA Invariance == Safety => []IndInv
  BY InitInv, StepInv, PTL DEF Safety

\* Whatever jobs race and whatever fails, every record, lock and program
\* counter of the publication path keeps its type.
THEOREM TypeCorrect == Safety => []TypeOK
<1>1. Init => faults \in 0..MaxFaults
  BY FaultsAssumption DEF Init
<1>2. faults \in 0..MaxFaults /\ [Next]_allVars => (faults \in 0..MaxFaults)'
  BY FaultsAssumption DEF Next, FaultStep, allVars
<1>3. Safety => [](faults \in 0..MaxFaults)
  BY <1>1, <1>2, PTL DEF Safety
<1>4. IndInv /\ faults \in 0..MaxFaults => TypeOK
  BY DEF IndInv, TypeOK
<1> QED
  BY <1>3, <1>4, Invariance, PTL

\* _publish_result, the ordered commit and their replays audit a job at most
\* once, for any number of jobs and faults; a validated job is audited and owns
\* no intent, a succeeded one is audited and was claimed, a failed phase has a
\* failed result.
THEOREM AuditOnce == Safety => []AuditedExactlyOnce
<1>1. IndInv => AuditedExactlyOnce
  BY DEF IndInv, HostInv, JobInv, Distinct, InChain, AuditedExactlyOnce, Audited, OwnsIntent
<1> QED
  BY <1>1, Invariance, PTL

\* While an intent is durable, only its owner's commit extends the audit chain,
\* by the entry the preparation reserved the position for.
THEOREM ReservationKept == Safety => AuditReserved
<1>1. ASSUME IndInv, [Next]_allVars
      PROVE  [intent # None /\ audit' # audit => audit' = Append(audit, intent.job)]_allVars
  <2> USE <1>1
  <2>1. ASSUME NEW j \in Jobs, EnsureFailureAudit(j)
        PROVE  intent = None
    BY <2>1 DEF IndInv, EnsureFailureAudit, WorkerInv, FailLabels
  <2>2. ASSUME NEW j \in Jobs, CommitAudit(j)
        PROVE  intent.job = j /\ audit' \in {audit, Append(audit, j)}
    BY <2>2 DEF IndInv, CommitAudit, Holds, At, WorkerInv, OwnerLabels, CommitLabels
  <2>3. ASSUME NEW j \in Jobs, ExecutorStep(j), ~EnsureFailureAudit(j)
        PROVE  audit' = audit
    BY <2>3 DEF ExecutorStep, ReplayExisting, ExecuteWithClaim, Busy, BindDispatchAuthority,
       ClaimPending, ExecuteHandler, FailRejected, PublishFailure, SetFailedPhase,
       CommitFailureValidation, ValidateTerminalState, MarkExecutionValidated, jobVars
  <2>4. ASSUME NEW j \in Jobs, PrepareStep(j)
        PROVE  audit' = audit
    BY <2>4 DEF PrepareStep, Classify, PrepareRejected, PrepareRaced, Prepare, BindSourceRuntime,
       StageRelease, QuotaExceeded, CreateIntent, Recover, PublishRelease, PruneGenerations,
       PublishCandidate, jobVars
  <2>5. ASSUME NEW j \in Jobs, ActivateStep(j)
        PROVE  audit' = audit
    BY <2>5 DEF ActivateStep, Activate, VerifySource, SelectCandidate, Reload, VerifyCandidate,
       RestoreSelect, RestoreLoad, jobVars
  <2>6. ASSUME NEW j \in Jobs, CommitStep(j), ~CommitAudit(j)
        PROVE  audit' = audit
    BY <2>6 DEF CommitStep, AdmitCommit, CommitDeployment, CommitDesired, CommitObserved,
       RetireReleases, RetireRecords, CommitResult, CommitJob, RemoveIntent, jobVars
  <2>7. ASSUME NEW j \in Jobs, HandlerFault(j)
        PROVE  audit' = audit
    BY <2>7 DEF HandlerFault, IntentFault, ActivateCapacityFault, VerifySourceFault, SelectFault,
       ReloadFault, VerifyCandidateFault, RestoreFault, CommitCapacityFault, jobVars
  <2>8. ASSUME NEW j \in Jobs, IssueStep(j) \/ Handoff(j) \/ Crash(j)
        PROVE  audit' = audit
    BY <2>8 DEF IssueStep, Issue, Handoff, Crash, jobVars
  <2>9. ASSUME CaddyStep \/ CaddyFault \/ HostCrash
        PROVE  audit' = audit
    BY <2>9 DEF CaddyStep, CaddyFault, HostCrash, jobVars
  <2> QED
    BY <2>1, <2>2, <2>3, <2>4, <2>5, <2>6, <2>7, <2>8, <2>9
       DEF Next, WorkerStep, HandlerStep, FaultStep
<1> QED
  BY <1>1, Invariance, PTL DEF Safety, AuditReserved

-----------------------------------------------------------------------------

(***************************************************************************)
(* Proofs about what a transition does to the host, for every set of jobs  *)
(* and tenants and every bound: what Caddy serves exists, the active       *)
(* reference stays within what the records authorize, no interrupted       *)
(* transition is refused by its own replay, retention is settled between   *)
(* transitions, and the pipeline implements AtomicPublication.             *)
(*                                                                         *)
(* None of these is inductive: the records of the transition's tenant run  *)
(* through a fixed order of writes, any prefix of which a crash may leave, *)
(* and how far they are is known to the worker by its program counter.  So *)
(* the invariant has a part for hosts without an intent (QuietInv), one    *)
(* for the durable progress of the intent (BoundInv, ProgressInv, ServingInv *)
(* and OthersInv) and one for what each worker has established (KnownInv). *)
(***************************************************************************)

\* A tenant that no transition is about: what it retains is what is published,
\* it has observed what it desires, and that is the newest it retains.
Settled(t) ==
    /\ releases[t] = deployments[t]
    /\ Cardinality(deployments[t]) <= MaxRetained
    /\ desired[t] \in deployments[t] \cup {0}
    /\ observed[t].dep = desired[t]
    /\ \A d \in deployments[t] : d <= desired[t]

\* Identities in use have been drawn.
IdsInv ==
    /\ \A t \in Tenants : /\ observed[t].gen <= ids
                          /\ \A d \in deployments[t] : d >= 1 /\ d <= ids
    /\ \A g \in DOMAIN gens : g <= ids

\* A host without an intent.
QuietInv ==
    intent = None => /\ \A t \in Tenants : Settled(t)
                     /\ gens[active] = observed
                     /\ running \in {active, None}

\* The history of the intent's tenant when it was dispatched.
Dispatched(i) == jobs[i.job].history[i.tenant]

\* The intent i is the one its job was dispatched for.
BoundInv(i) ==
    LET job == jobs[i.job]
    IN  /\ job.tenant = i.tenant /\ job.op = i.op /\ job.source = i.src.dep
        /\ job.bound /\ job.srcGen = i.srcGen /\ job.srcObs = i.src
        /\ i.src.dep \in Dispatched(i) \cup {0}
        /\ \A d \in Dispatched(i) : d >= 1 /\ d <= i.src.dep
        /\ IF i.op = "rollback" THEN i.dep \in Dispatched(i) /\ i.dep = job.target
                                ELSE i.dep > i.src.dep
        /\ i.src.gen < i.candGen /\ i.srcGen # i.candGen
        /\ i.src.dep <= ids /\ i.dep <= ids /\ i.candGen <= ids

\* How far the records of the intent's tenant are: untouched, with the new
\* deployment recorded, with it desired, and observed with the old ones going.
Untouched(i) ==
    /\ desired[i.tenant] = i.src.dep /\ observed[i.tenant] = i.src
    /\ deployments[i.tenant] = Dispatched(i)
    /\ Dispatched(i) \subseteq releases[i.tenant]
    /\ releases[i.tenant] \subseteq TransitionHistory(i)

AllKept(i) ==
    /\ deployments[i.tenant] = TransitionHistory(i)
    /\ releases[i.tenant] = TransitionHistory(i)

Recorded(i) == AllKept(i) /\ desired[i.tenant] = i.src.dep /\ observed[i.tenant] = i.src

Desired(i) == AllKept(i) /\ desired[i.tenant] = i.dep /\ observed[i.tenant] = i.src

Served(i) ==
    /\ desired[i.tenant] = i.dep /\ observed[i.tenant] = CandidateObserved(i)
    /\ TerminalHistory(i) \subseteq releases[i.tenant]
    /\ releases[i.tenant] \subseteq deployments[i.tenant]
    /\ deployments[i.tenant] \subseteq TransitionHistory(i)
    /\ deployments[i.tenant] = TransitionHistory(i) \/ releases[i.tenant] = TerminalHistory(i)

ReleasesRetired(i) == Served(i) /\ releases[i.tenant] = TerminalHistory(i)
Retained(i) == ReleasesRetired(i) /\ deployments[i.tenant] = TerminalHistory(i)

ProgressInv(i) ==
    /\ Untouched(i) \/ Recorded(i) \/ Desired(i) \/ Served(i)
    /\ i.dep \in releases[i.tenant] \/ (i.op = "deploy" /\ i.dep \in staged)
    /\ InChain(audit, i.job) => audit[Len(audit)] = i.job

\* What is selected and what runs; once the source's release is gone there is
\* no way back.
ServingInv(i) ==
    /\ i.srcGen \in DOMAIN gens
    /\ gens[i.srcGen] = [observed EXCEPT ![i.tenant] = i.src]
    /\ i.candGen \in DOMAIN gens =>
          /\ gens[i.candGen] = [observed EXCEPT ![i.tenant] = CandidateObserved(i)]
          /\ i.dep \in releases[i.tenant]
    /\ active \in {i.srcGen, i.candGen} /\ running \in {i.srcGen, i.candGen, None}
    /\ running \in DOMAIN gens \cup {None}
    /\ ~SourceReleasePresent(i) => active = i.candGen /\ running # i.srcGen

OthersInv(i) == \A t \in Tenants \ {i.tenant} : Settled(t)

\* What the records of job j say, whatever its worker does.
RecordInv(j) ==
    /\ jobs[j].phase \in {"claimed", "completed"} => jobs[j].bound
    /\ InChain(audit, j) => results[j] # "none" \/ (intent # None /\ intent.job = j)

FreshLabels == {"idle", "start", "bind", "claim", "dispatch", "classify", "prepare", "bindRuntime", "stage", "intent"}
RestoringLabels == {"verifySource", "select", "reload", "restoreSelect", "restoreLoad"}

\* What the worker of job j has established.
KnownInv(j) ==
    LET pc == worker[j].pc
        t == jobs[j].tenant
    IN  /\ pc \in FreshLabels => worker[j].permitted
        /\ pc = "bind" => ~jobs[j].bound
        /\ pc = "claim" => jobs[j].bound
        /\ pc \in BindLabels => /\ jobs[j].source = desired[t] /\ jobs[j].history = deployments
                                /\ (jobs[j].op = "rollback" => jobs[j].target \in deployments[t])
        /\ pc \in {"stage", "intent"} => jobs[j].srcGen = active /\ jobs[j].srcObs = observed[t]
        /\ pc = "intent" /\ jobs[j].op = "deploy" => ids + 1 \in staged
        /\ pc = "activate" => intent # None /\ intent.job = j
        /\ pc \in {"release", "prune", "publish", "activate"} \cup PairLabels =>
              (worker[j].permitted <=> SourceReleasePresent(intent))
        /\ pc \in {"prune", "publish"} => intent.candGen \notin DOMAIN gens
        /\ pc \in {"prune", "publish", "activate", "deployment"} \cup PairLabels => intent.dep \in releases[intent.tenant]
        /\ pc = "activate" => intent.candGen \in DOMAIN gens
        /\ pc \in RestoringLabels => worker[j].permitted
        /\ pc \in {"reload", "verifyCandidate"} \cup CommitLabels => active = intent.candGen
        /\ pc \in CommitLabels => running # intent.srcGen
        /\ pc = "desired" => AllKept(intent) \/ Served(intent)
        /\ pc = "observed" => Desired(intent) \/ Served(intent)
        /\ pc = "retireReleases" => Served(intent)
        /\ pc = "retireRecords" => ReleasesRetired(intent)
        /\ pc \in {"audit", "result", "job", "removeIntent"} => Retained(intent)

TransitionInv(i) == BoundInv(i) /\ ProgressInv(i) /\ ServingInv(i) /\ OthersInv(i)

\* The durable part of the invariant: everything but the workers.
DurableInv == IdsInv /\ QuietInv /\ (intent # None => TransitionInv(intent))

PublicationInv == DurableInv /\ (\A j \in Jobs : RecordInv(j) /\ KnownInv(j))

-----------------------------------------------------------------------------
(* Sets of identities. *)

\* Every set of identities has a least one.
LEMMA Least ==
    ASSUME NEW S \in SUBSET Nat, S # {}
    PROVE  \E m \in S : \A d \in S : m <= d
<1> DEFINE R == OpToRel(<, Nat)
<1>1. IsWellFoundedOn(R, Nat)
  BY NatLessThanWellFounded
<1>2. \A x, y \in Nat : x < y => <<x, y>> \in R
  BY DEF OpToRel
<1> HIDE DEF R
<1>3. PICK m \in S : \A y \in S : ~(<<y, m>> \in R)
  BY <1>1, WFMin
<1>4. ASSUME NEW d \in S
      PROVE  m <= d
  <2>1. ~(d < m)
    BY <1>2, <1>3
  <2>2. d \in Nat /\ m \in Nat
    OBVIOUS
  <2> QED
    BY <2>1, <2>2
<1> QED
  BY <1>4

\* The newest MaxRetained members of H that are not above d.
Newest(H, d) ==
    {x \in H : x <= d /\ Cardinality({e \in H : x < e /\ e <= d}) < MaxRetained}

\* What those are: d, nothing above it, at most MaxRetained of them.
LEMMA NewestFacts ==
    ASSUME NEW H \in SUBSET Nat, NEW d \in H
    PROVE  /\ Newest(H, d) \subseteq H
           /\ d \in Newest(H, d)
           /\ \A x \in Newest(H, d) : x <= d
           /\ Cardinality(Newest(H, d)) <= MaxRetained
<1> DEFINE T == Newest(H, d)
           Above(x) == {e \in H : x < e /\ e <= d}
<1>1. T = {x \in H : x <= d /\ Cardinality(Above(x)) < MaxRetained}
  BY DEF Newest
<1>2. MaxRetained \in Nat /\ MaxRetained >= 2
  BY BoundsAssumption
<1> HIDE DEF T
<1>3. d \in T
  <2>1. \A e \in H : ~(d < e /\ e <= d)
    OBVIOUS
  <2>2. Above(d) = {}
    BY <2>1
  <2>3. Cardinality(Above(d)) = 0
    BY <2>2, FS_EmptySet
  <2> QED
    BY <1>1, <1>2, <2>3
<1>4. Cardinality(T) <= MaxRetained
  <2>1. T \in SUBSET Nat /\ T # {}
    BY <1>1, <1>3
  <2>2. PICK m \in T : \A x \in T : m <= x
    BY <2>1, Least
  <2>3. m \in Nat
    BY <2>1
  <2> DEFINE N == Above(m)
  <2>4. N \in SUBSET Nat /\ \A x \in N : x <= d
    OBVIOUS
  <2>5. \A x \in T : x \in N \/ x = m
    <3>1. \A x \in Nat : m <= x => m < x \/ x = m
      BY <2>3
    <3>2. \A x \in T : x \in Nat /\ x \in H /\ x <= d /\ m <= x
      BY <1>1, <2>1, <2>2
    <3> QED
      BY <3>1, <3>2
  <2>6. Cardinality(N) < MaxRetained
    BY <1>1, <2>2
  <2> HIDE DEF N
  <2>7. IsFiniteSet(N)
    BY <2>4, FS_BoundedSetOfNaturals
  <2>8. Cardinality(N) \in Nat
    BY <2>7, FS_CardinalityType
  <2>9. /\ IsFiniteSet(N \cup {m})
        /\ Cardinality(N \cup {m}) \in {Cardinality(N), Cardinality(N) + 1}
    BY <2>7, FS_AddElement
  <2>10. T \in SUBSET (N \cup {m})
    BY <2>5
  <2>11. Cardinality(T) <= Cardinality(N \cup {m}) /\ IsFiniteSet(T)
    BY <2>9, <2>10, FS_Subset
  <2>12. Cardinality(T) \in Nat
    BY <2>11, FS_CardinalityType
  <2> QED
    BY <1>2, <2>6, <2>8, <2>9, <2>11, <2>12
<1>5. T \subseteq H /\ \A x \in T : x <= d
  BY <1>1
<1> QED
  BY <1>3, <1>4, <1>5 DEF T

\* The predecessor of d is retained with it: MaxRetained is at least 2.
LEMMA PredecessorKept ==
    ASSUME NEW H \in SUBSET Nat, NEW d \in Nat, NEW s \in H, s < d, \A x \in H : x <= s
    PROVE  s \in Newest(H \cup {d}, d)
<1> DEFINE G == {e \in H \cup {d} : s < e /\ e <= d}
<1>1. G = {d}
  <2>1. \A e \in H : ~(s < e)
    OBVIOUS
  <2>2. d <= d /\ s < d
    OBVIOUS
  <2>3. \A e : e \in G <=> e = d
    BY <2>1, <2>2
  <2> QED
    BY <2>3
<1>2. Cardinality(G) = 1
  BY <1>1, FS_Singleton
<1>3. Cardinality(G) < MaxRetained /\ s <= d
  BY <1>2, BoundsAssumption
<1> QED
  BY <1>3 DEF Newest

-----------------------------------------------------------------------------
(* The parts of a durable intent and of the histories it is about. *)

\* The types of an intent's parts.
LEMMA IntentTyped ==
    ASSUME HostTypeOK, intent # None
    PROVE  /\ intent.job \in Jobs /\ intent.tenant \in Tenants
           /\ intent.src \in Observed /\ intent.src.dep \in Nat /\ intent.src.gen \in Nat
           /\ intent.dep \in Nat /\ intent.srcGen \in Nat /\ intent.candGen \in Nat
           /\ intent.op \in {"deploy", "rollback"}
           /\ Dispatched(intent) \in SUBSET Nat
<1>1. intent \in IntentRecord
  BY DEF HostTypeOK
<1>2. intent.job \in Jobs /\ intent.tenant \in Tenants /\ intent.src \in Observed
  BY <1>1 DEF IntentRecord
<1>3. intent.dep \in Nat /\ intent.srcGen \in Nat /\ intent.candGen \in Nat
  BY <1>1 DEF IntentRecord, Ids
<1>4. intent.op \in {"deploy", "rollback"}
  BY <1>1 DEF IntentRecord, Operations
<1>5. intent.src.dep \in Nat /\ intent.src.gen \in Nat
  BY <1>2 DEF Observed, Ids
<1>6. jobs[intent.job] \in JobRecord
  BY <1>2 DEF HostTypeOK
<1>7. jobs[intent.job].history \in [Tenants -> SUBSET Nat]
  BY <1>6 DEF JobRecord, Ids
<1> QED
  BY <1>2, <1>3, <1>4, <1>5, <1>7 DEF Dispatched

\* The histories of an intent, in terms of sets.
LEMMA Histories ==
    ASSUME NEW i
    PROVE  /\ TransitionHistory(i) = Dispatched(i) \cup {i.dep}
           /\ TerminalHistory(i) = Newest(TransitionHistory(i), i.dep)
  BY DEF TransitionHistory, Dispatched, TerminalHistory, Newest

\* What a transition retains: its target, nothing newer, at most MaxRetained
\* deployments, and the source of a deployment.
LEMMA TerminalFacts ==
    ASSUME HostTypeOK, intent # None, BoundInv(intent)
    PROVE  /\ TerminalHistory(intent) \subseteq TransitionHistory(intent)
           /\ intent.dep \in TerminalHistory(intent)
           /\ \A d \in TerminalHistory(intent) : d <= intent.dep
           /\ Cardinality(TerminalHistory(intent)) <= MaxRetained
           /\ intent.op # "rollback" => intent.src.dep \in TerminalHistory(intent) \cup {0}
<1> DEFINE D == Dispatched(intent)
           H == TransitionHistory(intent)
           T == TerminalHistory(intent)
<1>1. D \in SUBSET Nat /\ intent.dep \in Nat /\ intent.src.dep \in Nat
  BY IntentTyped
<1>2. H = D \cup {intent.dep} /\ T = Newest(H, intent.dep)
  BY Histories
<1>3. /\ intent.src.dep \in D \cup {0}
      /\ \A d \in D : d <= intent.src.dep
      /\ intent.op # "rollback" => intent.dep > intent.src.dep
  BY DEF BoundInv
<1> HIDE DEF D, H, T
<1>4. H \in SUBSET Nat /\ intent.dep \in H
  BY <1>1, <1>2
<1>5. /\ T \subseteq H /\ intent.dep \in T /\ \A d \in T : d <= intent.dep
      /\ Cardinality(T) <= MaxRetained
  BY <1>2, <1>4, NewestFacts
<1>6. ASSUME intent.op # "rollback", intent.src.dep # 0
      PROVE  intent.src.dep \in T
  <2>1. intent.src.dep \in D /\ intent.src.dep < intent.dep
    BY <1>1, <1>3, <1>6
  <2> QED
    BY <1>1, <1>2, <1>3, <2>1, PredecessorKept
<1> QED
  BY <1>5, <1>6 DEF H, T

\* While the intent and its job's dispatch authority stay, so do the histories.
LEMMA HistoriesKept ==
    ASSUME intent' = intent, jobs'[intent.job].history = jobs[intent.job].history
    PROVE  /\ Dispatched(intent)' = Dispatched(intent)
           /\ TransitionHistory(intent)' = TransitionHistory(intent)
           /\ TerminalHistory(intent)' = TerminalHistory(intent)
           /\ CandidateObserved(intent)' = CandidateObserved(intent)
<1>1. Dispatched(intent)' = Dispatched(intent)
  BY DEF Dispatched
<1>2. /\ TransitionHistory(intent) = Dispatched(intent) \cup {intent.dep}
      /\ TerminalHistory(intent) = Newest(TransitionHistory(intent), intent.dep)
  BY Histories
<1>3. /\ TransitionHistory(intent)' = Dispatched(intent)' \cup {intent'.dep}
      /\ TerminalHistory(intent)' = Newest(TransitionHistory(intent)', intent'.dep)
  BY DEF TransitionHistory, Dispatched, TerminalHistory, Newest
<1>4. CandidateObserved(intent)' = CandidateObserved(intent)
  BY DEF CandidateObserved
<1> QED
  BY <1>1, <1>2, <1>3, <1>4

\* While a source's release is gone the deployment is a rollback that is served.
LEMMA SourceGone ==
    ASSUME HostTypeOK, intent # None, BoundInv(intent), ProgressInv(intent),
           ~SourceReleasePresent(intent)
    PROVE  intent.op = "rollback" /\ Served(intent)
<1>1. /\ intent.src.dep # 0 /\ intent.src.dep \notin releases[intent.tenant]
      /\ intent.src.dep \in Dispatched(intent)
  BY DEF SourceReleasePresent, BoundInv
<1>2. Dispatched(intent) \subseteq TransitionHistory(intent)
  BY Histories
<1>3. Served(intent)
  BY <1>1, <1>2 DEF ProgressInv, Untouched, Recorded, Desired, AllKept
<1>4. intent.op # "rollback" => intent.src.dep \in TerminalHistory(intent) \cup {0}
  BY TerminalFacts
<1> QED
  BY <1>1, <1>3, <1>4 DEF Served

-----------------------------------------------------------------------------
(* Steps that leave the host's records alone. *)

\* What an intent is bound to stays in the record of job k.
BindingKept(k) ==
    /\ jobs'[k].tenant = jobs[k].tenant /\ jobs'[k].op = jobs[k].op
    /\ jobs'[k].source = jobs[k].source /\ jobs'[k].target = jobs[k].target
    /\ jobs'[k].bound = jobs[k].bound /\ jobs'[k].history = jobs[k].history
    /\ jobs'[k].srcGen = jobs[k].srcGen /\ jobs'[k].srcObs = jobs[k].srcObs

\* A tenant whose records and releases stay is settled as before.
LEMMA SettledKept ==
    ASSUME NEW t \in Tenants, Settled(t),
           releases'[t] = releases[t], deployments'[t] = deployments[t],
           desired'[t] = desired[t], observed'[t] = observed[t]
    PROVE  Settled(t)'
  BY DEF Settled

\* A binding that is kept is still the intent's.
LEMMA BoundKept ==
    ASSUME intent # None, BoundInv(intent), intent' = intent, BindingKept(intent.job), ids' = ids
    PROVE  BoundInv(intent)'
<1>1. Dispatched(intent)' = Dispatched(intent)
  BY HistoriesKept DEF BindingKept
<1> QED
  BY <1>1 DEF BoundInv, BindingKept

\* Progress is a matter of the tenant's records and releases, the staged
\* release and the audit chain.
LEMMA ProgressKept ==
    ASSUME intent # None, ProgressInv(intent), intent' = intent, BindingKept(intent.job),
           UNCHANGED <<tenantVars, releases>>, audit' = audit,
           intent.dep \in staged => intent.dep \in staged'
    PROVE  ProgressInv(intent)'
<1>1. /\ Dispatched(intent)' = Dispatched(intent)
      /\ TransitionHistory(intent)' = TransitionHistory(intent)
      /\ TerminalHistory(intent)' = TerminalHistory(intent)
      /\ CandidateObserved(intent)' = CandidateObserved(intent)
  BY HistoriesKept DEF BindingKept
<1>2. (Untouched(intent) \/ Recorded(intent) \/ Desired(intent) \/ Served(intent))'
  <2>1. Untouched(intent) => Untouched(intent)'
    BY <1>1 DEF Untouched, tenantVars
  <2>2. Recorded(intent) => Recorded(intent)'
    BY <1>1 DEF Recorded, AllKept, tenantVars
  <2>3. Desired(intent) => Desired(intent)'
    BY <1>1 DEF Desired, AllKept, tenantVars
  <2>4. Served(intent) => Served(intent)'
    BY <1>1 DEF Served, tenantVars
  <2> QED
    BY <2>1, <2>2, <2>3, <2>4 DEF ProgressInv
<1>3. (intent.dep \in releases[intent.tenant] \/ (intent.op = "deploy" /\ intent.dep \in staged))'
  BY DEF ProgressInv
<1>4. (InChain(audit, intent.job) => audit[Len(audit)] = intent.job)'
  BY DEF ProgressInv
<1> QED
  BY <1>2, <1>3, <1>4 DEF ProgressInv

\* Selecting or loading a generation of the transition is always possible while
\* the source's release exists, and otherwise the candidate stays.
LEMMA ServingKept ==
    ASSUME HostTypeOK, intent # None, ServingInv(intent), intent' = intent,
           UNCHANGED <<tenantVars, releases, gens>>,
           active' \in {intent.srcGen, intent.candGen},
           running' \in {intent.srcGen, intent.candGen, None},
           running' \in DOMAIN gens \cup {None},
           SourceReleasePresent(intent) \/ (active' = intent.candGen /\ running' # intent.srcGen)
    PROVE  ServingInv(intent)'
<1>1. CandidateObserved(intent)' = CandidateObserved(intent)
  BY DEF CandidateObserved
<1>2. SourceReleasePresent(intent)' <=> SourceReleasePresent(intent)
  BY DEF SourceReleasePresent
<1> QED
  BY <1>1, <1>2 DEF ServingInv, tenantVars

\* A step that touches neither records nor releases keeps the durable part.
LEMMA DurableKept ==
    ASSUME IndInv, DurableInv,
           UNCHANGED <<intent, tenantVars, releases, gens, ids>>,
           intent = None => active' = active /\ running' \in {running, None, active},
           intent # None =>
              /\ audit' = audit /\ staged' = staged /\ BindingKept(intent.job)
              /\ active' \in {intent.srcGen, intent.candGen}
              /\ running' \in {intent.srcGen, intent.candGen, None}
              /\ running' \in DOMAIN gens \cup {None}
              /\ SourceReleasePresent(intent) \/ (active' = intent.candGen /\ running' # intent.srcGen)
    PROVE  DurableInv'
<1>1. IdsInv'
  BY DEF DurableInv, IdsInv, tenantVars
<1>2. \A t \in Tenants : Settled(t) => Settled(t)'
  BY SettledKept DEF tenantVars
<1>3. QuietInv'
  BY <1>2 DEF DurableInv, QuietInv, tenantVars
<1>4. ASSUME intent # None
      PROVE  TransitionInv(intent)'
  <2>1. BoundInv(intent) /\ ProgressInv(intent) /\ ServingInv(intent) /\ OthersInv(intent)
    BY <1>4 DEF DurableInv, TransitionInv
  <2>2. BoundInv(intent)'
    BY <1>4, <2>1, BoundKept
  <2>3. ProgressInv(intent)'
    BY <1>4, <2>1, ProgressKept
  <2>4. ServingInv(intent)'
    BY <1>4, <2>1, ServingKept DEF IndInv
  <2>5. OthersInv(intent)'
    BY <1>2, <2>1 DEF OthersInv
  <2> QED
    BY <2>2, <2>3, <2>4, <2>5 DEF TransitionInv
<1> QED
  BY <1>1, <1>3, <1>4 DEF DurableInv

\* The same for a step that selects nothing; Caddy may stop or start what is
\* active.
LEMMA QuietStep ==
    ASSUME IndInv, DurableInv,
           UNCHANGED <<intent, tenantVars, releases, gens, ids, active>>,
           running' \in {running, None, active},
           intent # None => audit' = audit /\ staged' = staged /\ BindingKept(intent.job)
    PROVE  DurableInv'
<1>1. active \in DOMAIN gens
  BY DEF IndInv, HostInv
<1>2. ASSUME intent # None
      PROVE  /\ active \in {intent.srcGen, intent.candGen}
             /\ running' \in {intent.srcGen, intent.candGen, None}
             /\ running' \in DOMAIN gens \cup {None}
             /\ SourceReleasePresent(intent) \/ (active = intent.candGen /\ running' # intent.srcGen)
  <2>1. ServingInv(intent) /\ intent.srcGen # intent.candGen /\ None # intent.srcGen
    BY <1>2, IntentTyped, NoneAssumption DEF DurableInv, TransitionInv, BoundInv, IndInv, Ids
  <2> QED
    BY <1>1, <2>1 DEF ServingInv
<1> QED
  BY <1>2, DurableKept

-----------------------------------------------------------------------------
(* What the workers know. *)

\* A step of the worker of j, taken while no other worker holds the lock and
\* without touching another job's transition, leaves what the others know.
LEMMA OthersKnown ==
    ASSUME IndInv, PublicationInv, NEW j \in Jobs, lock \in {None, j},
           \A k \in Jobs \ {j} : /\ worker'[k] = worker[k] /\ jobs'[k] = jobs[k]
                                 /\ results'[k] = results[k]
                                 /\ (InChain(audit', k) => InChain(audit, k)),
           intent = None \/ intent.job = j \/ UNCHANGED <<intent, releases, gens>>
    PROVE  \A k \in Jobs \ {j} : RecordInv(k)' /\ KnownInv(k)'
<1>1. SUFFICES ASSUME NEW k \in Jobs \ {j}
               PROVE  RecordInv(k)' /\ KnownInv(k)'
  OBVIOUS
<1>2. WorkerInv(k) /\ RecordInv(k) /\ KnownInv(k)
  BY DEF IndInv, PublicationInv
<1>3. None # k
  BY ActorsAssumption
<1>4. worker[k].pc \notin LockedLabels
  BY <1>2, <1>3 DEF WorkerInv
<1>5. RecordInv(k)'
  BY <1>2 DEF RecordInv
<1>6. worker[k].pc = "activate" => intent # None /\ intent.job = k
  BY <1>2 DEF KnownInv
<1>7. CASE worker[k].pc = "activate"
  <2>1. intent' = intent /\ gens' = gens /\ releases' = releases
    BY <1>6, <1>7
  <2>2. SourceReleasePresent(intent)' <=> SourceReleasePresent(intent)
    BY <2>1 DEF SourceReleasePresent
  <2>3. KnownInv(k)'
    BY <1>2, <1>6, <1>7, <2>1, <2>2
       DEF KnownInv, FreshLabels, BindLabels, PairLabels, RestoringLabels, CommitLabels
  <2> QED
    BY <1>5, <2>3
<1>8. CASE worker[k].pc # "activate"
  <2>1. KnownInv(k)'
    BY <1>2, <1>4, <1>8 DEF KnownInv, FreshLabels, LockedLabels, FailLabels, BindLabels, OwnerLabels,
       PairLabels, RestoringLabels, CommitLabels
  <2> QED
    BY <1>5, <2>1
<1> QED
  BY <1>7, <1>8

\* A step that leaves the records of the host, but for a Caddy that stops, also
\* leaves what a worker knows that it does not move.
LEMMA BystanderKnown ==
    ASSUME PublicationInv, HostTypeOK, NEW k \in Jobs,
           UNCHANGED <<jobVars, intent, tenantVars, releaseVars, gens, active, ids>>,
           worker'[k] = worker[k],
           running' \in {running, None} \/ worker[k].pc \notin CommitLabels,
           worker[k].pc \in OwnerLabels => intent # None
    PROVE  RecordInv(k)' /\ KnownInv(k)'
<1>1. RecordInv(k) /\ KnownInv(k)
  BY DEF PublicationInv
<1>2. RecordInv(k)'
  BY <1>1 DEF RecordInv, jobVars
<1>3. /\ TransitionHistory(intent)' = TransitionHistory(intent)
      /\ TerminalHistory(intent)' = TerminalHistory(intent)
      /\ CandidateObserved(intent)' = CandidateObserved(intent)
  BY HistoriesKept DEF jobVars
<1>4. SourceReleasePresent(intent)' <=> SourceReleasePresent(intent)
  BY DEF SourceReleasePresent, releaseVars
<1>5. AllKept(intent)' <=> AllKept(intent)
  BY <1>3 DEF AllKept, tenantVars, releaseVars
<1>6. Desired(intent)' <=> Desired(intent)
  BY <1>5 DEF Desired, tenantVars
<1>7. Served(intent)' <=> Served(intent)
  BY <1>3 DEF Served, tenantVars, releaseVars
<1>8. ReleasesRetired(intent)' <=> ReleasesRetired(intent)
  BY <1>3, <1>7 DEF ReleasesRetired, releaseVars
<1>9. Retained(intent)' <=> Retained(intent)
  BY <1>3, <1>8 DEF Retained, tenantVars
<1>10. worker[k].pc \in CommitLabels => running' # intent.srcGen
  <2>1. ASSUME worker[k].pc \in CommitLabels
        PROVE  running' # intent.srcGen
    <3>1. intent # None
      BY <2>1 DEF OwnerLabels, PairLabels, CommitLabels
    <3>2. None # intent.srcGen
      BY <3>1, IntentTyped, NoneAssumption DEF Ids
    <3> QED
      BY <1>1, <2>1, <3>2 DEF KnownInv
  <2> QED
    BY <2>1
<1>11. KnownInv(k)'
  BY <1>1, <1>4, <1>5, <1>6, <1>7, <1>8, <1>9, <1>10 DEF KnownInv, jobVars, tenantVars, releaseVars
<1> QED
  BY <1>2, <1>11

\* Outside the lock a worker knows that it may restore, if it has not begun.
LEMMA FreeKnown ==
    ASSUME NEW j \in Jobs,
           \/ worker'[j].pc \in {"reject", "validate", "mark", "recover"} \cup FailLabels
           \/ worker'[j].pc \in {"idle", "start", "dispatch", "classify", "prepare"} /\ worker'[j].permitted
    PROVE  KnownInv(j)'
  BY DEF KnownInv, FreshLabels, FailLabels, BindLabels, PairLabels, RestoringLabels, CommitLabels

\* A step of one worker keeps the invariant when it keeps the durable part, its
\* own records and what it knows itself.
LEMMA OneWorker ==
    ASSUME IndInv, PublicationInv, DurableInv', NEW j \in Jobs, lock \in {None, j},
           \A k \in Jobs \ {j} : /\ worker'[k] = worker[k] /\ jobs'[k] = jobs[k]
                                 /\ results'[k] = results[k]
                                 /\ (InChain(audit', k) => InChain(audit, k)),
           intent = None \/ intent.job = j \/ UNCHANGED <<intent, releases, gens>>,
           RecordInv(j)', KnownInv(j)'
    PROVE  PublicationInv'
<1>1. \A k \in Jobs \ {j} : RecordInv(k)' /\ KnownInv(k)'
  BY OthersKnown
<1> QED
  BY <1>1 DEF PublicationInv

\* A step that only moves a worker.
LEMMA OnlyMoves ==
    ASSUME IndInv, PublicationInv, NEW j \in Jobs, lock \in {None, j},
           UNCHANGED <<jobVars, intent, tenantVars, releases, caddyVars, ids>>,
           intent = None \/ staged' = staged,
           \A k \in Jobs \ {j} : worker'[k] = worker[k],
           KnownInv(j)'
    PROVE  PublicationInv'
<1>1. DurableInv /\ RecordInv(j)
  BY DEF PublicationInv
<1>2. DurableInv'
  <2>1. BindingKept(intent.job)
    BY DEF BindingKept, jobVars
  <2>2. audit' = audit /\ gens' = gens /\ active' = active /\ running' = running
    BY DEF jobVars, caddyVars, unitVars
  <2> QED
    BY <1>1, <2>1, <2>2, QuietStep
<1>3. RecordInv(j)'
  BY <1>1 DEF RecordInv, jobVars
<1> QED
  BY <1>2, <1>3, OneWorker DEF jobVars, caddyVars

-----------------------------------------------------------------------------
(* Control flow and job records, again: what stays. *)

\* A jump keeps the restoration permission.
LEMMA MovedPermit ==
    ASSUME worker \in [Jobs -> WorkerRecord], NEW j \in Jobs, NEW label \in Labels, Goto(j, label)
    PROVE  /\ worker'[j].pc = label /\ worker'[j].permitted = worker[j].permitted
           /\ \A k \in Jobs \ {j} : worker'[k] = worker[k]
<1>1. \A w \in WorkerRecord : [w EXCEPT !.pc = label].permitted = w.permitted
  BY DEF WorkerRecord
<1>2. worker' = [worker EXCEPT ![j] = [worker[j] EXCEPT !.pc = label]]
  BY DEF Goto
<1> QED
  BY <1>1, <1>2, Moved

\* A stopped worker may restore when it starts again.
LEMMA StoppedPermit ==
    ASSUME worker \in [Jobs -> WorkerRecord], NEW j \in Jobs, Stop(j)
    PROVE  /\ worker'[j].pc = "idle" /\ worker'[j].permitted
           /\ \A k \in Jobs \ {j} : worker'[k] = worker[k]
<1>1. IdleWorker.permitted
  BY DEF IdleWorker
<1> QED
  BY <1>1, IdleType DEF Stop

\* A retried worker may restore.
LEMMA RetriedPermit ==
    ASSUME worker \in [Jobs -> WorkerRecord], NEW j \in Jobs, RetryOnce(j)
    PROVE  /\ worker'[j].pc \in {"idle", "classify"} /\ worker'[j].permitted
           /\ \A k \in Jobs \ {j} : worker'[k] = worker[k]
<1> DEFINE again == [pc |-> "classify", permitted |-> TRUE, retried |-> TRUE]
<1>1. again.permitted /\ IdleWorker.permitted
  BY DEF IdleWorker
<1> HIDE DEF again
<1>2. \/ worker' = [worker EXCEPT ![j] = IdleWorker]
      \/ worker' = [worker EXCEPT ![j] = again]
  BY DEF RetryOnce, again
<1> QED
  BY <1>1, <1>2, Retried

\* A worker that stops or retries knows what it needs.
LEMMA EndedKnown ==
    ASSUME worker \in [Jobs -> WorkerRecord], NEW j \in Jobs, Stop(j) \/ RetryOnce(j)
    PROVE  KnownInv(j)' /\ \A k \in Jobs \ {j} : worker'[k] = worker[k]
  BY StoppedPermit, RetriedPermit, FreeKnown

\* A new phase or a validation marker leaves the binding of a job.
LEMMA PhaseBinding ==
    ASSUME jobs \in [Jobs -> JobRecord], NEW j \in Jobs, NEW p,
           \/ jobs' = [jobs EXCEPT ![j].phase = p]
           \/ jobs' = [jobs EXCEPT ![j].validated = p]
    PROVE  \A k \in Jobs : BindingKept(k)
<1>1. ASSUME NEW r \in JobRecord, NEW q, q = [r EXCEPT !.phase = p] \/ q = [r EXCEPT !.validated = p]
      PROVE  /\ q.tenant = r.tenant /\ q.op = r.op /\ q.source = r.source /\ q.target = r.target
             /\ q.bound = r.bound /\ q.history = r.history /\ q.srcGen = r.srcGen /\ q.srcObs = r.srcObs
  BY <1>1 DEF JobRecord
<1>2. \/ jobs' = [jobs EXCEPT ![j] = [jobs[j] EXCEPT !.phase = p]]
      \/ jobs' = [jobs EXCEPT ![j] = [jobs[j] EXCEPT !.validated = p]]
  OBVIOUS
<1>3. PICK q : /\ jobs' = [jobs EXCEPT ![j] = q]
               /\ q = [jobs[j] EXCEPT !.phase = p] \/ q = [jobs[j] EXCEPT !.validated = p]
  BY <1>2
<1>4. /\ q.tenant = jobs[j].tenant /\ q.op = jobs[j].op /\ q.source = jobs[j].source
      /\ q.target = jobs[j].target /\ q.bound = jobs[j].bound /\ q.history = jobs[j].history
      /\ q.srcGen = jobs[j].srcGen /\ q.srcObs = jobs[j].srcObs
  BY <1>1, <1>3
<1> QED
  BY <1>3, <1>4 DEF BindingKept

\* Binding dispatch authority, field by field.
LEMMA HistoryBinding ==
    ASSUME jobs \in [Jobs -> JobRecord], NEW j \in Jobs, NEW h,
           jobs' = [jobs EXCEPT ![j].bound = TRUE, ![j].history = h]
    PROVE  jobs'[j].bound /\ jobs'[j].phase = jobs[j].phase
<1>1. ASSUME NEW r \in JobRecord, NEW q, q = [r EXCEPT !.bound = TRUE, !.history = h]
      PROVE  q.bound = TRUE /\ q.phase = r.phase
  BY <1>1 DEF JobRecord
<1> DEFINE new == [jobs[j] EXCEPT !.bound = TRUE, !.history = h]
<1>2. jobs' = [jobs EXCEPT ![j] = new]
  OBVIOUS
<1>3. new.bound = TRUE /\ new.phase = jobs[j].phase
  BY <1>1
<1> HIDE DEF new
<1> QED
  BY <1>2, <1>3

\* Binding the source runtime, field by field.
LEMMA RuntimeBinding ==
    ASSUME jobs \in [Jobs -> JobRecord], NEW j \in Jobs, NEW g, NEW o,
           jobs' = [jobs EXCEPT ![j].srcGen = g, ![j].srcObs = o]
    PROVE  /\ jobs'[j].srcGen = g /\ jobs'[j].srcObs = o /\ jobs'[j].phase = jobs[j].phase
           /\ jobs'[j].tenant = jobs[j].tenant /\ jobs'[j].op = jobs[j].op
           /\ jobs'[j].source = jobs[j].source /\ jobs'[j].target = jobs[j].target
           /\ jobs'[j].bound = jobs[j].bound /\ jobs'[j].history = jobs[j].history
<1>1. ASSUME NEW r \in JobRecord, NEW q, q = [r EXCEPT !.srcGen = g, !.srcObs = o]
      PROVE  /\ q.srcGen = g /\ q.srcObs = o /\ q.phase = r.phase /\ q.tenant = r.tenant
             /\ q.op = r.op /\ q.source = r.source /\ q.target = r.target
             /\ q.bound = r.bound /\ q.history = r.history
  BY <1>1 DEF JobRecord
<1> DEFINE new == [jobs[j] EXCEPT !.srcGen = g, !.srcObs = o]
<1>2. jobs' = [jobs EXCEPT ![j] = new]
  OBVIOUS
<1>3. /\ new.srcGen = g /\ new.srcObs = o /\ new.phase = jobs[j].phase /\ new.tenant = jobs[j].tenant
      /\ new.op = jobs[j].op /\ new.source = jobs[j].source /\ new.target = jobs[j].target
      /\ new.bound = jobs[j].bound /\ new.history = jobs[j].history
  BY <1>1
<1> HIDE DEF new
<1> QED
  BY <1>2, <1>3

-----------------------------------------------------------------------------
(* The executor's steps. *)

\* A step that changes records of job j but nothing an intent is bound to.
LEMMA OwnRecords ==
    ASSUME IndInv, PublicationInv, NEW j \in Jobs, lock \in {None, j},
           UNCHANGED <<intent, tenantVars, releases, caddyVars, ids>>,
           intent = None \/ (staged' = staged /\ audit' = audit /\ BindingKept(j)),
           \A k \in Jobs \ {j} : /\ worker'[k] = worker[k] /\ jobs'[k] = jobs[k]
                                 /\ results'[k] = results[k]
                                 /\ (InChain(audit', k) => InChain(audit, k)),
           RecordInv(j)', KnownInv(j)'
    PROVE  PublicationInv'
<1>1. DurableInv
  BY DEF PublicationInv
<1>2. gens' = gens /\ active' = active /\ running' = running
  BY DEF caddyVars, unitVars
<1>3. intent # None => BindingKept(intent.job)
  <2>1. intent # None => intent.job \in Jobs
    BY IntentTyped DEF IndInv
  <2> QED
    BY <2>1 DEF BindingKept
<1>4. DurableInv'
  BY <1>1, <1>2, <1>3, QuietStep
<1> QED
  BY <1>2, <1>4, OneWorker

\* An appended entry is the only new one.
LEMMA OnlyAppended ==
    ASSUME NEW a \in Seq(Jobs), NEW j \in Jobs, NEW b,
           b = IF InChain(a, j) THEN a ELSE Append(a, j)
    PROVE  \A k \in Jobs \ {j} : InChain(b, k) => InChain(a, k)
<1>1. CASE ~InChain(a, j)
  <2>1. /\ Len(b) = Len(a) + 1 /\ b[Len(a) + 1] = j /\ Len(a) \in Nat
        /\ \A n \in 1..Len(a) : b[n] = a[n]
    BY <1>1
  <2> QED
    BY <2>1 DEF InChain
<1> QED
  BY <1>1

\* A step of the executor preserves the invariant.
LEMMA ExecutorKeeps ==
    ASSUME IndInv, PublicationInv, NEW j \in Jobs, ExecutorStep(j)
    PROVE  PublicationInv'
<1> USE DEF At, Holds, Unlocked
<1>1. WorkerInv(j) /\ JobInv(j) /\ RecordInv(j) /\ KnownInv(j) /\ HostInv /\ DurableInv
  BY DEF IndInv, PublicationInv
<1>2. /\ worker \in [Jobs -> WorkerRecord] /\ jobs \in [Jobs -> JobRecord]
      /\ results \in [Jobs -> {"none", "succeeded", "failed"}] /\ audit \in Seq(Jobs)
  BY DEF IndInv, HostTypeOK
<1>3. None # j
  BY ActorsAssumption
<1>4. worker[j].pc \in FreshLabels => worker[j].permitted
  BY <1>1 DEF KnownInv
<1>5. ASSUME UNCHANGED <<jobVars, intent, tenantVars, releaseVars, caddyVars, ids>>,
             lock \in {None, j}, \A k \in Jobs \ {j} : worker'[k] = worker[k], KnownInv(j)'
      PROVE  PublicationInv'
  BY <1>5, OnlyMoves DEF releaseVars
<1>6. CASE ReplayExisting(j)
  <2>1. PICK label \in {"dispatch", "replayAudit", "validate"} : Goto(j, label)
    BY <1>6 DEF ReplayExisting
  <2>2. /\ worker'[j].pc = label /\ worker'[j].permitted = worker[j].permitted
        /\ \A k \in Jobs \ {j} : worker'[k] = worker[k]
    BY <1>2, <2>1, MovedPermit DEF Labels, ExecutorLabels
  <2>3. worker[j].permitted
    BY <1>4, <1>6 DEF ReplayExisting, FreshLabels
  <2>4. KnownInv(j)'
    BY <2>2, <2>3, FreeKnown DEF FailLabels
  <2> QED
    BY <1>5, <1>6, <2>2, <2>4 DEF ReplayExisting
<1>7. CASE ExecuteWithClaim(j)
  <2>1. PICK label \in {"failResult", "claim", "bind"} :
            Goto(j, label) /\ (label = "claim" => jobs[j].bound) /\ (label = "bind" => ~jobs[j].bound)
    BY <1>7 DEF ExecuteWithClaim
  <2>2. /\ worker'[j].pc = label /\ worker'[j].permitted = worker[j].permitted
        /\ \A k \in Jobs \ {j} : worker'[k] = worker[k]
    BY <1>2, <2>1, MovedPermit DEF Labels, ExecutorLabels
  <2>3. worker[j].permitted /\ jobs' = jobs
    BY <1>4, <1>7 DEF ExecuteWithClaim, FreshLabels, jobVars
  <2>4. KnownInv(j)'
    BY <2>1, <2>2, <2>3 DEF KnownInv, FreshLabels, FailLabels, BindLabels, PairLabels, RestoringLabels, CommitLabels
  <2> QED
    BY <1>5, <1>7, <2>2, <2>4 DEF ExecuteWithClaim
<1>8. CASE Busy(j)
  BY <1>2, <1>5, <1>8, EndedKnown DEF Busy
<1>9. CASE ExecuteHandler(j)
  <2>1. worker'[j].pc = "classify" /\ worker'[j].permitted /\ \A k \in Jobs \ {j} : worker'[k] = worker[k]
    BY <1>2, <1>4, <1>9, MovedPermit DEF ExecuteHandler, FreshLabels, Labels, PrepareLabels
  <2> QED
    BY <1>5, <1>9, <2>1, FreeKnown DEF ExecuteHandler
<1>10. CASE FailRejected(j)
  <2>1. CASE OwnsIntent(j)
    BY <1>2, <1>5, <1>10, <2>1, EndedKnown DEF FailRejected
  <2>2. CASE ~OwnsIntent(j)
    <3>1. worker'[j].pc = "failResult" /\ \A k \in Jobs \ {j} : worker'[k] = worker[k]
      BY <1>2, <1>10, <2>2, MovedPermit DEF FailRejected, Labels, ExecutorLabels
    <3> QED
      BY <1>5, <1>10, <3>1, FreeKnown DEF FailRejected, FailLabels
  <2> QED
    BY <2>1, <2>2
<1>11. CASE ValidateTerminalState(j)
  <2>1. CASE Stop(j)
    BY <1>2, <1>5, <1>11, <2>1, EndedKnown DEF ValidateTerminalState
  <2>2. CASE Goto(j, "mark")
    <3>1. worker'[j].pc = "mark" /\ \A k \in Jobs \ {j} : worker'[k] = worker[k]
      BY <1>2, <2>2, MovedPermit DEF Labels, ExecutorLabels
    <3> QED
      BY <1>5, <1>11, <3>1, FreeKnown DEF ValidateTerminalState
  <2> QED
    BY <1>11, <2>1, <2>2 DEF ValidateTerminalState
<1>12. CASE BindDispatchAuthority(j)
  <2>1. deployments \in [Tenants -> SUBSET Ids]
    BY DEF IndInv, HostTypeOK
  <2>2. jobs'[j].bound /\ jobs'[j].phase = jobs[j].phase /\ \A k \in Jobs \ {j} : jobs'[k] = jobs[k]
    BY <1>2, <1>12, <2>1, HistoryBinding, HistorySet DEF BindDispatchAuthority
  <2>3. /\ worker'[j].pc = "claim" /\ worker'[j].permitted = worker[j].permitted
        /\ \A k \in Jobs \ {j} : worker'[k] = worker[k]
    BY <1>2, <1>12, MovedPermit DEF BindDispatchAuthority, Labels, ExecutorLabels
  <2>4. worker[j].permitted
    BY <1>4, <1>12 DEF BindDispatchAuthority, FreshLabels
  <2>5. KnownInv(j)'
    BY <2>2, <2>3, <2>4 DEF KnownInv, FreshLabels, BindLabels, PairLabels, RestoringLabels, CommitLabels
  <2>6. RecordInv(j)'
    BY <1>1, <1>12, <2>2 DEF BindDispatchAuthority, RecordInv
  <2>7. ~jobs[j].bound
    BY <1>1, <1>12 DEF BindDispatchAuthority, KnownInv
  <2>8. intent # None => intent.job # j
    BY <1>1, <2>7 DEF DurableInv, TransitionInv, BoundInv
  <2>9. DurableInv'
    <3>1. intent # None => BindingKept(intent.job)
      <4>1. intent # None => intent.job \in Jobs
        BY IntentTyped DEF IndInv
      <4> QED
        BY <2>2, <2>8, <4>1 DEF BindingKept
    <3>2. /\ UNCHANGED <<intent, tenantVars, releases, gens, ids, active>>
          /\ running' = running /\ audit' = audit /\ staged' = staged
      BY <1>12 DEF BindDispatchAuthority, releaseVars, caddyVars, unitVars
    <3> QED
      BY <1>1, <3>1, <3>2, QuietStep
  <2>10. UNCHANGED <<results, audit, intent, releases, gens>>
    BY <1>12 DEF BindDispatchAuthority, releaseVars, caddyVars
  <2> QED
    BY <1>12, <2>2, <2>3, <2>5, <2>6, <2>9, <2>10, OneWorker DEF BindDispatchAuthority
<1>13. ASSUME NEW p, \/ jobs' = [jobs EXCEPT ![j].phase = p] /\ (p = "claimed" => jobs[j].bound)
                                                             /\ p \in Phases /\ p # "completed"
                     \/ jobs' = [jobs EXCEPT ![j].validated = p] /\ p = TRUE,
              lock \in {None, j},
              \A k \in Jobs \ {j} : worker'[k] = worker[k], KnownInv(j)',
              UNCHANGED <<results, audit, intent, tenantVars, releaseVars, caddyVars, ids>>
       PROVE  PublicationInv'
  <2>1. \A k \in Jobs : BindingKept(k)
    BY <1>2, <1>13, PhaseBinding
  <2>2. /\ \A k \in Jobs \ {j} : jobs'[k] = jobs[k]
        /\ jobs'[j].phase = jobs[j].phase \/ (jobs'[j].phase = p /\ p # "completed" /\ (p = "claimed" => jobs[j].bound))
    BY <1>2, <1>13, PhaseSet, ValidatedSet
  <2>3. RecordInv(j)'
    BY <1>1, <1>13, <2>1, <2>2 DEF RecordInv, BindingKept
  <2> QED
    BY <1>13, <2>1, <2>2, <2>3, OwnRecords DEF releaseVars
<1>14. CASE ClaimPending(j)
  <2>1. jobs[j].bound
    BY <1>1, <1>14 DEF ClaimPending, KnownInv
  <2>2. worker'[j].pc = "dispatch" /\ worker'[j].permitted /\ \A k \in Jobs \ {j} : worker'[k] = worker[k]
    BY <1>2, <1>4, <1>14, MovedPermit DEF ClaimPending, FreshLabels, Labels, ExecutorLabels
  <2>3. KnownInv(j)'
    BY <2>2, FreeKnown
  <2> QED
    BY <1>13, <1>14, <2>1, <2>2, <2>3 DEF ClaimPending, Phases
<1>15. CASE SetFailedPhase(j)
  <2>1. PICK label \in {"failValidated", "validate"} : Goto(j, label)
    BY <1>15 DEF SetFailedPhase
  <2>2. worker'[j].pc = label /\ \A k \in Jobs \ {j} : worker'[k] = worker[k]
    BY <1>2, <2>1, MovedPermit DEF Labels, ExecutorLabels
  <2>3. KnownInv(j)'
    BY <2>2, FreeKnown DEF FailLabels
  <2>4. /\ jobs' = [jobs EXCEPT ![j].phase = "failed"] /\ lock = j
        /\ UNCHANGED <<results, audit, intent, tenantVars, releaseVars, caddyVars, ids>>
    BY <1>15 DEF SetFailedPhase
  <2>5. "failed" \in Phases /\ "failed" # "completed" /\ "failed" # "claimed"
    BY DEF Phases
  <2> QED
    BY <1>13, <2>2, <2>3, <2>4, <2>5
<1>16. CASE CommitFailureValidation(j)
  BY <1>2, <1>13, <1>16, EndedKnown DEF CommitFailureValidation
<1>17. CASE MarkExecutionValidated(j)
  BY <1>2, <1>13, <1>17, EndedKnown DEF MarkExecutionValidated
<1>18. CASE PublishFailure(j)
  <2>1. intent = None
    BY <1>1, <1>18 DEF PublishFailure, WorkerInv, FailLabels
  <2>2. results'[j] = "failed" /\ \A k \in Jobs \ {j} : results'[k] = results[k]
    BY <1>2, <1>18 DEF PublishFailure
  <2>3. worker'[j].pc = "failAudit" /\ \A k \in Jobs \ {j} : worker'[k] = worker[k]
    BY <1>2, <1>18, MovedPermit DEF PublishFailure, Labels, ExecutorLabels
  <2>4. KnownInv(j)'
    BY <2>3, FreeKnown DEF FailLabels
  <2>5. RecordInv(j)'
    BY <1>1, <1>18, <2>2 DEF PublishFailure, RecordInv
  <2>6. UNCHANGED <<jobs, audit, intent, tenantVars, releases, caddyVars, ids>>
    BY <1>18 DEF PublishFailure, releaseVars
  <2> QED
    BY <1>18, <2>1, <2>2, <2>3, <2>4, <2>5, <2>6, OwnRecords DEF PublishFailure
<1>19. CASE EnsureFailureAudit(j)
  <2>1. intent = None /\ results[j] = "failed"
    BY <1>1, <1>19 DEF EnsureFailureAudit, WorkerInv, FailLabels
  <2>2. \A k \in Jobs \ {j} : InChain(audit', k) => InChain(audit, k)
    <3>1. audit' = IF InChain(audit, j) THEN audit ELSE Append(audit, j)
      BY <1>19 DEF EnsureFailureAudit, Audited, InChain
    <3> QED
      BY <1>2, <3>1, OnlyAppended
  <2>3. PICK label \in {"failPhase", "replayPhase"} : Goto(j, label)
    BY <1>19 DEF EnsureFailureAudit
  <2>4. worker'[j].pc = label /\ \A k \in Jobs \ {j} : worker'[k] = worker[k]
    BY <1>2, <2>3, MovedPermit DEF Labels, ExecutorLabels
  <2>5. KnownInv(j)'
    BY <2>4, FreeKnown DEF FailLabels
  <2>6. RecordInv(j)'
    BY <1>1, <1>19, <2>1 DEF EnsureFailureAudit, RecordInv
  <2>7. UNCHANGED <<jobs, results, intent, tenantVars, releases, caddyVars, ids>>
    BY <1>19 DEF EnsureFailureAudit, releaseVars
  <2> QED
    BY <1>19, <2>1, <2>2, <2>4, <2>5, <2>6, <2>7, OwnRecords DEF EnsureFailureAudit
<1> QED
  BY <1>6, <1>7, <1>8, <1>9, <1>10, <1>11, <1>12, <1>14, <1>15, <1>16, <1>17, <1>18, <1>19 DEF ExecutorStep

-----------------------------------------------------------------------------
(* The handler's steps: preparation and reconstruction. *)

\* A preparation step without an intent preserves the invariant.
LEMMA PrepareKeeps ==
    ASSUME IndInv, PublicationInv, NEW j \in Jobs,
           \/ Classify(j) \/ PrepareRejected(j) \/ PrepareRaced(j) \/ Prepare(j)
           \/ BindSourceRuntime(j) \/ StageRelease(j) \/ QuotaExceeded(j) \/ IntentFault(j)
    PROVE  PublicationInv'
<1> USE DEF At, Holds, Unlocked
<1>1. WorkerInv(j) /\ RecordInv(j) /\ KnownInv(j)
  BY DEF IndInv, PublicationInv
<1>2. worker \in [Jobs -> WorkerRecord] /\ jobs \in [Jobs -> JobRecord]
  BY DEF IndInv, HostTypeOK
<1>3. None # j
  BY ActorsAssumption
<1>4. worker[j].pc \in FreshLabels => worker[j].permitted
  BY <1>1 DEF KnownInv
<1>5. ASSUME UNCHANGED <<jobVars, intent, tenantVars, releases, caddyVars, ids>>,
             intent = None \/ staged' = staged,
             lock \in {None, j}, \A k \in Jobs \ {j} : worker'[k] = worker[k], KnownInv(j)'
      PROVE  PublicationInv'
  BY <1>5, OnlyMoves
<1>6. worker[j].pc \in BindLabels =>
          /\ lock = j /\ intent = None
          /\ jobs[j].source = desired[jobs[j].tenant] /\ jobs[j].history = deployments
          /\ (jobs[j].op = "rollback" => jobs[j].target \in deployments[jobs[j].tenant])
  BY <1>1 DEF WorkerInv, KnownInv, LockedLabels
<1>7. CASE Classify(j)
  <2>1. PICK label \in {"recover", "start", "validate", "prepare"} : Stop(j) \/ Goto(j, label)
    BY <1>7 DEF Classify
  <2>2. worker[j].permitted
    BY <1>4, <1>7 DEF Classify, FreshLabels
  <2>3. KnownInv(j)' /\ \A k \in Jobs \ {j} : worker'[k] = worker[k]
    <3>1. CASE Stop(j)
      BY <1>2, <3>1, EndedKnown
    <3>2. CASE Goto(j, label)
      <4>1. /\ worker'[j].pc = label /\ worker'[j].permitted = worker[j].permitted
            /\ \A k \in Jobs \ {j} : worker'[k] = worker[k]
        BY <1>2, <3>2, MovedPermit DEF Labels, ExecutorLabels, PrepareLabels
      <4> QED
        BY <2>2, <4>1, FreeKnown
    <3> QED
      BY <2>1, <3>1, <3>2
  <2> QED
    BY <1>5, <1>7, <2>3 DEF Classify, releaseVars
<1>8. CASE PrepareRejected(j)
  <2>1. worker'[j].pc = "reject" /\ \A k \in Jobs \ {j} : worker'[k] = worker[k]
    BY <1>2, <1>8, MovedPermit DEF PrepareRejected, Labels, ExecutorLabels
  <2>2. KnownInv(j)'
    BY <2>1, FreeKnown
  <2>3. intent = None \/ staged' = staged
    BY <1>8 DEF PrepareRejected
  <2> QED
    BY <1>5, <1>8, <2>1, <2>2, <2>3 DEF PrepareRejected
<1>9. CASE PrepareRaced(j)
  BY <1>2, <1>5, <1>9, EndedKnown DEF PrepareRaced, releaseVars
<1>10. CASE Prepare(j)
  <2>1. /\ worker'[j].pc = "bindRuntime" /\ worker'[j].permitted = worker[j].permitted
        /\ \A k \in Jobs \ {j} : worker'[k] = worker[k]
    BY <1>2, <1>10, MovedPermit DEF Prepare, Labels, PrepareLabels
  <2>2. worker[j].permitted
    BY <1>4, <1>10 DEF Prepare, FreshLabels
  <2>3. /\ jobs[j].source = desired[jobs[j].tenant] /\ jobs[j].history = deployments
        /\ (jobs[j].op = "rollback" => jobs[j].target \in deployments[jobs[j].tenant])
    BY <1>10 DEF Prepare, SourceIsCurrent, DispatchAuthorityHolds
  <2>4. UNCHANGED <<jobs, desired, deployments>>
    BY <1>10 DEF Prepare, jobVars, tenantVars
  <2>5. KnownInv(j)'
    BY <2>1, <2>2, <2>3, <2>4 DEF KnownInv, FreshLabels, BindLabels, PairLabels, RestoringLabels, CommitLabels
  <2> QED
    BY <1>5, <1>10, <2>1, <2>5 DEF Prepare
<1>11. CASE BindSourceRuntime(j)
  <2>1. /\ worker'[j].pc = "stage" /\ worker'[j].permitted = worker[j].permitted
        /\ \A k \in Jobs \ {j} : worker'[k] = worker[k]
    BY <1>2, <1>11, MovedPermit DEF BindSourceRuntime, Labels, PrepareLabels
  <2>2. worker[j].permitted
    BY <1>4, <1>11 DEF BindSourceRuntime, FreshLabels
  <2>3. /\ lock = j /\ intent = None
        /\ jobs[j].source = desired[jobs[j].tenant] /\ jobs[j].history = deployments
        /\ (jobs[j].op = "rollback" => jobs[j].target \in deployments[jobs[j].tenant])
    BY <1>6, <1>11 DEF BindSourceRuntime, BindLabels
  <2>4. jobs' = [jobs EXCEPT ![j].srcGen = active, ![j].srcObs = observed[jobs[j].tenant]]
    BY <1>11 DEF BindSourceRuntime
  <2>5. /\ jobs'[j].srcGen = active /\ jobs'[j].srcObs = observed[jobs[j].tenant]
        /\ jobs'[j].phase = jobs[j].phase /\ jobs'[j].tenant = jobs[j].tenant
        /\ jobs'[j].op = jobs[j].op /\ jobs'[j].source = jobs[j].source
        /\ jobs'[j].target = jobs[j].target /\ jobs'[j].bound = jobs[j].bound
        /\ jobs'[j].history = jobs[j].history
    <3>1. PICK g, o : g = active /\ o = observed[jobs[j].tenant]
      OBVIOUS
    <3>2. jobs' = [jobs EXCEPT ![j].srcGen = g, ![j].srcObs = o]
      BY <2>4, <3>1
    <3>3. /\ jobs'[j].srcGen = g /\ jobs'[j].srcObs = o /\ jobs'[j].phase = jobs[j].phase
          /\ jobs'[j].tenant = jobs[j].tenant /\ jobs'[j].op = jobs[j].op
          /\ jobs'[j].source = jobs[j].source /\ jobs'[j].target = jobs[j].target
          /\ jobs'[j].bound = jobs[j].bound /\ jobs'[j].history = jobs[j].history
      BY <1>2, <3>2, RuntimeBinding
    <3> QED
      BY <3>1, <3>3
  <2>6. \A k \in Jobs \ {j} : jobs'[k] = jobs[k]
    BY <1>2, <2>4
  <2>7. UNCHANGED <<results, audit, intent, tenantVars, releases, caddyVars, ids>>
    BY <1>11 DEF BindSourceRuntime, releaseVars
  <2>8. UNCHANGED <<desired, observed, deployments, active>>
    BY <1>11 DEF BindSourceRuntime, tenantVars, caddyVars, unitVars
  <2>9. KnownInv(j)'
    BY <2>1, <2>2, <2>3, <2>5, <2>8
       DEF KnownInv, FreshLabels, BindLabels, PairLabels, RestoringLabels, CommitLabels
  <2>10. RecordInv(j)'
    BY <1>1, <2>5, <2>7 DEF RecordInv
  <2> QED
    BY <2>1, <2>3, <2>6, <2>7, <2>9, <2>10, OwnRecords
<1>12. CASE StageRelease(j)
  <2>1. /\ worker'[j].pc = "intent" /\ worker'[j].permitted = worker[j].permitted
        /\ \A k \in Jobs \ {j} : worker'[k] = worker[k]
    BY <1>2, <1>12, MovedPermit DEF StageRelease, Labels, PrepareLabels
  <2>2. worker[j].permitted
    BY <1>4, <1>12 DEF StageRelease, FreshLabels
  <2>3. /\ intent = None
        /\ jobs[j].source = desired[jobs[j].tenant] /\ jobs[j].history = deployments
        /\ (jobs[j].op = "rollback" => jobs[j].target \in deployments[jobs[j].tenant])
    BY <1>6, <1>12 DEF StageRelease, BindLabels
  <2>4. jobs[j].srcGen = active /\ jobs[j].srcObs = observed[jobs[j].tenant]
    BY <1>1, <1>12 DEF StageRelease, KnownInv
  <2>5. UNCHANGED <<jobs, desired, observed, deployments, active, ids>>
    BY <1>12 DEF StageRelease, jobVars, tenantVars, caddyVars, unitVars
  <2>6. jobs[j].op = "deploy" => ids + 1 \in staged'
    BY <1>12 DEF StageRelease
  <2>7. KnownInv(j)'
    BY <2>1, <2>2, <2>3, <2>4, <2>5, <2>6
       DEF KnownInv, FreshLabels, BindLabels, PairLabels, RestoringLabels, CommitLabels
  <2> QED
    BY <1>5, <1>12, <2>1, <2>3, <2>7 DEF StageRelease
<1>13. CASE QuotaExceeded(j)
  <2>1. worker'[j].pc = "reject" /\ \A k \in Jobs \ {j} : worker'[k] = worker[k]
    BY <1>2, <1>13, MovedPermit DEF QuotaExceeded, Labels, ExecutorLabels
  <2>2. KnownInv(j)'
    BY <2>1, FreeKnown
  <2> QED
    BY <1>5, <1>13, <2>1, <2>2 DEF QuotaExceeded, releaseVars
<1>14. CASE IntentFault(j)
  <2>1. intent = None
    BY <1>6, <1>14 DEF IntentFault, BindLabels
  <2> QED
    BY <1>2, <1>5, <1>14, <2>1, EndedKnown DEF IntentFault
<1> QED
  BY <1>7, <1>8, <1>9, <1>10, <1>11, <1>12, <1>13, <1>14

\* The intent that a prepared job creates is bound to what the job was
\* dispatched for, its transition is untouched, and its source can be restored.
LEMMA CreateIntentKeeps ==
    ASSUME IndInv, IndInv', PublicationInv, NEW j \in Jobs, CreateIntent(j)
    PROVE  PublicationInv'
<1> DEFINE t == jobs[j].tenant
           target == IF jobs[j].op = "deploy" THEN ids + 1 ELSE jobs[j].target
<1>1. WorkerInv(j) /\ JobInv(j) /\ RecordInv(j) /\ KnownInv(j) /\ DurableInv /\ worker[j].pc = "intent"
  BY DEF IndInv, PublicationInv, CreateIntent, Holds, At
<1>2. /\ lock = j /\ intent = None /\ results[j] = "none" /\ jobs[j].phase = "claimed"
      /\ jobs[j].bound /\ t \in Tenants /\ ~InChain(audit, j)
  BY <1>1 DEF WorkerInv, LockedLabels, BindLabels, RecordInv, JobInv
<1>3. /\ jobs[j].source = desired[t] /\ jobs[j].history = deployments
      /\ (jobs[j].op = "rollback" => jobs[j].target \in deployments[t])
      /\ jobs[j].srcGen = active /\ jobs[j].srcObs = observed[t]
      /\ (jobs[j].op = "deploy" => ids + 1 \in staged)
      /\ worker[j].permitted
  BY <1>1 DEF KnownInv, BindLabels, FreshLabels
<1>4. /\ \A u \in Tenants : Settled(u)
      /\ gens[active] = observed /\ running \in {active, None}
  BY <1>1, <1>2 DEF DurableInv, QuietInv
<1>5. /\ releases[t] = deployments[t] /\ desired[t] \in deployments[t] \cup {0}
      /\ observed[t].dep = desired[t] /\ \A d \in deployments[t] : d <= desired[t]
  BY <1>2, <1>4 DEF Settled
<1>6. /\ observed[t].gen <= ids /\ (\A d \in deployments[t] : d >= 1 /\ d <= ids)
      /\ \A g \in DOMAIN gens : g <= ids
  BY <1>1, <1>2 DEF DurableInv, IdsInv
<1>7. /\ active \in DOMAIN gens /\ ids \in Nat /\ observed \in [Tenants -> Observed]
      /\ deployments[t] \in SUBSET Nat /\ jobs[j] \in JobRecord /\ DOMAIN gens \in SUBSET Nat
      /\ worker \in [Jobs -> WorkerRecord]
  BY <1>2 DEF IndInv, HostInv, HostTypeOK, Ids
<1>8. jobs[j].op \in {"deploy", "rollback"}
  BY <1>7 DEF JobRecord, Operations
<1>9. observed[t].dep \in Nat /\ observed[t].gen \in Nat
  BY <1>2, <1>7 DEF Observed, Ids
<1>10. /\ intent'.job = j /\ intent'.tenant = t /\ intent'.op = jobs[j].op
       /\ intent'.src = observed[t] /\ intent'.srcGen = active /\ intent'.candGen = ids + 1
       /\ intent'.dep = target
  BY DEF CreateIntent
<1>11. /\ intent' # None /\ intent' \in IntentRecord
  <2>1. intent' \in IntentRecord \cup {None}
    BY DEF IndInv, HostTypeOK
  <2>2. intent' \in IntentRecord
    <3>1. target \in Nat
      BY <1>2, <1>7, <1>3, <1>8
    <3> QED
      BY <1>2, <1>7, <1>8, <3>1 DEF CreateIntent, IntentRecord, Ids, Operations
  <2> QED
    BY <2>2, ActorsAssumption
<1>12. /\ UNCHANGED <<jobs, results, audit, desired, observed, deployments, releases, staged, gens, active, running>>
       /\ ids' = ids + 1
  BY DEF CreateIntent, jobVars, tenantVars, releaseVars, caddyVars, unitVars
<1>13. observed[t].dep <= ids
  BY <1>5, <1>6, <1>7
<1>14. target \in Nat /\ target <= ids + 1 /\ (jobs[j].op = "deploy" => target > observed[t].dep)
  <2>1. CASE jobs[j].op = "deploy"
    BY <1>7, <1>9, <1>13, <2>1
  <2>2. CASE jobs[j].op = "rollback"
    BY <1>3, <1>6, <1>7, <2>2
  <2> QED
    BY <1>8, <2>1, <2>2
<1>15. Dispatched(intent)' = deployments[t]
  BY <1>3, <1>10, <1>12 DEF Dispatched
<1> HIDE DEF target
<1>16. IdsInv'
  <2>1. \A u \in Tenants : observed[u].gen \in Nat /\ deployments[u] \in SUBSET Nat
    BY DEF IndInv, HostTypeOK, Observed, Ids
  <2> QED
    BY <1>1, <1>7, <1>12, <2>1 DEF DurableInv, IdsInv
<1>17. BoundInv(intent)'
  <2>1. jobs'[intent'.job] = jobs[j]
    BY <1>10, <1>12
  <2>2. IF jobs[j].op = "rollback" THEN target \in deployments[t] /\ target = jobs[j].target
                                   ELSE target > observed[t].dep
    BY <1>3, <1>8, <1>14 DEF target
  <2>3. observed[t].gen < ids + 1 /\ active # ids + 1 /\ observed[t].dep <= ids + 1
    BY <1>6, <1>7, <1>9, <1>13
  <2>4. /\ observed[t].dep \in deployments[t] \cup {0}
        /\ \A d \in deployments[t] : d >= 1 /\ d <= observed[t].dep
    BY <1>5, <1>6
  <2> QED
    BY <1>2, <1>3, <1>5, <1>10, <1>12, <1>14, <1>15, <2>1, <2>2, <2>3, <2>4 DEF BoundInv
<1>18. ProgressInv(intent)'
  <2>1. TransitionHistory(intent)' = deployments[t] \cup {target}
    <3>1. TransitionHistory(intent)' = Dispatched(intent)' \cup {intent'.dep}
      BY DEF TransitionHistory, Dispatched
    <3> QED
      BY <1>10, <1>15, <3>1
  <2>2. Untouched(intent)'
    BY <1>5, <1>10, <1>12, <1>15, <2>1 DEF Untouched
  <2>3. target \in releases[t] \/ (jobs[j].op = "deploy" /\ target \in staged)
    BY <1>3, <1>5, <1>8 DEF target
  <2> QED
    BY <1>2, <1>10, <1>12, <2>2, <2>3 DEF ProgressInv
<1>19. ServingInv(intent)'
  <2>1. [observed EXCEPT ![t] = observed[t]] = observed
    BY <1>7
  <2>2. ids + 1 \notin DOMAIN gens
    BY <1>6, <1>7
  <2>3. SourceReleasePresent(intent)'
    BY <1>5, <1>10, <1>12 DEF SourceReleasePresent
  <2> QED
    BY <1>4, <1>7, <1>10, <1>12, <2>1, <2>2, <2>3 DEF ServingInv
<1>20. OthersInv(intent)'
  <2>1. \A u \in Tenants : Settled(u)'
    BY <1>4, <1>12, SettledKept
  <2> QED
    BY <2>1 DEF OthersInv
<1>21. DurableInv'
  BY <1>11, <1>16, <1>17, <1>18, <1>19, <1>20 DEF DurableInv, QuietInv, TransitionInv
<1>22. /\ worker'[j].pc = "release" /\ worker'[j].permitted = worker[j].permitted
       /\ \A k \in Jobs \ {j} : worker'[k] = worker[k]
  BY <1>7, MovedPermit DEF CreateIntent, Labels, PrepareLabels
<1>23. SourceReleasePresent(intent)'
  BY <1>5, <1>10, <1>12 DEF SourceReleasePresent
<1>24. KnownInv(j)'
  BY <1>3, <1>22, <1>23 DEF KnownInv, FreshLabels, BindLabels, PairLabels, RestoringLabels, CommitLabels
<1>25. RecordInv(j)'
  BY <1>1, <1>2, <1>12 DEF RecordInv
<1> QED
  BY <1>2, <1>12, <1>21, <1>22, <1>24, <1>25, OneWorker
\* Recovery sets the restoration permission it computed.
LEMMA ResumedPermit ==
    ASSUME worker \in [Jobs -> WorkerRecord], NEW j \in Jobs, NEW p \in BOOLEAN,
           worker' = [worker EXCEPT ![j].pc = "release", ![j].permitted = p]
    PROVE  worker'[j].permitted = p
<1>1. ASSUME NEW w \in WorkerRecord, NEW v, v = [w EXCEPT !.pc = "release", !.permitted = p]
      PROVE  v.permitted = p
  BY <1>1 DEF WorkerRecord
<1>2. PICK v : v = [worker[j] EXCEPT !.pc = "release", !.permitted = p]
  OBVIOUS
<1>3. worker' = [worker EXCEPT ![j] = v]
  BY <1>2
<1>4. v.permitted = p
  BY <1>1, <1>2
<1> QED
  BY <1>3, <1>4

\* Reconstruction finds out whether the source can be restored.
LEMMA RecoverKeeps ==
    ASSUME IndInv, PublicationInv, NEW j \in Jobs, Recover(j)
    PROVE  PublicationInv'
<1>1. worker \in [Jobs -> WorkerRecord]
  BY DEF IndInv, HostTypeOK
<1>2. /\ UNCHANGED <<jobVars, intent, tenantVars, releases, staged, caddyVars, ids>> /\ lock = None
  BY DEF Recover, Unlocked, releaseVars
<1>3. ASSUME \A k \in Jobs \ {j} : worker'[k] = worker[k], KnownInv(j)'
      PROVE  PublicationInv'
  BY <1>2, <1>3, OnlyMoves
<1>4. CASE OwnsIntent(j) /\ RecoveryAdmitted(intent)
  <2>1. PICK p \in BOOLEAN : p = SourceReleasePresent(intent)
    BY DEF SourceReleasePresent
  <2>2. worker' = [worker EXCEPT ![j].pc = "release", ![j].permitted = p]
    BY <1>4, <2>1 DEF Recover
  <2>3. /\ worker'[j].pc = "release" /\ worker'[j].permitted = p
        /\ \A k \in Jobs \ {j} : worker'[k] = worker[k]
    BY <1>1, <2>2, Resumed, ResumedPermit
  <2>4. SourceReleasePresent(intent)' <=> SourceReleasePresent(intent)
    BY <1>2 DEF SourceReleasePresent
  <2>5. KnownInv(j)'
    BY <2>1, <2>3, <2>4 DEF KnownInv, FreshLabels, BindLabels, PairLabels, RestoringLabels, CommitLabels
  <2> QED
    BY <1>3, <2>3, <2>5
<1>5. CASE ~(OwnsIntent(j) /\ RecoveryAdmitted(intent))
  BY <1>1, <1>3, <1>5, EndedKnown DEF Recover
<1> QED
  BY <1>4, <1>5

\* What the owner of an intent may rely on.
LEMMA OwnerFacts ==
    ASSUME IndInv, PublicationInv, NEW j \in Jobs, worker[j].pc \in OwnerLabels
    PROVE  /\ lock = j /\ intent # None /\ intent.job = j
           /\ BoundInv(intent) /\ ProgressInv(intent) /\ ServingInv(intent) /\ OthersInv(intent)
           /\ HostTypeOK /\ HostInv /\ IdsInv /\ RecordInv(j) /\ KnownInv(j)
           /\ worker \in [Jobs -> WorkerRecord] /\ active \in DOMAIN gens
<1>1. WorkerInv(j) /\ RecordInv(j) /\ KnownInv(j) /\ DurableInv /\ HostTypeOK /\ HostInv
  BY DEF IndInv, PublicationInv
<1>2. lock = j /\ intent # None /\ intent.job = j
  BY <1>1 DEF WorkerInv, LockedLabels
<1> QED
  BY <1>1, <1>2 DEF DurableInv, TransitionInv, HostTypeOK, HostInv

\* Publishing the staged release changes nothing once the deployment is
\* recorded, and never brings the source's release back.
LEMMA PublishReleaseKeeps ==
    ASSUME IndInv, PublicationInv, NEW j \in Jobs, PublishRelease(j)
    PROVE  PublicationInv'
<1> DEFINE t == intent.tenant
<1>1. worker[j].pc = "release"
  BY DEF PublishRelease, Holds, At
<1>2. /\ lock = j /\ intent # None /\ intent.job = j
      /\ BoundInv(intent) /\ ProgressInv(intent) /\ ServingInv(intent) /\ OthersInv(intent)
      /\ HostTypeOK /\ IdsInv /\ RecordInv(j) /\ KnownInv(j) /\ worker \in [Jobs -> WorkerRecord]
  BY <1>1, OwnerFacts DEF OwnerLabels
<1>3. /\ UNCHANGED <<jobs, results, audit, intent, tenantVars, gens, active, running, ids>>
      /\ releases' = [releases EXCEPT ![t] = releases[t] \cup {intent.dep}]
  BY DEF PublishRelease, jobVars, caddyVars, unitVars
<1>4. t \in Tenants /\ releases \in [Tenants -> SUBSET Ids]
  BY <1>2, IntentTyped DEF HostTypeOK
<1>5. /\ releases'[t] = releases[t] \cup {intent.dep}
      /\ \A u \in Tenants \ {t} : releases'[u] = releases[u]
  BY <1>3, <1>4
<1>6. BindingKept(intent.job)
  BY <1>3 DEF BindingKept
<1>7. /\ Dispatched(intent)' = Dispatched(intent)
      /\ TransitionHistory(intent)' = TransitionHistory(intent)
      /\ TerminalHistory(intent)' = TerminalHistory(intent)
      /\ CandidateObserved(intent)' = CandidateObserved(intent)
  BY <1>3, HistoriesKept
<1>8. /\ TransitionHistory(intent) = Dispatched(intent) \cup {intent.dep}
      /\ intent.dep \in TerminalHistory(intent)
  BY <1>2, Histories, TerminalFacts
<1>9. ~Untouched(intent) => releases'[t] = releases[t]
  BY <1>2, <1>5, <1>8 DEF ProgressInv, Recorded, Desired, AllKept, Served
<1>10. SourceReleasePresent(intent)' <=> SourceReleasePresent(intent)
  <2>1. SourceReleasePresent(intent) => SourceReleasePresent(intent)'
    BY <1>3, <1>5 DEF SourceReleasePresent
  <2>2. ASSUME ~SourceReleasePresent(intent)
        PROVE  ~SourceReleasePresent(intent)'
    <3>1. Served(intent)
      BY <1>2, <2>2, SourceGone
    <3>2. releases'[t] = releases[t]
      BY <1>5, <1>8, <3>1 DEF Served
    <3> QED
      BY <1>3, <2>2, <3>2 DEF SourceReleasePresent
  <2> QED
    BY <2>1, <2>2
<1>11. ProgressInv(intent)'
  <2>1. Untouched(intent) => Untouched(intent)'
    BY <1>3, <1>5, <1>7, <1>8 DEF Untouched, tenantVars
  <2>2. ASSUME ~Untouched(intent)
        PROVE  (Recorded(intent) \/ Desired(intent) \/ Served(intent))'
    <3>1. releases'[t] = releases[t]
      BY <1>9, <2>2
    <3>2. Recorded(intent) => Recorded(intent)'
      BY <1>3, <1>7, <3>1 DEF Recorded, AllKept, tenantVars
    <3>3. Desired(intent) => Desired(intent)'
      BY <1>3, <1>7, <3>1 DEF Desired, AllKept, tenantVars
    <3>4. Served(intent) => Served(intent)'
      BY <1>3, <1>7, <3>1 DEF Served, tenantVars
    <3> QED
      BY <1>2, <2>2, <3>2, <3>3, <3>4 DEF ProgressInv
  <2>3. (intent.dep \in releases[intent.tenant])'
    BY <1>3, <1>5
  <2>4. (InChain(audit, intent.job) => audit[Len(audit)] = intent.job)'
    BY <1>2, <1>3 DEF ProgressInv
  <2> QED
    BY <2>1, <2>2, <2>3, <2>4 DEF ProgressInv
<1>12. ServingInv(intent)'
  BY <1>2, <1>3, <1>5, <1>7, <1>10 DEF ServingInv, tenantVars
<1>13. DurableInv'
  <2>1. BoundInv(intent)'
    BY <1>2, <1>3, <1>6, BoundKept
  <2>2. OthersInv(intent)'
    <3>1. \A u \in Tenants \ {t} : Settled(u)'
      BY <1>2, <1>3, <1>5, SettledKept DEF OthersInv, tenantVars
    <3> QED
      BY <1>3, <3>1 DEF OthersInv
  <2>3. IdsInv'
    BY <1>2, <1>3 DEF IdsInv, tenantVars
  <2> QED
    BY <1>2, <1>3, <1>11, <1>12, <2>1, <2>2, <2>3 DEF DurableInv, QuietInv, TransitionInv
<1>14. PICK label \in {"activate", "prune"} :
          /\ Goto(j, label) /\ (label = "activate" <=> intent.candGen \in DOMAIN gens)
  BY DEF PublishRelease
<1>15. /\ worker'[j].pc = label /\ worker'[j].permitted = worker[j].permitted
       /\ \A k \in Jobs \ {j} : worker'[k] = worker[k]
  BY <1>2, <1>14, MovedPermit DEF Labels, PrepareLabels, ActivateLabels
<1>16. KnownInv(j)'
  <2>1. worker[j].permitted <=> SourceReleasePresent(intent)
    BY <1>1, <1>2 DEF KnownInv
  <2>2. (intent # None /\ intent.job = j /\ intent.dep \in releases[intent.tenant])'
    BY <1>2, <1>3, <1>5
  <2> QED
    BY <1>3, <1>10, <1>14, <1>15, <2>1, <2>2
       DEF KnownInv, FreshLabels, BindLabels, PairLabels, RestoringLabels, CommitLabels
<1>17. RecordInv(j)'
  BY <1>2, <1>3 DEF RecordInv
<1> QED
  BY <1>2, <1>3, <1>13, <1>15, <1>16, <1>17, OneWorker

\* A step that changes generations only, within what the intent is about.
LEMMA GenerationsStep ==
    ASSUME IndInv, PublicationInv, NEW j \in Jobs, worker[j].pc \in OwnerLabels,
           UNCHANGED <<jobVars, intent, tenantVars, releaseVars, unitVars, ids>>,
           \A k \in Jobs \ {j} : worker'[k] = worker[k],
           \A g \in DOMAIN gens' : g \in DOMAIN gens \/ g = intent.candGen,
           intent.srcGen \in DOMAIN gens', gens'[intent.srcGen] = gens[intent.srcGen],
           intent.candGen \in DOMAIN gens' =>
              /\ gens'[intent.candGen] = [observed EXCEPT ![intent.tenant] = CandidateObserved(intent)]
              /\ intent.dep \in releases[intent.tenant],
           running \in DOMAIN gens' \cup {None}, KnownInv(j)'
    PROVE  PublicationInv'
<1>1. /\ lock = j /\ intent # None /\ intent.job = j
      /\ BoundInv(intent) /\ ProgressInv(intent) /\ ServingInv(intent) /\ OthersInv(intent)
      /\ HostTypeOK /\ IdsInv /\ RecordInv(j)
  BY OwnerFacts
<1>2. UNCHANGED <<jobs, results, audit, intent, desired, observed, deployments, releases, staged, active, running, ids>>
  BY DEF jobVars, tenantVars, releaseVars, unitVars
<1>3. BindingKept(intent.job)
  BY <1>2 DEF BindingKept
<1>4. IdsInv'
  BY <1>1, <1>2 DEF IdsInv, BoundInv
<1>5. BoundInv(intent)'
  BY <1>1, <1>2, <1>3, BoundKept
<1>6. ProgressInv(intent)'
  BY <1>1, <1>2, <1>3, ProgressKept DEF tenantVars
<1>7. ServingInv(intent)'
  <2>1. CandidateObserved(intent)' = CandidateObserved(intent)
    BY <1>2 DEF CandidateObserved
  <2>2. SourceReleasePresent(intent)' <=> SourceReleasePresent(intent)
    BY <1>2 DEF SourceReleasePresent
  <2> QED
    BY <1>1, <1>2, <2>1, <2>2 DEF ServingInv
<1>8. OthersInv(intent)'
  <2>1. \A u \in Tenants \ {intent.tenant} : Settled(u)'
    BY <1>1, <1>2, SettledKept DEF OthersInv
  <2> QED
    BY <1>2, <2>1 DEF OthersInv
<1>9. DurableInv'
  BY <1>1, <1>2, <1>4, <1>5, <1>6, <1>7, <1>8 DEF DurableInv, QuietInv, TransitionInv
<1>10. RecordInv(j)'
  BY <1>1, <1>2 DEF RecordInv
<1> QED
  BY <1>1, <1>2, <1>9, <1>10, OneWorker

\* Pruning keeps the source's generation: it is the active one.
LEMMA PruneKeeps ==
    ASSUME IndInv, PublicationInv, NEW j \in Jobs, PruneGenerations(j)
    PROVE  PublicationInv'
<1> DEFINE others == DOMAIN gens \ {active}
           newest == {g \in others : \A h \in others : h <= g}
<1>1. worker[j].pc = "prune"
  BY DEF PruneGenerations, Holds, At
<1>2. /\ intent # None /\ intent.job = j /\ HostTypeOK /\ active \in DOMAIN gens
      /\ BoundInv(intent) /\ ServingInv(intent) /\ KnownInv(j) /\ worker \in [Jobs -> WorkerRecord]
  BY <1>1, OwnerFacts DEF OwnerLabels
<1>3. intent.candGen \notin DOMAIN gens
  BY <1>1, <1>2 DEF KnownInv
<1>4. active = intent.srcGen /\ running \in {intent.srcGen, None}
  <2>1. None # intent.candGen
    BY <1>2, IntentTyped, NoneAssumption DEF Ids
  <2> QED
    BY <1>2, <1>3, <2>1 DEF ServingInv
<1>5. gens' = [g \in {active} \cup newest |-> gens[g]]
  BY DEF PruneGenerations
<1>6. /\ DOMAIN gens' = {active} \cup newest
      /\ gens'[active] = gens[active]
  BY <1>5
<1>7. \A g \in DOMAIN gens' : g \in DOMAIN gens
  BY <1>2, <1>6
<1> HIDE DEF newest
<1>8. UNCHANGED <<jobVars, intent, tenantVars, releaseVars, unitVars, ids>>
  BY DEF PruneGenerations
<1>9. /\ worker'[j].pc = "publish" /\ worker'[j].permitted = worker[j].permitted
      /\ \A k \in Jobs \ {j} : worker'[k] = worker[k]
  BY <1>2, MovedPermit DEF PruneGenerations, Labels, PrepareLabels
<1>10. KnownInv(j)'
  <2>1. (worker[j].permitted <=> SourceReleasePresent(intent)) /\ intent.dep \in releases[intent.tenant]
    BY <1>1, <1>2 DEF KnownInv
  <2>2. SourceReleasePresent(intent)' <=> SourceReleasePresent(intent)
    BY <1>8 DEF SourceReleasePresent, releaseVars
  <2>3. intent'.candGen \notin DOMAIN gens' /\ intent'.dep \in releases'[intent'.tenant]
    BY <1>3, <1>7, <1>8, <2>1 DEF releaseVars
  <2> QED
    BY <1>9, <2>1, <2>2, <2>3
       DEF KnownInv, FreshLabels, BindLabels, PairLabels, RestoringLabels, CommitLabels
<1> QED
  BY <1>1, <1>3, <1>4, <1>6, <1>7, <1>8, <1>9, <1>10, GenerationsStep DEF OwnerLabels

\* The candidate generation adds the new route to what is observed.
LEMMA PublishCandidateKeeps ==
    ASSUME IndInv, PublicationInv, NEW j \in Jobs, PublishCandidate(j)
    PROVE  PublicationInv'
<1> DEFINE new == [observed EXCEPT ![intent.tenant] = CandidateObserved(intent)]
<1>1. worker[j].pc = "publish"
  BY DEF PublishCandidate, Holds, At
<1>2. /\ intent # None /\ intent.job = j /\ HostTypeOK
      /\ BoundInv(intent) /\ ServingInv(intent) /\ KnownInv(j) /\ worker \in [Jobs -> WorkerRecord]
  BY <1>1, OwnerFacts DEF OwnerLabels
<1>3. intent.srcGen # intent.candGen /\ intent.srcGen \in DOMAIN gens
  BY <1>2 DEF BoundInv, ServingInv
<1>4. gens' = [g \in DOMAIN gens \cup {intent.candGen} |-> IF g = intent.candGen THEN new ELSE gens[g]]
  BY DEF PublishCandidate
<1> HIDE DEF new
<1>5. /\ DOMAIN gens' = DOMAIN gens \cup {intent.candGen}
      /\ gens'[intent.candGen] = new /\ gens'[intent.srcGen] = gens[intent.srcGen]
  BY <1>3, <1>4
<1>6. UNCHANGED <<jobVars, intent, tenantVars, releaseVars, unitVars, ids>>
  BY DEF PublishCandidate
<1>7. /\ worker'[j].pc = "activate" /\ worker'[j].permitted = worker[j].permitted
      /\ \A k \in Jobs \ {j} : worker'[k] = worker[k]
  BY <1>2, MovedPermit DEF PublishCandidate, Labels, ActivateLabels
<1>8. (worker[j].permitted <=> SourceReleasePresent(intent)) /\ intent.dep \in releases[intent.tenant]
  BY <1>1, <1>2 DEF KnownInv
<1>9. KnownInv(j)'
  <2>1. SourceReleasePresent(intent)' <=> SourceReleasePresent(intent)
    BY <1>6 DEF SourceReleasePresent, releaseVars
  <2>2. /\ intent' # None /\ intent'.job = j
        /\ intent'.candGen \in DOMAIN gens' /\ intent'.dep \in releases'[intent'.tenant]
    BY <1>2, <1>5, <1>6, <1>8 DEF releaseVars
  <2> QED
    BY <1>7, <1>8, <2>1, <2>2
       DEF KnownInv, FreshLabels, BindLabels, PairLabels, RestoringLabels, CommitLabels
<1>10. running \in DOMAIN gens' \cup {None}
  BY <1>2, <1>5 DEF ServingInv
<1> QED
  BY <1>1, <1>3, <1>5, <1>6, <1>7, <1>8, <1>9, <1>10, GenerationsStep DEF OwnerLabels, new

-----------------------------------------------------------------------------
(* The handler's steps: activation. *)

\* A step of the owner that selects or loads one of the intent's generations,
\* and the source only while it can be restored.
LEMMA ActivationStep ==
    ASSUME IndInv, PublicationInv, NEW j \in Jobs, lock \in {None, j}, intent # None, intent.job = j,
           UNCHANGED <<jobVars, intent, tenantVars, releaseVars, gens, ids>>,
           active' \in {intent.srcGen, intent.candGen},
           running' \in {intent.srcGen, intent.candGen, None},
           running' \in DOMAIN gens \cup {None},
           SourceReleasePresent(intent) \/ (active' = intent.candGen /\ running' # intent.srcGen),
           \A k \in Jobs \ {j} : worker'[k] = worker[k], KnownInv(j)'
    PROVE  PublicationInv'
<1>1. DurableInv /\ RecordInv(j)
  BY DEF PublicationInv
<1>2. UNCHANGED <<jobs, results, audit, intent, releases, staged>>
  BY DEF jobVars, releaseVars
<1>3. BindingKept(intent.job)
  BY <1>2 DEF BindingKept
<1>4. DurableInv'
  BY <1>1, <1>2, <1>3, DurableKept
<1>5. RecordInv(j)'
  BY <1>1, <1>2 DEF RecordInv
<1> QED
  BY <1>2, <1>4, <1>5, OneWorker

\* What a worker must know where it is activating.
LEMMA ActivationKnown ==
    ASSUME NEW j \in Jobs, worker'[j].pc \in PairLabels,
           UNCHANGED <<intent, releases>>,
           worker'[j].permitted <=> SourceReleasePresent(intent),
           intent.dep \in releases[intent.tenant],
           worker'[j].pc \in RestoringLabels => worker'[j].permitted,
           worker'[j].pc \in {"reload", "verifyCandidate", "admit"} => active' = intent.candGen,
           worker'[j].pc = "admit" => running' # intent.srcGen
    PROVE  KnownInv(j)'
<1>1. SourceReleasePresent(intent)' <=> SourceReleasePresent(intent)
  BY DEF SourceReleasePresent
<1> QED
  BY <1>1 DEF KnownInv, FreshLabels, BindLabels, PairLabels, RestoringLabels, CommitLabels

\* A step of activation preserves the invariant: the source is selected and
\* loaded by workers that may restore it only.
LEMMA ActivateKeeps ==
    ASSUME IndInv, PublicationInv, NEW j \in Jobs,
           \/ ActivateStep(j)
           \/ ActivateCapacityFault(j) \/ VerifySourceFault(j) \/ SelectFault(j) \/ ReloadFault(j)
           \/ VerifyCandidateFault(j) \/ RestoreFault(j)
    PROVE  PublicationInv'
<1> USE DEF At, Holds, Unlocked
<1> DEFINE i == intent
           Step == /\ UNCHANGED <<jobVars, intent, tenantVars, releaseVars, gens, ids>>
                   /\ \A k \in Jobs \ {j} : worker'[k] = worker[k]
<1>1. worker[j].pc \in PairLabels \cup {"activate"} /\ lock \in {None, j}
  BY DEF ActivateStep, Activate, VerifySource, SelectCandidate, Reload, VerifyCandidate, RestoreSelect,
     RestoreLoad, ActivateCapacityFault, VerifySourceFault, SelectFault, ReloadFault,
     VerifyCandidateFault, RestoreFault, PairLabels
<1>2. WorkerInv(j) /\ KnownInv(j) /\ DurableInv /\ worker \in [Jobs -> WorkerRecord] /\ HostTypeOK
  BY DEF IndInv, PublicationInv, HostTypeOK
<1>3. i # None /\ i.job = j
  BY <1>1, <1>2 DEF WorkerInv, KnownInv, OwnerLabels
<1>4. BoundInv(i) /\ ServingInv(i) /\ i.srcGen # i.candGen
  BY <1>2, <1>3 DEF DurableInv, TransitionInv, BoundInv
<1>5. /\ i.srcGen \in DOMAIN gens /\ i.candGen \in DOMAIN gens
      /\ i.dep \in releases[i.tenant] /\ (worker[j].permitted <=> SourceReleasePresent(i))
  BY <1>1, <1>2, <1>4 DEF WorkerInv, KnownInv, ServingInv
<1>6. None # i.srcGen /\ None # i.candGen
  BY <1>2, <1>3, IntentTyped, NoneAssumption DEF Ids
<1>7. /\ active \in {i.srcGen, i.candGen} /\ running \in {i.srcGen, i.candGen, None}
      /\ ~SourceReleasePresent(i) => active = i.candGen /\ running # i.srcGen
  BY <1>4 DEF ServingInv
<1>8. ASSUME Step, active' \in {i.srcGen, i.candGen}, running' \in {i.srcGen, i.candGen, None},
             worker[j].permitted \/ (active' = i.candGen /\ running' # i.srcGen), KnownInv(j)'
      PROVE  PublicationInv'
  <2>1. running' \in DOMAIN gens \cup {None}
    BY <1>5, <1>8
  <2>2. SourceReleasePresent(intent) \/ (active' = i.candGen /\ running' # i.srcGen)
    BY <1>5, <1>8
  <2> QED
    BY <1>1, <1>3, <1>8, <2>1, <2>2, ActivationStep
<1>9. ASSUME NEW label \in PairLabels, Goto(j, label), UNCHANGED <<intent, releaseVars>>,
             label \in RestoringLabels => worker[j].permitted,
             label \in {"reload", "verifyCandidate", "admit"} => active' = i.candGen,
             label = "admit" => running' # i.srcGen
      PROVE  KnownInv(j)' /\ \A k \in Jobs \ {j} : worker'[k] = worker[k]
  <2>1. /\ worker'[j].pc = label /\ worker'[j].permitted = worker[j].permitted
        /\ \A k \in Jobs \ {j} : worker'[k] = worker[k]
    BY <1>2, <1>9, MovedPermit DEF Labels, PairLabels, ActivateLabels, CommitLabels
  <2> QED
    BY <1>5, <1>9, <2>1, ActivationKnown DEF releaseVars
<1>10. ASSUME RetryOnce(j) \/ Stop(j)
       PROVE  KnownInv(j)' /\ \A k \in Jobs \ {j} : worker'[k] = worker[k]
  BY <1>2, <1>10, EndedKnown
<1>11. worker[j].pc \in RestoringLabels => worker[j].permitted
  BY <1>2 DEF KnownInv
<1>12. worker[j].pc \in {"reload", "verifyCandidate"} => active = i.candGen
  BY <1>2 DEF KnownInv
<1>13. /\ {"verifySource", "select", "reload", "verifyCandidate", "restoreSelect", "restoreLoad", "admit"} = PairLabels
       /\ {"verifySource", "select", "reload", "restoreSelect", "restoreLoad"} = RestoringLabels
  BY DEF PairLabels, RestoringLabels
<1>14. Loaded(i.srcGen) \in {i.srcGen, None}
  BY DEF Loaded
<1>15. CASE Activate(j)
  <2>1. \/ Goto(j, "verifySource") /\ worker[j].permitted
        \/ Goto(j, "verifyCandidate") /\ active = i.candGen
        \/ RetryOnce(j)
    BY <1>15 DEF Activate
  <2>2. UNCHANGED <<jobVars, intent, tenantVars, releaseVars, gens, ids, active, running>>
    BY <1>15 DEF Activate, caddyVars, unitVars
  <2>3. KnownInv(j)' /\ \A k \in Jobs \ {j} : worker'[k] = worker[k]
    BY <1>9, <1>10, <1>13, <2>1, <2>2
  <2> QED
    BY <1>5, <1>7, <1>8, <2>2, <2>3
<1>16. CASE ActivateCapacityFault(j)
  <2>1. (Goto(j, "restoreSelect") /\ worker[j].permitted) \/ Stop(j)
    BY <1>16 DEF ActivateCapacityFault
  <2>2. UNCHANGED <<jobVars, intent, tenantVars, releaseVars, gens, ids, active, running>>
    BY <1>16 DEF ActivateCapacityFault, caddyVars, unitVars
  <2>3. KnownInv(j)' /\ \A k \in Jobs \ {j} : worker'[k] = worker[k]
    BY <1>9, <1>10, <1>13, <2>1, <2>2
  <2> QED
    BY <1>5, <1>7, <1>8, <2>2, <2>3
<1>17. CASE VerifySource(j) \/ VerifySourceFault(j)
  <2>1. Goto(j, "select") \/ Goto(j, "restoreSelect")
    BY <1>17 DEF VerifySource, VerifySourceFault
  <2>2. /\ UNCHANGED <<jobVars, intent, tenantVars, releaseVars, gens, ids, active>>
        /\ running' \in {running, Loaded(i.srcGen)} /\ worker[j].permitted
    BY <1>11, <1>13, <1>17 DEF VerifySource, VerifySourceFault
  <2>3. KnownInv(j)' /\ \A k \in Jobs \ {j} : worker'[k] = worker[k]
    BY <1>9, <1>13, <2>1, <2>2
  <2> QED
    BY <1>7, <1>8, <1>14, <2>2, <2>3
<1>18. CASE SelectCandidate(j)
  <2>1. /\ UNCHANGED <<jobVars, intent, tenantVars, releaseVars, gens, ids, running>>
        /\ active' = i.candGen /\ worker[j].permitted /\ Goto(j, "reload")
    BY <1>11, <1>13, <1>18 DEF SelectCandidate
  <2>2. KnownInv(j)' /\ \A k \in Jobs \ {j} : worker'[k] = worker[k]
    BY <1>9, <1>13, <2>1
  <2> QED
    BY <1>7, <1>8, <2>1, <2>2
<1>19. CASE SelectFault(j)
  <2>1. /\ UNCHANGED <<jobVars, intent, tenantVars, releaseVars, gens, ids, running>>
        /\ active' \in {active, i.candGen} /\ worker[j].permitted /\ Goto(j, "restoreSelect")
    BY <1>11, <1>13, <1>19 DEF SelectFault
  <2>2. KnownInv(j)' /\ \A k \in Jobs \ {j} : worker'[k] = worker[k]
    BY <1>9, <1>13, <2>1
  <2> QED
    BY <1>7, <1>8, <2>1, <2>2
<1>20. CASE Reload(j) \/ ReloadFault(j)
  <2>1. /\ UNCHANGED <<jobVars, intent, tenantVars, releaseVars, gens, ids, active>>
        /\ worker[j].permitted /\ active = i.candGen
        /\ \/ running' = i.candGen /\ Goto(j, "admit")
           \/ running' \in {running, i.candGen} /\ Goto(j, "restoreSelect")
    BY <1>11, <1>12, <1>13, <1>20 DEF Reload, ReloadFault
  <2>2. KnownInv(j)' /\ \A k \in Jobs \ {j} : worker'[k] = worker[k]
    BY <1>4, <1>9, <1>13, <2>1
  <2> QED
    BY <1>7, <1>8, <2>1, <2>2
<1>21. CASE VerifyCandidate(j) \/ VerifyCandidateFault(j)
  <2>1. /\ UNCHANGED <<jobVars, intent, tenantVars, releaseVars, gens, ids, active>>
        /\ active = i.candGen /\ running' \in {running, i.candGen}
        /\ \/ running' = i.candGen /\ Goto(j, "admit")
           \/ Goto(j, "restoreSelect") /\ worker[j].permitted
           \/ RetryOnce(j)
    BY <1>12, <1>21 DEF VerifyCandidate, VerifyCandidateFault, CandidateFailure
  <2>2. KnownInv(j)' /\ \A k \in Jobs \ {j} : worker'[k] = worker[k]
    BY <1>4, <1>9, <1>10, <1>13, <2>1
  <2>3. worker[j].permitted \/ (active' = i.candGen /\ running' # i.srcGen)
    BY <1>4, <1>5, <1>7, <2>1
  <2> QED
    BY <1>7, <1>8, <2>1, <2>2, <2>3
<1>22. CASE RestoreSelect(j)
  <2>1. /\ UNCHANGED <<jobVars, intent, tenantVars, releaseVars, gens, ids, running>>
        /\ active' = i.srcGen /\ worker[j].permitted /\ Goto(j, "restoreLoad")
    BY <1>11, <1>13, <1>22 DEF RestoreSelect
  <2>2. KnownInv(j)' /\ \A k \in Jobs \ {j} : worker'[k] = worker[k]
    BY <1>9, <1>13, <2>1
  <2> QED
    BY <1>7, <1>8, <2>1, <2>2
<1>23. CASE RestoreLoad(j) \/ RestoreFault(j)
  <2>1. /\ UNCHANGED <<jobVars, intent, tenantVars, releaseVars, gens, ids>>
        /\ active' \in {active, i.srcGen} /\ running' \in {running, Loaded(i.srcGen)}
        /\ worker[j].permitted /\ (RetryOnce(j) \/ Stop(j))
    BY <1>11, <1>13, <1>23 DEF RestoreLoad, RestoreFault
  <2>2. KnownInv(j)' /\ \A k \in Jobs \ {j} : worker'[k] = worker[k]
    BY <1>10, <2>1
  <2> QED
    BY <1>7, <1>8, <1>14, <2>1, <2>2
<1> QED
  BY <1>15, <1>16, <1>17, <1>18, <1>19, <1>20, <1>21, <1>22, <1>23 DEF ActivateStep

-----------------------------------------------------------------------------
(* The handler's steps: the terminal commit. *)

\* The stages of a transition are a matter of its tenant's records.
LEMMA StagesKept ==
    ASSUME intent' = intent, BindingKept(intent.job),
           desired'[intent.tenant] = desired[intent.tenant],
           observed'[intent.tenant] = observed[intent.tenant],
           deployments'[intent.tenant] = deployments[intent.tenant],
           releases'[intent.tenant] = releases[intent.tenant]
    PROVE  /\ Untouched(intent) => Untouched(intent)'
           /\ Recorded(intent) => Recorded(intent)'
           /\ Desired(intent) => Desired(intent)'
           /\ Served(intent) => Served(intent)'
           /\ ReleasesRetired(intent) => ReleasesRetired(intent)'
           /\ Retained(intent) => Retained(intent)'
<1>1. /\ Dispatched(intent)' = Dispatched(intent)
      /\ TransitionHistory(intent)' = TransitionHistory(intent)
      /\ TerminalHistory(intent)' = TerminalHistory(intent)
      /\ CandidateObserved(intent)' = CandidateObserved(intent)
  BY HistoriesKept DEF BindingKept
<1>2. Untouched(intent) => Untouched(intent)'
  BY <1>1 DEF Untouched
<1>3. Recorded(intent) => Recorded(intent)'
  BY <1>1 DEF Recorded, AllKept
<1>4. Desired(intent) => Desired(intent)'
  BY <1>1 DEF Desired, AllKept
<1>5. Served(intent) => Served(intent)'
  BY <1>1 DEF Served
<1>6. ReleasesRetired(intent) => ReleasesRetired(intent)'
  BY <1>1, <1>5 DEF ReleasesRetired
<1>7. Retained(intent) => Retained(intent)'
  BY <1>1, <1>6 DEF Retained
<1> QED
  BY <1>2, <1>3, <1>4, <1>5, <1>6, <1>7

\* The identities a transition is about have been drawn.
LEMMA HistoryDrawn ==
    ASSUME HostTypeOK, intent # None, BoundInv(intent)
    PROVE  /\ \A d \in TransitionHistory(intent) : d >= 1 /\ d <= ids
           /\ intent.src.gen <= ids /\ CandidateObserved(intent).gen <= ids
<1>1. /\ Dispatched(intent) \in SUBSET Nat /\ intent.dep \in Nat /\ intent.src.dep \in Nat
      /\ intent.src.gen \in Nat /\ intent.candGen \in Nat /\ ids \in Nat
  BY IntentTyped DEF HostTypeOK
<1>2. TransitionHistory(intent) = Dispatched(intent) \cup {intent.dep}
  BY Histories
<1>3. /\ \A d \in Dispatched(intent) : d >= 1 /\ d <= intent.src.dep
      /\ IF intent.op = "rollback" THEN intent.dep \in Dispatched(intent) ELSE intent.dep > intent.src.dep
      /\ intent.src.dep <= ids /\ intent.dep <= ids /\ intent.candGen <= ids /\ intent.src.gen < intent.candGen
  BY DEF BoundInv
<1>4. intent.dep >= 1
  BY <1>1, <1>3
<1>5. \A d \in Dispatched(intent) : d >= 1 /\ d <= ids
  BY <1>1, <1>3
<1>6. CandidateObserved(intent).gen = intent.candGen
  BY DEF CandidateObserved
<1> QED
  BY <1>1, <1>2, <1>3, <1>4, <1>5, <1>6

\* A step of the commit writes records of the transition's tenant and of its
\* job only.
LEMMA CommitStepKeeps ==
    ASSUME IndInv, PublicationInv, NEW j \in Jobs, worker[j].pc \in CommitLabels,
           UNCHANGED <<intent, staged, gens, active, running, ids>>, BindingKept(intent.job),
           \A k \in Jobs \ {j} : /\ worker'[k] = worker[k] /\ jobs'[k] = jobs[k]
                                 /\ results'[k] = results[k]
                                 /\ (InChain(audit', k) => InChain(audit, k)),
           \A u \in Tenants \ {intent.tenant} :
              /\ releases'[u] = releases[u] /\ deployments'[u] = deployments[u]
              /\ desired'[u] = desired[u] /\ observed'[u] = observed[u],
           observed' \in {observed, [observed EXCEPT ![intent.tenant] = CandidateObserved(intent)]},
           deployments'[intent.tenant] \subseteq TransitionHistory(intent),
           intent.dep \in releases'[intent.tenant],
           ProgressInv(intent)', RecordInv(j)', KnownInv(j)'
    PROVE  PublicationInv'
<1> DEFINE t == intent.tenant
<1>1. /\ lock = j /\ intent # None /\ intent.job = j
      /\ BoundInv(intent) /\ ProgressInv(intent) /\ ServingInv(intent) /\ OthersInv(intent)
      /\ HostTypeOK /\ IdsInv /\ KnownInv(j)
  BY OwnerFacts DEF OwnerLabels, PairLabels, CommitLabels
<1>2. active = intent.candGen /\ running # intent.srcGen
  BY <1>1 DEF KnownInv
<1>3. t \in Tenants /\ observed \in [Tenants -> Observed]
  BY <1>1, IntentTyped DEF HostTypeOK
<1>4. /\ \A d \in TransitionHistory(intent) : d >= 1 /\ d <= ids
      /\ CandidateObserved(intent).gen <= ids
  BY <1>1, HistoryDrawn
<1>5. IdsInv'
  <2>1. observed'[t].gen <= ids
    BY <1>1, <1>3, <1>4 DEF IdsInv
  <2>2. \A d \in deployments'[t] : d >= 1 /\ d <= ids
    BY <1>4
  <2>3. \A u \in Tenants : observed'[u].gen <= ids /\ \A d \in deployments'[u] : d >= 1 /\ d <= ids
    BY <1>1, <2>1, <2>2 DEF IdsInv
  <2> QED
    BY <1>1, <2>3 DEF IdsInv
<1>6. BoundInv(intent)'
  BY <1>1, BoundKept
<1>7. ServingInv(intent)'
  <2>1. CandidateObserved(intent)' = CandidateObserved(intent)
    BY DEF CandidateObserved
  <2>2. \A o : [observed' EXCEPT ![t] = o] = [observed EXCEPT ![t] = o]
    BY <1>3
  <2> QED
    BY <1>1, <1>2, <2>1, <2>2 DEF ServingInv
<1>8. OthersInv(intent)'
  <2>1. \A u \in Tenants \ {t} : Settled(u)'
    BY <1>1, SettledKept DEF OthersInv
  <2> QED
    BY <2>1 DEF OthersInv
<1>9. DurableInv'
  BY <1>1, <1>5, <1>6, <1>7, <1>8 DEF DurableInv, QuietInv, TransitionInv
<1> QED
  BY <1>1, <1>9, OneWorker

\* What a worker must know where it is committing.
LEMMA CommitKnown ==
    ASSUME NEW j \in Jobs, worker'[j].pc \in CommitLabels \ {"admit"}, UNCHANGED <<intent, active, running>>,
           active = intent.candGen, running # intent.srcGen,
           worker'[j].pc = "deployment" => intent.dep \in releases'[intent.tenant],
           worker'[j].pc = "desired" => (AllKept(intent) \/ Served(intent))',
           worker'[j].pc = "observed" => (Desired(intent) \/ Served(intent))',
           worker'[j].pc = "retireReleases" => Served(intent)',
           worker'[j].pc = "retireRecords" => ReleasesRetired(intent)',
           worker'[j].pc \in {"audit", "result", "job", "removeIntent"} => Retained(intent)'
    PROVE  KnownInv(j)'
  BY DEF KnownInv, FreshLabels, BindLabels, PairLabels, RestoringLabels, CommitLabels

\* Admission to the commit, and the capacity fault in its place.
LEMMA AdmitKeeps ==
    ASSUME IndInv, PublicationInv, NEW j \in Jobs, AdmitCommit(j) \/ CommitCapacityFault(j)
    PROVE  PublicationInv'
<1>1. worker[j].pc = "admit"
  BY DEF AdmitCommit, CommitCapacityFault, Holds, At
<1>2. lock = j /\ intent # None /\ intent.job = j /\ KnownInv(j) /\ worker \in [Jobs -> WorkerRecord]
  BY <1>1, OwnerFacts DEF OwnerLabels, PairLabels
<1>3. /\ active = intent.candGen /\ running # intent.srcGen
      /\ intent.dep \in releases[intent.tenant] /\ (worker[j].permitted <=> SourceReleasePresent(intent))
  BY <1>1, <1>2 DEF KnownInv, CommitLabels, PairLabels
<1>4. UNCHANGED <<jobVars, intent, tenantVars, releases, staged, caddyVars, ids>>
  BY DEF AdmitCommit, CommitCapacityFault, releaseVars
<1>5. active' = active /\ running' = running
  BY <1>4 DEF caddyVars, unitVars
<1>6. ASSUME \A k \in Jobs \ {j} : worker'[k] = worker[k], KnownInv(j)'
      PROVE  PublicationInv'
  BY <1>2, <1>4, <1>6, OnlyMoves
<1>7. CASE Goto(j, "deployment")
  <2>1. worker'[j].pc = "deployment" /\ \A k \in Jobs \ {j} : worker'[k] = worker[k]
    BY <1>2, <1>7, MovedPermit DEF Labels, CommitLabels
  <2>2. KnownInv(j)'
    BY <1>3, <1>4, <1>5, <2>1, CommitKnown DEF CommitLabels
  <2> QED
    BY <1>6, <2>1, <2>2
<1>8. CASE Goto(j, "restoreSelect") /\ worker[j].permitted
  <2>1. /\ worker'[j].pc = "restoreSelect" /\ worker'[j].permitted = worker[j].permitted
        /\ \A k \in Jobs \ {j} : worker'[k] = worker[k]
    BY <1>2, <1>8, MovedPermit DEF Labels, ActivateLabels
  <2>2. KnownInv(j)'
    BY <1>3, <1>4, <1>8, <2>1, ActivationKnown DEF PairLabels
  <2> QED
    BY <1>6, <2>1, <2>2
<1>9. CASE Stop(j) \/ RetryOnce(j)
  BY <1>2, <1>6, <1>9, EndedKnown
<1> QED
  BY <1>7, <1>8, <1>9 DEF AdmitCommit, CommitCapacityFault

\* The writes of the commit, from the deployment record to the last retired one.
LEMMA CommitWritesKeep ==
    ASSUME IndInv, PublicationInv, NEW j \in Jobs,
           \/ CommitDeployment(j) \/ CommitDesired(j) \/ CommitObserved(j)
           \/ RetireReleases(j) \/ RetireRecords(j)
    PROVE  PublicationInv'
<1> USE DEF At, Holds
<1> DEFINE i == intent
           t == intent.tenant
           H == TransitionHistory(intent)
           T == TerminalHistory(intent)
<1>1. worker[j].pc \in {"deployment", "desired", "observed", "retireReleases", "retireRecords"}
  BY DEF CommitDeployment, CommitDesired, CommitObserved, RetireReleases, RetireRecords
<1>2. worker[j].pc \in CommitLabels /\ worker[j].pc \in OwnerLabels
  BY <1>1 DEF CommitLabels, OwnerLabels
<1>3. /\ i # None /\ i.job = j /\ BoundInv(i) /\ ProgressInv(i) /\ HostTypeOK /\ RecordInv(j) /\ KnownInv(j)
      /\ worker \in [Jobs -> WorkerRecord]
  BY <1>2, OwnerFacts
<1>4. active = i.candGen /\ running # i.srcGen
  BY <1>2, <1>3 DEF KnownInv
<1>5. /\ t \in Tenants /\ desired \in [Tenants -> Ids] /\ observed \in [Tenants -> Observed]
      /\ deployments \in [Tenants -> SUBSET Ids] /\ releases \in [Tenants -> SUBSET Ids]
  BY <1>3, IntentTyped DEF HostTypeOK
<1>6. H = Dispatched(i) \cup {i.dep} /\ T \subseteq H /\ i.dep \in T
  BY <1>3, Histories, TerminalFacts
<1>7. UNCHANGED <<jobs, results, audit, intent, staged, gens, active, running, ids>>
  BY DEF CommitDeployment, CommitDesired, CommitObserved, RetireReleases, RetireRecords,
     jobVars, tenantVars, releaseVars, caddyVars, unitVars
<1>8. BindingKept(intent.job)
  BY <1>7 DEF BindingKept
<1>9. /\ Dispatched(i)' = Dispatched(i) /\ TransitionHistory(i)' = H
      /\ TerminalHistory(i)' = T /\ CandidateObserved(i)' = CandidateObserved(i)
  BY <1>7, HistoriesKept
<1> HIDE DEF H, T
<1>10. RecordInv(j)'
  BY <1>3, <1>7 DEF RecordInv
<1>11. ASSUME \A k \in Jobs \ {j} : worker'[k] = worker[k],
              worker'[j].pc \in CommitLabels \ {"admit", "deployment"},
              \A u \in Tenants \ {t} : /\ releases'[u] = releases[u] /\ deployments'[u] = deployments[u]
                                       /\ desired'[u] = desired[u] /\ observed'[u] = observed[u],
              observed' \in {observed, [observed EXCEPT ![t] = CandidateObserved(i)]},
              deployments'[t] \subseteq H, i.dep \in releases'[t],
              (Untouched(i) \/ Recorded(i) \/ Desired(i) \/ Served(i))',
              worker'[j].pc = "desired" => (AllKept(i) \/ Served(i))',
              worker'[j].pc = "observed" => (Desired(i) \/ Served(i))',
              worker'[j].pc = "retireReleases" => Served(i)',
              worker'[j].pc = "retireRecords" => ReleasesRetired(i)',
              worker'[j].pc \in {"audit", "result", "job", "removeIntent"} => Retained(i)'
       PROVE  PublicationInv'
  <2>1. KnownInv(j)'
    BY <1>4, <1>7, <1>11, CommitKnown
  <2>2. ProgressInv(i)'
    <3>1. (InChain(audit, i.job) => audit[Len(audit)] = i.job)'
      BY <1>3, <1>7 DEF ProgressInv
    <3> QED
      BY <1>7, <1>11, <3>1 DEF ProgressInv
  <2>3. \A k \in Jobs \ {j} : /\ worker'[k] = worker[k] /\ jobs'[k] = jobs[k]
                              /\ results'[k] = results[k]
                              /\ (InChain(audit', k) => InChain(audit, k))
    BY <1>7, <1>11
  <2> QED
    BY <1>2, <1>7, <1>8, <1>10, <1>11, <2>1, <2>2, <2>3, CommitStepKeeps DEF H
<1>12. CASE CommitDeployment(j)
  <2>1. /\ deployments' = [deployments EXCEPT ![t] = deployments[t] \cup {i.dep}]
        /\ UNCHANGED <<desired, observed, releases>> /\ worker[j].pc = "deployment"
    BY <1>12 DEF CommitDeployment, releaseVars
  <2>2. worker'[j].pc = "desired" /\ \A k \in Jobs \ {j} : worker'[k] = worker[k]
    BY <1>3, <1>12, MovedPermit DEF CommitDeployment, Labels, CommitLabels
  <2>3. /\ deployments'[t] = deployments[t] \cup {i.dep}
        /\ \A u \in Tenants \ {t} : deployments'[u] = deployments[u]
    BY <1>5, <2>1
  <2>4. i.dep \in releases[t]
    BY <1>3, <2>1 DEF KnownInv
  <2>5. CASE Untouched(i)
    <3>1. Recorded(i)'
      BY <1>6, <1>7, <1>9, <2>1, <2>3, <2>4, <2>5 DEF Recorded, AllKept, Untouched, H
    <3>2. AllKept(i)' /\ deployments'[t] \subseteq H
      BY <1>7, <1>9, <3>1 DEF Recorded, AllKept
    <3> QED
      BY <1>11, <2>1, <2>2, <2>3, <2>4, <3>1, <3>2 DEF CommitLabels
  <2>6. CASE ~Untouched(i)
    <3>1. Recorded(i) \/ Desired(i) \/ Served(i)
      BY <1>3, <2>6 DEF ProgressInv
    <3>2. deployments'[t] = deployments[t] /\ deployments[t] \subseteq H
      BY <1>6, <2>3, <3>1 DEF Recorded, Desired, AllKept, Served, H, T
    <3>3. (Recorded(i) \/ Desired(i) \/ Served(i))'
      BY <1>7, <1>8, <2>1, <3>1, <3>2, StagesKept
    <3>4. (AllKept(i) \/ Served(i))'
      BY <3>3 DEF Recorded, Desired
    <3> QED
      BY <1>11, <2>1, <2>2, <2>3, <2>4, <3>2, <3>3, <3>4 DEF CommitLabels
  <2> QED
    BY <2>5, <2>6
<1>13. CASE CommitDesired(j)
  <2>1. /\ desired' = [desired EXCEPT ![t] = i.dep]
        /\ UNCHANGED <<observed, deployments, releases>> /\ worker[j].pc = "desired"
    BY <1>13 DEF CommitDesired, releaseVars
  <2>2. worker'[j].pc = "observed" /\ \A k \in Jobs \ {j} : worker'[k] = worker[k]
    BY <1>3, <1>13, MovedPermit DEF CommitDesired, Labels, CommitLabels
  <2>3. desired'[t] = i.dep /\ \A u \in Tenants \ {t} : desired'[u] = desired[u]
    BY <1>5, <2>1
  <2>4. AllKept(i) \/ Served(i)
    BY <1>3, <2>1 DEF KnownInv
  <2>5. CASE Served(i)
    <3>1. desired'[t] = desired[t] /\ deployments[t] \subseteq H /\ i.dep \in releases[t]
      BY <1>6, <2>3, <2>5 DEF Served, H, T
    <3>2. Served(i)'
      BY <1>7, <1>8, <2>1, <2>5, <3>1, StagesKept
    <3> QED
      BY <1>11, <2>1, <2>2, <2>3, <3>1, <3>2 DEF CommitLabels
  <2>6. CASE ~Served(i)
    <3>1. AllKept(i) /\ observed[t] = i.src
      BY <1>3, <2>4, <2>6 DEF ProgressInv, Untouched, Recorded, Desired
    <3>2. Desired(i)' /\ deployments[t] \subseteq H /\ i.dep \in releases[t]
      BY <1>6, <1>7, <1>9, <2>1, <2>3, <3>1 DEF Desired, AllKept, H
    <3> QED
      BY <1>11, <2>1, <2>2, <2>3, <3>2 DEF CommitLabels
  <2> QED
    BY <2>5, <2>6
<1>14. CASE CommitObserved(j)
  <2>1. /\ observed' = [observed EXCEPT ![t] = CandidateObserved(i)]
        /\ UNCHANGED <<desired, deployments, releases>> /\ worker[j].pc = "observed"
    BY <1>14 DEF CommitObserved, releaseVars
  <2>2. worker'[j].pc = "retireReleases" /\ \A k \in Jobs \ {j} : worker'[k] = worker[k]
    BY <1>3, <1>14, MovedPermit DEF CommitObserved, Labels, CommitLabels
  <2>3. observed'[t] = CandidateObserved(i) /\ \A u \in Tenants \ {t} : observed'[u] = observed[u]
    BY <1>5, <2>1
  <2>4. Desired(i) \/ Served(i)
    BY <1>3, <2>1 DEF KnownInv
  <2>5. Served(i)'
    BY <1>6, <1>7, <1>9, <2>1, <2>3, <2>4 DEF Desired, AllKept, Served, H, T
  <2>6. deployments[t] \subseteq H /\ i.dep \in releases[t]
    BY <1>6, <2>4 DEF Desired, AllKept, Served, H, T
  <2> QED
    BY <1>11, <2>1, <2>2, <2>3, <2>5, <2>6 DEF CommitLabels
<1>15. CASE RetireReleases(j)
  <2> DEFINE left == Retired(i) \cap releases[t]
  <2>1. UNCHANGED <<desired, observed, deployments>> /\ worker[j].pc = "retireReleases"
    BY <1>15 DEF RetireReleases, tenantVars
  <2>2. Served(i)
    BY <1>3, <2>1 DEF KnownInv
  <2>3. /\ T \subseteq releases[t] /\ releases[t] \subseteq deployments[t] /\ deployments[t] \subseteq H
        /\ desired[t] = i.dep /\ observed[t] = CandidateObserved(i)
        /\ deployments[t] = H \/ releases[t] = T
    BY <2>2 DEF Served, H, T
  <2>4. left = releases[t] \ T
    BY <2>3 DEF Retired, T
  <2>5. CASE left = {}
    <3>1. releases' = releases /\ Goto(j, "retireRecords")
      BY <1>15, <2>5 DEF RetireReleases
    <3>2. worker'[j].pc = "retireRecords" /\ \A k \in Jobs \ {j} : worker'[k] = worker[k]
      BY <1>3, <3>1, MovedPermit DEF Labels, CommitLabels
    <3>3. releases[t] = T
      BY <2>3, <2>4, <2>5
    <3>4. ReleasesRetired(i)
      BY <2>2, <3>3 DEF ReleasesRetired, T
    <3>5. ReleasesRetired(i)' /\ Served(i)'
      BY <1>7, <1>8, <2>1, <2>2, <3>1, <3>4, StagesKept
    <3> QED
      BY <1>6, <1>11, <2>1, <2>3, <3>1, <3>2, <3>5 DEF CommitLabels
  <2>6. CASE left # {}
    <3> DEFINE gone == {d \in left : \A e \in left : d <= e}
    <3>1. releases' = [releases EXCEPT ![t] = releases[t] \ gone] /\ worker' = worker
      BY <1>15, <2>6 DEF RetireReleases
    <3>2. T \subseteq releases[t] \ gone /\ releases[t] \ gone \subseteq releases[t]
      BY <2>3, <2>4
    <3> HIDE DEF gone, left
    <3>3. /\ releases'[t] = releases[t] \ gone
          /\ \A u \in Tenants \ {t} : releases'[u] = releases[u]
      BY <1>5, <3>1
    <3>4. deployments[t] = H
      BY <2>3, <2>4, <2>6
    <3>5. Served(i)'
      BY <1>7, <1>9, <2>1, <2>3, <3>2, <3>3, <3>4 DEF Served
    <3> QED
      BY <1>6, <1>11, <2>1, <2>3, <3>1, <3>2, <3>3, <3>5 DEF CommitLabels
  <2> QED
    BY <2>5, <2>6
<1>16. CASE RetireRecords(j)
  <2> DEFINE left == Retired(i)
  <2>1. UNCHANGED <<desired, observed, releases>> /\ worker[j].pc = "retireRecords"
    BY <1>16 DEF RetireRecords, releaseVars
  <2>2. ReleasesRetired(i) /\ Served(i)
    BY <1>3, <2>1 DEF KnownInv, ReleasesRetired
  <2>3. /\ releases[t] = T /\ T \subseteq deployments[t] /\ deployments[t] \subseteq H
        /\ desired[t] = i.dep /\ observed[t] = CandidateObserved(i)
    BY <2>2 DEF ReleasesRetired, Served, H, T
  <2>4. left = deployments[t] \ T
    BY DEF Retired, T
  <2>5. CASE left = {}
    <3>1. deployments' = deployments /\ Goto(j, "audit")
      BY <1>16, <2>5 DEF RetireRecords
    <3>2. worker'[j].pc = "audit" /\ \A k \in Jobs \ {j} : worker'[k] = worker[k]
      BY <1>3, <3>1, MovedPermit DEF Labels, CommitLabels
    <3>3. Retained(i)
      BY <2>2, <2>3, <2>4, <2>5 DEF Retained, T
    <3>4. Retained(i)' /\ Served(i)'
      BY <1>7, <1>8, <2>1, <2>2, <3>1, <3>3, StagesKept
    <3> QED
      BY <1>6, <1>11, <2>1, <2>3, <3>1, <3>2, <3>4 DEF CommitLabels
  <2>6. CASE left # {}
    <3> DEFINE gone == {d \in left : \A e \in left : d <= e}
    <3>1. deployments' = [deployments EXCEPT ![t] = deployments[t] \ gone] /\ worker' = worker
      BY <1>16, <2>6 DEF RetireRecords
    <3>2. T \subseteq deployments[t] \ gone /\ deployments[t] \ gone \subseteq deployments[t]
      BY <2>3, <2>4
    <3> HIDE DEF gone, left
    <3>3. /\ deployments'[t] = deployments[t] \ gone
          /\ \A u \in Tenants \ {t} : deployments'[u] = deployments[u]
      BY <1>5, <3>1
    <3>4. Served(i)' /\ ReleasesRetired(i)'
      BY <1>7, <1>9, <2>1, <2>3, <3>2, <3>3 DEF Served, ReleasesRetired
    <3> QED
      BY <1>6, <1>11, <2>1, <2>3, <3>1, <3>2, <3>3, <3>4 DEF CommitLabels
  <2> QED
    BY <2>5, <2>6
<1> QED
  BY <1>12, <1>13, <1>14, <1>15, <1>16

\* The audit entry, the result and the phase of the job.
LEMMA CommitJobKeeps ==
    ASSUME IndInv, PublicationInv, NEW j \in Jobs, CommitAudit(j) \/ CommitResult(j) \/ CommitJob(j)
    PROVE  PublicationInv'
<1> USE DEF At, Holds
<1> DEFINE i == intent
<1>1. worker[j].pc \in {"audit", "result", "job"}
  BY DEF CommitAudit, CommitResult, CommitJob
<1>2. worker[j].pc \in CommitLabels /\ worker[j].pc \in OwnerLabels
  BY <1>1 DEF CommitLabels, OwnerLabels
<1>3. /\ i # None /\ i.job = j /\ BoundInv(i) /\ ProgressInv(i) /\ HostTypeOK /\ RecordInv(j) /\ KnownInv(j)
      /\ worker \in [Jobs -> WorkerRecord]
  BY <1>2, OwnerFacts
<1>4. active = i.candGen /\ running # i.srcGen /\ Retained(i)
  BY <1>1, <1>2, <1>3 DEF KnownInv
<1>5. UNCHANGED <<intent, desired, observed, deployments, releases, staged, gens, active, running, ids>>
  BY DEF CommitAudit, CommitResult, CommitJob, tenantVars, releaseVars, caddyVars, unitVars
<1>6. /\ jobs \in [Jobs -> JobRecord] /\ results \in [Jobs -> {"none", "succeeded", "failed"}]
      /\ audit \in Seq(Jobs)
  BY <1>3 DEF HostTypeOK
<1>7. PICK label \in {"result", "job", "removeIntent"} : Goto(j, label)
  BY DEF CommitAudit, CommitResult, CommitJob
<1>8. worker'[j].pc = label /\ \A k \in Jobs \ {j} : worker'[k] = worker[k]
  BY <1>3, <1>7, MovedPermit DEF Labels, CommitLabels
<1>9. ASSUME BindingKept(j), jobs'[j].bound,
             \A k \in Jobs \ {j} : /\ jobs'[k] = jobs[k] /\ results'[k] = results[k]
                                   /\ (InChain(audit', k) => InChain(audit, k)),
             InChain(audit', j) => audit'[Len(audit')] = j
      PROVE  PublicationInv'
  <2>1. Retained(i)' /\ Served(i)'
    <3>1. BindingKept(i.job) /\ Served(i)
      BY <1>3, <1>4, <1>9 DEF Retained, ReleasesRetired
    <3> QED
      BY <1>4, <1>5, <3>1, StagesKept
  <2>2. KnownInv(j)'
    BY <1>4, <1>5, <1>8, <2>1, CommitKnown DEF CommitLabels
  <2>3. i.dep \in releases'[i.tenant] /\ deployments'[i.tenant] \subseteq TransitionHistory(i)
    <3>1. i.dep \in TerminalHistory(i)
      BY <1>3, TerminalFacts
    <3> QED
      BY <1>4, <1>5, <3>1 DEF Retained, ReleasesRetired, Served
  <2>4. ProgressInv(i)'
    BY <1>3, <1>5, <1>9, <2>1, <2>3 DEF ProgressInv
  <2>5. RecordInv(j)'
    BY <1>3, <1>5, <1>9 DEF RecordInv
  <2> QED
    BY <1>2, <1>3, <1>5, <1>8, <1>9, <2>2, <2>3, <2>4, <2>5, CommitStepKeeps
<1>10. jobs[j].bound /\ (InChain(audit, j) => audit[Len(audit)] = j)
  BY <1>3 DEF BoundInv, ProgressInv
<1>11. CASE CommitAudit(j)
  <2>1. jobs' = jobs /\ results' = results /\ audit' = IF InChain(audit, j) THEN audit ELSE Append(audit, j)
    BY <1>11 DEF CommitAudit, Audited, InChain
  <2>2. \A k \in Jobs \ {j} : InChain(audit', k) => InChain(audit, k)
    BY <1>6, <2>1, OnlyAppended
  <2>3. audit'[Len(audit')] = j
    <3>1. CASE InChain(audit, j)
      BY <1>10, <2>1, <3>1
    <3>2. CASE ~InChain(audit, j)
      BY <1>6, <2>1, <3>2
    <3> QED
      BY <3>1, <3>2
  <2>4. BindingKept(j)
    BY <2>1 DEF BindingKept
  <2> QED
    BY <1>9, <1>10, <2>1, <2>2, <2>3, <2>4
<1>12. CASE CommitResult(j)
  <2>1. jobs' = jobs /\ audit' = audit /\ results' = [results EXCEPT ![j] = "succeeded"]
    BY <1>12 DEF CommitResult
  <2>2. \A k \in Jobs \ {j} : results'[k] = results[k]
    BY <1>6, <2>1
  <2>3. BindingKept(j)
    BY <2>1 DEF BindingKept
  <2> QED
    BY <1>9, <1>10, <2>1, <2>2, <2>3
<1>13. CASE CommitJob(j)
  <2>1. results' = results /\ audit' = audit /\ jobs' = [jobs EXCEPT ![j].phase = "completed"]
    BY <1>13 DEF CommitJob
  <2>2. BindingKept(j)
    BY <1>6, <2>1, PhaseBinding
  <2>3. \A k \in Jobs \ {j} : jobs'[k] = jobs[k]
    BY <1>6, <2>1
  <2> QED
    BY <1>9, <1>10, <2>1, <2>2, <2>3 DEF BindingKept
<1> QED
  BY <1>11, <1>12, <1>13

\* Removing the intent leaves a settled host.
LEMMA RemoveIntentKeeps ==
    ASSUME IndInv, PublicationInv, NEW j \in Jobs, RemoveIntent(j)
    PROVE  PublicationInv'
<1> DEFINE i == intent
           t == intent.tenant
           T == TerminalHistory(intent)
<1>1. worker[j].pc = "removeIntent"
  BY DEF RemoveIntent, Holds, At
<1>2. /\ lock = j /\ i # None /\ i.job = j /\ BoundInv(i) /\ ServingInv(i) /\ OthersInv(i)
      /\ HostTypeOK /\ IdsInv /\ RecordInv(j) /\ KnownInv(j) /\ WorkerInv(j)
      /\ worker \in [Jobs -> WorkerRecord] /\ active \in DOMAIN gens
  BY <1>1, OwnerFacts DEF OwnerLabels, CommitLabels, IndInv
<1>3. active = i.candGen /\ running # i.srcGen /\ Retained(i)
  BY <1>1, <1>2 DEF KnownInv, CommitLabels
<1>4. /\ intent' = None
      /\ UNCHANGED <<jobs, results, audit, desired, observed, deployments, releases, gens, active, running, ids>>
  BY DEF RemoveIntent, jobVars, tenantVars, releaseVars, caddyVars, unitVars
<1>5. t \in Tenants /\ observed \in [Tenants -> Observed]
  BY <1>2, IntentTyped DEF HostTypeOK
<1>6. /\ i.dep \in T /\ (\A d \in T : d <= i.dep) /\ Cardinality(T) <= MaxRetained
  BY <1>2, TerminalFacts
<1>7. /\ releases[t] = T /\ deployments[t] = T /\ desired[t] = i.dep
      /\ observed[t] = CandidateObserved(i) /\ CandidateObserved(i).dep = i.dep
  BY <1>3 DEF Retained, ReleasesRetired, Served, CandidateObserved
<1> HIDE DEF T
<1>8. Settled(t)
  BY <1>6, <1>7 DEF Settled
<1>9. \A u \in Tenants : Settled(u)
  BY <1>2, <1>8 DEF OthersInv
<1>10. gens[active] = observed
  <2>1. gens[active] = [observed EXCEPT ![t] = CandidateObserved(i)]
    BY <1>2, <1>3 DEF ServingInv
  <2> QED
    BY <1>5, <1>7, <2>1
<1>11. running \in {active, None}
  BY <1>2, <1>3 DEF ServingInv
<1>12. DurableInv'
  <2>1. \A u \in Tenants : Settled(u)'
    BY <1>4, <1>9, SettledKept
  <2>2. IdsInv'
    BY <1>2, <1>4 DEF IdsInv
  <2> QED
    BY <1>4, <1>10, <1>11, <2>1, <2>2 DEF DurableInv, QuietInv
<1>13. worker'[j].pc = "validate" /\ \A k \in Jobs \ {j} : worker'[k] = worker[k]
  BY <1>2, MovedPermit DEF RemoveIntent, Labels, ExecutorLabels
<1>14. KnownInv(j)'
  BY <1>13, FreeKnown
<1>15. RecordInv(j)'
  <2>1. results[j] # "none"
    BY <1>1, <1>2 DEF WorkerInv
  <2> QED
    BY <1>2, <1>4, <2>1 DEF RecordInv
<1> QED
  BY <1>2, <1>4, <1>12, <1>13, <1>14, <1>15, OneWorker

-----------------------------------------------------------------------------
(* Issuance, handoff, crashes and the Caddy unit. *)

\* A step of nobody's transition: Caddy may stop, or start what is active when
\* nobody is committing, and workers may stop.
LEMMA UnitKeeps ==
    ASSUME IndInv, PublicationInv,
           UNCHANGED <<jobVars, intent, tenantVars, releaseVars, gens, active, ids>>,
           running' \in {running, None, active},
           \A k \in Jobs : \/ /\ worker'[k] = worker[k]
                              /\ running' \in {running, None} \/ worker[k].pc \notin CommitLabels
                           \/ KnownInv(k)'
    PROVE  PublicationInv'
<1>1. DurableInv /\ HostTypeOK
  BY DEF PublicationInv, IndInv
<1>2. UNCHANGED <<jobs, results, audit, releases, staged>>
  BY DEF jobVars, releaseVars
<1>3. BindingKept(intent.job)
  BY <1>2 DEF BindingKept
<1>4. DurableInv'
  BY <1>1, <1>2, <1>3, QuietStep
<1>5. ASSUME NEW k \in Jobs
      PROVE  RecordInv(k)' /\ KnownInv(k)'
  <2>1. RecordInv(k)'
    BY <1>2 DEF PublicationInv, RecordInv
  <2>2. WorkerInv(k)
    BY DEF IndInv
  <2>3. worker[k].pc \in OwnerLabels => intent # None
    BY <2>2 DEF WorkerInv
  <2>4. CASE worker'[k] = worker[k] /\ (running' \in {running, None} \/ worker[k].pc \notin CommitLabels)
    BY <1>1, <2>3, <2>4, BystanderKnown
  <2>5. CASE KnownInv(k)'
    BY <2>1, <2>5
  <2> QED
    BY <2>4, <2>5
<1> QED
  BY <1>4, <1>5 DEF PublicationInv

\* Steps of the Caddy unit and its faults preserve the invariant.
LEMMA CaddyKeeps ==
    ASSUME IndInv, PublicationInv, CaddyStep \/ CaddyFault
    PROVE  PublicationInv'
<1>1. /\ UNCHANGED <<jobVars, intent, tenantVars, releaseVars, gens, active, ids>> /\ worker' = worker
      /\ running' \in {running, None, active}
      /\ lock = None \/ running' = None
  BY DEF CaddyStep, CaddyFault, StartGate, Launch, VerifyStart, ClearExhaustedOrdinaryStart, CaddyCrash,
     Unlocked, procVars
<1>2. ASSUME NEW k \in Jobs
      PROVE  running' \in {running, None} \/ worker[k].pc \notin CommitLabels
  <2>1. WorkerInv(k) /\ None # k
    BY ActorsAssumption DEF IndInv
  <2>2. worker[k].pc \in CommitLabels => lock = k
    BY <2>1 DEF WorkerInv, LockedLabels, OwnerLabels, PairLabels
  <2> QED
    BY <1>1, <2>1, <2>2
<1> QED
  BY <1>1, <1>2, UnitKeeps

\* The end of one worker, of all of them with the host, or the start of one.
LEMMA ProcessesKeep ==
    ASSUME IndInv, PublicationInv, HostCrash \/ \E j \in Jobs : Crash(j) \/ Handoff(j)
    PROVE  PublicationInv'
<1>1. worker \in [Jobs -> WorkerRecord]
  BY DEF IndInv, HostTypeOK
<1>2. CASE HostCrash
  <2>1. /\ worker' = [k \in Jobs |-> IdleWorker] /\ running' = None
        /\ UNCHANGED <<jobVars, intent, tenantVars, releaseVars, gens, active, ids>>
    BY <1>2 DEF HostCrash
  <2>2. IdleWorker.pc = "idle" /\ IdleWorker.permitted
    BY DEF IdleWorker
  <2>3. \A k \in Jobs : worker'[k].pc = "idle" /\ worker'[k].permitted
    BY <2>1, <2>2
  <2>4. \A k \in Jobs : KnownInv(k)'
    BY <2>3, FreeKnown
  <2> QED
    BY <2>1, <2>4, UnitKeeps
<1>3. ASSUME NEW j \in Jobs, Crash(j) \/ Handoff(j)
      PROVE  PublicationInv'
  <2>1. /\ UNCHANGED <<jobVars, intent, tenantVars, releaseVars, gens, active, ids>> /\ running' = running
    BY <1>3 DEF Crash, Handoff, caddyVars, unitVars
  <2>2. KnownInv(j)
    BY DEF PublicationInv
  <2>3. KnownInv(j)' /\ \A k \in Jobs \ {j} : worker'[k] = worker[k]
    <3>1. CASE Crash(j)
      BY <1>1, <3>1, EndedKnown DEF Crash
    <3>2. CASE Handoff(j)
      <4>1. worker[j].permitted
        BY <2>2, <3>2 DEF Handoff, At, KnownInv, FreshLabels
      <4>2. /\ worker'[j].pc = "start" /\ worker'[j].permitted = worker[j].permitted
            /\ \A k \in Jobs \ {j} : worker'[k] = worker[k]
        BY <1>1, <3>2, MovedPermit DEF Handoff, Labels, ExecutorLabels
      <4> QED
        BY <4>1, <4>2, FreeKnown
    <3> QED
      BY <1>3, <3>1, <3>2
  <2> QED
    BY <2>1, <2>3, UnitKeeps
<1> QED
  BY <1>2, <1>3

\* Issuing a job preserves the invariant.
LEMMA IssueKeeps ==
    ASSUME IndInv, PublicationInv, NEW j \in Jobs, IssueStep(j)
    PROVE  PublicationInv'
<1>1. JobInv(j) /\ RecordInv(j) /\ KnownInv(j) /\ jobs \in [Jobs -> JobRecord]
  BY DEF IndInv, PublicationInv, HostTypeOK
<1>0. PICK op \in Operations, t \in Tenants :
        \E target \in deployments[t] \cup {0} : Issue(j, op, t, target)
  BY DEF IssueStep
<1>2. PICK target \in deployments[t] \cup {0} : Issue(j, op, t, target)
  BY <1>0
<1> DEFINE new == [NoJob EXCEPT !.phase = "pending", !.op = op, !.tenant = t,
                                !.target = target, !.source = desired[t]]
<1>3. new.phase = "pending"
  BY DEF NoJob
<1>4. jobs' = [jobs EXCEPT ![j] = new] /\ intent = None /\ lock = None
  BY <1>2 DEF Issue, Unlocked
<1> HIDE DEF new
<1>5. jobs'[j] = new /\ \A k \in Jobs \ {j} : jobs'[k] = jobs[k]
  BY <1>1, <1>4
<1>6. UNCHANGED <<results, audit, intent, tenantVars, releases, caddyVars, ids, worker>>
  BY <1>2 DEF Issue, releaseVars, procVars
<1>7. worker[j].pc = "idle" /\ worker[j].permitted
  BY <1>1, <1>2 DEF Issue, JobInv, KnownInv, FreshLabels
<1>8. KnownInv(j)'
  BY <1>6, <1>7, FreeKnown
<1>9. RecordInv(j)'
  BY <1>1, <1>3, <1>4, <1>5, <1>6 DEF RecordInv
<1> QED
  BY <1>4, <1>5, <1>6, <1>8, <1>9, OwnRecords

\* The founded host satisfies the invariant.
LEMMA InitKeeps == Init => PublicationInv
<1> SUFFICES ASSUME Init PROVE PublicationInv
  OBVIOUS
<1> USE DEF Init, HostInit
<1>1. /\ Epoch \in Nat /\ Epoch >= 1 /\ Founded \in [Tenants -> 0..Epoch]
      /\ \A t \in Tenants : Founded[t] <= MaxRetained
  BY FoundedAssumption
<1>2. ASSUME NEW t \in Tenants
      PROVE  /\ Settled(t) /\ observed[t].gen <= ids
             /\ \A d \in deployments[t] : d >= 1 /\ d <= ids
  <2>1. Founded[t] \in Nat /\ Founded[t] <= Epoch /\ Founded[t] <= MaxRetained
    BY <1>1
  <2>2. deployments[t] = 1..Founded[t] /\ releases[t] = 1..Founded[t] /\ desired[t] = Founded[t]
    OBVIOUS
  <2>3. observed[t].dep = Founded[t] /\ observed[t].gen \in {0, Epoch}
    OBVIOUS
  <2>4. Cardinality(1..Founded[t]) = Founded[t]
    <3>1. Cardinality(1..Founded[t]) = IF 1 > Founded[t] THEN 0 ELSE Founded[t] - 1 + 1
      BY <2>1, FS_Interval
    <3> QED
      BY <2>1, <3>1
  <2>5. Settled(t)
    BY <2>1, <2>2, <2>3, <2>4 DEF Settled
  <2> QED
    BY <1>1, <2>1, <2>2, <2>3, <2>5
<1>3. DOMAIN gens = {Epoch} /\ gens[active] = observed
  OBVIOUS
<1>4. DurableInv
  <2>1. IdsInv
    BY <1>1, <1>2, <1>3 DEF IdsInv
  <2>2. QuietInv
    BY <1>2, <1>3 DEF QuietInv
  <2> QED
    BY <2>1, <2>2 DEF DurableInv
<1>5. ASSUME NEW j \in Jobs
      PROVE  RecordInv(j) /\ KnownInv(j)
  <2>1. NoJob.phase = "absent"
    BY DEF NoJob
  <2>2. RecordInv(j)
    BY <2>1 DEF RecordInv, InChain
  <2>3. worker[j].pc = "idle" /\ worker[j].permitted
    BY DEF IdleWorker
  <2>4. KnownInv(j)
    BY <2>3 DEF KnownInv, BindLabels, PairLabels, RestoringLabels, CommitLabels
  <2> QED
    BY <2>2, <2>4
<1> QED
  BY <1>4, <1>5 DEF PublicationInv

\* Every step preserves the invariant.
LEMMA StepKeeps ==
    ASSUME IndInv, IndInv', PublicationInv, [Next]_allVars
    PROVE  PublicationInv'
<1>1. ASSUME NEW j \in Jobs, PrepareStep(j) \/ IntentFault(j)
      PROVE  PublicationInv'
  BY <1>1, PrepareKeeps, CreateIntentKeeps, RecoverKeeps, PublishReleaseKeeps, PruneKeeps,
     PublishCandidateKeeps DEF PrepareStep
<1>2. ASSUME NEW j \in Jobs, CommitStep(j) \/ CommitCapacityFault(j)
      PROVE  PublicationInv'
  BY <1>2, AdmitKeeps, CommitWritesKeep, CommitJobKeeps, RemoveIntentKeeps DEF CommitStep
<1>3. ASSUME NEW j \in Jobs, WorkerStep(j)
      PROVE  PublicationInv'
  BY <1>1, <1>2, <1>3, ExecutorKeeps, ActivateKeeps DEF WorkerStep, HandlerStep
<1>4. ASSUME NEW j \in Jobs, HandlerFault(j)
      PROVE  PublicationInv'
  BY <1>1, <1>2, <1>4, ActivateKeeps DEF HandlerFault
<1>5. CASE FaultStep
  BY <1>4, <1>5, ProcessesKeep, CaddyKeeps DEF FaultStep
<1>6. CASE UNCHANGED allVars
  <2>1. UNCHANGED <<jobVars, intent, tenantVars, releaseVars, gens, active, ids>> /\ running' = running /\ worker' = worker
    BY <1>6 DEF allVars, vars, caddyVars, unitVars, procVars
  <2> QED
    BY <2>1, UnitKeeps
<1>7. ASSUME NEW j \in Jobs, IssueStep(j)
      PROVE  PublicationInv'
  BY <1>7, IssueKeeps
<1>8. ASSUME NEW j \in Jobs, Handoff(j)
      PROVE  PublicationInv'
  BY <1>8, ProcessesKeep
<1>9. CASE CaddyStep
  BY <1>9, CaddyKeeps
<1> QED
  BY <1>3, <1>5, <1>6, <1>7, <1>8, <1>9 DEF Next

\* Both invariants hold throughout.
LEMMA PublicationInvariance == Safety => [](IndInv /\ PublicationInv)
<1>1. Init => IndInv /\ PublicationInv
  BY InitInv, InitKeeps
<1>2. IndInv /\ PublicationInv /\ [Next]_allVars => (IndInv /\ PublicationInv)'
  <2> SUFFICES ASSUME IndInv, PublicationInv, [Next]_allVars
               PROVE  (IndInv /\ PublicationInv)'
    OBVIOUS
  <2>1. IndInv'
    BY StepInv
  <2>2. PublicationInv'
    BY <2>1, StepKeeps
  <2> QED
    BY <2>1, <2>2
<1> QED
  BY <1>1, <1>2, PTL DEF Safety

-----------------------------------------------------------------------------
(* The properties. *)

\* Neither the selected generation nor the one Caddy runs ever routes to a
\* release that remove_release has removed, through any faults and restarts.
THEOREM ServedReleases == Safety => []ServedReleaseExists
<1>1. ASSUME IndInv, PublicationInv, NEW g \in {active, running} \ {None}, NEW u \in Tenants
      PROVE  g \in DOMAIN gens /\ gens[g][u].dep \in releases[u] \cup {0}
  <2> USE <1>1
  <2>1. active \in DOMAIN gens /\ HostTypeOK /\ observed \in [Tenants -> Observed]
    BY DEF IndInv, HostInv, HostTypeOK
  <2>2. Settled(u) => observed[u].dep \in releases[u] \cup {0}
    BY DEF Settled
  <2>3. CASE intent = None
    BY <2>1, <2>2, <2>3 DEF PublicationInv, DurableInv, QuietInv
  <2>4. CASE intent # None
    <3>1. BoundInv(intent) /\ ServingInv(intent) /\ OthersInv(intent) /\ intent.tenant \in Tenants
      BY <2>1, <2>4, IntentTyped DEF PublicationInv, DurableInv, TransitionInv
    <3>2. g \in DOMAIN gens /\ g \in {intent.srcGen, intent.candGen} /\ intent.srcGen # intent.candGen
      BY <2>1, <3>1 DEF ServingInv, BoundInv
    <3>3. CandidateObserved(intent).dep = intent.dep
      BY DEF CandidateObserved
    <3>4. CASE g = intent.srcGen
      <4>1. SourceReleasePresent(intent)
        BY <3>1, <3>2, <3>4 DEF ServingInv
      <4>2. gens[g] = [observed EXCEPT ![intent.tenant] = intent.src]
        BY <3>1, <3>4 DEF ServingInv
      <4>3. CASE u = intent.tenant
        BY <2>1, <3>2, <4>1, <4>2, <4>3 DEF SourceReleasePresent
      <4>4. CASE u # intent.tenant
        BY <2>1, <2>2, <3>1, <3>2, <4>2, <4>4 DEF OthersInv
      <4> QED
        BY <4>3, <4>4
    <3>5. CASE g = intent.candGen
      <4>1. gens[g] = [observed EXCEPT ![intent.tenant] = CandidateObserved(intent)]
            /\ intent.dep \in releases[intent.tenant]
        BY <3>1, <3>2, <3>5 DEF ServingInv
      <4>2. CASE u = intent.tenant
        BY <2>1, <3>2, <3>3, <4>1, <4>2
      <4>3. CASE u # intent.tenant
        BY <2>1, <2>2, <3>1, <3>2, <4>1, <4>3 DEF OthersInv
      <4> QED
        BY <4>2, <4>3
    <3> QED
      BY <3>2, <3>4, <3>5
  <2> QED
    BY <2>3, <2>4
<1>2. IndInv /\ PublicationInv => ServedReleaseExists
  <2> SUFFICES ASSUME IndInv, PublicationInv, NEW g \in {active, running} \ {None}
               PROVE  g \in DOMAIN gens /\ \A u \in Tenants : gens[g][u].dep \in releases[u] \cup {0}
    BY DEF ServedReleaseExists
  <2>1. \A u \in Tenants : gens[g][u].dep \in releases[u] \cup {0}
    BY <1>1
  <2>2. g \in DOMAIN gens
    <3>1. CASE intent = None
      BY <3>1 DEF PublicationInv, DurableInv, QuietInv, IndInv, HostInv
    <3>2. CASE intent # None
      BY <3>2 DEF PublicationInv, DurableInv, TransitionInv, ServingInv, IndInv, HostInv
    <3> QED
      BY <3>1, <3>2
  <2> QED
    BY <2>1, <2>2
<1> QED
  BY <1>2, PublicationInvariance, PTL

\* The active reference is one of the intent's generations while a transition
\* is durable, and otherwise has exactly the observed routes.
THEOREM ActiveAuthority == Safety => []ActiveWithinAuthority
<1>1. IndInv /\ PublicationInv => ActiveWithinAuthority
  BY DEF IndInv, HostInv, PublicationInv, DurableInv, QuietInv, TransitionInv, ServingInv, ActiveWithinAuthority
<1> QED
  BY <1>1, PublicationInvariance, PTL

\* Between transitions every tenant has exactly its retained releases, at most
\* MaxRetained of them, and has observed the one it selects.
THEOREM Retention == Safety => []RetentionSettled
<1>1. PublicationInv => RetentionSettled
  BY DEF PublicationInv, DurableInv, QuietInv, Settled, RetentionSettled
<1> QED
  BY <1>1, PublicationInvariance, PTL

\* A durable transition is admitted wherever its records are.
LEMMA Admitted ==
    ASSUME IndInv, PublicationInv, intent # None
    PROVE  AdmitTransition(intent)
<1> DEFINE i == intent
           t == intent.tenant
<1>1. /\ HostTypeOK /\ HostInv /\ BoundInv(i) /\ ProgressInv(i) /\ ServingInv(i)
  BY DEF IndInv, PublicationInv, DurableInv, TransitionInv
<1>2. /\ i.src.gen \in Nat /\ i.candGen \in Nat /\ i.src.gen < i.candGen
      /\ i.src.dep \in Dispatched(i) \cup {0} /\ (i.op = "rollback" => i.dep \in Dispatched(i))
  BY <1>1, IntentTyped DEF BoundInv
<1>3. i.src # CandidateObserved(i)
  <2>1. CandidateObserved(i).gen = i.candGen
    BY DEF CandidateObserved
  <2>2. i.src.gen # i.candGen
    BY <1>2
  <2> QED
    BY <2>1, <2>2
<1>4. /\ TransitionHistory(i) = Dispatched(i) \cup {i.dep}
      /\ TerminalHistory(i) \subseteq TransitionHistory(i) /\ i.dep \in TerminalHistory(i)
  BY <1>1, Histories, TerminalFacts
<1>5. Untouched(i) \/ Recorded(i) \/ Desired(i) \/ Served(i)
  BY <1>1 DEF ProgressInv
<1>6. /\ desired[t] \in {i.src.dep, i.dep} /\ observed[t] \in {i.src, CandidateObserved(i)}
      /\ observed[t] = CandidateObserved(i) => desired[t] = i.dep
  BY <1>3, <1>5 DEF Untouched, Recorded, Desired, Served
<1>7. deployments[t] = Dispatched(i) \/ (TerminalHistory(i) \subseteq deployments[t] /\ deployments[t] \subseteq TransitionHistory(i))
  BY <1>4, <1>5 DEF Untouched, Recorded, Desired, AllKept, Served
<1>8. HistoryIsReplayable(i)
  BY <1>4, <1>7 DEF HistoryIsReplayable, Dispatched
<1>9. i.op = "rollback" => i.dep \in deployments[t]
  BY <1>2, <1>4, <1>7
<1>10. SourceDeploymentAdmitted(i)
  <2>1. CASE Served(i)
    BY <2>1 DEF Served, SourceDeploymentAdmitted
  <2>2. CASE ~Served(i)
    <3>1. deployments[t] = Dispatched(i) \/ deployments[t] = TransitionHistory(i)
      BY <1>5, <2>2 DEF Untouched, Recorded, Desired, AllKept
    <3> QED
      BY <1>2, <1>4, <3>1 DEF SourceDeploymentAdmitted
  <2> QED
    BY <2>1, <2>2
<1>11. results[i.job] # "failed" /\ (Audited(i.job) => audit[Len(audit)] = i.job)
  BY <1>1 DEF HostInv, ProgressInv, InChain, Audited
<1> QED
  BY <1>6, <1>8, <1>9, <1>10, <1>11 DEF AdmitTransition

\* No crash or fault leaves a transition that _reconstruct_deployment, the
\* activation or the commit would refuse.
THEOREM NeverRefused == Safety => []TransitionNeverRefused
<1>1. ASSUME IndInv, PublicationInv, intent # None
      PROVE  RecoveryAdmitted(intent)
  <2>1. /\ HostTypeOK /\ HostInv /\ BoundInv(intent) /\ ProgressInv(intent) /\ ServingInv(intent)
    BY <1>1 DEF IndInv, PublicationInv, DurableInv, TransitionInv
  <2>2. SourceReleasePresent(intent) \/ (intent.op = "rollback" /\ Served(intent))
    BY <1>1, <2>1, SourceGone
  <2>3. AdmitTransition(intent)
    BY <1>1, Admitted
  <2> QED
    BY <1>1, <2>1, <2>2, <2>3 DEF RecoveryAdmitted, HostInv, BoundInv, ServingInv, ProgressInv, Served
<1>2. ASSUME IndInv, PublicationInv, NEW j \in Jobs, At(j, "activate")
      PROVE  /\ OwnsIntent(j) /\ ActivationAdmitted(intent)
             /\ worker[j].permitted = SourceReleasePresent(intent)
             /\ (active = intent.srcGen => worker[j].permitted)
  <2>1. KnownInv(j) /\ HostTypeOK /\ worker[j].pc = "activate"
    BY <1>2 DEF PublicationInv, IndInv, At
  <2>2. /\ intent # None /\ intent.job = j /\ (worker[j].permitted <=> SourceReleasePresent(intent))
        /\ intent.dep \in releases[intent.tenant] /\ intent.candGen \in DOMAIN gens
    BY <2>1 DEF KnownInv
  <2>3. ServingInv(intent) /\ intent.srcGen # intent.candGen
    BY <1>2, <2>2 DEF PublicationInv, DurableInv, TransitionInv, BoundInv
  <2>4. AdmitTransition(intent)
    BY <1>2, <2>2, Admitted
  <2>5. worker[j].permitted \in BOOLEAN /\ SourceReleasePresent(intent) \in BOOLEAN
    BY <2>1 DEF HostTypeOK, WorkerRecord, SourceReleasePresent
  <2>6. worker[j].permitted = SourceReleasePresent(intent)
    BY <2>2, <2>5
  <2>7. active = intent.srcGen => worker[j].permitted
    BY <2>2, <2>3 DEF ServingInv
  <2>8. ActivationAdmitted(intent)
    BY <2>2, <2>3, <2>4 DEF ActivationAdmitted, ServingInv
  <2> QED
    BY <2>2, <2>6, <2>7, <2>8 DEF OwnsIntent
<1>3. ASSUME IndInv, PublicationInv, NEW j \in Jobs, At(j, "admit")
      PROVE  AdmitTransition(intent)
  <2>1. intent # None
    BY <1>3 DEF IndInv, WorkerInv, At, OwnerLabels, PairLabels
  <2> QED
    BY <1>3, <2>1, Admitted
<1>4. IndInv /\ PublicationInv => TransitionNeverRefused
  BY <1>1, <1>2, <1>3 DEF TransitionNeverRefused
<1> QED
  BY <1>4, PublicationInvariance, PTL

-----------------------------------------------------------------------------
(* The pipeline implements AtomicPublication. *)

\* What an operator asked for stays in the record of job k.
RequestKept(k) ==
    /\ jobs'[k].phase = "absent" <=> jobs[k].phase = "absent"
    /\ jobs'[k].op = jobs[k].op /\ jobs'[k].tenant = jobs[k].tenant
    /\ jobs'[k].target = jobs[k].target /\ jobs'[k].source = jobs[k].source

\* A step that keeps requests, results, the intent and desired states is not
\* one of AtomicPublication.
LEMMA Invisible ==
    ASSUME \A k \in Jobs : RequestKept(k), results' = results,
           \A t \in Tenants : Published(t)' = Published(t)
    PROVE  UNCHANGED Abstract!avars
<1>1. \A k \in Jobs : RequestOf(k)' = RequestOf(k)
  BY DEF RequestOf, RequestKept
<1>2. [k \in Jobs |-> RequestOf(k)]' = [k \in Jobs |-> RequestOf(k)]
  BY <1>1
<1>3. [t \in Tenants |-> Published(t)]' = [t \in Tenants |-> Published(t)]
  OBVIOUS
<1> QED
  BY <1>2, <1>3 DEF Abstract!avars

\* A step that touches no job, result, intent or desired state.
LEMMA Elsewhere ==
    ASSUME UNCHANGED <<jobs, results, intent, desired>>
    PROVE  UNCHANGED Abstract!avars
<1>1. \A k \in Jobs : RequestKept(k)
  BY DEF RequestKept
<1>2. \A t \in Tenants : Published(t)' = Published(t)
  BY DEF Published
<1> QED
  BY <1>1, <1>2, Invisible

\* A step that changes the record of one job, but not its request.
LEMMA OneJobChanges ==
    ASSUME IndInv, NEW j \in Jobs, worker[j].pc # "idle",
           UNCHANGED <<results, intent, desired>>,
           \/ \E p \in Phases \ {"absent"} : jobs' = [jobs EXCEPT ![j].phase = p]
           \/ jobs' = [jobs EXCEPT ![j].validated = TRUE]
           \/ jobs' = [jobs EXCEPT ![j].bound = TRUE, ![j].history = deployments]
           \/ jobs' = [jobs EXCEPT ![j].srcGen = active, ![j].srcObs = observed[jobs[j].tenant]]
    PROVE  UNCHANGED Abstract!avars
<1>1. jobs \in [Jobs -> JobRecord] /\ jobs[j].phase # "absent"
  BY DEF IndInv, HostTypeOK, JobInv
<1> DEFINE SameRequest(q) == /\ q.phase # "absent" /\ q.op = jobs[j].op /\ q.tenant = jobs[j].tenant
                             /\ q.target = jobs[j].target /\ q.source = jobs[j].source
           Goal == \E q : jobs' = [jobs EXCEPT ![j] = q] /\ SameRequest(q)
<1>2. ASSUME NEW p \in Phases \ {"absent"}, jobs' = [jobs EXCEPT ![j].phase = p]
      PROVE  Goal
  <2>1. PICK q : q = [jobs[j] EXCEPT !.phase = p]
    OBVIOUS
  <2>2. q.phase # "absent" /\ q.op = jobs[j].op /\ q.tenant = jobs[j].tenant
    BY <1>1, <2>1 DEF JobRecord, Phases
  <2>3. q.target = jobs[j].target /\ q.source = jobs[j].source
    BY <1>1, <2>1 DEF JobRecord
  <2>4. jobs' = [jobs EXCEPT ![j] = q]
    BY <1>2, <2>1
  <2> QED
    BY <2>2, <2>3, <2>4
<1>3. ASSUME jobs' = [jobs EXCEPT ![j].validated = TRUE]
      PROVE  Goal
  <2>1. PICK q : q = [jobs[j] EXCEPT !.validated = TRUE]
    OBVIOUS
  <2>2. q.phase # "absent" /\ q.op = jobs[j].op /\ q.tenant = jobs[j].tenant
    BY <1>1, <2>1 DEF JobRecord, Phases
  <2>3. q.target = jobs[j].target /\ q.source = jobs[j].source
    BY <1>1, <2>1 DEF JobRecord
  <2>4. jobs' = [jobs EXCEPT ![j] = q]
    BY <1>3, <2>1
  <2> QED
    BY <2>2, <2>3, <2>4
<1>4. ASSUME jobs' = [jobs EXCEPT ![j].bound = TRUE, ![j].history = deployments]
      PROVE  Goal
  <2>1. PICK q : q = [jobs[j] EXCEPT !.bound = TRUE, !.history = deployments]
    OBVIOUS
  <2>2. q.phase # "absent" /\ q.op = jobs[j].op /\ q.tenant = jobs[j].tenant
    BY <1>1, <2>1 DEF JobRecord, Phases
  <2>3. q.target = jobs[j].target /\ q.source = jobs[j].source
    BY <1>1, <2>1 DEF JobRecord
  <2>4. jobs' = [jobs EXCEPT ![j] = q]
    BY <1>4, <2>1
  <2> QED
    BY <2>2, <2>3, <2>4
<1>5. ASSUME jobs' = [jobs EXCEPT ![j].srcGen = active, ![j].srcObs = observed[jobs[j].tenant]]
      PROVE  Goal
  <2>1. PICK q : q = [jobs[j] EXCEPT !.srcGen = active, !.srcObs = observed[jobs[j].tenant]]
    OBVIOUS
  <2>2. q.phase # "absent" /\ q.op = jobs[j].op /\ q.tenant = jobs[j].tenant
    BY <1>1, <2>1 DEF JobRecord, Phases
  <2>3. q.target = jobs[j].target /\ q.source = jobs[j].source
    BY <1>1, <2>1 DEF JobRecord
  <2>4. jobs' = [jobs EXCEPT ![j] = q]
    BY <1>5, <2>1
  <2> QED
    BY <2>2, <2>3, <2>4
<1>6. \A k \in Jobs : RequestKept(k)
  <2>1. PICK q : jobs' = [jobs EXCEPT ![j] = q] /\ SameRequest(q)
    BY <1>2, <1>3, <1>4, <1>5
  <2> QED
    BY <1>1, <2>1 DEF RequestKept
<1>7. \A t \in Tenants : Published(t)' = Published(t)
  BY DEF Published
<1> QED
  BY <1>6, <1>7, Invisible

\* The founded host publishes what was founded, and nothing was asked for.
LEMMA AbstractInit == Init => Abstract!Init
<1> SUFFICES ASSUME Init PROVE Abstract!Init
  OBVIOUS
<1> USE DEF Init, HostInit
<1>1. NoJob.phase = "absent"
  BY DEF NoJob
<1>2. [j \in Jobs |-> RequestOf(j)] = [j \in Jobs |-> None]
  BY <1>1 DEF RequestOf
<1>3. [t \in Tenants |-> Published(t)] = Founded
  BY FoundedAssumption DEF Published
<1> QED
  BY <1>2, <1>3 DEF Abstract!Init

\* Issuance binds the request to what is published.
LEMMA AbstractIssue ==
    ASSUME IndInv, NEW j \in Jobs, IssueStep(j)
    PROVE  Abstract!Issue(j)
<1>1. HostTypeOK /\ jobs \in [Jobs -> JobRecord]
  BY DEF IndInv, HostTypeOK
<1>2. PICK op \in Operations, t \in Tenants, target \in Ids : Issue(j, op, t, target)
  <2>1. \A t \in Tenants : deployments[t] \cup {0} \subseteq Ids
    BY <1>1 DEF HostTypeOK, Ids
  <2> QED
    BY <2>1 DEF IssueStep
<1> DEFINE new == [NoJob EXCEPT !.phase = "pending", !.op = op, !.tenant = t,
                                !.target = target, !.source = desired[t]]
           R == [k \in Jobs |-> RequestOf(k)]
           P == [u \in Tenants |-> Published(u)]
<1>3. new.phase = "pending" /\ new.op = op /\ new.tenant = t /\ new.target = target /\ new.source = desired[t]
  BY DEF NoJob
<1>4. /\ jobs' = [jobs EXCEPT ![j] = new] /\ intent = None /\ intent' = None
      /\ jobs[j].phase = "absent" /\ UNCHANGED <<results, desired>>
  BY <1>2 DEF Issue, tenantVars
<1> HIDE DEF new
<1>5. jobs'[j] = new /\ \A k \in Jobs \ {j} : jobs'[k] = jobs[k]
  BY <1>1, <1>4
<1>6. desired[t] \in Nat
  BY <1>1 DEF HostTypeOK, Ids
<1>7. RequestOf(j) = None /\ RequestOf(j)' = [op |-> op, tenant |-> t, target |-> target, source |-> desired[t]]
  BY <1>3, <1>4, <1>5 DEF RequestOf
<1>8. \A k \in Jobs \ {j} : RequestOf(k)' = RequestOf(k)
  BY <1>5 DEF RequestOf
<1>9. P' = P /\ P[t] = desired[t]
  BY <1>4 DEF Published
<1>10. RequestOf(j)' \in Abstract!Request /\ RequestOf(j)'.source = desired[t] /\ RequestOf(j)'.tenant = t
  BY <1>6, <1>7 DEF Abstract!Request, Operations, Ids
<1>11. /\ R[j] = None /\ R'[j] = RequestOf(j)' /\ R' = [R EXCEPT ![j] = R'[j]]
  BY <1>7, <1>8
<1> QED
  BY <1>4, <1>9, <1>10, <1>11 DEF Abstract!Issue

\* Whoever has issued a job has asked for something.
LEMMA Requested ==
    ASSUME HostTypeOK, NEW j \in Jobs, jobs[j].phase # "absent", jobs[j].tenant \in Tenants
    PROVE  RequestOf(j) # None
<1>1. jobs[j] \in JobRecord
  BY DEF HostTypeOK
<1>2. jobs[j].op \in {"deploy", "rollback"} /\ jobs[j].target \in Nat /\ jobs[j].source \in Nat
  BY <1>1 DEF JobRecord, Operations, Ids
<1>3. RequestOf(j) \in Abstract!Request
  BY <1>2 DEF RequestOf, Abstract!Request
<1> QED
  BY <1>3, RequestAssumption

\* A failure is reported for a request that has no outcome, and publishes nothing.
LEMMA AbstractFail ==
    ASSUME IndInv, NEW j \in Jobs, PublishFailure(j)
    PROVE  Abstract!Fail(j)
<1> DEFINE R == [k \in Jobs |-> RequestOf(k)]
           P == [u \in Tenants |-> Published(u)]
<1>1. WorkerInv(j) /\ JobInv(j) /\ HostTypeOK /\ worker[j].pc = "failResult"
  BY DEF IndInv, PublishFailure, Holds, At
<1>2. intent = None /\ results[j] = "none" /\ jobs[j].phase # "absent" /\ jobs[j].tenant \in Tenants
  BY <1>1 DEF WorkerInv, JobInv, FailLabels
<1>3. UNCHANGED <<jobs, intent, desired>> /\ results' = [results EXCEPT ![j] = "failed"]
  BY DEF PublishFailure, tenantVars
<1>4. R' = R /\ P' = P
  BY <1>2, <1>3 DEF RequestOf, Published
<1>5. R[j] # None
  BY <1>1, <1>2, Requested
<1> QED
  BY <1>2, <1>3, <1>4, <1>5 DEF Abstract!Fail

\* A success is reported once, when the result becomes durable: it replaces the
\* deployment that its issuer saw.
LEMMA AbstractPublish ==
    ASSUME IndInv, PublicationInv, NEW j \in Jobs, CommitResult(j)
    PROVE  Abstract!Publish(j) \/ UNCHANGED Abstract!avars
<1> DEFINE R == [k \in Jobs |-> RequestOf(k)]
           P == [u \in Tenants |-> Published(u)]
           t == intent.tenant
<1>1. worker[j].pc = "result"
  BY DEF CommitResult, Holds, At
<1>2. /\ intent # None /\ intent.job = j /\ BoundInv(intent) /\ HostTypeOK /\ HostInv
      /\ JobInv(j) /\ results \in [Jobs -> {"none", "succeeded", "failed"}]
  BY <1>1, OwnerFacts DEF OwnerLabels, CommitLabels, IndInv, HostTypeOK
<1>3. UNCHANGED <<jobs, intent, desired>> /\ results' = [results EXCEPT ![j] = "succeeded"]
  BY DEF CommitResult, tenantVars
<1>4. results[j] \in {"none", "succeeded"}
  BY <1>2 DEF HostInv
<1>5. CASE results[j] = "succeeded"
  <2>1. results' = results
    BY <1>2, <1>3, <1>5
  <2> QED
    BY <1>3, <2>1, Elsewhere
<1>6. CASE results[j] = "none"
  <2>1. /\ jobs[j].phase # "absent" /\ jobs[j].tenant = t /\ t \in Tenants
        /\ jobs[j].op = intent.op /\ jobs[j].source = intent.src.dep
        /\ IF intent.op = "rollback" THEN intent.dep = jobs[j].target ELSE intent.dep > intent.src.dep
    BY <1>2, IntentTyped DEF HostInv, BoundInv
  <2>2. R' = R /\ R[j] # None
    BY <1>2, <1>3, <2>1, Requested DEF RequestOf
  <2>3. R[j].tenant = t /\ R[j].source = intent.src.dep /\ R[j].op = intent.op /\ R[j].target = jobs[j].target
    BY <2>1 DEF RequestOf
  <2>4. P[t] = intent.src.dep
    BY <1>2, <1>6, <2>1 DEF Published
  <2>5. results'[j] = "succeeded"
    BY <1>2, <1>3
  <2>6. P'[t] = intent.dep /\ \A u \in Tenants \ {t} : P'[u] = P[u]
    BY <1>2, <1>3, <2>1, <2>5 DEF Published
  <2>7. P' = [P EXCEPT ![t] = P'[t]]
    BY <2>6
  <2> HIDE DEF R, P
  <2>8. Abstract!Publish(j)
    BY <1>3, <1>6, <2>1, <2>2, <2>3, <2>4, <2>6, <2>7 DEF Abstract!Publish, R, P
  <2> QED
    BY <2>8
<1> QED
  BY <1>4, <1>5, <1>6

\* Creating the intent publishes nothing: its source is what is desired.
LEMMA AbstractCreate ==
    ASSUME IndInv, PublicationInv, NEW j \in Jobs, CreateIntent(j)
    PROVE  UNCHANGED Abstract!avars
<1> DEFINE t == jobs[j].tenant
<1>1. WorkerInv(j) /\ JobInv(j) /\ worker[j].pc = "intent"
  BY DEF IndInv, CreateIntent, Holds, At
<1>2. intent = None /\ results[j] = "none" /\ t \in Tenants
  BY <1>1 DEF WorkerInv, BindLabels, JobInv
<1>3. observed[t].dep = desired[t]
  BY <1>2 DEF PublicationInv, DurableInv, QuietInv, Settled
<1>4. /\ UNCHANGED <<jobs, results, desired>>
      /\ intent'.job = j /\ intent'.tenant = t /\ intent'.src = observed[t]
  BY DEF CreateIntent, jobVars, tenantVars
<1>5. \A u \in Tenants : Published(u)' = Published(u)
  BY <1>2, <1>3, <1>4 DEF Published
<1>6. \A k \in Jobs : RequestKept(k)
  BY <1>4 DEF RequestKept
<1> QED
  BY <1>4, <1>5, <1>6, Invisible

\* Writing the desired state publishes nothing while the intent is durable.
LEMMA AbstractDesired ==
    ASSUME IndInv, PublicationInv, NEW j \in Jobs, CommitDesired(j)
    PROVE  UNCHANGED Abstract!avars
<1>1. worker[j].pc = "desired"
  BY DEF CommitDesired, Holds, At
<1>2. intent # None /\ HostTypeOK
  BY <1>1, OwnerFacts DEF OwnerLabels, CommitLabels
<1>3. UNCHANGED <<jobs, results, intent>> /\ desired' = [desired EXCEPT ![intent.tenant] = intent.dep]
  BY DEF CommitDesired, jobVars
<1>4. desired \in [Tenants -> Ids]
  BY <1>2 DEF HostTypeOK
<1>5. \A u \in Tenants : Published(u)' = Published(u)
  BY <1>2, <1>3, <1>4 DEF Published
<1>6. \A k \in Jobs : RequestKept(k)
  BY <1>3 DEF RequestKept
<1> QED
  BY <1>3, <1>5, <1>6, Invisible

\* Removing the intent publishes nothing: its deployment is desired by then.
LEMMA AbstractRemove ==
    ASSUME IndInv, PublicationInv, NEW j \in Jobs, RemoveIntent(j)
    PROVE  UNCHANGED Abstract!avars
<1>1. worker[j].pc = "removeIntent"
  BY DEF RemoveIntent, Holds, At
<1>2. /\ intent # None /\ intent.job = j /\ HostTypeOK /\ HostInv /\ KnownInv(j) /\ WorkerInv(j)
      /\ results \in [Jobs -> {"none", "succeeded", "failed"}]
  BY <1>1, OwnerFacts DEF OwnerLabels, CommitLabels, IndInv, HostTypeOK
<1>3. results[j] = "succeeded"
  BY <1>1, <1>2 DEF WorkerInv, HostInv
<1>4. desired[intent.tenant] = intent.dep
  BY <1>1, <1>2 DEF KnownInv, Retained, ReleasesRetired, Served
<1>5. UNCHANGED <<jobs, results, desired>> /\ intent' = None
  BY DEF RemoveIntent, jobVars, tenantVars
<1>6. \A u \in Tenants : Published(u)' = Published(u)
  BY <1>2, <1>3, <1>4, <1>5 DEF Published
<1>7. \A k \in Jobs : RequestKept(k)
  BY <1>5 DEF RequestKept
<1> QED
  BY <1>5, <1>6, <1>7, Invisible

\* Every step of the pipeline is a step of AtomicPublication or a stutter.
LEMMA AbstractStep ==
    ASSUME IndInv, PublicationInv, [Next]_allVars
    PROVE  [Abstract!Next]_(Abstract!avars)
<1> USE DEF At, Holds, Unlocked
<1>1. ASSUME NEW j \in Jobs, ExecutorStep(j)
      PROVE  Abstract!Fail(j) \/ UNCHANGED Abstract!avars
  <2>1. CASE PublishFailure(j)
    BY <2>1, AbstractFail
  <2>2. CASE \/ BindDispatchAuthority(j) \/ ClaimPending(j) \/ SetFailedPhase(j)
             \/ CommitFailureValidation(j) \/ MarkExecutionValidated(j)
    <3>1. worker[j].pc # "idle" /\ UNCHANGED <<results, intent, desired>>
      BY <2>2 DEF BindDispatchAuthority, ClaimPending, SetFailedPhase, CommitFailureValidation,
         MarkExecutionValidated, tenantVars
    <3>2. \/ \E p \in {"claimed", "failed"} : jobs' = [jobs EXCEPT ![j].phase = p]
          \/ jobs' = [jobs EXCEPT ![j].validated = TRUE]
          \/ jobs' = [jobs EXCEPT ![j].bound = TRUE, ![j].history = deployments]
      BY <2>2 DEF BindDispatchAuthority, ClaimPending, SetFailedPhase, CommitFailureValidation, MarkExecutionValidated
    <3>3. {"claimed", "failed"} \subseteq Phases \ {"absent"}
      BY DEF Phases
    <3> QED
      BY <3>1, <3>2, <3>3, OneJobChanges
  <2>3. CASE \/ ReplayExisting(j) \/ ExecuteWithClaim(j) \/ Busy(j) \/ ExecuteHandler(j) \/ FailRejected(j)
             \/ EnsureFailureAudit(j) \/ ValidateTerminalState(j)
    <3>1. UNCHANGED <<jobs, results, intent, desired>>
      BY <2>3 DEF ReplayExisting, ExecuteWithClaim, Busy, ExecuteHandler, FailRejected, EnsureFailureAudit,
         ValidateTerminalState, jobVars, tenantVars
    <3> QED
      BY <3>1, Elsewhere
  <2> QED
    BY <1>1, <2>1, <2>2, <2>3 DEF ExecutorStep
<1>2. ASSUME NEW j \in Jobs, PrepareStep(j) \/ IntentFault(j)
      PROVE  UNCHANGED Abstract!avars
  <2>1. CASE CreateIntent(j)
    BY <2>1, AbstractCreate
  <2>2. CASE BindSourceRuntime(j)
    <3>1. /\ worker[j].pc # "idle" /\ UNCHANGED <<results, intent, desired>>
          /\ jobs' = [jobs EXCEPT ![j].srcGen = active, ![j].srcObs = observed[jobs[j].tenant]]
      BY <2>2 DEF BindSourceRuntime, tenantVars
    <3> QED
      BY <3>1, OneJobChanges
  <2>3. CASE ~CreateIntent(j) /\ ~BindSourceRuntime(j)
    <3>1. UNCHANGED <<jobs, results, intent, desired>>
      BY <1>2, <2>3 DEF PrepareStep, Classify, PrepareRejected, PrepareRaced, Prepare, StageRelease, QuotaExceeded,
         Recover, PublishRelease, PruneGenerations, PublishCandidate, IntentFault, jobVars, tenantVars
    <3> QED
      BY <3>1, Elsewhere
  <2> QED
    BY <2>1, <2>2, <2>3
<1>3. ASSUME NEW j \in Jobs,
             \/ ActivateStep(j) \/ ActivateCapacityFault(j) \/ VerifySourceFault(j) \/ SelectFault(j)
             \/ ReloadFault(j) \/ VerifyCandidateFault(j) \/ RestoreFault(j)
      PROVE  UNCHANGED Abstract!avars
  <2>1. UNCHANGED <<jobs, results, intent, desired>>
    BY <1>3 DEF ActivateStep, Activate, VerifySource, SelectCandidate, Reload, VerifyCandidate, RestoreSelect,
       RestoreLoad, ActivateCapacityFault, VerifySourceFault, SelectFault, ReloadFault, VerifyCandidateFault,
       RestoreFault, jobVars, tenantVars
  <2> QED
    BY <2>1, Elsewhere
<1>4. ASSUME NEW j \in Jobs, CommitStep(j) \/ CommitCapacityFault(j)
      PROVE  Abstract!Publish(j) \/ UNCHANGED Abstract!avars
  <2>1. CASE CommitResult(j)
    BY <2>1, AbstractPublish
  <2>2. CASE CommitDesired(j) \/ RemoveIntent(j)
    BY <2>2, AbstractDesired, AbstractRemove
  <2>3. CASE CommitJob(j)
    <3>1. /\ worker[j].pc # "idle" /\ UNCHANGED <<results, intent, desired>>
          /\ jobs' = [jobs EXCEPT ![j].phase = "completed"] /\ "completed" \in Phases \ {"absent"}
      BY <2>3 DEF CommitJob, tenantVars, Phases
    <3> QED
      BY <3>1, OneJobChanges
  <2>4. CASE ~CommitResult(j) /\ ~CommitDesired(j) /\ ~RemoveIntent(j) /\ ~CommitJob(j)
    <3>1. UNCHANGED <<jobs, results, intent, desired>>
      BY <1>4, <2>4 DEF CommitStep, AdmitCommit, CommitDeployment, CommitObserved, RetireReleases, RetireRecords,
         CommitAudit, CommitCapacityFault, jobVars, tenantVars
    <3> QED
      BY <3>1, Elsewhere
  <2> QED
    BY <2>1, <2>2, <2>3, <2>4
<1>5. ASSUME NEW j \in Jobs, WorkerStep(j)
      PROVE  [Abstract!Next]_(Abstract!avars)
  BY <1>1, <1>2, <1>3, <1>4, <1>5 DEF WorkerStep, HandlerStep, Abstract!Next
<1>6. ASSUME NEW j \in Jobs, IssueStep(j)
      PROVE  [Abstract!Next]_(Abstract!avars)
  BY <1>6, AbstractIssue DEF Abstract!Next
<1>7. ASSUME NEW j \in Jobs, HandlerFault(j)
      PROVE  [Abstract!Next]_(Abstract!avars)
  BY <1>2, <1>3, <1>4, <1>7 DEF HandlerFault, Abstract!Next
<1>8. ASSUME \/ CaddyStep \/ CaddyFault \/ HostCrash \/ UNCHANGED allVars
             \/ \E j \in Jobs : Handoff(j) \/ Crash(j)
      PROVE  UNCHANGED Abstract!avars
  <2>1. UNCHANGED <<jobs, results, intent, desired>>
    BY <1>8 DEF CaddyStep, CaddyFault, HostCrash, Handoff, Crash, allVars, vars, jobVars, tenantVars
  <2> QED
    BY <2>1, Elsewhere
<1>9. CASE FaultStep
  BY <1>7, <1>8, <1>9 DEF FaultStep
<1> QED
  BY <1>5, <1>6, <1>8, <1>9 DEF Next

\* The pipeline, with its locks, intents, crashes, restorations and replays, is
\* an implementation of AtomicPublication: every request has one outcome, a
\* failed one publishes nothing, and a successful one replaces in one step the
\* deployment its issuer saw.
THEOREM Refinement == Safety => ImplementsAtomicPublication
<1>1. IndInv /\ PublicationInv /\ [Next]_allVars => [Abstract!Next]_(Abstract!avars)
  BY AbstractStep
<1> QED
  BY <1>1, AbstractInit, PublicationInvariance, PTL DEF Safety, ImplementsAtomicPublication, Abstract!Spec
=============================================================================
