------------------------------ MODULE JobIntake ------------------------------
(***************************************************************************)
(* From an operator's frame to an immutable result: the one-slot artifact  *)
(* intake, exact-retry recognition, the durable correlation/job pair, the  *)
(* startup reconciler's repair, slot cleanup and bounded handoff, and the  *)
(* operator session that waits for the result of its job.                  *)
(*                                                                         *)
(* A session holds the intake lock from admission of its bytes to the      *)
(* commit or discard of its lease, but takes the state lock once per       *)
(* question.  Worker steps keep only what intake depends on: the intake    *)
(* claim, the lifecycle intent, the result, the marker (JobExecution and   *)
(* DeploymentTransition have the rest).  When a request may be admitted at *)
(* all (gate, rate, capacity) is a free choice here; AdmissionRate has the *)
(* rate.  Identities are naturals in the order they are drawn.             *)
(***************************************************************************)
EXTENDS Naturals, FiniteSets

CONSTANTS
    Sessions,      \* concurrent operator connections
    Correlations,  \* correlation identities operators may choose
    Bindings,      \* distinct (principal, request) bindings
    Uploads,       \* the bindings whose operation carries an artifact
    MaxJobs,       \* bound on job identities drawn
    MaxFaults,     \* bound on crashes and failing calls
    MaxRequests,   \* bound on connections
    HandoffLimit,  \* _RECOVERY_HANDOFF_LIMIT
    None

VARIABLES
    corr,        \* correlation records: the complete job each was created with
    jobs,        \* authorization-job records by identity
    results,     \* immutable results by job identity
    intents,     \* the correlation that owns the lifecycle intent, or None
    slot,        \* the intake directory's single entry
    intakeLock,  \* holder of intake.lock
    stateLock,   \* session that holds the state lock between two writes
    cursor,      \* the recovery cursor: last job of the last batch
    session,     \* per session: program counter and locals
    worker,      \* per job: program counter of its systemd instance
    answers,     \* responses written to operators
    source,      \* version of the authoritative source state
    faults,      \* crashes and failures so far
    requests     \* connections so far

vars == <<corr, jobs, results, intents, slot, intakeLock, stateLock, cursor,
          session, worker, answers, source, faults, requests>>

Ids == 1..MaxJobs
Job == [id : Ids, corr : Correlations, binding : Bindings, source : 0..MaxJobs]
Stored == [job : Job, phase : {"pending", "claimed", "completed", "failed"},
           validated : BOOLEAN]
Temporary == [corr |-> None, binding |-> None]
Artifact(c, b) == [corr |-> c, binding |-> b]
SessionLabels == {"idle", "stream", "publish", "recognize", "needs", "source",
                  "resolve", "createJob", "retrieve", "join"}
WorkerLabels == {"idle", "start", "run", "commit", "clear", "validate", "consume", "fail"}

\* Identities are values of their own.
IntakeAssumption ==
    /\ Uploads \subseteq Bindings
    /\ {MaxJobs, MaxFaults, MaxRequests} \subseteq Nat
    /\ HandoffLimit \in Nat \ {0}
    /\ Sessions \cap Ids = {}
    /\ None \notin Sessions \cup Ids \cup Correlations \cup Job \cup Stored
    /\ None \notin [corr : Correlations \cup {None}, binding : Bindings \cup {None}]

IdleSession == [pc |-> "idle", corr |-> None, binding |-> None, existing |-> FALSE,
                source |-> 0, id |-> None]

TypeOK ==
    /\ corr \in [Correlations -> Job \cup {None}]
    /\ jobs \in [Ids -> Stored \cup {None}]
    /\ results \in [Ids -> {"none", "succeeded", "failed"}]
    /\ intents \in Correlations \cup {None}
    /\ slot \in {None, Temporary} \cup {Artifact(c, b) : c \in Correlations, b \in Uploads}
    /\ intakeLock \in Sessions \cup Ids \cup {None}
    /\ stateLock \in Sessions \cup {None}
    /\ cursor \in 0..MaxJobs
    /\ \A s \in Sessions : session[s].pc \in SessionLabels
    /\ worker \in [Ids -> WorkerLabels]
    /\ \A a \in answers : a.id \in Ids /\ a.corr \in Correlations
    /\ source \in 0..MaxJobs
    /\ faults \in 0..MaxFaults /\ requests \in 0..MaxRequests

Init ==
    /\ corr = [c \in Correlations |-> None]
    /\ jobs = [i \in Ids |-> None]
    /\ results = [i \in Ids |-> "none"]
    /\ intents = None /\ slot = None
    /\ intakeLock = None /\ stateLock = None
    /\ cursor = 0
    /\ session = [s \in Sessions |-> IdleSession]
    /\ worker = [i \in Ids |-> "idle"]
    /\ answers = {} /\ source = 0
    /\ faults = 0 /\ requests = 0

At(s, label) == session[s].pc = label
Goto(s, label) == session' = [session EXCEPT ![s].pc = label]
IsUpload(s) == session[s].binding \in Uploads
Established(c) == corr[c] # None
Mine(s) == Artifact(session[s].corr, session[s].binding)
stateVars == <<corr, jobs, results, intents, cursor, source>>

-----------------------------------------------------------------------------
(* The pair repair that opens every admission transaction. *)

\* Correlations whose job copy is missing.
HalfPairs == {c \in Correlations : Established(c) /\ jobs[corr[c].id] = None}

Pending(job) == [job |-> job, phase |-> "pending", validated |-> FALSE]

\* _reconcile_pairs: publish the missing copies, or defer while an intent
\* reserves the terminal capacity.
RepairedJobs ==
    IF intents # None THEN jobs
    ELSE [i \in Ids |-> IF \E c \in HalfPairs : corr[c].id = i
                        THEN Pending(corr[CHOOSE c \in HalfPairs : corr[c].id = i])
                        ELSE jobs[i]]

-----------------------------------------------------------------------------
(* An operator session. *)

\* OperatorAdapter.receive up to admission; ArtifactIntake.admit takes the
\* lock without waiting and reconciles what an earlier session left.
Receive(s, c, b) ==
    /\ At(s, "idle")
    /\ requests < MaxRequests /\ requests' = requests + 1
    /\ \/ /\ b \notin Uploads
          /\ session' = [session EXCEPT ![s] = [IdleSession EXCEPT
                             !.pc = "recognize", !.corr = c, !.binding = b]]
          /\ UNCHANGED <<slot, intakeLock>>
       \/ /\ b \in Uploads /\ intakeLock = None
          /\ slot \in {None, Temporary, Artifact(c, b)}
          /\ intakeLock' = s
          /\ slot' = IF slot = Temporary THEN None ELSE slot
          /\ session' = [session EXCEPT ![s] = [IdleSession EXCEPT
                             !.pc = IF slot = Artifact(c, b) THEN "recognize" ELSE "stream",
                             !.corr = c, !.binding = b, !.existing = slot = Artifact(c, b)]]
    /\ UNCHANGED <<stateVars, stateLock, worker, answers, faults>>

\* _stream_temporary: bytes arrive under a temporary name.
StreamTemporary(s) ==
    /\ At(s, "stream")
    /\ slot' = Temporary
    /\ Goto(s, "publish")
    /\ UNCHANGED <<stateVars, intakeLock, stateLock, worker, answers, faults, requests>>

\* The rename that admits the verified bytes.
PublishArtifact(s) ==
    /\ At(s, "publish")
    /\ slot' = Mine(s)
    /\ Goto(s, "recognize")
    /\ UNCHANGED <<stateVars, intakeLock, stateLock, worker, answers, faults, requests>>

\* The lease's exit after an error: a slot this session filled is emptied
\* again, bytes that were there before stay.
Abandon(s) ==
    /\ session' = [session EXCEPT ![s] = IdleSession]
    /\ intakeLock' = IF intakeLock = s THEN None ELSE intakeLock
    /\ stateLock' = IF stateLock = s THEN None ELSE stateLock
    /\ slot' = IF intakeLock = s /\ ~session[s].existing THEN None ELSE slot

\* The lease's exit after commit: the bytes stay for the worker.
Accept(s, i) ==
    /\ session' = [session EXCEPT ![s].pc = "retrieve", ![s].id = i]
    /\ intakeLock' = IF intakeLock = s THEN None ELSE intakeLock

\* recognize_exact_retry: find_retry on durable authority only.  A binding
\* that differs conflicts; a copy whose repair is deferred is busy.
RecognizeExactRetry(s) ==
    LET c == session[s].corr IN
    /\ At(s, "recognize") /\ stateLock = None
    /\ jobs' = RepairedJobs
    /\ \/ /\ ~Established(c)
          /\ Goto(s, "source") /\ UNCHANGED <<slot, intakeLock, stateLock>>
       \/ /\ Established(c)
          /\ corr[c].binding # session[s].binding \/ RepairedJobs[corr[c].id] = None
          /\ Abandon(s)
       \/ /\ Established(c)
          /\ corr[c].binding = session[s].binding /\ RepairedJobs[corr[c].id] # None
          /\ IF IsUpload(s)
             THEN /\ session' = [session EXCEPT ![s].pc = "needs", ![s].id = corr[c].id]
                  /\ UNCHANGED <<slot, intakeLock, stateLock>>
             ELSE Accept(s, corr[c].id) /\ UNCHANGED <<slot, stateLock>>
    /\ UNCHANGED <<corr, results, intents, cursor, source, worker, answers, faults, requests>>

StillNeeded(i) == results[i] = "none" \/ intents = jobs[i].job.corr

\* retry_requires_artifact, then commit or discard of the lease.
RetryRequiresArtifact(s) ==
    LET i == session[s].id IN
    /\ At(s, "needs") /\ stateLock = None
    /\ Accept(s, i)
    /\ slot' = IF StillNeeded(i) THEN slot ELSE None
    /\ UNCHANGED <<stateVars, stateLock, worker, answers, faults, requests>>

\* _build_source_bindings: read before the transaction that admits the job.
BuildSourceBindings(s) ==
    /\ At(s, "source")
    /\ session' = [session EXCEPT ![s].pc = "resolve", ![s].source = source]
    /\ UNCHANGED <<stateVars, slot, intakeLock, stateLock, worker, answers, faults, requests>>

Fresh == {i \in Ids : jobs[i] = None /\ \A c \in Correlations : Established(c) => corr[c].id # i}

\* CorrelationAdmission.resolve up to the correlation record.  The retry
\* binding compared here includes the expected source.
Resolve(s) ==
    LET c == session[s].corr IN
    /\ At(s, "resolve") /\ stateLock = None
    /\ jobs' = RepairedJobs
    /\ \/ /\ Established(c)
          /\ IF /\ corr[c].binding = session[s].binding /\ corr[c].source = session[s].source
                /\ RepairedJobs[corr[c].id] # None
             THEN Accept(s, corr[c].id) /\ UNCHANGED <<slot, stateLock>>
             ELSE Abandon(s)
          /\ UNCHANGED corr
       \/ /\ ~Established(c) /\ intents # None
          /\ Abandon(s) /\ UNCHANGED corr
       \/ /\ ~Established(c) /\ intents = None
          /\ \E i \in Fresh :
                /\ \A k \in Fresh : i <= k
                /\ corr' = [corr EXCEPT ![c] = [id |-> i, corr |-> c,
                              binding |-> session[s].binding, source |-> session[s].source]]
                /\ session' = [session EXCEPT ![s].pc = "createJob", ![s].id = i]
          /\ stateLock' = s
          /\ UNCHANGED <<slot, intakeLock>>
    /\ UNCHANGED <<results, intents, cursor, source, worker, answers, faults, requests>>

\* The second record of the pair, still under the state lock.
CreateJob(s) ==
    /\ At(s, "createJob")
    /\ jobs' = [jobs EXCEPT ![session[s].id] = Pending(corr[session[s].corr])]
    /\ stateLock' = None
    /\ Accept(s, session[s].id)
    /\ UNCHANGED <<corr, results, intents, cursor, source, slot, worker, answers, faults, requests>>

\* An error reaches the session: a closed gate, a broken stream, a refused
\* rate or capacity, a failed write.  Its contexts unwind.
FailSession(s) ==
    /\ session[s].pc \in SessionLabels \ {"idle", "retrieve", "join"}
    /\ faults < MaxFaults /\ faults' = faults + 1
    /\ Abandon(s)
    /\ UNCHANGED <<stateVars, worker, answers, requests>>

\* The process dies: locks go, the slot stays as it is.
KillSession(s) ==
    /\ ~At(s, "idle")
    /\ faults < MaxFaults /\ faults' = faults + 1
    /\ session' = [session EXCEPT ![s] = IdleSession]
    /\ intakeLock' = IF intakeLock = s THEN None ELSE intakeLock
    /\ stateLock' = IF stateLock = s THEN None ELSE stateLock
    /\ UNCHANGED <<stateVars, slot, worker, answers, requests>>

\* ResultWaiter.retrieve: start or join the job's unit.
Retrieve(s) ==
    /\ At(s, "retrieve")
    /\ worker' = [worker EXCEPT ![session[s].id] = IF @ = "idle" THEN "start" ELSE @]
    /\ Goto(s, "join")
    /\ UNCHANGED <<stateVars, slot, intakeLock, stateLock, answers, faults, requests>>

\* OperatorSession.run: the session's one response frame.
Respond(s) == [corr |-> session[s].corr, id |-> session[s].id,
               binding |-> session[s].binding, status |-> results[session[s].id]]

\* The unit ended: the result is read, checked against lifecycle authority
\* (an intent of this correlation is an error) and written to the operator.
Join(s) ==
    LET i == session[s].id IN
    /\ At(s, "join") /\ worker[i] = "idle" /\ stateLock = None
    /\ answers' = IF results[i] = "none" \/ intents = session[s].corr THEN answers
                  ELSE answers \cup {Respond(s)}
    /\ session' = [session EXCEPT ![s] = IdleSession]
    /\ UNCHANGED <<stateVars, slot, intakeLock, stateLock, worker, faults, requests>>

\* The wait or the delivery times out; the worker goes on.
TimeOut(s) ==
    /\ session[s].pc \in {"retrieve", "join"}
    /\ session' = [session EXCEPT ![s] = IdleSession]
    /\ UNCHANGED <<stateVars, slot, intakeLock, stateLock, worker, answers, faults, requests>>
-----------------------------------------------------------------------------
(* The job's worker, as far as intake depends on it. *)

WGoto(i, label) == worker' = [worker EXCEPT ![i] = label]
Binding(i) == jobs[i].job.binding
Own(i) == Artifact(jobs[i].job.corr, Binding(i))
Reserved(i) == intents # None /\ intents # jobs[i].job.corr
SetJob(i, phase, validated) ==
    jobs' = [jobs EXCEPT ![i].phase = phase, ![i].validated = validated]

\* execute and ArtifactIntake.claim: an upload needs the slot to hold exactly
\* its bytes; without them only an existing intent can be carried on.
StartWorker(i) ==
    /\ worker[i] = "start" /\ stateLock = None
    /\ IF Reserved(i) THEN WGoto(i, "idle") /\ UNCHANGED intakeLock
       ELSE IF results[i] # "none" /\ intents = None
            THEN WGoto(i, "validate") /\ UNCHANGED intakeLock
       ELSE IF Binding(i) \notin Uploads
            THEN WGoto(i, "run") /\ UNCHANGED intakeLock
       ELSE /\ intakeLock = None
            /\ IF slot = Own(i) THEN WGoto(i, "run") /\ intakeLock' = i
               ELSE /\ WGoto(i, IF intents = jobs[i].job.corr THEN "run" ELSE "fail")
                    /\ UNCHANGED intakeLock
    /\ UNCHANGED <<stateVars, slot, stateLock, session, answers, faults, requests>>

\* Claiming and the durable intent; a rejection publishes a failure instead.
RunWorker(i) ==
    /\ worker[i] = "run" /\ stateLock = None
    /\ IF Reserved(i)
       THEN /\ WGoto(i, "idle") /\ UNCHANGED <<jobs, intents>>
            /\ intakeLock' = IF intakeLock = i THEN None ELSE intakeLock
       ELSE /\ UNCHANGED intakeLock
            /\ \/ /\ intents' = jobs[i].job.corr /\ WGoto(i, "commit")
                  /\ jobs' = [jobs EXCEPT ![i].phase = IF @ = "pending" THEN "claimed" ELSE @]
               \/ /\ intents = None
                  /\ WGoto(i, "fail") /\ UNCHANGED <<jobs, intents>>
    /\ UNCHANGED <<corr, results, cursor, source, slot, stateLock, session, answers, faults, requests>>

\* An executor failure: result, audit, phase and marker in one transaction.
FailWorker(i) ==
    /\ worker[i] = "fail" /\ stateLock = None
    /\ IF results[i] = "none" /\ ~Reserved(i)
       THEN /\ results' = [results EXCEPT ![i] = "failed"]
            /\ SetJob(i, "failed", TRUE)
            /\ WGoto(i, "consume") /\ UNCHANGED intakeLock
       ELSE /\ WGoto(i, "idle") /\ UNCHANGED <<results, jobs>>
            /\ intakeLock' = IF intakeLock = i THEN None ELSE intakeLock
    /\ UNCHANGED <<corr, intents, cursor, source, slot, stateLock, session, answers, faults, requests>>

\* The handler's commit leaves the result while its intent is still there.
CommitResult(i) ==
    /\ worker[i] = "commit" /\ stateLock = None
    /\ results' = [results EXCEPT ![i] = "succeeded"]
    /\ source' = IF source < MaxJobs THEN source + 1 ELSE source
    /\ WGoto(i, "clear")
    /\ UNCHANGED <<corr, jobs, intents, cursor, slot, intakeLock, stateLock, session, answers, faults, requests>>

ClearIntent(i) ==
    /\ worker[i] = "clear" /\ stateLock = None
    /\ intents' = None
    /\ SetJob(i, "completed", jobs[i].validated)
    /\ WGoto(i, "validate")
    /\ UNCHANGED <<corr, results, cursor, source, slot, intakeLock, stateLock, session, answers, faults, requests>>

Validate(i) ==
    /\ worker[i] = "validate" /\ stateLock = None
    /\ IF Reserved(i)
       THEN /\ WGoto(i, "idle") /\ UNCHANGED jobs
            /\ intakeLock' = IF intakeLock = i THEN None ELSE intakeLock
       ELSE /\ SetJob(i, IF results[i] = "failed" THEN "failed" ELSE "completed", TRUE)
            /\ WGoto(i, "consume") /\ UNCHANGED intakeLock
    /\ UNCHANGED <<corr, results, intents, cursor, source, slot, stateLock, session, answers, faults, requests>>

\* Mutant of Consume: the slot is emptied whatever it holds.
ConsumeSlot(i) ==
    /\ worker[i] = "consume" /\ (intakeLock = i \/ intakeLock = None)
    /\ slot' = None
    /\ intakeLock' = None /\ WGoto(i, "idle")
    /\ UNCHANGED <<stateVars, stateLock, session, answers, faults, requests>>

\* claim.consume on exit, or _consume_terminal_artifact after a replay.
Consume(i) ==
    /\ worker[i] = "consume" /\ (intakeLock = i \/ intakeLock = None)
    /\ slot' = IF slot = Own(i) THEN None ELSE slot
    /\ intakeLock' = None /\ WGoto(i, "idle")
    /\ UNCHANGED <<stateVars, stateLock, session, answers, faults, requests>>

KillWorker(i) ==
    /\ worker[i] # "idle"
    /\ faults < MaxFaults /\ faults' = faults + 1
    /\ intakeLock' = IF intakeLock = i THEN None ELSE intakeLock
    /\ WGoto(i, "idle")
    /\ UNCHANGED <<stateVars, slot, stateLock, session, answers, requests>>
-----------------------------------------------------------------------------
(* The startup reconciler: one pass under the intake lock. *)

\* Mutant of NeedsWorker: only jobs never claimed are handed off.
NeedsWorkerPending(js, i) == js[i] # None /\ js[i].phase = "pending"

NeedsWorker(js, i) ==
    /\ js[i] # None
    /\ \/ results[i] = "none"
       \/ js[i].phase \notin {"completed", "failed"}
       \/ intents = js[i].job.corr
       \/ ~js[i].validated

\* Correlations whose bytes the reconciler retains, a deferred pair's too.
Authorized(js, c) ==
    /\ Established(c)
    /\ js[corr[c].id] = None \/ NeedsWorker(js, corr[c].id)

\* select_recovery_batch: the next HandoffLimit jobs after the cursor, around
\* the end of the sorted inventory.
RecoveryBatch(queued) ==
    LET order(i) == IF i > cursor THEN i ELSE i + MaxJobs
    IN  {i \in queued : Cardinality({k \in queued : order(k) < order(i)}) < HandoffLimit}

Reconcile ==
    LET js == RepairedJobs
        queued == {i \in Ids : NeedsWorker(js, i)}
        batch == RecoveryBatch(queued)
        order(i) == IF i > cursor THEN i ELSE i + MaxJobs
    IN
    /\ intakeLock = None /\ stateLock = None
    /\ jobs' = js
    /\ slot' = IF slot # None /\ (slot = Temporary \/ ~Authorized(js, slot.corr))
               THEN None ELSE slot
    /\ cursor' = IF batch = {} THEN cursor
                 ELSE CHOOSE i \in batch : \A k \in batch : order(k) <= order(i)
    /\ worker' = [i \in Ids |-> IF i \in batch /\ worker[i] = "idle" THEN "start" ELSE worker[i]]
    /\ UNCHANGED <<corr, results, intents, source, intakeLock, stateLock, session, answers, faults, requests>>

WorkerStep(i) ==
    \/ StartWorker(i) \/ RunWorker(i) \/ FailWorker(i) \/ CommitResult(i)
    \/ ClearIntent(i) \/ Validate(i) \/ Consume(i)

SessionStep(s) ==
    \/ StreamTemporary(s) \/ PublishArtifact(s) \/ RecognizeExactRetry(s)
    \/ RetryRequiresArtifact(s) \/ BuildSourceBindings(s) \/ Resolve(s)
    \/ CreateJob(s) \/ Retrieve(s) \/ Join(s)

Next ==
    \/ \E s \in Sessions :
          \/ \E c \in Correlations, b \in Bindings : Receive(s, c, b)
          \/ SessionStep(s) \/ FailSession(s) \/ KillSession(s) \/ TimeOut(s)
    \/ \E i \in Ids : WorkerStep(i) \/ KillWorker(i)
    \/ Reconcile

Spec == Init /\ [][Next]_vars

\* Sessions have deadlines, workers are systemd units, and reconciliation is
\* run by a timer; every lock wait in a worker or the reconciler is blocking.
FairSpec ==
    /\ Spec
    /\ \A s \in Sessions : WF_vars(SessionStep(s))
    /\ \A i \in Ids : SF_vars(WorkerStep(i))
    /\ SF_vars(Reconcile)
-----------------------------------------------------------------------------

\* The two indexes stay repairable: at most one pair is ever incomplete, no
\* two jobs claim a correlation, and both copies carry the same binding, so
\* _reconcile_pairs never raises (which would close admission for good).
PairsReconcilable ==
    /\ Cardinality(HalfPairs) <= 1
    /\ \A i \in Ids : jobs[i] # None =>
          Established(jobs[i].job.corr) /\ corr[jobs[i].job.corr] = jobs[i].job
    /\ \A c, d \in Correlations :
          Established(c) /\ Established(d) /\ corr[c].id = corr[d].id => c = d

\* Every answer for one correlation, to first requests and retries alike,
\* names one job, one binding and the result that is still stored.
OneAnswerPerCorrelation ==
    \A a \in answers :
        /\ results[a.id] = a.status
        /\ corr[a.corr].id = a.id /\ corr[a.corr].binding = a.binding

\* Once an operator's upload has been accepted, its bytes stay in the slot
\* until the job has a result: no retry, reconciliation, other session or
\* crash removes them (lease commit in OperatorAdapter.receive).
AcceptedBytesKept ==
    \A s \in Sessions :
        /\ session[s].pc \in {"retrieve", "join"} /\ IsUpload(s)
        /\ results[session[s].id] = "none" \/ intents = session[s].corr
        => slot = Mine(s)

\* Every durable correlation gets a result (repair, handoff, rotation).
EveryCorrelationSettles ==
    \A c \in Correlations :
        Established(c) => results[corr[c].id] # "none" /\ intents # c

\* The single slot is never blocked for good by bytes nobody will use.
SlotIsFreed == \A c \in Correlations, b \in Uploads : slot # Artifact(c, b)
=============================================================================
