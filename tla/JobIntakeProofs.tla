--------------------------- MODULE JobIntakeProofs ---------------------------
(***************************************************************************)
(* Proofs about JobIntake, for every set of sessions, correlations and     *)
(* bindings and every bound: the two indexes stay repairable, an operator  *)
(* is answered with one job and its stored result, and the bytes of an     *)
(* accepted upload stay until its job has ended.                           *)
(*                                                                         *)
(* The locks are held across several steps, so what a session or a worker  *)
(* may do next rests on what it has seen at its program counter            *)
(* (SessionInv, WorkerInv); what is durable is in PairInv and AnswersInv.  *)
(***************************************************************************)
EXTENDS JobIntake, FiniteSetTheorems, WellFoundedInduction, TLAPS

SessionRecord ==
    [pc : SessionLabels, corr : Correlations \cup {None}, binding : Bindings \cup {None},
     existing : BOOLEAN, source : 0..MaxJobs, id : Ids \cup {None}]
Answer == [corr : Correlations, id : Ids, binding : Bindings, status : {"succeeded", "failed"}]
Artifacts == {Artifact(c, b) : c \in Correlations, b \in Uploads}

TypeInv ==
    /\ corr \in [Correlations -> Job \cup {None}]
    /\ jobs \in [Ids -> Stored \cup {None}]
    /\ results \in [Ids -> {"none", "succeeded", "failed"}]
    /\ intents \in Correlations \cup {None}
    /\ slot \in {None, Temporary} \cup Artifacts
    /\ intakeLock \in Sessions \cup Ids \cup {None}
    /\ stateLock \in Sessions \cup {None}
    /\ cursor \in 0..MaxJobs
    /\ session \in [Sessions -> SessionRecord]
    /\ worker \in [Ids -> WorkerLabels]
    /\ answers \subseteq Answer
    /\ source \in 0..MaxJobs
    /\ faults \in 0..MaxFaults /\ requests \in 0..MaxRequests

\* The job i in the two indexes js and corr.
Paired(js, i) == js[i] # None =>
    Established(js[i].job.corr) /\ corr[js[i].job.corr] = js[i].job /\ js[i].job.id = i

\* The pairs are completed one at a time.
PairInv ==
    /\ \A c \in Correlations : Established(c) => corr[c].corr = c
    /\ \A c, d \in Correlations :
          Established(c) /\ Established(d) /\ corr[c].id = corr[d].id => c = d
    /\ \A i \in Ids : Paired(jobs, i)
    /\ \A c, d \in HalfPairs : c = d

\* The session holds the job of its correlation.
Bound(r) == /\ Established(r.corr) /\ corr[r.corr].binding = r.binding
            /\ corr[r.corr].id = r.id /\ r.id \in Ids

\* Where a session holds the intake lock, if its operation carries bytes.
Waiting == {"retrieve", "join"}
Intaking == SessionLabels \ ({"idle"} \cup Waiting)
Streaming == {"stream", "publish"}

\* An operator waits for a job that still needs the bytes it uploaded.
NeedsBytes(s) ==
    /\ session[s].pc \in Waiting /\ IsUpload(s)
    /\ results[session[s].id] = "none" \/ intents = session[s].corr

\* What session s has established at its program counter.
SessionInv(s) ==
    LET r == session[s] IN
    /\ r.pc # "idle" => r.corr \in Correlations /\ r.binding \in Bindings
    /\ r.pc \in Streaming \cup {"needs"} => IsUpload(s)
    /\ r.pc = "createJob" => Bound(r)
    /\ r.pc \in Waiting \cup {"needs"} => Bound(r) /\ jobs[r.id] # None
    /\ r.pc \in Intaking /\ IsUpload(s) =>
          /\ intakeLock = s
          /\ slot = IF r.pc = "stream" THEN None ELSE IF r.pc = "publish" THEN Temporary ELSE Mine(s)
          /\ ~r.existing => \A t \in Sessions : ~NeedsBytes(t)
    /\ r.pc \in Streaming => ~r.existing
    /\ intakeLock = s => r.pc \in Intaking /\ IsUpload(s)

\* What the worker of job i has established at its program counter.
WorkerInv(i) ==
    /\ worker[i] # "idle" => jobs[i] # None
    /\ worker[i] = "run" => StillNeeded(i) /\ results[i] # "failed"
    /\ worker[i] \in {"commit", "clear"} => intents = jobs[i].job.corr
    /\ worker[i] = "commit" => results[i] # "failed"
    /\ worker[i] = "clear" => results[i] = "succeeded"
    /\ worker[i] \in {"fail", "validate", "consume"} => intents # jobs[i].job.corr
    /\ worker[i] \in {"validate", "consume"} => results[i] # "none"
    /\ results[i] = "failed" => jobs[i] # None /\ intents # jobs[i].job.corr

IntakeInv ==
    /\ TypeInv /\ PairInv /\ OneAnswerPerCorrelation /\ AcceptedBytesKept
    /\ \A a \in answers : Established(a.corr)
    /\ \A s \in Sessions : SessionInv(s)
    /\ \A i \in Ids : WorkerInv(i)

-----------------------------------------------------------------------------
(* Records *)

\* What the code keeps for good: a correlation's record, a job's identity and
\* its result.
Kept ==
    /\ \A c \in Correlations : Established(c) => corr'[c] = corr[c]
    /\ \A i \in Ids : jobs[i] # None => jobs'[i] # None /\ jobs'[i].job = jobs[i].job
    /\ \A i \in Ids : results[i] # "none" => results'[i] = results[i]

\* The facts about the identities of a job that every step uses.
LEMMA PairFacts ==
    ASSUME IntakeAssumption, TypeInv, PairInv
    PROVE  /\ \A c \in Correlations : Established(c) =>
                 corr[c] \in Job /\ corr[c].id \in Ids /\ corr[c].corr = c
                 /\ corr[c].binding \in Bindings
           /\ \A i \in Ids : jobs[i] # None =>
                 /\ jobs[i] \in Stored /\ jobs[i].job \in Job /\ jobs[i].job.id = i
                 /\ jobs[i].job.corr \in Correlations /\ jobs[i].job.corr # None
                 /\ Established(jobs[i].job.corr) /\ corr[jobs[i].job.corr] = jobs[i].job
           /\ \A i, k \in Ids : jobs[i] # None /\ jobs[k] # None /\ i # k =>
                 jobs[i].job.corr # jobs[k].job.corr
           /\ \A c \in Correlations, i \in Ids :
                 Established(c) /\ corr[c].id = i /\ jobs[i] # None => jobs[i].job.corr = c
<1>1. ASSUME NEW c \in Correlations, Established(c)
      PROVE  corr[c] \in Job /\ corr[c].id \in Ids /\ corr[c].corr = c /\ corr[c].binding \in Bindings
  BY <1>1 DEF TypeInv, PairInv, Established, Job
<1>2. ASSUME NEW i \in Ids, jobs[i] # None
      PROVE  /\ jobs[i] \in Stored /\ jobs[i].job \in Job /\ jobs[i].job.id = i
             /\ jobs[i].job.corr \in Correlations /\ jobs[i].job.corr # None
             /\ Established(jobs[i].job.corr) /\ corr[jobs[i].job.corr] = jobs[i].job
  <2>1. jobs[i] \in Stored /\ jobs[i].job \in Job
    BY <1>2 DEF TypeInv, Stored
  <2>2. jobs[i].job.corr \in Correlations
    BY <2>1 DEF Job
  <2>3. jobs[i].job.corr # None
    BY <2>2 DEF IntakeAssumption
  <2> QED
    BY <1>2, <2>1, <2>2, <2>3 DEF PairInv, Paired
<1>3. ASSUME NEW i \in Ids, NEW k \in Ids, jobs[i] # None, jobs[k] # None, i # k
      PROVE  jobs[i].job.corr # jobs[k].job.corr
  BY <1>2, <1>3
<1>4. ASSUME NEW c \in Correlations, NEW i \in Ids, Established(c), corr[c].id = i, jobs[i] # None
      PROVE  jobs[i].job.corr = c
  BY <1>2, <1>4 DEF PairInv
<1> QED
  BY <1>1, <1>2, <1>3, <1>4

\* A new job record.
LEMMA PendingFacts ==
    ASSUME NEW j \in Job
    PROVE  Pending(j) \in Stored /\ Pending(j).job = j
<1>1. Pending(j) \in Stored
  BY DEF Pending, Stored
<1> QED
  BY <1>1 DEF Pending

\* _reconcile_pairs changes no record that is there, adds the one its
\* correlation names, and leaves none missing unless an intent defers it.
LEMMA RepairFacts ==
    ASSUME IntakeAssumption, TypeInv, PairInv
    PROVE  /\ RepairedJobs \in [Ids -> Stored \cup {None}]
           /\ \A i \in Ids : Paired(RepairedJobs, i)
           /\ \A i \in Ids : jobs[i] # None => RepairedJobs[i] = jobs[i]
           /\ intents = None => \A c \in Correlations : Established(c) => RepairedJobs[corr[c].id] # None
<1>1. CASE intents # None
  BY <1>1 DEF RepairedJobs, TypeInv, PairInv
<1>2. CASE intents = None
  <2>1. RepairedJobs = [i \in Ids |-> IF \E c \in HalfPairs : corr[c].id = i
                                      THEN Pending(corr[CHOOSE c \in HalfPairs : corr[c].id = i])
                                      ELSE jobs[i]]
    BY <1>2 DEF RepairedJobs
  <2>2. ASSUME NEW i \in Ids, \E c \in HalfPairs : corr[c].id = i
        PROVE  /\ RepairedJobs[i] \in Stored /\ jobs[i] = None
               /\ Paired(RepairedJobs, i)
    <3>1. PICK c \in HalfPairs : c = CHOOSE d \in HalfPairs : corr[d].id = i
      BY <2>2
    <3>2. corr[c].id = i /\ c \in Correlations /\ Established(c) /\ jobs[i] = None
      BY <2>2, <3>1 DEF HalfPairs
    <3>3. RepairedJobs[i] = Pending(corr[c])
      BY <2>1, <2>2, <3>1
    <3>4. corr[c] \in Job /\ corr[c].corr = c
      BY <3>2, PairFacts
    <3>5. Pending(corr[c]) \in Stored /\ Pending(corr[c]).job = corr[c]
      BY <3>4, PendingFacts
    <3> QED
      BY <3>2, <3>3, <3>4, <3>5 DEF Paired
  <2>3. ASSUME NEW i \in Ids, ~\E c \in HalfPairs : corr[c].id = i
        PROVE  RepairedJobs[i] = jobs[i] /\ Paired(RepairedJobs, i)
    BY <2>1, <2>3 DEF Paired, PairInv
  <2>4. RepairedJobs \in [Ids -> Stored \cup {None}]
    <3>1. \A i \in Ids : RepairedJobs[i] \in Stored \cup {None}
      BY <2>2, <2>3 DEF TypeInv
    <3> QED
      BY <2>1, <3>1
  <2>5. ASSUME NEW c \in Correlations, Established(c) PROVE RepairedJobs[corr[c].id] # None
    <3>1. corr[c].id \in Ids
      BY <2>5, PairFacts
    <3>2. CASE jobs[corr[c].id] = None
      <4>1. c \in HalfPairs
        BY <2>5, <3>2 DEF HalfPairs
      <4>2. RepairedJobs[corr[c].id] \in Stored
        BY <2>2, <3>1, <4>1
      <4> QED
        BY <4>2 DEF IntakeAssumption
    <3>3. CASE jobs[corr[c].id] # None
      BY <2>2, <2>3, <3>1, <3>3
    <3> QED
      BY <3>2, <3>3
  <2> QED
    BY <2>2, <2>3, <2>4, <2>5
<1> QED
  BY <1>1, <1>2

\* Every transaction that only repairs, or writes job records in place, leaves
\* the indexes repairable.
LEMMA PairKept ==
    ASSUME IntakeAssumption, TypeInv, PairInv, corr' = corr,
           \A i \in Ids : Paired(jobs', i),
           \A i \in Ids : jobs[i] # None => jobs'[i] # None
    PROVE  PairInv'
<1>1. \A c \in Correlations : Established(c)' <=> Established(c)
  BY DEF Established
<1>2. HalfPairs' \subseteq HalfPairs
  <2>1. ASSUME NEW c \in HalfPairs' PROVE c \in HalfPairs
    <3>1. c \in Correlations /\ Established(c) /\ jobs'[corr[c].id] = None
      BY <1>1, <2>1 DEF HalfPairs
    <3>2. jobs[corr[c].id] = None
      BY <3>1, PairFacts
    <3> QED
      BY <3>1, <3>2 DEF HalfPairs
  <2> QED
    BY <2>1
<1>3. \A i \in Ids : Paired(jobs, i)'
  BY <1>1 DEF Paired, Established
<1> QED
  BY <1>1, <1>2, <1>3 DEF PairInv

\* _reconcile_pairs as such.
LEMMA RepairKept ==
    ASSUME IntakeAssumption, TypeInv, PairInv, corr' = corr, results' = results, jobs' = RepairedJobs
    PROVE  PairInv' /\ Kept
<1>1. PairInv'
  <2>1. \A i \in Ids : Paired(jobs', i)
    BY RepairFacts DEF Paired
  <2> QED
    BY <2>1, PairKept, RepairFacts
<1>2. Kept
  BY RepairFacts DEF Kept
<1> QED
  BY <1>1, <1>2

\* What one job record gains in phase or marker.
LEMMA RecordKept ==
    ASSUME IntakeAssumption, TypeInv, PairInv, corr' = corr, NEW i \in Ids, jobs[i] # None,
           NEW r \in Stored, r.job = jobs[i].job, jobs' = [jobs EXCEPT ![i] = r],
           \A k \in Ids : results[k] # "none" => results'[k] = results[k]
    PROVE  PairInv' /\ Kept /\ jobs' \in [Ids -> Stored \cup {None}]
<1>1. jobs' \in [Ids -> Stored \cup {None}] /\ jobs'[i] = r /\ r # None
  BY DEF TypeInv, IntakeAssumption
<1>2. \A k \in Ids : k # i => jobs'[k] = jobs[k]
  BY DEF TypeInv
<1>3. \A k \in Ids : Paired(jobs', k)
  BY <1>1, <1>2 DEF Paired, PairInv
<1>4. \A k \in Ids : jobs[k] # None => jobs'[k] # None /\ jobs'[k].job = jobs[k].job
  BY <1>1, <1>2
<1>5. PairInv'
  BY <1>3, <1>4, PairKept
<1> QED
  BY <1>1, <1>4, <1>5 DEF Kept

-----------------------------------------------------------------------------
(* What a step leaves of the knowledge of those who do not take it *)

\* A job that needs no bytes never needs them again: only its own worker makes
\* its intent, and only while it still needs them.
LEMMA NeedsKept ==
    ASSUME IntakeAssumption, IntakeInv, Kept, NEW t \in Sessions, session'[t] = session[t],
           \/ intents' \in {intents, None}
           \/ \E i \in Ids : jobs[i] # None /\ StillNeeded(i) /\ intents' = jobs[i].job.corr,
           NeedsBytes(t)'
    PROVE  NeedsBytes(t)
<1> DEFINE r == session[t]
<1>1. r.pc \in Waiting /\ IsUpload(t) /\ r.corr \in Correlations /\ Bound(r) /\ jobs[r.id] # None
  BY DEF IntakeInv, SessionInv, NeedsBytes, IsUpload, Waiting
<1>2. results'[r.id] = "none" \/ intents' = r.corr
  BY DEF NeedsBytes
<1>3. CASE results'[r.id] = "none"
  BY <1>1, <1>3 DEF Kept, Bound, NeedsBytes
<1>4. CASE intents' = r.corr /\ intents' \in {intents, None}
  BY <1>1, <1>4 DEF NeedsBytes, IntakeAssumption
<1>5. ASSUME intents' = r.corr, NEW i \in Ids, jobs[i] # None, StillNeeded(i), intents' = jobs[i].job.corr
      PROVE  NeedsBytes(t)
  <2>1. i = r.id
    BY <1>1, <1>5, PairFacts DEF Bound, IntakeInv
  <2> QED
    BY <1>1, <1>5, <2>1 DEF StillNeeded, NeedsBytes
<1> QED
  BY <1>2, <1>3, <1>4, <1>5

\* A session that does not act keeps what it has established, if the locks and
\* the bytes it relies on are left alone.
LEMMA SessionKept ==
    ASSUME IntakeAssumption, IntakeInv, Kept, NEW t \in Sessions, session'[t] = session[t],
           intakeLock' = t <=> intakeLock = t,
           intakeLock = t => slot' = slot /\ \A u \in Sessions : NeedsBytes(u)' => NeedsBytes(u),
           NeedsBytes(t) => slot' = slot,
           NeedsBytes(t)' => NeedsBytes(t)
    PROVE  SessionInv(t)' /\ (NeedsBytes(t)' => slot' = Mine(t)')
<1> DEFINE r == session[t]
<1>1. SessionInv(t) /\ AcceptedBytesKept
  BY DEF IntakeInv
<1>2. IsUpload(t)' = IsUpload(t) /\ Mine(t)' = Mine(t)
  BY DEF IsUpload, Mine
<1>3. Bound(r) /\ r.corr \in Correlations => Bound(r)'
  BY DEF Bound, Kept, Established
<1>4. r.id \in Ids /\ jobs[r.id] # None => jobs'[r.id] # None
  BY DEF Kept
<1>5. Bound(r) => r.id \in Ids
  BY DEF Bound
<1>6. r.pc \in Intaking /\ IsUpload(t) => intakeLock = t
  BY <1>1 DEF SessionInv
<1>7. SessionInv(t)'
  <2>1. r.pc # "idle" => r.corr \in Correlations /\ r.binding \in Bindings
    BY <1>1 DEF SessionInv
  <2>2. (r.pc = "createJob" => Bound(r)) /\ (r.pc \in Waiting \cup {"needs"} => Bound(r) /\ jobs[r.id] # None)
    BY <1>1 DEF SessionInv
  <2>3. /\ r.pc = "createJob" => Bound(r)'
        /\ r.pc \in Waiting \cup {"needs"} => Bound(r)' /\ jobs'[r.id] # None
    BY <1>3, <1>4, <1>5, <2>1, <2>2 DEF Waiting
  <2>4. r.pc \in Intaking /\ IsUpload(t) =>
          /\ intakeLock' = t
          /\ slot' = IF r.pc = "stream" THEN None ELSE IF r.pc = "publish" THEN Temporary ELSE Mine(t)
          /\ ~r.existing => \A u \in Sessions : ~NeedsBytes(u)'
    BY <1>1, <1>6 DEF SessionInv
  <2>5. /\ r.pc \in Streaming \cup {"needs"} => IsUpload(t)
        /\ r.pc \in Streaming => ~r.existing
        /\ intakeLock' = t => r.pc \in Intaking /\ IsUpload(t)
    BY <1>1 DEF SessionInv
  <2> QED
    BY <1>2, <2>1, <2>3, <2>4, <2>5 DEF SessionInv
<1>8. NeedsBytes(t)' => slot' = Mine(t)'
  BY <1>1, <1>2 DEF AcceptedBytesKept, NeedsBytes, Waiting
<1> QED
  BY <1>7, <1>8

\* A job whose worker does not act, or is started or ended, keeps what it has
\* established.
LEMMA WorkerKept ==
    ASSUME IntakeAssumption, IntakeInv, Kept, NEW i \in Ids, results'[i] = results[i],
           \/ worker'[i] = worker[i] \/ worker'[i] = "idle"
           \/ worker'[i] = "start" /\ jobs'[i] # None,
           intents' = intents \/ (jobs[i] # None => jobs[i].job.corr \notin {intents, intents'})
    PROVE  WorkerInv(i)'
<1>1. WorkerInv(i)
  BY DEF IntakeInv
<1>2. jobs[i] # None => jobs'[i] # None /\ jobs'[i].job = jobs[i].job
  BY DEF Kept
<1>3. CASE jobs[i] = None
  <2>1. worker[i] = "idle" /\ results[i] # "failed"
    BY <1>1, <1>3 DEF WorkerInv
  <2> QED
    BY <2>1 DEF WorkerInv
<1>4. CASE jobs[i] # None
  BY <1>1, <1>2, <1>4 DEF WorkerInv, StillNeeded
<1> QED
  BY <1>3, <1>4

\* What has been answered stays true.
LEMMA AnswersKept ==
    ASSUME IntakeAssumption, IntakeInv, Kept,
           \A a \in answers' \ answers : /\ a \in Answer /\ Established(a.corr)
                                         /\ corr[a.corr].id = a.id /\ corr[a.corr].binding = a.binding
                                         /\ results[a.id] = a.status
    PROVE  OneAnswerPerCorrelation' /\ \A a \in answers' : Established(a.corr)'
<1>1. ASSUME NEW a \in answers'
      PROVE  /\ a \in Answer /\ Established(a.corr) /\ results[a.id] = a.status
             /\ corr[a.corr].id = a.id /\ corr[a.corr].binding = a.binding
  BY DEF IntakeInv, TypeInv, OneAnswerPerCorrelation
<1>2. ASSUME NEW a \in answers'
      PROVE  corr'[a.corr] = corr[a.corr] /\ results'[a.id] = a.status
  BY <1>1 DEF Answer, Kept
<1> QED
  BY <1>1, <1>2 DEF OneAnswerPerCorrelation, Established

\* What a step of session s leaves alone: the locks of the others, and the bytes
\* that somebody needs.
SessionFrame(s) ==
    /\ UNCHANGED <<results, intents>>
    /\ \A t \in Sessions \ {s} : session'[t] = session[t]
    /\ \A i \in Ids : worker'[i] = worker[i] \/ (worker'[i] = "start" /\ jobs'[i] # None)
    /\ intakeLock' = intakeLock \/ (intakeLock \in {s, None} /\ intakeLock' \in {s, None})
    /\ slot' = slot \/ intakeLock \in {s, None}
    /\ \A t \in Sessions \ {s} : NeedsBytes(t) => slot' = slot
    /\ intakeLock \in {s, None} \/ ~NeedsBytes(s)' \/ NeedsBytes(s)

\* A step of session s, as far as the others are concerned.
LEMMA SessionStepInv ==
    ASSUME IntakeAssumption, IntakeInv, NEW s \in Sessions, TypeInv', PairInv', Kept,
           SessionFrame(s), SessionInv(s)', NeedsBytes(s)' => slot' = Mine(s)',
           answers' = answers \/ \E a \in Answer :
               /\ Established(a.corr) /\ corr[a.corr].id = a.id /\ corr[a.corr].binding = a.binding
               /\ results[a.id] = a.status /\ answers' = answers \cup {a}
    PROVE  IntakeInv'
<1> USE DEF SessionFrame
<1>1. \A t \in Sessions \ {s} : NeedsBytes(t)' => NeedsBytes(t)
  BY NeedsKept
<1>2. ASSUME NEW t \in Sessions, t # s PROVE SessionInv(t)' /\ (NeedsBytes(t)' => slot' = Mine(t)')
  <2>1. intakeLock' = t <=> intakeLock = t
    BY <1>2 DEF IntakeAssumption
  <2>2. intakeLock = t => slot' = slot /\ \A u \in Sessions : NeedsBytes(u)' => NeedsBytes(u)
    BY <1>1, <1>2 DEF IntakeAssumption
  <2> QED
    BY <1>1, <1>2, <2>1, <2>2, SessionKept
<1>3. \A t \in Sessions : SessionInv(t)'
  BY <1>2
<1>4. AcceptedBytesKept'
  <2>1. \A t \in Sessions : NeedsBytes(t)' => slot' = Mine(t)'
    BY <1>2
  <2> QED
    BY <2>1 DEF AcceptedBytesKept, NeedsBytes, Waiting
<1>5. \A i \in Ids : WorkerInv(i)'
  BY WorkerKept
<1>6. OneAnswerPerCorrelation' /\ \A a \in answers' : Established(a.corr)'
  BY AnswersKept
<1> QED
  BY <1>3, <1>4, <1>5, <1>6 DEF IntakeInv

\* A step of the worker of job i, as far as the others are concerned.
LEMMA WorkerStepInv ==
    ASSUME IntakeAssumption, IntakeInv, NEW i \in Ids, jobs[i] # None, TypeInv', PairInv', Kept,
           UNCHANGED <<session, answers>>,
           \A k \in Ids \ {i} : worker'[k] = worker[k] /\ results'[k] = results[k],
           \/ intents' = intents
           \/ intents = jobs[i].job.corr /\ intents' = None
           \/ intents = None /\ intents' = jobs[i].job.corr /\ StillNeeded(i),
           intakeLock' = intakeLock \/ (intakeLock \in {i, None} /\ intakeLock' \in {i, None}),
           slot' = slot \/ (intakeLock \in {i, None} /\ \A t \in Sessions : ~NeedsBytes(t)),
           WorkerInv(i)'
    PROVE  IntakeInv'
<1>1. \A t \in Sessions : NeedsBytes(t)' => NeedsBytes(t)
  BY NeedsKept
<1>2. ASSUME NEW t \in Sessions PROVE SessionInv(t)' /\ (NeedsBytes(t)' => slot' = Mine(t)')
  <2>1. t # i /\ t # None
    BY DEF IntakeAssumption
  <2>2. intakeLock' = t <=> intakeLock = t
    BY <2>1
  <2>3. intakeLock = t => slot' = slot
    BY <2>1
  <2> QED
    BY <1>1, <2>2, <2>3, SessionKept
<1>3. AcceptedBytesKept'
  BY <1>2 DEF AcceptedBytesKept, NeedsBytes, Waiting
<1>4. ASSUME NEW k \in Ids, k # i PROVE WorkerInv(k)'
  <2>1. jobs[k] # None => jobs[k].job.corr # jobs[i].job.corr /\ jobs[k].job.corr # None
    BY <1>4, PairFacts DEF IntakeInv
  <2> QED
    BY <1>4, <2>1, WorkerKept
<1>5. OneAnswerPerCorrelation' /\ \A a \in answers' : Established(a.corr)'
  BY AnswersKept
<1> QED
  BY <1>2, <1>3, <1>4, <1>5 DEF IntakeInv

-----------------------------------------------------------------------------
(* The steps of a session *)

\* A session record that is replaced,
LEMMA MoveFacts ==
    ASSUME IntakeAssumption, TypeInv, NEW s \in Sessions, NEW r \in SessionRecord,
           session' = [session EXCEPT ![s] = r]
    PROVE  /\ session' \in [Sessions -> SessionRecord] /\ session'[s] = r
           /\ \A t \in Sessions \ {s} : session'[t] = session[t]
  BY DEF TypeInv

\* reset,
LEMMA IdleFacts ==
    ASSUME IntakeAssumption
    PROVE  IdleSession \in SessionRecord /\ IdleSession.pc = "idle"
<1>1. 0 \in 0..MaxJobs
  BY DEF IntakeAssumption
<1> QED
  BY <1>1 DEF IdleSession, SessionRecord, SessionLabels

\* or moved on.
LEMMA GotoFacts ==
    ASSUME IntakeAssumption, TypeInv, NEW s \in Sessions, NEW label \in SessionLabels,
           Goto(s, label)
    PROVE  /\ session' \in [Sessions -> SessionRecord]
           /\ session'[s].pc = label /\ session'[s].corr = session[s].corr
           /\ session'[s].binding = session[s].binding /\ session'[s].existing = session[s].existing
           /\ session'[s].id = session[s].id
           /\ \A t \in Sessions \ {s} : session'[t] = session[t]
<1> DEFINE r == [session[s] EXCEPT !.pc = label]
<1>1. session[s] \in SessionRecord
  BY DEF TypeInv
<1>2. r \in SessionRecord
  BY <1>1 DEF SessionRecord
<1>3. /\ r.pc = label /\ r.corr = session[s].corr /\ r.binding = session[s].binding
      /\ r.existing = session[s].existing /\ r.id = session[s].id
  BY <1>1 DEF SessionRecord
<1>4. session' = [session EXCEPT ![s] = r]
  BY DEF Goto, TypeInv
<1> HIDE DEF r
<1> QED
  BY <1>2, <1>3, <1>4, MoveFacts

\* An idle session has established nothing, and holds nothing.
LEMMA IdleInv ==
    ASSUME IntakeAssumption, NEW s \in Sessions, session'[s].pc = "idle", intakeLock' # s
    PROVE  SessionInv(s)' /\ ~NeedsBytes(s)'
  BY DEF SessionInv, NeedsBytes, Streaming, Waiting, Intaking

\* A session that accepts its job leaves intake.
LEMMA AcceptFacts ==
    ASSUME IntakeAssumption, IntakeInv, NEW s \in Sessions, NEW i \in Ids, Accept(s, i)
    PROVE  /\ session' \in [Sessions -> SessionRecord]
           /\ session'[s].pc = "retrieve" /\ session'[s].id = i
           /\ session'[s].corr = session[s].corr /\ session'[s].binding = session[s].binding
           /\ \A t \in Sessions \ {s} : session'[t] = session[t]
           /\ intakeLock' = intakeLock \/ (intakeLock \in {s, None} /\ intakeLock' \in {s, None})
           /\ intakeLock' # s
           /\ intakeLock' \in Sessions \cup Ids \cup {None}
<1> DEFINE r == [session[s] EXCEPT !.pc = "retrieve", !.id = i]
<1>1. session[s] \in SessionRecord
  BY DEF IntakeInv, TypeInv
<1>2. r \in SessionRecord
  BY <1>1 DEF SessionRecord, SessionLabels
<1>3. r.pc = "retrieve" /\ r.id = i /\ r.corr = session[s].corr /\ r.binding = session[s].binding
  BY <1>1 DEF SessionRecord
<1>4. session' = [session EXCEPT ![s] = r]
  BY DEF Accept, IntakeInv, TypeInv
<1> HIDE DEF r
<1>5. /\ session' \in [Sessions -> SessionRecord] /\ session'[s] = r
      /\ \A t \in Sessions \ {s} : session'[t] = session[t]
  BY <1>2, <1>4, MoveFacts DEF IntakeInv
<1>6. intakeLock' = IF intakeLock = s THEN None ELSE intakeLock
  BY DEF Accept
<1>7. s # None
  BY DEF IntakeAssumption
<1> QED
  BY <1>3, <1>5, <1>6, <1>7 DEF IntakeInv, TypeInv

\* What a session that accepts its job has established.
LEMMA AcceptInv ==
    ASSUME IntakeAssumption, IntakeInv, NEW s \in Sessions, NEW i \in Ids, Accept(s, i),
           session[s].corr \in Correlations, session[s].binding \in Bindings,
           corr'[session[s].corr] # None, corr'[session[s].corr].id = i,
           corr'[session[s].corr].binding = session[s].binding,
           jobs'[i] # None, IsUpload(s) => slot' = Mine(s) \/ ~NeedsBytes(s)'
    PROVE  SessionInv(s)' /\ (NeedsBytes(s)' => slot' = Mine(s)')
<1>1. /\ session'[s].pc = "retrieve" /\ session'[s].id = i /\ intakeLock' # s
      /\ session'[s].corr = session[s].corr /\ session'[s].binding = session[s].binding
  BY AcceptFacts
<1>2. Bound(session[s])' 
  BY <1>1 DEF Bound, Established
<1>3. SessionInv(s)'
  BY <1>1, <1>2 DEF SessionInv, Streaming, Waiting, Intaking
<1>4. IsUpload(s)' = IsUpload(s) /\ Mine(s)' = Mine(s)
  BY <1>1 DEF IsUpload, Mine
<1>5. NeedsBytes(s)' => slot' = Mine(s)'
  BY <1>4 DEF NeedsBytes
<1> QED
  BY <1>3, <1>5

\* A session whose contexts unwind gives its locks back, and empties only a slot
\* that nobody's accepted bytes are in.
LEMMA AbandonFacts ==
    ASSUME IntakeAssumption, IntakeInv, NEW s \in Sessions, Abandon(s)
    PROVE  /\ session' \in [Sessions -> SessionRecord]
           /\ \A t \in Sessions \ {s} : session'[t] = session[t]
           /\ intakeLock' = intakeLock \/ (intakeLock \in {s, None} /\ intakeLock' \in {s, None})
           /\ slot' = slot \/ intakeLock \in {s, None}
           /\ \A t \in Sessions \ {s} : NeedsBytes(t) => slot' = slot
           /\ SessionInv(s)' /\ ~NeedsBytes(s)'
           /\ intakeLock' \in Sessions \cup Ids \cup {None}
           /\ stateLock' \in Sessions \cup {None}
           /\ slot' \in {None, Temporary} \cup Artifacts
<1>1. /\ session' \in [Sessions -> SessionRecord] /\ session'[s] = IdleSession
      /\ \A t \in Sessions \ {s} : session'[t] = session[t]
  BY IdleFacts, MoveFacts DEF Abandon, IntakeInv
<1>2. /\ intakeLock' = IF intakeLock = s THEN None ELSE intakeLock
      /\ stateLock' = IF stateLock = s THEN None ELSE stateLock
      /\ slot' = IF intakeLock = s /\ ~session[s].existing THEN None ELSE slot
  BY DEF Abandon
<1>3. s # None
  BY DEF IntakeAssumption
<1>4. SessionInv(s)' /\ ~NeedsBytes(s)'
  BY <1>1, <1>2, <1>3, IdleFacts, IdleInv
<1>5. \A t \in Sessions \ {s} : NeedsBytes(t) => slot' = slot
  <2>1. intakeLock = s /\ ~session[s].existing => \A t \in Sessions : ~NeedsBytes(t)
    BY DEF IntakeInv, SessionInv
  <2> QED
    BY <1>2, <2>1
<1> QED
  BY <1>1, <1>2, <1>3, <1>4, <1>5 DEF IntakeInv, TypeInv

LEMMA ReceiveInv ==
    ASSUME IntakeAssumption, IntakeInv, NEW s \in Sessions, NEW c \in Correlations, NEW b \in Bindings,
           Receive(s, c, b)
    PROVE  IntakeInv'
<1>0. TypeInv /\ PairInv /\ AcceptedBytesKept /\ \A t \in Sessions : SessionInv(t)
  BY DEF IntakeInv
<1>1. /\ At(s, "idle") /\ UNCHANGED <<stateVars, stateLock, worker, answers, faults>>
      /\ requests' \in 0..MaxRequests
  BY <1>0 DEF Receive, TypeInv, IntakeAssumption
<1>2. Kept /\ PairInv'
  BY <1>0, <1>1 DEF Kept, stateVars, PairInv, Paired, HalfPairs, Established
<1>3. intakeLock # s
  BY <1>0, <1>1 DEF SessionInv, At, Intaking
<1> DEFINE r(pc, e) == [IdleSession EXCEPT !.pc = pc, !.corr = c, !.binding = b, !.existing = e]
<1>4. ASSUME NEW pc \in {"recognize", "stream"}, NEW e \in BOOLEAN
      PROVE  /\ r(pc, e) \in SessionRecord /\ r(pc, e).pc = pc /\ r(pc, e).corr = c
             /\ r(pc, e).binding = b /\ r(pc, e).existing = e
  <2>1. 0 \in 0..MaxJobs
    BY DEF IntakeAssumption
  <2> QED
    BY <2>1 DEF IdleSession, SessionRecord, SessionLabels
<1>5. CASE b \notin Uploads
  <2>1. session' = [session EXCEPT ![s] = [IdleSession EXCEPT !.pc = "recognize", !.corr = c, !.binding = b]]
        /\ UNCHANGED <<slot, intakeLock>>
    BY <1>5 DEF Receive
  <2> DEFINE q == [IdleSession EXCEPT !.pc = "recognize", !.corr = c, !.binding = b]
  <2>2. /\ q \in SessionRecord /\ q.pc = "recognize" /\ q.corr = c /\ q.binding = b
    <3>1. 0 \in 0..MaxJobs
      BY DEF IntakeAssumption
    <3> QED
      BY <3>1 DEF IdleSession, SessionRecord, SessionLabels
  <2>3. /\ session' \in [Sessions -> SessionRecord] /\ session'[s] = q
        /\ \A t \in Sessions \ {s} : session'[t] = session[t]
    BY <1>0, <2>1, <2>2, MoveFacts
  <2>4. session'[s].pc = "recognize" /\ session'[s].corr = c /\ session'[s].binding = b
    BY <2>2, <2>3
  <2> HIDE DEF q
  <2>5. SessionInv(s)' /\ ~NeedsBytes(s)'
    BY <1>3, <1>5, <2>1, <2>4 DEF SessionInv, NeedsBytes, IsUpload, Streaming, Waiting
  <2>6. TypeInv'
    BY <1>0, <1>1, <2>1, <2>3 DEF TypeInv, stateVars
  <2>11. UNCHANGED <<results, intents>>
    BY <1>1 DEF stateVars
  <2>12. \A i \in Ids : worker'[i] = worker[i]
    BY <1>1
  <2>13. intakeLock \in {s, None} \/ ~NeedsBytes(s)' \/ NeedsBytes(s)
    BY <2>5
  <2>14. slot' = slot /\ intakeLock' = intakeLock
    BY <2>1
  <2>20. SessionFrame(s)
    BY <2>11, <2>12, <2>13, <2>14, <2>3 DEF SessionFrame
  <2> QED
    BY <1>1, <1>2, <2>1, <2>3, <2>5, <2>6, <2>20, SessionStepInv DEF stateVars
<1>6. CASE b \in Uploads
  <2> DEFINE own == slot = Artifact(c, b)
  <2> DEFINE pc == IF own THEN "recognize" ELSE "stream"
  <2>1. /\ intakeLock = None /\ intakeLock' = s /\ slot \in {None, Temporary, Artifact(c, b)}
        /\ slot' = IF slot = Temporary THEN None ELSE slot
        /\ session' = [session EXCEPT ![s] = r(pc, own)]
    BY <1>6 DEF Receive
  <2>2. /\ session' \in [Sessions -> SessionRecord] /\ session'[s] = r(pc, own)
        /\ \A t \in Sessions \ {s} : session'[t] = session[t]
    BY <1>0, <1>4, <2>1, MoveFacts
  <2>3. /\ session'[s].pc = pc /\ session'[s].corr = c /\ session'[s].binding = b
        /\ session'[s].existing = own
    <3>1. pc \in {"recognize", "stream"} /\ own \in BOOLEAN
      OBVIOUS
    <3> QED
      BY <1>4, <2>2, <3>1
  <2>4. Temporary # None /\ \A x \in Artifacts : x # Temporary /\ x # None
    BY DEF Temporary, Artifacts, Artifact, IntakeAssumption
  <2>5. \A t \in Sessions : NeedsBytes(t) => slot \in Artifacts
    BY <1>0 DEF AcceptedBytesKept, NeedsBytes, Waiting, Mine, IsUpload, Artifacts, SessionInv
  <2>6. \A t \in Sessions \ {s} : NeedsBytes(t) => slot' = slot
    BY <2>1, <2>4, <2>5
  <2>7. Artifact(c, b) \in Artifacts
    BY <1>6 DEF Artifacts
  <2>8. ~NeedsBytes(s)'
    BY <2>3 DEF NeedsBytes, Waiting
  <2>9. \A t \in Sessions \ {s} : NeedsBytes(t)' => NeedsBytes(t)
    BY <1>1, <1>2, <2>2, NeedsKept DEF stateVars
  <2>10. ~own => \A t \in Sessions : ~NeedsBytes(t)'
    BY <2>1, <2>4, <2>5, <2>8, <2>9
  <2>11. SessionInv(s)'
    <3>1. Mine(s)' = Artifact(c, b) /\ IsUpload(s)'
      BY <1>6, <2>3 DEF Mine, IsUpload
    <3>2. slot' = IF pc = "stream" THEN None ELSE Artifact(c, b)
      BY <2>1, <2>4, <2>7
    <3>3. (pc = "stream" /\ ~own) \/ (pc = "recognize" /\ own)
      OBVIOUS
    <3> HIDE DEF pc, own
    <3> QED
      BY <2>1, <2>3, <2>10, <3>1, <3>2, <3>3 DEF SessionInv, Streaming, Waiting, Intaking, SessionLabels
  <2>12. TypeInv'
    BY <1>0, <1>1, <2>1, <2>2, <2>4 DEF TypeInv, stateVars
  <2> HIDE DEF pc, own
  <2>20. SessionFrame(s)
    BY <1>1, <1>2, <2>1, <2>2, <2>6, <2>8, <2>11, <2>12 DEF SessionFrame, stateVars
  <2> QED
    BY <1>1, <1>2, <2>1, <2>2, <2>6, <2>8, <2>11, <2>12, <2>20, SessionStepInv DEF stateVars
<1> QED
  BY <1>5, <1>6

\* A session that goes on and changes at most the slot, which it holds.
LEMMA StreamInv ==
    ASSUME IntakeAssumption, IntakeInv, NEW s \in Sessions, StreamTemporary(s) \/ PublishArtifact(s)
    PROVE  IntakeInv'
<1>0. TypeInv /\ PairInv /\ AcceptedBytesKept /\ \A t \in Sessions : SessionInv(t)
  BY DEF IntakeInv
<1>1. /\ UNCHANGED <<stateVars, intakeLock, stateLock, worker, answers, faults, requests>>
      /\ \/ At(s, "stream") /\ Goto(s, "publish") /\ slot' = Temporary
         \/ At(s, "publish") /\ Goto(s, "recognize") /\ slot' = Mine(s)
  BY DEF StreamTemporary, PublishArtifact
<1>2. Kept /\ PairInv'
  BY <1>0, <1>1 DEF Kept, stateVars, PairInv, Paired, HalfPairs, Established
<1>3. /\ session[s].pc \in Streaming /\ IsUpload(s) /\ intakeLock = s /\ slot \in {None, Temporary}
      /\ session[s].corr \in Correlations /\ session[s].binding \in Bindings
      /\ ~session[s].existing /\ \A t \in Sessions : ~NeedsBytes(t)
  BY <1>0, <1>1 DEF SessionInv, At, Streaming, Waiting, Intaking, SessionLabels
<1>4. PICK label \in {"publish", "recognize"} : /\ Goto(s, label)
                                                /\ slot' = IF label = "publish" THEN Temporary ELSE Mine(s)
  BY <1>1
<1>5. /\ session' \in [Sessions -> SessionRecord]
      /\ session'[s].pc = label /\ session'[s].corr = session[s].corr
      /\ session'[s].binding = session[s].binding /\ session'[s].existing = session[s].existing
      /\ session'[s].id = session[s].id
      /\ \A t \in Sessions \ {s} : session'[t] = session[t]
  <2>1. label \in SessionLabels
    BY DEF SessionLabels
  <2> QED
    BY <1>0, <1>4, <2>1, GotoFacts
<1>6. Mine(s)' = Mine(s) /\ IsUpload(s)' = IsUpload(s) /\ Mine(s) \in Artifacts
  BY <1>3, <1>5 DEF Mine, IsUpload, Artifacts
<1>7. ~NeedsBytes(s)'
  BY <1>5 DEF NeedsBytes, Waiting
<1>8. \A t \in Sessions : ~NeedsBytes(t)'
  BY <1>1, <1>2, <1>3, <1>5, <1>7, NeedsKept DEF stateVars
<1>9. SessionInv(s)'
  BY <1>1, <1>3, <1>4, <1>5, <1>6, <1>8
     DEF SessionInv, Streaming, Waiting, Intaking, SessionLabels
<1>10. TypeInv'
  BY <1>0, <1>1, <1>4, <1>5, <1>6 DEF TypeInv, stateVars
<1>20. SessionFrame(s)
  BY <1>1, <1>2, <1>3, <1>5, <1>7, <1>9, <1>10 DEF SessionFrame, stateVars
<1> QED
  BY <1>1, <1>2, <1>3, <1>5, <1>7, <1>9, <1>10, <1>20, SessionStepInv DEF stateVars

\* What a session has established while it holds its admitted bytes.
LEMMA IntakingFacts ==
    ASSUME IntakeInv, NEW s \in Sessions,
           session[s].pc \in {"recognize", "needs", "source", "resolve", "createJob"}
    PROVE  /\ session[s].corr \in Correlations /\ session[s].binding \in Bindings
           /\ session[s] \in SessionRecord
           /\ IsUpload(s) => /\ intakeLock = s /\ slot = Mine(s)
                             /\ ~session[s].existing => \A t \in Sessions : ~NeedsBytes(t)
<1>1. SessionInv(s) /\ TypeInv
  BY DEF IntakeInv
<1> QED
  BY <1>1 DEF SessionInv, TypeInv, Intaking, Waiting, SessionLabels

\* A session goes on with the bytes it has admitted.
LEMMA StayInv ==
    ASSUME IntakeAssumption, IntakeInv, NEW s \in Sessions, Kept, PairInv', TypeInv',
           UNCHANGED <<slot, intakeLock, results, intents, worker, answers>>,
           session[s].pc \in {"recognize", "source", "resolve"},
           session'[s].pc \in {"needs", "source", "resolve", "createJob"},
           session'[s].corr = session[s].corr, session'[s].binding = session[s].binding,
           session'[s].existing = session[s].existing,
           \A t \in Sessions \ {s} : session'[t] = session[t],
           session'[s].pc = "needs" => IsUpload(s) /\ Bound(session[s])' /\ jobs'[session'[s].id] # None,
           session'[s].pc = "createJob" => Bound(session[s])'
    PROVE  IntakeInv'
<1>1. /\ session[s].corr \in Correlations /\ session[s].binding \in Bindings
      /\ IsUpload(s) => /\ intakeLock = s /\ slot = Mine(s)
                        /\ ~session[s].existing => \A t \in Sessions : ~NeedsBytes(t)
  BY IntakingFacts
<1>2. IsUpload(s)' = IsUpload(s) /\ Mine(s)' = Mine(s)
  BY DEF IsUpload, Mine
<1>3. ~NeedsBytes(s)'
  BY DEF NeedsBytes, Waiting
<1>4. \A t \in Sessions \ {s} : NeedsBytes(t)' => NeedsBytes(t)
  BY NeedsKept
<1>5. intakeLock = s => IsUpload(s)
  BY DEF IntakeInv, SessionInv
<1>6. SessionInv(s)'
  BY <1>1, <1>2, <1>3, <1>4, <1>5 DEF SessionInv, Streaming, Waiting, Intaking, SessionLabels
<1>7. SessionFrame(s)
  BY <1>3 DEF SessionFrame
<1> QED
  BY <1>3, <1>6, <1>7, SessionStepInv

\* A session unwinds; the transaction it was in has at most repaired a pair.
LEMMA AbandonInv ==
    ASSUME IntakeAssumption, IntakeInv, NEW s \in Sessions, Abandon(s), Kept, PairInv',
           corr' = corr, jobs' \in [Ids -> Stored \cup {None}],
           UNCHANGED <<results, intents, cursor, source, worker, answers>>,
           faults' \in 0..MaxFaults, requests' = requests
    PROVE  IntakeInv'
<1>1. TypeInv'
  BY AbandonFacts DEF IntakeInv, TypeInv
<1>2. SessionFrame(s)
  BY AbandonFacts DEF SessionFrame
<1> QED
  BY <1>1, <1>2, AbandonFacts, SessionStepInv

\* A session accepts its job, and keeps the bytes unless they are not needed.
LEMMA AcceptStepInv ==
    ASSUME IntakeAssumption, IntakeInv, NEW s \in Sessions, NEW i \in Ids, Accept(s, i), Kept, PairInv',
           corr' = corr, jobs' \in [Ids -> Stored \cup {None}],
           UNCHANGED <<results, intents, cursor, source, worker, answers, faults, requests>>,
           stateLock' \in Sessions \cup {None},
           session[s].pc \in {"recognize", "needs", "resolve", "createJob"},
           Established(session[s].corr), corr[session[s].corr].id = i,
           corr[session[s].corr].binding = session[s].binding, jobs'[i] # None,
           slot' = slot \/ /\ slot' = None /\ intakeLock = s
                           /\ \A t \in Sessions : ~NeedsBytes(t)
                           /\ ~NeedsBytes(s)'
    PROVE  IntakeInv'
<1>1. /\ session[s].corr \in Correlations /\ session[s].binding \in Bindings
      /\ IsUpload(s) => intakeLock = s /\ slot = Mine(s)
  BY IntakingFacts
<1>2. SessionInv(s)' /\ (NeedsBytes(s)' => slot' = Mine(s)')
  BY <1>1, AcceptInv DEF Established
<1>3. TypeInv'
  BY AcceptFacts DEF IntakeInv, TypeInv
<1>4. IsUpload(s)' = IsUpload(s)
  BY AcceptFacts DEF IsUpload
<1>5. intakeLock \in {s, None} \/ ~NeedsBytes(s)'
  BY <1>1, <1>4 DEF NeedsBytes
<1>6. slot' = slot \/ intakeLock \in {s, None}
  OBVIOUS
<1>7. \A t \in Sessions \ {s} : NeedsBytes(t) => slot' = slot
  OBVIOUS
<1>8. SessionFrame(s)
  BY <1>5, <1>6, <1>7, AcceptFacts DEF SessionFrame
<1> QED
  BY <1>2, <1>3, <1>8, SessionStepInv

LEMMA RecognizeInv ==
    ASSUME IntakeAssumption, IntakeInv, NEW s \in Sessions, RecognizeExactRetry(s)
    PROVE  IntakeInv'
<1> DEFINE c == session[s].corr
<1>0. TypeInv /\ PairInv
  BY DEF IntakeInv
<1>1. /\ session[s].pc = "recognize" /\ jobs' = RepairedJobs
      /\ UNCHANGED <<corr, results, intents, cursor, source, worker, answers, faults, requests>>
  BY DEF RecognizeExactRetry, At
<1>2. Kept /\ PairInv'
  BY <1>0, <1>1, RepairKept
<1>3. jobs' \in [Ids -> Stored \cup {None}]
  BY <1>0, <1>1, RepairFacts
<1>4. c \in Correlations /\ session[s].binding \in Bindings /\ session[s] \in SessionRecord
  BY <1>1, IntakingFacts
<1>5. faults' \in 0..MaxFaults /\ stateLock \in Sessions \cup {None}
  BY <1>0, <1>1 DEF TypeInv
<1>6. CASE Goto(s, "source") /\ UNCHANGED <<slot, intakeLock, stateLock>>
  <2>1. /\ session' \in [Sessions -> SessionRecord]
        /\ session'[s].pc = "source" /\ session'[s].corr = session[s].corr
        /\ session'[s].binding = session[s].binding /\ session'[s].existing = session[s].existing
        /\ \A t \in Sessions \ {s} : session'[t] = session[t]
    BY <1>0, <1>6, GotoFacts DEF SessionLabels
  <2>2. TypeInv'
    BY <1>0, <1>1, <1>3, <1>6, <2>1 DEF TypeInv
  <2> QED
    BY <1>1, <1>2, <1>6, <2>1, <2>2, StayInv
<1>7. CASE Abandon(s)
  BY <1>1, <1>2, <1>3, <1>5, <1>7, AbandonInv
<1>8. CASE /\ Established(c) /\ corr[c].binding = session[s].binding
           /\ RepairedJobs[corr[c].id] # None
           /\ IF IsUpload(s)
              THEN /\ session' = [session EXCEPT ![s].pc = "needs", ![s].id = corr[c].id]
                   /\ UNCHANGED <<slot, intakeLock, stateLock>>
              ELSE Accept(s, corr[c].id) /\ UNCHANGED <<slot, stateLock>>
  <2>1. corr[c].id \in Ids
    BY <1>0, <1>4, <1>8, PairFacts
  <2>2. CASE IsUpload(s)
    <3> DEFINE r == [session[s] EXCEPT !.pc = "needs", !.id = corr[c].id]
    <3>1. session' = [session EXCEPT ![s] = r] /\ UNCHANGED <<slot, intakeLock, stateLock>>
      BY <1>0, <1>8, <2>2 DEF TypeInv
    <3>2. r \in SessionRecord
      BY <1>4, <2>1 DEF SessionRecord, SessionLabels
    <3>3. /\ r.pc = "needs" /\ r.id = corr[c].id /\ r.corr = session[s].corr
          /\ r.binding = session[s].binding /\ r.existing = session[s].existing
      BY <1>4 DEF SessionRecord
    <3> HIDE DEF r
    <3>4. /\ session' \in [Sessions -> SessionRecord] /\ session'[s] = r
          /\ \A t \in Sessions \ {s} : session'[t] = session[t]
      BY <1>0, <3>1, <3>2, MoveFacts
    <3>5. TypeInv'
      BY <1>0, <1>1, <1>3, <3>1, <3>4 DEF TypeInv
    <3>6. Bound(session[s])' /\ jobs'[session'[s].id] # None
      BY <1>1, <1>8, <2>1, <3>3, <3>4 DEF Bound, Established
    <3> QED
      BY <1>1, <1>2, <2>2, <3>1, <3>3, <3>4, <3>5, <3>6, StayInv
  <2>3. CASE ~IsUpload(s)
    BY <1>1, <1>2, <1>3, <1>5, <1>8, <2>1, <2>3, AcceptStepInv
  <2> QED
    BY <2>2, <2>3
<1> QED
  BY <1>6, <1>7, <1>8 DEF RecognizeExactRetry

LEMMA RetryInv ==
    ASSUME IntakeAssumption, IntakeInv, NEW s \in Sessions, RetryRequiresArtifact(s)
    PROVE  IntakeInv'
<1> DEFINE i == session[s].id
<1>0. TypeInv /\ PairInv /\ \A t \in Sessions : SessionInv(t)
  BY DEF IntakeInv
<1>1. /\ session[s].pc = "needs" /\ Accept(s, i) /\ slot' = IF StillNeeded(i) THEN slot ELSE None
      /\ UNCHANGED <<stateVars, stateLock, worker, answers, faults, requests>>
  BY DEF RetryRequiresArtifact, At
<1>2. Kept /\ PairInv'
  BY <1>0, <1>1 DEF Kept, stateVars, PairInv, Paired, HalfPairs, Established
<1>3. Bound(session[s]) /\ jobs[i] # None /\ IsUpload(s) /\ intakeLock = s /\ slot = Mine(s)
  BY <1>0, <1>1, IntakingFacts DEF SessionInv
<1>4. i \in Ids /\ jobs[i].job.corr = session[s].corr /\ session[s].corr \in Correlations
  BY <1>0, <1>1, <1>3, PairFacts, IntakingFacts DEF Bound
<1>5. CASE StillNeeded(i)
  <2>1. slot' = slot
    BY <1>1, <1>5
  <2> QED
    BY <1>0, <1>1, <1>2, <1>3, <1>4, <2>1, AcceptStepInv DEF stateVars, TypeInv, Bound
<1>6. CASE ~StillNeeded(i)
  <2>1. results[i] # "none" /\ intents # session[s].corr
    BY <1>4, <1>6 DEF StillNeeded
  <2>2. ASSUME NEW t \in Sessions, NeedsBytes(t) PROVE FALSE
    <3>1. slot = Mine(t)
      BY <2>2 DEF IntakeInv, AcceptedBytesKept, NeedsBytes, Waiting
    <3>2. session[t].corr = session[s].corr
      BY <1>3, <3>1 DEF Mine, Artifact
    <3>3. Bound(session[t])
      BY <1>0, <2>2 DEF SessionInv, NeedsBytes
    <3>4. session[t].id = i
      BY <1>3, <3>2, <3>3 DEF Bound
    <3> QED
      BY <2>1, <2>2, <3>2, <3>4 DEF NeedsBytes
  <2>3. ~NeedsBytes(s)'
    BY <1>1, <1>4, <2>1, AcceptFacts DEF NeedsBytes, stateVars
  <2> QED
    BY <1>0, <1>1, <1>2, <1>3, <1>4, <1>6, <2>2, <2>3, AcceptStepInv DEF stateVars, TypeInv, Bound
<1> QED
  BY <1>5, <1>6

LEMMA SourceInv ==
    ASSUME IntakeAssumption, IntakeInv, NEW s \in Sessions, BuildSourceBindings(s)
    PROVE  IntakeInv'
<1> DEFINE r == [session[s] EXCEPT !.pc = "resolve", !.source = source]
<1>0. TypeInv /\ PairInv
  BY DEF IntakeInv
<1>1. /\ session[s].pc = "source"
      /\ UNCHANGED <<stateVars, slot, intakeLock, stateLock, worker, answers, faults, requests>>
  BY DEF BuildSourceBindings, At
<1>2. Kept /\ PairInv'
  BY <1>0, <1>1 DEF Kept, stateVars, PairInv, Paired, HalfPairs, Established
<1>3. session' = [session EXCEPT ![s] = r]
  BY <1>0 DEF TypeInv, BuildSourceBindings
<1>4. session[s] \in SessionRecord
  BY <1>1, IntakingFacts
<1>5. r \in SessionRecord
  BY <1>0, <1>4 DEF SessionRecord, SessionLabels, TypeInv
<1>6. /\ r.pc = "resolve" /\ r.corr = session[s].corr
      /\ r.binding = session[s].binding /\ r.existing = session[s].existing
  BY <1>4 DEF SessionRecord
<1> HIDE DEF r
<1>7. /\ session' \in [Sessions -> SessionRecord] /\ session'[s] = r
      /\ \A t \in Sessions \ {s} : session'[t] = session[t]
  BY <1>0, <1>3, <1>5, MoveFacts
<1>8. TypeInv'
  BY <1>0, <1>1, <1>7 DEF TypeInv, stateVars
<1> QED
  BY <1>1, <1>2, <1>6, <1>7, <1>8, StayInv DEF stateVars

\* The correlation record of a new job: no pair is left incomplete but this one.
LEMMA NewPair ==
    ASSUME IntakeAssumption, TypeInv, PairInv, intents = None, NEW c \in Correlations, ~Established(c),
           NEW i \in Fresh, NEW j \in Job, j.id = i, j.corr = c,
           corr' = [corr EXCEPT ![c] = j], jobs' = RepairedJobs, results' = results
    PROVE  PairInv' /\ Kept
<1>1. /\ corr'[c] = j /\ Established(c)' /\ j # None
      /\ \A d \in Correlations \ {c} : corr'[d] = corr[d] /\ (Established(d)' <=> Established(d))
  BY DEF TypeInv, Established, IntakeAssumption
<1>2. \A d \in Correlations : Established(d) => d # c /\ corr[d].id # i
  BY DEF Fresh
<1>3. \A d \in Correlations : Established(d)' => corr'[d].corr = d
  BY <1>1 DEF PairInv
<1>4. ASSUME NEW d \in Correlations, NEW e \in Correlations, Established(d)', Established(e)',
             corr'[d].id = corr'[e].id
      PROVE  d = e
  BY <1>1, <1>2, <1>4 DEF PairInv
<1>5. ASSUME NEW k \in Ids PROVE Paired(jobs, k)'
  <2>1. Paired(RepairedJobs, k) /\ RepairedJobs[k] \in Stored \cup {None}
    BY RepairFacts
  <2>2. CASE RepairedJobs[k] = None
    BY <2>2 DEF Paired
  <2>3. CASE RepairedJobs[k] # None
    <3> DEFINE d == RepairedJobs[k].job.corr
    <3>1. d \in Correlations
      BY <2>1, <2>3 DEF Stored, Job
    <3>2. Established(d) /\ corr[d] = RepairedJobs[k].job /\ RepairedJobs[k].job.id = k
      BY <2>1, <2>3 DEF Paired
    <3>3. corr'[d] = corr[d] /\ corr'[d] # None
      BY <1>1, <1>2, <3>1, <3>2 DEF Established
    <3>4. corr'[jobs'[k].job.corr] = jobs'[k].job /\ corr'[jobs'[k].job.corr] # None /\ jobs'[k].job.id = k
      BY <3>2, <3>3
    <3> HIDE DEF d
    <3> QED
      BY <3>4 DEF Paired, Established
  <2> QED
    BY <2>2, <2>3
<1>6. ASSUME NEW d \in HalfPairs' PROVE d = c
  <2>1. d \in Correlations /\ Established(d)' /\ RepairedJobs[corr'[d].id] = None
    BY <1>6 DEF HalfPairs, Established
  <2>2. \A e \in Correlations : Established(e) => RepairedJobs[corr[e].id] # None
    BY RepairFacts
  <2> QED
    BY <1>1, <2>1, <2>2
<1>7. PairInv'
  BY <1>3, <1>4, <1>5, <1>6 DEF PairInv
<1>8. Kept
  BY <1>1, <1>2, RepairFacts DEF Kept
<1> QED
  BY <1>7, <1>8

LEMMA ResolveInv ==
    ASSUME IntakeAssumption, IntakeInv, NEW s \in Sessions, Resolve(s)
    PROVE  IntakeInv'
<1> DEFINE c == session[s].corr
<1>0. TypeInv /\ PairInv
  BY DEF IntakeInv
<1>1. /\ session[s].pc = "resolve" /\ jobs' = RepairedJobs
      /\ UNCHANGED <<results, intents, cursor, source, worker, answers, faults, requests>>
  BY DEF Resolve, At
<1>2. jobs' \in [Ids -> Stored \cup {None}]
  BY <1>0, <1>1, RepairFacts
<1>3. c \in Correlations /\ session[s].binding \in Bindings /\ session[s] \in SessionRecord
  BY <1>1, IntakingFacts
<1>4. faults' \in 0..MaxFaults /\ stateLock \in Sessions \cup {None}
  BY <1>0, <1>1 DEF TypeInv
<1>5. CASE Abandon(s) /\ UNCHANGED corr
  BY <1>0, <1>1, <1>2, <1>4, <1>5, RepairKept, AbandonInv
<1>6. CASE /\ Established(c) /\ corr[c].binding = session[s].binding
           /\ RepairedJobs[corr[c].id] # None /\ Accept(s, corr[c].id)
           /\ UNCHANGED <<corr, slot, stateLock>>
  <2>1. corr[c].id \in Ids
    BY <1>0, <1>3, <1>6, PairFacts
  <2>2. Kept /\ PairInv'
    BY <1>0, <1>1, <1>6, RepairKept
  <2> QED
    BY <1>1, <1>2, <1>4, <1>6, <2>1, <2>2, AcceptStepInv
<1>7. ASSUME ~Established(c), intents = None, NEW i \in Fresh,
             corr' = [corr EXCEPT ![c] = [id |-> i, corr |-> c,
                         binding |-> session[s].binding, source |-> session[s].source]],
             session' = [session EXCEPT ![s].pc = "createJob", ![s].id = i],
             stateLock' = s, UNCHANGED <<slot, intakeLock>>
      PROVE  IntakeInv'
  <2> DEFINE j == [id |-> i, corr |-> c, binding |-> session[s].binding, source |-> session[s].source]
  <2> DEFINE r == [session[s] EXCEPT !.pc = "createJob", !.id = i]
  <2>1. i \in Ids
    BY DEF Fresh
  <2>2. session[s].source \in 0..MaxJobs
    BY <1>3 DEF SessionRecord
  <2>3. j \in Job /\ j.id = i /\ j.corr = c /\ j.binding = session[s].binding
    BY <1>3, <2>1, <2>2 DEF Job
  <2>4. corr' = [corr EXCEPT ![c] = j]
    BY <1>7
  <2> HIDE DEF j
  <2>5. Kept /\ PairInv'
    BY <1>0, <1>1, <1>3, <1>7, <2>3, <2>4, NewPair
  <2>6. corr' \in [Correlations -> Job \cup {None}] /\ corr'[c] = j /\ j # None
    BY <1>0, <1>3, <2>3, <2>4 DEF TypeInv, IntakeAssumption
  <2>7. session' = [session EXCEPT ![s] = r]
    BY <1>0, <1>7 DEF TypeInv
  <2>8. r \in SessionRecord
    BY <1>3, <2>1 DEF SessionRecord, SessionLabels
  <2>9. /\ r.pc = "createJob" /\ r.id = i /\ r.corr = session[s].corr
        /\ r.binding = session[s].binding /\ r.existing = session[s].existing
    BY <1>3 DEF SessionRecord
  <2> HIDE DEF r
  <2>10. /\ session' \in [Sessions -> SessionRecord] /\ session'[s] = r
         /\ \A t \in Sessions \ {s} : session'[t] = session[t]
    BY <1>0, <2>7, <2>8, MoveFacts
  <2>11. TypeInv'
    BY <1>0, <1>1, <1>2, <1>7, <2>6, <2>10 DEF TypeInv
  <2>12. Bound(session[s])'
    BY <2>1, <2>3, <2>6, <2>9, <2>10 DEF Bound, Established
  <2> QED
    BY <1>1, <1>7, <2>5, <2>9, <2>10, <2>11, <2>12, StayInv
<1> QED
  BY <1>5, <1>6, <1>7 DEF Resolve

LEMMA CreateJobInv ==
    ASSUME IntakeAssumption, IntakeInv, NEW s \in Sessions, CreateJob(s)
    PROVE  IntakeInv'
<1> DEFINE c == session[s].corr
<1> DEFINE i == session[s].id
<1> DEFINE p == Pending(corr[c])
<1>0. TypeInv /\ PairInv /\ SessionInv(s)
  BY DEF IntakeInv
<1>1. /\ session[s].pc = "createJob" /\ jobs' = [jobs EXCEPT ![i] = p] /\ Accept(s, i) /\ stateLock' = None
      /\ UNCHANGED <<corr, results, intents, cursor, source, slot, worker, answers, faults, requests>>
  BY DEF CreateJob, At
<1>2. Bound(session[s]) /\ c \in Correlations /\ i \in Ids
  BY <1>0, <1>1, IntakingFacts DEF SessionInv, Bound
<1>3. Established(c) /\ corr[c] \in Job /\ corr[c].corr = c /\ corr[c].id = i
      /\ corr[c].binding = session[s].binding
  BY <1>0, <1>2, PairFacts DEF Bound
<1>4. p \in Stored /\ p.job = corr[c] /\ p # None
  BY <1>3, PendingFacts DEF IntakeAssumption
<1> HIDE DEF p
<1>5. /\ jobs' \in [Ids -> Stored \cup {None}] /\ jobs'[i] = p
      /\ \A k \in Ids : k # i => jobs'[k] = jobs[k]
  BY <1>0, <1>1, <1>2, <1>4 DEF TypeInv
<1>6. jobs[i] # None => jobs[i].job = corr[c]
  BY <1>0, <1>2, <1>3, PairFacts
<1>7. \A k \in Ids : jobs[k] # None => jobs'[k] # None /\ jobs'[k].job = jobs[k].job
  BY <1>4, <1>5, <1>6
<1>8. \A k \in Ids : Paired(jobs', k)
  BY <1>0, <1>3, <1>4, <1>5 DEF Paired, PairInv
<1>9. PairInv' /\ Kept
  BY <1>0, <1>1, <1>7, <1>8, PairKept DEF Kept
<1> QED
  BY <1>1, <1>2, <1>3, <1>4, <1>5, <1>9, AcceptStepInv

LEMMA FailSessionInv ==
    ASSUME IntakeAssumption, IntakeInv, NEW s \in Sessions, FailSession(s)
    PROVE  IntakeInv'
<1>0. TypeInv /\ PairInv
  BY DEF IntakeInv
<1>1. Abandon(s) /\ UNCHANGED <<stateVars, worker, answers, requests>> /\ faults' \in 0..MaxFaults
  BY <1>0 DEF FailSession, TypeInv, IntakeAssumption
<1>2. Kept /\ PairInv'
  BY <1>0, <1>1 DEF Kept, stateVars, PairInv, Paired, HalfPairs, Established
<1> QED
  BY <1>0, <1>1, <1>2, AbandonInv DEF stateVars, TypeInv

\* A session ends at once: what is durable and the bytes stay.
LEMMA EndInv ==
    ASSUME IntakeAssumption, IntakeInv, NEW s \in Sessions,
           session' = [session EXCEPT ![s] = IdleSession],
           UNCHANGED <<stateVars, slot, worker>>,
           intakeLock' = IF intakeLock = s THEN None ELSE intakeLock,
           stateLock' \in {stateLock, None},
           faults' \in 0..MaxFaults, requests' = requests,
           answers' = answers \/ \E a \in Answer :
               /\ Established(a.corr) /\ corr[a.corr].id = a.id /\ corr[a.corr].binding = a.binding
               /\ results[a.id] = a.status /\ answers' = answers \cup {a}
    PROVE  IntakeInv'
<1>0. TypeInv /\ PairInv
  BY DEF IntakeInv
<1>1. Kept /\ PairInv'
  BY <1>0 DEF Kept, stateVars, PairInv, Paired, HalfPairs, Established
<1>2. /\ session' \in [Sessions -> SessionRecord] /\ session'[s] = IdleSession
      /\ \A t \in Sessions \ {s} : session'[t] = session[t]
  BY <1>0, IdleFacts, MoveFacts
<1>3. intakeLock' # s
  BY DEF IntakeAssumption
<1>4. SessionInv(s)' /\ ~NeedsBytes(s)'
  BY <1>2, <1>3, IdleFacts, IdleInv
<1>5. TypeInv'
  BY <1>0, <1>2 DEF TypeInv, stateVars
<1>6. SessionFrame(s)
  BY <1>2, <1>4 DEF SessionFrame, stateVars
<1> QED
  BY <1>1, <1>4, <1>5, <1>6, SessionStepInv

LEMMA KillSessionInv ==
    ASSUME IntakeAssumption, IntakeInv, NEW s \in Sessions, KillSession(s)
    PROVE  IntakeInv'
<1>1. faults' \in 0..MaxFaults
  BY DEF KillSession, IntakeInv, TypeInv, IntakeAssumption
<1> QED
  BY <1>1, EndInv DEF KillSession

\* A session that is waiting does not hold the intake lock.
LEMMA WaitingFacts ==
    ASSUME IntakeInv, NEW s \in Sessions, session[s].pc \in Waiting
    PROVE  /\ Bound(session[s]) /\ jobs[session[s].id] # None /\ intakeLock # s
           /\ session[s].corr \in Correlations /\ session[s].binding \in Bindings
           /\ session[s].id \in Ids
<1>1. SessionInv(s)
  BY DEF IntakeInv
<1> QED
  BY <1>1 DEF SessionInv, Waiting, Intaking, Bound

LEMMA TimeOutInv ==
    ASSUME IntakeAssumption, IntakeInv, NEW s \in Sessions, TimeOut(s)
    PROVE  IntakeInv'
<1>1. intakeLock # s
  BY WaitingFacts DEF TimeOut, Waiting
<1>2. faults' \in 0..MaxFaults
  BY DEF TimeOut, IntakeInv, TypeInv
<1> QED
  BY <1>1, <1>2, EndInv DEF TimeOut

LEMMA JoinInv ==
    ASSUME IntakeAssumption, IntakeInv, NEW s \in Sessions, Join(s)
    PROVE  IntakeInv'
<1> DEFINE r == session[s]
<1>1. r.pc \in Waiting
  BY DEF Join, At, Waiting
<1>2. /\ Bound(r) /\ intakeLock # s /\ r.corr \in Correlations /\ r.binding \in Bindings /\ r.id \in Ids
  BY <1>1, WaitingFacts
<1>3. results[r.id] \in {"none", "succeeded", "failed"} /\ faults \in 0..MaxFaults
  BY <1>2 DEF IntakeInv, TypeInv
<1> DEFINE a == [corr |-> r.corr, id |-> r.id, binding |-> r.binding, status |-> results[r.id]]
<1>4. answers' = answers \/ (results[r.id] # "none" /\ answers' = answers \cup {a})
  BY DEF Join, Respond
<1>5. results[r.id] # "none" => a \in Answer
  BY <1>2, <1>3 DEF Answer
<1>6. Established(a.corr) /\ corr[a.corr].id = a.id /\ corr[a.corr].binding = a.binding /\ results[a.id] = a.status
  BY <1>2 DEF Bound
<1> HIDE DEF a
<1>7. answers' = answers \/ \E b \in Answer :
          /\ Established(b.corr) /\ corr[b.corr].id = b.id /\ corr[b.corr].binding = b.binding
          /\ results[b.id] = b.status /\ answers' = answers \cup {b}
  BY <1>4, <1>5, <1>6
<1> QED
  BY <1>2, <1>3, <1>7, EndInv DEF Join, Respond

LEMMA RetrieveInv ==
    ASSUME IntakeAssumption, IntakeInv, NEW s \in Sessions, Retrieve(s)
    PROVE  IntakeInv'
<1> DEFINE i == session[s].id
<1>0. TypeInv /\ PairInv
  BY DEF IntakeInv
<1>1. /\ session[s].pc = "retrieve" /\ Goto(s, "join")
      /\ worker' = [worker EXCEPT ![i] = IF @ = "idle" THEN "start" ELSE @]
      /\ UNCHANGED <<stateVars, slot, intakeLock, stateLock, answers, faults, requests>>
  BY DEF Retrieve, At
<1>2. Kept /\ PairInv'
  BY <1>0, <1>1 DEF Kept, stateVars, PairInv, Paired, HalfPairs, Established
<1>3. /\ Bound(session[s]) /\ jobs[i] # None /\ intakeLock # s
      /\ session[s].corr \in Correlations /\ session[s].binding \in Bindings /\ i \in Ids
  BY <1>1, WaitingFacts DEF Waiting
<1>4. /\ session' \in [Sessions -> SessionRecord]
      /\ session'[s].pc = "join" /\ session'[s].corr = session[s].corr
      /\ session'[s].binding = session[s].binding /\ session'[s].id = i
      /\ \A t \in Sessions \ {s} : session'[t] = session[t]
  BY <1>0, <1>1, GotoFacts DEF SessionLabels
<1>5. /\ worker' \in [Ids -> WorkerLabels]
      /\ \A k \in Ids : worker'[k] = worker[k] \/ (worker'[k] = "start" /\ jobs'[k] # None)
  BY <1>0, <1>1, <1>3 DEF TypeInv, WorkerLabels, stateVars
<1>6. TypeInv'
  BY <1>0, <1>1, <1>4, <1>5 DEF TypeInv, stateVars
<1>7. Bound(session[s])' /\ jobs'[session'[s].id] # None
  BY <1>1, <1>3, <1>4 DEF Bound, Established, stateVars
<1>8. SessionInv(s)'
  BY <1>1, <1>3, <1>4, <1>7 DEF SessionInv, Waiting, Streaming, Intaking
<1>9. (NeedsBytes(s)' => NeedsBytes(s)) /\ Mine(s)' = Mine(s)
  BY <1>1, <1>4 DEF NeedsBytes, Waiting, IsUpload, stateVars, Mine
<1>10. NeedsBytes(s) => slot = Mine(s)
  BY DEF IntakeInv, AcceptedBytesKept, NeedsBytes, Waiting
<1>11. SessionFrame(s)
  BY <1>1, <1>4, <1>5, <1>9 DEF SessionFrame, stateVars
<1> QED
  BY <1>1, <1>2, <1>6, <1>8, <1>9, <1>10, <1>11, SessionStepInv

-----------------------------------------------------------------------------
(* The steps of a worker *)

\* The job of a worker that is not idle.
LEMMA WorkerFacts ==
    ASSUME IntakeAssumption, IntakeInv, NEW i \in Ids, worker[i] # "idle"
    PROVE  /\ TypeInv /\ PairInv /\ WorkerInv(i)
           /\ jobs[i] # None /\ jobs[i] \in Stored
           /\ jobs[i].job.corr \in Correlations /\ jobs[i].job.corr # None
<1>1. TypeInv /\ PairInv /\ WorkerInv(i)
  BY DEF IntakeInv
<1>2. jobs[i] # None
  BY <1>1 DEF WorkerInv
<1> QED
  BY <1>1, <1>2, PairFacts

\* The worker of job i moves on.
LEMMA WGotoFacts ==
    ASSUME TypeInv, NEW i \in Ids, NEW label \in WorkerLabels, WGoto(i, label)
    PROVE  /\ worker' \in [Ids -> WorkerLabels] /\ worker'[i] = label
           /\ \A k \in Ids \ {i} : worker'[k] = worker[k]
  BY DEF WGoto, TypeInv

\* Its record changes in phase and marker only.
LEMMA SetJobFacts ==
    ASSUME IntakeAssumption, TypeInv, PairInv, corr' = corr, NEW i \in Ids, jobs[i] # None,
           NEW phase \in {"pending", "claimed", "completed", "failed"}, NEW validated \in BOOLEAN,
           SetJob(i, phase, validated),
           \A k \in Ids : results[k] # "none" => results'[k] = results[k]
    PROVE  PairInv' /\ Kept /\ jobs' \in [Ids -> Stored \cup {None}]
<1> DEFINE r == [jobs[i] EXCEPT !.phase = phase, !.validated = validated]
<1>1. jobs[i] \in Stored
  BY DEF TypeInv
<1>2. r \in Stored /\ r.job = jobs[i].job
  BY <1>1 DEF Stored
<1>3. jobs' = [jobs EXCEPT ![i] = r]
  BY DEF SetJob, TypeInv
<1> HIDE DEF r
<1> QED
  BY <1>2, <1>3, RecordKept

LEMMA StartWorkerInv ==
    ASSUME IntakeAssumption, IntakeInv, NEW i \in Ids, StartWorker(i)
    PROVE  IntakeInv'
<1>1. /\ worker[i] = "start"
      /\ UNCHANGED <<stateVars, slot, stateLock, session, answers, faults, requests>>
  BY DEF StartWorker
<1>2. /\ TypeInv /\ PairInv /\ WorkerInv(i) /\ jobs[i] # None
      /\ jobs[i].job.corr \in Correlations /\ jobs[i].job.corr # None
  BY <1>1, WorkerFacts
<1>3. Kept /\ PairInv'
  BY <1>1, <1>2 DEF Kept, stateVars, PairInv, Paired, HalfPairs, Established
<1>4. PICK label \in {"idle", "validate", "run", "fail"} :
         /\ WGoto(i, label)
         /\ label = "validate" => results[i] # "none" /\ intents = None
         /\ label = "run" => intents \in {None, jobs[i].job.corr} /\ (results[i] = "none" \/ intents # None)
         /\ label = "fail" => intents # jobs[i].job.corr
         /\ intakeLock' = intakeLock \/ (intakeLock = None /\ intakeLock' = i)
  <2>1. CASE Reserved(i)
    BY <2>1 DEF StartWorker
  <2>2. CASE ~Reserved(i) /\ results[i] # "none" /\ intents = None
    BY <2>2 DEF StartWorker
  <2>3. CASE ~Reserved(i) /\ ~(results[i] # "none" /\ intents = None)
    <3>1. intents \in {None, jobs[i].job.corr} /\ (results[i] = "none" \/ intents # None)
      BY <2>3 DEF Reserved
    <3> QED
      BY <2>3, <3>1 DEF StartWorker
  <2> QED
    BY <2>1, <2>2, <2>3
<1>5. /\ worker' \in [Ids -> WorkerLabels] /\ worker'[i] = label
      /\ \A k \in Ids \ {i} : worker'[k] = worker[k]
  BY <1>2, <1>4, WGotoFacts DEF WorkerLabels
<1>6. WorkerInv(i)'
  BY <1>1, <1>2, <1>4, <1>5 DEF WorkerInv, StillNeeded, stateVars
<1>7. TypeInv'
  BY <1>1, <1>2, <1>4, <1>5 DEF TypeInv, stateVars
<1> QED
  BY <1>1, <1>2, <1>3, <1>4, <1>5, <1>6, <1>7, WorkerStepInv DEF stateVars

LEMMA RunWorkerInv ==
    ASSUME IntakeAssumption, IntakeInv, NEW i \in Ids, RunWorker(i)
    PROVE  IntakeInv'
<1> DEFINE c == jobs[i].job.corr
<1>1. /\ worker[i] = "run"
      /\ UNCHANGED <<corr, results, cursor, source, slot, stateLock, session, answers, faults, requests>>
  BY DEF RunWorker
<1>2. /\ TypeInv /\ PairInv /\ WorkerInv(i) /\ jobs[i] # None /\ jobs[i] \in Stored
      /\ c \in Correlations /\ c # None
  BY <1>1, WorkerFacts
<1>3. StillNeeded(i) /\ results[i] # "failed"
  BY <1>1, <1>2 DEF WorkerInv
<1>4. CASE Reserved(i) \/ (intents = None /\ WGoto(i, "fail") /\ UNCHANGED <<jobs, intents, intakeLock>>)
  <2>1. PICK label \in {"idle", "fail"} :
           /\ WGoto(i, label) /\ UNCHANGED <<jobs, intents>>
           /\ label = "fail" => intents = None
           /\ intakeLock' = intakeLock \/ (intakeLock = i /\ intakeLock' = None)
    BY <1>4 DEF RunWorker
  <2>2. Kept /\ PairInv'
    BY <1>1, <1>2, <2>1 DEF Kept, PairInv, Paired, HalfPairs, Established
  <2>3. /\ worker' \in [Ids -> WorkerLabels] /\ worker'[i] = label
        /\ \A k \in Ids \ {i} : worker'[k] = worker[k]
    BY <1>2, <2>1, WGotoFacts DEF WorkerLabels
  <2>4. WorkerInv(i)'
    BY <1>1, <1>2, <1>3, <2>1, <2>3 DEF WorkerInv
  <2>5. TypeInv'
    BY <1>1, <1>2, <2>1, <2>3 DEF TypeInv
  <2> QED
    BY <1>1, <1>2, <2>1, <2>2, <2>3, <2>4, <2>5, WorkerStepInv
<1>5. CASE /\ ~Reserved(i) /\ intents' = c /\ WGoto(i, "commit") /\ UNCHANGED intakeLock
           /\ jobs' = [jobs EXCEPT ![i].phase = IF @ = "pending" THEN "claimed" ELSE @]
  <2> DEFINE r == [jobs[i] EXCEPT !.phase = IF @ = "pending" THEN "claimed" ELSE @]
  <2>1. r \in Stored /\ r.job = jobs[i].job
    BY <1>2 DEF Stored
  <2>2. jobs' = [jobs EXCEPT ![i] = r]
    BY <1>2, <1>5 DEF TypeInv
  <2> HIDE DEF r
  <2>3. PairInv' /\ Kept /\ jobs' \in [Ids -> Stored \cup {None}]
    BY <1>1, <1>2, <2>1, <2>2, RecordKept
  <2>4. /\ worker' \in [Ids -> WorkerLabels] /\ worker'[i] = "commit"
        /\ \A k \in Ids \ {i} : worker'[k] = worker[k]
    BY <1>2, <1>5, WGotoFacts DEF WorkerLabels
  <2>5. jobs'[i] # None /\ jobs'[i].job = jobs[i].job
    BY <1>2, <2>3 DEF Kept
  <2>6. WorkerInv(i)'
    BY <1>1, <1>3, <1>5, <2>4, <2>5 DEF WorkerInv
  <2>7. TypeInv'
    BY <1>1, <1>2, <1>5, <2>3, <2>4 DEF TypeInv
  <2>8. intents' = intents \/ (intents = None /\ intents' = c /\ StillNeeded(i))
    BY <1>3, <1>5 DEF Reserved
  <2> QED
    BY <1>1, <1>2, <1>5, <2>3, <2>4, <2>6, <2>7, <2>8, WorkerStepInv
<1> QED
  BY <1>4, <1>5 DEF RunWorker

LEMMA FailWorkerInv ==
    ASSUME IntakeAssumption, IntakeInv, NEW i \in Ids, FailWorker(i)
    PROVE  IntakeInv'
<1> DEFINE c == jobs[i].job.corr
<1>1. /\ worker[i] = "fail"
      /\ UNCHANGED <<corr, intents, cursor, source, slot, stateLock, session, answers, faults, requests>>
  BY DEF FailWorker
<1>2. /\ TypeInv /\ PairInv /\ WorkerInv(i) /\ jobs[i] # None /\ c \in Correlations /\ c # None
  BY <1>1, WorkerFacts
<1>3. intents # c
  BY <1>1, <1>2 DEF WorkerInv
<1>4. CASE /\ results[i] = "none" /\ results' = [results EXCEPT ![i] = "failed"]
           /\ SetJob(i, "failed", TRUE) /\ WGoto(i, "consume") /\ UNCHANGED intakeLock
  <2>1. /\ results' \in [Ids -> {"none", "succeeded", "failed"}] /\ results'[i] = "failed"
        /\ \A k \in Ids \ {i} : results'[k] = results[k]
    BY <1>2, <1>4 DEF TypeInv
  <2>2. \A k \in Ids : results[k] # "none" => results'[k] = results[k]
    BY <1>4, <2>1
  <2>3. PairInv' /\ Kept /\ jobs' \in [Ids -> Stored \cup {None}]
    BY <1>1, <1>2, <1>4, <2>2, SetJobFacts
  <2>4. /\ worker' \in [Ids -> WorkerLabels] /\ worker'[i] = "consume"
        /\ \A k \in Ids \ {i} : worker'[k] = worker[k]
    BY <1>2, <1>4, WGotoFacts DEF WorkerLabels
  <2>5. jobs'[i] # None /\ jobs'[i].job = jobs[i].job
    BY <1>2, <2>3 DEF Kept
  <2>6. WorkerInv(i)'
    BY <1>1, <1>3, <2>1, <2>4, <2>5 DEF WorkerInv
  <2>7. TypeInv'
    BY <1>1, <1>2, <1>4, <2>1, <2>3, <2>4 DEF TypeInv
  <2> QED
    BY <1>1, <1>2, <1>4, <2>1, <2>3, <2>4, <2>6, <2>7, WorkerStepInv
<1>5. CASE /\ WGoto(i, "idle") /\ UNCHANGED <<results, jobs>>
           /\ intakeLock' = IF intakeLock = i THEN None ELSE intakeLock
  <2>1. Kept /\ PairInv'
    BY <1>1, <1>2, <1>5 DEF Kept, PairInv, Paired, HalfPairs, Established
  <2>2. /\ worker' \in [Ids -> WorkerLabels] /\ worker'[i] = "idle"
        /\ \A k \in Ids \ {i} : worker'[k] = worker[k]
    BY <1>2, <1>5, WGotoFacts DEF WorkerLabels
  <2>3. WorkerInv(i)'
    BY <1>1, <1>2, <1>5, <2>2 DEF WorkerInv
  <2>4. TypeInv'
    BY <1>1, <1>2, <1>5, <2>2 DEF TypeInv
  <2> QED
    BY <1>1, <1>2, <1>5, <2>1, <2>2, <2>3, <2>4, WorkerStepInv
<1> QED
  BY <1>4, <1>5 DEF FailWorker

LEMMA CommitResultInv ==
    ASSUME IntakeAssumption, IntakeInv, NEW i \in Ids, CommitResult(i)
    PROVE  IntakeInv'
<1>1. /\ worker[i] = "commit" /\ results' = [results EXCEPT ![i] = "succeeded"] /\ WGoto(i, "clear")
      /\ UNCHANGED <<corr, jobs, intents, cursor, slot, intakeLock, stateLock, session, answers, faults, requests>>
  BY DEF CommitResult
<1>2. /\ TypeInv /\ PairInv /\ WorkerInv(i) /\ jobs[i] # None
  BY <1>1, WorkerFacts
<1>3. source' \in 0..MaxJobs
  BY <1>2 DEF CommitResult, TypeInv, IntakeAssumption
<1>4. /\ results' \in [Ids -> {"none", "succeeded", "failed"}] /\ results'[i] = "succeeded"
      /\ \A k \in Ids \ {i} : results'[k] = results[k]
  BY <1>1, <1>2 DEF TypeInv
<1>5. results[i] \in {"none", "succeeded"}
  BY <1>1, <1>2 DEF WorkerInv, TypeInv
<1>6. Kept /\ PairInv'
  BY <1>1, <1>2, <1>4, <1>5 DEF Kept, PairInv, Paired, HalfPairs, Established
<1>7. /\ worker' \in [Ids -> WorkerLabels] /\ worker'[i] = "clear"
      /\ \A k \in Ids \ {i} : worker'[k] = worker[k]
  BY <1>1, <1>2, WGotoFacts DEF WorkerLabels
<1>8. WorkerInv(i)'
  BY <1>1, <1>2, <1>4, <1>7 DEF WorkerInv
<1>9. TypeInv'
  BY <1>1, <1>2, <1>3, <1>4, <1>7 DEF TypeInv
<1> QED
  BY <1>1, <1>2, <1>4, <1>6, <1>7, <1>8, <1>9, WorkerStepInv

LEMMA ClearIntentInv ==
    ASSUME IntakeAssumption, IntakeInv, NEW i \in Ids, ClearIntent(i)
    PROVE  IntakeInv'
<1>1. /\ worker[i] = "clear" /\ intents' = None /\ SetJob(i, "completed", jobs[i].validated)
      /\ WGoto(i, "validate")
      /\ UNCHANGED <<corr, results, cursor, source, slot, intakeLock, stateLock, session, answers, faults, requests>>
  BY DEF ClearIntent
<1>2. /\ TypeInv /\ PairInv /\ WorkerInv(i) /\ jobs[i] # None /\ jobs[i] \in Stored
      /\ jobs[i].job.corr # None
  BY <1>1, WorkerFacts
<1>3. intents = jobs[i].job.corr /\ results[i] = "succeeded" /\ jobs[i].validated \in BOOLEAN
  BY <1>1, <1>2 DEF WorkerInv, Stored
<1>4. PairInv' /\ Kept /\ jobs' \in [Ids -> Stored \cup {None}]
  BY <1>1, <1>2, <1>3, SetJobFacts
<1>5. /\ worker' \in [Ids -> WorkerLabels] /\ worker'[i] = "validate"
      /\ \A k \in Ids \ {i} : worker'[k] = worker[k]
  BY <1>1, <1>2, WGotoFacts DEF WorkerLabels
<1>6. jobs'[i] # None /\ jobs'[i].job = jobs[i].job
  BY <1>2, <1>4 DEF Kept
<1>7. WorkerInv(i)'
  BY <1>1, <1>2, <1>3, <1>5, <1>6 DEF WorkerInv
<1>8. TypeInv'
  BY <1>1, <1>2, <1>4, <1>5 DEF TypeInv
<1> QED
  BY <1>1, <1>2, <1>3, <1>4, <1>5, <1>7, <1>8, WorkerStepInv

LEMMA ValidateInv ==
    ASSUME IntakeAssumption, IntakeInv, NEW i \in Ids, Validate(i)
    PROVE  IntakeInv'
<1>1. /\ worker[i] = "validate"
      /\ UNCHANGED <<corr, results, intents, cursor, source, slot, stateLock, session, answers, faults, requests>>
  BY DEF Validate
<1>2. /\ TypeInv /\ PairInv /\ WorkerInv(i) /\ jobs[i] # None
  BY <1>1, WorkerFacts
<1>3. PICK label \in {"idle", "consume"} :
        /\ WGoto(i, label)
        /\ UNCHANGED jobs \/ \E phase \in {"completed", "failed"} : SetJob(i, phase, TRUE)
        /\ intakeLock' = intakeLock \/ (intakeLock = i /\ intakeLock' = None)
  BY DEF Validate
<1>4. PairInv' /\ Kept /\ jobs' \in [Ids -> Stored \cup {None}]
  <2>1. CASE UNCHANGED jobs
    BY <1>1, <1>2, <2>1 DEF Kept, PairInv, Paired, HalfPairs, Established, TypeInv
  <2>2. ASSUME NEW phase \in {"completed", "failed"}, SetJob(i, phase, TRUE)
        PROVE  PairInv' /\ Kept /\ jobs' \in [Ids -> Stored \cup {None}]
    BY <1>1, <1>2, <2>2, SetJobFacts
  <2> QED
    BY <1>3, <2>1, <2>2
<1>5. /\ worker' \in [Ids -> WorkerLabels] /\ worker'[i] = label
      /\ \A k \in Ids \ {i} : worker'[k] = worker[k]
  BY <1>2, <1>3, WGotoFacts DEF WorkerLabels
<1>6. jobs'[i] # None /\ jobs'[i].job = jobs[i].job
  BY <1>2, <1>4 DEF Kept
<1>7. WorkerInv(i)'
  BY <1>1, <1>2, <1>5, <1>6 DEF WorkerInv
<1>8. TypeInv'
  BY <1>1, <1>2, <1>3, <1>4, <1>5 DEF TypeInv
<1> QED
  BY <1>1, <1>2, <1>3, <1>4, <1>5, <1>7, <1>8, WorkerStepInv

\* The bytes of an ended job are nobody's any more.
LEMMA ConsumeInv ==
    ASSUME IntakeAssumption, IntakeInv, NEW i \in Ids, Consume(i)
    PROVE  IntakeInv'
<1>1. /\ worker[i] = "consume" /\ intakeLock \in {i, None} /\ intakeLock' = None /\ WGoto(i, "idle")
      /\ slot' = IF slot = Own(i) THEN None ELSE slot
      /\ UNCHANGED <<stateVars, stateLock, session, answers, faults, requests>>
  BY DEF Consume
<1>2. /\ TypeInv /\ PairInv /\ WorkerInv(i) /\ jobs[i] # None /\ jobs[i].job.corr \in Correlations
  BY <1>1, WorkerFacts
<1>3. intents # jobs[i].job.corr /\ results[i] # "none" /\ corr[jobs[i].job.corr] = jobs[i].job /\ jobs[i].job.id = i
  BY <1>1, <1>2, PairFacts DEF WorkerInv
<1>4. ASSUME slot = Own(i), NEW t \in Sessions, NeedsBytes(t) PROVE FALSE
  <2>1. slot = Mine(t)
    BY <1>4 DEF IntakeInv, AcceptedBytesKept, NeedsBytes, Waiting
  <2>2. session[t].corr = jobs[i].job.corr
    BY <1>4, <2>1 DEF Mine, Own, Artifact
  <2>3. session[t].id = i
    BY <1>3, <1>4, <2>2, WaitingFacts DEF Bound, NeedsBytes
  <2> QED
    BY <1>3, <1>4, <2>2, <2>3 DEF NeedsBytes
<1>5. slot' = slot \/ \A t \in Sessions : ~NeedsBytes(t)
  BY <1>1, <1>4
<1>6. Kept /\ PairInv'
  BY <1>1, <1>2 DEF Kept, stateVars, PairInv, Paired, HalfPairs, Established
<1>7. /\ worker' \in [Ids -> WorkerLabels] /\ worker'[i] = "idle"
      /\ \A k \in Ids \ {i} : worker'[k] = worker[k]
  BY <1>1, <1>2, WGotoFacts DEF WorkerLabels
<1>8. WorkerInv(i)'
  BY <1>1, <1>2, <1>7 DEF WorkerInv, stateVars
<1>9. TypeInv'
  BY <1>1, <1>2, <1>7 DEF TypeInv, stateVars
<1> QED
  BY <1>1, <1>2, <1>5, <1>6, <1>7, <1>8, <1>9, WorkerStepInv DEF stateVars

LEMMA KillWorkerInv ==
    ASSUME IntakeAssumption, IntakeInv, NEW i \in Ids, KillWorker(i)
    PROVE  IntakeInv'
<1>1. /\ worker[i] # "idle" /\ WGoto(i, "idle")
      /\ intakeLock' = IF intakeLock = i THEN None ELSE intakeLock
      /\ UNCHANGED <<stateVars, slot, stateLock, session, answers, requests>>
  BY DEF KillWorker
<1>2. /\ TypeInv /\ PairInv /\ WorkerInv(i) /\ jobs[i] # None
  BY <1>1, WorkerFacts
<1>3. faults' \in 0..MaxFaults
  BY <1>2 DEF KillWorker, TypeInv, IntakeAssumption
<1>4. Kept /\ PairInv'
  BY <1>1, <1>2 DEF Kept, stateVars, PairInv, Paired, HalfPairs, Established
<1>5. /\ worker' \in [Ids -> WorkerLabels] /\ worker'[i] = "idle"
      /\ \A k \in Ids \ {i} : worker'[k] = worker[k]
  BY <1>1, <1>2, WGotoFacts DEF WorkerLabels
<1>6. WorkerInv(i)'
  BY <1>1, <1>2, <1>5 DEF WorkerInv, stateVars
<1>7. TypeInv'
  BY <1>1, <1>2, <1>3, <1>5 DEF TypeInv, stateVars
<1> QED
  BY <1>1, <1>2, <1>4, <1>5, <1>6, <1>7, WorkerStepInv DEF stateVars

-----------------------------------------------------------------------------
(* The startup reconciler *)

LEMMA LeastNat ==
    ASSUME NEW S \in SUBSET Nat, S # {}
    PROVE  \E m \in S : \A d \in S : m <= d
<1> DEFINE R == OpToRel(<, Nat)
<1>1. IsWellFoundedOn(R, Nat)
  BY NatLessThanWellFounded
<1>2. \A x, y \in Nat : x < y => <<x, y>> \in R
  BY DEF OpToRel
<1> HIDE DEF R
<1>3. PICK m \in S : \A y \in S : ~(<<y, m>> \in R)
  BY <1>1, WFMin
<1>4. \A d \in S : d \in Nat /\ m \in Nat /\ ~(d < m)
  BY <1>2, <1>3
<1>5. \A d \in S : m <= d
  BY <1>4
<1> QED
  BY <1>5

\* A batch that is not empty has a last job in the cyclic order.
LEMMA LastOfBatch ==
    ASSUME MaxJobs \in Nat, NEW S \in SUBSET Ids, S # {}, NEW f \in [Ids -> 0..(2 * MaxJobs)]
    PROVE  \E i \in S : \A k \in S : f[k] <= f[i]
<1> DEFINE M == {2 * MaxJobs - f[i] : i \in S}
<1>1. \A i \in S : f[i] \in 0..(2 * MaxJobs) /\ 2 * MaxJobs - f[i] \in Nat
  OBVIOUS
<1>2. M \in SUBSET Nat /\ M # {}
  BY <1>1
<1>3. PICK m \in M : \A d \in M : m <= d
  BY <1>2, LeastNat
<1>4. PICK i \in S : m = 2 * MaxJobs - f[i]
  OBVIOUS
<1>5. ASSUME NEW k \in S PROVE f[k] <= f[i]
  <2>1. 2 * MaxJobs - f[i] <= 2 * MaxJobs - f[k]
    BY <1>3, <1>4
  <2> QED
    BY <1>1, <2>1
<1> QED
  BY <1>5

LEMMA ReconcileInv ==
    ASSUME IntakeAssumption, IntakeInv, Reconcile
    PROVE  IntakeInv'
<1> DEFINE js == RepairedJobs
<1> DEFINE queued == {i \in Ids : NeedsWorker(js, i)}
<1> DEFINE batch == RecoveryBatch(queued)
<1> DEFINE order(i) == IF i > cursor THEN i ELSE i + MaxJobs
<1>0. TypeInv /\ PairInv
  BY DEF IntakeInv
<1>1. /\ intakeLock = None /\ jobs' = js
      /\ slot' = IF slot # None /\ (slot = Temporary \/ ~Authorized(js, slot.corr)) THEN None ELSE slot
      /\ cursor' = IF batch = {} THEN cursor
                   ELSE CHOOSE i \in batch : \A k \in batch : order(k) <= order(i)
      /\ worker' = [i \in Ids |-> IF i \in batch /\ worker[i] = "idle" THEN "start" ELSE worker[i]]
      /\ UNCHANGED <<corr, results, intents, source, intakeLock, stateLock, session, answers, faults, requests>>
  BY DEF Reconcile
<1>2. Kept /\ PairInv' /\ jobs' \in [Ids -> Stored \cup {None}]
  BY <1>0, <1>1, RepairKept, RepairFacts
<1>3. batch \subseteq Ids /\ \A i \in batch : js[i] # None
  BY DEF RecoveryBatch, NeedsWorker
<1>4. cursor' \in 0..MaxJobs
  <2>1. MaxJobs \in Nat /\ cursor \in 0..MaxJobs
    BY <1>0 DEF TypeInv, IntakeAssumption
  <2>2. CASE batch = {}
    BY <1>1, <2>1, <2>2
  <2>3. CASE batch # {}
    <3> DEFINE f == [i \in Ids |-> order(i)]
    <3>1. f \in [Ids -> 0..(2 * MaxJobs)]
      BY <2>1 DEF Ids
    <3>2. \E i \in batch : \A k \in batch : f[k] <= f[i]
      <4> HIDE DEF f, batch
      <4> QED
        BY <1>3, <2>1, <2>3, <3>1, LastOfBatch
    <3>3. \E i \in batch : \A k \in batch : order(k) <= order(i)
      <4>1. \A i \in batch : f[i] = order(i)
        BY <1>3
      <4> HIDE DEF f, order, batch
      <4> QED
        BY <3>2, <4>1
    <3>4. cursor' \in batch
      <4> HIDE DEF order, batch
      <4> QED
        BY <1>1, <2>3, <3>3
    <3>5. \A i \in Ids : i \in 0..MaxJobs
      BY <2>1 DEF Ids
    <3> HIDE DEF batch
    <3> QED
      BY <1>3, <3>4, <3>5
  <2> QED
    BY <2>2, <2>3
<1> HIDE DEF js, batch
<1>5. \A i \in Ids : worker'[i] = worker[i] \/ (worker'[i] = "start" /\ jobs'[i] # None)
  BY <1>1, <1>3
<1>6. worker' \in [Ids -> WorkerLabels]
  BY <1>0, <1>1 DEF TypeInv, WorkerLabels
<1>7. TypeInv'
  BY <1>0, <1>1, <1>2, <1>4, <1>6 DEF TypeInv
<1>8. \A t \in Sessions : NeedsBytes(t)' => NeedsBytes(t)
  BY <1>1 DEF NeedsBytes, IsUpload
<1>9. ASSUME NEW t \in Sessions, NeedsBytes(t) PROVE slot' = slot
  <2>1. slot = Mine(t)
    BY <1>9 DEF IntakeInv, AcceptedBytesKept, NeedsBytes, Waiting
  <2> DEFINE c == session[t].corr
  <2>2. /\ Bound(session[t]) /\ jobs[session[t].id] # None
        /\ c \in Correlations /\ c # None /\ session[t].id \in Ids
    BY <1>9, WaitingFacts DEF NeedsBytes, IntakeAssumption
  <2>3. /\ Established(c) /\ corr[c].id = session[t].id /\ js[session[t].id] = jobs[session[t].id]
        /\ jobs[session[t].id].job.corr = c
    BY <1>0, <2>2, RepairFacts, PairFacts DEF Bound, js
  <2>4. NeedsWorker(js, corr[c].id)
    BY <1>9, <2>2, <2>3 DEF NeedsWorker, NeedsBytes
  <2>5. slot.corr = c /\ slot # Temporary
    BY <2>1, <2>2 DEF Mine, Artifact, Temporary
  <2>6. Authorized(js, slot.corr)
    BY <2>3, <2>4, <2>5 DEF Authorized
  <2> QED
    BY <1>1, <2>5, <2>6
<1>10. ASSUME NEW t \in Sessions PROVE SessionInv(t)' /\ (NeedsBytes(t)' => slot' = Mine(t)')
  <2>1. intakeLock' # t /\ intakeLock # t
    BY <1>1 DEF IntakeAssumption
  <2> QED
    BY <1>1, <1>2, <1>8, <1>9, <2>1, SessionKept
<1>11. AcceptedBytesKept'
  BY <1>10 DEF AcceptedBytesKept, NeedsBytes, Waiting
<1>12. \A i \in Ids : WorkerInv(i)'
  BY <1>1, <1>2, <1>5, WorkerKept
<1>13. OneAnswerPerCorrelation' /\ \A a \in answers' : Established(a.corr)'
  BY <1>1, <1>2, AnswersKept
<1> QED
  BY <1>2, <1>7, <1>10, <1>11, <1>12, <1>13 DEF IntakeInv

-----------------------------------------------------------------------------
(* The invariant and what it says *)

LEMMA IntakeInit == ASSUME IntakeAssumption, Init PROVE IntakeInv
<1>1. \A s \in Sessions : session[s] = IdleSession /\ session[s].pc = "idle"
  BY IdleFacts DEF Init
<1>2. TypeInv
  <2>1. session \in [Sessions -> SessionRecord]
    BY IdleFacts DEF Init
  <2>2. 0 \in 0..MaxJobs /\ 0 \in 0..MaxFaults /\ 0 \in 0..MaxRequests
    BY DEF IntakeAssumption
  <2> QED
    BY <2>1, <2>2 DEF Init, TypeInv, WorkerLabels
<1>3. PairInv
  BY DEF Init, PairInv, Established, Paired, HalfPairs
<1>4. \A s \in Sessions : SessionInv(s)
  BY <1>1 DEF Init, SessionInv, Streaming, Waiting, Intaking, IntakeAssumption
<1>5. \A i \in Ids : WorkerInv(i)
  BY DEF Init, WorkerInv
<1>6. AcceptedBytesKept
  BY <1>1 DEF AcceptedBytesKept
<1>7. OneAnswerPerCorrelation /\ \A a \in answers : Established(a.corr)
  BY DEF Init, OneAnswerPerCorrelation
<1> QED
  BY <1>2, <1>3, <1>4, <1>5, <1>6, <1>7 DEF IntakeInv

LEMMA IntakeNext == ASSUME IntakeAssumption, IntakeInv, [Next]_vars PROVE IntakeInv'
<1>1. ASSUME NEW s \in Sessions, NEW c \in Correlations, NEW b \in Bindings, Receive(s, c, b)
      PROVE  IntakeInv'
  BY <1>1, ReceiveInv
<1>2. ASSUME NEW s \in Sessions, SessionStep(s) PROVE IntakeInv'
  BY <1>2, StreamInv, RecognizeInv, RetryInv, SourceInv, ResolveInv, CreateJobInv, RetrieveInv, JoinInv
     DEF SessionStep
<1>3. ASSUME NEW s \in Sessions, FailSession(s) \/ KillSession(s) \/ TimeOut(s) PROVE IntakeInv'
  BY <1>3, FailSessionInv, KillSessionInv, TimeOutInv
<1>4. ASSUME NEW i \in Ids, WorkerStep(i) \/ KillWorker(i) PROVE IntakeInv'
  BY <1>4, StartWorkerInv, RunWorkerInv, FailWorkerInv, CommitResultInv, ClearIntentInv, ValidateInv,
     ConsumeInv, KillWorkerInv DEF WorkerStep
<1>5. CASE UNCHANGED vars
  BY <1>5 DEF vars, IntakeInv, TypeInv, PairInv, Paired, HalfPairs, Established, OneAnswerPerCorrelation,
     AcceptedBytesKept, SessionInv, WorkerInv, NeedsBytes, IsUpload, Mine, Bound, StillNeeded
<1> QED
  BY <1>1, <1>2, <1>3, <1>4, <1>5, ReconcileInv DEF Next

THEOREM IntakeInvariance == ASSUME IntakeAssumption PROVE Spec => []IntakeInv
<1>1. Init => IntakeInv
  BY IntakeInit
<1>2. IntakeInv /\ [Next]_vars => IntakeInv'
  BY IntakeNext
<1> QED
  BY <1>1, <1>2, PTL DEF Spec

\* At most one pair is incomplete, and every index entry names its other half:
\* _reconcile_pairs never finds a contradiction it would have to refuse.
LEMMA PairsFollow == ASSUME IntakeAssumption, IntakeInv PROVE PairsReconcilable
<1>1. Cardinality(HalfPairs) <= 1
  <2>1. CASE HalfPairs = {}
    BY <2>1, FS_EmptySet
  <2>2. CASE HalfPairs # {}
    <3>1. PICK c \in HalfPairs : TRUE
      BY <2>2
    <3>2. HalfPairs = {c}
      BY <3>1 DEF IntakeInv, PairInv
    <3>3. Cardinality({c}) = 1
      BY FS_Singleton
    <3> QED
      BY <3>2, <3>3
  <2> QED
    BY <2>1, <2>2
<1> QED
  BY <1>1 DEF IntakeInv, PairInv, Paired, PairsReconcilable

\* Every record, lock, slot entry and program counter stays within its set.
LEMMA TypeFollows == ASSUME IntakeInv PROVE TypeOK
  BY DEF IntakeInv, TypeInv, TypeOK, SessionRecord, Answer, Artifacts

\* The correlation and job indexes stay repairable whatever crashes, retries
\* and reconciler passes come between the two writes of a pair.
THEOREM PairsStayReconcilable == ASSUME IntakeAssumption PROVE Spec => []PairsReconcilable
  BY IntakeInvariance, PairsFollow, PTL

\* Every answer an operator gets for a correlation names the one job it was
\* created with, its binding, and the result that is still stored.
THEOREM OneAnswer == ASSUME IntakeAssumption PROVE Spec => []OneAnswerPerCorrelation
<1>1. IntakeInv => OneAnswerPerCorrelation
  BY DEF IntakeInv
<1> QED
  BY <1>1, IntakeInvariance, PTL

\* The bytes of an accepted upload stay in the slot until the job has a result,
\* through retries, other sessions, the reconciler and crashes.
THEOREM BytesStay == ASSUME IntakeAssumption PROVE Spec => []AcceptedBytesKept
<1>1. IntakeInv => AcceptedBytesKept
  BY DEF IntakeInv
<1> QED
  BY <1>1, IntakeInvariance, PTL

\* The records of the intake component stay well formed.
THEOREM IntakeTypes == ASSUME IntakeAssumption PROVE Spec => []TypeOK
  BY IntakeInvariance, TypeFollows, PTL
=============================================================================
