---------------------------- MODULE CaddyStartup ----------------------------
(***************************************************************************)
(* Replacing the platform generation: ensure_platform_generation prepares  *)
(* a transactional start intent around the change of the active reference, *)
(* the unit starts the candidate at most MaxStartAttempts times, and the   *)
(* recovery unit goes back to the predecessor when all of them failed.     *)
(* Bootstrap and recovery hold the publication lock and may die between    *)
(* any two of their durable writes.  The play that runs the bootstrap      *)
(* stops and runtime-masks the unit first; it runs on hosts without        *)
(* tenants only.                                                           *)
(***************************************************************************)
EXTENDS CaddyUnit, FiniteSets, TLAPS

CONSTANTS
    MaxInputs,        \* bound: how often the host's inputs change
    MaxPublished,     \* bound: generations ever published
    MaxGenerations,   \* MAX_CADDY_GENERATIONS, 3 in the code
    MaxFailures       \* bound: failed starts and killed processes

ASSUME BootstrapAssumption == /\ MaxInputs \in Nat /\ MaxPublished \in Nat
                              /\ MaxGenerations \in Nat /\ MaxGenerations >= 3
                              /\ MaxFailures \in Nat

VARIABLES
    gens,       \* verified generations: identity -> the inputs they embody
    inputs,     \* binary, environment and CAs the operator wants now
    last,       \* last generation identity drawn
    masked,     \* the play's runtime mask keeps the unit from starting
    boot,       \* program counter of the bootstrap process
    rec,        \* program counter of the recovery process
    failures    \* failures so far

startupVars == <<unitVars, gens, inputs, last, masked, boot, rec, failures>>

BootLabels == {"idle", "checked", "stopped", "publish", "begin", "select", "mark", "prune", "done"}
RecoveryLabels == {"idle", "mark"}

TypeOK ==
    /\ UnitTypeOK
    /\ DOMAIN gens \in SUBSET Ids
    /\ \A g \in DOMAIN gens : gens[g] \in 0..MaxInputs
    /\ inputs \in 0..MaxInputs
    /\ last \in 0..MaxPublished
    /\ masked \in BOOLEAN
    /\ boot \in BootLabels
    /\ rec \in RecoveryLabels
    /\ failures \in 0..MaxFailures

\* A new host: nothing published, nothing selected.
Init ==
    /\ active = None /\ running = None /\ startup = None /\ service = Down
    /\ gens = [g \in {} |-> 0]
    /\ inputs = 0 /\ last = 0
    /\ masked = FALSE /\ boot = "idle" /\ rec = "idle"
    /\ failures = 0

Unlocked == boot \in {"idle", "checked", "stopped", "done"} /\ rec = "idle"

Keep(gs) == [g \in gs \cap DOMAIN gens |-> gens[g]]

\* Configuration management brings a new binary, environment or CA.
ChangeInputs ==
    /\ inputs < MaxInputs
    /\ inputs' = inputs + 1
    /\ UNCHANGED <<unitVars, gens, last, masked, boot, rec, failures>>

\* _require_resumable_transaction: a bootstrap run again after a crash goes on
\* only with the same inputs and before the first start attempt.
ResumeAdmitted ==
    /\ startup # None /\ startup.mode = "transactional"
    /\ startup.phase \in {"candidate-prepared", "restart-required"}
    /\ {startup.candidate, startup.previous} \subseteq DOMAIN gens
    /\ gens[startup.candidate] = inputs
    /\ active \in (IF startup.phase = "candidate-prepared"
                   THEN {startup.candidate, startup.previous} ELSE {startup.candidate})

ActiveMatches == active # None /\ gens[active] = inputs

\* What _prune_bootstrap_generations keeps: the active one and the newest other.
BootstrapRetained ==
    LET others == DOMAIN gens \ {active}
    IN  IF active = None THEN {}
        ELSE {active} \cup {g \in others : \A h \in others : h <= g}

\* platform_generation_state, without the exception cases that end the play.
\* An unchanged generation needs a bootstrap only when other inputs of the role
\* (its units, its frozen commands) changed; if not, the play goes on to unmask.
CheckPlatform ==
    /\ Unlocked /\ boot = "idle"
    /\ startup = None \/ ResumeAdmitted
    /\ \/ boot' = "checked"
       \/ /\ startup = None /\ ActiveMatches
          /\ DOMAIN gens \subseteq BootstrapRetained
          /\ boot' = "done"
    /\ UNCHANGED <<unitVars, gens, inputs, last, masked, rec, failures>>

\* A play that brings new bootstrap commands skips the check.
SkipCheck ==
    /\ boot = "idle"
    /\ boot' = "checked"
    /\ UNCHANGED <<unitVars, gens, inputs, last, masked, rec, failures>>

\* The play stops Caddy and masks it until the bootstrap has succeeded.
StopAndMask ==
    /\ boot = "checked"
    /\ boot' = "stopped" /\ masked' = TRUE
    /\ running' = None /\ service' = Down
    /\ UNCHANGED <<active, startup, gens, inputs, last, rec, failures>>

Unmask ==
    /\ boot = "done"
    /\ boot' = "idle" /\ masked' = FALSE
    /\ UNCHANGED <<unitVars, gens, inputs, last, rec, failures>>

-----------------------------------------------------------------------------
(* ensure_platform_generation. *)

\* No start intent: prune, and publish unless the active generation matches.
Ensure ==
    /\ Unlocked /\ boot = "stopped"
    /\ startup = None
    /\ gens' = Keep(BootstrapRetained)
    /\ boot' = IF ActiveMatches THEN "done" ELSE "publish"
    /\ UNCHANGED <<unitVars, inputs, last, masked, rec, failures>>

PublishPlatform ==
    /\ boot = "publish"
    /\ last < MaxPublished
    /\ Cardinality(DOMAIN gens) < MaxGenerations
    /\ last' = last + 1
    /\ gens' = [g \in DOMAIN gens \cup {last + 1} |-> IF g = last + 1 THEN inputs ELSE gens[g]]
    /\ boot' = IF active = None THEN "select" ELSE "begin"
    /\ UNCHANGED <<unitVars, inputs, masked, rec, failures>>

BeginTransaction ==
    /\ boot = "begin"
    /\ startup' = [mode |-> "transactional", phase |-> "candidate-prepared",
                   candidate |-> last, previous |-> active, tries |-> 0, retries |-> 0]
    /\ boot' = "select"
    /\ UNCHANGED <<active, running, service, gens, inputs, last, masked, rec, failures>>

SelectPlatform ==
    /\ boot = "select"
    /\ active' = IF startup = None THEN last ELSE startup.candidate
    /\ boot' = IF startup = None THEN "prune" ELSE "mark"
    /\ UNCHANGED <<running, startup, service, gens, inputs, last, masked, rec, failures>>

\* mark_restart_required, skipped when an earlier bootstrap already did it.
MarkRestartRequired ==
    /\ boot = "mark"
    /\ startup' = [startup EXCEPT !.phase = "restart-required"]
    /\ boot' = "prune"
    /\ UNCHANGED <<active, running, service, gens, inputs, last, masked, rec, failures>>

\* Mutant of PruneSelected: the predecessor is not protected.
PruneSelectedActiveOnly ==
    /\ boot = "prune"
    /\ gens' = Keep({active})
    /\ boot' = "done"
    /\ UNCHANGED <<unitVars, inputs, last, masked, rec, failures>>

PruneSelected ==
    /\ boot = "prune"
    /\ gens' = IF startup = None THEN Keep({active})
                                 ELSE Keep({startup.candidate, startup.previous})
    /\ boot' = "done"
    /\ UNCHANGED <<unitVars, inputs, last, masked, rec, failures>>

Resume ==
    /\ Unlocked /\ boot = "stopped"
    /\ ResumeAdmitted
    /\ boot' = CASE active = startup.previous -> "select"
                 [] active = startup.candidate /\ startup.phase = "candidate-prepared" -> "mark"
                 [] OTHER -> "prune"
    /\ UNCHANGED <<unitVars, gens, inputs, last, masked, rec, failures>>

\* The check was skipped, or an intent appeared or changed since: the play
\* fails and leaves the unit masked.
BootstrapRefused ==
    /\ Unlocked /\ boot = "stopped"
    /\ startup # None /\ ~ResumeAdmitted
    /\ boot' = "idle"
    /\ UNCHANGED <<unitVars, gens, inputs, last, masked, rec, failures>>

BootstrapStep ==
    \/ Ensure \/ PublishPlatform \/ BeginTransaction \/ SelectPlatform
    \/ MarkRestartRequired \/ PruneSelected \/ Resume \/ BootstrapRefused

-----------------------------------------------------------------------------
(* caddy_start_recovery_main: select the predecessor, then mark; both are  *)
(* repeated when the unit is run again.                                    *)

RecoverSelect ==
    /\ Unlocked /\ RollbackAdmitted
    /\ active' = startup.previous
    /\ rec' = "mark"
    /\ UNCHANGED <<running, startup, service, gens, inputs, last, masked, boot, failures>>

RecoverMark ==
    /\ rec = "mark"
    /\ MarkRollbackRestartRequired
    /\ rec' = "idle"
    /\ UNCHANGED <<gens, inputs, last, masked, boot, failures>>

RecoverOrdinary ==
    /\ Unlocked
    /\ ClearExhaustedOrdinaryStart
    /\ UNCHANGED <<gens, inputs, last, masked, boot, rec, failures>>

UnitStep ==
    /\ Unlocked /\ ~masked
    /\ StartGate \/ Launch \/ VerifyStart
    /\ UNCHANGED <<gens, inputs, last, masked, boot, rec, failures>>

\* A start attempt or the running Caddy fails.
StartFailure ==
    /\ CaddyCrash
    /\ UNCHANGED <<gens, inputs, last, masked, boot, rec>>

\* The bootstrap or the recovery process dies where it is.
ProcessCrash ==
    /\ boot # "idle" \/ rec # "idle"
    /\ boot' = "idle" /\ rec' = "idle"
    /\ UNCHANGED <<unitVars, gens, inputs, last, masked>>

\* The host restarts: every process is gone, and so is the runtime mask.
Reboot ==
    /\ boot' = "idle" /\ rec' = "idle" /\ masked' = FALSE
    /\ running' = None /\ service' = Down
    /\ UNCHANGED <<active, startup, gens, inputs, last>>

Next ==
    \/ ChangeInputs \/ CheckPlatform \/ SkipCheck \/ StopAndMask \/ Unmask \/ BootstrapStep \/ UnitStep
    \/ RecoverSelect \/ RecoverMark \/ RecoverOrdinary
    \/ (StartFailure \/ ProcessCrash \/ Reboot) /\ failures < MaxFailures /\ failures' = failures + 1

Safety == Init /\ [][Next]_startupVars

(***************************************************************************)
(* Fairness: systemd restarts a failed unit (Restart=on-failure) and runs  *)
(* the recovery unit on every failure and before every start; both take    *)
(* the lock by waiting for it.  A play that has begun goes on until it is  *)
(* killed; nothing forces a new one.                                       *)
(***************************************************************************)
Fairness ==
    /\ SF_startupVars(UnitStep)
    /\ SF_startupVars(RecoverSelect) /\ WF_startupVars(RecoverMark)
    /\ WF_startupVars(StopAndMask \/ BootstrapStep) /\ WF_startupVars(Unmask)

Spec == Safety /\ Fairness

-----------------------------------------------------------------------------
\* Every intent ever written has a shape its own decoder accepts: a malformed
\* one could not be read again and would block every later start.
StartIntentWellFormed == startup # None => WellFormed(startup)

\* Pruning never removes a generation that is active, running or named by the
\* intent, whatever crashed between publishing, selecting and pruning.
ReferencedGenerationsExist ==
    /\ {active, running} \ {None} \subseteq DOMAIN gens
    /\ startup # None => {startup.candidate, startup.previous} \ {None} \subseteq DOMAIN gens

\* A unit that is up runs the generation the active reference names, and no
\* transaction is pending: only a matching, verified start leaves it so.
ActiveServiceRunsSelected ==
    service.state = "active" => running = active /\ startup = None

\* While an intent is durable the active reference is one of its two targets.
ActiveBoundByIntent ==
    startup # None => active \in {startup.candidate, startup.previous}

\* The predecessor is selected again only after every candidate attempt was
\* spent, and nobody else ever moves the reference backwards.
RollbackOnlyWhenExhausted ==
    [][active # None /\ active' # active /\ active' < active =>
          /\ startup # None /\ startup.mode = "transactional"
          /\ startup.tries = MaxStartAttempts]_startupVars

RecoveryExhausted ==
    startup # None /\ startup.phase = "recovery-starting" /\ startup.retries = MaxStartAttempts

\* A transaction whose candidate was selected ends: healthy candidate, healthy
\* predecessor, or both exhausted with the evidence kept, unless another play
\* masks the unit under it.
TransactionResolves ==
    (startup # None /\ startup.phase = "restart-required" /\ ~masked)
        ~> (startup = None \/ RecoveryExhausted \/ masked)

(***************************************************************************)
(* Proofs: safety of the start protocol, for every bound and every number  *)
(* of start attempts.                                                      *)
(*                                                                         *)
(* The properties are not inductive: what pruning may remove depends on    *)
(* where bootstrap and recovery stand, so IndInv records for each program  *)
(* counter what the lock holder has established, that the lock excludes    *)
(* the other process, and that generation identities only grow.            *)
(***************************************************************************)

Preparing == {"publish", "begin", "select", "mark", "prune"}

\* The play keeps the unit masked, and a masked unit is down.
MaskInv ==
    /\ boot \in Preparing \cup {"stopped"} => masked
    /\ masked => service.state = "down" /\ running = None

\* Bootstrap and recovery exclude each other.
LockInv == boot \in Preparing => rec = "idle"

\* Identities are drawn in order and a candidate is younger than its predecessor.
AgeInv ==
    /\ \A g \in DOMAIN gens : g <= last
    /\ startup # None /\ startup.mode = "transactional" => startup.previous < startup.candidate

\* What the bootstrap process has established at each point.
BootInv ==
    /\ boot = "publish" => startup = None
    /\ boot = "begin" => startup = None /\ active # None /\ last \in DOMAIN gens /\ active < last
    /\ boot = "select" =>
          \/ startup = None /\ active = None /\ last \in DOMAIN gens
          \/ startup # None /\ startup.mode = "transactional" /\ startup.phase = "candidate-prepared"
    /\ boot = "mark" =>
          /\ startup # None /\ startup.mode = "transactional"
          /\ startup.phase = "candidate-prepared" /\ active = startup.candidate
    /\ boot = "prune" =>
          \/ startup = None /\ active # None
          \/ startup # None /\ startup.mode = "transactional" /\ active = startup.candidate

\* What the recovery process has established.
RecInv == rec = "mark" => RollbackAdmitted /\ active = startup.previous

\* The properties, and what makes them inductive.
IndInv ==
    /\ TypeOK
    /\ StartIntentWellFormed
    /\ ReferencedGenerationsExist
    /\ ActiveServiceRunsSelected
    /\ ActiveBoundByIntent
    /\ MaskInv /\ LockInv /\ AgeInv /\ BootInv /\ RecInv

(* Lemmas about the records of the unit and its start intent. *)

\* A unit that is down.
LEMMA DownType == Down \in ServiceRecord /\ Down.state = "down"
<1>1. Down \in ServiceRecord
  BY DEF Down, ServiceRecord
<1>2. Down.state = "down"
  BY DEF Down
<1> QED
  BY <1>1, <1>2

\* What the gate writes,
LEMMA GatedType ==
    LET s == [state |-> "gated", fenced |-> TRUE]
    IN  s \in ServiceRecord /\ s.state = "gated"
<1>1. [state |-> "gated", fenced |-> TRUE] \in ServiceRecord
  BY DEF ServiceRecord
<1> QED
  BY <1>1

\* the verifier,
LEMMA ActiveType == [state |-> "active", fenced |-> FALSE] \in ServiceRecord
  BY DEF ServiceRecord

\* the recovery unit,
LEMMA UnfencedType ==
    ASSUME NEW s \in ServiceRecord
    PROVE  /\ [s EXCEPT !.fenced = FALSE] \in ServiceRecord
           /\ [s EXCEPT !.fenced = FALSE].state = s.state
<1>1. [s EXCEPT !.fenced = FALSE] \in ServiceRecord
  BY DEF ServiceRecord
<1>2. [s EXCEPT !.fenced = FALSE].state = s.state
  BY DEF ServiceRecord
<1> QED
  BY <1>1, <1>2

\* and the launcher.
LEMMA StartingType ==
    ASSUME NEW s \in ServiceRecord
    PROVE  /\ [s EXCEPT !.state = "starting"] \in ServiceRecord
           /\ [s EXCEPT !.state = "starting"].state = "starting"
<1>1. [s EXCEPT !.state = "starting"] \in ServiceRecord
  BY DEF ServiceRecord
<1>2. [s EXCEPT !.state = "starting"].state = "starting"
  BY DEF ServiceRecord
<1> QED
  BY <1>1, <1>2

\* One more start attempt of the candidate.
LEMMA CandidateAttempt ==
    ASSUME NEW s \in StartIntent, WellFormed(s), s.phase \in CandidatePhases,
           s.tries < MaxStartAttempts, NEW r,
           r = [s EXCEPT !.tries = @ + 1,
                         !.phase = IF s.mode = "ordinary" THEN "ordinary-starting"
                                                          ELSE "candidate-starting"]
    PROVE  /\ r \in StartIntent /\ WellFormed(r)
           /\ r.candidate = s.candidate /\ r.previous = s.previous /\ r.mode = s.mode
<1> USE StartAttemptsAssumption DEF StartIntent
<1>1. /\ r.mode = s.mode /\ r.candidate = s.candidate /\ r.previous = s.previous
      /\ r.retries = s.retries /\ r.tries = s.tries + 1
      /\ r.phase = IF s.mode = "ordinary" THEN "ordinary-starting" ELSE "candidate-starting"
  OBVIOUS
<1>2. s.tries + 1 \in 0..MaxStartAttempts
  OBVIOUS
<1>3. r \in StartIntent
  BY <1>2 DEF StartPhases
<1>4. WellFormed(r)
  BY <1>1 DEF WellFormed, CandidatePhases
<1> QED
  BY <1>1, <1>3, <1>4

\* One more start attempt of the predecessor.
LEMMA RecoveryAttempt ==
    ASSUME NEW s \in StartIntent, WellFormed(s), s.phase \in RecoveryPhases,
           s.retries < MaxStartAttempts, NEW r,
           r = [s EXCEPT !.retries = @ + 1, !.phase = "recovery-starting"]
    PROVE  /\ r \in StartIntent /\ WellFormed(r)
           /\ r.candidate = s.candidate /\ r.previous = s.previous /\ r.mode = s.mode
<1> USE StartAttemptsAssumption DEF StartIntent
<1>1. /\ r.mode = s.mode /\ r.candidate = s.candidate /\ r.previous = s.previous
      /\ r.tries = s.tries /\ r.retries = s.retries + 1 /\ r.phase = "recovery-starting"
  OBVIOUS
<1>2. s.retries + 1 \in 0..MaxStartAttempts
  OBVIOUS
<1>3. r \in StartIntent
  BY <1>2 DEF StartPhases
<1>4. WellFormed(r)
  BY <1>1 DEF WellFormed, RecoveryPhases
<1> QED
  BY <1>1, <1>3, <1>4

\* What the gate leaves durable: a readable intent with the targets it had, or
\* an ordinary one bound to the active generation.
LEMMA PreparedIntent ==
    ASSUME startup \in StartIntent \cup {None}, startup # None => WellFormed(startup),
           active \in Ids, PrepareStart
    PROVE  /\ startup' \in StartIntent /\ WellFormed(startup')
           /\ startup = None => /\ startup'.candidate = active
                               /\ startup'.previous = None /\ startup'.mode = "ordinary"
           /\ startup # None => /\ startup'.candidate = startup.candidate
                               /\ startup'.previous = startup.previous
                               /\ startup'.mode = startup.mode
<1>1. CASE OrdinaryStart
  BY <1>1, NoneAssumption, StartAttemptsAssumption DEF OrdinaryStart, StartIntent, StartPhases, WellFormed
<1>2. CASE startup # None /\ startup.phase \in CandidatePhases
  BY <1>2, CandidateAttempt DEF PrepareStart, OrdinaryStart, CandidatePhases, RecoveryPhases
<1>3. CASE startup # None /\ startup.phase \in RecoveryPhases
  BY <1>3, RecoveryAttempt DEF PrepareStart, OrdinaryStart, CandidatePhases, RecoveryPhases
<1> QED
  BY <1>1, <1>2, <1>3 DEF PrepareStart

\* An unprovisioned host satisfies the invariant.
LEMMA InitInv == Init => IndInv
<1> SUFFICES ASSUME Init PROVE IndInv
  OBVIOUS
<1> USE NoneAssumption, StartAttemptsAssumption, BootstrapAssumption DEF Init
<1>1. DOMAIN gens = {}
  OBVIOUS
<1>2. UnitTypeOK
  BY DownType DEF UnitTypeOK
<1>5. masked \in BOOLEAN
  BY Zenon
<1>3. TypeOK
  BY <1>1, <1>2, <1>5 DEF TypeOK, BootLabels, RecoveryLabels
<1>4. ReferencedGenerationsExist /\ AgeInv
  BY <1>1 DEF ReferencedGenerationsExist, AgeInv
<1> QED
  BY <1>3, <1>4, DownType DEF IndInv, StartIntentWellFormed, ActiveServiceRunsSelected,
     ActiveBoundByIntent, MaskInv, LockInv, BootInv, RecInv, Preparing

\* Every step of the play, the unit and the recovery unit preserves it.
LEMMA StepInv == IndInv /\ [Next]_startupVars => IndInv'
<1> SUFFICES ASSUME IndInv, [Next]_startupVars PROVE IndInv'
  OBVIOUS
<1> USE NoneAssumption, StartAttemptsAssumption, BootstrapAssumption
<1> USE DEF IndInv, TypeOK, UnitTypeOK, StartIntent, BootLabels, RecoveryLabels, Ids,
            StartPhases, StartIntentWellFormed, WellFormed, ReferencedGenerationsExist,
            ActiveServiceRunsSelected, ActiveBoundByIntent, MaskInv, LockInv, AgeInv,
            BootInv, RecInv, RollbackAdmitted, Preparing, unitVars
<1>1. CASE ChangeInputs
  BY <1>1 DEF ChangeInputs
<1>2. CASE CheckPlatform
  BY <1>2 DEF CheckPlatform
<1>23. CASE SkipCheck
  BY <1>23 DEF SkipCheck
<1>3. CASE StopAndMask
  BY <1>3, DownType DEF StopAndMask
<1>4. CASE Unmask
  BY <1>4 DEF Unmask
<1>5. CASE Ensure
  BY <1>5 DEF BootstrapRetained, Keep, ActiveMatches, Unlocked, Ensure
<1>6. CASE PublishPlatform
  BY <1>6 DEF PublishPlatform
<1>7. CASE BeginTransaction
  <2>1. /\ startup' \in StartIntent /\ WellFormed(startup')
        /\ startup'.mode = "transactional" /\ startup'.phase = "candidate-prepared"
        /\ startup'.candidate = last /\ startup'.previous = active
    BY <1>7 DEF BeginTransaction
  <2>2. startup' # None
    BY <2>1
  <2>3. TypeOK' /\ StartIntentWellFormed'
    BY <1>7, <2>1 DEF BeginTransaction
  <2>4. BootInv'
    BY <1>7, <2>1, <2>2 DEF BeginTransaction
  <2> QED
    BY <1>7, <2>1, <2>2, <2>3, <2>4 DEF BeginTransaction
<1>8. CASE SelectPlatform
  BY <1>8 DEF SelectPlatform
<1>9. CASE MarkRestartRequired
  BY <1>9 DEF MarkRestartRequired
<1>10. CASE PruneSelected
  BY <1>10 DEF Keep, PruneSelected
<1>11. CASE Resume
  BY <1>11 DEF ResumeAdmitted, Unlocked, Resume
<1>12. CASE BootstrapRefused
  BY <1>12 DEF Unlocked, BootstrapRefused
<1>13. CASE RecoverSelect
  BY <1>13 DEF Unlocked, RecoverSelect
<1>14. CASE RecoverMark
  <2>1. service' \in ServiceRecord /\ service'.state = service.state
    BY <1>14, UnfencedType DEF RecoverMark, MarkRollbackRestartRequired
  <2> QED
    BY <1>14, <2>1 DEF RecoverMark, MarkRollbackRestartRequired
<1>15. CASE RecoverOrdinary
  <2>1. service' \in ServiceRecord /\ service'.state = service.state
    BY <1>15, UnfencedType DEF RecoverOrdinary, ClearExhaustedOrdinaryStart
  <2> QED
    BY <1>15, <2>1 DEF RecoverOrdinary, ClearExhaustedOrdinaryStart, Unlocked
<1>16. CASE UnitStep /\ StartGate
  <2>1. service' \in ServiceRecord /\ service'.state = "gated"
    BY <1>16, GatedType DEF StartGate
  <2>2. /\ startup' \in StartIntent /\ WellFormed(startup')
        /\ startup = None => startup'.candidate = active /\ startup'.previous = None /\ startup'.mode = "ordinary"
        /\ startup # None => /\ startup'.candidate = startup.candidate
                             /\ startup'.previous = startup.previous
                             /\ startup'.mode = startup.mode
    <3> HIDE DEF StartIntent, WellFormed
    <3> QED
      BY <1>16, PreparedIntent DEF StartGate
  <2>3. startup' # None
    BY <2>2
  <2>4. UNCHANGED <<active, running, gens, inputs, last, masked, boot, rec, failures>>
    BY <1>16 DEF UnitStep, StartGate
  <2>5. ~masked /\ rec = "idle" /\ boot \notin Preparing /\ active # None
    BY <1>16 DEF UnitStep, Unlocked, StartGate
  <2> HIDE DEF StartIntent, WellFormed
  <2>6. TypeOK'
    BY <2>1, <2>2, <2>4
  <2>7. ReferencedGenerationsExist' /\ ActiveBoundByIntent' /\ AgeInv'
    BY <2>2, <2>3, <2>4, <2>5
  <2> QED
    BY <2>1, <2>2, <2>4, <2>5, <2>6, <2>7
<1>17. CASE UnitStep /\ Launch
  <2>1. service' \in ServiceRecord /\ service'.state = "starting"
    BY <1>17, StartingType DEF Launch
  <2> QED
    BY <1>17, <2>1 DEF UnitStep, Unlocked, Launch
<1>18. CASE UnitStep /\ VerifyStart
  <2>1. service' \in ServiceRecord
    BY <1>18, DownType, ActiveType DEF VerifyStart
  <2>2. ActiveServiceRunsSelected'
    BY <1>18, DownType DEF VerifyStart, StartMatches
  <2>3. TypeOK'
    BY <1>18, <2>1 DEF UnitStep, VerifyStart
  <2> QED
    BY <1>18, <2>2, <2>3 DEF UnitStep, Unlocked, VerifyStart
<1>19. CASE StartFailure /\ failures < MaxFailures /\ failures' = failures + 1
  BY <1>19, DownType DEF CaddyCrash, StartFailure
<1>20. CASE ProcessCrash /\ failures < MaxFailures /\ failures' = failures + 1
  BY <1>20 DEF ProcessCrash
<1>21. CASE Reboot /\ failures < MaxFailures /\ failures' = failures + 1
  <2>1. service' \in ServiceRecord /\ service'.state = "down"
    BY <1>21, DownType DEF Reboot
  <2>2. masked' \in BOOLEAN
    BY <1>21, Zenon DEF Reboot
  <2> QED
    BY <1>21, <2>1, <2>2 DEF Reboot
<1>22. CASE UNCHANGED startupVars
  BY <1>22 DEF startupVars
<1> QED
  BY <1>1, <1>2, <1>3, <1>4, <1>5, <1>6, <1>7, <1>8, <1>9, <1>10, <1>11, <1>12,
     <1>13, <1>14, <1>15, <1>16, <1>17, <1>18, <1>19, <1>20, <1>21, <1>22, <1>23
  DEF Next, BootstrapStep, UnitStep

-----------------------------------------------------------------------------
\* The invariant holds throughout.
LEMMA Invariance == Safety => []IndInv
  BY InitInv, StepInv, PTL DEF Safety

\* The state of the unit, the start intent and the play keeps its type.
THEOREM TypeCorrect == Safety => []TypeOK
<1>1. IndInv => TypeOK
  BY DEF IndInv
<1> QED
  BY <1>1, Invariance, PTL

\* Every intent the gate, the bootstrap and the recovery unit leave durable is
\* one CaddyStartIntent.__post_init__ accepts, for any number of attempts.
THEOREM IntentReadable == Safety => []StartIntentWellFormed
<1>1. IndInv => StartIntentWellFormed
  BY DEF IndInv
<1> QED
  BY <1>1, Invariance, PTL

\* No crash, reboot or change of inputs lets pruning remove a generation that
\* is active, running or a target of the start intent.
THEOREM NothingReferencedPruned == Safety => []ReferencedGenerationsExist
<1>1. IndInv => ReferencedGenerationsExist
  BY DEF IndInv
<1> QED
  BY <1>1, Invariance, PTL

\* A unit that is up was verified against the active reference and left no
\* intent behind.
THEOREM VerifiedServiceRunsActive == Safety => []ActiveServiceRunsSelected
<1>1. IndInv => ActiveServiceRunsSelected
  BY DEF IndInv
<1> QED
  BY <1>1, Invariance, PTL

\* The active reference never leaves the two targets of a durable intent.
THEOREM ReferenceBoundByIntent == Safety => []ActiveBoundByIntent
<1>1. IndInv => ActiveBoundByIntent
  BY DEF IndInv
<1> QED
  BY <1>1, Invariance, PTL

\* A step that moves the reference backwards is the recovery unit's, after the
\* last candidate attempt was spent.
THEOREM RollbackAfterExhaustion == Safety => RollbackOnlyWhenExhausted
<1> DEFINE Backwards == active # None /\ active' # active /\ active' < active
<1>1. ASSUME IndInv, [Next]_startupVars, Backwards
      PROVE  /\ startup # None /\ startup.mode = "transactional"
             /\ startup.tries = MaxStartAttempts
  <2>1. SelectPlatform \/ RecoverSelect
    BY <1>1 DEF Next, BootstrapStep, startupVars, unitVars, ChangeInputs, CheckPlatform, SkipCheck,
       StopAndMask, Unmask, Ensure, PublishPlatform, BeginTransaction, MarkRestartRequired,
       PruneSelected, Resume, BootstrapRefused, RecoverMark, MarkRollbackRestartRequired,
       RecoverOrdinary, ClearExhaustedOrdinaryStart, UnitStep, StartGate, Launch, VerifyStart,
       StartFailure, CaddyCrash, ProcessCrash, Reboot
  <2>2. CASE SelectPlatform
    BY <1>1, <2>2, NoneAssumption DEF SelectPlatform, IndInv, BootInv, AgeInv, TypeOK, UnitTypeOK,
       StartIntent, ActiveBoundByIntent, Ids
  <2>3. CASE RecoverSelect
    BY <1>1, <2>3 DEF RecoverSelect, RollbackAdmitted, IndInv, StartIntentWellFormed, WellFormed
  <2> QED
    BY <2>1, <2>2, <2>3
<1>2. IndInv /\ [Next]_startupVars => [Backwards =>
          /\ startup # None /\ startup.mode = "transactional"
          /\ startup.tries = MaxStartAttempts]_startupVars
  BY <1>1
<1> QED
  BY <1>2, Invariance, PTL DEF Safety, RollbackOnlyWhenExhausted
=============================================================================
