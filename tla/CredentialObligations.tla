----------------------- MODULE CredentialObligations -----------------------
(***************************************************************************)
(* The obligations that a created provider credential leaves: create once, *)
(* journal first, reconcile until it is revoked (lifecycle.py, class       *)
(* Lifecycle).  A controller creates one credential for each role of a     *)
(* run.  The controller, which keeps the secrets, and independent actors,  *)
(* which do not, then sweep the same journal: they delete what they can    *)
(* prove to be theirs, and a new qualification is admitted only when a     *)
(* sweep has resolved every obligation.                                    *)
(*                                                                         *)
(* The provider may answer late or not at all, keep a deleted credential   *)
(* listed for a while, and accept its secret for a while longer.  Persists *)
(* fail before or after they had their effect; a process may die anywhere. *)
(***************************************************************************)
EXTENDS Naturals, FiniteSets

CONSTANTS
    Roles,       \* the run's roles, one credential each
    Controller,  \* the actor that creates the credentials and keeps secrets
    Watchers,    \* the actors that only clean up
    Strangers,   \* whether others may create a credential of the same name
    MaxFaults    \* bound: failed calls, failed persists, deaths of a process

VARIABLES
    attempt,   \* per role: where the creation is
    staged,    \* per role: records only the controller's own store has
    journal,   \* per role: the records every actor reads
    secret,    \* the roles whose secret the controller has retained
    cred,      \* per role: the credential at the provider
    accepts,   \* per role: the provider accepts its secret
    stranger,  \* per role: another's credential of this name
    due,       \* the run is revoked or past its deadline
    sweep,     \* per actor: where its sweep is
    changed,   \* per actor: its view has changed since its sweep began
    clear,     \* the actors whose last sweep left a clearance
    admitted,  \* a new qualification was admitted
    faults     \* faults so far

creation == <<attempt, staged, secret>>
provider == <<cred, accepts, stranger>>
vars == <<creation, journal, provider, due, sweep, changed, clear, admitted, faults>>

Actors == {Controller} \cup Watchers

(* The records of one intent: the markers are numbered in their order, and *)
(* a denied proof covers a prefix of them; prior is the latest resolution. *)
NoRecords ==
    [intent |-> FALSE, created |-> FALSE, abort |-> FALSE,
     markers |-> 0, covered |-> 0, proofs |-> {}, prior |-> "none"]

Merge(a, b) ==
    [b EXCEPT !.intent = @ \/ a.intent, !.created = @ \/ a.created,
              !.abort = @ \/ a.abort,
              !.markers = IF a.markers > @ THEN a.markers ELSE @]

(* journal.records(): the controller also sees what it has staged.         *)
View(a, r) == IF a = Controller THEN Merge(staged[r], journal[r]) ELSE journal[r]

(* pending_authentication: only a denied proof covers a marker.            *)
PendingAuthentication(v) == v.covered < v.markers

(* A resolution that stands for what is known now.                         *)
ValidResolution(v) ==
    \/ v.created /\ v.proofs \cap {"unavailable", "denied"} # {}
    \/ ~v.created /\ v.abort /\ "aborted" \in v.proofs

Idle == [pc |-> "idle", role |-> Controller, todo |-> {}, more |-> TRUE, batch |-> {},
         seen |-> NoRecords, results |-> [r \in Roles |-> "none"]]

Init ==
    /\ attempt = [r \in Roles |-> "idle"]
    /\ staged = [r \in Roles |-> NoRecords]
    /\ journal = [r \in Roles |-> NoRecords]
    /\ secret = {}
    /\ cred = [r \in Roles |-> "none"]
    /\ accepts = [r \in Roles |-> FALSE]
    /\ stranger = [r \in Roles |-> "none"]
    /\ due = FALSE
    /\ sweep = [a \in Actors |-> Idle]
    /\ changed = [a \in Actors |-> FALSE]
    /\ clear = {}
    /\ admitted = FALSE
    /\ faults = 0

(* Whatever changes an actor's view makes its clearance stale (the digest  *)
(* of the obligations, _obligation_basis).                                 *)
Watch ==
    changed' = [a \in Actors |-> changed[a] \/ \E r \in Roles : View(a, r)' # View(a, r)]

Fault == faults < MaxFaults /\ faults' = faults + 1
NoFault == UNCHANGED faults

(* persist: acknowledged, or failed with or without its effect.            *)
Record(r, v) == journal' = [journal EXCEPT ![r] = v]

----------------------------------------------------------------------------
(* The provider (external).  A request whose answer is lost may still be   *)
(* carried out, at any time or never.                                      *)

Listed(r) == cred[r] \in {"live", "lingering"}

Commit(r) ==
    /\ cred[r] = "inflight"
    /\ \/ cred' = [cred EXCEPT ![r] = "live"] /\ accepts' = [accepts EXCEPT ![r] = TRUE]
       \/ cred' = [cred EXCEPT ![r] = "refused"] /\ UNCHANGED accepts
    /\ UNCHANGED <<creation, journal, stranger, due, sweep, changed, clear, admitted, faults>>

Settle(r) ==
    /\ \/ /\ cred[r] = "lingering"
          /\ cred' = [cred EXCEPT ![r] = "gone"] /\ UNCHANGED accepts
       \/ /\ cred[r] \in {"lingering", "gone"} /\ accepts[r]
          /\ accepts' = [accepts EXCEPT ![r] = FALSE] /\ UNCHANGED cred
    /\ UNCHANGED <<creation, journal, stranger, due, sweep, changed, clear, admitted, faults>>

Squat(r) ==
    /\ Strangers /\ stranger[r] = "none"
    /\ stranger' = [stranger EXCEPT ![r] = "there"]
    /\ UNCHANGED <<creation, journal, cred, accepts, due, sweep, changed, clear, admitted, faults>>

----------------------------------------------------------------------------
(* provision: one intent, one creation.                                    *)

At(r, from, to) == attempt[r] = from /\ attempt' = [attempt EXCEPT ![r] = to]

Restart(r) == attempt[r] = "idle"

(* No creation is replayed, and no name is adopted.  The intent is         *)
(* retained locally first.                                                 *)
BeginIntent(r) ==
    /\ Restart(r) /\ attempt' = [attempt EXCEPT ![r] = "intent"]
    /\ ~due
    /\ ~Listed(r) /\ stranger[r] # "there"
    /\ staged' = [staged EXCEPT ![r].intent = TRUE]
    /\ NoFault
    /\ UNCHANGED <<journal, secret, provider, due, sweep, clear, admitted>>
    /\ Watch

PersistIntent(r) ==
    /\ \/ At(r, "intent", "create") /\ NoFault /\ Record(r, [journal[r] EXCEPT !.intent = TRUE])
       \/ /\ At(r, "intent", "aborting") /\ Fault
          /\ journal' \in {journal, [journal EXCEPT ![r].intent = TRUE]}
    /\ UNCHANGED <<staged, secret, provider, due, sweep, clear, admitted>>
    /\ Watch

(* The submission window closes before the request leaves.                 *)
Elapse(r) ==
    /\ At(r, "create", "aborting")
    /\ UNCHANGED <<staged, secret, journal, provider, due, sweep, changed, clear, admitted, faults>>

(* remember_aborted attests that nothing was submitted; it may fail.       *)
MayAbort(r) == attempt[r] = "aborting"

RememberAborted(r) ==
    /\ MayAbort(r)
    /\ attempt' = [attempt EXCEPT ![r] = "failed"]
    /\ \/ NoFault /\ staged' = [staged EXCEPT ![r].abort = TRUE]
       \/ Fault /\ UNCHANGED staged
    /\ UNCHANGED <<journal, secret, provider, due, sweep, clear, admitted>>
    /\ Watch

(* Exactly one mutation.                                                   *)
Submit(r) ==
    /\ At(r, "create", "submitted")
    /\ cred' = [cred EXCEPT ![r] = "inflight"]
    /\ UNCHANGED <<staged, secret, journal, accepts, stranger, due, sweep, changed, clear,
                   admitted, faults>>

Respond(r) ==
    /\ \/ cred[r] \in {"live", "lingering", "gone"} /\ At(r, "submitted", "responded") /\ NoFault
       \/ cred[r] = "refused" /\ At(r, "submitted", "failed") /\ NoFault
       \/ At(r, "submitted", "failed") /\ Fault
    /\ UNCHANGED <<staged, secret, journal, provider, due, sweep, changed, clear, admitted>>

(* _record_creation: the identity and the secret are retained locally, the *)
(* identity and the marker that demands a negative probe are published     *)
(* together.  A failed local write does not keep the identity from the     *)
(* journal; a failed publication leaves what was retained.                 *)
Creation(v) == [v EXCEPT !.created = TRUE, !.markers = 1]

RecordCreation(r) ==
    /\ \/ /\ At(r, "responded", "done") /\ NoFault
          /\ staged' = [staged EXCEPT ![r] = Creation(@)]
          /\ secret' = secret \cup {r}
          /\ Record(r, Creation(journal[r]))
       \/ /\ At(r, "responded", "failed") /\ Fault
          /\ staged' = [staged EXCEPT ![r] = Creation(@)]
          /\ secret' = secret \cup {r}
          /\ journal' \in {journal, [journal EXCEPT ![r] = Creation(@)]}
       \/ /\ At(r, "responded", "failed") /\ Fault
          /\ Record(r, [journal[r] EXCEPT !.created = TRUE])
          /\ UNCHANGED <<staged, secret>>
    /\ UNCHANGED <<provider, due, sweep, clear, admitted>>
    /\ Watch

Revoke ==
    /\ ~due /\ due' = TRUE
    /\ changed' = [a \in Actors |-> TRUE]
    /\ UNCHANGED <<creation, journal, provider, sweep, clear, admitted, faults>>

Provision(r) ==
    \/ BeginIntent(r) \/ PersistIntent(r) \/ Elapse(r) \/ RememberAborted(r)
    \/ Submit(r) \/ Respond(r) \/ RecordCreation(r)

----------------------------------------------------------------------------
(* reconcile and sweep.                                                    *)

Available(a) == IF a = Controller THEN secret ELSE {}

(* An unchanged, fully resolved obligation is only observed.               *)
Historical(v) ==
    /\ due /\ v.created /\ ~v.abort
    /\ ~PendingAuthentication(v) /\ v.prior \in {"unavailable", "denied"}

Goto(a, pc) == sweep' = [sweep EXCEPT ![a].pc = pc]

(* The result of the role at hand; the sweep goes on to the next.          *)
Result(a, status) ==
    sweep' = [sweep EXCEPT ![a].pc = "next",
                           ![a].results[sweep[a].role] = status,
                           ![a].role = Controller, ![a].seen = NoRecords]

(* A LifecycleError or a failed call leaves the obligation unresolved.     *)
Fails(a) == Fault /\ Result(a, "unresolved")

Rest == UNCHANGED <<creation, provider, due, clear, admitted>>

StartSweep(a) ==
    LET roles == {r \in Roles : View(a, r).intent}
        batch == {r \in roles \ Available(a) : Historical(View(a, r))}
    IN  /\ sweep[a].pc \in {"idle", "done"}
        /\ roles # {}
        /\ sweep' = [sweep EXCEPT ![a] =
                        [Idle EXCEPT !.pc = IF batch = {} THEN "next" ELSE "details",
                                     !.todo = roles, !.batch = batch]]
        /\ changed' = [changed EXCEPT ![a] = FALSE]
        /\ clear' = clear \ {a}
        /\ UNCHANGED <<creation, provider, journal, due, admitted, faults>>

(* The batch shares its observations: if any credential is visible or any  *)
(* detail fails, all of them go through the ordinary reconciliation.       *)
Disband(a) == sweep' = [sweep EXCEPT ![a].batch = {}, ![a].pc = "next"]

BatchDetails(a) ==
    /\ sweep[a].pc = "details"
    /\ \/ Fault /\ Disband(a)
       \/ NoFault /\ (IF \E r \in sweep[a].batch : Listed(r) THEN Disband(a)
                      ELSE Goto(a, "inventories"))
    /\ Rest /\ UNCHANGED <<journal, changed>>

BatchDecides(a, status) ==
    sweep' = [sweep EXCEPT ![a].pc = "next", ![a].batch = {},
                           ![a].todo = @ \ sweep[a].batch,
                           ![a].results = [r \in Roles |-> IF r \in sweep[a].batch
                                                           THEN status ELSE @[r]]]

BatchInventory(a) ==
    /\ sweep[a].pc = "inventories"
    /\ \/ Fault /\ BatchDecides(a, "unresolved")
       \/ /\ NoFault
          /\ IF \E r \in sweep[a].batch : Listed(r) \/ stranger[r] = "there"
             THEN BatchDecides(a, "unresolved")
             ELSE IF \A r \in sweep[a].batch : Historical(View(a, r))
                  THEN BatchDecides(a, "verified") ELSE Disband(a)
    /\ Rest /\ UNCHANGED <<journal, changed>>

(* reconcile begins with one reading of the journal.                       *)
Begin(a, r) ==
    /\ sweep[a].pc = "next" /\ r \in sweep[a].todo
    /\ sweep' = [sweep EXCEPT
                    ![a].todo = @ \ {r},
                    ![a].role = IF due THEN r ELSE @,
                    ![a].seen = IF due THEN View(a, r) ELSE @,
                    ![a].results[r] = IF due THEN @ ELSE "not-due",
                    ![a].pc = IF ~due THEN "next"
                              ELSE IF Historical(View(a, r)) /\ r \notin Available(a)
                                   THEN "observe" ELSE "inventory"]
    /\ Rest /\ NoFault /\ UNCHANGED <<journal, changed>>

(* Historical absence, read again; a visible identity is reconciled.       *)
Observe(a) ==
    LET r == sweep[a].role
    IN  /\ sweep[a].pc = "observe"
        /\ \/ Fails(a)
           \/ NoFault /\ Listed(r) /\ Goto(a, "inventory")
           \/ NoFault /\ ~Listed(r)
              /\ Result(a, IF stranger[r] = "there" THEN "unresolved" ELSE "verified")
        /\ Rest /\ UNCHANGED <<journal, changed>>

(* A pre-creation abort that anything contradicts forbids closure, not     *)
(* revocation.                                                             *)
AbortConflict(a, r, v) ==
    v.created \/ Listed(r) \/ r \in Available(a) \/ v.markers > 0

(* A candidate must be the intent's own by name, time, scope and identity. *)
Candidates(r) ==
    (IF Listed(r) THEN {"own"} ELSE {}) \cup (IF stranger[r] = "there" THEN {"stranger"} ELSE {})

Owned(c) == c = "own"

Unambiguous(r) ==
    Cardinality(Candidates(r)) =< 1 /\ \A c \in Candidates(r) : Owned(c)

Uncertain(v) == "creation-uncertain"

Inventory(a) ==
    LET r == sweep[a].role
        v == sweep[a].seen
    IN  /\ sweep[a].pc = "inventory"
        /\ \/ Fails(a) /\ UNCHANGED journal
           \/ /\ ~Unambiguous(r) /\ NoFault /\ Result(a, "unresolved") /\ UNCHANGED journal
           \/ /\ Unambiguous(r) /\ v.abort /\ ~AbortConflict(a, r, v) /\ NoFault
              /\ Record(r, [journal[r] EXCEPT !.abort = TRUE, !.prior = "aborted",
                                              !.proofs = @ \cup {"aborted"}])
              /\ Result(a, "verified")
           \/ /\ Unambiguous(r) /\ (v.abort => AbortConflict(a, r, v))
              /\ Candidates(r) # {} \/ v.created
              /\ NoFault
              /\ Record(r, [journal[r] EXCEPT !.created = TRUE])
              /\ sweep' = [sweep EXCEPT
                    ![a].seen.created = TRUE, ![a].batch = Candidates(r),
                    ![a].pc = IF Candidates(r) # {} THEN "delete" ELSE "confirm"]
           \/ /\ Unambiguous(r) /\ (v.abort => AbortConflict(a, r, v))
              /\ Candidates(r) = {} /\ ~v.created
              /\ NoFault /\ Result(a, Uncertain(v)) /\ UNCHANGED journal
        /\ Rest /\ Watch

(* DELETE of the exact identity, inspected again just before.              *)
DeleteExact(r, c) ==
    \/ c = "own" /\ Listed(r) /\ UNCHANGED stranger
       /\ \E left \in {"lingering", "gone"} : cred' = [cred EXCEPT ![r] = left]
    \/ c = "own" /\ ~Listed(r) /\ UNCHANGED <<cred, stranger>>
    \/ c = "stranger" /\ UNCHANGED cred /\ stranger' = [stranger EXCEPT ![r] = "deleted"]

Delete(a) ==
    LET r == sweep[a].role
    IN  /\ sweep[a].pc = "delete"
        /\ \E c \in sweep[a].batch :
            \/ NoFault /\ DeleteExact(r, c)
               /\ sweep' = [sweep EXCEPT ![a].pc = "confirm", ![a].batch = {}]
            \/ /\ Fault
               /\ DeleteExact(r, c) \/ UNCHANGED <<cred, stranger>>
               /\ sweep' = [sweep EXCEPT ![a].pc = "next", ![a].role = Controller,
                                         ![a].seen = NoRecords, ![a].batch = {},
                                         ![a].results[r] = "unresolved"]
        /\ UNCHANGED <<creation, journal, accepts, due, changed, clear, admitted>>

(* Absence by identity and by a complete inventory, then what is left of   *)
(* the authentication obligation.                                          *)
StillVisible(r) == Listed(r) \/ stranger[r] = "there"

Confirm(a) ==
    LET r == sweep[a].role
        v == sweep[a].seen
        withSecret == r \in Available(a)
    IN  /\ sweep[a].pc = "confirm"
        /\ \/ Fails(a)
           \/ /\ NoFault
              /\ IF StillVisible(r) \/ (~withSecret /\ PendingAuthentication(v))
                 THEN Result(a, "unresolved")
                 ELSE IF withSecret /\ ~PendingAuthentication(v) /\ ~v.abort /\ v.prior = "denied"
                 THEN Result(a, "verified")
                 ELSE Goto(a, IF withSecret THEN "mark" ELSE "prove")
        /\ Rest /\ UNCHANGED <<journal, changed>>

(* A marker outlives this actor: nobody may leave the probe out later.  An *)
(* outstanding marker is reused.                                           *)
Mark(a) ==
    LET r == sweep[a].role
        v == sweep[a].seen
        marks == IF PendingAuthentication(v) THEN v.markers ELSE v.markers + 1
    IN  /\ sweep[a].pc = "mark"
        /\ \/ Fails(a) /\ UNCHANGED journal
           \/ /\ NoFault
              /\ Record(r, Merge([v EXCEPT !.markers = marks], journal[r]))
              /\ sweep' = [sweep EXCEPT ![a].seen.markers = marks, ![a].pc = "probe"]
        /\ Rest /\ Watch

(* client.denied: an explicit rejection, never a failed connection.        *)
Denied(r) == ~accepts[r]

Probe(a) ==
    LET r == sweep[a].role
    IN  /\ sweep[a].pc = "probe"
        /\ \/ Fails(a)
           \/ NoFault /\ (IF Denied(r) THEN Goto(a, "prove") ELSE Result(a, "unresolved"))
        /\ Rest /\ UNCHANGED <<journal, changed>>

(* A denied proof names the markers it covers; a proof without the secret  *)
(* covers none.                                                            *)
Covers(withSecret, v, j) ==
    IF withSecret /\ v.markers > j.covered THEN v.markers ELSE j.covered

Prove(a) ==
    LET r == sweep[a].role
        v == sweep[a].seen
        withSecret == r \in Available(a)
        auth == IF withSecret THEN "denied" ELSE "unavailable"
        fresh == withSecret \/ v.prior \in {"none", "aborted"}
        proven == [journal[r] EXCEPT !.covered = Covers(withSecret, v, journal[r]),
                                     !.proofs = @ \cup {auth}, !.prior = auth]
    IN  /\ sweep[a].pc = "prove"
        /\ IF v.abort
           THEN NoFault /\ Result(a, "unresolved") /\ UNCHANGED journal
           ELSE \/ NoFault /\ Result(a, "verified")
                   /\ journal' = IF fresh THEN [journal EXCEPT ![r] = proven] ELSE journal
                \/ Fails(a)
                   /\ journal' \in {journal, IF fresh THEN [journal EXCEPT ![r] = proven]
                                             ELSE journal}
        /\ Rest /\ Watch

(* _current_result: a later reading of the journal may withdraw a result,  *)
(* and an intent that nobody looked at is unresolved.                      *)
CurrentResult(a, r) ==
    LET v == View(a, r)
        status == sweep[a].results[r]
    IN  CASE ~v.intent -> "none"
          [] v.intent /\ status = "not-due" /\ ~due -> "not-due"
          [] v.intent /\ status = "verified" /\ ~PendingAuthentication(v)
                /\ ValidResolution(v) -> "verified"
          [] v.intent /\ status = "creation-uncertain" -> status
          [] OTHER -> "unresolved"

AllVerified(results) ==
    \A r \in Roles : results[r] \in {"none", "verified"}

(* One frontier of intents that appeared meanwhile is reconciled too.  A   *)
(* complete sweep whose journal did not change leaves a clearance; the     *)
(* sweep that require_clear made itself admits at once.                    *)
FinishSweep(a) ==
    LET missed == {r \in Roles : View(a, r).intent /\ sweep[a].results[r] = "none"}
        final == [r \in Roles |-> CurrentResult(a, r)]
    IN  /\ sweep[a].pc = "next" /\ sweep[a].todo = {}
        /\ IF missed # {} /\ sweep[a].more
           THEN /\ sweep' = [sweep EXCEPT ![a].todo = missed, ![a].more = FALSE]
                /\ UNCHANGED <<clear, admitted>>
           ELSE /\ sweep' = [sweep EXCEPT ![a].pc = "done", ![a].more = TRUE,
                                          ![a].results = final]
                /\ clear' = IF ~changed[a] /\ AllVerified(final) THEN clear \cup {a} ELSE clear
                /\ admitted' \in {admitted, admitted \/ AllVerified(final)}
        /\ UNCHANGED <<creation, provider, journal, due, changed, faults>>

(* require_clear: a clearance is used once, while its basis is unchanged.  *)
BasisUnchanged(a) == ~changed[a]

RequireClear(a) ==
    /\ ~admitted /\ a \in clear
    /\ clear' = clear \ {a}
    /\ BasisUnchanged(a)
    /\ admitted' = TRUE
    /\ UNCHANGED <<creation, provider, journal, due, sweep, changed, faults>>

(* A process dies; the controller's files survive.                         *)
Die(a) ==
    /\ Fault
    /\ sweep[a].pc # "idle" \/ (a = Controller /\ \E r \in Roles : attempt[r] \notin {"idle", "done", "failed"})
    /\ sweep' = [sweep EXCEPT ![a] = Idle]
    /\ clear' = clear \ {a}
    /\ attempt' = IF a # Controller THEN attempt
                  ELSE [r \in Roles |-> IF attempt[r] \in {"idle", "done"} THEN attempt[r] ELSE "failed"]
    /\ UNCHANGED <<staged, secret, journal, provider, due, changed, admitted>>

Reconcile(a) ==
    \/ BatchDetails(a) \/ BatchInventory(a) \/ (\E r \in Roles : Begin(a, r)) \/ Observe(a)
    \/ Inventory(a) \/ Delete(a) \/ Confirm(a) \/ Mark(a) \/ Probe(a) \/ Prove(a)
    \/ FinishSweep(a)

Next ==
    \/ \E r \in Roles : Provision(r) \/ Commit(r) \/ Settle(r) \/ Squat(r)
    \/ Revoke
    \/ \E a \in Actors : StartSweep(a) \/ Reconcile(a) \/ RequireClear(a) \/ Die(a)

Spec == Init /\ [][Next]_vars

(* The actors sweep again and again, the deadline comes, and the provider  *)
(* carries out what it was asked.                                          *)
Liveness ==
    /\ WF_vars(Revoke)
    /\ \A r \in Roles : WF_vars(Commit(r) \/ Settle(r))
    /\ \A a \in Actors : WF_vars(StartSweep(a)) /\ WF_vars(Reconcile(a))

FairSpec == Spec /\ Liveness

----------------------------------------------------------------------------

(* The state keeps its shape.                                              *)
TypeOK ==
    /\ \A r \in Roles :
        /\ attempt[r] \in {"idle", "intent", "create", "aborting", "submitted", "responded",
                           "done", "failed"}
        /\ cred[r] \in {"none", "inflight", "refused", "live", "lingering", "gone"}
        /\ journal[r].covered =< journal[r].markers
        /\ journal[r].proofs \subseteq {"aborted", "unavailable", "denied"}
    /\ \A a \in Actors : \A r \in Roles : sweep[a].results[r] \in
            {"none", "not-due", "creation-uncertain", "unresolved", "verified"}
    /\ secret \subseteq Roles /\ clear \subseteq Actors

(* The provider is asked for one credential for each role: no failure, no  *)
(* lost answer and no restart makes the controller ask again.              *)
NeverRecreated ==
    \A r \in Roles : (cred[r]' = "inflight" /\ cred[r] # "inflight") => cred[r] = "none"

(* A new qualification is admitted only when no credential of a journaled  *)
(* intent exists or can still come into being, and no secret that a        *)
(* published marker demands to probe is still accepted.                    *)
AdmittedWhenClear ==
    admitted' # admitted =>
     \A r \in Roles : journal[r].intent =>
         /\ ~Listed(r) /\ cred[r] # "inflight"
         /\ journal[r].markers > 0 => ~accepts[r]

(* A marker is discharged only by a probe that was rejected: whatever      *)
(* another actor resolves from a stale reading, the journal never says     *)
(* that the secret is dead while the provider accepts it.                  *)
MarkersHold ==
    \A r \in Roles : journal[r].covered > 0 => ~accepts[r]

(* A resolution in the journal stands: once an obligation is resolved      *)
(* there, its credential is not listed and never will be.                  *)
ResolvedIsGone ==
    \A r \in Roles : journal[r].proofs # {} => ~Listed(r) /\ cred[r] # "inflight"

(* An abort never hides a credential: with the attestation in the journal  *)
(* the provider was not asked.                                             *)
AbortIsTrue ==
    \A r \in Roles : (journal[r].abort \/ staged[r].abort) => cred[r] = "none"

(* A credential that someone else made under the same name is never        *)
(* deleted.                                                                *)
StrangersLeftAlone == \A r \in Roles : stranger[r] # "deleted"

(* Every credential whose identity is known is deleted once the run is due. *)
KnownAreDeleted ==
    \A r \in Roles : due /\ journal[r].created => cred[r] = "gone"

(* Everything known is resolved, and with the retained secret probed.      *)
KnownAreResolved ==
    \A r \in Roles : due /\ journal[r].created =>
        ValidResolution(journal[r]) /\ ~PendingAuthentication(journal[r])
=============================================================================
