--------------------------- MODULE ArchiveHelper ---------------------------
(***************************************************************************)
(* A restoring host asks a helper with its own credentials for the proof   *)
(* of its archives (host_restore_ipc.py, host_restore_archive_helper.py).  *)
(*                                                                         *)
(* The coordinator listens on one socket path, has systemd start a oneshot *)
(* unit, sends one request together with its lease descriptors, and waits  *)
(* for the reply and for the end of the start job.  The lease is a flock   *)
(* of an open file description: it is held while the coordinator, a queued *)
(* message or a helper has a descriptor of it.  Coordinators and helpers   *)
(* may be killed anywhere, and a killed coordinator's start command lives  *)
(* on.                                                                     *)
(***************************************************************************)
EXTENDS Naturals, Sequences, FiniteSets, TLAPS

CONSTANTS
    None,
    MaxFaults   \* bound on kills and missed deadlines


Units == {"private", "installed"}
Nonces == 1..3              \* reused once neither side knows them any more
Phases == <<"validated", "installed", "complete">>

\* The proofs the coordinator collects in a phase, in their order.
Wanted(phase) ==
    IF Phases[phase] = "validated" THEN <<"verify", "cleanup">>
    ELSE IF Phases[phase] = "installed" THEN <<"verify-installed">> ELSE <<>>

Unit(action) == IF action = "verify-installed" THEN "installed" ELSE "private"

VARIABLES
    journal,   \* the journal record: the index of its phase
    proven,    \* how many proofs of this phase the coordinator accepted
    pc,        \* the coordinator
    request,   \* [nonce, action, journal] it sent, or None
    reply,     \* [nonce, evidence] in its queue, or None
    path,      \* the socket path: "none", "stale" or "live"
    child,     \* its systemctl start: "none", "pending", "joined", "ok", "failed"
    orphans,   \* units that start commands of killed coordinators still ask for
    helper,    \* each unit's process: [pc, link, req]
    made,      \* evidence helpers made: [action, journal]
    faults

vars == <<journal, proven, pc, request, reply, path, child, orphans, helper, made, faults>>

Request == [nonce : Nonces, action : {"verify", "cleanup", "verify-installed"},
            journal : DOMAIN Phases]

ArchiveHelperAssumption == MaxFaults \in Nat /\ None \notin Request

NoHelper == [pc |-> "none", link |-> "none", req |-> None]

\* Variables have their types.
TypeOK ==
    /\ journal \in DOMAIN Phases /\ proven \in 0..Len(Wanted(journal))
    /\ pc \in {"idle", "held", "listening", "accepting", "sent", "waiting"}
    /\ request \in Request \cup {None}
    /\ path \in {"none", "stale", "live"}
    /\ child \in {"none", "pending", "joined", "ok", "failed"}
    /\ orphans \subseteq Units
    /\ helper \in [Units -> [pc : {"none", "starting", "connected", "bound", "worked", "replied"},
                             link : {"none", "backlog", "open", "closed"},
                             req : Request \cup {None}]]
    /\ faults \in 0..MaxFaults

Init ==
    /\ journal = 1 /\ proven = 0 /\ pc = "idle" /\ request = None /\ reply = None
    /\ path = "none" /\ child = "none" /\ orphans = {} /\ made = {} /\ faults = 0
    /\ helper = [u \in Units |-> NoHelper]

\* Mutant of HoldsLease: the descriptors stay with the coordinator.
MutantHoldsLease(u) == FALSE

\* The helper's queue or its descriptor table has the coordinator's lease.
HoldsLease(u) == helper[u].req # None

Held == pc # "idle" \/ \E u \in Units : HoldsLease(u)

NoncesInUse == {helper[u].req.nonce : u \in {v \in Units : helper[v].req # None}}

---------------------------------------------------------------------------
(* The coordinator. *)

\* A new coordinator takes the lease without waiting; a held one refuses it.
Acquire ==
    /\ pc = "idle" /\ ~Held /\ journal < Len(Phases)
    /\ pc' = "held"
    /\ UNCHANGED <<journal, proven, request, reply, path, child, orphans, helper, made, faults>>

\* The journal advances once every proof of the phase was accepted.
Advance ==
    /\ pc = "held" /\ proven = Len(Wanted(journal)) /\ journal < Len(Phases)
    /\ journal' = journal + 1 /\ proven' = 0
    /\ pc' = IF journal' = Len(Phases) THEN "idle" ELSE pc
    /\ UNCHANGED <<request, reply, path, child, orphans, helper, made, faults>>

\* The request names the journal it was made for; a stale socket is unlinked.
Listen ==
    /\ pc = "held" /\ proven < Len(Wanted(journal))
    /\ request' = [nonce |-> CHOOSE n \in Nonces : n \notin NoncesInUse,
                   action |-> Wanted(journal)[proven + 1], journal |-> journal]
    /\ path' = "live" /\ pc' = "listening"
    /\ UNCHANGED <<journal, proven, reply, child, orphans, helper, made, faults>>

StartService ==
    /\ pc = "listening"
    /\ child' = "pending" /\ pc' = "accepting"
    /\ UNCHANGED <<journal, proven, request, reply, path, orphans, helper, made, faults>>

Waiting == {u \in Units : helper[u].link = "backlog"}

\* accept and send_message: the descriptors travel with the request.
Send ==
    /\ pc = "accepting"
    /\ \E u \in Waiting :
         /\ pc' = "sent"
         /\ helper' = [helper EXCEPT ![u].link = "open", ![u].req = request]
    /\ UNCHANGED <<journal, proven, request, reply, path, child, orphans, made, faults>>

ReceiveReply ==
    /\ pc = "sent" /\ reply # None
    /\ pc' = "waiting"
    /\ UNCHANGED <<journal, proven, request, reply, path, child, orphans, helper, made, faults>>

Closed(h) == [u \in Units |-> IF h[u].link \in {"backlog", "open"}
                              THEN [h[u] EXCEPT !.link = "closed"] ELSE h[u]]

\* Reply and journal are checked when listener and start job have ended.
Finish ==
    /\ pc = "waiting" /\ child = "ok"
    /\ reply.nonce = request.nonce /\ journal = request.journal
    /\ proven' = proven + 1 /\ pc' = "held"
    /\ request' = None /\ reply' = None /\ path' = "none" /\ child' = "none"
    /\ helper' = Closed(helper)
    /\ UNCHANGED <<journal, orphans, made, faults>>

\* What leaves the coordinator without a proof, whatever the clock says.
Hopeless ==
    \/ pc = "accepting" /\ Waiting = {} /\ child \in {"ok", "failed"}
    \/ pc = "sent" /\ reply = None /\ \A u \in Units : helper[u].link # "open"
    \/ pc = "waiting" /\ child = "failed"
    \/ pc = "waiting" /\ child = "joined" /\ helper[Unit(request.action)].link = "backlog"

Leave(left) ==
    /\ pc' = "idle" /\ request' = None /\ reply' = None /\ child' = "none"
    /\ helper' = Closed(helper) /\ path' = left
    /\ UNCHANGED <<journal, proven, made>>

\* An error or a deadline ends the coordinator, which kills its systemctl.
Fail ==
    /\ Hopeless
    /\ Leave("none")
    /\ UNCHANGED <<orphans, faults>>

MissDeadline ==
    /\ pc \in {"accepting", "sent", "waiting"} /\ faults < MaxFaults
    /\ faults' = faults + 1
    /\ Leave("none")
    /\ UNCHANGED orphans

KillCoordinator ==
    /\ pc # "idle" /\ faults < MaxFaults
    /\ faults' = faults + 1
    /\ orphans' = orphans \cup IF child = "pending" THEN {Unit(request.action)} ELSE {}
    /\ Leave(IF path = "live" THEN "stale" ELSE path)

---------------------------------------------------------------------------
(* systemd. *)

Started(u) == IF helper[u].pc = "none"
              THEN [helper EXCEPT ![u] = [pc |-> "starting", link |-> "none", req |-> None]]
              ELSE helper

\* A start request joins the job of a unit that is still activating.
Deliver ==
    /\ child = "pending"
    /\ child' = "joined" /\ helper' = Started(Unit(request.action))
    /\ UNCHANGED <<journal, proven, pc, request, reply, path, orphans, made, faults>>

DeliverOrphan(u) ==
    /\ u \in orphans
    /\ orphans' = orphans \ {u} /\ helper' = Started(u)
    /\ UNCHANGED <<journal, proven, pc, request, reply, path, child, made, faults>>

\* The process is gone; the start job that waited for it ends.
Ended(u, status) ==
    /\ helper' = [helper EXCEPT ![u] = NoHelper]
    /\ child' = IF child = "joined" /\ Unit(request.action) = u THEN status ELSE child

---------------------------------------------------------------------------
(* The helper of a unit. *)

Connect(u) ==
    /\ helper[u].pc = "starting" /\ path = "live"
    /\ helper' = [helper EXCEPT ![u] = [pc |-> "connected", link |-> "backlog", req |-> None]]
    /\ UNCHANGED <<journal, proven, pc, request, reply, path, child, orphans, made, faults>>

\* Nobody listens, or the listener went before it sent a request.
Refused(u) ==
    /\ \/ helper[u].pc = "starting" /\ path # "live"
       \/ helper[u].pc = "connected" /\ helper[u].link = "closed" /\ helper[u].req = None
    /\ Ended(u, "failed")
    /\ UNCHANGED <<journal, proven, pc, request, reply, path, orphans, made, faults>>

\* require_request: the action is this unit's, the journal is the request's.
RequireRequest(u) ==
    /\ Unit(helper[u].req.action) = u
    /\ helper[u].req.journal = journal

\* A message that is not for this helper ends it; so does a second look
\* after the work that finds another journal.
Bind(u) ==
    /\ helper[u].pc = "connected" /\ helper[u].req # None
    /\ IF RequireRequest(u)
       THEN helper' = [helper EXCEPT ![u].pc = "bound"] /\ UNCHANGED child
       ELSE Ended(u, "failed")
    /\ UNCHANGED <<journal, proven, pc, request, reply, path, orphans, made, faults>>

\* helper_evidence: verify, or finish the remote intents and verify.
HelperEvidence(u) ==
    /\ helper[u].pc = "bound"
    /\ helper' = [helper EXCEPT ![u].pc = "worked"]
    /\ made' = made \cup {[action |-> helper[u].req.action, journal |-> journal]}
    /\ UNCHANGED <<journal, proven, pc, request, reply, path, child, orphans, faults>>

\* The reply precedes the helper's exit; nobody may be there to read it.
Reply(u) ==
    /\ helper[u].pc = "worked"
    /\ IF RequireRequest(u) /\ helper[u].link = "open"
       THEN /\ reply' = [nonce |-> helper[u].req.nonce,
                         evidence |-> [action |-> helper[u].req.action, journal |-> journal]]
            /\ helper' = [helper EXCEPT ![u].pc = "replied"]
            /\ UNCHANGED child
       ELSE Ended(u, "failed") /\ UNCHANGED reply
    /\ UNCHANGED <<journal, proven, pc, request, path, orphans, made, faults>>

Exit(u) ==
    /\ helper[u].pc = "replied"
    /\ Ended(u, "ok")
    /\ UNCHANGED <<journal, proven, pc, request, reply, path, orphans, made, faults>>

KillHelper(u) ==
    /\ helper[u].pc # "none" /\ faults < MaxFaults
    /\ faults' = faults + 1
    /\ Ended(u, "failed")
    /\ UNCHANGED <<journal, proven, pc, request, reply, path, orphans, made>>

\* The restore is over and every process of it has ended.
Over ==
    /\ journal = Len(Phases) /\ \A u \in Units : helper[u].pc = "none"
    /\ orphans = {}
    /\ UNCHANGED vars

Coordinator == Acquire \/ Advance \/ Listen \/ StartService \/ Send \/ ReceiveReply
               \/ Finish \/ Fail

HelperStep(u) == Connect(u) \/ Refused(u) \/ Bind(u) \/ HelperEvidence(u) \/ Reply(u) \/ Exit(u)

Next ==
    \/ Coordinator \/ MissDeadline \/ KillCoordinator \/ Deliver
    \/ \E u \in Units : DeliverOrphan(u) \/ HelperStep(u) \/ KillHelper(u)
    \/ Over

Spec == Init /\ [][Next]_vars

Fairness ==
    /\ WF_vars(Coordinator) /\ WF_vars(Deliver)
    /\ \A u \in Units : WF_vars(DeliverOrphan(u)) /\ WF_vars(HelperStep(u))

FairSpec == Spec /\ Fairness

---------------------------------------------------------------------------
(* Properties. *)

Working(u) == helper[u].pc \in {"bound", "worked", "replied"}

\* A helper works only while the journal is the one its request names, on
\* an action of its own unit, alone, and the only coordinator that can be
\* running is the one that asked: kills, orphaned start commands and helpers
\* of another phase never let two restores touch the archives at once
\* (host_restore_ipc.py: "continuously held leases").
WorkUnderLease ==
    \A u \in Units : Working(u) =>
        /\ helper[u].req.journal = journal /\ Unit(helper[u].req.action) = u
        /\ \A v \in Units \ {u} : ~Working(v)
        /\ pc # "idle" => /\ pc \in {"sent", "waiting"}
                          /\ request.nonce = helper[u].req.nonce

\* Every proof the coordinator counted was made by a helper for the action
\* and the journal it stands for (request_archive's last comparison).
ProofsAreMade ==
    \A n \in 1..proven : [action |-> Wanted(journal)[n], journal |-> journal] \in made

\* When a request has ended well its helper has exited, so that the next
\* start cannot join the old job (_archive_service's comment): a coordinator
\* that starts a request never meets a helper that served the previous one.
JobsDoNotCoalesce ==
    pc \in {"held", "listening"} => \A u \in Units : helper[u].req = None

\* After the last kill the restore collects all its proofs: leftover helpers
\* and start commands can spoil requests, but only finitely many.
RestoreCompletes == journal = Len(Phases)

\* A lease left to a helper comes free without anyone's help.
LeaseComesFree == pc = "idle" => ~Held

---------------------------------------------------------------------------
(***************************************************************************)
(* Proofs, for any number of kills and missed deadlines.                   *)
(*                                                                         *)
(* The properties are about processes that outlive each other, so the      *)
(* invariant says what the lease carries across their ends: at most one    *)
(* helper has a request (RequestsInv), it is the running coordinator's if  *)
(* there is one, its journal is still the journal (HelperInv), and a reply *)
(* or a start job that ended well is the answer to this very request       *)
(* (CoordinatorInv).                                                       *)
(***************************************************************************)

HelperInv(u) ==
    /\ helper[u].pc \in {"none", "starting"} => helper[u].req = None /\ helper[u].link = "none"
    /\ helper[u].link = "backlog" => helper[u].req = None /\ helper[u].pc = "connected"
    /\ helper[u].link = "open" => pc \in {"sent", "waiting"}
    /\ helper[u].req # None =>
        /\ helper[u].req.journal = journal /\ child # "ok"
        /\ pc \in {"idle", "sent", "waiting"}
        /\ pc # "idle" => helper[u].req = request
        /\ reply # None => helper[u].pc = "replied"
    /\ Working(u) => helper[u].req # None /\ Unit(helper[u].req.action) = u
    /\ helper[u].pc \in {"worked", "replied"} =>
        [action |-> helper[u].req.action, journal |-> journal] \in made

RequestsInv ==
    /\ \A u \in Units : HelperInv(u)
    /\ \A u, v \in Units : helper[u].req # None /\ helper[v].req # None => u = v

CoordinatorInv ==
    /\ pc \in {"idle", "held"} => request = None
    /\ pc \in {"idle", "held", "listening"} => child = "none"
    /\ pc \in {"idle", "held", "listening", "accepting"} => reply = None
    /\ pc = "accepting" => child # "ok"
    /\ pc \notin {"idle", "held"} =>
        /\ request # None /\ request.journal = journal
        /\ proven < Len(Wanted(journal)) /\ request.action = Wanted(journal)[proven + 1]
    /\ reply # None => [action |-> request.action, journal |-> journal] \in made
    /\ pc = "waiting" => reply # None

ArchiveInv == TypeOK /\ RequestsInv /\ CoordinatorInv /\ ProofsAreMade

\* The proofs a phase wants are actions of the helpers.
LEMMA WantedFacts ==
    ASSUME NEW j \in DOMAIN Phases
    PROVE  /\ j \in {1, 2, 3} /\ Len(Phases) = 3 /\ Len(Wanted(j)) \in Nat
           /\ \A n \in 1..Len(Wanted(j)) :
                Wanted(j)[n] \in {"verify", "cleanup", "verify-installed"}
<1>1. j \in {1, 2, 3} /\ Len(Phases) = 3
  BY DEF Phases
<1>2. CASE j = 1
  BY <1>1, <1>2 DEF Wanted, Phases
<1>3. CASE j = 2
  BY <1>1, <1>3 DEF Wanted, Phases
<1>4. CASE j = 3
  BY <1>1, <1>4 DEF Wanted, Phases
<1> QED
  BY <1>1, <1>2, <1>3, <1>4

\* A helper that a step leaves alone keeps what is known of it.
LEMMA HelperKept ==
    ASSUME NEW u \in Units, HelperInv(u),
           helper'[u] = helper[u], made \subseteq made',
           helper[u].req # None \/ helper[u].link = "open" \/ Working(u) =>
               UNCHANGED <<pc, journal, request>> /\ (child' # "ok" \/ child' = child)
               /\ (reply' = None \/ reply' = reply)
    PROVE  HelperInv(u)'
BY DEF HelperInv, Working

\* The coordinator's steps before it has sent its request: nobody has one.
LEMMA PrepareKeeps ==
    ASSUME ArchiveHelperAssumption, ArchiveInv, Acquire \/ Advance \/ Listen \/ StartService
    PROVE  ArchiveInv'
<1>1. TypeOK /\ RequestsInv /\ CoordinatorInv /\ ProofsAreMade /\ UNCHANGED <<helper, made, reply, orphans, faults>>
  BY DEF ArchiveInv, Acquire, Advance, Listen, StartService
<1>2. ASSUME NEW u \in Units
      PROVE  helper[u].req = None /\ helper[u].link # "open" /\ ~Working(u)
  <2>1. HelperInv(u) /\ pc \in {"idle", "held", "listening"}
    BY <1>1 DEF RequestsInv, Acquire, Advance, Listen, StartService
  <2>2. helper[u].req = None
    BY <2>1 DEF HelperInv, Acquire, Advance, Listen, StartService, Held, HoldsLease
  <2> QED
    BY <2>1, <2>2 DEF HelperInv
<1>3. RequestsInv'
  <2>1. ASSUME NEW u \in Units PROVE HelperInv(u)'
    BY <1>1, <1>2, HelperKept DEF RequestsInv
  <2> QED
    BY <1>1, <1>2, <2>1 DEF RequestsInv
<1>4. journal \in DOMAIN Phases /\ proven \in 0..Len(Wanted(journal))
  BY <1>1 DEF TypeOK
<1>5. /\ journal \in {1, 2, 3} /\ Len(Phases) = 3 /\ Len(Wanted(journal)) \in Nat
      /\ \A n \in 1..Len(Wanted(journal)) : Wanted(journal)[n] \in {"verify", "cleanup", "verify-installed"}
  BY <1>4, WantedFacts
<1>6. CASE Acquire
  BY <1>1, <1>3, <1>6 DEF ArchiveInv, Acquire, TypeOK, CoordinatorInv, ProofsAreMade
<1>7. CASE Advance
  <2>1. journal' \in DOMAIN Phases /\ journal' \in {2, 3} /\ proven' = 0
    BY <1>5, <1>7 DEF Advance, Phases
  <2>2. Len(Wanted(journal')) \in Nat
    BY <2>1, WantedFacts
  <2>3. TypeOK'
    BY <1>1, <1>7, <2>1, <2>2 DEF TypeOK, Advance
  <2>4. CoordinatorInv'
    BY <1>1, <1>7 DEF CoordinatorInv, Advance
  <2>5. ProofsAreMade'
    BY <2>1 DEF ProofsAreMade
  <2> QED
    BY <1>3, <2>3, <2>4, <2>5 DEF ArchiveInv
<1>8. CASE Listen
  <2> DEFINE fresh == CHOOSE n \in Nonces : n \notin NoncesInUse
  <2>1. NoncesInUse = {}
    BY <1>2 DEF NoncesInUse
  <2>2. fresh \in Nonces
    BY <2>1 DEF Nonces
  <2>3. proven + 1 \in 1..Len(Wanted(journal)) /\ proven < Len(Wanted(journal))
    BY <1>4, <1>5, <1>8 DEF Listen
  <2>4. request' = [nonce |-> fresh, action |-> Wanted(journal)[proven + 1], journal |-> journal]
    BY <1>8 DEF Listen
  <2> HIDE DEF fresh
  <2>5. request' \in Request
    BY <1>4, <1>5, <2>2, <2>3, <2>4 DEF Request
  <2>6. UNCHANGED <<journal, proven, child>> /\ pc = "held" /\ pc' = "listening" /\ path' = "live"
    BY <1>8 DEF Listen
  <2>7. TypeOK'
    BY <1>1, <2>5, <2>6 DEF TypeOK
  <2>8. CoordinatorInv'
    BY <1>1, <2>3, <2>4, <2>5, <2>6 DEF CoordinatorInv, ArchiveHelperAssumption
  <2> QED
    BY <1>1, <1>3, <2>6, <2>7, <2>8 DEF ArchiveInv, ProofsAreMade
<1>9. CASE StartService
  BY <1>1, <1>3, <1>9 DEF ArchiveInv, StartService, TypeOK, CoordinatorInv, ProofsAreMade
<1> QED
  BY <1>6, <1>7, <1>8, <1>9

LEMMA SendKeeps ==
    ASSUME ArchiveHelperAssumption, ArchiveInv, Send
    PROVE  ArchiveInv'
<1>1. /\ TypeOK /\ RequestsInv /\ CoordinatorInv /\ ProofsAreMade /\ pc = "accepting" /\ pc' = "sent"
      /\ UNCHANGED <<journal, proven, request, reply, path, child, orphans, made, faults>>
  BY DEF ArchiveInv, Send
<1>2. PICK w \in Waiting : helper' = [helper EXCEPT ![w].link = "open", ![w].req = request]
  BY DEF Send
<1>3. /\ w \in Units /\ helper[w].link = "backlog" /\ helper[w].req = None
      /\ helper[w].pc = "connected" /\ request \in Request /\ reply = None /\ child # "ok"
  BY <1>1, <1>2 DEF Waiting, RequestsInv, HelperInv, CoordinatorInv, TypeOK
<1>4. /\ helper'[w] = [pc |-> "connected", link |-> "open", req |-> request]
      /\ \A u \in Units \ {w} : helper'[u] = helper[u]
  BY <1>1, <1>2, <1>3 DEF TypeOK
<1>5. \A u \in Units : helper[u].req = None /\ helper[u].link # "open" /\ ~Working(u)
  BY <1>1 DEF RequestsInv, HelperInv
<1>6. HelperInv(w)'
  BY <1>1, <1>3, <1>4 DEF HelperInv, Working, CoordinatorInv
<1>7. ASSUME NEW u \in Units \ {w} PROVE HelperInv(u)'
  BY <1>1, <1>4, <1>5, HelperKept DEF RequestsInv
<1>8. RequestsInv'
  BY <1>4, <1>5, <1>6, <1>7 DEF RequestsInv
<1>9. TypeOK'
  <2>1. helper' \in [Units -> [pc : {"none", "starting", "connected", "bound", "worked", "replied"},
                               link : {"none", "backlog", "open", "closed"}, req : Request \cup {None}]]
    BY <1>1, <1>2, <1>3 DEF TypeOK
  <2> QED
    BY <1>1, <2>1 DEF TypeOK
<1>10. CoordinatorInv'
  BY <1>1, <1>3 DEF CoordinatorInv
<1> QED
  BY <1>1, <1>8, <1>9, <1>10 DEF ArchiveInv, ProofsAreMade

LEMMA ReceiveKeeps ==
    ASSUME ArchiveInv, ReceiveReply
    PROVE  ArchiveInv'
<1>1. /\ TypeOK /\ RequestsInv /\ CoordinatorInv /\ ProofsAreMade
      /\ pc = "sent" /\ pc' = "waiting" /\ reply # None
      /\ UNCHANGED <<journal, proven, request, reply, path, child, orphans, helper, made, faults>>
  BY DEF ArchiveInv, ReceiveReply
<1>2. RequestsInv'
  BY <1>1 DEF RequestsInv, HelperInv, Working
<1>3. TypeOK' /\ CoordinatorInv'
  BY <1>1 DEF TypeOK, CoordinatorInv
<1> QED
  BY <1>1, <1>2, <1>3 DEF ArchiveInv, ProofsAreMade

\* Whoever leaves closes its connections; a helper that has a request keeps the
\* lease, and only the end of a successful job may go on to the next request.
LEMMA ClosingKeeps ==
    ASSUME ArchiveHelperAssumption, ArchiveInv,
           pc' \in {"idle", "held"}, request' = None, reply' = None, child' = "none",
           helper' = Closed(helper), path' \in {"none", "stale", "live"},
           UNCHANGED <<journal, made>>, orphans' \subseteq Units, faults' \in 0..MaxFaults,
           pc' = "held" => \A u \in Units : helper[u].req = None,
           proven' \in 0..Len(Wanted(journal)), ProofsAreMade'
    PROVE  ArchiveInv'
<1>1. TypeOK /\ RequestsInv
  BY DEF ArchiveInv
<1>2. ASSUME NEW u \in Units
      PROVE  /\ helper'[u] \in [pc : {"none", "starting", "connected", "bound", "worked", "replied"},
                                link : {"none", "backlog", "open", "closed"}, req : Request \cup {None}]
             /\ helper'[u].pc = helper[u].pc /\ helper'[u].req = helper[u].req
             /\ helper'[u].link = IF helper[u].link \in {"backlog", "open"} THEN "closed" ELSE helper[u].link
  BY <1>1 DEF TypeOK, Closed
<1>3. helper' = [u \in Units |-> helper'[u]]
  BY DEF Closed
<1>4. TypeOK'
  BY <1>1, <1>2, <1>3 DEF TypeOK
<1>5. ASSUME NEW u \in Units PROVE HelperInv(u)'
  BY <1>1, <1>2 DEF RequestsInv, HelperInv, Working
<1>6. RequestsInv'
  BY <1>1, <1>2, <1>5 DEF RequestsInv
<1>7. CoordinatorInv'
  BY DEF CoordinatorInv
<1> QED
  BY <1>4, <1>6, <1>7 DEF ArchiveInv

LEMMA FinishKeeps ==
    ASSUME ArchiveHelperAssumption, ArchiveInv, Finish
    PROVE  ArchiveInv'
<1>1. /\ TypeOK /\ RequestsInv /\ CoordinatorInv /\ ProofsAreMade
      /\ pc = "waiting" /\ child = "ok" /\ proven' = proven + 1
      /\ UNCHANGED <<journal, orphans, made, faults>>
  BY DEF ArchiveInv, Finish
<1>2. \A u \in Units : helper[u].req = None
  BY <1>1 DEF RequestsInv, HelperInv
<1>3. journal \in DOMAIN Phases /\ proven \in Nat /\ proven < Len(Wanted(journal)) /\ Len(Wanted(journal)) \in Nat
  BY <1>1, WantedFacts DEF TypeOK, CoordinatorInv
<1>4. [action |-> Wanted(journal)[proven + 1], journal |-> journal] \in made
  BY <1>1 DEF CoordinatorInv
<1>5. ProofsAreMade'
  <2>1. ASSUME NEW n \in 1..(proven + 1)
        PROVE  [action |-> Wanted(journal)[n], journal |-> journal] \in made
    <3>1. n = proven + 1 \/ n \in 1..proven
      BY <1>3
    <3> QED
      BY <1>1, <1>4, <3>1 DEF ProofsAreMade
  <2> QED
    BY <1>1, <2>1 DEF ProofsAreMade
<1>6. proven' \in 0..Len(Wanted(journal)) /\ orphans' \subseteq Units /\ faults' \in 0..MaxFaults
  BY <1>1, <1>3 DEF TypeOK
<1> QED
  BY <1>1, <1>2, <1>5, <1>6, ClosingKeeps DEF Finish

LEMMA LeavingKeeps ==
    ASSUME ArchiveHelperAssumption, ArchiveInv, Fail \/ MissDeadline \/ KillCoordinator
    PROVE  ArchiveInv'
<1>1. TypeOK /\ ProofsAreMade
  BY DEF ArchiveInv
<1>2. PICK left \in {"none", "stale", "live"} : Leave(left)
  BY <1>1 DEF Fail, MissDeadline, KillCoordinator, TypeOK
<1>3. faults' \in 0..MaxFaults
  BY <1>1 DEF TypeOK, ArchiveHelperAssumption, Fail, MissDeadline, KillCoordinator
<1>4. orphans' \subseteq Units
  BY <1>1 DEF TypeOK, Units, Unit, Fail, MissDeadline, KillCoordinator
<1>5. ProofsAreMade'
  BY <1>1, <1>2 DEF ProofsAreMade, Leave
<1>6. pc' # "held"
  BY <1>2 DEF Leave
<1>7. proven' \in 0..Len(Wanted(journal))
  BY <1>1, <1>2 DEF TypeOK, Leave
<1> QED
  BY <1>2, <1>3, <1>4, <1>5, <1>6, <1>7, ClosingKeeps DEF Leave

\* systemd starts a helper where none runs; it has no request.
LEMMA StartedKeeps ==
    ASSUME ArchiveHelperAssumption, ArchiveInv, NEW w \in Units, helper' = Started(w),
           UNCHANGED <<journal, proven, pc, request, reply, path, made, faults>>,
           orphans' \subseteq Units, child' = child \/ (child = "pending" /\ child' = "joined")
    PROVE  ArchiveInv'
<1>1. TypeOK /\ RequestsInv /\ CoordinatorInv /\ ProofsAreMade
  BY DEF ArchiveInv
<1>2. /\ helper' \in [Units -> [pc : {"none", "starting", "connected", "bound", "worked", "replied"},
                                link : {"none", "backlog", "open", "closed"}, req : Request \cup {None}]]
      /\ \A u \in Units \ {w} : helper'[u] = helper[u]
      /\ helper'[w] = helper[w] \/ helper'[w] = [pc |-> "starting", link |-> "none", req |-> None]
  BY <1>1 DEF TypeOK, Started
<1>3. TypeOK'
  BY <1>1, <1>2 DEF TypeOK
<1>4. CoordinatorInv'
  BY <1>1 DEF CoordinatorInv
<1>5. ASSUME NEW u \in Units, helper'[u] = helper[u] PROVE HelperInv(u)'
  BY <1>1, <1>5, HelperKept DEF RequestsInv
<1>6. HelperInv(w)'
  <2>1. CASE helper'[w] = [pc |-> "starting", link |-> "none", req |-> None]
    BY <2>1 DEF HelperInv, Working
  <2> QED
    BY <1>2, <1>5, <2>1
<1>7. RequestsInv'
  <2>1. \A u \in Units : HelperInv(u)'
    BY <1>2, <1>5, <1>6
  <2>2. \A u \in Units : helper'[u].req # None => helper[u].req # None
    BY <1>2
  <2> QED
    BY <1>1, <1>2, <2>1, <2>2 DEF RequestsInv
<1> QED
  BY <1>1, <1>3, <1>4, <1>7 DEF ArchiveInv, ProofsAreMade

\* A helper ends; only one that replied ends its start job well.
LEMMA EndedKeeps ==
    ASSUME ArchiveHelperAssumption, ArchiveInv, NEW w \in Units, NEW status \in {"ok", "failed"},
           Ended(w, status), status = "ok" => helper[w].req # None,
           UNCHANGED <<journal, proven, pc, request, reply, path, orphans, made>>,
           faults' \in 0..MaxFaults
    PROVE  ArchiveInv'
<1>1. TypeOK /\ RequestsInv /\ CoordinatorInv /\ ProofsAreMade
  BY DEF ArchiveInv
<1>2. /\ helper' \in [Units -> [pc : {"none", "starting", "connected", "bound", "worked", "replied"},
                                link : {"none", "backlog", "open", "closed"}, req : Request \cup {None}]]
      /\ \A u \in Units \ {w} : helper'[u] = helper[u]
      /\ helper'[w] = NoHelper
      /\ child' = child \/ (child = "joined" /\ child' = status)
  BY <1>1 DEF TypeOK, Ended, NoHelper
<1>3. TypeOK'
  BY <1>1, <1>2 DEF TypeOK
<1>4. child' = "ok" /\ child # "ok" => helper[w].req # None
  BY <1>2
<1>5. CoordinatorInv'
  <2>1. helper[w].req # None => pc # "accepting"
    BY <1>1 DEF RequestsInv, HelperInv
  <2> QED
    BY <1>1, <1>2, <1>4, <2>1 DEF CoordinatorInv
<1>6. HelperInv(w)'
  BY <1>2 DEF HelperInv, Working, NoHelper
<1>7. ASSUME NEW u \in Units \ {w} PROVE HelperInv(u)'
  <2>1. CASE child' # "ok" \/ child' = child
    BY <1>1, <1>2, <2>1, HelperKept DEF RequestsInv
  <2>2. CASE child' = "ok" /\ child # "ok"
    <3>1. helper[u].req = None
      BY <1>1, <1>4, <2>2 DEF RequestsInv
    <3> QED
      BY <1>1, <1>2, <3>1 DEF RequestsInv, HelperInv, Working
  <2> QED
    BY <2>1, <2>2
<1>8. RequestsInv'
  <2>1. \A u \in Units : helper'[u].req # None => helper[u].req # None
    BY <1>2 DEF NoHelper
  <2> QED
    BY <1>1, <1>6, <1>7, <2>1 DEF RequestsInv
<1> QED
  BY <1>1, <1>3, <1>5, <1>8 DEF ArchiveInv, ProofsAreMade

\* A helper goes on with the request it has, or connects without one.
LEMMA MovedKeeps ==
    ASSUME ArchiveInv, NEW w \in Units,
           helper' \in [Units -> [pc : {"none", "starting", "connected", "bound", "worked", "replied"},
                                  link : {"none", "backlog", "open", "closed"}, req : Request \cup {None}]],
           \A u \in Units \ {w} : helper'[u] = helper[u],
           helper'[w].req = helper[w].req, HelperInv(w)', made \subseteq made',
           UNCHANGED <<journal, proven, pc, request, path, child, orphans, faults>>,
           \/ UNCHANGED reply
           \/ /\ helper[w].req # None /\ pc = "sent"
              /\ [action |-> request.action, journal |-> journal] \in made
    PROVE  ArchiveInv'
<1>1. TypeOK /\ RequestsInv /\ CoordinatorInv /\ ProofsAreMade
  BY DEF ArchiveInv
<1>2. TypeOK'
  BY <1>1 DEF TypeOK
<1>3. ASSUME NEW u \in Units \ {w} PROVE HelperInv(u)'
  <2>1. CASE UNCHANGED reply
    BY <1>1, <2>1, HelperKept DEF RequestsInv
  <2>2. CASE helper[w].req # None
    <3>1. helper[u].req = None /\ ~Working(u) /\ helper[u].pc \notin {"worked", "replied"}
      BY <1>1, <2>2 DEF RequestsInv, HelperInv, Working
    <3> QED
      BY <1>1, <3>1 DEF RequestsInv, HelperInv, Working
  <2> QED
    BY <2>1, <2>2
<1>4. RequestsInv'
  BY <1>1, <1>3 DEF RequestsInv
<1>5. CoordinatorInv'
  BY <1>1 DEF CoordinatorInv
<1>6. ProofsAreMade'
  BY <1>1 DEF ProofsAreMade
<1> QED
  BY <1>2, <1>4, <1>5, <1>6 DEF ArchiveInv

LEMMA HelperStepKeeps ==
    ASSUME ArchiveHelperAssumption, ArchiveInv, NEW w \in Units, HelperStep(w)
    PROVE  ArchiveInv'
<1>1. /\ TypeOK /\ RequestsInv /\ CoordinatorInv /\ HelperInv(w)
      /\ faults \in 0..MaxFaults
      /\ helper[w] \in [pc : {"none", "starting", "connected", "bound", "worked", "replied"},
                        link : {"none", "backlog", "open", "closed"}, req : Request \cup {None}]
      /\ helper \in [Units -> [pc : {"none", "starting", "connected", "bound", "worked", "replied"},
                               link : {"none", "backlog", "open", "closed"}, req : Request \cup {None}]]
  BY DEF ArchiveInv, RequestsInv, TypeOK
<1>2. CASE Connect(w)
  <2> DEFINE new == [pc |-> "connected", link |-> "backlog", req |-> None]
  <2>1. /\ helper' = [helper EXCEPT ![w] = new] /\ helper[w].pc = "starting"
        /\ UNCHANGED <<journal, proven, pc, request, reply, path, child, orphans, made, faults>>
    BY <1>2 DEF Connect
  <2>2. helper[w].req = None /\ helper'[w] = new
    BY <1>1, <2>1 DEF HelperInv
  <2>3. HelperInv(w)'
    BY <2>2 DEF HelperInv, Working
  <2> QED
    BY <1>1, <2>1, <2>2, <2>3, MovedKeeps
<1>3. CASE Refused(w)
  <2>1. /\ Ended(w, "failed")
        /\ UNCHANGED <<journal, proven, pc, request, reply, path, orphans, made, faults>>
    BY <1>3 DEF Refused
  <2> QED
    BY <1>1, <2>1, EndedKeeps
<1>4. CASE Bind(w)
  <2>1. UNCHANGED <<journal, proven, pc, request, reply, path, orphans, made, faults>>
    BY <1>4 DEF Bind
  <2>2. CASE RequireRequest(w)
    <3>1. helper' = [helper EXCEPT ![w].pc = "bound"] /\ UNCHANGED child /\ helper[w].pc = "connected" /\ helper[w].req # None
      BY <1>4, <2>2 DEF Bind
    <3>2. helper'[w].pc = "bound" /\ helper'[w].link = helper[w].link /\ helper'[w].req = helper[w].req
      BY <1>1, <3>1
    <3>3. HelperInv(w)'
      BY <1>1, <2>1, <2>2, <3>1, <3>2 DEF HelperInv, Working, RequireRequest
    <3> QED
      BY <1>1, <2>1, <3>1, <3>2, <3>3, MovedKeeps
  <2>3. CASE ~RequireRequest(w)
    BY <1>1, <1>4, <2>1, <2>3, EndedKeeps DEF Bind
  <2> QED
    BY <2>2, <2>3
<1>5. CASE HelperEvidence(w)
  <2> DEFINE evidence == [action |-> helper[w].req.action, journal |-> journal]
  <2>1. /\ helper' = [helper EXCEPT ![w].pc = "worked"] /\ made' = made \cup {evidence} /\ helper[w].pc = "bound"
        /\ UNCHANGED <<journal, proven, pc, request, reply, path, child, orphans, faults>>
    BY <1>5 DEF HelperEvidence
  <2>2. helper'[w].pc = "worked" /\ helper'[w].link = helper[w].link /\ helper'[w].req = helper[w].req
    BY <1>1, <2>1
  <2>3. [action |-> helper'[w].req.action, journal |-> journal'] \in made'
    BY <2>1, <2>2
  <2>4. HelperInv(w)'
    BY <1>1, <2>1, <2>2, <2>3 DEF HelperInv, Working
  <2> QED
    BY <1>1, <2>1, <2>2, <2>4, MovedKeeps
<1>6. CASE Reply(w)
  <2>1. UNCHANGED <<journal, proven, pc, request, path, orphans, made, faults>> /\ helper[w].pc = "worked"
    BY <1>6 DEF Reply
  <2>2. CASE RequireRequest(w) /\ helper[w].link = "open"
    <3>1. helper' = [helper EXCEPT ![w].pc = "replied"] /\ UNCHANGED child
      BY <1>6, <2>2 DEF Reply
    <3>2. helper'[w].pc = "replied" /\ helper'[w].link = helper[w].link /\ helper'[w].req = helper[w].req
      BY <1>1, <3>1
    <3>3. /\ helper[w].req # None /\ pc = "sent" /\ helper[w].req = request
          /\ [action |-> request.action, journal |-> journal] \in made
      BY <1>1, <2>1, <2>2 DEF HelperInv, Working, CoordinatorInv
    <3>4. HelperInv(w)'
      BY <1>1, <2>1, <3>1, <3>2, <3>3 DEF HelperInv, Working
    <3> QED
      BY <1>1, <2>1, <3>1, <3>2, <3>3, <3>4, MovedKeeps
  <2>3. CASE ~(RequireRequest(w) /\ helper[w].link = "open")
    BY <1>1, <1>6, <2>1, <2>3, EndedKeeps DEF Reply
  <2> QED
    BY <2>2, <2>3
<1>7. CASE Exit(w)
  <2>1. helper[w].req # None
    BY <1>1, <1>7 DEF Exit, HelperInv, Working
  <2>2. /\ Ended(w, "ok")
        /\ UNCHANGED <<journal, proven, pc, request, reply, path, orphans, made, faults>>
    BY <1>7 DEF Exit
  <2> QED
    BY <1>1, <2>1, <2>2, EndedKeeps
<1> QED
  BY <1>2, <1>3, <1>4, <1>5, <1>6, <1>7 DEF HelperStep

\* The invariant holds in every behaviour.
LEMMA ArchiveInvariance == ASSUME ArchiveHelperAssumption PROVE Spec => []ArchiveInv
<1>1. Init => ArchiveInv
  <2> SUFFICES ASSUME Init PROVE ArchiveInv
    OBVIOUS
  <2>1. 1 \in DOMAIN Phases /\ Len(Wanted(1)) \in Nat
    <3>1. 1 \in DOMAIN Phases
      BY DEF Phases
    <3> QED
      BY <3>1, WantedFacts
  <2>2. TypeOK
    BY <2>1 DEF Init, TypeOK, NoHelper, ArchiveHelperAssumption
  <2>3. RequestsInv /\ CoordinatorInv /\ ProofsAreMade
    BY DEF Init, RequestsInv, HelperInv, Working, NoHelper, CoordinatorInv, ProofsAreMade
  <2> QED
    BY <2>2, <2>3 DEF ArchiveInv
<1>2. ArchiveInv /\ [Next]_vars => ArchiveInv'
  <2> SUFFICES ASSUME ArchiveInv, [Next]_vars PROVE ArchiveInv'
    OBVIOUS
  <2>1. CASE UNCHANGED vars
    BY <2>1 DEF vars, ArchiveInv, TypeOK, RequestsInv, HelperInv, Working, CoordinatorInv, ProofsAreMade
  <2>2. CASE Coordinator
    BY <2>2, PrepareKeeps, SendKeeps, ReceiveKeeps, FinishKeeps, LeavingKeeps DEF Coordinator
  <2>3. CASE MissDeadline \/ KillCoordinator
    BY <2>3, LeavingKeeps
  <2>4. CASE Deliver
    <3>1. Unit(request.action) \in Units /\ orphans \subseteq Units
      BY DEF Unit, Units, ArchiveInv, TypeOK
    <3> QED
      BY <2>4, <3>1, StartedKeeps DEF Deliver
  <2>5. ASSUME NEW u \in Units, DeliverOrphan(u) PROVE ArchiveInv'
    <3>1. orphans' \subseteq Units
      BY <2>5 DEF DeliverOrphan, ArchiveInv, TypeOK
    <3> QED
      BY <2>5, <3>1, StartedKeeps DEF DeliverOrphan
  <2>6. ASSUME NEW u \in Units, KillHelper(u) PROVE ArchiveInv'
    <3>1. faults' \in 0..MaxFaults
      BY <2>6 DEF KillHelper, ArchiveInv, TypeOK, ArchiveHelperAssumption
    <3> QED
      BY <2>6, <3>1, EndedKeeps DEF KillHelper
  <2>7. ASSUME NEW u \in Units, HelperStep(u) PROVE ArchiveInv'
    BY <2>7, HelperStepKeeps
  <2> QED
    BY <2>1, <2>2, <2>3, <2>4, <2>5, <2>6, <2>7 DEF Next, Over
<1> QED
  BY <1>1, <1>2, PTL DEF Spec

\* Helpers work one at a time, on the journal and for the coordinator that asked
\* ("continuously held leases").
THEOREM LeasedWork == ASSUME ArchiveHelperAssumption PROVE Spec => []WorkUnderLease
<1>1. ArchiveInv => WorkUnderLease
  BY DEF ArchiveInv, RequestsInv, HelperInv, WorkUnderLease, Working
<1> QED
  BY <1>1, ArchiveInvariance, PTL

\* A proof the coordinator counts was made for the journal it stands for.
THEOREM CountedProofsMade == ASSUME ArchiveHelperAssumption PROVE Spec => []ProofsAreMade
<1>1. ArchiveInv => ProofsAreMade
  BY DEF ArchiveInv
<1> QED
  BY <1>1, ArchiveInvariance, PTL

\* A request that begins never meets a helper that served the previous one
\* (_archive_service's comment).
THEOREM StartJobsApart == ASSUME ArchiveHelperAssumption PROVE Spec => []JobsDoNotCoalesce
<1>1. ArchiveInv => JobsDoNotCoalesce
  BY DEF ArchiveInv, RequestsInv, HelperInv, JobsDoNotCoalesce
<1> QED
  BY <1>1, ArchiveInvariance, PTL
============================================================================
