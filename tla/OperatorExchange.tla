-------------------------- MODULE OperatorExchange --------------------------
(***************************************************************************)
(* One operation of the trusted workstation (client.py): a request with    *)
(* its artifact goes up one SSH stream, the terminal result with its       *)
(* export bundle comes back, the bundle is saved durably, and only then a  *)
(* second exchange retires the host's copy.                                *)
(*                                                                         *)
(* The artifact may be edited at any time, the connection may be lost      *)
(* anywhere, either machine may stop, another program may take the         *)
(* destination, and the operator repeats the same request, possibly in     *)
(* two terminals at once.  The host's side is what the sessions of         *)
(* JobIntake and ExportSlot do, seen from the stream.                      *)
(***************************************************************************)
EXTENDS Naturals, Sequences

CONSTANTS
    Clients,      \* the terminals that submit the same request
    Uploads,      \* the operation sends an artifact (else it exports)
    MaxAttempts,  \* bound: submissions of each terminal
    MaxEdits,     \* bound: edits of the artifact
    MaxFaults     \* bound: lost connections, timeouts, failed system calls, stops

VARIABLES
    artifact,  \* the artifact's two chunks and its generation
    client,    \* per terminal: the submission at hand
    conn,      \* per terminal: its SSH connection
    temp,      \* per terminal: its pending download
    dest,      \* the export's destination
    session,   \* per terminal: where the host's forced command is
    job,       \* the job of this correlation: none, issued, done
    executed,  \* the artifact's chunks that the host admitted
    slot,      \* the host's export slot holds the bundle
    delivery,  \* how the export was retired
    expired,   \* the bundle's retention is over
    holder,    \* the session that holds the export lock
    faults     \* faults so far

workstation == <<artifact, client, temp, dest>>
host == <<session, job, executed, slot, delivery, expired, holder>>
vars == <<workstation, conn, host, faults>>

Nobody == "nobody"
Good == <<"good", "good">>

(* A pending download holds as many chunks of the bundle as were written,  *)
(* and then it is synced.                                                  *)
Empty == [content |-> "none", durable |-> FALSE]
Bundle == 2
Synced == 3

NoConnection ==
    [up |-> <<>>, upEnd |-> FALSE, down |-> <<>>, status |-> "closed"]

Idle == [pc |-> "idle", attempts |-> 0, gen |-> 0, read |-> <<>>, payload |-> FALSE]

Init ==
    /\ artifact = [chunk |-> Good, gen |-> 0]
    /\ client = [c \in Clients |-> Idle]
    /\ conn = [c \in Clients |-> NoConnection]
    /\ temp = [c \in Clients |-> 0]
    /\ dest = Empty
    /\ session = [c \in Clients |-> "none"]
    /\ job = "none" /\ executed = Good
    /\ slot = FALSE /\ delivery = "open" /\ expired = FALSE /\ holder = Nobody
    /\ faults = 0

Fault == faults < MaxFaults /\ faults' = faults + 1
NoFault == UNCHANGED faults

At(c, pc) == client[c].pc = pc
Go(c, pc) == client' = [client EXCEPT ![c].pc = pc]
Down(c) == conn[c].down
Take(c) == conn' = [conn EXCEPT ![c].down = Tail(@)]

(* An error ends the submission: a pending download is removed, the SSH    *)
(* process is killed, and the host sees an early end of the stream.        *)
Hangup(c) == [conn EXCEPT ![c].status = "closed", ![c].down = <<>>]

Cleanup(c) == temp' = [temp EXCEPT ![c] = 0]

Fails(c) ==
    /\ client' = [client EXCEPT ![c].pc = "failed", ![c].read = <<>>, ![c].payload = FALSE,
                                ![c].gen = 0]
    /\ conn' = Hangup(c)
    /\ Cleanup(c)
    /\ UNCHANGED <<artifact, dest>>

----------------------------------------------------------------------------
(* The artifact: opened, hashed, checked to be unchanged; hashed again     *)
(* while it is sent, and refused unless it is still the same generation.   *)

Edit ==
    /\ artifact.gen < MaxEdits
    /\ \E i \in {1, 2}, v \in {"good", "bad"} :
        artifact' = [chunk |-> [artifact.chunk EXCEPT ![i] = v], gen |-> artifact.gen + 1]
    /\ UNCHANGED <<client, conn, temp, dest, host, faults>>

Submit(c) ==
    /\ client[c].pc \in {"idle", "failed"} /\ client[c].attempts < MaxAttempts
    /\ client' = [client EXCEPT ![c] =
                    [Idle EXCEPT !.pc = IF Uploads THEN "hash" ELSE "request",
                                 !.attempts = client[c].attempts + 1, !.gen = artifact.gen]]
    /\ UNCHANGED <<artifact, conn, temp, dest, host, faults>>

HashChunk(c) ==
    /\ At(c, "hash") /\ Len(client[c].read) < 2
    /\ client' = [client EXCEPT ![c].read = Append(@, artifact.chunk[Len(@) + 1])]
    /\ UNCHANGED <<artifact, conn, temp, dest, host, faults>>

OpenArtifact(c) ==
    /\ At(c, "hash") /\ Len(client[c].read) = 2
    /\ IF client[c].read = Good /\ artifact.gen = client[c].gen
       THEN /\ client' = [client EXCEPT ![c].pc = "request", ![c].read = <<>>]
            /\ UNCHANGED <<artifact, conn, temp, dest>>
       ELSE Fails(c)
    /\ NoFault /\ UNCHANGED host

(* The SSH process starts and the host starts the forced command.          *)
Request(c) ==
    /\ At(c, "request") /\ session[c] = "none"
    /\ conn' = [conn EXCEPT ![c] =
                  [NoConnection EXCEPT !.up = <<"request">>, !.status = "open",
                                       !.upEnd = ~Uploads]]
    /\ session' = [session EXCEPT ![c] = "receive"]
    /\ Go(c, IF Uploads THEN "copy" ELSE "header")
    /\ UNCHANGED <<artifact, temp, dest, job, executed, slot, delivery, expired, holder,
                   faults>>

CopyChunk(c) ==
    /\ At(c, "copy") /\ Len(client[c].read) < 2 /\ conn[c].status = "open"
    /\ LET chunk == artifact.chunk[Len(client[c].read) + 1]
       IN  /\ (client[c].read = <<>>) => artifact.gen = client[c].gen
           /\ client' = [client EXCEPT ![c].read = Append(@, chunk)]
           /\ conn' = [conn EXCEPT ![c].up = Append(@, chunk)]
    /\ UNCHANGED <<artifact, temp, dest, host, faults>>

CloseInput(c) ==
    /\ At(c, "copy") /\ Len(client[c].read) = 2
    /\ IF client[c].read = Good /\ artifact.gen = client[c].gen
       THEN /\ client' = [client EXCEPT ![c].pc = "header", ![c].read = <<>>]
            /\ conn' = [conn EXCEPT ![c].upEnd = TRUE]
            /\ UNCHANGED <<artifact, temp, dest>>
       ELSE Fails(c)
    /\ NoFault /\ UNCHANGED host

(* The host refused before it consumed the artifact: the write fails and   *)
(* the client reports the host's rejection.                                *)
BrokenPipe(c) ==
    /\ client[c].pc \in {"copy", "ack"}
    /\ \/ conn[c].status # "open"
       \/ /\ client[c].pc = "copy" /\ client[c].read = <<>>
          /\ artifact.gen # client[c].gen
    /\ IF client[c].pc = "copy" THEN Fails(c)
       ELSE /\ client' = [client EXCEPT ![c].pc = "failed"]
            /\ UNCHANGED <<artifact, conn, temp, dest>>
    /\ NoFault /\ UNCHANGED host

----------------------------------------------------------------------------
(* The response: header, result, the declared payload, and nothing more.   *)

Ended(c) == Down(c) = <<>> /\ conn[c].status # "open"

ReadHeader(c) ==
    /\ At(c, "header")
    /\ \/ /\ Down(c) # <<>> /\ Take(c)
          /\ client' = [client EXCEPT ![c].pc = "result",
                                      ![c].payload = (Head(Down(c)) = "header+payload")]
          /\ UNCHANGED <<artifact, temp, dest>>
       \/ Ended(c) /\ Fails(c)
    /\ NoFault /\ UNCHANGED host

ReadResult(c) ==
    /\ At(c, "result")
    /\ \/ /\ Down(c) # <<>> /\ Take(c)
          /\ Go(c, IF client[c].payload THEN "create" ELSE "eof")
          /\ UNCHANGED <<artifact, temp, dest>>
       \/ Ended(c) /\ Fails(c)
    /\ NoFault /\ UNCHANGED host

(* _PendingExport.create: the destination must be free; the download goes  *)
(* to a temporary name beside it.                                          *)
CreatePending(c) ==
    /\ At(c, "create")
    /\ \/ NoFault /\ dest.content = "none" /\ Go(c, "payload")
          /\ UNCHANGED <<artifact, conn, temp, dest>>
       \/ NoFault /\ dest.content # "none" /\ Fails(c)
       \/ Fault /\ Fails(c)
    /\ UNCHANGED host

ReceiveChunk(c) ==
    /\ At(c, "payload") /\ temp[c] < Bundle
    /\ \/ /\ Down(c) # <<>> /\ Take(c)
          /\ temp' = [temp EXCEPT ![c] = @ + 1]
          /\ UNCHANGED <<artifact, client, dest>>
       \/ Ended(c) /\ Fails(c)
    /\ NoFault /\ UNCHANGED host

Flushed(pending) == Synced

(* fsync of the file, then its digest is compared with the result's.       *)
VerifyPayload(c) ==
    /\ At(c, "payload") /\ temp[c] = Bundle
    /\ \/ NoFault /\ Go(c, "eof") /\ temp' = [temp EXCEPT ![c] = Flushed(@)]
          /\ UNCHANGED <<artifact, conn, dest>>
       \/ Fault /\ Fails(c)
    /\ UNCHANGED host

(* Nothing may follow, and the SSH process must report success.            *)
AwaitExit(c) ==
    /\ At(c, "eof") /\ Ended(c)
    /\ IF conn[c].status = "ok"
       THEN /\ Go(c, IF client[c].payload THEN "rename" ELSE "done")
            /\ UNCHANGED <<artifact, conn, temp, dest>>
       ELSE Fails(c)
    /\ NoFault /\ UNCHANGED host

(* _rename_no_replace.                                                     *)
Free(d) == d.content = "none"

Rename(c) ==
    /\ At(c, "rename")
    /\ \/ /\ NoFault /\ Free(dest)
          /\ dest' = [content |-> IF temp[c] = Synced THEN "bundle" ELSE "unsynced",
                       durable |-> FALSE]
          /\ temp' = [temp EXCEPT ![c] = 0]
          /\ Go(c, "sync") /\ UNCHANGED <<artifact, conn>>
       \/ NoFault /\ ~Free(dest) /\ Fails(c)
       \/ Fault /\ Fails(c)
    /\ UNCHANGED host

(* The directory is synced before the acknowledgement; when that fails the *)
(* download is removed under the name it then has.                         *)
SyncDirectory(c) ==
    /\ At(c, "sync")
    /\ \/ /\ NoFault /\ dest' = [dest EXCEPT !.durable = TRUE]
          /\ Go(c, "ack") /\ UNCHANGED <<artifact, conn, temp>>
       \/ /\ Fault /\ dest' = Empty
          /\ Go(c, "failed") /\ UNCHANGED <<artifact, conn, temp>>
    /\ UNCHANGED host

(* acknowledge_export: a second exchange.                                  *)

\* Mutant of Saved: acknowledged before the destination is durable.
MutantSaved(c) == client[c].pc \in {"rename", "sync", "ack"}
Saved(c) == At(c, "ack")

Acknowledge(c) ==
    /\ Saved(c) /\ session[c] = "none"
    /\ conn' = [conn EXCEPT ![c] = [NoConnection EXCEPT !.up = <<"ack">>, !.upEnd = TRUE,
                                                        !.status = "open"]]
    /\ session' = [session EXCEPT ![c] = "receive"]
    /\ Go(c, "acked")
    /\ UNCHANGED <<artifact, temp, dest, job, executed, slot, delivery, expired, holder,
                   faults>>

(* The same result must come back.  Otherwise the local copy stays.        *)
Acknowledged(c) ==
    /\ At(c, "acked") /\ conn[c].status # "open"
    /\ Go(c, IF conn[c].status = "ok" /\ Len(Down(c)) = 2 THEN "done" ELSE "failed")
    /\ conn' = Hangup(c)
    /\ NoFault /\ UNCHANGED <<artifact, temp, dest, host>>

(* A deadline of the client passes.                                        *)
TimeOut(c) ==
    /\ client[c].pc \in {"copy", "header", "result", "payload", "eof"} /\ Fault
    /\ Fails(c) /\ UNCHANGED host

Transfer(c) ==
    \/ HashChunk(c) \/ OpenArtifact(c) \/ Request(c) \/ CopyChunk(c) \/ CloseInput(c)
    \/ BrokenPipe(c) \/ ReadHeader(c) \/ ReadResult(c) \/ CreatePending(c) \/ ReceiveChunk(c)
    \/ VerifyPayload(c) \/ AwaitExit(c) \/ Rename(c) \/ SyncDirectory(c) \/ Acknowledge(c)
    \/ Acknowledged(c)

----------------------------------------------------------------------------
(* The host's forced command.                                              *)

EndSession(c, status) ==
    /\ session' = [session EXCEPT ![c] = "none"]
    /\ conn' = IF conn[c].status = "open" THEN [conn EXCEPT ![c].status = status] ELSE conn
    /\ holder' = IF holder = c THEN Nobody ELSE holder

SendDown(c, items) ==
    conn' = IF conn[c].status = "open" THEN [conn EXCEPT ![c].down = @ \o items] ELSE conn

(* The artifact's digest is checked before it is published.                *)
Verified(chunks) == chunks = Good

(* The end of the stream is the client's, or that of a lost connection: a  *)
(* submission that failed may still be executed.                           *)
Whole(c) ==
    /\ conn[c].upEnd \/ conn[c].status # "open"
    /\ Len(conn[c].up) = IF Uploads THEN 3 ELSE 1

Receive(c) ==
    LET chunks == SubSeq(conn[c].up, 2, Len(conn[c].up))
        accepted == Whole(c) /\ Head(conn[c].up) = "request" /\ (Uploads => Verified(chunks))
    IN  /\ session[c] = "receive" /\ Head(conn[c].up) = "request"
        /\ \/ /\ accepted
              /\ job' = IF job = "none" THEN "issued" ELSE job
              /\ executed' = IF Uploads /\ job = "none" THEN chunks ELSE executed
              /\ session' = [session EXCEPT ![c] = "wait"] /\ UNCHANGED <<conn, holder>>
           \/ /\ ~accepted /\ (Whole(c) \/ conn[c].status # "open")
              /\ EndSession(c, "failed") /\ UNCHANGED <<job, executed>>
        /\ UNCHANGED <<workstation, slot, delivery, expired, faults>>

(* A busy or disabled host refuses at once.                                *)
Refuse(c) ==
    /\ session[c] = "receive" /\ Fault
    /\ EndSession(c, "failed")
    /\ UNCHANGED <<workstation, job, executed, slot, delivery, expired>>

Work ==
    /\ job = "issued" /\ job' = "done"
    /\ slot' = ~Uploads
    /\ UNCHANGED <<workstation, conn, session, executed, delivery, expired, holder, faults>>

Available == slot /\ delivery = "open" /\ ~expired

(* The slot is retired in two steps: the record, then the bundle.          *)
Respond(c) ==
    /\ session[c] = "wait" /\ job = "done"
    /\ IF Uploads
       THEN /\ conn' = IF conn[c].status = "open"
                       THEN [conn EXCEPT ![c].down = <<"header", "result">>, ![c].status = "ok"]
                       ELSE conn
            /\ session' = [session EXCEPT ![c] = "none"] /\ UNCHANGED <<holder, delivery>>
       ELSE /\ holder = Nobody /\ holder' = c
            /\ SendDown(c, IF Available THEN <<"header+payload", "result">>
                           ELSE <<"header", "result">>)
            /\ session' = [session EXCEPT ![c] = IF Available THEN "chunk1" ELSE "close"]
            /\ delivery' = IF delivery = "open" /\ expired THEN "expired" ELSE delivery
    /\ UNCHANGED <<workstation, job, executed, slot, expired, faults>>

(* The transfer is bounded by the bundle's expiry.                         *)
SendChunk(c) ==
    /\ session[c] \in {"chunk1", "chunk2"}
    /\ IF expired \/ conn[c].status # "open" THEN EndSession(c, "failed")
       ELSE /\ SendDown(c, <<"chunk">>)
            /\ session' = [session EXCEPT ![c] = IF @ = "chunk1" THEN "chunk2" ELSE "close"]
            /\ UNCHANGED holder
    /\ UNCHANGED <<workstation, job, executed, slot, delivery, expired, faults>>

CloseSession(c) ==
    /\ session[c] = "close"
    /\ EndSession(c, "ok")
    /\ slot' = (slot /\ delivery = "open")
    /\ UNCHANGED <<workstation, job, executed, delivery, expired, faults>>

ReceiveAck(c) ==
    /\ session[c] = "receive" /\ Head(conn[c].up) = "ack" /\ holder = Nobody
    /\ holder' = c
    /\ delivery' = IF delivery # "open" THEN delivery
                   ELSE IF expired THEN "expired" ELSE "acknowledged"
    /\ SendDown(c, <<"header", "result">>)
    /\ session' = [session EXCEPT ![c] = "close"]
    /\ UNCHANGED <<workstation, job, executed, slot, expired, faults>>

Expire ==
    /\ ~Uploads /\ job = "done" /\ ~expired /\ expired' = TRUE
    /\ UNCHANGED <<workstation, conn, session, job, executed, slot, delivery, holder, faults>>

(* The host's reconciliation finishes what was retired and retires what    *)
(* expired.                                                                *)
Retirable == delivery # "open" \/ expired

Reconcile ==
    /\ holder = Nobody /\ slot /\ Retirable
    /\ delivery' = IF delivery = "open" THEN "expired" ELSE delivery
    /\ slot' = FALSE
    /\ UNCHANGED <<workstation, conn, session, job, executed, expired, holder, faults>>

Serve(c) ==
    \/ Receive(c) \/ Respond(c) \/ SendChunk(c) \/ CloseSession(c) \/ ReceiveAck(c)

----------------------------------------------------------------------------
(* Faults.                                                                 *)

(* The connection is lost; part of what was under way may arrive.          *)
Disconnect(c) ==
    /\ conn[c].status = "open" /\ Fault
    /\ \E n \in 0..Len(Down(c)) :
        conn' = [conn EXCEPT ![c].status = "lost", ![c].down = SubSeq(@, 1, n)]
    /\ UNCHANGED <<workstation, host>>

(* The host stops: every session ends, every lock is free.                 *)
HostStops ==
    /\ Fault /\ \E c \in Clients : session[c] # "none"
    /\ session' = [c \in Clients |-> "none"] /\ holder' = Nobody
    /\ conn' = [c \in Clients |->
                  IF conn[c].status = "open" THEN [conn[c] EXCEPT !.status = "lost"] ELSE conn[c]]
    /\ UNCHANGED <<workstation, job, executed, slot, delivery, expired>>

(* The workstation stops: an unsynced name may be lost, an unsynced file   *)
(* keeps a part of its bytes, a pending download behind under a name that is never used again.                           *)
Left(d) == IF d.content = "unsynced" THEN [d EXCEPT !.content = "part"] ELSE d

WorkstationStops ==
    /\ Fault /\ \E c \in Clients : client[c].pc \notin {"idle", "failed", "done"}
    /\ client' = [c \in Clients |-> IF client[c].pc \in {"idle", "done"} THEN client[c]
                                    ELSE [Idle EXCEPT !.pc = "failed",
                                                      !.attempts = client[c].attempts]]
    /\ conn' = [c \in Clients |-> IF conn[c].status = "open"
                                  THEN [conn[c] EXCEPT !.status = "lost"] ELSE conn[c]]
    /\ temp' = [c \in Clients |-> 0]
    /\ dest' \in IF dest.durable \/ dest.content = "none" THEN {Left(dest)}
                 ELSE {[Left(dest) EXCEPT !.durable = TRUE], Empty}
    /\ UNCHANGED <<artifact, host>>

(* Another program takes the destination.                                  *)
Occupy ==
    /\ ~Uploads /\ dest.content = "none" /\ faults < MaxFaults
    /\ dest' = [content |-> "other", durable |-> TRUE] /\ faults' = faults + 1
    /\ UNCHANGED <<artifact, client, conn, temp, host>>

Next ==
    \/ \E c \in Clients :
        Submit(c) \/ Transfer(c) \/ TimeOut(c) \/ Serve(c) \/ Refuse(c) \/ Disconnect(c)
    \/ Edit \/ Work \/ Expire \/ Reconcile \/ HostStops \/ WorkstationStops \/ Occupy

Spec == Init /\ [][Next]_vars

(* The operator repeats a failed submission, both machines make progress,  *)
(* and time passes.                                                        *)
Liveness ==
    /\ \A c \in Clients : WF_vars(Submit(c)) /\ WF_vars(Transfer(c)) /\ WF_vars(Serve(c))
    /\ WF_vars(Work) /\ WF_vars(Expire) /\ WF_vars(Reconcile)

FairSpec == Spec /\ Liveness

----------------------------------------------------------------------------

(* The state keeps its shape, and a stream never carries more than one     *)
(* frame in each direction.                                                *)
TypeOK ==
    /\ \A c \in Clients :
        /\ Len(conn[c].up) =< 3 /\ Len(conn[c].down) =< 4
        /\ conn[c].status \in {"closed", "open", "ok", "failed", "lost"}
        /\ temp[c] \in 0..Synced
        /\ client[c].pc \in {"idle", "hash", "request", "copy", "header", "result", "create",
                             "payload", "eof", "rename", "sync", "ack", "acked", "done", "failed"}
    /\ holder \in Clients \cup {Nobody}
    /\ delivery \in {"open", "acknowledged", "expired"}

(* The host gives up its copy on an acknowledgement only when the          *)
(* workstation has the whole bundle on disk, where no power loss takes it. *)
RetiredIsSaved ==
    delivery = "acknowledged" => dest = [content |-> "bundle", durable |-> TRUE]

(* The destination never shows a part of a bundle.                         *)
OnlyWhole == dest.content # "part"

(* A file that another program put at the destination is neither replaced  *)
(* nor removed.                                                            *)
NotOverwritten == dest.content = "other" => dest' = dest

(* Whatever is edited while it is read, hashed and sent, the host only     *)
(* executes the artifact that the request declares.                        *)
ExecutedIsDeclared == job # "none" => executed = Good

(* A submission that succeeds has the job's terminal result, and if the    *)
(* result carried the bundle, the bundle.                                  *)
SuccessIsTrue ==
    \A c \in Clients : At(c, "done") =>
        job = "done" /\ (client[c].payload => dest.content = "bundle" /\ dest.durable)

(* A submission that fails without a stop of its machine leaves no pending *)
(* download.                                                               *)
NothingLeftBehind ==
    \A c \in Clients : client[c].pc \in {"failed", "done"} => temp[c] = 0

(* No exchange waits for ever: neither a session for the other terminal's  *)
(* lock nor an acknowledgement for its own download.                       *)
AttemptsEnd ==
    \A c \in Clients : client[c].pc \in {"idle", "done", "failed"}

(* The host's slot is freed in the end, acknowledged or not.               *)
SlotFreed == ~slot
=============================================================================
