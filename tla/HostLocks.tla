------------------------------ MODULE HostLocks ------------------------------
\* The host's four advisory locks (locks.py) as every process of the agent
\* uses them: nested acquisitions in one order, the export lock lent to a
\* credential helper over a socket, the two capture locks lent to the Restic
\* child, blocking and non-blocking requests, and processes killed anywhere.
\*
\* A flock belongs to an open file description, which a lent descriptor shares:
\* it is gone when the last descriptor is closed, or when anybody unlocks it.
EXTENDS Naturals, Sequences, FiniteSets
LOCAL INSTANCE SequencesExt
LOCAL INSTANCE FiniteSetsExt

CONSTANTS
    Clients,        \* agent processes
    Helpers,        \* socket-activated helpers and Restic children
    MaxRequests,    \* requests of one process before it ends
    MaxLends,       \* descriptors lent
    MaxKills,
    None

LocksAssumption ==
    /\ Clients \cap Helpers = {}
    /\ {MaxRequests, MaxLends, MaxKills} \subseteq Nat
    /\ None \notin Helpers \cup {"run", "unwind", "offered", "capture"}

Procs == Clients \cup Helpers

INTAKE == 0
EXPORT == 10
PUBLICATION == 20
TENANT_STATE == 30
LockName == {INTAKE, EXPORT, PUBLICATION, TENANT_STATE}
LockMode == {"shared", "exclusive"}
LockRequest == [name : LockName, mode : LockMode]

VARIABLES
    held,           \* process -> the stack of locks its thread registered
    flocks,         \* the locked open file descriptions: [name, mode, refs]
    plan,           \* process -> requests it has still to be granted
    blocking,       \* process -> those requests wait
    task,           \* process -> "run", "unwind", "offered", "capture" or None
    waits,          \* process -> the helper whose answer it waits for
    requests,       \* process -> requests made
    lends,
    kills

vars == <<held, flocks, plan, blocking, task, waits, requests, lends, kills>>

Holds(p, n) == \E k \in DOMAIN held[p] : held[p][k].name = n
HoldsIn(p, n, m) == \E k \in DOMAIN held[p] : held[p][k] = [name |-> n, mode |-> m]
Innermost(p, n) == held[p] # << >> /\ Last(held[p]).name = n
Description(p, n) == {f \in flocks : f.name = n /\ p \in f.refs}

Init ==
    /\ held = [p \in Procs |-> << >>]
    /\ flocks = {}
    /\ plan = [p \in Procs |-> << >>]
    /\ blocking = [p \in Procs |-> FALSE]
    /\ task = [p \in Procs |-> None]
    /\ waits = [p \in Procs |-> None]
    /\ requests = [p \in Procs |-> 0]
    /\ lends = 0
    /\ kills = 0

-----------------------------------------------------------------------------
\* Requests.

\* _assert_next: never twice, and only upwards.
AssertNext(p, n) ==
    /\ ~Holds(p, n)
    /\ held[p] # << >> => n > Last(held[p]).name

\* _assert_sequence: every request of a nested set, before the first is tried.
AssertSequence(p, rs) ==
    \A k \in DOMAIN rs :
        IF k = 1 THEN held[p] # << >> => rs[1].name > Last(held[p]).name
        ELSE rs[k].name > rs[k - 1].name

\* What flock(2) grants at once.
Grantable(r) == \A f \in flocks : f.name = r.name => f.mode = "shared" /\ r.mode = "shared"

Ready(p) == task[p] = "run" /\ plan[p] = << >> /\ waits[p] = None
\* An exception leaves every `with` of the stack.
Unwinds(p) ==
    /\ task' = [task EXCEPT ![p] = "unwind"]
    /\ plan' = [plan EXCEPT ![p] = << >>]
    /\ blocking' = [blocking EXCEPT ![p] = FALSE]

Start(p) ==
    /\ p \in Clients
    /\ task[p] = None
    /\ requests[p] < MaxRequests
    /\ task' = [task EXCEPT ![p] = "run"]
    /\ UNCHANGED <<held, flocks, plan, blocking, waits, requests, lends, kills>>

\* acquire, acquire_many, transaction and publication_transaction; nobody asks
\* for a shared intake or export lock.
RequestSets ==
    {<<r>> : r \in {q \in LockRequest : q.name < PUBLICATION => q.mode = "exclusive"}}
    \cup {<<[name |-> PUBLICATION, mode |-> "exclusive"], [name |-> TENANT_STATE, mode |-> "exclusive"]>>}

Request(p) ==
    /\ Ready(p)
    /\ requests[p] < MaxRequests
    /\ requests' = [requests EXCEPT ![p] = @ + 1]
    /\ \E rs \in RequestSets, b \in BOOLEAN :
        IF IF Len(rs) = 1 THEN AssertNext(p, rs[1].name) ELSE AssertSequence(p, rs)
        THEN /\ plan' = [plan EXCEPT ![p] = rs]
             /\ blocking' = [blocking EXCEPT ![p] = b]
             /\ UNCHANGED task
        ELSE Unwinds(p)
    /\ UNCHANGED <<held, flocks, waits, lends, kills>>

\* The next lock of the plan is granted, refused or awaited.
Acquire(p) ==
    /\ plan[p] # << >>
    /\ LET r == Head(plan[p]) IN
        \/ /\ AssertNext(p, r.name) /\ Grantable(r)
           /\ held' = [held EXCEPT ![p] = Append(@, r)]
           /\ flocks' = flocks \cup {[name |-> r.name, mode |-> r.mode, refs |-> {p}]}
           /\ plan' = [plan EXCEPT ![p] = Tail(@)]
           /\ blocking' = [blocking EXCEPT ![p] = @ /\ Len(plan[p]) > 1]
           /\ UNCHANGED task
        \/ /\ ~AssertNext(p, r.name) \/ (~Grantable(r) /\ ~blocking[p])
           /\ Unwinds(p)
           /\ UNCHANGED <<held, flocks>>
    /\ UNCHANGED <<waits, requests, lends, kills>>

\* An inner lock is unlocked whoever else holds a descriptor of it; the export
\* lock is only closed.
Unlocked(p, n) ==
    IF n = EXPORT
    THEN {f \in {[g EXCEPT !.refs = IF g.name = n THEN @ \ {p} ELSE @] : g \in flocks} : f.refs # {}}
    ELSE flocks \ Description(p, n)

\* The innermost `with` is left; contexts nest.
Release(p) ==
    /\ held[p] # << >>
    /\ Ready(p) \/ task[p] = "unwind"
    /\ p \in Helpers => Len(held[p]) > 1 \/ task[p] = "unwind"
    /\ flocks' = Unlocked(p, Last(held[p]).name)
    /\ held' = [held EXCEPT ![p] = Front(@)]
    /\ UNCHANGED <<plan, blocking, task, waits, requests, lends, kills>>

End(p) ==
    /\ p \in Clients
    /\ held[p] = << >>
    /\ Ready(p) \/ task[p] = "unwind"
    /\ task' = [task EXCEPT ![p] = None]
    /\ UNCHANGED <<held, flocks, plan, blocking, waits, requests, lends, kills>>

-----------------------------------------------------------------------------
\* Lent descriptors.

\* duplicate_export_descriptor: no inner lock may be held across the wait.
MayLend(p) == HoldsIn(p, EXPORT, "exclusive") /\ Innermost(p, EXPORT)

Lend(names, p, h) ==
    flocks' = {[f EXCEPT !.refs = IF f.name \in names /\ p \in @ THEN @ \cup {h} ELSE @] : f \in flocks}

LendExport(p, h) ==
    /\ Ready(p) /\ p \in Clients /\ MayLend(p)
    /\ h \in Helpers /\ task[h] = None /\ lends < MaxLends
    /\ lends' = lends + 1
    /\ Lend({EXPORT}, p, h)
    /\ task' = [task EXCEPT ![h] = "offered"]
    /\ waits' = [waits EXCEPT ![p] = h]
    /\ UNCHANGED <<held, plan, blocking, requests, kills>>

\* borrow_export_descriptor: the description must still be locked.
Borrow(h) ==
    /\ task[h] = "offered"
    /\ AssertNext(h, EXPORT)
    /\ \E f \in Description(h, EXPORT) : f.mode = "exclusive"
    /\ held' = [held EXCEPT ![h] = <<[name |-> EXPORT, mode |-> "exclusive"]>>]
    /\ task' = [task EXCEPT ![h] = "run"]
    /\ UNCHANGED <<flocks, plan, blocking, waits, requests, lends, kills>>

\* The waiting client hears of the end, whatever it was.
Answered(h) == waits' = [p \in Procs |-> IF waits[p] = h THEN None ELSE waits[p]]
Closed(h) == {f \in {[g EXCEPT !.refs = @ \ {h}] : g \in flocks} : f.refs # {}}

HelperEnds(h) ==
    /\ h \in Helpers
    /\ \/ Ready(h) /\ Len(held[h]) = 1
       \/ task[h] = "unwind" /\ held[h] = << >>
    /\ flocks' = Closed(h)
    /\ held' = [held EXCEPT ![h] = << >>]
    /\ task' = [task EXCEPT ![h] = None]
    /\ Answered(h)
    /\ requests' = [requests EXCEPT ![h] = 0]
    /\ UNCHANGED <<plan, blocking, lends, kills>>

\* The client's end of the channel breaks; the helper works on.
Disconnect(p) ==
    /\ waits[p] # None /\ task[waits[p]] # "capture"
    /\ waits' = [waits EXCEPT ![p] = None]
    /\ task' = [task EXCEPT ![p] = "unwind"]
    /\ UNCHANGED <<held, flocks, plan, blocking, requests, lends, kills>>

\* duplicate_backup_descriptors and the Restic child that inherits them.
LendBackup(p, c) ==
    /\ Ready(p) /\ p \in Clients
    /\ HoldsIn(p, PUBLICATION, "shared")
    /\ HoldsIn(p, TENANT_STATE, "shared") /\ Innermost(p, TENANT_STATE)
    /\ c \in Helpers /\ task[c] = None /\ lends < MaxLends
    /\ lends' = lends + 1
    /\ Lend({PUBLICATION, TENANT_STATE}, p, c)
    /\ task' = [task EXCEPT ![c] = "capture"]
    /\ waits' = [waits EXCEPT ![p] = c]
    /\ UNCHANGED <<held, plan, blocking, requests, kills>>

\* Mutant of CaptureEnds: the coordinator leaves without reaping its child.
CaptureEndsUnreaped(c) ==
    /\ task[c] = "capture"
    /\ Answered(c)
    /\ UNCHANGED <<held, flocks, plan, blocking, task, requests, lends, kills>>

\* The child finishes, or its coordinator's deadline kills it.
CaptureEnds(c) ==
    /\ task[c] = "capture"
    /\ flocks' = Closed(c)
    /\ task' = [task EXCEPT ![c] = None]
    /\ Answered(c)
    /\ UNCHANGED <<held, plan, blocking, requests, lends, kills>>

-----------------------------------------------------------------------------
\* A killed process closes its descriptors.
Kill(p) ==
    /\ kills < MaxKills
    /\ task[p] # None
    /\ kills' = kills + 1
    /\ flocks' = Closed(p)
    /\ held' = [held EXCEPT ![p] = << >>]
    /\ plan' = [plan EXCEPT ![p] = << >>]
    /\ task' = [task EXCEPT ![p] = None]
    /\ waits' = [q \in Procs |-> IF q = p \/ waits[q] = p THEN None ELSE waits[q]]
    /\ blocking' = [blocking EXCEPT ![p] = FALSE]
    /\ requests' = IF p \in Helpers THEN [requests EXCEPT ![p] = 0] ELSE requests
    /\ UNCHANGED lends

Quiet == \A p \in Procs : task[p] = None
Rest == Quiet /\ (\A p \in Clients : requests[p] = MaxRequests) /\ UNCHANGED vars

Step(p) ==
    \/ Request(p) \/ Acquire(p) \/ Release(p) \/ End(p)
    \/ (\E h \in Helpers : LendExport(p, h) \/ LendBackup(p, h))
    \/ Borrow(p) \/ HelperEnds(p) \/ CaptureEnds(p)

Next ==
    \/ \E p \in Procs : Start(p) \/ Step(p) \/ Disconnect(p) \/ Kill(p)
    \/ Rest

Spec == Init /\ [][Next]_vars
\* A process that can go on does; nobody has to begin, be killed or hang up.
FairSpec == Spec /\ \A p \in Procs : WF_vars(Step(p))
-----------------------------------------------------------------------------
\* Properties

TypeOK ==
    /\ held \in [Procs -> UNION {[1..n -> LockRequest] : n \in 0..4}]
    /\ \A p \in Procs : \A j, k \in DOMAIN held[p] : j < k => held[p][j].name < held[p][k].name
    /\ flocks \subseteq [name : LockName, mode : LockMode, refs : SUBSET Procs]
    /\ waits \in [Procs -> Helpers \cup {None}]
    /\ task \in [Procs -> {"run", "unwind", "offered", "capture", None}]

\* Whom a process waits for: the holders of the lock it is blocked on, or the
\* helper whose answer it reads.
WaitsFor(p) ==
    (IF waits[p] = None THEN {} ELSE {waits[p]})
    \cup (IF plan[p] = << >> \/ ~blocking[p] \/ ~AssertNext(p, Head(plan[p]).name) THEN {}
          ELSE UNION {f.refs : f \in {g \in flocks :
                    /\ g.name = Head(plan[p]).name
                    /\ "exclusive" \in {g.mode, Head(plan[p]).mode}}})

\* No set of processes waits for itself, whatever locks they ask for and in
\* whatever order, and although a client waits for the helper it lent the
\* export lock to (_assert_next, _assert_sequence and the innermost rule of
\* duplicate_export_descriptor).
NoDeadlock ==
    \A S \in (SUBSET Procs) \ {{}} : \E p \in S : WaitsFor(p) \cap S = {}

\* A helper keeps everybody else out of the export slot until it is done, even
\* when the client that lent the lock hung up or was killed (acquire leaves the
\* export lock to the last close).
LeaseExcludes ==
    \A h \in Helpers, p \in Procs :
        /\ Holds(h, EXPORT) /\ p # h /\ Holds(p, EXPORT)
        => \E f \in flocks : f.name = EXPORT /\ {h, p} \subseteq f.refs

\* While Restic reads, nobody changes what it reads, even after its coordinator
\* was killed (the child inherits both shared leases and is reaped before they
\* are unlocked).
CaptureIsStable ==
    \A c \in Helpers : task[c] = "capture" =>
        \A p \in Procs : ~HoldsIn(p, PUBLICATION, "exclusive") /\ ~HoldsIn(p, TENANT_STATE, "exclusive")

\* A registered lock is really locked: require_held tells the truth, in every
\* process, after any sequence of lending, hanging up and killing.
HeldIsLocked ==
    \A p \in Procs : \A k \in DOMAIN held[p] :
        \E f \in flocks : f.name = held[p][k].name /\ f.mode = held[p][k].mode /\ p \in f.refs

\* Every request is eventually granted or given up: nobody waits for ever.
RequestsEnd == \A p \in Procs : plan[p] = << >>
=============================================================================
