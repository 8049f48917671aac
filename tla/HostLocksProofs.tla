--------------------------- MODULE HostLocksProofs ---------------------------
\* Proofs about the host's locks, for every set of clients and helpers and every
\* bound.
\*
\* LeaseExcludes, CaptureIsStable and HeldIsLocked are about descriptions, and a
\* description outlives who opened it; so the invariant says for every reference
\* to a description why it is there (RefsInv), that a description of an inner
\* lock has one owner (RefsInv), and that who lent a lock to a Restic child still
\* waits for it (CaptureInv).
EXTENDS HostLocks, TLAPS
LOCAL INSTANCE SequencesExt

In(s, r) == \E k \in DOMAIN s : s[k] = r
Sorted(s) == \A j, k \in DOMAIN s : j < k => s[j].name < s[k].name

StateInv ==
    /\ held \in [Procs -> Seq(LockRequest)]
    /\ \A p \in Procs : Sorted(held[p])
    /\ flocks \subseteq [name : LockName, mode : LockMode, refs : SUBSET Procs]
    /\ plan \in [Procs -> Seq(LockRequest)]
    /\ task \in [Procs -> {"run", "unwind", "offered", "capture", None}]
    /\ waits \in [Procs -> Helpers \cup {None}]

\* Nobody asks for a shared intake or export lock.
Asked(r) == r.name < PUBLICATION => r.mode = "exclusive"
AskedInv ==
    /\ \A p \in Procs : \A k \in DOMAIN plan[p] : Asked(plan[p][k])
    /\ \A f \in flocks : Asked(f)

\* What a process is doing tells what it may hold, want and wait for.
TaskInv(p) ==
    /\ task[p] \in {None, "offered", "capture"} => held[p] = << >>
    /\ task[p] # "run" => plan[p] = << >> /\ waits[p] = None
    /\ task[p] \in {"offered", "capture"} => p \in Helpers
    /\ p \in Helpers /\ task[p] = "run" =>
        held[p] # << >> /\ held[p][1] = [name |-> EXPORT, mode |-> "exclusive"]
    /\ waits[p] # None =>
        /\ p \in Clients /\ plan[p] = << >> /\ task[waits[p]] # None
        /\ task[waits[p]] # "capture" => Innermost(p, EXPORT)

RefsInv ==
    /\ \A f \in flocks : f.refs # {}
    /\ \A f, g \in flocks : f.name = g.name /\ f # g => f.mode = "shared" /\ g.mode = "shared"
    /\ \A f \in flocks : \A p \in f.refs :
        \/ In(held[p], [name |-> f.name, mode |-> f.mode])
        \/ task[p] = "offered" /\ f.name = EXPORT
        \/ task[p] = "capture" /\ f.name \in {PUBLICATION, TENANT_STATE} /\ f.mode = "shared"
    /\ \A f \in flocks : \A p, q \in f.refs :
        f.name # EXPORT /\ held[p] # << >> /\ held[q] # << >> => p = q

CaptureInv(c) ==
    task[c] = "capture" =>
        /\ \A n \in {PUBLICATION, TENANT_STATE} :
            \E f \in flocks : f.name = n /\ f.mode = "shared" /\ c \in f.refs
        /\ \A f \in flocks : c \in f.refs => \A p \in f.refs \ {c} : waits[p] = c

LocksInv ==
    /\ StateInv /\ AskedInv /\ RefsInv /\ HeldIsLocked
    /\ \A p \in Procs : TaskInv(p) /\ CaptureInv(p)

\* Leaving the innermost `with` of a sorted stack forgets exactly its lock.
LEMMA FrontFacts ==
    ASSUME NEW s \in Seq(LockRequest), s # << >>, Sorted(s)
    PROVE  /\ Front(s) \in Seq(LockRequest) /\ Sorted(Front(s))
           /\ Len(Front(s)) = Len(s) - 1 /\ Last(s) \in LockRequest
           /\ \A k \in DOMAIN Front(s) : k \in DOMAIN s /\ Front(s)[k] = s[k]
           /\ \A r \in LockRequest : In(Front(s), r) <=> In(s, r) /\ r.name # Last(s).name
<1>1. Len(s) \in Nat \ {0} /\ DOMAIN s = 1..Len(s) /\ \A k \in 1..Len(s) : s[k] \in LockRequest
  OBVIOUS
<1>2. /\ Front(s) \in Seq(LockRequest) /\ Len(Front(s)) = Len(s) - 1
      /\ DOMAIN Front(s) = 1..(Len(s) - 1) /\ \A k \in 1..(Len(s) - 1) : Front(s)[k] = s[k]
  BY <1>1 DEF Front
<1>3. Sorted(Front(s))
  BY <1>1, <1>2 DEF Sorted
<1>4. Last(s) = s[Len(s)] /\ Last(s) \in LockRequest
  BY <1>1 DEF Last
<1>5. \A k \in 1..(Len(s) - 1) : s[k].name # Last(s).name
  <2>1. \A r \in LockRequest : r.name \in Nat
    BY DEF LockRequest, LockName, INTAKE, EXPORT, PUBLICATION, TENANT_STATE
  <2> QED
    BY <1>1, <1>4, <2>1 DEF Sorted
<1>6. ASSUME NEW r \in LockRequest
      PROVE  In(Front(s), r) <=> In(s, r) /\ r.name # Last(s).name
  <2>1. ASSUME In(Front(s), r) PROVE In(s, r) /\ r.name # Last(s).name
    BY <1>1, <1>2, <1>5, <2>1 DEF In
  <2>2. ASSUME In(s, r), r.name # Last(s).name PROVE In(Front(s), r)
    BY <1>1, <1>2, <1>4, <2>2 DEF In
  <2> QED
    BY <2>1, <2>2
<1> QED
  BY <1>1, <1>2, <1>3, <1>4, <1>6

\* Entering a `with` adds its lock.
LEMMA AppendFacts ==
    ASSUME NEW s \in Seq(LockRequest), NEW r \in LockRequest, Sorted(s),
           s # << >> => r.name > Last(s).name
    PROVE  /\ Append(s, r) \in Seq(LockRequest) /\ Sorted(Append(s, r))
           /\ Append(s, r) # << >> /\ (s # << >> => Append(s, r)[1] = s[1])
           /\ \A q : In(Append(s, r), q) <=> In(s, q) \/ q = r
<1> DEFINE t == Append(s, r)
<1>1. Len(s) \in Nat /\ DOMAIN s = 1..Len(s) /\ \A k \in 1..Len(s) : s[k] \in LockRequest
  OBVIOUS
<1>2. /\ t \in Seq(LockRequest) /\ DOMAIN t = 1..(Len(s) + 1) /\ Len(t) = Len(s) + 1
      /\ t[Len(s) + 1] = r /\ \A k \in 1..Len(s) : t[k] = s[k]
  OBVIOUS
<1>3. \A q \in LockRequest : q.name \in Nat
  BY DEF LockRequest, LockName, INTAKE, EXPORT, PUBLICATION, TENANT_STATE
<1>4. \A k \in 1..Len(s) : s[k].name < r.name
  <2>1. ASSUME NEW k \in 1..Len(s) PROVE s[k].name < r.name
    <3>1. s # << >> /\ Len(s) >= 1 /\ Last(s) = s[Len(s)] /\ s[Len(s)].name < r.name
      BY <1>1, <1>3 DEF Last
    <3>2. ASSUME k # Len(s) PROVE s[k].name < s[Len(s)].name
      <4>0. k \in Nat /\ k >= 1 /\ k <= Len(s) /\ Len(s) \in Nat
        BY <1>1
      <4>1. k < Len(s) /\ Len(s) \in 1..Len(s)
        BY <3>2, <4>0
      <4>2. DOMAIN s = 1..Len(s)
        BY <1>1
      <4> QED
        BY <4>1, <4>2 DEF Sorted
    <3>3. s[k].name \in Nat /\ s[Len(s)].name \in Nat /\ r.name \in Nat
      BY <1>1, <1>3, <3>1
    <3> QED
      BY <3>1, <3>2, <3>3
  <2> QED
    BY <2>1
<1> HIDE DEF t
<1>5. Sorted(t)
  BY <1>1, <1>2, <1>4 DEF Sorted
<1>6. \A q : In(t, q) <=> In(s, q) \/ q = r
  BY <1>1, <1>2 DEF In
<1>7. t # << >> /\ (s # << >> => t[1] = s[1])
  BY <1>1, <1>2
<1> QED
  BY <1>2, <1>5, <1>6, <1>7 DEF t

\* What a process is doing is kept by steps that leave it and its helper alone.
LEMMA TaskKept ==
    ASSUME LocksInv, NEW q \in Procs,
           held'[q] = held[q], plan'[q] = plan[q], waits'[q] = waits[q], task'[q] = task[q],
           waits[q] # None => /\ task'[waits[q]] # None
                              /\ task'[waits[q]] = "capture" <=> task[waits[q]] = "capture"
    PROVE  TaskInv(q)'
BY DEF LocksInv, TaskInv, Innermost

\* Steps that neither touch a description nor begin or end lending.
LEMMA DescriptionsKept ==
    ASSUME LocksAssumption, LocksInv, StateInv', AskedInv', \A q \in Procs : TaskInv(q)',
           UNCHANGED <<held, flocks>>,
           \A q \in Procs : /\ task'[q] = "offered" <=> task[q] = "offered"
                            /\ task'[q] = "capture" <=> task[q] = "capture",
           \A q \in Procs : waits[q] # None /\ task[waits[q]] = "capture" => waits'[q] = waits[q]
    PROVE  LocksInv'
<1>1. RefsInv'
  BY DEF LocksInv, RefsInv, StateInv
<1>2. HeldIsLocked'
  BY DEF LocksInv, HeldIsLocked
<1>3. ASSUME NEW c \in Procs, task'[c] = "capture" PROVE CaptureInv(c)'
  <2>1. CaptureInv(c) /\ task[c] = "capture" /\ c # None
    BY <1>3 DEF LocksInv, TaskInv, LocksAssumption
  <2>2. ASSUME NEW f \in flocks, c \in f.refs, NEW q \in f.refs \ {c} PROVE waits'[q] = c
    <3>1. q \in Procs /\ waits[q] = c
      BY <2>1, <2>2 DEF CaptureInv, LocksInv, StateInv
    <3> QED
      BY <2>1, <3>1
  <2> QED
    BY <2>1, <2>2 DEF CaptureInv
<1>4. \A c \in Procs : CaptureInv(c)'
  BY <1>3 DEF CaptureInv
<1> QED
  BY <1>1, <1>2, <1>4 DEF LocksInv

LEMMA StartKeeps ==
    ASSUME LocksAssumption, LocksInv, NEW p \in Procs, Start(p)
    PROVE  LocksInv'
<1>1. StateInv /\ TaskInv(p) /\ AskedInv
  BY DEF LocksInv
<1>2. StateInv' /\ AskedInv'
  BY <1>1 DEF Start, StateInv, AskedInv
<1>3. task'[p] = "run" /\ \A q \in Procs \ {p} : task'[q] = task[q]
  BY <1>1 DEF Start, StateInv
<1>4. TaskInv(p)'
  BY <1>1, <1>3 DEF Start, TaskInv, LocksAssumption
<1>5. ASSUME NEW q \in Procs \ {p} PROVE TaskInv(q)'
  <2>1. waits[q] # None => waits[q] \in Procs \ {p} /\ task[waits[q]] # None
    BY <1>1 DEF StateInv, Start, LocksInv, TaskInv, Procs, LocksAssumption
  <2> QED
    BY <1>3, <2>1, TaskKept DEF Start
<1>6. /\ task[p] \notin {"offered", "capture"} /\ UNCHANGED <<held, flocks, waits>>
  BY DEF Start, LocksAssumption
<1> QED
  BY <1>2, <1>3, <1>4, <1>5, <1>6, DescriptionsKept

\* An exception gives up the plan and holds on to the stack.
LEMMA UnwindsKeeps ==
    ASSUME LocksAssumption, LocksInv, NEW p \in Procs, task[p] = "run", waits[p] = None,
           Unwinds(p), UNCHANGED <<held, flocks, waits>>
    PROVE  LocksInv'
<1>1. StateInv /\ TaskInv(p) /\ AskedInv
  BY DEF LocksInv
<1>2. /\ task'[p] = "unwind" /\ plan'[p] = << >>
      /\ \A q \in Procs \ {p} : task'[q] = task[q] /\ plan'[q] = plan[q]
  BY <1>1 DEF Unwinds, StateInv
<1>3. StateInv'
  BY <1>1 DEF Unwinds, StateInv
<1>4. AskedInv'
  BY <1>1, <1>2 DEF AskedInv
<1>5. TaskInv(p)'
  BY <1>1, <1>2 DEF TaskInv, LocksAssumption
<1>6. ASSUME NEW q \in Procs \ {p} PROVE TaskInv(q)'
  <2>1. waits[q] # None => waits[q] \in Procs /\ task[waits[q]] # None
    BY <1>1 DEF LocksInv, TaskInv, StateInv, Procs
  <2> QED
    BY <1>2, <2>1, TaskKept DEF LocksAssumption
<1> QED
  BY <1>2, <1>3, <1>4, <1>5, <1>6, DescriptionsKept DEF LocksAssumption

LEMMA RequestKeeps ==
    ASSUME LocksAssumption, LocksInv, NEW p \in Procs, Request(p)
    PROVE  LocksInv'
<1>1. StateInv /\ TaskInv(p) /\ AskedInv /\ Ready(p) /\ UNCHANGED <<held, flocks, waits>>
  BY DEF LocksInv, Request
<1>2. PICK rs \in RequestSets :
        (plan' = [plan EXCEPT ![p] = rs] /\ UNCHANGED task) \/ Unwinds(p)
  BY DEF Request
<1>3. CASE plan' = [plan EXCEPT ![p] = rs] /\ UNCHANGED task
  <2>1. rs \in Seq(LockRequest) /\ \A k \in DOMAIN rs : Asked(rs[k])
    <3> DEFINE pub == [name |-> PUBLICATION, mode |-> "exclusive"]
               ten == [name |-> TENANT_STATE, mode |-> "exclusive"]
    <3>1. CASE \E r \in LockRequest : Asked(r) /\ rs = <<r>>
      BY <3>1
    <3>2. CASE rs = <<pub, ten>>
      <4>1. pub \in LockRequest /\ ten \in LockRequest /\ Asked(pub) /\ Asked(ten)
        BY DEF LockRequest, LockName, LockMode, Asked
      <4> HIDE DEF pub, ten
      <4> QED
        BY <3>2, <4>1
    <3> QED
      BY <3>1, <3>2 DEF RequestSets, Asked
  <2>2. plan'[p] = rs /\ \A q \in Procs \ {p} : plan'[q] = plan[q]
    BY <1>1, <1>3 DEF StateInv
  <2>3. StateInv'
    BY <1>1, <1>3, <2>1 DEF StateInv
  <2>4. AskedInv'
    BY <1>1, <2>1, <2>2 DEF AskedInv
  <2>5. TaskInv(p)'
    BY <1>1, <1>3 DEF TaskInv, Ready
  <2>6. ASSUME NEW q \in Procs \ {p} PROVE TaskInv(q)'
    <3>1. waits[q] # None => waits[q] \in Procs /\ task[waits[q]] # None
      BY <1>1 DEF StateInv, Procs, LocksInv, TaskInv
    <3> QED
      BY <1>1, <1>3, <2>2, <3>1, TaskKept
  <2> QED
    BY <1>1, <1>3, <2>3, <2>4, <2>5, <2>6, DescriptionsKept
<1>4. CASE Unwinds(p)
  BY <1>1, <1>4, UnwindsKeeps DEF Ready
<1> QED
  BY <1>2, <1>3, <1>4

LEMMA EndKeeps ==
    ASSUME LocksAssumption, LocksInv, NEW p \in Procs, End(p)
    PROVE  LocksInv'
<1>1. StateInv /\ TaskInv(p) /\ AskedInv
  BY DEF LocksInv
<1>2. StateInv' /\ AskedInv'
  BY <1>1 DEF End, StateInv, AskedInv
<1>3. task'[p] = None /\ \A q \in Procs \ {p} : task'[q] = task[q]
  BY <1>1 DEF End, StateInv
<1>4. plan[p] = << >> /\ waits[p] = None /\ held[p] = << >> /\ task[p] \in {"run", "unwind"}
  BY <1>1 DEF End, Ready, TaskInv
<1>5. TaskInv(p)'
  BY <1>1, <1>3, <1>4 DEF End, TaskInv, LocksAssumption
<1>6. ASSUME NEW q \in Procs \ {p} PROVE TaskInv(q)'
  <2>1. waits[q] # None => waits[q] \in Procs \ {p} /\ task[waits[q]] # None
    BY <1>1 DEF StateInv, End, LocksInv, TaskInv, Procs, LocksAssumption
  <2> QED
    BY <1>3, <2>1, TaskKept DEF End
<1> QED
  BY <1>2, <1>3, <1>4, <1>5, <1>6, DescriptionsKept DEF End, LocksAssumption

LEMMA DisconnectKeeps ==
    ASSUME LocksAssumption, LocksInv, NEW p \in Procs, Disconnect(p)
    PROVE  LocksInv'
<1>1. StateInv /\ TaskInv(p) /\ AskedInv
  BY DEF LocksInv
<1>2. StateInv' /\ AskedInv'
  BY <1>1 DEF Disconnect, StateInv, AskedInv
<1>3. /\ task'[p] = "unwind" /\ waits'[p] = None
      /\ \A q \in Procs \ {p} : task'[q] = task[q] /\ waits'[q] = waits[q]
  BY <1>1 DEF Disconnect, StateInv
<1>4. plan[p] = << >> /\ p \in Clients /\ task[p] = "run" /\ task[waits[p]] # "capture"
  BY <1>1 DEF Disconnect, TaskInv
<1>5. TaskInv(p)'
  BY <1>1, <1>3, <1>4 DEF Disconnect, TaskInv, LocksAssumption
<1>6. ASSUME NEW q \in Procs \ {p} PROVE TaskInv(q)'
  <2>1. waits[q] # None => waits[q] \in Procs \ {p} /\ task[waits[q]] # None
    BY <1>1, <1>4 DEF StateInv, LocksInv, TaskInv, Procs, LocksAssumption
  <2> QED
    BY <1>3, <2>1, TaskKept DEF Disconnect
<1> QED
  BY <1>2, <1>3, <1>4, <1>5, <1>6, DescriptionsKept DEF Disconnect

\* A lock is granted: its description is new and has one reference.
LEMMA GrantKeeps ==
    ASSUME LocksAssumption, LocksInv, NEW p \in Procs, plan[p] # << >>,
           NEW r, r = Head(plan[p]), AssertNext(p, r.name), Grantable(r),
           held' = [held EXCEPT ![p] = Append(@, r)],
           flocks' = flocks \cup {[name |-> r.name, mode |-> r.mode, refs |-> {p}]},
           plan' = [plan EXCEPT ![p] = Tail(@)],
           UNCHANGED <<task, waits>>
    PROVE  LocksInv'
<1> DEFINE new == [name |-> r.name, mode |-> r.mode, refs |-> {p}]
<1>1. /\ StateInv /\ TaskInv(p) /\ AskedInv /\ RefsInv /\ HeldIsLocked
      /\ task[p] = "run" /\ waits[p] = None
  BY DEF LocksInv, TaskInv
<1>2. /\ held[p] \in Seq(LockRequest) /\ Sorted(held[p]) /\ plan[p] \in Seq(LockRequest)
      /\ r \in LockRequest /\ r = [name |-> r.name, mode |-> r.mode]
      /\ Tail(plan[p]) \in Seq(LockRequest)
  <2>1. held[p] \in Seq(LockRequest) /\ Sorted(held[p]) /\ plan[p] \in Seq(LockRequest)
    BY <1>1 DEF StateInv
  <2>2. r \in LockRequest /\ Tail(plan[p]) \in Seq(LockRequest)
    BY <2>1
  <2> QED
    BY <2>1, <2>2 DEF LockRequest
<1>3. held[p] # << >> => r.name > Last(held[p]).name
  BY DEF AssertNext
<1>4. /\ held'[p] \in Seq(LockRequest) /\ Sorted(held'[p])
      /\ held'[p] # << >> /\ (held[p] # << >> => held'[p][1] = held[p][1])
      /\ \A q : In(held'[p], q) <=> In(held[p], q) \/ q = r
  BY <1>1, <1>2, <1>3, AppendFacts DEF StateInv
<1>5. /\ plan'[p] = Tail(plan[p])
      /\ \A q \in Procs \ {p} : held'[q] = held[q] /\ plan'[q] = plan[q]
  BY <1>1 DEF StateInv
<1>6. new \in [name : LockName, mode : LockMode, refs : SUBSET Procs]
  BY <1>2 DEF LockRequest
<1>7. StateInv'
  <2>1. held' \in [Procs -> Seq(LockRequest)] /\ plan' \in [Procs -> Seq(LockRequest)]
    BY <1>1, <1>2, <1>4 DEF StateInv
  <2>2. \A q \in Procs : Sorted(held'[q])
    BY <1>1, <1>4, <1>5 DEF StateInv
  <2> QED
    BY <1>1, <1>6, <2>1, <2>2 DEF StateInv
<1>8. AskedInv'
  <2>1. Asked(r) /\ \A k \in DOMAIN Tail(plan[p]) : Asked(Tail(plan[p])[k])
    <3>1. 1 \in DOMAIN plan[p] /\ r = plan[p][1]
      BY <1>2
    <3>2. \A k \in DOMAIN Tail(plan[p]) : k + 1 \in DOMAIN plan[p] /\ Tail(plan[p])[k] = plan[p][k + 1]
      BY <1>2
    <3> QED
      BY <1>1, <3>1, <3>2 DEF AskedInv
  <2>2. Asked(new)
    BY <2>1 DEF Asked
  <2>3. \A q \in Procs : \A k \in DOMAIN plan'[q] : Asked(plan'[q][k])
    BY <1>1, <1>5, <2>1 DEF AskedInv
  <2> QED
    BY <1>1, <2>2, <2>3 DEF AskedInv
<1>9. TaskInv(p)'
  BY <1>1, <1>4 DEF TaskInv, LocksAssumption
<1>10. ASSUME NEW q \in Procs \ {p} PROVE TaskInv(q)'
  <2>1. waits[q] # None => task[waits[q]] # None
    BY DEF LocksInv, TaskInv
  <2> QED
    BY <1>5, <2>1, TaskKept
<1>11. \A f \in flocks : f.name = r.name => p \notin f.refs
  <2>1. ASSUME NEW f \in flocks, p \in f.refs, f.name = r.name PROVE FALSE
    <3>1. In(held[p], [name |-> f.name, mode |-> f.mode])
      BY <1>1, <2>1 DEF RefsInv
    <3> QED
      BY <2>1, <3>1 DEF In, AssertNext, Holds
  <2> QED
    BY <2>1
<1>12. RefsInv'
  <2>1. \A f \in flocks : f.name = new.name => f.mode = "shared" /\ new.mode = "shared"
    BY DEF Grantable
  <2>2. \A f, g \in flocks' : f.name = g.name /\ f # g => f.mode = "shared" /\ g.mode = "shared"
    <3>1. \A f, g \in flocks : f.name = g.name /\ f # g => f.mode = "shared" /\ g.mode = "shared"
      BY <1>1 DEF RefsInv
    <3>2. flocks' = flocks \cup {new}
      OBVIOUS
    <3> HIDE DEF new
    <3> QED
      BY <2>1, <3>1, <3>2
  <2>3. ASSUME NEW f \in flocks', NEW q \in f.refs
        PROVE  \/ In(held'[q], [name |-> f.name, mode |-> f.mode])
               \/ task'[q] = "offered" /\ f.name = EXPORT
               \/ task'[q] = "capture" /\ f.name \in {PUBLICATION, TENANT_STATE} /\ f.mode = "shared"
    <3>1. CASE f = new
      BY <1>2, <1>4, <3>1
    <3>2. CASE f \in flocks
      <4>1. q \in Procs
        BY <1>1, <3>2 DEF StateInv
      <4> QED
        BY <1>1, <1>4, <1>5, <3>2, <4>1 DEF RefsInv
    <3> QED
      BY <3>1, <3>2
  <2>4. ASSUME NEW f \in flocks', NEW q1 \in f.refs, NEW q2 \in f.refs,
               f.name # EXPORT, held'[q1] # << >>, held'[q2] # << >>
        PROVE  q1 = q2
    <3>1. CASE f = new
      BY <3>1
    <3>2. CASE f \in flocks
      <4>1. q1 \in Procs /\ q2 \in Procs
        BY <1>1, <3>2 DEF StateInv
      <4>2. \A q \in Procs : q \in f.refs /\ held'[q] # << >> => held[q] # << >>
        <5>1. ASSUME p \in f.refs PROVE held[p] # << >>
          <6>1. In(held[p], [name |-> f.name, mode |-> f.mode])
            BY <1>1, <3>2, <5>1 DEF RefsInv
          <6> QED
            BY <6>1 DEF In
        <5> QED
          BY <1>5, <5>1
      <4> QED
        BY <1>1, <2>4, <3>2, <4>1, <4>2 DEF RefsInv
    <3> QED
      BY <3>1, <3>2
  <2>5. \A f \in flocks' : f.refs # {}
    BY <1>1 DEF RefsInv
  <2> QED
    BY <2>2, <2>3, <2>4, <2>5 DEF RefsInv
<1>13. HeldIsLocked'
  <2>1. ASSUME NEW q \in Procs, NEW k \in DOMAIN held'[q]
        PROVE  \E f \in flocks' : f.name = held'[q][k].name /\ f.mode = held'[q][k].mode /\ q \in f.refs
    <3>1. CASE q = p
      <4>1. In(held[p], held'[p][k]) \/ held'[p][k] = r
        BY <1>4, <2>1, <3>1 DEF In
      <4>2. CASE held'[p][k] = r
        <5>1. new \in flocks' /\ new.name = r.name /\ new.mode = r.mode /\ p \in new.refs
          OBVIOUS
        <5> QED
          BY <3>1, <4>2, <5>1
      <4>3. CASE In(held[p], held'[p][k])
        BY <1>1, <3>1, <4>3 DEF In, HeldIsLocked
      <4> QED
        BY <4>1, <4>2, <4>3
    <3>2. CASE q # p
      BY <1>1, <1>5, <2>1, <3>2 DEF HeldIsLocked
    <3> QED
      BY <3>1, <3>2
  <2> QED
    BY <2>1 DEF HeldIsLocked
<1>14. ASSUME NEW c \in Procs PROVE CaptureInv(c)'
  BY <1>1 DEF LocksInv, CaptureInv
<1> QED
  BY <1>7, <1>8, <1>9, <1>10, <1>12, <1>13, <1>14 DEF LocksInv

LEMMA AcquireKeeps ==
    ASSUME LocksAssumption, LocksInv, NEW p \in Procs, Acquire(p)
    PROVE  LocksInv'
<1> DEFINE r == Head(plan[p])
<1>1. plan[p] # << >> /\ TaskInv(p) /\ UNCHANGED waits
  BY DEF Acquire, LocksInv
<1>2. task[p] = "run" /\ waits[p] = None
  BY <1>1 DEF TaskInv
<1>3. CASE /\ AssertNext(p, r.name) /\ Grantable(r) /\ UNCHANGED task
           /\ held' = [held EXCEPT ![p] = Append(@, r)]
           /\ flocks' = flocks \cup {[name |-> r.name, mode |-> r.mode, refs |-> {p}]}
           /\ plan' = [plan EXCEPT ![p] = Tail(@)]
  BY <1>1, <1>3, GrantKeeps
<1>4. CASE Unwinds(p) /\ UNCHANGED <<held, flocks>>
  BY <1>1, <1>2, <1>4, UnwindsKeeps
<1> QED
  BY <1>3, <1>4 DEF Acquire

\* What is left of the descriptions when p leaves lock n: the export lock stays
\* locked for whom it was lent to, an inner one is unlocked for good.
LEMMA UnlockedFacts ==
    ASSUME LocksInv, NEW p \in Procs, NEW n
    PROVE  /\ \A f \in Unlocked(p, n) :
                /\ f.name = n => p \notin f.refs
                /\ \E g \in flocks : /\ f.name = g.name /\ f.mode = g.mode
                                     /\ f.refs \subseteq g.refs /\ (f.name # EXPORT => f = g)
           /\ \A g \in flocks : g.name # n => g \in Unlocked(p, n)
           /\ \A g \in flocks, q \in Procs : g.name = n /\ q \in g.refs /\ q # p
                /\ (n # EXPORT => p \notin g.refs)
                => \E f \in Unlocked(p, n) : f.name = g.name /\ f.mode = g.mode /\ q \in f.refs
           /\ Unlocked(p, n) \subseteq [name : LockName, mode : LockMode, refs : SUBSET Procs]
           /\ \A f, g \in Unlocked(p, n) : f.name = g.name /\ f # g => f.mode = "shared" /\ g.mode = "shared"
           /\ \A f \in Unlocked(p, n) : f.refs # {}
<1>1. /\ flocks \subseteq [name : LockName, mode : LockMode, refs : SUBSET Procs]
      /\ \A f, g \in flocks : f.name = g.name /\ f # g => f.mode = "shared" /\ g.mode = "shared"
      /\ \A f \in flocks : f.refs # {}
  BY DEF LocksInv, StateInv, RefsInv
<1>2. CASE n # EXPORT
  BY <1>1, <1>2 DEF Unlocked, Description
<1>3. CASE n = EXPORT
  <2> DEFINE Cut(g) == [g EXCEPT !.refs = IF g.name = n THEN @ \ {p} ELSE @]
  <2>1. ASSUME NEW g \in flocks
        PROVE  /\ Cut(g) \in [name : LockName, mode : LockMode, refs : SUBSET Procs]
               /\ Cut(g).name = g.name /\ Cut(g).mode = g.mode
               /\ Cut(g).refs = IF g.name = n THEN g.refs \ {p} ELSE g.refs
               /\ g.name # n => Cut(g) = g
    BY <1>1
  <2>2. Unlocked(p, n) = {f \in {Cut(g) : g \in flocks} : f.refs # {}}
    BY <1>3 DEF Unlocked
  <2> HIDE DEF Cut
  <2>3. ASSUME NEW f \in Unlocked(p, n)
        PROVE  \E g \in flocks : f = Cut(g)
    BY <2>2
  <2>4. \A g \in flocks : Cut(g).refs # {} => Cut(g) \in Unlocked(p, n)
    BY <2>2
  <2>5. \A f \in Unlocked(p, n) : f.refs # {}
    BY <2>2
  <2>6. \A f, g \in Unlocked(p, n) : f.name = g.name /\ f # g => f.mode = "shared" /\ g.mode = "shared"
    <3>1. ASSUME NEW f \in Unlocked(p, n), NEW g \in Unlocked(p, n), f.name = g.name, f # g
          PROVE  f.mode = "shared" /\ g.mode = "shared"
      <4>1. PICK f0 \in flocks, g0 \in flocks : f = Cut(f0) /\ g = Cut(g0)
        BY <2>3
      <4>2. f0.name = f.name /\ f0.mode = f.mode /\ g0.name = g.name /\ g0.mode = g.mode
        BY <2>1, <4>1
      <4>3. f0 # g0
        BY <3>1, <4>1
      <4> QED
        BY <1>1, <3>1, <4>2, <4>3
    <3> QED
      BY <3>1
  <2>7. ASSUME NEW f \in Unlocked(p, n)
        PROVE  /\ f \in [name : LockName, mode : LockMode, refs : SUBSET Procs]
               /\ f.name = n => p \notin f.refs
               /\ \E g \in flocks : /\ f.name = g.name /\ f.mode = g.mode
                                    /\ f.refs \subseteq g.refs /\ (f.name # EXPORT => f = g)
    <3>1. PICK g \in flocks : f = Cut(g)
      BY <2>3
    <3> QED
      BY <1>3, <2>1, <3>1
  <2>8. \A g \in flocks : g.name # n => g \in Unlocked(p, n)
    BY <1>1, <2>1, <2>4
  <2>9. ASSUME NEW g \in flocks, NEW q \in Procs, g.name = n, q \in g.refs, q # p
        PROVE  \E f \in Unlocked(p, n) : f.name = g.name /\ f.mode = g.mode /\ q \in f.refs
    <3>1. q \in Cut(g).refs
      BY <2>1, <2>9
    <3> QED
      BY <2>1, <2>4, <3>1
  <2> QED
    BY <2>5, <2>6, <2>7, <2>8, <2>9
<1> QED
  BY <1>2, <1>3

LEMMA ReleaseKeeps ==
    ASSUME LocksAssumption, LocksInv, NEW p \in Procs, Release(p)
    PROVE  LocksInv'
<1> DEFINE n == Last(held[p]).name
<1>1. /\ StateInv /\ TaskInv(p) /\ AskedInv /\ RefsInv /\ HeldIsLocked
      /\ UNCHANGED <<plan, task, waits>> /\ held[p] # << >>
  BY DEF LocksInv, Release
<1>2. waits[p] = None /\ task[p] \in {"run", "unwind"}
  BY <1>1 DEF Release, Ready, TaskInv
<1>3. held[p] \in Seq(LockRequest) /\ Sorted(held[p])
  BY <1>1 DEF StateInv
<1>4. held'[p] = Front(held[p]) /\ \A q \in Procs \ {p} : held'[q] = held[q]
  BY <1>1 DEF Release, StateInv
<1>5. /\ held'[p] \in Seq(LockRequest) /\ Sorted(held'[p]) /\ Len(held'[p]) = Len(held[p]) - 1
      /\ \A k \in DOMAIN held'[p] : k \in DOMAIN held[p] /\ held'[p][k] = held[p][k]
      /\ \A r \in LockRequest : In(held'[p], r) <=> In(held[p], r) /\ r.name # n
  BY <1>1, <1>3, <1>4, FrontFacts
<1>6. /\ \A f \in flocks' :
           /\ f.name = n => p \notin f.refs
           /\ \E g \in flocks : /\ f.name = g.name /\ f.mode = g.mode
                                /\ f.refs \subseteq g.refs /\ (f.name # EXPORT => f = g)
      /\ \A g \in flocks : g.name # n => g \in flocks'
      /\ \A g \in flocks, q \in Procs : g.name = n /\ q \in g.refs /\ q # p
           /\ (n # EXPORT => p \notin g.refs)
           => \E f \in flocks' : f.name = g.name /\ f.mode = g.mode /\ q \in f.refs
      /\ flocks' \subseteq [name : LockName, mode : LockMode, refs : SUBSET Procs]
      /\ \A f, g \in flocks' : f.name = g.name /\ f # g => f.mode = "shared" /\ g.mode = "shared"
      /\ \A f \in flocks' : f.refs # {}
  <2>1. flocks' = Unlocked(p, n)
    BY DEF Release
  <2> QED
    BY <2>1, UnlockedFacts
<1>7. \A q \in Procs : held'[q] # << >> => held[q] # << >>
  BY <1>1, <1>4
<1> HIDE DEF n
<1>8. StateInv'
  <2>1. held' \in [Procs -> Seq(LockRequest)]
    BY <1>1, <1>4, <1>5 DEF StateInv, Release
  <2> QED
    BY <1>1, <1>4, <1>5, <1>6, <2>1 DEF StateInv
<1>9. AskedInv'
  BY <1>1, <1>6 DEF AskedInv, Asked
<1>10. TaskInv(p)'
  <2>1. ASSUME p \in Helpers, task[p] = "run"
        PROVE  held'[p] # << >> /\ held'[p][1] = held[p][1]
    <3>1. Len(held[p]) \in Nat /\ Len(held[p]) > 1
      BY <1>3, <2>1 DEF Release
    <3>2. Len(held'[p]) \in Nat /\ Len(held'[p]) >= 1
      BY <1>5, <3>1
    <3>3. held'[p] # << >> /\ 1 \in DOMAIN held'[p]
      BY <1>5, <3>2
    <3> QED
      BY <1>5, <3>3
  <2> QED
    BY <1>1, <1>2, <2>1 DEF TaskInv, LocksAssumption
<1>11. ASSUME NEW q \in Procs \ {p} PROVE TaskInv(q)'
  <2>1. waits[q] # None => task[waits[q]] # None
    BY DEF LocksInv, TaskInv
  <2> QED
    BY <1>1, <1>4, <2>1, TaskKept
<1>12. RefsInv'
  <2>1. ASSUME NEW f \in flocks', NEW q \in f.refs
        PROVE  \/ In(held'[q], [name |-> f.name, mode |-> f.mode])
               \/ task'[q] = "offered" /\ f.name = EXPORT
               \/ task'[q] = "capture" /\ f.name \in {PUBLICATION, TENANT_STATE} /\ f.mode = "shared"
    <3>1. PICK g \in flocks : f.name = g.name /\ f.mode = g.mode /\ f.refs \subseteq g.refs
      BY <1>6, <2>1
    <3>2. q \in Procs /\ q \in g.refs /\ [name |-> f.name, mode |-> f.mode] \in LockRequest
      BY <1>6, <2>1, <3>1 DEF LockRequest
    <3>3. \/ In(held[q], [name |-> f.name, mode |-> f.mode])
          \/ task[q] = "offered" /\ f.name = EXPORT
          \/ task[q] = "capture" /\ f.name \in {PUBLICATION, TENANT_STATE} /\ f.mode = "shared"
      BY <1>1, <3>1, <3>2 DEF RefsInv
    <3>4. CASE q = p
      <4>1. f.name # n /\ In(held[p], [name |-> f.name, mode |-> f.mode])
        BY <1>2, <1>6, <2>1, <3>3, <3>4 DEF LocksAssumption
      <4> QED
        BY <1>5, <3>2, <3>4, <4>1
    <3>5. CASE q # p
      BY <1>1, <1>4, <3>2, <3>3, <3>5
    <3> QED
      BY <3>4, <3>5
  <2>2. ASSUME NEW f \in flocks', NEW q1 \in f.refs, NEW q2 \in f.refs,
               f.name # EXPORT, held'[q1] # << >>, held'[q2] # << >>
        PROVE  q1 = q2
    <3>1. f \in flocks /\ q1 \in Procs /\ q2 \in Procs
      BY <1>6, <2>2
    <3> QED
      BY <1>1, <1>7, <2>2, <3>1 DEF RefsInv
  <2> QED
    BY <1>6, <2>1, <2>2 DEF RefsInv
<1>13. HeldIsLocked'
  <2>1. ASSUME NEW q \in Procs, NEW k \in DOMAIN held'[q]
        PROVE  \E f \in flocks' : f.name = held'[q][k].name /\ f.mode = held'[q][k].mode /\ q \in f.refs
    <3>1. k \in DOMAIN held[q] /\ held'[q][k] = held[q][k]
      BY <1>4, <1>5
    <3>2. PICK g \in flocks : g.name = held[q][k].name /\ g.mode = held[q][k].mode /\ q \in g.refs
      BY <1>1, <3>1 DEF HeldIsLocked
    <3>3. CASE g.name # n
      BY <1>6, <3>1, <3>2, <3>3
    <3>4. CASE g.name = n /\ q = p
      <4>1. held'[p][k] \in LockRequest /\ In(held'[p], held'[p][k])
        BY <1>5, <3>4 DEF In
      <4> QED
        BY <1>5, <3>1, <3>2, <3>4, <4>1
    <3>5. CASE g.name = n /\ q # p
      <4>1. held[q] # << >> /\ held[p] # << >>
        BY <1>1, <3>1
      <4>2. n # EXPORT => p \notin g.refs
        BY <1>1, <3>2, <3>5, <4>1 DEF RefsInv
      <4> QED
        BY <1>6, <3>1, <3>2, <3>5, <4>2
    <3> QED
      BY <3>3, <3>4, <3>5
  <2> QED
    BY <2>1 DEF HeldIsLocked
<1>14. ASSUME NEW c \in Procs, task[c] = "capture" PROVE CaptureInv(c)'
  <2>1. CaptureInv(c) /\ c \in Helpers /\ c # None
    BY <1>14 DEF LocksInv, TaskInv, LocksAssumption
  <2>2. c # p
    BY <1>2, <1>14
  <2>3. ASSUME NEW m \in {PUBLICATION, TENANT_STATE}
        PROVE  \E f \in flocks' : f.name = m /\ f.mode = "shared" /\ c \in f.refs
    <3>1. PICK g \in flocks : g.name = m /\ g.mode = "shared" /\ c \in g.refs
      BY <1>14, <2>1 DEF CaptureInv
    <3>2. p \notin g.refs
      BY <1>2, <1>14, <2>1, <2>2, <3>1 DEF CaptureInv
    <3> QED
      BY <1>6, <2>2, <3>1, <3>2
  <2>4. ASSUME NEW f \in flocks', c \in f.refs, NEW q \in f.refs \ {c} PROVE waits'[q] = c
    <3>1. PICK g \in flocks : f.refs \subseteq g.refs
      BY <1>6, <2>4
    <3> QED
      BY <1>1, <1>14, <2>1, <2>4, <3>1 DEF CaptureInv
  <2> QED
    BY <2>3, <2>4 DEF CaptureInv
<1>15. \A c \in Procs : CaptureInv(c)'
  BY <1>1, <1>14 DEF CaptureInv
<1> QED
  BY <1>8, <1>9, <1>10, <1>11, <1>12, <1>13, <1>15 DEF LocksInv

\* A lent descriptor is one more reference to the same description.
LEMMA LendFacts ==
    ASSUME LocksInv, NEW names, NEW p \in Procs, NEW h \in Procs, Lend(names, p, h)
    PROVE  /\ \A f \in flocks' : \E g \in flocks :
                /\ f.name = g.name /\ f.mode = g.mode
                /\ f.refs = IF g.name \in names /\ p \in g.refs THEN g.refs \cup {h} ELSE g.refs
           /\ \A g \in flocks : \E f \in flocks' :
                /\ f.name = g.name /\ f.mode = g.mode
                /\ f.refs = IF g.name \in names /\ p \in g.refs THEN g.refs \cup {h} ELSE g.refs
           /\ flocks' \subseteq [name : LockName, mode : LockMode, refs : SUBSET Procs]
           /\ \A f, g \in flocks' : f.name = g.name /\ f # g => f.mode = "shared" /\ g.mode = "shared"
           /\ \A f \in flocks' : f.refs # {}
<1>1. /\ flocks \subseteq [name : LockName, mode : LockMode, refs : SUBSET Procs]
      /\ \A f, g \in flocks : f.name = g.name /\ f # g => f.mode = "shared" /\ g.mode = "shared"
      /\ \A f \in flocks : f.refs # {}
  BY DEF LocksInv, StateInv, RefsInv
<1> DEFINE Lent(f) == [f EXCEPT !.refs = IF f.name \in names /\ p \in @ THEN @ \cup {h} ELSE @]
<1>2. flocks' = {Lent(f) : f \in flocks}
  BY DEF Lend
<1>3. ASSUME NEW g \in flocks
      PROVE  /\ Lent(g) \in [name : LockName, mode : LockMode, refs : SUBSET Procs]
             /\ Lent(g).name = g.name /\ Lent(g).mode = g.mode
             /\ Lent(g).refs = IF g.name \in names /\ p \in g.refs THEN g.refs \cup {h} ELSE g.refs
  BY <1>1
<1> HIDE DEF Lent
<1>4. \A f \in flocks' : \E g \in flocks : f = Lent(g)
  BY <1>2
<1>5. \A g \in flocks : Lent(g) \in flocks'
  BY <1>2
<1>6. \A f, g \in flocks' : f.name = g.name /\ f # g => f.mode = "shared" /\ g.mode = "shared"
  <2>1. ASSUME NEW f \in flocks', NEW g \in flocks', f.name = g.name, f # g
        PROVE  f.mode = "shared" /\ g.mode = "shared"
    <3>1. PICK f0 \in flocks, g0 \in flocks : f = Lent(f0) /\ g = Lent(g0)
      BY <1>4
    <3>2. f0.name = f.name /\ f0.mode = f.mode /\ g0.name = g.name /\ g0.mode = g.mode
      BY <1>3, <3>1
    <3>3. f0 # g0
      BY <2>1, <3>1
    <3> QED
      BY <1>1, <2>1, <3>2, <3>3
  <2> QED
    BY <2>1
<1>7. ASSUME NEW f \in flocks'
      PROVE  /\ f \in [name : LockName, mode : LockMode, refs : SUBSET Procs] /\ f.refs # {}
             /\ \E g \in flocks :
                  /\ f.name = g.name /\ f.mode = g.mode
                  /\ f.refs = IF g.name \in names /\ p \in g.refs THEN g.refs \cup {h} ELSE g.refs
  <2>1. PICK g \in flocks : f = Lent(g)
    BY <1>4
  <2>2. f.refs = IF g.name \in names /\ p \in g.refs THEN g.refs \cup {h} ELSE g.refs
    BY <1>3, <2>1
  <2>3. f.refs # {}
    BY <1>1, <2>2
  <2> QED
    BY <1>3, <2>1, <2>2, <2>3
<1> QED
  BY <1>3, <1>5, <1>6, <1>7

\* Who does nothing has no reference to any description.
LEMMA IdleUnreferenced ==
    ASSUME LocksAssumption, LocksInv, NEW h \in Procs, task[h] = None
    PROVE  /\ held[h] = << >> /\ plan[h] = << >> /\ waits[h] = None
           /\ \A f \in flocks : h \notin f.refs
           /\ \A q \in Procs : waits[q] # h \/ h = None
<1>1. held[h] = << >> /\ plan[h] = << >> /\ waits[h] = None
  BY DEF LocksInv, TaskInv, LocksAssumption
<1>2. \A r : ~In(held[h], r)
  BY <1>1 DEF In
<1>3. \A f \in flocks : h \notin f.refs
  BY <1>2 DEF LocksInv, RefsInv, LocksAssumption
<1>4. \A q \in Procs : waits[q] # h \/ h = None
  BY DEF LocksInv, TaskInv
<1> QED
  BY <1>1, <1>3, <1>4

LEMMA LendExportKeeps ==
    ASSUME LocksAssumption, LocksInv, NEW p \in Procs, NEW h \in Helpers, LendExport(p, h)
    PROVE  LocksInv'
<1>1. /\ StateInv /\ TaskInv(p) /\ AskedInv /\ RefsInv /\ HeldIsLocked /\ h \in Procs /\ h # None
      /\ UNCHANGED <<held, plan>> /\ p \in Clients /\ waits[p] = None /\ task[p] = "run" /\ plan[p] = << >>
      /\ Innermost(p, EXPORT) /\ task[h] = None /\ p # h
  BY DEF LocksInv, LendExport, Ready, MayLend, Procs, LocksAssumption
<1>2. /\ held[h] = << >> /\ plan[h] = << >> /\ waits[h] = None
      /\ \A f \in flocks : h \notin f.refs
      /\ \A q \in Procs : waits[q] # h
  BY <1>1, IdleUnreferenced
<1>3. /\ task'[h] = "offered" /\ waits'[p] = h
      /\ \A q \in Procs \ {h} : task'[q] = task[q]
      /\ \A q \in Procs \ {p} : waits'[q] = waits[q]
  BY <1>1 DEF LendExport, StateInv
<1>4. /\ \A f \in flocks' : \E g \in flocks :
           /\ f.name = g.name /\ f.mode = g.mode
           /\ f.refs = IF g.name \in {EXPORT} /\ p \in g.refs THEN g.refs \cup {h} ELSE g.refs
      /\ \A g \in flocks : \E f \in flocks' :
           /\ f.name = g.name /\ f.mode = g.mode
           /\ f.refs = IF g.name \in {EXPORT} /\ p \in g.refs THEN g.refs \cup {h} ELSE g.refs
      /\ flocks' \subseteq [name : LockName, mode : LockMode, refs : SUBSET Procs]
      /\ \A f, g \in flocks' : f.name = g.name /\ f # g => f.mode = "shared" /\ g.mode = "shared"
      /\ \A f \in flocks' : f.refs # {}
  <2>1. Lend({EXPORT}, p, h)
    BY DEF LendExport
  <2> QED
    BY <1>1, <2>1, LendFacts
<1>5. StateInv'
  BY <1>1, <1>4 DEF StateInv, LendExport
<1>6. AskedInv'
  <2>1. ASSUME NEW f \in flocks' PROVE Asked(f)
    <3>1. PICK g \in flocks : f.name = g.name /\ f.mode = g.mode
      BY <1>4
    <3> QED
      BY <1>1, <3>1 DEF AskedInv, Asked
  <2> QED
    BY <1>1, <2>1 DEF AskedInv
<1>7. TaskInv(p)' /\ TaskInv(h)'
  BY <1>1, <1>2, <1>3 DEF TaskInv, Innermost, LocksAssumption
<1>8. ASSUME NEW q \in Procs \ {p, h} PROVE TaskInv(q)'
  <2>1. waits[q] # None => waits[q] \in Procs \ {h} /\ task[waits[q]] # None
    BY <1>1, <1>2 DEF LocksInv, TaskInv, StateInv, Procs
  <2> QED
    BY <1>1, <1>3, <2>1, TaskKept
<1>9. RefsInv'
  <2>1. ASSUME NEW f \in flocks', NEW q \in f.refs
        PROVE  \/ In(held'[q], [name |-> f.name, mode |-> f.mode])
               \/ task'[q] = "offered" /\ f.name = EXPORT
               \/ task'[q] = "capture" /\ f.name \in {PUBLICATION, TENANT_STATE} /\ f.mode = "shared"
    <3>1. PICK g \in flocks :
            /\ f.name = g.name /\ f.mode = g.mode
            /\ f.refs = IF g.name \in {EXPORT} /\ p \in g.refs THEN g.refs \cup {h} ELSE g.refs
      BY <1>4
    <3>2. CASE q \in g.refs
      <4>1. q \in Procs \ {h}
        BY <1>2, <1>4, <3>2
      <4> QED
        BY <1>1, <1>3, <3>1, <3>2, <4>1 DEF RefsInv
    <3>3. CASE q \notin g.refs
      BY <1>3, <2>1, <3>1, <3>3
    <3> QED
      BY <3>2, <3>3
  <2>2. ASSUME NEW f \in flocks', NEW q1 \in f.refs, NEW q2 \in f.refs,
               f.name # EXPORT, held'[q1] # << >>, held'[q2] # << >>
        PROVE  q1 = q2
    <3>1. PICK g \in flocks : f.name = g.name /\ f.refs = g.refs
      BY <1>4, <2>2
    <3> QED
      BY <1>1, <2>2, <3>1 DEF RefsInv
  <2> QED
    BY <1>4, <2>1, <2>2 DEF RefsInv
<1>10. HeldIsLocked'
  <2>1. ASSUME NEW q \in Procs, NEW k \in DOMAIN held[q]
        PROVE  \E f \in flocks' : f.name = held[q][k].name /\ f.mode = held[q][k].mode /\ q \in f.refs
    <3>1. PICK g \in flocks : g.name = held[q][k].name /\ g.mode = held[q][k].mode /\ q \in g.refs
      BY <1>1 DEF HeldIsLocked
    <3>2. PICK f \in flocks' :
            /\ f.name = g.name /\ f.mode = g.mode
            /\ f.refs = IF g.name \in {EXPORT} /\ p \in g.refs THEN g.refs \cup {h} ELSE g.refs
      BY <1>4
    <3> QED
      BY <3>1, <3>2
  <2> QED
    BY <1>1, <2>1 DEF HeldIsLocked
<1>11. ASSUME NEW c \in Procs, task'[c] = "capture" PROVE CaptureInv(c)'
  <2>1. CaptureInv(c) /\ TaskInv(c) /\ c # h /\ c # p /\ task[c] = "capture" /\ c # None
    BY <1>1, <1>3, <1>11 DEF LocksInv, TaskInv, LocksAssumption
  <2>2. ASSUME NEW m \in {PUBLICATION, TENANT_STATE}
        PROVE  \E f \in flocks' : f.name = m /\ f.mode = "shared" /\ c \in f.refs
    <3>1. PICK g \in flocks : g.name = m /\ g.mode = "shared" /\ c \in g.refs
      BY <2>1 DEF CaptureInv
    <3> QED
      BY <1>4, <3>1
  <2>3. ASSUME NEW f \in flocks', c \in f.refs, NEW q \in f.refs \ {c} PROVE waits'[q] = c
    <3>1. PICK g \in flocks :
            /\ f.name = g.name /\ f.mode = g.mode
            /\ f.refs = IF g.name \in {EXPORT} /\ p \in g.refs THEN g.refs \cup {h} ELSE g.refs
      BY <1>4
    <3>2. c \in g.refs
      BY <2>1, <2>3, <3>1
    <3>3. p \notin g.refs
      BY <1>1, <2>1, <3>2 DEF CaptureInv
    <3>4. q \in g.refs \ {c, p} /\ q \in Procs /\ waits[q] = c
      BY <1>4, <2>1, <2>3, <3>1, <3>2, <3>3 DEF CaptureInv
    <3> QED
      BY <1>3, <3>4
  <2> QED
    BY <2>2, <2>3 DEF CaptureInv
<1>12. \A c \in Procs : CaptureInv(c)'
  BY <1>11 DEF CaptureInv
<1> QED
  BY <1>5, <1>6, <1>7, <1>8, <1>9, <1>10, <1>12 DEF LocksInv

LEMMA LendBackupKeeps ==
    ASSUME LocksAssumption, LocksInv, NEW p \in Procs, NEW h \in Helpers, LendBackup(p, h)
    PROVE  LocksInv'
<1> DEFINE inner == {PUBLICATION, TENANT_STATE}
<1>1. /\ StateInv /\ TaskInv(p) /\ AskedInv /\ RefsInv /\ HeldIsLocked /\ h \in Procs /\ h # None
      /\ UNCHANGED <<held, plan>> /\ p \in Clients /\ waits[p] = None /\ task[p] = "run" /\ plan[p] = << >>
      /\ \A n \in inner : HoldsIn(p, n, "shared")
      /\ task[h] = None /\ p # h
  BY DEF LocksInv, LendBackup, Ready, Procs, LocksAssumption
<1>2. /\ held[h] = << >> /\ plan[h] = << >> /\ waits[h] = None
      /\ \A f \in flocks : h \notin f.refs
      /\ \A q \in Procs : waits[q] # h
  BY <1>1, IdleUnreferenced
<1>3. /\ task'[h] = "capture" /\ waits'[p] = h
      /\ \A q \in Procs \ {h} : task'[q] = task[q]
      /\ \A q \in Procs \ {p} : waits'[q] = waits[q]
  BY <1>1 DEF LendBackup, StateInv
<1>4. /\ \A f \in flocks' : \E g \in flocks :
           /\ f.name = g.name /\ f.mode = g.mode
           /\ f.refs = IF g.name \in inner /\ p \in g.refs THEN g.refs \cup {h} ELSE g.refs
      /\ \A g \in flocks : \E f \in flocks' :
           /\ f.name = g.name /\ f.mode = g.mode
           /\ f.refs = IF g.name \in inner /\ p \in g.refs THEN g.refs \cup {h} ELSE g.refs
      /\ flocks' \subseteq [name : LockName, mode : LockMode, refs : SUBSET Procs]
      /\ \A f, g \in flocks' : f.name = g.name /\ f # g => f.mode = "shared" /\ g.mode = "shared"
      /\ \A f \in flocks' : f.refs # {}
  <2>1. Lend(inner, p, h)
    BY DEF LendBackup
  <2> QED
    BY <1>1, <2>1, LendFacts
<1>5. StateInv'
  BY <1>1, <1>4 DEF StateInv, LendBackup
<1>6. AskedInv'
  <2>1. ASSUME NEW f \in flocks' PROVE Asked(f)
    <3>1. PICK g \in flocks : f.name = g.name /\ f.mode = g.mode
      BY <1>4
    <3> QED
      BY <1>1, <3>1 DEF AskedInv, Asked
  <2> QED
    BY <1>1, <2>1 DEF AskedInv
<1>7. TaskInv(p)' /\ TaskInv(h)'
  BY <1>1, <1>2, <1>3 DEF TaskInv, LocksAssumption
<1>8. ASSUME NEW q \in Procs \ {p, h} PROVE TaskInv(q)'
  <2>1. waits[q] # None => waits[q] \in Procs \ {h} /\ task[waits[q]] # None
    BY <1>1, <1>2 DEF LocksInv, TaskInv, StateInv, Procs
  <2> QED
    BY <1>1, <1>3, <2>1, TaskKept
\* The description lent is p's own, is shared and has no other reference.
<1>9. ASSUME NEW g \in flocks, g.name \in inner, p \in g.refs
      PROVE  g.mode = "shared" /\ g.refs = {p}
  <2>1. PICK k \in DOMAIN held[p] : held[p][k] = [name |-> g.name, mode |-> "shared"]
    BY <1>1, <1>9 DEF HoldsIn
  <2>2. In(held[p], [name |-> g.name, mode |-> g.mode])
    BY <1>1, <1>9 DEF RefsInv, LocksAssumption
  <2>3. PICK l \in DOMAIN held[p] : held[p][l] = [name |-> g.name, mode |-> g.mode]
    BY <2>2 DEF In
  <2>4. k \in Nat /\ l \in Nat /\ Sorted(held[p]) /\ g.name \in Nat
    BY <1>1, <1>9, <2>1, <2>3 DEF StateInv, PUBLICATION, TENANT_STATE
  <2>5. held[p][k].name = g.name /\ held[p][l].name = g.name
    BY <2>1, <2>3
  <2>6. k = l
    BY <2>1, <2>3, <2>4, <2>5 DEF Sorted
  <2>7. g.mode = "shared"
    BY <2>1, <2>3, <2>6
  <2>8. ASSUME NEW q \in g.refs, q # p PROVE FALSE
    <3>1. q \in Procs /\ held[p] # << >> /\ g.name # EXPORT
      BY <1>1, <1>9, <2>1 DEF StateInv, PUBLICATION, TENANT_STATE, EXPORT
    <3>2. held[q] = << >>
      BY <1>1, <1>9, <2>8, <3>1 DEF RefsInv
    <3>3. \A r : ~In(held[q], r)
      BY <3>2 DEF In
    <3>4. task[q] = "capture"
      BY <1>1, <2>8, <3>1, <3>3 DEF RefsInv
    <3>5. CaptureInv(q) /\ q # None
      BY <3>1, <3>4 DEF LocksInv, TaskInv, LocksAssumption
    <3> QED
      BY <1>1, <1>9, <2>8, <3>4, <3>5 DEF CaptureInv
  <2> QED
    BY <1>9, <2>7, <2>8
<1>10. RefsInv'
  <2>1. ASSUME NEW f \in flocks', NEW q \in f.refs
        PROVE  \/ In(held'[q], [name |-> f.name, mode |-> f.mode])
               \/ task'[q] = "offered" /\ f.name = EXPORT
               \/ task'[q] = "capture" /\ f.name \in {PUBLICATION, TENANT_STATE} /\ f.mode = "shared"
    <3>1. PICK g \in flocks :
            /\ f.name = g.name /\ f.mode = g.mode
            /\ f.refs = IF g.name \in inner /\ p \in g.refs THEN g.refs \cup {h} ELSE g.refs
      BY <1>4
    <3>2. CASE q \in g.refs
      <4>1. q \in Procs \ {h}
        BY <1>2, <1>4, <3>2
      <4> QED
        BY <1>1, <1>3, <3>1, <3>2, <4>1 DEF RefsInv
    <3>3. CASE q \notin g.refs
      BY <1>3, <1>9, <2>1, <3>1, <3>3
    <3> QED
      BY <3>2, <3>3
  <2>2. ASSUME NEW f \in flocks', NEW q1 \in f.refs, NEW q2 \in f.refs,
               f.name # EXPORT, held'[q1] # << >>, held'[q2] # << >>
        PROVE  q1 = q2
    <3>1. PICK g \in flocks : f.name = g.name /\ f.refs \subseteq g.refs \cup {h}
      BY <1>4, <2>2
    <3>2. q1 \in g.refs /\ q2 \in g.refs
      BY <1>1, <1>2, <2>2, <3>1
    <3> QED
      BY <1>1, <2>2, <3>1, <3>2 DEF RefsInv
  <2> QED
    BY <1>4, <2>1, <2>2 DEF RefsInv
<1>11. HeldIsLocked'
  <2>1. ASSUME NEW q \in Procs, NEW k \in DOMAIN held[q]
        PROVE  \E f \in flocks' : f.name = held[q][k].name /\ f.mode = held[q][k].mode /\ q \in f.refs
    <3>1. PICK g \in flocks : g.name = held[q][k].name /\ g.mode = held[q][k].mode /\ q \in g.refs
      BY <1>1 DEF HeldIsLocked
    <3>2. PICK f \in flocks' :
            /\ f.name = g.name /\ f.mode = g.mode
            /\ f.refs = IF g.name \in inner /\ p \in g.refs THEN g.refs \cup {h} ELSE g.refs
      BY <1>4
    <3> QED
      BY <3>1, <3>2
  <2> QED
    BY <1>1, <2>1 DEF HeldIsLocked
<1>12. CaptureInv(h)'
  <2>1. ASSUME NEW m \in inner
        PROVE  \E f \in flocks' : f.name = m /\ f.mode = "shared" /\ h \in f.refs
    <3>1. PICK k \in DOMAIN held[p] : held[p][k] = [name |-> m, mode |-> "shared"]
      BY <1>1 DEF HoldsIn
    <3>2. PICK g \in flocks : g.name = m /\ g.mode = "shared" /\ p \in g.refs
      BY <1>1, <3>1 DEF HeldIsLocked
    <3>3. PICK f \in flocks' :
            /\ f.name = g.name /\ f.mode = g.mode
            /\ f.refs = IF g.name \in inner /\ p \in g.refs THEN g.refs \cup {h} ELSE g.refs
      BY <1>4
    <3> QED
      BY <3>2, <3>3
  <2>2. ASSUME NEW f \in flocks', h \in f.refs, NEW q \in f.refs \ {h} PROVE waits'[q] = h
    <3>1. PICK g \in flocks :
            /\ f.name = g.name /\ f.mode = g.mode
            /\ f.refs = IF g.name \in inner /\ p \in g.refs THEN g.refs \cup {h} ELSE g.refs
      BY <1>4
    <3>2. g.name \in inner /\ p \in g.refs
      BY <1>2, <2>2, <3>1
    <3> QED
      BY <1>3, <1>9, <2>2, <3>1, <3>2
  <2> QED
    BY <2>1, <2>2 DEF CaptureInv
<1>13. ASSUME NEW c \in Procs \ {h}, task'[c] = "capture" PROVE CaptureInv(c)'
  <2>1. CaptureInv(c) /\ c # p /\ task[c] = "capture" /\ c # None
    BY <1>1, <1>3, <1>13 DEF LocksInv, TaskInv, LocksAssumption
  <2>2. ASSUME NEW m \in {PUBLICATION, TENANT_STATE}
        PROVE  \E f \in flocks' : f.name = m /\ f.mode = "shared" /\ c \in f.refs
    <3>1. PICK g \in flocks : g.name = m /\ g.mode = "shared" /\ c \in g.refs
      BY <2>1 DEF CaptureInv
    <3> QED
      BY <1>4, <3>1
  <2>3. ASSUME NEW f \in flocks', c \in f.refs, NEW q \in f.refs \ {c} PROVE waits'[q] = c
    <3>1. PICK g \in flocks :
            /\ f.name = g.name /\ f.mode = g.mode
            /\ f.refs = IF g.name \in inner /\ p \in g.refs THEN g.refs \cup {h} ELSE g.refs
      BY <1>4
    <3>2. c \in g.refs
      BY <1>13, <2>3, <3>1
    <3>3. p \notin g.refs
      BY <1>1, <2>1, <3>2 DEF CaptureInv
    <3>4. q \in g.refs \ {c, p} /\ q \in Procs /\ waits[q] = c
      BY <1>4, <2>1, <2>3, <3>1, <3>2, <3>3 DEF CaptureInv
    <3> QED
      BY <1>3, <3>4
  <2> QED
    BY <2>2, <2>3 DEF CaptureInv
<1>14. \A c \in Procs : CaptureInv(c)'
  BY <1>12, <1>13 DEF CaptureInv
<1> QED
  BY <1>5, <1>6, <1>7, <1>8, <1>10, <1>11, <1>14 DEF LocksInv

LEMMA BorrowKeeps ==
    ASSUME LocksAssumption, LocksInv, NEW h \in Procs, Borrow(h)
    PROVE  LocksInv'
<1> DEFINE lease == [name |-> EXPORT, mode |-> "exclusive"]
<1>1. /\ StateInv /\ TaskInv(h) /\ AskedInv /\ RefsInv /\ HeldIsLocked
      /\ UNCHANGED <<flocks, plan, waits>> /\ task[h] = "offered"
  BY DEF LocksInv, Borrow
<1>2. held[h] = << >> /\ plan[h] = << >> /\ waits[h] = None /\ h \in Helpers
  BY <1>1 DEF TaskInv
<1>3. /\ held'[h] = <<lease>> /\ task'[h] = "run"
      /\ \A q \in Procs \ {h} : held'[q] = held[q] /\ task'[q] = task[q]
  BY <1>1 DEF Borrow, StateInv
<1>4. /\ lease \in LockRequest /\ <<lease>> \in Seq(LockRequest)
      /\ DOMAIN <<lease>> = {1} /\ <<lease>>[1] = lease /\ Sorted(<<lease>>)
  BY DEF LockRequest, LockName, LockMode, Sorted
<1>5. \A r : ~In(held[h], r)
  BY <1>2 DEF In
<1>6. \A f \in flocks : h \in f.refs => f.name = EXPORT /\ f.mode = "exclusive"
  <2>1. \A f \in flocks : h \in f.refs => f.name = EXPORT
    BY <1>1, <1>5 DEF RefsInv
  <2> QED
    BY <1>1, <2>1 DEF AskedInv, Asked, EXPORT, PUBLICATION
<1> HIDE DEF lease
<1>7. StateInv'
  <2>1. held' \in [Procs -> Seq(LockRequest)] /\ \A q \in Procs : Sorted(held'[q])
    BY <1>1, <1>3, <1>4 DEF Borrow, StateInv, lease
  <2> QED
    BY <1>1, <2>1 DEF Borrow, StateInv
<1>8. AskedInv'
  BY <1>1 DEF AskedInv
<1>9. TaskInv(h)'
  BY <1>1, <1>2, <1>3, <1>4 DEF TaskInv, lease, LocksAssumption
<1>10. ASSUME NEW q \in Procs \ {h} PROVE TaskInv(q)'
  <2>1. waits[q] # None => waits[q] \in Procs /\ task[waits[q]] # None
    BY <1>1 DEF LocksInv, TaskInv, StateInv, Procs
  <2> QED
    BY <1>1, <1>3, <2>1, TaskKept DEF LocksAssumption
<1>11. RefsInv'
  <2>1. ASSUME NEW f \in flocks, NEW q \in f.refs
        PROVE  \/ In(held'[q], [name |-> f.name, mode |-> f.mode])
               \/ task'[q] = "offered" /\ f.name = EXPORT
               \/ task'[q] = "capture" /\ f.name \in {PUBLICATION, TENANT_STATE} /\ f.mode = "shared"
    <3>1. CASE q = h
      <4>1. [name |-> f.name, mode |-> f.mode] = lease /\ In(<<lease>>, lease)
        BY <1>4, <1>6, <3>1 DEF lease, In
      <4> QED
        BY <1>3, <3>1, <4>1
    <3>2. CASE q # h
      <4>1. q \in Procs
        BY <1>1 DEF StateInv
      <4> QED
        BY <1>1, <1>3, <3>2, <4>1 DEF RefsInv
    <3> QED
      BY <3>1, <3>2
  <2>2. ASSUME NEW f \in flocks, NEW q1 \in f.refs, NEW q2 \in f.refs,
               f.name # EXPORT, held'[q1] # << >>, held'[q2] # << >>
        PROVE  q1 = q2
    <3>1. q1 \in Procs \ {h} /\ q2 \in Procs \ {h}
      BY <1>1, <1>6, <2>2 DEF StateInv
    <3> QED
      BY <1>1, <1>3, <2>2, <3>1 DEF RefsInv
  <2> QED
    BY <1>1, <2>1, <2>2 DEF RefsInv
<1>12. HeldIsLocked'
  <2>1. ASSUME NEW k \in DOMAIN held'[h]
        PROVE  \E f \in flocks : f.name = held'[h][k].name /\ f.mode = held'[h][k].mode /\ h \in f.refs
    <3>1. held'[h][k].name = EXPORT /\ held'[h][k].mode = "exclusive"
      BY <1>3, <1>4, <2>1 DEF lease
    <3> QED
      BY <3>1 DEF Borrow, Description
  <2> QED
    BY <1>1, <1>3, <2>1 DEF HeldIsLocked
<1>13. ASSUME NEW c \in Procs PROVE CaptureInv(c)'
  BY <1>1, <1>3 DEF LocksInv, CaptureInv
<1> QED
  BY <1>7, <1>8, <1>9, <1>10, <1>11, <1>12, <1>13 DEF LocksInv

\* A closed descriptor is one reference less; the last one frees the lock.
LEMMA ClosedFacts ==
    ASSUME LocksInv, NEW p \in Procs
    PROVE  /\ \A f \in Closed(p) : \E g \in flocks :
                f.name = g.name /\ f.mode = g.mode /\ f.refs = g.refs \ {p}
           /\ \A g \in flocks : g.refs \ {p} # {} => \E f \in Closed(p) :
                f.name = g.name /\ f.mode = g.mode /\ f.refs = g.refs \ {p}
           /\ Closed(p) \subseteq [name : LockName, mode : LockMode, refs : SUBSET Procs]
           /\ \A f, g \in Closed(p) : f.name = g.name /\ f # g => f.mode = "shared" /\ g.mode = "shared"
           /\ \A f \in Closed(p) : f.refs # {}
<1>1. /\ flocks \subseteq [name : LockName, mode : LockMode, refs : SUBSET Procs]
      /\ \A f, g \in flocks : f.name = g.name /\ f # g => f.mode = "shared" /\ g.mode = "shared"
  BY DEF LocksInv, StateInv, RefsInv
<1> DEFINE Cut(g) == [g EXCEPT !.refs = @ \ {p}]
<1>2. Closed(p) = {f \in {Cut(g) : g \in flocks} : f.refs # {}}
  BY DEF Closed
<1>3. ASSUME NEW g \in flocks
      PROVE  /\ Cut(g) \in [name : LockName, mode : LockMode, refs : SUBSET Procs]
             /\ Cut(g).name = g.name /\ Cut(g).mode = g.mode /\ Cut(g).refs = g.refs \ {p}
  BY <1>1
<1> HIDE DEF Cut
<1>4. \A f \in Closed(p) : f.refs # {} /\ \E g \in flocks : f = Cut(g)
  BY <1>2
<1>5. \A g \in flocks : Cut(g).refs # {} => Cut(g) \in Closed(p)
  BY <1>2
<1> QED
  BY <1>1, <1>3, <1>4, <1>5

\* The end of a process, of whatever kind, closes what it has open.
LEMMA ClosingKeeps ==
    ASSUME LocksAssumption, LocksInv, NEW p \in Procs,
           flocks' = Closed(p),
           held' = [held EXCEPT ![p] = << >>], plan' = [plan EXCEPT ![p] = << >>],
           task' = [task EXCEPT ![p] = None],
           waits' = [q \in Procs |-> IF q = p \/ waits[q] = p THEN None ELSE waits[q]]
    PROVE  LocksInv'
<1>1. StateInv /\ AskedInv /\ RefsInv /\ HeldIsLocked
  BY DEF LocksInv
<1>2. /\ held'[p] = << >> /\ plan'[p] = << >> /\ task'[p] = None /\ waits'[p] = None
      /\ \A q \in Procs \ {p} : /\ held'[q] = held[q] /\ plan'[q] = plan[q] /\ task'[q] = task[q]
                                /\ waits'[q] = IF waits[q] = p THEN None ELSE waits[q]
  BY <1>1 DEF StateInv
<1>3. /\ \A f \in flocks' : \E g \in flocks :
           f.name = g.name /\ f.mode = g.mode /\ f.refs = g.refs \ {p}
      /\ \A g \in flocks : g.refs \ {p} # {} => \E f \in flocks' :
           f.name = g.name /\ f.mode = g.mode /\ f.refs = g.refs \ {p}
      /\ flocks' \subseteq [name : LockName, mode : LockMode, refs : SUBSET Procs]
      /\ \A f, g \in flocks' : f.name = g.name /\ f # g => f.mode = "shared" /\ g.mode = "shared"
      /\ \A f \in flocks' : f.refs # {}
  BY ClosedFacts
<1>4. StateInv'
  <2>1. << >> \in Seq(LockRequest) /\ Sorted(<< >>)
    BY DEF Sorted
  <2>2. /\ held' \in [Procs -> Seq(LockRequest)] /\ plan' \in [Procs -> Seq(LockRequest)]
        /\ task' \in [Procs -> {"run", "unwind", "offered", "capture", None}]
        /\ waits' \in [Procs -> Helpers \cup {None}]
    BY <1>1, <2>1 DEF StateInv
  <2>3. \A q \in Procs : Sorted(held'[q])
    BY <1>1, <1>2, <2>1 DEF StateInv
  <2> QED
    BY <1>3, <2>2, <2>3 DEF StateInv
<1>5. AskedInv'
  BY <1>1, <1>2, <1>3 DEF AskedInv, Asked
<1>6. TaskInv(p)'
  BY <1>2 DEF TaskInv, LocksAssumption
<1>7. ASSUME NEW q \in Procs \ {p} PROVE TaskInv(q)'
  <2>1. CASE waits[q] \in {p, None}
    BY <1>2, <2>1 DEF LocksInv, TaskInv
  <2>2. CASE waits[q] \notin {p, None}
    <3>1. waits[q] \in Procs \ {p} /\ task[waits[q]] # None
      BY <1>1, <2>2 DEF LocksInv, TaskInv, StateInv, Procs
    <3> QED
      BY <1>2, <2>2, <3>1, TaskKept
  <2> QED
    BY <2>1, <2>2
<1>8. RefsInv'
  <2>1. ASSUME NEW f \in flocks', NEW q \in f.refs
        PROVE  \/ In(held'[q], [name |-> f.name, mode |-> f.mode])
               \/ task'[q] = "offered" /\ f.name = EXPORT
               \/ task'[q] = "capture" /\ f.name \in {PUBLICATION, TENANT_STATE} /\ f.mode = "shared"
    <3>1. PICK g \in flocks : f.name = g.name /\ f.mode = g.mode /\ f.refs = g.refs \ {p}
      BY <1>3
    <3>2. q \in Procs \ {p} /\ q \in g.refs
      BY <1>3, <2>1, <3>1
    <3> QED
      BY <1>1, <1>2, <3>1, <3>2 DEF RefsInv
  <2>2. ASSUME NEW f \in flocks', NEW q1 \in f.refs, NEW q2 \in f.refs,
               f.name # EXPORT, held'[q1] # << >>, held'[q2] # << >>
        PROVE  q1 = q2
    <3>1. PICK g \in flocks : f.name = g.name /\ f.refs = g.refs \ {p}
      BY <1>3
    <3>2. q1 \in Procs \ {p} /\ q2 \in Procs \ {p} /\ q1 \in g.refs /\ q2 \in g.refs
      BY <1>3, <2>2, <3>1
    <3> QED
      BY <1>1, <1>2, <2>2, <3>1, <3>2 DEF RefsInv
  <2> QED
    BY <1>3, <2>1, <2>2 DEF RefsInv
<1>9. HeldIsLocked'
  <2>1. ASSUME NEW q \in Procs, NEW k \in DOMAIN held'[q]
        PROVE  \E f \in flocks' : f.name = held'[q][k].name /\ f.mode = held'[q][k].mode /\ q \in f.refs
    <3>1. q # p
      BY <1>2, <2>1
    <3>2. PICK g \in flocks : g.name = held[q][k].name /\ g.mode = held[q][k].mode /\ q \in g.refs
      BY <1>1, <1>2, <2>1, <3>1 DEF HeldIsLocked
    <3>3. q \in g.refs \ {p}
      BY <3>1, <3>2
    <3> QED
      BY <1>2, <1>3, <3>1, <3>2, <3>3
  <2> QED
    BY <2>1 DEF HeldIsLocked
<1>10. ASSUME NEW c \in Procs, task'[c] = "capture" PROVE CaptureInv(c)'
  <2>1. CaptureInv(c) /\ c # p /\ task[c] = "capture"
    BY <1>2, <1>10 DEF LocksInv, LocksAssumption
  <2>2. ASSUME NEW m \in {PUBLICATION, TENANT_STATE}
        PROVE  \E f \in flocks' : f.name = m /\ f.mode = "shared" /\ c \in f.refs
    <3>1. PICK g \in flocks : g.name = m /\ g.mode = "shared" /\ c \in g.refs \ {p}
      BY <2>1 DEF CaptureInv
    <3> QED
      BY <1>3, <3>1
  <2>3. ASSUME NEW f \in flocks', c \in f.refs, NEW q \in f.refs \ {c} PROVE waits'[q] = c
    <3>1. PICK g \in flocks : f.refs = g.refs \ {p}
      BY <1>3
    <3>2. q \in Procs \ {p} /\ waits[q] = c
      BY <1>3, <2>1, <2>3, <3>1 DEF CaptureInv
    <3> QED
      BY <1>2, <2>1, <3>2
  <2> QED
    BY <2>2, <2>3 DEF CaptureInv
<1>11. \A c \in Procs : CaptureInv(c)'
  BY <1>10 DEF CaptureInv
<1> QED
  BY <1>4, <1>5, <1>6, <1>7, <1>8, <1>9, <1>11 DEF LocksInv

LEMMA EndingsKeep ==
    ASSUME LocksAssumption, LocksInv, NEW p \in Procs,
           HelperEnds(p) \/ CaptureEnds(p) \/ Kill(p)
    PROVE  LocksInv'
<1>1. StateInv /\ TaskInv(p)
  BY DEF LocksInv
<1>2. CASE HelperEnds(p)
  <2>1. plan[p] = << >> /\ waits[p] = None
    BY <1>1, <1>2 DEF HelperEnds, Ready, TaskInv
  <2>2. plan' = [plan EXCEPT ![p] = << >>]
    BY <1>1, <1>2, <2>1 DEF HelperEnds, StateInv
  <2>3. waits' = [q \in Procs |-> IF q = p \/ waits[q] = p THEN None ELSE waits[q]]
    BY <1>2, <2>1 DEF HelperEnds, Answered
  <2> QED
    BY <1>2, <2>2, <2>3, ClosingKeeps DEF HelperEnds
<1>3. CASE CaptureEnds(p)
  <2>1. plan[p] = << >> /\ waits[p] = None /\ held[p] = << >>
    BY <1>1, <1>3 DEF CaptureEnds, TaskInv
  <2>2. plan' = [plan EXCEPT ![p] = << >>] /\ held' = [held EXCEPT ![p] = << >>]
    BY <1>1, <1>3, <2>1 DEF CaptureEnds, StateInv
  <2>3. waits' = [q \in Procs |-> IF q = p \/ waits[q] = p THEN None ELSE waits[q]]
    BY <1>3, <2>1 DEF CaptureEnds, Answered
  <2> QED
    BY <1>3, <2>2, <2>3, ClosingKeeps DEF CaptureEnds
<1>4. CASE Kill(p)
  BY <1>4, ClosingKeeps DEF Kill
<1> QED
  BY <1>2, <1>3, <1>4

\* The invariant holds in every behaviour.
LEMMA LocksInvariance == ASSUME LocksAssumption PROVE Spec => []LocksInv
<1>1. Init => LocksInv
  <2> SUFFICES ASSUME Init PROVE LocksInv
    OBVIOUS
  <2>1. << >> \in Seq(LockRequest) /\ Sorted(<< >>)
    BY DEF Sorted
  <2>2. StateInv
    BY <2>1 DEF Init, StateInv
  <2>3. AskedInv /\ RefsInv /\ HeldIsLocked
    BY DEF Init, AskedInv, RefsInv, HeldIsLocked
  <2>4. ASSUME NEW p \in Procs PROVE TaskInv(p) /\ CaptureInv(p)
    BY DEF Init, TaskInv, CaptureInv, LocksAssumption
  <2> QED
    BY <2>2, <2>3, <2>4 DEF LocksInv
<1>2. LocksInv /\ [Next]_vars => LocksInv'
  <2> SUFFICES ASSUME LocksInv, [Next]_vars PROVE LocksInv'
    OBVIOUS
  <2>1. CASE UNCHANGED vars
    <3>1. StateInv' /\ AskedInv' /\ RefsInv' /\ HeldIsLocked'
      BY <2>1 DEF LocksInv, vars, StateInv, AskedInv, RefsInv, HeldIsLocked
    <3>2. ASSUME NEW p \in Procs PROVE TaskInv(p)' /\ CaptureInv(p)'
      BY <2>1 DEF LocksInv, vars, TaskInv, CaptureInv, Innermost
    <3> QED
      BY <3>1, <3>2 DEF LocksInv
  <2>2. ASSUME NEW p \in Procs, Start(p) \/ Step(p) \/ Disconnect(p) \/ Kill(p)
        PROVE  LocksInv'
    <3>1. CASE Start(p) \/ Disconnect(p) \/ Request(p) \/ End(p)
      BY <3>1, StartKeeps, DisconnectKeeps, RequestKeeps, EndKeeps
    <3>2. CASE Acquire(p) \/ Release(p) \/ Borrow(p)
      BY <3>2, AcquireKeeps, ReleaseKeeps, BorrowKeeps
    <3>3. CASE \E h \in Helpers : LendExport(p, h) \/ LendBackup(p, h)
      BY <3>3, LendExportKeeps, LendBackupKeeps
    <3>4. CASE HelperEnds(p) \/ CaptureEnds(p) \/ Kill(p)
      BY <3>4, EndingsKeep
    <3> QED
      BY <2>2, <3>1, <3>2, <3>3, <3>4 DEF Step
  <2> QED
    BY <2>1, <2>2 DEF Next, Rest
<1> QED
  BY <1>1, <1>2, PTL DEF Spec

\* Variables keep their types: in particular no stack is longer than the order
\* of locks, and it is sorted (_assert_next).
THEOREM StacksSorted == ASSUME LocksAssumption PROVE Spec => []TypeOK
<1>1. ASSUME NEW s \in Seq(LockRequest), Sorted(s)
      PROVE  s \in UNION {[1..n -> LockRequest] : n \in 0..4}
  <2>1. Len(s) \in Nat /\ DOMAIN s = 1..Len(s) /\ s \in [1..Len(s) -> LockRequest]
    OBVIOUS
  <2>2. Len(s) <= 4
    <3>1. SUFFICES ASSUME Len(s) > 4 PROVE FALSE
      BY <2>1
    <3>2. {1, 2, 3, 4, 5} \subseteq DOMAIN s
      BY <2>1, <3>1
    <3>3. \A k \in {1, 2, 3, 4, 5} : s[k].name \in {0, 10, 20, 30}
      BY <2>1, <3>2 DEF LockRequest, LockName, INTAKE, EXPORT, PUBLICATION, TENANT_STATE
    <3>4. s[1].name < s[2].name /\ s[2].name < s[3].name /\ s[3].name < s[4].name /\ s[4].name < s[5].name
      BY <1>1, <3>2 DEF Sorted
    <3> QED
      BY <3>3, <3>4
  <2> QED
    BY <2>1, <2>2
<1>2. LocksInv => TypeOK
  BY <1>1 DEF LocksInv, StateInv, TypeOK, Sorted
<1> QED
  BY <1>2, LocksInvariance, PTL

\* A registered lock is really locked, in every process, after any sequence of
\* lending, hanging up and killing (require_held).
THEOREM RegisteredIsLocked == ASSUME LocksAssumption PROVE Spec => []HeldIsLocked
<1>1. LocksInv => HeldIsLocked
  BY DEF LocksInv
<1> QED
  BY <1>1, LocksInvariance, PTL

\* A lent export lock excludes everybody who was not lent it, whatever becomes
\* of the lender (borrow_export_descriptor and the export branch of acquire).
THEOREM LentLeaseExcludes == ASSUME LocksAssumption PROVE Spec => []LeaseExcludes
<1>1. ASSUME LocksInv PROVE LeaseExcludes
  <2>1. ASSUME NEW h \in Procs, Holds(h, EXPORT)
        PROVE  \E f \in flocks : f.name = EXPORT /\ f.mode = "exclusive" /\ h \in f.refs
    <3>1. PICK f \in flocks : f.name = EXPORT /\ h \in f.refs
      BY <1>1, <2>1 DEF LocksInv, HeldIsLocked, Holds
    <3> QED
      BY <1>1, <3>1 DEF LocksInv, AskedInv, Asked, EXPORT, PUBLICATION
  <2>2. ASSUME NEW h \in Helpers, NEW p \in Procs, Holds(h, EXPORT), Holds(p, EXPORT)
        PROVE  \E f \in flocks : f.name = EXPORT /\ {h, p} \subseteq f.refs
    <3>1. h \in Procs
      BY DEF Procs
    <3>2. PICK f \in flocks : f.name = EXPORT /\ f.mode = "exclusive" /\ h \in f.refs
      BY <2>1, <2>2, <3>1
    <3>3. PICK g \in flocks : g.name = EXPORT /\ g.mode = "exclusive" /\ p \in g.refs
      BY <2>1, <2>2
    <3>4. f = g
      BY <1>1, <3>2, <3>3 DEF LocksInv, RefsInv
    <3> QED
      BY <3>2, <3>3, <3>4
  <2> QED
    BY <2>2 DEF LeaseExcludes
<1> QED
  BY <1>1, LocksInvariance, PTL

\* While a Restic child reads, nobody holds the locks it was lent exclusively,
\* whatever becomes of its coordinator (duplicate_backup_descriptors).
THEOREM CaptureUndisturbed == ASSUME LocksAssumption PROVE Spec => []CaptureIsStable
<1>1. ASSUME LocksInv PROVE CaptureIsStable
  <2>1. ASSUME NEW c \in Helpers, task[c] = "capture", NEW p \in Procs,
               NEW n \in {PUBLICATION, TENANT_STATE}, HoldsIn(p, n, "exclusive")
        PROVE  FALSE
    <3>1. PICK f \in flocks : f.name = n /\ f.mode = "shared"
      BY <1>1, <2>1 DEF LocksInv, CaptureInv, Procs
    <3>2. PICK k \in DOMAIN held[p] : held[p][k] = [name |-> n, mode |-> "exclusive"]
      BY <2>1 DEF HoldsIn
    <3>3. PICK g \in flocks : g.name = n /\ g.mode = "exclusive"
      BY <1>1, <3>2 DEF LocksInv, HeldIsLocked
    <3> QED
      BY <1>1, <3>1, <3>3 DEF LocksInv, RefsInv
  <2> QED
    BY <2>1 DEF CaptureIsStable
<1> QED
  BY <1>1, LocksInvariance, PTL

\* How far in the order of locks a waiting process stands: who waits for a
\* helper it lent the export lock to stands just behind that lock.
Standing(p) == IF waits[p] # None THEN EXPORT + 1 ELSE Head(plan[p]).name

\* No set of processes waits for itself, however many there are: each waits for
\* one that stands further in the order of locks (_assert_next).
THEOREM NobodyWaitsInCircles == ASSUME LocksAssumption PROVE Spec => []NoDeadlock
<1>1. ASSUME LocksInv, NEW S \in SUBSET Procs, S # {}, \A p \in S : WaitsFor(p) \cap S # {}
      PROVE  FALSE
  <2>1. StateInv /\ RefsInv /\ \A p \in Procs : TaskInv(p)
    BY <1>1 DEF LocksInv
  <2>2. \A p \in S : p \in Procs /\ TaskInv(p)
    BY <2>1
  \* Somebody in S is waiting for a helper or for a lock above all of its own.
  <2>3. ASSUME NEW p \in S
        PROVE  /\ task[p] = "run"
               /\ \/ waits[p] # None
                  \/ waits[p] = None /\ plan[p] # << >> /\ AssertNext(p, Head(plan[p]).name)
    <3>1. waits[p] # None \/ (plan[p] # << >> /\ AssertNext(p, Head(plan[p]).name))
      BY <1>1, <2>3 DEF WaitsFor
    <3> QED
      BY <2>2, <3>1 DEF TaskInv
  \* What p holds is at most its innermost lock.
  <2>4. ASSUME NEW p \in S, NEW n \in LockName, Holds(p, n)
        PROVE  n <= Last(held[p]).name /\ Last(held[p]).name \in LockName /\ held[p] # << >>
    <3>1. held[p] \in Seq(LockRequest) /\ Sorted(held[p])
      BY <2>1, <2>2 DEF StateInv
    <3>2. PICK k \in DOMAIN held[p] : held[p][k].name = n
      BY <2>4 DEF Holds
    <3>3. Len(held[p]) \in Nat \ {0} /\ DOMAIN held[p] = 1..Len(held[p]) /\ Last(held[p]) = held[p][Len(held[p])]
      BY <3>1, <3>2 DEF Last
    <3>4. Last(held[p]) \in LockRequest
      BY <3>1, <3>3
    <3>5. k = Len(held[p]) \/ n < Last(held[p]).name
      BY <3>1, <3>2, <3>3 DEF Sorted
    <3> QED
      BY <3>2, <3>3, <3>4, <3>5 DEF LockRequest, LockName, INTAKE, EXPORT, PUBLICATION, TENANT_STATE
  <2>5. ASSUME NEW p \in S PROVE Standing(p) \in {0, 10, 11, 20, 30}
    <3>1. waits[p] = None => Head(plan[p]) \in LockRequest
      BY <2>1, <2>2, <2>3 DEF StateInv
    <3> QED
      BY <3>1 DEF Standing, LockRequest, LockName, INTAKE, EXPORT, PUBLICATION, TENANT_STATE
  \* Who holds n stands above n.
  <2>6. ASSUME NEW q \in S, NEW n \in LockName, Holds(q, n) PROVE Standing(q) > n
    <3>1. n <= Last(held[q]).name /\ Last(held[q]).name \in LockName /\ held[q] # << >>
      BY <2>4, <2>6
    <3>2. CASE waits[q] # None
      <4>1. waits[q] \in S
        BY <1>1, <2>2, <2>6, <3>2 DEF WaitsFor, TaskInv
      <4>2. task[waits[q]] = "run"
        BY <2>3, <4>1
      <4>3. Last(held[q]).name = EXPORT
        BY <2>2, <2>6, <3>2, <4>2 DEF TaskInv, Innermost
      <4> QED
        BY <3>1, <3>2, <4>3 DEF Standing, LockName, INTAKE, EXPORT, PUBLICATION, TENANT_STATE
    <3>3. CASE waits[q] = None
      <4>1. Head(plan[q]).name > Last(held[q]).name /\ Head(plan[q]) \in LockRequest
        BY <2>1, <2>2, <2>3, <3>1, <3>3 DEF AssertNext, StateInv
      <4> QED
        BY <3>1, <3>3, <4>1 DEF Standing, LockRequest, LockName, INTAKE, EXPORT, PUBLICATION, TENANT_STATE
    <3> QED
      BY <3>2, <3>3
  <2>7. ASSUME NEW p \in S PROVE \E q \in S : Standing(q) > Standing(p)
    <3>1. CASE waits[p] # None
      <4> DEFINE h == waits[p]
      <4>1. h \in S /\ h \in Helpers
        BY <1>1, <2>1, <2>2, <2>7, <3>1 DEF WaitsFor, TaskInv, StateInv
      <4>2. waits[h] = None /\ held[h] # << >> /\ held[h][1] = [name |-> EXPORT, mode |-> "exclusive"]
        BY <2>2, <2>3, <4>1 DEF TaskInv, LocksAssumption
      <4>3. held[h] \in Seq(LockRequest) /\ 1 \in DOMAIN held[h]
        BY <2>1, <2>2, <4>1, <4>2 DEF StateInv
      <4>4. Holds(h, EXPORT) /\ EXPORT \in LockName
        BY <4>2, <4>3 DEF Holds, LockName
      <4>5. Standing(h) > EXPORT
        BY <2>6, <4>1, <4>4
      <4>6. Standing(h) \in {0, 10, 20, 30}
        <5>1. Head(plan[h]) \in LockRequest
          BY <2>1, <2>2, <2>3, <4>1, <4>2 DEF StateInv
        <5> QED
          BY <4>2, <5>1 DEF Standing, LockRequest, LockName, INTAKE, EXPORT, PUBLICATION, TENANT_STATE
      <4>7. Standing(p) = EXPORT + 1
        BY <3>1 DEF Standing
      <4> QED
        BY <4>1, <4>5, <4>6, <4>7 DEF EXPORT
    <3>2. CASE waits[p] = None
      <4>1. PICK q \in S, f \in flocks : f.name = Head(plan[p]).name /\ q \in f.refs
        BY <1>1, <2>7, <3>2 DEF WaitsFor
      <4>2. task[q] = "run" /\ q \in Procs
        BY <2>2, <2>3, <4>1
      <4>3. In(held[q], [name |-> f.name, mode |-> f.mode])
        BY <2>1, <4>1, <4>2 DEF RefsInv
      <4>4. Holds(q, f.name) /\ f.name \in LockName
        BY <2>1, <4>1, <4>3 DEF In, Holds, StateInv
      <4> QED
        BY <2>6, <3>2, <4>1, <4>4 DEF Standing
    <3> QED
      BY <3>1, <3>2
  <2>8. ~\E p \in S : Standing(p) = 30
    BY <2>5, <2>7
  <2>9. ~\E p \in S : Standing(p) = 20
    BY <2>5, <2>7, <2>8
  <2>10. ~\E p \in S : Standing(p) = 11
    BY <2>5, <2>7, <2>8, <2>9
  <2>11. ~\E p \in S : Standing(p) = 10
    BY <2>5, <2>7, <2>8, <2>9, <2>10
  <2> QED
    BY <1>1, <2>5, <2>7, <2>8, <2>9, <2>10, <2>11
<1>2. LocksInv => NoDeadlock
  BY <1>1 DEF NoDeadlock
<1> QED
  BY <1>2, LocksInvariance, PTL
=============================================================================
