--------------------------- MODULE GenerationStore ---------------------------
\* The store of complete Caddy generations and the reference that selects one
\* (caddy_generation.py, caddy_runtime.py), as the route and deployment
\* transitions (route_*.py, deployment_*.py) and the platform bootstrap
\* (caddy_bootstrap.py) use them, down to every rename and fsync.
\*
\* All of it runs under the publication lock, so one process is at work; it is
\* killed anywhere, a step of it fails, and the host loses power. Each directory
\* remembers the versions it went through since its last fsync. Ordered says
\* whether the file system commits metadata in order (any fsync makes all that
\* came before durable) or each directory needs an fsync of its own.
EXTENDS Naturals, Sequences, FiniteSets
LOCAL INSTANCE SequencesExt
LOCAL INSTANCE FiniteSetsExt
LOCAL INSTANCE Functions

CONSTANTS
    Operations,     \* which of "route", "deployment" and "bootstrap" are run
    Ordered,
    MaxPublished,   \* bound: directories made
    MaxFaults,      \* bound: kills, failed steps and losses of power
    None

GenerationAssumption ==
    /\ Operations \subseteq {"route", "deployment", "bootstrap"}
    /\ Ordered \in BOOLEAN /\ MaxPublished \in Nat /\ MaxFaults \in Nat

MaxGenerations == 3     \* MAX_CADDY_GENERATIONS

VARIABLES
    disk,       \* versions of [root, ref, files]: generations/, the runtime root, the generations' directories
    dirty,      \* files whose bytes are not synced: directory and name
    made,       \* directories made
    next,       \* the next generation identifier
    intent,     \* the durable intent: tenant transition, or Caddy's start
    completed,  \* the job of the intent is completed
    reported,   \* the generation the last completed transition left selected
    todo,       \* the running operation's remaining steps
    errors,     \* contradictions that no retry resolves
    faults

vars == <<disk, dirty, made, next, intent, completed, reported, todo, errors, faults>>

-----------------------------------------------------------------------------
\* The file system

Gen(g) == <<"gen", g>>
Tmp(n) == <<"tmp", n>>
Retired(g) == <<"retired", g>>

Now == Last(disk)
Root == Now.root
Active == Now.ref.active

\* A directory that is named has at least the entries of its oldest version.
FirstFiles(n) == disk[Min({k \in DOMAIN disk : n \in DOMAIN disk[k].files})].files[n]

\* What a loss of power may leave.
Images ==
    IF Ordered THEN Range(disk)
    ELSE {[root |-> a.root, ref |-> b.ref, files |-> [n \in Range(a.root) |->
             IF n \in DOMAIN c.files THEN c.files[n] ELSE FirstFiles(n)]] : a, b, c \in Range(disk)}

\* Versions that cannot be told apart, and directories without a name, are dropped.
Tidy(s) ==
    LET named == UNION {Range(v.root) : v \in Range(s)}
        Add(acc, v) == LET w == [v EXCEPT !.files = Restrict(v.files, named \cap DOMAIN v.files)]
                       IN IF acc # << >> /\ Last(acc) = w THEN acc ELSE Append(acc, w)
    IN FoldLeft(Add, << >>, s)

Change(v) == disk' = Append(disk, v)
\* fsync of the directory that is the component c of a version
Sync(c) == disk' = Tidy(IF Ordered THEN <<Now>> ELSE [k \in DOMAIN disk |-> [disk[k] EXCEPT ![c] = Now[c]]])
\* fsync of a generation's directory n
SyncGeneration(n, d) ==
    disk' = Tidy(IF Ordered THEN <<[Now EXCEPT !.files[n] = d]>>
                 ELSE [k \in DOMAIN disk |-> IF n \in DOMAIN disk[k].files THEN [disk[k] EXCEPT !.files[n] = d] ELSE disk[k]])
\* A record outside these directories is made durable.
Durable == disk' = IF Ordered THEN <<Now>> ELSE disk

FileNames == <<"binary", "environment", "configuration", "routes", "manifest">>

\* _validate_exact_inventory: nothing missing, nothing added.
InventoryExact(d) == d.names = Range(FileNames)
\* _open_and_hash_payload: every payload is what the manifest says.
PayloadsMatch(d) == d.torn = {}
\* _parse_manifest: the manifest is the one of the generation it is found under.
ManifestNames(d, g) == d.id = g

\* discard_published: a sealed directory, its exact files and its own manifest.
Shaped(v, name) ==
    LET n == v.root[name]
    IN /\ n \in DOMAIN v.files
       /\ v.files[n].mode = "sealed"
       /\ InventoryExact(v.files[n]) /\ ManifestNames(v.files[n], name[2])

\* open_verified: and the payloads its manifest describes.
Complete(v, name) == Shaped(v, name) /\ PayloadsMatch(v.files[v.root[name]])

Generations(v) == {name[2] : name \in {x \in DOMAIN v.root : x[1] = "gen"}}
Reserved(v) == {x \in DOMAIN v.root : x[1] # "gen"}
Opens(g) == Gen(g) \in DOMAIN Root /\ Complete(Now, Gen(g))

Without(r, name) == Restrict(r, DOMAIN r \ {name})
With(r, name, n) == [x \in DOMAIN r \cup {name} |-> IF x = name THEN n ELSE r[x]]

-----------------------------------------------------------------------------
\* The steps of an operation

Step(d, x) == [do |-> d, on |-> x]
At(d) == todo # << >> /\ Head(todo).do = d
On == Head(todo).on
Then(steps) == todo' = steps \o Tail(todo)
Stop == todo' = << >>
Fault == faults < MaxFaults /\ faults' = faults + 1

Refuse(e) ==
    /\ Stop /\ errors' = errors \cup {e}
    /\ UNCHANGED <<disk, dirty, made, next, intent, completed, reported, faults>>

\* publish: every step of it, for one directory.
PublishSteps(g) ==
    <<Step("make", g)>> \o FlattenSeq([k \in 1 .. Len(FileNames) |-> <<Step("write", FileNames[k]), Step("syncfile", FileNames[k])>>])
        \o <<Step("seal", None), Step("rename", g), Step("syncroot", None)>>

RemoveSteps(name) == <<Step("clear", name), Step("rmdir", name), Step("syncroot", None)>>
RetireSteps(g) == <<Step("retire", g), Step("syncroot", None)>> \o RemoveSteps(Retired(g))
DiscardSteps(g) == <<Step("discard", g), Step("syncroot", None)>> \o RemoveSteps(Retired(g))
SelectSteps(g) == <<Step("cleanref", None), Step("check", g), Step("reference", g), Step("select", g), Step("syncref", None)>>
\* prune_unreferenced
PruneSteps(protected, keep) == <<Step("temporaries", None), Step("prune", [protected |-> protected, keep |-> keep])>>

Quiet == UNCHANGED <<made, next, intent, completed, reported, errors, faults>>

\* remove_abandoned_temporaries
Temporaries ==
    /\ At("temporaries")
    /\ Then(FlattenSeq([k \in 1 .. Cardinality(Reserved(Now)) |-> RemoveSteps(SetToSeq(Reserved(Now))[k])]))
    /\ UNCHANGED <<disk, dirty>> /\ Quiet

\* prune_unreferenced: the protected ones and the newest of the others.
Retained(protected, keep) ==
    protected \cup {g \in Generations(Now) \ protected :
                        Cardinality({h \in Generations(Now) \ protected : h > g}) < keep}

\* list_verified, and the removals
Prune ==
    /\ At("prune")
    /\ LET gone == Generations(Now) \ Retained(On.protected, On.keep)
           steps == FlattenSeq([k \in 1 .. Cardinality(gone) |-> RetireSteps(SetToSortSeq(gone, <)[k])])
       IN IF Reserved(Now) # {} \/ \E g \in Generations(Now) : ~Opens(g) THEN Refuse("unverified")
          ELSE IF ~(On.protected \subseteq Generations(Now)) THEN Refuse("protected-absent")
          ELSE Then(steps) /\ UNCHANGED <<disk, dirty>> /\ Quiet

\* A generation loses its name before anything of it is removed.
SetAside(g) == Change([Now EXCEPT !.root = With(Without(Root, Gen(g)), Retired(g), Root[Gen(g)])])

\* remove_verified: what is pruned is verified once more.
Retire ==
    /\ At("retire")
    /\ IF ~Opens(On) \/ Retired(On) \in DOMAIN Root THEN Refuse("unverified")
       ELSE SetAside(On) /\ Then(<< >>) /\ UNCHANGED dirty /\ Quiet

\* discard_published: a candidate goes without its payload digests being trusted.
Discard ==
    /\ At("discard")
    /\ IF Gen(On) \notin DOMAIN Root \/ ~Shaped(Now, Gen(On)) \/ Retired(On) \in DOMAIN Root THEN Refuse("changed")
       ELSE SetAside(On) /\ Then(<< >>) /\ UNCHANGED dirty /\ Quiet

\* _remove_generation_temporary: unlink the files and sync, then the directory.
Clear ==
    /\ At("clear")
    /\ IF On \in DOMAIN Root
       THEN /\ SyncGeneration(Root[On], [Now.files[Root[On]] EXCEPT !.names = {}, !.mode = "private", !.torn = {}])
            /\ dirty' = {d \in dirty : d[1] # Root[On]}
       ELSE UNCHANGED <<disk, dirty>>
    /\ Then(<< >>) /\ Quiet

RemoveDirectory ==
    /\ At("rmdir")
    /\ IF On \in DOMAIN Root THEN Change([Now EXCEPT !.root = Without(Root, On)]) ELSE UNCHANGED disk
    /\ Then(<< >>) /\ UNCHANGED dirty /\ Quiet

SyncRoot ==
    /\ At("syncroot")
    /\ Sync("root")
    /\ Then(<< >>) /\ UNCHANGED dirty /\ Quiet

-----------------------------------------------------------------------------
\* publish

\* admit_candidate: a slot of the bound is free.
Admitted == Cardinality(Generations(Now)) < MaxGenerations

\* publish, once admitted: the directory under its temporary name.
MakeDirectory ==
    /\ At("make")
    /\ IF ~Admitted THEN Refuse("no-slot")
       ELSE /\ made' = made + 1
            /\ Change([root |-> With(Root, Tmp(made), made), ref |-> Now.ref,
                       files |-> With(Now.files, made, [names |-> {}, mode |-> "private", torn |-> {}, id |-> On])])
            /\ Then(<< >>)
            /\ UNCHANGED <<dirty, next, intent, completed, reported, errors, faults>>

Made == made - 1

\* _copy_payload_binary, _write_payload, _write_manifest
WriteFile ==
    /\ At("write")
    /\ Change([Now EXCEPT !.files[Made].names = @ \cup {On}])
    /\ dirty' = dirty \cup {<<Made, On>>}
    /\ Then(<< >>) /\ Quiet

\* Mutant of SyncFile: the bytes are not synced.
SyncFileNot ==
    /\ At("syncfile")
    /\ Then(<< >>) /\ UNCHANGED <<disk, dirty>> /\ Quiet

SyncFile ==
    /\ At("syncfile")
    /\ dirty' = dirty \ {<<Made, On>>}
    /\ Durable
    /\ Then(<< >>) /\ Quiet

\* The directory is sealed and synced.
Seal ==
    /\ At("seal")
    /\ SyncGeneration(Made, [Now.files[Made] EXCEPT !.mode = "sealed"])
    /\ Then(<< >>) /\ UNCHANGED dirty /\ Quiet

\* _rename_noreplace
Rename ==
    /\ At("rename")
    /\ IF Gen(On) \in DOMAIN Root THEN Refuse("exists")
       ELSE /\ Change([Now EXCEPT !.root = With(Without(Root, Tmp(Made)), Gen(On), Made)])
            /\ Then(<< >>) /\ UNCHANGED dirty /\ Quiet

\* A step of publish fails: the temporary is removed, and the operation ends.
PublishFails ==
    /\ todo # << >> /\ Head(todo).do \in {"write", "syncfile", "seal", "rename"}
    /\ Fault
    /\ todo' = RemoveSteps(Tmp(Made))
    /\ UNCHANGED <<disk, dirty, made, next, intent, completed, reported, errors>>

\* Caddy refuses the candidate, or the intent cannot be created: it is discarded.
CandidateFails ==
    /\ todo # << >> /\ Head(todo).do \in {"validate", "intend"}
    /\ Fault
    /\ todo' = IF On.cand \in Generations(Now) THEN DiscardSteps(On.cand) ELSE << >>
    /\ UNCHANGED <<disk, dirty, made, next, intent, completed, reported, errors>>

\* publish_candidate opens and validates what it has published.
Validate ==
    /\ At("validate")
    /\ IF ~Opens(On.cand) THEN Refuse("unverified") ELSE Then(<< >>) /\ UNCHANGED <<disk, dirty>> /\ Quiet

\* _admit_and_create_intent, CaddyStartupStore.begin_transaction
Intend ==
    /\ At("intend")
    /\ intent' = On
    /\ completed' = FALSE
    /\ Durable
    /\ Then(<< >>)
    /\ UNCHANGED <<dirty, made, next, reported, errors, faults>>

-----------------------------------------------------------------------------
\* select_active

\* remove_abandoned_reference_temporaries
CleanReference ==
    /\ At("cleanref")
    /\ disk' = IF Now.ref.temporaries = 0 THEN disk
               ELSE LET clean == [Now EXCEPT !.ref.temporaries = 0] IN
                    IF Ordered THEN <<clean>> ELSE [k \in DOMAIN disk |-> [disk[k] EXCEPT !.ref = clean.ref]]
    /\ Then(<< >>) /\ UNCHANGED dirty /\ Quiet

CheckSelected ==
    /\ At("check")
    /\ IF ~Opens(On) THEN Refuse("unverified") ELSE Then(<< >>) /\ UNCHANGED <<disk, dirty>> /\ Quiet

WriteReference ==
    /\ At("reference")
    /\ Change([Now EXCEPT !.ref.temporaries = @ + 1])
    /\ Then(<< >>) /\ UNCHANGED dirty /\ Quiet

ReplaceReference ==
    /\ At("select")
    /\ Change([Now EXCEPT !.ref = [active |-> On, temporaries |-> @.temporaries - 1]])
    /\ Then(<< >>) /\ UNCHANGED dirty /\ Quiet

SyncReference ==
    /\ At("syncref")
    /\ Sync("ref")
    /\ Then(<< >>) /\ UNCHANGED dirty /\ Quiet

-----------------------------------------------------------------------------
\* The tenant transitions

\* What is left of the bound on directories, with one for every retry.
Room == made + (MaxFaults - faults) < MaxPublished /\ next <= MaxPublished

Fresh(kind, phase) == [kind |-> kind, src |-> Active, cand |-> next, phase |-> phase]

\* prepare_route_transition: the candidate is published before its intent.
BeginRoute ==
    /\ "route" \in Operations /\ todo = << >> /\ intent = None /\ Active # None /\ Room
    /\ next' = next + 1
    /\ LET i == Fresh("route", "prepared")
       IN todo' = PruneSteps({Active}, 1) \o PublishSteps(i.cand) \o <<Step("validate", i), Step("intend", i), Step("activate", None)>>
    /\ UNCHANGED <<disk, dirty, made, intent, completed, reported, errors, faults>>

\* prepare_deployment_transition: the intent is created first.
BeginDeployment ==
    /\ "deployment" \in Operations /\ todo = << >> /\ intent = None /\ Active # None /\ Room
    /\ next' = next + 1
    /\ LET i == Fresh("deployment", "prepared")
       IN todo' = <<Step("intend", i)>> \o PruneSteps({Active}, 1) \o PublishSteps(i.cand)
                    \o <<Step("validate", i), Step("activate", None)>>
    /\ UNCHANGED <<disk, dirty, made, intent, completed, reported, errors, faults>>

\* Mutant of Resume: a deployment's candidate is always published again.
ResumePublishing ==
    /\ todo = << >> /\ intent # None /\ intent.kind # "bootstrap"
    /\ todo' = (IF intent.kind = "deployment" THEN PublishSteps(intent.cand) ELSE << >>) \o <<Step("activate", None)>>
    /\ UNCHANGED <<disk, dirty, made, next, intent, completed, reported, errors, faults>>

\* _resume_candidate_publication: a deployment's candidate is published again
\* when it is absent and used when it is there.
Resume ==
    /\ todo = << >> /\ intent # None /\ intent.kind # "bootstrap"
    /\ IF intent.kind = "deployment" /\ intent.cand \notin Generations(Now)
       THEN todo' = PruneSteps({Active}, 1) \o PublishSteps(intent.cand) \o <<Step("validate", intent), Step("activate", None)>>
       ELSE todo' = <<Step("activate", None)>>
    /\ UNCHANGED <<disk, dirty, made, next, intent, completed, reported, errors, faults>>

\* activate_route_transition, _ensure_candidate_running: a reference that already
\* names the candidate is written again unless the job is completed.
Activate ==
    /\ At("activate")
    /\ IF ~Opens(intent.src) \/ ~Opens(intent.cand) THEN Refuse("unverified")
       ELSE IF Active \notin {intent.src, intent.cand} THEN Refuse("outside")
       ELSE /\ Then((IF Active = intent.cand /\ completed THEN << >> ELSE SelectSteps(intent.cand))
                      \o <<Step("reload", None), Step("complete", None)>>)
            /\ UNCHANGED <<disk, dirty>> /\ Quiet

Reload ==
    /\ At("reload")
    /\ Then(<< >>) /\ UNCHANGED <<disk, dirty>> /\ Quiet

\* _restore_source: a selection or a reload that fails puts the source back.
ActivationFails ==
    /\ todo # << >> /\ intent # None /\ intent.kind # "bootstrap"
    /\ Head(todo).do \in {"reference", "select", "syncref", "reload"}
    /\ Fault
    /\ todo' = SelectSteps(intent.src)
    /\ UNCHANGED <<disk, dirty, made, next, intent, completed, reported, errors>>

\* finalize_route_transition: the job is completed, then the intent goes.
CompleteJob ==
    /\ At("complete") /\ ~completed
    /\ completed' = TRUE
    /\ reported' = intent.cand
    /\ Durable
    /\ UNCHANGED <<dirty, made, next, intent, todo, errors, faults>>

RemoveIntent ==
    /\ At("complete") /\ completed
    /\ intent' = None
    /\ Durable
    /\ Then(<< >>)
    /\ UNCHANGED <<dirty, made, next, completed, reported, errors, faults>>

-----------------------------------------------------------------------------
\* The platform bootstrap and Caddy's start

\* ensure_platform_generation with new host inputs.
Ensure ==
    /\ "bootstrap" \in Operations /\ todo = << >> /\ intent = None /\ Room
    /\ next' = next + 1
    /\ LET i == Fresh("bootstrap", "prepared")
           kept == Retained(IF Active = None THEN {} ELSE {Active}, IF Active = None THEN 0 ELSE 1)
       IN IF Active = None
          THEN todo' = PruneSteps({}, 0) \o PublishSteps(i.cand) \o SelectSteps(i.cand) \o PruneSteps({i.cand}, 0)
          ELSE todo' = PruneSteps(kept, 0) \o PublishSteps(i.cand) \o <<Step("intend", i)>> \o SelectSteps(i.cand)
                         \o <<Step("restart", None)>> \o PruneSteps({i.cand, i.src}, 0)
    /\ UNCHANGED <<disk, dirty, made, intent, completed, reported, errors, faults>>

\* _require_resumable_transaction and the rest: only a reference that shows the
\* predecessor is written.
EnsureResumes ==
    /\ todo = << >> /\ intent # None /\ intent.kind = "bootstrap" /\ intent.phase \in {"prepared", "restart"}
    /\ IF ~Opens(intent.cand) \/ ~Opens(intent.src) THEN Refuse("unverified")
       ELSE IF Active \notin {intent.cand} \cup (IF intent.phase = "prepared" THEN {intent.src} ELSE {}) THEN Refuse("outside")
       ELSE /\ todo' = (IF Active = intent.src THEN SelectSteps(intent.cand) ELSE << >>)
                         \o (IF intent.phase = "prepared" THEN <<Step("restart", None)>> ELSE << >>)
                         \o PruneSteps({intent.cand, intent.src}, 0)
            /\ UNCHANGED <<disk, dirty>> /\ Quiet

\* CaddyStartupStore.mark_restart_required, mark_rollback_restart_required
MarkRestart ==
    /\ At("restart")
    /\ intent' = [intent EXCEPT !.phase = IF @ = "prepared" THEN "restart" ELSE "rollback"]
    /\ Durable
    /\ Then(<< >>)
    /\ UNCHANGED <<dirty, made, next, completed, reported, errors, faults>>

Target == IF intent.phase = "rollback" THEN intent.src ELSE intent.cand

\* CaddyStartupStore.prepare_start: the gate admits only the intent's target.
StartGate ==
    /\ todo = << >> /\ intent # None /\ intent.kind = "bootstrap" /\ intent.phase = "restart"
    /\ IF Active # Target THEN Refuse("outside")
       ELSE /\ intent' = [intent EXCEPT !.phase = "starting"] /\ Durable
            /\ UNCHANGED <<dirty, made, next, completed, reported, todo, errors, faults>>

\* prepare_active_caddy_execution and the verifier: Caddy runs the selected
\* generation, and the intent ends.
CaddyStarts ==
    /\ todo = << >> /\ intent # None /\ intent.kind = "bootstrap" /\ intent.phase \in {"starting", "rollback"}
    /\ IF Active # Target THEN Refuse("outside")
       ELSE IF ~Opens(Active) THEN Refuse("unverified")
       ELSE /\ intent' = None /\ reported' = Active /\ Durable
            /\ UNCHANGED <<dirty, made, next, completed, todo, errors, faults>>

\* The last admitted attempt fails.
StartsExhausted ==
    /\ todo = << >> /\ intent # None /\ intent.kind = "bootstrap" /\ intent.phase = "starting"
    /\ Fault
    /\ intent' = [intent EXCEPT !.phase = "exhausted"]
    /\ UNCHANGED <<disk, dirty, made, next, completed, reported, todo, errors>>

\* caddy_start_recovery_main
RollBack ==
    /\ todo = << >> /\ intent # None /\ intent.kind = "bootstrap" /\ intent.phase = "exhausted"
    /\ todo' = SelectSteps(intent.src) \o <<Step("restart", None)>>
    /\ UNCHANGED <<disk, dirty>> /\ Quiet

-----------------------------------------------------------------------------
Kill ==
    /\ todo # << >>
    /\ Fault
    /\ Stop
    /\ UNCHANGED <<disk, dirty, made, next, intent, completed, reported, errors>>

\* Unsynced bytes are torn, and the directories are one of their images.
PowerLoss ==
    /\ Fault
    /\ \E v \in Images :
        disk' = Tidy(<<[v EXCEPT !.files = [n \in DOMAIN v.files |->
                     [v.files[n] EXCEPT !.torn = @ \cup {f \in v.files[n].names : <<n, f>> \in dirty}]]]>>)
    /\ dirty' = {}
    /\ Stop
    /\ UNCHANGED <<made, next, intent, completed, reported, errors>>

Init ==
    /\ \/ disk = <<[root |-> Gen(0) :> 0, ref |-> [active |-> 0, temporaries |-> 0],
                    files |-> 0 :> [names |-> Range(FileNames), mode |-> "sealed", torn |-> {}, id |-> 0]]>>
          /\ reported = 0
       \/ /\ "bootstrap" \in Operations
          /\ disk = <<[root |-> << >>, ref |-> [active |-> None, temporaries |-> 0], files |-> << >>]>>
          /\ reported = None
    /\ dirty = {} /\ made = 1 /\ next = 1
    /\ intent = None /\ completed = FALSE
    /\ todo = << >> /\ errors = {} /\ faults = 0

Work ==
    \/ Temporaries \/ Prune \/ Retire \/ Discard \/ Clear \/ RemoveDirectory \/ SyncRoot
    \/ MakeDirectory \/ WriteFile \/ SyncFile \/ Seal \/ Rename \/ Validate \/ Intend
    \/ CleanReference \/ CheckSelected \/ WriteReference \/ ReplaceReference \/ SyncReference
    \/ Resume \/ Activate \/ Reload \/ CompleteJob \/ RemoveIntent
    \/ EnsureResumes \/ MarkRestart \/ StartGate \/ CaddyStarts \/ RollBack

Next ==
    \/ Work
    \/ BeginRoute \/ BeginDeployment \/ Ensure
    \/ PublishFails \/ CandidateFails \/ ActivationFails \/ StartsExhausted
    \/ Kill \/ PowerLoss

Spec == Init /\ [][Next]_vars

\* The reconciler and the service manager run whatever is left.
FairSpec == Spec /\ WF_vars(Work) /\ SF_vars(StartGate) /\ SF_vars(CaddyStarts)

-----------------------------------------------------------------------------
TypeOK ==
    /\ \A v \in Range(disk) :
        /\ DOMAIN v.root \subseteq {"gen", "tmp", "retired"} \X (0 .. MaxPublished)
        /\ Range(v.root) \subseteq 0 .. MaxPublished
        /\ v.ref.active \in 0 .. MaxPublished \cup {None} /\ v.ref.temporaries \in Nat
    /\ made \in 1 .. MaxPublished /\ next \in 1 .. MaxPublished + 1
    /\ intent # None => intent.kind \in Operations /\ intent.phase \in {"prepared", "restart", "starting", "exhausted", "rollback"}
    /\ Cardinality(Generations(Now)) <= MaxGenerations

\* Whatever a loss of power leaves, everything with a generation's name is a
\* complete generation, so that no later scan of the store can fail on it.
GenerationsVerify ==
    \A v \in Images : \A g \in Generations(v) : Complete(v, Gen(g)) /\ ~\E f \in Range(FileNames) : <<v.root[Gen(g)], f>> \in dirty

\* "A reference is never selected before its release and complete runtime
\* generation are durable" (ADR 0017): every reference a loss of power may leave
\* names a generation every such loss leaves.
SelectedIsDurable ==
    \A v \in Images : v.ref.active # None => v.ref.active \in Generations(v)

\* A transition keeps both generations it may end with: the source until it is
\* over, and the candidate once the reference may name it.
WayBackKept ==
    intent # None =>
        \A v \in Images : /\ intent.src \in Generations(v)
                          /\ intent.kind = "route" => intent.cand \in Generations(v)

\* A transition that is over stays selected through a loss of power.
CompletedStays ==
    intent = None /\ reported # None => \A v \in Images : v.ref.active = reported

\* "it selects and syncs the candidate active reference and advances intent to
\* restart-required" (ADR 0017): the phase is never ahead of the reference.
RestartIsSynced ==
    intent # None /\ intent.phase \in {"restart", "starting"} =>
        \A v \in Images : v.ref.active = intent.cand

\* No process ever meets a store or a reference it must refuse for good.
NoContradiction == errors = {}

\* A transition that has recorded its intent comes to an end.
TransitionsEnd == intent = None
=============================================================================
