---------------------------- MODULE CaddyRoutes ----------------------------
(***************************************************************************)
(* The routes of a Caddy generation: how caddy_routes.py derives them from *)
(* the tenants' records, how tenant_generation.py carries the origin-pull  *)
(* policy from one generation to the next, and how caddy_runtime.py checks *)
(* a generation's configuration against its declared route state before    *)
(* Caddy may load it.                                                      *)
(*                                                                         *)
(* A host name is a domain and a label; a tenant's canonical label is      *)
(* derived from its identity, so the tenant itself stands for it.  A route *)
(* is a set of host patterns, whether it wants a bare GET or HEAD of "/",  *)
(* and the reply its handlers give.  Caddy takes the first route that      *)
(* matches (every route is terminal).                                      *)
(***************************************************************************)
EXTENDS Naturals, Sequences, FiniteSets, SequencesExt

CONSTANTS
    Identities,     \* the tenants' identities in their order, also their canonical labels
    Slugs,          \* labels an operator may choose
    Deployments,    \* deployment identities
    Authorities,    \* origin-pull CA certificates
    MaxGenerations, \* bound: generations derived after the bootstrap
    MaxDamage       \* bound: times one file of the selected generation is edited

VARIABLES
    records,  \* the tenants' manifest, observed state and deployment
    gen,      \* identity of the selected generation
    conf,     \* its configuration
    meta,     \* its route metadata
    policy,   \* the origin-pull policy the host was bootstrapped with
    built,    \* what the builder returned for the selected generation
    damaged   \* how often a file was edited

vars == <<records, gen, conf, meta, policy, built, damaged>>

Tenants == ToSet(Identities)
RESERVED_SLUGS == {"hosting", "secure", "www"}

----------------------------------------------------------------------------
(* Host names and patterns.                                                *)

Host(domain, label) == [domain |-> domain, label |-> label]
Platform(label) == Host("platform", label)
Tenant(label) == Host("tenant", label)

PLATFORM_COMPATIBILITY_HOSTS == {Platform("hosting"), Platform("www")}
PLATFORM_UNKNOWN_HOSTS == {Platform("secure"), Platform("*")}
TENANT_HOSTS == {Tenant("apex"), Tenant("*")}
AnyHost == {Host("*", "*")}

(* The three forms of a host pattern: exact, "*." and no matcher at all.   *)
Matches(pattern, host) ==
    \/ pattern.domain = "*"
    \/ /\ pattern.domain = host.domain
       /\ pattern.label = host.label \/ (pattern.label = "*" /\ host.label # "apex")

ValidSlug(label) == label \notin RESERVED_SLUGS \cup Tenants

----------------------------------------------------------------------------
(* Replies and routes.  root is what the file server serves: nothing, the  *)
(* platform's fixture, or one release of one tenant.                       *)

NO_TRANSFORM == "no-transform"
NO_STORE_NO_TRANSFORM == "no-store"

Reply(status, root, location, cache, cookies) ==
    [status |-> status, root |-> root, location |-> location,
     cache |-> cache, cookies |-> cookies]

NotFound(cookies) == Reply(404, <<>>, <<>>, NO_STORE_NO_TRANSFORM, cookies)
Route(hosts, bare, reply) == [hosts |-> hosts, bare |-> bare, reply |-> reply]

CompatibilityRedirectRoute ==
    Route(PLATFORM_COMPATIBILITY_HOSTS, FALSE,
          Reply(301, <<>>, <<Platform("apex")>>, NO_STORE_NO_TRANSFORM, "keep"))

PlatformApexRoute ==
    Route({Platform("apex")}, FALSE,
          Reply(200, <<"fixture">>, <<>>, NO_TRANSFORM, "keep"))

PlatformUnknownRoute == Route(PLATFORM_UNKNOWN_HOSTS, FALSE, NotFound("keep"))

TenantNamespaceDarkRoute == Route(TENANT_HOSTS, FALSE, NotFound("remove"))

PlainHttpPlatformRoute ==
    Route({Platform("apex")} \cup PLATFORM_COMPATIBILITY_HOSTS \cup PLATFORM_UNKNOWN_HOSTS,
          FALSE, NotFound("keep"))

PlainHttpTenantRoute == Route(TENANT_HOSTS, FALSE, NotFound("remove"))

CatchAllUnknownRoute == Route(AnyHost, FALSE, NotFound("remove"))

TenantContentRoute(e) ==
    Route({Tenant(e.tenant)}, FALSE,
          Reply(200, <<e.tenant, e.deployment.id>>, <<>>, NO_TRANSFORM, "remove"))

TenantAliasRoute(e) ==
    Route({Tenant(e.slug)}, TRUE,
          Reply(302, <<>>, <<Tenant(e.tenant)>>, NO_STORE_NO_TRANSFORM, "remove"))

(* What file_server answers for a path the release does not have: the      *)
(* error routes replace the reply.                                         *)
ErrorReply(reply) ==
    [NotFound("remove") EXCEPT !.cookies = reply.cookies]

(* Caddy's first-match evaluation of a route list (external).              *)
Answer(routes, req) ==
    LET hit == {i \in DOMAIN routes : /\ \E p \in routes[i].hosts : Matches(p, req.host)
                                      /\ routes[i].bare => req.bare}
        reply == routes[CHOOSE i \in hit : \A j \in hit : i =< j].reply
    IN  IF reply.root # <<>> /\ req.missing THEN ErrorReply(reply) ELSE reply

----------------------------------------------------------------------------
(* The origin-pull policy: one or two distinct CA certificates, and        *)
(* whether a client certificate is required.                               *)

OriginPullCaCertificates(certificates) ==
    /\ Len(certificates) \in 1..2
    /\ Cardinality(ToSet(certificates)) = Len(certificates)

Trust(p) ==
    [ca |-> p.certificates,
     mode |-> IF p.required THEN "require_and_verify" ELSE "verify_if_given"]

PolicyReadable(c) ==
    /\ OriginPullCaCertificates(c.trust.ca)
    /\ c.trust.mode \in {"verify_if_given", "require_and_verify"}

ConfiguredOriginPullPolicy(c) ==
    [certificates |-> c.trust.ca, required |-> c.trust.mode = "require_and_verify"]

Policies ==
    [certificates : {s \in UNION {[1..n -> Authorities] : n \in 1..2} :
                        OriginPullCaCertificates(s)},
     required : BOOLEAN]

----------------------------------------------------------------------------
(* One tenant's input.  "none" is a tenant that has no routes to derive:   *)
(* not created, deleted or archived.                                       *)

NoDeployment == [tenant |-> "none", id |-> "none"]

Entries(t) ==
    [tenant : {t}, slug : Slugs \cup Tenants \cup RESERVED_SLUGS,
     lifecycle : {"undeployed", "active", "suspended"},
     deployment : [tenant : Tenants, id : Deployments] \cup {NoDeployment}]

ValidateTenantRouteInput(e) ==
    /\ ValidSlug(e.slug)
    /\ IF e.lifecycle = "undeployed"
       THEN e.deployment = NoDeployment
       ELSE e.deployment.tenant = e.tenant

RequireUniqueTenantRoutes(entries) ==
    \A a, b \in entries : a # b =>
        /\ a.tenant # b.tenant /\ a.slug # b.slug
        /\ a.deployment.id = b.deployment.id => a.deployment = NoDeployment

Before(a, b) ==
    SelectInSeq(Identities, LAMBDA t : t = a.tenant) <
        SelectInSeq(Identities, LAMBDA t : t = b.tenant)

Active(entries) == SelectSeq(entries, LAMBDA e : e.lifecycle = "active")

ContentRoutes(entries) == [i \in DOMAIN entries |-> TenantContentRoute(entries[i])]
AliasRoutes(entries) == [i \in DOMAIN entries |-> TenantAliasRoute(entries[i])]

----------------------------------------------------------------------------
(* The builders.  loggers maps a host pattern to the log its requests are  *)
(* written to: "alias" deletes the URI and the headers, "log0" keeps them. *)

CertificateSubjects ==
    {Platform("apex"), Platform("*"), Tenant("apex"), Tenant("*")}

(* The metadata's routes of a platform-only generation.                    *)
RouteState(p) ==
    [class |-> "platform-only", tenants |-> <<>>, generation |-> 0, count |-> 0,
     ca |-> p.certificates, required |-> p.required,
     routes |-> <<PlatformApexRoute, CompatibilityRedirectRoute, PlatformUnknownRoute,
                  TenantNamespaceDarkRoute, CatchAllUnknownRoute>>]

(* A content route and an alias route for each.                            *)
TenantRouteCount(active) == 2 * Len(active)

(* A tenant's two routes are inserted after the platform's three.          *)
TenantRouteState(entries, g, p) ==
    LET active == Active(entries)
        routes == FlattenSeq([i \in DOMAIN active |->
                      <<TenantContentRoute(active[i]), TenantAliasRoute(active[i])>>])
    IN  [RouteState(p) EXCEPT
            !.class = "tenant-capable", !.tenants = entries, !.generation = g,
            !.count = TenantRouteCount(active),
            !.routes = SubSeq(@, 1, 3) \o routes \o SubSeq(@, 4, 5)]

(* The metadata declares the state and its digest.                         *)
Sealed(state) == [state |-> state, digest |-> state]

BuildPlatformOnly(p) ==
    [conf |->
        [http |-> <<PlainHttpPlatformRoute, PlainHttpTenantRoute, CatchAllUnknownRoute>>,
         production |-> <<CompatibilityRedirectRoute, PlatformApexRoute, PlatformUnknownRoute,
                          TenantNamespaceDarkRoute, CatchAllUnknownRoute>>,
         loggers |-> [h \in CertificateSubjects |-> "log0"],
         trust |-> Trust(p)],
     meta |-> Sealed(RouteState(p))]

Loggers(active) ==
    LET named(h) == \E i \in DOMAIN active : h = Tenant(active[i].tenant)
        aliases == {Tenant(active[i].slug) : i \in DOMAIN active}
        origins == {Tenant(active[i].tenant) : i \in DOMAIN active}
    IN  [h \in CertificateSubjects \cup aliases \cup origins |->
            IF h.domain = "platform" \/ (named(h) /\ h \notin aliases)
            THEN "log0" ELSE "alias"]

(* The derivation refuses the inputs, and with them the whole generation.  *)
Derivable(entries) ==
    /\ \A e \in ToSet(entries) : ValidateTenantRouteInput(e)
    /\ RequireUniqueTenantRoutes(ToSet(entries))
    /\ Cardinality(ToSet(entries)) = Len(entries)

BuildTenant(given, g, p) ==
    LET entries == SortSeq(given, Before)
        active == Active(entries)
    IN  [conf |->
            [http |-> <<PlainHttpPlatformRoute>> \o AliasRoutes(active)
                        \o <<PlainHttpTenantRoute, CatchAllUnknownRoute>>,
             production |->
                <<CompatibilityRedirectRoute, PlatformApexRoute, PlatformUnknownRoute>>
                    \o ContentRoutes(active) \o AliasRoutes(active)
                    \o <<TenantNamespaceDarkRoute, CatchAllUnknownRoute>>,
             loggers |-> Loggers(active),
             trust |-> Trust(p)],
         meta |-> Sealed(TenantRouteState(entries, g, p))]

----------------------------------------------------------------------------
(* A generation's configuration and metadata must be what the builders     *)
(* return for the metadata's inputs and the configuration's policy.        *)

TenantRouteInputs(m, g) == m.state.generation = g /\ m.state.class = "tenant-capable"

RouteBinding(c, m, g) ==
    /\ PolicyReadable(c)
    /\ LET p == ConfiguredOriginPullPolicy(c)
       IN  \/ /\ m.state.class = "platform-only"
              /\ [conf |-> c, meta |-> m] = BuildPlatformOnly(p)
           \/ /\ TenantRouteInputs(m, g)
              /\ Derivable(m.state.tenants)
              /\ [conf |-> c, meta |-> m] = BuildTenant(m.state.tenants, g, p)

----------------------------------------------------------------------------

NoTenant(t) == [tenant |-> t, slug |-> "none", lifecycle |-> "none", deployment |-> NoDeployment]

(* The tenants' routable records, in the order the store lists them.       *)
Snapshot(r) ==
    SelectSeq([i \in DOMAIN Identities |-> r[Identities[i]]], LAMBDA e : e.lifecycle # "none")

Take(b, g) ==
    /\ conf' = b.conf /\ meta' = b.meta /\ gen' = g
    /\ built' = b

(* The platform bootstrap selects a generation without tenants.            *)
Init ==
    /\ records = [t \in Tenants |-> NoTenant(t)]
    /\ gen = 0
    /\ policy \in Policies
    /\ conf = BuildPlatformOnly(policy).conf
    /\ meta = BuildPlatformOnly(policy).meta
    /\ built = BuildPlatformOnly(policy)
    /\ damaged = 0

(* A transition moves one tenant: the candidate is derived from the        *)
(* verified active generation's policy and the records under the overlay.  *)
DeriveTenantGeneration(t, e) ==
    LET after == [records EXCEPT ![t] = e]
        entries == Snapshot(after)
    IN  /\ gen < MaxGenerations
        /\ e # records[t]
        /\ RouteBinding(conf, meta, gen)
        /\ Derivable(entries)
        /\ Take(BuildTenant(entries, gen + 1, ConfiguredOriginPullPolicy(conf)), gen + 1)
        /\ records' = after
        /\ UNCHANGED <<policy, damaged>>

(* One of the two files is replaced: by the file of a generation with a    *)
(* tenant less or with none, or by itself with one route, one entry or the *)
(* trust changed.                                                          *)
OtherGenerations ==
    {BuildPlatformOnly(policy)} \cup
    {BuildTenant(RemoveAt(meta.state.tenants, i), gen - 1, policy) : i \in DOMAIN meta.state.tenants}

EditedConfigurations ==
    {b.conf : b \in OtherGenerations}
    \cup {[conf EXCEPT !.production = RemoveAt(@, i)] : i \in DOMAIN conf.production}
    \cup {[conf EXCEPT !.trust.mode = m] : m \in {"verify_if_given", "request"}}
    \cup {[conf EXCEPT !.trust.ca = s] : s \in UNION {[1..n -> Authorities] : n \in 0..2}}

EditedMetadata ==
    {b.meta : b \in OtherGenerations}
    \cup {[meta EXCEPT !.state.routes = RemoveAt(@, i)] : i \in DOMAIN meta.state.routes}
    \cup {[meta EXCEPT !.state.tenants = RemoveAt(@, i)] : i \in DOMAIN meta.state.tenants}
    \cup {[meta EXCEPT !.state.tenants = Reverse(@)], [meta EXCEPT !.state.required = ~@]}

Damage ==
    /\ damaged < MaxDamage
    /\ damaged' = damaged + 1
    /\ \/ conf' \in EditedConfigurations \ {conf} /\ UNCHANGED meta
       \/ meta' \in EditedMetadata \ {meta} /\ UNCHANGED conf
    /\ UNCHANGED <<records, gen, policy, built>>

Next ==
    \/ \E t \in Tenants : \E e \in Entries(t) \cup {NoTenant(t)} : DeriveTenantGeneration(t, e)
    \/ Damage

Spec == Init /\ [][Next]_vars

----------------------------------------------------------------------------
(* What the host promises, without routes and their order.                 *)

Requests ==
    [host : [domain : {"platform", "tenant", "other"},
             label : {"apex", "unused"} \cup RESERVED_SLUGS \cup Tenants \cup Slugs],
     bare : BOOLEAN, missing : BOOLEAN]

ActiveIn(entries) == {entries[i] : i \in {j \in DOMAIN entries : entries[j].lifecycle = "active"}}

Promise(entries, req) ==
    LET owner == {e \in ActiveIn(entries) : req.host = Tenant(e.tenant)}
        named == {e \in ActiveIn(entries) : req.host = Tenant(e.slug)}
        e(S) == CHOOSE x \in S : TRUE
        content(root, cookies) ==
            IF req.missing THEN NotFound(cookies)
            ELSE Reply(200, root, <<>>, NO_TRANSFORM, cookies)
    IN  CASE req.host = Platform("apex") -> content(<<"fixture">>, "keep")
          [] req.host \in PLATFORM_COMPATIBILITY_HOSTS ->
                Reply(301, <<>>, <<Platform("apex")>>, NO_STORE_NO_TRANSFORM, "keep")
          [] owner # {} -> content(<<e(owner).tenant, e(owner).deployment.id>>, "remove")
          [] named # {} /\ req.bare ->
                Reply(302, <<>>, <<Tenant(e(named).tenant)>>, NO_STORE_NO_TRANSFORM, "remove")
          [] OTHER -> NotFound(IF req.host.domain = "platform" THEN "keep" ELSE "remove")

(* What Caddy loads when it opens the selected generation now.             *)
Loaded == IF RouteBinding(conf, meta, gen) THEN {[conf |-> conf, meta |-> meta]} ELSE {}

(* The state keeps its shape.                                              *)
TypeOK ==
    /\ \A t \in Tenants : records[t] \in Entries(t) \cup {NoTenant(t)}
    /\ gen \in 0..MaxGenerations
    /\ policy \in Policies
    /\ DOMAIN conf = {"http", "production", "loggers", "trust"}
    /\ DOMAIN meta = {"state", "digest"}
    /\ damaged \in 0..MaxDamage
    /\ damaged = 0 =>
        meta.state.count = 2 * Cardinality({t \in Tenants : records[t].lifecycle = "active"})

(* Whatever order the routes are in, Caddy answers every request on the    *)
(* TLS port as the loaded generation's tenant records promise: a canonical *)
(* host serves its own active tenant's selected release and nobody else's, *)
(* an alias only ever redirects a bare request, every other name is not    *)
(* found (_tenant_content_route, _tenant_alias_route and their order in    *)
(* build_tenant_caddy_routes).                                             *)
AnswersAsPromised ==
    \A s \in Loaded : \A req \in Requests :
        Answer(s.conf.production, req) = Promise(s.meta.state.tenants, req)

(* A canonical host is its tenant's alone: on either port it answers with  *)
(* this tenant's content or not at all, also while the tenant is suspended *)
(* or not created, and whatever slugs others chose (validate_slug).        *)
CanonicalHostsAreTheirOwn ==
    \A s \in Loaded : \A req \in {r \in Requests : r.host \in {Tenant(t) : t \in Tenants}} :
        \A reply \in {Answer(s.conf.production, req), Answer(s.conf.http, req)} :
            \/ reply.status = 404
            \/ reply.root # <<>> /\ reply.root[1] = req.host.label

(* Plain HTTP never serves content: only the bare aliases redirect, and to *)
(* the host the TLS port redirects them to.                                *)
PlainHttpServesNothing ==
    \A s \in Loaded : \A req \in Requests :
        LET plain == Answer(s.conf.http, req)
        IN  /\ plain.root = <<>>
            /\ plain.status = 404 \/ plain = Answer(s.conf.production, req)

(* A redirect of a name in the tenant domain leads to content of the       *)
(* tenant that has this name, never to a not-found page or another         *)
(* tenant's site.                                                          *)
RedirectsLead ==
    \A s \in Loaded : \A req \in Requests :
        LET reply == Answer(s.conf.production, req)
        IN  (req.host.domain = "tenant" /\ reply.location # <<>>) =>
                LET next == Answer(s.conf.production,
                                   [req EXCEPT !.host = reply.location[1], !.missing = FALSE])
                IN  /\ next.status = 200
                    /\ \E e \in ActiveIn(s.meta.state.tenants) :
                            e.slug = req.host.label /\ next.root[1] = e.tenant

(* The route state that the metadata declares, which the operators and the *)
(* reconciler read, describes what the configuration does.                 *)
MetadataTellsTheTruth ==
    \A s \in Loaded : \A req \in Requests :
        Answer(s.meta.state.routes, req) = Answer(s.conf.production, req)

(* The access log keeps the URI only of requests to the platform and to    *)
(* the canonical host of an active tenant: what is asked of an alias, or   *)
(* of a name that once was one, is not written down.                       *)
AliasRequestsNotLogged ==
    \A s \in Loaded : \A req \in Requests :
        LET exact == {h \in DOMAIN s.conf.loggers : h = req.host}
            wild == {h \in DOMAIN s.conf.loggers : Matches(h, req.host)}
            log == IF exact # {} THEN {s.conf.loggers[h] : h \in exact}
                   ELSE {s.conf.loggers[h] : h \in wild}
        IN  (req.host.domain = "tenant" /\ s.meta.state.class = "tenant-capable") =>
                (log = {"log0"} <=> Answer(s.conf.production, [req EXCEPT !.missing = FALSE]).root # <<>>)

(* Caddy loads a generation that is exactly what the builder returned, and *)
(* no other: an edit of either file is noticed, and nothing that nobody    *)
(* edited is refused (the policy survives its way through the file).       *)
OnlyBuiltIsLoaded ==
    Loaded = IF [conf |-> conf, meta |-> meta] = built THEN {built} ELSE {}

(* However many generations are derived from one another, the client       *)
(* certificates the host asks for are those it was bootstrapped with.      *)
PolicyCarried ==
    damaged = 0 =>
        conf.trust = [ca |-> policy.certificates,
                      mode |-> IF policy.required THEN "require_and_verify"
                               ELSE "verify_if_given"]
=============================================================================
