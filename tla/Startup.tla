------------------------------ MODULE Startup ------------------------------
(***************************************************************************)
(* main (src/main.rs) up to run_dispatch: load and validate the            *)
(* configuration, discover the HTTP backends and then the stdio backends,  *)
(* each in the order of the file, fall back to the stub catalog,           *)
(* authenticate, open the audit log, and build what the tasks share.       *)
(*                                                                         *)
(* Files, tokens, servers and databases are choices: which configuration   *)
(* is loaded, what a backend offers or whether discovery fails, and how    *)
(* each step that can end main turns out.                                  *)
(***************************************************************************)
EXTENDS ToolCatalog

CONSTANTS
  Configs,      \* the configurations: sequences of BackendConfig
  Offers,       \* the lists of tool names a backend may offer
  BadSchemas    \* names whose input schema does not compile

BackendConfig ==
  [name : STRING, type : {"Http", "Stdio"}, url : {"some", "none"}, command : {"some", "none"}]

ASSUME ConfigsAssumption == Configs \subseteq Seq(BackendConfig)
ASSUME OffersAssumption == Offers \subseteq Seq(Seq(STRING))

VARIABLES
  pc,             \* where main is
  config, i,      \* the configuration, and the entry whose turn it is
  catalog,        \* ToolCatalog
  backends_map,   \* name -> the entry whose connection it holds
  caller, audit,  \* the session's identity, and is the audit log "on"
  validators, health_map, circuit_breakers,
  offered         \* history: entry -> what it offered, if discovered

sharedVars == <<validators, health_map, circuit_breakers>>
vars == <<pc, config, i, catalog, backends_map, caller, audit, sharedVars, offered>>

Indices == DOMAIN config

Init ==
  /\ pc = "load" /\ config = <<>> /\ i = 0
  /\ catalog = EmptyMap /\ backends_map = EmptyMap
  /\ caller = "none" /\ audit = "off"
  /\ validators = EmptyMap /\ health_map = EmptyMap /\ circuit_breakers = {}
  /\ offered = EmptyMap
-----------------------------------------------------------------------------
\* Faulty variant of ValidateBackends: names may repeat.
ValidateBackendsLax(backends) ==
  \A k \in DOMAIN backends :
    IF backends[k].type = "Http" THEN backends[k].url = "some"
                                 ELSE backends[k].command = "some"

\* validate_backends succeeds.
ValidateBackends(backends) ==
  /\ \A j, k \in DOMAIN backends : backends[j].name = backends[k].name => j = k
  /\ \A k \in DOMAIN backends :
       IF backends[k].type = "Http" THEN backends[k].url = "some"
                                    ELSE backends[k].command = "some"

\* load_config_lenient: a file that cannot be read or parsed, or that does
\* not validate, ends main.
LoadConfig ==
  /\ pc = "load"
  /\ \/ config' \in Configs /\ pc' = IF ValidateBackends(config') THEN "http" ELSE "failed"
     \/ pc' = "failed" /\ UNCHANGED config
  /\ i' = 1
  /\ UNCHANGED <<catalog, backends_map, caller, audit, sharedVars, offered>>

\* The first entry of the type at k or after it, or one past the end.
NextOf(type, k) ==
  CHOOSE n \in k..(Len(config) + 1) :
    /\ n <= Len(config) => config[n].type = type
    /\ \A m \in k..(n - 1) : config[m].type # type

\* Discovery of entry k succeeded: register its tools and its connection.
Register(k, names) ==
  LET tools == [n \in DOMAIN names |-> [from |-> k, name |-> names[n]]]
  IN  /\ catalog' = RegisterBackend(catalog, config[k].name, tools)
      /\ backends_map' = Insert(backends_map, config[k].name, k)
      /\ offered' = Insert(offered, k, names)

\* The loop over the backends of a type; discover_tools or the supervisor's
\* report may come to nothing.
Discover(place, type, then) ==
  LET k == NextOf(type, i)
  IN  /\ pc = place
      /\ IF k > Len(config)
           THEN /\ pc' = then /\ i' = 1
                /\ UNCHANGED <<catalog, backends_map, offered>>
           ELSE /\ i' = k + 1 /\ UNCHANGED pc
                /\ \/ \E names \in Offers : Register(k, names)
                   \/ UNCHANGED <<catalog, backends_map, offered>>
      /\ UNCHANGED <<config, caller, audit, sharedVars>>

DiscoverHttp == Discover("http", "Http", "stdio")
DiscoverStdio == Discover("stdio", "Stdio", "stub")

\* build_http_client fails: on to the stdio backends.
NoHttpClient ==
  /\ pc = "http" /\ i = 1 /\ NextOf("Http", 1) <= Len(config)
  /\ pc' = "stdio"
  /\ UNCHANGED <<config, i, catalog, backends_map, caller, audit, sharedVars, offered>>

\* discovery_succeeded is false.
StubFallback ==
  /\ pc = "stub"
  /\ catalog' = IF backends_map = EmptyMap THEN StubCatalog ELSE catalog
  /\ pc' = "auth"
  /\ UNCHANGED <<config, i, backends_map, caller, audit, sharedVars, offered>>

\* Without a secret the session is run_dispatch's admin; with one, a token
\* that is missing or does not validate ends main.
Authenticate ==
  /\ pc = "auth"
  /\ \/ caller' = "admin" /\ pc' = "audit"
     \/ caller' = "token" /\ pc' = "audit"
     \/ pc' = "failed" /\ UNCHANGED caller
  /\ UNCHANGED <<config, i, catalog, backends_map, audit, sharedVars, offered>>

\* Off in the configuration or without a URL; otherwise a pool or migration
\* that fails ends main.
OpenAudit ==
  /\ pc = "audit"
  /\ \/ audit' \in {"off", "on"} /\ pc' = "share"
     \/ pc' = "failed" /\ UNCHANGED audit
  /\ UNCHANGED <<config, i, catalog, backends_map, caller, sharedVars, offered>>

\* Faulty variant of WithBreaker: one for every backend in the file.
WithBreakerAll == {config[k].name : k \in Indices}

\* The backends that get a circuit breaker.
WithBreaker == {config[k].name : k \in Indices} \cap DOMAIN backends_map

\* SchemaCache, the health map and the circuit breakers; then the tasks are
\* spawned and run_dispatch takes over.
Share ==
  /\ pc = "share"
  /\ validators' \in FromCatalog(catalog, BadSchemas)
  /\ health_map' = [b \in DOMAIN backends_map |-> "healthy"]
  /\ circuit_breakers' = WithBreaker
  /\ pc' = "serving"
  /\ UNCHANGED <<config, i, catalog, backends_map, caller, audit, offered>>

Next ==
  \/ LoadConfig \/ DiscoverHttp \/ NoHttpClient \/ DiscoverStdio \/ StubFallback
  \/ Authenticate \/ OpenAudit \/ Share

Spec == Init /\ [][Next]_vars
-----------------------------------------------------------------------------
TypeOK ==
  /\ pc \in {"load", "http", "stdio", "stub", "auth", "audit", "share", "serving", "failed"}
  /\ config \in Configs \cup {<<>>} /\ i \in 0..(Len(config) + 1)
  /\ \A n \in DOMAIN catalog :
       /\ catalog[n].tool.from \in 0..Len(config)
       /\ catalog[n].backend \in {config[k].name : k \in Indices} \cup {"stub-n8n", "stub-sqlite"}
  /\ IsMap(backends_map, STRING, Indices)
  /\ caller \in {"none", "admin", "token"} /\ audit \in {"off", "on"}
  /\ Range(validators) \subseteq AllTools(catalog)
  /\ offered \in [DOMAIN offered -> Offers]

\* The entry that offered the tool listed as n; the stubs come from none.
Offerer(n) == catalog[n].tool.from
Stub(n) == Offerer(n) = 0

(* A call is routed to the connection that offered the tool, and its
   arguments are checked against that tool's own schema: collisions, prefixes
   and backends that come later never put another tool's definition, owner or
   validator behind a name. *)
RoutesTrue ==
  /\ \A n \in DOMAIN catalog :
       /\ catalog[n].name = n
       /\ ~Stub(n) => backends_map[catalog[n].backend] = Offerer(n)
  /\ \A n \in DOMAIN validators : n \in DOMAIN catalog /\ validators[n] = catalog[n]

\* The order in which entries are discovered.
Before(j, k) ==
  \/ config[j].type = config[k].type /\ j < k
  \/ config[j].type = "Http" /\ config[k].type = "Stdio"

(* The first backend to offer a name keeps it, and no tool disappears: a tool
   is listed under its own name if no backend came before with that name, and
   under that or its prefixed name otherwise, unless the prefixed name of some
   other tool is spelled the same and has taken its place. *)
FirstKeepsName ==
  \A k \in DOMAIN offered : \A t \in Range(offered[k]) :
    LET tool  == [from |-> k, name |-> t]
        At(n) == n \in DOMAIN catalog /\ catalog[n].tool = tool
        Taken(n) == /\ n \in DOMAIN catalog /\ catalog[n].tool # tool
                    /\ catalog[n].tool.name # n
        pre   == <<config[k].name>> \o t
        first == \A j \in DOMAIN offered : Before(j, k) => t \notin Range(offered[j])
    IN  IF first THEN At(t) \/ Taken(t)
                 ELSE At(t) \/ At(pre) \/ Taken(t) \/ Taken(pre)

(* What run_dispatch may rely on: the backends with a connection are those
   with a breaker and those in the health map, every tool it routes goes to
   one of them unless nothing was discovered at all, and every tool that has
   a validator is routed. *)
MapsAgree ==
  pc = "serving" =>
    /\ circuit_breakers = DOMAIN backends_map
    /\ DOMAIN health_map = DOMAIN backends_map
    /\ DOMAIN validators \subseteq DOMAIN catalog
    /\ \A n \in DOMAIN catalog :
         IF backends_map = EmptyMap THEN Stub(n) ELSE catalog[n].backend \in DOMAIN backends_map

(* src/catalog/mod.rs: "Tracks which backend owns each tool for routing
   tool/call requests to the correct backend".  handle_tools_call forwards the
   params as they came, so the backend is asked for the tool under the name
   the catalog lists: it has to know that name. *)
CallableAsListed ==
  pc = "serving" =>
    \A n \in DOMAIN catalog : ~Stub(n) => n \in Range(offered[Offerer(n)])
=============================================================================
