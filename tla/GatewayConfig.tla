---------------------------- MODULE GatewayConfig ----------------------------
(***************************************************************************)
(* How a gateway process comes up (apps/gateway/main.rs, crates/gateway/   *)
(* config.rs, the constructor in vendor.rs): the command line over the     *)
(* environment over the defaults, the tenant file, the vendor file, and    *)
(* what each of them refuses. Pure operators: a deployment d is what an    *)
(* operator provides, BuildGateway(d) the state the process serves with.   *)
(*                                                                         *)
(* d.args      the options of the command line, [flag, value], in order    *)
(* d.service,  the environment, with the prefix MOONCACHE_GATEWAY_ and     *)
(* d.common    with MOONCACHE_: functions from flags to values             *)
(* d.busy      addresses that cannot be bound                              *)
(* d.tenants,  the files: functions from paths to their parsed TOML, a     *)
(* d.vendors   sequence of entries; a path outside the domain is a file    *)
(*             that cannot be read or parsed                               *)
(* d.secrets   environment variables that hold vendor API keys             *)
(*                                                                         *)
(* Ids of tenants, vendors and nodes are naturals in the order of the      *)
(* strings; Blank is a string without a visible character, for an option   *)
(* the empty one. A store node item is a pair of a node id and the node    *)
(* that its URL reaches, NoItem between two commas, or BadItem.            *)
(***************************************************************************)
EXTENDS Integers, Sequences
S == INSTANCE SequencesExt

CONSTANTS
  Blank,      \* the empty string
  OpenAi      \* the id "openai"

NoItem == <<>>
BadItem == <<Blank>>

\* The digest in a file, and one that is not 64 lower case hex digits.
Sha256(token) == <<"sha256", token>>
BadDigest == <<"text">>

First(entries) == CHOOSE e \in entries : \A o \in entries : e.id <= o.id

\* A list of entries is refused when it is empty or has an id twice.
Loads(files, path) ==
  /\ path \in DOMAIN files
  /\ files[path] # <<>>
  /\ \A i, j \in DOMAIN files[path] : files[path][i].id = files[path][j].id => i = j

-----------------------------------------------------------------------------
(* The tenant file. *)

ValidTenant(t) ==
  /\ t.id # Blank
  /\ t.digest # BadDigest
  /\ t.name # Blank
  /\ t.rate > 0
  /\ t.streams > 0
  /\ t.ttl > 0 /\ t.maxTtl > 0
  /\ t.ttl <= t.maxTtl
  /\ t.allowed # {}
  /\ Blank \notin t.allowed

\* The id of the first enabled tenant with the token's digest, Blank if none.
TenantForBearerToken(tenants, token) ==
  LET found == {t \in tenants : t.enabled /\ t.digest = Sha256(token)}
  IN  IF found = {} THEN Blank ELSE First(found).id

-----------------------------------------------------------------------------
(* The vendor file and the adapter made from its first vendor.             *)

ValidVendor(v) ==
  /\ Blank \notin {v.id, v.adapter, v.version, v.baseUrl, v.keyEnv}
  /\ v.timeout > 0
  /\ v.models # <<>>
  /\ \A i \in DOMAIN v.models : Blank \notin {v.models[i].requested, v.models[i].resolved}

\* OpenAiResponsesAdapter::new: a URL of slashes only is empty once trimmed.
AdapterOk(v, secrets) ==
  /\ v.adapter = "openai-responses"
  /\ v.keyEnv \in DOMAIN secrets
  /\ v.baseUrl # "/"
  /\ secrets[v.keyEnv] # Blank

\* The map from requested models; of two entries for one model the last counts.
ModelMap(models) ==
  [m \in {e.requested : e \in S!ToSet(models)} |->
     LET last == S!SelectLastInSeq(models, LAMBDA e : e.requested = m) IN models[last]]

\* The adapter's names are fixed, whatever the file says.
VendorId == OpenAi
AdapterVersion == "openai-responses-v1"

ResolveModelVersion(models, m) == IF m \in DOMAIN models THEN models[m].resolved ELSE m

ModelCacheEligible(models, m) == m \in DOMAIN models => models[m].eligible

AllowsVendor(tenants, id) == \E t \in tenants : t.id = id /\ VendorId \in t.allowed

-----------------------------------------------------------------------------
(* The command line. *)

PathFlags == {"bind-addr", "etcd-url", "master-url", "tenant-config", "ssd-root",
              "metrics-bind-addr", "vendor-config"}

\* DEFAULT_STORE_NODES names the node "default", the id 1.
Defaults == [f \in PathFlags \cup {"store-nodes"} |->
               IF f = "store-nodes" THEN <<<<1, 1>>>> ELSE "default"]

EnvValue(d, f) ==
  IF f \in DOMAIN d.service THEN d.service[f]
  ELSE IF f \in DOMAIN d.common THEN d.common[f] ELSE Defaults[f]

\* insert_store_node: adds or replaces; the first item that is not NODE_ID=URL
\* ends the parsing with an error.
InsertStoreNode(cfg, item) ==
  IF item \in {NoItem, BadItem} THEN [cfg EXCEPT !.ok = FALSE]
  ELSE [cfg EXCEPT !.nodes = [n \in DOMAIN @ \cup {item[1]} |->
                                IF n = item[1] THEN item[2] ELSE @[n]]]

\* parse_store_node_urls: replaces the map; empty items are skipped, an empty
\* list is an error.
ParseStoreNodeUrls(cfg, items) ==
  LET parsed == S!FoldLeft(InsertStoreNode, [cfg EXCEPT !.nodes = [n \in {} |-> 0]],
                         SelectSeq(items, LAMBDA i : i # NoItem))
  IN  [parsed EXCEPT !.ok = @ /\ DOMAIN parsed.nodes # {}]

FromEnv(d) ==
  ParseStoreNodeUrls([ok |-> TRUE, nodes |-> [n \in {} |-> 0],
                      path |-> [f \in PathFlags |-> EnvValue(d, f)]],
                     EnvValue(d, "store-nodes"))

\* next_value and required_value: a flag without a value is followed by Blank.
HasValue(o) == o.value # Blank

ApplyOption(cfg, o) ==
  CASE HasValue(o) /\ o.flag \in PathFlags -> [cfg EXCEPT !.path[o.flag] = o.value]
    [] HasValue(o) /\ o.flag = "store-nodes" -> ParseStoreNodeUrls(cfg, o.value)
    [] HasValue(o) /\ o.flag = "store-node" -> InsertStoreNode(cfg, o.value)
    [] OTHER -> [cfg EXCEPT !.ok = FALSE]   \* also for an unknown flag

AsksForHelp(d) == \E i \in DOMAIN d.args : d.args[i].flag = "help"

ParseConfig(d) == S!FoldLeft(ApplyOption, FromEnv(d), d.args)

-----------------------------------------------------------------------------
(* main, run_server and build_gateway_state_from_config: the process binds *)
(* its address and then loads the files; whatever fails ends it.           *)

NotServing == [up |-> FALSE, tenants |-> {}, models |-> [m \in {} |-> 0], nodes |-> [n \in {} |-> 0]]

TenantsOf(d, cfg) == S!ToSet(d.tenants[cfg.path["tenant-config"]])
VendorsOf(d, cfg) == S!ToSet(d.vendors[cfg.path["vendor-config"]])

ComesUp(d, cfg) ==
  /\ ~AsksForHelp(d)
  /\ cfg.ok
  /\ cfg.path["bind-addr"] \notin d.busy
  /\ Loads(d.tenants, cfg.path["tenant-config"])
  /\ \A t \in TenantsOf(d, cfg) : ValidTenant(t)
  /\ Loads(d.vendors, cfg.path["vendor-config"])
  /\ \A v \in VendorsOf(d, cfg) : ValidVendor(v)
  /\ AdapterOk(First(VendorsOf(d, cfg)), d.secrets)

RunServer(d, cfg) ==
  IF ComesUp(d, cfg)
  THEN [up |-> TRUE, tenants |-> TenantsOf(d, cfg), nodes |-> cfg.nodes,
        models |-> ModelMap(First(VendorsOf(d, cfg)).models)]
  ELSE NotServing

BuildGateway(d) == RunServer(d, ParseConfig(d))

=============================================================================
