----------------------------- MODULE MCCacheFlow -----------------------------
(* Requests, deployments and bounds for model checking CacheFlow. *)
EXTENDS CacheFlow, TLC

CONSTANTS g1, g2, g3, g4

-----------------------------------------------------------------------------
(* Deployments. Tenant 1 is switched on with the token k1, tenant 2 with   *)
(* k2, tenant 3 is switched off, and tenant 4 may not use the vendor.      *)

Tenant(id, token, enabled, allowed) ==
  [id |-> id, name |-> "name", enabled |-> enabled, digest |-> Sha256(token), rate |-> 1,
   streams |-> 1, ttl |-> 1, maxTtl |-> 2, allowed |-> allowed]

TenantFile ==
  <<Tenant(2, "k2", TRUE, {OpenAi}), Tenant(1, "k1", TRUE, {OpenAi, 3}),
    Tenant(3, "k3", FALSE, {OpenAi}), Tenant(4, "k4", TRUE, {3}), Tenant(5, "k1", TRUE, {OpenAi})>>

Model(requested, resolved, eligible) ==
  [requested |-> requested, resolved |-> resolved, eligible |-> eligible]

Vendor(id, adapter, models) ==
  [id |-> id, adapter |-> adapter, version |-> "v", baseUrl |-> "url", keyEnv |-> "KEY",
   timeout |-> 1, models |-> models]

\* Model m is served as version resolved; model x may not be cached.
VendorFile(resolved) ==
  <<Vendor(OpenAi + 1, "other", <<Model("m", "other", FALSE)>>),
    Vendor(OpenAi, "openai-responses",
           <<Model("m", "m-0", FALSE), Model("x", "x-1", FALSE), Model("m", resolved, TRUE)>>)>>

\* A gateway started with defaults, and the node "default".
Plain(resolved) ==
  [args |-> <<>>, service |-> <<>>, common |-> <<>>, busy |-> {},
   tenants |-> [path \in {"default"} |-> TenantFile],
   vendors |-> [path \in {"default"} |-> VendorFile(resolved)],
   secrets |-> [name \in {"KEY"} |-> "secret"]]

Opt(flag, value) == [flag |-> flag, value |-> value]

\* One that a rollout has moved to the next version of the model, whose settings
\* come from the environment and the command line, the last one winning.
RolledOut ==
  [Plain("m-1") EXCEPT
     !.common = [f \in {"store-nodes", "vendor-config"} |->
                   IF f = "store-nodes" THEN <<<<2, 2>>>> ELSE "common"],
     !.service = [f \in {"vendor-config"} |-> "service"],
     !.args = <<Opt("store-nodes", <<<<1, 2>>, NoItem, <<2, 2>>>>), Opt("store-nodes", <<<<1, 2>>>>),
                Opt("store-node", <<1, 1>>), Opt("bind-addr", "a"), Opt("vendor-config", "new")>>,
     !.vendors = [path \in {"new"} |-> VendorFile("m-2")]]

\* Ones that do not come up, and a name for each.
Broken ==
  [args1 |-> [Plain("m-1") EXCEPT !.args = <<Opt("unknown", "v")>>],
   args2 |-> [Plain("m-1") EXCEPT !.args = <<Opt("store-node", <<3, 1>>), Opt("bind-addr", Blank)>>],
   args3 |-> [Plain("m-1") EXCEPT !.args = <<Opt("store-node", BadItem)>>],
   env |-> [Plain("m-1") EXCEPT !.common = [f \in {"store-nodes"} |-> <<NoItem>>]],
   help |-> [Plain("m-1") EXCEPT !.args = <<Opt("help", "v")>>],
   bind |-> [Plain("m-1") EXCEPT !.busy = {"default"}],
   noFile |-> [Plain("m-1") EXCEPT !.args = <<Opt("tenant-config", "missing")>>],
   twice |-> [Plain("m-1") EXCEPT !.tenants = [path \in {"default"} |-> TenantFile \o TenantFile]],
   ttl |-> [Plain("m-1") EXCEPT !.tenants["default"][1].ttl = 3],
   models |-> [Plain("m-1") EXCEPT !.vendors["default"][2].models = <<>>],
   adapter |-> [Plain("m-1") EXCEPT !.vendors["default"][2].adapter = "other"],
   secret |-> [Plain("m-1") EXCEPT !.secrets["KEY"] = Blank]]

ASSUME \A name \in DOMAIN Broken : ~BuildGateway(Broken[name]).up

OneConfig == [g \in Gateways |-> Plain("m-1")]
Rollout == [g \in Gateways |-> CASE g = g2 -> RolledOut [] g = g4 -> Broken.ttl
                                 [] OTHER -> Plain("m-1")]
TwoStores == [g \in Gateways |->
                [Plain("m-1") EXCEPT !.args = <<Opt("store-node", <<2, 2>>)>>]]

ReadFirst == [g \in Gateways |-> 1]

-----------------------------------------------------------------------------
(* Requests. *)

Prompt == [model |-> "m", input |-> "hi"]
HotPrompt == [model |-> "m", input |-> "hi", temperature |-> 1]
StreamPrompt(stream) == [model |-> "m", input |-> "hi", stream |-> stream]

Ask(gateway, token, control, body) ==
  [gateway |-> gateway, json |-> TRUE, scheme |-> "Bearer", token |-> token,
   xCacheControl |-> control, cacheControl |-> "absent", body |-> body]

\* Same prompt, plain and streaming on one gateway, and a second gateway; and a
\* request that is refused.
SameKeyKinds ==
  {Ask(g1, "k1", "absent", Prompt), Ask(g1, "k1", "absent", StreamPrompt(TRUE)),
   Ask(g2, "k1", "absent", Prompt), Ask(g1, "k1", "no-cache", Prompt)}

\* Every cache-control mode against the others, from two tenants, on gateways
\* before and after a rollout and on one without a cache.
ServedKinds ==
  {Ask(g1, "k1", control, Prompt) : control \in {"absent", "bypass", "read-only", "cache-only"}}
    \cup {Ask(g1, "k1", "force-replay", HotPrompt), Ask(g1, "k1", "absent", HotPrompt),
          Ask(g1, "k2", "default", Prompt),
          [Ask(g1, "k1", "absent", StreamPrompt(TRUE)) EXCEPT !.cacheControl = "cache-only"],
          Ask(g1, "k1", "write-only", StreamPrompt(TRUE)),
          Ask(g1, "k1", "write-only", StreamPrompt(FALSE)),
          Ask(g2, "k1", "absent", Prompt),
          Ask(g3, "k1", "absent", Prompt), Ask(g3, "k1", "cache-only", Prompt)}

\* One request for each reason to refuse it.
RefusedKinds ==
  {Ask(g4, "k1", "absent", Prompt), Ask(g1, "k3", "absent", Prompt), Ask(g1, "k4", "absent", Prompt),
   Ask(g1, "k1", "no-cache", Prompt), Ask(g1, "k1", "absent", [input |-> "hi"]),
   [Ask(g1, "k1", "absent", Prompt) EXCEPT !.json = FALSE],
   [Ask(g1, "k1", "not-utf8", Prompt) EXCEPT !.cacheControl = "bypass"],
   [Ask(g1, "k1", "absent", Prompt) EXCEPT !.scheme = "Basic"]}

PolicyKinds == ServedKinds \cup RefusedKinds

ASSUME RequestKinds = PolicyKinds =>
  /\ {q \in RequestKinds : ~Served(q)} = RefusedKinds
  /\ {Refusal[q] : q \in RefusedKinds} = {Reasons[i] : i \in DOMAIN Reasons}

TwoTenantKinds == {Ask(g1, "k1", "absent", Prompt), Ask(g1, "k2", "absent", Prompt)}

MCKeys == DOMAIN Documents

\* The Master believes that a node is larger than its arena (ArenaSize 2), and
\* places chunks on a node that no gateway has been told of.
OversizedNode == <<<<1, 3>>>>
UnknownNode == <<<<1, 3>>, <<2, 3>>>>
TwoNodes == <<<<1, 1>>, <<2, 1>>>>

Symmetry == Permutations(Requests)

=============================================================================
