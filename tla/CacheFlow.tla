------------------------------- MODULE CacheFlow -------------------------------
(***************************************************************************)
(* The request path of the gateways (crates/gateway/cache_flow.rs) composed*)
(* with one Master, the DRAM of the Store nodes and the singleflight group *)
(* of every gateway. A request is an async task; between two awaits it runs*)
(* alone, and at every await any other task, Master or Store may run.      *)
(*                                                                         *)
(* A call to the Master or to a Store is answered, or fails: the caller    *)
(* sees an error and the call may still take effect at any later moment,   *)
(* or never (set late). A task dropped while it awaits a call leaves the   *)
(* call in the same way. The clients of the Master and the Store have no   *)
(* timeout and no retry, so a call is made at most once.                   *)
(*                                                                         *)
(* Every gateway serves with what GatewayConfig makes of its deployment,   *)
(* and counts what it does (GatewayMetrics). Left out: the SSD tier        *)
(* (module StoreNode), what a vendor stream looks like (VendorStream), the *)
(* passing of time for leases (nothing here reads one), and what the       *)
(* Master persists (MasterHA).                                             *)
(***************************************************************************)
EXTENDS MasterState, StoreState, GatewayConfig

CONSTANTS
  Requests, Gateways,
  MaxWaiters, Nobody, Dropped,
  Deployments,      \* what each gateway is started with, see GatewayConfig
  RequestKinds,     \* the requests clients send, see Refuses
  CachelessGateways,\* gateways with cache_available = false
  Layout,           \* the mounted segments: a sequence of <<node, length>>
  ReadNode,         \* per gateway, the first URL of the RemoteStoreClient's map
  BodyLens,         \* lengths a vendor response can have
  MaxFaults,        \* bound on failed calls and dropped tasks
  MaxRemoves        \* bound on objects removed by an operator

\* The gateways that run, and what they serve with.
Deployed == [g \in Gateways |-> BuildGateway(Deployments[g])]

ASSUME ReadNodeAssumption ==
  \A g \in Gateways : Deployed[g].up => ReadNode[g] \in Range(Deployed[g].nodes)

VARIABLES
  req,        \* the request each task serves
  task,       \* the state of each task
  master,     \* the Master's state
  dram,       \* the arena of each Store node
  late,       \* calls whose caller is gone and that may still take effect
  faults, removes,
  metrics,    \* GatewayMetrics of each gateway
  inFlight, role, sfKey, completed, channel, source, result  \* singleflight

gatewayVars == <<inFlight, role, sfKey, completed, channel, source, result>>
vars == <<req, task, master, dram, late, faults, removes, metrics, gatewayVars>>

-----------------------------------------------------------------------------
(* What a request is: the headers and the body a client sends to a gateway.*)
(* A header text stands for all that trim and lower-case to it.            *)

Controls == {"Default", "Bypass", "ReadOnly", "WriteOnly", "CacheOnly", "ForceReplay"}

ParseControl(text) ==
  CASE text \in {"", "default", "absent"} -> "Default"
    [] text = "bypass" -> "Bypass"
    [] text = "read-only" -> "ReadOnly"
    [] text = "write-only" -> "WriteOnly"
    [] text = "cache-only" -> "CacheOnly"
    [] text = "force-replay" -> "ForceReplay"
    [] OTHER -> "Invalid"

\* x-cache-control is looked at first, cache-control only in its absence.
ControlHeader(q) == IF q.xCacheControl # "absent" THEN q.xCacheControl ELSE q.cacheControl
Control(q) == ParseControl(ControlHeader(q))

Serving(q) == Deployed[q.gateway]

Authenticate(q) ==
  IF q.scheme = "Bearer" THEN TenantForBearerToken(Serving(q).tenants, q.token) ELSE Blank

\* The reasons to turn a request away, in the order in which they are checked:
\* the connection, the Json extractor, the headers, handle_response_request.
Reasons == <<"Down", "NotJson", "BadHeader", "Unauthorized", "Forbidden", "BadControl", "BadBody">>

Refuses(q, gateway, tenant, reason) ==
  CASE reason = "Down" -> ~gateway.up
    [] reason = "NotJson" -> ~q.json
    [] reason = "BadHeader" -> "not-utf8" \in {q.scheme, ControlHeader(q)}
    [] reason = "Unauthorized" -> tenant = Blank
    [] reason = "Forbidden" -> ~AllowsVendor(gateway.tenants, tenant)
    [] reason = "BadControl" -> Control(q) = "Invalid"
    [] reason = "BadBody" -> "model" \notin DOMAIN q.body

\* The first reason that applies, "None" for a request that is served.
Refusal ==
  [q \in RequestKinds |->
     LET first == S!SelectInSeq(Reasons, LAMBDA reason : Refuses(q, Serving(q), Authenticate(q), reason))
     IN  IF first = 0 THEN "None" ELSE Reasons[first]]
Served(q) == Refusal[q] = "None"

-----------------------------------------------------------------------------
(* Cache keys and singleflight keys. *)

Streaming(q) == "stream" \in DOMAIN q.body /\ q.body.stream

\* fingerprint_body_without_stream: a streaming and a non-streaming request for
\* one prompt share their key. Canonical JSON makes two bodies the same exactly
\* when they are the same function from names to values.
FingerprintBody(q) == Restrict(q.body, DOMAIN q.body \ {"stream"})

ResolvedModel(q) == ResolveModelVersion(Serving(q).models, q.body.model)

\* fingerprint_policy
Policy(q) == IF Control(q) = "ForceReplay" THEN "force-replay" ELSE "default"

\* Mutant: the model's version is not part of the key.
CacheKey_NoVersion(q) ==
  [tenant |-> Authenticate(q), endpoint |-> "responses-v1", vendor |-> VendorId,
   adapter |-> AdapterVersion, policy |-> Policy(q), body |-> FingerprintBody(q)]

\* The document that is hashed.
CacheKey(q) ==
  [tenant |-> Authenticate(q), endpoint |-> "responses-v1", vendor |-> VendorId,
   version |-> ResolvedModel(q), adapter |-> AdapterVersion, policy |-> Policy(q),
   body |-> FingerprintBody(q)]

\* SHA-256 keeps different documents apart: a digest is a document's number.
Documents == S!SetToSeq({CacheKey(q) : q \in {k \in RequestKinds : Served(k)}})
Digest(docs, doc) == CHOOSE i \in DOMAIN docs : docs[i] = doc

NoId == <<>>
IdOf == [q \in RequestKinds |->
           IF Served(q) THEN <<Authenticate(q), Digest(Documents, CacheKey(q))>> ELSE NoId]
Id(r) == IdOf[req[r]]

\* classify_request: an absent temperature is 0.
Deterministic(q) == "temperature" \in DOMAIN q.body => q.body.temperature = 0

Eligible(q) ==
  /\ ModelCacheEligible(Serving(q).models, q.body.model)
  /\ Control(q) = "ForceReplay" \/ Deterministic(q)

WriteMode(q) == IF Control(q) = "ReadOnly" THEN "ReadOnly" ELSE "Writable"
\* Mutant: the write mode is not part of the singleflight key.
SfKeyOf_NoMode(q) == <<q.gateway, IdOf[q]>>
SfKeyOf(q) == <<q.gateway, IdOf[q], WriteMode(q)>>
SfKeySpace == {SfKeyOf(q) : q \in RequestKinds}

NoBody == NoContent
NoResponse == [status |-> "None", write |-> "Skipped", body |-> NoBody]
NoHandle == [seg |-> 0, node |-> Nobody, offset |-> 0, len |-> 0]

\* What a vendor answers: who asked, for what, and in which form.
Bodies == [id : Ids, by : Requests, stream : BOOLEAN, len : BodyLens]

\* GatewayMetrics: one counter per cache status, write status and singleflight
\* role, and the vendor calls. The latency total is left out.
CacheStatuses == {"Hit", "Miss", "Bypass", "Ineligible", "CacheOnlyMiss", "Degraded"}
WriteStatuses == {"Committed", "Failed", "Skipped"}
SingleflightRoles == {"leader", "waiter", "none", "over_capacity"}
Counters == CacheStatuses \cup WriteStatuses \cup SingleflightRoles \cup {"vendor_calls"}

ResponseStatuses ==
  CacheStatuses \cup {"None", "Rejected", "CacheError", "VendorError", "LeaderFailed"}
Responses == [status : ResponseStatuses, write : WriteStatuses,
              body : Bodies \cup {NoBody}]

\* The requests are finitely many, of gateways that exist; the ids of those that
\* are served are ids of the Master.
ASSUME RequestAssumption ==
  /\ IsFiniteSet(Requests) /\ IsFiniteSet(Gateways) /\ IsFiniteSet(RequestKinds)
  /\ DOMAIN Documents \subseteq Keys
  /\ \A q \in RequestKinds : q.gateway \in Gateways /\ (Served(q) => Authenticate(q) \in Tenants)
  /\ \A g \in Gateways : \A t \in Deployed[g].tenants : t.id \in Nat
ASSUME StoreAssumption ==
  /\ Layout \in Seq(Nodes \X U64)
  /\ \A g \in Gateways : Range(Deployed[g].nodes) \subseteq Nodes
  /\ BodyLens \subseteq U64
\* The values that stand for "none" are none of the values they are told from.
ASSUME NoneAssumption ==
  /\ Nobody \notin Requests \cup Responses
  /\ Dropped \notin Responses \cup Bodies \cup {Nobody, NoContent}
  /\ NoContent \notin Bodies \cup Ids
  /\ \A b \in Bodies, o \in Offsets : [of |-> b, at |-> o] # NoContent
ASSUME BoundsAssumption == MaxWaiters \in Nat /\ MaxFaults \in Nat /\ MaxRemoves \in Nat

SF == INSTANCE Singleflight WITH SfKeys <- SfKeySpace, Results <- Responses

PCs == {"start", "get", "read", "begin", "wait", "vendor", "put_start", "write", "put_end",
        "put_revoke", "finish", "publish", "done", "cancelled"}
Awaits == {"get", "read", "wait", "vendor", "put_start", "write", "put_end", "put_revoke"}
Calls == {"get", "read", "put_start", "write", "put_end", "put_revoke"}
\* The calls that change what other requests can observe (not a lease).
Updates == {"put_start", "write", "put_end", "put_revoke"}

Tasks == [pc : PCs, served : CacheStatuses \cup {"None"}, handle : Replica \cup {NoHandle},
          body : Bodies \cup {NoBody}, resp : Responses]

TypeOK ==
  /\ req \in [Requests -> RequestKinds]
  /\ task \in [Requests -> Tasks]
  /\ master \in MasterStates
  /\ dram \in [Nodes -> Drams(Bodies)]
  /\ late \subseteq [op : Updates, r : Requests]
  /\ faults \in 0..MaxFaults
  /\ removes \in 0..MaxRemoves
  /\ metrics \in [Gateways -> [Counters -> Nat]]

Init ==
  /\ req \in [Requests -> RequestKinds]
  /\ task = [r \in Requests |-> [pc |-> "start", served |-> "None", handle |-> NoHandle,
                                 body |-> NoBody, resp |-> NoResponse]]
  /\ master = [NewMaster EXCEPT !.segments =
                 [i \in DOMAIN Layout |-> [node |-> Layout[i][1], len |-> Layout[i][2], next |-> 0]]]
  /\ dram = [n \in Nodes |-> EmptyDram]
  /\ late = {}
  /\ faults = 0
  /\ removes = 0
  /\ metrics = [g \in Gateways |-> [c \in Counters |-> 0]]
  /\ SF!Init
  /\ sfKey = [r \in Requests |-> SfKeyOf(req[r])]

-----------------------------------------------------------------------------
(* The control flow of handle_response_request and streaming_response.     *)

\* Where a task goes next and the cache status it will report.
To(pc, status) == [pc |-> pc, status |-> status]

\* Before the first call. Only a non-streaming request looks at cache_available.
Route(q) ==
  CASE Control(q) = "Bypass" -> To("vendor", "Bypass")
    [] Control(q) # "Bypass" /\ ~Eligible(q) -> To("vendor", "Ineligible")
    [] OTHER ->
         IF q.gateway \in CachelessGateways /\ ~Streaming(q)
         THEN IF Control(q) = "CacheOnly" THEN To("done", "CacheOnlyMiss") ELSE To("vendor", "Degraded")
         ELSE IF Control(q) # "WriteOnly" THEN To("get", "Hit")
              ELSE IF Streaming(q) THEN To("vendor", "Miss") ELSE To("begin", "Miss")

\* After a lookup without a usable object. Streams are not coalesced.
RouteMiss(q) ==
  IF Control(q) = "CacheOnly" THEN To("done", "CacheOnlyMiss")
  ELSE IF Streaming(q) THEN To("vendor", "Miss") ELSE To("begin", "Miss")

\* Mutant: read-only requests write too.
WritesBack_ReadOnlyToo(r) == task[r].served = "Miss"

\* A miss is written back unless the request is read-only.
WritesBack(r) == task[r].served = "Miss" /\ Control(req[r]) # "ReadOnly"

\* The counters cs of the request's gateway go up by one, the others stay.
Count(r, cs) ==
  metrics' = [metrics EXCEPT ![req[r].gateway] =
                [c \in Counters |-> IF c \in cs THEN @[c] + 1 ELSE @[c]]]

\* What an answer counts: an error that handle_response_request returns counts
\* nothing, and the role of a leader or over-capacity request was counted at begin.
Outcome(r, status, write) ==
  IF status \notin CacheStatuses THEN {}
  ELSE {status, write} \cup (IF role[r] = "idle" THEN {"none"} ELSE {})

Follow(r, to) ==
  /\ task' = [task EXCEPT ![r].pc = to.pc, ![r].served = to.status,
                ![r].resp.status = IF to.pc = "done" THEN to.status ELSE "None"]
  /\ Count(r, IF to.pc = "done" THEN Outcome(r, to.status, "Skipped") ELSE {})

Goto(r, pc) == task' = [task EXCEPT ![r].pc = pc]

\* The call of a leader or of an over-capacity request still has to be
\* handed to singleflight; any other task is done.
Finish(r, status, write, body) ==
  task' = [task EXCEPT
             ![r].pc = IF role[r] \in {"leading", "solo"} THEN "finish" ELSE "done",
             ![r].resp = [status |-> status, write |-> write, body |-> body]]

Return(r, status, write, body) ==
  Finish(r, status, write, body) /\ Count(r, Outcome(r, status, write))

At(r, pc) == task[r].pc = pc

\* A refusal of handle_response_request counts as a bypass, except that of the
\* body, which like those of the routes in front of it is not counted.
Refuse(r) ==
  /\ At(r, "start")
  /\ ~Served(req[r])
  /\ Finish(r, "Rejected", "Skipped", NoBody)
  /\ Count(r, IF Refusal[req[r]] \in {"Unauthorized", "Forbidden", "BadControl"}
              THEN {"Bypass", "Skipped", "none"} ELSE {})
  /\ UNCHANGED <<req, master, dram, late, faults, removes, gatewayVars>>

Start(r) ==
  /\ At(r, "start")
  /\ Served(req[r])
  /\ Follow(r, Route(req[r]))
  /\ UNCHANGED <<req, master, dram, late, faults, removes, gatewayVars>>

-----------------------------------------------------------------------------
(* read_cached_bytes: the replica list from the Master, the chunk from a   *)
(* Store. The first replica is read, and REPLICA_COUNT is 1.               *)

FirstReplica(o) == CHOOSE x \in o.replicas : \A y \in o.replicas : x.seg <= y.seg

GetReply(r) ==
  /\ At(r, "get")
  /\ master' = GetReplicaList(master, Id(r), 0)
  /\ IF GetReplicaListOk(master, Id(r))
     THEN /\ task' = [task EXCEPT ![r].pc = "read",
                                  ![r].handle = FirstReplica(master.objects[Id(r)])]
          /\ UNCHANGED metrics
     ELSE Follow(r, RouteMiss(req[r]))
  /\ UNCHANGED <<req, dram, late, faults, removes, gatewayVars>>

\* The handle carries no node: the chunk is read from the gateway's ReadNode.
ReadFrom(r) == ReadNode[req[r].gateway]

\* A streaming request cannot use an object written by a non-streaming one.
ReadReply(r) ==
  /\ At(r, "read")
  /\ LET d == dram[ReadFrom(r)]
         h == task[r].handle
     IN  IF ReadOutcome(d, h.offset, h.len) # "Ok"
         THEN Return(r, "CacheError", "Skipped", NoBody)
         ELSE IF Streaming(req[r]) /\ ~ReadContent(d, h.offset, h.len).stream
              THEN Follow(r, RouteMiss(req[r]))
              ELSE Return(r, "Hit", "Skipped", ReadContent(d, h.offset, h.len))
  /\ UNCHANGED <<req, master, dram, late, faults, removes, gatewayVars>>

-----------------------------------------------------------------------------
(* Coalescing, and the vendor call. *)

Begin(r) ==
  /\ At(r, "begin")
  /\ \/ SF!BeginLeader(r) /\ Goto(r, "vendor") /\ Count(r, {"leader"})
     \/ SF!BeginWaiter(r) /\ Goto(r, "wait") /\ UNCHANGED metrics
     \/ SF!BeginOverCapacity(r) /\ Goto(r, "vendor") /\ Count(r, {"over_capacity"})
  /\ UNCHANGED <<req, master, dram, late, faults, removes>>

VendorReply(r, len) ==
  /\ At(r, "vendor")
  /\ LET b == [id |-> Id(r), by |-> r, stream |-> Streaming(req[r]), len |-> len]
         write == IF task[r].served = "Degraded" THEN "Failed" ELSE "Skipped"
     IN  IF WritesBack(r)
         THEN /\ task' = [task EXCEPT ![r].pc = "put_start", ![r].body = b]
              /\ Count(r, {"vendor_calls"})
         ELSE /\ Finish(r, task[r].served, write, b)
              /\ Count(r, {"vendor_calls"} \cup Outcome(r, task[r].served, write))
  /\ UNCHANGED <<req, master, dram, late, faults, removes, gatewayVars>>

\* An error, a timeout, or a stream that breaks before response.completed; a
\* streaming call is counted only when it succeeds.
VendorFails(r) ==
  /\ At(r, "vendor")
  /\ Finish(r, "VendorError", "Skipped", NoBody)
  /\ Count(r, IF Streaming(req[r]) THEN {} ELSE {"vendor_calls"})
  /\ UNCHANGED <<req, master, dram, late, faults, removes, gatewayVars>>

-----------------------------------------------------------------------------
(* write_cached_bytes: put_start, the chunk, put_end; a failure of one of  *)
(* the last two revokes. An error of put_start ends the write back at once *)

REPLICA_COUNT == 1

Wrote(r, write) == Return(r, "Miss", write, task[r].body)

\* Mutant: a refused reservation is revoked, whoever owns it.
PutStartReply_RevokesOnConflict(r) ==
  /\ At(r, "put_start")
  /\ master' = PutStart(master, Id(r), task[r].body.len, REPLICA_COUNT)
  /\ IF PutStartOk(master, Id(r), task[r].body.len, REPLICA_COUNT)
     THEN /\ task' = [task EXCEPT ![r].pc = "write",
                                  ![r].handle = FirstReplica(master'.objects[Id(r)])]
          /\ UNCHANGED metrics
     ELSE Goto(r, "put_revoke") /\ UNCHANGED metrics
  /\ UNCHANGED <<req, dram, late, faults, removes, gatewayVars>>

PutStartReply(r) ==
  /\ At(r, "put_start")
  /\ master' = PutStart(master, Id(r), task[r].body.len, REPLICA_COUNT)
  /\ IF PutStartOk(master, Id(r), task[r].body.len, REPLICA_COUNT)
     THEN /\ task' = [task EXCEPT ![r].pc = "write",
                                  ![r].handle = FirstReplica(master'.objects[Id(r)])]
          /\ UNCHANGED metrics
     ELSE Wrote(r, "Failed")
  /\ UNCHANGED <<req, dram, late, faults, removes, gatewayVars>>

\* The chunk goes to the URL configured for the replica's node.
Configured(r) == task[r].handle.node \in DOMAIN Serving(req[r]).nodes

StoreWrite(r) ==
  LET h == task[r].handle
      node == Serving(req[r]).nodes[h.node]
  IN  IF Configured(r)
      THEN [dram EXCEPT ![node] = WritePreallocated(@, h.offset, h.len, task[r].body)]
      ELSE dram

StoreWriteOk(r) ==
  Configured(r) /\ WritePreallocatedOk(task[r].handle.offset, task[r].handle.len, task[r].body)

\* Mutants: an error of the Store is ignored, or ends the write back at once.
WriteReply_IgnoresError(r) ==
  /\ At(r, "write")
  /\ dram' = StoreWrite(r)
  /\ Goto(r, "put_end")
  /\ UNCHANGED <<req, master, late, faults, removes, metrics, gatewayVars>>
WriteReply_NoRevoke(r) ==
  /\ At(r, "write")
  /\ dram' = StoreWrite(r)
  /\ IF StoreWriteOk(r) THEN Goto(r, "put_end") /\ UNCHANGED metrics ELSE Wrote(r, "Failed")
  /\ UNCHANGED <<req, master, late, faults, removes, gatewayVars>>

WriteReply(r) ==
  /\ At(r, "write")
  /\ dram' = StoreWrite(r)
  /\ Goto(r, IF StoreWriteOk(r) THEN "put_end" ELSE "put_revoke")
  /\ UNCHANGED <<req, master, late, faults, removes, metrics, gatewayVars>>

PutEndReply(r) ==
  /\ At(r, "put_end")
  /\ master' = PutEnd(master, Id(r))
  /\ IF PutEndOk(master, Id(r)) THEN Wrote(r, "Committed")
     ELSE Goto(r, "put_revoke") /\ UNCHANGED metrics
  /\ UNCHANGED <<req, dram, late, faults, removes, gatewayVars>>

\* Whether the revocation succeeds or not, the response says "failed".
PutRevokeReply(r) ==
  /\ At(r, "put_revoke")
  /\ master' = PutRevoke(master, Id(r))
  /\ Wrote(r, "Failed")
  /\ UNCHANGED <<req, dram, late, faults, removes, gatewayVars>>

-----------------------------------------------------------------------------
(* Return to the client, through singleflight where it was used. *)

Publish(r) ==
  /\ At(r, "finish")
  /\ \/ SF!PublishRemove(r, task[r].resp) /\ Goto(r, "publish")
     \/ SF!SoloFinish(r, task[r].resp) /\ Goto(r, "done")
  /\ UNCHANGED <<req, master, dram, late, faults, removes, metrics>>

Send(r) ==
  /\ At(r, "publish")
  /\ SF!PublishSend(r)
  /\ Goto(r, "done")
  /\ UNCHANGED <<req, master, dram, late, faults, removes, metrics>>

Usable(res) == res # Dropped /\ res.status = "Miss"

\* Mutant: a waiter counts the write of its leader as its own.
WaitReply_CountsWrite(r) ==
  /\ At(r, "wait")
  /\ SF!WaitReceive(r) \/ SF!WaitClosed(r)
  /\ task' = [task EXCEPT ![r].pc = "done",
                ![r].resp = IF Usable(result'[r]) THEN [result'[r] EXCEPT !.write = "Skipped"]
                            ELSE [NoResponse EXCEPT !.status = "LeaderFailed"]]
  /\ Count(r, IF Usable(result'[r]) THEN {"waiter", "Miss", result'[r].write} ELSE {})
  /\ UNCHANGED <<req, master, dram, late, faults, removes>>

\* A waiter answers with the leader's response, or with an error of its own.
WaitReply(r) ==
  /\ At(r, "wait")
  /\ SF!WaitReceive(r) \/ SF!WaitClosed(r)
  /\ task' = [task EXCEPT ![r].pc = "done",
                ![r].resp = IF Usable(result'[r]) THEN [result'[r] EXCEPT !.write = "Skipped"]
                            ELSE [NoResponse EXCEPT !.status = "LeaderFailed"]]
  /\ Count(r, IF Usable(result'[r]) THEN {"waiter", "Miss", "Skipped"} ELSE {})
  /\ UNCHANGED <<req, master, dram, late, faults, removes>>

-----------------------------------------------------------------------------
(* Failed calls, dropped tasks, and an operator who removes objects. *)

\* What a task does when the call it awaits returns an error.
OnError(r) ==
  CASE task[r].pc \in {"get", "read"} -> Return(r, "CacheError", "Skipped", NoBody)
    [] task[r].pc = "put_start" -> Wrote(r, "Failed")
    [] task[r].pc \in {"write", "put_end"} -> Goto(r, "put_revoke") /\ UNCHANGED metrics
    [] task[r].pc = "put_revoke" -> Wrote(r, "Failed")

Abandon(r) ==
  late' = late \cup (IF task[r].pc \in Updates THEN {[op |-> task[r].pc, r |-> r]} ELSE {})

CallFails(r) ==
  /\ faults < MaxFaults
  /\ task[r].pc \in Calls
  /\ OnError(r)
  /\ Abandon(r)
  /\ faults' = faults + 1
  /\ UNCHANGED <<req, master, dram, removes, gatewayVars>>

\* Mutant: dropping the task does not drop its place in singleflight.
Cancel_KeepsEntry(r) ==
  /\ faults < MaxFaults
  /\ task[r].pc \in Awaits
  /\ Goto(r, "cancelled")
  /\ Abandon(r)
  /\ faults' = faults + 1
  /\ UNCHANGED <<req, master, dram, removes, metrics, gatewayVars>>

\* The client goes away: the task is dropped at the await it is in.
Cancel(r) ==
  /\ faults < MaxFaults
  /\ task[r].pc \in Awaits
  /\ Goto(r, "cancelled")
  /\ Abandon(r)
  /\ \/ SF!CancelLeader(r)
     \/ SF!CancelWaiter(r)
     \/ role[r] \notin {"leading", "waiting"} /\ UNCHANGED gatewayVars
  /\ faults' = faults + 1
  /\ UNCHANGED <<req, master, dram, removes, metrics>>

LateCall(c) ==
  /\ c \in late
  /\ late' = late \ {c}
  /\ master' = CASE c.op = "put_start" -> PutStart(master, Id(c.r), task[c.r].body.len, REPLICA_COUNT)
                 [] c.op = "put_end" -> PutEnd(master, Id(c.r))
                 [] c.op = "put_revoke" -> PutRevoke(master, Id(c.r))
                 [] c.op = "write" -> master
  /\ dram' = IF c.op = "write" THEN StoreWrite(c.r) ELSE dram
  /\ UNCHANGED <<req, task, faults, removes, metrics, gatewayVars>>

\* DELETE /objects on the Master.
RemoveObject(id) ==
  /\ removes < MaxRemoves
  /\ RemoveOk(master, id)
  /\ master' = Remove(master, id)
  /\ removes' = removes + 1
  /\ UNCHANGED <<req, task, dram, late, faults, metrics, gatewayVars>>

\* A step of r in which nothing fails.
Step(r) ==
  \/ Refuse(r)
  \/ Start(r)
  \/ GetReply(r)
  \/ ReadReply(r)
  \/ Begin(r)
  \/ \E len \in BodyLens : VendorReply(r, len)
  \/ PutStartReply(r)
  \/ WriteReply(r)
  \/ PutEndReply(r)
  \/ PutRevokeReply(r)
  \/ Publish(r)
  \/ Send(r)
  \/ WaitReply(r)

Finished == \A r \in Requests : task[r].pc \in {"done", "cancelled"}

Next ==
  \/ \E r \in Requests : Step(r) \/ VendorFails(r) \/ CallFails(r) \/ Cancel(r)
  \/ \E c \in late : LateCall(c)
  \/ \E id \in Ids : RemoveObject(id)
  \/ Finished /\ UNCHANGED vars

Spec == Init /\ [][Next]_vars

\* The vendor client has a timeout, a running Master or Store answers, and the
\* runtime polls a woken task: a task that can take a step takes one.
FairSpec == Spec /\ \A r \in Requests : WF_vars(Step(r))

-----------------------------------------------------------------------------
(* Properties. *)

Stored(id) == master.objects[id].status

Sent ==
  [q \in RequestKinds |->
     IF Served(q) THEN <<Authenticate(q), ResolvedModel(q), FingerprintBody(q),
                         Control(q) = "ForceReplay">>
                  ELSE NoId]

\* Every body a client receives, from a hit, from the vendor or from a leader it
\* waited for, was produced for a request of its own tenant with the same body
\* (stream apart), under the same replay policy, when the gateway resolved the
\* model to the version it resolves to for this client; and a streaming client
\* receives one that has events to replay. It is stated of what the clients sent
\* and not of the keys computed from it.
ResponseMatchesRequest ==
  \A r \in Requests : task[r].resp.body # NoBody =>
    LET q == req[r]
        p == req[task[r].resp.body.by]
    IN  /\ Served(q)
        /\ p # q => Sent[p] = Sent[q]
        /\ Streaming(q) => task[r].resp.body.stream

\* A committed object can be read where its replicas say: no put_end, in time or
\* late, makes a reservation visible whose chunk is not written yet.
CommittedIsWritten ==
  \A id \in Ids : Stored(id) = "Committed" =>
    \A x \in master.objects[id].replicas :
      /\ ReadOutcome(dram[x.node], x.offset, x.len) = "Ok"
      /\ ReadContent(dram[x.node], x.offset, x.len).id = id

\* A client told "committed" finds its own response in the cache from then on:
\* nothing another request does, or that arrives late, takes it away or
\* overwrites it.
AckedCommitStays ==
  \A r \in Requests : task[r].resp.write = "Committed" =>
    /\ Stored(Id(r)) = "Committed"
    /\ \A x \in master.objects[Id(r)].replicas : ReadContent(dram[x.node], x.offset, x.len).by = r

\* An object is reserved only on behalf of a task that will still commit or
\* revoke it, unless a call failed or a task was dropped.
ReservationOwned ==
  \A id \in Ids : Stored(id) = "Reserving" =>
    \/ faults > 0
    \/ \E r \in Requests : Id(r) = id /\ task[r].pc \in {"write", "put_end", "put_revoke"}

\* The cache only ever holds objects that some eligible request with write access
\* asked for, sent with a token of an enabled tenant that may use the vendor on a
\* gateway that came up: refused, read-only, cache-only, bypass and stochastic
\* requests leave no trace, also not through a singleflight leader.
CacheHoldsEligibleOnly ==
  \A id \in Ids : Stored(id) # "Absent" =>
    \E r \in Requests :
      /\ Id(r) = id
      /\ Eligible(req[r])
      /\ Control(req[r]) \in {"Default", "WriteOnly", "ForceReplay"}
      /\ \E t \in Serving(req[r]).tenants :
           t.id = id[1] /\ t.enabled /\ t.digest = Sha256(req[r].token) /\ VendorId \in t.allowed

\* A waiter shares the response of a leader that treats the cache as the waiter
\* would: a request that wants its response stored never settles for the result
\* of a read-only one, on its own gateway, for its own tenant.
WaitersShareMode ==
  \A r \in Requests : source[r] # Nobody =>
    /\ WriteMode(req[r]) = WriteMode(req[source[r]])
    /\ Id(r) = Id(source[r])
    /\ req[r].gateway = req[source[r]].gateway

\* A singleflight entry never outlives the task that leads it, whichever await
\* the task was dropped at, and every waiting task still has a channel.
CoalescingSound ==
  /\ SF!EntryHasLeader
  /\ SF!WaitersServed
  /\ \A r \in Requests :
       /\ role[r] = "leading" =>
            task[r].pc \in {"vendor", "put_start", "write", "put_end", "put_revoke", "finish"}
       /\ role[r] = "waiting" <=> task[r].pc = "wait"

\* The counters of a gateway agree with each other and with the Master at every
\* moment, whatever returns early, fails or is dropped: every answer that has a
\* cache status has a write status; a role is counted for each of them, and for
\* the leaders and over-capacity requests that gave none; an answer that needed
\* the vendor is backed by a vendor call or by waiting for one; and while nothing
\* failed or was removed, the writes counted as committed are the objects that
\* the Master holds committed.
CountersAddUp ==
  LET Sum(g, cs) == SumFunctionOnSet(metrics[g], cs)
      Unanswered(g) == {r \in Requests : /\ req[r].gateway = g
                                         /\ role[r] # "idle" /\ source[r] = Nobody
                                         /\ task[r].resp.status # "Miss"}
  IN  /\ \A g \in Gateways :
           /\ Sum(g, CacheStatuses) = Sum(g, WriteStatuses)
           /\ Sum(g, SingleflightRoles) = Sum(g, CacheStatuses) + Cardinality(Unanswered(g))
           /\ Sum(g, {"Miss", "Ineligible", "Degraded"}) <= Sum(g, {"vendor_calls", "waiter"})
      /\ faults = 0 /\ removes = 0 =>
           SumFunction([g \in Gateways |-> metrics[g]["Committed"]])
             = Cardinality({id \in Ids : Stored(id) = "Committed"})

\* Every request that was started is answered or dropped.
RequestsFinish ==
  \A r \in Requests : task[r].pc # "start" ~> task[r].pc \in {"done", "cancelled"}

-----------------------------------------------------------------------------
(* The gateways, the Master and the Stores together implement a cache.     *)

Readable(node, x) ==
  IF ReadOutcome(dram[node], x.offset, x.len) = "Ok"
  THEN ReadContent(dram[node], x.offset, x.len) ELSE NoContent

C == INSTANCE Cache WITH
  None <- NoContent,
  Failed <- Dropped,
  ask <- [r \in Requests |-> IF Id(r) = NoId THEN NoContent ELSE Id(r)],
  stored <- [id \in Ids |->
               IF Stored(id) # "Committed" THEN NoContent
               ELSE LET x == FirstReplica(master.objects[id]) IN Readable(x.node, x)],
  found <- [r \in Requests |->
              IF task[r].pc = "read" THEN Readable(ReadFrom(r), task[r].handle) ELSE NoContent],
  answer <- [r \in Requests |->
               IF task[r].resp.status = "None" THEN NoContent
               ELSE IF task[r].resp.body = NoBody THEN Dropped ELSE task[r].resp.body],
  purged <- removes > 0

\* With one Store node configured, whatever interleaves, fails, arrives late or is
\* removed, clients see the cache of module Cache: an object does not change while
\* it is stored, a hit returns what was stored for the client's own id when it
\* looked (or, once an operator has removed something, was at least produced for
\* that id), and a request is answered once.
ImplementsCache == C!Spec

=============================================================================
