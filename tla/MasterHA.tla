------------------------------- MODULE MasterHA -------------------------------
(***************************************************************************)
(* Master processes around etcd (apps/master/main.rs): the election at     *)
(* startup, the load of the persisted metadata, the HTTP handlers that     *)
(* change the metadata in memory and then save a snapshot of it, crashes   *)
(* and restarts. Clients are gateways that write one object each           *)
(* (put_start, the chunk, put_end, put_revoke after a failure) and         *)
(* operators who make one administrative call.                             *)
(*                                                                         *)
(* A handler changes the state under the mutex, takes the mutex again for  *)
(* the snapshot, and sends the snapshot to etcd with no lock held: the     *)
(* saves of concurrent handlers can reach etcd in any order. etcd itself   *)
(* is external: one register per key, with a create-if-absent transaction. *)
(***************************************************************************)
EXTENDS MasterState, StoreState

CONSTANTS
  Masters, Clients,
  Operators,     \* the clients that are operators
  OperatorOps,   \* what they may call: "remove", "set_tenant_quota", "mount_segment"
  Workloads,     \* which clients call at all: some set of these
  ClientId,      \* the object each client is about
  BindAddr,      \* --bind-addr of each Master, its identity in the election
  None,
  DefaultNode,   \* the node of the segment every Master mounts at startup
  DefaultLen,    \* its length
  ObjectLen,     \* length of a response body
  QuotaLimit,    \* quota an operator sets
  MaxCrashes     \* bound on the crashes of each Master

ASSUME OperatorAssumption == Operators \subseteq Clients
ASSUME ClientAssumption == ClientId \in [Clients -> Ids]
\* Distinct addresses: what two Masters with the same one do is another matter.
ASSUME AddressAssumption ==
  \A m, n \in Masters : BindAddr[m] # None /\ (BindAddr[m] = BindAddr[n] => m = n)
ASSUME DeploymentAssumption ==
  /\ DefaultNode \in Nodes /\ {DefaultLen, ObjectLen, QuotaLimit} \subseteq U64
  /\ MaxCrashes \in Nat
  /\ OperatorOps \subseteq {"remove", "set_tenant_quota", "mount_segment"}
\* All the bodies that are ever written are less than 2^64 bytes together.
ASSUME WorkloadAssumption == IsFiniteSet(Clients) /\ Cardinality(Clients) * ObjectLen <= U64Max

VARIABLES
  etcdLeader,    \* /mooncache/master/leader
  etcdMetadata,  \* /mooncache/master/metadata
  proc,          \* the state of each Master process
  leaderId,      \* LeadershipState.leader_id of each Master
  mem,           \* MasterState of each Master
  client,        \* the state of each client
  dram,          \* the Store node's memory
  crashes        \* how often each Master has crashed

vars == <<etcdLeader, etcdMetadata, proc, leaderId, mem, client, dram, crashes>>

ClientOps == {"put_start", "put_end", "put_revoke", "remove", "set_tenant_quota", "mount_segment"}
\* "idle": never calls; "call": about to call; "applied": the handler has changed the memory;
\* "saving": it has its snapshot; "write": put_start answered, chunk not written.
Phases == {"idle", "call", "applied", "saving", "write", "committed", "done", "failed"}

Snapshots == [objects : [Ids -> ObjectMeta], quotas : [Tenants -> Quota], evictions : U64]
ClientStates == [op : ClientOps, phase : Phases, at : Masters \cup {None},
                 snap : Snapshots \cup {None}, place : Replica \cup {None}]

\* What a client writes.
Body(c) == [id |-> ClientId[c], by |-> c, len |-> ObjectLen]
Bodies == {Body(c) : c \in Clients}

ASSUME NoneAssumption == None \notin Snapshots \cup Masters \cup Replica
ASSUME NoContentAssumption ==
  NoContent \notin Bodies /\ \A b \in Bodies, o \in Offsets : [of |-> b, at |-> o] # NoContent

TypeOK ==
  /\ etcdLeader \in {BindAddr[m] : m \in Masters} \cup {None}
  /\ etcdMetadata \in Snapshots \cup {None}
  /\ proc \in [Masters -> {"down", "elected", "up"}]
  /\ leaderId \in [Masters -> {BindAddr[m] : m \in Masters} \cup {None}]
  /\ mem \in [Masters -> MasterStates]
  /\ client \in [Clients -> ClientStates]
  /\ dram \in Drams(Bodies)
  /\ crashes \in [Masters -> 0..MaxCrashes]

Init ==
  /\ etcdLeader = None
  /\ etcdMetadata = None
  /\ proc = [m \in Masters |-> "down"]
  /\ leaderId = [m \in Masters |-> None]
  /\ mem = [m \in Masters |-> NewMaster]
  /\ client \in [Clients -> [op : OperatorOps \cup {"put_start"}, phase : {"idle", "call"},
                             at : {None}, snap : {None}, place : {None}]]
  /\ \A c \in Clients : client[c].op = "put_start" <=> c \notin Operators
  /\ {c \in Clients : client[c].phase = "call"} \in Workloads
  \* What an idle operator would have called makes no difference.
  /\ \A c \in Operators : client[c].phase = "idle" => client[c].op = CHOOSE op \in OperatorOps : TRUE
  /\ dram = EmptyDram
  /\ crashes = [m \in Masters |-> 0]

-----------------------------------------------------------------------------
(* Startup. *)

IsLeader(m) == leaderId[m] = BindAddr[m]

\* Mutant: the key is written without the create-if-absent comparison.
Elect_Unconditional(m) ==
  /\ proc[m] = "down"
  /\ etcdLeader' = BindAddr[m]
  /\ leaderId' = [leaderId EXCEPT ![m] = etcdLeader']
  /\ proc' = [proc EXCEPT ![m] = "elected"]
  /\ UNCHANGED <<etcdMetadata, mem, client, dram, crashes>>

\* elect_leader: the first Master ever to run creates the key; it has no lease,
\* and nobody writes or deletes it again.
Elect(m) ==
  /\ proc[m] = "down"
  /\ etcdLeader' = IF etcdLeader = None THEN BindAddr[m] ELSE etcdLeader
  /\ leaderId' = [leaderId EXCEPT ![m] = etcdLeader']
  /\ proc' = [proc EXCEPT ![m] = "elected"]
  /\ UNCHANGED <<etcdMetadata, mem, client, dram, crashes>>

\* The rest of build_router_from_config.
Load(m) ==
  /\ proc[m] = "elected"
  /\ LET restored == IF etcdMetadata = None THEN NewMaster ELSE FromMetadataSnapshot(etcdMetadata)
     IN  mem' = [mem EXCEPT ![m] = MountSegment(restored, DefaultNode, DefaultLen)]
  /\ proc' = [proc EXCEPT ![m] = "up"]
  /\ UNCHANGED <<etcdLeader, etcdMetadata, leaderId, client, dram, crashes>>

-----------------------------------------------------------------------------
(* The handlers that change metadata. *)

OpOk(ms, c) ==
  LET id == ClientId[c]
  IN  CASE client[c].op = "put_start" -> PutStartOk(ms, id, ObjectLen, 1)
        [] client[c].op = "put_end" -> PutEndOk(ms, id)
        [] client[c].op = "put_revoke" -> PutRevokeOk(ms, id)
        [] client[c].op = "remove" -> RemoveOk(ms, id)
        [] client[c].op \in {"set_tenant_quota", "mount_segment"} -> TRUE

OpResult(ms, c) ==
  LET id == ClientId[c]
  IN  CASE client[c].op = "put_start" -> PutStart(ms, id, ObjectLen, 1)
        [] client[c].op = "put_end" -> PutEnd(ms, id)
        [] client[c].op = "put_revoke" -> PutRevoke(ms, id)
        [] client[c].op = "remove" -> Remove(ms, id)
        [] client[c].op = "set_tenant_quota" -> SetTenantQuota(ms, id[1], QuotaLimit)
        [] client[c].op = "mount_segment" -> MountSegment(ms, DefaultNode, DefaultLen)

\* What the client does next when its call succeeded, or failed: the gateway
\* revokes after a failed put_end and gives up otherwise.
NextOk(s) ==
  CASE s.op = "put_start" -> [s EXCEPT !.phase = "write"]
    [] s.op = "put_end" -> [s EXCEPT !.phase = "committed"]
    [] s.op = "put_revoke" -> [s EXCEPT !.phase = "failed"]
    [] OTHER -> [s EXCEPT !.phase = "done"]

NextError(s) ==
  IF s.op = "put_end" THEN [s EXCEPT !.op = "put_revoke", !.phase = "call", !.snap = None]
  ELSE [s EXCEPT !.phase = "failed", !.snap = None]

TheReplica(o) == CHOOSE x \in o.replicas : TRUE

\* Mutant: a standby does not turn the call away.
Handle_AnyMaster(m, c) ==
  /\ proc[m] = "up"
  /\ client[c].phase = "call"
  /\ mem' = [mem EXCEPT ![m] = OpResult(@, c)]
  /\ client' = [client EXCEPT ![c] =
       IF ~OpOk(mem[m], c) THEN NextError(client[c])
       ELSE [client[c] EXCEPT !.phase = "applied", !.at = m,
               !.place = IF client[c].op = "put_start"
                         THEN TheReplica(mem'[m].objects[ClientId[c]]) ELSE client[c].place]]
  /\ UNCHANGED <<etcdLeader, etcdMetadata, proc, leaderId, dram, crashes>>

\* The handler up to persist_metadata. A refused operation is answered at once.
Handle(m, c) ==
  /\ proc[m] = "up"
  /\ IsLeader(m)
  /\ client[c].phase = "call"
  /\ mem' = [mem EXCEPT ![m] = OpResult(@, c)]
  /\ client' = [client EXCEPT ![c] =
       IF ~OpOk(mem[m], c) THEN NextError(client[c])
       ELSE [client[c] EXCEPT !.phase = "applied", !.at = m,
               !.place = IF client[c].op = "put_start"
                         THEN TheReplica(mem'[m].objects[ClientId[c]]) ELSE client[c].place]]
  /\ UNCHANGED <<etcdLeader, etcdMetadata, proc, leaderId, dram, crashes>>

\* persist_metadata: the snapshot, and then the answer of etcd.
TakeSnapshot(c) ==
  /\ client[c].phase = "applied"
  /\ client' = [client EXCEPT ![c].phase = "saving",
                              ![c].snap = MetadataSnapshot(mem[client[c].at])]
  /\ UNCHANGED <<etcdLeader, etcdMetadata, proc, leaderId, mem, dram, crashes>>

Save(c) ==
  /\ client[c].phase = "saving"
  /\ etcdMetadata' = client[c].snap
  /\ client' = [client EXCEPT ![c] = NextOk([@ EXCEPT !.snap = None])]
  /\ UNCHANGED <<etcdLeader, proc, leaderId, mem, dram, crashes>>

\* Mutant: the handler answers as if the save had worked.
SaveFails_Ignored(c) ==
  /\ client[c].phase = "saving"
  /\ etcdMetadata' \in {etcdMetadata, client[c].snap}
  /\ client' = [client EXCEPT ![c] = NextOk([@ EXCEPT !.snap = None])]
  /\ UNCHANGED <<etcdLeader, proc, leaderId, mem, dram, crashes>>

\* etcd refuses the save or its answer is lost; the memory keeps the change.
SaveFails(c) ==
  /\ client[c].phase = "saving"
  /\ etcdMetadata' \in {etcdMetadata, client[c].snap}
  /\ client' = [client EXCEPT ![c] = NextError(@)]
  /\ UNCHANGED <<etcdLeader, proc, leaderId, mem, dram, crashes>>

\* A Master that is down, starting or not the leader is of no use to the call.
Refuse(m, c) ==
  /\ ~(proc[m] = "up" /\ IsLeader(m))
  /\ client[c].phase = "call"
  /\ client' = [client EXCEPT ![c] = NextError(@)]
  /\ UNCHANGED <<etcdLeader, etcdMetadata, proc, leaderId, mem, dram, crashes>>

\* get_replica_list: any Master answers, from its own memory.
Get(m, id) ==
  /\ proc[m] = "up"
  /\ GetReplicaListOk(mem[m], id)
  /\ mem' = [mem EXCEPT ![m] = GetReplicaList(@, id, 0)]
  /\ UNCHANGED <<etcdLeader, etcdMetadata, proc, leaderId, client, dram, crashes>>

\* The gateway writes the chunk it was given, and revokes after a refusal.
WriteChunkOf(c) ==
  LET offset == client[c].place.offset
  IN  /\ client[c].phase = "write"
      /\ dram' = WritePreallocated(dram, offset, ObjectLen, Body(c))
      /\ client' = [client EXCEPT ![c].phase = "call",
                      ![c].op = IF WritePreallocatedOk(offset, ObjectLen, Body(c))
                                THEN "put_end" ELSE "put_revoke"]
      /\ UNCHANGED <<etcdLeader, etcdMetadata, proc, leaderId, mem, crashes>>

\* The Store is not reached, or its answer is lost.
WriteFails(c) ==
  /\ client[c].phase = "write"
  /\ dram' \in {dram, WritePreallocated(dram, client[c].place.offset, ObjectLen, Body(c))}
  /\ client' = [client EXCEPT ![c].phase = "call", ![c].op = "put_revoke"]
  /\ UNCHANGED <<etcdLeader, etcdMetadata, proc, leaderId, mem, crashes>>

-----------------------------------------------------------------------------
(* Crashes: the memory is gone, calls in progress fail, and a save already *)
(* sent may or may not have been the last one to reach etcd.               *)

InProgress(m) == {c \in Clients : client[c].at = m /\ client[c].phase \in {"applied", "saving"}}

Crash(m) ==
  /\ crashes[m] < MaxCrashes
  /\ proc[m] # "down"
  /\ crashes' = [crashes EXCEPT ![m] = @ + 1]
  /\ proc' = [proc EXCEPT ![m] = "down"]
  /\ leaderId' = [leaderId EXCEPT ![m] = None]
  /\ mem' = [mem EXCEPT ![m] = NewMaster]
  /\ etcdMetadata' \in {etcdMetadata} \cup
       {client[c].snap : c \in {d \in InProgress(m) : client[d].phase = "saving"}}
  /\ client' = [c \in Clients |-> IF c \in InProgress(m) THEN NextError(client[c]) ELSE client[c]]
  /\ UNCHANGED <<etcdLeader, dram>>

Next ==
  \/ \E m \in Masters : Elect(m) \/ Load(m) \/ Crash(m)
  \/ \E m \in Masters, c \in Clients : Handle(m, c) \/ Refuse(m, c)
  \/ \E c \in Clients : TakeSnapshot(c) \/ Save(c) \/ SaveFails(c) \/ WriteChunkOf(c) \/ WriteFails(c)
  \/ \E m \in Masters, id \in Ids : Get(m, id)

Spec == Init /\ [][Next]_vars

-----------------------------------------------------------------------------
(* Properties. *)

\* Never two running Masters that both accept writes: each would hand out the
\* same chunks and overwrite the other's metadata in etcd.
OneLeader ==
  \A m, n \in Masters :
    proc[m] # "down" /\ proc[n] # "down" /\ IsLeader(m) /\ IsLeader(n) => m = n

Accounted(objects, quotas) ==
  \A t \in Tenants : quotas[t].set => quotas[t].used = ReservedTotal(objects, TenantIds(t))

\* The metadata that is persisted, and the memory of every Master whatever it was
\* restored from, agree on quotas and objects: a snapshot is never taken in the
\* middle of an operation, and a restart does not lose reservations.
AccountingSurvives ==
  /\ etcdMetadata # None => Accounted(etcdMetadata.objects, etcdMetadata.quotas)
  /\ \A m \in Masters : Accounted(mem[m].objects, mem[m].quotas)

Removed(id) ==
  \E c \in Operators : client[c].op = "remove" /\ ClientId[c] = id /\ client[c].phase \notin {"idle", "call"}

\* A put_end that was answered is in etcd from then on, so that the next Master
\* serves the object (unless an operator removed it). The test
\* "committed_metadata_is_persisted_and_loaded_by_next_master" expects it.
AckedCommitSurvives ==
  \A c \in Clients : client[c].phase = "committed" /\ ~Removed(ClientId[c]) =>
    etcdMetadata # None /\ etcdMetadata.objects[ClientId[c]].status = "Committed"

\* The same as long as no Master has applied a call of anybody else: crashes at
\* any point of the write, and saves whose answer is lost, do not undo it.
LoneCommitSurvives ==
  (\A c, d \in Clients : client[c].at # None /\ client[d].at # None => c = d) => AckedCommitSurvives

\* The chunk of an object some running Master serves as committed holds that
\* object's bytes: the design's "objects are immutable once committed".
CommittedNotOverwritten ==
  \A m \in Masters, id \in Ids :
    proc[m] = "up" /\ mem[m].objects[id].status = "Committed" =>
      \A x \in mem[m].objects[id].replicas :
        /\ ReadOutcome(dram, x.offset, x.len) = "Ok"
        /\ ReadContent(dram, x.offset, x.len).id = id

\* The leader has never crashed and has its segment mounted once: it handed out
\* every chunk there is, and none of them twice.
FirstLeader ==
  \A m \in Masters : etcdLeader = BindAddr[m] => crashes[m] = 0 /\ Len(mem[m].segments) <= 1

SoleWriter(id) == \A c, d \in Clients \ Operators : ClientId[c] = id /\ ClientId[d] = id => c = d

\* Until the leader restarts, what any Master serves as committed (a standby from
\* the snapshot it loaded, however old) is never read as the bytes of another
\* object, whoever else reserves, writes, fails, revokes or removes meanwhile. And
\* the bytes are there, unless an operator removed the object between two writers
\* of it: then the first one's put_end commits the second one's reservation.
ServedChunksHold ==
  FirstLeader =>
    \A m \in Masters, id \in Ids :
      proc[m] = "up" /\ mem[m].objects[id].status = "Committed" =>
        \A x \in mem[m].objects[id].replicas :
          /\ ReadOutcome(dram, x.offset, x.len) = "Ok" => ReadContent(dram, x.offset, x.len).id = id
          /\ SoleWriter(id) \/ ~Removed(id) => ReadOutcome(dram, x.offset, x.len) = "Ok"

=============================================================================
