# A TLA+ verification of MoonCache

MoonCache caches responses of a language model vendor: gateways look a request
up under a fingerprint, a Master knows where the bytes of every cached object
are, Store nodes keep the bytes in DRAM and on SSD. This directory holds a
model of its Rust code in TLA+, the configurations under which TLC checks it,
and machine-checked proofs, for all sizes, of the properties of the Master, the
Masters around etcd, singleflight, the Store node and the Admin API.

Every definition that models code is listed in `PROJECT.json` under `map` with
the file and the lines it stands for.

## 1. The system

| Part | State | Operations | Where it is hard |
|---|---|---|---|
| Master metadata (`crates/master`) | objects with status and replicas, segments with a bump pointer, tenant quotas, leases, an eviction counter | `put_start`, `put_end`, `put_revoke`, `get_replica_list`, `remove`, `evict_for_tenant`, `set_tenant_quota`, `mount_segment` | sequences of calls that leak or release quota twice, place chunks over each other, or make a dead object visible; u64 limits |
| Master process (`apps/master`) | `MasterState` behind a mutex, who it takes for the leader; the leader key and one metadata snapshot in etcd | election and load at startup, HTTP handlers that change memory and then save a snapshot | crashes between the change and the save, snapshots saved out of order, failed saves, two Masters |
| Singleflight (`gateway/singleflight.rs`) | a map from key to the request that works on it, a watch channel and a waiter count per entry | `begin`, `publish`, `wait`, drop of a leader or a waiter | cancellation at every await, the gap between removing an entry and sending the result |
| Gateway request path (`gateway/cache_flow.rs`, `clients.rs`, `streaming.rs`) | a task per request | look up, read, coalesce, call the vendor, write back | calls that fail but take effect later, two gateways writing one key, dropped tasks |
| Store DRAM arena (`crates/store/memory.rs`) | arena bytes, a checksum per chunk | `allocate`, `write_chunk`, `write_preallocated_chunk`, `read_chunk` | overlapping chunks |
| Store node and SSD tier (`apps/store-node`, `store/ssd.rs`) | the arena, one file per object, temporary files, the accounting of both | write with persist, read with promotion from SSD | crashes between write and rename, a promotion racing a write |
| Admin API (`crates/admin-api`, `apps/admin-api`) | drain flags, an audit log, counters, a `MasterState` of its own | metrics, audit events, nodes, drain, fingerprint, purge, warmup | handlers on several threads, effects and their audit events in separate critical sections |
| Fingerprint, eligibility, cache headers | none | which requests share a key, which may be cached | gateways with different configurations that share one cache |
| Vendor adapter (`gateway/vendor.rs`, `streaming.rs`) | a response that arrives | the call, SSE parsing, the final body of a stream, its replay | responses that break off anywhere; streaming and plain clients on one object |
| Gateway configuration and routes (`apps/gateway`, `gateway/config.rs`) | tenants, models, store nodes, fixed at startup | command line, environment, tenant and vendor files, authentication | the order of overrides and of refusals |
| Gateway metrics (`common/metrics.rs`) | a counter per status, write, role, and vendor calls | bumped along the request path | early returns and dropped tasks |
| Control panel | none the others depend on | | presentation |

How they interact. A gateway calls the Master and the Store over HTTP; a lookup
is `get_replica_list` and then a chunk read, a write back is `put_start`, a
chunk write and `put_end`, with `put_revoke` after a failure of either of the
last two. Requests for one key on one gateway meet in singleflight. The Master
and the Store never talk to each other: the Master hands out offsets, and the
Store writes wherever it is told. Masters share nothing but etcd. The Admin API
of the repository talks to none of them.

## 2. Modules

| Module | Models | Built on |
|---|---|---|
| `MasterState` | `MasterState` and its parts as operators from a state to a state | |
| `Master` | one Master whose operations are called in any order, a clock, pins | `MasterState` |
| `MasterProofs` | theorems about `Master` | `Master`, `StateProofs` |
| `Singleflight` | `SingleflightGroup` with tasks that are dropped at any await | |
| `SingleflightProofs` | theorems about `Singleflight` | `Singleflight` |
| `StoreState` | `MemoryStore` as operators | |
| `StateProofs` | sums over finite sets, and what each operation of `MasterState` and of `StoreState` does, as lemmas | `MasterState`, `StoreState` |
| `StoreNode` | the Store process: handlers, SSD files, crashes | `StoreState` |
| `StoreNodeProofs` | theorems about `StoreNode` | `StoreNode`, `StateProofs` |
| `GatewayConfig` | from an operator's deployment to what a gateway serves with, as operators | |
| `CacheFlow` | gateways, one Master and Store arenas together | `MasterState`, `StoreState`, `GatewayConfig`, an instance of `Singleflight` |
| `CacheFlowProofs` | theorems about `CacheFlow` | `CacheFlow`, `StateProofs`, an instance of `SingleflightProofs` |
| `Cache` | what clients may rely on: ids, immutable responses, answers | |
| `VendorStream` | one vendor call, the parsing of its answer, the cached object and its replay | |
| `VendorStreamProofs` | theorems about `VendorStream` | `VendorStream` |
| `MasterHA` | Master processes, etcd, writers and operators | `MasterState`, `StoreState` |
| `MasterHAProofs` | theorems about `MasterHA` | `MasterHA`, `StateProofs` |
| `AdminApi` | the Admin API's handlers as steps of threads | `MasterState` |
| `AdminApiProofs` | theorems about `AdminApi` | `AdminApi`, `StateProofs` |
| `MC*` | values of the constants for TLC | the module of that name |

Operators whose name ends in `_Something` next to an operation are variants of
it with a plausible mistake. `PROJECT.json` (`mutants`) names, for each property
of each passing run, the variant under which TLC finds the property violated.

### Conventions

- The Rust structs are records; a key that is not in a map has a status
  `"Absent"`, a quota with `set = FALSE`, a lease of 0.
- What runs under one lock, or between two awaits of one task, is one action.
  `put_start` is one action although it reserves quota, fails to allocate and
  releases again: the mutex of the Master is held throughout.
- Bytes are abstracted to whom they belong: position i of content c. A span has
  a valid checksum when it holds one content from its first to its last
  position, which is what SHA-256 tells apart. ChaCha20-Poly1305 is abstracted in the
  same way: a file yields what was written for its object, or an error.
- A request is the headers and the body a client sends; its body is a function
  from names to values. A cache key is the document that the code hashes: tenant,
  endpoint, vendor, resolved model, adapter version, policy and the body without
  its stream flag. Canonical JSON makes two bodies the same text exactly when
  they are the same function, and SHA-256 keeps different texts apart, so a
  digest is the number of its document.
- Ids of tenants, vendors and nodes are naturals in the order of the strings,
  because a `BTreeMap` decides which vendor is used and whose token matches first.
- `U64Max` is the largest u64. Saturating and checked arithmetic is kept;
  the runs use a small `U64Max` where the limits matter.

### From code to actions

`Master`: one action per public operation of `MasterState`, failing calls
included (they change nothing, or, for a failing `put_start`, end where they
began). `PinCall` stands for the pin fields that eviction reads and that no
operation of the crate sets. `Tick` is the wall clock of leases.

`Singleflight`: `begin` is split by its three outcomes; `publish` is two
actions because it unlocks between removing the entry and sending the result;
`CancelLeader` and `CancelWaiter` are the drops of a task.

`CacheFlow`: a task goes through `start, get, read, begin, wait, vendor,
put_start, write, put_end, put_revoke, publish, done`, one action for each
answer it awaits. A failed call is an error for the caller and goes into `late`,
from where `LateCall` may apply it at any later moment or never. `Cancel` drops
a task at any await, with the drop of its singleflight handle. `Refuse` is every
answer given before the first call; `Refuses` lists the reasons in the order in
which the connection, axum's extractors, the route and
`handle_response_request` check them. Each action bumps the counters that the
code bumps on that path, and no others: a refused body, an error of the cache
and a failed stream count nothing.

`GatewayConfig` has no state: `BuildGateway` follows `main` from the command line
over the environment and the defaults to the two files, and yields the tenants,
the model map and the store nodes, or that the process does not come up.
`CacheFlow` gives every gateway a deployment of its own, so gateways can differ.

`Cache` has no gateways, reservations, chunks or faults. `CacheFlow` implements
it under this mapping: an id stores what can be read at the first replica of its
committed object; a task between its lookup and its read has *found* what its
handle yields at the node that it will ask; the answer is the body it returned,
or `Failed`. A step of `Cache` may fill or empty one id and let several requests
look and reply, since one step of the Master can be seen by several readers.
`purged` tells that an operator has removed something. From then on a reader can
find a response that was never stored: after a removal one writer's `put_end`
can commit another's chunk before it is written (section 5), a reader takes its
handle, and the chunk is written after the object has been revoked.

`VendorStream`: the answer of the vendor arrives line by line and can end or
break off after any of them. `ParseSseEvents` is a fold over the lines;
`StreamDecoded` states what it must yield by cutting the whole text at its blank
lines and counting positions, without a fold. `Store`, `ReplayBody` and `ReplayStream` are the cached
object and what a later plain or streaming client gets from it.

`StoreNode`: `BeginWrite` is the DRAM write under the mutex; `PersistTemp`,
`PersistRename` and `RecordSsdObject` are the steps of persisting; `ReadDram`,
`ReadSsd` and `FillDram` those of a read with promotion. `PersistFails` is an io
error at any of them, before or after there is a temporary file, and
`RemoveTemp` the clean-up that follows, an await of its own that may fail
unnoticed. `Drop` ends a handler at an await; the file operation it was waiting
for may still be carried out, a rename at any later time (`OrphanRename`). `Crash`
empties DRAM and the accounting and leaves the files. Who calls the node is a
constant of the behaviour (`env`): one Master, whose chunks are disjoint, or
anyone. Nothing keeps two writers of one object apart in either: the node does
not, and the Master does only until somebody removes the object.

`MasterHA`: `Elect` and `Load` are the start of a process, `Handle` changes
memory under the mutex, `TakeSnapshot` takes the mutex again, and `Save` writes
the snapshot to etcd with no lock held. `SaveFails` answers 503 and leaves
memory as it is; the save may have happened. `WriteChunkOf` writes the chunk, or
has it refused; `WriteFails` is a Store that is not reached or whose answer is
lost. After both failures the gateway revokes. Which clients call at all is chosen
in the initial state (`Workloads`), the others stay idle; every Master may crash a
number of times of its own (`MaxCrashes`).

`AdminApi`: a handler acts, appends its event, and bumps the counters in
separate steps. The atomic counters are bumped and loaded with relaxed order,
so the model lets them go in any order before the mutex of the counts per
action. A purge holds the mutex of the Master from before its role check until
its answer.

## 3. Runs

### What they show

- `master_placement`: up to two segments, one or two replicas, two objects.
  `ChunksBelowPointer` and `ChunksDisjoint`: no offset is handed out twice,
  provided that a node is mounted once. `CommittedImmutable`: an object never
  moves while it exists and never returns from Revoked or Evicted.
- `master_reclaim`: two tenants and two keys, quotas that are set late or
  lowered below usage, leases and pins with a clock that reaches the u64 limit,
  objects of length 0. `QuotaAccounting`: used bytes are the bytes of live
  objects after any sequence of failures, double revokes, removals and
  evictions. `QuotaRespected`: no reservation passes a limit.
  `LeaseOnCommitted`: an object that left takes its lease along.
  `EvictionDiscipline`: eviction spares leased, pinned and pending objects, and
  soft-pinned ones while others suffice.
- `singleflight`: four requests, two keys, one waiter per key.
  `EntryHasLeader`, `WaitersServed`, `WaiterCap`, `WaitersAgree`, and
  `WaitersFinish` (liveness).
- `store_node`: three environments. One Master with two reservations of one
  object and one of another, four handlers and two crashes; one Master with the
  two reservations of one object, one crash and two dropped handlers; and anyone:
  chunks that overlap, as two Masters or a restarted one hand them out, direct
  writes, a dropped handler and a crash. In all of them `AckedOnSsd`: an answered write is
  in the object's file or another write of that object is, never one that was
  over before it began, although writers overlap and a rename may come long after
  its handler is gone; `FailedWriteInvisible`: a write that was answered with an
  error is never read back; `NoTornRead`; and `SsdAccounting`. With one Master
  also `ReadsNeverGoBack` and `DramHoldsAcked`: no promotion brings an older write
  back. A crash is one of the process: it keeps every file that was renamed. The
  code syncs the file but not its directory, so nothing is said of a power loss.
- `flow_faults`: three requests for one key on two gateways, streaming or not, or
  refused, two faults (failed, late or cancelled calls), a Store smaller than the
  Master believes, a segment on a node that no gateway has a URL for, and bodies
  that fit or do not. `CommittedIsWritten`, `AckedCommitStays`,
  `ReservationOwned`, `CoalescingSound`; `CountersAddUp`: statuses, writes, roles
  and vendor calls agree with each other, and with the Master while nothing fails.
- `flow_policy`: two requests out of 21 kinds: all cache-control modes, two
  tenants, stochastic prompts, streams, a gateway whose model mapping is newer, a
  gateway without cache, and one request for each reason to refuse; one fault,
  one removal. `ResponseMatchesRequest`, `CacheHoldsEligibleOnly`,
  `WaitersShareMode`, the refinement `ImplementsCache`, and `RequestsFinish`
  (liveness). The MC module also asserts that each of twelve broken deployments
  does not come up.
- `vendor_stream`: every text of up to five lines out of nine (blank, comment,
  two event names, five pieces of data). `StreamDecoded`, `ReplayFaithful`.
- `ha_restart`: two Masters, two writers of different objects or a writer and an
  operator, one crash of each Master, failed saves. `OneLeader`,
  `AccountingSurvives`, `LoneCommitSurvives`; `ServedChunksHold`: until the leader
  restarts, no other object is written over what any Master serves as committed,
  standbys with old metadata included. What a restart of the leader does to
  committed objects is `ha_overlap`, below.
- `admin_api`: three calls out of twelve kinds. `AuditComplete`,
  `EffectsAudited`, `OneFirstDrain`, `PurgesInOrder`, `ViewsCoverEarlier`; with
  the check for deadlock, no path keeps the Master locked. Two drains of one node
  may be logged in either order; purges are logged as they took effect. Purges are
  those of a service that is given a `MasterState` with an object, as the tests
  do; the binary's own is always empty (section 5).

Three runs end in a violation, each of a statement of the repository:

- `flow_wrong_node`: with two Store nodes, a hit returns another tenant's
  response. `RemoteStoreClient::read_chunk` reads from the first configured node
  whatever node the replica is on (`clients.rs:405`, "For read, any node can
  serve"), and offsets are per node.
- `ha_reorder`: two writers on one Master. The snapshot of the first is taken
  before, and saved after, the snapshot that holds the second one's commit; etcd
  then lacks an answered commit.
- `ha_overlap`: a restarted Master starts its allocator at offset 0 and places
  new objects over committed ones.

### Bounds

Bounds are constants of the modules or of the MC modules, and guards use them.

- Two keys (or two tenants with one key each) suffice for every interference
  between objects in the Master: no operation looks at more than one object
  except eviction, which is an order among at least two, and quotas, which sum
  over the objects of a tenant.
- Two segments suffice for a replica to go to one segment and not to the other;
  lengths 1 and 2 in segments of 2 and 3 reach exactly full, and one too many.
- Four requests and one waiter per key let a waiter be over capacity while
  another key has its own leader, and a second leader begin for a key while the
  first still sends.
- Two faults allow a failed call, and the failure of the revocation that follows
  it. Three requests allow a writer, a second gateway and a reader.
- One crash of each Master: the leader restarts before, in or after any call, and
  a standby loads metadata of any age; a crash of one does not use up the other's.
  Two writers are a chunk that is committed and one that could be placed over it.
  Two crashes of a Store: one in a write, one in the read that promotes.
- Four Store handlers: two writes, and a promotion that races the second of
  them after a crash. Two dropped handlers: two renames that come late.
- Five lines of a stream: an event without data before one with data, two
  completed events, data in two pieces, and an end with or without a blank line.
- Two requests in `flow_policy`: every property there is about a request and the
  one whose response it shares, finds or leaves.
- `admin_api` has three threads: two writers and a reader.

Requests, tasks, calls and keys are interchangeable, and the runs without
liveness use that as a symmetry.

`CHECK_DEADLOCK FALSE` is given where a bounded environment really stops: all
handlers done in `StoreNode`, all clients finished in `MasterHA`, the clock and
the segments at their bounds in `Master`, every request ended in
`Singleflight`, the one call over in `VendorStream`. In `CacheFlow` and `AdminApi` the end is a step of its own and
deadlock is checked.

### Fairness

- `Singleflight`: a leader that is not dropped publishes, the thread that
  publishes sends, a waiter with a value or a closed channel is polled. There is
  no fairness for `begin` or for drops.
- `CacheFlow`: a task that can take a step takes one. For the vendor the
  client's timeout justifies this. The clients of the Master and of the Store
  have **no** timeout, so it is an assumption that these answer or fail;
  without it a leader, and every waiter with it, can wait forever. Faults,
  cancellations, late calls and removals have no fairness.

## 4. Proofs

TLAPS checks every proof to the last leaf. A theorem holds for all values of the
constants that satisfy the named assumptions, which TLC evaluates on every run.

### What is assumed

- `MasterState`: `U64Max` is positive, `LeaseTTL` is in `1..U64Max`, tenants and
  keys are finite sets (tenants are configured one by one, keys are digests).
- `Master`: inputs are u64, and all the memory ever mounted is less than 2^64
  bytes (`CapacityAssumption`). Without the last one `QuotaAccounting` is false:
  the additions saturate, and a release after a saturated reserve takes away more
  than was added.
- `StoreNode`: chunks lie within the arena and are not empty
  (`ChunksAssumption`: what the Master hands out is u64 and non-empty, and a
  chunk outside the arena is refused before anything changes); under `oneMaster`
  the chunks are disjoint and nobody writes directly (`OneMasterAssumption`). The
  first is `ChunksDisjoint`, which is proved of the Master.
- `MasterHA`: the bind addresses differ (section 5 has what happens otherwise),
  and all bodies together are less than 2^64 bytes (`WorkloadAssumption`; a
  restarted Master hands the same memory out again, so capacity is no bound).
- `AdminApi`: calls are of known kinds; the seeded object has an id.
- `CacheFlow`: requests, gateways and kinds of requests are finitely many, a
  tenant that can authenticate is a tenant of the Master, ids of tenants are
  naturals (`RequestAssumption`); segments lie on nodes and have u64 lengths, the
  configured URLs lead to nodes, bodies have u64 lengths (`StoreAssumption`).
- Model values that stand for "nothing" differ from everything else.

### `MasterProofs`, and the lemmas about `MasterState` in `StateProofs`

- `TypeCorrect`: `TypeOK` is inductive; one lemma per operation.
- `LeasesOnCommittedOnly`: `LeaseOnCommitted` with `TypeOK` is inductive. For
  eviction the two batches are taken in turn.
- `PlacementSafe`, `ChunksStayBelow`: `ChunksBelowPointer` and `ChunksDisjoint`.
  Neither is inductive alone: a new chunk is disjoint from the others because
  they lie below the pointer. "Frame" lemmas say what an operation leaves alone,
  so that only `put_start` and `mount_segment` need an argument of their own.
- `ObjectsImmutable`: the action property `CommittedImmutable`, from the same
  frame lemmas.
- `QuotasAddUp`: `QuotaAccounting`. Used bytes are a sum over a set that a step
  changes in one place, or, for eviction, in a subset. Lemmas show how such sums
  change (`SumDrop`, `SumSplit`, `SumBounded` and others). They cannot be proved by induction
  on the set, which the provers do not support; their proofs take a smallest set
  for which the claim fails instead, and remove an element. The invariant
  `AccountingInv` adds that the bytes placed in segments bound the bytes reserved:
  this is what keeps additions from saturating.
- `QuotasRespected`, `EvictionsDisciplined`: the action properties
  `QuotaRespected` and `EvictionDiscipline`.

### `SingleflightProofs`

For any number of requests and keys and any cap:

- `SingleflightInvariant`: `SfInv` is inductive. `EntryHasLeader` is not: that a
  drop takes no newer leader's entry needs the `completed` flag, and what a
  waiter sees needs the channel of a leader that is gone. `LeaderState` and
  `SourceState` say how these follow the leader's progress.
- `SingleflightSafe`, `WaitersAlwaysServed`, `WaitersAlwaysAgree` follow.
- `WaiterCapHolds`: the counter of an entry is never decremented, so `CapInv`
  bounds the number of receivers of an entry's leader by the counter.

### `StoreNodeProofs`, and the lemmas about `StoreState` in `StateProofs`

For any number of handlers, objects, reservations, drops and crashes:

- `NodeTypeCorrect`, `ReadsAreWhole` (`NoTornRead`): the checksum of a chunk has
  the length of the chunk (`Sealed`), so a read that passes the check is a whole
  content.
- `AcksAreDurable` (`AckedOnSsd`), `FailedWritesStayInvisible`
  (`FailedWriteInvisible`), in any environment: `WriteInv` says of every writer at
  every step whether the object's file can be its own, and that a write in an
  object's file, or one that may still be renamed there, was not over before an
  answered one began. `AckedOnSsd` is about nodes with an SSD: without one a write
  is acknowledged from DRAM.
- `ReadsAreFresh`, `DramIsFresh` (`ReadsNeverGoBack`, `DramHoldsAcked`), with one
  Master: a promotion puts what it read from the SSD into DRAM, so DRAM is fresh
  because the file was when it was read, and nobody else writes that place.
  `OneMasterInv` adds to `WriteInv` how old what a reader carries may be. Both
  except a chunk that somebody asked for before its write was answered: that reader
  may carry the object's previous write into the chunk.
- `SsdBytesCounted` (`SsdAccounting`): without crashes and drops, for objects whose
  writes did not overlap. A handler dropped between the rename and its entry leaves
  a file that is not counted, and two writers may record in another order than they
  renamed.

### `AdminApiProofs`

For any number of concurrent calls:

- `AdminTypeCorrect`, `EveryCallAudited` (`AuditComplete`): the invariant relates
  where a handler is to whether its event is in the log.
- `PurgesLoggedInOrder` (`PurgesInOrder`): that the mutex is held from the
  deletion to the event makes the last logged purge the one that took effect.
- `FirstDrainUnique` (`OneFirstDrain`), `EveryEffectAudited` (`EffectsAudited`).
- `ReadersSeeEarlier` (`ViewsCoverEarlier`): what a reader has loaded so far is
  part of what is there, and has every call that was answered before it arrived.

### `MasterHAProofs`

For any number of Masters, writers, operators and crashes:

- `HATypeCorrect`, `LeaderUnique` (`OneLeader`): whoever runs has read the leader
  key, which never changes.
- `AccountingAlwaysSurvives` (`AccountingSurvives`): the books are exact in every
  memory, in etcd and in every snapshot on its way, so it does not matter which
  snapshot is saved last or restored. One lemma (`OpEffect`) covers the handlers;
  it rests on the lemmas about `MasterState`.
- `LoneCommitAlwaysSurvives` (`LoneCommitSurvives`): the invariant follows the
  commit from memory to snapshot to etcd, as long as one client only has had a
  call applied.
- `ServedChunksAlwaysHold` (`ServedChunksHold`), until the leader restarts: every
  object in every memory, in every snapshot on its way and in etcd is in a place
  that some writer of it was given, and, unless a removal came between two writers
  of it, it is committed only after that writer wrote (`WriterInv`); the places that the one leader gave are apart from each
  other and below its pointer, and a checksum in the arena belongs to the writer of
  its place (`PlacingInv`). That only the leader applies calls, and that they all
  went to the same memory, is `ServiceInv`. Removals are allowed: a place is never
  given again, so a standby may serve what is gone, but not what is not there.

The two last ones state how far the guarantees reach: `ha_reorder` shows what a
second client does to the first guarantee, `ha_overlap` what a restart of the
leader does to the second.

### `CacheFlowProofs`

For any number of requests, gateways, kinds of requests, Stores and faults, and
for any deployments:

- `FlowTypeCorrect`: `CoreInv` is inductive, with one lemma per action. Besides
  `TypeOK` it says which roles, bodies, handles and responses a task can have at
  each await (`FlowOk`), that every object is at one chunk that was handed out, and
  that the invariant of singleflight holds: a step of `CacheFlow` is a step of
  `Singleflight` or leaves it alone, so `SingleflightProofs` is reused as it is.
- `CoalescingAlwaysSound`, `WaitersAlwaysShareMode` follow from it.
- `CacheAlwaysEligibleOnly`: every object has a task that called the vendor for
  its id (`HasWriter`); that such a task is of an enabled tenant comes out of the
  order in which `Refusal` looks for reasons.
- `ResponsesMatch`, with at most one segment (`OneSegment`). Places that were
  handed out do not overlap (`PlacesApart`), so an offset belongs to one id on
  every Store, whatever URL a gateway has been told, and a hit returns a response
  made for that id. An id stands for one document (`SameIdSameRequest`), hence for
  one tenant, body, version and policy.
- `ReservationsAlwaysOwned`: every step is one of eleven kinds (`StepKinds`), of
  which only `Reserves` makes a reservation.
- `CommitsAlwaysWritten`, `AckedCommitsStay`, under `SoundLayout` (one segment on
  each node, URLs that lead to the node they name) and until an operator removes
  an object (section 5 has what a removal breaks). Until then an id is reserved
  once, and `OwnInv` says that the task that reserved it is the only one whose
  calls, in time or late, can write its chunk, commit it or revoke it; that a task
  which still can commit has written; and that a task which has committed left no
  call behind.
- `ImplementsTheCache`: `CacheFlow` implements `Cache` under `OneStore` (one
  segment, right URLs), removals included. The inductive invariant `RefInv` joins
  the ones above with three facts. A chunk is written at most once, by the task
  that reserved it, whatever became of the object meanwhile (`OnceInv`): so what is
  stored never changes into something else (`WriteSeen`, `StoredStep`), although
  a removal can let the commit of one response publish the chunk of another. Until
  a removal, whoever reads was sent to a chunk that is written (`ReadsWritten`):
  what a request has found stays what it found (`LookStep`). A miss that is not
  shared is answered with what its own vendor gave (`OwnMisses`): the answer a
  waiter shares is its leader's own (`ReplyStep`). Initial states, stored objects,
  findings and answers then map one by one to `Cache` (`CacheInit`, `CacheStores`,
  `CacheLooks`, `CacheReplies`).
- `CountersAlwaysAddUp`: `CountersAddUp`, without a condition on layout, faults or
  removals. It is not inductive: an answer is backed by a vendor call that was
  counted some steps before. `GatewaysAddUp` sets the vendor calls of the tasks
  that are writing back aside, and every step of a task counts exactly what it
  changes in what the task owes (`Tallies`, one lemma per action; `AddsBump`). For
  the commits, a task that writes back has the only reservation of its id while
  nothing fails or is removed (`WritersReserve`), so no commit is taken back.

### `VendorStreamProofs`

For every set of lines and documents and every length of a response; nothing is
assumed of a line.

- `StreamsAreDecoded`: `StreamDecoded`. It compares a fold over the text with a
  reading of the whole text, for which one wants an induction over the text. The
  text grows by one line in a step, so the specification does that induction:
  `TextParsed` says what the parser knows of the text so far, namely the events of
  all blocks before the last blank line, in order, and name and data of the block
  after it (`Knows`). That one more line is one more step of the fold
  (`ParsedAppend`) is shown by unfolding the library's recursion, whose solution
  exists and is unique by minimal counterexamples. A line that is not blank goes
  to the last block and cuts nothing (`KnowsLine`), a blank one ends it and leaves
  the blocks before it alone (`KnowsBlank`), and the flush at the end does the
  same without a line (`FlushDecodes`). Positions are counted with increasing
  lists (`Lists`, `Ranks`).
- `ReplaysAreFaithful`: `ReplayFaithful`, by an invariant that relates result,
  object and replay in each phase (`Kept`).

### What is only model-checked

- All liveness (`WaitersFinish`, `RequestsFinish`): it needs fairness and
  `ENABLED`, which this prover does not handle.

Every invariant and action property of the passing runs is proved.

## 5. Where the code and its documents disagree

Besides the three runs above, modelling met the following. "Design" is
`docs/superpowers/specs/2026-07-03-distributed-api-response-kvcache-design.md`.

- After a `remove` the calls of two writers mix: `put_end` and `put_revoke` name
  a key, not a reservation (`state.rs:148`), so the first writer's `put_end`
  commits the second one's reservation before its chunk is written (with
  `MaxRemoves = 1` and two writers `CommittedIsWritten` fails). A reader finds an
  unwritten chunk or a checksum error, which makes the lookup fail.
- A node can be mounted twice (`allocator.rs:16`): two bump pointers over one
  arena, and two replicas on one node, where the design (line 518) spreads them
  over distinct nodes.
- `remove` does not look at leases (`state.rs:194`); design line 420: "Eviction
  and remove skip active leases."
- A reservation whose writer is gone blocks its key until an operator removes it;
  design line 422: "A zombie write is cleaned by timeout".
- When the Master or the Store fails during a lookup the client gets that error
  (`cache_flow.rs:409`); the repository's README (line 142) describes fail-open.
- A `cache-only` request that is not eligible calls the vendor
  (`cache_flow.rs:383`); design line 384 says it does not.
- A write that the gateway reports as failed may be committed: an error of
  `put_end` does not say that it had no effect (`cache_flow.rs:731`); the
  repository's README (line 138) says it is not.
- A Master's identity in the election is its bind address, which the compose file
  sets to `0.0.0.0:8081` (`docker-compose.yml:34`, one Master): two Masters started
  with the same address both take themselves for the leader
  (`apps/master/main.rs:388`). `OneLeader` is checked for distinct addresses.
- The leader key never expires and the election is held only at startup
  (`apps/master/main.rs:229`): no standby takes over, whatever design line 59
  says of multiple Masters.
- A standby answers `get_replica_list` from the snapshot it loaded at startup
  (`apps/master/main.rs:601`), so it serves removed objects.
- The Admin API purges from a `MasterState` of its own
  (`apps/admin-api/main.rs:260`), which no put ever reaches.
- `cache_warmup` leaves no audit event (`apps/admin-api/main.rs:481`); design line
  218: "All write operations require audit logging". It writes nothing today, and
  is outside the calls `AuditComplete` and `EffectsAudited` are about.
- A temporary SSD file stays forever when its removal fails (`ssd.rs:122` discards
  the error), when its handler is dropped, and after a crash: nothing looks for
  such files at startup.
- A tenant's `policy` is parsed and never read; `config/tenants.example.toml:26`
  says "cache_only: never call vendor on miss." Rate and stream limits, the spend
  budget and the TTLs are validated and never enforced (design lines 138, 552).
- `vendor_id` and `adapter_version` are constants of the adapter
  (`vendor.rs:123`), so the ones in the vendor file are neither part of a
  fingerprint nor what a tenant's `allowed_vendors` is compared with. The key
  still tells everything apart that one process can do, since it has one vendor.
- Two tenants may have the same token digest: the one with the smaller id gets
  every request (`config.rs:157`), the other is never reached.
- The adapter sends the requested model to the vendor, not the resolved one that
  the key names (`vendor.rs:144`): that they mean the same is up to whoever
  writes the vendor file.
- A standard `cache-control: no-cache` is taken for a cache mode and answered
  with 400 when there is no `x-cache-control` (`apps/gateway/main.rs:340`).
- A streaming client gets the final JSON body: `gateway_http_response` drops the
  captured events (`apps/gateway/main.rs:374`).
- A vendor call that fails is counted when it is plain and not counted when it is
  a stream (`cache_flow.rs:571`, `cache_flow.rs:792`).
- Nothing retries a vendor call: `is_retryable_before_stream_start`
  (`vendor.rs:29`) is called by tests only; design line 194 names a retry policy.

## 6. Not modelled

- Inside requests: a temperature that is not a number and a stream flag that is
  not a boolean (the code treats both as absent); upper case and blanks in
  header values; a plain vendor response that carries the type marker of a stored
  stream; tenant ids that would need escaping in a lookup URL.
- `cache_available` is false only in a constructor that tests use; the branch is
  modelled for the requests that look at it, those that do not stream.
- The mock vendor adapter, the local clients of Master and Store, health routes.
- Configuration and command lines of the Master, the Store node and the Admin
  API: they set addresses and paths that their models take as given.
- Latency totals and the names of metrics; the metrics of Masters and Stores, but
  for the count of SSD bytes: no decision reads them.
- The control panel: a user interface over the Admin API.
- Lease ids, SSD quota fields and object timestamps: nothing reads them.
- Sessions, watches and transactions of etcd beyond the conditional put of the
  election and the plain put of a snapshot, which are all the code uses.

## 7. Plan

Done: the inventory; `MasterState`, `Master`, `Singleflight`, `StoreState`,
`StoreNode`, `GatewayConfig`, `CacheFlow`, `Cache`, `VendorStream`, `MasterHA`,
`AdminApi`; the refinement from `CacheFlow` to `Cache`; the proofs of section 4.

Left: the liveness properties, for a prover that handles fairness. That every
answer is for the id that was asked for, which `Cache` implies, is proved of
`CacheFlow` itself (`ResponsesMatch`).
