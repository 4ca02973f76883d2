----------------------------- MODULE MasterState -----------------------------
(***************************************************************************)
(* The metadata state of a Mooncache Master (crates/master) and the        *)
(* operations on it, as operators from a state to a state. Every operation *)
(* runs under the Master's mutex, so it is one atomic step wherever it is  *)
(* used: module Master takes one Master alone, MasterHA several of them    *)
(* around etcd, CacheFlow one Master called by gateways.                   *)
(*                                                                         *)
(* What is abstracted: names are model values; lease ids are left out (no  *)
(* code reads one back); ssd_bytes/used_ssd_bytes of a quota are left out  *)
(* (stored, never consulted). u64 arithmetic saturates at U64Max.          *)
(***************************************************************************)
EXTENDS Integers, Sequences, FiniteSets, Functions

CONSTANTS
  Tenants,      \* tenant ids
  Keys,         \* cache keys (fingerprints)
  Nodes,        \* store node ids
  U64Max,       \* the largest u64
  LeaseTTL      \* DEFAULT_LEASE_TTL_MS, in ticks of the model's clock

ASSUME U64MaxAssumption == U64Max \in Nat \ {0}
\* Tenants are configured one by one, keys are SHA-256 digests.
ASSUME FiniteAssumption == IsFiniteSet(Tenants) /\ IsFiniteSet(Keys)
ASSUME LeaseTTLAssumption == LeaseTTL \in 1..U64Max

U64 == 0..U64Max
Ids == Tenants \X Keys

(***************************************************************************)
(* Types. An id that is not in the objects map has the value NoObject.     *)
(***************************************************************************)

\* "Writing" is declared by the code and matched on, but never assigned.
Statuses == {"Absent", "Reserving", "Writing", "Committed", "Revoked", "Evicted"}

\* ReplicaDescriptor. seg is the position of the segment in the allocator's
\* vector: the replica list is ordered by it and holds one entry per segment.
Replica == [seg : Nat, node : Nodes, offset : U64, len : U64]

ObjectMeta == [status : Statuses, len : U64, replicas : SUBSET Replica,
               hardPinned : BOOLEAN, softPinnedUntil : U64]

NoObject == [status |-> "Absent", len |-> 0, replicas |-> {},
             hardPinned |-> FALSE, softPinnedUntil |-> 0]

\* TenantQuota; a tenant without an entry in the quotas map has NoQuota.
Quota == [set : BOOLEAN, dram : U64, used : U64]
NoQuota == [set |-> FALSE, dram |-> 0, used |-> 0]

\* MountedSegment.
Segment == [node : Nodes, len : U64, next : U64]

\* MasterState. leases[id] is the expiry time of the lease, 0 when there is none.
MasterStates == [objects : [Ids -> ObjectMeta], quotas : [Tenants -> Quota],
                 leases : [Ids -> U64], segments : Seq(Segment), evictions : U64]

NewMaster == [objects |-> [id \in Ids |-> NoObject], quotas |-> [t \in Tenants |-> NoQuota],
              leases |-> [id \in Ids |-> 0], segments |-> <<>>, evictions |-> 0]

-----------------------------------------------------------------------------
(* Saturating u64 arithmetic, the quota and the lease. *)

\* Mutant: the sum does not saturate.
SatAdd_Unchecked(a, b) == a + b

SatAdd(a, b) == IF a + b \in U64 THEN a + b ELSE U64Max
SatSub(a, b) == IF b <= a THEN a - b ELSE 0

ReservedBytes(o) == IF o.status \in {"Reserving", "Writing", "Committed"} THEN o.len ELSE 0

Reserved(objs) == [id \in DOMAIN objs |-> ReservedBytes(objs[id])]

\* The saturating fold over the objects of a set of ids.
ReservedTotal(objs, ids) ==
  LET total == SumFunctionOnSet(Reserved(objs), ids)
  IN  IF total \in U64 THEN total ELSE U64Max

TenantIds(t) == {t} \X Keys

\* Mutant: the check looks at the bytes in use only.
CanReserve_Late(ms, t, bytes) == ms.quotas[t].set => ms.quotas[t].used <= ms.quotas[t].dram

CanReserve(ms, t, bytes) ==
  ms.quotas[t].set => ms.quotas[t].used + bytes <= ms.quotas[t].dram

ReserveQuota(ms, t, bytes) ==
  [ms EXCEPT !.quotas[t].used = IF ms.quotas[t].set THEN @ + bytes ELSE @]

ReleaseQuota(ms, t, bytes) ==
  [ms EXCEPT !.quotas[t].used = IF ms.quotas[t].set THEN SatSub(@, bytes) ELSE @]

HasActiveLease(ms, id, now) == ms.leases[id] > now

DropLease(ms, id) == [ms EXCEPT !.leases[id] = 0]

-----------------------------------------------------------------------------
(* The segment allocator: a bump pointer per mounted segment, never freed. *)

MountSegment(ms, node, len) ==
  [ms EXCEPT !.segments = Append(@, [node |-> node, len |-> len, next |-> 0])]

CanFit(seg, len) == seg.next + len <= seg.len

\* The first n segments, in mount order, that can hold len bytes.
Picked(segs, len, n) ==
  {i \in DOMAIN segs : /\ CanFit(segs[i], len)
                       /\ Cardinality({j \in 1..(i - 1) : CanFit(segs[j], len)}) < n}

CanAllocate(segs, len, n) ==
  /\ len > 0
  /\ n > 0
  /\ Cardinality(Picked(segs, len, n)) = n

\* Mutant: every chunk is placed at the start of its segment.
NewReplicas_AtStart(segs, len, n) ==
  {[seg |-> i, node |-> segs[i].node, offset |-> 0, len |-> len] : i \in Picked(segs, len, n)}

NewReplicas(segs, len, n) ==
  {[seg |-> i, node |-> segs[i].node, offset |-> segs[i].next, len |-> len]
     : i \in Picked(segs, len, n)}

\* Mutant: only the first of the segments moves on.
AdvanceSegments_FirstOnly(segs, len, n) ==
  [i \in DOMAIN segs |-> IF i \in Picked(segs, len, 1)
                         THEN [segs[i] EXCEPT !.next = @ + len]
                         ELSE segs[i]]

AdvanceSegments(segs, len, n) ==
  [i \in DOMAIN segs |-> IF i \in Picked(segs, len, n)
                         THEN [segs[i] EXCEPT !.next = @ + len]
                         ELSE segs[i]]

-----------------------------------------------------------------------------
(* The operations. XOk says when the call succeeds, X the state it leaves. *)

SetTenantQuota(ms, t, dram) ==
  [ms EXCEPT !.quotas[t] =
     [set |-> TRUE, dram |-> dram, used |-> ReservedTotal(ms.objects, TenantIds(t))]]

PutStartOk(ms, id, len, n) ==
  /\ ms.objects[id].status = "Absent"
  /\ CanReserve(ms, id[1], len)
  /\ CanAllocate(ms.segments, len, n)

\* Mutant: a failed allocation keeps the reserved bytes.
PutStart_LeaksQuota(ms, id, len, n) ==
  LET reserved == ReserveQuota(ms, id[1], len)
  IN  IF PutStartOk(ms, id, len, n)
      THEN [reserved EXCEPT
              !.objects[id] = [status |-> "Reserving", len |-> len,
                               replicas |-> NewReplicas(ms.segments, len, n),
                               hardPinned |-> FALSE, softPinnedUntil |-> 0],
              !.segments = AdvanceSegments(@, len, n)]
      ELSE IF ms.objects[id].status = "Absent" /\ CanReserve(ms, id[1], len) THEN reserved ELSE ms

\* A failed allocation gives the reserved bytes back before it returns.
PutStart(ms, id, len, n) ==
  LET reserved == ReserveQuota(ms, id[1], len)
  IN  IF PutStartOk(ms, id, len, n)
      THEN [reserved EXCEPT
              !.objects[id] = [status |-> "Reserving", len |-> len,
                               replicas |-> NewReplicas(ms.segments, len, n),
                               hardPinned |-> FALSE, softPinnedUntil |-> 0],
              !.segments = AdvanceSegments(@, len, n)]
      ELSE IF ms.objects[id].status = "Absent" /\ CanReserve(ms, id[1], len)
           THEN ReleaseQuota(reserved, id[1], len)
           ELSE ms

\* Mutant: whatever is in the map can be committed.
PutEndOk_AnyStatus(ms, id) == ms.objects[id].status # "Absent"

PutEndOk(ms, id) == ms.objects[id].status \in {"Reserving", "Writing"}

PutEnd(ms, id) ==
  IF PutEndOk(ms, id) THEN [ms EXCEPT !.objects[id].status = "Committed"] ELSE ms

PutRevokeOk(ms, id) == ms.objects[id].status # "Absent"

\* Mutant: the lease is forgotten.
PutRevoke_KeepsLease(ms, id) ==
  IF PutRevokeOk(ms, id)
  THEN ReleaseQuota([ms EXCEPT !.objects[id].status = "Revoked"], id[1], ReservedBytes(ms.objects[id]))
  ELSE ms

\* Any object can be revoked, whatever its status; it stays in the map.
PutRevoke(ms, id) ==
  IF PutRevokeOk(ms, id)
  THEN DropLease(ReleaseQuota([ms EXCEPT !.objects[id].status = "Revoked"],
                              id[1], ReservedBytes(ms.objects[id])), id)
  ELSE ms

GetReplicaListOk(ms, id) == ms.objects[id].status = "Committed"

GetReplicaList(ms, id, now) ==
  IF GetReplicaListOk(ms, id) THEN [ms EXCEPT !.leases[id] = SatAdd(now, LeaseTTL)] ELSE ms

RemoveOk(ms, id) == ms.objects[id].status # "Absent"

Remove(ms, id) ==
  IF RemoveOk(ms, id)
  THEN DropLease(ReleaseQuota([ms EXCEPT !.objects[id] = NoObject],
                              id[1], ReservedBytes(ms.objects[id])), id)
  ELSE ms

-----------------------------------------------------------------------------
(* Eviction. *)

\* Mutant: leases are not looked at.
IsCandidate_IgnoresLease(ms, id, now) ==
  ms.objects[id].status = "Committed" /\ ~ms.objects[id].hardPinned

IsCandidate(ms, id, now) ==
  /\ ms.objects[id].status = "Committed"
  /\ ~HasActiveLease(ms, id, now)
  /\ ~ms.objects[id].hardPinned

SoftCandidates(ms, t, now) ==
  {id \in TenantIds(t) : IsCandidate(ms, id, now) /\ ms.objects[id].softPinnedUntil > now}

NormalCandidates(ms, t, now) ==
  {id \in TenantIds(t) : IsCandidate(ms, id, now) /\ ~(ms.objects[id].softPinnedUntil > now)}

\* evict_candidate_keys walks the candidates in hash-map order, that is in any
\* order, and stops as soon as target bytes are reclaimed: these are the sets it
\* can have evicted when it stops.
Batches(ms, candidates, target) ==
  {E \in SUBSET candidates :
     /\ ReservedTotal(ms.objects, E) >= target \/ E = candidates
     /\ E # {} => \E last \in E : ReservedTotal(ms.objects, E \ {last}) < target}

\* One pass over a batch E of the tenant's ids.
EvictBatch(ms, t, E) ==
  LET released == ReleaseQuota(ms, t, ReservedTotal(ms.objects, E))
  IN  [released EXCEPT
         !.objects = [id \in Ids |-> IF id \in E THEN [ms.objects[id] EXCEPT !.status = "Evicted"]
                                                 ELSE ms.objects[id]],
         !.leases = [id \in Ids |-> IF id \in E THEN 0 ELSE ms.leases[id]],
         !.evictions = SatAdd(@, Cardinality(E))]

\* The set of states evict_for_tenant can leave: normal candidates first, then
\* the soft-pinned ones for what is still missing. Both lists are collected
\* with one reading of the clock, before anything is evicted.
EvictForTenant(ms, t, target, now) ==
  UNION {LET reclaimed == ReservedTotal(ms.objects, N)
         IN  {EvictBatch(EvictBatch(ms, t, N), t, S) :
                S \in Batches(ms, SoftCandidates(ms, t, now), SatSub(target, reclaimed))}
           : N \in Batches(ms, NormalCandidates(ms, t, now), target)}

-----------------------------------------------------------------------------
(* What survives a restart: objects, quotas and the eviction counter. *)

MetadataSnapshot(ms) ==
  [objects |-> ms.objects, quotas |-> ms.quotas, evictions |-> ms.evictions]

\* Mutant: quotas come back with nothing in use.
FromMetadataSnapshot_ZeroUsage(snap) ==
  [objects |-> snap.objects, quotas |-> [t \in Tenants |-> [snap.quotas[t] EXCEPT !.used = 0]],
   leases |-> [id \in Ids |-> 0], segments |-> <<>>, evictions |-> snap.evictions]

FromMetadataSnapshot(snap) ==
  [objects |-> snap.objects, quotas |-> snap.quotas, leases |-> [id \in Ids |-> 0],
   segments |-> <<>>, evictions |-> snap.evictions]

=============================================================================
