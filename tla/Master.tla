-------------------------------- MODULE Master --------------------------------
(***************************************************************************)
(* One running Master: its MasterState, the wall clock it reads, and one   *)
(* action per operation a caller can invoke, in any order and with any     *)
(* input. The properties are the promises of the metadata service: quota   *)
(* accounting, chunk placement, leases and eviction.                       *)
(***************************************************************************)
EXTENDS MasterState

CONSTANTS
  ObjectLens,      \* lengths callers ask for, zero included
  ReplicaCounts,   \* replica counts callers ask for, zero included
  SegmentLens,     \* lengths of mounted segments
  QuotaLimits,     \* dram_bytes of a quota
  ReclaimTargets,  \* bytes an eviction is asked to reclaim
  PinTimes,        \* soft_pinned_until_ms of a pinned object, zero for None
  MaxSegments,     \* bound: segments ever mounted
  MaxTime          \* bound: the model's clock stops here

ASSUME InputAssumption ==
  /\ ObjectLens \subseteq U64
  /\ SegmentLens \subseteq U64
  /\ QuotaLimits \subseteq U64
  /\ ReclaimTargets \subseteq U64
  /\ PinTimes \subseteq U64
  /\ ReplicaCounts \subseteq Nat
  /\ MaxTime \in U64
  /\ MaxSegments \in Nat

\* All the memory that is mounted is less than 2^64 bytes (16 EiB): sums of the
\* lengths of objects that are placed in it do not reach the saturation point.
ASSUME CapacityAssumption == \A len \in SegmentLens : MaxSegments * len <= U64Max

VARIABLES
  master,   \* the MasterState behind the mutex
  now       \* now_ms()

vars == <<master, now>>

TypeOK ==
  /\ master \in MasterStates
  /\ now \in U64

Init ==
  /\ master = NewMaster
  /\ now = 0

MountSegmentCall(node, len) ==
  /\ Len(master.segments) < MaxSegments
  /\ master' = MountSegment(master, node, len)
  /\ UNCHANGED now

SetTenantQuotaCall(t, dram) ==
  /\ master' = SetTenantQuota(master, t, dram)
  /\ UNCHANGED now

PutStartCall(id, len, n) ==
  /\ master' = PutStart(master, id, len, n)
  /\ UNCHANGED now

PutEndCall(id) ==
  /\ master' = PutEnd(master, id)
  /\ UNCHANGED now

PutRevokeCall(id) ==
  /\ master' = PutRevoke(master, id)
  /\ UNCHANGED now

GetReplicaListCall(id) ==
  /\ master' = GetReplicaList(master, id, now)
  /\ UNCHANGED now

RemoveCall(id) ==
  /\ master' = Remove(master, id)
  /\ UNCHANGED now

EvictForTenantCall(t, target) ==
  /\ master' \in EvictForTenant(master, t, target, now)
  /\ UNCHANGED now

\* Pins are fields of the object that no operation sets: they reach a Master
\* only from outside (its tests write them, and so may a stored snapshot).
PinCall(id, hard, until) ==
  /\ master.objects[id].status = "Committed"
  /\ master' = [master EXCEPT !.objects[id].hardPinned = hard,
                              !.objects[id].softPinnedUntil = until]
  /\ UNCHANGED now

Tick ==
  /\ now < MaxTime
  /\ now' = now + 1
  /\ UNCHANGED master

Next ==
  \/ \E node \in Nodes, len \in SegmentLens : MountSegmentCall(node, len)
  \/ \E t \in Tenants, dram \in QuotaLimits : SetTenantQuotaCall(t, dram)
  \/ \E id \in Ids, len \in ObjectLens, n \in ReplicaCounts : PutStartCall(id, len, n)
  \/ \E id \in Ids : PutEndCall(id)
  \/ \E id \in Ids : PutRevokeCall(id)
  \/ \E id \in Ids : GetReplicaListCall(id)
  \/ \E id \in Ids : RemoveCall(id)
  \/ \E t \in Tenants, target \in ReclaimTargets : EvictForTenantCall(t, target)
  \/ \E id \in Ids, hard \in BOOLEAN, until \in PinTimes : PinCall(id, hard, until)
  \/ Tick

Spec == Init /\ [][Next]_vars

-----------------------------------------------------------------------------
(* Quotas. *)

\* A tenant's used bytes are the bytes of its reserved and committed objects,
\* whatever sequence of failed allocations, double revokes, evictions, removals
\* and quota changes led here: release_tenant_quota is called once per object.
QuotaAccounting ==
  \A t \in Tenants :
    master.quotas[t].set =>
      master.quotas[t].used = ReservedTotal(master.objects, TenantIds(t))

\* A reservation never takes a tenant past its limit, also when the limit was
\* lowered below the bytes in use: usage then only shrinks until it fits
\* (reserve_dram's check). A quota being set is the only other way to grow.
QuotaRespected ==
  [][\A t \in Tenants :
       /\ master.quotas[t].set
       /\ master'.quotas[t].dram = master.quotas[t].dram
       /\ master'.quotas[t].used > master.quotas[t].used
       => master'.quotas[t].used <= master.quotas[t].dram]_vars

-----------------------------------------------------------------------------
(* Placement. *)

Overlap(r, s) ==
  /\ r.node = s.node
  /\ r.offset < s.offset + s.len
  /\ s.offset < r.offset + r.len

\* mount_segment does not refuse a node that is already mounted.
NoDoubleMount ==
  \A i, j \in DOMAIN master.segments :
    master.segments[i].node = master.segments[j].node => i = j

\* As long as every node is mounted once, every chunk handed out lies below the
\* bump pointer of its node's segment: what allocate hands out next is unused.
ChunksBelowPointer ==
  NoDoubleMount =>
    \A id \in Ids : \A r \in master.objects[id].replicas :
      \E i \in DOMAIN master.segments :
        /\ master.segments[i].node = r.node
        /\ r.offset + r.len <= master.segments[i].next

\* As long as every node is mounted once, no two chunks the Master knows of
\* share a byte of a node's arena, whatever became of their objects.
ChunksDisjoint ==
  NoDoubleMount =>
    \A a, b \in Ids : \A r \in master.objects[a].replicas, s \in master.objects[b].replicas :
      Overlap(r, s) => a = b /\ r = s

-----------------------------------------------------------------------------
(* The life of an object, its lease, and eviction. *)

\* Only committed objects hold a lease: whatever ends an object's life
\* (put_revoke, remove, eviction) drops the lease with it.
LeaseOnCommitted ==
  \A id \in Ids : master.leases[id] # 0 => master.objects[id].status = "Committed"

\* A committed object is never written to again: short of being removed, an
\* object keeps its length and placement, is committed at most once and never
\* comes back from Revoked or Evicted.
CommittedImmutable ==
  [][\A id \in Ids :
       LET old == master.objects[id]
           new == master'.objects[id]
       IN  old.status # "Absent" /\ new.status # "Absent" =>
             /\ new.replicas = old.replicas
             /\ new.len = old.len
             /\ new.status = "Reserving" => old.status = "Reserving"
             /\ new.status = "Committed" => old.status \in {"Reserving", "Writing", "Committed"}]_vars

NewlyEvicted ==
  {id \in Ids : master.objects[id].status # "Evicted" /\ master'.objects[id].status = "Evicted"}

\* Eviction takes only committed objects without hard pin whose lease has run
\* out, of one tenant; takes a soft-pinned one only when no object without a
\* pin is left to take; and counts each victim once.
EvictionDiscipline ==
  [][/\ \A id \in NewlyEvicted :
          /\ master.objects[id].status = "Committed"
          /\ master.leases[id] <= now
          /\ ~master.objects[id].hardPinned
          /\ \A other \in NewlyEvicted : other[1] = id[1]
          /\ master.objects[id].softPinnedUntil > now =>
               NormalCandidates(master, id[1], now) \subseteq NewlyEvicted
     /\ master'.evictions = master.evictions + Cardinality(NewlyEvicted)]_vars

=============================================================================
