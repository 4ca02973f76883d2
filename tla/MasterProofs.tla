----------------------------- MODULE MasterProofs -----------------------------
(***************************************************************************)
(* Proofs about Master for every set of tenants, keys and nodes, every     *)
(* width of u64 and every choice of inputs.                                *)
(***************************************************************************)
EXTENDS Master, StateProofs

-----------------------------------------------------------------------------
(* Type correctness. *)

\* Every reachable state of a Master is well typed: used bytes, expiry times,
\* bump pointers and replica bounds all stay within u64.
THEOREM TypeCorrect == Spec => []TypeOK
  <1>1. Init => TypeOK
    BY NewMasterType, U64MaxAssumption DEF Init, TypeOK, U64
  <1>2. TypeOK /\ [Next]_vars => TypeOK'
    <2> SUFFICES ASSUME TypeOK, [Next]_vars
                 PROVE  TypeOK'
      OBVIOUS
    <2> USE DEF TypeOK
    <2>1. CASE \E node \in Nodes, len \in SegmentLens : MountSegmentCall(node, len)
      BY <2>1, MountSegmentType, InputAssumption DEF MountSegmentCall
    <2>2. CASE \E t \in Tenants, dram \in QuotaLimits : SetTenantQuotaCall(t, dram)
      BY <2>2, SetTenantQuotaType, InputAssumption DEF SetTenantQuotaCall
    <2>3. CASE \E id \in Ids, len \in ObjectLens, n \in ReplicaCounts : PutStartCall(id, len, n)
      BY <2>3, PutStartType, InputAssumption DEF PutStartCall
    <2>4. CASE \E id \in Ids : PutEndCall(id)
      BY <2>4, PutEndType DEF PutEndCall
    <2>5. CASE \E id \in Ids : PutRevokeCall(id)
      BY <2>5, PutRevokeType DEF PutRevokeCall
    <2>6. CASE \E id \in Ids : GetReplicaListCall(id)
      BY <2>6, GetReplicaListType DEF GetReplicaListCall
    <2>7. CASE \E id \in Ids : RemoveCall(id)
      BY <2>7, RemoveType DEF RemoveCall
    <2>8. CASE \E t \in Tenants, target \in ReclaimTargets : EvictForTenantCall(t, target)
      BY <2>8, EvictForTenantType DEF EvictForTenantCall
    <2>9. CASE \E id \in Ids, hard \in BOOLEAN, until \in PinTimes : PinCall(id, hard, until)
      <3>1. PICK id \in Ids, hard \in BOOLEAN, until \in U64 : PinCall(id, hard, until)
        BY <2>9, InputAssumption
      <3>2. [master.objects[id] EXCEPT !.hardPinned = hard, !.softPinnedUntil = until] \in ObjectMeta
        BY DEF MasterStates, ObjectMeta
      <3>3. master' = [master EXCEPT !.objects[id] =
                         [@ EXCEPT !.hardPinned = hard, !.softPinnedUntil = until]]
        BY <3>1 DEF PinCall, MasterStates, ObjectMeta
      <3> QED
        BY <3>1, <3>2, <3>3 DEF PinCall, MasterStates
    <2>10. CASE Tick
      BY <2>10, InputAssumption, U64MaxAssumption DEF Tick, U64
    <2>11. CASE UNCHANGED vars
      BY <2>11 DEF vars
    <2> QED
      BY <2>1, <2>2, <2>3, <2>4, <2>5, <2>6, <2>7, <2>8, <2>9, <2>10, <2>11 DEF Next
  <1> QED
    BY <1>1, <1>2, PTL DEF Spec

-----------------------------------------------------------------------------
(* Leases. *)

\* A lease is held on committed objects only: no sequence of revokes, removals,
\* evictions and reads leaves one behind.
THEOREM LeasesOnCommittedOnly == Spec => []LeaseOnCommitted
  <1>1. Init => LeaseOnCommitted
    BY DEF Init, LeaseOnCommitted, NewMaster
  <1>2. TypeOK /\ LeaseOnCommitted /\ [Next]_vars => LeaseOnCommitted'
    <2> SUFFICES ASSUME TypeOK, LeasedCommitted(master), [Next]_vars
                 PROVE  LeasedCommitted(master')
      BY DEF LeaseOnCommitted, LeasedCommitted
    <2>0. master \in MasterStates /\ now \in U64
      BY DEF TypeOK
    <2>1. CASE \E node \in Nodes, len \in SegmentLens : MountSegmentCall(node, len)
      BY <2>0, <2>1, KeepLeasesMountSegment, InputAssumption DEF MountSegmentCall
    <2>2. CASE \E t \in Tenants, dram \in QuotaLimits : SetTenantQuotaCall(t, dram)
      BY <2>0, <2>2, KeepLeasesSetTenantQuota, InputAssumption DEF SetTenantQuotaCall
    <2>3. CASE \E id \in Ids, len \in ObjectLens, n \in ReplicaCounts : PutStartCall(id, len, n)
      BY <2>0, <2>3, KeepLeasesPutStart, InputAssumption DEF PutStartCall
    <2>4. CASE \E id \in Ids : PutEndCall(id)
      BY <2>0, <2>4, KeepLeasesPutEnd DEF PutEndCall
    <2>5. CASE \E id \in Ids : PutRevokeCall(id)
      BY <2>0, <2>5, KeepLeasesPutRevoke DEF PutRevokeCall
    <2>6. CASE \E id \in Ids : GetReplicaListCall(id)
      BY <2>0, <2>6, KeepLeasesGetReplicaList DEF GetReplicaListCall
    <2>7. CASE \E id \in Ids : RemoveCall(id)
      BY <2>0, <2>7, KeepLeasesRemove DEF RemoveCall
    <2>8. CASE \E t \in Tenants, target \in ReclaimTargets : EvictForTenantCall(t, target)
      BY <2>0, <2>8, KeepLeasesEvictForTenant DEF EvictForTenantCall
    <2>9. CASE \E id \in Ids, hard \in BOOLEAN, until \in PinTimes : PinCall(id, hard, until)
      BY <2>0, <2>9 DEF PinCall, LeasedCommitted, MasterStates, ObjectMeta
    <2>10. CASE Tick
      BY <2>10 DEF Tick
    <2>11. CASE UNCHANGED vars
      BY <2>11 DEF vars
    <2> QED
      BY <2>1, <2>2, <2>3, <2>4, <2>5, <2>6, <2>7, <2>8, <2>9, <2>10, <2>11 DEF Next
  <1> QED
    BY <1>1, <1>2, TypeCorrect, PTL DEF Spec

-----------------------------------------------------------------------------
(* Placement. *)

PlacementInv == ChunksBelowPointer /\ ChunksDisjoint

\* A step that mounts and allocates nothing, and drops replicas at most, keeps
\* the placement invariant.
LEMMA DroppingKeepsPlacement ==
  ASSUME PlacementInv,
         master'.segments = master.segments,
         \A id \in Ids : master'.objects[id].replicas \subseteq master.objects[id].replicas
  PROVE  PlacementInv'
  <1>1. NoDoubleMount' <=> NoDoubleMount
    BY DEF NoDoubleMount
  <1>2. ChunksBelowPointer'
    BY <1>1 DEF PlacementInv, ChunksBelowPointer
  <1>3. ChunksDisjoint'
    BY <1>1 DEF PlacementInv, ChunksDisjoint
  <1> QED
    BY <1>2, <1>3 DEF PlacementInv

\* Mounting a node for the first time leaves every placed chunk where it was.
LEMMA MountKeepsPlacement ==
  ASSUME TypeOK, PlacementInv, NEW node \in Nodes, NEW len \in U64,
         master' = MountSegment(master, node, len)
  PROVE  PlacementInv'
  <1> DEFINE segs == master.segments
  <1>1. /\ master'.objects = master.objects
        /\ master'.segments = Append(segs, [node |-> node, len |-> len, next |-> 0])
        /\ segs \in Seq(Segment)
    BY MountSegmentFrame DEF TypeOK, MasterStates
  <1>2. \A i \in DOMAIN segs : i \in DOMAIN master'.segments /\ master'.segments[i] = segs[i]
    BY <1>1
  <1>3. NoDoubleMount' => NoDoubleMount
    BY <1>2 DEF NoDoubleMount
  <1>4. ChunksBelowPointer'
    BY <1>1, <1>2, <1>3 DEF PlacementInv, ChunksBelowPointer
  <1>5. ChunksDisjoint'
    BY <1>1, <1>3 DEF PlacementInv, ChunksDisjoint
  <1> QED
    BY <1>4, <1>5 DEF PlacementInv

\* What a successful put_start hands out starts at the bump pointers, above
\* every chunk already placed, and the pointers move past it.
LEMMA PutStartKeepsPlacement ==
  ASSUME TypeOK, PlacementInv, NEW id \in Ids, NEW len \in U64, NEW n \in Nat,
         PutStartOk(master, id, len, n), master' = PutStart(master, id, len, n)
  PROVE  PlacementInv'
  <1> DEFINE segs == master.segments
             picked == Picked(segs, len, n)
             new == NewReplicas(segs, len, n)
  <1>1. /\ master'.objects = [master.objects EXCEPT ![id] = Reservation(master, len, n)]
        /\ master'.segments = AdvanceSegments(segs, len, n)
    BY PutStartSucceeded DEF TypeOK
  <1>2. /\ \A x \in Ids : x # id => master'.objects[x].replicas = master.objects[x].replicas
        /\ master'.objects[id].replicas = new
    BY <1>1 DEF TypeOK, MasterStates, Reservation
  <1>3. /\ segs \in Seq(Segment)
        /\ picked \subseteq DOMAIN segs
        /\ len \in Nat
    BY U64MaxAssumption DEF TypeOK, MasterStates, Picked, U64
  <1>4. /\ DOMAIN master'.segments = DOMAIN segs
        /\ \A i \in DOMAIN segs :
             /\ master'.segments[i].node = segs[i].node
             /\ master'.segments[i].next = IF i \in picked THEN segs[i].next + len ELSE segs[i].next
    BY <1>1, <1>3 DEF AdvanceSegments, Segment
  <1>5. \A i \in DOMAIN segs : segs[i].next \in Nat
    <2> TAKE i \in DOMAIN segs
    <2>1. segs[i] \in Segment
      BY <1>3
    <2> QED
      BY <2>1, U64MaxAssumption DEF Segment, U64
  <1>6. NoDoubleMount' <=> NoDoubleMount
    BY <1>4 DEF NoDoubleMount
  <1>7. \A s \in new : \E i \in picked :
          s = [seg |-> i, node |-> segs[i].node, offset |-> segs[i].next, len |-> len]
    BY DEF NewReplicas
  <1>8. \A x \in Ids : \A r \in master.objects[x].replicas : r.offset \in Nat /\ r.len \in Nat
    BY U64MaxAssumption DEF TypeOK, MasterStates, ObjectMeta, Replica, U64
  <1> HIDE DEF segs, picked, new
  <1>9. ChunksBelowPointer'
    <2> SUFFICES ASSUME NoDoubleMount, NEW x \in Ids, NEW r \in master'.objects[x].replicas
                 PROVE  \E i \in DOMAIN segs : /\ master'.segments[i].node = r.node
                                               /\ r.offset + r.len <= master'.segments[i].next
      BY <1>4, <1>6 DEF ChunksBelowPointer
    <2>1. CASE x = id
      <3>1. PICK i \in picked :
              r = [seg |-> i, node |-> segs[i].node, offset |-> segs[i].next, len |-> len]
        BY <1>2, <1>7, <2>1
      <3>2. i \in DOMAIN segs /\ master'.segments[i].next = segs[i].next + len
        BY <1>3, <1>4
      <3> QED
        BY <1>3, <1>4, <1>5, <3>1, <3>2
    <2>2. CASE x # id
      <3>1. r \in master.objects[x].replicas
        BY <1>2, <2>2
      <3>2. PICK i \in DOMAIN segs : segs[i].node = r.node /\ r.offset + r.len <= segs[i].next
        BY <3>1 DEF PlacementInv, ChunksBelowPointer, segs
      <3>3. r.offset + r.len \in Nat
        BY <1>8, <3>1
      <3> QED
        BY <1>3, <1>4, <1>5, <3>2, <3>3
    <2> QED
      BY <2>1, <2>2
  <1>10. ASSUME NoDoubleMount, NEW s \in new,
                NEW x \in Ids, NEW r \in master.objects[x].replicas, r.node = s.node
         PROVE  r.offset + r.len <= s.offset
    <2>1. PICK i \in picked :
            s = [seg |-> i, node |-> segs[i].node, offset |-> segs[i].next, len |-> len]
      BY <1>7
    <2>2. PICK j \in DOMAIN segs : segs[j].node = r.node /\ r.offset + r.len <= segs[j].next
      BY <1>10 DEF PlacementInv, ChunksBelowPointer, segs
    <2>3. i = j
      BY <1>3, <1>10, <2>1, <2>2 DEF NoDoubleMount, segs
    <2> QED
      BY <2>1, <2>2, <2>3
  <1>11. ASSUME NoDoubleMount, NEW s \in new, NEW r \in new, r.node = s.node
         PROVE  r = s
    <2>1. PICK i \in picked :
            s = [seg |-> i, node |-> segs[i].node, offset |-> segs[i].next, len |-> len]
      BY <1>7
    <2>2. PICK j \in picked :
            r = [seg |-> j, node |-> segs[j].node, offset |-> segs[j].next, len |-> len]
      BY <1>7
    <2>3. i = j
      BY <1>3, <1>11, <2>1, <2>2 DEF NoDoubleMount, segs
    <2> QED
      BY <2>1, <2>2, <2>3
  <1>12. \A s \in new : s.offset \in Nat /\ s.len \in Nat
    BY <1>3, <1>5, <1>7
  <1>13. ChunksDisjoint'
    <2> SUFFICES ASSUME NoDoubleMount, NEW a \in Ids, NEW b \in Ids,
                        NEW r \in master'.objects[a].replicas,
                        NEW s \in master'.objects[b].replicas,
                        Overlap(r, s)
                 PROVE  a = b /\ r = s
      BY <1>6 DEF ChunksDisjoint
    <2>1. CASE a # id /\ b # id
      BY <1>2, <2>1 DEF PlacementInv, ChunksDisjoint
    <2>2. CASE a = id /\ b = id
      BY <1>2, <1>11, <2>2 DEF Overlap
    <2>3. CASE a = id /\ b # id
      <3>1. s.offset + s.len <= r.offset
        BY <1>2, <1>10, <2>3 DEF Overlap
      <3> QED
        BY <1>2, <1>8, <1>12, <2>3, <3>1 DEF Overlap
    <2>4. CASE a # id /\ b = id
      <3>1. r.offset + r.len <= s.offset
        BY <1>2, <1>10, <2>4 DEF Overlap
      <3> QED
        BY <1>2, <1>8, <1>12, <2>4, <3>1 DEF Overlap
    <2> QED
      BY <2>1, <2>2, <2>3, <2>4
  <1> QED
    BY <1>9, <1>13 DEF PlacementInv

\* No two chunks of a node's arena overlap while every node is mounted once, for
\* any number of segments, objects and replicas and any interleaving of calls.
THEOREM PlacementSafe == Spec => [](ChunksBelowPointer /\ ChunksDisjoint)
  <1>1. Init => PlacementInv
    BY DEF Init, PlacementInv, ChunksBelowPointer, ChunksDisjoint, NewMaster, NoObject
  <1>2. TypeOK /\ PlacementInv /\ [Next]_vars => PlacementInv'
    <2> SUFFICES ASSUME TypeOK, PlacementInv, [Next]_vars
                 PROVE  PlacementInv'
      OBVIOUS
    <2>0. master \in MasterStates
      BY DEF TypeOK
    <2>1. CASE \E node \in Nodes, len \in SegmentLens : MountSegmentCall(node, len)
      BY <2>1, MountKeepsPlacement, InputAssumption DEF MountSegmentCall
    <2>2. CASE \E t \in Tenants, dram \in QuotaLimits : SetTenantQuotaCall(t, dram)
      BY <2>0, <2>2, SetTenantQuotaFrame, DroppingKeepsPlacement DEF SetTenantQuotaCall
    <2>3. CASE \E id \in Ids, len \in ObjectLens, n \in ReplicaCounts : PutStartCall(id, len, n)
      <3>1. PICK id \in Ids, len \in U64, n \in Nat : master' = PutStart(master, id, len, n)
        BY <2>3, InputAssumption DEF PutStartCall
      <3>2. CASE PutStartOk(master, id, len, n)
        BY <3>1, <3>2, PutStartKeepsPlacement
      <3>3. CASE ~PutStartOk(master, id, len, n)
        BY <2>0, <3>1, <3>3, PutStartFailed, DroppingKeepsPlacement
      <3> QED
        BY <3>2, <3>3
    <2>4. CASE \E id \in Ids : PutEndCall(id)
      <3>1. PICK id \in Ids : master' = PutEnd(master, id)
        BY <2>4 DEF PutEndCall
      <3>2. /\ master'.segments = master.segments
            /\ master'.objects \in {master.objects, [master.objects EXCEPT ![id].status = "Committed"]}
        BY <2>0, <3>1, PutEndFrame
      <3>3. \A x \in Ids : master'.objects[x].replicas \subseteq master.objects[x].replicas
        BY <2>0, <3>2 DEF MasterStates, ObjectMeta
      <3> QED
        BY <3>2, <3>3, DroppingKeepsPlacement
    <2>5. CASE \E id \in Ids : PutRevokeCall(id)
      <3>1. PICK id \in Ids : master' = PutRevoke(master, id)
        BY <2>5 DEF PutRevokeCall
      <3>2. /\ master'.segments = master.segments
            /\ master'.objects \in {master.objects, [master.objects EXCEPT ![id].status = "Revoked"]}
        BY <2>0, <3>1, PutRevokeFrame
      <3>3. \A x \in Ids : master'.objects[x].replicas \subseteq master.objects[x].replicas
        BY <2>0, <3>2 DEF MasterStates, ObjectMeta
      <3> QED
        BY <3>2, <3>3, DroppingKeepsPlacement
    <2>6. CASE \E id \in Ids : GetReplicaListCall(id)
      <3>1. PICK id \in Ids : master' = GetReplicaList(master, id, now)
        BY <2>6 DEF GetReplicaListCall
      <3>2. master'.segments = master.segments /\ master'.objects = master.objects
        BY <2>0, <3>1, GetReplicaListFrame
      <3> QED
        BY <3>2, DroppingKeepsPlacement
    <2>7. CASE \E id \in Ids : RemoveCall(id)
      <3>1. PICK id \in Ids : master' = Remove(master, id)
        BY <2>7 DEF RemoveCall
      <3>2. /\ master'.segments = master.segments
            /\ master'.objects \in {master.objects, [master.objects EXCEPT ![id] = NoObject]}
        BY <2>0, <3>1, RemoveFrame
      <3>3. \A x \in Ids : master'.objects[x].replicas \subseteq master.objects[x].replicas
        BY <2>0, <3>2 DEF MasterStates, ObjectMeta, NoObject
      <3> QED
        BY <3>2, <3>3, DroppingKeepsPlacement
    <2>8. CASE \E t \in Tenants, target \in ReclaimTargets : EvictForTenantCall(t, target)
      <3>1. PICK t \in Tenants, target \in ReclaimTargets : master' \in EvictForTenant(master, t, target, now)
        BY <2>8 DEF EvictForTenantCall
      <3>2. PICK E : EvictedFrom(master, master', E)
        BY <2>0, <3>1, EvictForTenantFrame
      <3>3. \A x \in Ids : master'.objects[x].replicas \subseteq master.objects[x].replicas
        BY <2>0, <3>2 DEF EvictedFrom, MasterStates, ObjectMeta
      <3>4. master'.segments = master.segments
        BY <2>0, <3>1, EvictForTenantFrame
      <3> QED
        BY <3>3, <3>4, DroppingKeepsPlacement
    <2>9. CASE \E id \in Ids, hard \in BOOLEAN, until \in PinTimes : PinCall(id, hard, until)
      <3>1. /\ master'.segments = master.segments
            /\ \A x \in Ids : master'.objects[x].replicas \subseteq master.objects[x].replicas
        BY <2>0, <2>9 DEF PinCall, MasterStates, ObjectMeta
      <3> QED
        BY <3>1, DroppingKeepsPlacement
    <2>10. CASE Tick
      BY <2>10, DroppingKeepsPlacement DEF Tick
    <2>11. CASE UNCHANGED vars
      BY <2>11, DroppingKeepsPlacement DEF vars
    <2> QED
      BY <2>1, <2>2, <2>3, <2>4, <2>5, <2>6, <2>7, <2>8, <2>9, <2>10, <2>11 DEF Next
  <1> QED
    BY <1>1, <1>2, TypeCorrect, PTL DEF Spec, PlacementInv

-----------------------------------------------------------------------------
(* The life of an object. *)

\* What may become of an object in one step, short of its removal.
Continues(old, new) ==
  old.status # "Absent" /\ new.status # "Absent" =>
    /\ new.replicas = old.replicas
    /\ new.len = old.len
    /\ new.status = "Reserving" => old.status = "Reserving"
    /\ new.status = "Committed" => old.status \in {"Reserving", "Writing", "Committed"}

\* No call rewrites an object: its length and placement stay until it is removed,
\* and it is committed only by the put_end of its own reservation.
THEOREM ObjectsImmutable == Spec => CommittedImmutable
  <1>1. TypeOK /\ [Next]_vars => \A id \in Ids : Continues(master.objects[id], master'.objects[id])
    <2> SUFFICES ASSUME TypeOK, [Next]_vars, NEW x \in Ids
                 PROVE  Continues(master.objects[x], master'.objects[x])
      OBVIOUS
    <2>0. /\ master \in MasterStates
          /\ master.objects \in [Ids -> ObjectMeta]
          /\ master.objects[x] \in ObjectMeta
      BY DEF TypeOK, MasterStates
    <2>a. ASSUME master'.objects[x] = master.objects[x]
          PROVE  Continues(master.objects[x], master'.objects[x])
      BY <2>a DEF Continues
    <2>1. CASE \E node \in Nodes, len \in SegmentLens : MountSegmentCall(node, len)
      <3>1. PICK node \in Nodes, len \in U64 : master' = MountSegment(master, node, len)
        BY <2>1, InputAssumption DEF MountSegmentCall
      <3>2. MountSegment(master, node, len).objects = master.objects
        BY <2>0, MountSegmentFrame, ZenonT(30)
      <3> QED
        BY <2>a, <3>1, <3>2
    <2>2. CASE \E t \in Tenants, dram \in QuotaLimits : SetTenantQuotaCall(t, dram)
      BY <2>0, <2>a, <2>2, SetTenantQuotaFrame DEF SetTenantQuotaCall
    <2>3. CASE \E id \in Ids, len \in ObjectLens, n \in ReplicaCounts : PutStartCall(id, len, n)
      <3>1. PICK id \in Ids, len \in U64, n \in Nat : master' = PutStart(master, id, len, n)
        BY <2>3, InputAssumption DEF PutStartCall
      <3>2. CASE PutStartOk(master, id, len, n)
        <4>1. master'.objects = [master.objects EXCEPT ![id] = Reservation(master, len, n)]
          BY <2>0, <3>1, <3>2, PutStartSucceeded
        <4>2. master.objects[id].status = "Absent"
          BY <3>2 DEF PutStartOk
        <4>3. x # id => master'.objects[x] = master.objects[x]
          BY <2>0, <4>1
        <4> QED
          BY <2>a, <4>2, <4>3 DEF Continues
      <3>3. CASE ~PutStartOk(master, id, len, n)
        BY <2>0, <2>a, <3>1, <3>3, PutStartFailed
      <3> QED
        BY <3>2, <3>3
    <2>4. CASE \E id \in Ids : PutEndCall(id)
      <3>1. PICK id \in Ids : master' = PutEnd(master, id)
        BY <2>4 DEF PutEndCall
      <3>2. CASE PutEndOk(master, id)
        <4>1. master'.objects = [master.objects EXCEPT ![id].status = "Committed"]
          BY <2>0, <3>1, <3>2, PutEndFrame
        <4> QED
          BY <2>0, <3>2, <4>1 DEF Continues, PutEndOk, ObjectMeta
      <3>3. CASE ~PutEndOk(master, id)
        BY <2>0, <2>a, <3>1, <3>3, PutEndFrame
      <3> QED
        BY <3>2, <3>3
    <2>5. CASE \E id \in Ids : PutRevokeCall(id)
      <3>1. PICK id \in Ids : master' = PutRevoke(master, id)
        BY <2>5 DEF PutRevokeCall
      <3>2. master'.objects \in {master.objects, [master.objects EXCEPT ![id].status = "Revoked"]}
        BY <2>0, <3>1, PutRevokeFrame
      <3> QED
        BY <2>0, <3>2 DEF Continues, ObjectMeta
    <2>6. CASE \E id \in Ids : GetReplicaListCall(id)
      <3>1. PICK id \in Ids : master' = GetReplicaList(master, id, now)
        BY <2>6 DEF GetReplicaListCall
      <3>2. master'.objects = master.objects
        BY <2>0, <3>1, GetReplicaListFrame
      <3> QED
        BY <2>a, <3>2
    <2>7. CASE \E id \in Ids : RemoveCall(id)
      <3>1. PICK id \in Ids : master' = Remove(master, id)
        BY <2>7 DEF RemoveCall
      <3>2. master'.objects \in {master.objects, [master.objects EXCEPT ![id] = NoObject]}
        BY <2>0, <3>1, RemoveFrame
      <3> QED
        BY <2>0, <3>2 DEF Continues, NoObject
    <2>8. CASE \E t \in Tenants, target \in ReclaimTargets : EvictForTenantCall(t, target)
      <3>1. PICK t \in Tenants, target \in ReclaimTargets : master' \in EvictForTenant(master, t, target, now)
        BY <2>8 DEF EvictForTenantCall
      <3>2. PICK E : EvictedFrom(master, master', E)
        BY <2>0, <3>1, EvictForTenantFrame
      <3> QED
        BY <2>0, <3>2 DEF EvictedFrom, Continues, ObjectMeta
    <2>9. CASE \E id \in Ids, hard \in BOOLEAN, until \in PinTimes : PinCall(id, hard, until)
      BY <2>0, <2>9 DEF PinCall, Continues, MasterStates, ObjectMeta
    <2>10. CASE Tick
      BY <2>a, <2>10 DEF Tick
    <2>11. CASE UNCHANGED vars
      BY <2>a, <2>11 DEF vars
    <2> QED
      BY <2>1, <2>2, <2>3, <2>4, <2>5, <2>6, <2>7, <2>8, <2>9, <2>10, <2>11 DEF Next
  <1>2. TypeOK /\ [Next]_vars =>
          [\A id \in Ids :
             LET old == master.objects[id]
                 new == master'.objects[id]
             IN  old.status # "Absent" /\ new.status # "Absent" =>
                   /\ new.replicas = old.replicas
                   /\ new.len = old.len
                   /\ new.status = "Reserving" => old.status = "Reserving"
                   /\ new.status = "Committed" =>
                        old.status \in {"Reserving", "Writing", "Committed"}]_vars
    BY <1>1 DEF Continues
  <1> QED
    BY <1>2, TypeCorrect, PTL DEF Spec, CommittedImmutable

-----------------------------------------------------------------------------
(* Quotas. Used bytes equal the reserved bytes only as long as no sum ever *)
(* saturates. What keeps the sums small is the allocator: bytes of objects *)
(* that are reserved, and one byte for each object ever evicted, are bytes *)
(* below the bump pointers, which are never taken back.                    *)

Filled(segs) == [i \in DOMAIN segs |-> segs[i].next]
BytesPlaced(segs) == SumFunctionOnSet(Filled(segs), DOMAIN segs)

LiveHaveBytes(ms) ==
  \A id \in Ids : ms.objects[id].status \in {"Reserving", "Writing", "Committed"} => ms.objects[id].len >= 1

SegmentsFit(ms) ==
  /\ Len(ms.segments) <= MaxSegments
  /\ \A i \in DOMAIN ms.segments : /\ ms.segments[i].len \in SegmentLens
                                   /\ ms.segments[i].next <= ms.segments[i].len

Backed(ms) ==
  ms.evictions + SumFunctionOnSet(Reserved(ms.objects), Ids) <= BytesPlaced(ms.segments)

Accounted(ms) ==
  /\ UsedExact(ms)
  /\ LiveHaveBytes(ms)
  /\ SegmentsFit(ms)
  /\ Backed(ms)

\* The bump pointers are numbers, of finitely many segments.
LEMMA FilledType ==
  ASSUME NEW segs \in Seq(Segment)
  PROVE  /\ DOMAIN segs = 1..Len(segs)
         /\ IsFiniteSet(DOMAIN segs)
         /\ Cardinality(DOMAIN segs) = Len(segs)
         /\ NatOn(Filled(segs), DOMAIN segs)
         /\ BytesPlaced(segs) \in Nat
<1>1. DOMAIN segs = 1..Len(segs) /\ Len(segs) \in Nat
  OBVIOUS
<1>2. IsFiniteSet(DOMAIN segs) /\ Cardinality(DOMAIN segs) = Len(segs)
  BY <1>1, FS_Interval, SMTT(20)
<1>3. \A i \in DOMAIN segs : segs[i].next \in Nat
  <2> TAKE i \in DOMAIN segs
  <2>1. segs[i] \in Segment
    OBVIOUS
  <2> QED
    BY <2>1, U64MaxAssumption DEF Segment, U64
<1>4. NatOn(Filled(segs), DOMAIN segs)
  BY <1>3 DEF NatOn, Filled
<1>5. BytesPlaced(segs) \in Nat
  BY <1>2, <1>4, SumType DEF BytesPlaced
<1> QED
  BY <1>1, <1>2, <1>4, <1>5

\* What the segments hold together is a u64.
LEMMA CapacityBound ==
  ASSUME NEW ms \in MasterStates, SegmentsFit(ms)
  PROVE  BytesPlaced(ms.segments) <= U64Max
<1> DEFINE segs == ms.segments
           D == DOMAIN segs
           f == Filled(segs)
<1>0. segs \in Seq(Segment)
  BY DEF MasterStates
<1>1. /\ IsFiniteSet(D) /\ Cardinality(D) = Len(segs) /\ Len(segs) \in Nat
      /\ NatOn(f, D)
  BY <1>0, FilledType
<1>2. CASE D = {}
  BY <1>2, SumEmpty, U64MaxAssumption DEF BytesPlaced
<1>3. CASE D # {}
  <2>1. \A i \in D : segs[i].len \in Nat /\ segs[i].len <= U64Max /\ segs[i].next \in Nat
    <3> TAKE i \in D
    <3>1. segs[i] \in Segment
      BY <1>0
    <3> QED
      BY <3>1, U64MaxAssumption DEF Segment, U64
  <2> DEFINE B == {U64Max - segs[i].len : i \in D}
  <2>2. B \subseteq Nat /\ B # {}
    <3>1. \A i \in D : U64Max - segs[i].len \in Nat
      BY <2>1, U64MaxAssumption
    <3> HIDE DEF segs, D
    <3> QED
      BY <1>3, <3>1
  <2>3. PICK b \in B : \A m \in B : b <= m
    <3> HIDE DEF B
    <3> QED
      BY <2>2, MinimalNat
  <2>4. PICK j \in D : b = U64Max - segs[j].len
    OBVIOUS
  <2> DEFINE q == segs[j].len
  <2>5. ASSUME NEW i \in D
        PROVE  segs[i].len <= q
    <3>1. b <= U64Max - segs[i].len
      BY <2>3
    <3>2. segs[i].len \in Nat /\ q \in Nat
      BY <2>1
    <3> HIDE DEF segs, D, B
    <3> QED
      BY <2>4, <3>1, <3>2, U64MaxAssumption
  <2>6. UpTo(f, D, q) /\ q \in Nat
    BY <2>1, <2>5 DEF UpTo, Filled, SegmentsFit
  <2>7. MaxSegments * q <= U64Max
    BY <2>4, CapacityAssumption DEF SegmentsFit
  <2> HIDE DEF q, B, f, D
  <2>8. SumFunctionOnSet(f, D) <= Cardinality(D) * q
    BY <1>1, <2>6, SumBounded
  <2>9. Len(segs) <= MaxSegments /\ MaxSegments \in Nat
    BY InputAssumption DEF SegmentsFit
  <2>10. Len(segs) * q <= MaxSegments * q
    <3> DEFINE n == Len(segs)
    <3>1. n \in Nat /\ n <= MaxSegments
      BY <1>1, <2>9
    <3> HIDE DEF n
    <3>2. n * q <= MaxSegments * q
      BY <2>6, <2>9, <3>1
    <3> QED
      BY <3>2 DEF n
  <2>11. SumFunctionOnSet(f, D) \in Nat
    BY <1>1, SumType
  <2>12. Len(segs) * q \in Nat /\ MaxSegments * q \in Nat
    BY <1>1, <2>6, <2>9
  <2> QED
    BY <1>1, <2>7, <2>8, <2>10, <2>11, <2>12, U64MaxAssumption DEF BytesPlaced, f, D
<1> QED
  BY <1>2, <1>3

\* An object that is placed moves at least one bump pointer by its length.
LEMMA PlacingFills ==
  ASSUME NEW ms \in MasterStates, NEW len \in U64, NEW n \in Nat, CanAllocate(ms.segments, len, n)
  PROVE  /\ BytesPlaced(ms.segments) + len <= BytesPlaced(AdvanceSegments(ms.segments, len, n))
         /\ BytesPlaced(AdvanceSegments(ms.segments, len, n)) \in Nat
<1> DEFINE segs == ms.segments
           picked == Picked(segs, len, n)
           D == DOMAIN segs
           f == Filled(segs)
           h == Filled(AdvanceSegments(segs, len, n))
<1>0. segs \in Seq(Segment)
  BY DEF MasterStates
<1>1. PICK i : i \in picked
  <2>1. Cardinality(picked) # 0
    BY DEF CanAllocate
  <2>2. picked # {}
    BY <2>1, FS_EmptySet
  <2> QED
    BY <2>2
<1>2. i \in D /\ len \in Nat
  BY <1>1, U64MaxAssumption DEF Picked, U64
<1>3. IsFiniteSet(D) /\ NatOn(f, D) /\ BytesPlaced(segs) = SumFunctionOnSet(f, D)
  BY <1>0, FilledType DEF BytesPlaced
<1>4. \A j \in D : segs[j] \in Segment
  BY <1>0
<1>5. DOMAIN AdvanceSegments(segs, len, n) = D
  BY DEF AdvanceSegments
<1>6. \A j \in D : h[j] = IF j \in picked THEN f[j] + len ELSE f[j]
  BY <1>4 DEF AdvanceSegments, Filled, Segment
<1>7. BytesPlaced(AdvanceSegments(segs, len, n)) = SumFunctionOnSet(h, D)
  BY <1>5 DEF BytesPlaced
<1> HIDE DEF f, h, D, picked
<1>8. NatOn(h, D) /\ BelowOn(f, h, D) /\ f[i] + len <= h[i]
  BY <1>1, <1>2, <1>3, <1>6 DEF NatOn, BelowOn
<1>9. SumFunctionOnSet(f, D) + len <= SumFunctionOnSet(h, D)
  BY <1>2, <1>3, <1>8, SumGrows
<1>10. SumFunctionOnSet(h, D) \in Nat
  BY <1>3, <1>8, SumType
<1> QED
  BY <1>3, <1>7, <1>9, <1>10

\* A segment that is mounted is empty.
LEMMA MountingFillsNothing ==
  ASSUME NEW ms \in MasterStates, NEW s \in Segment, s.next = 0
  PROVE  BytesPlaced(Append(ms.segments, s)) = BytesPlaced(ms.segments)
<1> DEFINE segs == ms.segments
           all == Append(segs, s)
           n == Len(segs) + 1
           f == Filled(segs)
           g == Filled(all)
           D == DOMAIN segs
           E == DOMAIN all
<1>0. segs \in Seq(Segment)
  BY DEF MasterStates
<1>1. /\ all \in Seq(Segment) /\ E = 1..n /\ D = 1..Len(segs) /\ Len(segs) \in Nat
      /\ all[n] = s /\ \A i \in D : all[i] = segs[i]
  BY <1>0
<1>2. E \ {n} = D /\ n \in E
  BY <1>1
<1>3. SameOn(f, g, D) /\ g[n] = 0
  BY <1>1, <1>2 DEF SameOn, Filled
<1>4. IsFiniteSet(D) /\ IsFiniteSet(E) /\ NatOn(g, E) /\ NatOn(f, D)
  BY <1>0, <1>1, FilledType
<1> HIDE DEF f, g, D, E, n, all
<1>5. SumFunctionOnSet(g, E) = g[n] + SumFunctionOnSet(g, E \ {n})
  BY <1>2, <1>4, SumRemove
<1>6. SumFunctionOnSet(f, D) = SumFunctionOnSet(g, D)
  BY <1>3, <1>4, SumSame
<1>7. SumFunctionOnSet(f, D) \in Nat
  BY <1>4, SumType
<1>8. SumFunctionOnSet(g, E \ {n}) = SumFunctionOnSet(g, D)
  BY <1>2, Zenon
<1>9. SumFunctionOnSet(g, E) = SumFunctionOnSet(f, D)
  BY <1>3, <1>5, <1>6, <1>7, <1>8
<1> QED
  BY <1>9, Zenon DEF BytesPlaced, f, g, D, E, all

\* So no total saturates, and neither does the counter of evictions.
LEMMA Unsaturated ==
  ASSUME NEW ms \in MasterStates, Accounted(ms)
  PROVE  /\ ms.evictions \in Nat
         /\ SumFunctionOnSet(Reserved(ms.objects), Ids) \in Nat
         /\ ms.evictions + SumFunctionOnSet(Reserved(ms.objects), Ids) <= U64Max
         /\ \A t \in Tenants : SumFunctionOnSet(Reserved(ms.objects), TenantIds(t)) <= U64Max
<1>1. ms.evictions \in Nat /\ ms.segments \in Seq(Segment)
  BY U64MaxAssumption DEF MasterStates, U64
<1>2. BytesPlaced(ms.segments) <= U64Max
  BY CapacityBound DEF Accounted
<1>3. BytesPlaced(ms.segments) \in Nat
  BY <1>1, FilledType
<1>4. SumFunctionOnSet(Reserved(ms.objects), Ids) \in Nat
  BY ReservedSums
<1>5. ms.evictions + SumFunctionOnSet(Reserved(ms.objects), Ids) <= U64Max
  BY <1>1, <1>2, <1>3, <1>4, U64MaxAssumption DEF Accounted, Backed
<1>6. ASSUME NEW t \in Tenants
      PROVE  SumFunctionOnSet(Reserved(ms.objects), TenantIds(t)) <= U64Max
  <2>1. TenantIds(t) \in SUBSET Ids
    BY IdsFinite
  <2>2. /\ SumFunctionOnSet(Reserved(ms.objects), TenantIds(t)) \in Nat
        /\ SumFunctionOnSet(Reserved(ms.objects), TenantIds(t)) <= SumFunctionOnSet(Reserved(ms.objects), Ids)
    BY <2>1, ReservedSums
  <2> QED
    BY <1>1, <1>4, <1>5, <2>2, U64MaxAssumption
<1> QED
  BY <1>1, <1>4, <1>5, <1>6

\* A call that places and evicts nothing, and lets one object at most reserve less.
LEMMA ShrinkingKeepsAccounts ==
  ASSUME NEW ms \in MasterStates, NEW new \in MasterStates, NEW id \in Ids,
         Accounted(ms), UsedExact(new), SameOn(new.objects, ms.objects, Ids \ {id}),
         new.segments = ms.segments, new.evictions = ms.evictions,
         ReservedBytes(new.objects[id]) <= ReservedBytes(ms.objects[id]),
         new.objects[id].status \in {"Reserving", "Writing", "Committed"} => new.objects[id].len >= 1
  PROVE  Accounted(new)
<1> DEFINE before == SumFunctionOnSet(Reserved(ms.objects), Ids)
           after == SumFunctionOnSet(Reserved(new.objects), Ids)
<1>1. after = (before - ReservedBytes(ms.objects[id])) + ReservedBytes(new.objects[id])
  BY OneObjectSum
<1>2. before \in Nat /\ after \in Nat
  BY ReservedSums
<1>3. ReservedBytes(ms.objects[id]) \in Nat /\ ReservedBytes(new.objects[id]) \in Nat
  BY ReservedBytesType, U64MaxAssumption DEF MasterStates, U64
<1>4. ms.evictions \in Nat /\ BytesPlaced(ms.segments) \in Nat
  BY FilledType, U64MaxAssumption DEF MasterStates, U64
<1> HIDE DEF before, after
<1>5. after <= before
  BY <1>1, <1>2, <1>3
<1>6. Backed(new)
  BY <1>2, <1>4, <1>5 DEF Accounted, Backed, before, after
<1>7. LiveHaveBytes(new)
  BY DEF Accounted, LiveHaveBytes, SameOn
<1>8. SegmentsFit(new)
  BY DEF Accounted, SegmentsFit
<1> QED
  BY <1>6, <1>7, <1>8 DEF Accounted

\* mount_segment adds an empty segment.
LEMMA MountKeepsAccounts ==
  ASSUME NEW ms \in MasterStates, Accounted(ms), NEW node \in Nodes, NEW len \in SegmentLens,
         Len(ms.segments) < MaxSegments
  PROVE  Accounted(MountSegment(ms, node, len))
<1> DEFINE new == MountSegment(ms, node, len)
           s == [node |-> node, len |-> len, next |-> 0]
<1>1. len \in U64
  BY InputAssumption
<1>2. s \in Segment /\ s.next = 0 /\ s.len = len
  BY <1>1, U64MaxAssumption DEF Segment, U64
<1>3. new.objects = ms.objects /\ new.segments = Append(ms.segments, s)
  BY MountSegmentFrame
<1>4. new.evictions = ms.evictions
  BY DEF MountSegment, MasterStates
<1>5. UsedExact(new)
  BY <1>1, ExactMountSegment DEF Accounted
<1>6. BytesPlaced(Append(ms.segments, s)) = BytesPlaced(ms.segments)
  BY <1>2, MountingFillsNothing
<1> HIDE DEF new, s
<1>7. Backed(new)
  BY <1>3, <1>4, <1>6 DEF Backed, Accounted
<1>8. SegmentsFit(new)
  <2>1. ms.segments \in Seq(Segment)
    BY DEF MasterStates
  <2>2. /\ Len(new.segments) = Len(ms.segments) + 1
        /\ \A i \in DOMAIN new.segments : i # Len(ms.segments) + 1 =>
             i \in DOMAIN ms.segments /\ new.segments[i] = ms.segments[i]
        /\ new.segments[Len(ms.segments) + 1] = s
    BY <1>2, <1>3, <2>1
  <2>3. len \in Nat
    BY <1>1, U64MaxAssumption DEF U64
  <2> QED
    BY <1>2, <2>1, <2>2, <2>3, InputAssumption, SMTT(20) DEF SegmentsFit, Accounted
<1>9. LiveHaveBytes(new)
  BY <1>3 DEF LiveHaveBytes, Accounted
<1> QED
  BY <1>5, <1>7, <1>8, <1>9 DEF Accounted, new

\* put_start reserves no more than it places.
LEMMA PutStartKeepsAccounts ==
  ASSUME NEW ms \in MasterStates, Accounted(ms), NEW id \in Ids, NEW len \in U64, NEW n \in Nat
  PROVE  Accounted(PutStart(ms, id, len, n))
<1> DEFINE new == PutStart(ms, id, len, n)
<1>1. new \in MasterStates /\ UsedExact(new)
  BY PutStartType, ExactPutStart DEF Accounted
<1>2. SameOn(new.objects, ms.objects, Ids \ {id}) /\ new.evictions = ms.evictions
  BY PutStartUsed DEF OnlyTouches
<1>3. CASE ~PutStartOk(ms, id, len, n)
  <2>1. new.objects = ms.objects /\ new.segments = ms.segments
    BY <1>3, PutStartFailed
  <2> HIDE DEF new
  <2>2. ReservedBytes(ms.objects[id]) \in Nat
    BY ReservedBytesType, U64MaxAssumption DEF MasterStates, U64
  <2>3. new.objects[id].status \in {"Reserving", "Writing", "Committed"} => new.objects[id].len >= 1
    BY <2>1 DEF Accounted, LiveHaveBytes
  <2>4. ReservedBytes(new.objects[id]) <= ReservedBytes(ms.objects[id])
    BY <2>1, <2>2
  <2>5. Accounted(new)
    BY <1>1, <1>2, <2>1, <2>3, <2>4, ShrinkingKeepsAccounts
  <2> QED
    BY <2>5 DEF new
<1>4. CASE PutStartOk(ms, id, len, n)
  <2>1. /\ new.objects = [ms.objects EXCEPT ![id] = Reservation(ms, len, n)]
        /\ new.segments = AdvanceSegments(ms.segments, len, n)
    BY <1>4, PutStartSucceeded
  <2>2. CanAllocate(ms.segments, len, n) /\ ms.objects[id].status = "Absent"
    BY <1>4 DEF PutStartOk
  <2>3. len \in Nat /\ len >= 1
    BY <2>2, U64MaxAssumption DEF CanAllocate, U64
  <2>4. BytesPlaced(ms.segments) + len <= BytesPlaced(new.segments) /\ BytesPlaced(new.segments) \in Nat
    BY <2>1, <2>2, PlacingFills
  <2> HIDE DEF new
  <2>5. new.objects[id] = Reservation(ms, len, n)
    BY <2>1 DEF MasterStates
  <2>6. ReservedBytes(new.objects[id]) = len /\ ReservedBytes(ms.objects[id]) = 0
    BY <2>2, <2>5 DEF ReservedBytes, Reservation
  <2> DEFINE before == SumFunctionOnSet(Reserved(ms.objects), Ids)
             after == SumFunctionOnSet(Reserved(new.objects), Ids)
  <2>7. after = (before - ReservedBytes(ms.objects[id])) + ReservedBytes(new.objects[id])
    BY <1>1, <1>2, OneObjectSum
  <2>8. before \in Nat /\ ms.evictions \in Nat /\ BytesPlaced(ms.segments) \in Nat
    <3>1. before \in Nat
      BY ReservedSums
    <3> QED
      BY <3>1, FilledType, U64MaxAssumption DEF MasterStates, U64
  <2> HIDE DEF before, after
  <2>9. Backed(new)
    BY <1>2, <2>3, <2>4, <2>6, <2>7, <2>8 DEF Backed, Accounted, before, after
  <2>10. LiveHaveBytes(new)
    BY <1>2, <2>3, <2>5 DEF LiveHaveBytes, Accounted, SameOn, Reservation
  <2>11. SegmentsFit(new)
    <3>1. ms.segments \in Seq(Segment) /\ new.segments \in Seq(Segment)
      BY <1>1 DEF MasterStates
    <3>2. DOMAIN new.segments = DOMAIN ms.segments
      BY <2>1 DEF AdvanceSegments
    <3>3. Len(new.segments) = Len(ms.segments)
      BY <3>1, <3>2
    <3>4. ASSUME NEW i \in DOMAIN ms.segments
          PROVE  new.segments[i].len \in SegmentLens /\ new.segments[i].next <= new.segments[i].len
      <4>1. /\ ms.segments[i] \in Segment /\ ms.segments[i].len \in SegmentLens
            /\ ms.segments[i].next <= ms.segments[i].len
        BY <3>1 DEF Accounted, SegmentsFit
      <4>2. CASE i \in Picked(ms.segments, len, n)
        <5>1. new.segments[i] = [ms.segments[i] EXCEPT !.next = @ + len]
          BY <2>1, <4>2 DEF AdvanceSegments
        <5>2. ms.segments[i].next + len <= ms.segments[i].len
          BY <4>2 DEF Picked, CanFit
        <5> QED
          BY <4>1, <5>1, <5>2 DEF Segment
      <4>3. CASE i \notin Picked(ms.segments, len, n)
        BY <2>1, <4>1, <4>3 DEF AdvanceSegments
      <4> QED
        BY <4>2, <4>3
    <3> QED
      BY <3>2, <3>3, <3>4 DEF SegmentsFit, Accounted
  <2> QED
    BY <1>1, <2>9, <2>10, <2>11 DEF Accounted, new
<1> QED
  BY <1>3, <1>4

\* put_end leaves the reserved bytes as they are.
LEMMA PutEndKeepsAccounts ==
  ASSUME NEW ms \in MasterStates, Accounted(ms), NEW id \in Ids
  PROVE  Accounted(PutEnd(ms, id))
<1>1. CASE PutEndOk(ms, id)
  <2> DEFINE new == PutEnd(ms, id)
  <2>1. new \in MasterStates /\ UsedExact(new)
    BY PutEndType, ExactPutEnd DEF Accounted
  <2>2. /\ new.objects = [ms.objects EXCEPT ![id].status = "Committed"]
        /\ new.segments = ms.segments
    BY <1>1, PutEndFrame
  <2>3. new.evictions = ms.evictions
    BY <1>1 DEF PutEnd, MasterStates
  <2> HIDE DEF new
  <2>4. new.objects[id] = [ms.objects[id] EXCEPT !.status = "Committed"] /\ ms.objects[id] \in ObjectMeta
    BY <2>2 DEF MasterStates
  <2>5. SameOn(new.objects, ms.objects, Ids \ {id})
    BY <2>2 DEF SameOn, MasterStates
  <2>6. ms.objects[id].len >= 1 /\ new.objects[id].len = ms.objects[id].len
    BY <1>1, <2>4 DEF Accounted, LiveHaveBytes, PutEndOk, ObjectMeta
  <2>7. ReservedBytes(new.objects[id]) <= ReservedBytes(ms.objects[id])
    BY <1>1, <2>4, <2>6, U64MaxAssumption DEF ReservedBytes, PutEndOk, ObjectMeta, U64
  <2>8. Accounted(new)
    BY <2>1, <2>2, <2>3, <2>5, <2>6, <2>7, ShrinkingKeepsAccounts
  <2> QED
    BY <2>8 DEF new
<1>2. CASE ~PutEndOk(ms, id)
  BY <1>2 DEF PutEnd
<1> QED
  BY <1>1, <1>2

\* put_revoke takes the object's bytes off the account.
LEMMA PutRevokeKeepsAccounts ==
  ASSUME NEW ms \in MasterStates, Accounted(ms), NEW id \in Ids
  PROVE  Accounted(PutRevoke(ms, id))
<1>1. CASE PutRevokeOk(ms, id)
  <2> DEFINE new == PutRevoke(ms, id)
             o == [ms.objects[id] EXCEPT !.status = "Revoked"]
  <2>1. new \in MasterStates /\ UsedExact(new)
    BY PutRevokeType, ExactPutRevoke DEF Accounted
  <2>2. /\ new.objects = [ms.objects EXCEPT ![id].status = "Revoked"]
        /\ new.segments = ms.segments
    BY <1>1, PutRevokeFrame
  <2>3. o \in ObjectMeta /\ o.status = "Revoked"
    BY DEF MasterStates, ObjectMeta, Statuses
  <2>4. new = DropLease(ReleaseQuota([ms EXCEPT !.objects[id] = o], id[1], ReservedBytes(ms.objects[id])), id)
    BY <1>1 DEF PutRevoke
  <2>5. new.evictions = ms.evictions /\ OnlyTouches(ms, new, id) /\ new.objects[id] = o
    <3> HIDE DEF o
    <3> QED
      BY <2>3, <2>4, FreeUsed
  <2> HIDE DEF new
  <2>6. SameOn(new.objects, ms.objects, Ids \ {id})
    BY <2>5 DEF OnlyTouches
  <2>7. ReservedBytes(new.objects[id]) <= ReservedBytes(ms.objects[id])
    <3>1. ReservedBytes(ms.objects[id]) \in Nat
      BY ReservedBytesType, U64MaxAssumption DEF MasterStates, U64
    <3>2. ReservedBytes(new.objects[id]) = 0
      BY <2>3, <2>5 DEF ReservedBytes
    <3> QED
      BY <3>1, <3>2
  <2>8. Accounted(new)
    BY <2>1, <2>2, <2>3, <2>5, <2>6, <2>7, ShrinkingKeepsAccounts
  <2> QED
    BY <2>8 DEF new
<1>2. CASE ~PutRevokeOk(ms, id)
  BY <1>2 DEF PutRevoke
<1> QED
  BY <1>1, <1>2

\* remove takes the object's bytes off the account.
LEMMA RemoveKeepsAccounts ==
  ASSUME NEW ms \in MasterStates, Accounted(ms), NEW id \in Ids
  PROVE  Accounted(Remove(ms, id))
<1>1. CASE RemoveOk(ms, id)
  <2> DEFINE new == Remove(ms, id)
  <2>1. new \in MasterStates /\ UsedExact(new)
    BY RemoveType, ExactRemove DEF Accounted
  <2>2. new.segments = ms.segments
    BY RemoveFrame
  <2>3. NoObject \in ObjectMeta
    BY U64MaxAssumption DEF NoObject, ObjectMeta, Statuses, U64
  <2>4. new = DropLease(ReleaseQuota([ms EXCEPT !.objects[id] = NoObject],
                                     id[1], ReservedBytes(ms.objects[id])), id)
    BY <1>1 DEF Remove
  <2>5. new.evictions = ms.evictions /\ OnlyTouches(ms, new, id) /\ new.objects[id] = NoObject
    BY <2>3, <2>4, FreeUsed
  <2> HIDE DEF new
  <2>6. SameOn(new.objects, ms.objects, Ids \ {id})
    BY <2>5 DEF OnlyTouches
  <2>7. ReservedBytes(new.objects[id]) <= ReservedBytes(ms.objects[id])
    <3>1. ReservedBytes(ms.objects[id]) \in Nat
      BY ReservedBytesType, U64MaxAssumption DEF MasterStates, U64
    <3>2. ReservedBytes(new.objects[id]) = 0
      BY <2>5 DEF ReservedBytes, NoObject
    <3> QED
      BY <3>1, <3>2
  <2>8. new.objects[id].status \in {"Reserving", "Writing", "Committed"} => new.objects[id].len >= 1
    BY <2>5 DEF NoObject
  <2>9. Accounted(new)
    BY <2>1, <2>2, <2>5, <2>6, <2>7, <2>8, ShrinkingKeepsAccounts
  <2> QED
    BY <2>9 DEF new
<1>2. CASE ~RemoveOk(ms, id)
  BY <1>2 DEF Remove
<1> QED
  BY <1>1, <1>2

\* Calls that leave the objects, the segments and the counter alone.
LEMMA SameKeepsAccounts ==
  ASSUME NEW ms \in MasterStates, NEW new \in MasterStates, Accounted(ms), UsedExact(new),
         new.objects = ms.objects, new.segments = ms.segments, new.evictions = ms.evictions
  PROVE  Accounted(new)
BY DEF Accounted, LiveHaveBytes, SegmentsFit, Backed

\* A batch of committed objects: every victim had a byte or more, so that the
\* counter grows by no more than the reserved bytes shrink.
LEMMA EvictBatchKeepsAccounts ==
  ASSUME NEW ms \in MasterStates, Accounted(ms), NEW t \in Tenants, NEW E \in SUBSET TenantIds(t),
         \A id \in E : ms.objects[id].status = "Committed"
  PROVE  /\ Accounted(EvictBatch(ms, t, E))
         /\ EvictBatch(ms, t, E).evictions = ms.evictions + Cardinality(E)
<1> DEFINE new == EvictBatch(ms, t, E)
           f == Reserved(ms.objects)
           before == SumFunctionOnSet(f, Ids)
           taken == SumFunctionOnSet(f, E)
           after == SumFunctionOnSet(Reserved(new.objects), Ids)
<1>1. new \in MasterStates /\ UsedExact(new)
  BY EvictBatchType, ExactEvictBatch DEF Accounted
<1>2. E \in SUBSET Ids /\ IsFiniteSet(E)
  BY IdsFinite, FS_Subset
<1>3. after = before - taken
  BY <1>2, EvictBatchSums
<1>4. before \in Nat /\ taken \in Nat /\ taken <= before
  BY <1>2, ReservedSums
<1>5. Cardinality(E) <= taken
  <2>1. NatOn(f, E) /\ \A id \in E : f[id] = ReservedBytes(ms.objects[id])
    BY <1>2, ReservedType DEF NatOn
  <2>2. \A id \in E : f[id] >= 1
    BY <1>2, <2>1 DEF ReservedBytes, Accounted, LiveHaveBytes
  <2> HIDE DEF f
  <2> QED
    BY <1>2, <2>1, <2>2, SumAtLeast
<1>6. Cardinality(E) \in Nat
  BY <1>2, FS_CardinalityType
<1>7. ms.evictions \in Nat /\ ms.evictions + before <= U64Max
  BY Unsaturated
<1>8. new.evictions = SatAdd(ms.evictions, Cardinality(E))
  BY EvictBatchUsed
<1>9. /\ new.objects = [id \in Ids |-> IF id \in E THEN [ms.objects[id] EXCEPT !.status = "Evicted"]
                                                   ELSE ms.objects[id]]
      /\ new.leases = [id \in Ids |-> IF id \in E THEN 0 ELSE ms.leases[id]]
      /\ new.segments = ms.segments
  BY EvictBatchFrame
<1> HIDE DEF new, before, taken, after, f
<1>10. new.evictions = ms.evictions + Cardinality(E)
  BY <1>4, <1>5, <1>6, <1>7, <1>8, U64MaxAssumption DEF SatAdd, U64
<1>11. new.evictions + after <= ms.evictions + before
  BY <1>3, <1>4, <1>5, <1>6, <1>7, <1>10
<1>12. Backed(new)
  <2>1. BytesPlaced(ms.segments) \in Nat
    BY FilledType DEF MasterStates
  <2>2. ms.evictions + before <= BytesPlaced(ms.segments)
    BY DEF Accounted, Backed, before, f
  <2>3. after \in Nat /\ new.evictions \in Nat
    BY <1>3, <1>4, <1>6, <1>7, <1>10
  <2>4. new.evictions + after <= BytesPlaced(ms.segments)
    BY <1>4, <1>7, <1>11, <2>1, <2>2, <2>3
  <2> QED
    BY <1>9, <2>4 DEF Backed, after
<1>13. LiveHaveBytes(new)
  <2> SUFFICES ASSUME NEW id \in Ids, new.objects[id].status \in {"Reserving", "Writing", "Committed"}
               PROVE  new.objects[id].len >= 1
    BY DEF LiveHaveBytes
  <2>1. ms.objects[id] \in ObjectMeta
    BY DEF MasterStates
  <2>2. id \notin E
    BY <1>9, <2>1 DEF ObjectMeta
  <2> QED
    BY <1>9, <2>2 DEF Accounted, LiveHaveBytes
<1>14. SegmentsFit(new)
  BY <1>9 DEF Accounted, SegmentsFit
<1> QED
  BY <1>1, <1>10, <1>12, <1>13, <1>14 DEF Accounted, new

\* Both passes of evict_for_tenant, and how many objects they take together.
LEMMA EvictForTenantKeepsAccounts ==
  ASSUME NEW ms \in MasterStates, Accounted(ms), NEW t \in Tenants, NEW time,
         NEW N \in SUBSET NormalCandidates(ms, t, time), NEW S \in SUBSET SoftCandidates(ms, t, time)
  PROVE  /\ Accounted(EvictBatch(EvictBatch(ms, t, N), t, S))
         /\ EvictBatch(EvictBatch(ms, t, N), t, S).evictions = ms.evictions + Cardinality(N \cup S)
<1> DEFINE mid == EvictBatch(ms, t, N)
<1>1. /\ N \in SUBSET TenantIds(t) /\ S \in SUBSET TenantIds(t) /\ N \cap S = {}
      /\ \A id \in N \cup S : ms.objects[id].status = "Committed"
  BY DEF NormalCandidates, SoftCandidates, IsCandidate
<1>2. mid \in MasterStates
  BY EvictBatchType
<1>3. Accounted(mid) /\ mid.evictions = ms.evictions + Cardinality(N)
  BY <1>1, EvictBatchKeepsAccounts
<1>4. /\ mid.objects = [id \in Ids |-> IF id \in N THEN [ms.objects[id] EXCEPT !.status = "Evicted"]
                                                   ELSE ms.objects[id]]
      /\ mid.leases = [id \in Ids |-> IF id \in N THEN 0 ELSE ms.leases[id]]
      /\ mid.segments = ms.segments
  BY EvictBatchFrame
<1>5. \A id \in S : mid.objects[id].status = "Committed"
  BY <1>1, <1>4, IdsFinite
<1> HIDE DEF mid
<1>6. /\ Accounted(EvictBatch(mid, t, S))
      /\ EvictBatch(mid, t, S).evictions = mid.evictions + Cardinality(S)
  BY <1>1, <1>2, <1>3, <1>5, EvictBatchKeepsAccounts
<1>7. IsFiniteSet(N) /\ IsFiniteSet(S)
  BY <1>1, IdsFinite, FS_Subset
<1>8. /\ Cardinality(N) \in Nat /\ Cardinality(S) \in Nat
      /\ Cardinality(N \cup S) = Cardinality(N) + Cardinality(S)
  <2>1. Cardinality(N \cup S) = Cardinality(N) + Cardinality(S) - Cardinality(N \cap S)
    BY <1>7, FS_Union
  <2>2. Cardinality(N \cap S) = 0
    BY <1>1, FS_EmptySet
  <2>3. Cardinality(N) \in Nat /\ Cardinality(S) \in Nat
    BY <1>7, FS_CardinalityType
  <2> QED
    BY <2>1, <2>2, <2>3
<1>9. ms.evictions \in Nat
  BY U64MaxAssumption DEF MasterStates, U64
<1> QED
  BY <1>3, <1>6, <1>8, <1>9 DEF mid

AccountingInv == TypeOK /\ Accounted(master)

\* A pin is not a matter of bytes.
LEMMA PinKeepsAccounts ==
  ASSUME TypeOK, TypeOK', Accounted(master), NEW id \in Ids, NEW hard \in BOOLEAN, NEW until \in U64,
         PinCall(id, hard, until)
  PROVE  Accounted(master')
<1>1. /\ master \in MasterStates /\ master' \in MasterStates
      /\ master.objects[id] \in ObjectMeta
  BY DEF TypeOK, MasterStates
<1>2. /\ SameOn(master'.objects, master.objects, Ids \ {id})
      /\ master'.quotas = master.quotas
      /\ master'.segments = master.segments
      /\ master'.evictions = master.evictions
      /\ master'.objects[id].status = master.objects[id].status
      /\ master'.objects[id].len = master.objects[id].len
  BY <1>1 DEF PinCall, SameOn, MasterStates, ObjectMeta
<1>3. /\ ReservedBytes(master'.objects[id]) = ReservedBytes(master.objects[id])
      /\ ReservedBytes(master.objects[id]) \in Nat
  BY <1>1, <1>2, ReservedBytesType, U64MaxAssumption DEF ReservedBytes, U64
<1>4. OnlyTouches(master, master', id)
  BY <1>2 DEF OnlyTouches
<1>5. id[1] \in Tenants /\ master.quotas[id[1]].used \in Nat
  BY <1>1, IdType, U64MaxAssumption DEF MasterStates, Quota, U64
<1>6. master'.quotas[id[1]].used = (master.quotas[id[1]].used - ReservedBytes(master.objects[id]))
                                   + ReservedBytes(master'.objects[id])
  BY <1>2, <1>3, <1>5
<1>7. UsedExact(master')
  BY <1>1, <1>4, <1>6, OneObjectAccounting DEF Accounted
<1>8. ReservedBytes(master'.objects[id]) <= ReservedBytes(master.objects[id])
  BY <1>3
<1>9. master'.objects[id].status \in {"Reserving", "Writing", "Committed"} => master'.objects[id].len >= 1
  BY <1>2 DEF Accounted, LiveHaveBytes
<1> QED
  BY <1>1, <1>2, <1>7, <1>8, <1>9, ShrinkingKeepsAccounts

\* The invariant behind the quotas is inductive.
LEMMA AccountingInductive == Spec => []AccountingInv
<1>1. Init => Accounted(master)
  <2> SUFFICES ASSUME Init
               PROVE  Accounted(master)
    OBVIOUS
  <2>1. master = NewMaster /\ master \in MasterStates
    BY NewMasterType DEF Init
  <2>2. UsedExact(master) /\ LiveHaveBytes(master)
    BY <2>1 DEF NewMaster, UsedExact, LiveHaveBytes, NoQuota, NoObject
  <2>3. SegmentsFit(master)
    BY <2>1, InputAssumption DEF NewMaster, SegmentsFit
  <2>4. SumFunctionOnSet(Reserved(master.objects), Ids) = 0
    <3>1. ZeroOn(Reserved(master.objects), Ids)
      BY <2>1 DEF NewMaster, Reserved, ZeroOn, ReservedBytes, NoObject
    <3> QED
      BY <3>1, IdsFinite, SumZero
  <2>5. BytesPlaced(master.segments) \in Nat /\ master.evictions = 0
    BY <2>1, FilledType DEF MasterStates, NewMaster
  <2>6. Backed(master)
    BY <2>4, <2>5 DEF Backed
  <2> QED
    BY <2>2, <2>3, <2>6 DEF Accounted
<1>2. TypeOK /\ Accounted(master) /\ [Next]_vars /\ TypeOK' => Accounted(master')
  <2> SUFFICES ASSUME TypeOK, Accounted(master), [Next]_vars, TypeOK'
               PROVE  Accounted(master')
    OBVIOUS
  <2>0. master \in MasterStates /\ master' \in MasterStates /\ now \in U64
    BY DEF TypeOK
  <2>1. CASE \E node \in Nodes, len \in SegmentLens : MountSegmentCall(node, len)
    BY <2>0, <2>1, MountKeepsAccounts DEF MountSegmentCall
  <2>2. CASE \E t \in Tenants, dram \in QuotaLimits : SetTenantQuotaCall(t, dram)
    <3>1. PICK t \in Tenants, dram \in U64 : master' = SetTenantQuota(master, t, dram)
      BY <2>2, InputAssumption DEF SetTenantQuotaCall
    <3>2. UsedExact(master')
      BY <2>0, <3>1, Unsaturated, ExactSetTenantQuota DEF Accounted
    <3>3. master'.objects = master.objects /\ master'.segments = master.segments
      BY <2>0, <3>1, SetTenantQuotaFrame
    <3>4. master'.evictions = master.evictions
      BY <2>0, <3>1 DEF SetTenantQuota, MasterStates
    <3> QED
      BY <2>0, <3>2, <3>3, <3>4, SameKeepsAccounts
  <2>3. CASE \E id \in Ids, len \in ObjectLens, n \in ReplicaCounts : PutStartCall(id, len, n)
    BY <2>0, <2>3, PutStartKeepsAccounts, InputAssumption DEF PutStartCall
  <2>4. CASE \E id \in Ids : PutEndCall(id)
    BY <2>0, <2>4, PutEndKeepsAccounts DEF PutEndCall
  <2>5. CASE \E id \in Ids : PutRevokeCall(id)
    BY <2>0, <2>5, PutRevokeKeepsAccounts DEF PutRevokeCall
  <2>6. CASE \E id \in Ids : GetReplicaListCall(id)
    <3>1. PICK id \in Ids : master' = GetReplicaList(master, id, now)
      BY <2>6 DEF GetReplicaListCall
    <3>2. UsedExact(master')
      BY <2>0, <3>1, ExactGetReplicaList DEF Accounted
    <3>3. master'.objects = master.objects /\ master'.segments = master.segments
      BY <2>0, <3>1, GetReplicaListFrame
    <3>4. master'.evictions = master.evictions
      BY <2>0, <3>1 DEF GetReplicaList, MasterStates
    <3> QED
      BY <2>0, <3>2, <3>3, <3>4, SameKeepsAccounts
  <2>7. CASE \E id \in Ids : RemoveCall(id)
    BY <2>0, <2>7, RemoveKeepsAccounts DEF RemoveCall
  <2>8. CASE \E t \in Tenants, target \in ReclaimTargets : EvictForTenantCall(t, target)
    <3>1. PICK t \in Tenants, target \in ReclaimTargets : master' \in EvictForTenant(master, t, target, now)
      BY <2>8 DEF EvictForTenantCall
    <3>2. PICK N \in SUBSET NormalCandidates(master, t, now), S \in SUBSET SoftCandidates(master, t, now) :
            master' = EvictBatch(EvictBatch(master, t, N), t, S)
      BY <3>1, EvictForTenantBatches
    <3> QED
      BY <2>0, <3>2, EvictForTenantKeepsAccounts
  <2>9. CASE \E id \in Ids, hard \in BOOLEAN, until \in PinTimes : PinCall(id, hard, until)
    BY <2>9, PinKeepsAccounts, InputAssumption
  <2>10. CASE Tick
    BY <2>10 DEF Tick
  <2>11. CASE UNCHANGED vars
    BY <2>11 DEF vars
  <2> QED
    BY <2>1, <2>2, <2>3, <2>4, <2>5, <2>6, <2>7, <2>8, <2>9, <2>10, <2>11 DEF Next
<1>3. Init /\ TypeOK => AccountingInv
  BY <1>1 DEF AccountingInv
<1>4. AccountingInv /\ [Next]_vars /\ TypeOK' => AccountingInv'
  BY <1>2 DEF AccountingInv
<1> QED
  BY <1>3, <1>4, TypeCorrect, PTL DEF Spec

\* Used bytes are the bytes of the live objects, after any sequence of calls:
\* failed allocations, double revokes, evictions, removals, quota changes.
THEOREM QuotasAddUp == Spec => []QuotaAccounting
<1>1. AccountingInv => QuotaAccounting
  <2> SUFFICES ASSUME AccountingInv, NEW t \in Tenants, master.quotas[t].set
               PROVE  master.quotas[t].used = ReservedTotal(master.objects, TenantIds(t))
    BY DEF QuotaAccounting
  <2>1. master \in MasterStates /\ TenantIds(t) \in SUBSET Ids
    BY IdsFinite DEF AccountingInv, TypeOK
  <2>2. SumFunctionOnSet(Reserved(master.objects), TenantIds(t)) <= U64Max
    BY <2>1, Unsaturated DEF AccountingInv
  <2>3. ReservedTotal(master.objects, TenantIds(t)) = SumFunctionOnSet(Reserved(master.objects), TenantIds(t))
    BY <2>1, <2>2, TotalExact
  <2> QED
    BY <2>3 DEF AccountingInv, Accounted, UsedExact
<1> QED
  BY <1>1, AccountingInductive, PTL

\* A chunk that was handed out lies below the bump pointer of its segment.
THEOREM ChunksStayBelow == Spec => []ChunksBelowPointer
BY PlacementSafe, PTL

-----------------------------------------------------------------------------
(* What one step may do to a tenant's usage, and to the objects it evicts. *)

\* Releasing never makes usage grow.
LEMMA ReleasingShrinks ==
  ASSUME NEW a \in U64, NEW b \in U64
  PROVE  SatSub(a, b) <= a
BY U64MaxAssumption DEF SatSub, U64

Respects(old, new) ==
  old.set /\ new.dram = old.dram /\ new.used > old.used => new.used <= old.dram

\* A step that grows a tenant's usage stays within the limit: whoever reserves
\* has checked, and setting a quota counts what is there already.
THEOREM QuotasRespected == Spec => QuotaRespected
<1>1. AccountingInv /\ [Next]_vars => \A t \in Tenants : Respects(master.quotas[t], master'.quotas[t])
  <2> SUFFICES ASSUME AccountingInv, [Next]_vars, NEW u \in Tenants
               PROVE  Respects(master.quotas[u], master'.quotas[u])
    OBVIOUS
  <2>0. /\ master \in MasterStates /\ now \in U64 /\ Accounted(master)
        /\ master.quotas[u] \in Quota /\ master.quotas[u].used \in Nat
    BY U64MaxAssumption DEF AccountingInv, TypeOK, MasterStates, Quota, U64
  <2>a. ASSUME master'.quotas[u] = master.quotas[u]
        PROVE  Respects(master.quotas[u], master'.quotas[u])
    BY <2>0, <2>a DEF Respects
  <2>b. ASSUME master.quotas[u].set => master'.quotas[u].used <= master.quotas[u].used,
               master.quotas[u].set => master'.quotas[u].used \in Nat
        PROVE  Respects(master.quotas[u], master'.quotas[u])
    BY <2>0, <2>b DEF Respects
  <2>c. ASSUME NEW id \in Ids, OnlyTouches(master, master', id),
               master.quotas[id[1]].set =>
                 master'.quotas[id[1]].used = SatSub(master.quotas[id[1]].used, ReservedBytes(master.objects[id]))
        PROVE  Respects(master.quotas[u], master'.quotas[u])
    <3>1. CASE u # id[1]
      BY <2>a, <2>c, <3>1 DEF OnlyTouches
    <3>2. CASE u = id[1]
      <4>1. ReservedBytes(master.objects[id]) \in U64 /\ master.quotas[u].used \in U64
        BY <2>0, ReservedBytesType DEF MasterStates, Quota
      <4>2. SatSub(master.quotas[u].used, ReservedBytes(master.objects[id])) \in Nat
        BY <4>1, U64MaxAssumption DEF SatSub, U64
      <4> QED
        BY <2>b, <2>c, <3>2, <4>1, <4>2, ReleasingShrinks
    <3> QED
      BY <3>1, <3>2
  <2>1. CASE \E node \in Nodes, len \in SegmentLens : MountSegmentCall(node, len)
    <3>1. master'.quotas = master.quotas
      BY <2>0, <2>1 DEF MountSegmentCall, MountSegment, MasterStates
    <3> QED
      BY <2>a, <3>1
  <2>2. CASE \E t \in Tenants, dram \in QuotaLimits : SetTenantQuotaCall(t, dram)
    <3>1. PICK t \in Tenants, dram \in U64 : master' = SetTenantQuota(master, t, dram)
      BY <2>2, InputAssumption DEF SetTenantQuotaCall
    <3>2. /\ u # t => master'.quotas[u] = master.quotas[u]
          /\ master'.quotas[t].used = ReservedTotal(master.objects, TenantIds(t))
      BY <2>0, <3>1 DEF SetTenantQuota, MasterStates
    <3>3. SumFunctionOnSet(Reserved(master.objects), TenantIds(t)) <= U64Max /\ TenantIds(t) \in SUBSET Ids
      BY <2>0, Unsaturated, IdsFinite
    <3>4. ReservedTotal(master.objects, TenantIds(t)) = SumFunctionOnSet(Reserved(master.objects), TenantIds(t))
      BY <2>0, <3>3, TotalExact
    <3>5. master.quotas[t].set => master'.quotas[t].used = master.quotas[t].used
      BY <2>0, <3>2, <3>4 DEF Accounted, UsedExact
    <3> QED
      BY <2>0, <2>a, <2>b, <3>2, <3>5
  <2>3. CASE \E id \in Ids, len \in ObjectLens, n \in ReplicaCounts : PutStartCall(id, len, n)
    <3>1. PICK id \in Ids, len \in U64, n \in Nat : master' = PutStart(master, id, len, n)
      BY <2>3, InputAssumption DEF PutStartCall
    <3>2. /\ OnlyTouches(master, master', id)
          /\ master.quotas[id[1]].set =>
               master'.quotas[id[1]].used = master.quotas[id[1]].used
                                            + (IF PutStartOk(master, id, len, n) THEN len ELSE 0)
      BY <2>0, <3>1, PutStartUsed
    <3>3. CASE u # id[1]
      BY <2>a, <3>2, <3>3 DEF OnlyTouches
    <3>4. CASE u = id[1] /\ PutStartOk(master, id, len, n)
      BY <3>2, <3>4 DEF Respects, PutStartOk, CanReserve
    <3>5. CASE u = id[1] /\ ~PutStartOk(master, id, len, n)
      BY <2>0, <2>b, <3>2, <3>5
    <3> QED
      BY <3>3, <3>4, <3>5
  <2>4. CASE \E id \in Ids : PutEndCall(id)
    <3>1. master'.quotas = master.quotas
      BY <2>0, <2>4 DEF PutEndCall, PutEnd, MasterStates
    <3> QED
      BY <2>a, <3>1
  <2>5. CASE \E id \in Ids : PutRevokeCall(id)
    <3>1. PICK id \in Ids : master' = PutRevoke(master, id)
      BY <2>5 DEF PutRevokeCall
    <3>2. CASE PutRevokeOk(master, id)
      <4> DEFINE o == [master.objects[id] EXCEPT !.status = "Revoked"]
      <4>1. o \in ObjectMeta
        BY <2>0 DEF MasterStates, ObjectMeta, Statuses
      <4>2. master' = DropLease(ReleaseQuota([master EXCEPT !.objects[id] = o],
                                             id[1], ReservedBytes(master.objects[id])), id)
        BY <3>1, <3>2 DEF PutRevoke
      <4> HIDE DEF o
      <4> QED
        BY <2>0, <2>c, <4>1, <4>2, FreeUsed
    <3>3. CASE ~PutRevokeOk(master, id)
      BY <2>a, <3>1, <3>3 DEF PutRevoke
    <3> QED
      BY <3>2, <3>3
  <2>6. CASE \E id \in Ids : GetReplicaListCall(id)
    <3>1. master'.quotas = master.quotas
      BY <2>0, <2>6 DEF GetReplicaListCall, GetReplicaList, MasterStates
    <3> QED
      BY <2>a, <3>1
  <2>7. CASE \E id \in Ids : RemoveCall(id)
    <3>1. PICK id \in Ids : master' = Remove(master, id)
      BY <2>7 DEF RemoveCall
    <3>2. CASE RemoveOk(master, id)
      <4>1. NoObject \in ObjectMeta
        BY U64MaxAssumption DEF NoObject, ObjectMeta, Statuses, U64
      <4>2. master' = DropLease(ReleaseQuota([master EXCEPT !.objects[id] = NoObject],
                                             id[1], ReservedBytes(master.objects[id])), id)
        BY <3>1, <3>2 DEF Remove
      <4> QED
        BY <2>0, <2>c, <4>1, <4>2, FreeUsed
    <3>3. CASE ~RemoveOk(master, id)
      BY <2>a, <3>1, <3>3 DEF Remove
    <3> QED
      BY <3>2, <3>3
  <2>8. CASE \E t \in Tenants, target \in ReclaimTargets : EvictForTenantCall(t, target)
    <3>1. PICK t \in Tenants, target \in ReclaimTargets : master' \in EvictForTenant(master, t, target, now)
      BY <2>8 DEF EvictForTenantCall
    <3>2. PICK N, S : master' = EvictBatch(EvictBatch(master, t, N), t, S)
      BY <3>1, EvictForTenantBatches
    <3> DEFINE mid == EvictBatch(master, t, N)
    <3>3. mid \in MasterStates
      BY <2>0, EvictBatchType
    <3>4. /\ u # t => mid.quotas[u] = master.quotas[u]
          /\ mid.quotas[t].set = master.quotas[t].set
          /\ master.quotas[t].set =>
               mid.quotas[t].used = SatSub(master.quotas[t].used, ReservedTotal(master.objects, N))
      BY <2>0, EvictBatchUsed
    <3>5. master' = EvictBatch(mid, t, S)
      BY <3>2
    <3> HIDE DEF mid
    <3>6. /\ u # t => master'.quotas[u] = mid.quotas[u]
          /\ mid.quotas[t].set =>
               master'.quotas[t].used = SatSub(mid.quotas[t].used, ReservedTotal(mid.objects, S))
      BY <3>3, <3>5, EvictBatchUsed
    <3>7. /\ ReservedTotal(master.objects, N) \in U64 /\ ReservedTotal(mid.objects, S) \in U64
          /\ master.quotas[t].used \in U64 /\ mid.quotas[t].used \in U64
      BY <2>0, <3>3, SaturationType, U64MaxAssumption DEF MasterStates, Quota, U64
    <3>8. CASE u # t
      BY <2>a, <3>4, <3>6, <3>8
    <3>9. CASE u = t
      <4>1. master.quotas[t].set =>
              /\ mid.quotas[t].used <= master.quotas[t].used
              /\ master'.quotas[t].used <= mid.quotas[t].used
              /\ master'.quotas[t].used \in Nat
        BY <3>4, <3>6, <3>7, U64MaxAssumption DEF SatSub, U64
      <4>2. master.quotas[t].set => master'.quotas[t].used <= master.quotas[t].used
        BY <3>7, <4>1, U64MaxAssumption DEF U64
      <4> QED
        BY <2>b, <3>9, <4>1, <4>2
    <3> QED
      BY <3>8, <3>9
  <2>9. CASE \E id \in Ids, hard \in BOOLEAN, until \in PinTimes : PinCall(id, hard, until)
    <3>1. master'.quotas = master.quotas
      BY <2>0, <2>9 DEF PinCall, MasterStates
    <3> QED
      BY <2>a, <3>1
  <2>10. CASE Tick
    BY <2>a, <2>10 DEF Tick
  <2>11. CASE UNCHANGED vars
    BY <2>a, <2>11 DEF vars
  <2> QED
    BY <2>1, <2>2, <2>3, <2>4, <2>5, <2>6, <2>7, <2>8, <2>9, <2>10, <2>11 DEF Next
<1>2. AccountingInv /\ [Next]_vars =>
        [\A t \in Tenants :
           /\ master.quotas[t].set
           /\ master'.quotas[t].dram = master.quotas[t].dram
           /\ master'.quotas[t].used > master.quotas[t].used
           => master'.quotas[t].used <= master.quotas[t].dram]_vars
  BY <1>1 DEF Respects
<1> QED
  BY <1>2, AccountingInductive, PTL DEF Spec, QuotaRespected

Disciplined ==
  /\ \A id \in NewlyEvicted :
       /\ master.objects[id].status = "Committed"
       /\ master.leases[id] <= now
       /\ ~master.objects[id].hardPinned
       /\ \A other \in NewlyEvicted : other[1] = id[1]
       /\ master.objects[id].softPinnedUntil > now => NormalCandidates(master, id[1], now) \subseteq NewlyEvicted
  /\ master'.evictions = master.evictions + Cardinality(NewlyEvicted)

\* A step that evicts nothing and does not count.
LEMMA NothingEvicted ==
  ASSUME TypeOK, \A id \in Ids : master'.objects[id].status = "Evicted" => master.objects[id].status = "Evicted",
         master'.evictions = master.evictions
  PROVE  Disciplined
<1>1. NewlyEvicted = {}
  BY DEF NewlyEvicted
<1>2. Cardinality(NewlyEvicted) = 0 /\ master.evictions \in Nat
  BY <1>1, FS_EmptySet, U64MaxAssumption DEF TypeOK, MasterStates, U64
<1> QED
  BY <1>1, <1>2 DEF Disciplined

\* The second pass runs only for what the first one could not reclaim.
LEMMA SoftOnlyWhenNeeded ==
  ASSUME NEW ms \in MasterStates, NEW t \in Tenants, NEW target \in U64, NEW time,
         NEW N \in Batches(ms, NormalCandidates(ms, t, time), target),
         NEW S \in Batches(ms, SoftCandidates(ms, t, time), SatSub(target, ReservedTotal(ms.objects, N))),
         S # {}
  PROVE  N = NormalCandidates(ms, t, time)
<1>1. PICK last \in S : ReservedTotal(ms.objects, S \ {last}) < SatSub(target, ReservedTotal(ms.objects, N))
  BY DEF Batches
<1>2. ReservedTotal(ms.objects, S \ {last}) \in Nat /\ ReservedTotal(ms.objects, N) \in Nat /\ target \in Nat
  BY SaturationType, U64MaxAssumption DEF U64
<1>3. ReservedTotal(ms.objects, N) < target
  BY <1>1, <1>2 DEF SatSub
<1>4. ReservedTotal(ms.objects, N) >= target \/ N = NormalCandidates(ms, t, time)
  BY DEF Batches
<1> QED
  BY <1>2, <1>3, <1>4

\* evict_for_tenant, for whatever order it walks the candidates in.
LEMMA EvictionIsDisciplined ==
  ASSUME AccountingInv, NEW t \in Tenants, NEW target \in U64, EvictForTenantCall(t, target)
  PROVE  Disciplined
<1>0. master \in MasterStates /\ Accounted(master) /\ now \in Nat
  BY U64MaxAssumption DEF AccountingInv, TypeOK, U64
<1>1. PICK N \in Batches(master, NormalCandidates(master, t, now), target) :
        \E S \in Batches(master, SoftCandidates(master, t, now),
                         SatSub(target, ReservedTotal(master.objects, N))) :
          master' = EvictBatch(EvictBatch(master, t, N), t, S)
  BY DEF EvictForTenantCall, EvictForTenant
<1>2. PICK S \in Batches(master, SoftCandidates(master, t, now),
                         SatSub(target, ReservedTotal(master.objects, N))) :
        master' = EvictBatch(EvictBatch(master, t, N), t, S)
  BY <1>1
<1> DEFINE E == N \cup S
<1>3. N \in SUBSET NormalCandidates(master, t, now) /\ S \in SUBSET SoftCandidates(master, t, now)
  BY DEF Batches
<1>4. /\ E \in SUBSET TenantIds(t)
      /\ \A id \in E : IsCandidate(master, id, now)
      /\ \A id \in N : ~(master.objects[id].softPinnedUntil > now)
  BY <1>3 DEF NormalCandidates, SoftCandidates
<1>5. master'.evictions = master.evictions + Cardinality(E)
  BY <1>0, <1>2, <1>3, EvictForTenantKeepsAccounts
<1>6. \A id \in Ids : /\ id \in E => master'.objects[id].status = "Evicted"
                      /\ id \notin E => master'.objects[id] = master.objects[id]
  <2> DEFINE mid == EvictBatch(master, t, N)
  <2>1. mid \in MasterStates
    BY <1>0, EvictBatchType
  <2>2. /\ mid.objects = [id \in Ids |-> IF id \in N THEN [master.objects[id] EXCEPT !.status = "Evicted"]
                                                     ELSE master.objects[id]]
        /\ mid.leases = [id \in Ids |-> IF id \in N THEN 0 ELSE master.leases[id]]
        /\ mid.segments = master.segments
    BY <1>0, EvictBatchFrame
  <2>3. master' = EvictBatch(mid, t, S)
    BY <1>2
  <2> HIDE DEF mid
  <2>4. /\ master'.objects = [id \in Ids |-> IF id \in S THEN [mid.objects[id] EXCEPT !.status = "Evicted"]
                                                         ELSE mid.objects[id]]
        /\ master'.leases = [id \in Ids |-> IF id \in S THEN 0 ELSE mid.leases[id]]
        /\ master'.segments = mid.segments
    BY <2>1, <2>3, EvictBatchFrame
  <2>5. \A id \in Ids : master.objects[id] \in ObjectMeta /\ mid.objects[id] \in ObjectMeta
    BY <1>0, <2>1 DEF MasterStates
  <2> QED
    BY <2>2, <2>4, <2>5 DEF ObjectMeta
<1>7. E \subseteq Ids
  BY <1>4, IdsFinite
<1>8. NewlyEvicted = E
  <2>1. \A id \in E : master.objects[id].status = "Committed"
    BY <1>4 DEF IsCandidate
  <2> HIDE DEF E
  <2> QED
    BY <1>6, <1>7, <2>1 DEF NewlyEvicted
<1>9. ASSUME NEW id \in E
      PROVE  /\ master.objects[id].status = "Committed"
             /\ master.leases[id] <= now
             /\ ~master.objects[id].hardPinned
             /\ id[1] = t
             /\ master.objects[id].softPinnedUntil > now => NormalCandidates(master, t, now) \subseteq E
  <2>1. master.objects[id].status = "Committed" /\ ~master.objects[id].hardPinned
    BY <1>4 DEF IsCandidate
  <2>2. master.leases[id] <= now
    <3>1. id \in Ids /\ ~(master.leases[id] > now)
      BY <1>4, <1>7 DEF IsCandidate, HasActiveLease
    <3>2. master.leases[id] \in Nat
      BY <1>0, <3>1, U64MaxAssumption DEF MasterStates, U64
    <3> QED
      BY <1>0, <3>1, <3>2
  <2>3. id[1] = t
    BY <1>4 DEF TenantIds
  <2>4. ASSUME master.objects[id].softPinnedUntil > now
        PROVE  NormalCandidates(master, t, now) \subseteq E
    <3>1. S # {}
      BY <1>4, <2>4
    <3>2. N = NormalCandidates(master, t, now)
      BY <1>0, <3>1, SoftOnlyWhenNeeded
    <3> QED
      BY <3>2
  <2> QED
    BY <2>1, <2>2, <2>3, <2>4
<1> HIDE DEF E
<1> QED
  BY <1>5, <1>8, <1>9 DEF Disciplined

\* Eviction takes committed, unleased, unpinned objects of one tenant, soft-pinned
\* ones last, and counts each once; nothing else evicts.
THEOREM EvictionsDisciplined == Spec => EvictionDiscipline
<1>1. AccountingInv /\ [Next]_vars => Disciplined \/ UNCHANGED vars
  <2> SUFFICES ASSUME AccountingInv, [Next]_vars
               PROVE  Disciplined \/ UNCHANGED vars
    OBVIOUS
  <2>0. /\ TypeOK /\ master \in MasterStates
        /\ master.objects \in [Ids -> ObjectMeta]
    BY DEF AccountingInv, TypeOK, MasterStates
  <2>a. ASSUME NEW id \in Ids, OnlyTouches(master, master', id),
               master'.objects[id].status # "Evicted", master'.evictions = master.evictions
        PROVE  Disciplined
    BY <2>0, <2>a, NothingEvicted DEF OnlyTouches, SameOn
  <2>b. ASSUME master'.objects = master.objects, master'.evictions = master.evictions
        PROVE  Disciplined
    BY <2>0, <2>b, NothingEvicted
  <2>1. CASE \E node \in Nodes, len \in SegmentLens : MountSegmentCall(node, len)
    <3>1. master'.objects = master.objects /\ master'.evictions = master.evictions
      BY <2>0, <2>1 DEF MountSegmentCall, MountSegment, MasterStates
    <3> QED
      BY <2>b, <3>1
  <2>2. CASE \E t \in Tenants, dram \in QuotaLimits : SetTenantQuotaCall(t, dram)
    <3>1. master'.objects = master.objects /\ master'.evictions = master.evictions
      BY <2>0, <2>2 DEF SetTenantQuotaCall, SetTenantQuota, MasterStates
    <3> QED
      BY <2>b, <3>1
  <2>3. CASE \E id \in Ids, len \in ObjectLens, n \in ReplicaCounts : PutStartCall(id, len, n)
    <3>1. PICK id \in Ids, len \in U64, n \in Nat : master' = PutStart(master, id, len, n)
      BY <2>3, InputAssumption DEF PutStartCall
    <3>2. OnlyTouches(master, master', id) /\ master'.evictions = master.evictions
      BY <2>0, <3>1, PutStartUsed
    <3>3. CASE PutStartOk(master, id, len, n)
      <4>1. master'.objects = [master.objects EXCEPT ![id] = Reservation(master, len, n)]
        BY <2>0, <3>1, <3>3, PutStartSucceeded
      <4>2. master'.objects[id].status = "Reserving"
        BY <2>0, <4>1 DEF Reservation
      <4> QED
        BY <2>a, <3>2, <4>2
    <3>4. CASE ~PutStartOk(master, id, len, n)
      <4>1. master'.objects = master.objects
        BY <2>0, <3>1, <3>4, PutStartFailed
      <4> QED
        BY <2>b, <3>2, <4>1
    <3> QED
      BY <3>3, <3>4
  <2>4. CASE \E id \in Ids : PutEndCall(id)
    <3>1. PICK id \in Ids : master' = PutEnd(master, id)
      BY <2>4 DEF PutEndCall
    <3>2. master'.evictions = master.evictions
      BY <2>0, <3>1 DEF PutEnd, MasterStates
    <3>3. master'.objects \in {master.objects, [master.objects EXCEPT ![id].status = "Committed"]}
      BY <2>0, <3>1, PutEndFrame
    <3>4. \A x \in Ids : master'.objects[x].status = "Evicted" => master.objects[x].status = "Evicted"
      BY <2>0, <3>3 DEF ObjectMeta
    <3> QED
      BY <2>0, <3>2, <3>4, NothingEvicted
  <2>5. CASE \E id \in Ids : PutRevokeCall(id)
    <3>1. PICK id \in Ids : master' = PutRevoke(master, id)
      BY <2>5 DEF PutRevokeCall
    <3>2. CASE PutRevokeOk(master, id)
      <4> DEFINE o == [master.objects[id] EXCEPT !.status = "Revoked"]
      <4>1. o \in ObjectMeta /\ o.status = "Revoked"
        BY <2>0 DEF ObjectMeta, Statuses
      <4>2. master' = DropLease(ReleaseQuota([master EXCEPT !.objects[id] = o],
                                             id[1], ReservedBytes(master.objects[id])), id)
        BY <3>1, <3>2 DEF PutRevoke
      <4> HIDE DEF o
      <4>3. OnlyTouches(master, master', id) /\ master'.evictions = master.evictions /\ master'.objects[id] = o
        BY <2>0, <4>1, <4>2, FreeUsed
      <4> QED
        BY <2>a, <4>1, <4>3
    <3>3. CASE ~PutRevokeOk(master, id)
      BY <2>b, <3>1, <3>3 DEF PutRevoke
    <3> QED
      BY <3>2, <3>3
  <2>6. CASE \E id \in Ids : GetReplicaListCall(id)
    <3>1. master'.objects = master.objects /\ master'.evictions = master.evictions
      BY <2>0, <2>6 DEF GetReplicaListCall, GetReplicaList, MasterStates
    <3> QED
      BY <2>b, <3>1
  <2>7. CASE \E id \in Ids : RemoveCall(id)
    <3>1. PICK id \in Ids : master' = Remove(master, id)
      BY <2>7 DEF RemoveCall
    <3>2. CASE RemoveOk(master, id)
      <4>1. NoObject \in ObjectMeta
        BY U64MaxAssumption DEF NoObject, ObjectMeta, Statuses, U64
      <4>2. master' = DropLease(ReleaseQuota([master EXCEPT !.objects[id] = NoObject],
                                             id[1], ReservedBytes(master.objects[id])), id)
        BY <3>1, <3>2 DEF Remove
      <4>3. /\ OnlyTouches(master, master', id) /\ master'.evictions = master.evictions
            /\ master'.objects[id] = NoObject
        BY <2>0, <4>1, <4>2, FreeUsed
      <4> QED
        BY <2>a, <4>3 DEF NoObject
    <3>3. CASE ~RemoveOk(master, id)
      BY <2>b, <3>1, <3>3 DEF Remove
    <3> QED
      BY <3>2, <3>3
  <2>8. CASE \E t \in Tenants, target \in ReclaimTargets : EvictForTenantCall(t, target)
    BY <2>8, EvictionIsDisciplined, InputAssumption
  <2>9. CASE \E id \in Ids, hard \in BOOLEAN, until \in PinTimes : PinCall(id, hard, until)
    <3>1. /\ master'.evictions = master.evictions
          /\ \A x \in Ids : master'.objects[x].status = "Evicted" => master.objects[x].status = "Evicted"
      BY <2>0, <2>9 DEF PinCall, MasterStates, ObjectMeta
    <3> QED
      BY <2>0, <3>1, NothingEvicted
  <2>10. CASE Tick
    BY <2>b, <2>10 DEF Tick
  <2>11. CASE UNCHANGED vars
    BY <2>11
  <2> QED
    BY <2>1, <2>2, <2>3, <2>4, <2>5, <2>6, <2>7, <2>8, <2>9, <2>10, <2>11 DEF Next
<1>2. AccountingInv /\ [Next]_vars =>
        [/\ \A id \in NewlyEvicted :
              /\ master.objects[id].status = "Committed"
              /\ master.leases[id] <= now
              /\ ~master.objects[id].hardPinned
              /\ \A other \in NewlyEvicted : other[1] = id[1]
              /\ master.objects[id].softPinnedUntil > now =>
                   NormalCandidates(master, id[1], now) \subseteq NewlyEvicted
         /\ master'.evictions = master.evictions + Cardinality(NewlyEvicted)]_vars
  BY <1>1 DEF Disciplined
<1> QED
  BY <1>2, AccountingInductive, PTL DEF Spec, EvictionDiscipline

=============================================================================
