---------------------------- MODULE MasterHAProofs ----------------------------
(***************************************************************************)
(* Proofs about MasterHA, for every number of Masters, writers and         *)
(* operators and every number of crashes.                                  *)
(***************************************************************************)
EXTENDS MasterHA, StateProofs

-----------------------------------------------------------------------------
(* The inductive invariants, in parts. *)

\* Whoever runs read the leader key once it was there; it never changes.
LeaderKnown == \A m \in Masters : proc[m] # "down" => etcdLeader # None /\ leaderId[m] = etcdLeader

\* A call that has changed a Master's memory is held by a Master that runs; a
\* client none of whose calls was ever applied has not got past its first call.
WriterOps == {"put_start", "put_end", "put_revoke"}
RecordOK(c, s) ==
  /\ s.phase \in {"applied", "saving"} => s.at \in Masters
  /\ s.phase = "saving" => s.snap \in Snapshots
  /\ s.at = None => s.phase \in {"idle", "call", "failed"}
  /\ s.op = "put_start" /\ s.phase = "call" => s.at = None
  /\ s.op \in WriterOps <=> c \notin Operators
  /\ s.phase = "committed" => s.op = "put_end"
  /\ s.phase = "write" => s.op = "put_start"
  /\ s.op \in {"put_end", "put_revoke"} => s.at # None
  /\ s.op \in WriterOps /\ s.at # None => s.place \in Replica
CallOK(c) == /\ RecordOK(c, client[c])
             /\ client[c].phase \in {"applied", "saving"} => proc[client[c].at] = "up"
CallsOK == \A c \in Clients : CallOK(c)

\* Metadata as it is in memory, in etcd or on its way there: used bytes are exact,
\* and every object is one that some client wrote.
ClientIds == {ClientId[c] : c \in Clients}
Known(s) == \A id \in Ids : /\ s.objects[id].len <= ObjectLen
                            /\ id \notin ClientIds => s.objects[id].status = "Absent"
BookOK(s) == UsedExact(s) /\ Known(s)
BooksOK == /\ \A m \in Masters : BookOK(mem[m])
           /\ etcdMetadata # None => BookOK(etcdMetadata)
           /\ \A c \in Clients : client[c].snap # None => BookOK(client[c].snap)

BaseInv == TypeOK /\ Sealed(dram) /\ LeaderKnown /\ CallsOK /\ BooksOK

\* As long as one client only has had a call applied: where its commit is.
Lone == \A c, d \in Clients : client[c].at # None /\ client[d].at # None => c = d
CommitAt(c) ==
  client[c].op = "put_end" =>
    /\ client[c].phase = "applied" => mem[client[c].at].objects[ClientId[c]].status = "Committed"
    /\ client[c].phase = "saving" => client[c].snap.objects[ClientId[c]].status = "Committed"
    /\ client[c].phase = "committed" =>
         etcdMetadata # None /\ etcdMetadata.objects[ClientId[c]].status = "Committed"
LoneInv == Lone => \A c \in Clients : CommitAt(c)

\* Until the leader restarts, every object anywhere is in the place its writer was
\* given, and once it is committed that place holds the writer's body; only a remove
\* between two writers of an object breaks the second half.
Writers == Clients \ Operators
Gone(cl, id) ==
  \E c \in Operators : cl[c].op = "remove" /\ ClientId[c] = id /\ cl[c].phase \notin {"idle", "call"}
OwnCommit(cl, id) == SoleWriter(id) \/ ~Gone(cl, id)
Written(cl, d, w) ==
  /\ WritePreallocatedOk(cl[w].place.offset, ObjectLen, Body(w))
  /\ Holds(d, cl[w].place.offset, ObjectLen, Body(w))
PlaceOK(cl, d, o, id) ==
  o.status # "Absent" =>
    \E w \in Writers :
      /\ ClientId[w] = id /\ cl[w].at # None /\ o.replicas = {cl[w].place}
      /\ o.status = "Committed" /\ OwnCommit(cl, id) => cl[w].op # "put_start" /\ Written(cl, d, w)
PlacesOK(cl, d, s) == \A id \in Ids : PlaceOK(cl, d, s.objects[id], id)
WriterOK(cl, d, w) ==
  /\ cl[w].op = "put_end" => Written(cl, d, w)
  /\ cl[w].at # None => cl[w].place.len = ObjectLen
WriterInv ==
  /\ \A w \in Writers : WriterOK(client, dram, w)
  /\ \A m \in Masters : PlacesOK(client, dram, mem[m])
  /\ etcdMetadata # None => PlacesOK(client, dram, etcdMetadata)
  /\ \A c \in Clients : client[c].snap # None => PlacesOK(client, dram, client[c].snap)

\* A Master that is not up has nothing in memory, one that is has a segment, and
\* only the leader has ever served anybody.
ServiceInv ==
  /\ \A m \in Masters : IF proc[m] = "up" THEN mem[m].segments # <<>> ELSE mem[m] = NewMaster
  /\ \A c \in Clients : client[c].at # None =>
                           client[c].at \in Masters /\ etcdLeader = BindAddr[client[c].at]

\* Until the leader restarts: the places it gave away are below its bump pointer and
\* apart, it still knows their objects, and every checksum is of the chunk's owner.
Serving == \E m \in Masters : etcdLeader = BindAddr[m] /\ proc[m] = "up"
PairOK(cl, w, v) ==
  w # v /\ cl[w].at # None /\ cl[v].at # None =>
    /\ Apart(cl[w].place.offset, ObjectLen, cl[v].place.offset, ObjectLen)
    /\ ClientId[w] = ClientId[v] => Gone(cl, ClientId[w])
BelowPointer(cl, ms, w) ==
  cl[w].at # None =>
    /\ cl[w].place.offset + ObjectLen <= ms.segments[1].next
    /\ ms.objects[ClientId[w]].status = "Absent" => Gone(cl, ClientId[w])
ChecksumOK(cl, d, o) ==
  d.allocations[o].checksum # NoContent =>
    \E v \in Writers : cl[v].at # None /\ cl[v].place.offset = o /\ d.allocations[o].checksum = Body(v)
PlacingInv ==
  /\ ~Serving => etcdMetadata = None /\ \A c \in Clients : client[c].at = None
  /\ \A m \in Masters, w \in Writers : etcdLeader = BindAddr[m] => BelowPointer(client, mem[m], w)
  /\ \A w, v \in Writers : PairOK(client, w, v)
  /\ \A o \in Offsets : ChecksumOK(client, dram, o)

FirstInv == FirstLeader => WriterInv /\ PlacingInv

-----------------------------------------------------------------------------
(* What a handler does to the metadata. *)

\* Everything that clients reserve is less than 2^64 bytes together.
LEMMA SumSmall ==
  ASSUME NEW ms \in MasterStates, Known(ms), NEW t \in Tenants
  PROVE  SumFunctionOnSet(Reserved(ms.objects), TenantIds(t)) <= U64Max
<1> DEFINE f == Reserved(ms.objects)
           T == TenantIds(t)
           W == T \cap ClientIds
<1>1. T \subseteq Ids /\ IsFiniteSet(T) /\ NatOn(f, T)
  BY IdsFinite, ReservedType
<1>2. \A id \in Ids : f[id] = ReservedBytes(ms.objects[id]) /\ ms.objects[id] \in ObjectMeta
  BY ReservedType DEF MasterStates
<1>3. ObjectLen \in Nat
  BY DeploymentAssumption DEF U64
<1>4. UpTo(f, W, ObjectLen)
  BY <1>1, <1>2, <1>3 DEF UpTo, Known, ReservedBytes
<1>5. ZeroOn(f, T \ W)
  BY <1>1, <1>2 DEF ZeroOn, Known, ReservedBytes
<1>6. NatOn(f, W) /\ NatOn(f, T \ W)
  BY <1>1 DEF NatOn
<1>7. /\ IsFiniteSet(W) /\ IsFiniteSet(T \ W)
      /\ Cardinality(W) \in Nat /\ Cardinality(Clients) \in Nat
      /\ Cardinality(W) <= Cardinality(Clients)
  <2>1. ClientId \in Surjection(Clients, ClientIds)
    BY ClientAssumption DEF Surjection, ClientIds
  <2>2. IsFiniteSet(ClientIds) /\ Cardinality(ClientIds) <= Cardinality(Clients)
    BY <2>1, WorkloadAssumption, FS_Surjection
  <2>3. IsFiniteSet(W) /\ Cardinality(W) <= Cardinality(ClientIds)
    BY <2>2, FS_Subset
  <2>4. IsFiniteSet(T \ W)
    BY <1>1, FS_Subset
  <2>5. Cardinality(W) \in Nat /\ Cardinality(Clients) \in Nat /\ Cardinality(ClientIds) \in Nat
    BY <2>2, <2>3, WorkloadAssumption, FS_CardinalityType
  <2>6. QED BY <2>2, <2>3, <2>4, <2>5
<1> HIDE DEF f, T
<1>8. W \subseteq T
  OBVIOUS
<1> HIDE DEF W
<1>9. SumFunctionOnSet(f, T) = SumFunctionOnSet(f, W) + SumFunctionOnSet(f, T \ W)
  BY <1>1, <1>7, <1>8, SumSplit
<1>10. SumFunctionOnSet(f, T \ W) = 0
  BY <1>5, <1>7, SumZero
<1>11. SumFunctionOnSet(f, W) <= Cardinality(W) * ObjectLen
  BY <1>3, <1>4, <1>6, <1>7, SumBounded
<1>12. SumFunctionOnSet(f, W) \in Nat
  BY <1>6, <1>7, SumType
<1>13. Cardinality(W) * ObjectLen <= Cardinality(Clients) * ObjectLen
  <2>1. \A a, b, q \in Nat : a <= b => a * q <= b * q
    OBVIOUS
  <2>2. QED BY <1>3, <1>7, <2>1
<1>14. Cardinality(W) * ObjectLen \in Nat /\ Cardinality(Clients) * ObjectLen \in Nat
  BY <1>3, <1>7
<1>15. SumFunctionOnSet(f, T) <= U64Max
  BY <1>9, <1>10, <1>11, <1>12, <1>13, <1>14, WorkloadAssumption, U64MaxAssumption
<1>16. QED BY <1>15 DEF f, T

\* A handler changes the object it is about, and how.
OpFrame(op, ok, ms, new, id) ==
  /\ \A x \in Ids \ {id} : new.objects[x] = ms.objects[x]
  /\ ok /\ op = "put_start" => /\ ms.objects[id].status = "Absent"
                               /\ \E r \in Replica : new.objects[id].replicas = {r} /\ r.len = ObjectLen
                               /\ new.objects[id].status = "Reserving" /\ new.objects[id].len = ObjectLen
  /\ ok /\ op = "put_end" => new.objects[id].status = "Committed"
  /\ ~(ok /\ op = "put_start") =>
       \/ new.objects[id] = NoObject
       \/ /\ new.objects[id].replicas = ms.objects[id].replicas
          /\ new.objects[id].len = ms.objects[id].len
          /\ new.objects[id].status # "Absent" => ms.objects[id].status # "Absent"
          /\ new.objects[id].status = "Committed" => ms.objects[id].status = "Committed" \/ op = "put_end"
  /\ ~ok => new.objects = ms.objects

\* put_start for one replica.
LEMMA PutStartFrame ==
  ASSUME NEW ms \in MasterStates, NEW id \in Ids
  PROVE  OpFrame("put_start", PutStartOk(ms, id, ObjectLen, 1), ms, PutStart(ms, id, ObjectLen, 1), id)
<1> DEFINE new == PutStart(ms, id, ObjectLen, 1)
<1>1. ObjectLen \in U64 /\ 1 \in Nat /\ ms.objects \in [Ids -> ObjectMeta]
  BY DeploymentAssumption DEF MasterStates
<1>2. CASE PutStartOk(ms, id, ObjectLen, 1)
  <2>1. new.objects = [ms.objects EXCEPT ![id] = Reservation(ms, ObjectLen, 1)]
    BY <1>1, <1>2, PutStartSucceeded
  <2>2. new.objects \in [Ids -> ObjectMeta]
    BY <1>1, PutStartType DEF MasterStates
  <2> HIDE DEF new
  <2>3. new.objects[id] = Reservation(ms, ObjectLen, 1) /\ new.objects[id] \in ObjectMeta
    BY <1>1, <2>1, <2>2
  <2>4. PICK i : Picked(ms.segments, ObjectLen, 1) = {i}
    <3>1. Picked(ms.segments, ObjectLen, 1) \subseteq 1..Len(ms.segments) /\ Len(ms.segments) \in Nat
      BY DEF Picked, MasterStates
    <3>2. IsFiniteSet(Picked(ms.segments, ObjectLen, 1))
      <4>1. IsFiniteSet(1..Len(ms.segments))
        BY <3>1, FS_Interval
      <4>2. QED BY <3>1, <4>1, FS_Subset
    <3>3. QED BY <1>2, <3>2, FS_Singleton DEF PutStartOk, CanAllocate
  <2>5. \E r : NewReplicas(ms.segments, ObjectLen, 1) = {r} /\ r.len = ObjectLen
    <3> DEFINE r == [seg |-> i, node |-> ms.segments[i].node, offset |-> ms.segments[i].next,
                     len |-> ObjectLen]
    <3>1. NewReplicas(ms.segments, ObjectLen, 1) = {r}
      BY <2>4 DEF NewReplicas
    <3>2. r.len = ObjectLen
      OBVIOUS
    <3>3. QED BY <3>1, <3>2
  <2>6. new.objects[id].replicas = NewReplicas(ms.segments, ObjectLen, 1)
        /\ new.objects[id].replicas \subseteq Replica
        /\ new.objects[id].status = "Reserving" /\ new.objects[id].len = ObjectLen
    BY <2>3 DEF Reservation, ObjectMeta
  <2>7. \E r \in Replica : new.objects[id].replicas = {r} /\ r.len = ObjectLen
    BY <2>5, <2>6
  <2>8. ms.objects[id].status = "Absent"
    BY <1>2 DEF PutStartOk
  <2>9. QED BY <1>1, <1>2, <2>1, <2>6, <2>7, <2>8 DEF OpFrame, new
<1>3. CASE ~PutStartOk(ms, id, ObjectLen, 1)
  <2>1. new.objects = ms.objects
    BY <1>1, <1>3, PutStartFailed
  <2>2. QED BY <1>3, <2>1 DEF OpFrame
<1>4. QED BY <1>2, <1>3

\* The other operations.
LEMMA OtherFrames ==
  ASSUME NEW ms \in MasterStates, NEW id \in Ids
  PROVE  /\ OpFrame("put_end", PutEndOk(ms, id), ms, PutEnd(ms, id), id)
         /\ OpFrame("put_revoke", PutRevokeOk(ms, id), ms, PutRevoke(ms, id), id)
         /\ OpFrame("remove", RemoveOk(ms, id), ms, Remove(ms, id), id)
         /\ OpFrame("set_tenant_quota", TRUE, ms, SetTenantQuota(ms, id[1], QuotaLimit), id)
         /\ OpFrame("mount_segment", TRUE, ms, MountSegment(ms, DefaultNode, DefaultLen), id)
<1>1. ms.objects \in [Ids -> ObjectMeta] /\ id[1] \in Tenants
  BY IdType DEF MasterStates
<1>2. OpFrame("put_end", PutEndOk(ms, id), ms, PutEnd(ms, id), id)
  <2> DEFINE new == PutEnd(ms, id)
  <2>1. /\ PutEndOk(ms, id) => new.objects = [ms.objects EXCEPT ![id].status = "Committed"]
        /\ ~PutEndOk(ms, id) => new.objects = ms.objects
    BY PutEndFrame
  <2> HIDE DEF new
  <2>2. OpFrame("put_end", PutEndOk(ms, id), ms, new, id)
    BY <1>1, <2>1 DEF OpFrame, PutEndOk, ObjectMeta
  <2>3. QED BY <2>2 DEF new
<1>3. OpFrame("put_revoke", PutRevokeOk(ms, id), ms, PutRevoke(ms, id), id)
  <2> DEFINE new == PutRevoke(ms, id)
  <2>1. /\ PutRevokeOk(ms, id) => new.objects = [ms.objects EXCEPT ![id].status = "Revoked"]
        /\ ~PutRevokeOk(ms, id) => new = ms
    BY PutRevokeFrame
  <2> HIDE DEF new
  <2>2. OpFrame("put_revoke", PutRevokeOk(ms, id), ms, new, id)
    BY <1>1, <2>1 DEF OpFrame, PutRevokeOk, ObjectMeta
  <2>3. QED BY <2>2 DEF new
<1>4. OpFrame("remove", RemoveOk(ms, id), ms, Remove(ms, id), id)
  <2> DEFINE new == Remove(ms, id)
  <2>1. /\ RemoveOk(ms, id) => new.objects = [ms.objects EXCEPT ![id] = NoObject]
        /\ ~RemoveOk(ms, id) => new = ms
    BY RemoveFrame
  <2> HIDE DEF new
  <2>2. OpFrame("remove", RemoveOk(ms, id), ms, new, id)
    BY <1>1, <2>1 DEF OpFrame, RemoveOk
  <2>3. QED BY <2>2 DEF new
<1>5. SetTenantQuota(ms, id[1], QuotaLimit).objects = ms.objects
  BY <1>1, SetTenantQuotaFrame
<1>6. MountSegment(ms, DefaultNode, DefaultLen).objects = ms.objects
  BY DEF MountSegment, MasterStates
<1>7. QED BY <1>2, <1>3, <1>4, <1>5, <1>6 DEF OpFrame

\* A handler leaves the metadata well typed and its accounting exact.
LEMMA OpEffect ==
  ASSUME TypeOK, NEW c \in Clients, NEW ms \in MasterStates, BookOK(ms)
  PROVE  /\ OpResult(ms, c) \in MasterStates
         /\ UsedExact(OpResult(ms, c))
         /\ OpFrame(client[c].op, OpOk(ms, c), ms, OpResult(ms, c), ClientId[c])
<1>1. /\ ClientId[c] \in Ids /\ ClientId[c][1] \in Tenants /\ client[c].op \in ClientOps
      /\ ObjectLen \in U64 /\ 1 \in Nat /\ QuotaLimit \in U64 /\ DefaultNode \in Nodes /\ DefaultLen \in U64
      /\ UsedExact(ms) /\ Known(ms)
  BY ClientAssumption, DeploymentAssumption, IdType DEF TypeOK, ClientStates, BookOK
<1>2. CASE client[c].op = "put_start"
  <2>1. OpResult(ms, c) = PutStart(ms, ClientId[c], ObjectLen, 1)
        /\ OpOk(ms, c) = PutStartOk(ms, ClientId[c], ObjectLen, 1)
    BY <1>2 DEF OpResult, OpOk
  <2>2. QED BY <1>1, <1>2, <2>1, PutStartType, ExactPutStart, PutStartFrame
<1>3. CASE client[c].op = "put_end"
  <2>1. OpResult(ms, c) = PutEnd(ms, ClientId[c]) /\ OpOk(ms, c) = PutEndOk(ms, ClientId[c])
    BY <1>3 DEF OpResult, OpOk
  <2>2. QED BY <1>1, <1>3, <2>1, PutEndType, ExactPutEnd, OtherFrames
<1>4. CASE client[c].op = "put_revoke"
  <2>1. OpResult(ms, c) = PutRevoke(ms, ClientId[c]) /\ OpOk(ms, c) = PutRevokeOk(ms, ClientId[c])
    BY <1>4 DEF OpResult, OpOk
  <2>2. QED BY <1>1, <1>4, <2>1, PutRevokeType, ExactPutRevoke, OtherFrames
<1>5. CASE client[c].op = "remove"
  <2>1. OpResult(ms, c) = Remove(ms, ClientId[c]) /\ OpOk(ms, c) = RemoveOk(ms, ClientId[c])
    BY <1>5 DEF OpResult, OpOk
  <2>2. QED BY <1>1, <1>5, <2>1, RemoveType, ExactRemove, OtherFrames
<1>6. CASE client[c].op = "set_tenant_quota"
  <2>1. OpResult(ms, c) = SetTenantQuota(ms, ClientId[c][1], QuotaLimit) /\ OpOk(ms, c) = TRUE
    BY <1>6 DEF OpResult, OpOk
  <2>2. SumFunctionOnSet(Reserved(ms.objects), TenantIds(ClientId[c][1])) <= U64Max
    BY <1>1, SumSmall
  <2>3. QED BY <1>1, <1>6, <2>1, <2>2, SetTenantQuotaType, ExactSetTenantQuota, OtherFrames
<1>7. CASE client[c].op = "mount_segment"
  <2>1. OpResult(ms, c) = MountSegment(ms, DefaultNode, DefaultLen) /\ OpOk(ms, c) = TRUE
    BY <1>7 DEF OpResult, OpOk
  <2>2. QED BY <1>1, <1>7, <2>1, MountSegmentType, ExactMountSegment, OtherFrames
<1>8. QED BY <1>1, <1>2, <1>3, <1>4, <1>5, <1>6, <1>7 DEF ClientOps

\* A handler leaves the books in order.
LEMMA OpBook ==
  ASSUME TypeOK, NEW c \in Clients, NEW ms \in MasterStates, BookOK(ms)
  PROVE  BookOK(OpResult(ms, c))
<1> DEFINE new == OpResult(ms, c)
<1>1. /\ UsedExact(new) /\ OpFrame(client[c].op, OpOk(ms, c), ms, new, ClientId[c]) /\ Known(ms)
  BY OpEffect DEF BookOK
<1>2. ClientId[c] \in ClientIds /\ ClientId[c] \in Ids /\ ObjectLen \in Nat
  BY ClientAssumption, DeploymentAssumption DEF ClientIds, U64
<1> HIDE DEF new
<1>3. Known(new)
  BY <1>1, <1>2 DEF Known, OpFrame, NoObject
<1>4. QED BY <1>1, <1>3 DEF BookOK, new

\* A snapshot, and what a Master makes of it, have the objects and quotas of the
\* memory it was taken from.
LEMMA SnapshotBook ==
  /\ \A ms \in MasterStates : MetadataSnapshot(ms) \in Snapshots
  /\ \A ms \in MasterStates : MetadataSnapshot(ms).objects = ms.objects /\ MetadataSnapshot(ms).quotas = ms.quotas
  /\ \A snap \in Snapshots : FromMetadataSnapshot(snap) \in MasterStates
  /\ \A snap \in Snapshots : /\ FromMetadataSnapshot(snap).objects = snap.objects
                             /\ FromMetadataSnapshot(snap).quotas = snap.quotas
<1>1. 0 \in U64
  BY U64MaxAssumption DEF U64
<1>2. QED BY <1>1 DEF MetadataSnapshot, FromMetadataSnapshot, Snapshots, MasterStates

\* Metadata with the same objects and quotas is as good.
LEMMA SameBook ==
  ASSUME NEW s, NEW new, BookOK(s), new.objects = s.objects, new.quotas = s.quotas
  PROVE  BookOK(new)
BY SameAccounting DEF BookOK, Known

\* The empty Master.
LEMMA NewMasterBook == BookOK(NewMaster)
<1>1. UsedExact(NewMaster)
  BY DEF UsedExact, NewMaster, NoQuota
<1>2. Known(NewMaster)
  BY DeploymentAssumption, U64MaxAssumption DEF Known, NewMaster, NoObject, U64
<1>3. QED BY <1>1, <1>2 DEF BookOK

-----------------------------------------------------------------------------
(* What a step does to a client. *)

\* Only this client moves.
Moves(c, r) ==
  client' \in [Clients -> ClientStates] /\ client'[c] = r /\ \A d \in Clients \ {c} : client'[d] = client[d]

\* A client after a call that failed, or worked.
Errs(s, r) ==
  /\ r \in ClientStates /\ r.at = s.at /\ r.place = s.place /\ r.snap = None
  /\ IF s.op = "put_end" THEN r.op = "put_revoke" /\ r.phase = "call"
                         ELSE r.op = s.op /\ r.phase = "failed"
Works(s, r) ==
  /\ r \in ClientStates /\ r.at = s.at /\ r.place = s.place /\ r.snap = None /\ r.op = s.op
  /\ r.phase \in {"write", "committed", "failed", "done"}
  /\ r.phase = "write" <=> s.op = "put_start"
  /\ r.phase = "committed" <=> s.op = "put_end"

\* An action that gives one client a new state moves that client alone.
LEMMA ClientUpdate ==
  ASSUME TypeOK, NEW c \in Clients, NEW r \in ClientStates, client' = [client EXCEPT ![c] = r]
  PROVE  Moves(c, r)
BY DEF TypeOK, Moves

\* NextError is what Errs says.
LEMMA NextErrorErrs ==
  ASSUME NEW s \in ClientStates
  PROVE  Errs(s, NextError(s))
BY DEF Errs, NextError, ClientStates, ClientOps, Phases

\* NextOk is what Works says.
LEMMA NextOkWorks ==
  ASSUME NEW s \in ClientStates
  PROVE  Works(s, NextOk([s EXCEPT !.snap = None]))
<1> DEFINE q == [s EXCEPT !.snap = None]
<1>1. /\ q \in ClientStates /\ q.op = s.op /\ q.at = s.at /\ q.place = s.place /\ q.snap = None
  BY DEF ClientStates
<1> HIDE DEF q
<1>2. PICK phase \in {"write", "committed", "failed", "done"} :
        /\ NextOk(q) = [q EXCEPT !.phase = phase]
        /\ phase = "write" <=> q.op = "put_start"
        /\ phase = "committed" <=> q.op = "put_end"
  BY DEF NextOk
<1>3. Works(s, NextOk(q))
  BY <1>1, <1>2 DEF Works, ClientStates, Phases
<1>4. QED BY <1>3 DEF q

\* Neither breaks what is known of a client.
LEMMA AnswerRecord ==
  ASSUME NEW c \in Clients, NEW s, NEW r, RecordOK(c, s), Errs(s, r) \/ (Works(s, r) /\ s.phase = "saving")
  PROVE  RecordOK(c, r) /\ r.phase \notin {"applied", "saving"}
<1>1. CASE Errs(s, r)
  BY <1>1 DEF RecordOK, Errs, WriterOps
<1>2. CASE Works(s, r) /\ s.phase = "saving"
  <2>1. s.at # None
    BY <1>2 DEF RecordOK
  <2>2. QED BY <1>2, <2>1 DEF RecordOK, Works, WriterOps
<1>3. QED BY <1>1, <1>2

\* The handler's change is applied, and the client knows where.
Applied(m, c, r) ==
  /\ r \in ClientStates /\ r.op = client[c].op /\ r.phase = "applied" /\ r.at = m /\ r.snap = client[c].snap
  /\ client[c].op # "put_start" => r.place = client[c].place
  /\ client[c].op = "put_start" => /\ r.place \in Replica /\ r.place.len = ObjectLen
                                   /\ mem'[m].objects[ClientId[c]].replicas = {r.place}

\* A handler changes one memory and one client.
LEMMA HandleSteps ==
  ASSUME BaseInv, NEW m \in Masters, NEW c \in Clients, Handle(m, c)
  PROVE  /\ mem' = [mem EXCEPT ![m] = OpResult(mem[m], c)] /\ mem'[m] = OpResult(mem[m], c)
         /\ mem[m] \in MasterStates /\ mem' \in [Masters -> MasterStates] /\ \A n \in Masters : BookOK(mem'[n])
         /\ OpFrame(client[c].op, OpOk(mem[m], c), mem[m], mem'[m], ClientId[c])
         /\ client[c].phase = "call" /\ proc[m] = "up"
         /\ ~OpOk(mem[m], c) => \E r : Moves(c, r) /\ Errs(client[c], r)
         /\ OpOk(mem[m], c) => \E r : Moves(c, r) /\ Applied(m, c, r)
<1>1. /\ TypeOK /\ mem[m] \in MasterStates /\ BookOK(mem[m]) /\ client[c] \in ClientStates
      /\ mem \in [Masters -> MasterStates] /\ \A n \in Masters : BookOK(mem[n])
  BY DEF BaseInv, TypeOK, BooksOK
<1>2. mem' = [mem EXCEPT ![m] = OpResult(mem[m], c)] /\ mem'[m] = OpResult(mem[m], c)
  BY <1>1 DEF Handle
<1>3. /\ OpResult(mem[m], c) \in MasterStates
      /\ OpFrame(client[c].op, OpOk(mem[m], c), mem[m], OpResult(mem[m], c), ClientId[c])
      /\ BookOK(OpResult(mem[m], c))
  BY <1>1, OpEffect, OpBook
<1>4. mem' \in [Masters -> MasterStates] /\ \A n \in Masters : BookOK(mem'[n])
  BY <1>1, <1>2, <1>3
<1>5. OpFrame(client[c].op, OpOk(mem[m], c), mem[m], mem'[m], ClientId[c])
  BY <1>2, <1>3
<1>6. ASSUME ~OpOk(mem[m], c)
      PROVE  \E r : Moves(c, r) /\ Errs(client[c], r)
  <2>1. client' = [client EXCEPT ![c] = NextError(client[c])]
    BY <1>1, <1>6 DEF Handle, TypeOK
  <2>2. Errs(client[c], NextError(client[c])) /\ NextError(client[c]) \in ClientStates
    BY <1>1, NextErrorErrs DEF Errs
  <2>3. Moves(c, NextError(client[c]))
    BY <1>1, <2>1, <2>2, ClientUpdate
  <2>4. QED BY <2>2, <2>3
<1>7. ASSUME OpOk(mem[m], c)
      PROVE  \E r : Moves(c, r) /\ Applied(m, c, r)
  <2> DEFINE place == IF client[c].op = "put_start" THEN TheReplica(mem'[m].objects[ClientId[c]])
                                                    ELSE client[c].place
             r == [client[c] EXCEPT !.phase = "applied", !.at = m, !.place = place]
  <2>1. client[c].op = "put_start" => /\ place \in Replica /\ place.len = ObjectLen
                                      /\ mem'[m].objects[ClientId[c]].replicas = {place}
    <3>1. client[c].op = "put_start" =>
            \E x \in Replica : mem'[m].objects[ClientId[c]].replicas = {x} /\ x.len = ObjectLen
      BY <1>5, <1>7 DEF OpFrame
    <3>2. QED BY <3>1 DEF TheReplica
  <2>2. place \in Replica \cup {None} /\ (client[c].op # "put_start" => place = client[c].place)
    BY <1>1, <2>1 DEF ClientStates
  <2>3. client' = [client EXCEPT ![c] = r]
    <3>1. client' = [client EXCEPT ![c] =
             IF ~OpOk(mem[m], c) THEN NextError(client[c])
             ELSE [client[c] EXCEPT !.phase = "applied", !.at = m,
                     !.place = IF client[c].op = "put_start"
                               THEN TheReplica(mem'[m].objects[ClientId[c]]) ELSE client[c].place]]
      BY DEF Handle
    <3>2. QED BY <1>7, <3>1, Zenon
  <2> HIDE DEF place
  <2>4. /\ r \in ClientStates /\ r.op = client[c].op /\ r.phase = "applied" /\ r.at = m
        /\ r.snap = client[c].snap /\ r.place = place
    BY <1>1, <2>2 DEF ClientStates, Phases
  <2> HIDE DEF r
  <2>5. Moves(c, r)
    BY <1>1, <2>3, <2>4, ClientUpdate
  <2>6. Applied(m, c, r)
    BY <2>1, <2>2, <2>4 DEF Applied
  <2>7. QED BY <2>5, <2>6
<1>8. QED BY <1>1, <1>2, <1>4, <1>5, <1>6, <1>7 DEF Handle

\* persist_metadata: the snapshot.
Snapped(c, r) ==
  /\ r \in ClientStates /\ r.op = client[c].op /\ r.phase = "saving" /\ r.at = client[c].at
  /\ r.place = client[c].place /\ r.snap \in Snapshots
  /\ r.snap.objects = mem[client[c].at].objects /\ r.snap.quotas = mem[client[c].at].quotas

\* The snapshot has what the memory of the Master that holds the call has.
LEMMA SnapshotSteps ==
  ASSUME BaseInv, NEW c \in Clients, TakeSnapshot(c)
  PROVE  /\ client[c].phase = "applied" /\ client[c].at \in Masters /\ proc[client[c].at] = "up"
         /\ \E r : Moves(c, r) /\ Snapped(c, r)
<1>1. /\ TypeOK /\ client[c] \in ClientStates /\ client[c].phase = "applied" /\ client[c].at \in Masters
      /\ mem[client[c].at] \in MasterStates /\ proc[client[c].at] = "up"
  BY DEF BaseInv, TypeOK, CallsOK, CallOK, RecordOK, TakeSnapshot
<1> DEFINE snap == MetadataSnapshot(mem[client[c].at])
           r == [client[c] EXCEPT !.phase = "saving", !.snap = snap]
<1>2. /\ snap \in Snapshots /\ snap.objects = mem[client[c].at].objects
      /\ snap.quotas = mem[client[c].at].quotas
  BY <1>1, SnapshotBook
<1>3. client' = [client EXCEPT ![c] = r]
  BY <1>1 DEF TakeSnapshot, TypeOK
<1> HIDE DEF snap
<1>4. /\ r \in ClientStates /\ r.op = client[c].op /\ r.phase = "saving" /\ r.at = client[c].at
      /\ r.place = client[c].place /\ r.snap = snap
  BY <1>1, <1>2 DEF ClientStates, Phases
<1> HIDE DEF r
<1>5. Moves(c, r) /\ Snapped(c, r)
  BY <1>1, <1>2, <1>3, <1>4, ClientUpdate DEF Snapped
<1>6. QED BY <1>1, <1>5

\* The answers.
LEMMA AnswerSteps ==
  ASSUME BaseInv, NEW c \in Clients
  PROVE  /\ Save(c) => \E r : Moves(c, r) /\ Works(client[c], r)
         /\ SaveFails(c) => \E r : Moves(c, r) /\ Errs(client[c], r)
         /\ \A m : Refuse(m, c) => \E r : Moves(c, r) /\ Errs(client[c], r)
<1>1. TypeOK /\ client[c] \in ClientStates /\ client \in [Clients -> ClientStates]
  BY DEF BaseInv, TypeOK
<1>2. Works(client[c], NextOk([client[c] EXCEPT !.snap = None])) /\ Errs(client[c], NextError(client[c]))
  BY <1>1, NextOkWorks, NextErrorErrs
<1> DEFINE ok == NextOk([client[c] EXCEPT !.snap = None])
           err == NextError(client[c])
<1>3. ok \in ClientStates /\ err \in ClientStates
  BY <1>2 DEF Works, Errs
<1>4. Save(c) => client' = [client EXCEPT ![c] = ok]
  BY <1>1 DEF Save
<1>5. /\ SaveFails(c) => client' = [client EXCEPT ![c] = err]
      /\ \A m : Refuse(m, c) => client' = [client EXCEPT ![c] = err]
  BY <1>1 DEF SaveFails, Refuse
<1>6. Works(client[c], ok) /\ Errs(client[c], err)
  BY <1>2
<1> HIDE DEF ok, err
<1>7. Save(c) => Moves(c, ok)
  BY <1>1, <1>3, <1>4, ClientUpdate
<1>8. SaveFails(c) => Moves(c, err)
  BY <1>1, <1>3, <1>5, ClientUpdate
<1>9. \A m : Refuse(m, c) => Moves(c, err)
  BY <1>1, <1>3, <1>5, ClientUpdate
<1>10. QED BY <1>6, <1>7, <1>8, <1>9

\* The writer goes on to put_end, or to put_revoke.
HasWritten(c, r) ==
  /\ r \in ClientStates /\ r.phase = "call" /\ r.at = client[c].at /\ r.place = client[c].place
  /\ r.snap = client[c].snap /\ r.op \in {"put_end", "put_revoke"}
  /\ client[c].place \in Replica /\ client[c].place.offset \in Nat /\ ObjectLen \in Nat
  /\ Body(c) \in Bodies
  /\ \/ dram' = dram /\ r.op = "put_revoke"
     \/ /\ dram' = WritePreallocated(dram, client[c].place.offset, ObjectLen, Body(c))
        /\ r.op = "put_end" => WritePreallocatedOk(client[c].place.offset, ObjectLen, Body(c))

\* The chunk is written by a writer whose put_start was applied.
LEMMA WriteSteps ==
  ASSUME BaseInv, NEW c \in Clients, WriteChunkOf(c) \/ WriteFails(c)
  PROVE  /\ client[c].phase = "write" /\ client[c].op = "put_start" /\ client[c].at # None
         /\ \E r : Moves(c, r) /\ HasWritten(c, r)
<1>1. /\ TypeOK /\ client[c] \in ClientStates /\ client[c].phase = "write"
      /\ client \in [Clients -> ClientStates] /\ RecordOK(c, client[c])
  BY DEF BaseInv, TypeOK, CallsOK, CallOK, WriteChunkOf, WriteFails
<1>2. client[c].op = "put_start" /\ client[c].at # None /\ client[c].place \in Replica
  BY <1>1 DEF RecordOK, WriterOps
<1>3. client[c].place.offset \in Nat /\ ObjectLen \in Nat /\ Body(c) \in Bodies
  BY <1>2, DeploymentAssumption, U64MaxAssumption DEF Replica, U64, Bodies
<1>4. PICK op \in {"put_end", "put_revoke"} :
        /\ client' = [client EXCEPT ![c].phase = "call", ![c].op = op]
        /\ \/ dram' = dram /\ op = "put_revoke"
           \/ /\ dram' = WritePreallocated(dram, client[c].place.offset, ObjectLen, Body(c))
              /\ op = "put_end" => WritePreallocatedOk(client[c].place.offset, ObjectLen, Body(c))
  BY DEF WriteChunkOf, WriteFails
<1> DEFINE r == [client[c] EXCEPT !.phase = "call", !.op = op]
<1>5. client' = [client EXCEPT ![c] = r]
  BY <1>1, <1>4
<1>6. /\ r \in ClientStates /\ r.phase = "call" /\ r.at = client[c].at /\ r.place = client[c].place
      /\ r.snap = client[c].snap /\ r.op = op
  BY <1>1 DEF ClientStates, Phases, ClientOps
<1> HIDE DEF r
<1>7. Moves(c, r)
  BY <1>1, <1>5, <1>6, ClientUpdate
<1>8. HasWritten(c, r)
  BY <1>2, <1>3, <1>4, <1>6 DEF HasWritten
<1>9. QED BY <1>1, <1>2, <1>7, <1>8

-----------------------------------------------------------------------------
(* The base invariant. *)

\* A step of one client keeps it, if the metadata it leaves is good.
LEMMA BaseMove ==
  ASSUME BaseInv, NEW c \in Clients, NEW r, Moves(c, r), RecordOK(c, r),
         r.phase \in {"applied", "saving"} => proc[r.at] = "up",
         r.snap # None => BookOK(r.snap),
         mem' \in [Masters -> MasterStates], \A m \in Masters : BookOK(mem'[m]),
         etcdMetadata' \in Snapshots \cup {None}, etcdMetadata' # None => BookOK(etcdMetadata'),
         dram' \in Drams(Bodies), Sealed(dram'),
         etcdLeader' = etcdLeader, proc' = proc, leaderId' = leaderId, crashes' = crashes
  PROVE  BaseInv'
<1>1. TypeOK'
  BY DEF BaseInv, TypeOK, Moves
<1>2. LeaderKnown'
  BY DEF BaseInv, LeaderKnown
<1>3. CallsOK'
  BY DEF BaseInv, CallsOK, CallOK, Moves
<1>4. BooksOK'
  BY DEF BaseInv, BooksOK, Moves
<1>5. QED BY <1>1, <1>2, <1>3, <1>4 DEF BaseInv

\* An election leaves memory and calls alone; the key, once there, stays.
LEMMA BaseElect ==
  ASSUME BaseInv, NEW m \in Masters, Elect(m)
  PROVE  BaseInv'
<1>1. /\ TypeOK /\ LeaderKnown /\ CallsOK /\ BooksOK /\ proc[m] = "down" /\ BindAddr[m] # None
      /\ etcdLeader' = IF etcdLeader = None THEN BindAddr[m] ELSE etcdLeader
      /\ leaderId' = [leaderId EXCEPT ![m] = etcdLeader'] /\ proc' = [proc EXCEPT ![m] = "elected"]
      /\ UNCHANGED <<etcdMetadata, mem, client, dram, crashes>>
  BY AddressAssumption DEF BaseInv, Elect
<1>2. proc \in [Masters -> {"down", "elected", "up"}] /\ DOMAIN leaderId = Masters
  BY <1>1 DEF TypeOK
<1>3. TypeOK'
  BY <1>1 DEF TypeOK
<1>4. LeaderKnown'
  BY <1>1, <1>2 DEF LeaderKnown
<1>5. CallsOK'
  BY <1>1, <1>2 DEF CallsOK, CallOK
<1>6. BooksOK'
  BY <1>1 DEF BooksOK
<1>7. QED BY <1>1, <1>3, <1>4, <1>5, <1>6 DEF BaseInv

\* A Master that loads has the books of etcd, or none.
LEMMA BaseLoad ==
  ASSUME BaseInv, NEW m \in Masters, Load(m)
  PROVE  BaseInv'
<1> DEFINE restored == IF etcdMetadata = None THEN NewMaster ELSE FromMetadataSnapshot(etcdMetadata)
           new == MountSegment(restored, DefaultNode, DefaultLen)
<1>1. /\ TypeOK /\ LeaderKnown /\ CallsOK /\ BooksOK /\ Sealed(dram) /\ proc[m] = "elected"
      /\ mem' = [mem EXCEPT ![m] = new] /\ proc' = [proc EXCEPT ![m] = "up"]
      /\ UNCHANGED <<etcdLeader, etcdMetadata, leaderId, client, dram, crashes>>
  BY DEF BaseInv, Load
<1>2. restored \in MasterStates /\ BookOK(restored)
  <2>1. CASE etcdMetadata = None
    BY <2>1, NewMasterType, NewMasterBook
  <2>2. CASE etcdMetadata # None
    <3>1. etcdMetadata \in Snapshots /\ BookOK(etcdMetadata)
      BY <1>1, <2>2 DEF TypeOK, BooksOK
    <3>2. /\ restored \in MasterStates /\ restored.objects = etcdMetadata.objects
          /\ restored.quotas = etcdMetadata.quotas
      BY <2>2, <3>1, SnapshotBook
    <3> HIDE DEF restored
    <3>3. QED BY <3>1, <3>2, SameBook
  <2>3. QED BY <2>1, <2>2
<1> HIDE DEF restored
<1>3. /\ new \in MasterStates /\ new.objects = restored.objects /\ new.quotas = restored.quotas
  BY <1>2, DeploymentAssumption, MountSegmentType DEF MountSegment, MasterStates
<1> HIDE DEF new
<1>4. BookOK(new)
  BY <1>2, <1>3, SameBook
<1>5. /\ mem \in [Masters -> MasterStates] /\ proc \in [Masters -> {"down", "elected", "up"}]
  BY <1>1 DEF TypeOK
<1>6. TypeOK'
  BY <1>1, <1>3 DEF TypeOK
<1>7. LeaderKnown'
  BY <1>1, <1>5 DEF LeaderKnown
<1>8. CallsOK'
  BY <1>1, <1>5 DEF CallsOK, CallOK
<1>9. BooksOK'
  BY <1>1, <1>4, <1>5 DEF BooksOK
<1>10. QED BY <1>1, <1>6, <1>7, <1>8, <1>9 DEF BaseInv

\* A handler keeps the books of its Master.
LEMMA BaseHandle ==
  ASSUME BaseInv, NEW m \in Masters, NEW c \in Clients, Handle(m, c)
  PROVE  BaseInv'
<1>1. /\ mem' \in [Masters -> MasterStates] /\ \A n \in Masters : BookOK(mem'[n])
      /\ client[c].phase = "call" /\ proc[m] = "up"
      /\ ~OpOk(mem[m], c) => \E r : Moves(c, r) /\ Errs(client[c], r)
      /\ OpOk(mem[m], c) => \E r : Moves(c, r) /\ Applied(m, c, r)
  BY HandleSteps
<1>2. /\ etcdLeader' = etcdLeader /\ etcdMetadata' = etcdMetadata /\ proc' = proc /\ leaderId' = leaderId
      /\ dram' = dram /\ crashes' = crashes
  BY DEF Handle
<1>3. /\ etcdMetadata \in Snapshots \cup {None} /\ (etcdMetadata # None => BookOK(etcdMetadata))
      /\ dram \in Drams(Bodies) /\ Sealed(dram) /\ RecordOK(c, client[c])
      /\ client[c].snap # None => BookOK(client[c].snap)
  BY DEF BaseInv, TypeOK, BooksOK, CallsOK, CallOK
<1>4. PICK r : Moves(c, r) /\ (Errs(client[c], r) \/ Applied(m, c, r))
  BY <1>1
<1>5. /\ RecordOK(c, r) /\ (r.phase \in {"applied", "saving"} => proc[r.at] = "up")
      /\ r.snap # None => BookOK(r.snap)
  <2>1. CASE Errs(client[c], r)
    BY <1>3, <2>1, AnswerRecord DEF Errs
  <2>2. CASE Applied(m, c, r)
    <3>1. RecordOK(c, r)
      BY <1>1, <1>3, <2>2, NoneAssumption DEF RecordOK, Applied, WriterOps
    <3>2. QED BY <1>1, <1>3, <2>2, <3>1 DEF Applied
  <2>3. QED BY <1>4, <2>1, <2>2
<1>6. QED BY <1>1, <1>2, <1>3, <1>4, <1>5, BaseMove

\* A snapshot copies the books of a memory.
LEMMA BaseTakeSnapshot ==
  ASSUME BaseInv, NEW c \in Clients, TakeSnapshot(c)
  PROVE  BaseInv'
<1>1. PICK r : Moves(c, r) /\ Snapped(c, r)
  BY SnapshotSteps
<1>2. client[c].phase = "applied" /\ client[c].at \in Masters /\ proc[client[c].at] = "up"
  BY SnapshotSteps
<1>3. /\ etcdMetadata \in Snapshots \cup {None} /\ (etcdMetadata # None => BookOK(etcdMetadata))
      /\ dram \in Drams(Bodies) /\ Sealed(dram) /\ RecordOK(c, client[c])
      /\ mem \in [Masters -> MasterStates] /\ \A m \in Masters : BookOK(mem[m])
  BY DEF BaseInv, TypeOK, BooksOK, CallsOK, CallOK
<1>4. /\ etcdLeader' = etcdLeader /\ etcdMetadata' = etcdMetadata /\ proc' = proc /\ leaderId' = leaderId
      /\ mem' = mem /\ dram' = dram /\ crashes' = crashes
  BY DEF TakeSnapshot
<1>5. RecordOK(c, r)
  BY <1>1, <1>2, <1>3, NoneAssumption DEF RecordOK, Snapped, WriterOps
<1>6. BookOK(r.snap)
  BY <1>1, <1>2, <1>3, SameBook DEF Snapped
<1>7. proc[r.at] = "up"
  BY <1>1, <1>2 DEF Snapped
<1>8. QED BY <1>1, <1>3, <1>4, <1>5, <1>6, <1>7, BaseMove

\* An answer moves a snapshot to etcd at most.
LEMMA BaseAnswer ==
  ASSUME BaseInv, NEW c \in Clients, NEW m, Save(c) \/ SaveFails(c) \/ Refuse(m, c)
  PROVE  BaseInv'
<1>1. PICK r : Moves(c, r) /\ (Errs(client[c], r) \/ (Works(client[c], r) /\ client[c].phase = "saving"))
  BY AnswerSteps DEF Save
<1>2. /\ etcdMetadata \in Snapshots \cup {None} /\ (etcdMetadata # None => BookOK(etcdMetadata))
      /\ dram \in Drams(Bodies) /\ Sealed(dram) /\ RecordOK(c, client[c])
      /\ mem \in [Masters -> MasterStates] /\ \A n \in Masters : BookOK(mem[n])
      /\ client[c].snap \in Snapshots \cup {None} /\ (client[c].snap # None => BookOK(client[c].snap))
  BY DEF BaseInv, TypeOK, BooksOK, CallsOK, CallOK, ClientStates
<1>3. /\ etcdLeader' = etcdLeader /\ etcdMetadata' \in {etcdMetadata, client[c].snap}
      /\ proc' = proc /\ leaderId' = leaderId /\ mem' = mem /\ dram' = dram /\ crashes' = crashes
  BY DEF Save, SaveFails, Refuse
<1>4. RecordOK(c, r) /\ r.phase \notin {"applied", "saving"} /\ r.snap = None
  BY <1>1, <1>2, AnswerRecord DEF Errs, Works
<1>5. etcdMetadata' \in Snapshots \cup {None} /\ (etcdMetadata' # None => BookOK(etcdMetadata'))
  BY <1>2, <1>3
<1>6. QED BY <1>1, <1>2, <1>3, <1>4, <1>5, BaseMove

\* A write changes the arena only.
LEMMA BaseWrite ==
  ASSUME BaseInv, NEW c \in Clients, WriteChunkOf(c) \/ WriteFails(c)
  PROVE  BaseInv'
<1>1. PICK r : Moves(c, r) /\ HasWritten(c, r)
  BY WriteSteps
<1>2. client[c].phase = "write" /\ client[c].op = "put_start" /\ client[c].at # None
  BY WriteSteps
<1>3. /\ etcdMetadata \in Snapshots \cup {None} /\ (etcdMetadata # None => BookOK(etcdMetadata))
      /\ dram \in Drams(Bodies) /\ Sealed(dram) /\ RecordOK(c, client[c])
      /\ mem \in [Masters -> MasterStates] /\ \A n \in Masters : BookOK(mem[n])
      /\ client[c].snap # None => BookOK(client[c].snap)
  BY DEF BaseInv, TypeOK, BooksOK, CallsOK, CallOK
<1>4. /\ etcdLeader' = etcdLeader /\ etcdMetadata' = etcdMetadata /\ proc' = proc /\ leaderId' = leaderId
      /\ mem' = mem /\ crashes' = crashes
  BY DEF WriteChunkOf, WriteFails
<1>5. RecordOK(c, r) /\ r.phase = "call" /\ r.snap = client[c].snap
  BY <1>1, <1>2, <1>3 DEF RecordOK, HasWritten, WriterOps
<1>6. dram' \in Drams(Bodies) /\ Sealed(dram')
  <2>1. client[c].place.offset \in Nat /\ ObjectLen \in Nat /\ Body(c) \in Bodies
    BY <1>1 DEF HasWritten
  <2>2. /\ WritePreallocated(dram, client[c].place.offset, ObjectLen, Body(c)) \in Drams(Bodies)
        /\ Sealed(WritePreallocated(dram, client[c].place.offset, ObjectLen, Body(c)))
    BY <1>3, <2>1, WritePreallocatedType
  <2>3. QED BY <1>1, <1>3, <2>2 DEF HasWritten
<1>7. QED BY <1>1, <1>3, <1>4, <1>5, <1>6, BaseMove

\* A lookup changes leases only.
LEMMA BaseGet ==
  ASSUME BaseInv, NEW m \in Masters, NEW id \in Ids, Get(m, id)
  PROVE  BaseInv'
<1>1. /\ TypeOK /\ LeaderKnown /\ CallsOK /\ BooksOK /\ Sealed(dram) /\ mem[m] \in MasterStates
      /\ mem \in [Masters -> MasterStates] /\ BookOK(mem[m])
      /\ mem' = [mem EXCEPT ![m] = GetReplicaList(mem[m], id, 0)]
      /\ UNCHANGED <<etcdLeader, etcdMetadata, proc, leaderId, client, dram, crashes>>
  BY DEF BaseInv, Get, TypeOK, BooksOK
<1> DEFINE new == GetReplicaList(mem[m], id, 0)
<1>2. 0 \in U64
  BY U64MaxAssumption DEF U64
<1>3. new \in MasterStates /\ new.objects = mem[m].objects /\ new.quotas = mem[m].quotas
  BY <1>1, <1>2, GetReplicaListType DEF GetReplicaList, MasterStates
<1> HIDE DEF new
<1>4. BookOK(new)
  BY <1>1, <1>3, SameBook
<1>5. mem' = [mem EXCEPT ![m] = new]
  BY <1>1 DEF new
<1>6. TypeOK'
  BY <1>1, <1>3, <1>5 DEF TypeOK
<1>7. LeaderKnown' /\ CallsOK'
  BY <1>1 DEF LeaderKnown, CallsOK, CallOK
<1>8. BooksOK'
  BY <1>1, <1>4, <1>5 DEF BooksOK
<1>9. QED BY <1>1, <1>6, <1>7, <1>8 DEF BaseInv

\* What a crash does to the clients.
LEMMA CrashSteps ==
  ASSUME BaseInv, NEW m \in Masters, Crash(m)
  PROVE  /\ client' \in [Clients -> ClientStates]
         /\ \A c \in Clients : c \in InProgress(m) => Errs(client[c], client'[c])
         /\ \A c \in Clients : c \notin InProgress(m) => client'[c] = client[c]
         /\ \/ etcdMetadata' = etcdMetadata
            \/ \E c \in InProgress(m) : etcdMetadata' = client[c].snap /\ client[c].phase = "saving"
<1>1. client \in [Clients -> ClientStates]
  BY DEF BaseInv, TypeOK
<1>2. \A c \in Clients : Errs(client[c], NextError(client[c])) /\ NextError(client[c]) \in ClientStates
  BY <1>1, NextErrorErrs DEF Errs
<1>3. client' = [c \in Clients |-> IF c \in InProgress(m) THEN NextError(client[c]) ELSE client[c]]
  BY DEF Crash
<1>4. QED BY <1>1, <1>2, <1>3 DEF Crash

\* A crash empties one memory; what etcd gets by it was some memory.
LEMMA BaseCrash ==
  ASSUME BaseInv, NEW m \in Masters, Crash(m)
  PROVE  BaseInv'
<1>1. /\ TypeOK /\ LeaderKnown /\ CallsOK /\ BooksOK /\ Sealed(dram)
      /\ crashes[m] < MaxCrashes /\ crashes' = [crashes EXCEPT ![m] = crashes[m] + 1]
      /\ crashes \in [Masters -> 0..MaxCrashes]
      /\ proc' = [proc EXCEPT ![m] = "down"] /\ leaderId' = [leaderId EXCEPT ![m] = None]
      /\ mem' = [mem EXCEPT ![m] = NewMaster] /\ etcdLeader' = etcdLeader /\ dram' = dram
  BY DEF BaseInv, Crash, TypeOK
<1>2. /\ client' \in [Clients -> ClientStates]
      /\ \A c \in Clients : c \in InProgress(m) => Errs(client[c], client'[c])
      /\ \A c \in Clients : c \notin InProgress(m) => client'[c] = client[c]
      /\ \/ etcdMetadata' = etcdMetadata
         \/ \E c \in InProgress(m) : etcdMetadata' = client[c].snap
  BY CrashSteps
<1>3. /\ mem \in [Masters -> MasterStates] /\ proc \in [Masters -> {"down", "elected", "up"}]
      /\ etcdMetadata \in Snapshots \cup {None} /\ \A c \in Clients : client[c].snap \in Snapshots \cup {None}
      /\ InProgress(m) \subseteq Clients
  BY <1>1 DEF TypeOK, ClientStates, InProgress
<1>4. etcdMetadata' \in Snapshots \cup {None} /\ (etcdMetadata' # None => BookOK(etcdMetadata'))
  BY <1>1, <1>2, <1>3 DEF BooksOK
<1>5. mem' \in [Masters -> MasterStates] /\ \A n \in Masters : BookOK(mem'[n])
  BY <1>1, <1>3, NewMasterType, NewMasterBook DEF BooksOK
<1>6. TypeOK'
  <2>1. crashes' \in [Masters -> 0..MaxCrashes]
    BY <1>1, DeploymentAssumption
  <2>2. QED BY <1>1, <1>2, <1>4, <1>5, <2>1 DEF TypeOK
<1>7. LeaderKnown'
  BY <1>1, <1>3 DEF LeaderKnown, TypeOK
<1>8. CallsOK'
  <2> SUFFICES ASSUME NEW c \in Clients PROVE CallOK(c)'
    BY DEF CallsOK
  <2>1. CallOK(c) /\ RecordOK(c, client[c])
    BY <1>1 DEF CallsOK, CallOK
  <2>2. CASE c \in InProgress(m)
    BY <1>2, <2>1, <2>2, AnswerRecord DEF CallOK
  <2>3. CASE c \notin InProgress(m)
    <3>1. client'[c] = client[c] /\ (client[c].phase \in {"applied", "saving"} => client[c].at # m)
      BY <1>2, <2>3 DEF InProgress
    <3>2. client[c].phase \in {"applied", "saving"} => client[c].at \in Masters /\ proc[client[c].at] = "up"
      BY <2>1 DEF CallOK, RecordOK
    <3>3. client[c].phase \in {"applied", "saving"} => proc'[client[c].at] = "up"
      BY <1>1, <1>3, <3>1, <3>2
    <3>4. QED BY <2>1, <3>1, <3>3 DEF CallOK
  <2>4. QED BY <2>2, <2>3
<1>9. BooksOK'
  <2>1. \A c \in Clients : client'[c].snap # None => BookOK(client'[c].snap)
    BY <1>1, <1>2 DEF BooksOK, Errs
  <2>2. QED BY <1>4, <1>5, <2>1 DEF BooksOK
<1>10. QED BY <1>1, <1>6, <1>7, <1>8, <1>9 DEF BaseInv

\* Nothing runs and nothing is stored at first.
LEMMA InitBase ==
  ASSUME Init
  PROVE  BaseInv
<1>1. client \in [Clients -> [op : OperatorOps \cup {"put_start"}, phase : {"idle", "call"}, at : {None},
                              snap : {None}, place : {None}]]
      /\ \A c \in Clients : client[c].op = "put_start" <=> c \notin Operators
  BY DEF Init
<1>2. client \in [Clients -> ClientStates]
  BY <1>1, DeploymentAssumption DEF ClientStates, ClientOps, Phases
<1>3. TypeOK
  BY <1>2, NewMasterType, EmptyDramType, DeploymentAssumption DEF Init, TypeOK
<1>4. LeaderKnown
  BY DEF Init, LeaderKnown
<1>5. CallsOK
  BY <1>1, DeploymentAssumption DEF CallsOK, CallOK, RecordOK, WriterOps
<1>6. BooksOK
  BY <1>1, NewMasterBook DEF Init, BooksOK
<1>7. Sealed(dram)
  BY EmptyDramType DEF Init
<1>8. QED BY <1>3, <1>4, <1>5, <1>6, <1>7 DEF BaseInv

\* The base invariant holds always.
LEMMA BaseInvariant == Spec => []BaseInv
<1>1. Init => BaseInv
  BY InitBase
<1>2. BaseInv /\ [Next]_vars => BaseInv'
  <2> SUFFICES ASSUME BaseInv, [Next]_vars PROVE BaseInv'
    OBVIOUS
  <2>1. CASE UNCHANGED vars
    BY <2>1 DEF vars, BaseInv, TypeOK, LeaderKnown, CallsOK, CallOK, BooksOK
  <2>2. QED
    BY <2>1, BaseElect, BaseLoad, BaseCrash, BaseHandle, BaseAnswer, BaseTakeSnapshot, BaseWrite, BaseGet
       DEF Next
<1>3. QED BY <1>1, <1>2, PTL DEF Spec

\* The state of the Masters, of etcd and of the clients has its type.
THEOREM HATypeCorrect == Spec => []TypeOK
<1>1. BaseInv => TypeOK
  BY DEF BaseInv
<1>2. QED BY <1>1, BaseInvariant, PTL

\* Two Masters with different addresses never both accept writes: OneLeader.
THEOREM LeaderUnique == Spec => []OneLeader
<1>1. BaseInv => OneLeader
  BY AddressAssumption DEF BaseInv, LeaderKnown, OneLeader, IsLeader
<1>2. QED BY <1>1, BaseInvariant, PTL

\* Whatever crashes, is lost or overtakes, the metadata in etcd and in every
\* Master's memory has exact used bytes: AccountingSurvives.
THEOREM AccountingAlwaysSurvives == Spec => []AccountingSurvives
<1>1. ASSUME NEW s, s.quotas \in [Tenants -> Quota], UsedExact(s)
      PROVE  Accounted(s.objects, s.quotas)
  <2> SUFFICES ASSUME NEW t \in Tenants, s.quotas[t].set
               PROVE  s.quotas[t].used = ReservedTotal(s.objects, TenantIds(t))
    BY DEF Accounted
  <2>1. s.quotas[t].used = SumFunctionOnSet(Reserved(s.objects), TenantIds(t)) /\ s.quotas[t].used \in U64
    BY <1>1 DEF UsedExact, Quota
  <2>2. QED BY <2>1 DEF ReservedTotal
<1>2. BaseInv => AccountingSurvives
  <2> SUFFICES ASSUME BaseInv PROVE AccountingSurvives
    OBVIOUS
  <2>1. \A m \in Masters : mem[m].quotas \in [Tenants -> Quota] /\ UsedExact(mem[m])
    BY DEF BaseInv, TypeOK, BooksOK, BookOK, MasterStates
  <2>2. etcdMetadata # None => etcdMetadata.quotas \in [Tenants -> Quota] /\ UsedExact(etcdMetadata)
    BY DEF BaseInv, TypeOK, BooksOK, BookOK, Snapshots
  <2>3. QED BY <1>1, <2>1, <2>2 DEF AccountingSurvives
<1>3. QED BY <1>2, BaseInvariant, PTL
-----------------------------------------------------------------------------
(* A lone client: its commit survives. *)

\* Where nothing is committed there is nothing to say.
LEMMA CommitTrivial ==
  ASSUME NEW c \in Clients, client[c].op # "put_end" \/ client[c].phase \in {"idle", "call", "failed"}
  PROVE  CommitAt(c)
BY DEF CommitAt

\* If a single client is left after a step, there was no more than one before.
LEMMA LoneBefore ==
  ASSUME Lone', \A c \in Clients : client[c].at # None => client'[c].at # None
  PROVE  Lone
BY DEF Lone

\* Steps that leave the clients alone.
LEMMA LoneStays ==
  ASSUME LoneInv, client' = client, etcdMetadata' = etcdMetadata,
         \A c \in Clients : client[c].phase = "applied" =>
           mem'[client[c].at].objects = mem[client[c].at].objects
  PROVE  LoneInv'
BY DEF LoneInv, Lone, CommitAt

\* Steps of one client, which is left with nothing committed or a good commit.
LEMMA LoneMove ==
  ASSUME BaseInv, LoneInv, NEW c \in Clients, NEW r, Moves(c, r),
         client[c].at # None => r.at # None, Lone' => CommitAt(c)',
         r.at # None \/ (etcdMetadata' = etcdMetadata /\ \A m \in Masters : mem'[m].objects = mem[m].objects)
  PROVE  LoneInv'
<1> SUFFICES ASSUME Lone', NEW d \in Clients PROVE CommitAt(d)'
  BY DEF LoneInv
<1>1. Lone
  BY LoneBefore DEF Moves
<1>2. CASE d = c
  BY <1>2
<1>3. CASE d # c /\ client[d].at # None
  <2>1. client'[d] = client[d] /\ client'[c] = r
    BY <1>3 DEF Moves
  <2>2. r.at = None
    BY <1>3, <2>1 DEF Lone
  <2>3. CommitAt(d) /\ (client[d].phase = "applied" => client[d].at \in Masters)
    BY <1>1 DEF LoneInv, BaseInv, CallsOK, CallOK, RecordOK
  <2>4. QED BY <2>1, <2>2, <2>3 DEF CommitAt
<1>4. CASE d # c /\ client[d].at = None
  <2>1. client'[d] = client[d] /\ client[d].phase \in {"idle", "call", "failed"}
    BY <1>4 DEF Moves, BaseInv, CallsOK, CallOK, RecordOK
  <2>2. QED BY <2>1 DEF CommitAt
<1>5. QED BY <1>2, <1>3, <1>4

\* A put_end that is applied commits in memory.
LEMMA LoneHandle ==
  ASSUME BaseInv, LoneInv, NEW m \in Masters, NEW c \in Clients, Handle(m, c)
  PROVE  LoneInv'
<1>1. /\ mem' = [mem EXCEPT ![m] = OpResult(mem[m], c)] /\ mem'[m] = OpResult(mem[m], c)
      /\ OpFrame(client[c].op, OpOk(mem[m], c), mem[m], mem'[m], ClientId[c])
      /\ ~OpOk(mem[m], c) => \E r : Moves(c, r) /\ Errs(client[c], r)
      /\ OpOk(mem[m], c) => \E r : Moves(c, r) /\ Applied(m, c, r)
  BY HandleSteps
<1>2. etcdMetadata' = etcdMetadata
  BY DEF Handle
<1>3. CASE ~OpOk(mem[m], c)
  <2>1. PICK r : Moves(c, r) /\ Errs(client[c], r)
    BY <1>1, <1>3
  <2>2. client'[c] = r /\ (client[c].at # None => r.at # None) /\ r.op # "put_end"
    BY <2>1 DEF Moves, Errs
  <2>3. CommitAt(c)'
    BY <2>2 DEF CommitAt
  <2>4. mem'[m].objects = mem[m].objects
    BY <1>1, <1>3 DEF OpFrame
  <2>5. \A n \in Masters : mem'[n].objects = mem[n].objects
    BY <1>1, <2>4 DEF BaseInv, TypeOK
  <2>6. QED BY <1>2, <2>1, <2>2, <2>3, <2>5, LoneMove
<1>4. CASE OpOk(mem[m], c)
  <2>1. PICK r : Moves(c, r) /\ Applied(m, c, r)
    BY <1>1, <1>4
  <2>2. client'[c] = r /\ r.at = m /\ r.at # None /\ r.phase = "applied" /\ r.op = client[c].op
    BY <2>1, NoneAssumption DEF Moves, Applied
  <2>3. r.op = "put_end" => mem'[m].objects[ClientId[c]].status = "Committed"
    BY <1>1, <1>4, <2>2 DEF OpFrame
  <2>4. CommitAt(c)'
    BY <2>2, <2>3 DEF CommitAt
  <2>5. QED BY <2>1, <2>2, <2>4, LoneMove
<1>5. QED BY <1>3, <1>4

\* The snapshot after it has the commit.
LEMMA LoneTakeSnapshot ==
  ASSUME BaseInv, LoneInv, NEW c \in Clients, TakeSnapshot(c)
  PROVE  LoneInv'
<1>1. PICK r : Moves(c, r) /\ Snapped(c, r)
  BY SnapshotSteps
<1>2. client[c].phase = "applied" /\ client[c].at \in Masters
  BY SnapshotSteps
<1>3. client'[c] = r /\ r.at = client[c].at /\ r.phase = "saving" /\ r.op = client[c].op /\ r.at # None
      /\ r.snap.objects = mem[client[c].at].objects
  BY <1>1, <1>2, NoneAssumption DEF Moves, Snapped
<1>4. Lone' => Lone
  BY <1>1, <1>3, LoneBefore DEF Moves
<1>5. Lone => CommitAt(c)
  BY DEF LoneInv
<1>6. Lone' => CommitAt(c)'
  BY <1>2, <1>3, <1>4, <1>5 DEF CommitAt
<1>7. QED BY <1>1, <1>3, <1>6, LoneMove

\* So has etcd when it is answered.
LEMMA LoneAnswer ==
  ASSUME BaseInv, LoneInv, NEW c \in Clients, NEW m, Save(c) \/ SaveFails(c) \/ Refuse(m, c)
  PROVE  LoneInv'
<1>1. RecordOK(c, client[c])
  BY DEF BaseInv, CallsOK, CallOK
<1>2. mem' = mem
  BY DEF Save, SaveFails, Refuse
<1>3. CASE Save(c)
  <2>1. PICK r : Moves(c, r) /\ Works(client[c], r)
    BY <1>3, AnswerSteps
  <2>2. /\ client[c].phase = "saving" /\ client[c].at # None /\ etcdMetadata' = client[c].snap
        /\ client[c].snap # None
    BY <1>1, <1>3, NoneAssumption DEF Save, RecordOK
  <2>3. /\ client'[c] = r /\ r.at # None /\ r.op = client[c].op /\ r.phase \notin {"applied", "saving"}
    BY <2>1, <2>2 DEF Moves, Works
  <2>4. Lone' => Lone
    BY <2>1, <2>3, LoneBefore DEF Moves
  <2>5. Lone => CommitAt(c)
    BY DEF LoneInv
  <2>6. Lone' => CommitAt(c)'
    BY <2>2, <2>3, <2>4, <2>5 DEF CommitAt
  <2>7. QED BY <2>1, <2>3, <2>6, LoneMove
<1>4. CASE SaveFails(c) \/ Refuse(m, c)
  <2>1. PICK r : Moves(c, r) /\ Errs(client[c], r)
    BY <1>4, AnswerSteps
  <2>2. client'[c] = r /\ r.at = client[c].at /\ r.op # "put_end"
    BY <2>1 DEF Moves, Errs
  <2>3. CommitAt(c)'
    BY <2>2 DEF CommitAt
  <2>4. r.at # None \/ etcdMetadata' = etcdMetadata
    BY <1>1, <1>4, <2>2 DEF SaveFails, Refuse, RecordOK
  <2>5. QED BY <1>2, <2>1, <2>2, <2>3, <2>4, LoneMove
<1>5. QED BY <1>3, <1>4

\* Writing the chunk commits nothing.
LEMMA LoneWrite ==
  ASSUME BaseInv, LoneInv, NEW c \in Clients, WriteChunkOf(c) \/ WriteFails(c)
  PROVE  LoneInv'
<1>1. PICK r : Moves(c, r) /\ HasWritten(c, r)
  BY WriteSteps
<1>2. client'[c] = r /\ r.at = client[c].at /\ r.phase = "call"
  BY <1>1 DEF Moves, HasWritten
<1>3. CommitAt(c)'
  BY <1>2 DEF CommitAt
<1>4. etcdMetadata' = etcdMetadata /\ mem' = mem
  BY DEF WriteChunkOf, WriteFails
<1>5. QED BY <1>1, <1>2, <1>3, <1>4, LoneMove

\* Only the calls a Master holds fail with it.
LEMMA LoneCrash ==
  ASSUME BaseInv, LoneInv, NEW m \in Masters, Crash(m)
  PROVE  LoneInv'
<1>1. /\ \A c \in Clients : c \in InProgress(m) => Errs(client[c], client'[c])
      /\ \A c \in Clients : c \notin InProgress(m) => client'[c] = client[c]
      /\ \/ etcdMetadata' = etcdMetadata
         \/ \E c \in InProgress(m) : etcdMetadata' = client[c].snap /\ client[c].phase = "saving"
  BY CrashSteps
<1>2. mem' = [mem EXCEPT ![m] = NewMaster] /\ DOMAIN mem = Masters /\ InProgress(m) \subseteq Clients
  BY DEF Crash, BaseInv, TypeOK, InProgress
<1>3. \A c \in Clients : client'[c].at = client[c].at
  BY <1>1 DEF Errs
<1> SUFFICES ASSUME Lone', NEW d \in Clients PROVE CommitAt(d)'
  BY DEF LoneInv
<1>4. Lone
  BY <1>3, LoneBefore
<1>5. CASE d \in InProgress(m)
  BY <1>1, <1>5 DEF Errs, CommitAt
<1>6. CASE d \notin InProgress(m)
  <2>1. client'[d] = client[d] /\ CommitAt(d) /\ RecordOK(d, client[d])
    BY <1>1, <1>4, <1>6 DEF LoneInv, BaseInv, CallsOK, CallOK
  <2>2. client[d].phase = "applied" => client[d].at \in Masters /\ client[d].at # m
    BY <1>6, <2>1 DEF RecordOK, InProgress
  <2>3. client[d].phase = "applied" => mem'[client[d].at] = mem[client[d].at]
    BY <1>2, <2>2
  <2>4. client[d].phase = "committed" => etcdMetadata' = etcdMetadata
    <3>1. ASSUME client[d].phase = "committed", NEW c \in InProgress(m), client[c].phase = "saving"
          PROVE  FALSE
      <4>1. c \in Clients /\ client[c].at # None /\ client[d].at # None
        BY <1>2, <2>1, <3>1, NoneAssumption DEF RecordOK, InProgress
      <4>2. QED BY <1>4, <3>1, <4>1 DEF Lone
    <3>2. QED BY <1>1, <3>1
  <2>5. QED BY <2>1, <2>3, <2>4 DEF CommitAt
<1>7. QED BY <1>5, <1>6

\* A Master that starts holds no call, and reads change no object.
LEMMA LoneRest ==
  ASSUME BaseInv, LoneInv, NEW m \in Masters, Elect(m) \/ Load(m) \/ \E id \in Ids : Get(m, id)
  PROVE  LoneInv'
<1>1. client' = client /\ etcdMetadata' = etcdMetadata
  BY DEF Elect, Load, Get
<1>2. mem \in [Masters -> MasterStates]
  BY DEF BaseInv, TypeOK
<1>3. \A c \in Clients : client[c].phase = "applied" => client[c].at \in Masters /\ proc[client[c].at] = "up"
  BY DEF BaseInv, CallsOK, CallOK, RecordOK
<1>4. CASE Elect(m)
  BY <1>1, <1>4, LoneStays DEF Elect
<1>5. CASE Load(m)
  <2>1. \A n \in Masters \ {m} : mem'[n] = mem[n]
    BY <1>2, <1>5 DEF Load
  <2>2. proc[m] # "up"
    BY <1>5 DEF Load
  <2>3. QED BY <1>1, <1>3, <2>1, <2>2, LoneStays
<1>6. ASSUME NEW id \in Ids, Get(m, id) PROVE LoneInv'
  <2>1. mem' = [mem EXCEPT ![m] = GetReplicaList(mem[m], id, 0)]
    BY <1>6 DEF Get
  <2>2. GetReplicaList(mem[m], id, 0).objects = mem[m].objects
    BY <1>2 DEF GetReplicaList, MasterStates
  <2>3. \A n \in Masters : mem'[n].objects = mem[n].objects
    BY <1>2, <2>1, <2>2
  <2>4. QED BY <1>1, <1>3, <2>3, LoneStays
<1>7. QED BY <1>4, <1>5, <1>6

\* The invariant of a lone client.
LEMMA LoneInvariant == Spec => []LoneInv
<1>1. Init => LoneInv
  <2> SUFFICES ASSUME Init, NEW c \in Clients PROVE CommitAt(c)
    BY DEF LoneInv
  <2>1. client[c].phase \in {"idle", "call"}
    BY DEF Init
  <2>2. QED BY <2>1, CommitTrivial
<1>2. BaseInv /\ LoneInv /\ [Next]_vars => LoneInv'
  <2> SUFFICES ASSUME BaseInv, LoneInv, [Next]_vars PROVE LoneInv'
    OBVIOUS
  <2>1. CASE UNCHANGED vars
    BY <2>1, LoneStays DEF vars
  <2>2. QED
    BY <2>1, LoneRest, LoneCrash, LoneHandle, LoneAnswer, LoneTakeSnapshot, LoneWrite DEF Next
<1>3. QED BY <1>1, <1>2, BaseInvariant, PTL DEF Spec

\* As long as the Masters have applied calls of one client only, its acknowledged
\* commit is in etcd: LoneCommitSurvives, for any number of crashes, lost answers
\* and refused calls of others.
THEOREM LoneCommitAlwaysSurvives == Spec => []LoneCommitSurvives
<1>1. BaseInv /\ LoneInv => LoneCommitSurvives
  <2> SUFFICES ASSUME BaseInv, LoneInv, Lone, NEW c \in Clients, client[c].phase = "committed"
               PROVE  etcdMetadata # None /\ etcdMetadata.objects[ClientId[c]].status = "Committed"
    BY DEF LoneCommitSurvives, AckedCommitSurvives, Lone
  <2>1. client[c].op = "put_end"
    BY DEF BaseInv, CallsOK, CallOK, RecordOK
  <2>2. QED BY <2>1 DEF LoneInv, CommitAt
<1>2. QED BY <1>1, BaseInvariant, LoneInvariant, PTL

-----------------------------------------------------------------------------
(* Until the leader restarts: what Masters serve is there. *)

\* What a handler does to the segments, and which objects it keeps.
Grows(op, ok, ms, new, id) ==
  /\ Len(ms.segments) \in Nat /\ Len(new.segments) \in Nat /\ Len(ms.segments) <= Len(new.segments)
  /\ \A i \in 1..Len(ms.segments) : /\ ms.segments[i].next \in Nat /\ new.segments[i].next \in Nat
                                    /\ ms.segments[i].next <= new.segments[i].next
  /\ ok /\ op = "put_start" /\ Len(ms.segments) = 1 =>
       \A x \in new.objects[id].replicas :
         x.offset = ms.segments[1].next /\ new.segments[1].next = x.offset + ObjectLen
  /\ op # "remove" => \A x \in Ids : new.objects[x].status = "Absent" => ms.objects[x].status = "Absent"

\* Segments that stay as they are grow.
LEMMA SameSegments ==
  ASSUME NEW ms \in MasterStates, NEW new \in MasterStates, new.segments = ms.segments
  PROVE  /\ Len(ms.segments) \in Nat /\ Len(new.segments) \in Nat /\ Len(ms.segments) <= Len(new.segments)
         /\ \A i \in 1..Len(ms.segments) : /\ ms.segments[i].next \in Nat /\ new.segments[i].next \in Nat
                                           /\ ms.segments[i].next <= new.segments[i].next
<1>1. ms.segments \in Seq(Segment)
  BY DEF MasterStates
<1>2. \A i \in 1..Len(ms.segments) : ms.segments[i] \in Segment
  BY <1>1
<1>3. QED BY <1>1, <1>2, U64MaxAssumption DEF Segment, U64

\* put_start takes the chunk at the pointer, and moves the pointer behind it.
LEMMA PutStartGrows ==
  ASSUME NEW ms \in MasterStates, NEW id \in Ids
  PROVE  Grows("put_start", PutStartOk(ms, id, ObjectLen, 1), ms, PutStart(ms, id, ObjectLen, 1), id)
<1> DEFINE new == PutStart(ms, id, ObjectLen, 1)
           segs == ms.segments
<1>1. ObjectLen \in U64 /\ 1 \in Nat /\ ObjectLen \in Nat /\ ms.objects \in [Ids -> ObjectMeta]
  BY DeploymentAssumption, U64MaxAssumption DEF MasterStates, U64
<1>2. new \in MasterStates
  BY <1>1, PutStartType
<1>3. CASE ~PutStartOk(ms, id, ObjectLen, 1)
  <2>1. new.objects = ms.objects /\ new.segments = ms.segments
    BY <1>1, <1>3, PutStartFailed
  <2> HIDE DEF new
  <2>2. Grows("put_start", PutStartOk(ms, id, ObjectLen, 1), ms, new, id)
    BY <1>2, <1>3, <2>1, SameSegments DEF Grows
  <2>3. QED BY <2>2 DEF new
<1>4. CASE PutStartOk(ms, id, ObjectLen, 1)
  <2>1. /\ new.objects = [ms.objects EXCEPT ![id] = Reservation(ms, ObjectLen, 1)]
        /\ new.segments = AdvanceSegments(segs, ObjectLen, 1)
    BY <1>1, <1>4, PutStartSucceeded
  <2>2. segs \in Seq(Segment) /\ new.segments \in Seq(Segment)
    BY <1>2 DEF MasterStates
  <2> HIDE DEF new
  <2>3. DOMAIN new.segments = DOMAIN segs
    BY <2>1 DEF AdvanceSegments
  <2>4. Len(segs) \in Nat /\ Len(new.segments) = Len(segs)
    BY <2>2, <2>3
  <2>5. ASSUME NEW i \in 1..Len(segs)
        PROVE  /\ segs[i].next \in Nat /\ new.segments[i].next \in Nat /\ segs[i].next <= new.segments[i].next
               /\ i \in Picked(segs, ObjectLen, 1) => new.segments[i].next = segs[i].next + ObjectLen
    <3>1. segs[i] \in Segment /\ segs[i].next \in Nat
      <4>1. segs[i] \in Segment
        BY <2>2, <2>5
      <4>2. QED BY <4>1, U64MaxAssumption DEF Segment, U64
    <3>2. new.segments[i] = IF i \in Picked(segs, ObjectLen, 1)
                            THEN [segs[i] EXCEPT !.next = @ + ObjectLen] ELSE segs[i]
      BY <2>1, <2>2 DEF AdvanceSegments
    <3>3. QED BY <1>1, <3>1, <3>2 DEF Segment
  <2>6. ASSUME Len(segs) = 1, NEW x \in new.objects[id].replicas
        PROVE  x.offset = segs[1].next /\ new.segments[1].next = x.offset + ObjectLen
    <3>1. new.objects[id].replicas = NewReplicas(segs, ObjectLen, 1)
      BY <1>1, <2>1 DEF Reservation
    <3>2. PICK i \in Picked(segs, ObjectLen, 1) :
            x = [seg |-> i, node |-> segs[i].node, offset |-> segs[i].next, len |-> ObjectLen]
      BY <2>6, <3>1 DEF NewReplicas
    <3>3. i = 1
      BY <2>2, <2>6, <3>2 DEF Picked
    <3>4. QED BY <2>5, <2>6, <3>2, <3>3
  <2>7. \A x \in Ids : new.objects[x].status = "Absent" => ms.objects[x].status = "Absent"
    BY <1>1, <2>1 DEF Reservation
  <2>8. Grows("put_start", PutStartOk(ms, id, ObjectLen, 1), ms, new, id)
    BY <2>4, <2>5, <2>6, <2>7 DEF Grows
  <2>9. QED BY <2>8 DEF new
<1>5. QED BY <1>3, <1>4

\* The other operations leave the segments that are there alone.
LEMMA OpGrows ==
  ASSUME TypeOK, NEW c \in Clients, NEW ms \in MasterStates, BookOK(ms)
  PROVE  Grows(client[c].op, OpOk(ms, c), ms, OpResult(ms, c), ClientId[c])
<1> DEFINE id == ClientId[c]
           new == OpResult(ms, c)
<1>1. /\ id \in Ids /\ id[1] \in Tenants /\ client[c].op \in ClientOps /\ new \in MasterStates
      /\ ms.objects \in [Ids -> ObjectMeta]
  BY ClientAssumption, IdType, OpEffect DEF TypeOK, ClientStates, MasterStates
<1> HIDE DEF id
<1>2. CASE client[c].op = "put_start"
  <2>1. new = PutStart(ms, id, ObjectLen, 1) /\ OpOk(ms, c) = PutStartOk(ms, id, ObjectLen, 1)
    BY <1>2 DEF OpResult, OpOk, id
  <2>2. QED BY <1>1, <1>2, <2>1, PutStartGrows DEF id
<1>3. ASSUME client[c].op \in {"put_end", "put_revoke", "remove", "set_tenant_quota"}
      PROVE  /\ new.segments = ms.segments
             /\ client[c].op # "remove" =>
                  \A x \in Ids : new.objects[x].status = "Absent" => ms.objects[x].status = "Absent"
  <2>1. CASE client[c].op = "put_end"
    <3>1. new = PutEnd(ms, id)
      BY <2>1 DEF OpResult, id
    <3> HIDE DEF new
    <3>2. /\ new.segments = ms.segments
          /\ new.objects \in {ms.objects, [ms.objects EXCEPT ![id].status = "Committed"]}
      BY <1>1, <3>1, PutEndFrame
    <3>3. QED BY <1>1, <3>2 DEF ObjectMeta
  <2>2. CASE client[c].op = "put_revoke"
    <3>1. new = PutRevoke(ms, id)
      BY <2>2 DEF OpResult, id
    <3> HIDE DEF new
    <3>2. /\ new.segments = ms.segments
          /\ new.objects \in {ms.objects, [ms.objects EXCEPT ![id].status = "Revoked"]}
      BY <1>1, <3>1, PutRevokeFrame
    <3>3. QED BY <1>1, <3>2 DEF ObjectMeta
  <2>3. CASE client[c].op = "remove"
    <3>1. new = Remove(ms, id)
      BY <2>3 DEF OpResult, id
    <3>2. QED BY <1>1, <2>3, <3>1, RemoveFrame
  <2>4. CASE client[c].op = "set_tenant_quota"
    <3>1. new = SetTenantQuota(ms, id[1], QuotaLimit)
      BY <2>4 DEF OpResult, id
    <3>2. QED BY <1>1, <3>1, SetTenantQuotaFrame
  <2>5. QED BY <1>3, <2>1, <2>2, <2>3, <2>4
<1>4. CASE client[c].op \in {"put_end", "put_revoke", "remove", "set_tenant_quota"}
  <2> HIDE DEF new
  <2>1. Grows(client[c].op, OpOk(ms, c), ms, new, id)
    BY <1>1, <1>3, <1>4, SameSegments DEF Grows
  <2>2. QED BY <2>1 DEF new, id
<1>5. CASE client[c].op = "mount_segment"
  <2> DEFINE segment == [node |-> DefaultNode, len |-> DefaultLen, next |-> 0]
  <2>1. new = MountSegment(ms, DefaultNode, DefaultLen)
    BY <1>5 DEF OpResult
  <2>2. new.objects = ms.objects /\ new.segments = Append(ms.segments, segment)
    BY <2>1, MountSegmentFrame
  <2>3. ms.segments \in Seq(Segment) /\ segment \in Segment
    BY DeploymentAssumption, U64MaxAssumption DEF MasterStates, Segment, U64
  <2> HIDE DEF new, segment
  <2>4. /\ Len(ms.segments) \in Nat /\ Len(new.segments) = Len(ms.segments) + 1
        /\ \A i \in 1..Len(ms.segments) : new.segments[i] = ms.segments[i]
    BY <2>2, <2>3
  <2>5. \A i \in 1..Len(ms.segments) : ms.segments[i].next \in Nat
    BY SameSegments
  <2>6. Grows(client[c].op, OpOk(ms, c), ms, new, id)
    BY <1>5, <2>2, <2>4, <2>5 DEF Grows
  <2>7. QED BY <2>6 DEF new, id
<1>6. QED BY <1>1, <1>2, <1>4, <1>5 DEF ClientOps

\* Segments and sequences of a Master that loads.
LEMMA LoadSteps ==
  ASSUME BaseInv, NEW m \in Masters, Load(m)
  PROVE  \E new \in MasterStates :
           /\ mem' = [mem EXCEPT ![m] = new] /\ Len(new.segments) = 1 /\ new.segments # <<>>
           /\ IF etcdMetadata = None THEN new.objects = NewMaster.objects
                                     ELSE new.objects = etcdMetadata.objects
<1> DEFINE restored == IF etcdMetadata = None THEN NewMaster ELSE FromMetadataSnapshot(etcdMetadata)
           loaded == MountSegment(restored, DefaultNode, DefaultLen)
           segment == [node |-> DefaultNode, len |-> DefaultLen, next |-> 0]
<1>1. etcdMetadata \in Snapshots \cup {None} /\ mem' = [mem EXCEPT ![m] = loaded]
  BY DEF BaseInv, TypeOK, Load
<1>2. /\ restored \in MasterStates /\ restored.segments = <<>>
      /\ IF etcdMetadata = None THEN restored.objects = NewMaster.objects
                                ELSE restored.objects = etcdMetadata.objects
  <2>1. CASE etcdMetadata = None
    BY <2>1, NewMasterType DEF NewMaster
  <2>2. CASE etcdMetadata # None
    BY <1>1, <2>2, SnapshotBook DEF FromMetadataSnapshot
  <2>3. QED BY <2>1, <2>2
<1> HIDE DEF restored
<1>3. /\ loaded \in MasterStates /\ loaded.objects = restored.objects
      /\ loaded.segments = Append(restored.segments, segment)
  BY <1>2, DeploymentAssumption, MountSegmentType, MountSegmentFrame
<1>4. Len(loaded.segments) = 1 /\ loaded.segments # <<>>
  BY <1>2, <1>3
<1> HIDE DEF loaded
<1>5. QED BY <1>1, <1>2, <1>3, <1>4

\* A lookup leaves objects and segments alone.
LEMMA GetSteps ==
  ASSUME BaseInv, NEW m \in Masters, NEW id \in Ids, Get(m, id)
  PROVE  \A n \in Masters : mem'[n].objects = mem[n].objects /\ mem'[n].segments = mem[n].segments
<1>1. mem \in [Masters -> MasterStates] /\ mem' = [mem EXCEPT ![m] = GetReplicaList(mem[m], id, 0)]
  BY DEF BaseInv, TypeOK, Get
<1> DEFINE got == GetReplicaList(mem[m], id, 0)
<1>2. got.objects = mem[m].objects /\ got.segments = mem[m].segments
  <2>1. mem[m] \in MasterStates
    BY <1>1
  <2>2. QED BY <2>1 DEF GetReplicaList, MasterStates
<1> HIDE DEF got
<1>3. mem' = [mem EXCEPT ![m] = got]
  BY <1>1 DEF got
<1>4. QED BY <1>1, <1>2, <1>3

\* The Master that handles a call is the leader, and runs.
LEMMA HandlerLeads ==
  ASSUME BaseInv, NEW m \in Masters, NEW c \in Clients, Handle(m, c)
  PROVE  proc[m] = "up" /\ etcdLeader = BindAddr[m]
BY DEF BaseInv, LeaderKnown, Handle, IsLeader

\* Steps of clients whose calls were served by the same Master, if by any.
LEMMA ServiceMove ==
  ASSUME ServiceInv, proc' = proc, etcdLeader' = etcdLeader,
         \A m \in Masters : mem'[m].segments = mem[m].segments, \A m \in Masters : proc[m] # "up" => mem'[m] = mem[m],
         \A c \in Clients : client'[c].at = client[c].at
  PROVE  ServiceInv'
BY DEF ServiceInv

\* Only the leader serves, and only Masters that are up have something in memory.
LEMMA ServiceStep ==
  ASSUME BaseInv, ServiceInv, Next
  PROVE  ServiceInv'
<1>1. /\ proc \in [Masters -> {"down", "elected", "up"}] /\ mem \in [Masters -> MasterStates]
      /\ client \in [Clients -> ClientStates]
  BY DEF BaseInv, TypeOK
<1>2. ASSUME NEW m \in Masters, Elect(m) PROVE ServiceInv'
  <2>1. /\ proc[m] = "down" /\ proc' = [proc EXCEPT ![m] = "elected"] /\ mem' = mem /\ client' = client
        /\ etcdLeader # None => etcdLeader' = etcdLeader
    BY <1>2 DEF Elect
  <2>2. \A c \in Clients : client[c].at # None => etcdLeader # None
    BY AddressAssumption DEF ServiceInv
  <2>3. QED BY <1>1, <2>1, <2>2 DEF ServiceInv
<1>3. ASSUME NEW m \in Masters, Load(m) PROVE ServiceInv'
  <2>1. PICK new \in MasterStates : mem' = [mem EXCEPT ![m] = new] /\ new.segments # <<>>
    BY <1>3, LoadSteps
  <2>2. proc' = [proc EXCEPT ![m] = "up"] /\ client' = client /\ etcdLeader' = etcdLeader
    BY <1>3 DEF Load
  <2>3. QED BY <1>1, <2>1, <2>2 DEF ServiceInv
<1>4. ASSUME NEW m \in Masters, Crash(m) PROVE ServiceInv'
  <2>1. \A c \in Clients : client'[c].at = client[c].at
    BY <1>4, CrashSteps DEF Errs
  <2>2. proc' = [proc EXCEPT ![m] = "down"] /\ mem' = [mem EXCEPT ![m] = NewMaster] /\ etcdLeader' = etcdLeader
    BY <1>4 DEF Crash
  <2>3. QED BY <1>1, <2>1, <2>2 DEF ServiceInv
<1>5. ASSUME NEW m \in Masters, NEW c \in Clients, Handle(m, c) PROVE ServiceInv'
  <2>1. /\ mem' = [mem EXCEPT ![m] = OpResult(mem[m], c)] /\ mem'[m] = OpResult(mem[m], c)
        /\ mem[m] \in MasterStates /\ mem' \in [Masters -> MasterStates]
        /\ ~OpOk(mem[m], c) => \E r : Moves(c, r) /\ Errs(client[c], r)
        /\ OpOk(mem[m], c) => \E r : Moves(c, r) /\ Applied(m, c, r)
    BY <1>5, HandleSteps
  <2>2. proc[m] = "up" /\ etcdLeader = BindAddr[m] /\ proc' = proc /\ etcdLeader' = etcdLeader
    BY <1>5, HandlerLeads DEF Handle
  <2>3. mem'[m].segments # <<>>
    <3>1. Grows(client[c].op, OpOk(mem[m], c), mem[m], OpResult(mem[m], c), ClientId[c])
      BY <2>1, OpGrows DEF BaseInv, BooksOK
    <3>2. mem[m].segments \in Seq(Segment) /\ mem'[m].segments \in Seq(Segment) /\ mem[m].segments # <<>>
      BY <2>1, <2>2 DEF MasterStates, ServiceInv
    <3>3. Len(mem[m].segments) <= Len(mem'[m].segments)
      BY <2>1, <3>1 DEF Grows
    <3>4. QED BY <3>2, <3>3
  <2>4. PICK r : Moves(c, r) /\ r.at \in {client[c].at, m}
    BY <2>1 DEF Errs, Applied
  <2>5. \A d \in Clients : client'[d].at \in {client[d].at, m}
    BY <2>4 DEF Moves
  <2>6. \A n \in Masters \ {m} : mem'[n] = mem[n]
    BY <1>1, <2>1
  <2>7. QED BY <2>2, <2>3, <2>5, <2>6 DEF ServiceInv
<1>6. ASSUME NEW m \in Masters, NEW id \in Ids, Get(m, id) PROVE ServiceInv'
  <2>1. /\ proc[m] = "up" /\ client' = client /\ proc' = proc /\ etcdLeader' = etcdLeader
        /\ \A n \in Masters \ {m} : mem'[n] = mem[n]
    BY <1>1, <1>6 DEF Get
  <2>2. QED BY <1>6, <2>1, GetSteps, ServiceMove
<1>7. ASSUME NEW c \in Clients, NEW m \in Masters, Refuse(m, c) PROVE ServiceInv'
  <2>1. mem' = mem /\ proc' = proc /\ etcdLeader' = etcdLeader
    BY <1>7 DEF Refuse
  <2>2. PICK r : Moves(c, r) /\ r.at = client[c].at
    BY <1>7, AnswerSteps DEF Errs
  <2>3. \A d \in Clients : client'[d].at = client[d].at
    BY <2>2 DEF Moves
  <2>4. QED BY <2>1, <2>3, ServiceMove
<1>8. ASSUME NEW c \in Clients, TakeSnapshot(c) \/ Save(c) \/ SaveFails(c) \/ WriteChunkOf(c) \/ WriteFails(c)
      PROVE  ServiceInv'
  <2>1. mem' = mem /\ proc' = proc /\ etcdLeader' = etcdLeader
    BY <1>8 DEF TakeSnapshot, Save, SaveFails, WriteChunkOf, WriteFails
  <2>2. PICK r : Moves(c, r) /\ r.at = client[c].at
    BY <1>8, AnswerSteps, SnapshotSteps, WriteSteps DEF Errs, Works, Snapped, HasWritten
  <2>3. \A d \in Clients : client'[d].at = client[d].at
    BY <2>2 DEF Moves
  <2>4. QED BY <2>1, <2>3, ServiceMove
<1>9. QED BY <1>2, <1>3, <1>4, <1>5, <1>6, <1>7, <1>8 DEF Next

\* The invariant of the service.
LEMMA ServiceInvariant == Spec => []ServiceInv
<1>1. Init => ServiceInv
  BY DEF Init, ServiceInv
<1>2. BaseInv /\ ServiceInv /\ [Next]_vars => ServiceInv'
  <2>1. ASSUME BaseInv, ServiceInv, UNCHANGED vars PROVE ServiceInv'
    BY <2>1 DEF vars, ServiceInv
  <2>2. QED BY <2>1, ServiceStep
<1>3. QED BY <1>1, <1>2, BaseInvariant, PTL DEF Spec

\* A leader that has not crashed after a step had not crashed before it.
LEMMA FirstBefore ==
  ASSUME BaseInv, ServiceInv, Next, FirstLeader'
  PROVE  FirstLeader
<1> SUFFICES ASSUME NEW l \in Masters, etcdLeader = BindAddr[l]
             PROVE  crashes[l] = 0 /\ Len(mem[l].segments) <= 1
  BY DEF FirstLeader
<1>1. /\ crashes \in [Masters -> 0..MaxCrashes] /\ mem \in [Masters -> MasterStates] /\ MaxCrashes \in Nat
      /\ etcdLeader # None
  BY AddressAssumption, DeploymentAssumption DEF BaseInv, TypeOK
<1>2. ASSUME etcdLeader' = etcdLeader PROVE crashes'[l] = 0 /\ Len(mem'[l].segments) <= 1
  BY <1>2 DEF FirstLeader
<1>3. ASSUME NEW m \in Masters, Elect(m) PROVE crashes[l] = 0 /\ Len(mem[l].segments) <= 1
  BY <1>1, <1>2, <1>3 DEF Elect
<1>4. ASSUME NEW m \in Masters, Load(m) PROVE crashes[l] = 0 /\ Len(mem[l].segments) <= 1
  <2>1. /\ etcdLeader' = etcdLeader /\ crashes' = crashes /\ mem[m] = NewMaster
        /\ \A n \in Masters \ {m} : mem'[n] = mem[n]
    BY <1>1, <1>4 DEF Load, ServiceInv
  <2>2. Len(NewMaster.segments) = 0
    BY DEF NewMaster
  <2>3. QED BY <1>2, <2>1, <2>2
<1>5. ASSUME NEW m \in Masters, Crash(m) PROVE crashes[l] = 0 /\ Len(mem[l].segments) <= 1
  <2>1. /\ etcdLeader' = etcdLeader /\ crashes' = [crashes EXCEPT ![m] = crashes[m] + 1]
        /\ \A n \in Masters \ {m} : mem'[n] = mem[n]
    BY <1>1, <1>5 DEF Crash
  <2>2. QED BY <1>1, <1>2, <2>1
<1>6. ASSUME NEW m \in Masters, NEW c \in Clients, Handle(m, c)
      PROVE  crashes[l] = 0 /\ Len(mem[l].segments) <= 1
  <2>1. etcdLeader' = etcdLeader /\ crashes' = crashes
    BY <1>6 DEF Handle
  <2>2. /\ mem' = [mem EXCEPT ![m] = OpResult(mem[m], c)] /\ mem'[m] = OpResult(mem[m], c)
        /\ mem[m] \in MasterStates
    BY <1>6, HandleSteps
  <2>3. Grows(client[c].op, OpOk(mem[m], c), mem[m], OpResult(mem[m], c), ClientId[c])
    BY <2>2, OpGrows DEF BaseInv, BooksOK
  <2>4. /\ Len(mem[m].segments) \in Nat /\ Len(mem'[m].segments) \in Nat
        /\ Len(mem[m].segments) <= Len(mem'[m].segments) /\ \A n \in Masters \ {m} : mem'[n] = mem[n]
    BY <1>1, <2>2, <2>3 DEF Grows
  <2>5. QED BY <1>2, <2>1, <2>4
<1>7. ASSUME NEW m \in Masters, NEW id \in Ids, Get(m, id)
      PROVE  crashes[l] = 0 /\ Len(mem[l].segments) <= 1
  <2>1. etcdLeader' = etcdLeader /\ crashes' = crashes
    BY <1>7 DEF Get
  <2>2. QED BY <1>2, <1>7, <2>1, GetSteps
<1>8. ASSUME NEW m \in Masters, NEW c \in Clients, Refuse(m, c)
      PROVE  crashes[l] = 0 /\ Len(mem[l].segments) <= 1
  BY <1>2, <1>8 DEF Refuse
<1>9. ASSUME NEW c \in Clients, TakeSnapshot(c) \/ Save(c) \/ SaveFails(c) \/ WriteChunkOf(c) \/ WriteFails(c)
      PROVE  crashes[l] = 0 /\ Len(mem[l].segments) <= 1
  BY <1>2, <1>9 DEF TakeSnapshot, Save, SaveFails, WriteChunkOf, WriteFails
<1>10. QED BY <1>3, <1>4, <1>5, <1>6, <1>7, <1>8, <1>9 DEF Next

\* A writer keeps its place, does not go back to put_start, and what it has written
\* stays there; what was removed stays so.
Kept(cl, d, cl2, d2) ==
  /\ \A id : Gone(cl, id) => Gone(cl2, id)
  /\ \A w \in Writers : cl[w].at # None =>
       /\ cl2[w].at # None /\ cl2[w].place = cl[w].place
       /\ cl[w].op # "put_start" => cl2[w].op # "put_start" /\ (Written(cl, d, w) => Written(cl2, d2, w))

\* An object that stays, loses its lease or is revoked or removed stays in its place.
LEMMA PlaceKept ==
  ASSUME NEW cl, NEW d, NEW cl2, NEW d2, NEW o, NEW o2, NEW id,
         PlaceOK(cl, d, o, id), Kept(cl, d, cl2, d2),
         o2.status # "Absent" => /\ o.status # "Absent" /\ o2.replicas = o.replicas
                                 /\ o2.status = "Committed" => o.status = "Committed"
  PROVE  PlaceOK(cl2, d2, o2, id)
<1> SUFFICES ASSUME o2.status # "Absent"
             PROVE  \E w \in Writers :
                      /\ ClientId[w] = id /\ cl2[w].at # None /\ o2.replicas = {cl2[w].place}
                      /\ o2.status = "Committed" /\ OwnCommit(cl2, id) =>
                           cl2[w].op # "put_start" /\ Written(cl2, d2, w)
  BY DEF PlaceOK
<1>1. PICK w \in Writers :
        /\ ClientId[w] = id /\ cl[w].at # None /\ o.replicas = {cl[w].place}
        /\ o.status = "Committed" /\ OwnCommit(cl, id) => cl[w].op # "put_start" /\ Written(cl, d, w)
  BY DEF PlaceOK
<1>2. /\ cl2[w].at # None /\ cl2[w].place = cl[w].place
      /\ cl[w].op # "put_start" => cl2[w].op # "put_start" /\ (Written(cl, d, w) => Written(cl2, d2, w))
  BY <1>1 DEF Kept
<1>3. OwnCommit(cl2, id) => OwnCommit(cl, id)
  BY DEF OwnCommit, Kept
<1>4. QED BY <1>1, <1>2, <1>3

\* Books with the same objects are as well placed.
LEMMA PlacesKept ==
  ASSUME NEW cl, NEW d, NEW cl2, NEW d2, NEW s, NEW s2, PlacesOK(cl, d, s), Kept(cl, d, cl2, d2),
         s2.objects = s.objects
  PROVE  PlacesOK(cl2, d2, s2)
<1> SUFFICES ASSUME NEW id \in Ids PROVE PlaceOK(cl2, d2, s2.objects[id], id)
  BY DEF PlacesOK
<1>1. PlaceOK(cl, d, s.objects[id], id)
  BY DEF PlacesOK
<1>2. s2.objects[id] = s.objects[id]
  OBVIOUS
<1>3. QED BY <1>1, <1>2, PlaceKept

\* An empty Master has no objects to place.
LEMMA NewMasterPlaces ==
  ASSUME NEW cl, NEW d
  PROVE  PlacesOK(cl, d, NewMaster)
BY DEF PlacesOK, PlaceOK, NewMaster, NoObject

\* What a writer has written does not depend on the rest of its state.
LEMMA WrittenKept ==
  ASSUME NEW cl, NEW cl2, NEW d, NEW w, Written(cl, d, w), cl2[w].place = cl[w].place
  PROVE  Written(cl2, d, w)
BY DEF Written

\* A client's step that leaves its place, its progress and the arena alone.
Onward(s, r) ==
  /\ s.at # None => r.at # None /\ r.place = s.place /\ (s.op # "put_start" => r.op # "put_start")
  /\ s.op = "remove" => r.op = "remove" /\ r.phase \notin {"idle", "call"}

\* What was removed stays so.
LEMMA StaysGone ==
  ASSUME NEW cl, NEW cl2, NEW id, Gone(cl, id),
         \A c \in Operators : cl2[c] = cl[c] \/ Onward(cl[c], cl2[c])
  PROVE  Gone(cl2, id)
<1>1. PICK c \in Operators : /\ cl[c].op = "remove" /\ ClientId[c] = id
                             /\ cl[c].phase \notin {"idle", "call"}
  BY DEF Gone
<1>2. cl2[c].op = "remove" /\ cl2[c].phase \notin {"idle", "call"}
  BY <1>1 DEF Onward
<1>3. QED BY <1>1, <1>2 DEF Gone

\* Such a step keeps what writers have.
LEMMA MoveKept ==
  ASSUME NEW c \in Clients, NEW r, Moves(c, r), Onward(client[c], r), dram' = dram
  PROVE  Kept(client, dram, client', dram')
<1>1. ASSUME NEW w \in Writers, client[w].at # None
      PROVE  /\ client'[w].at # None /\ client'[w].place = client[w].place
             /\ client[w].op # "put_start" => /\ client'[w].op # "put_start"
                                              /\ Written(client, dram, w) => Written(client', dram', w)
  <2>1. /\ client'[w].at # None /\ client'[w].place = client[w].place
        /\ client[w].op # "put_start" => client'[w].op # "put_start"
    BY <1>1 DEF Moves, Onward, Writers
  <2>2. QED BY <2>1, WrittenKept
<1>2. \A d \in Operators : client'[d] = client[d] \/ Onward(client[d], client'[d])
  BY OperatorAssumption DEF Moves
<1>3. \A id : Gone(client, id) => Gone(client', id)
  BY <1>2, StaysGone
<1>4. QED BY <1>1, <1>3 DEF Kept

\* A step of one client keeps the invariant if what it leaves in memory is placed.
LEMMA WriterMove ==
  ASSUME BaseInv, WriterInv, NEW c \in Clients, NEW r, Moves(c, r), Kept(client, dram, client', dram'),
         c \in Writers => WriterOK(client', dram', c),
         \A m \in Masters : PlacesOK(client', dram', mem'[m]),
         etcdMetadata' = etcdMetadata
           \/ (etcdMetadata' = client[c].snap /\ etcdMetadata' # None),
         r.snap = client[c].snap \/ r.snap = None \/ PlacesOK(client', dram', r.snap)
  PROVE  WriterInv'
<1>1. /\ \A d \in Clients : client[d].snap # None => PlacesOK(client, dram, client[d].snap)
      /\ etcdMetadata # None => PlacesOK(client, dram, etcdMetadata)
  BY DEF WriterInv
<1>2. \A s : PlacesOK(client, dram, s) => PlacesOK(client', dram', s)
  BY PlacesKept
<1>3. ASSUME NEW w \in Writers PROVE WriterOK(client', dram', w)
  <2>1. CASE w = c
    BY <2>1
  <2>2. CASE w # c
    <3>1. client'[w] = client[w] /\ WriterOK(client, dram, w)
      BY <2>2 DEF Moves, Writers, WriterInv
    <3>2. client[w].op = "put_end" => client[w].at # None
      BY DEF BaseInv, CallsOK, CallOK, RecordOK, Writers
    <3>3. client[w].op = "put_end" => Written(client', dram', w)
      BY <3>1, <3>2 DEF WriterOK, Kept
    <3>4. QED BY <3>1, <3>3 DEF WriterOK
  <2>3. QED BY <2>1, <2>2
<1>4. etcdMetadata' # None => PlacesOK(client', dram', etcdMetadata')
  BY <1>1, <1>2
<1>5. ASSUME NEW d \in Clients, client'[d].snap # None PROVE PlacesOK(client', dram', client'[d].snap)
  <2>1. CASE d = c
    <3>1. client'[d] = r
      BY <2>1 DEF Moves
    <3>2. CASE r.snap = client[c].snap
      BY <1>1, <1>2, <1>5, <2>1, <3>1, <3>2
    <3>3. QED BY <1>5, <3>1, <3>2
  <2>2. CASE d # c
    <3>1. client'[d] = client[d]
      BY <2>2 DEF Moves
    <3>2. QED BY <1>1, <1>2, <1>5, <3>1
  <2>3. QED BY <2>1, <2>2
<1>6. QED BY <1>3, <1>4, <1>5 DEF WriterInv

\* The record of the writer after a step that is not the write.
LEMMA OnwardOK ==
  ASSUME NEW c \in Writers, NEW r, Moves(c, r), Onward(client[c], r), dram' = dram, client[c].at # None,
         WriterOK(client, dram, c), r.op = "put_end" => client[c].op = "put_end"
  PROVE  WriterOK(client', dram', c)
<1>1. client'[c] = r /\ r.place = client[c].place
  BY DEF Moves, Onward
<1>2. QED BY <1>1, WrittenKept DEF WriterOK

\* put_start gives the writer its place, put_end commits what was written.
LEMMA WriterHandle ==
  ASSUME BaseInv, WriterInv, PlacingInv, NEW m \in Masters, NEW c \in Clients, Handle(m, c)
  PROVE  WriterInv'
<1>1. /\ mem' = [mem EXCEPT ![m] = OpResult(mem[m], c)] /\ mem'[m] = OpResult(mem[m], c)
      /\ OpFrame(client[c].op, OpOk(mem[m], c), mem[m], mem'[m], ClientId[c])
      /\ client[c].phase = "call"
      /\ ~OpOk(mem[m], c) => \E r : Moves(c, r) /\ Errs(client[c], r)
      /\ OpOk(mem[m], c) => \E r : Moves(c, r) /\ Applied(m, c, r)
  BY HandleSteps
<1>2. etcdMetadata' = etcdMetadata /\ dram' = dram
  BY DEF Handle
<1>3. RecordOK(c, client[c]) /\ mem \in [Masters -> MasterStates] /\ ClientId[c] \in Ids
  BY ClientAssumption DEF BaseInv, CallsOK, CallOK, TypeOK
<1>4. PICK r : /\ Moves(c, r) /\ r.snap \in {None, client[c].snap}
               /\ \/ Errs(client[c], r) /\ ~OpOk(mem[m], c)
                  \/ Applied(m, c, r) /\ OpOk(mem[m], c)
  BY <1>1 DEF Errs, Applied
<1>5. client'[c] = r
  BY <1>4 DEF Moves
<1>6. Onward(client[c], r) /\ (r.op = "put_end" => client[c].op = "put_end")
  BY <1>1, <1>3, <1>4, NoneAssumption DEF Onward, Errs, Applied, RecordOK
<1>7. Kept(client, dram, client', dram')
  BY <1>2, <1>4, <1>6, MoveKept
<1>8. c \in Writers => WriterOK(client', dram', c)
  <2> SUFFICES ASSUME c \in Writers PROVE WriterOK(client', dram', c)
    OBVIOUS
  <2>1. WriterOK(client, dram, c)
    BY DEF WriterInv
  <2>2. CASE client[c].at # None
    BY <1>2, <1>4, <1>6, <2>1, <2>2, OnwardOK
  <2>3. CASE client[c].at = None
    <3>1. client[c].op = "put_start" \/ client[c].op \notin WriterOps
      BY <1>3, <2>3 DEF RecordOK, WriterOps
    <3>2. client[c].op = "put_start"
      BY <1>3, <3>1 DEF RecordOK, Writers
    <3>3. r.op # "put_end" /\ (r.at # None => r.place.len = ObjectLen)
      BY <1>4, <2>3, <3>2 DEF Errs, Applied
    <3>4. QED BY <1>5, <3>3 DEF WriterOK
  <2>4. QED BY <2>2, <2>3
<1>9. ASSUME NEW id \in Ids PROVE PlaceOK(client', dram', mem'[m].objects[id], id)
  <2>1. PlaceOK(client, dram, mem[m].objects[id], id)
    BY DEF WriterInv, PlacesOK
  <2>2. CASE id # ClientId[c] \/ ~OpOk(mem[m], c)
    <3>1. mem'[m].objects[id] = mem[m].objects[id]
      BY <1>1, <2>2 DEF OpFrame
    <3>2. QED BY <1>7, <2>1, <3>1, PlaceKept
  <2>3. CASE id = ClientId[c] /\ OpOk(mem[m], c) /\ client[c].op = "put_start"
    <3>1. /\ Applied(m, c, r) /\ c \in Writers
          /\ mem'[m].objects[id].status = "Reserving"
      BY <1>1, <1>3, <1>4, <2>3 DEF OpFrame, RecordOK, WriterOps, Writers
    <3>2. /\ client'[c].at # None /\ mem'[m].objects[id].replicas = {client'[c].place}
      BY <1>5, <2>3, <3>1, NoneAssumption DEF Applied
    <3>3. QED BY <2>3, <3>1, <3>2 DEF PlaceOK
  <2>4. CASE id = ClientId[c] /\ OpOk(mem[m], c) /\ client[c].op # "put_start"
    <3> DEFINE o == mem[m].objects[id]
               o2 == mem'[m].objects[id]
    <3>1. \/ o2.status = "Absent"
          \/ /\ o2.replicas = o.replicas
             /\ o2.status # "Absent" => o.status # "Absent"
             /\ o2.status = "Committed" => o.status = "Committed" \/ client[c].op = "put_end"
      BY <1>1, <2>4, SMTT(20) DEF OpFrame, NoObject
    <3> HIDE DEF o, o2
    <3>2. CASE o2.status = "Absent"
      BY <3>2 DEF PlaceOK, o2
    <3>3. CASE o2.status # "Absent" /\ (o2.status = "Committed" => o.status = "Committed")
      <4>1. PlaceOK(client, dram, o, id)
        BY <2>1 DEF o
      <4>2. PlaceOK(client', dram', o2, id)
        BY <1>7, <3>1, <3>3, <4>1, PlaceKept
      <4>3. QED BY <4>2 DEF o2
    <3>4. CASE o2.status = "Committed" /\ o.status # "Committed"
      <4>1. client[c].op = "put_end" /\ o.status # "Absent" /\ o2.replicas = o.replicas
        BY <3>1, <3>4
      <4>2. c \in Writers /\ client[c].at # None
        BY <1>3, <4>1 DEF RecordOK, WriterOps, Writers
      <4>3. PICK w \in Writers : ClientId[w] = id /\ client[w].at # None /\ o.replicas = {client[w].place}
        BY <2>1, <4>1 DEF PlaceOK, o
      <4>4. client'[w].at # None /\ client'[w].place = client[w].place
        BY <1>7, <4>3 DEF Kept
      <4>5. OwnCommit(client', id) => w = c
        BY <1>7, <2>4, <4>2, <4>3 DEF OwnCommit, Kept, SoleWriter, Writers, PlacingInv, PairOK
      <4>6. client'[c].op # "put_start" /\ Written(client', dram', c)
        BY <1>7, <4>1, <4>2 DEF WriterInv, WriterOK, Kept
      <4>7. PlaceOK(client', dram', o2, id)
        BY <4>1, <4>3, <4>4, <4>5, <4>6 DEF PlaceOK
      <4>8. QED BY <4>7 DEF o2
    <3>5. QED BY <3>2, <3>3, <3>4
  <2>5. QED BY <2>2, <2>3, <2>4
<1>10. ASSUME NEW n \in Masters PROVE PlacesOK(client', dram', mem'[n])
  <2>1. CASE n = m
    BY <1>9, <2>1 DEF PlacesOK
  <2>2. CASE n # m
    <3>1. mem'[n] = mem[n] /\ PlacesOK(client, dram, mem[n])
      BY <1>1, <1>3, <2>2 DEF WriterInv
    <3>2. QED BY <1>7, <3>1, PlacesKept
  <2>3. QED BY <2>1, <2>2
<1>11. QED BY <1>2, <1>4, <1>7, <1>8, <1>10, WriterMove

\* Steps that change no Master's memory.
LEMMA SamePlaces ==
  ASSUME WriterInv, Kept(client, dram, client', dram'), mem' = mem
  PROVE  \A m \in Masters : PlacesOK(client', dram', mem'[m])
<1> SUFFICES ASSUME NEW m \in Masters PROVE PlacesOK(client', dram', mem'[m])
  OBVIOUS
<1>1. PlacesOK(client, dram, mem[m]) /\ mem'[m] = mem[m]
  BY DEF WriterInv
<1>2. QED BY <1>1, PlacesKept

\* A snapshot has the places of a memory.
LEMMA WriterTakeSnapshot ==
  ASSUME BaseInv, WriterInv, NEW c \in Clients, TakeSnapshot(c)
  PROVE  WriterInv'
<1>1. PICK r : Moves(c, r) /\ Snapped(c, r)
  BY SnapshotSteps
<1>2. client[c].phase = "applied" /\ client[c].at \in Masters /\ client[c].at # None
  BY SnapshotSteps, NoneAssumption
<1>3. etcdMetadata' = etcdMetadata /\ mem' = mem /\ dram' = dram
  BY DEF TakeSnapshot
<1>4. Onward(client[c], r) /\ r.op = client[c].op /\ r.snap.objects = mem[client[c].at].objects
  BY <1>1 DEF Onward, Snapped
<1>5. Kept(client, dram, client', dram')
  BY <1>1, <1>3, <1>4, MoveKept
<1>6. c \in Writers => WriterOK(client', dram', c)
  BY <1>1, <1>2, <1>3, <1>4, OnwardOK DEF WriterInv
<1>7. PlacesOK(client', dram', r.snap)
  <2>1. PlacesOK(client, dram, mem[client[c].at])
    BY <1>2 DEF WriterInv
  <2>2. QED BY <1>4, <1>5, <2>1, PlacesKept
<1>8. \A m \in Masters : PlacesOK(client', dram', mem'[m])
  BY <1>3, <1>5, SamePlaces
<1>9. QED BY <1>1, <1>3, <1>5, <1>6, <1>7, <1>8, WriterMove

\* So has etcd after the save.
LEMMA WriterAnswer ==
  ASSUME BaseInv, WriterInv, NEW c \in Clients, NEW m, Save(c) \/ SaveFails(c) \/ Refuse(m, c)
  PROVE  WriterInv'
<1>1. PICK r : Moves(c, r) /\ (Errs(client[c], r) \/ Works(client[c], r))
  BY AnswerSteps
<1>2. RecordOK(c, client[c])
  BY DEF BaseInv, CallsOK, CallOK
<1>3. mem' = mem /\ dram' = dram
  BY DEF Save, SaveFails, Refuse
<1>4. etcdMetadata' = etcdMetadata \/ (etcdMetadata' = client[c].snap /\ etcdMetadata' # None)
  BY <1>2, NoneAssumption DEF Save, SaveFails, Refuse, RecordOK
<1>5. /\ Onward(client[c], r) /\ r.snap = None /\ (r.op = "put_end" => client[c].op = "put_end")
      /\ client'[c] = r /\ r.at = client[c].at
  BY <1>1 DEF Onward, Errs, Works, Moves
<1>6. Kept(client, dram, client', dram')
  BY <1>1, <1>3, <1>5, MoveKept
<1>7. c \in Writers => WriterOK(client', dram', c)
  <2> SUFFICES ASSUME c \in Writers PROVE WriterOK(client', dram', c)
    OBVIOUS
  <2>1. WriterOK(client, dram, c)
    BY DEF WriterInv
  <2>2. CASE client[c].at # None
    BY <1>1, <1>3, <1>5, <2>1, <2>2, OnwardOK
  <2>3. CASE client[c].at = None
    BY <1>2, <1>5, <2>3 DEF RecordOK, WriterOK
  <2>4. QED BY <2>2, <2>3
<1>8. \A n \in Masters : PlacesOK(client', dram', mem'[n])
  BY <1>3, <1>6, SamePlaces
<1>9. QED BY <1>1, <1>3, <1>4, <1>5, <1>6, <1>7, <1>8, WriterMove

\* The write happens before anything can be committed.
LEMMA WriterWrite ==
  ASSUME BaseInv, WriterInv, PlacingInv, NEW c \in Clients, WriteChunkOf(c) \/ WriteFails(c)
  PROVE  WriterInv'
<1>1. PICK r : Moves(c, r) /\ HasWritten(c, r)
  BY WriteSteps
<1>2. client[c].op = "put_start" /\ client[c].at # None /\ c \in Writers /\ dram \in Drams(Bodies)
  BY WriteSteps DEF BaseInv, TypeOK, CallsOK, CallOK, RecordOK, WriterOps, Writers
<1>3. mem' = mem /\ etcdMetadata' = etcdMetadata
  BY DEF WriteChunkOf, WriteFails
<1>4. /\ client'[c] = r /\ r.at = client[c].at /\ r.place = client[c].place /\ r.snap = client[c].snap
  BY <1>1 DEF Moves, HasWritten
<1>5. Kept(client, dram, client', dram')
  <2>1. ASSUME NEW w \in Writers, client[w].at # None, client[w].op # "put_start", Written(client, dram, w)
        PROVE  client'[w] = client[w] /\ Written(client', dram', w)
    <3>1. w # c /\ client'[w] = client[w] /\ client[w].place \in Replica
      BY <1>1, <1>2, <2>1 DEF Moves, Writers, BaseInv, CallsOK, CallOK, RecordOK
    <3>2. /\ client[c].place.offset \in Nat /\ client[w].place.offset \in Nat /\ ObjectLen \in Nat \ {0}
          /\ client[w].place.offset + ObjectLen <= ArenaSize /\ Body(c) \in Bodies
      BY <1>1, <2>1, <3>1, U64MaxAssumption DEF HasWritten, Written, WritePreallocatedOk, Replica, U64
    <3>3. Apart(client[c].place.offset, ObjectLen, client[w].place.offset, ObjectLen)
      BY <1>2, <2>1, <3>1 DEF PlacingInv, PairOK
    <3> DEFINE new == WritePreallocated(dram, client[c].place.offset, ObjectLen, Body(c))
               offset == client[w].place.offset
    <3>4. /\ new.allocations[offset] = dram.allocations[offset]
          /\ \A o \in Span(offset, ObjectLen) : new.arena[o] = dram.arena[o]
      BY <1>2, <3>2, <3>3, WritePreallocatedElsewhere
    <3>5. dram' = dram \/ dram' = new
      BY <1>1 DEF HasWritten
    <3> HIDE DEF new
    <3>6. Holds(dram', offset, ObjectLen, Body(w))
      BY <2>1, <3>4, <3>5 DEF Written, Holds
    <3>7. QED BY <2>1, <3>1, <3>6 DEF Written
  <2>2. ASSUME NEW w \in Writers, client[w].at # None
        PROVE  /\ client'[w].at # None /\ client'[w].place = client[w].place
               /\ client[w].op # "put_start" => client'[w].op # "put_start"
    BY <1>1, <1>2, <1>4, <2>2 DEF Moves, Writers
  <2>3. \A d \in Operators : client'[d] = client[d]
    BY <1>1, <1>2, OperatorAssumption DEF Moves, Writers
  <2>4. \A id : Gone(client, id) => Gone(client', id)
    BY <2>3, StaysGone
  <2>5. QED BY <2>1, <2>2, <2>4 DEF Kept
<1>6. WriterOK(client', dram', c)
  <2>1. ASSUME r.op = "put_end" PROVE Written(client', dram', c)
    <3>1. /\ dram' = WritePreallocated(dram, client[c].place.offset, ObjectLen, Body(c))
          /\ WritePreallocatedOk(client[c].place.offset, ObjectLen, Body(c))
          /\ client[c].place.offset \in Nat /\ ObjectLen \in Nat /\ Body(c) \in Bodies
      BY <1>1, <2>1 DEF HasWritten
    <3>2. Holds(dram', client[c].place.offset, ObjectLen, Body(c))
      BY <1>2, <3>1, WritePreallocatedHolds
    <3>3. QED BY <1>4, <3>1, <3>2 DEF Written
  <2>2. client[c].place.len = ObjectLen
    BY <1>2 DEF WriterInv, WriterOK
  <2>3. QED BY <1>4, <2>1, <2>2 DEF WriterOK
<1>7. \A n \in Masters : PlacesOK(client', dram', mem'[n])
  BY <1>3, <1>5, SamePlaces
<1>8. QED BY <1>1, <1>2, <1>3, <1>4, <1>5, <1>6, <1>7, WriterMove

\* The crash of a standby concerns nobody.
LEMMA StandbyCrash ==
  ASSUME BaseInv, ServiceInv, FirstLeader', NEW m \in Masters, Crash(m)
  PROVE  /\ client' = client /\ etcdMetadata' = etcdMetadata /\ dram' = dram /\ etcdLeader' = etcdLeader
         /\ etcdLeader # BindAddr[m]
         /\ mem' = [mem EXCEPT ![m] = NewMaster] /\ mem \in [Masters -> MasterStates]
         /\ proc' = [proc EXCEPT ![m] = "down"] /\ proc \in [Masters -> {"down", "elected", "up"}]
<1>1. /\ mem \in [Masters -> MasterStates] /\ proc \in [Masters -> {"down", "elected", "up"}]
      /\ crashes \in [Masters -> 0..MaxCrashes] /\ client \in [Clients -> ClientStates]
  BY DEF BaseInv, TypeOK
<1>2. /\ etcdLeader' = etcdLeader /\ dram' = dram /\ crashes' = [crashes EXCEPT ![m] = crashes[m] + 1]
      /\ mem' = [mem EXCEPT ![m] = NewMaster] /\ proc' = [proc EXCEPT ![m] = "down"]
  BY <1>1 DEF Crash
<1>3. etcdLeader # BindAddr[m]
  BY <1>1, <1>2, DeploymentAssumption DEF FirstLeader
<1>4. InProgress(m) = {}
  BY <1>3, NoneAssumption DEF InProgress, ServiceInv
<1>5. client' = client /\ etcdMetadata' = etcdMetadata
  BY <1>1, <1>4 DEF Crash
<1>6. QED BY <1>1, <1>2, <1>3, <1>5

\* A Master that comes, goes or answers a read leaves what is placed in its place.
LEMMA WriterMaster ==
  ASSUME WriterInv, client' = client, etcdMetadata' = etcdMetadata, dram' = dram,
         NEW m \in Masters, NEW new, PlacesOK(client, dram, new),
         \A n \in Masters : mem'[n] = IF n = m THEN new ELSE mem[n]
  PROVE  WriterInv'
BY DEF WriterInv

\* Masters start, load, answer reads and, while they are standbys, crash, without
\* touching an object.
LEMMA WriterRest ==
  ASSUME BaseInv, ServiceInv, WriterInv, FirstLeader', NEW m \in Masters,
         Elect(m) \/ Load(m) \/ Crash(m) \/ \E id \in Ids : Get(m, id)
  PROVE  WriterInv'
<1>1. mem \in [Masters -> MasterStates] /\ PlacesOK(client, dram, mem[m])
  BY DEF BaseInv, TypeOK, WriterInv
<1>2. Kept(client, dram, client, dram)
  BY DEF Kept
<1>3. CASE Elect(m)
  BY <1>3 DEF Elect, WriterInv
<1>4. CASE Load(m)
  <2>1. PICK new \in MasterStates : /\ mem' = [mem EXCEPT ![m] = new]
                                    /\ IF etcdMetadata = None THEN new.objects = NewMaster.objects
                                                              ELSE new.objects = etcdMetadata.objects
    BY <1>4, LoadSteps
  <2>2. PlacesOK(client, dram, new)
    <3>1. CASE etcdMetadata = None
      BY <1>2, <2>1, <3>1, NewMasterPlaces, PlacesKept
    <3>2. CASE etcdMetadata # None
      BY <1>2, <2>1, <3>2, PlacesKept DEF WriterInv
    <3>3. QED BY <3>1, <3>2
  <2>3. \A n \in Masters : mem'[n] = IF n = m THEN new ELSE mem[n]
    BY <1>1, <2>1
  <2>4. client' = client /\ etcdMetadata' = etcdMetadata /\ dram' = dram
    BY <1>4 DEF Load
  <2>5. QED BY <2>2, <2>3, <2>4, WriterMaster
<1>5. CASE Crash(m)
  <2>1. /\ client' = client /\ etcdMetadata' = etcdMetadata /\ dram' = dram
        /\ mem' = [mem EXCEPT ![m] = NewMaster]
    BY <1>5, StandbyCrash
  <2>2. \A n \in Masters : mem'[n] = IF n = m THEN NewMaster ELSE mem[n]
    BY <1>1, <2>1
  <2>3. QED BY <2>1, <2>2, NewMasterPlaces, WriterMaster
<1>6. ASSUME NEW id \in Ids, Get(m, id) PROVE WriterInv'
  <2>1. client' = client /\ etcdMetadata' = etcdMetadata /\ dram' = dram
    BY <1>6 DEF Get
  <2>2. \A n \in Masters : mem'[n] = IF n = m THEN mem'[m] ELSE mem[n]
    BY <1>1, <1>6 DEF Get
  <2>3. PlacesOK(client, dram, mem'[m])
    BY <1>1, <1>2, <1>6, GetSteps, PlacesKept
  <2>4. QED BY <2>1, <2>2, <2>3, WriterMaster
<1>7. QED BY <1>3, <1>4, <1>5, <1>6

\* A step that gives nobody a place and writes no chunk leaves the placing alone,
\* if the leader's memory keeps its objects and its pointer.
LEMMA PlacingSame ==
  ASSUME PlacingInv, etcdLeader' = etcdLeader, dram' = dram,
         \A id : Gone(client, id) => Gone(client', id),
         \A c \in Clients : client'[c].at = client[c].at /\ client'[c].place = client[c].place,
         \A m \in Masters : etcdLeader = BindAddr[m] /\ Serving =>
           /\ mem'[m].segments = mem[m].segments /\ mem'[m].objects = mem[m].objects,
         Serving => Serving', Serving \/ etcdMetadata' = etcdMetadata
  PROVE  PlacingInv'
<1>1. \A w \in Writers : client'[w].at = client[w].at /\ client'[w].place = client[w].place
  BY DEF Writers
<1>2. ~Serving' => etcdMetadata' = None /\ \A c \in Clients : client'[c].at = None
  BY DEF PlacingInv
<1>3. ASSUME NEW m \in Masters, NEW w \in Writers, etcdLeader' = BindAddr[m]
      PROVE  BelowPointer(client', mem'[m], w)
  <2>1. CASE Serving
    <3>1. /\ BelowPointer(client, mem[m], w) /\ mem'[m].segments = mem[m].segments
          /\ mem'[m].objects = mem[m].objects
      BY <1>3, <2>1 DEF PlacingInv
    <3>2. QED BY <1>1, <3>1 DEF BelowPointer
  <2>2. CASE ~Serving
    BY <1>1, <2>2 DEF PlacingInv, BelowPointer, Writers
  <2>3. QED BY <2>1, <2>2
<1>4. \A w, v \in Writers : PairOK(client', w, v)
  BY <1>1 DEF PlacingInv, PairOK
<1>5. \A o \in Offsets : ChecksumOK(client', dram', o)
  BY <1>1 DEF PlacingInv, ChecksumOK
<1>6. QED BY <1>2, <1>3, <1>4, <1>5 DEF PlacingInv

\* Masters that start, load, answer reads or, while they are standbys, crash.
LEMMA PlacingRest ==
  ASSUME BaseInv, ServiceInv, PlacingInv, FirstLeader', NEW m \in Masters,
         Elect(m) \/ Load(m) \/ Crash(m) \/ \E id \in Ids : Get(m, id)
  PROVE  PlacingInv'
<1>1. mem \in [Masters -> MasterStates] /\ proc \in [Masters -> {"down", "elected", "up"}]
  BY DEF BaseInv, TypeOK
<1>2. CASE Elect(m)
  <2>1. /\ client' = client /\ etcdMetadata' = etcdMetadata /\ dram' = dram /\ mem' = mem
        /\ proc[m] = "down" /\ proc' = [proc EXCEPT ![m] = "elected"]
        /\ etcdLeader' = IF etcdLeader = None THEN BindAddr[m] ELSE etcdLeader
    BY <1>2 DEF Elect
  <2>2. CASE etcdLeader # None
    <3>1. etcdLeader' = etcdLeader /\ (Serving => Serving')
      BY <1>1, <2>1, <2>2 DEF Serving
    <3>2. QED BY <2>1, <3>1, PlacingSame
  <2>3. CASE etcdLeader = None
    <3>1. etcdMetadata = None /\ \A c \in Clients : client[c].at = None
      BY <2>3, AddressAssumption DEF PlacingInv, Serving
    <3>2. \A w \in Writers : client[w].at = None
      BY <3>1 DEF Writers
    <3>3. QED BY <2>1, <3>1, <3>2 DEF PlacingInv, BelowPointer, PairOK, ChecksumOK
  <2>4. QED BY <2>2, <2>3
<1>3. CASE Load(m)
  <2>1. /\ client' = client /\ etcdMetadata' = etcdMetadata /\ dram' = dram /\ etcdLeader' = etcdLeader
        /\ proc[m] = "elected" /\ proc' = [proc EXCEPT ![m] = "up"]
        /\ \A n \in Masters \ {m} : mem'[n] = mem[n]
    BY <1>1, <1>3 DEF Load
  <2>2. Serving => Serving' /\ etcdLeader # BindAddr[m]
    BY <1>1, <2>1, AddressAssumption DEF Serving
  <2>3. QED BY <2>1, <2>2, PlacingSame
<1>4. CASE Crash(m)
  <2>1. /\ client' = client /\ etcdMetadata' = etcdMetadata /\ dram' = dram /\ etcdLeader' = etcdLeader
        /\ etcdLeader # BindAddr[m]
        /\ mem' = [mem EXCEPT ![m] = NewMaster] /\ proc' = [proc EXCEPT ![m] = "down"]
    BY <1>4, StandbyCrash
  <2>2. \A n \in Masters \ {m} : mem'[n] = mem[n] /\ proc'[n] = proc[n]
    BY <1>1, <2>1
  <2>3. Serving => Serving'
    BY <2>1, <2>2 DEF Serving
  <2>4. QED BY <2>1, <2>2, <2>3, PlacingSame
<1>5. ASSUME NEW id \in Ids, Get(m, id) PROVE PlacingInv'
  <2>1. /\ client' = client /\ etcdMetadata' = etcdMetadata /\ dram' = dram /\ etcdLeader' = etcdLeader
        /\ proc' = proc
    BY <1>5 DEF Get
  <2>2. Serving => Serving'
    BY <2>1 DEF Serving
  <2>3. QED BY <1>5, <2>1, <2>2, GetSteps, PlacingSame
<1>6. QED BY <1>2, <1>3, <1>4, <1>5

\* Snapshots and answers.
LEMMA PlacingAnswer ==
  ASSUME BaseInv, ServiceInv, PlacingInv, NEW c \in Clients, NEW m,
         TakeSnapshot(c) \/ Save(c) \/ SaveFails(c) \/ Refuse(m, c)
  PROVE  PlacingInv'
<1>1. PICK r : Moves(c, r) /\ (Snapped(c, r) \/ Errs(client[c], r) \/ Works(client[c], r))
  BY AnswerSteps, SnapshotSteps
<1>2. mem' = mem /\ dram' = dram /\ etcdLeader' = etcdLeader /\ proc' = proc
  BY DEF TakeSnapshot, Save, SaveFails, Refuse
<1>3. \A d \in Clients : client'[d].at = client[d].at /\ client'[d].place = client[d].place
  BY <1>1 DEF Moves, Snapped, Errs, Works
<1>4. Onward(client[c], r)
  BY <1>1 DEF Onward, Snapped, Errs, Works
<1>5. \A id : Gone(client, id) => Gone(client', id)
  BY <1>1, <1>2, <1>4, MoveKept DEF Kept
<1>6. Serving \/ etcdMetadata' = etcdMetadata
  <2>1. CASE client[c].phase = "saving"
    BY <2>1, NoneAssumption DEF PlacingInv, BaseInv, CallsOK, CallOK, RecordOK
  <2>2. CASE client[c].phase # "saving"
    BY <2>2 DEF TakeSnapshot, Save, SaveFails, Refuse
  <2>3. QED BY <2>1, <2>2
<1>7. Serving => Serving'
  BY <1>2 DEF Serving
<1>8. QED BY <1>2, <1>3, <1>5, <1>6, <1>7, PlacingSame

\* The checksum of a chunk that is written is that of its owner's body.
LEMMA PlacingWrite ==
  ASSUME BaseInv, PlacingInv, NEW c \in Clients, WriteChunkOf(c) \/ WriteFails(c)
  PROVE  PlacingInv'
<1>1. PICK r : Moves(c, r) /\ HasWritten(c, r)
  BY WriteSteps
<1>2. client[c].op = "put_start" /\ client[c].at # None /\ c \in Writers /\ dram \in Drams(Bodies)
  BY WriteSteps DEF BaseInv, TypeOK, CallsOK, CallOK, RecordOK, WriterOps, Writers
<1>3. mem' = mem /\ etcdMetadata' = etcdMetadata /\ etcdLeader' = etcdLeader /\ proc' = proc
  BY DEF WriteChunkOf, WriteFails
<1>4. \A d \in Clients : client'[d].at = client[d].at /\ client'[d].place = client[d].place
  BY <1>1 DEF Moves, HasWritten
<1>5. \A d \in Writers : client'[d].at = client[d].at /\ client'[d].place = client[d].place
  BY <1>4 DEF Writers
<1>6. \A d \in Operators : client'[d] = client[d]
  BY <1>1, <1>2, OperatorAssumption DEF Moves, Writers
<1>7. \A id : Gone(client, id) => Gone(client', id)
  BY <1>6, StaysGone
<1>8. ASSUME NEW o \in Offsets PROVE ChecksumOK(client', dram', o)
  <2> DEFINE offset == client[c].place.offset
             new == WritePreallocated(dram, offset, ObjectLen, Body(c))
  <2>1. /\ offset \in Nat /\ ObjectLen \in Nat /\ Body(c) \in Bodies
        /\ dram' = dram \/ dram' = new
    BY <1>1 DEF HasWritten
  <2>2. ChecksumOK(client', dram, o)
    BY <1>5 DEF PlacingInv, ChecksumOK
  <2>3. CASE dram' = dram
    BY <2>2, <2>3
  <2>4. CASE dram' = new /\ ~WritePreallocatedOk(offset, ObjectLen, Body(c))
    <3>1. dram' = dram
      BY <2>4 DEF WritePreallocated
    <3>2. QED BY <2>2, <3>1
  <2>5. CASE dram' = new /\ WritePreallocatedOk(offset, ObjectLen, Body(c))
    <3>1. WroteChunk(dram, new, offset, ObjectLen, Body(c))
      BY <1>2, <2>1, <2>5, WritePreallocatedEffect
    <3> HIDE DEF new
    <3>2. CASE o = offset
      <4>1. dram'.allocations[o].checksum = Body(c)
        BY <2>5, <3>1, <3>2 DEF WroteChunk
      <4>2. client'[c].at # None /\ client'[c].place.offset = o
        BY <1>2, <1>4, <3>2
      <4>3. QED BY <1>2, <4>1, <4>2 DEF ChecksumOK
    <3>3. CASE o # offset
      <4>1. dram'.allocations[o] = dram.allocations[o]
        BY <2>5, <3>1, <3>3 DEF WroteChunk
      <4>2. QED BY <2>2, <4>1 DEF ChecksumOK
    <3>4. QED BY <3>2, <3>3
  <2>6. QED BY <2>1, <2>3, <2>4, <2>5
<1>9. \A w, v \in Writers : PairOK(client', w, v)
  BY <1>5, <1>7 DEF PlacingInv, PairOK
<1>10. ASSUME NEW n \in Masters, NEW w \in Writers, etcdLeader' = BindAddr[n]
       PROVE  BelowPointer(client', mem'[n], w)
  <2>1. BelowPointer(client, mem[n], w) /\ mem'[n] = mem[n]
    BY <1>3, <1>10 DEF PlacingInv
  <2>2. QED BY <1>5, <1>7, <2>1 DEF BelowPointer
<1>11. ~Serving' => etcdMetadata' = None /\ \A d \in Clients : client'[d].at = None
  BY <1>3, <1>4 DEF PlacingInv, Serving
<1>12. QED BY <1>8, <1>9, <1>10, <1>11 DEF PlacingInv

\* put_start gives a place behind all the others, for an object the leader has not,
\* or no more; a handler that makes the leader forget an object is a remove.
LEMMA PlacingHandle ==
  ASSUME BaseInv, ServiceInv, PlacingInv, FirstLeader, FirstLeader',
         NEW m \in Masters, NEW c \in Clients, Handle(m, c)
  PROVE  PlacingInv'
<1> DEFINE id == ClientId[c]
           old == mem[m]
           new == mem'[m]
<1>1. /\ new = OpResult(old, c) /\ old \in MasterStates /\ new \in MasterStates
      /\ OpFrame(client[c].op, OpOk(old, c), old, new, id)
      /\ client[c].phase = "call"
      /\ ~OpOk(old, c) => \E r : Moves(c, r) /\ Errs(client[c], r)
      /\ OpOk(old, c) => \E r : Moves(c, r) /\ Applied(m, c, r)
  BY HandleSteps
<1>2. /\ proc[m] = "up" /\ etcdLeader = BindAddr[m] /\ etcdLeader' = etcdLeader /\ proc' = proc /\ dram' = dram
      /\ \A n \in Masters : etcdLeader = BindAddr[n] => n = m
  BY HandlerLeads, AddressAssumption DEF Handle
<1>3. /\ RecordOK(c, client[c]) /\ (c \in Writers <=> c \notin Operators)
      /\ \A w \in Writers : w \in Clients /\ ClientId[w] \in Ids /\ RecordOK(w, client[w])
  BY ClientAssumption DEF BaseInv, CallsOK, CallOK, Writers
<1>4. Grows(client[c].op, OpOk(old, c), old, new, id)
  BY <1>1, OpGrows DEF BaseInv, BooksOK
<1>5. PICK r : /\ Moves(c, r)
               /\ \/ Errs(client[c], r) /\ ~OpOk(old, c)
                  \/ Applied(m, c, r) /\ OpOk(old, c)
  BY <1>1
<1>6. Onward(client[c], r) /\ client'[c] = r /\ \A d \in Clients \ {c} : client'[d] = client[d]
  <2>1. client'[c] = r /\ \A d \in Clients \ {c} : client'[d] = client[d]
    BY <1>5 DEF Moves
  <2>2. Onward(client[c], r)
    <3>1. CASE Errs(client[c], r)
      BY <3>1 DEF Onward, Errs
    <3>2. CASE Applied(m, c, r)
      <4>1. client[c].op = "put_start" => client[c].at = None
        BY <1>1, <1>3 DEF RecordOK
      <4>2. r.op = client[c].op /\ r.phase = "applied" /\ r.at # None
            /\ (client[c].op # "put_start" => r.place = client[c].place)
        BY <3>2, NoneAssumption DEF Applied
      <4>3. QED BY <4>1, <4>2 DEF Onward
    <3>3. QED BY <1>5, <3>1, <3>2
  <2>3. QED BY <2>1, <2>2
<1>7. Kept(client, dram, client', dram')
  BY <1>2, <1>5, <1>6, MoveKept
<1>8. Len(old.segments) = 1
  <2> DEFINE n == Len(old.segments)
  <2>1. old.segments \in Seq(Segment) /\ old.segments # <<>> /\ n <= 1
    BY <1>1, <1>2 DEF MasterStates, ServiceInv, FirstLeader
  <2>2. n \in Nat /\ n # 0
    BY <2>1
  <2> HIDE DEF n
  <2>3. n = 1
    BY <2>1, <2>2
  <2>4. QED BY <2>3 DEF n
<1>9. /\ old.segments[1].next \in Nat /\ new.segments[1].next \in Nat
      /\ old.segments[1].next <= new.segments[1].next
      /\ client[c].op # "remove" =>
           \A x \in Ids : new.objects[x].status = "Absent" => old.objects[x].status = "Absent"
      /\ OpOk(old, c) /\ client[c].op = "put_start" =>
           \A x \in new.objects[id].replicas :
             x.offset = old.segments[1].next /\ new.segments[1].next = x.offset + ObjectLen
  BY <1>4, <1>8 DEF Grows
<1>10. client[c].op = "remove" => Gone(client', id)
  BY <1>3, <1>6 DEF Onward, Gone, RecordOK, WriterOps, Writers
<1>11. ObjectLen \in Nat /\ \A w \in Writers : client[w].at # None => client[w].place.offset \in Nat
  BY <1>3, DeploymentAssumption, U64MaxAssumption DEF RecordOK, Writers, Replica, U64
<1> DEFINE Fresh == c \in Writers /\ client[c].op = "put_start" /\ OpOk(old, c)
<1>12. ASSUME Fresh
       PROVE  /\ client[c].at = None /\ client'[c].place.offset = old.segments[1].next
              /\ new.segments[1].next = old.segments[1].next + ObjectLen
              /\ old.objects[id].status = "Absent" /\ new.objects[id].status = "Reserving"
  <2>1. Applied(m, c, r) /\ client[c].at = None
    BY <1>1, <1>3, <1>5, <1>12 DEF RecordOK
  <2>2. new.objects[id].replicas = {client'[c].place}
    BY <1>6, <1>12, <2>1 DEF Applied
  <2>3. old.objects[id].status = "Absent" /\ new.objects[id].status = "Reserving"
    BY <1>1, <1>12 DEF OpFrame
  <2>4. QED BY <1>9, <1>12, <2>1, <2>2, <2>3
<1>13. ASSUME NEW w \in Writers, client'[w].at # None, ~(w = c /\ Fresh)
       PROVE  client[w].at # None /\ client'[w].place = client[w].place
  <2>1. CASE w # c
    BY <1>3, <1>6, <1>13, <2>1
  <2>2. CASE w = c /\ client[c].at = None
    <3>1. client[c].op = "put_start"
      BY <1>3, <1>13, <2>2 DEF RecordOK, WriterOps, Writers
    <3>2. ~OpOk(old, c)
      BY <1>13, <2>2, <3>1
    <3>3. client'[c].at = None
      BY <1>5, <1>6, <2>2, <3>2 DEF Errs
    <3>4. QED BY <1>13, <2>2, <3>3
  <2>3. CASE w = c /\ client[c].at # None
    BY <1>7, <2>3 DEF Kept
  <2>4. QED BY <2>1, <2>2, <2>3
<1> HIDE DEF Fresh
<1>14. ASSUME NEW w \in Writers, client'[w].at # None, ~(w = c /\ Fresh)
       PROVE  /\ client[w].place.offset + ObjectLen <= old.segments[1].next
              /\ old.objects[ClientId[w]].status = "Absent" => Gone(client', ClientId[w])
  BY <1>2, <1>7, <1>13, <1>14 DEF PlacingInv, BelowPointer, Kept
<1>15. ASSUME NEW w \in Writers PROVE BelowPointer(client', new, w)
  <2>1. CASE client'[w].at # None /\ w = c /\ Fresh
    <3>1. /\ client'[w].place.offset + ObjectLen = new.segments[1].next
          /\ new.objects[ClientId[w]].status # "Absent"
      BY <1>12, <2>1
    <3>2. QED BY <1>9, <3>1 DEF BelowPointer
  <2>2. CASE client'[w].at # None /\ ~(w = c /\ Fresh)
    <3>1. client[w].at # None /\ client'[w].place = client[w].place
      BY <1>13, <2>2
    <3>2. client'[w].place.offset + ObjectLen <= new.segments[1].next
      BY <1>9, <1>11, <1>14, <2>2, <3>1
    <3>3. ASSUME new.objects[ClientId[w]].status = "Absent" PROVE Gone(client', ClientId[w])
      <4>1. CASE client[c].op = "remove" /\ ClientId[w] = id
        BY <1>10, <4>1
      <4>2. CASE client[c].op = "remove" /\ ClientId[w] # id
        <5>1. new.objects[ClientId[w]] = old.objects[ClientId[w]]
          BY <1>1, <1>3, <4>2 DEF OpFrame
        <5>2. QED BY <1>14, <2>2, <3>3, <5>1
      <4>3. CASE client[c].op # "remove"
        BY <1>3, <1>9, <1>14, <2>2, <3>3, <4>3
      <4>4. QED BY <4>1, <4>2, <4>3
    <3>4. QED BY <3>2, <3>3 DEF BelowPointer
  <2>3. QED BY <2>1, <2>2 DEF BelowPointer
<1>16. ASSUME NEW w \in Writers, NEW v \in Writers PROVE PairOK(client', w, v)
  <2> SUFFICES ASSUME w # v, client'[w].at # None, client'[v].at # None
               PROVE  /\ Apart(client'[w].place.offset, ObjectLen, client'[v].place.offset, ObjectLen)
                      /\ ClientId[w] = ClientId[v] => Gone(client', ClientId[w])
    BY DEF PairOK
  <2>1. CASE ~(w = c /\ Fresh) /\ ~(v = c /\ Fresh)
    <3>1. /\ client[w].at # None /\ client'[w].place = client[w].place
          /\ client[v].at # None /\ client'[v].place = client[v].place
      BY <1>13, <2>1
    <3>2. PairOK(client, w, v)
      BY DEF PlacingInv
    <3>3. QED BY <1>7, <3>1, <3>2 DEF PairOK, Kept
  <2>2. CASE w = c /\ Fresh
    <3>1. ~(v = c /\ Fresh)
      BY <2>2
    <3>2. /\ client'[v].place = client[v].place
          /\ client[v].place.offset + ObjectLen <= old.segments[1].next
          /\ old.objects[ClientId[v]].status = "Absent" => Gone(client', ClientId[v])
      BY <1>13, <1>14, <3>1
    <3>3. client'[w].place.offset = old.segments[1].next /\ old.objects[ClientId[w]].status = "Absent"
      BY <1>12, <2>2
    <3>4. QED BY <3>2, <3>3 DEF Apart
  <2>3. CASE v = c /\ Fresh
    <3>1. ~(w = c /\ Fresh)
      BY <2>3
    <3>2. /\ client'[w].place = client[w].place
          /\ client[w].place.offset + ObjectLen <= old.segments[1].next
          /\ old.objects[ClientId[w]].status = "Absent" => Gone(client', ClientId[w])
      BY <1>13, <1>14, <3>1
    <3>3. client'[v].place.offset = old.segments[1].next /\ old.objects[ClientId[v]].status = "Absent"
      BY <1>12, <2>3
    <3>4. QED BY <3>2, <3>3 DEF Apart
  <2>4. QED BY <2>1, <2>2, <2>3
<1>17. \A o \in Offsets : ChecksumOK(client', dram', o)
  BY <1>2, <1>7 DEF PlacingInv, ChecksumOK, Kept
<1>18. Serving'
  BY <1>2 DEF Serving
<1>19. \A n \in Masters, w \in Writers : etcdLeader' = BindAddr[n] => BelowPointer(client', mem'[n], w)
  BY <1>2, <1>15
<1>20. QED BY <1>16, <1>17, <1>18, <1>19 DEF PlacingInv

\* The invariant of the time before the leader restarts.
LEMMA FirstInvariant == Spec => []FirstInv
<1>1. Init => FirstInv
  <2> SUFFICES ASSUME Init PROVE WriterInv /\ PlacingInv
    BY DEF FirstInv
  <2>1. \A c \in Clients : client[c].at = None /\ client[c].snap = None
                           /\ client[c].op \in OperatorOps \cup {"put_start"}
    BY DEF Init
  <2>2. \A w \in Writers : WriterOK(client, dram, w)
    BY <2>1, DeploymentAssumption DEF WriterOK, Writers
  <2>3. \A m \in Masters : PlacesOK(client, dram, mem[m])
    BY NewMasterPlaces DEF Init
  <2>4. WriterInv
    BY <2>1, <2>2, <2>3 DEF WriterInv, Init
  <2>5. \A o \in Offsets : dram.allocations[o].checksum = NoContent
    BY DEF Init, EmptyDram, NoChunk
  <2>6. \A w \in Writers : client[w].at = None
    BY <2>1 DEF Writers
  <2>7. PlacingInv
    BY <2>1, <2>5, <2>6 DEF PlacingInv, Init, BelowPointer, PairOK, ChecksumOK
  <2>8. QED BY <2>4, <2>7
<1>2. BaseInv /\ ServiceInv /\ FirstInv /\ [Next]_vars => FirstInv'
  <2> SUFFICES ASSUME BaseInv, ServiceInv, FirstInv, [Next]_vars, FirstLeader'
               PROVE  WriterInv' /\ PlacingInv'
    BY DEF FirstInv
  <2>1. CASE UNCHANGED vars
    BY <2>1 DEF vars, FirstInv, FirstLeader, WriterInv, PlacingInv, Serving
  <2>2. CASE Next
    <3>1. FirstLeader /\ WriterInv /\ PlacingInv
      BY <2>2, FirstBefore DEF FirstInv
    <3>2. WriterInv'
      BY <2>2, <3>1, WriterRest, WriterHandle, WriterAnswer, WriterTakeSnapshot, WriterWrite DEF Next
    <3>3. PlacingInv'
      BY <2>2, <3>1, PlacingRest, PlacingHandle, PlacingAnswer, PlacingWrite DEF Next
    <3>4. QED BY <3>2, <3>3
  <2>3. QED BY <2>1, <2>2
<1>3. QED BY <1>1, <1>2, BaseInvariant, ServiceInvariant, PTL DEF Spec

\* Until the leader restarts, whatever any Master serves as committed is never read
\* as the bytes of another object, and is there, except after a remove between two
\* writers of it: ServedChunksHold, for every number of Masters, writers and
\* operators, for standbys that start, crash and load when they like, and for saves
\* that fail or overtake each other. The run ha_overlap shows what a restart of the
\* leader does to it.
THEOREM ServedChunksAlwaysHold == Spec => []ServedChunksHold
<1>1. BaseInv /\ FirstInv => ServedChunksHold
  <2> SUFFICES ASSUME BaseInv, WriterInv, PlacingInv, NEW m \in Masters, NEW id \in Ids,
                      mem[m].objects[id].status = "Committed", NEW x \in mem[m].objects[id].replicas
               PROVE  /\ ReadOutcome(dram, x.offset, x.len) = "Ok" =>
                           ReadContent(dram, x.offset, x.len).id = id
                      /\ SoleWriter(id) \/ ~Removed(id) => ReadOutcome(dram, x.offset, x.len) = "Ok"
    BY DEF ServedChunksHold, FirstInv
  <2>1. PICK w \in Writers : /\ ClientId[w] = id /\ client[w].at # None
                             /\ mem[m].objects[id].replicas = {client[w].place}
                             /\ OwnCommit(client, id) => Written(client, dram, w)
    BY DEF WriterInv, PlacesOK, PlaceOK
  <2>2. x = client[w].place /\ x.len = ObjectLen /\ w \in Clients
    BY <2>1 DEF WriterInv, WriterOK, Writers
  <2>3. x \in Replica
    BY <2>1, <2>2 DEF BaseInv, CallsOK, CallOK, RecordOK, Writers
  <2>4. x.offset \in Nat /\ ObjectLen \in Nat
    BY <2>3, DeploymentAssumption, U64MaxAssumption DEF Replica, U64
  <2>5. Proper(Bodies) /\ dram \in Drams(Bodies) /\ Sealed(dram)
    BY NoContentAssumption DEF Proper, BaseInv, TypeOK
  <2>6. ASSUME ReadOutcome(dram, x.offset, x.len) = "Ok"
        PROVE  ReadContent(dram, x.offset, x.len).id = id
    <3>1. /\ ReadContent(dram, x.offset, ObjectLen) = dram.allocations[x.offset].checksum
          /\ ReadContent(dram, x.offset, ObjectLen) \in Bodies
      BY <2>2, <2>4, <2>5, <2>6, ReadOk
    <3>2. x.offset \in Offsets /\ ObjectLen > 0
      BY <2>2, <2>6 DEF ReadOutcome, ValidHandle
    <3>3. dram.allocations[x.offset].checksum # NoContent
      BY <3>1, <2>5 DEF Proper
    <3>4. PICK v \in Writers : /\ client[v].at # None /\ client[v].place.offset = x.offset
                               /\ dram.allocations[x.offset].checksum = Body(v)
      BY <3>2, <3>3 DEF PlacingInv, ChecksumOK
    <3>5. v = w
      BY <2>1, <2>2, <2>4, <3>2, <3>4 DEF PlacingInv, PairOK, Apart
    <3>6. QED BY <2>1, <2>2, <3>1, <3>4, <3>5 DEF Body
  <2>7. ASSUME SoleWriter(id) \/ ~Removed(id) PROVE ReadOutcome(dram, x.offset, x.len) = "Ok"
    <3>1. Written(client, dram, w)
      BY <2>1, <2>7 DEF OwnCommit, Gone, Removed
    <3>2. /\ ObjectLen \in Nat \ {0} /\ x.offset + ObjectLen <= ArenaSize
          /\ Body(w) \in Bodies /\ Holds(dram, x.offset, ObjectLen, Body(w))
      BY <2>2, <2>4, <3>1 DEF Written, WritePreallocatedOk, Bodies
    <3>3. QED BY <2>2, <2>4, <2>5, <3>2, ReadHolds
  <2>8. QED BY <2>6, <2>7
<1>2. QED BY <1>1, BaseInvariant, FirstInvariant, PTL

=============================================================================
